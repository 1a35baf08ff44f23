----------------------------- MODULE Detachment -----------------------------
(***************************************************************************)
(* What detaching promises.  A cluster that is to go loses its works, those*)
(* on the hosting cluster in order; its namespace ends only when no work is*)
(* left in it, and the cluster goes only when no work is left anywhere.    *)
(* There is no way back.                                                   *)
(***************************************************************************)
CONSTANTS
    Before          \* the works that a work on the hosting cluster waits for

VARIABLES
    stage,          \* "attached", "detaching", "gone"
    works, hosting, \* the works in its namespace, in the hosting cluster's
    kept            \* the namespace is not being deleted

vars == <<stage, works, hosting, kept>>

Init == stage = "attached" /\ works = {} /\ hosting = {} /\ kept = TRUE

Attached ==
    /\ stage = "attached"
    /\ UNCHANGED <<stage, kept>>

Request ==
    /\ stage = "attached" /\ stage' = "detaching"
    /\ UNCHANGED <<works, hosting, kept>>

Remove ==
    /\ stage = "detaching"
    /\ works' \subseteq works /\ hosting' \subseteq hosting
    /\ \A w \in hosting \ hosting' : Before[w] \cap hosting = {}
    /\ UNCHANGED <<stage, kept>>

EndNamespace ==
    /\ stage # "attached" /\ works = {}
    /\ kept /\ kept' = FALSE
    /\ UNCHANGED <<stage, works, hosting>>

Go ==
    /\ stage = "detaching" /\ stage' = "gone"
    /\ works = {} /\ hosting = {}
    /\ UNCHANGED <<works, hosting, kept>>

Next == Attached \/ Request \/ Remove \/ EndNamespace \/ Go

Spec == Init /\ [][Next]_vars
=============================================================================
