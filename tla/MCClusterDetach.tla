--------------------------- MODULE MCClusterDetach ---------------------------
(* Instances of ClusterDetach for TLC. *)
EXTENDS ClusterDetach

(* Default mode, nothing goes wrong; the cluster is in the given state. *)
Plain(state) ==
    [hosted |-> FALSE, crds |-> TRUE, addons |-> FALSE, strips |-> FALSE,
     initially |-> state, flips |-> 0, failures |-> 0]

InHostedMode(s) == [s EXCEPT !.hosted = TRUE]

(* Default mode: available; not accepted; unreachable, with an addon that    *)
(* may be enabled just before the deletion; unreachable, where a user strips *)
(* the finalizers and a call of the cleanup fails.  Hosted mode: available.  *)
EveryWayOut ==
    {Plain("available"), InHostedMode(Plain("available")),
     [Plain("pending") EXCEPT !.crds = FALSE],
     [Plain("unavailable") EXCEPT !.crds = FALSE, !.addons = TRUE],
     [Plain("unavailable") EXCEPT !.crds = FALSE, !.strips = TRUE,
                                  !.failures = 1]}

(* Hosted mode with addons; the managed cluster may become unreachable. *)
HostedWithAddons ==
    {[InHostedMode(Plain("available")) EXCEPT !.addons = TRUE, !.flips = 1]}

(* Hosted mode; the cluster is not accepted. *)
HostedPending == {InHostedMode(Plain("pending"))}
=============================================================================
