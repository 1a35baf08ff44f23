---------------------------- MODULE MCAutoImport ----------------------------
(* Instances of AutoImport for TLC. *)
EXTENDS AutoImport

(* Secrets of every kind: one that works, one of which no client can be    *)
(* made, a ROSA one to be kept (its user may be refused by the managed     *)
(* cluster), an unsupported one.                                           *)
EveryKind ==
    {[kind |-> "kubeconfig", creds |-> "valid", keep |-> FALSE],
     [kind |-> "token", creds |-> "malformed", keep |-> FALSE],
     [kind |-> "rosa", creds |-> "valid", keep |-> TRUE],
     [kind |-> "unsupported", creds |-> "malformed", keep |-> FALSE]}

(* Usable secrets of different kinds. *)
UsableSecrets ==
    {[kind |-> "kubeconfig", creds |-> "valid", keep |-> FALSE],
     [kind |-> "token", creds |-> "valid", keep |-> FALSE]}
=============================================================================
