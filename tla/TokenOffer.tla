----------------------------- MODULE TokenOffer -----------------------------
(***************************************************************************)
(* What an import secret promises to the agents that read it: if it offers *)
(* a token that expires, there is time left to use it, and a token that is *)
(* put into it is not due for renewal.                                     *)
(***************************************************************************)
EXTENDS Integers

CONSTANTS Life, Threshold

VARIABLE offer      \* ticks left of the offered token, -1 if there is none

Init == offer = -1

Offer == offer' \in Threshold + 1 .. Life

Age == offer > 1 /\ offer' = offer - 1

Withdraw == offer' = -1

Next == Offer \/ Age \/ Withdraw

Spec == Init /\ [][Next]_offer
=============================================================================
