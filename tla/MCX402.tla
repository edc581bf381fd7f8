------------------------------- MODULE MCX402 -------------------------------
(* Instances of X402 for TLC. *)
EXTENDS X402

\* Two payments of one nonce and one of another, with windows that open and end.
MCPayments == {[key |-> 1, validAfter |-> 0, validBefore |-> 1],
               [key |-> 1, validAfter |-> 1, validBefore |-> 2],
               [key |-> 2, validAfter |-> 0, validBefore |-> 2]}

=============================================================================
