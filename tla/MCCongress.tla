----------------------------- MODULE MCCongress -----------------------------
(* Instances of Congress for TLC. *)
EXTENDS Congress

MCFixed == {{1, 2, 3}}
MCChange == {{1, 2, 3}, {1, 2, 3, 4}}

=============================================================================
