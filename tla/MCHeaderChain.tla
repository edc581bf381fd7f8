--------------------------- MODULE MCHeaderChain ---------------------------
(* Instances of HeaderChain for TLC. *)
EXTENDS HeaderChain

\* Every validator count from 1 to 5, with expansion, reduction and
\* replacement between them.
MCSets == {{1}, {1, 2}, {1, 2, 3}, {2, 3, 4}, {1, 2, 3, 4}, {1, 2, 3, 4, 5}}

MCTwo == {{1, 2}}

MCFive == {{1, 2, 3, 4, 5}}

=============================================================================
