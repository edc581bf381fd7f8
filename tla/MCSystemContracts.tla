------------------------- MODULE MCSystemContracts -------------------------
(* Instances of SystemContracts for TLC. *)
EXTENDS SystemContracts

MCGenesis == <<1, 2>>

=============================================================================
