----------------------------- MODULE MCRewards -----------------------------
(* Instances of Rewards for TLC. *)
EXTENDS Rewards

MCOne == <<1>>
MCGenesis == <<1, 2>>

=============================================================================
