--------------------------- MODULE MCAddressLists ---------------------------
(* Instances of AddressLists for TLC. *)
EXTENDS AddressLists, TLC

CONSTANTS a, b

\* a as a destination; a both ways.
MCLists == {[from |-> {}, to |-> {a}], [from |-> {a}, to |-> {a}]}
MCNobody == {[from |-> {}, to |-> {}]}

\* Constraint: blocks executed side by side have MaxTxs transactions in all.
Few ==
    \A t, u \in Threads :
        t # u /\ Running(t) /\ Running(u) => thread[t].txs + thread[u].txs <= MaxTxs

Symmetry == Permutations(Threads)

=============================================================================
