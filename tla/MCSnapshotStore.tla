-------------------------- MODULE MCSnapshotStore --------------------------
(* Instances of SnapshotStore for TLC. *)
EXTENDS SnapshotStore, TLC

CONSTANT MaxShared  \* bound: blocks of a tree over which calls run side by side

\* A set replaced by one of its size, and one that grows and shrinks.
MCSets == {{1, 2}, {2, 3}}
MCGrow == {{1}, {1, 2}}

Symmetry == Permutations(Callers)

\* Constraint: over a longer chain one call runs at a time, the chain has one
\* block beside it, at the first number that can be trusted, and from the second
\* epoch on one set is announced.
Narrow ==
    \/ Cardinality(Block) <= MaxShared
    \/ /\ Cardinality({p \in Callers : call[p] # Idle}) <= 1
       /\ \E b \in Block : Cardinality(Block) <= header[b].number + 2
       /\ \A b, c \in Block : b # c /\ header[b].number = header[c].number
             => header[b].number = Epoch
       /\ \A b \in Block : header[b].number >= 2 * Epoch => header[b].set = {1, 2}

=============================================================================
