------------------------------- MODULE Punish -------------------------------
(***************************************************************************)
(* The missed-block counters of the Punish contract.  Its storage is a     *)
(* record                                                                  *)
(*                                                                         *)
(*    [records |-> validator -> PunishRecord, list |-> punishValidators]   *)
(*                                                                         *)
(* and an operation is a function from storage to storage, because the     *)
(* engine runs two of them at the end of an epoch block.                   *)
(***************************************************************************)
EXTENDS Integers, Sequences, FiniteSets

CONSTANTS
    removeThreshold,        \* missed blocks that jail a validator
    decreaseRate,           \* the counter drops by removeThreshold / this
    MAX_VALIDATORS_PER_TX   \* records decreased in one transaction

ASSUME PunishAssumption ==
    /\ removeThreshold \in Nat \ {0}
    /\ decreaseRate \in Nat \ {0}
    /\ MAX_VALIDATORS_PER_TX \in Nat

NoRecord == [missed |-> 0, index |-> 0, exist |-> FALSE]

NoPunishment(V) == [records |-> [v \in V |-> NoRecord], list |-> <<>>]

\* This miss is the one that jails v.
shouldRemove(P, v) == (P.records[v].missed + 1) % removeThreshold = 0

punish(P, v) ==
    LET r     == P.records[v]
        count == IF shouldRemove(P, v) THEN 0 ELSE r.missed + 1
    IN  [records |-> [P.records EXCEPT ![v] =
                         [missed |-> count,
                          index  |-> IF r.exist THEN r.index ELSE Len(P.list),
                          exist  |-> TRUE]],
         list    |-> IF r.exist THEN P.list ELSE Append(P.list, v)]

\* Mutant: the counter is not compared with the step.
DecreaseUnchecked(P) ==
    LET step      == removeThreshold \div decreaseRate
        processed == {P.list[i] : i \in {j \in 1 .. Len(P.list) :
                                            j <= MAX_VALIDATORS_PER_TX}}
    IN  [P EXCEPT !.records = [v \in DOMAIN P.records |->
           IF v \in processed
           THEN [P.records[v] EXCEPT !.missed = @ - step]
           ELSE P.records[v]]]

decreaseMissedBlocksCounter(P) ==
    LET step      == removeThreshold \div decreaseRate
        processed == {P.list[i] : i \in {j \in 1 .. Len(P.list) :
                                            j <= MAX_VALIDATORS_PER_TX}}
    IN  [P EXCEPT !.records = [v \in DOMAIN P.records |->
           IF v \in processed
           THEN [P.records[v] EXCEPT !.missed = IF @ > step THEN @ - step ELSE 0]
           ELSE P.records[v]]]

\* Mutant: the entry that takes the free place keeps its old index.
CleanKeepsIndex(P, v) ==
    LET i    == P.records[v].index + 1
        last == P.list[Len(P.list)]
    IN  IF P.records[v].exist /\ Len(P.list) > 0
        THEN [records |-> [P.records EXCEPT ![v] = NoRecord],
              list    |-> [j \in 1 .. Len(P.list) - 1 |->
                              IF j = i THEN last ELSE P.list[j]]]
        ELSE [P EXCEPT !.records[v].missed = 0]

cleanPunishRecord(P, v) ==
    LET i    == P.records[v].index + 1
        last == P.list[Len(P.list)]
    IN  IF P.records[v].exist /\ Len(P.list) > 0
        THEN [records |-> [P.records EXCEPT ![last].index = i - 1,
                                            ![v] = NoRecord],
              list    |-> [j \in 1 .. Len(P.list) - 1 |->
                              IF j = i THEN last ELSE P.list[j]]]
        ELSE [P EXCEPT !.records[v].missed = 0]

=============================================================================
