------------------------------ MODULE Proposal ------------------------------
(***************************************************************************)
(* The Proposal contract: votes of the active validators on letting an     *)
(* address stake again.  A proposal that passes reactivates its            *)
(* destination in the Validators contract; that call is made by the module *)
(* that composes the contracts.  The mapping pass is written and never     *)
(* read, and is left out, and so is slashing.isJailed: no evidence is ever *)
(* recorded, because removeValidator refuses the Slashing contract and     *)
(* reverts the report.                                                     *)
(***************************************************************************)
EXTENDS Integers, FiniteSets

CONSTANTS
    Ids,                    \* proposal ids: hashes of what createProposal is given
    proposalLastingPeriod   \* in blocks: the block time is constant

ASSUME ProposalAssumption == proposalLastingPeriod \in Nat

VARIABLES
    proposals,           \* id -> ProposalInfo, with the accounts that voted
    lastProposalActive   \* validator -> BOOLEAN

proposalVars == <<proposals, lastProposalActive>>

NoProposal == [createTime |-> 0]

Exists(id) == proposals[id].createTime # 0

NoProposals(V) ==
    /\ proposals = [id \in Ids |-> NoProposal]
    /\ lastProposalActive = [v \in V |-> FALSE]

createProposal(dst, id, time) ==
    /\ ~ lastProposalActive[dst]
    /\ ~ Exists(id)
    /\ proposals' = [proposals EXCEPT ![id] =
          [createTime |-> time, dst |-> dst, voters |-> {},
           agree |-> 0, reject |-> 0, resultExist |-> FALSE]]
    /\ lastProposalActive' = [lastProposalActive EXCEPT ![dst] = TRUE]

\* Not expired at this time.
Votable(id, time) ==
    Exists(id) /\ time < proposals[id].createTime + proposalLastingPeriod

\* The proposal with the vote counted.
Tally(id, voter, auth) ==
    [proposals[id] EXCEPT !.voters = @ \cup {voter},
                          !.agree  = IF auth THEN @ + 1 ELSE @,
                          !.reject = IF auth THEN @ ELSE @ + 1]

Majority(n, size) == n >= (size \div 2) + 1

\* A vote on this proposal may still decide something.
Open(id) == lastProposalActive[proposals[id].dst] /\ ~ proposals[id].resultExist

\* This vote passes the proposal: the destination is to be reactivated.
Passes(id, voter, auth, size) ==
    Open(id) /\ Majority(Tally(id, voter, auth).agree, size)

\* size is the number of active validators, of which voter is one.
voteProposal(id, voter, auth, time, size) ==
    LET p       == Tally(id, voter, auth)
        passes  == Passes(id, voter, auth, size)
        rejects == Open(id) /\ Majority(p.reject, size)
    IN  /\ Votable(id, time)
        /\ voter \notin proposals[id].voters
        /\ proposals' = [proposals EXCEPT ![id] =
              [p EXCEPT !.resultExist = @ \/ passes \/ rejects]]
        /\ lastProposalActive' =
              IF passes THEN [lastProposalActive EXCEPT ![p.dst] = FALSE]
                        ELSE lastProposalActive

=============================================================================
