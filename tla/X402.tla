-------------------------------- MODULE X402 --------------------------------
(***************************************************************************)
(* Settlement of x402 payments by one node: the RPC server runs any number *)
(* of Verify and Settle calls at the same time over one map of used        *)
(* nonces, which is in memory only.  A payment is identified for replay by *)
(* its payer and nonce, its key; payments that differ in anything else may *)
(* share one.  The checks of Verify on the signature, the recipient, the   *)
(* asset and the balance or allowance of the payer depend on the request   *)
(* and on a chain state that changes all the time: their outcome is any.   *)
(***************************************************************************)
EXTENDS Integers, FiniteSets

CONSTANTS
    Calls,       \* goroutines of the RPC server
    Payments,    \* [key, validAfter, validBefore]
    MaxTime,     \* bound: seconds
    MaxRestarts  \* bound: restarts of the node

ASSUME PaymentsAssumption ==
    /\ \A q \in Payments : q.validAfter \in Nat /\ q.validBefore \in Nat
    /\ MaxTime \in Nat /\ MaxRestarts \in Nat

Keys == {q.key : q \in Payments}

VARIABLES
    now,         \* time.Now().Unix()
    usedNonces,
    call,        \* call -> [pc, payment, result]
    restarts,
    passed       \* history: key -> Settle calls past the nonce check since start

vars == <<now, usedNonces, call, restarts, passed>>

\* No call: payments of an idle goroutine are any.
Idle == [pc |-> "idle", payment |-> CHOOSE q \in Payments : TRUE, result |-> "none"]

Init ==
    /\ now = 0
    /\ usedNonces = {}
    /\ call = [c \in Calls |-> Idle]
    /\ restarts = 0
    /\ passed = [k \in Keys |-> 0]

Return(c, r) == call' = [call EXCEPT ![c].pc = "done", ![c].result = r]

Begin(c, q) ==
    /\ call[c].pc \in {"idle", "done"}
    /\ call' = [call EXCEPT ![c] = [pc |-> "verify", payment |-> q, result |-> "none"]]
    /\ UNCHANGED <<now, usedNonces, restarts, passed>>

\* The checks before the nonce is looked up.
VerifyPayment(c, holds) ==
    LET q == call[c].payment
    IN  /\ call[c].pc = "verify"
        /\ IF q.validAfter <= now /\ now <= q.validBefore /\ holds
           THEN call' = [call EXCEPT ![c].pc = "nonce"]
           ELSE Return(c, "invalid")
        /\ UNCHANGED <<now, usedNonces, restarts, passed>>

\* The end of Verify; a Settle goes on.
isNonceUsed(c) ==
    /\ call[c].pc = "nonce"
    /\ IF call[c].payment.key \in usedNonces
       THEN Return(c, "used")
       ELSE call' = [call EXCEPT ![c].pc = "mark"]
    /\ UNCHANGED <<now, usedNonces, restarts, passed>>

\* Mutant: the check of Verify is taken for good enough.
MarkOnly(c) ==
    /\ call[c].pc = "mark"
    /\ usedNonces' = usedNonces \cup {call[c].payment.key}
    /\ passed' = [passed EXCEPT ![call[c].payment.key] = @ + 1]
    /\ call' = [call EXCEPT ![c].pc = "sign"]
    /\ UNCHANGED <<now, restarts>>

isNonceUsedAndMark(c) ==
    LET k == call[c].payment.key
    IN  /\ call[c].pc = "mark"
        /\ IF k \in usedNonces
           THEN /\ Return(c, "used")
                /\ UNCHANGED <<usedNonces, passed>>
           ELSE /\ usedNonces' = usedNonces \cup {k}
                /\ passed' = [passed EXCEPT ![k] = @ + 1]
                /\ call' = [call EXCEPT ![c].pc = "sign"]
        /\ UNCHANGED <<now, restarts>>

\* WithSignature: the signer of the chain knows legacy, access list and dynamic
\* fee transactions.  It refuses the envelope of a payment, so that nothing
\* after it, the pool and the broadcast, is ever reached.
SignEnvelope(c) ==
    /\ call[c].pc = "sign"
    /\ Return(c, "sign envelope failed")
    /\ UNCHANGED <<now, usedNonces, restarts, passed>>

Tick ==
    /\ now < MaxTime
    /\ now' = now + 1
    /\ UNCHANGED <<usedNonces, call, restarts, passed>>

Restart ==
    /\ restarts < MaxRestarts
    /\ restarts' = restarts + 1
    /\ usedNonces' = {}
    /\ call' = [c \in Calls |-> Idle]
    /\ passed' = [k \in Keys |-> 0]
    /\ UNCHANGED now

Next ==
    \/ \E c \in Calls, q \in Payments : Begin(c, q)
    \/ \E c \in Calls, holds \in BOOLEAN : VerifyPayment(c, holds)
    \/ \E c \in Calls : isNonceUsed(c)
    \/ \E c \in Calls : isNonceUsedAndMark(c)
    \/ \E c \in Calls : SignEnvelope(c)
    \/ Tick
    \/ Restart

Spec == Init /\ [][Next]_vars

-----------------------------------------------------------------------------
(* Properties *)

\* However Settle calls interleave, at most one gets past the nonce check for a
\* payer and nonce while the node runs.
SettledOnce == \A k \in Keys : passed[k] <= 1

\* Violated.  "Settle executes a verified payment": a call that has verified its
\* payment and has taken its nonce does not fail.
SettleExecutes ==
    \A c \in Calls : call[c].pc = "done" =>
        call[c].result \in {"success", "invalid", "used"}

=============================================================================
