----------------------------- MODULE X402Proofs -----------------------------
(***************************************************************************)
(* Proof that a payer's nonce gets past the check of Settle at most once,  *)
(* for any number of concurrent calls, payments and restarts.              *)
(***************************************************************************)
EXTENDS X402, TLAPS

\* The used nonces are the keys that have passed, each of which has passed once.
\* SettledOnce alone is not inductive: it does not say that a key that has passed
\* is in the map.
NonceInv ==
    /\ passed \in [Keys -> {0, 1}]
    /\ \A k \in Keys : passed[k] = 1 => k \in usedNonces

\* Calls carry payments of the requests, so that their keys are keys.
CallInv ==
    /\ DOMAIN call = Calls
    /\ \A c \in Calls : call[c].pc # "idle" => call[c].payment \in Payments

IInv == NonceInv /\ CallInv

\* The key of a payment is a key.
LEMMA KeyOfPayment ==
    ASSUME NEW q \in Payments
    PROVE  q.key \in Keys
BY DEF Keys

\* A node starts, and starts again, with no nonce used and none passed.
LEMMA InitIInv == Init => IInv
<1> SUFFICES ASSUME Init PROVE IInv
  OBVIOUS
<1>1. NonceInv
  BY DEF Init, NonceInv
<1>2. CallInv
  BY DEF Init, CallInv, Idle
<1> QED
  BY <1>1, <1>2 DEF IInv

\* A step that changes only the call it belongs to, and not its payment.
LEMMA OwnCall ==
    ASSUME CallInv, NEW c \in Calls, call[c].payment \in Payments,
           DOMAIN call' = Calls,
           \A d \in Calls \ {c} : call'[d] = call[d],
           call'[c].payment = call[c].payment
    PROVE  CallInv'
BY DEF CallInv

\* A call that returns keeps its payment.
LEMMA ReturnKeepsCalls ==
    ASSUME CallInv, NEW c \in Calls, call[c].pc # "idle", NEW r, Return(c, r)
    PROVE  CallInv'
BY DEF CallInv, Return

\* No step of the node, a restart included, breaks the invariant.
LEMMA NextIInv == IInv /\ [Next]_vars => IInv'
<1> SUFFICES ASSUME IInv, [Next]_vars PROVE IInv'
  OBVIOUS
<1> USE DEF IInv
<1>1. ASSUME NEW c \in Calls, NEW q \in Payments, Begin(c, q) PROVE IInv'
  <2>1. NonceInv'
    BY <1>1 DEF Begin, NonceInv
  <2>2. CallInv'
    BY <1>1 DEF Begin, CallInv
  <2> QED
    BY <2>1, <2>2
<1>2. ASSUME NEW c \in Calls, NEW holds \in BOOLEAN, VerifyPayment(c, holds) PROVE IInv'
  <2>1. NonceInv'
    BY <1>2 DEF VerifyPayment, NonceInv
  <2>2. call[c].pc # "idle"
    BY <1>2 DEF VerifyPayment
  <2>3. CASE call' = [call EXCEPT ![c].pc = "nonce"]
    BY <2>1, <2>2, <2>3 DEF CallInv
  <2>4. CASE Return(c, "invalid")
    BY <2>1, <2>2, <2>4, ReturnKeepsCalls
  <2> QED
    BY <1>2, <2>3, <2>4 DEF VerifyPayment
<1>3. ASSUME NEW c \in Calls, isNonceUsed(c) PROVE IInv'
  <2>1. NonceInv'
    BY <1>3 DEF isNonceUsed, NonceInv
  <2>2. call[c].pc # "idle"
    BY <1>3 DEF isNonceUsed
  <2>3. CASE call' = [call EXCEPT ![c].pc = "mark"]
    BY <2>1, <2>2, <2>3 DEF CallInv
  <2>4. CASE Return(c, "used")
    BY <2>1, <2>2, <2>4, ReturnKeepsCalls
  <2> QED
    BY <1>3, <2>3, <2>4 DEF isNonceUsed
<1>4. ASSUME NEW c \in Calls, isNonceUsedAndMark(c) PROVE IInv'
  <2> DEFINE k == call[c].payment.key
  <2>1. call[c].pc # "idle" /\ call[c].payment \in Payments
    BY <1>4 DEF isNonceUsedAndMark, CallInv
  <2>2. k \in Keys
    BY <2>1, KeyOfPayment
  <2>3. CASE k \in usedNonces
    <3>1. Return(c, "used") /\ UNCHANGED <<usedNonces, passed>>
      BY <1>4, <2>3 DEF isNonceUsedAndMark
    <3>2. NonceInv'
      BY <3>1 DEF NonceInv
    <3> QED
      BY <2>1, <3>1, <3>2, ReturnKeepsCalls
  <2>4. CASE k \notin usedNonces
    <3>1. /\ usedNonces' = usedNonces \cup {k}
          /\ passed' = [passed EXCEPT ![k] = @ + 1]
          /\ call' = [call EXCEPT ![c].pc = "sign"]
      BY <1>4, <2>4 DEF isNonceUsedAndMark
    <3>2. passed[k] = 0
      BY <2>2, <2>4 DEF NonceInv
    <3>3. NonceInv'
      BY <2>2, <3>1, <3>2 DEF NonceInv
    <3>4. CallInv'
      BY <2>1, <3>1 DEF CallInv
    <3> QED
      BY <3>3, <3>4
  <2> QED
    BY <2>3, <2>4
<1>5. ASSUME NEW c \in Calls, SignEnvelope(c) PROVE IInv'
  <2>1. NonceInv'
    BY <1>5 DEF SignEnvelope, NonceInv
  <2>2. call[c].pc # "idle" /\ Return(c, "sign envelope failed")
    BY <1>5 DEF SignEnvelope
  <2> QED
    BY <2>1, <2>2, ReturnKeepsCalls
<1>6. CASE Tick
  BY <1>6 DEF Tick, NonceInv, CallInv
<1>7. CASE Restart
  <2>1. NonceInv'
    BY <1>7 DEF Restart, NonceInv
  <2>2. CallInv'
    BY <1>7 DEF Restart, CallInv, Idle
  <2> QED
    BY <2>1, <2>2
<1>8. CASE UNCHANGED vars
  BY <1>8 DEF vars, NonceInv, CallInv
<1> QED
  BY <1>1, <1>2, <1>3, <1>4, <1>5, <1>6, <1>7, <1>8 DEF Next

\* SettledOnce for every set of calls and payments: the second look at the nonce,
\* under the lock that also marks it, is what keeps concurrent calls of Settle,
\* which have all passed Verify, from passing together.
THEOREM NonceSettledOnce == Spec => []SettledOnce
<1>1. IInv => SettledOnce
  BY DEF IInv, NonceInv, SettledOnce
<1> QED
  BY InitIInv, NextIInv, <1>1, PTL DEF Spec

=============================================================================
