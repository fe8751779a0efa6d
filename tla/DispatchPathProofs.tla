------------------------- MODULE DispatchPathProofs -------------------------
(***************************************************************************)
(* The path of a dispatch: tickets are used once, for any number of         *)
(* processes and tickets and any windows, provided rows are kept for the    *)
(* clock skew plus the longest delay of a transaction (RetentionCoversSkew); *)
(* cooperative inference keeps to the session budget and awards what was    *)
(* earned; the native transport keeps answers, streams and slots in order;  *)
(* the client SDK sends a task where the caller agreed and twice only to a  *)
(* busy node.                                                               *)
(***************************************************************************)
EXTENDS DispatchAdmission, NativeSession, CipDispatch, ClientSubmission,
        FiniteSetTheorems, TLAPS

-----------------------------------------------------------------------------
\* The admission store.

\* The variables keep their types (every store operation and check).
THEOREM TypeCorrect == Spec => []TypeOK
<1>1. Init => TypeOK
  BY TimesAssumption DEF Init, TypeOK, NoJob
<1>2. TypeOK /\ [Next]_vars => TypeOK'
  <2> SUFFICES ASSUME TypeOK, [Next]_vars PROVE TypeOK'
    OBVIOUS
  <2> USE DEF TypeOK
  <2>1. ASSUME NEW p \in Procs, NEW j \in Jtis, Evaluate(p, j) PROVE TypeOK'
    BY <2>1 DEF Evaluate, Stop, NoJob
  <2>2. ASSUME NEW p \in Procs, Consume(p) PROVE TypeOK'
    <3>1. job[p].jti \in Jtis
      BY <2>2 DEF Consume
    <3>2. CASE Stop(p) /\ UNCHANGED <<clock, row, redeemed>>
      BY <3>2 DEF Stop, NoJob
    <3>3. CASE /\ row' = [row EXCEPT ![job[p].jti] = "accepted"]
               /\ redeemed' = [redeemed EXCEPT ![job[p].jti] = @ + 1]
               /\ Accept(p)
               /\ UNCHANGED clock
      BY <3>1, <3>3 DEF Accept
    <3> QED BY <2>2, <3>2, <3>3 DEF Consume
  <2>3. ASSUME NEW p \in Procs, StorageError(p) PROVE TypeOK'
    BY <2>3 DEF StorageError, Stop, NoJob
  <2>4. ASSUME NEW p \in Procs, Crash(p) PROVE TypeOK'
    BY <2>4 DEF Crash, Stop, NoJob
  <2>5. ASSUME NEW p \in Procs, NEW j \in Jtis, NEW s \in Terminal, Transition(p, j, s)
        PROVE TypeOK'
    BY <2>5 DEF Transition, Stop, NoJob
  <2>6. CASE Cleanup
    BY <2>6 DEF Cleanup, procVars
  <2>7. CASE Tick
    BY <2>7 DEF Tick, procVars
  <2>8. CASE UNCHANGED vars
    BY <2>8 DEF vars, procVars
  <2> QED BY <2>1, <2>2, <2>3, <2>4, <2>5, <2>6, <2>7, <2>8 DEF Next
<1> QED BY <1>1, <1>2, PTL DEF Spec

\* AdmissionInv is preserved by every step, given types and enough retention.
LEMMA AdmissionStep ==
  ASSUME RetentionCoversSkew, TypeOK, AdmissionInv, [Next]_vars
  PROVE  AdmissionInv'
<1> USE TimesAssumption, WindowAssumption DEF TypeOK, AdmissionInv, SingleUse, RetentionCoversSkew
<1>1. ASSUME NEW p \in Procs, NEW j \in Jtis, Evaluate(p, j) PROVE AdmissionInv'
  BY <1>1 DEF Evaluate, Stop, NoJob
<1>2. ASSUME NEW p \in Procs, Consume(p) PROVE AdmissionInv'
  <2> DEFINE j == job[p].jti
  <2>1. pc[p] = "txn" /\ j \in Jtis
    BY <1>2 DEF Consume
  <2>2. CASE Stop(p) /\ UNCHANGED <<clock, row, redeemed>>
    BY <2>2 DEF Stop, NoJob
  <2>3. CASE /\ row[j] = "absent"
             /\ row' = [row EXCEPT ![j] = "accepted"]
             /\ redeemed' = [redeemed EXCEPT ![j] = @ + 1]
             /\ Accept(p)
             /\ UNCHANGED clock
    \* The reading is at most MaxDelay old and still inside the window, so the
    \* ticket cannot have been forgotten: it was never redeemed.
    <3>1. redeemed[j] = 0
      <4> SUFFICES ASSUME redeemed[j] > 0 PROVE FALSE
        BY <2>1
      <4>1. ExpiresAt[j] + Retention < clock
        BY <2>1, <2>3
      <4>2. clock - job[p].now <= MaxDelay /\ job[p].now - Skew < ExpiresAt[j]
        BY <2>1
      <4>3. ExpiresAt[j] \in Int /\ job[p].now \in Nat /\ clock \in Nat
        BY <2>1
      <4> QED BY <4>1, <4>2, <4>3
    <3>2. SingleUse'
      BY <2>1, <2>3, <3>1
    <3>3. \A q \in Procs : pc'[q] = "txn" => pc[q] = "txn" /\ job'[q] = job[q]
      BY <2>3 DEF Accept
    <3> QED BY <2>1, <2>3, <3>2, <3>3
  <2> QED BY <1>2, <2>2, <2>3 DEF Consume
<1>3. ASSUME NEW p \in Procs, StorageError(p) \/ Crash(p) PROVE AdmissionInv'
  BY <1>3 DEF StorageError, Crash, Stop, NoJob
<1>4. ASSUME NEW p \in Procs, NEW j \in Jtis, NEW s \in Terminal, Transition(p, j, s)
      PROVE AdmissionInv'
  BY <1>4, TerminalAssumption DEF Transition, Stop, NoJob
<1>5. CASE Cleanup
  <2>1. PICK now \in 0..clock, D \in SUBSET Jtis :
          /\ CleanupBatch(D, now - Retention)
          /\ row' = [j \in Jtis |-> IF j \in D THEN "absent" ELSE row[j]]
    BY <1>5 DEF Cleanup
  <2>2. \A j \in D : row[j] # "absent" /\ ExpiresAt[j] < now - Retention
    BY <2>1 DEF CleanupBatch
  <2>3. UNCHANGED <<clock, pc, job, redeemed>>
    BY <1>5 DEF Cleanup, procVars
  <2> QED BY <2>1, <2>2, <2>3
<1>6. CASE Tick
  BY <1>6 DEF Tick, procVars
<1>7. CASE UNCHANGED vars
  BY <1>7 DEF vars, procVars
<1> QED BY <1>1, <1>2, <1>3, <1>4, <1>5, <1>6, <1>7 DEF Next

\* AdmissionInv, the inductive strengthening of SingleUse, holds throughout.
THEOREM AdmissionInvariant == RetentionCoversSkew => (Spec => []AdmissionInv)
<1> SUFFICES ASSUME RetentionCoversSkew PROVE Spec => []AdmissionInv
  OBVIOUS
<1>1. Init => AdmissionInv
  BY DEF Init, AdmissionInv, SingleUse
<1>2. TypeOK /\ AdmissionInv /\ [Next]_vars => AdmissionInv'
  BY AdmissionStep
<1> QED BY <1>1, <1>2, TypeCorrect, PTL DEF Spec

\* No ticket is redeemed twice by SqliteDispatchAdmissionStore.consume.
THEOREM TicketsAreSingleUse == RetentionCoversSkew => (Spec => []SingleUse)
<1>1. AdmissionInv => SingleUse
  BY DEF AdmissionInv
<1> QED BY <1>1, AdmissionInvariant, PTL

\* Every step of the store is a step of the abstract ticket, or invisible there.
LEMMA TicketStep ==
  ASSUME RetentionCoversSkew, TypeOK, AdmissionInv, AdmissionInv', [Next]_vars
  PROVE  [Ticket!Next]_TicketStatus
<1> USE TerminalAssumption DEF TypeOK, TicketStatus
<1>1. ASSUME UNCHANGED <<row, redeemed>> PROVE UNCHANGED TicketStatus
  BY <1>1
<1>2. ASSUME NEW p \in Procs, Consume(p) PROVE [Ticket!Next]_TicketStatus
  <2> DEFINE j == job[p].jti
  <2>1. j \in Jtis
    BY <1>2 DEF Consume
  <2>2. CASE UNCHANGED <<row, redeemed>>
    BY <2>2, <1>1
  <2>3. CASE /\ row[j] = "absent"
             /\ row' = [row EXCEPT ![j] = "accepted"]
             /\ redeemed' = [redeemed EXCEPT ![j] = @ + 1]
    <3>1. redeemed[j] = 0
      BY <2>1, <2>3 DEF AdmissionInv, SingleUse
    <3>2. TicketStatus[j] = "fresh"
      BY <2>1, <2>3, <3>1
    <3>3. TicketStatus' = [TicketStatus EXCEPT ![j] = "accepted"]
      BY <2>1, <2>3
    <3> QED BY <2>1, <3>2, <3>3 DEF Ticket!Next, Ticket!Redeem
  <2> QED BY <1>2, <2>2, <2>3 DEF Consume
<1>3. ASSUME NEW p \in Procs, NEW j \in Jtis, NEW s \in Terminal, Transition(p, j, s)
      PROVE [Ticket!Next]_TicketStatus
  <2>1. row' = [row EXCEPT ![j] = IF @ = "accepted" THEN s ELSE @] /\ redeemed' = redeemed
    BY <1>3 DEF Transition
  <2>2. CASE row[j] = "accepted"
    <3>1. TicketStatus[j] = "accepted"
      BY <2>2
    <3>2. TicketStatus' = [TicketStatus EXCEPT ![j] = s]
      BY <2>1, <2>2
    <3> QED BY <3>1, <3>2 DEF Ticket!Next, Ticket!Settle
  <2>3. CASE row[j] # "accepted"
    <3>1. row' = row
      BY <2>1, <2>3
    <3> QED BY <2>1, <3>1, <1>1
  <2> QED BY <2>2, <2>3
<1>4. CASE Cleanup
  <2>1. PICK D \in SUBSET Jtis :
          /\ \A j \in D : row[j] # "absent"
          /\ row' = [j \in Jtis |-> IF j \in D THEN "absent" ELSE row[j]]
    BY <1>4 DEF Cleanup, CleanupBatch
  <2>2. redeemed' = redeemed
    BY <1>4 DEF Cleanup
  <2>3. \A j \in D : TicketStatus[j] # "fresh"
    BY <2>1
  <2>4. \A j \in D : redeemed[j] # 0
    BY <2>1 DEF AdmissionInv
  <2>5. TicketStatus' = [j \in Jtis |-> IF j \in D THEN "forgotten" ELSE TicketStatus[j]]
    BY <2>1, <2>2, <2>4
  <2> QED BY <2>3, <2>5 DEF Ticket!Next, Ticket!Forget
<1>5. ASSUME NEW p \in Procs, NEW j \in Jtis, Evaluate(p, j) PROVE UNCHANGED TicketStatus
  BY <1>5, <1>1 DEF Evaluate
<1>6. ASSUME NEW p \in Procs, StorageError(p) \/ Crash(p) PROVE UNCHANGED TicketStatus
  BY <1>6, <1>1 DEF StorageError, Crash
<1>7. CASE Tick \/ UNCHANGED vars
  BY <1>7, <1>1 DEF Tick, vars
<1> QED BY <1>2, <1>3, <1>4, <1>5, <1>6, <1>7 DEF Next

\* The SQLite admission store implements the abstract single-use ticket.
THEOREM StoreImplementsTicket == RetentionCoversSkew => (Spec => ImplementsTicket)
<1> SUFFICES ASSUME RetentionCoversSkew PROVE Spec => ImplementsTicket
  OBVIOUS
<1>1. Init => Ticket!Init
  BY DEF Init, Ticket!Init, TicketStatus
<1>2. TypeOK /\ AdmissionInv /\ AdmissionInv' /\ [Next]_vars => [Ticket!Next]_TicketStatus
  BY TicketStep
<1> QED BY <1>1, <1>2, TypeCorrect, AdmissionInvariant, PTL DEF Spec, ImplementsTicket, Ticket!Spec

-----------------------------------------------------------------------------
\* Cooperative inference.

\* What Select returns is not typed here: a call is a record with the fields of Waiting.
IsCall(q) == DOMAIN q = {"pc", "body", "nodes", "at", "envelope", "sent", "status"}

\* Before its gates a request has sent nothing; in the chain it has sent to the candidate
\* it waits for.
CallInv(q) ==
  /\ IsCall(q) /\ q.envelope \in BOOLEAN
  /\ q.pc \in {"none", "discover", "balance"} => ~q.envelope /\ q.sent = {}
  /\ q.pc = "route" => q.nodes[q.at] \in q.sent

CallsInv ==
  /\ DOMAIN cdReq = CdRequests
  /\ \A r \in CdRequests : CallInv(cdReq[r])

Enveloped == {r \in CdRequests : cdReq[r].envelope}

\* Every enveloped dispatch was paid for from the budget.
BudgetInv ==
  /\ cdSpent \in Nat
  /\ CdConfig.budget # NoValue => Cardinality(Enveloped) <= cdSpent /\ cdSpent <= CdConfig.budget

\* An award comes of a dispatch that had an envelope, from a node it was sent to, with a
\* reply that was bound to it.
AwardInv(a) ==
  /\ DOMAIN a = {"req", "node", "reply", "posted"}
  /\ a.req \in CdRequests /\ cdReq[a.req].envelope /\ a.node \in cdReq[a.req].sent
  /\ a.reply.key = "own"
  /\ a.reply.receipt \in Receipts /\ a.reply.receipt.hash = "result"
  /\ a.posted \in BOOLEAN
  /\ a.posted => a.reply.receipt.key = "own"

\* What is not in the replay cache was not forwarded since the cache last forgot it.
ForwardInv ==
  /\ cdForwarded \in [CdNonces -> Nat]
  /\ \A n \in CdNonces : cdForwarded[n] <= 1 /\ (n \notin cdSeen => cdForwarded[n] = 0)

CipInv == CallsInv /\ BudgetInv /\ (\A a \in cdAwards : AwardInv(a)) /\ ForwardInv

\* A step of a request: it keeps what it has sent, and the envelope it has.
CallsGrow ==
  \A r \in CdRequests : /\ cdReq[r].sent \subseteq cdReq'[r].sent
                        /\ cdReq[r].envelope => cdReq'[r].envelope

\* Answered and Chain keep the envelope and what was sent, and leave a call as CallInv wants it.
LEMMA CallEnds ==
  ASSUME NEW q, IsCall(q), q.envelope \in BOOLEAN, NEW status
  PROVE  /\ CallInv(Answered(q, status))
         /\ Answered(q, status).envelope = q.envelope /\ Answered(q, status).sent = q.sent
<1> DEFINE a == Answered(q, status)
<1>1. IsCall(a) /\ a.pc = "done" /\ a.envelope = q.envelope /\ a.sent = q.sent
  BY DEF IsCall, Answered
<1> HIDE DEF a
<1>2. CallInv(a)
  BY <1>1 DEF CallInv
<1> QED BY <1>1, <1>2 DEF a

\* The chain's next candidate is sent to and waited for; with none left the call is answered.
LEMMA CallGoesOn ==
  ASSUME NEW q, IsCall(q), q.envelope \in BOOLEAN, NEW i
  PROVE  /\ CallInv(Chain(q, i))
         /\ Chain(q, i).envelope = q.envelope /\ q.sent \subseteq Chain(q, i).sent
<1>1. CASE i > Len(q.nodes)
  BY <1>1, CallEnds DEF Chain
<1>2. CASE ~(i > Len(q.nodes))
  <2> DEFINE a == [q EXCEPT !.pc = "route", !.at = i, !.sent = @ \cup {q.nodes[i]}]
  <2>1. Chain(q, i) = a
    BY <1>2 DEF Chain
  <2>2. /\ IsCall(a) /\ a.pc = "route" /\ a.envelope = q.envelope
        /\ a.sent = q.sent \cup {q.nodes[i]} /\ a.nodes = q.nodes /\ a.at = i
    BY DEF IsCall
  <2> HIDE DEF a
  <2>3. CallInv(a)
    BY <2>2 DEF CallInv
  <2> QED BY <2>1, <2>2, <2>3
<1> QED BY <1>1, <1>2

\* One request moves, the others stay.
LEMMA CallUpdated ==
  ASSUME CallsInv, NEW r \in CdRequests, NEW q, CallInv(q), cdReq' = [cdReq EXCEPT ![r] = q],
         cdReq[r].sent \subseteq q.sent, cdReq[r].envelope => q.envelope
  PROVE  CallsInv' /\ CallsGrow /\ cdReq'[r] = q /\ \A s \in CdRequests \ {r} : cdReq'[s] = cdReq[s]
<1>1. cdReq'[r] = q /\ \A s \in CdRequests \ {r} : cdReq'[s] = cdReq[s]
  BY DEF CallsInv
<1>2. DOMAIN cdReq' = CdRequests
  BY DEF CallsInv
<1> QED BY <1>1, <1>2 DEF CallsInv, CallsGrow

\* The same, for an update that gives no envelope.
LEMMA EnvelopesStay ==
  ASSUME CallsInv, NEW r \in CdRequests, NEW q, CallInv(q), cdReq' = [cdReq EXCEPT ![r] = q],
         cdReq[r].sent \subseteq q.sent, q.envelope = cdReq[r].envelope
  PROVE  CallsInv' /\ CallsGrow /\ Enveloped' = Enveloped
<1>1. /\ CallsInv' /\ CallsGrow
      /\ \A s \in CdRequests \ {r} : cdReq'[s] = cdReq[s]
      /\ cdReq'[r].envelope = cdReq[r].envelope
  BY CallUpdated
<1>2. \A s \in CdRequests : cdReq'[s].envelope = cdReq[s].envelope
  BY <1>1
<1> QED BY <1>1, <1>2 DEF Enveloped

\* A handler reads its body.
LEMMA ReceiveKeeps ==
  ASSUME CallsInv, NEW r \in CdRequests, NEW body, NEW refuses, Receive(r, body, refuses)
  PROVE  CallsInv' /\ CallsGrow /\ Enveloped' = Enveloped
<1> DEFINE q == [Waiting EXCEPT !.body = body, !.pc = "discover"]
<1>1. IsCall(q) /\ q.envelope = FALSE /\ q.sent = {} /\ q.pc = "discover"
  BY DEF IsCall, Waiting
<1>2. cdReq' = [cdReq EXCEPT ![r] = IF refuses THEN Answered(q, "400") ELSE q]
  BY DEF Receive
<1> HIDE DEF q
<1>3. cdReq[r].envelope = FALSE /\ cdReq[r].sent = {}
  BY DEF Receive, CallsInv, CallInv
<1>4. CallInv(q)
  BY <1>1 DEF CallInv
<1>5. CASE refuses
  <2>1. cdReq' = [cdReq EXCEPT ![r] = Answered(q, "400")]
    BY <1>2, <1>5
  <2>2. CallInv(Answered(q, "400")) /\ Answered(q, "400").envelope = FALSE
        /\ Answered(q, "400").sent = {}
    BY <1>1, CallEnds
  <2> QED BY <1>3, <2>1, <2>2, EnvelopesStay
<1>6. CASE ~refuses
  <2>1. cdReq' = [cdReq EXCEPT ![r] = q]
    BY <1>2, <1>6
  <2> QED BY <1>1, <1>3, <1>4, <2>1, EnvelopesStay
<1> QED BY <1>5, <1>6

\* A list is selected for a request.
LEMMA SelectedKeeps ==
  ASSUME CallsInv, NEW r \in CdRequests, NEW raw, NEW limits, Selected(r, raw, limits)
  PROVE  CallsInv' /\ CallsGrow /\ Enveloped' = Enveloped
<1> DEFINE o == cdReq[r]
           q == [o EXCEPT !.nodes = Select(raw, limits), !.pc = "balance"]
<1>1. CallInv(o) /\ o.pc = "discover"
  BY DEF Selected, CallsInv
<1>2. cdReq' = [cdReq EXCEPT ![r] = q]
  BY DEF Selected
<1>3. q.pc = "balance" /\ q.envelope = o.envelope /\ q.sent = o.sent /\ IsCall(q)
  BY <1>1 DEF IsCall, CallInv
<1> HIDE DEF q
<1>4. CallInv(q)
  BY <1>1, <1>3 DEF CallInv
<1> QED BY <1>2, <1>3, <1>4, EnvelopesStay

\* The chain takes the next candidate, or the request is answered.
LEMMA ChainKeeps ==
  ASSUME CallsInv, NEW r \in CdRequests, NEW q, IsCall(q), NEW i,
         q.envelope = cdReq[r].envelope, q.sent = cdReq[r].sent,
         \/ cdReq' = [cdReq EXCEPT ![r] = Chain(q, i)]
         \/ \E status : cdReq' = [cdReq EXCEPT ![r] = Answered(q, status)]
  PROVE  CallsInv' /\ CallsGrow /\ Enveloped' = Enveloped
<1>1. q.envelope \in BOOLEAN
  BY DEF CallsInv, CallInv
<1>2. CASE cdReq' = [cdReq EXCEPT ![r] = Chain(q, i)]
  <2>1. CallInv(Chain(q, i)) /\ Chain(q, i).envelope = q.envelope /\ q.sent \subseteq Chain(q, i).sent
    BY <1>1, CallGoesOn
  <2> QED BY <1>2, <2>1, EnvelopesStay
<1>3. ASSUME NEW status, cdReq' = [cdReq EXCEPT ![r] = Answered(q, status)]
      PROVE  CallsInv' /\ CallsGrow /\ Enveloped' = Enveloped
  <2>1. CallInv(Answered(q, status)) /\ Answered(q, status).envelope = q.envelope
        /\ Answered(q, status).sent = q.sent
    BY <1>1, CallEnds
  <2> QED BY <1>3, <2>1, EnvelopesStay
<1> QED BY <1>2, <1>3

\* An envelope is given only with room in the budget, and is paid for in the same step.
LEMMA GatesKeep ==
  ASSUME CallsInv, NEW r \in CdRequests, NEW balance, PassGates(r, balance)
  PROVE  /\ CallsInv' /\ CallsGrow
         /\ \/ Enveloped' = Enveloped /\ UNCHANGED cdSpent
            \/ /\ Enveloped' \in {Enveloped, Enveloped \cup {r}}
               /\ CanSpend(cdSpent, EstimatedCredits) /\ RecordSpend(EstimatedCredits)
<1> DEFINE o == cdReq[r]
           decision == ComputeEnvelope(o.body, o.nodes, balance)
           redundant == o.body.surface = "openai" /\ o.body.realtime /\ Len(o.nodes) > 1
           race == [o EXCEPT !.pc = "race", !.sent = {o.nodes[i] : i \in DOMAIN o.nodes}]
           sealed == [o EXCEPT !.envelope = (decision = "remote")]
<1>1. /\ cdReq' = [cdReq EXCEPT ![r] = IF decision = "E036" THEN Answered(o, "402")
                                      ELSE IF decision = "E022" THEN Answered(o, "503")
                                      ELSE IF redundant THEN race ELSE Chain(sealed, 1)]
      /\ IF decision = "remote" THEN RecordSpend(EstimatedCredits) ELSE UNCHANGED cdSpent
  BY DEF PassGates
<1>2. CallInv(o) /\ IsCall(o) /\ o.envelope = FALSE /\ o.sent = {}
  BY DEF PassGates, CallsInv, CallInv
<1>3. decision = "remote" => CanSpend(cdSpent, EstimatedCredits)
  BY DEF ComputeEnvelope, DecideDispatch, Affordability, Blocked
<1>4. IsCall(race) /\ race.pc = "race" /\ race.envelope = FALSE
  BY <1>2 DEF IsCall
<1>5. IsCall(sealed) /\ sealed.envelope = (decision = "remote") /\ sealed.sent = {}
  BY <1>2 DEF IsCall
<1>6. \/ cdReq' = [cdReq EXCEPT ![r] = race]
      \/ cdReq' = [cdReq EXCEPT ![r] = Chain(sealed, 1)]
      \/ decision # "remote" /\ \E s \in {"402", "503"} : cdReq' = [cdReq EXCEPT ![r] = Answered(o, s)]
  <2> HIDE DEF o, decision, redundant, race, sealed
  <2> QED BY <1>1
<1> HIDE DEF race, sealed, decision
<1>7. CASE cdReq' = [cdReq EXCEPT ![r] = race]
  <2>1. CallInv(race)
    BY <1>4 DEF CallInv
  <2>2. CallsInv' /\ CallsGrow /\ Enveloped' = Enveloped
    BY <1>2, <1>4, <1>7, <2>1, EnvelopesStay
  <2> QED BY <1>1, <1>3, <2>2
<1>8. CASE decision # "remote" /\ \E s \in {"402", "503"} : cdReq' = [cdReq EXCEPT ![r] = Answered(o, s)]
  <2>1. CallsInv' /\ CallsGrow /\ Enveloped' = Enveloped
    BY <1>2, <1>8, ChainKeeps
  <2> QED BY <1>1, <1>8, <2>1
<1>9. CASE cdReq' = [cdReq EXCEPT ![r] = Chain(sealed, 1)]
  <2>1. sealed.envelope \in BOOLEAN
    BY <1>5
  <2>2. CallInv(Chain(sealed, 1)) /\ Chain(sealed, 1).envelope = sealed.envelope
        /\ sealed.sent \subseteq Chain(sealed, 1).sent
    BY <1>5, <2>1, CallGoesOn
  <2>3. CallsInv' /\ CallsGrow /\ cdReq'[r] = Chain(sealed, 1)
        /\ \A s \in CdRequests \ {r} : cdReq'[s] = cdReq[s]
    BY <1>2, <1>5, <1>9, <2>2, CallUpdated
  <2>4. CASE decision = "remote"
    <3>1. cdReq'[r].envelope = TRUE
      BY <1>5, <2>2, <2>3, <2>4
    <3>2. Enveloped' = Enveloped \cup {r}
      BY <2>3, <3>1 DEF Enveloped
    <3> QED BY <1>1, <1>3, <2>3, <2>4, <3>2
  <2>5. CASE decision # "remote"
    <3>1. cdReq'[r].envelope = FALSE
      BY <1>5, <2>2, <2>3, <2>5
    <3>2. Enveloped' = Enveloped
      BY <1>2, <2>3, <3>1 DEF Enveloped
    <3> QED BY <1>1, <2>3, <2>5, <3>2
  <2> QED BY <2>4, <2>5
<1> QED BY <1>6, <1>7, <1>8, <1>9

\* What any step does to the requests and to the budget.
LEMMA CallsStep ==
  ASSUME CallsInv, [CdNext]_cdVars
  PROVE  /\ CallsInv' /\ CallsGrow
         /\ \/ Enveloped' = Enveloped /\ UNCHANGED cdSpent
            \/ /\ \E r \in CdRequests : Enveloped' \in {Enveloped, Enveloped \cup {r}}
               /\ CanSpend(cdSpent, EstimatedCredits) /\ RecordSpend(EstimatedCredits)
<1> DEFINE Quietly == CallsInv' /\ CallsGrow /\ Enveloped' = Enveloped /\ UNCHANGED cdSpent
<1>1. ASSUME NEW r \in CdRequests, NEW body, NEW refuses, Receive(r, body, refuses) PROVE Quietly
  BY <1>1, ReceiveKeeps DEF Receive
<1>2. ASSUME NEW r \in CdRequests, NEW raw, NEW limits, Selected(r, raw, limits) PROVE Quietly
  BY <1>2, SelectedKeeps DEF Selected
<1>3. ASSUME NEW r \in CdRequests, NEW status, RaceEnds(r, status) PROVE Quietly
  <2>1. IsCall(cdReq[r]) /\ cdReq' = [cdReq EXCEPT ![r] = Answered(cdReq[r], status)]
    BY <1>3 DEF RaceEnds, CallsInv, CallInv
  <2> QED BY <1>3, <2>1, ChainKeeps DEF RaceEnds
<1>4. ASSUME NEW r \in CdRequests, RouteFails(r) PROVE Quietly
  <2>1. IsCall(cdReq[r]) /\ cdReq' = [cdReq EXCEPT ![r] = Chain(cdReq[r], cdReq[r].at + 1)]
    BY <1>4 DEF RouteFails, CallsInv, CallInv
  <2> QED BY <1>4, <2>1, ChainKeeps DEF RouteFails
<1>5. ASSUME NEW r \in CdRequests, NEW reply, RouteReplies(r, reply) PROVE Quietly
  <2>1. /\ IsCall(cdReq[r])
        /\ \/ cdReq' = [cdReq EXCEPT ![r] = Chain(cdReq[r], cdReq[r].at + 1)]
           \/ cdReq' = [cdReq EXCEPT ![r] = Answered(cdReq[r], "ok")]
    BY <1>5 DEF RouteReplies, CallsInv, CallInv
  <2>2. CallsInv' /\ CallsGrow /\ Enveloped' = Enveloped
    BY <2>1, ChainKeeps
  <2> QED BY <1>5, <2>2 DEF RouteReplies
<1>6. ASSUME UNCHANGED <<cdReq, cdSpent>> PROVE Quietly
  BY <1>6 DEF CallsInv, CallsGrow, Enveloped
<1> HIDE DEF Quietly
<1>7. Quietly \/ \E r \in CdRequests, balance \in CdBalances : PassGates(r, balance)
  BY <1>1, <1>2, <1>3, <1>4, <1>5, <1>6
     DEF CdNext, cdVars, ChatCompletions, Messages, ApiChat, ApiGenerate, ResolveNodes,
         ExecuteOllama, ExecuteAnthropic, SubmitAward, AwardEnds, EvictNonce
<1>8. ASSUME NEW r \in CdRequests, NEW balance, PassGates(r, balance)
      PROVE  /\ CallsInv' /\ CallsGrow
             /\ \/ Enveloped' = Enveloped /\ UNCHANGED cdSpent
                \/ /\ Enveloped' \in {Enveloped, Enveloped \cup {r}}
                   /\ CanSpend(cdSpent, EstimatedCredits) /\ RecordSpend(EstimatedCredits)
  BY <1>8, GatesKeep
<1> QED BY <1>7, <1>8 DEF Quietly

\* The envelopes never cost more than was recorded, nor that more than the budget.
LEMMA BudgetStep ==
  ASSUME CallsInv, BudgetInv, [CdNext]_cdVars
  PROVE  BudgetInv'
<1>1. CASE Enveloped' = Enveloped /\ UNCHANGED cdSpent
  BY <1>1 DEF BudgetInv
<1>2. ASSUME NEW r \in CdRequests, Enveloped' \in {Enveloped, Enveloped \cup {r}},
             CanSpend(cdSpent, EstimatedCredits), RecordSpend(EstimatedCredits)
      PROVE  BudgetInv'
  <2>1. IsFiniteSet(Enveloped)
    BY CdRequestsAssumption, FS_Subset DEF Enveloped
  <2>2. Cardinality(Enveloped) \in Nat /\ Cardinality(Enveloped') \in Nat
        /\ Cardinality(Enveloped') <= Cardinality(Enveloped) + 1
    <3>1. Cardinality(Enveloped \cup {r}) \in {Cardinality(Enveloped), Cardinality(Enveloped) + 1}
      BY <2>1, FS_AddElement
    <3>2. Cardinality(Enveloped) \in Nat
      BY <2>1, FS_CardinalityType
    <3>3. CASE Enveloped' = Enveloped
      BY <3>2, <3>3
    <3>4. CASE Enveloped' = Enveloped \cup {r}
      BY <3>1, <3>2, <3>4
    <3> QED BY <1>2, <3>3, <3>4
  <2>3. CASE CdConfig.budget = NoValue
    BY <1>2, <2>3 DEF BudgetInv, RecordSpend
  <2>4. CASE CdConfig.budget # NoValue
    BY <1>2, <2>2, <2>4, BudgetAssumption, SMTT(30) DEF BudgetInv, RecordSpend, CanSpend, EstimatedCredits
  <2> QED BY <2>3, <2>4
<1> QED BY <1>1, <1>2, CallsStep

\* Awards are made of bound replies, and posted only when the receipt is bound too.
LEMMA AwardsStep ==
  ASSUME CallsInv, \A a \in cdAwards : AwardInv(a), [CdNext]_cdVars
  PROVE  \A a \in cdAwards' : AwardInv(a)'
<1>1. CallsInv' /\ CallsGrow
  BY CallsStep
<1>2. \A a : AwardInv(a) => AwardInv(a)'
  BY <1>1 DEF CallsGrow, AwardInv, CallsInv, CallInv
<1>3. CASE UNCHANGED cdAwards
  BY <1>2, <1>3
<1>4. ASSUME NEW r \in CdRequests, NEW reply \in Replies, RouteReplies(r, reply)
      PROVE  \A a \in cdAwards' : AwardInv(a)'
  <2>1. CASE ~(Accepts(r, reply) /\ cdReq[r].envelope /\ reply.receipt # NoValue)
    BY <1>3, <1>4, <2>1 DEF RouteReplies
  <2>2. CASE Accepts(r, reply) /\ cdReq[r].envelope /\ reply.receipt # NoValue
    <3>1. cdAwards' = cdAwards \cup {Award(r, reply)}
      BY <1>4, <2>2 DEF RouteReplies
    <3> DEFINE a == Award(r, reply)
    <3>2. /\ DOMAIN a = {"req", "node", "reply", "posted"}
          /\ a.req = r /\ a.reply = reply /\ a.posted = FALSE
          /\ a.node = cdReq[r].nodes[cdReq[r].at]
      BY DEF Award
    <3> HIDE DEF a
    <3>3. reply.key = "own" /\ reply.receipt \in Receipts /\ reply.receipt.hash = "result"
      BY <2>2 DEF Accepts, HashMatches, Replies
    <3>4. cdReq[r].nodes[cdReq[r].at] \in cdReq[r].sent
      BY <1>4 DEF RouteReplies, CallsInv, CallInv
    <3>5. AwardInv(a)
      BY <2>2, <3>2, <3>3, <3>4 DEF AwardInv
    <3> QED BY <1>2, <3>1, <3>5 DEF a
  <2> QED BY <2>1, <2>2
<1>5. ASSUME NEW a \in cdAwards, SubmitAward(a)
      PROVE  \A b \in cdAwards' : AwardInv(b)'
  <2> DEFINE p == [a EXCEPT !.posted = TRUE]
             takes == a.reply.receipt.nonce \notin cdSeen /\ a.reply.receipt.key = "own"
  <2>1. cdAwards' = (cdAwards \ {a}) \cup (IF takes THEN {p} ELSE {})
    BY <1>5 DEF SubmitAward
  <2>2. AwardInv(a)
    OBVIOUS
  <2>3. /\ DOMAIN p = {"req", "node", "reply", "posted"}
        /\ p.req = a.req /\ p.node = a.node /\ p.reply = a.reply /\ p.posted = TRUE
    BY <2>2 DEF AwardInv
  <2> HIDE DEF p
  <2>4. takes => AwardInv(p)
    BY <2>2, <2>3 DEF AwardInv
  <2> QED BY <1>2, <2>1, <2>4
<1>6. ASSUME NEW a \in cdAwards, AwardEnds(a) PROVE \A b \in cdAwards' : AwardInv(b)'
  BY <1>2, <1>6 DEF AwardEnds
<1> QED BY <1>3, <1>4, <1>5, <1>6, ZenonT(60)
        DEF CdNext, cdVars, ChatCompletions, Messages, ApiChat, ApiGenerate, Receive, ResolveNodes,
            ExecuteOllama, ExecuteAnthropic, Selected, PassGates, RaceEnds, RouteFails, EvictNonce

\* A nonce is forwarded only when the replay cache does not know it, and is put there.
LEMMA ForwardStep ==
  ASSUME \A a \in cdAwards : AwardInv(a), ForwardInv, [CdNext]_cdVars
  PROVE  ForwardInv'
<1>1. CASE UNCHANGED <<cdSeen, cdForwarded>>
  BY <1>1 DEF ForwardInv
<1>2. ASSUME NEW a \in cdAwards, SubmitAward(a) PROVE ForwardInv'
  <2>1. a.reply.receipt.nonce \in CdNonces
    BY DEF AwardInv, Receipts
  <2> QED BY <1>2, <2>1 DEF SubmitAward, Remembers, ForwardInv
<1>3. ASSUME NEW n \in CdNonces, EvictNonce(n) PROVE ForwardInv'
  BY <1>3 DEF EvictNonce, ForwardInv
<1> QED BY <1>1, <1>2, <1>3, ZenonT(60)
        DEF CdNext, cdVars, ChatCompletions, Messages, ApiChat, ApiGenerate, Receive, ResolveNodes,
            ExecuteOllama, ExecuteAnthropic, Selected, PassGates, RaceEnds, RouteFails, RouteReplies,
            AwardEnds

\* The whole invariant of the front ends' requests, of the session budget, of the awards
\* and of the replay cache.
THEOREM CipInvariant == CdSpec => []CipInv
<1>1. CdInit => CipInv
  <2> SUFFICES ASSUME CdInit PROVE CipInv
    OBVIOUS
  <2>1. CallInv(Waiting) /\ Waiting.envelope = FALSE
    BY DEF CallInv, IsCall, Waiting
  <2>2. CallsInv
    BY <2>1 DEF CdInit, CallsInv
  <2>3. Enveloped = {}
    BY <2>1 DEF CdInit, Enveloped
  <2>4. BudgetInv
    BY <2>3, FS_EmptySet, BudgetAssumption DEF CdInit, BudgetInv
  <2>5. ForwardInv /\ cdAwards = {}
    BY DEF CdInit, ForwardInv
  <2> QED BY <2>2, <2>4, <2>5 DEF CipInv
<1>2. CipInv /\ [CdNext]_cdVars => CipInv'
  BY CallsStep, BudgetStep, AwardsStep, ForwardStep DEF CipInv
<1> QED BY <1>1, <1>2, PTL DEF CdSpec

\* However the requests of a session interleave, the envelopes given out never cost more
\* than the session budget: check and deduction are one step between two awaits
\* (SessionBudgetHolds).
THEOREM BudgetNeverExceeded == CdSpec => []SessionBudgetHolds
<1>1. CipInv => SessionBudgetHolds
  <2> SUFFICES ASSUME CipInv, CdConfig.budget # NoValue
               PROVE  Cardinality(Enveloped) * EstimatedCredits <= CdConfig.budget
    BY DEF SessionBudgetHolds, Enveloped
  <2>1. Cardinality(Enveloped) \in Nat
    BY CdRequestsAssumption, FS_Subset, FS_CardinalityType DEF Enveloped
  <2> QED BY <2>1, BudgetAssumption DEF CipInv, BudgetInv, EstimatedCredits
<1> QED BY <1>1, CipInvariant, PTL

\* What _award posts was earned: its reply and receipt are bound to a dispatch of that
\* request, and within the replay window a nonce is forwarded once (AwardsEarned).
THEOREM AwardsWereEarned == CdSpec => []AwardsEarned
<1>1. CipInv => AwardsEarned
  BY DEF CipInv, AwardInv, ForwardInv, AwardsEarned
<1> QED BY <1>1, CipInvariant, PTL

-----------------------------------------------------------------------------
\* The native transport.

\* What a client sends, and what a server writes.
NtMessages == [op : Ops \cup {"close"}, id : Nat]
Frames == [kind : {"ack", "pong", "result", "event"}, id : Nat, seq : Nat, final : BOOLEAN,
           odd : BOOLEAN, code : {"none", "429", "stream_incomplete", "backend_error"}]

\* The variables have their types.
SessionTypes ==
  /\ client \in [Conns -> {"idle", "waiting", "closed"}]
  /\ cur \in [Conns -> NtMessages \cup {NoRequest}] /\ requests \in [Conns -> Nat]
  /\ nextSequence \in [Conns -> Nat]
  /\ up \in [Conns -> Seq(NtMessages)] /\ down \in [Conns -> Seq(Frames)]
  /\ server \in [Conns -> {"open", "ready", "discovering", "running", "streaming", "gone"}]
  /\ req \in [Conns -> NtMessages \cup {NoRequest}]
  /\ sequence \in [Conns -> Nat] /\ terminal \in [Conns -> BOOLEAN]
  /\ wrote \in [Conns -> Seq(Frames)] /\ yielded \in [Conns -> Seq(Frames)]
  /\ DOMAIN answered = Conns /\ gaveUp \in [Conns -> BOOLEAN]

\* A reader that is not at a frame boundary has the rest of a frame to read.
Boundary(al, cl, d) == ~al /\ cl # "closed" => d # <<>>

ReaderInv ==
  /\ aligned \in [Conns -> BOOLEAN]
  /\ \A c \in Conns : Boundary(aligned[c], client[c], down[c])

\* What is written is a frame.
LEMMA FramesAreFrames ==
  ASSUME NEW id \in Nat
  PROVE  /\ \A kind \in {"ack", "pong", "result"}, code \in {"none", "429"} :
              Frame(kind, id, code) \in Frames /\ Frame(kind, id, code).final
              /\ Frame(kind, id, code).id = id
         /\ \A seq \in Nat, final \in BOOLEAN, odd \in BOOLEAN,
               code \in {"none", "stream_incomplete", "backend_error"} :
              /\ Event(id, seq, final, odd, code) \in Frames
              /\ Event(id, seq, final, odd, code).final = final
              /\ Event(id, seq, final, odd, code).id = id
              /\ Event(id, seq, final, odd, code).seq = seq
BY DEF Frame, Event, Frames

\* Writing appends to what is on its way, unless the client has gone.
LEMMA WriteType ==
  ASSUME SessionTypes, NEW c \in Conns, NEW f \in Frames, Write(c, f)
  PROVE  /\ down' \in [Conns -> Seq(Frames)]
         /\ \A d \in Conns \ {c} : down'[d] = down[d]
         /\ client[c] = "closed" => down'[c] = down[c]
         /\ client[c] # "closed" => down'[c] = Append(down[c], f)
<1>1. down[c] \in Seq(Frames) /\ down \in [Conns -> Seq(Frames)]
  BY DEF SessionTypes
<1>2. Append(down[c], f) \in Seq(Frames)
  BY <1>1
<1> QED BY <1>1, <1>2 DEF Write

\* The first message is a message, and the rest are messages.
LEMMA NextMessage ==
  ASSUME SessionTypes, NEW c \in Conns, up[c] # <<>>
  PROVE  /\ Head(up[c]) \in NtMessages /\ Head(up[c]).id \in Nat
         /\ [up EXCEPT ![c] = Tail(@)] \in [Conns -> Seq(NtMessages)]
         /\ [req EXCEPT ![c] = Head(up[c])] \in [Conns -> NtMessages \cup {NoRequest}]
<1>1. up[c] \in Seq(NtMessages)
  BY DEF SessionTypes
<1>2. Head(up[c]) \in NtMessages /\ Tail(up[c]) \in Seq(NtMessages)
  BY <1>1
<1>3. Head(up[c]).id \in Nat
  BY <1>2 DEF NtMessages
<1> QED BY <1>2, <1>3 DEF SessionTypes

\* Every step of either end keeps the types; that a reader inside a frame has the rest
\* of it to read (ReaderInv) is what lets ReadGarbage take one away.
LEMMA TypesKept == SessionTypes /\ ReaderInv /\ [NtNext]_ntVars => SessionTypes'
<1> SUFFICES ASSUME SessionTypes, ReaderInv, [NtNext]_ntVars PROVE SessionTypes'
  OBVIOUS
<1>a. \A c \in Conns : req[c].id \in Nat /\ cur[c].id \in Nat
  BY DEF SessionTypes, NtMessages, NoRequest
<1>1. ASSUME NEW c \in Conns, NEW op \in Ops, Request(c, op) PROVE SessionTypes'
  <2>1. [op |-> op, id |-> requests[c] + 1] \in NtMessages
    BY DEF NtMessages, SessionTypes
  <2>2. <<>> \in Seq(Frames)
    OBVIOUS
  <2> QED BY <1>1, <2>1, <2>2 DEF Request, SessionTypes, serverVars
<1>2. ASSUME NEW c \in Conns, Reading(c) PROVE down' \in [Conns -> Seq(Frames)] /\ Head(down[c]) \in Frames
  BY <1>2 DEF Reading, SessionTypes
<1>3. ASSUME NEW c \in Conns, ReadHandshake(c) PROVE SessionTypes'
  BY <1>2, <1>3 DEF ReadHandshake, Done, Fail, SessionTypes, serverVars
<1>4. ASSUME NEW c \in Conns, ReadPong(c) PROVE SessionTypes'
  BY <1>2, <1>4 DEF ReadPong, Done, Fail, SessionTypes, serverVars
<1>5. ASSUME NEW c \in Conns, ReadReply(c) PROVE SessionTypes'
  BY <1>2, <1>5 DEF ReadReply, Done, Fail, SessionTypes, serverVars
<1>6. ASSUME NEW c \in Conns, ReadEvent(c) PROVE SessionTypes'
  <2>1. down' \in [Conns -> Seq(Frames)] /\ Head(down[c]) \in Frames
    BY <1>2, <1>6 DEF ReadEvent
  <2>2. yielded' \in [Conns -> Seq(Frames)] /\ nextSequence' \in [Conns -> Nat]
    <3>1. Append(yielded[c], Head(down[c])) \in Seq(Frames) /\ nextSequence[c] + 1 \in Nat
      BY <2>1 DEF SessionTypes
    <3> QED BY <1>6, <3>1 DEF ReadEvent, SessionTypes
  <2>3. client' \in [Conns -> {"idle", "waiting", "closed"}] /\ gaveUp' \in [Conns -> BOOLEAN]
    BY <1>6 DEF ReadEvent, Done, Fail, SessionTypes
  <2> QED BY <1>6, <2>1, <2>2, <2>3 DEF ReadEvent, SessionTypes, serverVars
<1>7. ASSUME NEW c \in Conns, GiveUp(c) PROVE SessionTypes'
  BY <1>7 DEF GiveUp, Fail, SessionTypes, serverVars
<1>8. ASSUME NEW c \in Conns, ReadGarbage(c) PROVE SessionTypes'
  <2>1. down[c] # <<>>
    BY <1>8 DEF ReadGarbage, ReaderInv, Boundary
  <2>2. Tail(down[c]) \in Seq(Frames)
    BY <2>1 DEF SessionTypes
  <2>3. down' \in [Conns -> Seq(Frames)]
    BY <1>8, <2>2 DEF ReadGarbage, SessionTypes
  <2> QED BY <1>8, <2>3 DEF ReadGarbage, Fail, SessionTypes, serverVars
<1>9. ASSUME NEW c \in Conns, Close(c) \/ ConnectionLost(c) PROVE SessionTypes'
  <2>1. [op |-> "close", id |-> 0] \in NtMessages
    BY DEF NtMessages
  <2> DEFINE m == [op |-> "close", id |-> 0]
  <2> HIDE DEF m
  <2>2. <<m>> \in Seq(NtMessages) /\ Append(up[c], m) \in Seq(NtMessages) /\ <<>> \in Seq(Frames)
    BY <2>1 DEF m, SessionTypes
  <2>3. /\ up' = [up EXCEPT ![c] = Append(up[c], m)] \/ up' = [up EXCEPT ![c] = <<m>>]
        /\ down' = down \/ down' = [down EXCEPT ![c] = <<>>]
    BY <1>9 DEF Close, ConnectionLost, m
  <2>4. up' \in [Conns -> Seq(NtMessages)]
    BY <2>2, <2>3 DEF SessionTypes
  <2>5. down' \in [Conns -> Seq(Frames)]
    <3>1. down \in [Conns -> Seq(Frames)]
      BY DEF SessionTypes
    <3>2. [down EXCEPT ![c] = <<>>] \in [Conns -> Seq(Frames)]
      BY <2>2, <3>1
    <3> QED BY <2>3, <3>1, <3>2, Zenon
  <2> QED BY <1>9, <2>4, <2>5 DEF Close, ConnectionLost, SessionTypes, serverVars
<1>10. ASSUME NEW c \in Conns, Receiving(c)
       PROVE  /\ up' \in [Conns -> Seq(NtMessages)] /\ req' \in [Conns -> NtMessages \cup {NoRequest}]
              /\ sequence' \in [Conns -> Nat] /\ terminal' \in [Conns -> BOOLEAN]
              /\ wrote' \in [Conns -> Seq(Frames)] /\ Head(up[c]).id \in Nat
  <2>1. <<>> \in Seq(Frames)
    OBVIOUS
  <2> QED BY <1>10, <2>1, NextMessage DEF Receiving, SessionTypes
<1>11. ASSUME NEW c \in Conns, OnClose(c) \/ OnDiscover(c) PROVE SessionTypes'
  <2>1. Receiving(c)
    BY <1>11 DEF OnClose, OnDiscover
  <2> QED BY <1>10, <1>11, <2>1 DEF OnClose, OnDiscover, Goto, SessionTypes, clientVars
<1>12. ASSUME NEW c \in Conns, OnInit(c) \/ OnPing(c) PROVE SessionTypes'
  <2>1. Receiving(c) /\ \E kind \in {"ack", "pong"} : Write(c, Frame(kind, Head(up[c]).id, "none"))
    BY <1>12 DEF OnInit, OnPing
  <2>2. down' \in [Conns -> Seq(Frames)]
    BY <1>10, <2>1, FramesAreFrames, WriteType
  <2> QED BY <1>10, <1>12, <2>1, <2>2 DEF OnInit, OnPing, Goto, SessionTypes, clientVars
<1>13. ASSUME NEW c \in Conns, OnCall(c) PROVE SessionTypes'
  <2>1. Receiving(c) /\ (Write(c, Frame("result", Head(up[c]).id, "429")) \/ down' = down)
    BY <1>13 DEF OnCall
  <2>2. down' \in [Conns -> Seq(Frames)]
    BY <1>10, <2>1, FramesAreFrames, WriteType DEF SessionTypes
  <2> QED BY <1>10, <1>13, <2>1, <2>2 DEF OnCall, Goto, SessionTypes, clientVars
<1>14. ASSUME NEW c \in Conns, OnStreamCall(c) PROVE SessionTypes'
  <2> DEFINE refusal == Event(Head(up[c]).id, 0, TRUE, FALSE, "backend_error")
  <2>1. up[c] # <<>> /\ (Write(c, refusal) \/ down' = down)
    BY <1>14 DEF OnStreamCall
  <2>2. refusal \in Frames
    BY <2>1, NextMessage, FramesAreFrames
  <2>3. down' \in [Conns -> Seq(Frames)]
    BY <2>1, <2>2, WriteType DEF SessionTypes
  <2> HIDE DEF refusal
  <2>4. <<>> \in Seq(Frames) /\ <<refusal>> \in Seq(Frames)
    BY <2>2
  <2>5. /\ up' = [up EXCEPT ![c] = Tail(@)] /\ req' = [req EXCEPT ![c] = Head(up[c])]
        /\ \E n \in Nat : sequence' = [sequence EXCEPT ![c] = n]
        /\ \E t \in BOOLEAN : terminal' = [terminal EXCEPT ![c] = t]
        /\ \E w \in Seq(Frames) : wrote' = [wrote EXCEPT ![c] = w]
        /\ server' = server \/ Goto(c, "streaming")
    BY <1>14, <2>4 DEF OnStreamCall, refusal
  <2>6. UNCHANGED clientVars
    BY <1>14 DEF OnStreamCall
  <2>7. up' \in [Conns -> Seq(NtMessages)] /\ req' \in [Conns -> NtMessages \cup {NoRequest}]
    BY <2>1, <2>5, NextMessage
  <2>8. sequence' \in [Conns -> Nat] /\ terminal' \in [Conns -> BOOLEAN]
    BY <2>5 DEF SessionTypes
  <2>9. wrote' \in [Conns -> Seq(Frames)]
    BY <2>5 DEF SessionTypes
  <2>10. server' \in [Conns -> {"open", "ready", "discovering", "running", "streaming", "gone"}]
    BY <2>5 DEF Goto, SessionTypes
  <2> QED BY <2>3, <2>6, <2>7, <2>8, <2>9, <2>10 DEF SessionTypes, clientVars
<1>15. ASSUME NEW c \in Conns, Respond(c) PROVE SessionTypes'
  <2>1. down' \in [Conns -> Seq(Frames)]
    BY <1>a, <1>15, FramesAreFrames, WriteType DEF Respond
  <2> QED BY <1>15, <2>1 DEF Respond, Goto, SessionTypes, clientVars
<1>16. ASSUME NEW c \in Conns, NEW final \in BOOLEAN, NEW odd \in BOOLEAN,
              NEW code \in {"none", "stream_incomplete", "backend_error"}, Emit(c, final, odd, code)
       PROVE  /\ down' \in [Conns -> Seq(Frames)] /\ wrote' \in [Conns -> Seq(Frames)]
              /\ sequence' \in [Conns -> Nat] /\ terminal' \in [Conns -> BOOLEAN]
  <2> DEFINE event == Event(req[c].id, sequence[c], final, odd, code)
  <2>1. event \in Frames
    BY <1>a, FramesAreFrames DEF SessionTypes
  <2>2. /\ Write(c, event) /\ wrote' = [wrote EXCEPT ![c] = Append(@, event)]
        /\ sequence' = [sequence EXCEPT ![c] = @ + 1] /\ terminal' = [terminal EXCEPT ![c] = final]
    BY <1>16 DEF Emit
  <2> HIDE DEF event
  <2>3. down' \in [Conns -> Seq(Frames)]
    BY <2>1, <2>2, WriteType
  <2>4. Append(wrote[c], event) \in Seq(Frames)
    BY <2>1 DEF SessionTypes
  <2>5. wrote' \in [Conns -> Seq(Frames)]
    BY <2>2, <2>4 DEF SessionTypes
  <2>6. sequence' \in [Conns -> Nat] /\ terminal' \in [Conns -> BOOLEAN]
    BY <2>2 DEF SessionTypes
  <2> QED BY <2>3, <2>5, <2>6
<1>17. ASSUME NEW c \in Conns, HandlerYields(c) PROVE SessionTypes'
  <2>1. \E final \in BOOLEAN, odd \in BOOLEAN : Emit(c, final, odd, "none")
    BY <1>17 DEF HandlerYields
  <2> QED BY <1>16, <1>17, <2>1 DEF HandlerYields, SessionTypes, clientVars
<1>18. ASSUME NEW c \in Conns, HandlerEnds(c) PROVE SessionTypes'
  <2>1. CASE terminal[c]
    BY <1>18, <2>1 DEF HandlerEnds, Goto, SessionTypes, clientVars
  <2>2. CASE ~terminal[c]
    <3>1. \E code \in {"stream_incomplete", "backend_error"} : Emit(c, TRUE, FALSE, code)
      BY <1>18, <2>2 DEF HandlerEnds
    <3> QED BY <1>16, <1>18, <3>1 DEF HandlerEnds, Goto, SessionTypes, clientVars
  <2> QED BY <2>1, <2>2
<1>19. ASSUME NEW c \in Conns, WriteFails(c) PROVE SessionTypes'
  BY <1>19 DEF WriteFails, Goto, SessionTypes, clientVars
<1>20. CASE UNCHANGED ntVars
  BY <1>20 DEF ntVars, clientVars, serverVars, SessionTypes
<1> QED
  BY <1>1, <1>3, <1>4, <1>5, <1>6, <1>7, <1>8, <1>9, <1>11, <1>12, <1>13, <1>14, <1>15, <1>17, <1>18,
     <1>19, <1>20 DEF NtNext, ClientStep, ServerStep

\* A reader loses the boundary only inside a frame, and nothing is taken from it meanwhile.
LEMMA ReaderKept == SessionTypes /\ ReaderInv /\ [NtNext]_ntVars => ReaderInv'
<1> SUFFICES ASSUME SessionTypes, ReaderInv, [NtNext]_ntVars PROVE ReaderInv'
  OBVIOUS
<1>1. CASE UNCHANGED <<aligned, client, down>>
  BY <1>1 DEF ReaderInv
<1>2. ASSUME NEW c \in Conns, aligned' = aligned, \A d \in Conns \ {c} : down'[d] = down[d] /\ client'[d] = client[d],
             Boundary(aligned[c], client'[c], down'[c])
      PROVE  ReaderInv'
  BY <1>2 DEF ReaderInv
<1>3. ASSUME NEW c \in Conns, Reading(c), aligned' = aligned,
             \A d \in Conns \ {c} : client'[d] = client[d]
      PROVE  ReaderInv'
  BY <1>2, <1>3 DEF Reading, Boundary, SessionTypes
<1>4. ASSUME NEW c \in Conns, NEW op \in Ops, Request(c, op) PROVE ReaderInv'
  BY <1>2, <1>4 DEF Request, SessionTypes, ReaderInv, Boundary
<1>5. ASSUME NEW c \in Conns, ReadHandshake(c) \/ ReadPong(c) \/ ReadReply(c) \/ ReadEvent(c)
      PROVE  ReaderInv'
  BY <1>3, <1>5 DEF ReadHandshake, ReadPong, ReadReply, ReadEvent, Done, Fail, SessionTypes
<1>6. ASSUME NEW c \in Conns, GiveUp(c) PROVE ReaderInv'
  BY <1>6 DEF GiveUp, Fail, SessionTypes, ReaderInv, Boundary
<1>7. ASSUME NEW c \in Conns, ReadGarbage(c) PROVE ReaderInv'
  BY <1>7 DEF ReadGarbage, Fail, SessionTypes, ReaderInv, Boundary
<1>8. ASSUME NEW c \in Conns, Close(c) \/ ConnectionLost(c) PROVE ReaderInv'
  BY <1>8 DEF Close, ConnectionLost, SessionTypes, ReaderInv, Boundary
<1>9. ASSUME NEW c \in Conns, NEW f \in Frames, Write(c, f), UNCHANGED clientVars PROVE ReaderInv'
  <2>1. client[c] # "closed" => down'[c] # <<>>
    BY <1>9, WriteType DEF SessionTypes
  <2> QED BY <1>2, <1>9, <2>1, WriteType DEF clientVars, Boundary
<1>10. ASSUME NEW c \in Conns, OnClose(c) \/ OnDiscover(c) \/ WriteFails(c) PROVE ReaderInv'
  BY <1>1, <1>10 DEF OnClose, OnDiscover, WriteFails, clientVars
<1>11. ASSUME NEW c \in Conns, OnInit(c) \/ OnPing(c) PROVE ReaderInv'
  <2>1. up[c] # <<>> /\ \E kind \in {"ack", "pong"} : Write(c, Frame(kind, Head(up[c]).id, "none"))
    BY <1>11 DEF OnInit, OnPing, Receiving
  <2> QED BY <1>9, <1>11, <2>1, NextMessage, FramesAreFrames DEF OnInit, OnPing
<1>12. ASSUME NEW c \in Conns, OnCall(c) PROVE ReaderInv'
  <2>1. up[c] # <<>> /\ (Write(c, Frame("result", Head(up[c]).id, "429")) \/ down' = down)
    BY <1>12 DEF OnCall, Receiving
  <2> QED BY <1>1, <1>9, <1>12, <2>1, NextMessage, FramesAreFrames DEF OnCall, clientVars
<1>13. ASSUME NEW c \in Conns, OnStreamCall(c) PROVE ReaderInv'
  <2>1. up[c] # <<>> /\ (Write(c, Event(Head(up[c]).id, 0, TRUE, FALSE, "backend_error")) \/ down' = down)
    BY <1>13 DEF OnStreamCall
  <2> QED BY <1>1, <1>9, <1>13, <2>1, NextMessage, FramesAreFrames DEF OnStreamCall, clientVars
<1>14. \A c \in Conns : req[c].id \in Nat
  BY DEF SessionTypes, NtMessages, NoRequest
<1>15. ASSUME NEW c \in Conns, Respond(c) PROVE ReaderInv'
  BY <1>9, <1>14, <1>15, FramesAreFrames DEF Respond
<1>16. ASSUME NEW c \in Conns, HandlerYields(c) \/ HandlerEnds(c) PROVE ReaderInv'
  <2>1. \/ down' = down
        \/ \E final \in BOOLEAN, odd \in BOOLEAN, code \in {"none", "stream_incomplete", "backend_error"} :
             Write(c, Event(req[c].id, sequence[c], final, odd, code))
    BY <1>16 DEF HandlerYields, HandlerEnds, Emit
  <2>2. UNCHANGED clientVars
    BY <1>16 DEF HandlerYields, HandlerEnds
  <2>3. sequence[c] \in Nat
    BY DEF SessionTypes
  <2> QED BY <1>1, <1>9, <1>14, <2>1, <2>2, <2>3, FramesAreFrames DEF clientVars
<1>17. CASE UNCHANGED ntVars
  BY <1>1, <1>17 DEF ntVars, clientVars
<1> QED
  BY <1>4, <1>5, <1>6, <1>7, <1>8, <1>10, <1>11, <1>12, <1>13, <1>15, <1>16, <1>17
  DEF NtNext, ClientStep, ServerStep

-----------------------------------------------------------------------------
\* Events given to the caller so far: NativeResponseSequence counts them.
Own(y, q, n, cl) ==
  /\ Len(y) = n
  /\ \A i \in 1..Len(y) : /\ y[i].id = q.id /\ y[i].seq = i - 1
                          /\ y[i].final => i = Len(y) /\ cl # "waiting"

OwnInv == \A c \in Conns : Own(yielded[c], cur[c], nextSequence[c], client[c])

\* stream_call gives the caller the next event of its own call or raises.
LEMMA OwnKept == SessionTypes /\ OwnInv /\ [NtNext]_ntVars => OwnInv'
<1> SUFFICES ASSUME SessionTypes, OwnInv, [NtNext]_ntVars PROVE OwnInv'
  OBVIOUS
<1>1. CASE UNCHANGED clientVars
  BY <1>1 DEF clientVars, OwnInv
<1>2. ASSUME NEW c \in Conns, UNCHANGED <<yielded, cur, nextSequence>>,
             \A d \in Conns \ {c} : client'[d] = client[d], client'[c] # "waiting"
      PROVE  OwnInv'
  BY <1>2 DEF OwnInv, Own
<1>3. ASSUME NEW c \in Conns, NEW op \in Ops, Request(c, op) PROVE OwnInv'
  <2>1. yielded'[c] = <<>> /\ nextSequence'[c] = 0
    BY <1>3 DEF Request, SessionTypes
  <2>2. Own(yielded'[c], cur'[c], nextSequence'[c], client'[c])
    BY <2>1 DEF Own
  <2>3. \A d \in Conns \ {c} : /\ yielded'[d] = yielded[d] /\ nextSequence'[d] = nextSequence[d]
                               /\ cur'[d] = cur[d] /\ client'[d] = client[d]
    BY <1>3 DEF Request, SessionTypes
  <2> QED BY <2>2, <2>3 DEF OwnInv
<1>4. ASSUME NEW c \in Conns, ReadHandshake(c) \/ ReadPong(c) \/ ReadReply(c) PROVE OwnInv'
  <2>1. UNCHANGED <<yielded, cur, nextSequence>> /\ (Done(c) \/ Fail(c))
    BY <1>4 DEF ReadHandshake, ReadPong, ReadReply
  <2>2. client'[c] # "waiting" /\ \A d \in Conns \ {c} : client'[d] = client[d]
    BY <2>1 DEF Done, Fail, SessionTypes
  <2> QED BY <1>2, <2>1, <2>2
<1>5. ASSUME NEW c \in Conns, GiveUp(c) \/ ReadGarbage(c) \/ Close(c) \/ ConnectionLost(c) PROVE OwnInv'
  BY <1>2, <1>5 DEF GiveUp, ReadGarbage, Close, ConnectionLost, Fail, SessionTypes
<1>6. ASSUME NEW c \in Conns, ReadEvent(c) PROVE OwnInv'
  <2> DEFINE f == Head(down[c])
             y == yielded[c]
             p == Append(y, f)
  <2>1. CASE ~AcceptFrame(c, f)
    <3>1. Fail(c) /\ UNCHANGED <<yielded, cur, nextSequence>>
      BY <1>6, <2>1 DEF ReadEvent
    <3>2. client'[c] # "waiting" /\ \A d \in Conns \ {c} : client'[d] = client[d]
      BY <3>1 DEF Fail, SessionTypes
    <3> QED BY <1>2, <3>1, <3>2
  <2>2. CASE AcceptFrame(c, f)
    <3>1. /\ yielded' = [yielded EXCEPT ![c] = p] /\ nextSequence' = [nextSequence EXCEPT ![c] = @ + 1]
          /\ f.final => client' = [client EXCEPT ![c] = "idle"]
          /\ ~f.final => client' = client
          /\ cur' = cur /\ client[c] = "waiting" /\ f.id = cur[c].id /\ f.seq = nextSequence[c]
      BY <1>6, <2>2 DEF ReadEvent, Done, AcceptFrame, Reading
    <3>2. y \in Seq(Frames) /\ Own(y, cur[c], nextSequence[c], "waiting") /\ nextSequence[c] \in Nat
      BY <3>1 DEF OwnInv, SessionTypes
    <3>3. f \in Frames
      BY <1>6 DEF ReadEvent, Reading, SessionTypes
    <3> HIDE DEF f, y
    <3>4. /\ Len(p) = Len(y) + 1 /\ p[Len(y) + 1] = f /\ \A i \in 1..Len(y) : p[i] = y[i]
          /\ Len(y) \in Nat
      BY <3>2, <3>3
    <3>5. /\ yielded'[c] = p /\ nextSequence'[c] = nextSequence[c] + 1 /\ cur'[c] = cur[c]
          /\ f.final => client'[c] = "idle"
          /\ \A d \in Conns \ {c} : /\ yielded'[d] = yielded[d] /\ nextSequence'[d] = nextSequence[d]
                                    /\ cur'[d] = cur[d] /\ client'[d] = client[d]
      BY <3>1 DEF SessionTypes
    <3> HIDE DEF p
    <3>6. \A i \in 1..Len(p) : /\ p[i].id = cur[c].id /\ p[i].seq = i - 1
                               /\ p[i].final => i = Len(p) /\ client'[c] # "waiting"
      <4> TAKE i \in 1..Len(p)
      <4>1. CASE i \in 1..Len(y)
        BY <3>2, <3>4, <4>1 DEF Own
      <4>2. CASE i = Len(y) + 1
        BY <3>1, <3>2, <3>4, <3>5, <4>2 DEF Own
      <4> QED BY <3>4, <4>1, <4>2
    <3>7. Own(yielded'[c], cur'[c], nextSequence'[c], client'[c])
      BY <3>2, <3>4, <3>5, <3>6 DEF Own
    <3> QED BY <3>5, <3>7 DEF OwnInv
  <2> QED BY <2>1, <2>2
<1>7. ASSUME NEW c \in Conns, ServerStep(c) PROVE OwnInv'
  <2>1. UNCHANGED clientVars
    BY <1>7, Zenon DEF ServerStep, OnClose, OnInit, OnPing, OnDiscover, OnCall, OnStreamCall, Respond, HandlerYields,
              HandlerEnds, WriteFails
  <2> QED BY <1>1, <2>1
<1>8. CASE UNCHANGED ntVars
  BY <1>1, <1>8 DEF ntVars
<1> QED
  BY <1>3, <1>4, <1>5, <1>6, <1>7, <1>8 DEF NtNext, ClientStep

-----------------------------------------------------------------------------
\* Events written for the stream so far.
Numbered(w, n, t) ==
  /\ Len(w) = n /\ (t => n # 0)
  /\ \A i \in 1..Len(w) : w[i].seq = i - 1 /\ (w[i].final <=> i = Len(w) /\ t)

\* What a session is about, and what it has written of it.
Serving(s, q, w, n, t) ==
  /\ s = "streaming" => q.op = "stream" /\ Streaming /\ Numbered(w, n, t)
  /\ s \in {"discovering", "running"} => ~(q.op = "stream" /\ Streaming)
  /\ s = "ready" /\ q.op = "stream" /\ Streaming => w # <<>> /\ WellFormed(w)

ServingInv == \A c \in Conns : Serving(server[c], req[c], wrote[c], sequence[c], terminal[c])

\* Writing the next event of a stream that has none that is final.
LEMMA EmitKeeps ==
  ASSUME NEW w \in Seq(Frames), NEW n \in Nat, Numbered(w, n, FALSE),
         NEW f \in Frames, f.seq = n
  PROVE  /\ Numbered(Append(w, f), n + 1, f.final)
         /\ f.final => Append(w, f) # <<>> /\ WellFormed(Append(w, f))
<1> DEFINE p == Append(w, f)
<1>1. /\ Len(p) = Len(w) + 1 /\ p[Len(w) + 1] = f /\ \A i \in 1..Len(w) : p[i] = w[i]
      /\ Len(w) \in Nat /\ p # <<>>
  OBVIOUS
<1>2. f.final \in BOOLEAN
  BY DEF Frames
<1> HIDE DEF p
<1>3. \A i \in 1..Len(p) : p[i].seq = i - 1 /\ (p[i].final <=> i = Len(p) /\ f.final)
  <2> TAKE i \in 1..Len(p)
  <2>1. CASE i \in 1..Len(w)
    BY <1>1, <2>1 DEF Numbered
  <2>2. CASE i = Len(w) + 1
    BY <1>1, <1>2, <2>2 DEF Numbered
  <2> QED BY <1>1, <2>1, <2>2
<1>4. Numbered(p, n + 1, f.final)
  BY <1>1, <1>3 DEF Numbered
<1>5. f.final => WellFormed(p)
  BY <1>3 DEF WellFormed
<1> QED BY <1>1, <1>4, <1>5 DEF p

\* On every path through _on_stream_call the stream is numbered as far as it got, and
\* whole once the session is ready for the next frame.
LEMMA ServingKept == SessionTypes /\ ServingInv /\ [NtNext]_ntVars => ServingInv'
<1> SUFFICES ASSUME SessionTypes, ServingInv, [NtNext]_ntVars PROVE ServingInv'
  OBVIOUS
<1>1. CASE UNCHANGED serverVars
  BY <1>1 DEF serverVars, ServingInv
<1>2. ASSUME NEW c \in Conns,
             \A d \in Conns \ {c} : /\ server'[d] = server[d] /\ req'[d] = req[d] /\ wrote'[d] = wrote[d]
                                    /\ sequence'[d] = sequence[d] /\ terminal'[d] = terminal[d],
             Serving(server'[c], req'[c], wrote'[c], sequence'[c], terminal'[c])
      PROVE  ServingInv'
  BY <1>2 DEF ServingInv
<1>3. ASSUME NEW c \in Conns, ClientStep(c) PROVE ServingInv'
  <2>1. UNCHANGED serverVars
    BY <1>3, Zenon DEF ClientStep, Request, ReadHandshake, ReadPong, ReadReply, ReadEvent, GiveUp, ReadGarbage,
              Close, ConnectionLost
  <2> QED BY <1>1, <2>1
<1>4. ASSUME NEW c \in Conns, Receiving(c), NEW s \in {"ready", "discovering", "running", "gone"},
             Goto(c, s), s # "gone" => ~(Head(up[c]).op = "stream" /\ Streaming)
      PROVE  ServingInv'
  <2>1. /\ server' = [server EXCEPT ![c] = s] /\ req' = [req EXCEPT ![c] = Head(up[c])]
        /\ sequence' = [sequence EXCEPT ![c] = 0] /\ terminal' = [terminal EXCEPT ![c] = FALSE]
        /\ wrote' = [wrote EXCEPT ![c] = <<>>]
    BY <1>4 DEF Receiving, Goto
  <2>2. /\ server'[c] = s /\ req'[c] = Head(up[c])
        /\ \A d \in Conns \ {c} : /\ server'[d] = server[d] /\ req'[d] = req[d] /\ wrote'[d] = wrote[d]
                                  /\ sequence'[d] = sequence[d] /\ terminal'[d] = terminal[d]
    BY <2>1 DEF SessionTypes
  <2>3. Serving(server'[c], req'[c], wrote'[c], sequence'[c], terminal'[c])
    BY <1>4, <2>2 DEF Serving
  <2> QED BY <1>2, <2>2, <2>3
<1>5. \A c \in Conns : server[c] = "ready" /\ server' = server => Goto(c, "ready")
  BY DEF Goto, SessionTypes
<1>6. ASSUME NEW c \in Conns, OnClose(c) \/ OnInit(c) \/ OnPing(c) \/ OnDiscover(c) PROVE ServingInv'
  BY <1>4, <1>5, <1>6 DEF OnClose, OnInit, OnPing, OnDiscover
<1>7. ASSUME NEW c \in Conns, OnCall(c) PROVE ServingInv'
  <2>1. ~(Head(up[c]).op = "stream" /\ Streaming) /\ Receiving(c) /\ server[c] = "ready"
    BY <1>7 DEF OnCall, Buffered
  <2>2. server' = server \/ Goto(c, "running")
    BY <1>7 DEF OnCall
  <2> QED BY <1>4, <1>5, <2>1, <2>2
<1>8. ASSUME NEW c \in Conns, OnStreamCall(c) PROVE ServingInv'
  <2> DEFINE f == Event(Head(up[c]).id, 0, TRUE, FALSE, "backend_error")
  <2>1. /\ req' = [req EXCEPT ![c] = Head(up[c])] /\ Head(up[c]).op = "stream" /\ Streaming
        /\ server[c] = "ready" /\ up[c] # <<>>
    BY <1>8 DEF OnStreamCall
  <2>2. f \in Frames /\ f.final /\ f.seq = 0
    <3>1. Head(up[c]).id \in Nat
      BY <2>1, NextMessage
    <3>2. f \in Frames
      BY <3>1 DEF Event, Frames
    <3> QED BY <3>2 DEF Event
  <2> HIDE DEF f
  <2>3. CASE /\ sequence' = [sequence EXCEPT ![c] = 1] /\ terminal' = [terminal EXCEPT ![c] = TRUE]
             /\ wrote' = [wrote EXCEPT ![c] = <<f>>] /\ server' = server
    <3>1. /\ server'[c] = "ready" /\ wrote'[c] = <<f>>
          /\ \A d \in Conns \ {c} : /\ server'[d] = server[d] /\ req'[d] = req[d] /\ wrote'[d] = wrote[d]
                                    /\ sequence'[d] = sequence[d] /\ terminal'[d] = terminal[d]
      BY <2>1, <2>3 DEF SessionTypes
    <3>2. <<f>> # <<>> /\ WellFormed(<<f>>)
      BY <2>2 DEF WellFormed
    <3>3. Serving(server'[c], req'[c], wrote'[c], sequence'[c], terminal'[c])
      BY <3>1, <3>2 DEF Serving
    <3> QED BY <1>2, <3>1, <3>3
  <2>4. CASE /\ sequence' = [sequence EXCEPT ![c] = 0] /\ terminal' = [terminal EXCEPT ![c] = FALSE]
             /\ wrote' = [wrote EXCEPT ![c] = <<>>] /\ Goto(c, "streaming")
    <3>1. /\ server'[c] = "streaming" /\ wrote'[c] = <<>> /\ sequence'[c] = 0 /\ terminal'[c] = FALSE
          /\ req'[c].op = "stream"
          /\ \A d \in Conns \ {c} : /\ server'[d] = server[d] /\ req'[d] = req[d] /\ wrote'[d] = wrote[d]
                                    /\ sequence'[d] = sequence[d] /\ terminal'[d] = terminal[d]
      BY <2>1, <2>4 DEF SessionTypes, Goto
    <3>2. Numbered(<<>>, 0, FALSE)
      BY DEF Numbered
    <3>3. Serving(server'[c], req'[c], wrote'[c], sequence'[c], terminal'[c])
      BY <2>1, <3>1, <3>2 DEF Serving
    <3> QED BY <1>2, <3>1, <3>3
  <2> QED BY <1>8, <2>3, <2>4 DEF OnStreamCall, f
<1>9. ASSUME NEW c \in Conns, Respond(c) PROVE ServingInv'
  <2>1. /\ server'[c] = "ready" /\ server[c] \in {"discovering", "running"}
        /\ UNCHANGED <<req, wrote, sequence, terminal>> /\ \A d \in Conns \ {c} : server'[d] = server[d]
    BY <1>9 DEF Respond, Goto, SessionTypes
  <2>2. Serving(server'[c], req'[c], wrote'[c], sequence'[c], terminal'[c])
    BY <2>1 DEF ServingInv, Serving
  <2> QED BY <1>2, <2>1, <2>2
<1>10. ASSUME NEW c \in Conns, NEW final \in BOOLEAN, NEW odd \in BOOLEAN,
              NEW code \in {"none", "stream_incomplete", "backend_error"}, Emit(c, final, odd, code),
              server[c] = "streaming", ~terminal[c], req' = req,
              server' = server \/ (final /\ Goto(c, "ready"))
       PROVE  ServingInv'
  <2> DEFINE f == Event(req[c].id, sequence[c], final, odd, code)
             w == wrote[c]
  <2>1. /\ wrote' = [wrote EXCEPT ![c] = Append(w, f)]
        /\ sequence' = [sequence EXCEPT ![c] = @ + 1] /\ terminal' = [terminal EXCEPT ![c] = final]
    BY <1>10 DEF Emit
  <2>2. req[c].id \in Nat /\ sequence[c] \in Nat /\ w \in Seq(Frames)
    BY DEF SessionTypes, NtMessages, NoRequest
  <2>3. f \in Frames /\ f.final = final /\ f.seq = sequence[c]
    <3>1. f \in Frames
      BY <2>2 DEF Event, Frames
    <3> QED BY <3>1 DEF Event
  <2>4. Numbered(w, sequence[c], FALSE) /\ req[c].op = "stream" /\ Streaming
    BY <1>10 DEF ServingInv, Serving, Numbered, SessionTypes
  <2> HIDE DEF f, w
  <2>5. /\ Numbered(Append(w, f), sequence[c] + 1, final)
        /\ final => Append(w, f) # <<>> /\ WellFormed(Append(w, f))
    BY <2>2, <2>3, <2>4, EmitKeeps
  <2>6. /\ wrote'[c] = Append(w, f) /\ sequence'[c] = sequence[c] + 1 /\ terminal'[c] = final
        /\ server'[c] = "streaming" \/ (server'[c] = "ready" /\ final)
        /\ \A d \in Conns \ {c} : /\ server'[d] = server[d] /\ req'[d] = req[d] /\ wrote'[d] = wrote[d]
                                  /\ sequence'[d] = sequence[d] /\ terminal'[d] = terminal[d]
    BY <1>10, <2>1 DEF SessionTypes, Goto
  <2>7. Serving(server'[c], req'[c], wrote'[c], sequence'[c], terminal'[c])
    BY <1>10, <2>4, <2>5, <2>6 DEF Serving
  <2> QED BY <1>2, <2>6, <2>7
<1>11. ASSUME NEW c \in Conns, HandlerYields(c) PROVE ServingInv'
  <2>1. \E final \in BOOLEAN, odd \in BOOLEAN : Emit(c, final, odd, "none")
    BY <1>11 DEF HandlerYields
  <2> QED BY <1>10, <1>11, <2>1 DEF HandlerYields
<1>12. ASSUME NEW c \in Conns, HandlerEnds(c) PROVE ServingInv'
  <2>1. CASE terminal[c]
    <3>1. /\ server'[c] = "ready" /\ server[c] = "streaming" /\ \A d \in Conns \ {c} : server'[d] = server[d]
          /\ UNCHANGED <<req, wrote, sequence, terminal>>
      BY <1>12, <2>1 DEF HandlerEnds, Goto, SessionTypes
    <3>2. Numbered(wrote[c], sequence[c], terminal[c]) /\ wrote[c] \in Seq(Frames)
      BY <3>1 DEF ServingInv, Serving, SessionTypes
    <3>3. wrote[c] # <<>> /\ WellFormed(wrote[c])
      BY <2>1, <3>2 DEF Numbered, WellFormed
    <3>4. Serving(server'[c], req'[c], wrote'[c], sequence'[c], terminal'[c])
      BY <3>1, <3>3 DEF Serving
    <3> QED BY <1>2, <3>1, <3>4
  <2>2. CASE ~terminal[c]
    <3>1. \E code \in {"stream_incomplete", "backend_error"} : Emit(c, TRUE, FALSE, code)
      BY <1>12, <2>2 DEF HandlerEnds
    <3> QED BY <1>10, <1>12, <2>2, <3>1 DEF HandlerEnds
  <2> QED BY <2>1, <2>2
<1>13. ASSUME NEW c \in Conns, WriteFails(c) PROVE ServingInv'
  <2>1. /\ server'[c] = "gone" /\ \A d \in Conns \ {c} : server'[d] = server[d]
        /\ UNCHANGED <<req, wrote, sequence, terminal>>
    BY <1>13 DEF WriteFails, Goto, SessionTypes
  <2>2. Serving(server'[c], req'[c], wrote'[c], sequence'[c], terminal'[c])
    BY <2>1 DEF Serving
  <2> QED BY <1>2, <2>1, <2>2
<1>14. CASE UNCHANGED ntVars
  BY <1>1, <1>14 DEF ntVars
<1> QED
  BY <1>3, <1>6, <1>7, <1>8, <1>9, <1>11, <1>12, <1>13, <1>14 DEF NtNext, ServerStep

-----------------------------------------------------------------------------
\* The gate counts the sessions that hold a slot of it.
GateInv ==
  /\ active \in Nat
  /\ Gated => active = Cardinality(Holders) /\ active <= MaxConcurrent

\* Every path out of a handler gives back the slot that the path into it took.
LEMMA GateKept == SessionTypes /\ GateInv /\ [NtNext]_ntVars => GateInv'
<1> SUFFICES ASSUME SessionTypes, GateInv, [NtNext]_ntVars PROVE GateInv'
  OBVIOUS
<1>1. IsFiniteSet(Holders)
  BY ConnsAssumption, FS_Subset DEF Holders
<1>2. CASE UNCHANGED active /\ Holders' = Holders
  BY <1>2 DEF GateInv
<1>3. ASSUME NEW c \in Conns, NEW s, Goto(c, s)
      PROVE  /\ server'[c] = s
             /\ s \in {"running", "streaming"} => Holders' = Holders \cup {c}
             /\ s \notin {"running", "streaming"} => Holders' = Holders \ {c}
  BY <1>3 DEF Goto, SessionTypes, Holders
<1>4. ASSUME NEW c \in Conns, c \notin Holders, ~Full, AcquireGate, Holders' = Holders \cup {c}
      PROVE  GateInv'
  <2>1. Cardinality(Holders \cup {c}) = Cardinality(Holders) + 1
    BY <1>1, <1>4, FS_AddElement
  <2> QED BY <1>4, <2>1, ServerAssumption DEF GateInv, AcquireGate, Full
<1>5. ASSUME NEW c \in Conns, c \in Holders, ReleaseGate, Holders' = Holders \ {c}
      PROVE  GateInv'
  <2>1. Cardinality(Holders \ {c}) = Cardinality(Holders) - 1 /\ Cardinality(Holders \ {c}) \in Nat
    BY <1>1, <1>5, FS_RemoveElement, FS_CardinalityType
  <2>2. Holders \ {c} \subseteq Holders
    OBVIOUS
  <2>3. IsFiniteSet(Holders \ {c})
    BY <1>1, <2>2, FS_Subset
  <2>4. Cardinality(Holders \ {c}) \in Nat
    BY <2>3, FS_CardinalityType
  <2> QED BY <1>5, <2>1, <2>4, ServerAssumption DEF GateInv, ReleaseGate
<1>6. ASSUME NEW c \in Conns, ClientStep(c) PROVE GateInv'
  <2>1. UNCHANGED serverVars
    BY <1>6, Zenon DEF ClientStep, Request, ReadHandshake, ReadPong, ReadReply, ReadEvent, GiveUp, ReadGarbage,
              Close, ConnectionLost
  <2> QED BY <1>2, <2>1 DEF serverVars, Holders
<1>7. ASSUME NEW c \in Conns, server[c] \notin {"running", "streaming"}, UNCHANGED active,
             server' = server \/ \E s \in {"ready", "discovering", "gone"} : Goto(c, s)
      PROVE  GateInv'
  <2>1. c \notin Holders
    BY <1>7 DEF Holders
  <2>2. Holders' = Holders
    BY <1>3, <1>7, <2>1 DEF Holders
  <2> QED BY <1>2, <1>7, <2>2
<1>8. ASSUME NEW c \in Conns, OnClose(c) \/ OnInit(c) \/ OnPing(c) \/ OnDiscover(c) PROVE GateInv'
  BY <1>7, <1>8 DEF OnClose, OnInit, OnPing, OnDiscover, Receiving
<1>9. ASSUME NEW c \in Conns, OnCall(c) \/ OnStreamCall(c) PROVE GateInv'
  <2>1. server[c] = "ready"
    BY <1>9 DEF OnCall, OnStreamCall
  <2>2. \/ UNCHANGED <<server, active>>
        \/ ~Full /\ AcquireGate /\ (Goto(c, "running") \/ Goto(c, "streaming"))
    BY <1>9 DEF OnCall, OnStreamCall
  <2>3. c \notin Holders
    BY <2>1 DEF Holders
  <2> QED BY <1>3, <1>4, <1>7, <2>1, <2>2, <2>3
<1>10. ASSUME NEW c \in Conns, server[c] \in {"running", "streaming"}, ReleaseGate,
              Goto(c, "ready") \/ Goto(c, "gone")
       PROVE  GateInv'
  <2>1. c \in Holders
    BY <1>10 DEF Holders
  <2> QED BY <1>3, <1>5, <1>10, <2>1
<1>11. ASSUME NEW c \in Conns, Respond(c) PROVE GateInv'
  BY <1>7, <1>10, <1>11 DEF Respond
<1>12. ASSUME NEW c \in Conns, HandlerYields(c) PROVE GateInv'
  <2>1. UNCHANGED <<server, active>>
    BY <1>12 DEF HandlerYields
  <2> QED BY <1>2, <2>1 DEF Holders
<1>13. ASSUME NEW c \in Conns, HandlerEnds(c) PROVE GateInv'
  BY <1>10, <1>13 DEF HandlerEnds
<1>14. ASSUME NEW c \in Conns, WriteFails(c) PROVE GateInv'
  BY <1>7, <1>10, <1>14 DEF WriteFails
<1>15. CASE UNCHANGED ntVars
  BY <1>2, <1>15 DEF ntVars, serverVars, Holders
<1> QED
  BY <1>6, <1>8, <1>9, <1>11, <1>12, <1>13, <1>14, <1>15 DEF NtNext, ServerStep
-----------------------------------------------------------------------------
\* The server still owes the answer to the request it handles.
Busy(s, t) == s \in {"discovering", "running"} \/ (s = "streaming" /\ ~t)

\* What is on its way to the client belongs to request k; only a stream has frames
\* that are not its last.
OneAnswer(d, k) ==
  \A i \in 1..Len(d) : /\ d[i].id = k.id
                       /\ d[i].final => i = Len(d)
                       /\ ~d[i].final => k.op = "stream"

Unended(d) == \A i \in 1..Len(d) : ~d[i].final

\* The two ends take turns: a request k is on its way up, or the server works on it, or
\* what is left of its answer is on its way down.
Turn(u, d, s, t, q, k, cl) ==
  /\ u = <<>> \/ (u = <<k>> /\ d = <<>> /\ ~Busy(s, t) /\ cl = "waiting")
  /\ Busy(s, t) => q = k /\ cl = "waiting" /\ Unended(d) /\ (s # "streaming" => d = <<>>)
  /\ OneAnswer(d, k)
  /\ cl = "idle" => d = <<>>

\* They do so until the client gives up on a request or is closed.
LockStep(c) ==
  \/ gaveUp[c]
  \/ /\ \A a \in answered[c] : a[1] = a[2]
     /\ client[c] = "closed" \/ Turn(up[c], down[c], server[c], terminal[c], req[c], cur[c], client[c])

LockStepInv == \A c \in Conns : LockStep(c)

\* Adding a frame to what is on its way.
LEMMA AnswerGrows ==
  ASSUME NEW d \in Seq(Frames), NEW k, OneAnswer(d, k), Unended(d),
         NEW f \in Frames, f.id = k.id, f.final \/ k.op = "stream"
  PROVE  OneAnswer(Append(d, f), k) /\ (~f.final => Unended(Append(d, f)))
<1> DEFINE p == Append(d, f)
<1>1. /\ Len(p) = Len(d) + 1 /\ p[Len(d) + 1] = f /\ \A i \in 1..Len(d) : p[i] = d[i]
      /\ Len(d) \in Nat
  OBVIOUS
<1> HIDE DEF p
<1>2. \A i \in 1..Len(p) : i \in 1..Len(d) \/ i = Len(p)
  BY <1>1
<1>3. OneAnswer(p, k)
  BY <1>1, <1>2 DEF OneAnswer, Unended
<1>4. ~f.final => Unended(p)
  BY <1>1, <1>2 DEF Unended
<1> QED BY <1>3, <1>4 DEF p

\* Taking the first frame: a final one was the only one.
LEMMA AnswerShrinks ==
  ASSUME NEW d \in Seq(Frames), NEW k, OneAnswer(d, k), d # <<>>
  PROVE  /\ OneAnswer(Tail(d), k) /\ Head(d).id = k.id
         /\ Head(d).final => Tail(d) = <<>>
         /\ ~Head(d).final => k.op = "stream"
         /\ Unended(d) => Unended(Tail(d)) /\ ~Head(d).final
<1> DEFINE p == Tail(d)
<1>1. /\ Len(p) = Len(d) - 1 /\ Head(d) = d[1] /\ \A i \in 1..Len(p) : p[i] = d[i + 1]
      /\ Len(d) \in Nat /\ Len(d) # 0 /\ p \in Seq(Frames)
  OBVIOUS
<1> HIDE DEF p
<1>2. Len(p) = 0 => p = <<>>
  BY <1>1
<1>3. 1 \in 1..Len(d) /\ \A i \in 1..Len(p) : i + 1 \in 1..Len(d)
  BY <1>1
<1>4. OneAnswer(p, k)
  <2> SUFFICES ASSUME NEW i \in 1..Len(p)
               PROVE  p[i].id = k.id /\ (p[i].final => i = Len(p)) /\ (~p[i].final => k.op = "stream")
    BY DEF OneAnswer
  <2>1. p[i] = d[i + 1] /\ i + 1 \in 1..Len(d)
    BY <1>1, <1>3
  <2> QED BY <1>1, <2>1 DEF OneAnswer
<1>5. Head(d).id = k.id /\ (Head(d).final => Len(d) = 1) /\ (~Head(d).final => k.op = "stream")
  BY <1>1, <1>3 DEF OneAnswer
<1>6. Unended(d) => Unended(p) /\ ~Head(d).final
  BY <1>1, <1>3 DEF Unended
<1> QED BY <1>1, <1>2, <1>4, <1>5, <1>6 DEF p

\* Nothing is on its way.
LEMMA NothingOwed == \A k : OneAnswer(<<>>, k) /\ Unended(<<>>)
BY DEF OneAnswer, Unended

\* The ends go on taking turns: a request is sent when nothing is owed, a final frame is
\* read when it is the only one left, and the server writes for the current request.
LEMMA LockStepKept ==
  SessionTypes /\ ServingInv /\ LockStepInv /\ [NtNext]_ntVars => LockStepInv'
<1> SUFFICES ASSUME SessionTypes, ServingInv, LockStepInv, [NtNext]_ntVars PROVE LockStepInv'
  OBVIOUS
<1>1. ASSUME NEW c \in Conns, LockStep(c)',
             \A b \in Conns \ {c} :
               /\ gaveUp'[b] = gaveUp[b] /\ answered'[b] = answered[b] /\ client'[b] = client[b]
               /\ up'[b] = up[b] /\ down'[b] = down[b] /\ server'[b] = server[b]
               /\ terminal'[b] = terminal[b] /\ req'[b] = req[b] /\ cur'[b] = cur[b]
      PROVE  LockStepInv'
  BY <1>1 DEF LockStepInv, LockStep
<1>2. ASSUME NEW c \in Conns, NEW op \in Ops, Request(c, op) PROVE LockStepInv'
  <2> DEFINE k == [op |-> op, id |-> requests[c] + 1]
  <2>1. /\ client[c] = "idle" /\ client' = [client EXCEPT ![c] = "waiting"]
        /\ cur' = [cur EXCEPT ![c] = k] /\ up' = [up EXCEPT ![c] = Append(@, k)]
        /\ UNCHANGED <<gaveUp, answered, down, server, terminal, req>>
    BY <1>2 DEF Request, serverVars
  <2>2. k \in NtMessages
    BY DEF NtMessages, SessionTypes
  <2> HIDE DEF k
  <2>3. /\ client'[c] = "waiting" /\ cur'[c] = k /\ up'[c] = Append(up[c], k)
        /\ \A b \in Conns \ {c} : client'[b] = client[b] /\ up'[b] = up[b] /\ cur'[b] = cur[b]
    BY <2>1 DEF SessionTypes
  <2>4. CASE gaveUp[c]
    BY <1>1, <2>1, <2>3, <2>4 DEF LockStep
  <2>5. CASE ~gaveUp[c]
    <3>1. /\ \A a \in answered[c] : a[1] = a[2]
          /\ Turn(up[c], down[c], server[c], terminal[c], req[c], cur[c], client[c])
      BY <2>1, <2>5 DEF LockStepInv, LockStep
    <3>2. up[c] = <<>> /\ down[c] = <<>> /\ ~Busy(server[c], terminal[c])
      BY <2>1, <3>1 DEF Turn
    <3>3. up'[c] = <<k>>
      BY <2>2, <2>3, <3>2
    <3>4. Turn(<<k>>, <<>>, server[c], terminal[c], req[c], k, "waiting")
      BY <3>2, NothingOwed DEF Turn
    <3>5. LockStep(c)'
      BY <2>1, <2>3, <3>1, <3>2, <3>3, <3>4 DEF LockStep
    <3> QED BY <1>1, <2>1, <2>3, <3>5
  <2> QED BY <2>4, <2>5
<1>3. ASSUME NEW c \in Conns, Fail(c), UNCHANGED <<cur, serverVars, up>>,
             \A b \in Conns \ {c} : answered'[b] = answered[b] /\ down'[b] = down[b]
      PROVE  LockStepInv'
  <2>1. gaveUp'[c] /\ \A b \in Conns \ {c} : gaveUp'[b] = gaveUp[b] /\ client'[b] = client[b]
    BY <1>3 DEF Fail, SessionTypes
  <2>2. LockStep(c)'
    BY <2>1 DEF LockStep
  <2> QED BY <1>1, <1>3, <2>1, <2>2 DEF serverVars
<1>4. ASSUME NEW c \in Conns, GiveUp(c) \/ ReadGarbage(c) PROVE LockStepInv'
  <2>1. Fail(c) /\ UNCHANGED <<cur, serverVars, up, answered>>
    BY <1>4 DEF GiveUp, ReadGarbage
  <2>2. \A b \in Conns \ {c} : down'[b] = down[b]
    BY <1>4 DEF GiveUp, ReadGarbage, SessionTypes
  <2> QED BY <1>3, <2>1, <2>2
<1>5. ASSUME NEW c \in Conns, Reading(c), UNCHANGED <<cur, serverVars, up>>,
             Done(c), cur[c].op # "stream" \/ Head(down[c]).final,
             \A b \in Conns \ {c} : answered'[b] = answered[b],
             \/ answered'[c] = answered[c]
             \/ answered'[c] = answered[c] \cup {<<cur[c].id, Head(down[c]).id>>}
      PROVE  LockStepInv'
  <2>1. /\ client[c] = "waiting" /\ down[c] # <<>> /\ down'[c] = Tail(down[c]) /\ client'[c] = "idle"
        /\ gaveUp' = gaveUp /\ down[c] \in Seq(Frames)
        /\ \A b \in Conns \ {c} : client'[b] = client[b] /\ down'[b] = down[b]
    BY <1>5 DEF Reading, Done, SessionTypes
  <2>2. CASE gaveUp[c]
    BY <1>1, <1>5, <2>1, <2>2 DEF LockStep, serverVars
  <2>3. CASE ~gaveUp[c]
    <3>1. /\ \A a \in answered[c] : a[1] = a[2]
          /\ Turn(up[c], down[c], server[c], terminal[c], req[c], cur[c], "waiting")
      BY <2>1, <2>3 DEF LockStepInv, LockStep
    <3>2. OneAnswer(down[c], cur[c])
      BY <3>1 DEF Turn
    <3>3. Head(down[c]).final /\ Tail(down[c]) = <<>> /\ Head(down[c]).id = cur[c].id
      BY <1>5, <2>1, <3>2, AnswerShrinks
    <3>4. ~Busy(server[c], terminal[c])
      BY <2>1, <3>1, <3>2, <3>3, AnswerShrinks DEF Turn
    <3>5. up[c] = <<>>
      BY <2>1, <3>1 DEF Turn
    <3>6. Turn(<<>>, <<>>, server[c], terminal[c], req[c], cur[c], "idle")
      BY <3>4, NothingOwed DEF Turn
    <3>7. \A a \in answered'[c] : a[1] = a[2]
      BY <1>5, <3>1, <3>3
    <3>8. LockStep(c)'
      BY <1>5, <2>1, <3>3, <3>5, <3>6, <3>7 DEF LockStep, serverVars
    <3> QED BY <1>1, <1>5, <2>1, <3>8 DEF serverVars
  <2> QED BY <2>2, <2>3
<1>6. ASSUME NEW c \in Conns, Reading(c) PROVE \A b \in Conns \ {c} : down'[b] = down[b]
  BY <1>6 DEF Reading, SessionTypes
<1>7. ASSUME NEW c \in Conns, ReadHandshake(c) \/ ReadPong(c) PROVE LockStepInv'
  <2>1. /\ Reading(c) /\ cur[c].op # "stream" /\ (Done(c) \/ Fail(c))
        /\ UNCHANGED <<cur, serverVars, up, answered>>
    BY <1>7 DEF ReadHandshake, ReadPong
  <2> QED BY <1>3, <1>5, <1>6, <2>1
<1>8. ASSUME NEW c \in Conns, ReadReply(c) PROVE LockStepInv'
  <2>1. /\ Reading(c) /\ cur[c].op # "stream" /\ UNCHANGED <<cur, serverVars, up>>
        /\ \/ Fail(c) /\ UNCHANGED answered
           \/ Done(c) /\ answered' = [answered EXCEPT ![c] = @ \cup {<<cur[c].id, Head(down[c]).id>>}]
    BY <1>8 DEF ReadReply
  <2>2. CASE Fail(c) /\ UNCHANGED answered
    BY <1>3, <1>6, <2>1, <2>2
  <2>3. CASE Done(c) /\ answered' = [answered EXCEPT ![c] = @ \cup {<<cur[c].id, Head(down[c]).id>>}]
    <3>1. /\ answered'[c] = answered[c] \cup {<<cur[c].id, Head(down[c]).id>>}
          /\ \A b \in Conns \ {c} : answered'[b] = answered[b]
      BY <2>3 DEF SessionTypes
    <3> QED BY <1>5, <2>1, <2>3, <3>1
  <2> QED BY <2>1, <2>2, <2>3
<1>9. ASSUME NEW c \in Conns, ReadEvent(c) PROVE LockStepInv'
  <2>1. /\ Reading(c) /\ cur[c].op = "stream" /\ UNCHANGED <<cur, serverVars, up, answered>>
        /\ Fail(c) \/ (Head(down[c]).final /\ Done(c)) \/ UNCHANGED <<client, gaveUp>>
    BY <1>9, Zenon DEF ReadEvent
  <2>2. CASE Fail(c)
    BY <1>3, <1>6, <2>1, <2>2
  <2>3. CASE Head(down[c]).final /\ Done(c)
    BY <1>5, <2>1, <2>3
  <2>4. CASE UNCHANGED <<client, gaveUp>>
    <3>1. /\ client[c] = "waiting" /\ down[c] # <<>> /\ down'[c] = Tail(down[c])
          /\ down[c] \in Seq(Frames) /\ \A b \in Conns \ {c} : down'[b] = down[b]
      BY <2>1 DEF Reading, SessionTypes
    <3>2. CASE gaveUp[c]
      BY <1>1, <2>1, <2>4, <3>1, <3>2 DEF LockStep, serverVars
    <3>3. CASE ~gaveUp[c]
      <4>1. /\ \A a \in answered[c] : a[1] = a[2]
            /\ Turn(up[c], down[c], server[c], terminal[c], req[c], cur[c], "waiting")
        BY <3>1, <3>3 DEF LockStepInv, LockStep
      <4>2. OneAnswer(down[c], cur[c])
        BY <4>1 DEF Turn
      <4>3. OneAnswer(Tail(down[c]), cur[c]) /\ (Unended(down[c]) => Unended(Tail(down[c])))
        BY <3>1, <4>2, AnswerShrinks
      <4>4. Turn(up[c], Tail(down[c]), server[c], terminal[c], req[c], cur[c], "waiting")
        BY <3>1, <4>1, <4>3 DEF Turn
      <4>5. LockStep(c)'
        BY <2>1, <2>4, <3>1, <4>1, <4>4 DEF LockStep, serverVars
      <4> QED BY <1>1, <2>1, <2>4, <3>1, <4>5 DEF serverVars
    <3> QED BY <3>2, <3>3
  <2> QED BY <2>1, <2>2, <2>3, <2>4
<1>10. ASSUME NEW c \in Conns, Close(c) \/ ConnectionLost(c) PROVE LockStepInv'
  <2>1. client'[c] = "closed" /\ UNCHANGED <<gaveUp, answered, server, terminal, req, cur>>
    BY <1>10 DEF Close, ConnectionLost, SessionTypes, serverVars
  <2>2. \A b \in Conns \ {c} : client'[b] = client[b] /\ up'[b] = up[b] /\ down'[b] = down[b]
    BY <1>10 DEF Close, ConnectionLost, SessionTypes
  <2>3. LockStep(c)'
    BY <2>1 DEF LockStepInv, LockStep
  <2> QED BY <1>1, <2>1, <2>2, <2>3
<1>11. ASSUME NEW c \in Conns, UNCHANGED clientVars,
              \A b \in Conns \ {c} :
                /\ up'[b] = up[b] /\ down'[b] = down[b] /\ server'[b] = server[b]
                /\ terminal'[b] = terminal[b] /\ req'[b] = req[b],
              Turn(up[c], down[c], server[c], terminal[c], req[c], cur[c], client[c])
                /\ client[c] # "closed" =>
                Turn(up'[c], down'[c], server'[c], terminal'[c], req'[c], cur[c], client[c])
       PROVE  LockStepInv'
  <2>1. LockStep(c)'
    BY <1>11 DEF clientVars, LockStepInv, LockStep
  <2> QED BY <1>1, <1>11, <2>1 DEF clientVars
<1>12. ASSUME NEW c \in Conns, NEW s, NEW t \in BOOLEAN, UNCHANGED clientVars, up[c] # <<>>,
              up' = [up EXCEPT ![c] = Tail(@)], req' = [req EXCEPT ![c] = Head(up[c])],
              server' = [server EXCEPT ![c] = s], terminal' = [terminal EXCEPT ![c] = t],
              \/ down' = down
              \/ ~Busy(s, t) /\ \E f \in Frames : f.final /\ f.id = Head(up[c]).id /\ Write(c, f)
       PROVE  LockStepInv'
  <2>1. /\ up'[c] = Tail(up[c]) /\ req'[c] = Head(up[c]) /\ server'[c] = s /\ terminal'[c] = t
        /\ \A b \in Conns \ {c} : /\ up'[b] = up[b] /\ server'[b] = server[b]
                                  /\ terminal'[b] = terminal[b] /\ req'[b] = req[b]
    BY <1>12 DEF SessionTypes
  <2>2. \A b \in Conns \ {c} : down'[b] = down[b]
    BY <1>12, WriteType
  <2>3. ASSUME Turn(up[c], down[c], server[c], terminal[c], req[c], cur[c], client[c]), client[c] # "closed"
        PROVE  Turn(up'[c], down'[c], server'[c], terminal'[c], req'[c], cur[c], client[c])
    <3>1. up[c] = <<cur[c]>> /\ down[c] = <<>> /\ client[c] = "waiting"
      BY <1>12, <2>3 DEF Turn
    <3>2. up'[c] = <<>> /\ req'[c] = cur[c]
      BY <2>1, <3>1
    <3>3. CASE down' = down
      BY <2>1, <3>1, <3>2, <3>3, NothingOwed DEF Turn
    <3>4. CASE ~Busy(s, t) /\ \E f \in Frames : f.final /\ f.id = Head(up[c]).id /\ Write(c, f)
      <4>1. PICK f \in Frames : f.final /\ f.id = cur[c].id /\ Write(c, f)
        BY <2>1, <3>2, <3>4
      <4>2. down'[c] = Append(<<>>, f)
        BY <2>3, <3>1, <4>1, WriteType
      <4>3. OneAnswer(<<>>, cur[c]) /\ Unended(<<>>) /\ <<>> \in Seq(Frames)
        BY NothingOwed
      <4>4. OneAnswer(down'[c], cur[c])
        BY <4>1, <4>2, <4>3, AnswerGrows
      <4> QED BY <2>1, <3>1, <3>2, <3>4, <4>4 DEF Turn
    <3> QED BY <1>12, <3>3, <3>4
  <2> QED BY <1>11, <1>12, <2>1, <2>2, <2>3
<1>13. \A c \in Conns : server' = server => server' = [server EXCEPT ![c] = server[c]]
  BY DEF SessionTypes
<1>14. \A c \in Conns : up[c] # <<>> => Head(up[c]).id \in Nat
  BY NextMessage
<1>15. ASSUME NEW id \in Nat, NEW kind \in {"ack", "pong", "result"}, NEW code \in {"none", "429"}
       PROVE  Frame(kind, id, code) \in Frames /\ Frame(kind, id, code).final /\ Frame(kind, id, code).id = id
  BY FramesAreFrames
<1>16. ASSUME NEW c \in Conns, OnClose(c) \/ OnDiscover(c) PROVE LockStepInv'
  BY <1>12, <1>16 DEF OnClose, OnDiscover, Receiving, Goto
<1>17. ASSUME NEW c \in Conns, OnInit(c) \/ OnPing(c) PROVE LockStepInv'
  <2>1. Receiving(c) /\ UNCHANGED clientVars /\ server' = [server EXCEPT ![c] = "ready"]
    BY <1>13, <1>17 DEF OnInit, OnPing, Goto
  <2>2. \E kind \in {"ack", "pong"} : Write(c, Frame(kind, Head(up[c]).id, "none"))
    BY <1>17 DEF OnInit, OnPing
  <2>3. \E f \in Frames : f.final /\ f.id = Head(up[c]).id /\ Write(c, f)
    BY <1>14, <1>15, <2>1, <2>2 DEF Receiving
  <2>4. ~Busy("ready", FALSE)
    BY DEF Busy
  <2> QED BY <1>12, <2>1, <2>3, <2>4 DEF Receiving
<1>18. ASSUME NEW c \in Conns, OnCall(c) PROVE LockStepInv'
  <2>1. Receiving(c) /\ UNCHANGED clientVars /\ server[c] = "ready"
    BY <1>18 DEF OnCall
  <2>2. CASE Write(c, Frame("result", Head(up[c]).id, "429")) /\ server' = server
    <3>1. \E f \in Frames : f.final /\ f.id = Head(up[c]).id /\ Write(c, f)
      BY <1>14, <1>15, <2>1, <2>2 DEF Receiving
    <3>2. ~Busy("ready", FALSE) /\ server' = [server EXCEPT ![c] = "ready"]
      BY <1>13, <2>1, <2>2 DEF Busy
    <3> QED BY <1>12, <2>1, <3>1, <3>2 DEF Receiving
  <2>3. CASE Goto(c, "running") /\ down' = down
    BY <1>12, <2>1, <2>3 DEF Receiving, Goto
  <2> QED BY <1>18, <2>2, <2>3 DEF OnCall
<1>19. ASSUME NEW c \in Conns, OnStreamCall(c) PROVE LockStepInv'
  <2> DEFINE f == Event(Head(up[c]).id, 0, TRUE, FALSE, "backend_error")
  <2>1. /\ up[c] # <<>> /\ server[c] = "ready" /\ UNCHANGED clientVars
        /\ up' = [up EXCEPT ![c] = Tail(@)] /\ req' = [req EXCEPT ![c] = Head(up[c])]
    BY <1>19 DEF OnStreamCall
  <2>2. f \in Frames
    BY <1>14, <2>1 DEF Event, Frames
  <2>3. f.final /\ f.id = Head(up[c]).id
    BY DEF Event
  <2> HIDE DEF f
  <2>4. CASE Write(c, f) /\ terminal' = [terminal EXCEPT ![c] = TRUE] /\ server' = server
    <3>1. ~Busy("ready", TRUE) /\ server' = [server EXCEPT ![c] = "ready"]
      BY <1>13, <2>1, <2>4 DEF Busy
    <3> QED BY <1>12, <2>1, <2>2, <2>3, <2>4, <3>1
  <2>5. CASE Goto(c, "streaming") /\ terminal' = [terminal EXCEPT ![c] = FALSE] /\ down' = down
    BY <1>12, <2>1, <2>5 DEF Goto
  <2> QED BY <1>19, <2>4, <2>5 DEF OnStreamCall, f
<1>20. ASSUME NEW c \in Conns, NEW s, NEW t \in BOOLEAN, NEW f \in Frames, Write(c, f), f.id = req[c].id,
              UNCHANGED <<clientVars, up, req>>, Busy(server[c], terminal[c]),
              server'[c] = s, terminal'[c] = t,
              \A b \in Conns \ {c} : server'[b] = server[b] /\ terminal'[b] = terminal[b],
              \/ f.final /\ ~Busy(s, t)
              \/ ~f.final /\ s = "streaming" /\ server[c] = "streaming"
       PROVE  LockStepInv'
  <2>1. \A b \in Conns \ {c} : down'[b] = down[b]
    BY <1>20, WriteType
  <2>2. ASSUME Turn(up[c], down[c], server[c], terminal[c], req[c], cur[c], client[c]), client[c] # "closed"
        PROVE  Turn(up'[c], down'[c], server'[c], terminal'[c], req'[c], cur[c], client[c])
    <3>1. /\ up[c] = <<>> /\ req[c] = cur[c] /\ client[c] = "waiting"
          /\ OneAnswer(down[c], cur[c]) /\ Unended(down[c])
      BY <1>20, <2>2 DEF Turn
    <3>2. down'[c] = Append(down[c], f) /\ down[c] \in Seq(Frames)
      BY <1>20, <2>2, WriteType DEF SessionTypes
    <3>3. ~f.final => cur[c].op = "stream"
      BY <1>20, <3>1 DEF ServingInv, Serving
    <3>4. OneAnswer(down'[c], cur[c]) /\ (~f.final => Unended(down'[c]))
      BY <1>20, <3>1, <3>2, <3>3, AnswerGrows
    <3> QED BY <1>20, <3>1, <3>4 DEF Turn
  <2> QED BY <1>11, <1>20, <2>1, <2>2
<1>21. \A c \in Conns : req[c].id \in Nat /\ sequence[c] \in Nat /\ terminal[c] \in BOOLEAN
  BY DEF SessionTypes, NtMessages, NoRequest
<1>22. ASSUME NEW c \in Conns, Respond(c) PROVE LockStepInv'
  <2>1. /\ Write(c, Frame("result", req[c].id, "none")) /\ UNCHANGED <<clientVars, up, req, terminal>>
        /\ server'[c] = "ready" /\ \A b \in Conns \ {c} : server'[b] = server[b]
        /\ server[c] \in {"discovering", "running"}
    BY <1>22 DEF Respond, Goto, SessionTypes
  <2>2. Busy(server[c], terminal[c]) /\ ~Busy("ready", terminal[c])
    BY <2>1 DEF Busy
  <2>3. PICK f \in Frames : f.final /\ f.id = req[c].id /\ Write(c, f)
    BY <1>15, <1>21, <2>1
  <2> QED BY <1>20, <1>21, <2>1, <2>2, <2>3
<1>23. ASSUME NEW c \in Conns, NEW final \in BOOLEAN, NEW odd \in BOOLEAN,
              NEW code \in {"none", "stream_incomplete", "backend_error"}, Emit(c, final, odd, code),
              server[c] = "streaming", ~terminal[c], UNCHANGED <<clientVars, up, req>>,
              server' = server \/ (final /\ Goto(c, "ready"))
       PROVE  LockStepInv'
  <2> DEFINE f == Event(req[c].id, sequence[c], final, odd, code)
  <2>1. Write(c, f) /\ terminal' = [terminal EXCEPT ![c] = final]
    BY <1>23 DEF Emit
  <2>2. f \in Frames
    BY <1>21 DEF Event, Frames
  <2>3. f.final = final /\ f.id = req[c].id
    BY DEF Event
  <2> HIDE DEF f
  <2>4. /\ terminal'[c] = final /\ \A b \in Conns \ {c} : server'[b] = server[b] /\ terminal'[b] = terminal[b]
        /\ server'[c] = "streaming" \/ (server'[c] = "ready" /\ final)
    BY <1>23, <2>1 DEF Goto, SessionTypes
  <2>5. Busy(server[c], terminal[c]) /\ (final => ~Busy(server'[c], final))
    BY <1>23, <2>4 DEF Busy
  <2> QED BY <1>20, <1>23, <2>1, <2>2, <2>3, <2>4, <2>5
<1>24. ASSUME NEW c \in Conns, HandlerYields(c) PROVE LockStepInv'
  <2>1. \E final \in BOOLEAN, odd \in BOOLEAN : Emit(c, final, odd, "none")
    BY <1>24 DEF HandlerYields
  <2> QED BY <1>23, <1>24, <2>1 DEF HandlerYields
<1>25. ASSUME NEW c \in Conns, HandlerEnds(c) PROVE LockStepInv'
  <2>1. CASE terminal[c]
    <3>1. /\ server'[c] = "ready" /\ server[c] = "streaming" /\ \A b \in Conns \ {c} : server'[b] = server[b]
          /\ UNCHANGED <<clientVars, up, down, req, terminal>>
      BY <1>25, <2>1 DEF HandlerEnds, Goto, SessionTypes
    <3>2. ~Busy(server[c], terminal[c]) /\ ~Busy("ready", terminal[c])
      BY <2>1, <3>1 DEF Busy
    <3>3. Turn(up[c], down[c], server[c], terminal[c], req[c], cur[c], client[c]) =>
            Turn(up[c], down[c], "ready", terminal[c], req[c], cur[c], client[c])
      BY <3>2 DEF Turn
    <3> QED BY <1>11, <3>1, <3>3
  <2>2. CASE ~terminal[c]
    <3>1. \E code \in {"stream_incomplete", "backend_error"} : Emit(c, TRUE, FALSE, code)
      BY <1>25, <2>2 DEF HandlerEnds
    <3> QED BY <1>23, <1>25, <2>2, <3>1 DEF HandlerEnds
  <2> QED BY <2>1, <2>2
<1>26. ASSUME NEW c \in Conns, WriteFails(c) PROVE LockStepInv'
  <2>1. /\ client[c] = "closed" /\ \A b \in Conns \ {c} : server'[b] = server[b]
        /\ UNCHANGED <<clientVars, up, down, req, terminal>>
    BY <1>26 DEF WriteFails, Goto, SessionTypes
  <2> QED BY <1>11, <2>1
<1>27. CASE UNCHANGED ntVars
  BY <1>27 DEF ntVars, clientVars, serverVars, LockStepInv, LockStep
<1> QED
  BY <1>2, <1>4, <1>7, <1>8, <1>9, <1>10, <1>16, <1>17, <1>18, <1>19, <1>22, <1>24, <1>25, <1>26, <1>27
  DEF NtNext, ClientStep, ServerStep

-----------------------------------------------------------------------------
\* The inductive invariant of the sessions.
SessionInv ==
  SessionTypes /\ ReaderInv /\ OwnInv /\ ServingInv /\ GateInv /\ LockStepInv

\* Whatever clients give up, handlers raise and connections break, every step of either
\* end keeps the inductive invariant.
THEOREM SessionInvariant == NtSpec => []SessionInv
<1>1. NtInit => SessionInv
  <2> SUFFICES ASSUME NtInit PROVE SessionInv
    OBVIOUS
  <2>1. SessionTypes
    <3>1. <<>> \in Seq(Frames) /\ <<>> \in Seq(NtMessages)
      OBVIOUS
    <3> QED BY <3>1 DEF NtInit, SessionTypes
  <2>2. ReaderInv
    BY DEF NtInit, ReaderInv, Boundary
  <2>3. OwnInv
    BY DEF NtInit, OwnInv, Own
  <2>4. ServingInv
    BY DEF NtInit, ServingInv, Serving
  <2>5. GateInv
    <3>1. Holders = {}
      BY DEF NtInit, Holders
    <3> QED BY <3>1, FS_EmptySet, ServerAssumption DEF NtInit, GateInv
  <2>6. LockStepInv
    BY NothingOwed DEF NtInit, LockStepInv, LockStep, Turn, Busy
  <2> QED BY <2>1, <2>2, <2>3, <2>4, <2>5, <2>6 DEF SessionInv
<1>2. SessionInv /\ [NtNext]_ntVars => SessionInv'
  BY TypesKept, ReaderKept, OwnKept, ServingKept, GateKept, LockStepKept DEF SessionInv
<1> QED BY <1>1, <1>2, PTL DEF NtSpec

\* Callers of stream_call get their own events in order, callers of call and discover that
\* gave nothing up their own answers, every stream has one terminal event, and the
\* ConcurrencyGate counts exactly the running handlers: for any number of connections,
\* requests and events, any gate and any write buffer.
THEOREM SessionStaysSound == NtSpec => []SessionSound
<1>1. SessionInv => SessionSound
  <2> SUFFICES ASSUME SessionInv PROVE SessionSound
    OBVIOUS
  <2>1. StreamIsOwn
    BY DEF SessionInv, OwnInv, Own, StreamIsOwn
  <2>2. AnswersMatch
    BY DEF SessionInv, LockStepInv, LockStep, AnswersMatch
  <2>3. StreamsEndOnce
    BY DEF SessionInv, ServingInv, Serving, StreamsEndOnce
  <2>4. GateBalanced
    BY DEF SessionInv, GateInv, GateBalanced
  <2> QED BY <2>1, <2>2, <2>3, <2>4 DEF SessionSound
<1> QED BY <1>1, SessionInvariant, PTL

-----------------------------------------------------------------------------
\* The submission of a task by the client SDK.

\* SetToSeq lists a finite set without repeating a member.
LEMMA SetListed ==
  ASSUME NEW S, IsFiniteSet(S)
  PROVE  SetToSeq(S) \in Seq(S) /\ IsInjective(SetToSeq(S))
<1>1. Cardinality(S) \in Nat /\ \E f \in [1..Cardinality(S) -> S] : IsInjective(f)
  BY FS_CardinalityType DEF ExistsBijection, Bijection, Injection
<1>2. SetToSeq(S) \in [1..Cardinality(S) -> S] /\ IsInjective(SetToSeq(S))
  BY <1>1, Zenon DEF SetToSeq
<1> QED BY <1>1, <1>2

\* Kept returns members of s that are in keep, each as often as in s.
LEMMA KeptMembers ==
  ASSUME NEW S, NEW s \in Seq(S), NEW keep
  PROVE  /\ Kept(s, keep) \in Seq(S)
         /\ \A k \in DOMAIN Kept(s, keep) : Kept(s, keep)[k] \in keep /\ Kept(s, keep)[k] \in Range(s)
         /\ IsInjective(s) => IsInjective(Kept(s, keep))
<1> DEFINE at == {i \in DOMAIN s : s[i] \in keep}
           n == Cardinality(at)
           pick(k) == CHOOSE i \in at : CountUpTo(at, i) = k
           rank == [i \in at |-> CountUpTo(at, i)]
<1>1. Len(s) \in Nat /\ DOMAIN s = 1..Len(s)
  OBVIOUS
<1>2. IsFiniteSet(at) /\ n \in Nat /\ at \subseteq Nat
  <2>1. IsFiniteSet(1..Len(s)) /\ at \in SUBSET (1..Len(s))
    BY <1>1, FS_Interval
  <2> QED BY <1>1, <2>1, FS_Subset, FS_CardinalityType
<1>3. Kept(s, keep) = [k \in 1..n |-> s[pick(k)]]
  BY DEF Kept
<1> HIDE DEF at
<1>4. ASSUME NEW i \in at
      PROVE  /\ IsFiniteSet({j \in at : j <= i}) /\ CountUpTo(at, i) \in Nat
             /\ CountUpTo(at, i) <= n /\ CountUpTo(at, i) # 0
  <2>1. {j \in at : j <= i} \in SUBSET at /\ i \in {j \in at : j <= i}
    BY <1>2
  <2>2. IsFiniteSet({j \in at : j <= i}) /\ CountUpTo(at, i) <= n
    BY <1>2, <2>1, FS_Subset DEF CountUpTo
  <2> QED BY <2>1, <2>2, FS_CardinalityType, FS_EmptySet DEF CountUpTo
<1>5. ASSUME NEW i \in at, NEW j \in at, i < j PROVE CountUpTo(at, i) # CountUpTo(at, j)
  <2>0. i \in Nat /\ j \in Nat /\ \A m \in at : m \in Nat
    BY <1>2
  <2>1. /\ {m \in at : m <= i} \in SUBSET {m \in at : m <= j}
        /\ j \in {m \in at : m <= j} /\ j \notin {m \in at : m <= i}
    <3>1. \A m \in at : m <= i => m <= j
      BY <1>5, <2>0
    <3>2. j <= j /\ ~(j <= i)
      BY <1>5, <2>0
    <3> QED BY <3>1, <3>2, Zenon
  <2> QED BY <1>4, <2>1, FS_Subset DEF CountUpTo
<1>6. rank \in Injection(at, 1..n)
  <2>1. \A i \in at : CountUpTo(at, i) \in 1..n
    <3> HIDE DEF n
    <3> TAKE i \in at
    <3>1. CountUpTo(at, i) \in Nat /\ CountUpTo(at, i) <= n /\ CountUpTo(at, i) # 0
      BY <1>4
    <3> QED BY <1>2, <3>1
  <2>2. \A i, j \in at : CountUpTo(at, i) = CountUpTo(at, j) => i = j
    BY <1>2, <1>5
  <2> HIDE DEF n
  <2>3. rank \in [at -> 1..n]
    BY <2>1
  <2>4. IsInjective(rank)
    BY <2>2 DEF IsInjective
  <2> QED BY <2>3, <2>4 DEF Injection
<1>7. rank \in Surjection(at, 1..n)
  <2>1. IsFiniteSet(1..n) /\ Cardinality(1..n) = n
    BY <1>2, FS_Interval
  <2> QED BY <1>6, <2>1, FS_Injection
<1>8. \A k \in 1..n : pick(k) \in at /\ CountUpTo(at, pick(k)) = k
  <2>1. \A k \in 1..n : \E i \in at : CountUpTo(at, i) = k
    BY <1>7 DEF Surjection
  <2> HIDE DEF n
  <2> QED BY <2>1, Zenon
<1> HIDE DEF n, pick
<1>9. \A k \in 1..n : pick(k) \in DOMAIN s /\ s[pick(k)] \in keep
  BY <1>8 DEF at
<1>10. \A k \in 1..n : s[pick(k)] \in S /\ s[pick(k)] \in Range(s)
  BY <1>9 DEF Range
<1>11. Kept(s, keep) \in Seq(S)
  BY <1>2, <1>3, <1>10
<1>12. DOMAIN Kept(s, keep) = 1..n
  BY <1>3
<1>13. IsInjective(s) => IsInjective(Kept(s, keep))
  <2> SUFFICES ASSUME IsInjective(s), NEW k \in 1..n, NEW l \in 1..n, Kept(s, keep)[k] = Kept(s, keep)[l]
               PROVE  k = l
    BY <1>12 DEF IsInjective
  <2>1. s[pick(k)] = s[pick(l)]
    BY <1>3
  <2>2. pick(k) = pick(l)
    BY <1>9, <2>1 DEF IsInjective
  <2> QED BY <1>8, <2>2
<1> QED BY <1>3, <1>9, <1>10, <1>11, <1>12, <1>13

\* A prefix repeats nothing either.
LEMMA PrefixMembers ==
  ASSUME NEW S, NEW s \in Seq(S), NEW n \in Nat, n <= Len(s)
  PROVE  /\ SubSeq(s, 1, n) \in Seq(S) /\ Len(SubSeq(s, 1, n)) = n
         /\ \A k \in 1..n : SubSeq(s, 1, n)[k] = s[k]
         /\ \A k \in DOMAIN SubSeq(s, 1, n) : SubSeq(s, 1, n)[k] \in Range(s)
         /\ IsInjective(s) => IsInjective(SubSeq(s, 1, n))
<1> DEFINE p == SubSeq(s, 1, n)
<1>1. p \in Seq(S) /\ Len(p) = n /\ \A k \in 1..n : p[k] = s[k]
  OBVIOUS
<1>2. DOMAIN p = 1..n /\ DOMAIN s = 1..Len(s) /\ 1..n \subseteq 1..Len(s)
  BY <1>1
<1> HIDE DEF p
<1>3. \A k \in DOMAIN p : p[k] \in Range(s)
  BY <1>1, <1>2 DEF Range
<1>4. IsInjective(s) => IsInjective(p)
  BY <1>1, <1>2 DEF IsInjective
<1> QED BY <1>1, <1>3, <1>4 DEF p

\* A member put first of a sequence it is not in.
LEMMA FirstAndOthers ==
  ASSUME NEW S, NEW s \in Seq(S), NEW x \in S, x \notin Range(s), IsInjective(s)
  PROVE  /\ <<x>> \o s \in Seq(S) /\ IsInjective(<<x>> \o s)
         /\ \A k \in DOMAIN (<<x>> \o s) : (<<x>> \o s)[k] \in Range(s) \cup {x}
<1> DEFINE p == <<x>> \o s
<1>1. /\ p \in Seq(S) /\ Len(p) = Len(s) + 1 /\ p[1] = x /\ Len(s) \in Nat
      /\ \A k \in 2..(Len(s) + 1) : p[k] = s[k - 1]
  OBVIOUS
<1>2. DOMAIN p = 1..(Len(s) + 1) /\ DOMAIN s = 1..Len(s)
  BY <1>1
<1> HIDE DEF p
<1>3. \A k \in DOMAIN p : k = 1 \/ (k \in 2..(Len(s) + 1) /\ k - 1 \in DOMAIN s /\ p[k] = s[k - 1])
  BY <1>1, <1>2
<1>4. \A k \in DOMAIN p : k = 1 \/ (p[k] \in Range(s) /\ p[k] # x)
  BY <1>3 DEF Range
<1>5. IsInjective(p)
  <2> SUFFICES ASSUME NEW k \in DOMAIN p, NEW l \in DOMAIN p, p[k] = p[l] PROVE k = l
    BY DEF IsInjective
  <2>1. CASE k = 1 \/ l = 1
    BY <1>1, <1>4, <2>1
  <2>2. CASE k # 1 /\ l # 1
    <3>1. k - 1 \in DOMAIN s /\ l - 1 \in DOMAIN s /\ s[k - 1] = s[l - 1]
      BY <1>3, <2>2
    <3>2. k - 1 = l - 1
      BY <3>1 DEF IsInjective
    <3> QED BY <1>2, <3>2
  <2> QED BY <2>1, <2>2
<1> QED BY <1>1, <1>4, <1>5 DEF p

\* What the policy did not reject, it agreed to.
LEMMA NotRejected ==
  ASSUME NEW n, NEW c \in SdkConfigs, RejectionReason(n, c) = "none"
  PROVE  /\ n.key = "none" => c.plaintext \/ c.policy = "debug_override"
         /\ c.policy # "sensitive"
         /\ c.policy = "eu_restricted" => n.region = "eu"
         /\ c.policy = "strict_policy" => n.manifest = "signed" /\ ~n.keeps
         /\ c.required # "none" =>
              /\ n.manifest # "none" /\ n.level \in DOMAIN ManifestRank
              /\ ManifestRank[n.level] >= ManifestRank[c.required]
<1>1. /\ c.policy # "sensitive"
      /\ ~(c.policy = "eu_restricted" /\ n.region # "eu")
      /\ ~(RequireEncryption(c) /\ n.key = "none" /\ ~AllowPlaintext(c))
      /\ ~(c.policy = "strict_policy" /\ n.manifest = "none")
      /\ ~(c.policy = "strict_policy" /\ n.manifest # "signed")
      /\ ~(c.policy = "strict_policy" /\ n.keeps)
      /\ \/ c.required = "none"
         \/ /\ n.manifest # "none"
            /\ n.level \in DOMAIN ManifestRank /\ ~(ManifestRank[n.level] < ManifestRank[c.required])
  BY DEF RejectionReason
<1>2. \A l \in DOMAIN ManifestRank : ManifestRank[l] \in Nat
  BY DEF ManifestRank
<1>3. c.required # "none" => c.required \in DOMAIN ManifestRank
  BY SdkConfigsAssumption DEF ManifestRank
<1>4. c.required # "none" => ManifestRank[n.level] >= ManifestRank[c.required]
  BY <1>1, <1>2, <1>3
<1> QED BY <1>1, <1>4 DEF RequireEncryption, AllowPlaintext

-----------------------------------------------------------------------------
\* Only tickets will do.
TicketsOnly(c) == (c.mode = "ticketed" \/ c.restricted) /\ ~c.profile

\* The variables have their types.
SdkTypes ==
  /\ sdCfg \in SdkConfigs
  /\ sdPc \in {"ticket", "discover", "filter", "select", "candidate", "send", "end"}
  /\ sdRoutes \in Seq(SdkNodes) /\ sdEligible \in Seq(SdkNodes) /\ sdCands \in Seq(SdkNodes)
  /\ sdIndex \in Nat \ {0}
  /\ sdSends \in Seq([node : SdkNodes, answer : Failures \cup {"ok", "plain_answer"}, plain : BOOLEAN])

\* Discovery lists safe nodes once, and only ticketed ones where tickets are required.
RoutesInv ==
  /\ IsInjective(sdRoutes)
  /\ \A n \in Range(sdRoutes) :
       SdkNode[n].safe /\ (TicketsOnly(sdCfg) => n \in sdTicketed)
  /\ sdPc = "discover" => ~TicketsOnly(sdCfg)

\* What is eligible and what is tried comes from that list; before there are candidates
\* nothing is sent.
ChoiceInv ==
  /\ IsInjective(sdEligible) /\ IsInjective(sdCands)
  /\ \A n \in Range(sdEligible) :
       n \in Range(sdRoutes) /\ RejectionReason(SdkNode[n], sdCfg) = "none"
  /\ \A n \in Range(sdCands) : n \in Range(sdEligible)
  /\ sdPc \in {"ticket", "discover", "filter", "select"} => sdSends = <<>> /\ sdIndex = 1
  /\ sdPc \in {"ticket", "discover", "filter"} => sdEligible = <<>>
  /\ sdPc \in {"ticket", "discover", "filter", "select"} => sdCands = <<>>

\* Send x went to a candidate that the loop has left, or to the present one, which was
\* busy.
Passed(x, cands, k, at) ==
  \E i \in DOMAIN cands :
    /\ x.node = cands[i]
    /\ at = "candidate" => i < k
    /\ at = "send" => i < k \/ (i = k /\ x.answer = "busy")

\* The sends so far, with the property that is proved of them.
SendsInv ==
  /\ \A j \in DOMAIN sdSends :
       Passed(sdSends[j], sdCands, sdIndex, sdPc) /\ sdSends[j].plain = (SdkNode[sdSends[j].node].key = "none")
  /\ NoResendToSilentNode
  /\ sdPc = "send" => sdIndex <= Len(sdCands)

\* The inductive invariant of a submission.
SdkInv == SdkTypes /\ RoutesInv /\ ChoiceInv /\ SendsInv

\* A node added to a list it is not in.
LEMMA AppendMembers ==
  ASSUME NEW S, NEW s \in Seq(S), NEW x \in S, x \notin Range(s), IsInjective(s)
  PROVE  /\ Append(s, x) \in Seq(S) /\ IsInjective(Append(s, x))
         /\ Range(Append(s, x)) = Range(s) \cup {x}
<1> DEFINE p == Append(s, x)
<1>1. /\ p \in Seq(S) /\ Len(p) = Len(s) + 1 /\ p[Len(s) + 1] = x /\ Len(s) \in Nat
      /\ \A k \in 1..Len(s) : p[k] = s[k]
  OBVIOUS
<1>2. DOMAIN p = 1..(Len(s) + 1) /\ DOMAIN s = 1..Len(s)
  BY <1>1
<1> HIDE DEF p
<1>3. \A k \in DOMAIN p : k = Len(s) + 1 \/ (k \in DOMAIN s /\ p[k] = s[k])
  BY <1>1, <1>2
<1>4. \A k \in DOMAIN s : k \in DOMAIN p /\ p[k] = s[k] /\ p[k] # x
  BY <1>1, <1>2 DEF Range
<1>5. Len(s) + 1 \in DOMAIN p
  BY <1>1, <1>2
<1>6. Range(p) = Range(s) \cup {x}
  BY <1>1, <1>3, <1>4, <1>5 DEF Range
<1>7. IsInjective(p)
  BY <1>1, <1>3, <1>4 DEF IsInjective
<1> QED BY <1>1, <1>6, <1>7 DEF p

\* The call ends: what was sent, was sent.
LEMMA EndingKeeps ==
  ASSUME SdkInv, sdPc' = "end",
         UNCHANGED <<sdCfg, sdRoutes, sdTicketed, sdEligible, sdCands, sdIndex, sdSends>>
  PROVE  SdkInv'
<1>1. SdkTypes'
  BY DEF SdkInv, SdkTypes
<1>2. RoutesInv'
  BY DEF SdkInv, RoutesInv
<1>3. ChoiceInv'
  BY DEF SdkInv, ChoiceInv
<1>4. SendsInv'
  BY DEF SdkInv, SendsInv, Passed, NoResendToSilentNode
<1> QED BY <1>1, <1>2, <1>3, <1>4 DEF SdkInv

\* While nothing is eligible nothing was sent, and the list may change.
LEMMA GatheringKeeps ==
  ASSUME SdkInv, sdPc \in {"ticket", "discover", "filter"},
         sdPc' \in {"ticket", "discover", "filter", "end"},
         sdRoutes' \in Seq(SdkNodes), RoutesInv',
         UNCHANGED <<sdCfg, sdEligible, sdCands, sdIndex, sdSends>>
  PROVE  SdkInv'
<1>1. SdkTypes'
  BY DEF SdkInv, SdkTypes
<1>2. sdEligible = <<>> /\ sdCands = <<>> /\ sdSends = <<>> /\ sdIndex = 1
  BY DEF SdkInv, ChoiceInv
<1>3. ChoiceInv'
  BY <1>2 DEF SdkInv, ChoiceInv, Range
<1>4. SendsInv'
  BY <1>2 DEF SendsInv, NoResendToSilentNode
<1> QED BY <1>1, <1>3, <1>4 DEF SdkInv

\* Discovery, with tickets and without.
LEMMA DiscoveryKeeps ==
  ASSUME SdkInv,
         \/ \E n \in SdkNodes : TicketGranted(n)
         \/ TicketRefused \/ NoMoreRoutes \/ TicketUnsupported \/ DiscoverAnswers
  PROVE  SdkInv'
<1>1. ASSUME NEW n \in SdkNodes, TicketGranted(n) PROVE SdkInv'
  <2>1. CASE SdkNode[n].safe
    <3>1. /\ sdRoutes' = Append(sdRoutes, n) /\ sdTicketed' = sdTicketed \cup {n}
          /\ sdPc = "ticket" /\ sdPc' \in {"filter", "ticket"} /\ n \notin Range(sdRoutes)
          /\ UNCHANGED <<sdCfg, sdEligible, sdCands, sdIndex, sdSends>>
      BY <1>1, <2>1 DEF TicketGranted
    <3>2. /\ sdRoutes' \in Seq(SdkNodes) /\ IsInjective(sdRoutes')
          /\ Range(sdRoutes') = Range(sdRoutes) \cup {n}
      BY <3>1, AppendMembers DEF SdkInv, SdkTypes, RoutesInv
    <3>3. RoutesInv'
      BY <2>1, <3>1, <3>2 DEF SdkInv, RoutesInv
    <3> QED BY <3>1, <3>2, <3>3, GatheringKeeps
  <2>2. CASE ~SdkNode[n].safe
    BY <1>1, <2>2, EndingKeeps DEF TicketGranted, SdkEnds
  <2> QED BY <2>1, <2>2
<1>2. CASE TicketRefused
  BY <1>2, EndingKeeps DEF TicketRefused, SdkEnds
<1>3. CASE NoMoreRoutes
  <2>1. RoutesInv'
    BY <1>3 DEF NoMoreRoutes, SdkInv, RoutesInv
  <2> QED BY <1>3, <2>1, GatheringKeeps DEF NoMoreRoutes, SdkInv, SdkTypes
<1>4. CASE TicketUnsupported
  <2>1. CASE sdPc' = "end"
    BY <1>4, <2>1, EndingKeeps DEF TicketUnsupported
  <2>2. CASE sdPc' # "end"
    <3>1. /\ sdPc = "ticket" /\ sdPc' = "discover" /\ ~TicketsOnly(sdCfg)
          /\ UNCHANGED <<sdCfg, sdRoutes, sdTicketed, sdEligible, sdCands, sdIndex, sdSends>>
      BY <1>4, <2>2 DEF TicketUnsupported, SdkEnds, TicketsOnly
    <3>2. RoutesInv'
      BY <3>1 DEF SdkInv, RoutesInv
    <3> QED BY <3>1, <3>2, GatheringKeeps DEF SdkInv, SdkTypes
  <2> QED BY <2>1, <2>2
<1>5. CASE DiscoverAnswers
  <2>1. CASE UNCHANGED sdRoutes /\ sdPc' = "end"
    BY <1>5, <2>1, EndingKeeps DEF DiscoverAnswers
  <2>2. CASE \E s \in SUBSET SdkNodes :
               sdRoutes' = SetToSeq({n \in s : SdkNode[n].safe}) /\ sdPc' = "filter"
    <3>1. PICK s \in SUBSET SdkNodes : sdRoutes' = SetToSeq({n \in s : SdkNode[n].safe})
      BY <2>2
    <3> DEFINE safe == {n \in s : SdkNode[n].safe}
    <3>2. safe \in SUBSET SdkNodes /\ \A n \in safe : SdkNode[n].safe
      OBVIOUS
    <3>3. IsFiniteSet(safe) /\ sdRoutes' = SetToSeq(safe)
      BY <3>1, <3>2, SdkNodesAssumption, FS_Subset
    <3> HIDE DEF safe
    <3>4. sdRoutes' \in Seq(safe) /\ IsInjective(sdRoutes')
      BY <3>3, SetListed
    <3>5. sdRoutes' \in Seq(SdkNodes) /\ \A n \in Range(sdRoutes') : n \in safe
      BY <3>2, <3>4 DEF Range
    <3>6. sdPc = "discover" /\ UNCHANGED <<sdCfg, sdTicketed, sdEligible, sdCands, sdIndex, sdSends>>
      BY <1>5 DEF DiscoverAnswers
    <3>7. RoutesInv'
      BY <2>2, <3>2, <3>4, <3>5, <3>6 DEF SdkInv, RoutesInv
    <3> QED BY <2>2, <3>5, <3>6, <3>7, GatheringKeeps
  <2> QED BY <1>5, <2>1, <2>2 DEF DiscoverAnswers, SdkEnds
<1> QED BY <1>1, <1>2, <1>3, <1>4, <1>5

\* The filter and the selection.
LEMMA ChoiceKeeps ==
  ASSUME SdkInv, PolicyFilter \/ SelectCandidates \/ RankerRefused
  PROVE  SdkInv'
<1>1. CASE PolicyFilter
  <2> DEFINE keep == {n \in Range(sdRoutes) : RejectionReason(SdkNode[n], sdCfg) = "none"}
  <2>1. /\ sdPc = "filter" /\ sdPc' \in {"select", "end"} /\ sdEligible' = Kept(sdRoutes, keep)
        /\ UNCHANGED <<sdCfg, sdRoutes, sdTicketed, sdCands, sdIndex, sdSends>>
    BY <1>1 DEF PolicyFilter, SdkEnds
  <2>2. /\ sdEligible' \in Seq(SdkNodes) /\ IsInjective(sdEligible')
        /\ \A k \in DOMAIN sdEligible' : sdEligible'[k] \in keep
    BY <2>1, KeptMembers DEF SdkInv, SdkTypes, RoutesInv
  <2>3. \A n \in Range(sdEligible') : n \in Range(sdRoutes) /\ RejectionReason(SdkNode[n], sdCfg) = "none"
    BY <2>2 DEF Range
  <2> HIDE DEF keep
  <2>4. sdSends = <<>> /\ sdIndex = 1 /\ sdCands = <<>>
    BY <2>1 DEF SdkInv, ChoiceInv
  <2>5. SdkTypes'
    BY <2>1, <2>2 DEF SdkInv, SdkTypes
  <2>6. RoutesInv'
    BY <2>1 DEF SdkInv, RoutesInv
  <2>7. ChoiceInv'
    BY <2>1, <2>2, <2>3, <2>4 DEF SdkInv, ChoiceInv, Range
  <2>8. SendsInv'
    BY <2>1, <2>4 DEF SendsInv, NoResendToSilentNode
  <2> QED BY <2>5, <2>6, <2>7, <2>8 DEF SdkInv
<1>2. CASE SelectCandidates
  <2> DEFINE top == FirstTopN(sdEligible)
             others(first) == Kept(top, Range(sdEligible) \ {first})
  <2>1. PICK first \in Range(sdEligible) :
          sdCands' = FirstTopN(<<first>> \o others(first)) /\ sdPc' = "candidate"
    BY <1>2 DEF SelectCandidates
  <2>2. /\ sdPc = "select"
        /\ UNCHANGED <<sdCfg, sdRoutes, sdTicketed, sdEligible, sdIndex, sdSends>>
    BY <1>2 DEF SelectCandidates
  <2>3. ASSUME NEW s \in Seq(SdkNodes), IsInjective(s)
        PROVE  /\ FirstTopN(s) \in Seq(SdkNodes) /\ IsInjective(FirstTopN(s))
               /\ \A n \in Range(FirstTopN(s)) : n \in Range(s)
    <3>1. TopN \in Nat /\ Len(s) \in Nat
      BY SdkConfigsAssumption DEF TopN, SdkInv, SdkTypes
    <3>2. PICK m \in Nat : m <= Len(s) /\ FirstTopN(s) = SubSeq(s, 1, m)
      BY <3>1 DEF FirstTopN
    <3> QED BY <2>3, <3>2, PrefixMembers DEF Range
  <2>4. /\ sdEligible \in Seq(SdkNodes) /\ IsInjective(sdEligible) /\ first \in SdkNodes
        /\ Range(sdEligible) \subseteq SdkNodes
    BY DEF SdkInv, SdkTypes, ChoiceInv, Range
  <2>5. top \in Seq(SdkNodes) /\ IsInjective(top)
    BY <2>3, <2>4
  <2> HIDE DEF top
  <2>6. /\ others(first) \in Seq(SdkNodes) /\ IsInjective(others(first))
        /\ \A k \in DOMAIN others(first) : others(first)[k] \in Range(sdEligible) \ {first}
    BY <2>5, KeptMembers
  <2> HIDE DEF others
  <2>7. first \notin Range(others(first)) /\ Range(others(first)) \subseteq Range(sdEligible)
    BY <2>6 DEF Range
  <2> DEFINE all == <<first>> \o others(first)
  <2>8. /\ all \in Seq(SdkNodes) /\ IsInjective(all)
        /\ \A k \in DOMAIN all : all[k] \in Range(others(first)) \cup {first}
    BY <2>4, <2>6, <2>7, FirstAndOthers
  <2> HIDE DEF all
  <2>9. \A n \in Range(all) : n \in Range(sdEligible)
    BY <2>7, <2>8 DEF Range
  <2>10. /\ sdCands' \in Seq(SdkNodes) /\ IsInjective(sdCands')
         /\ \A n \in Range(sdCands') : n \in Range(sdEligible)
    BY <2>1, <2>3, <2>8, <2>9 DEF all
  <2>11. sdSends = <<>>
    BY <2>2 DEF SdkInv, ChoiceInv
  <2>12. SdkTypes'
    BY <2>1, <2>2, <2>10 DEF SdkInv, SdkTypes
  <2>13. RoutesInv'
    BY <2>1, <2>2 DEF SdkInv, RoutesInv
  <2>14. ChoiceInv'
    BY <2>1, <2>2, <2>10 DEF SdkInv, ChoiceInv
  <2>15. SendsInv'
    BY <2>1, <2>2, <2>11 DEF SendsInv, NoResendToSilentNode
  <2> QED BY <2>12, <2>13, <2>14, <2>15 DEF SdkInv
<1>3. CASE RankerRefused
  BY <1>3, EndingKeeps DEF RankerRefused, SdkEnds
<1> QED BY <1>1, <1>2, <1>3

\* A send to the present candidate: it is the only one left that was asked before, and it
\* was busy.
LEMMA SendKeeps ==
  ASSUME SdkInv, sdPc = "send", NEW answer \in Failures \cup {"ok", "plain_answer"}, Sent(answer),
         UNCHANGED <<sdCfg, sdRoutes, sdTicketed, sdEligible, sdCands>>,
         \/ sdPc' = "end" /\ sdIndex' = sdIndex
         \/ sdPc' = "candidate" /\ sdIndex' = sdIndex + 1
         \/ sdPc' = "send" /\ sdIndex' = sdIndex /\ answer = "busy"
  PROVE  SdkInv'
<1> DEFINE x == [node |-> Node, answer |-> answer, plain |-> SdkNode[Node].key = "none"]
           Sends == [node : SdkNodes, answer : Failures \cup {"ok", "plain_answer"}, plain : BOOLEAN]
<1>1. sdIndex \in Nat \ {0} /\ sdIndex \in DOMAIN sdCands /\ Node = sdCands[sdIndex] /\ Node \in SdkNodes
  BY DEF SdkInv, SdkTypes, SendsInv, Node
<1>2. x \in Sends
  BY <1>1
<1>3. x.node = sdCands[sdIndex] /\ x.answer = answer /\ x.plain = (SdkNode[x.node].key = "none")
  BY <1>1
<1>4. sdSends' = Append(sdSends, x) /\ sdSends \in Seq(Sends)
  BY DEF Sent, SdkInv, SdkTypes
<1> HIDE DEF x
<1>5. /\ sdSends' \in Seq(Sends) /\ Len(sdSends) \in Nat
      /\ DOMAIN sdSends' = 1..(Len(sdSends) + 1) /\ DOMAIN sdSends = 1..Len(sdSends)
      /\ sdSends'[Len(sdSends) + 1] = x /\ \A j \in 1..Len(sdSends) : sdSends'[j] = sdSends[j]
  BY <1>2, <1>4
<1>6. SdkTypes'
  <2>1. sdIndex' \in Nat \ {0}
    BY <1>1
  <2>2. sdPc' \in {"candidate", "send", "end"}
    OBVIOUS
  <2>3. sdSends' \in Seq([node : SdkNodes, answer : Failures \cup {"ok", "plain_answer"}, plain : BOOLEAN])
    BY <1>5
  <2> QED BY <2>1, <2>2, <2>3 DEF SdkInv, SdkTypes
<1> HIDE DEF Sends
<1>7. RoutesInv'
  BY DEF SdkInv, RoutesInv
<1>8. ChoiceInv'
  BY DEF SdkInv, ChoiceInv
<1>9. \A j \in DOMAIN sdSends' : j = Len(sdSends) + 1 \/ (j \in DOMAIN sdSends /\ sdSends'[j] = sdSends[j])
  BY <1>5
<1>10. ASSUME NEW j \in DOMAIN sdSends
       PROVE  \E i \in DOMAIN sdCands :
                /\ sdSends[j].node = sdCands[i]
                /\ i < sdIndex \/ (i = sdIndex /\ sdSends[j].answer = "busy")
  BY DEF SdkInv, SendsInv, Passed
<1>11. \A i \in DOMAIN sdCands : i \in Nat
  BY DEF SdkInv, SdkTypes
<1>12. \A j \in DOMAIN sdSends : Passed(sdSends[j], sdCands, sdIndex', sdPc')
  BY <1>1, <1>10, <1>11 DEF Passed
<1>13. Passed(x, sdCands, sdIndex', sdPc')
  <2>1. /\ sdPc' = "candidate" => sdIndex < sdIndex'
        /\ sdPc' = "send" => sdIndex = sdIndex' /\ x.answer = "busy"
    BY <1>1, <1>3
  <2> QED BY <1>1, <1>3, <2>1 DEF Passed
<1>14. \A j \in DOMAIN sdSends' :
         /\ Passed(sdSends'[j], sdCands, sdIndex', sdPc')
         /\ sdSends'[j].plain = (SdkNode[sdSends'[j].node].key = "none")
  <2> TAKE j \in DOMAIN sdSends'
  <2>1. CASE j = Len(sdSends) + 1
    BY <1>3, <1>5, <1>13, <2>1
  <2>2. CASE j \in DOMAIN sdSends /\ sdSends'[j] = sdSends[j]
    <3>1. sdSends[j].plain = (SdkNode[sdSends[j].node].key = "none")
      BY <2>2, Zenon DEF SdkInv, SendsInv
    <3> QED BY <1>12, <2>2, <3>1
  <2> QED BY <1>9, <2>1, <2>2
<1>15. \A j \in DOMAIN sdSends : sdSends[j].node = x.node => sdSends[j].answer = "busy"
  <2> SUFFICES ASSUME NEW j \in DOMAIN sdSends, sdSends[j].node = x.node PROVE sdSends[j].answer = "busy"
    OBVIOUS
  <2>1. PICK i \in DOMAIN sdCands : /\ sdSends[j].node = sdCands[i]
                                    /\ i < sdIndex \/ (i = sdIndex /\ sdSends[j].answer = "busy")
    BY <1>10
  <2>2. i = sdIndex
    BY <1>1, <1>3, <2>1 DEF SdkInv, ChoiceInv, IsInjective
  <2> QED BY <1>1, <2>1, <2>2
<1>16. NoResendToSilentNode'
  <2> SUFFICES ASSUME NEW i \in DOMAIN sdSends', NEW j \in DOMAIN sdSends', i < j,
                      sdSends'[i].node = sdSends'[j].node
               PROVE  sdSends'[i].answer = "busy"
    BY DEF NoResendToSilentNode
  <2>1. i \in DOMAIN sdSends /\ sdSends'[i] = sdSends[i]
    BY <1>5, <1>9
  <2>2. CASE j = Len(sdSends) + 1
    BY <1>5, <1>15, <2>1, <2>2
  <2>3. CASE j \in DOMAIN sdSends /\ sdSends'[j] = sdSends[j]
    BY <2>1, <2>3 DEF SdkInv, SendsInv, NoResendToSilentNode
  <2> QED BY <1>9, <2>2, <2>3
<1>17. sdPc' = "send" => sdIndex' <= Len(sdCands)
  BY DEF SdkInv, SendsInv
<1>18. SendsInv'
  BY <1>14, <1>16, <1>17 DEF SendsInv
<1> QED BY <1>6, <1>7, <1>8, <1>18 DEF SdkInv

\* The loop over candidates and attempts.
LEMMA LoopKeeps ==
  ASSUME SdkInv, CandidatesUsedUp \/ CandidateBegins \/ NodeAnswers \/ \E a \in Failures : SendFails(a)
  PROVE  SdkInv'
<1>1. CASE CandidatesUsedUp
  BY <1>1, EndingKeeps DEF CandidatesUsedUp, SdkEnds
<1>2. CASE CandidateBegins
  <2>1. UNCHANGED <<sdCfg, sdRoutes, sdTicketed, sdEligible, sdCands, sdSends>> /\ sdPc = "candidate"
        /\ sdIndex <= Len(sdCands)
    BY <1>2 DEF CandidateBegins
  <2>2. \/ sdPc' = "end" /\ sdIndex' = sdIndex
        \/ sdPc' = "candidate" /\ sdIndex' = sdIndex + 1
        \/ sdPc' = "send" /\ sdIndex' = sdIndex
    BY <1>2, <2>1 DEF CandidateBegins, SdkEnds
  <2>3. CASE sdPc' = "end" /\ sdIndex' = sdIndex
    BY <2>1, <2>3, EndingKeeps
  <2>4. CASE sdPc' # "end"
    <3>1. sdIndex \in Nat \ {0} /\ sdIndex' \in Nat \ {0} /\ sdIndex <= sdIndex'
      BY <2>2, <2>4 DEF SdkInv, SdkTypes
    <3>2. SdkTypes'
      BY <2>1, <2>2, <3>1 DEF SdkInv, SdkTypes
    <3>3. RoutesInv'
      BY <2>1, <2>2 DEF SdkInv, RoutesInv
    <3>4. ChoiceInv'
      BY <2>1, <2>2 DEF SdkInv, ChoiceInv
    <3>5. \A i \in DOMAIN sdCands : i \in Nat
      BY DEF SdkInv, SdkTypes
    <3>6. \A j \in DOMAIN sdSends : Passed(sdSends[j], sdCands, sdIndex', sdPc')
      <4> TAKE j \in DOMAIN sdSends
      <4>1. PICK i \in DOMAIN sdCands : sdSends[j].node = sdCands[i] /\ i < sdIndex
        BY <2>1 DEF SdkInv, SendsInv, Passed
      <4>2. i < sdIndex'
        BY <3>1, <3>5, <4>1
      <4> QED BY <4>1, <4>2 DEF Passed
    <3>7. \A j \in DOMAIN sdSends : sdSends[j].plain = (SdkNode[sdSends[j].node].key = "none")
      BY Zenon DEF SdkInv, SendsInv
    <3>8. SendsInv'
      BY <2>1, <2>2, <3>6, <3>7 DEF SdkInv, SendsInv, NoResendToSilentNode
    <3> QED BY <3>2, <3>3, <3>4, <3>8 DEF SdkInv
  <2> QED BY <2>2, <2>3, <2>4
<1>3. CASE NodeAnswers
  <2>1. /\ sdPc = "send" /\ sdPc' = "end" /\ \E a \in {"ok", "plain_answer"} : Sent(a)
        /\ UNCHANGED <<sdCfg, sdRoutes, sdTicketed, sdEligible, sdCands, sdIndex>>
    BY <1>3 DEF NodeAnswers, SdkEnds
  <2> QED BY <2>1, SendKeeps
<1>4. ASSUME NEW a \in Failures, SendFails(a) PROVE SdkInv'
  <2>1. /\ sdPc = "send" /\ Sent(a) /\ UNCHANGED <<sdCfg, sdRoutes, sdTicketed, sdEligible, sdCands>>
    BY <1>4 DEF SendFails
  <2>2. \/ sdPc' = "end" /\ sdIndex' = sdIndex
        \/ sdPc' = "candidate" /\ sdIndex' = sdIndex + 1
        \/ sdPc' = "send" /\ sdIndex' = sdIndex /\ a = "busy"
    BY <1>4, <2>1 DEF SendFails, SdkEnds
  <2> QED BY <2>1, <2>2, SendKeeps
<1> QED BY <1>1, <1>2, <1>3, <1>4

\* Every step of _submit_async keeps the inductive invariant.
THEOREM SdkInvariant == SdSpec => []SdkInv
<1>1. SdInit => SdkInv
  <2> SUFFICES ASSUME SdInit PROVE SdkInv
    OBVIOUS
  <2>1. sdPc \in {"ticket", "discover"} /\ (sdPc = "discover" => ~TicketsOnly(sdCfg)) /\ sdCfg \in SdkConfigs
    BY SdkConfigsAssumption DEF SdInit, TicketsOnly
  <2>2. \A S : <<>> \in Seq(S)
    OBVIOUS
  <2>3. SdkTypes
    BY <2>1, <2>2 DEF SdInit, SdkTypes
  <2>4. RoutesInv
    BY <2>1 DEF SdInit, RoutesInv, IsInjective, Range
  <2>5. ChoiceInv
    BY DEF SdInit, ChoiceInv, IsInjective, Range
  <2>6. SendsInv
    BY <2>1 DEF SdInit, SendsInv, NoResendToSilentNode
  <2> QED BY <2>3, <2>4, <2>5, <2>6 DEF SdkInv
<1>2. SdkInv /\ UNCHANGED sdVars => SdkInv'
  BY DEF sdVars, SdkInv, SdkTypes, RoutesInv, ChoiceInv, SendsInv, NoResendToSilentNode
<1>3. SdkInv /\ [SdNext]_sdVars => SdkInv'
  BY <1>2, DiscoveryKeeps, ChoiceKeeps, LoopKeeps DEF SdNext
<1> QED BY <1>1, <1>3, PTL DEF SdSpec

\* The retry and fallback loop sends a task twice only to a node that said it was busy: the
\* candidates are distinct, and a time-out, an error or a broken body moves the loop on.
THEOREM SilentNodesNotResent == SdSpec => []NoResendToSilentNode
<1>1. SdkInv => NoResendToSilentNode
  BY DEF SdkInv, SendsInv
<1> QED BY <1>1, SdkInvariant, PTL

\* A task goes only to nodes that pass the caller's policy, for any nodes, configurations and
\* answers: a candidate was eligible, what is eligible was listed and not rejected, and
\* discovery lists what is safe and, where tickets are required, ticketed.
THEOREM PromptsGoWhereAgreed == SdSpec => []SentOnlyAsAgreed
<1>1. SdkInv => SentOnlyAsAgreed
  <2> SUFFICES ASSUME SdkInv, NEW j \in DOMAIN sdSends
               PROVE  LET n == SdkNode[sdSends[j].node] IN
                        /\ n.safe
                        /\ sdSends[j].plain => sdCfg.plaintext \/ sdCfg.policy = "debug_override"
                        /\ sdCfg.policy # "sensitive"
                        /\ sdCfg.policy = "eu_restricted" => n.region = "eu"
                        /\ sdCfg.policy = "strict_policy" => n.manifest = "signed" /\ ~n.keeps
                        /\ sdCfg.required # "none" =>
                             /\ n.manifest # "none" /\ n.level \in DOMAIN ManifestRank
                             /\ ManifestRank[n.level] >= ManifestRank[sdCfg.required]
                        /\ (sdCfg.mode = "ticketed" \/ sdCfg.restricted) /\ ~sdCfg.profile =>
                             sdSends[j].node \in sdTicketed
    BY DEF SentOnlyAsAgreed
  <2> DEFINE d == sdSends[j].node
             n == SdkNode[d]
  <2>1. d \in Range(sdCands)
    BY DEF SdkInv, SendsInv, Passed, Range
  <2>2. d \in Range(sdRoutes) /\ RejectionReason(n, sdCfg) = "none"
    BY <2>1 DEF SdkInv, ChoiceInv
  <2>3. n.safe /\ (TicketsOnly(sdCfg) => d \in sdTicketed)
    BY <2>2 DEF SdkInv, RoutesInv
  <2>4. sdSends[j].plain => n.key = "none"
    BY DEF SdkInv, SendsInv
  <2>5. sdCfg \in SdkConfigs
    BY DEF SdkInv, SdkTypes
  <2> HIDE DEF n
  <2>6. /\ n.key = "none" => sdCfg.plaintext \/ sdCfg.policy = "debug_override"
        /\ sdCfg.policy # "sensitive"
        /\ sdCfg.policy = "eu_restricted" => n.region = "eu"
        /\ sdCfg.policy = "strict_policy" => n.manifest = "signed" /\ ~n.keeps
        /\ sdCfg.required # "none" =>
             /\ n.manifest # "none" /\ n.level \in DOMAIN ManifestRank
             /\ ManifestRank[n.level] >= ManifestRank[sdCfg.required]
    BY <2>2, <2>5, NotRejected
  <2> QED BY <2>3, <2>4, <2>6 DEF n, TicketsOnly
<1> QED BY <1>1, SdkInvariant, PTL

=============================================================================
