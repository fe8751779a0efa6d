------------------------ MODULE TaskAdmissionProofs ------------------------
(***************************************************************************)
(* Proofs about TaskAdmission, for any finite set of requests, any          *)
(* max_concurrent and any availability windows.                             *)
(***************************************************************************)
EXTENDS TaskAdmission, FiniteSetTheorems, TLAPS

----------------------------------------------------------------------------
(* Type correctness                                                         *)

\* What a thread's move leaves of the program counters and answers.
LEMMA GotoType ==
  ASSUME pc \in [Requests -> Phases], NEW r \in Requests,
         NEW from, NEW to \in Phases, Goto(r, from, to)
  PROVE  pc' \in [Requests -> Phases]
BY DEF Goto

\* A thread's decision on its response is one of the answers of _task.
LEMMA AnswerType ==
  ASSUME answer \in [Requests -> Answers], NEW r \in Requests,
         NEW a \in Answers, Answer(r, a)
  PROVE  answer' \in [Requests -> Answers]
BY DEF Answer

\* Every step of _task, of a handler or of the environment keeps the types; the
\* point is the semaphore, which never goes below zero.
THEOREM TypeCorrect == Spec => []TypeOK
<1>1. Init => TypeOK
  BY MaxConcurrentAssumption, NoneAssumption DEF Init, TypeOK, Phases, Answers, Request
<1>2. TypeOK /\ [Next]_vars => TypeOK'
  <2> SUFFICES ASSUME TypeOK, [Next]_vars PROVE TypeOK'
    OBVIOUS
  <2> USE DEF TypeOK, Phases, Answers
  <2>1. ASSUME NEW r \in Requests, Arrive(r) PROVE TypeOK'
    BY <2>1, InputsAssumption DEF Arrive, Goto, Request, admissionVars, dedupVars, handlerVars, counterVars
  <2>2. ASSUME NEW r \in Requests, PreCheck(r) PROVE TypeOK'
    BY <2>2, GotoType, AnswerType
       DEF PreCheck, admissionVars, dedupVars, handlerVars, counterVars
  <2>3. ASSUME NEW r \in Requests, AvailabilityGate(r) PROVE TypeOK'
    BY <2>3, GotoType, AnswerType
       DEF AvailabilityGate, admissionVars, dedupVars, handlerVars, counterVars
  <2>4. ASSUME NEW r \in Requests, AcquireSlot(r) PROVE TypeOK'
    BY <2>4, GotoType DEF AcquireSlot, dedupVars, handlerVars, counterVars
  <2>5. ASSUME NEW r \in Requests, QueueForSlot(r) PROVE TypeOK'
    BY <2>5, GotoType DEF QueueForSlot, admissionVars, dedupVars, handlerVars, counterVars
  <2>6. ASSUME NEW r \in Requests, CapacityExceeded(r) PROVE TypeOK'
    BY <2>6, GotoType, AnswerType
       DEF CapacityExceeded, admissionVars, dedupVars, handlerVars, counterVars
  <2>7. ASSUME NEW r \in Requests, CountJob(r) PROVE TypeOK'
    BY <2>7, GotoType DEF CountJob, dedupVars, handlerVars, counterVars
  <2>8. ASSUME NEW r \in Requests, CheckNonce(r) PROVE TypeOK'
    <3>1. req[r].nonce \in Nonces \cup {None}
      BY DEF Request
    <3>2. nonces' \subseteq Nonces
      BY <2>8, <3>1 DEF CheckNonce
    <3> QED
      BY <2>8, <3>2, GotoType, AnswerType
         DEF CheckNonce, admissionVars, handlerVars, counterVars
  <2>9. ASSUME NEW r \in Requests, CheckIdempotency(r) PROVE TypeOK'
    <3>1. req[r].task \in TaskIds \cup {None}
      BY DEF Request
    <3>2. taskIds' \subseteq TaskIds
      BY <2>9, <3>1 DEF CheckIdempotency
    <3> QED
      BY <2>9, <3>2, GotoType, AnswerType
         DEF CheckIdempotency, admissionVars, handlerVars, counterVars
  <2>10. ASSUME NEW r \in Requests, SubmitHandler(r) PROVE TypeOK'
    BY <2>10, GotoType, AnswerType
       DEF SubmitHandler, admissionVars, dedupVars, counterVars
  <2>11. ASSUME NEW r \in Requests, CollectResult(r) PROVE TypeOK'
    BY <2>11, GotoType, AnswerType
       DEF CollectResult, admissionVars, dedupVars, counterVars, Outcomes
  <2>12. ASSUME NEW r \in Requests, HandlerTimeout(r) PROVE TypeOK'
    BY <2>12, GotoType DEF HandlerTimeout, admissionVars, dedupVars, handlerVars
  <2>13. ASSUME NEW r \in Requests, WriteResponse(r) PROVE TypeOK'
    BY <2>13, GotoType, AnswerType
       DEF WriteResponse, admissionVars, dedupVars, handlerVars
  <2>14. ASSUME NEW r \in Requests, WriteError(r) PROVE TypeOK'
    BY <2>14, GotoType, AnswerType
       DEF WriteError, admissionVars, dedupVars, handlerVars, counterVars
  <2>15. ASSUME NEW r \in Requests, ReleaseSlot(r) PROVE TypeOK'
    BY <2>15, GotoType DEF ReleaseSlot, dedupVars, handlerVars, counterVars
  <2>16. ASSUME NEW r \in Requests, UncountJob(r) PROVE TypeOK'
    BY <2>16, GotoType DEF UncountJob, dedupVars, handlerVars, counterVars
  <2>17. ASSUME NEW r \in Requests, HandlerEnds(r) PROVE TypeOK'
    BY <2>17 DEF HandlerEnds, admissionVars, dedupVars, counterVars
  <2>18. CASE Environment
    BY <2>18 DEF Environment, CloseLoop, ExpireNonce, ExpireTaskId,
                 admissionVars, dedupVars, handlerVars, counterVars
  <2>19. CASE UNCHANGED vars
    BY <2>19 DEF vars, admissionVars, dedupVars, handlerVars, counterVars
  <2> QED
    BY <2>1, <2>2, <2>3, <2>4, <2>5, <2>6, <2>7, <2>8, <2>9, <2>10, <2>11, <2>12,
       <2>13, <2>14, <2>15, <2>16, <2>17, <2>18, <2>19 DEF Next, Thread
<1> QED
  BY <1>1, <1>2, PTL DEF Spec

----------------------------------------------------------------------------
(* Slots and the job counter                                                *)

\* How a move of one thread changes the set of threads inside a set of phases.
LEMMA HoldersMove ==
  ASSUME TypeOK, NEW r \in Requests, NEW from, NEW to, Goto(r, from, to)
  PROVE  /\ (from \in SlotPhases <=> to \in SlotPhases) => Holders' = Holders
         /\ from \notin SlotPhases /\ to \in SlotPhases =>
              r \notin Holders /\ Holders' = Holders \cup {r}
         /\ from \in SlotPhases /\ to \notin SlotPhases =>
              r \in Holders /\ Holders' = Holders \ {r}
BY DEF Goto, Holders, TypeOK

\* The same for the threads that _active_jobs counts.
LEMMA CountedMove ==
  ASSUME TypeOK, NEW r \in Requests, NEW from, NEW to, Goto(r, from, to)
  PROVE  /\ (from \in CountedPhases <=> to \in CountedPhases) => Counted' = Counted
         /\ from \notin CountedPhases /\ to \in CountedPhases =>
              r \notin Counted /\ Counted' = Counted \cup {r}
         /\ from \in CountedPhases /\ to \notin CountedPhases =>
              r \in Counted /\ Counted' = Counted \ {r}
BY DEF Goto, Counted, TypeOK

\* There are finitely many request threads, so their sets have a size.
LEMMA HoldersFinite ==
  /\ IsFiniteSet(Holders) /\ Cardinality(Holders) \in Nat
  /\ IsFiniteSet(Counted) /\ Cardinality(Counted) \in Nat
<1>1. Holders \subseteq Requests /\ Counted \subseteq Requests
  BY DEF Holders, Counted
<1> QED
  BY <1>1, RequestsAssumption, FS_Subset, FS_CardinalityType

\* Every other step of the node keeps its slot and its count.
Neutral(r) ==
  \/ Arrive(r) \/ PreCheck(r) \/ AvailabilityGate(r) \/ QueueForSlot(r)
  \/ CapacityExceeded(r) \/ CheckNonce(r) \/ CheckIdempotency(r) \/ SubmitHandler(r)
  \/ CollectResult(r) \/ HandlerTimeout(r) \/ WriteResponse(r) \/ WriteError(r)

\* The steps of _task that touch neither the semaphore nor _active_jobs.
LEMMA NeutralStep ==
  ASSUME TypeOK, NEW r \in Requests, Neutral(r)
  PROVE  /\ UNCHANGED admissionVars
         /\ Holders' = Holders
         /\ Counted' = Counted
<1> USE HoldersMove, CountedMove DEF SlotPhases, CountedPhases, admissionVars
<1>1. CASE Arrive(r)            BY <1>1 DEF Arrive
<1>2. CASE PreCheck(r)          BY <1>2 DEF PreCheck
<1>3. CASE AvailabilityGate(r)  BY <1>3 DEF AvailabilityGate
<1>4. CASE QueueForSlot(r)      BY <1>4 DEF QueueForSlot
<1>5. CASE CapacityExceeded(r)  BY <1>5 DEF CapacityExceeded
<1>6. CASE CheckNonce(r)        BY <1>6 DEF CheckNonce
<1>7. CASE CheckIdempotency(r)  BY <1>7 DEF CheckIdempotency
<1>8. CASE SubmitHandler(r)     BY <1>8 DEF SubmitHandler
<1>9. CASE CollectResult(r)     BY <1>9 DEF CollectResult
<1>10. CASE HandlerTimeout(r)   BY <1>10 DEF HandlerTimeout
<1>11. CASE WriteResponse(r)    BY <1>11 DEF WriteResponse
<1>12. CASE WriteError(r)       BY <1>12 DEF WriteError
<1> QED
  BY <1>1, <1>2, <1>3, <1>4, <1>5, <1>6, <1>7, <1>8, <1>9, <1>10, <1>11, <1>12 DEF Neutral

\* Handlers, expiry and the loop's end change neither of them.
LEMMA IdleStep ==
  ASSUME \/ \E r \in Requests : HandlerEnds(r)
         \/ Environment
         \/ UNCHANGED vars
  PROVE  /\ UNCHANGED admissionVars
         /\ Holders' = Holders
         /\ Counted' = Counted
BY DEF HandlerEnds, Environment, CloseLoop, ExpireNonce, ExpireTaskId, vars,
       admissionVars, Holders, Counted

\* A node with max_concurrent slots never hands out more, and never loses one,
\* whatever the interleaving of any number of request threads: on every path
\* through _task the semaphore is released exactly once per acquisition.
THEOREM SlotsConserved == Spec => []SlotConservation
<1>1. Init => SlotConservation
  <2> SUFFICES ASSUME Init PROVE SlotConservation
    OBVIOUS
  <2>1. Holders = {}
    BY DEF Init, Holders, SlotPhases
  <2> QED
    BY <2>1, FS_EmptySet, MaxConcurrentAssumption DEF Init, SlotConservation
<1>2. TypeOK /\ SlotConservation /\ [Next]_vars => SlotConservation'
  <2> SUFFICES ASSUME TypeOK, SlotConservation, [Next]_vars PROVE SlotConservation'
    OBVIOUS
  <2> USE HoldersFinite DEF SlotConservation
  <2>1. ASSUME NEW r \in Requests, AcquireSlot(r) PROVE SlotConservation'
    <3>1. r \notin Holders /\ Holders' = Holders \cup {r}
      BY <2>1, HoldersMove DEF AcquireSlot, SlotPhases
    <3>2. Cardinality(Holders') = Cardinality(Holders) + 1
      BY <3>1, FS_AddElement
    <3> QED
      BY <2>1, <3>2, MaxConcurrentAssumption DEF AcquireSlot, TypeOK
  <2>2. ASSUME NEW r \in Requests, ReleaseSlot(r) PROVE SlotConservation'
    <3>1. r \in Holders /\ Holders' = Holders \ {r}
      BY <2>2, HoldersMove DEF ReleaseSlot, SlotPhases
    <3>2. Cardinality(Holders') = Cardinality(Holders) - 1
      BY <3>1, FS_RemoveElement
    <3> QED
      BY <2>2, <3>2, MaxConcurrentAssumption DEF ReleaseSlot, TypeOK
  <2>3. ASSUME NEW r \in Requests, CountJob(r) \/ UncountJob(r) PROVE SlotConservation'
    <3>1. Holders' = Holders /\ sem' = sem
      BY <2>3, HoldersMove DEF CountJob, UncountJob, SlotPhases
    <3> QED
      BY <3>1
  <2>4. ASSUME NEW r \in Requests, Neutral(r) PROVE SlotConservation'
    BY <2>4, NeutralStep DEF admissionVars
  <2>5. CASE (\E r \in Requests : HandlerEnds(r)) \/ Environment \/ UNCHANGED vars
    BY <2>5, IdleStep DEF admissionVars
  <2> QED
    BY <2>1, <2>2, <2>3, <2>4, <2>5 DEF Next, Thread, Neutral
<1> QED
  BY <1>1, <1>2, TypeCorrect, PTL DEF Spec

\* The counter the availability gate and /iicp/health read is exact in every
\* state, although it is not updated together with the semaphore.
THEOREM ActiveJobsCounted == Spec => []ActiveJobsExact
<1>1. Init => ActiveJobsExact
  <2> SUFFICES ASSUME Init PROVE ActiveJobsExact
    OBVIOUS
  <2>1. Counted = {}
    BY DEF Init, Counted, CountedPhases, SlotPhases
  <2> QED
    BY <2>1, FS_EmptySet DEF Init, ActiveJobsExact
<1>2. TypeOK /\ ActiveJobsExact /\ [Next]_vars => ActiveJobsExact'
  <2> SUFFICES ASSUME TypeOK, ActiveJobsExact, [Next]_vars PROVE ActiveJobsExact'
    OBVIOUS
  <2> USE HoldersFinite DEF ActiveJobsExact
  <2>1. ASSUME NEW r \in Requests, CountJob(r) PROVE ActiveJobsExact'
    <3>1. r \notin Counted /\ Counted' = Counted \cup {r}
      BY <2>1, CountedMove DEF CountJob, CountedPhases, SlotPhases
    <3> QED
      BY <2>1, <3>1, FS_AddElement DEF CountJob
  <2>2. ASSUME NEW r \in Requests, UncountJob(r) PROVE ActiveJobsExact'
    <3>1. r \in Counted /\ Counted' = Counted \ {r}
      BY <2>2, CountedMove DEF UncountJob, CountedPhases, SlotPhases
    <3> QED
      BY <2>2, <3>1, FS_RemoveElement DEF UncountJob
  <2>3. ASSUME NEW r \in Requests, AcquireSlot(r) \/ ReleaseSlot(r) PROVE ActiveJobsExact'
    <3>1. Counted' = Counted /\ activeJobs' = activeJobs
      BY <2>3, CountedMove DEF AcquireSlot, ReleaseSlot, CountedPhases, SlotPhases
    <3> QED
      BY <3>1
  <2>4. ASSUME NEW r \in Requests, Neutral(r) PROVE ActiveJobsExact'
    BY <2>4, NeutralStep DEF admissionVars
  <2>5. CASE (\E r \in Requests : HandlerEnds(r)) \/ Environment \/ UNCHANGED vars
    BY <2>5, IdleStep DEF admissionVars
  <2> QED
    BY <2>1, <2>2, <2>3, <2>4, <2>5 DEF Next, Thread, Neutral
<1> QED
  BY <1>1, <1>2, TypeCorrect, PTL DEF Spec

----------------------------------------------------------------------------
(* De-duplication                                                           *)

\* Steps that register and expire nothing and let no request into the bounded
\* part: afterwards no more requests are in it, with the same caches.
Leaving(r) ==
  \/ PreCheck(r) \/ AvailabilityGate(r) \/ AcquireSlot(r) \/ QueueForSlot(r)
  \/ CapacityExceeded(r) \/ CountJob(r) \/ SubmitHandler(r) \/ CollectResult(r)
  \/ HandlerTimeout(r) \/ WriteResponse(r) \/ WriteError(r) \/ ReleaseSlot(r) \/ UncountJob(r)

\* The steps of _task outside the two duplicate checks keep both caches.
LEMMA LeavingStep ==
  ASSUME TypeOK, NEW r \in Requests, Leaving(r)
  PROVE  /\ UNCHANGED <<req, dedupVars>>
         /\ \A q \in Requests : InBoundedPart(q)' => InBoundedPart(q)
         /\ \A q \in Requests : Executing(q)' => Executing(q)
<1> USE DEF Goto, InBoundedPart, Executing, TypeOK
<1>1. CASE PreCheck(r)         BY <1>1 DEF PreCheck
<1>2. CASE AvailabilityGate(r) BY <1>2 DEF AvailabilityGate
<1>3. CASE AcquireSlot(r)      BY <1>3 DEF AcquireSlot
<1>4. CASE QueueForSlot(r)     BY <1>4 DEF QueueForSlot
<1>5. CASE CapacityExceeded(r) BY <1>5 DEF CapacityExceeded
<1>6. CASE CountJob(r)         BY <1>6 DEF CountJob
<1>7. CASE CollectResult(r)    BY <1>7 DEF CollectResult
<1>8. CASE HandlerTimeout(r)   BY <1>8 DEF HandlerTimeout
<1>9. CASE WriteResponse(r)    BY <1>9 DEF WriteResponse
<1>10. CASE WriteError(r)      BY <1>10 DEF WriteError
<1>11. CASE ReleaseSlot(r)     BY <1>11 DEF ReleaseSlot
<1>12. CASE UncountJob(r)      BY <1>12 DEF UncountJob
<1>13. CASE SubmitHandler(r)   BY <1>13 DEF SubmitHandler
<1> QED
  BY <1>1, <1>2, <1>3, <1>4, <1>5, <1>6, <1>7, <1>8, <1>9, <1>10, <1>11, <1>12, <1>13
     DEF Leaving

\* No two requests with one nonce, or with idempotency on one task_id, are
\* executed at the same time within the bounded part, for any set of requests.
THEOREM DuplicatesNotExecuted == Spec => []NoDuplicateExecution
<1>1. Init => DedupInv
  BY DEF Init, DedupInv, NoDuplicateExecution, InBoundedPart, Executing
<1>2. TypeOK /\ DedupInv /\ [Next]_vars => DedupInv'
  <2> SUFFICES ASSUME TypeOK, DedupInv, [Next]_vars PROVE DedupInv'
    OBVIOUS
  <2> USE DEF DedupInv, NoDuplicateExecution, InBoundedPart, Executing
  <2>1. ASSUME NEW r \in Requests, Arrive(r) PROVE DedupInv'
    <3>1. \A q \in Requests : ~InBoundedPart(q)' \/ (q # r /\ InBoundedPart(q) /\ req'[q] = req[q])
      BY <2>1 DEF Arrive, Goto, InBoundedPart, TypeOK
    <3>2. \A q \in Requests : Executing(q)' => Executing(q) /\ q # r /\ req'[q] = req[q]
      BY <2>1 DEF Arrive, Goto, Executing, TypeOK
    <3>3. UNCHANGED <<nonces, taskIds>>
      BY <2>1 DEF Arrive, dedupVars
    <3> QED
      BY <3>1, <3>2, <3>3
  <2>2. ASSUME NEW r \in Requests, Leaving(r) PROVE DedupInv'
    BY <2>2, LeavingStep DEF dedupVars
  <2>3. ASSUME NEW r \in Requests, CheckNonce(r) PROVE DedupInv'
    <3>1. UNCHANGED <<req, taskIds>> /\ \A q \in Requests : Executing(q)' => Executing(q)
      BY <2>3 DEF CheckNonce, Goto, Executing, TypeOK
    <3>2. nonces \subseteq nonces'
      BY <2>3 DEF CheckNonce
    <3>3. \A q \in Requests \ {r} : InBoundedPart(q)' => InBoundedPart(q)
      BY <2>3 DEF CheckNonce, Goto, InBoundedPart, TypeOK
    <3>4. InBoundedPart(r)' => req[r].nonce \notin nonces /\ req[r].nonce \in nonces' \cup {None}
      BY <2>3 DEF CheckNonce, Goto, InBoundedPart, TypeOK
    <3> QED
      BY <3>1, <3>2, <3>3, <3>4
  <2>4. ASSUME NEW r \in Requests, CheckIdempotency(r) PROVE DedupInv'
    <3>1. UNCHANGED <<req, nonces>> /\ taskIds \subseteq taskIds'
      BY <2>4 DEF CheckIdempotency
    <3>2. \A q \in Requests : InBoundedPart(q)' => InBoundedPart(q)
      BY <2>4 DEF CheckIdempotency, Goto, InBoundedPart, TypeOK
    <3>3. \A q \in Requests \ {r} : Executing(q)' => Executing(q)
      BY <2>4 DEF CheckIdempotency, Goto, Executing, TypeOK
    <3>4. Executing(r)' /\ EnableIdempotency =>
            req[r].task \notin taskIds /\ req[r].task \in taskIds' \cup {None}
      BY <2>4 DEF CheckIdempotency, Goto, Executing, TypeOK
    <3>5. \A q \in Requests : Executing(q) => InBoundedPart(q)
      BY DEF Executing, InBoundedPart
    <3>6. \A q \in Requests : Executing(q)' => InBoundedPart(q)'
      BY DEF Executing, InBoundedPart
    <3> QED
      BY <3>1, <3>2, <3>3, <3>4, <3>5, <3>6
  <2>5. ASSUME NEW n \in Nonces, ExpireNonce(n) PROVE DedupInv'
    BY <2>5 DEF ExpireNonce, InBoundedPart, Executing
  <2>6. ASSUME NEW t \in TaskIds, ExpireTaskId(t) PROVE DedupInv'
    BY <2>6 DEF ExpireTaskId, InBoundedPart, Executing
  <2>7. CASE (\E r \in Requests : HandlerEnds(r)) \/ CloseLoop \/ UNCHANGED vars
    BY <2>7 DEF HandlerEnds, CloseLoop, vars, dedupVars, InBoundedPart, Executing
  <2> QED
    BY <2>1, <2>2, <2>3, <2>4, <2>5, <2>6, <2>7 DEF Next, Thread, Environment, Leaving
<1>3. DedupInv => NoDuplicateExecution
  BY DEF DedupInv
<1> QED
  BY <1>1, <1>2, <1>3, TypeCorrect, PTL DEF Spec

----------------------------------------------------------------------------
(* Refused requests leave no trace                                          *)

\* The strengthening: a thread that has not reached the finally block and has
\* not returned has not answered yet.
Unanswered ==
  \A r \in Requests : pc[r] \notin {"release", "decrement", "done"} => answer[r] = "none"

TraceInv == Unanswered /\ RefusalLeavesNoTrace

\* Once past a check a request stays past it, with the request it carries.
Stays(q) ==
  /\ PassedNonce(q) => PassedNonce(q)' /\ req'[q] = req[q]
  /\ PassedIdempotency(q) => PassedIdempotency(q)' /\ req'[q] = req[q]

\* Every step of a thread keeps the others, and itself, past their checks.
LEMMA StepKeepsPassed ==
  ASSUME TypeOK, Unanswered, NEW r \in Requests,
         Arrive(r) \/ Thread(r) \/ HandlerEnds(r)
  PROVE  Unanswered' /\ \A q \in Requests : Stays(q)
<1> USE DEF Goto, Answer, Unanswered, Stays, PassedNonce, PassedIdempotency, TypeOK
<1>1. CASE Arrive(r)            BY <1>1 DEF Arrive
<1>2. CASE PreCheck(r)          BY <1>2 DEF PreCheck
<1>3. CASE AvailabilityGate(r)  BY <1>3 DEF AvailabilityGate
<1>4. CASE AcquireSlot(r)       BY <1>4 DEF AcquireSlot
<1>5. CASE QueueForSlot(r)      BY <1>5 DEF QueueForSlot
<1>6. CASE CapacityExceeded(r)  BY <1>6 DEF CapacityExceeded
<1>7. CASE CountJob(r)          BY <1>7 DEF CountJob
<1>8. CASE CheckNonce(r)        BY <1>8 DEF CheckNonce
<1>9. CASE CheckIdempotency(r)  BY <1>9 DEF CheckIdempotency
<1>10. CASE SubmitHandler(r)    BY <1>10 DEF SubmitHandler
<1>11. CASE CollectResult(r)    BY <1>11 DEF CollectResult, counterVars
<1>12. CASE HandlerTimeout(r)   BY <1>12 DEF HandlerTimeout
<1>13. CASE WriteResponse(r)    BY <1>13 DEF WriteResponse
<1>14. CASE WriteError(r)       BY <1>14 DEF WriteError
<1>15. CASE ReleaseSlot(r)      BY <1>15 DEF ReleaseSlot
<1>16. CASE UncountJob(r)       BY <1>16 DEF UncountJob
<1>17. CASE HandlerEnds(r)      BY <1>17 DEF HandlerEnds
<1> QED
  BY <1>1, <1>2, <1>3, <1>4, <1>5, <1>6, <1>7, <1>8, <1>9, <1>10, <1>11, <1>12, <1>13,
     <1>14, <1>15, <1>16, <1>17 DEF Thread

\* Back-pressure is side-effect free: a request that was turned away before it
\* held a slot has used up neither its nonce nor its task_id.
THEOREM RefusalsLeaveNoTrace == Spec => []RefusalLeavesNoTrace
<1>1. Init => TraceInv
  BY DEF Init, TraceInv, Unanswered, RefusalLeavesNoTrace
<1>2. TypeOK /\ TraceInv /\ [Next]_vars => TraceInv'
  <2> SUFFICES ASSUME TypeOK, TraceInv, [Next]_vars PROVE TraceInv'
    OBVIOUS
  <2> USE DEF TraceInv, RefusalLeavesNoTrace
  <2>1. ASSUME NEW r \in Requests, CheckNonce(r) PROVE TraceInv'
    <3>1. Unanswered' /\ \A q \in Requests : Stays(q)
      BY <2>1, StepKeepsPassed DEF Thread
    <3>2. \A n \in nonces' : n \in nonces \/ (n = req'[r].nonce /\ PassedNonce(r)')
      BY <2>1 DEF CheckNonce, Goto, PassedNonce, TypeOK
    <3>3. taskIds' = taskIds
      BY <2>1 DEF CheckNonce
    <3> QED
      BY <3>1, <3>2, <3>3 DEF Stays
  <2>2. ASSUME NEW r \in Requests, CheckIdempotency(r) PROVE TraceInv'
    <3>1. Unanswered' /\ \A q \in Requests : Stays(q)
      BY <2>2, StepKeepsPassed DEF Thread
    <3>2. \A t \in taskIds' : t \in taskIds \/ (t = req'[r].task /\ PassedIdempotency(r)')
      BY <2>2 DEF CheckIdempotency, Goto, PassedNonce, PassedIdempotency, TypeOK, Unanswered
    <3>3. nonces' = nonces
      BY <2>2 DEF CheckIdempotency
    <3> QED
      BY <3>1, <3>2, <3>3 DEF Stays
  <2>3. ASSUME NEW r \in Requests, Arrive(r) \/ Leaving(r) \/ HandlerEnds(r) PROVE TraceInv'
    <3>1. Unanswered' /\ \A q \in Requests : Stays(q)
      BY <2>3, StepKeepsPassed DEF Thread, Leaving
    <3>2. UNCHANGED <<nonces, taskIds>>
      BY <2>3, LeavingStep DEF Arrive, HandlerEnds, dedupVars
    <3> QED
      BY <3>1, <3>2 DEF Stays
  <2>4. CASE Environment \/ UNCHANGED vars
    <3>1. UNCHANGED <<pc, req, answer>> /\ nonces' \subseteq nonces /\ taskIds' \subseteq taskIds
      BY <2>4 DEF Environment, CloseLoop, ExpireNonce, ExpireTaskId, vars, dedupVars
    <3> QED
      BY <3>1 DEF Unanswered, PassedNonce, PassedIdempotency
  <2> QED
    BY <2>1, <2>2, <2>3, <2>4 DEF Next, Thread, Leaving
<1>3. TraceInv => RefusalLeavesNoTrace
  BY DEF TraceInv
<1> QED
  BY <1>1, <1>2, <1>3, TypeCorrect, PTL DEF Spec

\* The books of _task balance for any number of requests, slots, nonces and tasks.
THEOREM SlotBooksBalance == Spec => []SlotAccounts
BY TypeCorrect, SlotsConserved, ActiveJobsCounted, PTL DEF SlotAccounts
============================================================================
