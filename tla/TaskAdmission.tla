--------------------------- MODULE TaskAdmission ---------------------------
(***************************************************************************)
(* POST /v1/task of a provider node (node.py, _Handler._task): admission,   *)
(* de-duplication, execution and accounting of one task per HTTP thread.    *)
(*                                                                         *)
(* The HTTP server is a ThreadingHTTPServer: every request runs _task on a  *)
(* thread of its own, so the steps below interleave freely.  Each step is   *)
(* one critical section (a lock, the semaphore, one dictionary update) or   *)
(* one blocking call; the handler coroutine itself runs on the node's event *)
(* loop, concurrently with the thread that waits for it.                    *)
(*                                                                         *)
(* A request carries its nonce, its task_id and its QoS class.  Time is     *)
(* abstract: the waits of QUEUE_WAIT_S and 60 s may end at any point, and a *)
(* cache entry may expire once its owner can no longer be inside the bounded *)
(* part of the handler (the TTL of 300 s exceeds the 60 s execution bound). *)
(***************************************************************************)
EXTENDS Integers, FiniteSets

CONSTANTS
  Requests,          \* HTTP requests, one thread each
  Nonces,            \* nonces clients may send
  TaskIds,           \* task_ids clients may send
  None,              \* an absent nonce or task_id
  Inputs,            \* the requests clients send: nonce, task_id, queue-eligible
  MaxConcurrent,     \* NodeConfig.max_concurrent
  Shares,            \* availability shares, in percent of max_concurrent
  EnableIdempotency  \* NodeConfig.enable_idempotency

ASSUME RequestsAssumption == IsFiniteSet(Requests)
ASSUME MaxConcurrentAssumption == MaxConcurrent \in Nat
ASSUME SharesAssumption == Shares \subseteq Nat /\ Shares # {}
ASSUME IdempotencyAssumption == EnableIdempotency \in BOOLEAN
ASSUME InputsAssumption ==
  Inputs \subseteq [nonce : Nonces \cup {None}, task : TaskIds \cup {None}, queues : BOOLEAN]
ASSUME NoneAssumption == None \notin Nonces /\ None \notin TaskIds

VARIABLES
  pc,            \* where each thread is inside _task
  req,           \* the request each thread parsed
  answer,        \* the response each thread decided on
  sem,           \* node._sem: free slots
  activeJobs,    \* node._active_jobs
  nonces,        \* live keys of node._nonces
  taskIds,       \* live keys of node._idempotency._seen
  running,       \* requests whose handler coroutine is alive on the loop
  result,        \* what the handler coroutine of a request ended with
  loopOpen,      \* the event loop accepts coroutines
  tasksSuccess,  \* node._tasks_success
  tasksFailed    \* node._tasks_failed

admissionVars == <<sem, activeJobs>>
dedupVars     == <<nonces, taskIds>>
handlerVars   == <<running, result, loopOpen>>
counterVars   == <<tasksSuccess, tasksFailed>>
vars == <<pc, req, answer, admissionVars, dedupVars, handlerVars, counterVars>>

Request == [nonce : Nonces \cup {None}, task : TaskIds \cup {None}, queues : BOOLEAN]

Phases == {"idle", "start", "gate", "acquire", "queued", "count", "nonce", "idempotency",
           "submit", "wait", "reply_ok", "reply_big", "reply_err",
           "release", "decrement", "done"}

\* "refused" is any response given before a slot was held.
Answers == {"none", "refused", "replay", "duplicate", "cx_error", "shutdown",
            "completed", "failed"}

\* How a handler coroutine can end, as .result() reports it to the thread.
Outcomes == {"ok", "oversize", "error", "runtime", "closed"}

\* The phases in which a thread holds a semaphore slot.
SlotPhases == {"count", "nonce", "idempotency", "submit", "wait",
               "reply_ok", "reply_big", "reply_err", "release"}

\* The phases between the increment and the decrement of _active_jobs.
CountedPhases == (SlotPhases \ {"count"}) \cup {"decrement"}

Holders == {r \in Requests : pc[r] \in SlotPhases}
Counted == {r \in Requests : pc[r] \in CountedPhases}

\* AvailabilityEvaluator.effective_max_concurrent: at least one slot unless
\* the operator or the window closed the node.
EffectiveMaxConcurrent(base, pct) ==
  IF base <= 0 \/ pct <= 0 THEN 0
  ELSE IF (base * pct) \div 100 < 1 THEN 1 ELSE (base * pct) \div 100

Goto(r, from, to) == pc[r] = from /\ pc' = [pc EXCEPT ![r] = to]
Answer(r, a)      == answer' = [answer EXCEPT ![r] = a]

Init ==
  /\ pc = [r \in Requests |-> "idle"]
  /\ req = [r \in Requests |-> [nonce |-> None, task |-> None, queues |-> FALSE]]
  /\ answer = [r \in Requests |-> "none"]
  /\ sem = MaxConcurrent
  /\ activeJobs = 0
  /\ nonces = {}
  /\ taskIds = {}
  /\ running = {}
  /\ result = [r \in Requests |-> "none"]
  /\ loopOpen = TRUE
  /\ tasksSuccess = 0
  /\ tasksFailed = 0

----------------------------------------------------------------------------
(* Before a slot is held: every early return refuses the request.           *)

Arrive(r) ==
  /\ Goto(r, "idle", "start")
  /\ \E q \in Inputs : req' = [req EXCEPT ![r] = q]
  /\ UNCHANGED <<answer, admissionVars, dedupVars, handlerVars, counterVars>>

\* Body, per-origin rate, JSON, CIP-policy and backend-drain checks look only
\* at the request, the rate buckets and the stability snapshot, none of which
\* the rest of _task touches: each may refuse the request, or let it through.
PreCheck(r) ==
  /\ \/ Goto(r, "start", "done") /\ Answer(r, "refused")
     \/ Goto(r, "start", "gate") /\ UNCHANGED answer
  /\ UNCHANGED <<req, admissionVars, dedupVars, handlerVars, counterVars>>

\* Mutation: replay protection moved in front of the capacity gates.
AvailabilityGateAfterNonce(r) ==
  /\ \E share \in Shares :
       LET effMax == EffectiveMaxConcurrent(MaxConcurrent, share)
       IN  \/ activeJobs >= effMax /\ Goto(r, "gate", "done") /\ Answer(r, "refused")
           \/ activeJobs < effMax /\ Goto(r, "gate", "acquire") /\ UNCHANGED answer
  /\ nonces' = nonces \cup ({req[r].nonce} \ {None})
  /\ UNCHANGED <<req, admissionVars, taskIds, handlerVars, counterVars>>

\* The window check takes the share of the current time of day, reads
\* _active_jobs under its lock, and lets the lock go before the semaphore.
AvailabilityGate(r) ==
  /\ \E share \in Shares :
       LET effMax == EffectiveMaxConcurrent(MaxConcurrent, share)
       IN  \/ activeJobs >= effMax /\ Goto(r, "gate", "done") /\ Answer(r, "refused")
           \/ activeJobs < effMax /\ Goto(r, "gate", "acquire") /\ UNCHANGED answer
  /\ UNCHANGED <<req, admissionVars, dedupVars, handlerVars, counterVars>>

\* node._sem.acquire succeeds: at once, or while a queue-eligible request waits.
AcquireSlot(r) ==
  /\ sem > 0
  /\ Goto(r, "acquire", "count") \/ Goto(r, "queued", "count")
  /\ sem' = sem - 1
  /\ UNCHANGED <<req, answer, activeJobs, dedupVars, handlerVars,
                 counterVars>>

\* realtime and interactive requests wait up to QUEUE_WAIT_S for a slot.
QueueForSlot(r) ==
  /\ sem = 0
  /\ req[r].queues
  /\ Goto(r, "acquire", "queued")
  /\ UNCHANGED <<req, answer, admissionVars, dedupVars, handlerVars, counterVars>>

\* The semaphore refuses: a fail-fast request that finds no slot, or a
\* queue-eligible one whose wait ended without a slot.
CapacityExceeded(r) ==
  /\ sem = 0
  /\ \/ ~req[r].queues /\ Goto(r, "acquire", "done")
     \/ Goto(r, "queued", "done")
  /\ Answer(r, "refused")
  /\ UNCHANGED <<req, admissionVars, dedupVars, handlerVars, counterVars>>

CountJob(r) ==
  /\ Goto(r, "count", "nonce")
  /\ activeJobs' = activeJobs + 1
  /\ UNCHANGED <<req, answer, sem, dedupVars, handlerVars, counterVars>>

----------------------------------------------------------------------------
(* Inside the try block: every return runs the finally block.               *)

\* Mutation: a replay returns without reaching the finally block.
CheckNonceLeaksSlot(r) ==
  LET n == req[r].nonce
  IN  /\ \/ /\ n \in nonces
            /\ Goto(r, "nonce", "done")
            /\ Answer(r, "replay")
            /\ UNCHANGED nonces
         \/ /\ n \notin nonces
            /\ Goto(r, "nonce", "idempotency")
            /\ nonces' = nonces \cup ({n} \ {None})
            /\ UNCHANGED answer
      /\ UNCHANGED <<req, admissionVars, taskIds, handlerVars, counterVars>>

\* _check_nonce: lookup and registration under one lock.
CheckNonce(r) ==
  LET n == req[r].nonce
  IN  /\ \/ /\ n \in nonces
            /\ Goto(r, "nonce", "release")
            /\ Answer(r, "replay")
            /\ UNCHANGED nonces
         \/ /\ n \notin nonces
            /\ Goto(r, "nonce", "idempotency")
            /\ nonces' = nonces \cup ({n} \ {None})
            /\ UNCHANGED answer
      /\ UNCHANGED <<req, admissionVars, taskIds, handlerVars, counterVars>>

\* Mutation: the task_id is looked up and never registered.
CheckIdempotencyForgets(r) ==
  /\ \/ /\ EnableIdempotency /\ req[r].task \in taskIds
        /\ Goto(r, "idempotency", "release")
        /\ Answer(r, "duplicate")
     \/ /\ EnableIdempotency => req[r].task \notin taskIds
        /\ Goto(r, "idempotency", "submit")
        /\ UNCHANGED answer
  /\ UNCHANGED <<req, admissionVars, dedupVars, handlerVars, counterVars>>

\* IdempotencyGuard.check_and_register, consulted only when enabled.
CheckIdempotency(r) ==
  LET t == req[r].task
  IN  /\ \/ /\ EnableIdempotency /\ t \in taskIds
            /\ Goto(r, "idempotency", "release")
            /\ Answer(r, "duplicate")
            /\ UNCHANGED taskIds
         \/ /\ EnableIdempotency => t \notin taskIds
            /\ Goto(r, "idempotency", "submit")
            /\ taskIds' = IF EnableIdempotency THEN taskIds \cup ({t} \ {None}) ELSE taskIds
            /\ UNCHANGED answer
      /\ UNCHANGED <<req, admissionVars, nonces, handlerVars, counterVars>>

\* IICP-CX refuses a request it cannot decrypt, or one that asks for an
\* encrypted response without an encrypted request; the rest are put on the
\* event loop, unless it is closed.
SubmitHandler(r) ==
  /\ \/ /\ Goto(r, "submit", "release")
        /\ Answer(r, "cx_error")
        /\ UNCHANGED running
     \/ /\ loopOpen
        /\ Goto(r, "submit", "wait")
        /\ running' = running \cup {r}
        /\ UNCHANGED answer
     \/ /\ ~loopOpen
        /\ Goto(r, "submit", "release")
        /\ Answer(r, "shutdown")
        /\ UNCHANGED running
  /\ UNCHANGED <<req, admissionVars, dedupVars, result, loopOpen, counterVars>>

\* .result(timeout=60) returns or raises.  Success and failure are counted
\* here; a RuntimeError that names a closed loop answers 503, any other one
\* escapes _task uncounted and unanswered.
CollectResult(r) ==
  /\ \/ /\ result[r] = "ok" /\ Goto(r, "wait", "reply_ok")
        /\ tasksSuccess' = tasksSuccess + 1
        /\ UNCHANGED <<answer, tasksFailed>>
     \/ /\ result[r] = "oversize" /\ Goto(r, "wait", "reply_big")
        /\ tasksFailed' = tasksFailed + 1
        /\ UNCHANGED <<answer, tasksSuccess>>
     \/ /\ result[r] = "error" /\ Goto(r, "wait", "reply_err")
        /\ tasksFailed' = tasksFailed + 1
        /\ UNCHANGED <<answer, tasksSuccess>>
     \/ /\ result[r] = "closed" /\ Goto(r, "wait", "release")
        /\ Answer(r, "shutdown")
        /\ UNCHANGED counterVars
     \/ /\ result[r] = "runtime" /\ Goto(r, "wait", "release")
        /\ UNCHANGED <<answer, counterVars>>
  /\ result' = [result EXCEPT ![r] = "none"]
  /\ UNCHANGED <<req, admissionVars, dedupVars, running, loopOpen>>

\* Mutation: .result() is called without a timeout.
HandlerTimeoutMissing(r) ==
  /\ FALSE
  /\ Goto(r, "wait", "reply_err")
  /\ UNCHANGED <<req, answer, admissionVars, dedupVars, handlerVars, counterVars>>

\* The 60 s bound ends the wait.  The coroutine is not cancelled.
HandlerTimeout(r) ==
  /\ result[r] = "none"
  /\ Goto(r, "wait", "reply_err")
  /\ tasksFailed' = tasksFailed + 1
  /\ UNCHANGED <<req, answer, admissionVars, dedupVars, handlerVars, tasksSuccess>>

\* The response is written inside the same try block: a client that went away
\* makes the write raise, and the task is then also counted as failed.
WriteResponse(r) ==
  /\ \/ /\ Goto(r, "reply_ok", "release")
        /\ Answer(r, "completed")
        /\ UNCHANGED tasksFailed
     \/ /\ Goto(r, "reply_big", "release")
        /\ Answer(r, "failed")
        /\ UNCHANGED tasksFailed
     \/ /\ \/ Goto(r, "reply_ok", "reply_err")
           \/ Goto(r, "reply_big", "reply_err")
        /\ tasksFailed' = tasksFailed + 1
        /\ UNCHANGED answer
  /\ UNCHANGED <<req, admissionVars, dedupVars, handlerVars, tasksSuccess>>

\* The 500 backend_error response; when this write raises too, nothing was sent.
WriteError(r) ==
  /\ Goto(r, "reply_err", "release")
  /\ \/ Answer(r, "failed")
     \/ UNCHANGED answer
  /\ UNCHANGED <<req, admissionVars, dedupVars, handlerVars, counterVars>>

\* finally: the slot is given back first ...
ReleaseSlot(r) ==
  /\ Goto(r, "release", "decrement")
  /\ sem' = sem + 1
  /\ UNCHANGED <<req, answer, activeJobs, dedupVars, handlerVars,
                 counterVars>>

\* ... and the job is uncounted afterwards, under another lock.
UncountJob(r) ==
  /\ Goto(r, "decrement", "done")
  /\ activeJobs' = activeJobs - 1
  /\ UNCHANGED <<req, answer, sem, dedupVars, handlerVars, counterVars>>

----------------------------------------------------------------------------
(* The rest of the node: handlers, windows, drains, expiries, shutdown.     *)

\* A coroutine ends; nobody looks at the future of a request that gave up.
HandlerEnds(r) ==
  /\ r \in running
  /\ running' = running \ {r}
  /\ IF pc[r] = "wait"
     THEN \E o \in Outcomes : result' = [result EXCEPT ![r] = o]
     ELSE UNCHANGED result
  /\ UNCHANGED <<pc, req, answer, admissionVars, dedupVars, loopOpen, counterVars>>

\* A cache entry outlives the bounded part of the request that made it.
InBoundedPart(r) == pc[r] \in {"idempotency", "submit", "wait"}

ExpireNonce(n) ==
  /\ n \in nonces
  /\ \A r \in Requests : req[r].nonce = n => ~InBoundedPart(r)
  /\ nonces' = nonces \ {n}
  /\ UNCHANGED <<pc, req, answer, admissionVars, taskIds, handlerVars, counterVars>>

ExpireTaskId(t) ==
  /\ t \in taskIds
  /\ \A r \in Requests : req[r].task = t => ~InBoundedPart(r)
  /\ taskIds' = taskIds \ {t}
  /\ UNCHANGED <<pc, req, answer, admissionVars, nonces, handlerVars, counterVars>>

\* Shutdown closes the event loop; coroutines still on it never resolve.
CloseLoop ==
  /\ loopOpen
  /\ loopOpen' = FALSE
  /\ running' = {}
  /\ UNCHANGED <<pc, req, answer, admissionVars, dedupVars, result, counterVars>>

Thread(r) ==
  \/ PreCheck(r) \/ AvailabilityGate(r)
  \/ AcquireSlot(r) \/ QueueForSlot(r) \/ CapacityExceeded(r) \/ CountJob(r)
  \/ CheckNonce(r) \/ CheckIdempotency(r)
  \/ SubmitHandler(r) \/ CollectResult(r) \/ HandlerTimeout(r)
  \/ WriteResponse(r) \/ WriteError(r) \/ ReleaseSlot(r) \/ UncountJob(r)

Environment ==
  \/ CloseLoop
  \/ \E n \in Nonces : ExpireNonce(n)
  \/ \E t \in TaskIds : ExpireTaskId(t)

Next ==
  \/ \E r \in Requests : Arrive(r) \/ Thread(r) \/ HandlerEnds(r)
  \/ Environment

Spec == Init /\ [][Next]_vars

\* Threads are scheduled by the operating system and both waits are bounded,
\* so a thread always takes its next step.  Nothing is assumed of handlers.
Fairness == \A r \in Requests : WF_vars(Thread(r))

FairSpec == Spec /\ Fairness

----------------------------------------------------------------------------
(* Properties                                                               *)

TypeOK ==
  /\ pc \in [Requests -> Phases]
  /\ req \in [Requests -> Request]
  /\ answer \in [Requests -> Answers]
  /\ sem \in Nat
  /\ activeJobs \in Int
  /\ nonces \subseteq Nonces
  /\ taskIds \subseteq TaskIds
  /\ running \subseteq Requests
  /\ result \in [Requests -> Outcomes \cup {"none"}]
  /\ loopOpen \in BOOLEAN
  /\ tasksSuccess \in Nat
  /\ tasksFailed \in Nat

\* No early return, exception or timeout of _task leaks or duplicates a slot:
\* free slots and slots held add up to max_concurrent in every state.
SlotConservation == sem + Cardinality(Holders) = MaxConcurrent

\* _active_jobs, which the window gate and /iicp/health read, is exactly the
\* number of threads between its increment and its decrement.
ActiveJobsExact == activeJobs = Cardinality(Counted)

\* The books of _task balance in every interleaving: values keep their types, no
\* slot is leaked or given out twice, and the load told to the directory counts
\* exactly the requests that are being served.
SlotAccounts == TypeOK /\ SlotConservation /\ ActiveJobsExact

\* Two requests with one nonce, or with idempotency on one task_id, are never
\* both past their check and inside the bounded execution part.
Executing(r) == pc[r] \in {"submit", "wait"}

NoDuplicateExecution ==
  \A r, s \in Requests :
    r # s /\ Executing(r) /\ Executing(s) =>
      /\ req[r].nonce = req[s].nonce => req[r].nonce = None
      /\ EnableIdempotency /\ req[r].task = req[s].task => req[r].task = None

\* The strengthening that makes NoDuplicateExecution inductive: what an executing
\* request registered is still live, because an entry outlives the bounded part.
DedupInv ==
  /\ \A r \in Requests : InBoundedPart(r) => req[r].nonce \in nonces \cup {None}
  /\ \A r \in Requests :
       EnableIdempotency /\ Executing(r) => req[r].task \in taskIds \cup {None}
  /\ \A r, s \in Requests :
       r # s /\ InBoundedPart(r) /\ InBoundedPart(s) /\ req[r].nonce = req[s].nonce
         => req[r].nonce = None
  /\ NoDuplicateExecution

\* A nonce or task_id is consumed only by a request that held a slot and passed
\* the checks before it: a caller refused with 429, 403 or 503 back-pressure
\* may resend the very same request, and a replayed nonce uses up no task_id.
PassedNonce(r) ==
  \/ pc[r] \in {"idempotency", "submit", "wait", "reply_ok", "reply_big", "reply_err"}
  \/ pc[r] \in {"release", "decrement", "done"} /\ answer[r] \notin {"refused", "replay"}

PassedIdempotency(r) ==
  PassedNonce(r) /\ pc[r] # "idempotency" /\ answer[r] # "duplicate"

RefusalLeavesNoTrace ==
  /\ \A n \in nonces : \E r \in Requests : req[r].nonce = n /\ PassedNonce(r)
  /\ \A t \in taskIds : \E r \in Requests : req[r].task = t /\ PassedIdempotency(r)

\* Every request that starts leaves _task, whatever its handler does: in the end no
\* thread is inside.
EveryRequestLeaves == <>[](\A r \in Requests : pc[r] \in {"idle", "done"})

\* concurrency.py: "Caps simultaneous inference tasks at `limits.max_concurrent`".
InferenceCapped == Cardinality(running) <= MaxConcurrent

============================================================================
