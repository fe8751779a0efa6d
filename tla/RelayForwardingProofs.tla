----------------------- MODULE RelayForwardingProofs -----------------------
(* The pending tables of relay sessions hold exactly the calls under way,   *)
(* what consumers are told of a call's execution is true, and streams have  *)
(* no gaps.                                                                 *)
EXTENDS RelayForwarding, TLAPS

Starting == {"new", "found", "unrouted"}
Ended == {"returned", "raised"}

\* The part of the type invariant that the tables depend on.
CallTypes ==
  /\ binds \in Nat /\ bound \in 0..MaxBinds
  /\ thread \in [Calls -> Starting \cup {"waiting", "answered", "failed"}]
  /\ via \in [Calls -> 0..MaxBinds]
  /\ coro \in [Calls -> InCoroutine \cup Ended \cup {"none"}]
  /\ pending \in [Sessions -> SUBSET Calls]

\* A coroutine exists exactly once its thread has submitted it, and then the call
\* has a session.
CoroutineStarted ==
  \A c \in Calls :
    /\ thread[c] \in Starting <=> coro[c] = "none"
    /\ thread[c] \notin {"new", "unrouted"} => via[c] \in Sessions

TableInv == CallTypes /\ CoroutineStarted /\ PendingExact

LEMMA InitTable == Init => TableInv
<1> SUFFICES ASSUME Init PROVE TableInv
  OBVIOUS
<1> USE BindsAssumption DEF Init
<1>1. CallTypes
  BY DEF CallTypes, Starting, Ended, InCoroutine, Sessions
<1>2. CoroutineStarted
  BY DEF CoroutineStarted, Starting
<1>3. PendingExact
  BY DEF PendingExact, InCoroutine
<1> QED
  BY <1>1, <1>2, <1>3 DEF TableInv

\* A call that ends leaves the table of its session, and no other.
LEMMA EndsTable ==
  ASSUME TableInv, NEW c \in Calls, NEW how \in Ended, Ends(c, how),
         coro[c] \in InCoroutine,
         UNCHANGED <<binds, bound, via>>,
         thread' = thread \/ (thread[c] = "waiting" /\ thread' = [thread EXCEPT ![c] = "failed"])
  PROVE  TableInv'
<1> USE DEF TableInv
<1>1. thread[c] \notin Starting /\ via[c] \in Sessions
  BY DEF CoroutineStarted, CallTypes, Starting, InCoroutine
<1>2. CallTypes'
  BY <1>1 DEF CallTypes, Ends, Starting
<1>3. CoroutineStarted'
  BY <1>1 DEF CoroutineStarted, CallTypes, Ends, Ended, Starting, InCoroutine
<1>4. PendingExact'
  BY <1>1 DEF PendingExact, CallTypes, Ends, Ended, InCoroutine
<1> QED
  BY <1>2, <1>3, <1>4

\* Steps that leave the call's own variables alone.
LEMMA OtherTable ==
  ASSUME TableInv, UNCHANGED <<thread, via, coro, pending>>,
         binds' \in Nat, bound' \in 0..MaxBinds
  PROVE  TableInv'
BY DEF TableInv, CallTypes, CoroutineStarted, PendingExact

\* Steps of a call that change where its thread or its coroutine is.
LEMMA MoveTable ==
  ASSUME TableInv, NEW c \in Calls, UNCHANGED <<binds, bound, via, pending>>,
         \/ /\ coro[c] \in InCoroutine /\ UNCHANGED thread
            /\ \E at \in InCoroutine : coro' = [coro EXCEPT ![c] = at]
         \/ /\ thread[c] = "waiting" /\ UNCHANGED coro
            /\ \E at \in {"answered", "failed"} : thread' = [thread EXCEPT ![c] = at]
  PROVE  TableInv'
<1> USE DEF TableInv
<1>1. CallTypes'
  BY DEF CallTypes, Starting
<1>2. CoroutineStarted'
  BY DEF CoroutineStarted, CallTypes, Starting, InCoroutine
<1>3. PendingExact'
  BY DEF PendingExact, CallTypes, InCoroutine
<1> QED
  BY <1>1, <1>2, <1>3

LEMMA LookupTable ==
  ASSUME TableInv, NEW c \in Calls, Lookup(c)
  PROVE  TableInv'
<1> USE DEF TableInv, Lookup, sessionVars
<1>0. coro[c] = "none" /\ bound \in Nat
  BY BindsAssumption DEF CoroutineStarted, CallTypes, Starting
<1>1. CallTypes'
  BY DEF CallTypes, Starting
<1>2. CoroutineStarted'
  BY <1>0, BindsAssumption DEF CoroutineStarted, CallTypes, Starting, Sessions
<1>3. PendingExact'
  BY <1>0 DEF PendingExact, CallTypes, InCoroutine
<1> QED
  BY <1>1, <1>2, <1>3

LEMMA BeginTable ==
  ASSUME TableInv, NEW c \in Calls, Begin(c)
  PROVE  TableInv'
<1> USE DEF TableInv, Begin, sessionVars
<1>0. coro[c] = "none" /\ via[c] \in Sessions
  BY DEF CoroutineStarted, CallTypes, Starting
<1>1. CallTypes'
  BY <1>0 DEF CallTypes, Starting, InCoroutine
<1>2. CoroutineStarted'
  BY <1>0 DEF CoroutineStarted, CallTypes, Starting
<1>3. PendingExact'
  BY <1>0 DEF PendingExact, CallTypes, InCoroutine
<1> QED
  BY <1>1, <1>2, <1>3

LEMMA NextTable == TableInv /\ [Next]_vars => TableInv'
<1> SUFFICES ASSUME TableInv, [Next]_vars PROVE TableInv'
  OBVIOUS
<1> USE DEF sessionVars, callVars, answerVars, workerVars
<1>0. binds \in Nat /\ bound \in 0..MaxBinds /\ 0 \in 0..MaxBinds
  BY BindsAssumption DEF TableInv, CallTypes
<1>1. CASE Bind \/ WorkerDrops
  <2>1. binds' \in Nat /\ bound' \in 0..MaxBinds
    BY <1>0, <1>1, BindsAssumption DEF Bind, WorkerDrops
  <2> QED
    BY <1>1, <2>1, OtherTable DEF Bind, WorkerDrops
<1>2. ASSUME NEW s \in Sessions,
             \/ RelayDrops(s) \/ Finalize(s) \/ Poll(s) \/ Unbind(s) \/ Take(s) \/ Lose(s)
      PROVE  TableInv'
  BY <1>0, <1>2, OtherTable DEF RelayDrops, Finalize, Poll, Unbind, Take, Lose
<1>3. ASSUME NEW c \in Calls, Lookup(c) PROVE TableInv'
  BY <1>3, LookupTable
<1>4. ASSUME NEW c \in Calls, Thread(c) PROVE TableInv'
  <2>1. CASE Begin(c)
    BY <2>1, BeginTable
  <2>2. CASE Collect(c) \/ GiveUp(c)
    BY <2>2, MoveTable DEF Collect, GiveUp
  <2> QED
    BY <1>4, <2>1, <2>2 DEF Thread
<1>5. ASSUME NEW c \in Calls, Coroutine(c) PROVE TableInv'
  <2>1. CASE Write(c) \/ Drain(c)
    <3>1. CASE Ends(c, "raised")
      BY <2>1, <3>1, EndsTable DEF Write, Drain, Ended, InCoroutine
    <3>2. CASE ~Ends(c, "raised")
      BY <2>1, <3>2, MoveTable DEF Write, Drain, InCoroutine
    <3> QED
      BY <3>1, <3>2
  <2>2. CASE Return(c) \/ TimesOut(c)
    BY <2>2, EndsTable DEF Return, TimesOut, Ended, InCoroutine
  <2>3. CASE ReadEvent(c)
    <3>1. CASE Head(queue[c]).final
      <4> DEFINE how == IF Head(queue[c]).kind = "event" THEN "returned" ELSE "raised"
      <4>1. how \in Ended
        BY DEF Ended
      <4>2. Ends(c, how) /\ coro[c] \in InCoroutine /\ UNCHANGED <<binds, bound, via, thread>>
        BY <2>3, <3>1 DEF ReadEvent, InCoroutine
      <4> HIDE DEF how
      <4> QED
        BY <4>1, <4>2, EndsTable
    <3>2. CASE ~Head(queue[c]).final
      BY <1>0, <2>3, <3>2, OtherTable DEF ReadEvent
    <3> QED
      BY <3>1, <3>2
  <2> QED
    BY <1>5, <2>1, <2>2, <2>3 DEF Coroutine
<1>6. ASSUME NEW c \in Calls, Abandon(c) PROVE TableInv'
  BY <1>6, EndsTable DEF Abandon, Ended
<1>7. ASSUME NEW c \in Calls,
             \/ Respond(c) \/ SendEvent(c, TRUE) \/ SendEvent(c, FALSE)
             \/ (\E i \in 1..(MaxEvents + 2) : OnResponse(c, i)) \/ Unheard(c)
      PROVE  TableInv'
  BY <1>0, <1>7, OtherTable DEF Respond, SendEvent, OnResponse, Unheard
<1>8. CASE UNCHANGED vars
  BY <1>0, <1>8, OtherTable DEF vars
<1> QED
  BY <1>1, <1>2, <1>3, <1>4, <1>5, <1>6, <1>7, <1>8 DEF Next

\* For any calls, sessions and bounds: however a forwarded call ends (answer,
\* time-out, lost connection, closed generator), forward_task and forward_stream
\* leave no entry in the session's tables, and take none away before they end.
THEOREM PendingTablesExact == Spec => []PendingExact
<1>1. TableInv => PendingExact
  BY DEF TableInv
<1> QED
  BY <1>1, InitTable, NextTable, PTL DEF Spec

----------------------------------------------------------------------------
(* What the consumer is told.                                               *)

Unsent == {"none", "lock"}

RunTypes ==
  /\ down \in [Sessions -> Seq(Calls)]
  /\ executed \in [Calls -> Nat]
  /\ up = [c \in Calls |-> up[c]] /\ queue = [c \in Calls |-> queue[c]]

\* A call on its way to the worker was sent on that session, once, and has not
\* been started.
DownFresh ==
  \A s \in Sessions : \A i \in 1..Len(down[s]) :
    /\ via[down[s][i]] = s
    /\ coro[down[s][i]] \notin Unsent
    /\ executed[down[s][i]] = 0
    /\ \A j \in 1..Len(down[s]) : down[s][i] = down[s][j] => i = j

\* Whatever can become an answer comes from a call the worker started.
AnswersFromRuns ==
  \A c \in Calls :
    /\ executed[c] <= 1
    /\ coro[c] \in Unsent => executed[c] = 0
    /\ c \in handling \/ c \in fut \/ up[c] # <<>> \/ queue[c] # <<>> => executed[c] = 1
    /\ coro[c] = "returned" => executed[c] = 1
    /\ thread[c] = "answered" => coro[c] = "returned"

RunInv == TableInv /\ RunTypes /\ DownFresh /\ AnswersFromRuns

LEMMA InitRun == Init => RunInv
<1> SUFFICES ASSUME Init PROVE RunInv
  OBVIOUS
<1>1. TableInv
  BY InitTable
<1>2. RunTypes /\ DownFresh
  BY DEF Init, RunTypes, DownFresh
<1>3. AnswersFromRuns
  BY DEF Init, AnswersFromRuns
<1> QED
  BY <1>1, <1>2, <1>3 DEF RunInv

\* Steps that neither send nor start a call, and make no answer out of nothing.
LEMMA QuietRun ==
  ASSUME RunInv, TableInv', UNCHANGED <<down, executed, handling, up, via>>,
         queue' = [c \in Calls |-> queue'[c]],
         \A c \in Calls :
           /\ c \in fut' => executed[c] = 1
           /\ queue'[c] # <<>> => executed[c] = 1
           /\ coro'[c] \in Unsent => coro[c] \in Unsent
           /\ coro'[c] = "returned" => executed[c] = 1
           /\ thread'[c] = "answered" => coro'[c] = "returned"
  PROVE  RunInv'
<1> USE DEF RunInv
<1>1. RunTypes'
  BY DEF RunTypes
<1>2. DownFresh'
  <2> SUFFICES ASSUME NEW s \in Sessions, NEW i \in 1..Len(down[s])
               PROVE  coro'[down[s][i]] \notin Unsent
    BY DEF DownFresh
  <2>1. down[s][i] \in Calls
    BY DEF RunTypes
  <2> QED
    BY <2>1 DEF DownFresh
<1>3. AnswersFromRuns'
  BY DEF AnswersFromRuns
<1> QED
  BY <1>1, <1>2, <1>3

\* A call that ends, ends with an answer only if there was one.
LEMMA EndsRun ==
  ASSUME RunInv, TableInv', NEW c \in Calls, NEW how \in Ended, Ends(c, how),
         coro[c] \in InCoroutine,
         how = "returned" => c \in fut \/ queue[c] # <<>>,
         UNCHANGED <<via, workerVars>>,
         thread' = thread \/ thread' = [thread EXCEPT ![c] = "failed"]
  PROVE  RunInv'
<1> USE DEF RunInv
<1>1. how = "returned" => executed[c] = 1
  BY DEF AnswersFromRuns
<1>2. thread[c] # "answered"
  BY DEF AnswersFromRuns, InCoroutine
<1>3. queue' = [d \in Calls |-> queue'[d]]
  BY DEF Ends, RunTypes
<1>4. ASSUME NEW d \in Calls
      PROVE  /\ d \in fut' => executed[d] = 1
             /\ queue'[d] # <<>> => executed[d] = 1
             /\ coro'[d] \in Unsent => coro[d] \in Unsent
             /\ coro'[d] = "returned" => executed[d] = 1
             /\ thread'[d] = "answered" => coro'[d] = "returned"
  BY <1>1, <1>2 DEF Ends, Ended, Unsent, InCoroutine, AnswersFromRuns, RunTypes, TableInv, CallTypes
<1> QED
  BY <1>3, <1>4, QuietRun DEF workerVars

\* A call that is sent was not sent before.
LEMMA SendRun ==
  ASSUME RunInv, TableInv', NEW c \in Calls, via[c] \in Sessions,
         coro[c] \in Unsent, executed[c] = 0,
         down' = [down EXCEPT ![via[c]] = Append(@, c)],
         \E at \in {"drain", "await"} : coro' = [coro EXCEPT ![c] = at],
         thread' = thread \/ thread' = [thread EXCEPT ![c] = "waiting"],
         UNCHANGED <<via, executed, handling, up, answerVars>>
  PROVE  RunInv'
<1> USE DEF RunInv
<1>1. RunTypes'
  BY DEF RunTypes, answerVars
<1>2. \A s \in Sessions : \A i \in 1..Len(down[s]) : down[s][i] # c
  BY DEF DownFresh
<1>3. DownFresh'
  <2> SUFFICES ASSUME NEW s \in Sessions, NEW i \in 1..Len(down'[s])
               PROVE  /\ via[down'[s][i]] = s
                      /\ coro'[down'[s][i]] \notin Unsent
                      /\ executed[down'[s][i]] = 0
                      /\ \A j \in 1..Len(down'[s]) : down'[s][i] = down'[s][j] => i = j
    BY DEF DownFresh
  <2>0. down[s] \in Seq(Calls)
    BY DEF RunTypes
  <2>1. \A d \in Calls : coro[d] \notin Unsent => coro'[d] \notin Unsent
    BY DEF Unsent, TableInv, CallTypes
  <2>2. coro'[c] \notin Unsent
    BY DEF Unsent, TableInv, CallTypes
  <2>3. CASE s # via[c]
    <3>1. down'[s] = down[s]
      BY <2>3 DEF RunTypes
    <3>2. i \in 1..Len(down[s])
      BY <3>1
    <3>3. down[s][i] \in Calls
      BY <2>0, <3>2
    <3>4. coro'[down[s][i]] \notin Unsent
      BY <2>1, <3>2, <3>3 DEF DownFresh
    <3>5. via[down[s][i]] = s /\ executed[down[s][i]] = 0
      BY <3>2 DEF DownFresh
    <3>6. \A j \in 1..Len(down[s]) : down[s][i] = down[s][j] => i = j
      BY <3>2 DEF DownFresh
    <3> QED
      BY <3>1, <3>4, <3>5, <3>6
  <2>4. CASE s = via[c]
    <3>1. down'[s] = Append(down[s], c)
      BY <2>4 DEF RunTypes
    <3>2. Len(down'[s]) = Len(down[s]) + 1 /\ Len(down[s]) \in Nat
      BY <2>0, <3>1
    <3>3. \A k \in 1..Len(down[s]) : down'[s][k] = down[s][k] /\ down[s][k] \in Calls
      BY <2>0, <3>1
    <3>4. down'[s][Len(down[s]) + 1] = c
      BY <2>0, <3>1
    <3>5. 1..Len(down'[s]) = 1..Len(down[s]) \cup {Len(down[s]) + 1}
      BY <3>2
    <3>6. \A k \in 1..Len(down[s]) : down'[s][k] # c /\ k # Len(down[s]) + 1
      BY <1>2, <3>2, <3>3
    <3>7. CASE i = Len(down[s]) + 1
      <4>1. \A j \in 1..Len(down'[s]) : down'[s][j] = c => i = j
        BY <3>5, <3>6, <3>7
      <4>2. down'[s][i] = c
        BY <3>4, <3>7
      <4> QED
        BY <2>2, <2>4, <4>1, <4>2
    <3>8. CASE i \in 1..Len(down[s])
      <4>1. down'[s][i] = down[s][i] /\ down[s][i] \in Calls
        BY <3>3, <3>8
      <4>2. via[down[s][i]] = s /\ coro[down[s][i]] \notin Unsent /\ executed[down[s][i]] = 0
        BY <3>8 DEF DownFresh
      <4>3. ASSUME NEW j \in 1..Len(down'[s]), down'[s][i] = down'[s][j] PROVE i = j
        <5>1. j # Len(down[s]) + 1
          BY <3>4, <3>6, <3>8, <4>3
        <5>2. j \in 1..Len(down[s]) /\ down[s][i] = down[s][j]
          BY <3>3, <3>5, <3>8, <4>3, <5>1
        <5> QED
          BY <3>8, <5>2 DEF DownFresh
      <4> QED
        BY <2>1, <4>1, <4>2, <4>3
    <3> QED
      BY <3>5, <3>7, <3>8
  <2> QED
    BY <2>3, <2>4
<1>4. AnswersFromRuns'
  BY DEF AnswersFromRuns, answerVars, TableInv, CallTypes, Unsent
<1> QED
  BY <1>1, <1>3, <1>4

\* A call that leaves a session's queue has no second copy in it.
LEMMA TakeRun ==
  ASSUME RunInv, TableInv', NEW s \in Sessions, Take(s)
  PROVE  RunInv'
<1> USE DEF RunInv
<1> DEFINE c == Head(down[s])
<1>0. down[s] \in Seq(Calls) /\ down[s] # <<>>
  BY DEF RunTypes, Take
<1>1. c \in Calls /\ c = down[s][1] /\ Len(down[s]) \in Nat \ {0}
  BY <1>0
<1>2. executed[c] = 0 /\ via[c] = s /\ coro[c] \notin Unsent
  BY <1>1 DEF DownFresh
<1>3. down' = [down EXCEPT ![s] = Tail(@)] /\ executed' = [executed EXCEPT ![c] = @ + 1]
  BY DEF Take
<1>4. UNCHANGED <<thread, via, coro, fut, queue, up>> /\ handling' = handling \cup {c}
  BY DEF Take, callVars, answerVars
<1> HIDE DEF c
<1>5. RunTypes'
  BY <1>0, <1>1, <1>3, <1>4 DEF RunTypes
<1>6. DownFresh'
  <2> SUFFICES ASSUME NEW r \in Sessions, NEW i \in 1..Len(down'[r])
               PROVE  /\ via[down'[r][i]] = r
                      /\ coro[down'[r][i]] \notin Unsent
                      /\ executed'[down'[r][i]] = 0
                      /\ \A j \in 1..Len(down'[r]) : down'[r][i] = down'[r][j] => i = j
    BY <1>4 DEF DownFresh
  <2>1. CASE r # s
    <3>1. down'[r] = down[r] /\ down[r] \in Seq(Calls)
      BY <1>3, <2>1 DEF RunTypes
    <3>2. down[r][i] \in Calls /\ via[down[r][i]] = r
      BY <3>1 DEF DownFresh
    <3>3. executed'[down[r][i]] = executed[down[r][i]]
      BY <1>2, <1>3, <2>1, <3>2 DEF RunTypes
    <3> QED
      BY <3>1, <3>3 DEF DownFresh
  <2>2. CASE r = s
    <3>1. down'[s] = Tail(down[s])
      BY <1>3 DEF RunTypes
    <3>2. Len(down'[s]) = Len(down[s]) - 1
      BY <1>0, <3>1
    <3>3. \A k \in 1..Len(down'[s]) :
            /\ down'[s][k] = down[s][k + 1] /\ k + 1 \in 1..Len(down[s])
            /\ down[s][k + 1] \in Calls
      BY <1>0, <1>1, <3>1, <3>2
    <3>4. \A k \in 1..Len(down'[s]) : down[s][k + 1] # c
      BY <1>1, <3>2, <3>3 DEF DownFresh
    <3>5. executed'[down[s][i + 1]] = executed[down[s][i + 1]]
      BY <1>3, <2>2, <3>3, <3>4 DEF RunTypes
    <3>6. \A j \in 1..Len(down'[s]) : down[s][i + 1] = down[s][j + 1] => i = j
      BY <1>1, <2>2, <3>2, <3>3 DEF DownFresh
    <3> QED
      BY <2>2, <3>3, <3>5, <3>6 DEF DownFresh
  <2> QED
    BY <2>1, <2>2
<1>7. AnswersFromRuns'
  <2> SUFFICES ASSUME NEW d \in Calls PROVE
        /\ executed'[d] <= 1
        /\ coro[d] \in Unsent => executed'[d] = 0
        /\ d \in handling' \/ d \in fut \/ up[d] # <<>> \/ queue[d] # <<>> => executed'[d] = 1
        /\ coro[d] = "returned" => executed'[d] = 1
        /\ thread[d] = "answered" => coro[d] = "returned"
    BY <1>4 DEF AnswersFromRuns
  <2>1. CASE d = c
    <3>1. executed'[d] = 1
      BY <1>1, <1>2, <1>3, <2>1 DEF RunTypes
    <3> QED
      BY <1>2, <2>1, <3>1 DEF AnswersFromRuns
  <2>2. CASE d # c
    BY <1>3, <1>4, <2>2 DEF AnswersFromRuns, RunTypes
  <2> QED
    BY <2>1, <2>2
<1> QED
  BY <1>5, <1>6, <1>7

\* Losing calls keeps the others fresh.
LEMMA LoseRun ==
  ASSUME RunInv, TableInv', NEW s \in Sessions, Lose(s)
  PROVE  RunInv'
<1> USE DEF RunInv
<1>0. down[s] \in Seq(Calls) /\ down[s] # <<>>
  BY DEF RunTypes, Lose
<1>1. \E q \in {Tail(down[s]), <<>>} : down' = [down EXCEPT ![s] = q]
  BY DEF Lose
<1>2. UNCHANGED <<thread, via, coro, fut, queue, handling, up, executed>>
  BY DEF Lose, callVars, answerVars
<1>3. RunTypes'
  <2>1. Tail(down[s]) \in Seq(Calls) /\ <<>> \in Seq(Calls)
    BY <1>0
  <2>2. down' \in [Sessions -> Seq(Calls)]
    BY <1>1, <2>1 DEF RunTypes
  <2> QED
    BY <1>2, <2>2 DEF RunTypes
<1>4. DownFresh'
  <2> SUFFICES ASSUME NEW r \in Sessions, NEW i \in 1..Len(down'[r])
               PROVE  /\ via[down'[r][i]] = r
                      /\ coro[down'[r][i]] \notin Unsent
                      /\ executed[down'[r][i]] = 0
                      /\ \A j \in 1..Len(down'[r]) : down'[r][i] = down'[r][j] => i = j
    BY <1>2 DEF DownFresh
  <2>1. CASE down'[r] = down[r]
    BY <2>1 DEF DownFresh
  <2>2. CASE r = s /\ down'[s] = Tail(down[s])
    <3>1. Len(down'[s]) = Len(down[s]) - 1 /\ Len(down[s]) \in Nat
      BY <1>0, <2>2
    <3>2. \A k \in 1..Len(down'[s]) :
            down'[s][k] = down[s][k + 1] /\ k + 1 \in 1..Len(down[s])
      BY <1>0, <2>2, <3>1
    <3>3. \A j \in 1..Len(down'[s]) : down[s][i + 1] = down[s][j + 1] => i = j
      BY <2>2, <3>1, <3>2 DEF DownFresh
    <3> QED
      BY <2>2, <3>2, <3>3 DEF DownFresh
  <2>3. CASE r = s /\ down'[s] = <<>>
    BY <2>3
  <2>4. PICK q \in {Tail(down[s]), <<>>} : down' = [down EXCEPT ![s] = q]
    BY <1>1
  <2>5. down'[r] = down[r] \/ (r = s /\ down'[s] = q)
    BY <2>4 DEF RunTypes
  <2> QED
    BY <2>1, <2>2, <2>3, <2>5
<1>5. AnswersFromRuns'
  BY <1>2 DEF AnswersFromRuns
<1> QED
  BY <1>3, <1>4, <1>5

\* Answers on their way come from the call the worker handles.
LEMMA AnswerRun ==
  ASSUME RunInv, TableInv', NEW c \in Calls,
         UNCHANGED <<callVars, down, executed>>,
         handling' \subseteq handling,
         \A d \in Calls : d # c => up'[d] = up[d] /\ queue'[d] = queue[d]
                                   /\ (d \in fut' => d \in fut),
         up' = [d \in Calls |-> up'[d]], queue' = [d \in Calls |-> queue'[d]],
         c \in handling \/ up[c] # <<>>
  PROVE  RunInv'
<1> USE DEF RunInv, callVars
<1>1. executed[c] = 1
  BY DEF AnswersFromRuns
<1>2. RunTypes'
  BY DEF RunTypes
<1>3. DownFresh'
  BY DEF DownFresh
<1>4. AnswersFromRuns'
  BY <1>1 DEF AnswersFromRuns
<1> QED
  BY <1>2, <1>3, <1>4

LEMMA LookupRun ==
  ASSUME RunInv, TableInv', NEW c \in Calls, Lookup(c)
  PROVE  RunInv'
<1> USE DEF RunInv, Lookup, answerVars, workerVars
<1>0. coro[c] = "none" /\ coro[c] \in Unsent
  BY DEF TableInv, CoroutineStarted, CallTypes, Starting, Unsent
<1>1. RunTypes'
  BY DEF RunTypes
<1>2. DownFresh'
  <2>1. \A s \in Sessions : \A i \in 1..Len(down[s]) : down[s][i] \in Calls
    BY DEF RunTypes
  <2>2. \A s \in Sessions : \A i \in 1..Len(down[s]) : down[s][i] # c
    BY <1>0 DEF DownFresh
  <2>3. \A d \in Calls \ {c} : via'[d] = via[d]
    BY DEF TableInv, CallTypes
  <2>4. UNCHANGED <<down, coro, executed>>
    BY DEF sessionVars
  <2> QED
    BY <2>1, <2>2, <2>3, <2>4 DEF DownFresh
<1>3. AnswersFromRuns'
  BY <1>0 DEF AnswersFromRuns, TableInv, CallTypes
<1> QED
  BY <1>1, <1>2, <1>3

LEMMA NextRun == RunInv /\ [Next]_vars => RunInv'
<1> SUFFICES ASSUME RunInv, [Next]_vars PROVE RunInv'
  OBVIOUS
<1>0. TableInv'
  BY NextTable DEF RunInv
<1> USE <1>0
<1>q. \A c \in Calls :
        /\ c \in fut => executed[c] = 1
        /\ queue[c] # <<>> => executed[c] = 1
        /\ coro[c] = "returned" => executed[c] = 1
        /\ thread[c] = "answered" => coro[c] = "returned"
  BY DEF RunInv, AnswersFromRuns
<1>f. queue = [c \in Calls |-> queue[c]]
  BY DEF RunInv, RunTypes
<1>t. TableInv /\ CallTypes
  BY DEF RunInv, TableInv
<1>1. CASE UNCHANGED <<callVars, answerVars, workerVars>>
  BY <1>1, <1>q, <1>f, QuietRun DEF callVars, answerVars, workerVars
<1>2. CASE Bind \/ WorkerDrops
  BY <1>1, <1>2 DEF Bind, WorkerDrops
<1>3. ASSUME NEW s \in Sessions, RelayDrops(s) \/ Finalize(s) \/ Poll(s) \/ Unbind(s)
      PROVE  RunInv'
  BY <1>1, <1>3 DEF RelayDrops, Finalize, Poll, Unbind
<1>4. ASSUME NEW s \in Sessions, Take(s) PROVE RunInv'
  BY <1>4, TakeRun
<1>5. ASSUME NEW s \in Sessions, Lose(s) PROVE RunInv'
  BY <1>5, LoseRun
<1>6. ASSUME NEW c \in Calls, Lookup(c) PROVE RunInv'
  BY <1>6, LookupRun
<1>7. ASSUME NEW c \in Calls, Begin(c) PROVE RunInv'
  <2>1. coro[c] \in Unsent /\ via[c] \in Sessions /\ executed[c] = 0
    BY <1>7, <1>t DEF Begin, TableInv, CoroutineStarted, Starting, Unsent, RunInv, AnswersFromRuns
  <2>2. CASE via[c] \in HttpBinds
    BY <1>7, <2>1, <2>2, SendRun DEF Begin
  <2>3. CASE via[c] \notin HttpBinds
    BY <1>7, <2>1, <2>3, <1>q, <1>f, <1>t, QuietRun DEF Begin, answerVars, CallTypes, Unsent
  <2> QED
    BY <2>2, <2>3
<1>8. ASSUME NEW c \in Calls, Collect(c) \/ GiveUp(c) PROVE RunInv'
  BY <1>8, <1>q, <1>f, <1>t, QuietRun
     DEF Collect, GiveUp, answerVars, workerVars, CallTypes
<1>9. ASSUME NEW c \in Calls, Write(c) PROVE RunInv'
  <2>1. CASE Ends(c, "raised") /\ UNCHANGED down
    BY <1>9, <2>1, EndsRun DEF Write, Ended, InCoroutine, workerVars
  <2>2. CASE ~(Ends(c, "raised") /\ UNCHANGED down)
    <3>1. coro[c] \in Unsent /\ coro[c] = "lock"
      BY <1>9 DEF Write, Unsent
    <3>2. via[c] \in Sessions /\ executed[c] = 0
      BY <1>t, <3>1 DEF TableInv, CoroutineStarted, Starting, RunInv, AnswersFromRuns
    <3> QED
      BY <1>9, <2>2, <3>1, <3>2, SendRun DEF Write
  <2> QED
    BY <2>1, <2>2
<1>10. ASSUME NEW c \in Calls, Drain(c) PROVE RunInv'
  <2>1. CASE Ends(c, "raised")
    BY <1>10, <2>1, EndsRun DEF Drain, Ended, InCoroutine
  <2>2. CASE ~Ends(c, "raised")
    BY <1>10, <2>2, <1>q, <1>f, <1>t, QuietRun DEF Drain, answerVars, workerVars, CallTypes, Unsent
  <2> QED
    BY <2>1, <2>2
<1>11. ASSUME NEW c \in Calls, Return(c) \/ TimesOut(c) PROVE RunInv'
  BY <1>11, EndsRun DEF Return, TimesOut, Ended, InCoroutine
<1>12. ASSUME NEW c \in Calls, ReadEvent(c) PROVE RunInv'
  <2>1. CASE Head(queue[c]).final
    <3> DEFINE how == IF Head(queue[c]).kind = "event" THEN "returned" ELSE "raised"
    <3>1. how \in Ended
      BY DEF Ended
    <3>2. /\ Ends(c, how) /\ coro[c] \in InCoroutine /\ queue[c] # <<>>
          /\ UNCHANGED <<via, thread, workerVars>>
      BY <1>12, <2>1 DEF ReadEvent, InCoroutine
    <3> HIDE DEF how
    <3> QED
      BY <3>1, <3>2, EndsRun
  <2>2. CASE ~Head(queue[c]).final
    <3>1. queue[c] # <<>> /\ queue' = [queue EXCEPT ![c] = Tail(@)]
      BY <1>12, <2>2 DEF ReadEvent
    <3>2. queue' = [d \in Calls |-> queue'[d]]
      BY <1>f, <3>1
    <3>3. \A d \in Calls : queue'[d] # <<>> => executed[d] = 1
      BY <1>q, <1>f, <3>1
    <3>4. UNCHANGED <<thread, via, coro, fut, down, executed, handling, up>>
      BY <1>12, <2>2 DEF ReadEvent, workerVars
    <3> QED
      BY <1>q, <3>2, <3>3, <3>4, QuietRun
  <2> QED
    BY <2>1, <2>2
<1>13. ASSUME NEW c \in Calls, Abandon(c) PROVE RunInv'
  BY <1>13, EndsRun DEF Abandon, Ended
<1>14. ASSUME NEW c \in Calls,
              Respond(c) \/ SendEvent(c, TRUE) \/ SendEvent(c, FALSE) \/ Unheard(c)
       PROVE  RunInv'
  BY <1>14, AnswerRun DEF Respond, SendEvent, Unheard, answerVars, RunInv, RunTypes
<1>15. ASSUME NEW c \in Calls, NEW i \in 1..(MaxEvents + 2), OnResponse(c, i)
       PROVE  RunInv'
  <2>1. up[c] # <<>> /\ UNCHANGED <<callVars, down, executed, handling>>
    BY <1>15 DEF OnResponse
  <2>2. up' = [up EXCEPT ![c] = RemoveAt(@, i)]
    BY <1>15 DEF OnResponse
  <2>3. queue' = queue \/ \E q : queue' = [queue EXCEPT ![c] = q]
    BY <1>15 DEF OnResponse, AcceptEvent, answerVars
  <2>4. \A d \in Calls : d # c /\ d \in fut' => d \in fut
    BY <1>15 DEF OnResponse, answerVars
  <2>5. up' = [d \in Calls |-> up'[d]] /\ \A d \in Calls : d # c => up'[d] = up[d]
    BY <2>2 DEF RunInv, RunTypes
  <2>6. queue' = [d \in Calls |-> queue'[d]] /\ \A d \in Calls : d # c => queue'[d] = queue[d]
    BY <1>f, <2>3
  <2> QED
    BY <2>1, <2>4, <2>5, <2>6, AnswerRun
<1>16. CASE UNCHANGED vars
  BY <1>1, <1>16 DEF vars
<1> QED
  BY <1>2, <1>3, <1>4, <1>5, <1>6, <1>7, <1>8, <1>9, <1>10, <1>11, <1>12, <1>13,
     <1>14, <1>15, <1>16 DEF Next, Thread, Coroutine

\* For any calls, sessions and bounds: no forwarded call is started twice, a
\* consumer with an answer had its task run, and one turned away (404) had not,
\* whatever was lost, rebound or given up between relay and worker.
THEOREM ConsumersToldTruth == Spec => []ToldTruth
<1>1. RunInv => ToldTruth
  BY DEF RunInv, TableInv, CallTypes, CoroutineStarted, AnswersFromRuns, ToldTruth,
         Starting, Unsent
<1> QED
  BY <1>1, InitRun, NextRun, PTL DEF Spec

----------------------------------------------------------------------------
(* Streams.                                                                 *)

\* What travels up, waits in a queue or has been given to a consumer.
Answers == [kind : {"result", "event", "error"}, seq : Nat, final : BOOLEAN]

\* The types of the answers' places.
AnswerTypes ==
  /\ up \in [Calls -> Seq(Answers)] /\ queue \in [Calls -> Seq(Answers)]
  /\ got \in [Calls -> Seq(Answers)]
  /\ expects \in [Calls -> Int] /\ sent \in [Calls -> Nat]

\* The queue goes on where the consumer is, up to the event that is expected next, or an
\* error is in front of whatever follows.
QueueOk(q, g, e) ==
  \/ q # <<>> /\ q[1] = Failure
  \/ /\ \A i \in 1..Len(q) : /\ q[i].kind = "event" /\ q[i].seq = Len(g) + i - 1
                             /\ q[i].final => i = Len(q)
     /\ e = IF q # <<>> /\ q[Len(q)].final THEN -1 ELSE Len(g) + Len(q)

\* StreamGapFree of one stream.
GotOk(g, how) ==
  /\ \A i \in 1..Len(g) : g[i].seq = i - 1 /\ (g[i].final => i = Len(g))
  /\ how = "returned" <=> g # <<>> /\ g[Len(g)].final

\* Of a stream that has ended only what its consumer was given counts.
StreamOk(q, g, e, how) == GotOk(g, how) /\ (how \notin Ended => QueueOk(q, g, e))

\* All streams are in order.
StreamInv ==
  /\ AnswerTypes
  /\ \A c \in Streams : StreamOk(queue[c], got[c], expects[c], coro[c])

\* on_stream_response: an event in order goes to the end of the queue, and an error takes
\* the place of the events otherwise.
LEMMA AcceptKeeps ==
  ASSUME NEW q \in Seq(Answers), NEW g \in Seq(Answers), NEW e \in Int, QueueOk(q, g, e),
         NEW event \in Answers, event.kind = "event"
  PROVE  /\ \A d : QueueOk(<<Failure>>, g, d)
         /\ event.seq = e => QueueOk(Append(q, event), g, IF event.final THEN -1 ELSE e + 1)
<1>1. \A d : QueueOk(<<Failure>>, g, d)
  BY DEF QueueOk
<1>2. ASSUME event.seq = e
      PROVE  QueueOk(Append(q, event), g, IF event.final THEN -1 ELSE e + 1)
  <2>1. /\ Append(q, event) # <<>> /\ Len(Append(q, event)) = Len(q) + 1
        /\ \A i \in 1..Len(q) : Append(q, event)[i] = q[i]
        /\ Append(q, event)[Len(q) + 1] = event /\ Len(q) \in Nat /\ Len(g) \in Nat
    OBVIOUS
  <2>2. CASE q # <<>> /\ q[1] = Failure
    BY <2>1, <2>2 DEF QueueOk
  <2>3. CASE ~(q # <<>> /\ q[1] = Failure)
    <3>1. /\ \A i \in 1..Len(q) : /\ q[i].kind = "event" /\ q[i].seq = Len(g) + i - 1
                                  /\ q[i].final => i = Len(q)
          /\ e = IF q # <<>> /\ q[Len(q)].final THEN -1 ELSE Len(g) + Len(q)
      BY <2>3 DEF QueueOk
    <3>2. event.seq \in Nat /\ event.final \in BOOLEAN
      BY DEF Answers
    <3>3. e = Len(g) + Len(q) /\ ~(q # <<>> /\ q[Len(q)].final)
      BY <1>2, <3>1, <3>2
    <3>4. \A i \in 1..Len(q) : ~q[i].final
      BY <2>1, <3>1, <3>3
    <3> DEFINE p == Append(q, event)
    <3>5. \A i \in 1..Len(p) : /\ p[i].kind = "event" /\ p[i].seq = Len(g) + i - 1
                               /\ p[i].final => i = Len(p)
      <4> TAKE i \in 1..Len(p)
      <4>1. CASE i \in 1..Len(q)
        BY <2>1, <3>1, <3>4, <4>1
      <4>2. CASE i = Len(q) + 1
        BY <1>2, <2>1, <3>3, <4>2
      <4> QED BY <2>1, <4>1, <4>2
    <3>6. p # <<>> /\ p[Len(p)] = event /\ Len(p) = Len(q) + 1
      BY <2>1
    <3> HIDE DEF p
    <3>7. CASE event.final
      BY <3>5, <3>6, <3>7 DEF QueueOk, p
    <3>8. CASE ~event.final
      <4>1. e + 1 = Len(g) + Len(p)
        BY <2>1, <3>3, <3>6
      <4> QED BY <3>5, <3>6, <3>8, <4>1 DEF QueueOk, p
    <3> QED BY <3>7, <3>8
  <2> QED BY <2>2, <2>3
<1> QED BY <1>1, <1>2

\* Only the empty sequence has no element.
LEMMA EmptyLength ==
  ASSUME NEW S, NEW s \in Seq(S)
  PROVE  s = <<>> <=> Len(s) = 0
OBVIOUS

\* forward_stream takes an item: what the consumer has grows by the next event, or the
\* stream ends with an error.
LEMMA ReadKeeps ==
  ASSUME NEW q \in Seq(Answers), NEW g \in Seq(Answers), NEW e \in Int, q # <<>>,
         StreamOk(q, g, e, "await")
  PROVE  LET item == Head(q)
         IN  /\ item.kind # "event" => item.final /\ GotOk(g, "raised")
             /\ item.kind = "event" /\ item.final => GotOk(Append(g, item), "returned")
             /\ item.kind = "event" /\ ~item.final => StreamOk(Tail(q), Append(g, item), e, "await")
<1> DEFINE item == Head(q)
           p == Append(g, item)
           t == Tail(q)
<1>1. /\ item = q[1] /\ item \in Answers /\ Len(q) \in Nat /\ 1 \in 1..Len(q) /\ Len(g) \in Nat
      /\ p # <<>> /\ Len(p) = Len(g) + 1 /\ p[Len(g) + 1] = item
      /\ \A i \in 1..Len(g) : p[i] = g[i]
      /\ Len(t) = Len(q) - 1 /\ (t = <<>> <=> Len(q) = 1)
      /\ \A i \in 1..Len(t) : t[i] = q[i + 1]
  <2>1. item = q[1] /\ item \in Answers /\ Len(q) \in Nat /\ 1 \in 1..Len(q) /\ Len(g) \in Nat
    OBVIOUS
  <2>2. t \in Seq(Answers) /\ Len(t) = Len(q) - 1 /\ \A i \in 1..Len(t) : t[i] = q[i + 1]
    OBVIOUS
  <2> HIDE DEF item, t
  <2>3. t = <<>> <=> Len(q) = 1
    BY <2>1, <2>2, EmptyLength
  <2>4. /\ p # <<>> /\ Len(p) = Len(g) + 1 /\ p[Len(g) + 1] = item
        /\ \A i \in 1..Len(g) : p[i] = g[i]
    BY <2>1
  <2> QED BY <2>1, <2>2, <2>3, <2>4
<1>2. GotOk(g, "await") /\ QueueOk(q, g, e) /\ item.final \in BOOLEAN
  BY <1>1 DEF StreamOk, Ended, Answers
<1>3. /\ \A i \in 1..Len(g) : g[i].seq = i - 1 /\ ~g[i].final
      /\ ~(g # <<>> /\ g[Len(g)].final)
  <2>1. g = <<>> <=> Len(g) = 0
    BY EmptyLength
  <2>2. /\ ~(g # <<>> /\ g[Len(g)].final)
        /\ \A i \in 1..Len(g) : g[i].seq = i - 1 /\ (g[i].final => i = Len(g))
    BY <1>2 DEF GotOk
  <2>3. ASSUME NEW i \in 1..Len(g), g[i].final PROVE FALSE
    <3>1. i = Len(g) /\ Len(g) # 0
      BY <1>1, <2>2, <2>3
    <3> QED BY <2>1, <2>2, <2>3, <3>1
  <2> QED BY <2>2, <2>3
<1>4. item.kind = "event" => /\ \A i \in 1..Len(q) : /\ q[i].kind = "event" /\ q[i].seq = Len(g) + i - 1
                                                     /\ q[i].final => i = Len(q)
                             /\ e = IF q # <<>> /\ q[Len(q)].final THEN -1 ELSE Len(g) + Len(q)
  <2>1. item.kind = "event" => q[1] # Failure
    BY <1>1 DEF Failure
  <2> HIDE DEF item
  <2>2. item.kind = "event" => q # <<>> /\ q[1] # Failure /\ QueueOk(q, g, e)
    BY <1>1, <1>2, <2>1
  <2> QED BY <2>2 DEF QueueOk
<1>5. ASSUME item.kind # "event" PROVE item.final /\ GotOk(g, "raised")
  <2>1. item = Failure
    BY <1>1, <1>2, <1>5 DEF QueueOk
  <2> QED BY <1>3, <2>1 DEF Failure, GotOk
<1> HIDE DEF item, p, t
<1>6. ASSUME item.kind = "event"
      PROVE  \A i \in 1..Len(p) : p[i].seq = i - 1 /\ (p[i].final => i = Len(p))
  <2> TAKE i \in 1..Len(p)
  <2>1. item.seq = Len(g)
    <3>1. q[1].seq = Len(g) + 1 - 1
      BY <1>1, <1>4, <1>6
    <3> QED BY <1>1, <3>1
  <2>2. CASE i \in 1..Len(g)
    BY <1>1, <1>3, <2>2
  <2>3. CASE i = Len(g) + 1
    BY <1>1, <2>1, <2>3
  <2> QED BY <1>1, <2>2, <2>3
<1>7. ASSUME item.kind = "event", item.final PROVE GotOk(p, "returned")
  BY <1>1, <1>6, <1>7 DEF GotOk
<1>8. ASSUME item.kind = "event", ~item.final PROVE StreamOk(t, p, e, "await")
  <2>1. GotOk(p, "await")
    BY <1>1, <1>6, <1>8 DEF GotOk
  <2>2. \A i \in 1..Len(t) : /\ t[i].kind = "event" /\ t[i].seq = Len(p) + i - 1
                             /\ t[i].final => i = Len(t)
    <3> TAKE i \in 1..Len(t)
    <3>1. i + 1 \in 1..Len(q) /\ t[i] = q[i + 1]
      BY <1>1
    <3> QED BY <1>1, <1>4, <1>8, <3>1
  <2>3. e = IF t # <<>> /\ t[Len(t)].final THEN -1 ELSE Len(p) + Len(t)
    <3>1. CASE Len(q) = 1
      <4>1. q[Len(q)] = item /\ t = <<>> /\ Len(t) = 0
        BY <1>1, <3>1
      <4>2. e = Len(g) + Len(q)
        BY <1>4, <1>8, <4>1
      <4> QED BY <1>1, <3>1, <4>1, <4>2
    <3>2. CASE Len(q) # 1
      <4>1. t # <<>> /\ Len(t) \in 1..Len(t) /\ t[Len(t)] = q[Len(q)]
        BY <1>1, <3>2
      <4>2. Len(p) + Len(t) = Len(g) + Len(q)
        BY <1>1
      <4>3. CASE q[Len(q)].final
        BY <1>4, <1>8, <4>1, <4>3
      <4>4. CASE ~q[Len(q)].final
        BY <1>4, <1>8, <4>1, <4>2, <4>4
      <4> QED BY <4>3, <4>4
    <3> QED BY <3>1, <3>2
  <2>4. QueueOk(t, p, e)
    BY <2>2, <2>3 DEF QueueOk
  <2> QED BY <2>1, <2>4 DEF StreamOk
<1> QED BY <1>5, <1>7, <1>8 DEF item, p, t

\* Taking an answer out of those under way leaves answers.
LEMMA RemoveAtType ==
  ASSUME NEW S, NEW s \in Seq(S), NEW i \in 1..Len(s)
  PROVE  RemoveAt(s, i) \in Seq(S)
<1>1. SubSeq(s, 1, i - 1) \in Seq(S) /\ SubSeq(s, i + 1, Len(s)) \in Seq(S)
  OBVIOUS
<1> QED BY <1>1 DEF RemoveAt

\* A call that ends without a terminal event has not been given one.
LEMMA EndsStream ==
  ASSUME StreamInv, NEW c \in Calls, NEW how, how \in Ended, Ends(c, how), CallTypes,
         UNCHANGED <<up, sent>>, got' \in [Calls -> Seq(Answers)],
         \A d \in Calls \ {c} : got'[d] = got[d],
         c \in Streams => GotOk(got'[c], how)
  PROVE  StreamInv'
<1>1. AnswerTypes'
  <2>1. <<>> \in Seq(Answers) /\ 0 \in Int
    OBVIOUS
  <2>2. queue' = [queue EXCEPT ![c] = <<>>] /\ expects' = [expects EXCEPT ![c] = 0]
    BY DEF Ends
  <2>3. queue' \in [Calls -> Seq(Answers)] /\ expects' \in [Calls -> Int]
    BY <2>1, <2>2 DEF StreamInv, AnswerTypes
  <2> QED BY <2>3 DEF StreamInv, AnswerTypes
<1>2. \A d \in Calls \ {c} : /\ queue'[d] = queue[d] /\ expects'[d] = expects[d]
                             /\ coro'[d] = coro[d]
  BY DEF StreamInv, AnswerTypes, Ends, CallTypes
<1>3. coro'[c] = how
  BY DEF Ends, CallTypes
<1>4. ASSUME NEW d \in Streams PROVE StreamOk(queue'[d], got'[d], expects'[d], coro'[d])
  <2>1. d \in Calls
    BY CallsAssumption
  <2>2. CASE d = c
    BY <1>3, <2>2 DEF StreamOk
  <2>3. CASE d # c
    BY <1>2, <2>1, <2>3 DEF StreamInv
  <2> QED BY <2>2, <2>3
<1> QED BY <1>1, <1>4 DEF StreamInv

\* Steps of coroutines that neither end nor begin to read, and of the session.
LEMMA QuietStream ==
  ASSUME StreamInv, UNCHANGED <<answerVars, got>>, up' \in [Calls -> Seq(Answers)],
         sent' \in [Calls -> Nat],
         \A c \in Streams : coro'[c] = coro[c] \/ (coro[c] \notin Ended /\ coro'[c] \notin Ended)
  PROVE  StreamInv'
<1>1. AnswerTypes'
  BY DEF StreamInv, AnswerTypes, answerVars
<1>2. ASSUME NEW c \in Streams PROVE StreamOk(queue[c], got[c], expects[c], coro'[c])
  BY DEF StreamInv, StreamOk, GotOk, Ended
<1> QED BY <1>1, <1>2 DEF StreamInv, answerVars

\* No step puts a hole into what a stream's consumer is given.
LEMMA NextStream == StreamInv /\ RunInv /\ [Next]_vars => StreamInv'
<1> SUFFICES ASSUME StreamInv, RunInv, [Next]_vars PROVE StreamInv'
  OBVIOUS
<1>t. TableInv /\ CallTypes /\ AnswerTypes /\ Streams \subseteq Calls
  BY CallsAssumption DEF RunInv, TableInv, StreamInv
<1>g. \A c \in Streams : coro[c] \notin Ended => GotOk(got[c], "raised")
  BY DEF StreamInv, StreamOk, GotOk, Ended
<1>1. CASE UNCHANGED <<answerVars, got, up, sent, coro>>
  BY <1>1, <1>t, QuietStream DEF AnswerTypes
<1>2. CASE Bind \/ WorkerDrops
  BY <1>1, <1>2 DEF Bind, WorkerDrops, callVars, workerVars
<1>3. ASSUME NEW s \in Sessions, RelayDrops(s) \/ Finalize(s) \/ Poll(s) \/ Unbind(s)
      PROVE  StreamInv'
  BY <1>1, <1>3 DEF RelayDrops, Finalize, Poll, Unbind, callVars, workerVars
<1>4. ASSUME NEW s \in Sessions, Take(s) \/ Lose(s) PROVE StreamInv'
  BY <1>1, <1>4 DEF Take, Lose, callVars
<1>5. ASSUME NEW c \in Calls, Lookup(c) \/ Collect(c) \/ GiveUp(c) PROVE StreamInv'
  BY <1>1, <1>5 DEF Lookup, Collect, GiveUp, workerVars
<1>6. ASSUME NEW c \in Calls, Begin(c) PROVE StreamInv'
  <2>1. coro[c] = "none"
    BY <1>6, <1>t DEF Begin, TableInv, CoroutineStarted, Starting
  <2>2. coro'[c] \notin Ended /\ \A d \in Calls \ {c} : coro'[d] = coro[d]
    BY <1>6, <1>t DEF Begin, CallTypes, Ended
  <2> QED BY <1>6, <1>t, <2>1, <2>2, QuietStream DEF Begin, AnswerTypes, Ended
<1>7. ASSUME NEW c \in Calls, Write(c) PROVE StreamInv'
  <2>1. CASE Ends(c, "raised")
    BY <1>7, <1>t, <1>g, <2>1, EndsStream DEF Write, AnswerTypes, Ended
  <2>2. CASE ~Ends(c, "raised")
    BY <1>7, <1>t, <2>2, QuietStream DEF Write, AnswerTypes, Ended, CallTypes
  <2> QED BY <2>1, <2>2
<1>8. ASSUME NEW c \in Calls, Drain(c) PROVE StreamInv'
  <2>1. CASE Ends(c, "raised")
    BY <1>8, <1>t, <1>g, <2>1, EndsStream DEF Drain, AnswerTypes, Ended, workerVars
  <2>2. CASE ~Ends(c, "raised")
    BY <1>8, <1>t, <2>2, QuietStream DEF Drain, AnswerTypes, Ended, CallTypes, workerVars
  <2> QED BY <2>1, <2>2
<1>9. ASSUME NEW c \in Calls, Return(c) PROVE StreamInv'
  BY <1>9, <1>t, EndsStream DEF Return, AnswerTypes, Ended, workerVars, Plain
<1>10. ASSUME NEW c \in Calls, TimesOut(c) \/ Abandon(c) PROVE StreamInv'
  BY <1>10, <1>t, <1>g, EndsStream DEF TimesOut, Abandon, AnswerTypes, Ended, workerVars, InCoroutine
<1>11. ASSUME NEW c \in Calls, ReadEvent(c) PROVE StreamInv'
  <2> DEFINE q == queue[c]
             g == got[c]
             item == Head(queue[c])
  <2>1. /\ q \in Seq(Answers) /\ g \in Seq(Answers) /\ expects[c] \in Int /\ q # <<>>
        /\ coro[c] = "await" /\ c \in Streams /\ UNCHANGED <<up, sent>>
    BY <1>11, <1>t DEF ReadEvent, AnswerTypes, workerVars
  <2>2. StreamOk(q, g, expects[c], "await")
    BY <2>1 DEF StreamInv
  <2>3. /\ item.kind # "event" => item.final /\ GotOk(g, "raised")
        /\ item.kind = "event" /\ item.final => GotOk(Append(g, item), "returned")
        /\ item.kind = "event" /\ ~item.final => StreamOk(Tail(q), Append(g, item), expects[c], "await")
    BY <2>1, <2>2, ReadKeeps
  <2>4. item \in Answers
    BY <2>1
  <2>5. CASE item.kind # "event"
    <3>1. got' = got /\ Ends(c, "raised")
      BY <1>11, <2>3, <2>5 DEF ReadEvent
    <3> QED BY <1>t, <2>1, <2>3, <2>5, <3>1, EndsStream DEF AnswerTypes, Ended
  <2>6. CASE item.kind = "event" /\ item.final
    <3>1. got' = [got EXCEPT ![c] = Append(g, item)] /\ Ends(c, "returned")
      BY <1>11, <2>6 DEF ReadEvent
    <3>2. /\ got' \in [Calls -> Seq(Answers)] /\ got'[c] = Append(g, item)
          /\ \A d \in Calls \ {c} : got'[d] = got[d]
      BY <1>t, <2>1, <2>4, <3>1 DEF AnswerTypes
    <3> QED BY <1>t, <2>1, <2>3, <2>6, <3>1, <3>2, EndsStream DEF Ended
  <2>7. CASE item.kind = "event" /\ ~item.final
    <3>1. /\ got' = [got EXCEPT ![c] = Append(g, item)]
          /\ queue' = [queue EXCEPT ![c] = Tail(q)] /\ UNCHANGED <<coro, expects>>
      BY <1>11, <2>7 DEF ReadEvent
    <3>2. /\ got' \in [Calls -> Seq(Answers)] /\ got'[c] = Append(g, item)
          /\ \A d \in Calls \ {c} : got'[d] = got[d]
      BY <1>t, <2>1, <2>4, <3>1 DEF AnswerTypes
    <3>3. /\ queue' \in [Calls -> Seq(Answers)] /\ queue'[c] = Tail(q)
          /\ \A d \in Calls \ {c} : queue'[d] = queue[d]
      BY <1>t, <2>1, <3>1 DEF AnswerTypes
    <3>4. AnswerTypes'
      BY <1>t, <2>1, <3>1, <3>2, <3>3 DEF AnswerTypes
    <3>5. StreamOk(queue'[c], got'[c], expects'[c], coro'[c])
      BY <2>1, <2>3, <2>7, <3>1, <3>2, <3>3
    <3>6. \A d \in Streams \ {c} : StreamOk(queue'[d], got'[d], expects'[d], coro'[d])
      BY <1>t, <3>1, <3>2, <3>3 DEF StreamInv
    <3> QED BY <3>4, <3>5, <3>6 DEF StreamInv
  <2> QED BY <2>5, <2>6, <2>7
<1>12. ASSUME NEW c \in Calls, Respond(c) PROVE StreamInv'
  <2>1. Result \in Answers
    BY DEF Result, Answers
  <2>2. up' \in [Calls -> Seq(Answers)]
    BY <1>12, <1>t, <2>1 DEF Respond, AnswerTypes
  <2> QED BY <1>12, <1>t, <2>2, QuietStream DEF Respond, AnswerTypes, callVars
<1>13. ASSUME NEW c \in Calls, NEW final \in BOOLEAN, SendEvent(c, final) PROVE StreamInv'
  <2>1. Event(sent[c], final) \in Answers
    BY <1>t DEF Event, Answers, AnswerTypes
  <2>2. up' \in [Calls -> Seq(Answers)] /\ sent' \in [Calls -> Nat]
    BY <1>13, <1>t, <2>1 DEF SendEvent, AnswerTypes
  <2> QED BY <1>13, <1>t, <2>2, QuietStream DEF SendEvent, callVars
<1>14. ASSUME NEW c \in Calls, Unheard(c) PROVE StreamInv'
  <2>1. up' \in [Calls -> Seq(Answers)]
    BY <1>14, <1>t DEF Unheard, AnswerTypes
  <2> QED BY <1>14, <1>t, <2>1, QuietStream DEF Unheard, AnswerTypes, callVars
<1>15. ASSUME NEW c \in Calls, NEW i \in 1..(MaxEvents + 2), OnResponse(c, i) PROVE StreamInv'
  <2> DEFINE event == up[c][i]
  <2>1. i \in 1..Len(up[c]) /\ event \in Answers
    BY <1>15, <1>t DEF OnResponse, AnswerTypes
  <2>2. up' \in [Calls -> Seq(Answers)]
    <3>1. RemoveAt(up[c], i) \in Seq(Answers)
      BY <1>t, <2>1, RemoveAtType DEF AnswerTypes
    <3> QED BY <1>15, <1>t, <3>1 DEF OnResponse, AnswerTypes
  <2>3. UNCHANGED <<coro, sent, got>>
    BY <1>15 DEF OnResponse, callVars
  <2>4. CASE UNCHANGED <<queue, expects>>
    <3>1. AnswerTypes'
      BY <1>t, <2>2, <2>3, <2>4 DEF AnswerTypes
    <3> QED BY <2>3, <2>4, <3>1 DEF StreamInv
  <2>5. CASE event.kind = "event" /\ c \in pending[via[c]] /\ AcceptEvent(c, event)
    <3> DEFINE q == queue[c]
               e == expects[c]
    <3>1. q \in Seq(Answers) /\ got[c] \in Seq(Answers) /\ e \in Int
      BY <1>t DEF AnswerTypes
    <3>2. PICK p \in Seq(Answers), f \in Int :
            /\ queue' = [queue EXCEPT ![c] = p] /\ expects' = [expects EXCEPT ![c] = f]
            /\ \/ p = <<Failure>>
               \/ event.seq = e /\ p = Append(q, event) /\ f = IF event.final THEN -1 ELSE e + 1
      <4>1. <<Failure>> \in Seq(Answers) /\ Append(q, event) \in Seq(Answers)
        BY <2>1, <3>1 DEF Failure, Answers
      <4>2. (IF event.final THEN -1 ELSE e + 1) \in Int
        BY <3>1
      <4>3. expects = [expects EXCEPT ![c] = e]
        BY <1>t DEF AnswerTypes
      <4>4. CASE e # event.seq
        <5>1. queue' = [queue EXCEPT ![c] = <<Failure>>] /\ expects' = [expects EXCEPT ![c] = e]
          BY <2>5, <4>3, <4>4 DEF AcceptEvent
        <5> QED BY <3>1, <4>1, <5>1
      <4>5. CASE e = event.seq
        <5>1. /\ expects' = [expects EXCEPT ![c] = IF event.final THEN -1 ELSE e + 1]
              /\ queue' = [queue EXCEPT ![c] =
                             IF Len(q) < QueueSize THEN Append(q, event) ELSE <<Failure>>]
          BY <2>5, <4>5 DEF AcceptEvent
        <5>2. CASE Len(q) < QueueSize
          BY <4>1, <4>2, <4>5, <5>1, <5>2
        <5>3. CASE ~(Len(q) < QueueSize)
          BY <4>1, <4>2, <5>1, <5>3
        <5> QED BY <5>2, <5>3
      <4> QED BY <4>4, <4>5
    <3>3. /\ queue' \in [Calls -> Seq(Answers)] /\ expects' \in [Calls -> Int]
          /\ queue'[c] = p /\ expects'[c] = f
          /\ \A d \in Calls \ {c} : queue'[d] = queue[d] /\ expects'[d] = expects[d]
      BY <1>t, <3>2 DEF AnswerTypes
    <3>4. AnswerTypes'
      BY <1>t, <2>2, <2>3, <3>3 DEF AnswerTypes
    <3>5. c \in Streams => StreamOk(queue'[c], got'[c], expects'[c], coro'[c])
      <4> SUFFICES ASSUME c \in Streams PROVE StreamOk(p, got[c], f, coro[c])
        BY <2>3, <3>3
      <4>1. coro[c] \notin Ended
        <5>1. via[c] \in Sessions
          <6>1. executed[c] = 1
            BY <2>1 DEF RunInv, AnswersFromRuns
          <6>2. coro[c] # "none"
            BY <6>1 DEF RunInv, AnswersFromRuns, Unsent
          <6> QED BY <1>t, <6>2 DEF TableInv, CoroutineStarted, Starting
        <5> QED BY <1>t, <2>5, <5>1 DEF TableInv, PendingExact, InCoroutine, Ended
      <4>2. GotOk(got[c], coro[c]) /\ QueueOk(q, got[c], e)
        BY <4>1 DEF StreamInv, StreamOk
      <4>3. QueueOk(p, got[c], f)
        BY <2>1, <2>5, <3>1, <3>2, <4>2, AcceptKeeps
      <4> QED BY <4>2, <4>3 DEF StreamOk
    <3>6. \A d \in Streams \ {c} : StreamOk(queue'[d], got'[d], expects'[d], coro'[d])
      BY <1>t, <2>3, <3>3 DEF StreamInv
    <3> QED BY <3>4, <3>5, <3>6 DEF StreamInv
  <2> QED BY <1>15, <2>4, <2>5 DEF OnResponse, answerVars
<1>16. CASE UNCHANGED vars
  BY <1>1, <1>16 DEF vars, callVars, workerVars
<1> QED
  BY <1>2, <1>3, <1>4, <1>5, <1>6, <1>7, <1>8, <1>9, <1>10, <1>11, <1>12, <1>13, <1>14, <1>15,
     <1>16 DEF Next, Thread, Coroutine

\* A stream's consumer is given the worker's events from the first one on, in order and
\* without a gap, nothing after a terminal one, and a normal end only after one, for any
\* calls, sessions, queue sizes and losses (StreamGapFree).
THEOREM StreamsHaveNoGaps == Spec => []StreamGapFree
<1>1. Init => StreamInv
  <2> SUFFICES ASSUME Init PROVE StreamInv
    OBVIOUS
  <2>1. AnswerTypes
    BY DEF Init, AnswerTypes
  <2>2. \A c \in Streams : StreamOk(<<>>, <<>>, 0, "none")
    BY DEF StreamOk, GotOk, QueueOk
  <2> QED BY <2>1, <2>2, CallsAssumption DEF Init, StreamInv
<1>2. StreamInv => StreamGapFree
  BY DEF StreamInv, StreamOk, GotOk, StreamGapFree
<1> QED
  BY <1>1, <1>2, InitRun, NextRun, NextStream, PTL DEF Spec
============================================================================
