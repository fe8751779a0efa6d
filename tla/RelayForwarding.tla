-------------------------- MODULE RelayForwarding --------------------------
(***************************************************************************)
(* Forwarding of tasks to the worker bound at a relay (relay_session.py,    *)
(* relay_worker_client.py, the /v1/relay handlers of node.py).              *)
(*                                                                         *)
(* A consumer's HTTP thread looks the worker's session up and waits up to   *)
(* 125 s for a coroutine on the event loop, which sends the call and waits  *)
(* up to 120 s for its answer.  The worker may lose its session and bind a  *)
(* new one meanwhile; the relay and the worker notice a broken connection   *)
(* independently.  How binds compete is the subject of RelayBinding: here   *)
(* one worker binds one session after the other.                            *)
(*                                                                         *)
(* forward_stream has no caller among the handlers: its consumer is whoever *)
(* iterates over it.  A call is its call_id, a session its number.          *)
(***************************************************************************)
EXTENDS Integers, Sequences, FiniteSets, SequencesExt

CONSTANTS
  Calls,        \* forwarded requests
  Streams,      \* those made with forward_stream
  HttpBinds,    \* numbers of the sessions bound over HTTP; the others are TCP
  MaxBinds,     \* bound on the sessions of the worker
  WriteBuffer,  \* frames drain() lets pile up before it waits for the reader
  QueueSize,    \* maxsize of a stream's event queue
  MaxEvents     \* bound on the partial events of a stream

ASSUME CallsAssumption == IsFiniteSet(Calls) /\ Streams \subseteq Calls
ASSUME BindsAssumption == MaxBinds \in Nat /\ HttpBinds \subseteq 1..MaxBinds
ASSUME SizesAssumption ==
  WriteBuffer \in Nat \ {0} /\ QueueSize \in Nat \ {0} /\ MaxEvents \in Nat

VARIABLES
  binds,     \* sessions the worker has had so far
  bound,     \* the registry's session of the worker, 0 if none
  alive,     \* sessions whose is_alive() is true
  reading,   \* TCP sessions whose _relay_worker_loop runs
  linked,    \* the session the worker itself is in, 0 if none
  thread,    \* the consumer's request
  via,       \* the session it found
  coro,      \* forward_task or forward_stream of the call
  pending,   \* per session: keys of _pending and _stream_pending
  fut,       \* calls whose future has its result
  queue,     \* a stream's event queue
  expects,   \* NativeResponseSequence.next_sequence, or -1 after the terminal
  down,      \* per session: calls sent or queued and not read by the worker
  handling,  \* calls the worker's handler runs
  up,        \* per call: answers on their way to the relay
  sent,      \* partial events the worker sent for a call
  got,       \* history: events the stream's consumer was given
  executed   \* history: how often the worker started a call

sessionVars == <<binds, bound, alive, reading, linked>>
callVars == <<thread, via, coro, pending>>
answerVars == <<fut, queue, expects>>
workerVars == <<down, handling, up, sent, executed>>
vars == <<sessionVars, callVars, answerVars, workerVars, got>>

Sessions == 1..MaxBinds
Plain == Calls \ Streams
InCoroutine == {"lock", "drain", "await"}

Result == [kind |-> "result", seq |-> 0, final |-> TRUE]
Event(n, f) == [kind |-> "event", seq |-> n, final |-> f]
Failure == [kind |-> "error", seq |-> 0, final |-> TRUE]

Init ==
  /\ binds = 0 /\ bound = 0 /\ alive = {} /\ reading = {} /\ linked = 0
  /\ thread = [c \in Calls |-> "new"]
  /\ via = [c \in Calls |-> 0]
  /\ coro = [c \in Calls |-> "none"]
  /\ pending = [s \in Sessions |-> {}]
  /\ fut = {}
  /\ queue = [c \in Calls |-> <<>>]
  /\ expects = [c \in Calls |-> 0]
  /\ down = [s \in Sessions |-> <<>>]
  /\ handling = {}
  /\ up = [c \in Calls |-> <<>>]
  /\ sent = [c \in Calls |-> 0]
  /\ got = [c \in Calls |-> <<>>]
  /\ executed = [c \in Calls |-> 0]

----------------------------------------------------------------------------
(* The session: bind, loss on either side, removal.                         *)

\* The worker's next session.  A session that is alive is not displaced: the
\* worker is refused and tries again.
Bind ==
  /\ linked = 0
  /\ binds < MaxBinds
  /\ bound \notin alive
  /\ binds' = binds + 1
  /\ bound' = binds + 1
  /\ alive' = alive \cup {binds + 1}
  /\ reading' = reading \cup ({binds + 1} \ HttpBinds)
  /\ linked' = binds + 1
  /\ UNCHANGED <<callVars, answerVars, workerVars, got>>

\* The worker's connection ends on its side: _worker_loop returns, and run
\* waits and connects again.  A browser worker goes away.
WorkerDrops ==
  /\ linked # 0
  /\ linked' = 0
  /\ UNCHANGED <<binds, bound, alive, reading, callVars, answerVars, workerVars, got>>

\* The relay sees the TCP connection end, or 90 s pass without a pull.
RelayDrops(s) ==
  /\ s \in alive
  /\ alive' = alive \ {s}
  /\ UNCHANGED <<binds, bound, reading, linked, callVars, answerVars, workerVars, got>>

\* The frame loop of a TCP session finds the end of its connection: the finally
\* block removes the entry if it is still this session's, and the writer is closed.
Finalize(s) ==
  /\ s \in reading
  /\ linked # s \/ s \notin alive
  /\ reading' = reading \ {s}
  /\ bound' = IF bound = s THEN 0 ELSE bound
  /\ alive' = alive \ {s}
  /\ UNCHANGED <<binds, linked, callVars, answerVars, workerVars, got>>

\* GET /v1/relay/pull of a session that nothing is queued for is a sign of life.
Poll(s) ==
  /\ s \in HttpBinds \ alive
  /\ linked = s /\ bound = s
  /\ alive' = alive \cup {s}
  /\ UNCHANGED <<binds, bound, reading, linked, callVars, answerVars, workerVars, got>>

\* POST /v1/relay/unbind closes and removes an HTTP session.
Unbind(s) ==
  /\ s \in HttpBinds
  /\ linked = s /\ bound = s
  /\ bound' = 0
  /\ alive' = alive \ {s}
  /\ linked' = 0
  /\ UNCHANGED <<binds, reading, callVars, answerVars, workerVars, got>>

----------------------------------------------------------------------------
(* The consumer's thread and the coroutine it waits for.                    *)

\* registry.get; /v1/relay-for also asks for an alive session, /v1/relay does not.
Lookup(c) ==
  /\ thread[c] = "new"
  /\ \/ /\ bound # 0
        /\ thread' = [thread EXCEPT ![c] = "found"]
        /\ via' = [via EXCEPT ![c] = bound]
     \/ /\ bound \notin alive
        /\ thread' = [thread EXCEPT ![c] = "unrouted"]
        /\ UNCHANGED via
  /\ UNCHANGED <<sessionVars, coro, pending, answerVars, workerVars, got>>

\* The coroutine starts: it registers the call, and on an HTTP session puts it
\* into the poll queue.
Begin(c) ==
  LET s == via[c]
  IN  /\ thread[c] = "found"
      /\ thread' = [thread EXCEPT ![c] = "waiting"]
      /\ pending' = [pending EXCEPT ![s] = @ \cup {c}]
      /\ coro' = [coro EXCEPT ![c] = IF s \in HttpBinds THEN "await" ELSE "lock"]
      /\ down' = IF s \in HttpBinds THEN [down EXCEPT ![s] = Append(@, c)] ELSE down
      /\ UNCHANGED <<sessionVars, via, answerVars, handling, up, sent, executed, got>>

\* The coroutine ends, and its finally block forgets the call, its future and its
\* event queue.
Ends(c, how) ==
  /\ coro' = [coro EXCEPT ![c] = how]
  /\ pending' = [pending EXCEPT ![via[c]] = @ \ {c}]
  /\ fut' = fut \ {c}
  /\ queue' = [queue EXCEPT ![c] = <<>>]
  /\ expects' = [expects EXCEPT ![c] = 0]

\* _write_lock is free: the CALL frame is written.  On a lost connection drain()
\* raises.
Write(c) ==
  LET s == via[c]
  IN  /\ coro[c] = "lock"
      /\ \A d \in Calls : via[d] = s => coro[d] # "drain"
      /\ \/ /\ s \in alive
            /\ down' = [down EXCEPT ![s] = Append(@, c)]
            /\ coro' = [coro EXCEPT ![c] = "drain"]
            /\ UNCHANGED <<pending, answerVars>>
         \/ /\ s \notin alive
            /\ Ends(c, "raised")
            /\ UNCHANGED down
      /\ UNCHANGED <<sessionVars, thread, via, handling, up, sent, executed, got>>

\* drain() returns when the worker has read enough, without any time limit; a
\* connection lost meanwhile ends it with or without an exception.
Drain(c) ==
  LET s == via[c]
  IN  /\ coro[c] = "drain"
      /\ \/ /\ s \notin alive \/ Len(down[s]) < WriteBuffer
            /\ coro' = [coro EXCEPT ![c] = "await"]
            /\ UNCHANGED <<pending, answerVars>>
         \/ /\ s \notin alive
            /\ Ends(c, "raised")
      /\ UNCHANGED <<sessionVars, thread, via, workerVars, got>>

\* The future is resolved.
Return(c) ==
  /\ c \in Plain \cap fut
  /\ coro[c] = "await"
  /\ Ends(c, "returned")
  /\ UNCHANGED <<sessionVars, thread, via, workerVars, got>>

\* forward_stream takes an item from its queue: an event is yielded, the final
\* one ends the stream, an exception is raised.
ReadEvent(c) ==
  LET item == Head(queue[c])
  IN  /\ c \in Streams
      /\ coro[c] = "await"
      /\ queue[c] # <<>>
      /\ got' = IF item.kind = "event" THEN [got EXCEPT ![c] = Append(@, item)] ELSE got
      /\ \/ item.final /\ Ends(c, IF item.kind = "event" THEN "returned" ELSE "raised")
         \/ /\ ~item.final
            /\ queue' = [queue EXCEPT ![c] = Tail(@)]
            /\ UNCHANGED <<coro, pending, fut, expects>>
      /\ UNCHANGED <<sessionVars, thread, via, workerVars>>

\* Mutation: the call is not forgotten when its wait ends without an answer.
TimesOutKeepsPending(c) ==
  /\ coro[c] = "await"
  /\ c \notin fut /\ queue[c] = <<>>
  /\ coro' = [coro EXCEPT ![c] = "raised"]
  /\ UNCHANGED <<sessionVars, thread, via, pending, answerVars, workerVars, got>>

\* wait_for's 120 s pass, for a stream those since its last event.
TimesOut(c) ==
  /\ coro[c] = "await"
  /\ c \notin fut /\ queue[c] = <<>>
  /\ Ends(c, "raised")
  /\ UNCHANGED <<sessionVars, thread, via, workerVars, got>>

\* The coroutine's outcome is the thread's: 200, or 502.
Collect(c) ==
  /\ thread[c] = "waiting"
  /\ coro[c] \in {"returned", "raised"}
  /\ thread' = [thread EXCEPT ![c] = IF coro[c] = "returned" THEN "answered" ELSE "failed"]
  /\ UNCHANGED <<sessionVars, via, coro, pending, answerVars, workerVars, got>>

\* Mutation: .result() without a time limit.
GiveUpNever(c) ==
  /\ FALSE
  /\ thread' = [thread EXCEPT ![c] = "failed"]
  /\ UNCHANGED <<sessionVars, via, coro, pending, answerVars, workerVars, got>>

\* .result(timeout=125) gives up on a coroutine, which goes on.
GiveUp(c) ==
  /\ c \in Plain
  /\ thread[c] = "waiting"
  /\ coro[c] \in InCoroutine
  /\ thread' = [thread EXCEPT ![c] = "failed"]
  /\ UNCHANGED <<sessionVars, via, coro, pending, answerVars, workerVars, got>>

\* The consumer of a stream closes the generator where it waits.
Abandon(c) ==
  /\ c \in Streams
  /\ thread[c] = "waiting"
  /\ coro[c] \in InCoroutine
  /\ thread' = [thread EXCEPT ![c] = "failed"]
  /\ Ends(c, "raised")
  /\ UNCHANGED <<sessionVars, via, workerVars, got>>

----------------------------------------------------------------------------
(* The worker, and the relay's side of its answers.                         *)

\* Mutation: a pulled call stays in the queue until it is answered.
TakeLeaves(s) ==
  /\ linked = s
  /\ s \in HttpBinds => bound = s
  /\ down[s] # <<>>
  /\ handling' = handling \cup {Head(down[s])}
  /\ executed' = [executed EXCEPT ![Head(down[s])] = @ + 1]
  /\ alive' = IF s \in HttpBinds THEN alive \cup {s} ELSE alive
  /\ UNCHANGED <<binds, bound, reading, linked, callVars, answerVars, down, up, sent, got>>

\* _worker_loop reads a CALL and starts a task for it; GET /v1/relay/pull hands
\* out the next call, whether or not anybody still waits for it, and counts as a
\* sign of life.
Take(s) ==
  /\ linked = s
  /\ s \in HttpBinds => bound = s
  /\ down[s] # <<>>
  /\ down' = [down EXCEPT ![s] = Tail(@)]
  /\ handling' = handling \cup {Head(down[s])}
  /\ executed' = [executed EXCEPT ![Head(down[s])] = @ + 1]
  /\ alive' = IF s \in HttpBinds THEN alive \cup {s} ELSE alive
  /\ UNCHANGED <<binds, bound, reading, linked, callVars, answerVars, up, sent, got>>

\* What was pulled is lost on its way to a worker that has gone; frames written
\* to a broken connection are lost with it.
Lose(s) ==
  /\ down[s] # <<>>
  /\ \/ s \in HttpBinds /\ bound = s /\ down' = [down EXCEPT ![s] = Tail(@)]
     \/ s \notin HttpBinds /\ linked # s /\ down' = [down EXCEPT ![s] = <<>>]
  /\ UNCHANGED <<sessionVars, callVars, answerVars, handling, up, sent, executed, got>>

\* _handle_call ends: the handler's result, or its exception, is sent with the
\* call_id, if the session is still the one it came on.  RelayWorkerClient
\* answers a streaming call in the same way.
Respond(c) ==
  /\ c \in handling
  /\ handling' = handling \ {c}
  /\ up' = IF linked = via[c] THEN [up EXCEPT ![c] = Append(@, Result)] ELSE up
  /\ UNCHANGED <<sessionVars, callVars, answerVars, down, sent, executed, got>>

\* Other workers answer a streaming call with events; one may go on after its
\* terminal event.
SendEvent(c, final) ==
  /\ c \in handling \cap Streams
  /\ linked = via[c]
  /\ sent[c] <= MaxEvents
  /\ sent' = [sent EXCEPT ![c] = @ + 1]
  /\ up' = [up EXCEPT ![c] = Append(@, Event(sent[c], final))]
  /\ UNCHANGED <<sessionVars, callVars, answerVars, down, handling, executed, got>>

\* Mutation: events are queued without a look at their sequence number.
AcceptEventUnchecked(c, event) ==
  /\ queue' = [queue EXCEPT ![c] =
                  IF Len(@) < QueueSize THEN Append(@, event) ELSE <<Failure>>]
  /\ UNCHANGED expects

\* on_stream_response: sequence.accept, then put_nowait.  If either refuses, the
\* queue is emptied and the error takes the place of the events.
AcceptEvent(c, event) ==
  LET q == queue[c]
  IN  IF expects[c] # event.seq
      THEN queue' = [queue EXCEPT ![c] = <<Failure>>] /\ UNCHANGED expects
      ELSE /\ expects' = [expects EXCEPT ![c] = IF event.final THEN -1 ELSE @ + 1]
           /\ queue' = [queue EXCEPT ![c] =
                          IF Len(q) < QueueSize THEN Append(q, event) ELSE <<Failure>>]

\* An answer is taken while the frame loop runs, over HTTP while the token is that
\* of a registered session.
Heard(s) == IF s \in HttpBinds THEN bound = s ELSE s \in reading

\* _relay_worker_loop reads the next RESPONSE, or one POST /v1/relay/result of
\* several under way reaches the event loop: it is given to the call if that is
\* still pending, by its future or its event queue.
OnResponse(c, i) ==
  LET s == via[c]
      answer == up[c][i]
  IN  /\ i \in DOMAIN up[c]
      /\ i = 1 \/ s \in HttpBinds
      /\ up' = [up EXCEPT ![c] = RemoveAt(@, i)]
      /\ Heard(s)
      /\ \/ /\ answer.kind = "result" /\ c \in pending[s] /\ c \in Plain
            /\ fut' = fut \cup {c}
            /\ UNCHANGED <<queue, expects>>
         \/ /\ answer.kind = "event" /\ c \in pending[s]
            /\ AcceptEvent(c, answer)
            /\ UNCHANGED fut
         \/ /\ c \notin pending[s] \/ (answer.kind = "result" /\ c \in Streams)
            /\ UNCHANGED answerVars
      /\ UNCHANGED <<sessionVars, callVars, down, handling, sent, executed, got>>

\* An answer for a session that is no longer registered: nobody reads the closed
\* connection, and the token of the POST is unknown (401).
Unheard(c) ==
  /\ up[c] # <<>>
  /\ ~Heard(via[c])
  /\ up' = [up EXCEPT ![c] = <<>>]
  /\ UNCHANGED <<sessionVars, callVars, answerVars, down, handling, sent, executed, got>>

----------------------------------------------------------------------------
\* The thread that waits for a call, once it has one.
Thread(c) == Begin(c) \/ Collect(c) \/ GiveUp(c)

\* forward_task or forward_stream on the event loop.
Coroutine(c) ==
  Write(c) \/ Drain(c) \/ Return(c) \/ ReadEvent(c) \/ TimesOut(c)

Next ==
  \/ Bind \/ WorkerDrops
  \/ \E s \in Sessions :
       \/ RelayDrops(s) \/ Finalize(s) \/ Poll(s) \/ Unbind(s)
       \/ Take(s) \/ Lose(s)
  \/ \E c \in Calls :
       \/ Lookup(c) \/ Thread(c) \/ Coroutine(c) \/ Abandon(c)
       \/ Respond(c) \/ SendEvent(c, TRUE) \/ SendEvent(c, FALSE)
       \/ (\E i \in 1..(MaxEvents + 2) : OnResponse(c, i)) \/ Unheard(c)

Spec == Init /\ [][Next]_vars

\* Threads and the event loop run, their time limits pass, and a connection the
\* worker has left is found out by TCP.  Nothing is assumed of the worker.
Fairness ==
  /\ \A c \in Calls : WF_vars(Thread(c)) /\ WF_vars(Coroutine(c))
  /\ \A s \in Sessions \ HttpBinds : WF_vars(linked # s /\ RelayDrops(s))

FairSpec == Spec /\ Fairness

----------------------------------------------------------------------------
\* A session's pending tables hold exactly the calls whose forward_task or
\* forward_stream is under way on it: time-outs, exceptions, closed generators and
\* threads that gave up leave no entry behind, and none is forgotten early.
PendingExact ==
  \A s \in Sessions :
    pending[s] = { c \in Calls : via[c] = s /\ coro[c] \in InCoroutine }

\* What the consumer is told is true: a 200 means that the worker ran the task, a
\* 404 that it did not, and no forwarded task is ever started twice, whatever was
\* lost, timed out or rebound on the way.
ToldTruth ==
  \A c \in Calls :
    /\ executed[c] <= 1
    /\ thread[c] = "answered" => executed[c] = 1
    /\ thread[c] = "unrouted" => executed[c] = 0

\* A stream's consumer sees the worker's events from the first one on, in order
\* and without a gap, nothing after a terminal event, and a normal end only after
\* one: overflow and out-of-order events turn into an error, never into a hole.
StreamGapFree ==
  \A c \in Streams :
    /\ \A i \in 1..Len(got[c]) :
         got[c][i].seq = i - 1 /\ (got[c][i].final => i = Len(got[c]))
    /\ coro[c] = "returned" <=> got[c] # <<>> /\ got[c][Len(got[c])].final

\* Every consumer of forward_task is answered, even if the worker never reads what
\* it is sent and drain() never returns.
EveryCallAnswered ==
  \A c \in Plain :
    thread[c] \in {"found", "waiting"} ~> thread[c] \in {"answered", "failed"}

\* _worker_loop reads what is sent to it while it is connected.
WorkerReads == \A s \in Sessions \ HttpBinds : WF_vars(Take(s))

\* With a worker that reads, every coroutine ends: none waits for the write lock
\* or for drain() for ever, not even on a connection lost under it.
CoroutinesEnd ==
  WorkerReads =>
    \A c \in Calls : coro[c] \in InCoroutine ~> coro[c] \notin InCoroutine

\* Every wait of a forwarded call ends: the consumer's, whatever the worker does,
\* and the coroutine's, as long as the worker reads.
WaitsEnd == EveryCallAnswered /\ CoroutinesEnd
============================================================================
