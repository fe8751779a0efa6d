---------------------------- MODULE NativeSession ----------------------------
(***************************************************************************)
(* The native IICP transport (iicp_tcp.py, native_response_sequence.py,     *)
(* concurrency.py): clients of one IicpTcpServer, each with a connection of *)
(* its own, do the INIT/ACK handshake and then issue PING, DISCOVER, CALL   *)
(* and streaming CALL requests, one at a time.                              *)
(*                                                                         *)
(* A connection is a pair of FIFO channels.  The server handles the frames  *)
(* of a connection one after the other; the sessions share one              *)
(* ConcurrencyGate.  A client that gives up on a request (a timeout, a      *)
(* cancelled task, a stream generator closed early) tells nobody: it keeps  *)
(* the connection and may issue the next request.                           *)
(*                                                                         *)
(* A frame carries the id of the request it answers: the call_id that the   *)
(* server echoes and that only stream_call compares.  Payload, session_id   *)
(* and task_id, which requests of one client may share, are left out.       *)
(***************************************************************************)
EXTENDS Integers, Sequences, FiniteSets

CONSTANTS
  Conns,          \* connections, each with its client
  Gated,          \* a ConcurrencyGate is configured
  MaxConcurrent,  \* its size
  Streaming,      \* a streaming_handler is configured
  WriteBuffer,    \* frames drain() lets pile up before it waits for the reader
  MaxRequests,    \* bound on the requests of each client
  MaxEvents       \* bound on the partial events of a stream

ASSUME ConnsAssumption == IsFiniteSet(Conns)
ASSUME ServerAssumption ==
  Gated \in BOOLEAN /\ Streaming \in BOOLEAN /\ MaxConcurrent \in Nat \ {0}
ASSUME BoundsAssumption ==
  WriteBuffer \in Nat \ {0} /\ MaxRequests \in [Conns -> Nat] /\ MaxEvents \in Nat

VARIABLES
  client,        \* idle, waiting for a frame, or closed
  cur,           \* the client's current request
  requests,      \* requests issued so far; the number of a request is its id
  shaken,        \* framing_version is set
  aligned,       \* the client's reader is at a frame boundary
  nextSequence,  \* NativeResponseSequence.next_sequence
  up, down,      \* frames on their way to the server and to the client
  server,        \* where the server's session stands
  req,           \* the request it handles, or handled last
  sequence,      \* sequence of _on_stream_call
  terminal,      \* terminal_sent of _on_stream_call
  active,        \* ConcurrencyGate._active
  wrote,         \* history: events written for req
  yielded,       \* history: events of the current stream given to the caller
  answered,      \* history: requests with the request whose answer they returned
  gaveUp         \* history: a request ended without its own answer

clientVars == <<client, cur, requests, shaken, aligned, nextSequence, yielded, answered, gaveUp>>
serverVars == <<server, req, sequence, terminal, active, wrote>>
ntVars == <<clientVars, serverVars, up, down>>

Ops == {"init", "ping", "discover", "call", "stream"}
NoRequest == [op |-> "none", id |-> 0]

\* Frames to the client; code tells the errors apart that properties speak of.
Frame(kind, id, code) ==
  [kind |-> kind, id |-> id, seq |-> 0, final |-> TRUE, odd |-> FALSE, code |-> code]
Event(id, seq, final, odd, code) ==
  [kind |-> "event", id |-> id, seq |-> seq, final |-> final, odd |-> odd, code |-> code]

NtInit ==
  /\ client = [c \in Conns |-> "idle"]
  /\ cur = [c \in Conns |-> NoRequest]
  /\ requests = [c \in Conns |-> 0]
  /\ shaken = [c \in Conns |-> FALSE]
  /\ aligned = [c \in Conns |-> TRUE]
  /\ nextSequence = [c \in Conns |-> 0]
  /\ up = [c \in Conns |-> <<>>]
  /\ down = [c \in Conns |-> <<>>]
  /\ server = [c \in Conns |-> "open"]
  /\ req = [c \in Conns |-> NoRequest]
  /\ sequence = [c \in Conns |-> 0]
  /\ terminal = [c \in Conns |-> FALSE]
  /\ active = 0
  /\ wrote = [c \in Conns |-> <<>>]
  /\ yielded = [c \in Conns |-> <<>>]
  /\ answered = [c \in Conns |-> {}]
  /\ gaveUp = [c \in Conns |-> FALSE]

----------------------------------------------------------------------------
(* The client.                                                             *)

\* A request is written.  handshake may be tried again after it failed; the other
\* requests need it.
Request(c, op) ==
  /\ client[c] = "idle"
  /\ op = "init" \/ shaken[c]
  /\ requests[c] < MaxRequests[c]
  /\ requests' = [requests EXCEPT ![c] = @ + 1]
  /\ cur' = [cur EXCEPT ![c] = [op |-> op, id |-> requests[c] + 1]]
  /\ client' = [client EXCEPT ![c] = "waiting"]
  /\ up' = [up EXCEPT ![c] = Append(@, [op |-> op, id |-> requests[c] + 1])]
  /\ nextSequence' = [nextSequence EXCEPT ![c] = 0]
  /\ yielded' = [yielded EXCEPT ![c] = <<>>]
  /\ UNCHANGED <<shaken, aligned, answered, gaveUp, serverVars, down>>

\* The caller gets its answer, or an error that the server reported.
Done(c) ==
  /\ client' = [client EXCEPT ![c] = "idle"]
  /\ UNCHANGED gaveUp

\* The request ends without its own answer.
Fail(c) ==
  /\ client' = [client EXCEPT ![c] = "idle"]
  /\ gaveUp' = [gaveUp EXCEPT ![c] = TRUE]

\* _read_frame returns the next frame.
Reading(c) ==
  /\ client[c] = "waiting"
  /\ aligned[c]
  /\ down[c] # <<>>
  /\ down' = [down EXCEPT ![c] = Tail(@)]

ReadHandshake(c) ==
  /\ Reading(c)
  /\ cur[c].op = "init"
  /\ IF Head(down[c]).kind = "ack"
     THEN Done(c) /\ shaken' = [shaken EXCEPT ![c] = TRUE]
     ELSE Fail(c) /\ UNCHANGED shaken
  /\ UNCHANGED <<cur, requests, aligned, nextSequence, yielded, answered, serverVars, up>>

ReadPong(c) ==
  /\ Reading(c)
  /\ cur[c].op = "ping"
  /\ IF Head(down[c]).kind = "pong" THEN Done(c) ELSE Fail(c)
  /\ UNCHANGED <<cur, requests, shaken, aligned, nextSequence, yielded, answered, serverVars, up>>

\* discover and call take any RESPONSE, a lifecycle event too, for their answer.
ReadReply(c) ==
  /\ Reading(c)
  /\ cur[c].op \in {"discover", "call"}
  /\ IF Head(down[c]).kind \in {"result", "event"}
     THEN /\ Done(c)
          /\ answered' = [answered EXCEPT ![c] = @ \cup {<<cur[c].id, Head(down[c]).id>>}]
     ELSE Fail(c) /\ UNCHANGED answered
  /\ UNCHANGED <<cur, requests, shaken, aligned, nextSequence, yielded, serverVars, up>>

\* Mutation: the call_id of an event is not compared.
AcceptAnyCall(c, frame) ==
  /\ frame.kind = "event"
  /\ frame.seq = nextSequence[c]
  /\ ~frame.odd

\* NativeResponseSequence.accept of a frame with a lifecycle: an event of this
\* call, the next in order, whose status, event name and finality agree.
AcceptFrame(c, frame) ==
  /\ frame.kind = "event"
  /\ frame.id = cur[c].id
  /\ frame.seq = nextSequence[c]
  /\ ~frame.odd

\* stream_call yields what it accepts, ends after the final event and raises on
\* anything else.
ReadEvent(c) ==
  /\ Reading(c)
  /\ cur[c].op = "stream"
  /\ IF AcceptFrame(c, Head(down[c]))
     THEN /\ yielded' = [yielded EXCEPT ![c] = Append(@, Head(down[c]))]
          /\ nextSequence' = [nextSequence EXCEPT ![c] = @ + 1]
          /\ IF Head(down[c]).final THEN Done(c) ELSE UNCHANGED <<client, gaveUp>>
     ELSE Fail(c) /\ UNCHANGED <<yielded, nextSequence>>
  /\ UNCHANGED <<cur, requests, shaken, aligned, answered, serverVars, up>>

\* The wait for a frame times out or is cancelled, or the generator of a stream is
\* closed.  A time-out between header and payload leaves the payload unread.
GiveUp(c) ==
  /\ client[c] = "waiting"
  /\ Fail(c)
  /\ \/ UNCHANGED aligned
     \/ down[c] # <<>> /\ aligned' = [aligned EXCEPT ![c] = FALSE]
  /\ UNCHANGED <<cur, requests, shaken, nextSequence, yielded, answered, serverVars, up, down>>

\* A read in the middle of a frame finds a bad magic; it may happen to end at the
\* frame's end.
ReadGarbage(c) ==
  /\ client[c] = "waiting"
  /\ ~aligned[c]
  /\ Fail(c)
  /\ \/ UNCHANGED <<aligned, down>>
     \/ /\ aligned' = [aligned EXCEPT ![c] = TRUE]
        /\ down' = [down EXCEPT ![c] = Tail(@)]
  /\ UNCHANGED <<cur, requests, shaken, nextSequence, yielded, answered, serverVars, up>>

\* The client closes: CLOSE is sent, or only the end of the stream is.
Close(c) ==
  /\ client[c] = "idle"
  /\ client' = [client EXCEPT ![c] = "closed"]
  /\ up' = [up EXCEPT ![c] = Append(@, [op |-> "close", id |-> 0])]
  /\ UNCHANGED <<cur, requests, shaken, aligned, nextSequence, yielded, answered, gaveUp,
                 serverVars, down>>

\* The connection breaks, and what is in flight is lost with it; or the client
\* reads the end of a connection that the server closed.
ConnectionLost(c) ==
  /\ client[c] # "closed"
  /\ client' = [client EXCEPT ![c] = "closed"]
  /\ up' = [up EXCEPT ![c] = <<[op |-> "close", id |-> 0]>>]
  /\ down' = [down EXCEPT ![c] = <<>>]
  /\ UNCHANGED <<cur, requests, shaken, aligned, nextSequence, yielded, answered, gaveUp,
                 serverVars>>

----------------------------------------------------------------------------
(* The server.                                                             *)

Full == Gated /\ active >= MaxConcurrent
AcquireGate == active' = IF Gated THEN active + 1 ELSE active
ReleaseGate == active' = IF Gated THEN active - 1 ELSE active

\* Frames for a client that has gone are lost.
Write(c, frame) ==
  down' = [down EXCEPT ![c] = IF client[c] = "closed" THEN @ ELSE Append(@, frame)]

\* The next frame is taken from the buffer.
Receiving(c) ==
  /\ server[c] \in {"open", "ready"}
  /\ up[c] # <<>>
  /\ up' = [up EXCEPT ![c] = Tail(@)]
  /\ req' = [req EXCEPT ![c] = Head(up[c])]
  /\ sequence' = [sequence EXCEPT ![c] = 0]
  /\ terminal' = [terminal EXCEPT ![c] = FALSE]
  /\ wrote' = [wrote EXCEPT ![c] = <<>>]

Goto(c, state) == server' = [server EXCEPT ![c] = state]

\* CLOSE, the end of the stream, a frame before INIT or a second INIT end the
\* session.
OnClose(c) ==
  /\ Receiving(c)
  /\ \/ Head(up[c]).op = "close"
     \/ server[c] = "open" /\ Head(up[c]).op # "init"
     \/ server[c] = "ready" /\ Head(up[c]).op = "init"
  /\ Goto(c, "gone")
  /\ UNCHANGED <<clientVars, down, active>>

OnInit(c) ==
  /\ server[c] = "open"
  /\ Receiving(c)
  /\ Head(up[c]).op = "init"
  /\ Goto(c, "ready")
  /\ Write(c, Frame("ack", Head(up[c]).id, "none"))
  /\ UNCHANGED <<clientVars, active>>

OnPing(c) ==
  /\ server[c] = "ready"
  /\ Receiving(c)
  /\ Head(up[c]).op = "ping"
  /\ Write(c, Frame("pong", Head(up[c]).id, "none"))
  /\ UNCHANGED <<clientVars, server, active>>

OnDiscover(c) ==
  /\ server[c] = "ready"
  /\ Receiving(c)
  /\ Head(up[c]).op = "discover"
  /\ Goto(c, "discovering")
  /\ UNCHANGED <<clientVars, down, active>>

\* A buffered CALL, or a streaming one that no handler streams.
Buffered(r) == r.op = "call" \/ (r.op = "stream" /\ ~Streaming)

\* _on_call: at capacity the answer is 429 at once.
OnCall(c) ==
  /\ server[c] = "ready"
  /\ Receiving(c)
  /\ Buffered(Head(up[c]))
  /\ \/ /\ Full
        /\ Write(c, Frame("result", Head(up[c]).id, "429"))
        /\ UNCHANGED <<server, active>>
     \/ /\ ~Full
        /\ AcquireGate
        /\ Goto(c, "running")
        /\ UNCHANGED down
  /\ UNCHANGED clientVars

\* The handler, or the discovery, returns or raises; either way one RESPONSE is
\* written.
Respond(c) ==
  /\ server[c] \in {"discovering", "running"}
  /\ Goto(c, "ready")
  /\ IF server[c] = "running" THEN ReleaseGate ELSE UNCHANGED active
  /\ Write(c, Frame("result", req[c].id, "none"))
  /\ UNCHANGED <<clientVars, up, req, sequence, terminal, wrote>>

\* _on_stream_call: at capacity the gate raises like a handler would, and the
\* stream is one terminal backend_error.
OnStreamCall(c) ==
  /\ server[c] = "ready"
  /\ up[c] # <<>> /\ Head(up[c]).op = "stream" /\ Streaming
  /\ up' = [up EXCEPT ![c] = Tail(@)]
  /\ req' = [req EXCEPT ![c] = Head(up[c])]
  /\ LET refusal == Event(Head(up[c]).id, 0, TRUE, FALSE, "backend_error")
     IN \/ /\ Full
           /\ Write(c, refusal)
           /\ sequence' = [sequence EXCEPT ![c] = 1]
           /\ terminal' = [terminal EXCEPT ![c] = TRUE]
           /\ wrote' = [wrote EXCEPT ![c] = <<refusal>>]
           /\ UNCHANGED <<server, active>>
        \/ /\ ~Full
           /\ AcquireGate
           /\ Goto(c, "streaming")
           /\ sequence' = [sequence EXCEPT ![c] = 0]
           /\ terminal' = [terminal EXCEPT ![c] = FALSE]
           /\ wrote' = [wrote EXCEPT ![c] = <<>>]
           /\ UNCHANGED down
  /\ UNCHANGED clientVars

\* emit: one event is written and drained; final ones close the sequence.
Emit(c, final, odd, code) ==
  LET event == Event(req[c].id, sequence[c], final, odd, code)
  IN /\ Write(c, event)
     /\ wrote' = [wrote EXCEPT ![c] = Append(@, event)]
     /\ sequence' = [sequence EXCEPT ![c] = @ + 1]
     /\ terminal' = [terminal EXCEPT ![c] = final]

\* drain lets the handler go on.
Drained(c) == Len(down[c]) < WriteBuffer

\* The streaming handler yields an event.  Its event name is not checked against
\* its status here.
HandlerYields(c) ==
  /\ server[c] = "streaming"
  /\ Drained(c)
  /\ ~terminal[c]
  /\ \/ /\ sequence[c] < MaxEvents
        /\ \E odd \in BOOLEAN : Emit(c, FALSE, odd, "none")
     \/ Emit(c, TRUE, FALSE, "none")
  /\ UNCHANGED <<clientVars, up, server, req, active>>

\* The streaming handler ends, raises, or yields an event that emit refuses: one
\* with an unknown status, or any after the terminal one.  A stream without its
\* terminal event gets an error for it.
HandlerEnds(c) ==
  /\ server[c] = "streaming"
  /\ Drained(c)
  /\ Goto(c, "ready")
  /\ ReleaseGate
  /\ IF terminal[c]
     THEN UNCHANGED <<down, wrote, sequence, terminal>>
     ELSE \E code \in {"stream_incomplete", "backend_error"} : Emit(c, TRUE, FALSE, code)
  /\ UNCHANGED <<clientVars, up, req>>

\* Writing to a client that has gone raises, which ends the session.
WriteFails(c) ==
  /\ client[c] = "closed"
  /\ server[c] \in {"discovering", "running", "streaming"}
  /\ Goto(c, "gone")
  /\ IF server[c] = "discovering" THEN UNCHANGED active ELSE ReleaseGate
  /\ UNCHANGED <<clientVars, up, down, req, sequence, terminal, wrote>>

----------------------------------------------------------------------------
ClientStep(c) ==
  \/ \E op \in Ops : Request(c, op)
  \/ ReadHandshake(c) \/ ReadPong(c) \/ ReadReply(c) \/ ReadEvent(c)
  \/ GiveUp(c) \/ ReadGarbage(c)
  \/ Close(c) \/ ConnectionLost(c)

ServerStep(c) ==
  \/ OnClose(c) \/ OnInit(c) \/ OnPing(c) \/ OnDiscover(c) \/ OnCall(c) \/ OnStreamCall(c)
  \/ Respond(c) \/ HandlerYields(c) \/ HandlerEnds(c) \/ WriteFails(c)

NtNext == \E c \in Conns : ClientStep(c) \/ ServerStep(c)

NtSpec == NtInit /\ [][NtNext]_ntVars

----------------------------------------------------------------------------
\* Sessions that hold a slot of the gate.
Holders == {c \in Conns : server[c] \in {"running", "streaming"}}

\* The gate counts exactly the handlers that run, on every path out of a handler,
\* and is not oversold.
GateBalanced == Gated => active = Cardinality(Holders) /\ active <= MaxConcurrent

\* A whole stream: numbered from 0, its last event final and no other.
WellFormed(s) ==
  \A i \in 1..Len(s) : s[i].seq = i - 1 /\ (s[i].final <=> i = Len(s))

\* When the server turns to the next frame, the stream it served is whole: it has
\* one terminal event, whatever the handler did.
StreamsEndOnce ==
  \A c \in Conns :
    server[c] = "ready" /\ req[c].op = "stream" /\ Streaming =>
      wrote[c] # <<>> /\ WellFormed(wrote[c])

\* A caller of stream_call is given events of its own call only, in order and
\* without a gap, and nothing after the final one, although frames of requests
\* given up earlier are still in the connection.
StreamIsOwn ==
  \A c \in Conns :
    \A i \in 1..Len(yielded[c]) :
      /\ yielded[c][i].id = cur[c].id
      /\ yielded[c][i].seq = i - 1
      /\ yielded[c][i].final => i = Len(yielded[c]) /\ client[c] # "waiting"

\* As long as a client gave up on no request, call and discover return the answer
\* to their own request.
AnswersMatch ==
  \A c \in Conns : gaveUp[c] \/ \A a \in answered[c] : a[1] = a[2]

\* What a connection shows its two ends stays in order although requests are given
\* up, handlers raise and clients vanish: callers see their own events and answers,
\* streams are whole, and no slot of the gate is lost.
SessionSound == StreamIsOwn /\ AnswersMatch /\ StreamsEndOnce /\ GateBalanced

=============================================================================
