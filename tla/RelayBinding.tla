---------------------------- MODULE RelayBinding ----------------------------
(***************************************************************************)
(* How relay workers are bound to a relay node (relay_session.py,           *)
(* relay_ticket.py and the /v1/relay handlers of node.py).                  *)
(*                                                                         *)
(* One RelaySessionRegistry serves two transports.  A TCP worker is bound   *)
(* and unbound by RelayAcceptServer on the event loop, with no await from   *)
(* the ticket check to the bind; a browser worker is bound and unbound by   *)
(* threads of the HTTP server, which interleave with the loop and with each *)
(* other.  Each registry method holds the registry's lock, so it is one     *)
(* step; nothing holds it from one method to the next.                      *)
(*                                                                         *)
(* A member of Tcp or Http is one connection or one bind request, with the  *)
(* session object that it creates if it is admitted.                        *)
(***************************************************************************)
EXTENDS Integers, FiniteSets

CONSTANTS
  Workers,         \* worker ids
  Tcp, Http,       \* sessions of RelayAcceptServer and of POST /v1/relay/bind
  Tickets,         \* jti of directory-signed bind tickets
  TicketFor,       \* the worker (sub) a ticket is issued to
  None,            \* no ticket, no session
  RequireTicket,   \* IICP_RELAY_REQUIRE_BIND_TICKET
  MaxSessions      \* MAX_RELAY_SESSIONS

Sessions == Tcp \cup Http

ASSUME SessionsAssumption == Tcp \cap Http = {} /\ None \notin Sessions /\ None \notin Workers
ASSUME TicketAssumption == None \notin Tickets /\ TicketFor \in [Tickets -> Workers]
ASSUME RequireAssumption == RequireTicket \in BOOLEAN
ASSUME MaxAssumption == MaxSessions \in Nat
ASSUME FiniteAssumption == IsFiniteSet(Workers)

VARIABLES
  pc,        \* where the bind, the session or its removal stands
  who,       \* worker_id of the request
  ticket,    \* verified claims of the request, or None
  existing,  \* the session the request found under its worker_id, or None
  bound,     \* RelaySessionRegistry._sessions
  live,      \* sessions whose is_alive() holds
  polling,   \* HTTP sessions with a pull in progress
  seen,      \* RelayBindTicketReplayCache._seen
  expired,   \* tickets whose exp has passed
  uses       \* history: the sessions that consumed a ticket

bindVars == <<pc, who, ticket, existing>>
ticketVars == <<seen, expired, uses>>
vars == <<bindVars, bound, live, polling, ticketVars>>

\* Between the ticket check and the bind.
Binding == {"verified", "found", "probed", "admitted", "consumed"}
Phases == Binding \cup {"new", "acking", "bound", "removing", "ended", "unacked", "refused"}

Init ==
  /\ pc = [s \in Sessions |-> "new"]
  /\ who = [s \in Sessions |-> None]
  /\ ticket = [s \in Sessions |-> None]
  /\ existing = [s \in Sessions |-> None]
  /\ bound = [w \in Workers |-> None]
  /\ live = {}
  /\ polling = {}
  /\ seen = {}
  /\ expired = {}
  /\ uses = [t \in Tickets |-> {}]

Registered == {w \in Workers : bound[w] # None}

\* A TCP handler that is in a stretch of code without await owns the loop.
LoopBusy == \E s \in Tcp : pc[s] \in Binding \cup {"removing"}

\* Steps of a TCP session wait until no other one is in such a stretch.
MayRun(s) == s \in Tcp => \A r \in Tcp \ {s} : pc[r] \notin Binding \cup {"removing"}

Goto(s, phase) == pc' = [pc EXCEPT ![s] = phase]

\* The worker is told why, and its connection or request ends.
Refuse(s) ==
  /\ Goto(s, "refused")
  /\ live' = live \ {s}

----------------------------------------------------------------------------
\* A bind request names worker w and carries ticket t.  No ticket, or no key to
\* verify one with, is t = None.
VerifyTicket(s, w, t) ==
  /\ pc[s] = "new"
  /\ MayRun(s)
  /\ who' = [who EXCEPT ![s] = w]
  /\ \/ /\ IF t = None THEN RequireTicket ELSE t \in expired \/ TicketFor[t] # w
        /\ Refuse(s)
        /\ UNCHANGED ticket
     \/ /\ IF t = None THEN ~RequireTicket ELSE t \notin expired /\ TicketFor[t] = w
        /\ Goto(s, "verified")
        /\ ticket' = [ticket EXCEPT ![s] = t]
        /\ live' = IF s \in Tcp THEN live \cup {s} ELSE live
  /\ UNCHANGED <<existing, bound, polling, ticketVars>>

\* registry.get(worker_id).
FindExisting(s) ==
  /\ pc[s] = "verified"
  /\ existing' = [existing EXCEPT ![s] = bound[who[s]]]
  /\ Goto(s, "found")
  /\ UNCHANGED <<who, ticket, bound, live, polling, ticketVars>>

\* existing.is_alive(): an alive session keeps its worker_id.
ProbeExisting(s) ==
  /\ pc[s] = "found"
  /\ \/ /\ existing[s] \in live
        /\ Refuse(s)
     \/ /\ existing[s] \notin live
        /\ Goto(s, "probed")
        /\ UNCHANGED live
  /\ UNCHANGED <<who, ticket, existing, bound, polling, ticketVars>>

\* Mutation: one session more than the cap.
AtCapacityOffByOne(w) == w \notin Registered /\ Cardinality(Registered) > MaxSessions

AtCapacity(w) == w \notin Registered /\ Cardinality(Registered) >= MaxSessions

\* allow_bind may refuse a request that replaces nothing (its per-source rate
\* window is not modelled); at_capacity refuses a new worker_id.
Admit(s) ==
  /\ pc[s] = "probed"
  /\ \/ /\ existing[s] = None \/ AtCapacity(who[s])
        /\ Refuse(s)
     \/ /\ ~AtCapacity(who[s])
        /\ Goto(s, "admitted")
        /\ UNCHANGED live
  /\ UNCHANGED <<who, ticket, existing, bound, polling, ticketVars>>

\* Mutation: a disconnect drops the ticket from the replay cache.
ConsumeTicketAfterDisconnect(s) ==
  LET t == ticket[s]
      kept == {k \in seen \ expired : uses[k] \cap live # {}}
  IN  /\ pc[s] = "admitted"
      /\ \/ /\ t \in kept
            /\ seen' = kept
            /\ Refuse(s)
            /\ UNCHANGED uses
         \/ /\ t \notin kept
            /\ Goto(s, "consumed")
            /\ seen' = IF t = None THEN seen ELSE kept \cup {t}
            /\ uses' = IF t = None THEN uses ELSE [uses EXCEPT ![t] = @ \cup {s}]
            /\ UNCHANGED live
      /\ UNCHANGED <<who, ticket, existing, bound, polling, expired>>

\* consume_relay_bind_ticket: purge, lookup and insertion under one lock.  The
\* expiry of the ticket itself is not looked at again.
ConsumeTicket(s) ==
  LET t == ticket[s]
      kept == seen \ expired
  IN  /\ pc[s] = "admitted"
      /\ \/ /\ t \in kept
            /\ seen' = kept
            /\ Refuse(s)
            /\ UNCHANGED uses
         \/ /\ t \notin kept
            /\ Goto(s, "consumed")
            /\ seen' = IF t = None THEN seen ELSE kept \cup {t}
            /\ uses' = IF t = None THEN uses ELSE [uses EXCEPT ![t] = @ \cup {s}]
            /\ UNCHANGED live
      /\ UNCHANGED <<who, ticket, existing, bound, polling, expired>>

\* registry.bind.  A new HTTP session counts as just polled; a TCP worker is
\* sent RELAY_ACK.
Bind(s) ==
  /\ pc[s] = "consumed"
  /\ bound' = [bound EXCEPT ![who[s]] = s]
  /\ Goto(s, IF s \in Tcp THEN "acking" ELSE "bound")
  /\ live' = IF s \in Http THEN live \cup {s} ELSE live
  /\ UNCHANGED <<who, ticket, existing, polling, ticketVars>>

----------------------------------------------------------------------------
\* RELAY_ACK is drained; on a lost connection drain() raises before the try
\* block is entered, and the registry entry stays.
Ack(s) ==
  /\ s \in Tcp
  /\ pc[s] = "acking"
  /\ ~LoopBusy
  /\ Goto(s, IF s \in live THEN "bound" ELSE "unacked")
  /\ UNCHANGED <<who, ticket, existing, bound, live, polling, ticketVars>>

\* connection_lost: the transport is closing from now on.
ConnectionLost(s) ==
  /\ s \in Tcp \cap live
  /\ ~LoopBusy
  /\ live' = live \ {s}
  /\ UNCHANGED <<bindVars, bound, polling, ticketVars>>

\* Mutation: the finalizer does not look whether the entry is still its own.
FinalizeUnchecked(s) ==
  /\ s \in Tcp
  /\ pc[s] = "bound"
  /\ ~LoopBusy
  /\ Goto(s, "removing")
  /\ UNCHANGED <<who, ticket, existing, bound, live, polling, ticketVars>>

\* Mutation: the entry of a connection that is already dead is left to others.
FinalizeAliveOnly(s) ==
  /\ s \in Tcp
  /\ pc[s] = "bound"
  /\ ~LoopBusy
  /\ \/ /\ bound[who[s]] = s /\ s \in live
        /\ Goto(s, "removing")
        /\ UNCHANGED live
     \/ /\ bound[who[s]] # s \/ s \notin live
        /\ Goto(s, "ended")
        /\ live' = live \ {s}
  /\ UNCHANGED <<who, ticket, existing, bound, polling, ticketVars>>

\* The frame loop ends (EOF, CLOSE, error) and the finally block asks
\* registry.get(worker_id) is session.
Finalize(s) ==
  /\ s \in Tcp
  /\ pc[s] = "bound"
  /\ ~LoopBusy
  /\ \/ /\ bound[who[s]] = s
        /\ Goto(s, "removing")
        /\ UNCHANGED live
     \/ /\ bound[who[s]] # s
        /\ Goto(s, "ended")
        /\ live' = live \ {s}
  /\ UNCHANGED <<who, ticket, existing, bound, polling, ticketVars>>

\* registry.unbind(worker_id), whoever is bound by now; a TCP session also
\* closes its writer here.
Unbind(s) ==
  /\ pc[s] = "removing"
  /\ bound' = [bound EXCEPT ![who[s]] = None]
  /\ Goto(s, "ended")
  /\ live' = live \ {s}
  /\ UNCHANGED <<who, ticket, existing, polling, ticketVars>>

\* POST /v1/relay/unbind: the token resolves to a registered session, which is
\* closed; its entry is removed by Unbind.
CloseHttp(s) ==
  /\ s \in Http
  /\ pc[s] = "bound"
  /\ bound[who[s]] = s
  /\ Goto(s, "removing")
  /\ live' = live \ {s}
  /\ UNCHANGED <<who, ticket, existing, bound, polling, ticketVars>>

\* GET /v1/relay/pull: next_call runs on the loop and stamps _last_pull when it
\* starts and when it ends.
PullStart(s) ==
  /\ s \in Http \ polling
  /\ pc[s] \in {"bound", "removing"}
  /\ bound[who[s]] = s
  /\ ~LoopBusy
  /\ polling' = polling \cup {s}
  /\ live' = IF pc[s] = "bound" THEN live \cup {s} ELSE live
  /\ UNCHANGED <<bindVars, bound, ticketVars>>

PullEnd(s) ==
  /\ s \in polling
  /\ ~LoopBusy
  /\ polling' = polling \ {s}
  /\ live' = IF pc[s] = "bound" THEN live \cup {s} ELSE live
  /\ UNCHANGED <<bindVars, bound, ticketVars>>

\* liveness_window (90 s) passes without a pull; a pull in progress (25 s) is
\* too short for that.
GoStale(s) ==
  /\ s \in (Http \cap live) \ polling
  /\ live' = live \ {s}
  /\ UNCHANGED <<bindVars, bound, polling, ticketVars>>

Expire(t) ==
  /\ t \notin expired
  /\ expired' = expired \cup {t}
  /\ UNCHANGED <<bindVars, bound, live, polling, seen, uses>>

----------------------------------------------------------------------------
\* The statements from the ticket check to the bind.
BindStep(s) ==
  \/ FindExisting(s)
  \/ ProbeExisting(s)
  \/ Admit(s)
  \/ ConsumeTicket(s)
  \/ Bind(s)

Arrive(s) == \E w \in Workers, t \in Tickets \cup {None} : VerifyTicket(s, w, t)

Next ==
  \/ \E s \in Sessions :
       \/ Arrive(s) \/ BindStep(s) \/ Unbind(s)
       \/ Ack(s) \/ ConnectionLost(s) \/ Finalize(s)
       \/ CloseHttp(s) \/ PullStart(s) \/ PullEnd(s) \/ GoStale(s)
  \/ \E t \in Tickets : Expire(t)

\* Handlers and callbacks run to their next await or return; a lost connection
\* makes the pending read return, which ends the frame loop.
Fairness ==
  \A s \in Sessions :
    /\ WF_vars(BindStep(s))
    /\ WF_vars(Ack(s))
    /\ WF_vars(s \notin live /\ Finalize(s))
    /\ WF_vars(Unbind(s))

Spec == Init /\ [][Next]_vars
FairSpec == Spec /\ Fairness

----------------------------------------------------------------------------
\* Types, and what a session's place in the protocol says about its fields.
TypeOK ==
  /\ pc \in [Sessions -> Phases]
  /\ who \in [Sessions -> Workers \cup {None}]
  /\ ticket \in [Sessions -> Tickets \cup {None}]
  /\ existing \in [Sessions -> Sessions \cup {None}]
  /\ bound \in [Workers -> Sessions \cup {None}]
  /\ live \subseteq Sessions
  /\ polling \subseteq Http
  /\ seen \subseteq Tickets
  /\ expired \subseteq Tickets
  /\ uses \in [Tickets -> SUBSET Sessions]
  /\ \A s \in Sessions : pc[s] # "new" => who[s] \in Workers

\* The registry maps a worker_id to a session of that worker whose finalizer or
\* unbind is still to come; the one entry that nobody will remove is that of a
\* TCP worker lost before its RELAY_ACK was drained.
EntryHasOwner ==
  \A w \in Registered :
    /\ who[bound[w]] = w
    /\ pc[bound[w]] \in {"acking", "bound", "removing", "unacked"}

\* A bind ticket admits one session, of the worker it was issued to, as long as
\* it has not expired: replays on either transport, after a disconnect too, are
\* refused (CHANGELOG 0.7.85).
TicketOneUseUntilExpiry ==
  \A t \in Tickets :
    /\ t \notin expired => Cardinality(uses[t]) <= 1
    /\ \A s \in uses[t] : who[s] = TicketFor[t]

\* No worker has asked for an HTTP-poll bind yet: all binding has been done on
\* the event loop.  SessionCap and NobodyElseRemoves rest on its atomicity, and fail
\* once handler threads take part.
TcpOnly == \A h \in Http : pc[h] = "new"

\* MAX_RELAY_SESSIONS bounds the registry.
SessionCap == TcpOnly => Cardinality(Registered) <= MaxSessions

\* A session that is alive is never replaced by another one.
AliveNeverDisplaced ==
  [][TcpOnly' => \A w \in Workers :
       bound[w] \in live => bound'[w] \in {bound[w], None}]_vars

\* The finally block of a TCP session removes no entry but its own.
FinalizerRemovesOwn ==
  [][TcpOnly => \A s \in Tcp :
       pc[s] = "removing" /\ pc'[s] = "ended" => bound[who[s]] = s]_vars

\* While all binding is done on the event loop, a registered session leaves the
\* registry by its own end only: no later bind displaces it while it is alive, and
\* no finalizer of an earlier session takes its entry away.
NobodyElseRemoves == AliveNeverDisplaced /\ FinalizerRemovesOwn

\* An acknowledged TCP session that lost its connection leaves the registry, and
\* with it the count that the cap looks at.
LostSessionLeaves ==
  \A s \in Tcp :
    (pc[s] \in {"bound", "removing"} /\ s \notin live)
      ~> (\A w \in Workers : bound[w] # s)
=============================================================================
