------------------------- MODULE RelayBindingProofs -------------------------
(***************************************************************************)
(* Theorems about RelayBinding, for any workers, sessions and tickets: the  *)
(* registry and ticket invariants with both transports, and the three       *)
(* guarantees that the event loop gives when no session is an HTTP one.     *)
(***************************************************************************)
EXTENDS RelayBinding, FiniteSetTheorems, TLAPS

\* The initial registry is empty and every session new.
LEMMA InitType == Init => TypeOK
BY DEF Init, TypeOK, Phases

\* Every step keeps the types of pc, who, bound and the ticket state.
LEMMA NextType == TypeOK /\ [Next]_vars => TypeOK'
<1> SUFFICES ASSUME TypeOK, [Next]_vars PROVE TypeOK'
  OBVIOUS
<1> USE SessionsAssumption, TicketAssumption DEF TypeOK, Goto, Refuse, Phases, Binding
<1>1. ASSUME NEW s \in Sessions, NEW w \in Workers, NEW t \in Tickets \cup {None}, VerifyTicket(s, w, t)
      PROVE  TypeOK'
  BY <1>1 DEF VerifyTicket, ticketVars
<1>2. ASSUME NEW s \in Sessions, FindExisting(s) PROVE TypeOK'
  BY <1>2 DEF FindExisting, ticketVars
<1>3. ASSUME NEW s \in Sessions, ProbeExisting(s) PROVE TypeOK'
  BY <1>3 DEF ProbeExisting, ticketVars
<1>4. ASSUME NEW s \in Sessions, Admit(s) PROVE TypeOK'
  BY <1>4 DEF Admit, ticketVars
<1>5. ASSUME NEW s \in Sessions, ConsumeTicket(s) PROVE TypeOK'
  BY <1>5 DEF ConsumeTicket
<1>6. ASSUME NEW s \in Sessions, Bind(s) PROVE TypeOK'
  BY <1>6 DEF Bind, ticketVars
<1>7. ASSUME NEW s \in Sessions, Ack(s) PROVE TypeOK'
  BY <1>7 DEF Ack, ticketVars
<1>8. ASSUME NEW s \in Sessions, ConnectionLost(s) \/ GoStale(s) PROVE TypeOK'
  BY <1>8 DEF ConnectionLost, GoStale, bindVars, ticketVars
<1>9. ASSUME NEW s \in Sessions, Finalize(s) \/ CloseHttp(s) PROVE TypeOK'
  BY <1>9 DEF Finalize, CloseHttp, ticketVars
<1>10. ASSUME NEW s \in Sessions, Unbind(s) PROVE TypeOK'
  BY <1>10 DEF Unbind, ticketVars
<1>11. ASSUME NEW s \in Sessions, PullStart(s) \/ PullEnd(s) PROVE TypeOK'
  BY <1>11 DEF PullStart, PullEnd, bindVars, ticketVars
<1>12. ASSUME NEW t \in Tickets, Expire(t) PROVE TypeOK'
  BY <1>12 DEF Expire, bindVars
<1>13. CASE UNCHANGED vars
  BY <1>13 DEF vars, bindVars, ticketVars
<1>14. QED
  BY <1>1, <1>2, <1>3, <1>4, <1>5, <1>6, <1>7, <1>8, <1>9, <1>10, <1>11, <1>12, <1>13
     DEF Next, Arrive, BindStep

\* Registry, replay cache and sessions keep their types (TypeOK).
THEOREM TypeCorrect == Spec => []TypeOK
BY InitType, NextType, PTL DEF Spec

----------------------------------------------------------------------------
(* Every entry belongs to a session of its worker that has not gone.        *)

\* EntryHasOwner survives every step: a session enters the registry under its
\* own worker_id only, so the finalizer and unbind look at the one entry that
\* can be theirs.
LEMMA EntryStep ==
  ASSUME TypeOK, EntryHasOwner, [Next]_vars
  PROVE  EntryHasOwner'
<1> SUFFICES ASSUME NEW x \in Workers, bound'[x] # None
             PROVE  /\ who'[bound'[x]] = x
                    /\ pc'[bound'[x]] \in {"acking", "bound", "removing", "unacked"}
  BY DEF EntryHasOwner, Registered
<1>0. bound[x] # None => /\ bound[x] \in Sessions
                         /\ who[bound[x]] = x
                         /\ pc[bound[x]] \in {"acking", "bound", "removing", "unacked"}
  BY DEF EntryHasOwner, Registered, TypeOK
<1> DEFINE Owned == /\ who'[bound'[x]] = x
                     /\ pc'[bound'[x]] \in {"acking", "bound", "removing", "unacked"}
<1> USE SessionsAssumption DEF TypeOK, Goto, Refuse
<1>1. ASSUME NEW s \in Sessions, NEW w \in Workers, NEW t \in Tickets \cup {None}, VerifyTicket(s, w, t)
      PROVE  Owned
  BY <1>0, <1>1 DEF VerifyTicket
<1>2. ASSUME NEW s \in Sessions, FindExisting(s) PROVE Owned
  BY <1>0, <1>2 DEF FindExisting
<1>3. ASSUME NEW s \in Sessions, ProbeExisting(s) PROVE Owned
  BY <1>0, <1>3 DEF ProbeExisting
<1>4. ASSUME NEW s \in Sessions, Admit(s) PROVE Owned
  BY <1>0, <1>4 DEF Admit
<1>5. ASSUME NEW s \in Sessions, ConsumeTicket(s) PROVE Owned
  BY <1>0, <1>5 DEF ConsumeTicket
<1>6. ASSUME NEW s \in Sessions, Bind(s) PROVE Owned
  BY <1>0, <1>6 DEF Bind
<1>7. ASSUME NEW s \in Sessions, Ack(s) PROVE Owned
  BY <1>0, <1>7 DEF Ack
<1>8. ASSUME NEW s \in Sessions, ConnectionLost(s) \/ GoStale(s) PROVE Owned
  BY <1>0, <1>8 DEF ConnectionLost, GoStale, bindVars
<1>9. ASSUME NEW s \in Sessions, Finalize(s) \/ CloseHttp(s) PROVE Owned
  BY <1>0, <1>9 DEF Finalize, CloseHttp
<1>10. ASSUME NEW s \in Sessions, Unbind(s) PROVE Owned
  BY <1>0, <1>10 DEF Unbind
<1>11. ASSUME NEW s \in Sessions, PullStart(s) \/ PullEnd(s) PROVE Owned
  BY <1>0, <1>11 DEF PullStart, PullEnd, bindVars
<1>12. ASSUME NEW t \in Tickets, Expire(t) PROVE Owned
  BY <1>0, <1>12 DEF Expire, bindVars
<1>13. CASE UNCHANGED vars
  BY <1>0, <1>13 DEF vars, bindVars
<1>14. QED
  BY <1>1, <1>2, <1>3, <1>4, <1>5, <1>6, <1>7, <1>8, <1>9, <1>10, <1>11, <1>12, <1>13
     DEF Next, Arrive, BindStep

\* The registry never keeps a session that finished or was refused, and never
\* under another worker's id (EntryHasOwner), on both transports.
THEOREM EntriesHaveOwners == Spec => []EntryHasOwner
<1>1. Init => EntryHasOwner
  BY DEF Init, EntryHasOwner, Registered
<1>2. TypeOK /\ EntryHasOwner /\ [Next]_vars => EntryHasOwner'
  BY EntryStep
<1>3. QED
  BY <1>1, <1>2, TypeCorrect, PTL DEF Spec

----------------------------------------------------------------------------
(* One use of a ticket until it expires.                                    *)

\* A used ticket stays in the replay cache until it expires; what a request
\* carries past the ticket check is a ticket of its own worker.
TicketInv ==
  \A t \in Tickets :
    /\ t \notin expired /\ uses[t] # {} => t \in seen
    /\ t \notin expired => \A r, s \in uses[t] : r = s
    /\ \A s \in uses[t] : who[s] = TicketFor[t] /\ pc[s] # "new"
    /\ \A s \in Sessions : ticket[s] = t => who[s] = TicketFor[t] /\ pc[s] # "new"

\* TicketInv survives every step; the purge in ConsumeTicket drops expired
\* tickets only.
LEMMA TicketStep ==
  ASSUME TypeOK, TicketInv, [Next]_vars
  PROVE  TicketInv'
<1> SUFFICES ASSUME NEW k \in Tickets
             PROVE  /\ k \notin expired' /\ uses'[k] # {} => k \in seen'
                    /\ k \notin expired' => \A r, s \in uses'[k] : r = s
                    /\ \A s \in uses'[k] : who'[s] = TicketFor[k] /\ pc'[s] # "new"
                    /\ \A s \in Sessions : ticket'[s] = k => who'[s] = TicketFor[k] /\ pc'[s] # "new"
  BY DEF TicketInv
<1> DEFINE Kept == /\ k \notin expired' /\ uses'[k] # {} => k \in seen'
                   /\ k \notin expired' => \A r, s \in uses'[k] : r = s
                   /\ \A s \in uses'[k] : who'[s] = TicketFor[k] /\ pc'[s] # "new"
                   /\ \A s \in Sessions : ticket'[s] = k => who'[s] = TicketFor[k] /\ pc'[s] # "new"
<1>0. /\ k \notin expired /\ uses[k] # {} => k \in seen
      /\ k \notin expired => \A r, s \in uses[k] : r = s
      /\ \A s \in uses[k] : s \in Sessions /\ who[s] = TicketFor[k] /\ pc[s] # "new"
      /\ \A s \in Sessions : ticket[s] = k => who[s] = TicketFor[k] /\ pc[s] # "new"
  BY DEF TicketInv, TypeOK
<1> USE TicketAssumption DEF TypeOK, Goto, Refuse
<1>1. ASSUME NEW s \in Sessions, NEW w \in Workers, NEW t \in Tickets \cup {None}, VerifyTicket(s, w, t)
      PROVE  Kept
  BY <1>0, <1>1 DEF VerifyTicket, ticketVars
<1>2. ASSUME NEW s \in Sessions, FindExisting(s) PROVE Kept
  BY <1>0, <1>2 DEF FindExisting, ticketVars
<1>3. ASSUME NEW s \in Sessions, ProbeExisting(s) PROVE Kept
  BY <1>0, <1>3 DEF ProbeExisting, ticketVars
<1>4. ASSUME NEW s \in Sessions, Admit(s) PROVE Kept
  BY <1>0, <1>4 DEF Admit, ticketVars
<1>5. ASSUME NEW s \in Sessions, ConsumeTicket(s) PROVE Kept
  BY <1>0, <1>5 DEF ConsumeTicket
<1>6. ASSUME NEW s \in Sessions, Bind(s) PROVE Kept
  BY <1>0, <1>6 DEF Bind, ticketVars
<1>7. ASSUME NEW s \in Sessions, Ack(s) PROVE Kept
  BY <1>0, <1>7 DEF Ack, ticketVars
<1>8. ASSUME NEW s \in Sessions, ConnectionLost(s) \/ GoStale(s) PROVE Kept
  BY <1>0, <1>8 DEF ConnectionLost, GoStale, bindVars, ticketVars
<1>9. ASSUME NEW s \in Sessions, Finalize(s) \/ CloseHttp(s) PROVE Kept
  BY <1>0, <1>9 DEF Finalize, CloseHttp, ticketVars
<1>10. ASSUME NEW s \in Sessions, Unbind(s) PROVE Kept
  BY <1>0, <1>10 DEF Unbind, ticketVars
<1>11. ASSUME NEW s \in Sessions, PullStart(s) \/ PullEnd(s) PROVE Kept
  BY <1>0, <1>11 DEF PullStart, PullEnd, bindVars, ticketVars
<1>12. ASSUME NEW t \in Tickets, Expire(t) PROVE Kept
  BY <1>0, <1>12 DEF Expire, bindVars
<1>13. CASE UNCHANGED vars
  BY <1>0, <1>13 DEF vars, bindVars, ticketVars
<1>14. QED
  BY <1>1, <1>2, <1>3, <1>4, <1>5, <1>6, <1>7, <1>8, <1>9, <1>10, <1>11, <1>12, <1>13
     DEF Next, Arrive, BindStep

\* A set without two different members has at most one.
LEMMA AtMostOne ==
  ASSUME NEW S, \A r, s \in S : r = s
  PROVE  Cardinality(S) <= 1
<1>1. CASE S = {}
  BY <1>1, FS_EmptySet
<1>2. CASE S # {}
  <2>1. PICK x \in S : TRUE
    BY <1>2
  <2>2. S = {x}
    BY <2>1
  <2>3. QED
    BY <2>2, FS_Singleton
<1>3. QED
  BY <1>1, <1>2

\* Until it expires, a bind ticket admits one session, of its own worker,
\* whatever the transports, disconnects and replays (TicketOneUseUntilExpiry).
THEOREM TicketsAdmitOnce == Spec => []TicketOneUseUntilExpiry
<1>1. Init => TicketInv
  BY TicketAssumption DEF Init, TicketInv
<1>2. TypeOK /\ TicketInv /\ [Next]_vars => TicketInv'
  BY TicketStep
<1>3. TicketInv => TicketOneUseUntilExpiry
  BY AtMostOne DEF TicketInv, TicketOneUseUntilExpiry
<1>4. QED
  BY <1>1, <1>2, <1>3, TypeCorrect, PTL DEF Spec

----------------------------------------------------------------------------
(* Without HTTP sessions the event loop makes check and bind one step.      *)

\* Between two awaits.
Critical == Binding \cup {"removing"}

\* One handler at a time is between two awaits, and what it has read still
\* holds: the existing session, that it is dead, the free slot, and that the
\* entry it removes is its own.
LoopInv ==
  \A s \in Tcp :
    /\ pc[s] \in Critical => \A r \in Tcp \ {s} : pc[r] \notin Critical
    /\ pc[s] \in {"found", "probed", "admitted", "consumed"} => existing[s] = bound[who[s]]
    /\ pc[s] \in {"probed", "admitted", "consumed"} => bound[who[s]] \notin live
    /\ pc[s] \in {"admitted", "consumed"} => ~AtCapacity(who[s])
    /\ pc[s] = "removing" => bound[who[s]] = s

\* A step that changes neither the registry nor adds to the live sessions, and
\* moves no session into a critical stretch, keeps LoopInv.
LEMMA LoopFrame ==
  ASSUME TypeOK, LoopInv,
         UNCHANGED <<who, existing, bound>>, live' \subseteq live,
         \A s \in Tcp : pc'[s] \in Critical => pc'[s] = pc[s]
  PROVE  LoopInv'
<1>1. \A w : AtCapacity(w)' = AtCapacity(w)
  BY DEF AtCapacity, Registered
<1>2. SUFFICES ASSUME NEW s \in Tcp, pc'[s] \in Critical
      PROVE  /\ \A r \in Tcp \ {s} : pc'[r] \notin Critical
             /\ pc[s] \in {"found", "probed", "admitted", "consumed"} => existing[s] = bound[who[s]]
             /\ pc[s] \in {"probed", "admitted", "consumed"} => bound[who[s]] \notin live'
             /\ pc[s] \in {"admitted", "consumed"} => ~AtCapacity(who[s])
             /\ pc[s] = "removing" => bound[who[s]] = s
  BY <1>1 DEF LoopInv, Critical, Binding
<1>3. QED
  BY <1>2 DEF LoopInv

\* While no HTTP bind has been asked for, only TCP sessions change anything but
\* the set of live sessions.
LEMMA HttpIdle ==
  ASSUME TypeOK, TcpOnly', NEW h \in Http,
         Arrive(h) \/ BindStep(h) \/ Unbind(h) \/ CloseHttp(h) \/ PullStart(h)
           \/ PullEnd(h) \/ GoStale(h)
  PROVE  UNCHANGED <<pc, who, existing, bound>> /\ live' \subseteq live
<1> USE SessionsAssumption DEF TypeOK, Goto, Refuse, Sessions
<1>1. pc'[h] = "new"
  BY DEF TcpOnly
<1>2. ASSUME Arrive(h) PROVE FALSE
  BY <1>1, <1>2 DEF Arrive, VerifyTicket
<1>3. ASSUME BindStep(h) PROVE FALSE
  BY <1>1, <1>3 DEF BindStep, FindExisting, ProbeExisting, Admit, ConsumeTicket, Bind
<1>4. ASSUME Unbind(h) \/ CloseHttp(h) PROVE FALSE
  BY <1>1, <1>4 DEF Unbind, CloseHttp
<1>5. ASSUME PullStart(h) \/ PullEnd(h) \/ GoStale(h)
      PROVE  UNCHANGED <<pc, who, existing, bound>> /\ live' \subseteq live
  BY <1>1, <1>5 DEF PullStart, PullEnd, GoStale, bindVars
<1>6. QED
  BY <1>2, <1>3, <1>4, <1>5

\* A relay never goes back to having seen no HTTP bind.
LEMMA TcpOnlyBefore ==
  ASSUME TypeOK, [Next]_vars, TcpOnly'
  PROVE  TcpOnly
<1> USE SessionsAssumption DEF TypeOK, Goto, Refuse, Sessions
<1>1. SUFFICES ASSUME NEW h \in Http, pc[h] # "new" PROVE pc'[h] # "new"
  BY DEF TcpOnly
<1>2. ASSUME NEW s \in Sessions, Arrive(s) PROVE pc'[h] # "new"
  BY <1>1, <1>2 DEF Arrive, VerifyTicket
<1>3. ASSUME NEW s \in Sessions, BindStep(s) PROVE pc'[h] # "new"
  BY <1>1, <1>3 DEF BindStep, FindExisting, ProbeExisting, Admit, ConsumeTicket, Bind
<1>4. ASSUME NEW s \in Sessions, Unbind(s) \/ Ack(s) \/ Finalize(s) \/ CloseHttp(s)
      PROVE  pc'[h] # "new"
  BY <1>1, <1>4 DEF Unbind, Ack, Finalize, CloseHttp
<1>5. ASSUME UNCHANGED pc PROVE pc'[h] # "new"
  BY <1>1, <1>5
<1>6. QED
  BY <1>2, <1>3, <1>4, <1>5
     DEF Next, ConnectionLost, PullStart, PullEnd, GoStale, Expire, bindVars, vars

\* LoopInv survives every step until an HTTP bind is asked for.
LEMMA LoopStep ==
  ASSUME TypeOK, LoopInv, [Next]_vars, TcpOnly'
  PROVE  LoopInv'
<1> USE SessionsAssumption DEF TypeOK, Goto, Refuse, Sessions
<1>0. ASSUME bound' = bound
      PROVE  \A w : AtCapacity(w)' = AtCapacity(w)
  BY <1>0 DEF AtCapacity, Registered
<1>1. ASSUME NEW s \in Tcp, NEW w \in Workers, NEW t \in Tickets \cup {None}, VerifyTicket(s, w, t)
      PROVE  LoopInv'
  <2>1. \A r \in Tcp \ {s} : pc[r] \notin Critical /\ pc'[r] = pc[r]
    BY <1>1 DEF VerifyTicket, MayRun, Critical
  <2>2. pc'[s] \in {"refused", "verified"}
    BY <1>1 DEF VerifyTicket
  <2>3. QED
    BY <2>1, <2>2 DEF LoopInv, Critical, Binding
<1>2. ASSUME NEW s \in Tcp, FindExisting(s) PROVE LoopInv'
  <2>1. \A r \in Tcp \ {s} : pc[r] \notin Critical /\ pc'[r] = pc[r]
    BY <1>2 DEF FindExisting, LoopInv, Critical, Binding
  <2>2. pc'[s] = "found" /\ existing'[s] = bound'[who'[s]]
    BY <1>2 DEF FindExisting
  <2>3. QED
    BY <2>1, <2>2 DEF LoopInv, Critical, Binding
<1>3. ASSUME NEW s \in Tcp, ProbeExisting(s) PROVE LoopInv'
  <2>1. \A r \in Tcp \ {s} : pc[r] \notin Critical /\ pc'[r] = pc[r]
    BY <1>3 DEF ProbeExisting, LoopInv, Critical, Binding
  <2>2. \/ pc'[s] = "refused"
        \/ /\ pc'[s] = "probed"
           /\ existing'[s] = bound'[who'[s]]
           /\ bound'[who'[s]] \notin live'
    BY <1>3 DEF ProbeExisting, LoopInv
  <2>3. QED
    BY <2>1, <2>2 DEF LoopInv, Critical, Binding
<1>4. ASSUME NEW s \in Tcp, Admit(s) PROVE LoopInv'
  <2>1. \A r \in Tcp \ {s} : pc[r] \notin Critical /\ pc'[r] = pc[r]
    BY <1>4 DEF Admit, LoopInv, Critical, Binding
  <2>2. \/ pc'[s] = "refused"
        \/ /\ pc'[s] = "admitted"
           /\ existing'[s] = bound'[who'[s]]
           /\ bound'[who'[s]] \notin live'
           /\ ~AtCapacity(who[s]) /\ who'[s] = who[s] /\ bound' = bound
    BY <1>4 DEF Admit, LoopInv
  <2>3. QED
    BY <1>0, <2>1, <2>2 DEF LoopInv, Critical, Binding
<1>5. ASSUME NEW s \in Tcp, ConsumeTicket(s) PROVE LoopInv'
  <2>1. \A r \in Tcp \ {s} : pc[r] \notin Critical /\ pc'[r] = pc[r]
    BY <1>5 DEF ConsumeTicket, LoopInv, Critical, Binding
  <2>2. \/ pc'[s] = "refused"
        \/ /\ pc'[s] = "consumed"
           /\ existing'[s] = bound'[who'[s]]
           /\ bound'[who'[s]] \notin live'
           /\ ~AtCapacity(who[s]) /\ who'[s] = who[s] /\ bound' = bound
    BY <1>5 DEF ConsumeTicket, LoopInv
  <2>3. QED
    BY <1>0, <2>1, <2>2 DEF LoopInv, Critical, Binding
<1>6. ASSUME NEW s \in Tcp, Bind(s) \/ Unbind(s) PROVE LoopInv'
  <2>1. \A r \in Tcp \ {s} : pc[r] \notin Critical /\ pc'[r] = pc[r]
    BY <1>6 DEF Bind, Unbind, LoopInv, Critical, Binding
  <2>2. pc'[s] \in {"acking", "ended"}
    BY <1>6 DEF Bind, Unbind
  <2>3. QED
    BY <2>1, <2>2 DEF LoopInv, Critical, Binding
<1>7. ASSUME NEW s \in Tcp, Finalize(s) PROVE LoopInv'
  <2>1. \A r \in Tcp \ {s} : pc[r] \notin Critical /\ pc'[r] = pc[r]
    BY <1>7 DEF Finalize, LoopBusy, Critical
  <2>2. \/ pc'[s] = "ended"
        \/ pc'[s] = "removing" /\ bound'[who'[s]] = s
    BY <1>7 DEF Finalize
  <2>3. QED
    BY <2>1, <2>2 DEF LoopInv, Critical, Binding
<1>8. ASSUME NEW s \in Tcp, Ack(s) PROVE LoopInv'
  BY <1>8, LoopFrame DEF Ack, Critical, Binding
<1>9. ASSUME NEW s \in Tcp, ConnectionLost(s) PROVE LoopInv'
  BY <1>9, LoopFrame DEF ConnectionLost, bindVars
<1>10. ASSUME NEW t \in Tickets, Expire(t) PROVE LoopInv'
  BY <1>10, LoopFrame DEF Expire, bindVars
<1>11. CASE UNCHANGED vars
  BY <1>11, LoopFrame DEF vars, bindVars
<1>12. ASSUME NEW h \in Http,
              Arrive(h) \/ BindStep(h) \/ Unbind(h) \/ CloseHttp(h) \/ PullStart(h)
                \/ PullEnd(h) \/ GoStale(h)
       PROVE  LoopInv'
  <2>1. UNCHANGED <<pc, who, existing, bound>> /\ live' \subseteq live
    BY <1>12, HttpIdle
  <2>2. QED
    BY <2>1, LoopFrame
<1>13. ASSUME NEW s \in Tcp, Arrive(s) \/ BindStep(s) \/ Unbind(s) PROVE LoopInv'
  BY <1>1, <1>2, <1>3, <1>4, <1>5, <1>6, <1>13 DEF Arrive, BindStep
<1>14. QED
  BY <1>7, <1>8, <1>9, <1>10, <1>11, <1>12, <1>13
     DEF Next, Ack, ConnectionLost, Finalize, CloseHttp, PullStart, PullEnd, GoStale

\* LoopInv holds until an HTTP bind is asked for.
LEMMA LoopInvariant == Spec => [](TcpOnly => LoopInv)
<1>1. Init => LoopInv
  BY DEF Init, LoopInv, Critical, Binding, Sessions
<1>2. TypeOK /\ (TcpOnly => LoopInv) /\ [Next]_vars => (TcpOnly => LoopInv)'
  BY LoopStep, TcpOnlyBefore
<1>3. QED
  BY <1>1, <1>2, TypeCorrect, PTL DEF Spec

\* What each step may do to the registry: bind one session, remove one entry,
\* or leave it alone.
LEMMA RegistrySteps ==
  ASSUME [Next]_vars
  PROVE  \/ UNCHANGED bound
         \/ \E s \in Sessions : Bind(s)
         \/ \E s \in Sessions : Unbind(s)
BY DEF Next, Arrive, BindStep, VerifyTicket, FindExisting, ProbeExisting, Admit,
       ConsumeTicket, Ack, ConnectionLost, Finalize, CloseHttp, PullStart, PullEnd,
       GoStale, Expire, vars

\* One bind keeps the registry within the cap, since the slot that at_capacity
\* saw is still free.
LEMMA CapStep ==
  ASSUME TypeOK, LoopInv, TcpOnly, TcpOnly', SessionCap, [Next]_vars
  PROVE  SessionCap'
<1> USE MaxAssumption, FiniteAssumption, SessionsAssumption
<1>0. /\ IsFiniteSet(Registered)
      /\ Cardinality(Registered) \in Nat
      /\ Cardinality(Registered) <= MaxSessions
  BY FS_Subset, FS_CardinalityType DEF Registered, SessionCap
<1>1. CASE UNCHANGED bound
  BY <1>0, <1>1 DEF SessionCap, Registered
<1>2. ASSUME NEW s \in Sessions, Bind(s) PROVE SessionCap'
  <2>1. s \in Tcp /\ pc[s] = "consumed" /\ who[s] \in Workers
    BY <1>2 DEF Bind, Sessions, TypeOK, TcpOnly
  <2>2. Registered' = Registered \cup {who[s]}
    BY <1>2, <2>1 DEF Bind, Registered, TypeOK
  <2>3. who[s] \in Registered \/ Cardinality(Registered) < MaxSessions
    BY <1>0, <2>1 DEF LoopInv, AtCapacity
  <2>4. /\ who[s] \in Registered => Cardinality(Registered') = Cardinality(Registered)
        /\ who[s] \notin Registered => Cardinality(Registered') = Cardinality(Registered) + 1
    BY <1>0, <2>2, FS_AddElement
  <2>5. QED
    BY <1>0, <2>3, <2>4 DEF SessionCap
<1>3. ASSUME NEW s \in Sessions, Unbind(s) PROVE SessionCap'
  <2>1. Registered' \subseteq Registered
    BY <1>3 DEF Unbind, Registered, TypeOK
  <2>2. Cardinality(Registered') <= Cardinality(Registered) /\ Cardinality(Registered') \in Nat
    BY <1>0, <2>1, FS_Subset, FS_CardinalityType
  <2>3. QED
    BY <1>0, <2>2 DEF SessionCap
<1>4. QED
  BY <1>1, <1>2, <1>3, RegistrySteps

\* As long as it serves TCP workers only, the relay never holds more than
\* MaxSessions sessions (SessionCap).
THEOREM TcpSessionCap == Spec => []SessionCap
<1>1. Init => SessionCap
  <2>1. Init => Registered = {}
    BY DEF Init, Registered
  <2>2. QED
    BY <2>1, FS_EmptySet, MaxAssumption DEF SessionCap
<1>2. TypeOK /\ (TcpOnly => LoopInv) /\ SessionCap /\ [Next]_vars => SessionCap'
  <2>1. SUFFICES ASSUME TypeOK, TcpOnly => LoopInv, SessionCap, [Next]_vars, TcpOnly'
                 PROVE  SessionCap'
    BY DEF SessionCap
  <2>2. QED
    BY <2>1, CapStep, TcpOnlyBefore
<1>3. QED
  BY <1>1, <1>2, LoopInvariant, TypeCorrect, PTL DEF Spec

\* As long as that holds no bind displaces an alive session
\* (AliveNeverDisplaced).
THEOREM TcpAliveNeverDisplaced == Spec => AliveNeverDisplaced
<1>1. ASSUME TypeOK, TcpOnly => LoopInv, [Next]_vars, TcpOnly',
             NEW w \in Workers, bound[w] \in live
      PROVE  bound'[w] \in {bound[w], None}
  <2>0. TcpOnly /\ LoopInv
    BY <1>1, TcpOnlyBefore
  <2>1. ASSUME NEW s \in Sessions, Bind(s) PROVE bound'[w] = bound[w]
    <3>1. s \in Tcp
      BY <2>0, <2>1 DEF Bind, Sessions, TcpOnly
    <3>2. QED
      BY <1>1, <2>0, <2>1, <3>1 DEF Bind, LoopInv, TypeOK
  <2>2. ASSUME NEW s \in Sessions, Unbind(s) PROVE bound'[w] \in {bound[w], None}
    BY <1>1, <2>2 DEF Unbind, TypeOK
  <2>3. QED
    BY <1>1, <2>1, <2>2, RegistrySteps
<1>2. TypeOK /\ (TcpOnly => LoopInv) /\ [Next]_vars
        => [TcpOnly' => \A w \in Workers : bound[w] \in live => bound'[w] \in {bound[w], None}]_vars
  BY <1>1
<1>3. QED
  BY <1>2, LoopInvariant, TypeCorrect, PTL DEF Spec, AliveNeverDisplaced

\* As long as that holds the finally block of a session removes its own entry
\* only (FinalizerRemovesOwn).
THEOREM TcpFinalizerRemovesOwn == Spec => FinalizerRemovesOwn
<1>1. (TcpOnly => LoopInv) /\ [Next]_vars
        => [TcpOnly => \A s \in Tcp :
              pc[s] = "removing" /\ pc'[s] = "ended" => bound[who[s]] = s]_vars
  BY DEF LoopInv
<1>2. QED
  BY <1>1, LoopInvariant, PTL DEF Spec, FinalizerRemovesOwn

\* Among workers bound on the event loop, sessions leave the registry by their own
\* end only, for any number of workers, sessions and tickets.
THEOREM SessionsLeaveByThemselves == Spec => NobodyElseRemoves
BY TcpAliveNeverDisplaced, TcpFinalizerRemovesOwn DEF NobodyElseRemoves
=============================================================================
