--------------------- MODULE LifecyclePersistenceProofs ---------------------
(***************************************************************************)
(* The durable lifecycle store, for any number of tasks, keys, processes    *)
(* and observers and any replay window: its tables agree, keys stay bound,  *)
(* it implements the lifecycle of TaskLifecycle, and observers miss nothing *)
(* without being told.                                                      *)
(***************************************************************************)
EXTENDS LifecyclePersistence, TLAPS

\* The transition table leads from states to states, and nowhere from a
\* terminal one.
LEMMA TransitionsType ==
  /\ \A s \in States : Transitions[s] \subseteq States
  /\ \A s \in TerminalStates : Transitions[s] = {}
  /\ "unknown" \notin States
BY DEF Transitions, States, TerminalStates, ActiveStates, Stops

\* What one transaction of transition does to a known task's row.
LEMMA WriteType ==
  ASSUME TypeOK, LogMatchesRow, NEW t \in Tasks, NEW s, row[t] # Absent, Write(t, s)
  PROVE  /\ s \in States
         /\ row[t].state \in States
         /\ row' = [row EXCEPT ![t] = [key |-> row[t].key, state |-> s, latest |-> row[t].latest + 1]]
         /\ row' \in [Tasks -> Row]
         /\ log' \in [Tasks -> SUBSET [seq : Nat, state : States]]
<1>1. row[t].state \in States /\ row[t] \in Row
  BY DEF LogMatchesRow, TypeOK
<1>2. s \in States
  BY <1>1, TransitionsType DEF Write
<1>3. row' = [row EXCEPT ![t] = [key |-> row[t].key, state |-> s, latest |-> row[t].latest + 1]]
  BY <1>1 DEF Write, TypeOK, Row
<1>4. row' \in [Tasks -> Row]
  BY <1>1, <1>2, <1>3 DEF TypeOK, Row
<1>5. Event(row[t].latest + 1, s) \in [seq : Nat, state : States]
  BY <1>1, <1>2 DEF Event, Row
<1>6. log' \in [Tasks -> SUBSET [seq : Nat, state : States]]
  <2> DEFINE n == row[t].latest + 1
             E == {e \in log[t] \cup {Event(n, s)} : e.seq >= n - MaxEvents + 1}
  <2>1. log' = [log EXCEPT ![t] = E]
    BY DEF Write
  <2>2. E \subseteq [seq : Nat, state : States]
    BY <1>5 DEF TypeOK
  <2> QED BY <2>1, <2>2 DEF TypeOK
<1> QED BY <1>1, <1>2, <1>3, <1>4, <1>6

\* Writing an event keeps the event table in step with the task table.
LEMMA WriteKeepsLog ==
  ASSUME TypeOK, LogMatchesRow, NEW t \in Tasks, NEW s, row[t] # Absent, Write(t, s)
  PROVE  LogMatchesRow'
<1> DEFINE n == row[t].latest + 1
           R == [key |-> row[t].key, state |-> s, latest |-> n]
           E == {e \in log[t] \cup {Event(n, s)} : e.seq >= n - MaxEvents + 1}
<1>1. row' = [row EXCEPT ![t] = R] /\ s \in States
  BY WriteType
<1>2. log' = [log EXCEPT ![t] = E]
  BY DEF Write
<1>3. row[t].latest \in Nat /\ row[t].key \in Keys
  BY DEF TypeOK, Row, LogMatchesRow
<1>4. Sequences(t) = Oldest(row[t].latest)..row[t].latest
  BY DEF LogMatchesRow
<1>5. \A e \in log[t] : e.seq \in Oldest(row[t].latest)..row[t].latest
  BY <1>4 DEF Sequences
<1>6. \A m \in Oldest(row[t].latest)..row[t].latest : \E e \in log[t] : e.seq = m
  BY <1>4 DEF Sequences
<1>7. Event(n, s).seq = n /\ Event(n, s).state = s
  BY DEF Event
<1>8. {e.seq : e \in E} = Oldest(n)..n
  <2>1. ASSUME NEW e \in E PROVE e.seq \in Oldest(n)..n
    BY <1>3, <1>5, <1>7, <2>1, MaxEventsAssumption DEF Oldest
  <2>2. ASSUME NEW m \in Oldest(n)..n PROVE \E e \in E : e.seq = m
    <3>1. CASE m = n
      <4>1. Event(n, s) \in E
        BY <1>3, <1>7, MaxEventsAssumption
      <4> QED BY <3>1, <4>1, <1>7
    <3>2. CASE m # n
      <4>1. m \in Oldest(row[t].latest)..row[t].latest /\ m >= n - MaxEvents + 1
        BY <1>3, <3>2, MaxEventsAssumption DEF Oldest
      <4>2. PICK e \in log[t] : e.seq = m
        BY <1>6, <4>1
      <4> QED BY <4>1, <4>2
    <3> QED BY <3>1, <3>2
  <2> QED BY <2>1, <2>2
<1>9. \A e, f \in E : e.seq = f.seq => e = f
  <2> SUFFICES ASSUME NEW e \in E, NEW f \in E, e.seq = f.seq PROVE e = f
    OBVIOUS
  <2>1. CASE e \in log[t] /\ f \in log[t]
    BY <2>1 DEF LogMatchesRow
  <2>2. CASE e = Event(n, s) /\ f \in log[t]
    BY <2>2, <1>3, <1>5, <1>7 DEF Oldest
  <2>3. CASE f = Event(n, s) /\ e \in log[t]
    BY <2>3, <1>3, <1>5, <1>7 DEF Oldest
  <2> QED BY <2>1, <2>2, <2>3
<1>10. Event(n, s) \in E
  BY <1>3, <1>7, MaxEventsAssumption
<1>11. ASSUME NEW u \in Tasks, u # t PROVE row'[u] = row[u] /\ log'[u] = log[u]
  BY <1>1, <1>2, <1>11 DEF TypeOK
<1>12. row'[t] = R /\ log'[t] = E /\ Absent' = Absent
  BY <1>1, <1>2 DEF TypeOK, Absent
<1>13. R # Absent
  BY <1>1, TransitionsType DEF Absent
<1>14. R.state = s /\ R.key = row[t].key /\ R.latest = n
  OBVIOUS
<1> SUFFICES ASSUME NEW u \in Tasks
             PROVE IF row'[u] = Absent
                   THEN log'[u] = {}
                   ELSE /\ row'[u].state \in States /\ row'[u].key \in Keys
                        /\ {e.seq : e \in log'[u]} = Oldest(row'[u].latest)..row'[u].latest
                        /\ \A e, f \in log'[u] : e.seq = f.seq => e = f
                        /\ Event(row'[u].latest, row'[u].state) \in log'[u]
  BY <1>12 DEF LogMatchesRow, Sequences, Oldest, Event
<1>15. CASE u = t
  BY <1>1, <1>3, <1>8, <1>9, <1>10, <1>12, <1>13, <1>14, <1>15
<1>16. CASE u # t
  BY <1>11, <1>16 DEF LogMatchesRow, Sequences
<1> QED BY <1>15, <1>16

----------------------------------------------------------------------------
(* Types, tables and keys                                                   *)

StoreInv == TypeOK /\ LogMatchesRow /\ KeysBound

\* Purging a task leaves the other tasks alone and this one without a trace.
LEMMA PurgeKeeps ==
  ASSUME StoreInv, NEW t \in Tasks, Purge(t)
  PROVE  /\ row' \in [Tasks -> Row]
         /\ log' \in [Tasks -> SUBSET [seq : Nat, state : States]]
         /\ ttlPassed' \in [Tasks -> BOOLEAN]
         /\ lives' \in [Tasks -> Nat]
         /\ LogMatchesRow'
         /\ KeysBound'
<1> USE DEF StoreInv, TypeOK, Purge
<1>1. Absent \in Row /\ Absent.key = None
  BY DEF Absent, Row
<1>2. row'[t] = Absent /\ log'[t] = {} /\ Absent' = Absent
  BY DEF Absent
<1>3. ASSUME NEW u \in Tasks, u # t PROVE row'[u] = row[u] /\ log'[u] = log[u]
  BY <1>3
<1>4. LogMatchesRow'
  <2> SUFFICES ASSUME NEW u \in Tasks
               PROVE IF row'[u] = Absent
                     THEN log'[u] = {}
                     ELSE /\ row'[u].state \in States /\ row'[u].key \in Keys
                          /\ {e.seq : e \in log'[u]} = Oldest(row'[u].latest)..row'[u].latest
                          /\ \A e, f \in log'[u] : e.seq = f.seq => e = f
                          /\ Event(row'[u].latest, row'[u].state) \in log'[u]
    BY <1>2 DEF LogMatchesRow, Sequences, Oldest, Event
  <2>1. CASE u = t
    BY <1>2, <2>1
  <2>2. CASE u # t
    BY <1>3, <2>2 DEF LogMatchesRow, Sequences
  <2> QED BY <2>1, <2>2
<1>5. KeysBound'
  BY <1>1, <1>2, <1>3 DEF KeysBound
<1> QED BY <1>1, <1>4, <1>5

\* Writing an event changes no key.
LEMMA WriteKeepsKeys ==
  ASSUME StoreInv, NEW t \in Tasks, NEW s, row[t] # Absent, Write(t, s)
  PROVE  KeysBound'
<1>1. row' = [row EXCEPT ![t] = [key |-> row[t].key, state |-> s, latest |-> row[t].latest + 1]]
  BY WriteType DEF StoreInv
<1>2. \A u \in Tasks : row'[u].key = row[u].key
  BY <1>1 DEF StoreInv, TypeOK
<1> QED BY <1>2 DEF StoreInv, KeysBound

\* Steps that leave the two tables alone leave what relates them alone.
LEMMA TablesUnchanged ==
  ASSUME StoreInv, UNCHANGED <<row, log>>
  PROVE  LogMatchesRow' /\ KeysBound'
<1>1. \A t \in Tasks : Sequences(t)' = Sequences(t)
  BY DEF Sequences
<1> QED BY <1>1 DEF StoreInv, LogMatchesRow, KeysBound, Oldest, Event, Absent

\* Every transaction, cancel step and poll keeps types, tables and keys.
LEMMA StoreStep ==
  ASSUME StoreInv, [Next]_vars
  PROVE  StoreInv'
<1>1. ASSUME NEW t \in Tasks, NEW k \in Keys, Submit(t, k) PROVE StoreInv'
  <2> DEFINE R == [key |-> k, state |-> "accepted", latest |-> 0]
  <2>1. row' = [row EXCEPT ![t] = R] /\ log' = [log EXCEPT ![t] = {Event(0, "accepted")}]
    BY <1>1 DEF Submit
  <2>2. "accepted" \in States /\ Event(0, "accepted") \in [seq : Nat, state : States]
    BY DEF States, ActiveStates, Event
  <2>3. TypeOK'
    BY <1>1, <2>1, <2>2 DEF Submit, StoreInv, TypeOK, Row, cancelVars, observerVars
  <2>4. ASSUME NEW u \in Tasks, u # t PROVE row'[u] = row[u] /\ log'[u] = log[u]
    BY <2>1, <2>4 DEF StoreInv, TypeOK
  <2>5. row'[t] = R /\ log'[t] = {Event(0, "accepted")} /\ Absent' = Absent
    BY <2>1 DEF StoreInv, TypeOK, Absent
  <2>6. R # Absent /\ R.state = "accepted" /\ R.latest = 0 /\ R.key = k
    BY DEF Absent
  <2>7. Oldest(0)..0 = {0} /\ Event(0, "accepted").seq = 0
    BY MaxEventsAssumption DEF Oldest, Event
  <2>8. LogMatchesRow'
    <3> SUFFICES ASSUME NEW u \in Tasks
                 PROVE IF row'[u] = Absent
                       THEN log'[u] = {}
                       ELSE /\ row'[u].state \in States /\ row'[u].key \in Keys
                            /\ {e.seq : e \in log'[u]} = Oldest(row'[u].latest)..row'[u].latest
                            /\ \A e, f \in log'[u] : e.seq = f.seq => e = f
                            /\ Event(row'[u].latest, row'[u].state) \in log'[u]
      BY <2>5 DEF LogMatchesRow, Sequences, Oldest, Event
    <3>1. CASE u = t
      BY <2>2, <2>5, <2>6, <2>7, <3>1
    <3>2. CASE u # t
      BY <2>4, <3>2 DEF StoreInv, LogMatchesRow, Sequences
    <3> QED BY <3>1, <3>2
  <2>9. KeysBound'
    BY <1>1, <2>4, <2>5, <2>6 DEF Submit, StoreInv, KeysBound
  <2> QED BY <2>3, <2>8, <2>9 DEF StoreInv
<1>2. ASSUME NEW t \in Tasks, NEW s \in States \cup {"timed_out"}, Transition(t, s)
      PROVE StoreInv'
  <2>1. row[t] # Absent /\ Write(t, Canonical(s)) /\ UNCHANGED <<cancelVars, observerVars>>
    BY <1>2 DEF Transition
  <2>2. TypeOK'
    <3>1. row' \in [Tasks -> Row] /\ log' \in [Tasks -> SUBSET [seq : Nat, state : States]]
      BY <2>1, WriteType DEF StoreInv
    <3> QED BY <2>1, <3>1 DEF Write, StoreInv, TypeOK, cancelVars, observerVars
  <2> QED BY <2>1, <2>2, WriteKeepsLog, WriteKeepsKeys DEF StoreInv
<1>3. ASSUME NEW t \in Tasks, Status(t) PROVE StoreInv'
  BY <1>3, PurgeKeeps DEF Status, StoreInv, TypeOK, cancelVars, observerVars
<1>4. ASSUME NEW t \in Tasks, TtlPasses(t) PROVE StoreInv'
  BY <1>4, TablesUnchanged DEF TtlPasses, StoreInv, TypeOK, cancelVars, observerVars
<1>5. ASSUME NEW p \in Procs, NEW t \in Tasks, CancelRead(p, t) PROVE StoreInv'
  <2>1. CASE Purge(t) /\ UNCHANGED cancelVars
    BY <1>5, <2>1, PurgeKeeps DEF CancelRead, StoreInv, TypeOK, cancelVars, observerVars
  <2>2. CASE UNCHANGED storeVars
    <3>1. row[t].state \in States \cup {"unknown"} /\ lives[t] \in Nat
      BY DEF StoreInv, TypeOK, Row
    <3>2. /\ pc' \in [Procs -> {"idle", "hook", "write", "reread"}]
          /\ target' \in [Procs -> Tasks \cup {None}]
          /\ \A q \in Procs : pc'[q] # "idle" => target'[q] \in Tasks
      BY <1>5, <2>2 DEF CancelRead, StoreInv, TypeOK, cancelVars
    <3>3. ended' \in [Procs -> [life : Nat, state : States \cup {"unknown"}]]
      BY <1>5, <2>2, <3>1 DEF CancelRead, StoreInv, TypeOK, cancelVars
    <3> QED BY <1>5, <2>2, <3>2, <3>3, TablesUnchanged
            DEF CancelRead, StoreInv, TypeOK, observerVars, storeVars
  <2> QED BY <1>5, <2>1, <2>2 DEF CancelRead
<1>6. ASSUME NEW p \in Procs, CancelHook(p) \/ CancelReturn(p) \/ CancelAborts(p)
      PROVE StoreInv'
  <2>1. /\ pc' \in [Procs -> {"idle", "hook", "write", "reread"}]
        /\ target' \in [Procs -> Tasks \cup {None}]
        /\ \A q \in Procs : pc'[q] # "idle" => target'[q] \in Tasks
        /\ ended' \in [Procs -> [life : Nat, state : States \cup {"unknown"}]]
        /\ UNCHANGED observerVars
    <3>1. CASE CancelHook(p)
      BY <3>1 DEF CancelHook, StoreInv, TypeOK
    <3>2. CASE CancelEnds(p) /\ UNCHANGED observerVars
      <4>1. NoEnd \in [life : Nat, state : States \cup {"unknown"}]
        BY DEF NoEnd
      <4>2. ended' \in [Procs -> [life : Nat, state : States \cup {"unknown"}]]
        BY <3>2, <4>1 DEF CancelEnds, StoreInv, TypeOK
      <4> QED BY <3>2, <4>2 DEF CancelEnds, StoreInv, TypeOK
    <3> QED BY <1>6, <3>1, <3>2 DEF CancelReturn, CancelAborts
  <2>2. CASE UNCHANGED storeVars
    BY <2>1, <2>2, TablesUnchanged DEF StoreInv, TypeOK, observerVars, storeVars
  <2>3. CASE pc[p] = "reread" /\ Purge(target[p])
    <3>1. target[p] \in Tasks
      BY <2>3 DEF StoreInv, TypeOK
    <3> QED BY <2>1, <2>3, <3>1, PurgeKeeps DEF StoreInv, TypeOK, observerVars
  <2> QED BY <1>6, <2>2, <2>3 DEF CancelHook, CancelReturn, CancelAborts
<1>7. ASSUME NEW p \in Procs, CancelWrite(p) PROVE StoreInv'
  <2> DEFINE t == target[p]
  <2>1. t \in Tasks /\ row[t] # Absent /\ Write(t, "cancelled")
    BY <1>7 DEF CancelWrite, StoreInv, TypeOK
  <2>2. row' \in [Tasks -> Row] /\ log' \in [Tasks -> SUBSET [seq : Nat, state : States]]
    BY <2>1, WriteType DEF StoreInv
  <2>3. ended' \in [Procs -> [life : Nat, state : States \cup {"unknown"}]]
    BY <1>7, <2>1 DEF CancelWrite, StoreInv, TypeOK, States, TerminalStates
  <2>4. TypeOK'
    BY <1>7, <2>1, <2>2, <2>3 DEF CancelWrite, Write, StoreInv, TypeOK, observerVars
  <2> QED BY <2>1, <2>4, WriteKeepsLog, WriteKeepsKeys DEF StoreInv
<1>8. ASSUME NEW o \in Observers, ObserveEvents(o) PROVE StoreInv'
  <2> DEFINE t == Watches[o]
             S == {<<lives[t], n>> : n \in {m \in Sequences(t) : m > cursor[o]}}
  <2>1. t \in Tasks
    BY WatchesAssumption
  <2>2. Sequences(t) \subseteq Nat
    BY <2>1 DEF StoreInv, TypeOK, Sequences
  <2>3. S \subseteq Nat \X Nat
    BY <2>1, <2>2 DEF StoreInv, TypeOK
  <2>4. seen' \in [Observers -> SUBSET (Nat \X Nat)]
    <3>1. seen' = [seen EXCEPT ![o] = @ \cup S]
      BY <1>8 DEF ObserveEvents
    <3>2. seen[o] \cup S \subseteq Nat \X Nat
      BY <2>3 DEF StoreInv, TypeOK
    <3> QED BY <3>1, <3>2 DEF StoreInv, TypeOK
  <2>5. cursor' \in [Observers -> Int]
    BY <1>8, <2>1 DEF ObserveEvents, StoreInv, TypeOK, Row
  <2>6. UNCHANGED <<storeVars, cancelVars>>
    BY <1>8 DEF ObserveEvents
  <2> QED BY <2>4, <2>5, <2>6, TablesUnchanged DEF StoreInv, TypeOK, storeVars, cancelVars
<1>9. ASSUME NEW o \in Observers, ObserveResumeUnavailable(o) PROVE StoreInv'
  <2>1. row[Watches[o]].latest \in Nat
    BY WatchesAssumption DEF StoreInv, TypeOK, Row
  <2>2. cursor' \in [Observers -> Int] /\ seen' \in [Observers -> SUBSET (Nat \X Nat)]
    BY <1>9, <2>1 DEF ObserveResumeUnavailable, StoreInv, TypeOK
  <2>3. UNCHANGED <<storeVars, cancelVars>>
    BY <1>9 DEF ObserveResumeUnavailable
  <2> QED BY <2>2, <2>3, TablesUnchanged DEF StoreInv, TypeOK, storeVars, cancelVars
<1>10. ASSUME NEW o \in Observers, ObserveUnknown(o) PROVE StoreInv'
  <2>1. Watches[o] \in Tasks
    BY WatchesAssumption
  <2>2. CASE UNCHANGED storeVars
    BY <1>10, <2>2, TablesUnchanged DEF ObserveUnknown, StoreInv, TypeOK, storeVars, cancelVars
  <2>3. CASE Purge(Watches[o])
    BY <1>10, <2>1, <2>3, PurgeKeeps DEF ObserveUnknown, StoreInv, TypeOK, cancelVars
  <2> QED BY <1>10, <2>2, <2>3 DEF ObserveUnknown
<1>11. CASE UNCHANGED vars
  BY <1>11, TablesUnchanged DEF vars, storeVars, cancelVars, observerVars, StoreInv, TypeOK
<1> QED BY <1>1, <1>2, <1>3, <1>4, <1>5, <1>6, <1>7, <1>8, <1>9, <1>10, <1>11
        DEF Next, Store, Cancel, Observe

\* StoreInv holds in every state of the store.
LEMMA StoreInvariant == Spec => []StoreInv
<1>1. Init => StoreInv
  BY DEF Init, StoreInv, TypeOK, LogMatchesRow, KeysBound, Row, Absent, NoEnd
<1>2. StoreInv /\ [Next]_vars => StoreInv'
  BY StoreStep
<1> QED BY <1>1, <1>2, PTL DEF Spec

\* The tables and the clients' positions keep their types.
THEOREM TypeCorrect == Spec => []TypeOK
<1>1. StoreInv => TypeOK
  BY DEF StoreInv
<1> QED BY <1>1, StoreInvariant, PTL

\* Task table and event table agree after every transaction: the retained
\* events are the last max_events ones, gap-free, ending in the task's state.
THEOREM TablesAgree == Spec => []LogMatchesRow
<1>1. StoreInv => LogMatchesRow
  BY DEF StoreInv
<1> QED BY <1>1, StoreInvariant, PTL

\* No two known tasks share an idempotency key.
THEOREM KeysStayBound == Spec => []KeysBound
<1>1. StoreInv => KeysBound
  BY DEF StoreInv
<1> QED BY <1>1, StoreInvariant, PTL

----------------------------------------------------------------------------
(* Cancel                                                                   *)

\* The strengthening of CancelReturnsItsEnd: the end a cancel is about to report
\* is a terminal state, and belongs to this life of the task or to an earlier one.
CancelInv ==
  \A p \in Procs : pc[p] = "reread" =>
    /\ ended[p].state \in TerminalStates
    /\ ended[p].life \in Nat /\ ended[p].life <= lives[target[p]]
    /\ row[target[p]] # Absent /\ lives[target[p]] = ended[p].life
         => row[target[p]].state = ended[p].state

\* A write starts from a state that is not terminal, a submission begins a new
\* life, and no other step but a purge changes rows.
LEMMA CancelStep ==
  ASSUME StoreInv, CancelInv, [Next]_vars
  PROVE  CancelInv'
<1> DEFINE Said(p, t) == /\ ended[p].state \in TerminalStates
                         /\ ended[p].life \in Nat /\ ended[p].life <= lives[t]
                         /\ row[t] # Absent /\ lives[t] = ended[p].life => row[t].state = ended[p].state
           Says(p, t) == /\ ended[p].state \in TerminalStates
                         /\ ended[p].life \in Nat /\ ended[p].life <= lives'[t]
                         /\ row'[t] # Absent /\ lives'[t] = ended[p].life => row'[t].state = ended[p].state
<1>1. /\ \A t \in Tasks : \A s : Write(t, s) => row[t].state \notin TerminalStates
      /\ Absent' = Absent /\ Absent.state \notin TerminalStates
      /\ "cancelled" \in TerminalStates
  BY TransitionsType DEF Write, Absent, TerminalStates
<1>2. \A p \in Procs : pc[p] = "reread" => target[p] \in Tasks /\ Said(p, target[p])
  BY DEF CancelInv, StoreInv, TypeOK
<1>3. ASSUME UNCHANGED <<row, lives>> PROVE \A p \in Procs, t \in Tasks : Said(p, t) => Says(p, t)
  BY <1>3
<1>4. ASSUME NEW u \in Tasks, Purge(u) PROVE \A p \in Procs, t \in Tasks : Said(p, t) => Says(p, t)
  BY <1>4, <1>1 DEF Purge, StoreInv, TypeOK
<1>5. ASSUME NEW u \in Tasks, NEW k \in Keys, Submit(u, k)
      PROVE \A p \in Procs, t \in Tasks : Said(p, t) => Says(p, t)
  <2>1. \A t \in Tasks : lives[t] \in Nat
    BY DEF StoreInv, TypeOK
  <2>2. lives'[u] = lives[u] + 1 /\ \A t \in Tasks : t # u => lives'[t] = lives[t] /\ row'[t] = row[t]
    BY <1>5 DEF Submit, StoreInv, TypeOK
  <2> QED BY <2>1, <2>2
<1>6. ASSUME NEW u \in Tasks, NEW s, row[u] # Absent, Write(u, s)
      PROVE \A p \in Procs, t \in Tasks : Said(p, t) => Says(p, t)
  <2>1. row[u].state \notin TerminalStates
    BY <1>1, <1>6
  <2>2. lives' = lives /\ \A t \in Tasks : t # u => row'[t] = row[t]
    BY <1>6 DEF Write, StoreInv, TypeOK
  <2> QED BY <1>6, <2>1, <2>2
<1>7. ASSUME \A p \in Procs, t \in Tasks : Said(p, t) => Says(p, t),
             \A p \in Procs : pc'[p] = "reread" =>
               pc[p] = "reread" /\ target'[p] = target[p] /\ ended'[p] = ended[p]
      PROVE CancelInv'
  BY <1>1, <1>2, <1>7 DEF CancelInv
<1>8. ASSUME NEW t \in Tasks, NEW k \in Keys, Submit(t, k) PROVE CancelInv'
  BY <1>5, <1>7, <1>8 DEF Submit, cancelVars
<1>9. ASSUME NEW t \in Tasks, NEW s \in States \cup {"timed_out"}, Transition(t, s)
      PROVE CancelInv'
  BY <1>6, <1>7, <1>9 DEF Transition, cancelVars
<1>10. ASSUME NEW t \in Tasks, Status(t) \/ TtlPasses(t) PROVE CancelInv'
  BY <1>3, <1>4, <1>7, <1>10 DEF Status, TtlPasses, cancelVars
<1>11. ASSUME NEW p \in Procs, NEW t \in Tasks, CancelRead(p, t) PROVE CancelInv'
  <2>1. CASE Purge(t) /\ UNCHANGED cancelVars
    BY <1>4, <1>7, <2>1 DEF cancelVars
  <2>2. CASE /\ row[t].state \in TerminalStates
             /\ pc' = [pc EXCEPT ![p] = "reread"]
             /\ target' = [target EXCEPT ![p] = t]
             /\ ended' = [ended EXCEPT ![p] = [life |-> lives[t], state |-> row[t].state]]
             /\ UNCHANGED storeVars
    <3>1. pc[p] = "idle" /\ lives[t] \in Nat /\ UNCHANGED <<row, lives>>
      BY <1>11, <2>2 DEF CancelRead, StoreInv, TypeOK, storeVars
    <3>2. ended'[p].state = row[t].state /\ ended'[p].life = lives[t] /\ target'[p] = t
      BY <2>2 DEF StoreInv, TypeOK
    <3>3. \A q \in Procs : q # p => pc'[q] = pc[q] /\ target'[q] = target[q] /\ ended'[q] = ended[q]
      BY <2>2 DEF StoreInv, TypeOK
    <3> QED BY <1>1, <1>2, <1>3, <2>2, <3>1, <3>2, <3>3 DEF CancelInv
  <2>3. CASE pc' = [pc EXCEPT ![p] = "hook"] /\ target' = [target EXCEPT ![p] = t] /\ UNCHANGED <<storeVars, ended>>
    BY <1>3, <1>7, <2>3 DEF storeVars, StoreInv, TypeOK
  <2> QED BY <1>11, <2>1, <2>2, <2>3 DEF CancelRead
<1>12. ASSUME NEW p \in Procs, CancelHook(p) PROVE CancelInv'
  BY <1>3, <1>7, <1>12 DEF CancelHook, storeVars, StoreInv, TypeOK
<1>13. ASSUME NEW p \in Procs, CancelReturn(p) \/ CancelAborts(p) PROVE CancelInv'
  <2>1. \A q \in Procs : pc'[q] = "reread" =>
          pc[q] = "reread" /\ target'[q] = target[q] /\ ended'[q] = ended[q]
    BY <1>13 DEF CancelReturn, CancelAborts, CancelEnds, StoreInv, TypeOK
  <2>2. CASE UNCHANGED storeVars
    BY <1>3, <1>7, <2>1, <2>2 DEF storeVars
  <2>3. CASE pc[p] = "reread" /\ Purge(target[p])
    BY <1>2, <1>4, <1>7, <2>1, <2>3
  <2> QED BY <1>13, <2>2, <2>3 DEF CancelReturn, CancelAborts
<1>14. ASSUME NEW p \in Procs, CancelWrite(p) PROVE CancelInv'
  <2> DEFINE t == target[p]
  <2>1. t \in Tasks /\ row[t] # Absent /\ Write(t, "cancelled") /\ lives' = lives /\ lives[t] \in Nat
    BY <1>14 DEF CancelWrite, Write, StoreInv, TypeOK
  <2>2. row'[t].state = "cancelled"
    BY <2>1, WriteType DEF StoreInv, TypeOK
  <2>3. ended'[p].life = lives[t] /\ ended'[p].state = "cancelled" /\ target' = target
    BY <1>14 DEF CancelWrite, StoreInv, TypeOK
  <2>4. \A q \in Procs : q # p => pc'[q] = pc[q] /\ ended'[q] = ended[q]
    BY <1>14 DEF CancelWrite, StoreInv, TypeOK
  <2>5. \A q \in Procs, u \in Tasks : Said(q, u) => Says(q, u)
    BY <1>6, <2>1
  <2> QED BY <1>1, <1>2, <2>1, <2>2, <2>3, <2>4, <2>5 DEF CancelInv
<1>15. ASSUME NEW o \in Observers, ObserveEvents(o) \/ ObserveResumeUnavailable(o)
       PROVE CancelInv'
  BY <1>3, <1>7, <1>15 DEF ObserveEvents, ObserveResumeUnavailable, storeVars, cancelVars
<1>16. ASSUME NEW o \in Observers, ObserveUnknown(o) PROVE CancelInv'
  BY <1>3, <1>4, <1>7, <1>16, WatchesAssumption DEF ObserveUnknown, storeVars, cancelVars
<1>17. CASE UNCHANGED vars
  BY <1>3, <1>7, <1>17 DEF vars, storeVars, cancelVars
<1> QED BY <1>8, <1>9, <1>10, <1>11, <1>12, <1>13, <1>14, <1>15, <1>16, <1>17
        DEF Next, Store, Cancel, Observe

\* What cancel reports of the life it worked on is the end it saw or made,
\* whatever other processes do, and however long it waits, in between.
THEOREM CancelReportsTheEnd == Spec => []CancelReturnsItsEnd
<1>1. Init => CancelInv
  BY DEF Init, CancelInv
<1>2. StoreInv /\ CancelInv /\ [Next]_vars => CancelInv'
  BY CancelStep
<1>3. CancelInv => CancelReturnsItsEnd
  BY DEF CancelInv, CancelReturnsItsEnd
<1> QED BY <1>1, <1>2, <1>3, StoreInvariant, PTL DEF Spec

----------------------------------------------------------------------------
(* Refinement                                                               *)

\* Every step of the store is a step of the abstract lifecycle, or a stutter.
LEMMA LifecycleStep ==
  ASSUME StoreInv, [Next]_vars
  PROVE  [Lifecycle!Next]_row
<1>1. Absent = Lifecycle!Unknown
  BY DEF Absent, Lifecycle!Unknown
<1>2. ASSUME NEW t \in Tasks, NEW s, row[t] # Absent, Write(t, s) PROVE Lifecycle!Next
  <2>1. s \in States /\ s \in Transitions[row[t].state]
    BY <1>2, WriteType DEF StoreInv, Write
  <2>2. row' = [row EXCEPT ![t] = [key |-> row[t].key, state |-> s, latest |-> row[t].latest + 1]]
    BY <1>2, WriteType DEF StoreInv
  <2>3. Lifecycle!Advance(t, s)
    BY <1>1, <1>2, <2>1, <2>2 DEF Lifecycle!Advance, Lifecycle!Transitions, Transitions,
       Lifecycle!States, States, Lifecycle!TerminalStates, TerminalStates,
       Lifecycle!ActiveStates, ActiveStates, Lifecycle!Stops, Stops
  <2> QED BY <2>1, <2>3 DEF Lifecycle!Next, Lifecycle!States, States, Lifecycle!TerminalStates,
       TerminalStates, Lifecycle!ActiveStates, ActiveStates
<1>3. ASSUME NEW t \in Tasks, Expired(t), Purge(t) PROVE Lifecycle!Next
  <2>1. Lifecycle!Forget(t)
    BY <1>1, <1>3 DEF Lifecycle!Forget, Expired, Purge, Lifecycle!TerminalStates, TerminalStates
  <2> QED BY <2>1 DEF Lifecycle!Next
<1>4. ASSUME NEW t \in Tasks, NEW k \in Keys, Submit(t, k) PROVE Lifecycle!Next
  <2>1. Lifecycle!Submit(t, k)
    BY <1>1, <1>4 DEF Submit, Lifecycle!Submit
  <2> QED BY <2>1 DEF Lifecycle!Next
<1>5. ASSUME NEW t \in Tasks, NEW s \in States \cup {"timed_out"}, Transition(t, s)
      PROVE Lifecycle!Next
  BY <1>2, <1>5 DEF Transition
<1>6. ASSUME NEW t \in Tasks, Status(t) \/ TtlPasses(t) PROVE [Lifecycle!Next]_row
  BY <1>3, <1>6 DEF Status, TtlPasses
<1>7. ASSUME NEW p \in Procs, NEW t \in Tasks, CancelRead(p, t) PROVE [Lifecycle!Next]_row
  BY <1>3, <1>7 DEF CancelRead, storeVars
<1>8. ASSUME NEW p \in Procs, CancelHook(p) \/ CancelReturn(p) \/ CancelAborts(p)
      PROVE [Lifecycle!Next]_row
  <2>1. pc[p] = "reread" => target[p] \in Tasks
    BY DEF StoreInv, TypeOK
  <2> QED BY <1>3, <1>8, <2>1 DEF CancelHook, CancelReturn, CancelAborts, storeVars
<1>9. ASSUME NEW p \in Procs, CancelWrite(p) PROVE Lifecycle!Next
  BY <1>2, <1>9 DEF CancelWrite, StoreInv, TypeOK
<1>10. ASSUME NEW o \in Observers, ObserveEvents(o) \/ ObserveResumeUnavailable(o)
       PROVE UNCHANGED row
  BY <1>10 DEF ObserveEvents, ObserveResumeUnavailable, storeVars
<1>11. ASSUME NEW o \in Observers, ObserveUnknown(o) PROVE [Lifecycle!Next]_row
  BY <1>3, <1>11, WatchesAssumption DEF ObserveUnknown, storeVars
<1>12. CASE UNCHANGED vars
  BY <1>12 DEF vars, storeVars
<1> QED BY <1>4, <1>5, <1>6, <1>7, <1>8, <1>9, <1>10, <1>11, <1>12
        DEF Next, Store, Cancel, Observe

\* SqliteLifecyclePersistence implements the lifecycle its port promises: legal
\* transitions, one terminal winner, one event number per move, bound keys.
THEOREM StoreImplementsLifecycle == Spec => ImplementsLifecycle
<1>1. Init => Lifecycle!Init
  BY DEF Init, Lifecycle!Init, Absent, Lifecycle!Unknown
<1>2. StoreInv /\ [Next]_vars => [Lifecycle!Next]_row
  BY LifecycleStep
<1> QED BY <1>1, <1>2, StoreInvariant, PTL DEF Spec, ImplementsLifecycle, Lifecycle!Spec

----------------------------------------------------------------------------
(* Observers                                                                *)

\* The strengthening of ObserverGapFree: a cursor is the last event given of
\* the current life, if any was given, and nothing is ahead of it.
ObserverInv ==
  \A o \in Observers :
    LET life == lives[Watches[o]]
    IN  /\ cursor[o] >= -1
        /\ \A x \in seen[o] : x[1] <= life /\ x[2] <= cursor[o]
        /\ \A x \in seen[o] : x[1] = life => <<life, cursor[o]>> \in seen[o]
        /\ \A x, y \in seen[o] :
             x[1] = y[1] => \A n \in x[2]..y[2] : <<x[1], n>> \in seen[o]

\* The oldest retained event of a known task.
LEMMA FirstIsOldest ==
  ASSUME StoreInv, NEW t \in Tasks, row[t] # Absent
  PROVE  /\ First(t) = Oldest(row[t].latest)
         /\ Sequences(t) = Oldest(row[t].latest)..row[t].latest
         /\ row[t].latest \in Nat
         /\ Oldest(row[t].latest) \in Nat
<1> DEFINE n == row[t].latest
<1>1. n \in Nat
  BY DEF StoreInv, TypeOK, Row
<1>2. Oldest(n) \in 0..n
  BY <1>1, MaxEventsAssumption DEF Oldest
<1>3. Sequences(t) = Oldest(n)..n
  BY DEF StoreInv, LogMatchesRow
<1>4. Oldest(n) \in Sequences(t) /\ \A m \in Sequences(t) : Oldest(n) <= m
  BY <1>1, <1>2, <1>3
<1>5. First(t) \in Sequences(t) /\ \A m \in Sequences(t) : First(t) <= m
  BY <1>4 DEF First
<1>6. First(t) = Oldest(n)
  BY <1>1, <1>2, <1>3, <1>4, <1>5
<1> QED BY <1>1, <1>2, <1>3, <1>6

\* Handing an observer the events past its cursor opens no gap.
LEMMA ObserveEventsStep ==
  ASSUME StoreInv, ObserverInv, NEW o \in Observers, ObserveEvents(o)
  PROVE  ObserverInv'
<1> DEFINE t == Watches[o]
           life == lives[t]
           last == row[t].latest
           S == {<<life, n>> : n \in {m \in Sequences(t) : m > cursor[o]}}
<1>1. t \in Tasks /\ life \in Nat /\ row[t] # Absent /\ cursor[o] \in Int
  BY WatchesAssumption DEF ObserveEvents, StoreInv, TypeOK
<1>2. last \in Nat /\ Sequences(t) = Oldest(last)..last /\ Oldest(last) <= cursor[o] + 1 /\ Oldest(last) \in Nat
  BY <1>1, FirstIsOldest DEF ObserveEvents
<1>3. \A x : x \in S <=> \E n \in cursor[o] + 1..last : x = <<life, n>>
  BY <1>1, <1>2
<1>4. /\ seen' = [seen EXCEPT ![o] = seen[o] \cup S]
      /\ cursor' = [cursor EXCEPT ![o] = IF last > cursor[o] THEN last ELSE cursor[o]]
      /\ lives' = lives
  BY DEF ObserveEvents, storeVars
<1>5. seen[o] \subseteq Nat \X Nat
  BY DEF StoreInv, TypeOK
<1>6. CASE last <= cursor[o]
  <2>1. S = {}
    BY <1>1, <1>2, <1>3, <1>6
  <2>2. seen' = seen /\ cursor' = cursor
    BY <1>1, <1>2, <1>4, <1>6, <2>1 DEF StoreInv, TypeOK
  <2> QED BY <1>4, <2>2 DEF ObserverInv
<1>7. CASE last > cursor[o]
  <2>1. seen'[o] = seen[o] \cup S /\ cursor'[o] = last
    BY <1>4, <1>7 DEF StoreInv, TypeOK
  <2>2. \A q \in Observers : q # o => seen'[q] = seen[q] /\ cursor'[q] = cursor[q]
    BY <1>4 DEF StoreInv, TypeOK
  <2>3. <<life, last>> \in S
    BY <1>1, <1>2, <1>3, <1>7
  <2>4. \A x \in seen[o] \cup S : x[1] <= life /\ x[2] <= last
    <3>1. ASSUME NEW x \in seen[o] PROVE x[1] <= life /\ x[2] <= last
      <4>1. x[1] <= life /\ x[2] <= cursor[o]
        BY DEF ObserverInv
      <4>2. x[2] \in Int
        BY <1>5
      <4> QED BY <1>1, <1>2, <1>7, <4>1, <4>2
    <3>2. ASSUME NEW x \in S PROVE x[1] <= life /\ x[2] <= last
      <4>1. PICK n \in cursor[o] + 1..last : x = <<life, n>>
        BY <1>3
      <4> QED BY <1>1, <1>2, <4>1
    <3> QED BY <3>1, <3>2
  <2>5. ASSUME NEW x \in seen[o] \cup S, NEW y \in seen[o] \cup S, x[1] = y[1],
               NEW n \in x[2]..y[2]
        PROVE <<x[1], n>> \in seen[o] \cup S
    <3>1. CASE x[1] # life
      <4>1. x \in seen[o] /\ y \in seen[o]
        BY <1>3, <2>5, <3>1
      <4> QED BY <2>5, <4>1 DEF ObserverInv
    <3>2. CASE x[1] = life /\ n > cursor[o]
      <4>1. y[2] <= last /\ y[2] \in Int /\ x[2] \in Int
        BY <1>1, <1>2, <1>3, <1>5, <2>4
      <4>2. n \in cursor[o] + 1..last
        BY <1>1, <1>2, <3>2, <4>1
      <4> QED BY <1>3, <3>2, <4>2
    <3>3. CASE x[1] = life /\ n <= cursor[o]
      <4>1. x[2] <= n /\ n \in Int /\ x[2] \in Int
        BY <1>1, <1>2, <1>3, <1>5
      <4>2. x \in seen[o]
        BY <1>1, <1>2, <1>3, <3>3, <4>1
      <4>3. <<life, cursor[o]>> \in seen[o]
        BY <3>3, <4>2 DEF ObserverInv
      <4>4. n \in x[2]..cursor[o]
        BY <1>1, <3>3, <4>1
      <4> DEFINE z == <<life, cursor[o]>>
      <4>5. z[1] = x[1] /\ z[2] = cursor[o]
        BY <3>3
      <4>6. <<x[1], n>> \in seen[o]
        BY <4>2, <4>3, <4>4, <4>5 DEF ObserverInv
      <4> QED BY <4>6
    <3>4. n \in Int
      OBVIOUS
    <3> QED BY <1>1, <3>1, <3>2, <3>3, <3>4
  <2> SUFFICES ASSUME NEW q \in Observers
               PROVE LET l == lives[Watches[q]]
                     IN  /\ cursor'[q] >= -1
                         /\ \A x \in seen'[q] : x[1] <= l /\ x[2] <= cursor'[q]
                         /\ \A x \in seen'[q] : x[1] = l => <<l, cursor'[q]>> \in seen'[q]
                         /\ \A x, y \in seen'[q] :
                              x[1] = y[1] => \A n \in x[2]..y[2] : <<x[1], n>> \in seen'[q]
    BY <1>4 DEF ObserverInv
  <2>6. CASE q = o
    BY <1>2, <2>1, <2>3, <2>4, <2>5, <2>6
  <2>7. CASE q # o
    BY <2>2, <2>7 DEF ObserverInv
  <2> QED BY <2>6, <2>7
<1> QED BY <1>1, <1>2, <1>6, <1>7

\* Every step keeps what observers have been given without a gap.
LEMMA ObserverStep ==
  ASSUME StoreInv, ObserverInv, [Next]_vars
  PROVE  ObserverInv'
<1>1. ASSUME UNCHANGED <<cursor, seen, lives>> PROVE ObserverInv'
  BY <1>1 DEF ObserverInv
<1>2. ASSUME NEW o \in Observers, NEW c \in Int, c >= -1,
             cursor' = [cursor EXCEPT ![o] = c], seen' = [seen EXCEPT ![o] = {}], lives' = lives
      PROVE ObserverInv'
  BY <1>2 DEF ObserverInv, StoreInv, TypeOK
<1>3. ASSUME NEW t \in Tasks, NEW k \in Keys, Submit(t, k) PROVE ObserverInv'
  \* A new life starts: nothing was given of it yet.
  <2>1. UNCHANGED <<cursor, seen>> /\ \A u \in Tasks : lives[u] \in Nat /\ lives'[u] \in {lives[u], lives[u] + 1}
    BY <1>3 DEF Submit, observerVars, StoreInv, TypeOK
  <2>2. seen \in [Observers -> SUBSET (Nat \X Nat)]
    BY DEF StoreInv, TypeOK
  <2>3. ASSUME NEW o \in Observers PROVE
          LET life == lives'[Watches[o]]
          IN  /\ cursor[o] >= -1
              /\ \A x \in seen[o] : x[1] <= life /\ x[2] <= cursor[o]
              /\ \A x \in seen[o] : x[1] = life => <<life, cursor[o]>> \in seen[o]
              /\ \A x, y \in seen[o] :
                   x[1] = y[1] => \A n \in x[2]..y[2] : <<x[1], n>> \in seen[o]
    <3>1. Watches[o] \in Tasks
      BY WatchesAssumption
    <3>2. \A x \in seen[o] : x[1] \in Nat
      BY <2>2
    <3>3. CASE lives'[Watches[o]] = lives[Watches[o]]
      BY <3>3 DEF ObserverInv
    <3>4. CASE lives'[Watches[o]] = lives[Watches[o]] + 1
      <4>1. \A x \in seen[o] : x[1] <= lives[Watches[o]]
        BY DEF ObserverInv
      <4>2. \A x \in seen[o] : x[1] # lives'[Watches[o]] /\ x[1] <= lives'[Watches[o]]
        BY <2>1, <3>1, <3>2, <3>4, <4>1
      <4>3. /\ cursor[o] >= -1
            /\ \A x \in seen[o] : x[2] <= cursor[o]
            /\ \A x, y \in seen[o] :
                 x[1] = y[1] => \A n \in x[2]..y[2] : <<x[1], n>> \in seen[o]
        BY DEF ObserverInv
      <4> QED BY <4>2, <4>3
    <3> QED BY <2>1, <3>1, <3>3, <3>4
  <2> QED BY <2>1, <2>3 DEF ObserverInv
<1>4. ASSUME NEW t \in Tasks, NEW s \in States \cup {"timed_out"}, Transition(t, s)
      PROVE ObserverInv'
  BY <1>1, <1>4 DEF Transition, Write, observerVars
<1>5. ASSUME NEW t \in Tasks, Status(t) \/ TtlPasses(t) PROVE ObserverInv'
  BY <1>1, <1>5 DEF Status, Purge, TtlPasses, observerVars
<1>6. ASSUME NEW p \in Procs, NEW t \in Tasks, CancelRead(p, t) PROVE ObserverInv'
  BY <1>1, <1>6 DEF CancelRead, Purge, storeVars, observerVars
<1>7. ASSUME NEW p \in Procs,
             CancelHook(p) \/ CancelWrite(p) \/ CancelReturn(p) \/ CancelAborts(p)
      PROVE ObserverInv'
  BY <1>1, <1>7 DEF CancelHook, CancelWrite, Write, CancelReturn, Purge, CancelAborts, storeVars, observerVars
<1>8. ASSUME NEW o \in Observers, ObserveResumeUnavailable(o) PROVE ObserverInv'
  <2>1. row[Watches[o]].latest \in Nat
    BY WatchesAssumption DEF StoreInv, TypeOK, Row
  <2>2. /\ cursor' = [cursor EXCEPT ![o] = row[Watches[o]].latest]
        /\ seen' = [seen EXCEPT ![o] = {}]
        /\ lives' = lives
    BY <1>8 DEF ObserveResumeUnavailable, storeVars
  <2>3. row[Watches[o]].latest \in Int /\ row[Watches[o]].latest >= -1
    BY <2>1
  <2> QED BY <1>2, <2>2, <2>3
<1>9. ASSUME NEW o \in Observers, ObserveUnknown(o) PROVE ObserverInv'
  <2>1. /\ cursor' = [cursor EXCEPT ![o] = -1]
        /\ seen' = [seen EXCEPT ![o] = {}]
        /\ lives' = lives
    BY <1>9 DEF ObserveUnknown, Purge, storeVars
  <2>2. -1 \in Int /\ -1 >= -1
    OBVIOUS
  <2> QED BY <1>2, <2>1, <2>2
<1>10. CASE UNCHANGED vars
  BY <1>1, <1>10 DEF vars, storeVars, observerVars
<1> QED BY <1>3, <1>4, <1>5, <1>6, <1>7, <1>8, <1>9, <1>10, ObserveEventsStep
        DEF Next, Store, Cancel, Observe

\* Observers of events_after miss no event in the middle of a task's life.
THEOREM ObserversMissNothing == Spec => []ObserverGapFree
<1>1. Init => ObserverInv
  BY DEF Init, ObserverInv
<1>2. StoreInv /\ ObserverInv /\ [Next]_vars => ObserverInv'
  BY ObserverStep
<1>3. ObserverInv => ObserverGapFree
  BY DEF ObserverInv, ObserverGapFree
<1> QED BY <1>1, <1>2, <1>3, StoreInvariant, PTL DEF Spec

\* The tables of the database agree in every reachable state, for any number of
\* tasks, keys and processes.
THEOREM TablesStayConsistent == Spec => []TablesConsistent
BY TablesAgree, KeysStayBound, PTL DEF TablesConsistent
=============================================================================
