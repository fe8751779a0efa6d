------------------------ MODULE LifecyclePersistence ------------------------
(***************************************************************************)
(* The durable task lifecycle store (service_lifecycle.py,                  *)
(* SqliteLifecyclePersistence) shared by several processes of one host, and *)
(* the observers that follow a task's events over the HTTP router.          *)
(*                                                                         *)
(* Every store operation is one BEGIN IMMEDIATE transaction, so one step;   *)
(* cancel is the exception: it reads, calls the hook, writes and reads      *)
(* again in separate transactions, and another process may act in between.  *)
(* A SQLite error or a crash rolls the transaction back and ends the call.  *)
(*                                                                         *)
(* Only terminal tasks age; ttlPassed abstracts the clock.              *)
(***************************************************************************)
EXTENDS Integers, FiniteSets, LifecycleStates

CONSTANTS
  Tasks,        \* task identifiers
  Keys,         \* idempotency keys
  None,         \* an absent key
  Procs,        \* processes that may be inside cancel
  Observers,    \* clients that follow events
  Watches,      \* the task each observer follows
  MaxEvents,    \* max_events, at least 2
  MaxSequence,  \* bound on event numbers
  MaxLives      \* bound on how often one identifier is created

ASSUME MaxEventsAssumption == MaxEvents \in Nat \ {0, 1}
ASSUME MaxSequenceAssumption == MaxSequence \in Nat /\ MaxLives \in Nat
ASSUME WatchesAssumption == Watches \in [Observers -> Tasks]
ASSUME KeysAssumption == None \notin Keys

VARIABLES
  row,         \* table lifecycle_tasks
  log,         \* table lifecycle_events, per task
  ttlPassed,   \* terminal_status_ttl_s went by since the task ended
  lives,       \* history: how often a task identifier was created
  pc,          \* where each process is inside cancel
  target,      \* the task it cancels, None outside cancel
  ended,       \* history: the end its cancel saw or made, and of which life
  cursor,      \* after_sequence of each observer's next request
  seen         \* history: events an observer was given since it last resynced

storeVars    == <<row, log, ttlPassed, lives>>
cancelVars   == <<pc, target, ended>>
observerVars == <<cursor, seen>>
vars == <<storeVars, cancelVars, observerVars>>

Absent == [key |-> None, state |-> "unknown", latest |-> 0]

\* No cancel of this process is about to report.
NoEnd == [life |-> 0, state |-> "unknown"]

Event(n, s) == [seq |-> n, state |-> s]

Init ==
  /\ row = [t \in Tasks |-> Absent]
  /\ log = [t \in Tasks |-> {}]
  /\ ttlPassed = [t \in Tasks |-> FALSE]
  /\ lives = [t \in Tasks |-> 0]
  /\ pc = [p \in Procs |-> "idle"]
  /\ target = [p \in Procs |-> None]
  /\ ended = [p \in Procs |-> NoEnd]
  /\ cursor = [o \in Observers |-> -1]
  /\ seen = [o \in Observers |-> {}]

Expired(t) == row[t].state \in TerminalStates /\ ttlPassed[t]

----------------------------------------------------------------------------
\* submit: a known task or key is returned (same key and request digest) or
\* refused, without a write in both cases, even when its retention has passed.
Submit(t, k) ==
  /\ \A u \in Tasks : row[u].key # k
  /\ row[t] = Absent
  /\ lives[t] < MaxLives
  /\ row' = [row EXCEPT ![t] = [key |-> k, state |-> "accepted", latest |-> 0]]
  /\ log' = [log EXCEPT ![t] = {Event(0, "accepted")}]
  /\ lives' = [lives EXCEPT ![t] = @ + 1]
  /\ UNCHANGED <<ttlPassed, cancelVars, observerVars>>

\* The part of status that writes: an expired row goes, its events cascade.
Purge(t) ==
  /\ row' = [row EXCEPT ![t] = Absent]
  /\ log' = [log EXCEPT ![t] = {}]
  /\ ttlPassed' = [ttlPassed EXCEPT ![t] = FALSE]
  /\ UNCHANGED lives

\* status, called by anyone; a live row is only read.
Status(t) ==
  /\ Expired(t)
  /\ Purge(t)
  /\ UNCHANGED <<cancelVars, observerVars>>

\* Mutation: the replay window keeps one event too few.
WriteTrimsTooMuch(t, s) ==
  LET n == row[t].latest + 1
  IN  /\ s \in Transitions[row[t].state]
      /\ row' = [row EXCEPT ![t].state = s, ![t].latest = n]
      /\ log' = [log EXCEPT ![t] = {e \in @ \cup {Event(n, s)} : e.seq > n - MaxEvents + 1}]
      /\ UNCHANGED <<ttlPassed, lives>>

\* Mutation: a task that already ended may be failed or cancelled again.
WriteAfterEnd(t, s) ==
  LET n == row[t].latest + 1
  IN  /\ s \in Transitions[row[t].state] \cup Stops
      /\ row' = [row EXCEPT ![t].state = s, ![t].latest = n]
      /\ log' = [log EXCEPT ![t] = {e \in @ \cup {Event(n, s)} : e.seq >= n - MaxEvents + 1}]
      /\ UNCHANGED <<ttlPassed, lives>>

\* The transaction of transition: state, event and trimming commit together.
Write(t, s) ==
  LET n == row[t].latest + 1
  IN  /\ s \in Transitions[row[t].state]
      /\ row' = [row EXCEPT ![t].state = s, ![t].latest = n]
      /\ log' = [log EXCEPT ![t] = {e \in @ \cup {Event(n, s)} : e.seq >= n - MaxEvents + 1}]
      /\ UNCHANGED <<ttlPassed, lives>>

\* transition, called by any worker; an illegal one raises and writes nothing.
Transition(t, s) ==
  /\ row[t] # Absent
  /\ row[t].latest < MaxSequence
  /\ Write(t, Canonical(s))
  /\ UNCHANGED <<cancelVars, observerVars>>

----------------------------------------------------------------------------
(* cancel                                                                   *)

\* The first status: an unknown task raises, a terminal one goes straight to
\* the closing status, any other one to the hook.
CancelRead(p, t) ==
  /\ pc[p] = "idle"
  /\ \/ /\ Expired(t)
        /\ Purge(t)
        /\ UNCHANGED cancelVars
     \/ /\ row[t].state \in TerminalStates /\ ~Expired(t)
        /\ pc' = [pc EXCEPT ![p] = "reread"]
        /\ target' = [target EXCEPT ![p] = t]
        /\ ended' = [ended EXCEPT ![p] = [life |-> lives[t], state |-> row[t].state]]
        /\ UNCHANGED storeVars
     \/ /\ row[t] # Absent /\ row[t].state \notin TerminalStates
        /\ pc' = [pc EXCEPT ![p] = "hook"]
        /\ target' = [target EXCEPT ![p] = t]
        /\ UNCHANGED <<storeVars, ended>>
  /\ UNCHANGED observerVars

\* The hook runs outside any transaction and may take any time, or raise.
CancelHook(p) ==
  /\ pc[p] = "hook"
  /\ pc' = [pc EXCEPT ![p] = "write"]
  /\ UNCHANGED <<storeVars, target, ended, observerVars>>

\* Mutation: an unknown task or a conflict is swallowed.
CancelWriteSwallows(p) ==
  LET t == target[p]
  IN  /\ pc[p] = "write"
      /\ \/ row[t] # Absent /\ row[t].latest < MaxSequence /\ Write(t, "cancelled")
         \/ row[t].state \notin ActiveStates /\ UNCHANGED storeVars
      /\ pc' = [pc EXCEPT ![p] = "reread"]
      /\ ended' = [ended EXCEPT ![p] = [life |-> lives[t], state |-> "cancelled"]]
      /\ UNCHANGED <<target, observerVars>>

\* transition(task, "cancelled"): the task may have ended, or have been
\* forgotten, since it was read; then the call raises.
CancelWrite(p) ==
  LET t == target[p]
  IN  /\ pc[p] = "write"
      /\ row[t] # Absent
      /\ row[t].latest < MaxSequence
      /\ Write(t, "cancelled")
      /\ pc' = [pc EXCEPT ![p] = "reread"]
      /\ ended' = [ended EXCEPT ![p] = [life |-> lives[t], state |-> "cancelled"]]
      /\ UNCHANGED <<target, observerVars>>

\* The call is over: its locals are gone.
CancelEnds(p) ==
  /\ pc' = [pc EXCEPT ![p] = "idle"]
  /\ target' = [target EXCEPT ![p] = None]
  /\ ended' = [ended EXCEPT ![p] = NoEnd]

\* The closing status: the caller is given the record it reads, or UnknownTask
\* when the task was forgotten meanwhile or is expired, and then purged, now.
CancelReturn(p) ==
  /\ pc[p] = "reread"
  /\ CancelEnds(p)
  /\ \/ ~Expired(target[p]) /\ UNCHANGED storeVars
     \/ Expired(target[p]) /\ Purge(target[p])
  /\ UNCHANGED observerVars

\* The hook, a conflict, an unknown task or SQLite raises, or the process dies.
CancelAborts(p) ==
  /\ pc[p] # "idle"
  /\ CancelEnds(p)
  /\ UNCHANGED <<storeVars, observerVars>>

----------------------------------------------------------------------------
(* Observers                                                                *)

Sequences(t) == {e.seq : e \in log[t]}

\* LifecycleRecord.events[0].sequence: the oldest retained event.
First(t) == CHOOSE n \in Sequences(t) : \A m \in Sequences(t) : n <= m

\* Mutation: the comparison with the retained window is off by one.
ObserveGapUnnoticed(o) ==
  LET t == Watches[o]
  IN  /\ row[t] # Absent /\ ~Expired(t)
      /\ cursor[o] + 2 >= First(t)
      /\ seen' = [seen EXCEPT ![o] = @ \cup {<<lives[t], n>> : n \in {m \in Sequences(t) : m > cursor[o]}}]
      /\ cursor' = [cursor EXCEPT ![o] = IF row[t].latest > @ THEN row[t].latest ELSE @]
      /\ UNCHANGED <<storeVars, cancelVars>>

\* events_after, given the events past the cursor.
ObserveEvents(o) ==
  LET t == Watches[o]
  IN  /\ row[t] # Absent /\ ~Expired(t)
      /\ cursor[o] + 1 >= First(t)
      /\ seen' = [seen EXCEPT ![o] = @ \cup {<<lives[t], n>> : n \in {m \in Sequences(t) : m > cursor[o]}}]
      /\ cursor' = [cursor EXCEPT ![o] = IF row[t].latest > @ THEN row[t].latest ELSE @]
      /\ UNCHANGED <<storeVars, cancelVars>>

\* ResumeUnavailable: the observer is told the latest number and resyncs there.
ObserveResumeUnavailable(o) ==
  LET t == Watches[o]
  IN  /\ row[t] # Absent /\ ~Expired(t)
      /\ cursor[o] + 1 < First(t)
      /\ cursor' = [cursor EXCEPT ![o] = row[t].latest]
      /\ seen' = [seen EXCEPT ![o] = {}]
      /\ UNCHANGED <<storeVars, cancelVars>>

\* UnknownTask: the observer starts over; an expired row is purged by the read.
ObserveUnknown(o) ==
  LET t == Watches[o]
  IN  /\ \/ row[t] = Absent /\ UNCHANGED storeVars
         \/ Expired(t) /\ Purge(t)
      /\ cursor' = [cursor EXCEPT ![o] = -1]
      /\ seen' = [seen EXCEPT ![o] = {}]
      /\ UNCHANGED cancelVars

\* Time: the retention of a terminal task passes, between any two transactions.
TtlPasses(t) ==
  /\ row[t].state \in TerminalStates
  /\ ttlPassed' = [ttlPassed EXCEPT ![t] = TRUE]
  /\ UNCHANGED <<row, log, lives, cancelVars, observerVars>>

Store == \E t \in Tasks :
  \/ \E k \in Keys : Submit(t, k)
  \/ \E s \in States \cup {"timed_out"} : Transition(t, s)
  \/ Status(t)
  \/ TtlPasses(t)

Cancel == \E p \in Procs :
  \/ \E t \in Tasks : CancelRead(p, t)
  \/ CancelHook(p) \/ CancelWrite(p) \/ CancelReturn(p) \/ CancelAborts(p)

Observe == \E o \in Observers :
  ObserveEvents(o) \/ ObserveResumeUnavailable(o) \/ ObserveUnknown(o)

Next == Store \/ Cancel \/ Observe

Spec == Init /\ [][Next]_vars

----------------------------------------------------------------------------
(* Properties                                                               *)

Row == [key : Keys \cup {None}, state : States \cup {"unknown"}, latest : Nat]

TypeOK ==
  /\ row \in [Tasks -> Row]
  /\ log \in [Tasks -> SUBSET [seq : Nat, state : States]]
  /\ ttlPassed \in [Tasks -> BOOLEAN]
  /\ lives \in [Tasks -> Nat]
  /\ pc \in [Procs -> {"idle", "hook", "write", "reread"}]
  /\ target \in [Procs -> Tasks \cup {None}]
  /\ \A p \in Procs : pc[p] # "idle" => target[p] \in Tasks
  /\ ended \in [Procs -> [life : Nat, state : States \cup {"unknown"}]]
  /\ cursor \in [Observers -> Int]
  /\ seen \in [Observers -> SUBSET (Nat \X Nat)]

Oldest(n) == IF n - MaxEvents + 1 > 0 THEN n - MaxEvents + 1 ELSE 0

\* The event table and the task table never disagree: a known task keeps
\* exactly its last max_events events, without a gap or a duplicate, and the
\* last of them carries the task's state; a purged task keeps none.
LogMatchesRow ==
  \A t \in Tasks :
    IF row[t] = Absent
    THEN log[t] = {}
    ELSE /\ row[t].state \in States /\ row[t].key \in Keys
         /\ Sequences(t) = Oldest(row[t].latest)..row[t].latest
         /\ \A e, f \in log[t] : e.seq = f.seq => e = f
         /\ Event(row[t].latest, row[t].state) \in log[t]

\* An idempotency key names at most one known task, whoever submitted it.
KeysBound ==
  \A t, u \in Tasks : t # u /\ row[t].key = row[u].key => row[t].key = None

\* The three tables of the database agree: events with tasks, keys with tasks.
TablesConsistent == LogMatchesRow /\ KeysBound

\* What cancel reports of the life it worked on is the end it saw or made: until
\* its closing status reads the row again no other process can have replaced that
\* end by another state, whichever of them lost the race to end the task.  A row
\* submitted again after that life was purged is the one exception: the closing
\* status then returns the record of the new life, whatever its state.
CancelReturnsItsEnd ==
  \A p \in Procs : LET t == target[p] IN
    pc[p] = "reread" /\ row[t] # Absent /\ lives[t] = ended[p].life
      => row[t].state = ended[p].state /\ ended[p].state \in TerminalStates

\* Between two resynchronisations an observer misses no event in the middle of a
\* task's life, however the replay window, the workers and the purges interleave
\* with its polls: what it was given of one life is an interval.
ObserverGapFree ==
  \A o \in Observers : \A e1, e2 \in seen[o] :
    e1[1] = e2[1] => \A n \in e1[2]..e2[2] : <<e1[1], n>> \in seen[o]

Lifecycle == INSTANCE TaskLifecycle WITH task <- row

\* The durable store implements the lifecycle its port promises.
ImplementsLifecycle == Lifecycle!Spec
=============================================================================
