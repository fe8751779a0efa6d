-------------------------- MODULE DispatchAdmission --------------------------
(***************************************************************************)
(* Provider-local redemption of dispatch tickets (dispatch_admission.py):   *)
(* evaluate_dispatch_admission over SqliteDispatchAdmissionStore, used by   *)
(* several local processes that share one database file.                    *)
(*                                                                         *)
(* A caller reads the clock, checks the claim against that reading, and     *)
(* only then waits for the database's write lock; the transaction runs up   *)
(* to MaxDelay later with the old reading.  Every store operation is one    *)
(* BEGIN IMMEDIATE transaction, hence one step; a process may die between   *)
(* any two steps, and the committed rows survive it.                        *)
(*                                                                         *)
(* The issuer is external: one jti names one ticket, so a ticket's window   *)
(* is a function of its jti.                                                *)
(***************************************************************************)
EXTENDS Integers, FiniteSets

CONSTANTS
  Procs,       \* provider processes sharing the database
  Jtis,        \* ticket identifiers
  None,        \* no ticket
  Terminal,    \* TERMINAL_STATES
  NotBefore,   \* claim.not_before of each ticket
  ExpiresAt,   \* claim.expires_at of each ticket
  Skew,        \* clock_skew_s
  Retention,   \* retention_s of cleanup
  Limit,       \* limit of cleanup
  MaxDelay,    \* longest wait between the clock reading and the transaction
  MaxClock     \* bound on the clock

ASSUME WindowAssumption == NotBefore \in [Jtis -> Int] /\ ExpiresAt \in [Jtis -> Int]
ASSUME TimesAssumption ==
  Skew \in Nat /\ Retention \in Nat /\ MaxDelay \in Nat /\ MaxClock \in Nat
ASSUME LimitAssumption == Limit \in Nat \ {0}
ASSUME JtisAssumption == IsFiniteSet(Jtis) /\ None \notin Jtis
ASSUME TerminalAssumption == Terminal \cap {"absent", "accepted", "fresh", "forgotten"} = {}

VARIABLES
  clock,      \* the host's clock
  pc,         \* idle, txn (waiting for the write lock) or running the task
  job,        \* the ticket a process works on and its clock reading
  row,        \* state column of the ticket's row, or "absent"
  redeemed    \* history: how often a ticket was accepted

procVars == <<pc, job>>
vars == <<clock, procVars, row, redeemed>>

NoJob == [jti |-> None, now |-> 0]

Init ==
  /\ clock = 0
  /\ pc = [p \in Procs |-> "idle"]
  /\ job = [p \in Procs |-> NoJob]
  /\ row = [j \in Jtis |-> "absent"]
  /\ redeemed = [j \in Jtis |-> 0]

\* The caller is told a refusal code, its call raises, or it is done: it runs
\* nothing any more.
Stop(p) ==
  /\ pc' = [pc EXCEPT ![p] = "idle"]
  /\ job' = [job EXCEPT ![p] = NoJob]

\* The caller is told "accepted" and runs the task.
Accept(p) ==
  /\ pc' = [pc EXCEPT ![p] = "running"]
  /\ UNCHANGED job

----------------------------------------------------------------------------
\* The checks before the transaction, against one reading of the clock.  The
\* trust, jti and binding checks look only at the claim and may refuse any
\* claim; the window check compares it with the clock.
Evaluate(p, j) ==
  /\ pc[p] = "idle"
  /\ \/ Stop(p)
     \/ /\ clock + Skew >= NotBefore[j]
        /\ clock - Skew < ExpiresAt[j]
        /\ pc' = [pc EXCEPT ![p] = "txn"]
        /\ job' = [job EXCEPT ![p] = [jti |-> j, now |-> clock]]
  /\ UNCHANGED <<clock, row, redeemed>>

\* consume: lookup and insertion in one immediate transaction.
Consume(p) ==
  LET j == job[p].jti
  IN  /\ pc[p] = "txn"
      /\ \/ /\ row[j] # "absent"
            /\ Stop(p)
            /\ UNCHANGED <<row, redeemed>>
         \/ /\ row[j] = "absent"
            /\ row' = [row EXCEPT ![j] = "accepted"]
            /\ redeemed' = [redeemed EXCEPT ![j] = @ + 1]
            /\ Accept(p)
      /\ UNCHANGED clock

\* The lock is not obtained within busy_timeout_s, or SQLite fails: rollback,
\* and evaluate_dispatch_admission answers a fail-closed code.
StorageError(p) ==
  /\ pc[p] = "txn"
  /\ Stop(p)
  /\ UNCHANGED <<clock, row, redeemed>>

\* Mutation: the terminal guard of transition is dropped.
TransitionOverwrites(p, j, s) ==
  /\ pc[p] = "running" => job[p].jti = j
  /\ pc[p] # "txn"
  /\ Stop(p)
  /\ row' = [row EXCEPT ![j] = IF @ # "absent" THEN s ELSE @]
  /\ UNCHANGED <<clock, redeemed>>

\* transition: the process that runs the task, or any other caller (a sweeper,
\* a second worker), reports a terminal state.  A missing row raises KeyError,
\* another terminal state raises ValueError, and both leave the row alone.
Transition(p, j, s) ==
  /\ pc[p] = "running" => job[p].jti = j
  /\ pc[p] # "txn"
  /\ Stop(p)
  /\ row' = [row EXCEPT ![j] = IF @ = "accepted" THEN s ELSE @]
  /\ UNCHANGED <<clock, redeemed>>

\* The rows DELETE ... ORDER BY expires_at LIMIT takes: the oldest expired ones.
CleanupBatch(D, cutoff) ==
  LET expired == {j \in Jtis : row[j] # "absent" /\ ExpiresAt[j] < cutoff}
  IN  /\ D \subseteq expired
      /\ Cardinality(D) = IF Cardinality(expired) < Limit THEN Cardinality(expired) ELSE Limit
      /\ \A j \in D, k \in expired \ D : ExpiresAt[j] <= ExpiresAt[k]

\* cleanup, with a clock reading its caller took now or earlier.
Cleanup ==
  /\ \E now \in 0..clock, D \in SUBSET Jtis :
       /\ CleanupBatch(D, now - Retention)
       /\ row' = [j \in Jtis |-> IF j \in D THEN "absent" ELSE row[j]]
  /\ UNCHANGED <<clock, procVars, redeemed>>

\* A process dies and restarts: what it was doing is lost, the rows are not.
Crash(p) ==
  /\ pc[p] # "idle"
  /\ Stop(p)
  /\ UNCHANGED <<clock, row, redeemed>>

\* busy_timeout_s bounds how long a transaction may lag behind its reading.
Tick ==
  /\ clock < MaxClock
  /\ \A p \in Procs : pc[p] = "txn" => clock - job[p].now < MaxDelay
  /\ clock' = clock + 1
  /\ UNCHANGED <<procVars, row, redeemed>>

Next ==
  \/ \E p \in Procs, j \in Jtis : Evaluate(p, j)
  \/ \E p \in Procs : Consume(p) \/ StorageError(p) \/ Crash(p)
  \/ \E p \in Procs, j \in Jtis, s \in Terminal : Transition(p, j, s)
  \/ Cleanup
  \/ Tick

Spec == Init /\ [][Next]_vars

----------------------------------------------------------------------------
(* Properties                                                               *)

\* The operator must keep rows for the skew plus the longest transaction delay:
\* otherwise cleanup forgets a ticket some caller still considers valid.
RetentionCoversSkew == Retention >= Skew + MaxDelay

TypeOK ==
  /\ clock \in Nat
  /\ pc \in [Procs -> {"idle", "txn", "running"}]
  /\ job \in [Procs -> [jti : Jtis \cup {None}, now : Nat]]
  /\ \A p \in Procs : pc[p] # "idle" => job[p].jti \in Jtis
  /\ row \in [Jtis -> Terminal \cup {"absent", "accepted"}]
  /\ redeemed \in [Jtis -> Nat]

\* A ticket is redeemed at most once in its life, across concurrent processes,
\* crashes, stale clock readings and the cleanup that forgets old rows.
SingleUse == \A j \in Jtis : redeemed[j] <= 1

\* The strengthening: a forgotten ticket is too old for any pending transaction.
AdmissionInv ==
  /\ SingleUse
  /\ \A p \in Procs : pc[p] = "txn" =>
       /\ job[p].now <= clock
       /\ clock - job[p].now <= MaxDelay
       /\ job[p].now - Skew < ExpiresAt[job[p].jti]
  /\ \A j \in Jtis : redeemed[j] = 0 => row[j] = "absent"
  /\ \A j \in Jtis : redeemed[j] > 0 /\ row[j] = "absent" => ExpiresAt[j] + Retention < clock

\* What a client of the store can tell of a ticket, over its whole life.
TicketStatus ==
  [j \in Jtis |-> IF row[j] # "absent" THEN row[j]
                  ELSE IF redeemed[j] = 0 THEN "fresh" ELSE "forgotten"]

Ticket == INSTANCE DispatchTicket WITH status <- TicketStatus

\* The shared SQLite store implements the abstract ticket: one redemption, one
\* outcome, no second life after cleanup.
ImplementsTicket == Ticket!Spec
=============================================================================
