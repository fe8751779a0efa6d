---------------------------- MODULE TaskLifecycle ----------------------------
(***************************************************************************)
(* What the lifecycle storage port promises (LifecyclePersistence): a task  *)
(* is bound to one idempotency key, moves only along legal transitions with *)
(* one event number per move, ends once, and is forgotten only afterwards.  *)
(* LifecyclePersistence implements this specification.                      *)
(***************************************************************************)
EXTENDS Naturals, LifecycleStates

CONSTANTS Tasks, Keys, None

VARIABLE task   \* per task: its key, its state, the number of its last event

Unknown == [key |-> None, state |-> "unknown", latest |-> 0]

Init == task = [t \in Tasks |-> Unknown]

\* A key is bound to at most one known task.
Submit(t, k) ==
  /\ task[t] = Unknown
  /\ \A u \in Tasks : task[u].key # k
  /\ task' = [task EXCEPT ![t] = [key |-> k, state |-> "accepted", latest |-> 0]]

Advance(t, s) ==
  /\ task[t] # Unknown
  /\ s \in Transitions[task[t].state]
  /\ task' = [task EXCEPT ![t] = [key |-> task[t].key, state |-> s, latest |-> task[t].latest + 1]]

Forget(t) ==
  /\ task[t].state \in TerminalStates
  /\ task' = [task EXCEPT ![t] = Unknown]

Next == \E t \in Tasks :
  \/ \E k \in Keys : Submit(t, k)
  \/ \E s \in States : Advance(t, s)
  \/ Forget(t)

Spec == Init /\ [][Next]_task
=============================================================================
