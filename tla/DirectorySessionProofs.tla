----------------------- MODULE DirectorySessionProofs -----------------------
(***************************************************************************)
(* Theorems about DirectorySession, for any number of tasks, endpoint       *)
(* changes and lost messages and any recovery settings.                     *)
(***************************************************************************)
EXTENDS DirectorySession, TLAPS

\* Types are preserved by every step.
LEMMA TypeStep == TypeOK /\ [Next]_vars => TypeOK'
<1> SUFFICES ASSUME TypeOK, [Next]_vars PROVE TypeOK'
  OBVIOUS
<1> USE StartAssumption, RecoveryAssumption, BoundsAssumption
    DEF TypeOK, loopVars, recoveryVars, metricVars, moverVars, dirVars, Registering
<1>1. CASE TaskEnds
  BY <1>1 DEF TaskEnds
<1>2. CASE Beat
  BY <1>2 DEF Beat
<1>3. CASE DirectoryBeat
  BY <1>3 DEF DirectoryBeat
<1>4. CASE LoseReply
  BY <1>4 DEF LoseReply
<1>5. CASE BeatAnswered
  <2>1. (seq + 1) % CheckEvery \in 0..(CheckEvery - 1)
    OBVIOUS
  <2>2. phase' \in {"probe", "register", "sleep"}
    BY <1>5 DEF BeatAnswered, AfterBeat
  <2>3. QED
    BY <1>5, <2>1, <2>2 DEF BeatAnswered
<1>6. CASE ProbeModels
  BY <1>6 DEF ProbeModels, CheckOrSleep
<1>7. CASE DirectoryRegister
  BY <1>7 DEF DirectoryRegister
<1>8. CASE RegisterAnswered
  BY <1>8 DEF RegisterAnswered, CheckOrSleep
<1>9. CASE RecoveryCheck
  <2>1. reply = "none"
    BY <1>9 DEF RecoveryCheck
  <2>2. failures' \in 0..Grace /\ unhealthy' \in 0..Grace
    BY <1>9 DEF RecoveryCheck, CountCheck, Capped
  <2>3. phase' \in {"exited", "recover", "sleep"}
    BY <1>9 DEF RecoveryCheck
  <2>4. QED
    BY <1>9, <2>1, <2>2, <2>3 DEF RecoveryCheck
<1>10. CASE MoveEndpoint
  BY <1>10 DEF MoveEndpoint
<1>11. CASE MoverDeregister
  BY <1>11 DEF MoverDeregister
<1>12. CASE MoverRegister
  BY <1>12 DEF MoverRegister
<1>13. CASE MoverAnswered
  BY <1>13 DEF MoverAnswered
<1>14. CASE Forget \/ MoverFails
  BY <1>14 DEF Forget, MoverFails
<1>15. CASE Shutdown
  BY <1>15 DEF Shutdown
<1>16. CASE ShutdownDeregister
  BY <1>16 DEF ShutdownDeregister
<1>17. CASE UNCHANGED vars
  BY <1>17 DEF vars
<1>18. QED
  BY <1>1, <1>2, <1>3, <1>4, <1>5, <1>6, <1>7, <1>8, <1>9, <1>10, <1>11, <1>12, <1>13, <1>14,
     <1>15, <1>16, <1>17 DEF Next, LoopStep, MoverStep

\* Phases, tokens, counters and batches keep their types (TypeOK).
THEOREM TypeCorrect == Spec => []TypeOK
<1>1. Init => TypeOK
  BY StartAssumption, RecoveryAssumption, BoundsAssumption DEF Init, TypeOK, Registering
<1>2. QED
  BY <1>1, TypeStep, PTL DEF Spec

\* The books balance, only a batch has uncounted tasks, and an acknowledgement the node is about to read belongs
\* to a batch that the directory has counted.
MetricsInv ==
  /\ MetricsConserved
  /\ pending = 0 => uncounted = 0
  /\ phase = "beat" /\ reply = "ok" => uncounted = 0

\* MetricsInv survives every step; only five of them touch the books.
LEMMA MetricsStep == TypeOK /\ MetricsInv /\ [Next]_vars => MetricsInv'
<1> SUFFICES ASSUME TypeOK, MetricsInv, [Next]_vars PROVE MetricsInv'
  OBVIOUS
<1> USE DEF TypeOK, MetricsInv, MetricsConserved, metricVars, loopVars, Registering
<1>1. CASE TaskEnds
  BY <1>1 DEF TaskEnds
<1>2. CASE Beat
  BY <1>2 DEF Beat
<1>3. CASE DirectoryBeat
  BY <1>3 DEF DirectoryBeat
<1>4. CASE LoseReply
  BY <1>4 DEF LoseReply
<1>5. CASE BeatAnswered
  BY <1>5 DEF BeatAnswered
<1>6. CASE ProbeModels \/ DirectoryRegister \/ RegisterAnswered
  BY <1>6 DEF ProbeModels, DirectoryRegister, RegisterAnswered, CheckOrSleep, Registering
<1>7. CASE RecoveryCheck
  <2>1. phase' # "beat"
    BY <1>7 DEF RecoveryCheck
  <2>2. QED
    BY <1>7, <2>1 DEF RecoveryCheck
<1>8. CASE MoveEndpoint \/ MoverStep \/ MoverFails \/ Forget
  BY <1>8 DEF MoveEndpoint, MoverStep, MoverDeregister, MoverRegister, MoverAnswered,
              MoverFails, Forget
<1>9. CASE Shutdown \/ ShutdownDeregister
  BY <1>9 DEF Shutdown, ShutdownDeregister
<1>10. CASE UNCHANGED vars
  BY <1>10 DEF vars
<1>11. QED
  BY <1>1, <1>2, <1>3, <1>4, <1>5, <1>6, <1>7, <1>8, <1>9, <1>10 DEF Next, LoopStep

\* No task is lost by the metrics batches or counted twice, however many
\* heartbeats and answers get lost (MetricsConserved).
THEOREM TasksAreCountedOnce == Spec => []MetricsConserved
<1>1. Init => MetricsInv
  BY DEF Init, MetricsInv, MetricsConserved
<1>2. MetricsInv => MetricsConserved
  BY DEF MetricsInv
<1>3. QED
  BY <1>1, <1>2, MetricsStep, TypeCorrect, PTL DEF Spec

\* recovery_failures never runs ahead of the failed checks since the last
\* healthy one.
RestartInv ==
  /\ failures <= unhealthy
  /\ RestartOnlyAfterGrace

\* RestartInv survives every step.
LEMMA RestartStep == TypeOK /\ RestartInv /\ [Next]_vars => RestartInv'
<1> SUFFICES ASSUME TypeOK, RestartInv, [Next]_vars PROVE RestartInv'
  OBVIOUS
<1> USE RecoveryAssumption DEF TypeOK, RestartInv, RestartOnlyAfterGrace, recoveryVars, loopVars
<1>1. CASE RecoveryCheck
  <2>1. PICK presence \in {IF dir = 0 THEN "absent" ELSE "present", "unknown"},
             route \in BOOLEAN, attention \in BOOLEAN :
          /\ CountCheck(route, presence)
          /\ phase' = "exited" => Classify(route, presence, failures', attention) = "restart_self"
    BY <1>1 DEF RecoveryCheck
  <2>2. failures' <= unhealthy' /\ failures' \in Nat /\ unhealthy' \in Nat
    BY <2>1 DEF CountCheck, Capped
  <2>3. phase' = "exited" => failures' >= Grace
    BY <2>1 DEF Classify
  <2>4. QED
    BY <2>2, <2>3
<1>2. CASE RegisterAnswered
  BY <1>2 DEF RegisterAnswered, CheckOrSleep, Registering
<1>3. CASE TaskEnds \/ Beat \/ DirectoryBeat \/ LoseReply
  BY <1>3 DEF TaskEnds, Beat, DirectoryBeat, LoseReply
<1>4. CASE BeatAnswered
  <2>1. phase' # "exited"
    BY <1>4 DEF BeatAnswered, AfterBeat
  <2>2. QED
    BY <1>4, <2>1 DEF BeatAnswered
<1>5. CASE ProbeModels \/ DirectoryRegister
  BY <1>5 DEF ProbeModels, DirectoryRegister, CheckOrSleep
<1>6. CASE MoveEndpoint \/ MoverStep \/ MoverFails \/ Forget
  BY <1>6 DEF MoveEndpoint, MoverStep, MoverDeregister, MoverRegister, MoverAnswered,
              MoverFails, Forget
<1>7. CASE Shutdown \/ ShutdownDeregister
  BY <1>7 DEF Shutdown, ShutdownDeregister
<1>8. CASE UNCHANGED vars
  BY <1>8 DEF vars
<1>9. QED
  BY <1>1, <1>2, <1>3, <1>4, <1>5, <1>6, <1>7, <1>8 DEF Next, LoopStep

\* The node exits for its supervisor only after Grace failed checks with no
\* healthy one among them (RestartOnlyAfterGrace).
THEOREM RestartNeedsGrace == Spec => []RestartOnlyAfterGrace
<1>1. Init => RestartInv
  BY DEF Init, RestartInv, RestartOnlyAfterGrace
<1>2. RestartInv => RestartOnlyAfterGrace
  BY DEF RestartInv
<1>3. QED
  BY <1>1, <1>2, RestartStep, TypeCorrect, PTL DEF Spec

\* Tasks are counted once and restarts wait for the grace, for every interval,
\* grace and number of tasks, moves and faults.
THEOREM SessionStaysSafe == Spec => []SessionSafe
BY TasksAreCountedOnce, RestartNeedsGrace, PTL DEF SessionSafe
=============================================================================
