-------------------------- MODULE DirectorySession --------------------------
(***************************************************************************)
(* A provider node's session with the directory (node.py, recovery.py):     *)
(* registration, the heartbeat loop with its metrics batches, model-drift   *)
(* and recovery re-registration, the re-registration done when a relay bind *)
(* or a new tunnel URL changes the endpoint, and shutdown.                  *)
(*                                                                         *)
(* All of it runs as coroutines of one event loop, so the code between two  *)
(* awaits is one step; handler threads only add to the task counters under  *)
(* their lock.  A request is answered in two steps, the directory acting on *)
(* it and the node reading the answer, and either may be lost.              *)
(*                                                                         *)
(* The directory is external.  From how the node uses it: a registration    *)
(* gives a new token and voids the older ones, requests with another token  *)
(* are rejected, it may forget a node, and it counts a metrics batch once   *)
(* per metrics_batch_id.                                                    *)
(***************************************************************************)
EXTENDS Integers

CONSTANTS
  StartToken,    \* node_token given to serve: 1 registered, 0 registration deferred
  CheckEvery,    \* recovery_check_every
  Grace,         \* recovery_grace
  Supervised,    \* recovery_supervised
  MaxTasks,      \* bound on finished tasks
  MaxMoves,      \* bound on model drifts and endpoint changes
  MaxFaults      \* bound on lost messages and forgotten registrations

ASSUME StartAssumption == StartToken \in {0, 1}
ASSUME RecoveryAssumption ==
  CheckEvery \in Nat \ {0} /\ Grace \in Nat \ {0} /\ Supervised \in BOOLEAN
ASSUME BoundsAssumption == MaxTasks \in Nat /\ MaxMoves \in Nat /\ MaxFaults \in Nat

VARIABLES
  phase,      \* where the heartbeat loop stands
  reply,      \* what became of its request
  granted,    \* token in the registration answer it is about to read
  token,      \* the loop's own token
  seq,        \* heartbeats modulo recovery_check_every
  failures,   \* recovery_failures (values above Grace are alike)
  stash,      \* self._node_token
  counter,    \* ended tasks not yet in a batch (_tasks_success + _tasks_failed)
  pending,    \* tasks in _pending_metrics_batch; 0 is no batch
  mover,      \* where the re-registration after an endpoint change stands
  moverToken, \* _current_token of the relay callback
  moverGrant, \* token in the registration answer it is about to read
  dir,        \* directory: the valid token, 0 when the node is unknown
  issued,     \* directory: the last token given out
  uncounted,  \* tasks of the batch that the directory has not counted
  credited,   \* directory: tasks counted for this node
  ended,      \* history: tasks that ended
  unhealthy,  \* history: failed recovery checks since the last healthy one
  moves,      \* history: model drifts and endpoint changes
  faults      \* history: lost messages and forgotten registrations

loopVars == <<phase, reply, granted, token, seq>>
recoveryVars == <<failures, unhealthy>>
metricVars == <<counter, pending, uncounted, credited, ended>>
moverVars == <<mover, moverToken, moverGrant>>
dirVars == <<dir, issued>>
vars == <<loopVars, recoveryVars, stash, metricVars, moverVars, dirVars, moves, faults>>

Init ==
  /\ phase = "sleep" /\ reply = "none" /\ granted = 0
  /\ token = StartToken /\ seq = 0
  /\ failures = 0 /\ unhealthy = 0
  /\ stash = StartToken
  /\ counter = 0 /\ pending = 0 /\ uncounted = 0 /\ credited = 0 /\ ended = 0
  /\ mover = "idle" /\ moverToken = StartToken /\ moverGrant = 0
  /\ dir = StartToken /\ issued = StartToken
  /\ moves = 0 /\ faults = 0

Running == phase \notin {"closing", "stopped", "exited"}
Registering == {"drift", "register", "recover"}

----------------------------------------------------------------------------
\* A task handler counts its task under _task_counters_lock.
TaskEnds ==
  /\ Running
  /\ ended < MaxTasks
  /\ ended' = ended + 1
  /\ counter' = counter + 1
  /\ UNCHANGED <<loopVars, recoveryVars, stash, pending, uncounted, credited, moverVars, dirVars,
                 moves, faults>>

\* Mutation: a new batch is cut although one is still outstanding.
BeatReplacesBatch ==
  /\ phase = "sleep"
  /\ phase' = "beat"
  /\ IF counter > 0
     THEN pending' = counter /\ counter' = 0 /\ uncounted' = counter
     ELSE UNCHANGED <<pending, counter, uncounted>>
  /\ UNCHANGED <<reply, granted, token, seq, recoveryVars, stash, credited, ended, moverVars,
                 dirVars, moves, faults>>

\* heartbeat sends its request.  One batch stays outstanding until it is
\* acknowledged; a new one has a fresh uuid, so the directory has yet
\* to count it.
Beat ==
  /\ phase = "sleep"
  /\ phase' = "beat"
  /\ IF pending = 0 /\ counter > 0
     THEN pending' = counter /\ counter' = 0 /\ uncounted' = counter
     ELSE UNCHANGED <<pending, counter, uncounted>>
  /\ UNCHANGED <<reply, granted, token, seq, recoveryVars, stash, credited, ended, moverVars,
                 dirVars, moves, faults>>

\* The directory acts on a heartbeat.  "ok" acknowledges the batch, by its id or
\* by silence; "other" names another batch.
DirectoryBeat ==
  /\ phase = "beat" /\ reply = "none"
  /\ \/ /\ token = 0 \/ token # dir
        /\ reply' = "rejected"
        /\ UNCHANGED <<credited, uncounted>>
     \/ /\ token # 0 /\ token = dir
        /\ reply' = "ok"
        /\ credited' = credited + uncounted
        /\ uncounted' = 0
     \/ /\ token # 0 /\ token = dir
        /\ reply' = "other"
        /\ UNCHANGED <<credited, uncounted>>
  /\ UNCHANGED <<phase, granted, token, seq, recoveryVars, stash, counter, pending, ended,
                 moverVars, dirVars, moves, faults>>

\* The request of the loop, or the answer to it, is lost: a timeout, a 5xx, a
\* broken connection.
LoseReply ==
  /\ phase \in Registering \cup {"beat"}
  /\ reply # "lost"
  /\ faults < MaxFaults
  /\ faults' = faults + 1
  /\ reply' = "lost"
  /\ UNCHANGED <<phase, granted, token, seq, recoveryVars, stash, metricVars, moverVars, dirVars,
                 moves>>

\* Mutation: a rejected heartbeat is retried like a lost one.
AfterBeatRetries == phase' = IF reply \in {"ok", "other"} THEN "probe" ELSE "sleep"

\* What the loop does after the answer to its heartbeat.
AfterBeat ==
  phase' = CASE reply \in {"ok", "other"} -> "probe"
             [] reply = "rejected" -> "register"
             [] reply = "lost" -> "sleep"

\* The answer: an acknowledgement clears the batch; 401, 404 and 410 lead to a
\* re-registration; anything else waits for the next beat.
BeatAnswered ==
  /\ phase = "beat" /\ reply # "none"
  /\ reply' = "none"
  /\ AfterBeat
  /\ pending' = IF reply = "ok" THEN 0 ELSE pending
  /\ seq' = (seq + 1) % CheckEvery
  /\ UNCHANGED <<granted, token, recoveryVars, stash, counter, uncounted, credited, ended,
                 moverVars, dirVars, moves, faults>>

CheckOrSleep == IF seq = 0 THEN "check" ELSE "sleep"

\* _maybe_reregister_on_model_drift: the backend's models are those registered,
\* or not.
ProbeModels ==
  /\ phase = "probe"
  /\ \/ phase' = "drift" /\ moves < MaxMoves /\ moves' = moves + 1
     \/ phase' = CheckOrSleep /\ UNCHANGED moves
  /\ UNCHANGED <<reply, granted, token, seq, recoveryVars, stash, metricVars, moverVars, dirVars,
                 faults>>

\* The directory accepts a registration of the loop.
DirectoryRegister ==
  /\ phase \in Registering /\ reply = "none"
  /\ issued' = issued + 1
  /\ dir' = issued + 1
  /\ granted' = issued + 1
  /\ reply' = "ok"
  /\ UNCHANGED <<phase, token, seq, recoveryVars, stash, metricVars, moverVars, moves, faults>>

\* register() stashes its token.  The loop takes it over, except after model
\* drift: there the next heartbeat is rejected and registers again.
RegisterAnswered ==
  /\ phase \in Registering /\ reply # "none"
  /\ reply' = "none"
  /\ phase' = IF phase = "drift" THEN CheckOrSleep ELSE "sleep"
  /\ stash' = IF reply = "ok" THEN granted ELSE stash
  /\ token' = IF reply = "ok" /\ phase # "drift" THEN granted ELSE token
  /\ failures' = IF reply = "ok" /\ phase = "recover" THEN 0 ELSE failures
  /\ UNCHANGED <<granted, seq, unhealthy, metricVars, moverVars, dirVars, moves, faults>>

----------------------------------------------------------------------------
\* recovery.classify, for a node whose process is healthy.
Classify(route, presence, fails, attention) ==
  IF attention THEN "none"
  ELSE IF ~route
  THEN IF fails >= Grace THEN "restart_self" ELSE "wait_cooldown"
  ELSE CASE presence = "present" -> "none"
         [] presence = "absent" -> IF fails >= Grace THEN "restart_self" ELSE "reregister"
         [] presence = "unknown" -> "none"

Capped(n) == IF n > Grace THEN Grace ELSE n

\* A check fails without a public route or a registry entry; a registry that does
\* not answer changes nothing.
CountCheck(route, presence) ==
  /\ failures' = IF ~route \/ presence = "absent" THEN Capped(failures + 1)
                 ELSE IF presence = "present" THEN 0 ELSE failures
  /\ unhealthy' = IF ~route \/ presence = "absent" THEN Capped(unhealthy + 1)
                  ELSE IF presence = "present" THEN 0 ELSE unhealthy

\* The recovery check after every CheckEvery-th heartbeat: the registry is asked,
\* the public route and the backend are whatever they are.  A restart leaves by
\* os._exit, without shutdown.
RecoveryCheck ==
  /\ phase = "check"
  /\ \E presence \in {IF dir = 0 THEN "absent" ELSE "present", "unknown"},
        route, attention \in BOOLEAN :
       /\ CountCheck(route, presence)
       /\ LET action == Classify(route, presence, failures', attention)
          IN  phase' = CASE action = "restart_self" /\ Supervised -> "exited"
                         [] action = "reregister" -> "recover"
                         [] OTHER -> "sleep"
  /\ UNCHANGED <<reply, granted, token, seq, stash, metricVars, moverVars, dirVars, moves, faults>>

----------------------------------------------------------------------------
\* Shutdown cancels the relay worker's callback; a registration for a new tunnel
\* URL was handed to the event loop and goes on until the client is closed.
MoverRuns == Running \/ (phase = "closing" /\ mover \in {"url", "urlAnswer"})

\* The endpoint changes.  _on_relay_bind first gives back its last token, if it
\* has one; a new tunnel URL (_on_new_url) registers straight away.
MoveEndpoint ==
  /\ Running
  /\ mover = "idle"
  /\ moves < MaxMoves
  /\ moves' = moves + 1
  /\ mover' \in {IF moverToken = 0 THEN "register" ELSE "deregister", "url"}
  /\ UNCHANGED <<loopVars, recoveryVars, stash, metricVars, moverToken, moverGrant, dirVars,
                 faults>>

\* Its DELETE reaches the directory, or fails and is only logged.
MoverDeregister ==
  /\ MoverRuns
  /\ mover = "deregister"
  /\ mover' = "register"
  /\ \/ /\ dir' = IF moverToken = dir THEN 0 ELSE dir
        /\ UNCHANGED faults
     \/ /\ faults < MaxFaults
        /\ faults' = faults + 1
        /\ UNCHANGED dir
  /\ UNCHANGED <<loopVars, recoveryVars, stash, metricVars, moverToken, moverGrant, issued,
                 moves>>

\* The directory accepts its registration.
MoverRegister ==
  /\ MoverRuns
  /\ mover \in {"register", "url"}
  /\ mover' = IF mover = "url" THEN "urlAnswer" ELSE "answer"
  /\ issued' = issued + 1
  /\ dir' = issued + 1
  /\ moverGrant' = issued + 1
  /\ UNCHANGED <<loopVars, recoveryVars, stash, metricVars, moverToken, moves, faults>>

\* The answer is read and the token stashed; the loop's own token stays, and so
\* does _current_token when the tunnel registered.
MoverAnswered ==
  /\ MoverRuns
  /\ mover \in {"answer", "urlAnswer"}
  /\ mover' = "idle"
  /\ stash' = moverGrant
  /\ moverToken' = IF mover = "answer" THEN moverGrant ELSE moverToken
  /\ UNCHANGED <<loopVars, recoveryVars, metricVars, moverGrant, dirVars, moves, faults>>

\* Its registration, or the answer to it, is lost: logged, and not tried again.
MoverFails ==
  /\ mover \in {"register", "answer", "url", "urlAnswer"}
  /\ MoverRuns
  /\ faults < MaxFaults
  /\ faults' = faults + 1
  /\ mover' = "idle"
  /\ UNCHANGED <<loopVars, recoveryVars, stash, metricVars, moverToken, moverGrant, dirVars,
                 moves>>

\* External: a time-to-live passes or the directory restarts, and it forgets the
\* node.
Forget ==
  /\ dir # 0
  /\ faults < MaxFaults
  /\ faults' = faults + 1
  /\ dir' = 0
  /\ UNCHANGED <<loopVars, recoveryVars, stash, metricVars, moverVars, issued, moves>>

----------------------------------------------------------------------------
\* serve's finally block cancels the background tasks.
Shutdown ==
  /\ Running
  /\ phase' = "closing"
  /\ UNCHANGED <<reply, granted, token, seq, recoveryVars, stash, metricVars, moverVars, dirVars,
                 moves, faults>>

\* ... and deregisters with the token that serve was given, if it was given one;
\* a failure is only logged.
ShutdownDeregister ==
  /\ phase = "closing"
  /\ phase' = "stopped"
  /\ \/ /\ dir' = IF StartToken # 0 /\ dir = StartToken THEN 0 ELSE dir
        /\ UNCHANGED faults
     \/ /\ faults < MaxFaults
        /\ faults' = faults + 1
        /\ UNCHANGED dir
  /\ UNCHANGED <<reply, granted, token, seq, recoveryVars, stash, metricVars, moverVars, issued,
                 moves>>

----------------------------------------------------------------------------
LoopStep ==
  \/ Beat \/ DirectoryBeat \/ BeatAnswered
  \/ ProbeModels \/ DirectoryRegister \/ RegisterAnswered
  \/ RecoveryCheck

MoverStep == MoverDeregister \/ MoverRegister \/ MoverAnswered

Next ==
  \/ TaskEnds \/ LoopStep \/ LoseReply
  \/ MoveEndpoint \/ MoverStep \/ MoverFails
  \/ Forget
  \/ Shutdown \/ ShutdownDeregister

\* The timer fires, requests are answered or time out, and started coroutines go
\* on; nothing has to move, get lost or shut down.
Fairness == WF_vars(LoopStep) /\ WF_vars(MoverStep)

Spec == Init /\ [][Next]_vars
FairSpec == Spec /\ Fairness

----------------------------------------------------------------------------
\* Types and ranges; tokens in use were issued by the directory.
TypeOK ==
  /\ phase \in Registering \cup {"sleep", "beat", "probe", "check", "closing", "stopped", "exited"}
  /\ reply \in {"none", "ok", "other", "rejected", "lost"}
  /\ reply # "none" => phase \in Registering \cup {"beat", "closing", "stopped"}
  /\ reply \in {"other", "rejected"} => phase \in {"beat", "closing", "stopped"}
  /\ granted \in 0..issued /\ token \in 0..issued /\ stash \in 0..issued
  /\ seq \in 0..(CheckEvery - 1)
  /\ failures \in 0..Grace /\ unhealthy \in 0..Grace
  /\ counter \in Nat /\ pending \in Nat /\ uncounted \in Nat /\ credited \in Nat
  /\ ended \in 0..MaxTasks
  /\ mover \in {"idle", "deregister", "register", "answer", "url", "urlAnswer"}
  /\ moverToken \in 0..issued /\ moverGrant \in 0..issued
  /\ issued \in Nat /\ dir \in 0..issued
  /\ moves \in 0..MaxMoves /\ faults \in 0..MaxFaults

\* Every ended task is counted by the directory once, or is still waiting in the
\* counters or in a batch that the directory has not counted, whatever requests
\* and answers are lost.
MetricsConserved == credited + counter + uncounted = ended

\* The node gives itself up to its supervisor only after Grace recovery checks
\* failed with no healthy one among them.
RestartOnlyAfterGrace == phase = "exited" => unhealthy >= Grace

\* Lost answers and forgotten registrations cost neither tasks nor restarts: every
\* task is counted once, and the node restarts only after its grace.
SessionSafe == MetricsConserved /\ RestartOnlyAfterGrace

\* Whatever re-registers the node behind the loop's back, or makes the directory
\* forget it, the loop ends up with the valid token.
TokenHeals == (Running /\ token # dir) ~> (token = dir \/ ~Running)
=============================================================================
