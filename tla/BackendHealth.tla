---------------------------- MODULE BackendHealth ----------------------------
(***************************************************************************)
(* What a node says of itself: the backend observer and its drain guard    *)
(* (backend_stability.py, node.py), the runtime-health snapshot file       *)
(* (runtime_health.py) and `iicp-node healthcheck`, which reads that file  *)
(* from another process (cli.py).                                          *)
(*                                                                         *)
(* Time is counted in heartbeat intervals; a deadline is kept as the time  *)
(* still to pass and a time stamp as its age.                              *)
(***************************************************************************)
EXTENDS Naturals

CONSTANTS
    BhServers,     \* [flavor, kind, expects]: _norm(backend) ("none" when empty), the
                   \* server that really answers, whether a model is configured
    LoadingRetry,  \* drain of a loading backend
    UnstableRetry, \* drain of a failed instance
    RuntimeStale,  \* RUNTIME_STALE_AFTER_MS
    SupervisorStale, \* SUPERVISOR_STALE_AFTER_MS
    BhMaxAge       \* bound: ages saturate here

ASSUME IntervalsAssumption ==
    {LoadingRetry, UnstableRetry, RuntimeStale, SupervisorStale, BhMaxAge} \subseteq Nat

VARIABLES
    bhServer,  \* which of BhServers it is
    bhBackend, \* what the backend is doing
    bhProc,    \* "down", "running", "stopping"
    bhKept,    \* _backend_stability
    bhOwed,    \* what is left of the drain last seen in the backend's answers
    bhBeat,    \* the heartbeat loop: "sleep", "observing", "posting", "stuck"
    bhBeatAge, \* _supervisor_at
    bhDirectory, \* external["directory"]
    bhFile,    \* health-v1.json
    bhGone,    \* how long the node has not been running
    bhTask     \* what the last task request was told

bhVars == <<bhServer, bhBackend, bhProc, bhKept, bhOwed, bhBeat, bhBeatAge,
            bhDirectory, bhFile, bhGone, bhTask>>

\* "error": an error status; "unreachable": no answer.
BackendStates == {"ready", "cold", "loading", "failed", "error", "unreachable"}

Healthy == [state |-> "ok", left |-> 0]
Degraded == [state |-> "degraded", left |-> 0]
Draining(time) == [state |-> "draining", left |-> time]

NoFile == [liveness |-> "none", readiness |-> "not_ready", age |-> 0]

BhInit ==
    /\ bhServer \in BhServers /\ bhBackend \in BackendStates
    /\ bhProc = "down"
    /\ bhKept = Healthy /\ bhOwed = 0
    /\ bhBeat = "sleep" /\ bhBeatAge = 0 /\ bhDirectory = "unknown"
    /\ bhFile = NoFile /\ bhGone = 0
    /\ bhTask = "none"

-----------------------------------------------------------------------------
\* is_draining and retry_after_s.
IsDraining(obs) == obs.state = "draining" /\ obs.left > 0

\* parse_ollama_ps: an absent model is cold, never a drain.
ParseOllamaPs ==
    IF bhBackend = "ready" \/ ~bhServer.expects THEN Healthy ELSE Degraded

\* parse_lmstudio_models: a failed instance before a loading one before a
\* missing model.
ParseLmstudioModels ==
    CASE bhBackend = "failed" -> Draining(UnstableRetry)
      [] bhBackend = "loading" -> Draining(LoadingRetry)
      [] bhBackend = "cold" /\ bhServer.expects -> Degraded
      [] OTHER -> Healthy

\* The endpoint of another server answers with an error status.
Answers(kind) == bhServer.kind = kind /\ bhBackend # "error"

\* readyz, then the inventory: everything short of the model listed drains.
ObserveMesh ==
    IF Answers("meshllm") /\ (bhBackend = "ready" \/ (bhBackend = "cold" /\ ~bhServer.expects))
    THEN Healthy ELSE Draining(LoadingRetry)

\* observe_backend_stability: a time-out or a refused connection is caught; a
\* backend of no known flavour is tried as Ollama, then as LM Studio.
Observed ==
    LET flavor == bhServer.flavor
    IN  IF flavor = "other" THEN Healthy
        ELSE IF bhBackend = "unreachable" THEN Degraded
        ELSE IF flavor = "meshllm" THEN ObserveMesh
        ELSE IF flavor \in {"ollama", "none"} /\ Answers("ollama") THEN ParseOllamaPs
        ELSE IF flavor \in {"lmstudio", "none"} /\ Answers("lmstudio") THEN ParseLmstudioModels
        ELSE IF flavor = "none" THEN Healthy ELSE Degraded

\* Mutation: the newest observation is always kept.
SetBackendStabilityNewest(obs) == bhKept' = obs

\* _set_backend_stability: an active drain gives way only to another drain.
SetBackendStability(obs) ==
    bhKept' = IF IsDraining(bhKept) /\ ~IsDraining(obs) THEN bhKept ELSE obs

\* classify, for what a node sets: provider, capacity and routing are good from
\* mark_running on, the tunnel is never set, and the runtime is fresh because
\* the loop that takes the snapshot advances it first.
ClassifyHealth ==
    CASE bhBeatAge > SupervisorStale -> [liveness |-> "not_live", readiness |-> "not_ready"]
      [] bhBeatAge <= SupervisorStale /\ bhProc = "stopping" ->
            [liveness |-> "live", readiness |-> "not_ready"]
      [] OTHER -> [liveness |-> "live",
                   readiness |-> IF bhDirectory = "unavailable" THEN "degraded" ELSE "ready"]

\* Mutation: the age of the file is not looked at.
HealthcheckOfAnyAge == IF bhFile.liveness = "live" THEN 0 ELSE 2

\* _cmd_healthcheck without --ready: 0 for live, 1 for stale or not live.
Healthcheck ==
    CASE bhFile = NoFile -> 2
      [] bhFile # NoFile /\ bhFile.age > RuntimeStale -> 1
      [] OTHER -> IF bhFile.liveness = "live" THEN 0 ELSE 1

-----------------------------------------------------------------------------
\* The backend changes under the node.
BackendChanges ==
    /\ bhBackend' \in BackendStates \ {bhBackend}
    /\ UNCHANGED <<bhServer, bhProc, bhKept, bhOwed, bhBeat, bhBeatAge,
                   bhDirectory, bhFile, bhGone, bhTask>>

\* serve: a new process with a fresh RuntimeHealth, mark_running, the loops.
Serve ==
    /\ bhProc = "down"
    /\ bhProc' = "running"
    /\ bhKept' = Healthy /\ bhOwed' = 0
    /\ bhBeat' = "sleep" /\ bhBeatAge' = 0 /\ bhDirectory' = "unknown" /\ bhTask' = "none"
    /\ bhGone' = 0
    /\ UNCHANGED <<bhServer, bhBackend, bhFile>>

\* A heartbeat begins and asks the backend.
BeatBegins ==
    /\ bhProc = "running" /\ bhBeat = "sleep"
    /\ bhBeat' = "observing" /\ bhBeatAge' = 0
    /\ UNCHANGED <<bhServer, bhBackend, bhProc, bhKept, bhOwed, bhDirectory,
                   bhFile, bhGone, bhTask>>

\* _observe_backend_stability: the node keeps what the rule says (the directory
\* is told what was seen).
BeatObserves ==
    /\ bhProc = "running" /\ bhBeat = "observing"
    /\ SetBackendStability(Observed)
    /\ bhOwed' = IF IsDraining(Observed) THEN Observed.left ELSE bhOwed
    /\ bhBeat' = "posting"
    /\ UNCHANGED <<bhServer, bhBackend, bhProc, bhBeatAge, bhDirectory, bhFile,
                   bhGone, bhTask>>

BeatEnds(state) ==
    /\ bhProc = "running" /\ bhBeat = "posting"
    /\ bhDirectory' = state
    /\ bhBeat' = "sleep" /\ bhBeatAge' = 0
    /\ UNCHANGED <<bhServer, bhBackend, bhProc, bhKept, bhOwed, bhFile, bhGone,
                   bhTask>>

\* The loop hangs in a call that neither answers nor fails.
BeatHangs ==
    /\ bhProc = "running" /\ bhBeat \in {"observing", "posting"}
    /\ bhBeat' = "stuck"
    /\ UNCHANGED <<bhServer, bhBackend, bhProc, bhKept, bhOwed, bhBeatAge,
                   bhDirectory, bhFile, bhGone, bhTask>>

\* _runtime_health_loop: the snapshot replaces the file, or cannot be written.
WriteSnapshot ==
    /\ bhProc = "running"
    /\ bhFile' = [liveness |-> ClassifyHealth.liveness, readiness |-> ClassifyHealth.readiness, age |-> 0]
    /\ UNCHANGED <<bhServer, bhBackend, bhProc, bhKept, bhOwed, bhBeat,
                   bhBeatAge, bhDirectory, bhGone, bhTask>>

\* The drain guard of POST /v1/task.
TaskArrives ==
    /\ bhProc \in {"running", "stopping"}
    /\ bhTask' = IF IsDraining(bhKept) THEN "refused" ELSE "admitted"
    /\ UNCHANGED <<bhServer, bhBackend, bhProc, bhKept, bhOwed, bhBeat,
                   bhBeatAge, bhDirectory, bhFile, bhGone>>

\* mark_stopping, and the loops are cancelled at once; the process ends, then or
\* by a crash, and the file stays.
Stopping ==
    /\ bhProc = "running"
    /\ bhProc' = "stopping"
    /\ UNCHANGED <<bhServer, bhBackend, bhKept, bhOwed, bhBeat, bhBeatAge,
                   bhDirectory, bhFile, bhGone, bhTask>>

ProcessEnds ==
    /\ bhProc \in {"running", "stopping"}
    /\ bhProc' = "down"
    /\ UNCHANGED <<bhServer, bhBackend, bhKept, bhOwed, bhBeat, bhBeatAge,
                   bhDirectory, bhFile, bhGone, bhTask>>

Older(age) == IF age < BhMaxAge THEN age + 1 ELSE age
Sooner(left) == IF left > 0 THEN left - 1 ELSE 0

BhTick ==
    /\ bhKept' = [bhKept EXCEPT !.left = Sooner(@)] /\ bhOwed' = Sooner(bhOwed)
    /\ bhBeatAge' = Older(bhBeatAge)
    /\ bhFile' = IF bhFile = NoFile THEN NoFile ELSE [bhFile EXCEPT !.age = Older(@)]
    /\ bhGone' = IF bhProc = "down" THEN Older(bhGone) ELSE 0
    /\ UNCHANGED <<bhServer, bhBackend, bhProc, bhBeat, bhDirectory, bhTask>>

BhNext ==
    \/ BackendChanges \/ Serve \/ BeatBegins \/ BeatObserves
    \/ \E state \in {"healthy", "unavailable"} : BeatEnds(state)
    \/ BeatHangs \/ WriteSnapshot \/ TaskArrives \/ Stopping \/ ProcessEnds \/ BhTick

BhSpec == BhInit /\ [][BhNext]_bhVars

-----------------------------------------------------------------------------
\* `iicp-node healthcheck` calls a node live only if it ran within
\* RUNTIME_STALE_AFTER and, for a running node, if its heartbeat loop made
\* progress within the two stale windows together: a process that died, or
\* whose loop hangs, is not live for longer, whatever its last snapshot says.
LiveMeansAlive ==
    Healthcheck = 0 =>
        /\ bhGone <= RuntimeStale
        /\ bhProc = "running" => bhBeatAge <= SupervisorStale + RuntimeStale

\* A task is admitted only when the drain the backend last asked for has run
\* out: no probe that misses, and no other answer, reopens the node earlier
\* (_set_backend_stability and the drain guard).
DrainRunsItsTime ==
    [][TaskArrives /\ bhTask' = "admitted" => bhOwed = 0]_bhVars
=============================================================================
