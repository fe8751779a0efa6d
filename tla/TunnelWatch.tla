----------------------------- MODULE TunnelWatch -----------------------------
(* One node's Quick Tunnel under watch_elastic (tunnel.py) as serve wires it   *)
(* (cli.py): the watchdog thread that probes, rebuilds and re-registers the    *)
(* tunnel, against the main thread that closes it and ends the process.        *)
(*                                                                             *)
(* A tunnel's URL is the process that serves it. terminate() is asynchronous:  *)
(* the process is told to go and goes later.                                   *)
EXTENDS Naturals, FiniteSets

CONSTANTS
    Tunnels,       \* cloudflared processes, a pool large enough to take a new one
    MaxRespawns,   \* MAX_RESPAWNS
    MaxHealthFails,\* TUNNEL_HEALTH_MAX_FAILS
    DeadBehavior   \* _tunnel_dead_behavior: "exit", "retry" or "stop"

VARIABLES
    twPc,        \* the watchdog thread
    twAlive,     \* cloudflared processes that run
    twTold,      \* of those, the ones terminate() was called on
    twEdge,      \* tunnels whose public URL answers
    twCur,       \* self.process and self.url
    twFresh,     \* the process open_quick_tunnel waits for
    twOwned,     \* processes with a QuickTunnel, closed at exit
    twFails, twRespawns,
    twState,     \* TunnelState
    twAvailable, \* the node's runtime_available
    twEndpoint,  \* the node's endpoint
    twMain,      \* the main thread: serving, closed, exited
    twBusy       \* history: close() was called during a rebuild

twVars == <<twPc, twAlive, twTold, twEdge, twCur, twFresh, twOwned, twFails, twRespawns,
            twState, twAvailable, twEndpoint, twMain, twBusy>>

TwInit ==
    LET u == CHOOSE t \in Tunnels : TRUE
    IN  /\ twPc = "poll" /\ twAlive = {u} /\ twTold = {} /\ twEdge = {u}
        /\ twCur = u /\ twFresh = u /\ twOwned = {u} /\ twFails = 0 /\ twRespawns = 0
        /\ twState = "ready" /\ twAvailable = TRUE /\ twEndpoint = u /\ twMain = "serving"
        /\ twBusy = FALSE

TunnelRuns == twMain # "exited"
Closed == twMain # "serving"

(* on_state: the node answers heartbeats as available only while READY.        *)
SetState(s) == twState' = s /\ twAvailable' = (s = "ready")
Terminate(t) == twTold' = twTold \cup ({t} \cap twAlive)

----------------------------------------------------------------------------
(* The environment                                                             *)

TunnelProcessEnds(t) ==
    /\ t \in twAlive
    /\ twAlive' = twAlive \ {t} /\ twTold' = twTold \ {t} /\ twEdge' = twEdge \ {t}
    /\ UNCHANGED <<twPc, twCur, twFresh, twOwned, twFails, twRespawns, twState,
                   twAvailable, twEndpoint, twMain, twBusy>>

EdgeDrops(t) ==
    /\ t \in twEdge
    /\ twEdge' = twEdge \ {t}
    /\ UNCHANGED <<twPc, twAlive, twTold, twCur, twFresh, twOwned, twFails, twRespawns,
                   twState, twAvailable, twEndpoint, twMain, twBusy>>

EdgeAnswers(t) ==
    /\ t \in twAlive \ twEdge
    /\ twEdge' = twEdge \cup {t}
    /\ UNCHANGED <<twPc, twAlive, twTold, twCur, twFresh, twOwned, twFails, twRespawns,
                   twState, twAvailable, twEndpoint, twMain, twBusy>>

----------------------------------------------------------------------------
(* The watchdog                                                                *)

ProbeAnswers ==
    /\ TunnelRuns /\ twPc = "poll" /\ ~Closed
    /\ twCur \in twAlive /\ twCur \in twEdge
    /\ twFails' = 0 /\ twRespawns' = 0
    /\ SetState("ready")
    /\ UNCHANGED <<twPc, twAlive, twTold, twEdge, twCur, twFresh, twOwned, twEndpoint, twMain, twBusy>>

ProbeFails ==
    /\ TunnelRuns /\ twPc = "poll" /\ ~Closed
    /\ twCur \in twAlive /\ twCur \notin twEdge
    /\ IF twFails + 1 >= MaxHealthFails
       THEN /\ twFails' = 0
            /\ SetState("recovering")
            /\ Terminate(twCur)
       ELSE /\ twFails' = twFails + 1
            /\ SetState("twilight")
            /\ UNCHANGED twTold
    /\ UNCHANGED <<twPc, twAlive, twEdge, twCur, twFresh, twOwned, twRespawns, twEndpoint, twMain, twBusy>>

(* handle_dead and serve's _on_dead; os._exit runs no atexit handler.          *)
HandleDead ==
    /\ SetState("dead")
    /\ twPc' = IF DeadBehavior = "retry" THEN "dead_wait" ELSE "done"
    /\ twMain' = IF DeadBehavior = "exit" THEN "exited" ELSE twMain

(* Mutation: the watchdog respawns without looking at _closed.                 *)
ProcessGoneIgnoresClose ==
    /\ TunnelRuns /\ twPc = "poll"
    /\ twCur \notin twAlive
    /\ twRespawns' = twRespawns + 1
    /\ IF twRespawns + 1 > MaxRespawns
       THEN HandleDead
       ELSE twPc' = "open" /\ SetState("recovering") /\ UNCHANGED twMain
    /\ UNCHANGED <<twBusy, twAlive, twTold, twEdge, twCur, twFresh, twOwned, twFails, twEndpoint>>

(* The watchdog finds the process gone: it counts a respawn and opens a new    *)
(* tunnel, or gives up.                                                        *)
ProcessGone ==
    /\ TunnelRuns /\ twPc = "poll" /\ ~Closed
    /\ twCur \notin twAlive
    /\ twRespawns' = twRespawns + 1
    /\ IF twRespawns + 1 > MaxRespawns
       THEN HandleDead
       ELSE twPc' = "open" /\ SetState("recovering") /\ UNCHANGED twMain
    /\ UNCHANGED <<twBusy, twAlive, twTold, twEdge, twCur, twFresh, twOwned, twFails, twEndpoint>>

(* Mutation: a retry out of the dead state keeps the count of respawns.        *)
DeadRetryKeepsCount ==
    /\ TunnelRuns /\ twPc = "dead_wait"
    /\ IF Closed
       THEN twPc' = "done" /\ UNCHANGED <<twFails, twState, twAvailable>>
       ELSE twPc' = "poll" /\ twFails' = 0 /\ SetState("recovering")
    /\ twRespawns' = IF twRespawns > MaxRespawns THEN MaxRespawns ELSE twRespawns
    /\ UNCHANGED <<twAlive, twTold, twEdge, twCur, twFresh, twOwned, twEndpoint, twMain, twBusy>>

(* sleep_until_closed, then the watchdog starts over.                          *)
DeadRetry ==
    /\ TunnelRuns /\ twPc = "dead_wait"
    /\ IF Closed
       THEN twPc' = "done" /\ UNCHANGED <<twRespawns, twFails, twState, twAvailable>>
       ELSE twPc' = "poll" /\ twRespawns' = 0 /\ twFails' = 0 /\ SetState("recovering")
    /\ UNCHANGED <<twAlive, twTold, twEdge, twCur, twFresh, twOwned, twEndpoint, twMain, twBusy>>

WatchdogEnds ==
    /\ TunnelRuns /\ twPc = "poll" /\ Closed
    /\ twPc' = "done"
    /\ UNCHANGED <<twAlive, twTold, twEdge, twCur, twFresh, twOwned, twFails, twRespawns,
                   twState, twAvailable, twEndpoint, twMain, twBusy>>

(* open_quick_tunnel: the process is started, then its URL is awaited.         *)
OpenSpawns ==
    /\ TunnelRuns /\ twPc = "open"
    /\ \E t \in Tunnels \ (twAlive \cup twOwned \cup {twEndpoint}) :
         twFresh' = t /\ twAlive' = twAlive \cup {t}
    /\ twPc' = "url"
    /\ UNCHANGED <<twTold, twEdge, twCur, twOwned, twFails, twRespawns, twState,
                   twAvailable, twEndpoint, twMain, twBusy>>

OpenFails ==
    /\ TunnelRuns /\ twPc \in {"open", "url"}
    /\ IF twPc = "url" THEN Terminate(twFresh) ELSE UNCHANGED twTold
    /\ HandleDead
    /\ UNCHANGED <<twBusy, twAlive, twEdge, twCur, twFresh, twOwned, twFails, twRespawns, twEndpoint>>

OpenYieldsUrl ==
    /\ TunnelRuns /\ twPc = "url" /\ twFresh \in twAlive
    /\ twCur' = twFresh /\ twOwned' = {t \in twOwned : t \in twAlive} \cup {twFresh}
    /\ twFails' = 0
    /\ twPc' = "verify"
    /\ UNCHANGED <<twAlive, twTold, twEdge, twFresh, twRespawns, twState, twAvailable,
                   twEndpoint, twMain, twBusy>>

(* _wait_until_reachable, then READY and on_new_url: the node's endpoint is    *)
(* replaced and it registers again. _closed is not looked at on the way.       *)
Verified ==
    /\ TunnelRuns /\ twPc = "verify" /\ twCur \in twEdge
    /\ twRespawns' = 0
    /\ SetState("ready")
    /\ twEndpoint' = twCur
    /\ twPc' = "poll"
    /\ UNCHANGED <<twAlive, twTold, twEdge, twCur, twFresh, twOwned, twFails, twMain, twBusy>>

VerifyTimesOut ==
    /\ TunnelRuns /\ twPc = "verify" /\ twCur \notin twEdge
    /\ Terminate(twCur)
    /\ twPc' = "poll"
    /\ UNCHANGED <<twAlive, twEdge, twCur, twFresh, twOwned, twFails, twRespawns, twState,
                   twAvailable, twEndpoint, twMain, twBusy>>

----------------------------------------------------------------------------
(* The main thread                                                             *)

(* close(), from serve's finally or its SIGTERM handler: it terminates the     *)
(* process that self.process is now and waits for it.                          *)
TunnelClose ==
    /\ twMain = "serving"
    /\ twMain' = "closed"
    /\ twBusy' = (twPc \in {"open", "url", "verify"})
    /\ twAlive' = twAlive \ {twCur} /\ twTold' = twTold \ {twCur} /\ twEdge' = twEdge \ {twCur}
    /\ UNCHANGED <<twPc, twCur, twFresh, twOwned, twFails, twRespawns, twState, twAvailable,
                   twEndpoint>>

(* A normal exit runs the atexit handler of every QuickTunnel.                 *)
NormalExit ==
    /\ twMain = "closed"
    /\ twMain' = "exited"
    /\ twAlive' = twAlive \ twOwned /\ twTold' = twTold \ twOwned /\ twEdge' = twEdge \ twOwned
    /\ UNCHANGED <<twBusy, twPc, twCur, twFresh, twOwned, twFails, twRespawns, twState, twAvailable,
                   twEndpoint>>

(* The SIGTERM handler raises the signal again with its default action.        *)
SignalExit ==
    /\ twMain = "closed"
    /\ twMain' = "exited"
    /\ UNCHANGED <<twBusy, twPc, twAlive, twTold, twEdge, twCur, twFresh, twOwned, twFails, twRespawns,
                   twState, twAvailable, twEndpoint>>

Watchdog ==
    \/ ProbeAnswers \/ ProbeFails \/ ProcessGone \/ DeadRetry \/ WatchdogEnds
    \/ OpenSpawns \/ OpenFails \/ OpenYieldsUrl \/ Verified \/ VerifyTimesOut

TwNext ==
    \/ \E t \in Tunnels : TunnelProcessEnds(t) \/ EdgeDrops(t) \/ EdgeAnswers(t)
    \/ Watchdog
    \/ TunnelClose \/ NormalExit \/ SignalExit

(* The thread keeps running; a process told to go goes; and the provider is    *)
(* not always down: tried for ever, an opening and a verification succeed.     *)
TwFairness ==
    /\ WF_twVars(Watchdog)
    /\ \A t \in Tunnels : WF_twVars(t \in twTold /\ TunnelProcessEnds(t))
    /\ SF_twVars(OpenSpawns) /\ SF_twVars(OpenYieldsUrl)
    /\ SF_twVars(twPc = "verify" /\ EdgeAnswers(twCur)) /\ SF_twVars(Verified)

TwSpec == TwInit /\ [][TwNext]_twVars /\ TwFairness

----------------------------------------------------------------------------
(* Properties                                                                  *)

(* With the retry policy a node that lost its tunnel gets one again.           *)
TunnelComesBack == twState # "ready" ~> twState = "ready" \/ Closed

(* Unless close() fell into a rebuild, the process that ends afterwards leaves *)
(* no cloudflared child behind, whatever the watchdog does between the two.    *)
(* During a rebuild it may: the child that open_quick_tunnel waits for is not  *)
(* self.process yet, and after SIGTERM no atexit handler runs.                 *)
CloseLeavesNoTunnel == twMain = "exited" /\ ~twBusy => twAlive \subseteq twTold
=============================================================================
