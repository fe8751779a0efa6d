--------------------------- MODULE NodeSupervision ---------------------------
(***************************************************************************)
(* The node processes of one host: the supervisor that restarts them       *)
(* (service.py), the pidfile that keeps a node to one process              *)
(* (instance_lock.py), and the hand-over of a rotated operator key through *)
(* a marker file that every process reads and rewrites (cli.py).           *)
(*                                                                         *)
(* The files are shared without a lock: a read, the truncation that        *)
(* open(path, "w") does and the write that follows are separate steps, and *)
(* a process may die between any two of them.  A process knows the         *)
(* operator key it loaded when it started.  Process ids are not reused.    *)
(***************************************************************************)
EXTENDS Naturals, FiniteSets

CONSTANTS
    SvProcs,      \* `iicp-node serve` processes
    SvNodeOf,     \* the saved node each serves
    SvSupervised, \* those a service runs (IICP_SUPERVISED=1)
    SvForced,     \* those started with --force
    SvFleets,     \* which processes the operator uses, a set of sets
    SvMaxFaults   \* bound: crashes and re-execs of the updater

SvNodes == {SvNodeOf[p] : p \in SvProcs}
NoProc == "nobody"
Stale == "a dead process"

VARIABLES
    svPc,       \* the main thread of each process
    svWatch,    \* its handoff thread
    svPidfile,  \* per node: a process, a process that is gone, or no file
    svKey,      \* the operator key on disk: 1, then 2
    svLoaded,   \* the key each process runs with
    svMarker,   \* operator-handoff-pending-*.json
    svCopy,     \* what each process last read of it
    svGrace,    \* the grace period is over
    svFaults

svVars == <<svPc, svWatch, svPidfile, svKey, svLoaded, svMarker, svCopy, svGrace, svFaults>>
svFiles == <<svPidfile, svKey, svMarker>>

NoMarker == [file |-> "absent", requested |-> {}, completed |-> {}]
Torn == [file |-> "torn", requested |-> {}, completed |-> {}]

SvInit ==
    /\ \E fleet \in SvFleets :
          svPc = [p \in SvProcs |-> IF p \in fleet THEN "off" ELSE "ended"]
    /\ svWatch = [p \in SvProcs |-> "idle"]
    /\ svPidfile = [n \in SvNodes |-> NoProc]
    /\ svKey = 1 /\ svLoaded = [p \in SvProcs |-> 0]
    /\ svMarker = NoMarker /\ svCopy = [p \in SvProcs |-> NoMarker]
    /\ svGrace = FALSE /\ svFaults = 0

-----------------------------------------------------------------------------
(* Starting, and the instance lock                                          *)

\* The supervisor (or the operator) starts the process; _serve loads the
\* operator identity.
Start(p) ==
    /\ svPc[p] = "off"
    /\ svPc' = [svPc EXCEPT ![p] = "acquire"]
    /\ svLoaded' = [svLoaded EXCEPT ![p] = svKey]
    /\ UNCHANGED <<svWatch, svFiles, svCopy, svGrace, svFaults>>

\* Mutation: a pid that cannot be found counts as a running process.
PidAliveAlways(owner) == TRUE

PidAlive(owner) == owner /= Stale

\* acquire reads the pidfile; --force does not look.
AcquireCheck(p) ==
    LET owner == svPidfile[SvNodeOf[p]]
        taken == p \notin SvForced /\ owner \notin {NoProc, p} /\ PidAlive(owner)
    IN  /\ svPc[p] = "acquire"
        /\ svPc' = [svPc EXCEPT ![p] = IF taken THEN "off" ELSE "write pid"]
        /\ UNCHANGED <<svWatch, svFiles, svLoaded, svCopy, svGrace, svFaults>>

\* The pid is written, or cannot be: the lock fails open.
AcquireWrite(p) ==
    /\ svPc[p] = "write pid"
    /\ svPc' = [svPc EXCEPT ![p] = "register"]
    /\ \/ svPidfile' = [svPidfile EXCEPT ![SvNodeOf[p]] = p]
       \/ UNCHANGED svPidfile
    /\ UNCHANGED <<svWatch, svKey, svLoaded, svMarker, svCopy, svGrace, svFaults>>

\* Registration: only a success looks at the marker; after the last failure
\* the heartbeat heals the session and nobody looks any more.
Register(p) ==
    /\ svPc[p] = "register"
    /\ \E ok \in BOOLEAN :
          svPc' = [svPc EXCEPT ![p] = IF ok THEN "complete" ELSE "serving"]
    /\ UNCHANGED <<svWatch, svFiles, svLoaded, svCopy, svGrace, svFaults>>

\* The end of a process that runs no finally: os._exit and a crash leave the
\* pidfile, which from now on names a dead process.
Dies(p) ==
    /\ svPc' = [svPc EXCEPT ![p] = "off"]
    /\ svWatch' = [svWatch EXCEPT ![p] = "idle"]
    /\ svPidfile' = [n \in SvNodes |-> IF svPidfile[n] = p THEN Stale ELSE svPidfile[n]]

Crash(p) ==
    /\ svPc[p] \notin {"off", "ended"} /\ svFaults < SvMaxFaults
    /\ svFaults' = svFaults + 1
    /\ Dies(p)
    /\ UNCHANGED <<svKey, svLoaded, svMarker, svCopy, svGrace>>

\* The updater replaces the process image: same pid, every thread ends where
\* it is, serve begins again.
Reexec(p) ==
    /\ svPc[p] = "serving" /\ svFaults < SvMaxFaults
    /\ svFaults' = svFaults + 1
    /\ svPc' = [svPc EXCEPT ![p] = "acquire"]
    /\ svWatch' = [svWatch EXCEPT ![p] = "idle"]
    /\ svLoaded' = [svLoaded EXCEPT ![p] = svKey]
    /\ UNCHANGED <<svFiles, svCopy, svGrace>>

\* Ctrl-C: serve's finally runs and release() unlinks the pidfile, whoever it
\* names by now.
Interrupt(p) ==
    /\ svPc[p] = "serving" /\ p \notin SvSupervised
    /\ svPc' = [svPc EXCEPT ![p] = "ended"]
    /\ svPidfile' = [svPidfile EXCEPT ![SvNodeOf[p]] = NoProc]
    /\ UNCHANGED <<svWatch, svKey, svLoaded, svMarker, svCopy, svGrace, svFaults>>

-----------------------------------------------------------------------------
(* Rotating the operator key                                                *)

\* operator-key rotate, after the directory accepted: the new identity is
\* saved, then the saved nodes, then the marker.
RotateKey ==
    /\ svKey = 1
    /\ svKey' = 2
    /\ UNCHANGED <<svPc, svWatch, svPidfile, svLoaded, svMarker, svCopy, svGrace, svFaults>>

WriteMarker ==
    /\ svKey = 2 /\ svMarker = NoMarker /\ ~svGrace
    /\ svMarker' = [NoMarker EXCEPT !.file = "full"]
    /\ UNCHANGED <<svPc, svWatch, svPidfile, svKey, svLoaded, svCopy, svGrace, svFaults>>

\* created_at_unix + grace_seconds has passed.
GraceEnds ==
    /\ svMarker /= NoMarker /\ ~svGrace
    /\ svGrace' = TRUE
    /\ UNCHANGED <<svPc, svWatch, svFiles, svLoaded, svCopy, svFaults>>

\* Mutation: whoever registers with the marker present completes it.
MayCompleteUnclaimed(n, marker) == marker.file = "full"

\* Only a node that claimed its restart may complete the marker: the process
\* that is still registering when the key is rotated may not.
MayComplete(n, marker) == marker.file = "full" /\ n \in marker.requested

CompleteRead(p) ==
    /\ svPc[p] = "complete"
    /\ svCopy' = [svCopy EXCEPT ![p] = svMarker]
    /\ svPc' = [svPc EXCEPT ![p] = IF MayComplete(SvNodeOf[p], svMarker)
                                   THEN "rewrite" ELSE "serving"]
    /\ UNCHANGED <<svWatch, svFiles, svLoaded, svGrace, svFaults>>

Completed(p) == svCopy[p].completed \cup {SvNodeOf[p]}

\* Everyone is done: the marker is removed.  Otherwise the file is opened
\* for writing, which empties it.
CompleteOpen(p) ==
    /\ svPc[p] = "rewrite"
    /\ IF SvNodes \subseteq Completed(p)
       THEN svMarker' = NoMarker /\ svPc' = [svPc EXCEPT ![p] = "serving"]
       ELSE svMarker' = Torn /\ svPc' = [svPc EXCEPT ![p] = "rewriting"]
    /\ UNCHANGED <<svWatch, svPidfile, svKey, svLoaded, svCopy, svGrace, svFaults>>

CompleteWrite(p) ==
    /\ svPc[p] = "rewriting"
    /\ svMarker' = [svCopy[p] EXCEPT !.completed = Completed(p)]
    /\ svPc' = [svPc EXCEPT ![p] = "serving"]
    /\ UNCHANGED <<svWatch, svPidfile, svKey, svLoaded, svCopy, svGrace, svFaults>>

\* _handoff_restart_delay is 0: affected, not yet requested, not completed.
RestartDue(n, marker) ==
    marker.file = "full" /\ svGrace /\ n \notin marker.requested \cup marker.completed

\* The watch thread of a supervised process: read, claim, rewrite, exit 75.
ClaimRead(p) ==
    /\ svPc[p] = "serving" /\ p \in SvSupervised /\ svWatch[p] = "idle"
    /\ RestartDue(SvNodeOf[p], svMarker)
    /\ svCopy' = [svCopy EXCEPT ![p] = svMarker]
    /\ svWatch' = [svWatch EXCEPT ![p] = "claim"]
    /\ UNCHANGED <<svPc, svFiles, svLoaded, svGrace, svFaults>>

ClaimOpen(p) ==
    /\ svWatch[p] = "claim"
    /\ svMarker' = Torn
    /\ svWatch' = [svWatch EXCEPT ![p] = "claiming"]
    /\ UNCHANGED <<svPc, svPidfile, svKey, svLoaded, svCopy, svGrace, svFaults>>

ClaimWrite(p) ==
    /\ svWatch[p] = "claiming"
    /\ svMarker' = [svCopy[p] EXCEPT !.requested = @ \cup {SvNodeOf[p]}]
    /\ svWatch' = [svWatch EXCEPT ![p] = "claimed"]
    /\ UNCHANGED <<svPc, svPidfile, svKey, svLoaded, svCopy, svGrace, svFaults>>

ClaimExit(p) ==
    /\ svWatch[p] = "claimed"
    /\ Dies(p)
    /\ UNCHANGED <<svKey, svLoaded, svMarker, svCopy, svGrace, svFaults>>

\* The steps a running process takes by itself.
Runs(p) ==
    \/ AcquireCheck(p) \/ AcquireWrite(p) \/ Register(p)
    \/ CompleteRead(p) \/ CompleteOpen(p) \/ CompleteWrite(p)
Watches(p) == ClaimRead(p) \/ ClaimOpen(p) \/ ClaimWrite(p) \/ ClaimExit(p)

SvNext ==
    \/ RotateKey \/ WriteMarker \/ GraceEnds
    \/ \E p \in SvProcs :
          Start(p) \/ Runs(p) \/ Watches(p) \/ Crash(p) \/ Reexec(p) \/ Interrupt(p)

\* Threads run, time passes, and a service is restarted (Restart=on-failure,
\* KeepAlive); nobody need start or stop a process by hand, crash or rotate.
SvFairness ==
    /\ \A p \in SvProcs : WF_svVars(Runs(p)) /\ WF_svVars(Watches(p))
    /\ \A p \in SvSupervised : WF_svVars(Start(p))
    /\ WF_svVars(GraceEnds)

-----------------------------------------------------------------------------
(* Properties                                                               *)

\* After a rotation every supervised process comes to run with the new key,
\* although processes claim and complete the marker at the same time,
\* overwrite one another's entries and may still be starting when it appears.
\* The one way out is a marker left torn by a process that died, or was
\* replaced by the updater, between emptying and writing it.
EveryNodeReloads ==
    \A p \in SvSupervised :
        (svMarker.file = "full" /\ svPc[p] /= "ended") ~> (svLoaded[p] = 2 \/ svMarker.file = "torn")

\* A supervised node always comes back to serving: not the pidfile of a dead
\* process, nor the exit of the hand-over, nor a second process keeps the
\* node from being served for ever.
NodeComesBack ==
    \A p \in SvSupervised :
        [](svPc[p] /= "ended") =>
        []<>(\E q \in SvProcs : SvNodeOf[q] = SvNodeOf[p] /\ svPc[q] = "serving")
=============================================================================
