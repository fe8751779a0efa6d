------------------------------ MODULE SelfUpdate ------------------------------
(***************************************************************************)
(* The background self-updater of `iicp-node serve` (updater.py), one      *)
(* thread in each node process of a host.  The processes share the         *)
(* installed package and the status file that holds the back-off of a      *)
(* candidate that failed; each has its own copy of the status, reloaded    *)
(* from the file before every use and written back after every change.     *)
(*                                                                         *)
(* A deadline is kept as the number of intervals still to pass.            *)
(***************************************************************************)
EXTENDS Naturals, FiniteSetsExt

CONSTANTS
    UpProcs,
    UpMaxVersion,  \* bound: releases on the index
    UpMaxFailures, \* bound: failed installs and failed execs, together
    UpMaxDelay     \* the 24-hour cap, in check intervals

VARIABLES
    upLatest,    \* the newest release
    upInstalled, \* the package on disk
    upRunning,   \* the version each process runs
    upFile,      \* update-status.json
    upStatus,    \* _status of each process
    upPc,        \* the updater thread
    upSeen,      \* the candidate it is about to install
    upFailures   \* how often the environment failed

upVars == <<upLatest, upInstalled, upRunning, upFile, upStatus, upPc, upSeen, upFailures>>

\* sdk_update_last_attempted_version, _last_result, _consecutive_failures and
\* _next_retry_at.
NoStatus == [version |-> 0, result |-> "none", failures |-> 0, wait |-> 0]

UpInit ==
    /\ upLatest = 1 /\ upInstalled = 1
    /\ upRunning = [p \in UpProcs |-> 1]
    /\ upFile = NoStatus /\ upStatus = [p \in UpProcs |-> NoStatus]
    /\ upPc = [p \in UpProcs |-> "sleep"] /\ upSeen = [p \in UpProcs |-> 0]
    /\ upFailures = 0

-----------------------------------------------------------------------------
\* _retry_delay_s: doubles with every failure, at most 2^5 intervals and never
\* more than the cap.
RetryDelay(failures) == Min({UpMaxDelay, 2 ^ Min({failures - 1, 5})})

\* Mutation: a candidate that failed is not tried again.
RetryBlockedForGood(status, version) ==
    status.version = version /\ status.result = "failed"

\* candidate_retry_blocked, on the status just loaded.
RetryBlocked(status, version) ==
    status.version = version /\ status.result = "failed" /\ status.wait > 0

\* record_update_result: the count goes on only for the same candidate.
Recorded(status, version, success) ==
    LET n == IF status.version = version THEN status.failures + 1 ELSE 1
    IN  IF success THEN [version |-> version, result |-> "success", failures |-> 0, wait |-> 0]
        ELSE [version |-> version, result |-> "failed", failures |-> n,
              wait |-> RetryDelay(n)]

\* Load, change, persist; a write that fails leaves the old file.
Save(p, status) ==
    /\ upStatus' = [upStatus EXCEPT ![p] = status]
    /\ upFile' \in {status, upFile}

Publish ==
    /\ upLatest < UpMaxVersion
    /\ upLatest' = upLatest + 1
    /\ UNCHANGED <<upInstalled, upRunning, upFile, upStatus, upPc, upSeen, upFailures>>

SoonerRetry(status) == [status EXCEPT !.wait = IF @ > 0 THEN @ - 1 ELSE 0]

\* An interval passes.
IntervalPasses ==
    /\ upFile.wait > 0 \/ \E p \in UpProcs : upStatus[p].wait > 0
    /\ upFile' = SoonerRetry(upFile)
    /\ upStatus' = [p \in UpProcs |-> SoonerRetry(upStatus[p])]
    /\ UNCHANGED <<upLatest, upInstalled, upRunning, upPc, upSeen, upFailures>>

\* The loop wakes and asks the index; the check is recorded either way.
CheckIndex(p) ==
    /\ upPc[p] = "sleep"
    /\ upSeen' \in {[upSeen EXCEPT ![p] = v] : v \in {0, upLatest}}
    /\ upPc' = [upPc EXCEPT ![p] = "tick"]
    /\ Save(p, upFile)
    /\ UNCHANGED <<upLatest, upInstalled, upRunning, upFailures>>

\* auto_update_tick: unknown, current and backoff end the tick.
Tick(p) ==
    LET go == upSeen[p] > upRunning[p] /\ ~RetryBlocked(upFile, upSeen[p])
    IN  /\ upPc[p] = "tick"
        /\ upStatus' = [upStatus EXCEPT ![p] = upFile]
        /\ upPc' = [upPc EXCEPT ![p] = IF go THEN "install" ELSE "sleep"]
        /\ UNCHANGED <<upLatest, upInstalled, upRunning, upFile, upSeen, upFailures>>

\* perform_self_update: pip installs exactly the candidate.
Install(p) ==
    /\ upPc[p] = "install"
    /\ upInstalled' = upSeen[p]
    /\ Save(p, Recorded(upFile, upSeen[p], TRUE))
    /\ upPc' = [upPc EXCEPT ![p] = "exec"]
    /\ UNCHANGED <<upLatest, upRunning, upSeen, upFailures>>

InstallFails(p) ==
    /\ upPc[p] = "install" /\ upFailures < UpMaxFailures
    /\ upFailures' = upFailures + 1
    /\ Save(p, Recorded(upFile, upSeen[p], FALSE))
    /\ upPc' = [upPc EXCEPT ![p] = "sleep"]
    /\ UNCHANGED <<upLatest, upInstalled, upRunning, upSeen>>

\* reexec_cli: the process runs what is installed now, with a fresh status.
ReexecCli(p) ==
    /\ upPc[p] = "exec"
    /\ upRunning' = [upRunning EXCEPT ![p] = upInstalled]
    /\ upStatus' = [upStatus EXCEPT ![p] = NoStatus]
    /\ upPc' = [upPc EXCEPT ![p] = "sleep"]
    /\ UNCHANGED <<upLatest, upInstalled, upFile, upSeen, upFailures>>

\* The exec failed: the loop records the error and goes on with the old code.
ReexecFails(p) ==
    /\ upPc[p] = "exec" /\ upFailures < UpMaxFailures
    /\ upFailures' = upFailures + 1
    /\ Save(p, upFile)
    /\ upPc' = [upPc EXCEPT ![p] = "sleep"]
    /\ UNCHANGED <<upLatest, upInstalled, upRunning, upSeen>>

UpNext ==
    \/ Publish \/ IntervalPasses
    \/ \E p \in UpProcs :
          \/ CheckIndex(p) \/ Tick(p)
          \/ Install(p) \/ InstallFails(p) \/ ReexecCli(p) \/ ReexecFails(p)

\* Time passes, the loop goes on, and the index answers again and again.
UpFairness ==
    /\ WF_upVars(IntervalPasses)
    /\ \A p \in UpProcs :
          /\ SF_upVars(CheckIndex(p) /\ upSeen'[p] = upLatest)
          /\ WF_upVars(Tick(p))
          /\ WF_upVars(Install(p) \/ InstallFails(p))
          /\ WF_upVars(ReexecCli(p) \/ ReexecFails(p))

-----------------------------------------------------------------------------
(* Properties                                                               *)

\* Every process ends up on the newest release, whatever installs and execs
\* failed on the way, although the processes overwrite one another's back-off
\* in the shared status file and a write of it may be lost: the back-off
\* delays a candidate and never bars it, and a newer one is not held back by
\* the failures of an older one.
EveryProcessUpdates == <>[](\A p \in UpProcs : upRunning[p] = upLatest)
=============================================================================
