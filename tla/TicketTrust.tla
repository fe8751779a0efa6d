---------------------------- MODULE TicketTrust ----------------------------
(* The opt-in dispatch ticket trust profile (dispatch_ticket_trust.py): the   *)
(* owner-local trust bundle file that several processes install into under a  *)
(* lock file, and the threads of a process that load a bundle, verify a       *)
(* ticket against it and remember its jti in the local replay cache.          *)
(*                                                                            *)
(* One key is modelled: a bundle is its version and the state of that key,    *)
(* and two bundles are the same bytes iff they are the same record.           *)
EXTENDS Naturals, Sequences

CONSTANTS
    Writers,       \* processes that install or recover
    Threads,       \* verifying threads of one process
    TtJtis,        \* tickets
    JtiExpires,    \* [TtJtis -> Nat], expires_at of a ticket
    TtMaxVersion,  \* bound on bundle versions
    TtMaxClock,    \* bound on the clock
    TtMaxVerifies, \* bound on the verifications of a thread
    TtMaxWrites    \* bound on the calls of a writer

\* "free" names no process: it is the lock file's absence.
ASSUME WritersAssumption == "free" \notin Writers
ASSUME TicketsAssumption == TtJtis # {} /\ JtiExpires \in [TtJtis -> Nat]
ASSUME TrustBoundsAssumption == TtMaxVersion \in Nat

VARIABLES
    ttClock,
    ttFile,        \* the state file: FileAbsent, Corrupt or a stored bundle
    ttLock,        \* the lock file: "free" or the writer that created it
    ttW,           \* what each writer is doing
    ttSeen,        \* LocalReplayCache._seen, as the set of remembered jtis
    ttT,           \* what each thread is doing
    ttAccepted,    \* history: jtis accepted by a call that was given the cache
    ttFloor        \* history: highest version in force since the file was last lost

ttVars == <<ttClock, ttFile, ttLock, ttW, ttSeen, ttT, ttAccepted, ttFloor>>

Bundles == [version : 0..TtMaxVersion, key : {"active", "revoked"}]
NoBundle == [version |-> 0, key |-> "active"]
(* StoredTrustBundle, or what load finds instead of one.                      *)
FileAbsent == [kind |-> "absent", bundle |-> NoBundle, high |-> 0]
Corrupt == [kind |-> "corrupt", bundle |-> NoBundle, high |-> 0]
Stored(b, high) == [kind |-> "stored", bundle |-> b, high |-> high]
Loads(file) == file.kind = "stored"

TtMax(a, b) == IF a >= b THEN a ELSE b
WriterIdle(calls) == [pc |-> "idle", op |-> "install", bundle |-> NoBundle,
                      arg |-> 0, loaded |-> FileAbsent, calls |-> calls]
ThreadIdle(runs) == [pc |-> "idle", jti |-> CHOOSE j \in TtJtis : TRUE, now |-> 0,
                     version |-> 0, floor |-> 0, guarded |-> FALSE, known |-> FALSE, runs |-> runs]

TtInit ==
    /\ ttClock = 0
    /\ ttFile = FileAbsent
    /\ ttLock = "free"
    /\ ttW = [w \in Writers |-> WriterIdle(0)]
    /\ ttSeen = {}
    /\ ttT = [t \in Threads |-> ThreadIdle(0)]
    /\ ttAccepted = {}
    /\ ttFloor = 0

(* The environment: time passes; the file is damaged from outside.            *)
TtTick ==
    /\ ttClock < TtMaxClock
    /\ ttClock' = ttClock + 1
    /\ UNCHANGED <<ttFile, ttLock, ttW, ttSeen, ttT, ttAccepted, ttFloor>>

TtDamage ==
    /\ Loads(ttFile)
    /\ ttFile' = Corrupt
    /\ ttFloor' = 0
    /\ UNCHANGED <<ttClock, ttLock, ttW, ttSeen, ttT, ttAccepted>>

----------------------------------------------------------------------------
(* The writers                                                                *)

WriterStays == UNCHANGED <<ttClock, ttSeen, ttT, ttAccepted>>

(* install(bundle, expected_current_version); arg TtMaxVersion + 1 is None.   *)
InstallBegins(w) ==
    /\ ttW[w].pc = "idle" /\ ttW[w].calls < TtMaxWrites
    /\ \E b \in Bundles, expected \in {ttFile.bundle.version, TtMaxVersion + 1} :
         ttW' = [ttW EXCEPT ![w] = [pc |-> "lock", op |-> "install", bundle |-> b,
                                    arg |-> expected, loaded |-> FileAbsent, calls |-> @.calls + 1]]
    /\ UNCHANGED <<ttFile, ttLock, ttFloor>> /\ WriterStays

(* recover(bundle, authorization); without a reason it returns                *)
(* recovery_required before it takes the lock.                                *)
RecoverBegins(w) ==
    /\ ttW[w].pc = "idle" /\ ttW[w].calls < TtMaxWrites
    /\ \E b \in Bundles, minimum \in {0, TtMaxVersion} :
         ttW' = [ttW EXCEPT ![w] = [pc |-> "lock", op |-> "recover", bundle |-> b,
                                    arg |-> minimum, loaded |-> FileAbsent, calls |-> @.calls + 1]]
    /\ UNCHANGED <<ttFile, ttLock, ttFloor>> /\ WriterStays

(* Mutation: the lock file is opened without O_EXCL.                          *)
AcquireLockShared(w) ==
    /\ ttW[w].pc = "lock"
    /\ ttLock' = w
    /\ ttW' = [ttW EXCEPT ![w].pc = "load"]
    /\ UNCHANGED <<ttFile, ttFloor>> /\ WriterStays

(* _acquire_lock: O_CREAT | O_EXCL on the lock file, tried until the deadline.*)
AcquireLock(w) ==
    /\ ttW[w].pc = "lock"
    /\ ttLock = "free"
    /\ ttLock' = w
    /\ ttW' = [ttW EXCEPT ![w].pc = "load"]
    /\ UNCHANGED <<ttFile, ttFloor>> /\ WriterStays

LockTimesOut(w) ==
    /\ ttW[w].pc = "lock"
    /\ ttLock # "free"
    /\ ttW' = [ttW EXCEPT ![w] = WriterIdle(@.calls)]
    /\ UNCHANGED <<ttFile, ttLock, ttFloor>> /\ WriterStays

(* What install decides from the state it loads.                              *)
InstallVerdict(file, b, expected) ==
    IF file = Corrupt THEN "corrupt"
    ELSE IF expected <= TtMaxVersion /\ ~(Loads(file) /\ file.bundle.version = expected)
         THEN "conflict"
    ELSE IF b.version < file.high THEN "stale"
    ELSE IF Loads(file) /\ b.version = file.bundle.version
         THEN IF b = file.bundle THEN "unchanged" ELSE "conflict"
    ELSE "installed"

(* recover takes a corrupt store for an empty one.                            *)
Decide(w) ==
    /\ ttW[w].pc = "load"
    /\ ttW' = [ttW EXCEPT ![w].loaded = ttFile,
                          ![w].pc = IF \/ ttW[w].op = "recover"
                                       \/ InstallVerdict(ttFile, ttW[w].bundle, ttW[w].arg) = "installed"
                                    THEN "commit" ELSE "release"]
    /\ UNCHANGED <<ttFile, ttLock, ttFloor>> /\ WriterStays

NewHighWater(w) ==
    LET b == ttW[w].bundle.version IN
    IF ttW[w].op = "recover"
    THEN TtMax(TtMax(b, ttW[w].arg), ttW[w].loaded.high)
    ELSE TtMax(ttW[w].loaded.high, b)

(* _commit writes a temporary file and renames it over the state file.        *)
Commit(w) ==
    /\ ttW[w].pc = "commit"
    /\ ttFile' = Stored(ttW[w].bundle, NewHighWater(w))
    /\ ttFloor' = TtMax(ttFloor, ttW[w].bundle.version)
    /\ ttW' = [ttW EXCEPT ![w].pc = "release"]
    /\ UNCHANGED ttLock /\ WriterStays

ReleaseLock(w) ==
    /\ ttW[w].pc = "release"
    /\ ttLock' = "free"
    /\ ttW' = [ttW EXCEPT ![w] = WriterIdle(@.calls)]
    /\ UNCHANGED <<ttFile, ttFloor>> /\ WriterStays

(* The process dies: nothing removes its lock file.                           *)
WriterDies(w) ==
    /\ ttW[w].pc \in {"lock", "load", "commit", "release"}
    /\ ttW' = [ttW EXCEPT ![w] = [WriterIdle(@.calls) EXCEPT !.pc = "dead"]]
    /\ UNCHANGED <<ttFile, ttLock, ttFloor>> /\ WriterStays

----------------------------------------------------------------------------
(* The verifying threads                                                      *)

(* The checks of verify_dispatch_ticket_v2 before the cache: the caller's      *)
(* minimum, the key's state and the ticket's expiry; sound stands for those    *)
(* that do not depend on what this module follows: the validity windows of     *)
(* bundle and key, profile, key id, issuer, audience, bindings and signature.  *)
Verifies(file, minimum, j, sound, now) ==
    /\ file.bundle.version >= minimum
    /\ file.bundle.key # "revoked"
    /\ JtiExpires[j] > now
    /\ sound

(* The caller loads the bundle, reads the clock and calls verify; up to the    *)
(* cache all is local.  Both safeguards are the caller's to give:              *)
(* minimum_bundle_version is 0 unless it passes the high-water mark it loaded, *)
(* replay_cache is None unless it passes the cache.                            *)
VerifyBegins(t) ==
    /\ ttT[t].pc = "idle" /\ ttT[t].runs < TtMaxVerifies
    /\ Loads(ttFile)
    /\ \E j \in TtJtis, sound \in BOOLEAN, minimum \in {0, ttFile.high}, start \in {"cache", "accept"} :
         ttT' = [ttT EXCEPT ![t] =
                   IF Verifies(ttFile, minimum, j, sound, ttClock)
                   THEN [pc |-> start, jti |-> j, now |-> ttClock,
                         version |-> ttFile.bundle.version, floor |-> ttFloor,
                         guarded |-> minimum = ttFile.high,
                         known |-> start = "cache" /\ j \in ttAccepted, runs |-> ttT[t].runs + 1]
                   ELSE ThreadIdle(ttT[t].runs + 1)]
    /\ UNCHANGED <<ttClock, ttFile, ttLock, ttW, ttSeen, ttAccepted, ttFloor>>

(* accept_anchored of a call without a cache: nothing is looked up or kept.    *)
AcceptUncached(t) ==
    /\ ttT[t].pc = "accept"
    /\ ttT' = [ttT EXCEPT ![t] = ThreadIdle(ttT[t].runs)]
    /\ UNCHANGED <<ttClock, ttFile, ttLock, ttW, ttSeen, ttAccepted, ttFloor>>

(* Mutation: an entry is pruned a second before its ticket expires.           *)
CachePrunesEarly(t) ==
    LET kept == {j \in ttSeen : JtiExpires[j] > ttT[t].now + 1} IN
    /\ ttT[t].pc = "cache"
    /\ ttSeen' = kept
    /\ ttT' = IF ttT[t].jti \in kept
              THEN [ttT EXCEPT ![t] = ThreadIdle(ttT[t].runs)]
              ELSE [ttT EXCEPT ![t].pc = "remember",
                               ![t].known = @ /\ ttClock < JtiExpires[ttT[t].jti]]
    /\ UNCHANGED <<ttClock, ttFile, ttLock, ttW, ttAccepted, ttFloor>>

(* contains prunes by the now of its caller, then looks the jti up.           *)
CacheContains(t) ==
    LET kept == {j \in ttSeen : JtiExpires[j] > ttT[t].now} IN
    /\ ttT[t].pc = "cache"
    /\ ttSeen' = kept
    /\ ttT' = IF ttT[t].jti \in kept
              THEN [ttT EXCEPT ![t] = ThreadIdle(ttT[t].runs)]
              ELSE [ttT EXCEPT ![t].pc = "remember",
                               ![t].known = @ /\ ttClock < JtiExpires[ttT[t].jti]]
    /\ UNCHANGED <<ttClock, ttFile, ttLock, ttW, ttAccepted, ttFloor>>

(* remember, in a critical section of its own, and the acceptance.            *)
CacheRemember(t) ==
    /\ ttT[t].pc = "remember"
    /\ ttSeen' = ttSeen \cup {ttT[t].jti}
    /\ ttAccepted' = ttAccepted \cup {ttT[t].jti}
    /\ ttT' = [ttT EXCEPT ![t] = ThreadIdle(ttT[t].runs)]
    /\ UNCHANGED <<ttClock, ttFile, ttLock, ttW, ttFloor>>

TtNext ==
    \/ TtTick \/ TtDamage
    \/ \E w \in Writers :
          \/ InstallBegins(w) \/ RecoverBegins(w) \/ AcquireLock(w) \/ LockTimesOut(w)
          \/ Decide(w) \/ Commit(w) \/ ReleaseLock(w) \/ WriterDies(w)
    \/ \E t \in Threads :
          VerifyBegins(t) \/ AcceptUncached(t) \/ CacheContains(t) \/ CacheRemember(t)

TtSpec == TtInit /\ [][TtNext]_ttVars

----------------------------------------------------------------------------
(* Properties                                                                 *)

(* A writer renames its file over exactly the state it loaded and decided on, *)
(* or over a damaged one: no install of another process falls in between, and *)
(* behind the lock file of a dead process nobody writes at all.               *)
NoLostInstall ==
    \A w \in Writers : ttW[w].pc = "commit" =>
        ttLock = w /\ ttFile \in {ttW[w].loaded, Corrupt}

(* A call given the loaded high-water mark as its minimum accepts a ticket     *)
(* only on a bundle at least as new as every bundle in force before it loaded, *)
(* so a key revoked there stays revoked: install refuses to go back, and after *)
(* recover went back the mark makes verification refuse the bundle.            *)
NoRollbackAccepted ==
    \A t \in Threads : ttT[t].pc \in {"accept", "remember"} /\ ttT[t].guarded
        => ttT[t].version >= ttT[t].floor

(* A call given the cache does not accept a ticket, while it is valid, that    *)
(* another such call had accepted before this one began, whatever the other    *)
(* threads' clocks let them prune. Two calls that overlap may both accept it.  *)
NoReplayWhileValid ==
    \A t \in Threads : ttT[t].pc = "remember" => ~ttT[t].known

(* The two safeguards a caller of verify_dispatch_ticket_v2 may ask for do     *)
(* what they are for: with the minimum nothing rests on a superseded bundle,   *)
(* with the cache nothing is accepted again. Without them neither holds.       *)
NothingStaleAccepted == NoRollbackAccepted /\ NoReplayWhileValid
=============================================================================
