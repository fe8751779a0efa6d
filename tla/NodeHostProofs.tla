--------------------------- MODULE NodeHostProofs ---------------------------
(***************************************************************************)
(* What one node keeps beside its tasks: the ticket trust profile its       *)
(* processes and threads share, the backend's drain and the health file,    *)
(* the quick tunnel, and serve from detection to shutdown.                  *)
(***************************************************************************)
EXTENDS TicketTrust, BackendHealth, TunnelWatch, NodeStartup, TLAPS

-----------------------------------------------------------------------------
\* The ticket trust profile.

Files == [kind : {"absent", "corrupt", "stored"}, bundle : Bundles, high : Nat]
WriterStates ==
  [pc : {"idle", "lock", "load", "commit", "release", "dead"}, op : {"install", "recover"},
   bundle : Bundles, arg : Nat, loaded : Files, calls : Nat]
ThreadStates ==
  [pc : {"idle", "cache", "remember", "accept"}, jti : TtJtis, now : Nat,
   version : Nat, floor : Nat, guarded : BOOLEAN, known : BOOLEAN, runs : Nat]

TrustTypes ==
  /\ ttClock \in Nat /\ ttFloor \in Nat
  /\ ttFile \in Files
  /\ ttLock \in Writers \cup {"free"}
  /\ ttW \in [Writers -> WriterStates]
  /\ ttSeen \subseteq TtJtis /\ ttAccepted \subseteq TtJtis
  /\ ttT \in [Threads -> ThreadStates]

\* Who is past the lock file created it.
LockHeld == \A w \in Writers : ttW[w].pc \in {"load", "commit", "release"} => ttLock = w
\* No bundle in force since the file was last lost is newer than its high-water mark.
FloorBelowHigh == ttFloor <= ttFile.high
\* What calls with the cache accepted is still in it, or has expired.
AcceptedRemembered == \A j \in ttAccepted : j \in ttSeen \/ JtiExpires[j] <= ttClock
\* What a verification carries from its start to its answer.
ThreadsCarry ==
  \A t \in Threads :
    /\ ttT[t].pc # "idle" =>
         ttT[t].now <= ttClock /\ (ttT[t].guarded => ttT[t].version >= ttT[t].floor)
    /\ ttT[t].pc = "cache" /\ ttT[t].known => ttT[t].jti \in ttAccepted
    /\ ttT[t].pc = "remember" => ~ttT[t].known

InstallInv == TrustTypes /\ LockHeld /\ NoLostInstall /\ FloorBelowHigh
TrustInv == InstallInv /\ AcceptedRemembered /\ ThreadsCarry

\* The records the writers and threads are reset to are of their types.
LEMMA IdleRecords ==
  /\ FileAbsent \in Files /\ Corrupt \in Files
  /\ \A n \in Nat : WriterIdle(n) \in WriterStates /\ ThreadIdle(n) \in ThreadStates
<1>1. NoBundle \in Bundles
  BY TrustBoundsAssumption DEF NoBundle, Bundles
<1>2. FileAbsent \in Files /\ Corrupt \in Files
  BY <1>1 DEF FileAbsent, Corrupt, Files
<1>3. (CHOOSE j \in TtJtis : TRUE) \in TtJtis
  BY TicketsAssumption
<1>4. \A n \in Nat : WriterIdle(n) \in WriterStates
  BY <1>1, <1>2 DEF WriterIdle, WriterStates
<1>5. \A n \in Nat : ThreadIdle(n) \in ThreadStates
  BY <1>3 DEF ThreadIdle, ThreadStates
<1> QED BY <1>2, <1>4, <1>5

\* The mark a commit writes is above the one it loaded and above its own bundle.
LEMMA HighWaterRises ==
  ASSUME TrustTypes, NEW w \in Writers
  PROVE  /\ ttW[w].bundle \in Bundles /\ ttW[w].bundle.version \in Nat
         /\ ttW[w].loaded \in Files /\ ttW[w].loaded.high \in Nat
         /\ NewHighWater(w) \in Nat
         /\ NewHighWater(w) >= ttW[w].bundle.version
         /\ NewHighWater(w) >= ttW[w].loaded.high
<1>1. ttW[w] \in WriterStates
  BY DEF TrustTypes
<1>2. ttW[w].bundle \in Bundles /\ ttW[w].arg \in Nat /\ ttW[w].loaded \in Files
  BY <1>1 DEF WriterStates
<1>3. ttW[w].bundle.version \in Nat /\ ttW[w].loaded.high \in Nat
  BY <1>2, TrustBoundsAssumption DEF Bundles, Files
<1> QED BY <1>2, <1>3 DEF NewHighWater, TtMax

\* Every step keeps the types.
LEMMA TrustTypesKept ==
  ASSUME TrustTypes, [TtNext]_ttVars
  PROVE  TrustTypes'
<1> USE IdleRecords, TrustBoundsAssumption
<1>1. CASE TtTick
  BY <1>1 DEF TtTick, TrustTypes
<1>2. CASE TtDamage
  BY <1>2 DEF TtDamage, TrustTypes
<1>3. ASSUME NEW w \in Writers, InstallBegins(w) PROVE TrustTypes'
  <2>1. PICK b \in Bundles, expected \in {ttFile.bundle.version, TtMaxVersion + 1} :
          ttW' = [ttW EXCEPT ![w] = [pc |-> "lock", op |-> "install", bundle |-> b,
                                     arg |-> expected, loaded |-> FileAbsent,
                                     calls |-> ttW[w].calls + 1]]
    BY <1>3 DEF InstallBegins
  <2>2. expected \in Nat
    BY DEF TrustTypes, Files, Bundles
  <2>3. ttW[w].calls + 1 \in Nat
    BY DEF TrustTypes, WriterStates
  <2>4. [pc |-> "lock", op |-> "install", bundle |-> b, arg |-> expected,
         loaded |-> FileAbsent, calls |-> ttW[w].calls + 1] \in WriterStates
    BY <2>2, <2>3 DEF WriterStates
  <2> QED BY <1>3, <2>1, <2>4 DEF InstallBegins, WriterStays, TrustTypes
<1>4. ASSUME NEW w \in Writers, RecoverBegins(w) PROVE TrustTypes'
  <2>1. PICK b \in Bundles, minimum \in {0, TtMaxVersion} :
          ttW' = [ttW EXCEPT ![w] = [pc |-> "lock", op |-> "recover", bundle |-> b,
                                     arg |-> minimum, loaded |-> FileAbsent,
                                     calls |-> ttW[w].calls + 1]]
    BY <1>4 DEF RecoverBegins
  <2>2. ttW[w].calls + 1 \in Nat
    BY DEF TrustTypes, WriterStates
  <2>3. [pc |-> "lock", op |-> "recover", bundle |-> b, arg |-> minimum,
         loaded |-> FileAbsent, calls |-> ttW[w].calls + 1] \in WriterStates
    BY <2>2 DEF WriterStates
  <2> QED BY <1>4, <2>1, <2>3 DEF RecoverBegins, WriterStays, TrustTypes
<1>5. ASSUME NEW w \in Writers, AcquireLock(w) PROVE TrustTypes'
  BY <1>5 DEF AcquireLock, WriterStays, TrustTypes, WriterStates
<1>6. ASSUME NEW w \in Writers, LockTimesOut(w) PROVE TrustTypes'
  <2>1. ttW[w].calls \in Nat
    BY DEF TrustTypes, WriterStates
  <2> QED BY <1>6, <2>1 DEF LockTimesOut, WriterStays, TrustTypes
<1>7. ASSUME NEW w \in Writers, Decide(w) PROVE TrustTypes'
  BY <1>7 DEF Decide, WriterStays, TrustTypes, WriterStates
<1>8. ASSUME NEW w \in Writers, Commit(w) PROVE TrustTypes'
  <2>1. NewHighWater(w) \in Nat /\ ttW[w].bundle \in Bundles /\ ttW[w].bundle.version \in Nat
    BY HighWaterRises
  <2>2. Stored(ttW[w].bundle, NewHighWater(w)) \in Files
    BY <2>1 DEF Stored, Files
  <2>3. TtMax(ttFloor, ttW[w].bundle.version) \in Nat
    BY <2>1 DEF TtMax, TrustTypes, Bundles
  <2> QED BY <1>8, <2>2, <2>3 DEF Commit, WriterStays, TrustTypes, WriterStates
<1>9. ASSUME NEW w \in Writers, ReleaseLock(w) PROVE TrustTypes'
  <2>1. ttW[w].calls \in Nat
    BY DEF TrustTypes, WriterStates
  <2> QED BY <1>9, <2>1 DEF ReleaseLock, WriterStays, TrustTypes
<1>10. ASSUME NEW w \in Writers, WriterDies(w) PROVE TrustTypes'
  <2>1. ttW[w].calls \in Nat
    BY DEF TrustTypes, WriterStates
  <2>2. [WriterIdle(ttW[w].calls) EXCEPT !.pc = "dead"] \in WriterStates
    BY <2>1 DEF WriterStates
  <2> QED BY <1>10, <2>2 DEF WriterDies, WriterStays, TrustTypes
<1>11. ASSUME NEW t \in Threads, VerifyBegins(t) \/ AcceptUncached(t) PROVE TrustTypes'
  <2>0. CASE AcceptUncached(t)
    <3>1. ttT[t].runs \in Nat
      BY DEF TrustTypes, ThreadStates
    <3> QED BY <2>0, <3>1 DEF AcceptUncached, TrustTypes
  <2>a. CASE VerifyBegins(t)
    <3> DEFINE Begun(j, m, c) ==
                 [pc |-> c, jti |-> j, now |-> ttClock,
                  version |-> ttFile.bundle.version, floor |-> ttFloor, guarded |-> m = ttFile.high,
                  known |-> c = "cache" /\ j \in ttAccepted, runs |-> ttT[t].runs + 1]
    <3>1. PICK j \in TtJtis, sound \in BOOLEAN, m \in {0, ttFile.high}, c \in {"cache", "accept"} :
            ttT' = [ttT EXCEPT ![t] = IF Verifies(ttFile, m, j, sound, ttClock)
                                      THEN Begun(j, m, c) ELSE ThreadIdle(ttT[t].runs + 1)]
      BY <2>a DEF VerifyBegins
    <3>2. ttT[t].runs + 1 \in Nat /\ ttFile.bundle.version \in Nat
      <4>1. ttT[t] \in ThreadStates /\ ttFile \in Files
        BY DEF TrustTypes
      <4>2. ttT[t].runs \in Nat
        BY <4>1 DEF ThreadStates
      <4>3. ttFile.bundle.version \in Nat
        BY <4>1 DEF Files, Bundles
      <4> QED BY <4>2, <4>3
    <3>3. (m = ttFile.high) \in BOOLEAN /\ (c = "cache" /\ j \in ttAccepted) \in BOOLEAN
      OBVIOUS
    <3>4. Begun(j, m, c) \in ThreadStates
      BY <3>2, <3>3 DEF ThreadStates, TrustTypes
    <3> QED BY <2>a, <3>1, <3>2, <3>4 DEF VerifyBegins, TrustTypes
  <2> QED BY <1>11, <2>0, <2>a
<1>12. ASSUME NEW t \in Threads, CacheContains(t) PROVE TrustTypes'
  <2>1. ttT[t].runs \in Nat /\ ttT[t].known \in BOOLEAN
    BY DEF TrustTypes, ThreadStates
  <2>2. ttT' \in [Threads -> ThreadStates]
    <3>1. CASE ttT' = [ttT EXCEPT ![t] = ThreadIdle(ttT[t].runs)]
      BY <3>1, <2>1 DEF TrustTypes
    <3>2. CASE ttT' = [ttT EXCEPT ![t].pc = "remember",
                         ![t].known = @ /\ ttClock < JtiExpires[ttT[t].jti]]
      <4>1. ttT[t] \in ThreadStates
        BY DEF TrustTypes
      <4>2. [ttT[t] EXCEPT !.pc = "remember",
                           !.known = @ /\ ttClock < JtiExpires[ttT[t].jti]] \in ThreadStates
        BY <4>1, Zenon DEF ThreadStates
      <4> QED BY <3>2, <4>2 DEF TrustTypes
    <3> QED BY <1>12, <3>1, <3>2 DEF CacheContains
  <2> QED BY <1>12, <2>2 DEF CacheContains, TrustTypes
<1>13. ASSUME NEW t \in Threads, CacheRemember(t) PROVE TrustTypes'
  <2>1. ttT[t].runs \in Nat /\ ttT[t].jti \in TtJtis
    BY DEF TrustTypes, ThreadStates
  <2> QED BY <1>13, <2>1 DEF CacheRemember, TrustTypes
<1>14. CASE UNCHANGED ttVars
  BY <1>14 DEF ttVars, TrustTypes
<1> QED BY <1>1, <1>2, <1>3, <1>4, <1>5, <1>6, <1>7, <1>8, <1>9, <1>10, <1>11,
           <1>12, <1>13, <1>14 DEF TtNext

\* No step puts a bundle between what a writer loaded and what it commits.
LEMMA InstallInvKept ==
  ASSUME InstallInv, [TtNext]_ttVars
  PROVE  InstallInv'
<1> USE WritersAssumption DEF InstallInv
<1>0. TrustTypes'
  BY TrustTypesKept
<1>1. CASE TtTick
  BY <1>0, <1>1 DEF TtTick, LockHeld, NoLostInstall, FloorBelowHigh
<1>2. CASE TtDamage
  BY <1>0, <1>2 DEF TtDamage, LockHeld, NoLostInstall, FloorBelowHigh, Corrupt
<1>3. ASSUME NEW w \in Writers, InstallBegins(w) \/ RecoverBegins(w) PROVE InstallInv'
  <2>1. PICK r \in [pc : {"lock"}, op : {"install", "recover"}, bundle : Bundles, arg : Nat,
                    loaded : Files, calls : Nat] : ttW' = [ttW EXCEPT ![w] = r]
    <3>1. ttW'[w] \in WriterStates
      BY <1>0 DEF TrustTypes
    <3>2. ttW' = [ttW EXCEPT ![w] = ttW'[w]] /\ ttW'[w].pc = "lock"
      BY <1>3 DEF TrustTypes, InstallBegins, RecoverBegins
    <3> QED BY <3>1, <3>2 DEF WriterStates
  <2>2. UNCHANGED <<ttFile, ttLock, ttFloor>>
    BY <1>3 DEF InstallBegins, RecoverBegins
  <2>3. \A v \in Writers : v # w => ttW'[v] = ttW[v]
    BY <2>1 DEF TrustTypes
  <2>4. ttW'[w].pc = "lock"
    BY <2>1 DEF TrustTypes
  <2> QED BY <1>0, <2>2, <2>3, <2>4 DEF LockHeld, NoLostInstall, FloorBelowHigh
<1>4. ASSUME NEW w \in Writers, AcquireLock(w) PROVE InstallInv'
  BY <1>0, <1>4 DEF AcquireLock, TrustTypes, WriterStates, LockHeld, NoLostInstall, FloorBelowHigh
<1>5. ASSUME NEW w \in Writers, LockTimesOut(w) PROVE InstallInv'
  BY <1>0, <1>5 DEF LockTimesOut, WriterIdle, TrustTypes, LockHeld, NoLostInstall, FloorBelowHigh
<1>6. ASSUME NEW w \in Writers, Decide(w) PROVE InstallInv'
  <2>1. ttLock = w /\ UNCHANGED <<ttFile, ttLock, ttFloor>>
    BY <1>6 DEF Decide, LockHeld
  <2>2. ttW'[w].pc \in {"commit", "release"} /\ ttW'[w].loaded = ttFile
    BY <1>6 DEF Decide, TrustTypes, WriterStates
  <2>3. \A v \in Writers : v # w => ttW'[v] = ttW[v]
    BY <1>6 DEF Decide, TrustTypes
  <2> QED BY <1>0, <2>1, <2>2, <2>3 DEF LockHeld, NoLostInstall, FloorBelowHigh
<1>7. ASSUME NEW w \in Writers, Commit(w) PROVE InstallInv'
  <2>1. ttLock = w /\ ttLock' = w /\ ttFile \in {ttW[w].loaded, Corrupt}
    BY <1>7 DEF Commit, NoLostInstall
  <2>2. ttW'[w].pc = "release" /\ \A v \in Writers : v # w => ttW'[v] = ttW[v]
    BY <1>7 DEF Commit, TrustTypes, WriterStates
  <2>3. LockHeld' /\ NoLostInstall'
    BY <2>1, <2>2 DEF LockHeld, NoLostInstall
  <2>4. ttFloor <= NewHighWater(w)
    BY <2>1, HighWaterRises DEF FloorBelowHigh, Corrupt, TrustTypes
  <2>5. FloorBelowHigh'
    BY <1>7, <2>4, HighWaterRises DEF Commit, Stored, TtMax, FloorBelowHigh
  <2> QED BY <1>0, <2>3, <2>5
<1>8. ASSUME NEW w \in Writers, ReleaseLock(w) PROVE InstallInv'
  <2>1. ttLock = w /\ UNCHANGED <<ttFile, ttFloor>>
    BY <1>8 DEF ReleaseLock, LockHeld
  <2>2. ttW'[w].pc = "idle" /\ \A v \in Writers : v # w => ttW'[v] = ttW[v]
    BY <1>8 DEF ReleaseLock, WriterIdle, TrustTypes
  <2> QED BY <1>0, <2>1, <2>2 DEF LockHeld, NoLostInstall, FloorBelowHigh
<1>9. ASSUME NEW w \in Writers, WriterDies(w) PROVE InstallInv'
  BY <1>0, <1>9 DEF WriterDies, TrustTypes, WriterStates, LockHeld, NoLostInstall, FloorBelowHigh
<1>10. CASE UNCHANGED <<ttFile, ttLock, ttW, ttFloor>>
  BY <1>0, <1>10 DEF LockHeld, NoLostInstall, FloorBelowHigh
<1> QED BY <1>1, <1>2, <1>3, <1>4, <1>5, <1>6, <1>7, <1>8, <1>9, <1>10
        DEF TtNext, VerifyBegins, AcceptUncached, CacheContains, CacheRemember, ttVars

\* The cache forgets only what has expired, and a verification carries a version
\* no older than the floor it began from.
LEMMA TrustInvKept ==
  ASSUME TrustInv, [TtNext]_ttVars
  PROVE  TrustInv'
<1> USE TicketsAssumption DEF TrustInv
<1>0. InstallInv' /\ TrustTypes /\ TrustTypes'
  BY InstallInvKept DEF InstallInv
<1>1. ttClock \in Nat /\ ttClock' \in Nat /\ ttClock' >= ttClock
  <2>1. CASE TtTick
    BY <1>0, <2>1 DEF TrustTypes, TtTick
  <2>2. CASE UNCHANGED ttClock
    BY <1>0, <2>2 DEF TrustTypes
  <2> QED BY <2>1, <2>2 DEF TtNext, ttVars, TtDamage, InstallBegins, RecoverBegins, AcquireLock,
             LockTimesOut, Decide, Commit, ReleaseLock, WriterDies, WriterStays, VerifyBegins,
             AcceptUncached, CacheContains, CacheRemember
<1>2. CASE UNCHANGED <<ttSeen, ttT, ttAccepted>>
  <2>1. \A j \in TtJtis : JtiExpires[j] \in Nat
    OBVIOUS
  <2>2. AcceptedRemembered'
    BY <1>0, <1>1, <1>2, <2>1 DEF AcceptedRemembered, TrustTypes
  <2>3. \A t \in Threads : ttT[t].now \in Nat
    BY <1>0 DEF TrustTypes, ThreadStates
  <2>4. ThreadsCarry'
    BY <1>1, <1>2, <2>3 DEF ThreadsCarry
  <2> QED BY <1>0, <2>2, <2>4
<1>3. ASSUME NEW t \in Threads, VerifyBegins(t) PROVE TrustInv'
  <2> DEFINE Begun(j, m, c) ==
               [pc |-> c, jti |-> j, now |-> ttClock,
                version |-> ttFile.bundle.version, floor |-> ttFloor, guarded |-> m = ttFile.high,
                known |-> c = "cache" /\ j \in ttAccepted, runs |-> ttT[t].runs + 1]
             Ok(j, m, sound) == Verifies(ttFile, m, j, sound, ttClock)
  <2>1. PICK j \in TtJtis, sound \in BOOLEAN, m \in {0, ttFile.high}, c \in {"cache", "accept"} :
          ttT' = [ttT EXCEPT ![t] = IF Ok(j, m, sound) THEN Begun(j, m, c)
                                    ELSE ThreadIdle(ttT[t].runs + 1)]
    BY <1>3 DEF VerifyBegins
  <2>2. \A u \in Threads : u # t => ttT'[u] = ttT[u]
    BY <1>0, <2>1 DEF TrustTypes
  <2>3. UNCHANGED <<ttClock, ttSeen, ttAccepted>>
    BY <1>3 DEF VerifyBegins
  <2>4. AcceptedRemembered'
    BY <2>3 DEF AcceptedRemembered
  <2>5. CASE Ok(j, m, sound)
    <3>1. m = ttFile.high => ttFile.bundle.version >= ttFloor
      <4>1. ttFile.bundle.version >= m
        BY <2>5 DEF Verifies
      <4>2. ttFile.bundle.version \in Nat /\ ttFile.high \in Nat /\ ttFloor \in Nat
        BY <1>0, TrustBoundsAssumption DEF TrustTypes, Files, Bundles
      <4> QED BY <4>1, <4>2 DEF InstallInv, FloorBelowHigh
    <3>2. ttT'[t] = Begun(j, m, c)
      BY <1>0, <2>1, <2>5 DEF TrustTypes
    <3> HIDE DEF Begun
    <3>3. /\ Begun(j, m, c).pc = c /\ Begun(j, m, c).jti = j /\ Begun(j, m, c).now = ttClock
          /\ Begun(j, m, c).version = ttFile.bundle.version /\ Begun(j, m, c).floor = ttFloor
          /\ Begun(j, m, c).guarded = (m = ttFile.high)
          /\ Begun(j, m, c).known = (c = "cache" /\ j \in ttAccepted)
      BY DEF Begun
    <3>4. c \in {"cache", "accept"}
      BY <2>1
    <3>5. ThreadsCarry'
      BY <1>1, <2>2, <2>3, <3>1, <3>2, <3>3, <3>4 DEF ThreadsCarry
    <3> QED BY <1>0, <2>4, <3>5
  <2>6. CASE ~Ok(j, m, sound)
    <3>1. ttT'[t] = ThreadIdle(ttT[t].runs + 1)
      BY <1>0, <2>1, <2>6 DEF TrustTypes
    <3>2. ttT'[t].pc = "idle"
      BY <3>1 DEF ThreadIdle
    <3>3. ThreadsCarry'
      BY <2>2, <2>3, <3>2 DEF ThreadsCarry
    <3> QED BY <1>0, <2>4, <3>3
  <2> QED BY <2>5, <2>6
<1>6. ASSUME NEW t \in Threads, AcceptUncached(t) PROVE TrustInv'
  <2>1. /\ \A u \in Threads : u # t => ttT'[u] = ttT[u]
        /\ ttT'[t].pc = "idle" /\ UNCHANGED <<ttClock, ttSeen, ttAccepted>>
    BY <1>0, <1>6 DEF AcceptUncached, ThreadIdle, TrustTypes
  <2>2. ThreadsCarry' /\ AcceptedRemembered'
    BY <2>1 DEF ThreadsCarry, AcceptedRemembered
  <2> QED BY <1>0, <2>2
<1>4. ASSUME NEW t \in Threads, CacheContains(t) PROVE TrustInv'
  <2> DEFINE kept == {j \in ttSeen : JtiExpires[j] > ttT[t].now}
  <2>1. /\ ttT[t].pc = "cache" /\ ttSeen' = kept /\ UNCHANGED <<ttClock, ttAccepted>>
        /\ \A u \in Threads : u # t => ttT'[u] = ttT[u]
    BY <1>0, <1>4 DEF CacheContains, TrustTypes
  <2>2. ttT[t].now \in Nat /\ ttT[t].now <= ttClock /\ ttT[t].jti \in TtJtis
    BY <1>0, <2>1 DEF ThreadsCarry, TrustTypes, ThreadStates
  <2>3. \A j \in ttSeen \ kept : JtiExpires[j] <= ttClock
    BY <1>0, <1>1, <2>2 DEF TrustTypes
  <2>4. AcceptedRemembered'
    BY <2>1, <2>3 DEF AcceptedRemembered
  <2>5. CASE ttT[t].jti \in kept
    <3>1. ttT'[t].pc = "idle"
      BY <1>0, <1>4, <2>5 DEF CacheContains, ThreadIdle, TrustTypes
    <3>2. ThreadsCarry'
      BY <2>1, <3>1 DEF ThreadsCarry
    <3> QED BY <1>0, <2>4, <3>2
  <2>6. CASE ttT[t].jti \notin kept
    <3>1. ~(ttT[t].known /\ ttClock < JtiExpires[ttT[t].jti])
      <4> SUFFICES ASSUME ttT[t].known PROVE JtiExpires[ttT[t].jti] <= ttClock
        BY <1>1, <2>2
      <4>1. ttT[t].jti \in ttAccepted
        BY <2>1 DEF ThreadsCarry
      <4> QED BY <2>3, <2>6, <4>1 DEF AcceptedRemembered
    <3>2. ttT' = [ttT EXCEPT ![t].pc = "remember",
                    ![t].known = @ /\ ttClock < JtiExpires[ttT[t].jti]]
      BY <1>4, <2>6 DEF CacheContains
    <3>3. /\ ttT'[t].pc = "remember" /\ ttT'[t].version = ttT[t].version
          /\ ttT'[t].floor = ttT[t].floor /\ ttT'[t].now = ttT[t].now
          /\ ttT'[t].guarded = ttT[t].guarded
      BY <1>0, <3>2 DEF TrustTypes, ThreadStates
    <3>4. ttT'[t].known = (ttT[t].known /\ ttClock < JtiExpires[ttT[t].jti])
      BY <1>0, <3>2 DEF TrustTypes, ThreadStates
    <3>5. ~ttT'[t].known
      BY <3>1, <3>4
    <3>6. ThreadsCarry'
      BY <2>1, <3>3, <3>5 DEF ThreadsCarry
    <3> QED BY <1>0, <2>4, <3>6
  <2> QED BY <2>5, <2>6
<1>5. ASSUME NEW t \in Threads, CacheRemember(t) PROVE TrustInv'
  <2>1. /\ ttSeen' = ttSeen \cup {ttT[t].jti} /\ ttAccepted' = ttAccepted \cup {ttT[t].jti}
        /\ ttClock' = ttClock
        /\ \A u \in Threads : u # t => ttT'[u] = ttT[u]
    BY <1>0, <1>5 DEF CacheRemember, TrustTypes
  <2>2. ttT'[t].pc = "idle"
    BY <1>0, <1>5 DEF CacheRemember, ThreadIdle, TrustTypes
  <2>3. AcceptedRemembered'
    BY <2>1 DEF AcceptedRemembered
  <2>4. ThreadsCarry'
    BY <2>1, <2>2 DEF ThreadsCarry
  <2> QED BY <1>0, <2>3, <2>4
<1> QED BY <1>2, <1>3, <1>4, <1>5, <1>6
        DEF TtNext, ttVars, TtTick, TtDamage, InstallBegins, RecoverBegins, AcquireLock,
     LockTimesOut, Decide, Commit, ReleaseLock, WriterDies, WriterStays

\* The whole invariant of the trust profile.
THEOREM TrustInvariant == TtSpec => []TrustInv
<1>1. TtInit => TrustInv
  <2> SUFFICES ASSUME TtInit PROVE TrustInv
    OBVIOUS
  <2>1. TrustTypes
    BY IdleRecords DEF TtInit, TrustTypes
  <2>2. \A w \in Writers : ttW[w].pc = "idle"
    BY DEF TtInit, WriterIdle
  <2>3. \A t \in Threads : ttT[t].pc = "idle"
    BY DEF TtInit, ThreadIdle
  <2> QED BY <2>1, <2>2, <2>3 DEF TtInit, TrustInv, InstallInv, LockHeld, NoLostInstall, FloorBelowHigh,
             FileAbsent, AcceptedRemembered, ThreadsCarry
<1>2. TrustInv /\ [TtNext]_ttVars => TrustInv'
  BY TrustInvKept
<1> QED BY <1>1, <1>2, PTL DEF TtSpec

\* Two processes that install or recover at once never lose an install: a writer that is
\* about to commit holds the lock file, and the file is the one it loaded or was damaged
\* from outside (NoLostInstall).
THEOREM InstallsAreNotLost == TtSpec => []NoLostInstall
<1>1. TrustInv => NoLostInstall
  BY DEF TrustInv, InstallInv
<1> QED BY <1>1, TrustInvariant, PTL

\* No call given the loaded high-water mark accepts a ticket on a bundle older than one in
\* force before it loaded, and no call given the replay cache accepts one, while it is
\* valid, that such a call had accepted before it began, whatever the other threads'
\* clocks let them prune (NothingStaleAccepted).
THEOREM StaleTicketsRefused == TtSpec => []NothingStaleAccepted
<1>1. TrustInv => NothingStaleAccepted
  BY DEF TrustInv, ThreadsCarry, NothingStaleAccepted, NoRollbackAccepted, NoReplayWhileValid
<1> QED BY <1>1, TrustInvariant, PTL

-----------------------------------------------------------------------------
\* The backend's drain and the health file.

Observations == [state : {"ok", "degraded", "draining"}, left : Nat]

\* The drain still owed is not longer than the one the node keeps.
DrainInv ==
  /\ bhKept \in Observations /\ bhOwed \in Nat
  /\ bhOwed <= IF IsDraining(bhKept) THEN bhKept.left ELSE 0

\* The file is no younger than the node's absence, and a file that says live was written
\* while the heartbeat loop made progress; ages saturate together.
SnapshotInv ==
  /\ bhBeatAge \in 0..BhMaxAge /\ bhGone \in 0..BhMaxAge
  /\ bhFile = NoFile \/ bhFile \in [liveness : {"live", "not_live"},
                                    readiness : {"ready", "degraded", "not_ready"}, age : 0..BhMaxAge]
  /\ bhProc # "down" => bhGone = 0
  /\ bhFile # NoFile => bhGone <= bhFile.age
  /\ bhFile.liveness = "live" /\ bhProc = "running" => bhBeatAge <= SupervisorStale + bhFile.age

\* What an observation can be.
LEMMA ObservedType == Observed \in Observations
<1>1. Healthy \in Observations /\ Degraded \in Observations
  BY DEF Healthy, Degraded, Observations
<1>2. Draining(UnstableRetry) \in Observations /\ Draining(LoadingRetry) \in Observations
  BY IntervalsAssumption DEF Draining, Observations
<1>3. ParseOllamaPs \in Observations
  BY <1>1 DEF ParseOllamaPs
<1>4. ParseLmstudioModels \in Observations
  BY <1>1, <1>2 DEF ParseLmstudioModels
<1>5. ObserveMesh \in Observations
  BY <1>1, <1>2 DEF ObserveMesh
<1> QED BY <1>1, <1>3, <1>4, <1>5 DEF Observed

\* A beat never replaces a drain by something shorter, and time shortens both alike.
LEMMA DrainStep ==
  ASSUME DrainInv, [BhNext]_bhVars
  PROVE  DrainInv'
<1> USE DEF DrainInv
<1>1. CASE UNCHANGED <<bhKept, bhOwed>>
  BY <1>1 DEF IsDraining
<1>2. CASE Serve
  BY <1>2 DEF Serve, Healthy, Observations, IsDraining
<1>3. CASE BeatObserves
  <2>1. /\ bhKept' = IF IsDraining(bhKept) /\ ~IsDraining(Observed) THEN bhKept ELSE Observed
        /\ bhOwed' = IF IsDraining(Observed) THEN Observed.left ELSE bhOwed
    BY <1>3 DEF BeatObserves, SetBackendStability
  <2>2. Observed \in Observations /\ Observed.left \in Nat
    BY ObservedType DEF Observations
  <2>3. CASE IsDraining(Observed)
    BY <2>1, <2>2, <2>3 DEF IsDraining
  <2>4. CASE ~IsDraining(Observed) /\ IsDraining(bhKept)
    BY <2>1, <2>4 DEF IsDraining
  <2>5. CASE ~IsDraining(Observed) /\ ~IsDraining(bhKept)
    BY <2>1, <2>2, <2>5 DEF IsDraining
  <2> QED BY <2>3, <2>4, <2>5
<1>4. CASE BhTick
  <2>1. /\ bhKept' = [bhKept EXCEPT !.left = Sooner(bhKept.left)] /\ bhOwed' = Sooner(bhOwed)
    BY <1>4 DEF BhTick
  <2>2. bhKept.left \in Nat /\ Sooner(bhKept.left) \in Nat /\ Sooner(bhOwed) \in Nat
    BY DEF Observations, Sooner
  <2>3. bhKept' \in Observations /\ bhKept'.left = Sooner(bhKept.left) /\ bhKept'.state = bhKept.state
    BY <2>1, <2>2 DEF Observations
  <2> QED BY <2>1, <2>2, <2>3 DEF IsDraining, Sooner
<1> QED BY <1>1, <1>2, <1>3, <1>4
        DEF BhNext, bhVars, BackendChanges, BeatBegins, BeatEnds, BeatHangs, WriteSnapshot,
            TaskArrives, Stopping, ProcessEnds

\* Every step of the node keeps the file as old as its silence.
LEMMA SnapshotStep ==
  ASSUME SnapshotInv, [BhNext]_bhVars
  PROVE  SnapshotInv'
<1> USE IntervalsAssumption DEF SnapshotInv
<1>1. CASE UNCHANGED <<bhBeatAge, bhGone, bhFile, bhProc>>
  BY <1>1
<1>2. CASE Serve
  BY <1>2 DEF Serve, NoFile
<1>3. CASE BeatBegins
  BY <1>3 DEF BeatBegins, NoFile
<1>4. ASSUME NEW s, BeatEnds(s) PROVE SnapshotInv'
  BY <1>4 DEF BeatEnds, NoFile
<1>5. CASE WriteSnapshot
  <2>1. /\ ClassifyHealth.liveness \in {"live", "not_live"}
        /\ ClassifyHealth.readiness \in {"ready", "degraded", "not_ready"}
        /\ ClassifyHealth.liveness = "live" => bhBeatAge <= SupervisorStale
    BY DEF ClassifyHealth
  <2>2. /\ bhFile' = [liveness |-> ClassifyHealth.liveness, readiness |-> ClassifyHealth.readiness, age |-> 0]
        /\ bhProc = "running" /\ UNCHANGED <<bhBeatAge, bhGone, bhProc>>
    BY <1>5 DEF WriteSnapshot
  <2> QED BY <2>1, <2>2
<1>6. CASE Stopping \/ ProcessEnds
  BY <1>6 DEF Stopping, ProcessEnds
<1>7. CASE BhTick
  <2>1. \A a \in 0..BhMaxAge : Older(a) \in 0..BhMaxAge /\ a <= Older(a) /\ Older(a) <= a + 1
    BY DEF Older
  <2>2. \A a, b \in 0..BhMaxAge : a <= b => Older(a) <= Older(b)
    BY DEF Older
  <2>3. /\ bhBeatAge' = Older(bhBeatAge) /\ UNCHANGED bhProc
        /\ bhGone' = IF bhProc = "down" THEN Older(bhGone) ELSE 0
    BY <1>7 DEF BhTick
  <2>4. CASE bhFile = NoFile
    BY <1>7, <2>1, <2>3, <2>4 DEF BhTick, NoFile
  <2>5. CASE bhFile # NoFile
    <3>1. bhFile' = [bhFile EXCEPT !.age = Older(bhFile.age)] /\ bhFile.age \in 0..BhMaxAge
      BY <1>7, <2>5 DEF BhTick
    <3>2. /\ bhFile' \in [liveness : {"live", "not_live"},
                          readiness : {"ready", "degraded", "not_ready"}, age : 0..BhMaxAge]
          /\ bhFile'.age = Older(bhFile.age) /\ bhFile'.liveness = bhFile.liveness
      BY <2>1, <2>5, <3>1
    <3>3. bhBeatAge <= SupervisorStale + bhFile.age =>
             Older(bhBeatAge) <= SupervisorStale + Older(bhFile.age)
      BY <3>1 DEF Older
    <3>4. bhGone' <= bhFile'.age /\ bhGone' \in 0..BhMaxAge
      BY <2>1, <2>2, <2>3, <2>5, <3>1, <3>2
    <3> QED BY <2>1, <2>3, <3>2, <3>3, <3>4 DEF NoFile
  <2> QED BY <2>4, <2>5
<1> QED BY <1>1, <1>2, <1>3, <1>4, <1>5, <1>6, <1>7
        DEF BhNext, bhVars, BackendChanges, BeatObserves, BeatHangs, TaskArrives

\* A task is admitted only when the drain the backend last asked for has run out: a healthy
\* or a missed probe does not cut it short (DrainRunsItsTime).
THEOREM DrainsRunTheirTime == BhSpec => DrainRunsItsTime
<1>1. BhInit => DrainInv
  BY DEF BhInit, DrainInv, Healthy, Observations, IsDraining
<1>2. DrainInv /\ [BhNext]_bhVars => DrainInv'
  BY DrainStep
<1>3. DrainInv /\ [BhNext]_bhVars => [TaskArrives /\ bhTask' = "admitted" => bhOwed = 0]_bhVars
  BY DEF DrainInv, TaskArrives
<1> QED BY <1>1, <1>2, <1>3, PTL DEF BhSpec, DrainRunsItsTime

\* The health check calls a node live only if it ran, and its heartbeat loop made progress,
\* within the stale windows, whenever it hung or died (LiveMeansAlive).
THEOREM LiveNodesAreAlive == BhSpec => []LiveMeansAlive
<1>1. BhInit => SnapshotInv
  BY IntervalsAssumption DEF BhInit, SnapshotInv, NoFile
<1>2. SnapshotInv /\ [BhNext]_bhVars => SnapshotInv'
  BY SnapshotStep
<1>3. SnapshotInv => LiveMeansAlive
  BY IntervalsAssumption DEF SnapshotInv, LiveMeansAlive, Healthcheck, NoFile
<1> QED BY <1>1, <1>2, <1>3, PTL DEF BhSpec

-----------------------------------------------------------------------------
\* The quick tunnel and its watchdog.

\* Of the processes nobody told to go, only the tunnel in use and the one being opened
\* can run; while one is opened, the old one is gone.  After a close that met no rebuild
\* every process was told, and no rebuild begins.
TunnelInv ==
  /\ twBusy \in BOOLEAN /\ (twMain = "serving" => ~twBusy)
  /\ twCur \in twOwned
  /\ twAlive \ twTold \subseteq {twCur} \cup (IF twPc = "url" THEN {twFresh} ELSE {})
  /\ twPc \in {"open", "url"} => twCur \notin twAlive
  /\ Closed /\ ~twBusy => twAlive \subseteq twTold /\ twPc \notin {"open", "url", "verify"}

\* Every step of the watchdog, the main thread and the environment keeps it.
LEMMA TunnelStep ==
  ASSUME TunnelInv, [TwNext]_twVars
  PROVE  TunnelInv'
<1> USE DEF TunnelInv, Closed
<1>1. ASSUME NEW t \in Tunnels, TunnelProcessEnds(t) PROVE TunnelInv'
  BY <1>1 DEF TunnelProcessEnds
<1>2. ASSUME NEW t \in Tunnels, EdgeDrops(t) \/ EdgeAnswers(t) PROVE TunnelInv'
  BY <1>2 DEF EdgeDrops, EdgeAnswers
<1>3. CASE ProbeAnswers
  BY <1>3 DEF ProbeAnswers
<1>4. CASE ProbeFails
  BY <1>4 DEF ProbeFails, Terminate
<1>5. CASE ProcessGone
  BY <1>5 DEF ProcessGone, HandleDead
<1>6. CASE DeadRetry
  BY <1>6 DEF DeadRetry
<1>7. CASE WatchdogEnds
  BY <1>7 DEF WatchdogEnds
<1>8. CASE OpenSpawns
  BY <1>8 DEF OpenSpawns
<1>9. CASE OpenFails
  BY <1>9 DEF OpenFails, Terminate, HandleDead
<1>10. CASE OpenYieldsUrl
  BY <1>10 DEF OpenYieldsUrl
<1>11. CASE Verified
  BY <1>11 DEF Verified
<1>12. CASE VerifyTimesOut
  BY <1>12 DEF VerifyTimesOut, Terminate
<1>13. CASE TunnelClose
  <2>1. CASE twPc \in {"open", "url", "verify"}
    <3>1. twBusy' = TRUE
      BY <1>13, <2>1 DEF TunnelClose
    <3> QED BY <1>13, <3>1 DEF TunnelClose
  <2>2. CASE twPc \notin {"open", "url", "verify"}
    <3>1. twBusy' = FALSE
      BY <1>13, <2>2 DEF TunnelClose
    <3> QED BY <1>13, <2>2, <3>1 DEF TunnelClose
  <2> QED BY <2>1, <2>2
<1>14. CASE NormalExit
  BY <1>14 DEF NormalExit
<1>15. CASE SignalExit
  BY <1>15 DEF SignalExit
<1>16. CASE UNCHANGED twVars
  BY <1>16 DEF twVars
<1> QED BY <1>1, <1>2, <1>3, <1>4, <1>5, <1>6, <1>7, <1>8, <1>9, <1>10, <1>11, <1>12,
           <1>13, <1>14, <1>15, <1>16 DEF TwNext, Watchdog

\* A process that ends after a close that fell into no rebuild leaves no cloudflared child
\* behind, whatever the watchdog does between the two (CloseLeavesNoTunnel).
THEOREM ClosedTunnelsEnd == TwSpec => []CloseLeavesNoTunnel
<1>1. TwInit => TunnelInv
  BY DEF TwInit, TunnelInv, Closed
<1>2. TunnelInv /\ [TwNext]_twVars => TunnelInv'
  BY TunnelStep
<1>3. TunnelInv => CloseLeavesNoTunnel
  BY DEF TunnelInv, CloseLeavesNoTunnel, Closed
<1> QED BY <1>1, <1>2, <1>3, PTL DEF TwSpec

-----------------------------------------------------------------------------
\* Serve from detection to shutdown.

RunFields == {"endpoint", "cfg", "exposure", "profile", "detected", "steps", "rung", "tried",
              "tunnel", "relay", "mesh", "skip", "uid", "left", "token", "revoked"}

\* What is registered is local only if the variable the guard looks at is, and past the
\* guard such a node has a relay or does not register; a relay was elected only for a node
\* that is none itself.
RouteInv ==
  /\ nsRun.cfg = Endpoint("localhost") => nsRun.endpoint = Endpoint("localhost")
  /\ nsRun.relay = "elected" => ~nsConfig.relayCapable
  /\ nsPc = "lock" /\ SkipUnroutable(nsRun) => nsRun.skip
  /\ nsPc = "register" => ~SkipUnroutable(nsRun)

\* A pinhole that is open is the one the node has noted, until an orderly stop.
HolesInv ==
  /\ nsPc \in {"start", "detect"} => nsHoles = {}
  /\ nsPc # "stopped" => nsHoles \subseteq {nsRun.uid}

\* Between two rungs every child has a handle, and there is at most one of each: a rung
\* opens a tunnel only while there is none, and while it does the child has no handle.
ChildrenInv ==
  /\ nsRun.tunnel \in {0, 1}
  /\ nsPc \in {"start", "detect", "escalate", "forced", "fallback", "guard", "lock",
               "register", "serving"} => nsChildren = nsRun.tunnel
  /\ nsPc \in {"start", "detect"} => nsRun.tunnel = 0
  /\ nsPc = "escalate" /\ nsRun.steps # <<>> => nsRun.tunnel = 0
  /\ nsPc = "opening" => /\ nsRun.tunnel = 0 /\ nsChildren = 1
                         /\ nsRun.rung \in {"escalate", "forced", "fallback"}

StartupInv ==
  /\ DOMAIN nsRun = RunFields
  /\ nsPc = "start" => /\ nsConfig \in NsConfigs /\ nsDirectory = Unregistered
                       /\ nsRun.relay = "none"
  /\ RouteInv /\ HolesInv /\ ChildrenInv
  /\ PlaceholderNeverRegistered /\ ServeLeavesNothing

\* No rung of detection, and no pinhole, yields the placeholder address.
LEMMA PinholesAreElsewhere ==
  ASSUME NEW net, NEW t, NEW m, NEW ep, NEW v6, ep.kind # "localhost"
  PROVE  MaybeOpenPinhole(net, Reached(t, m, ep, v6)).endpoint.kind # "localhost"
BY DEF MaybeOpenPinhole, Reached, V6Endpoint

\* ... whatever the network allows.
LEMMA DetectionIsElsewhere ==
  ASSUME NEW net, NEW ep, NEW probing
  PROVE  DetectNat(net, ep, probing).endpoint.kind # "localhost"
<1> DEFINE v6 == DetectIpv6(net)
<1> HIDE DEF v6
<1>1. \A t, m, e, w : Reached(t, m, e, w).endpoint = e
  BY DEF Reached
<1>2. \A w : Unreachable(w).endpoint.kind = "none"
  BY DEF Unreachable, NoEndpoint
<1>3. \A k : Endpoint(k).kind = k
  BY DEF Endpoint
<1>4. \A a : V6Endpoint(a).kind = "v6"
  BY DEF V6Endpoint
<1>5. Ipv6Fallback(net, v6).endpoint.kind # "localhost"
  BY <1>1, <1>2, <1>4 DEF Ipv6Fallback
<1>6. UpnpRung(net, probing, v6).endpoint.kind # "localhost"
  BY <1>1, <1>2, <1>3, <1>5 DEF UpnpRung
<1>7. ProbeRung(net).endpoint.kind # "localhost" /\ InterfaceV4Rung(net, v6).endpoint.kind # "localhost"
  BY <1>1, <1>3 DEF ProbeRung, InterfaceV4Rung
<1>8. InterfaceV6Rung(net, v6).endpoint.kind # "localhost"
  BY <1>1, <1>4 DEF InterfaceV6Rung
<1>9. LastRungs(net, v6).endpoint.kind # "localhost"
  BY <1>1, <1>2, <1>3, <1>5 DEF LastRungs, ExternalTunnel, NoEndpoint
<1>10. LooksRoutable(ep) => OperatorRung(net, ep, v6).endpoint.kind # "localhost"
  BY PinholesAreElsewhere DEF OperatorRung, LooksRoutable
<1> QED BY <1>5, <1>6, <1>7, <1>8, <1>9, <1>10 DEF DetectNat, v6

\* What detection leaves in the run: a reachable profile's endpoint, and its pinhole noted.
LEMMA ProfileApplied ==
  ASSUME DOMAIN nsRun = RunFields, NEW p
  PROVE  LET r == ApplyNatProfile(nsRun, p)
         IN  /\ DOMAIN r = RunFields
             /\ r.cfg \in {nsRun.cfg, p.endpoint}
             /\ r.endpoint = nsRun.endpoint /\ r.relay = nsRun.relay /\ r.skip = nsRun.skip
             /\ r.tunnel = nsRun.tunnel
             /\ Holes(p) \subseteq {r.uid}
BY DEF ApplyNatProfile, RunFields, Holes

\* Every step keeps the route, the noted pinhole and what the directory was told.
LEMMA StartupStep ==
  ASSUME StartupInv, [NsNext]_nsVars
  PROVE  StartupInv'
<1> USE DEF StartupInv, RouteInv, HolesInv, ChildrenInv, PlaceholderNeverRegistered,
            ServeLeavesNothing, CleanEndings
<1>0. \A k : Endpoint(k).kind = k
  BY DEF Endpoint
<1>1. CASE ReadConfig
  <2> DEFINE c == MergeSaved(nsConfig)
             ep == IF c.endpoint /= NoEndpoint THEN c.endpoint ELSE Endpoint("localhost")
  <2>1. /\ nsPc = "start" /\ nsConfig' = c /\ UNCHANGED <<nsChildren, nsHoles, nsPidfile, nsDirectory>>
        /\ \/ nsPc' = "refused" /\ UNCHANGED nsRun
           \/ /\ nsPc' = "detect"
              /\ nsRun' = [nsRun EXCEPT !.endpoint = ep, !.cfg = ep, !.relay = c.relay, !.skip = c.skip]
    BY <1>1 DEF ReadConfig
  <2>2. c.relay \in {"none", "configured"}
    BY <2>1, RelayArgument DEF MergeSaved
  <2> HIDE DEF c, ep
  <2>3. CASE nsPc' = "refused" /\ UNCHANGED nsRun
    BY <2>1, <2>3
  <2>4. CASE /\ nsPc' = "detect"
             /\ nsRun' = [nsRun EXCEPT !.endpoint = ep, !.cfg = ep, !.relay = c.relay, !.skip = c.skip]
    <3>1. /\ DOMAIN nsRun' = RunFields /\ nsRun'.cfg = ep /\ nsRun'.endpoint = ep
          /\ nsRun'.relay = c.relay /\ nsRun'.uid = nsRun.uid /\ nsRun'.tunnel = nsRun.tunnel
      BY <2>4 DEF RunFields
    <3> QED BY <2>1, <2>2, <2>4, <3>1
  <2> QED BY <2>1, <2>3, <2>4
<1>2. CASE Detect
  <2> DEFINE p == DetectNat(nsNet, nsConfig.endpoint, nsConfig.probing)
             r == ApplyNatProfile(nsRun, p)
             plan == PlanReachability(p.tier, nsRun.relay, nsConfig.tunnel /= "off")
  <2>1. /\ nsPc = "detect" /\ nsPc' = "escalate"
        /\ UNCHANGED <<nsConfig, nsChildren, nsDirectory, nsPidfile>>
        /\ nsRun' = [r EXCEPT !.profile = p, !.detected = TRUE, !.steps = plan]
        /\ nsHoles' = nsHoles \cup Holes(p)
    BY <1>2 DEF Detect
  <2>2. p.endpoint # Endpoint("localhost")
    BY <1>0, DetectionIsElsewhere
  <2> HIDE DEF p, plan
  <2>3. /\ DOMAIN r = RunFields /\ r.cfg \in {nsRun.cfg, p.endpoint}
        /\ r.endpoint = nsRun.endpoint /\ r.relay = nsRun.relay /\ r.tunnel = nsRun.tunnel
        /\ Holes(p) \subseteq {r.uid}
    BY ProfileApplied
  <2> HIDE DEF r
  <2>4. /\ DOMAIN nsRun' = RunFields /\ nsRun'.cfg = r.cfg /\ nsRun'.endpoint = r.endpoint
        /\ nsRun'.relay = r.relay /\ nsRun'.uid = r.uid /\ nsRun'.tunnel = r.tunnel
    BY <2>1, <2>3 DEF RunFields
  <2> QED BY <2>1, <2>2, <2>3, <2>4
<1>3. CASE DetectFails
  BY <1>3 DEF DetectFails
<1>4. CASE PinholeOnly
  <2> DEFINE q == Reached(0, "direct", nsConfig.endpoint, NoIpv6)
             p == MaybeOpenPinhole(nsNet, q)
  <2>1. /\ nsPc = "detect" /\ nsPc' = "forced"
        /\ UNCHANGED <<nsConfig, nsChildren, nsDirectory, nsPidfile>>
        /\ nsRun' = IF nsConfig.endpoint.kind = "v6" THEN ApplyNatProfile(nsRun, p) ELSE nsRun
        /\ nsHoles' = nsHoles \cup Holes(p)
    BY <1>4 DEF PinholeOnly
  <2>2. CASE nsConfig.endpoint.kind = "v6"
    <3>1. p.endpoint # Endpoint("localhost")
      BY <1>0, <2>2, PinholesAreElsewhere
    <3> HIDE DEF p
    <3>2. /\ DOMAIN nsRun' = RunFields /\ nsRun'.cfg \in {nsRun.cfg, p.endpoint}
          /\ nsRun'.endpoint = nsRun.endpoint /\ nsRun'.relay = nsRun.relay
          /\ nsRun'.tunnel = nsRun.tunnel /\ Holes(p) \subseteq {nsRun'.uid}
      BY <2>1, <2>2, ProfileApplied
    <3> QED BY <2>1, <3>1, <3>2
  <2>3. CASE nsConfig.endpoint.kind # "v6"
    <3>1. q.endpoint = nsConfig.endpoint /\ q.ipv6.pinhole = "none"
      BY DEF Reached, NoIpv6
    <3> HIDE DEF q
    <3>2. p = q
      BY <2>3, <3>1 DEF MaybeOpenPinhole
    <3>3. Holes(p) = {}
      BY <3>1, <3>2 DEF Holes
    <3> HIDE DEF p
    <3> QED BY <2>1, <2>3, <3>3
  <2> QED BY <2>2, <2>3
\* A rung of the ladder that opens no tunnel: a relay is elected or not.
<1>5. ASSUME UNCHANGED <<nsConfig, nsChildren, nsHoles, nsPidfile, nsDirectory>>,
             nsPc \in {"escalate", "forced", "fallback"},
             nsPc' \in {"escalate", "forced", "fallback", "guard"},
             nsPc' = "escalate" /\ nsRun'.steps # <<>> => nsRun.tunnel = 0,
             DOMAIN nsRun' = RunFields, nsRun'.uid = nsRun.uid, nsRun'.tunnel = nsRun.tunnel,
             nsRun'.cfg = nsRun.cfg, nsRun'.endpoint = nsRun.endpoint,
             nsRun'.relay = nsRun.relay \/ ~nsConfig.relayCapable
      PROVE  StartupInv'
  BY <1>5
<1>6. TunnelRung => nsPc \in {"escalate", "forced", "fallback"} /\ nsRun.tunnel = 0
  BY DEF TunnelRung, NeedsFallback
<1>7. CASE TunnelUnavailable
  <2>1. /\ nsPc \in {"escalate", "forced", "fallback"} /\ nsRun.tunnel = 0
        /\ nsPc' \in {"escalate", "fallback"}
        /\ UNCHANGED <<nsConfig, nsChildren, nsHoles, nsPidfile, nsDirectory>>
    BY <1>6, <1>7 DEF TunnelUnavailable, RungFails
  <2>2. /\ DOMAIN nsRun' = RunFields /\ nsRun'.uid = nsRun.uid /\ nsRun'.tunnel = nsRun.tunnel
        /\ nsRun'.cfg = nsRun.cfg /\ nsRun'.endpoint = nsRun.endpoint
        /\ nsRun'.relay = nsRun.relay
    BY <1>7 DEF TunnelUnavailable, RungFails, RunFields
  <2> QED BY <1>5, <2>1, <2>2
<1>8. CASE TunnelSpawned
  <2>1. /\ nsPc \in {"escalate", "forced", "fallback"} /\ nsRun.tunnel = 0
        /\ nsPc' = "opening" /\ nsChildren' = nsChildren + 1
        /\ UNCHANGED <<nsConfig, nsHoles, nsPidfile, nsDirectory>>
    BY <1>6, <1>8 DEF TunnelSpawned
  <2>2. /\ DOMAIN nsRun' = RunFields /\ nsRun'.uid = nsRun.uid /\ nsRun'.tunnel = nsRun.tunnel
        /\ nsRun'.cfg = nsRun.cfg /\ nsRun'.endpoint = nsRun.endpoint
        /\ nsRun'.relay = nsRun.relay /\ nsRun'.rung = nsPc
    BY <1>8 DEF TunnelSpawned, RunFields
  <2> QED BY <2>1, <2>2
<1>9. CASE TunnelFails
  <2>1. /\ nsPc = "opening" /\ nsPc' \in {"escalate", "fallback"} /\ nsChildren' = nsChildren - 1
        /\ UNCHANGED <<nsConfig, nsHoles, nsPidfile, nsDirectory>>
    BY <1>9 DEF TunnelFails, RungFails
  <2>2. /\ DOMAIN nsRun' = RunFields /\ nsRun'.uid = nsRun.uid /\ nsRun'.tunnel = nsRun.tunnel
        /\ nsRun'.cfg = nsRun.cfg /\ nsRun'.endpoint = nsRun.endpoint
        /\ nsRun'.relay = nsRun.relay
    BY <1>9 DEF TunnelFails, RungFails, RunFields
  <2> QED BY <2>1, <2>2
<1>10. CASE TunnelOpened
  <2>1. /\ nsPc = "opening" /\ nsPc' \in {"escalate", "fallback", "guard"}
        /\ UNCHANGED <<nsConfig, nsChildren, nsHoles, nsPidfile, nsDirectory>>
    BY <1>10 DEF TunnelOpened
  <2>2. /\ DOMAIN nsRun' = RunFields /\ nsRun'.uid = nsRun.uid /\ nsRun'.tunnel = nsRun.tunnel + 1
        /\ nsRun'.cfg = Endpoint("tunnel") /\ nsRun'.steps = <<>>
        /\ nsRun'.relay = nsRun.relay
    BY <1>10 DEF TunnelOpened, RunFields
  <2>3. Endpoint("tunnel") # Endpoint("localhost")
    BY <1>0
  <2> QED BY <2>1, <2>2, <2>3
<1>11. CASE EscalateRelay
  <2>1. /\ nsPc = "escalate" /\ nsRun.steps # <<>>
        /\ UNCHANGED <<nsPc, nsConfig, nsChildren, nsHoles, nsPidfile, nsDirectory>>
        /\ \/ ~nsConfig.relayCapable /\ nsRun' = [nsRun EXCEPT !.relay = "elected", !.steps = <<>>]
           \/ \E left : nsRun' = [nsRun EXCEPT !.steps = left]
    BY <1>11 DEF EscalateRelay, RelayWorkerFallbackAllowed
  <2>2. /\ DOMAIN nsRun' = RunFields /\ nsRun'.uid = nsRun.uid /\ nsRun'.tunnel = nsRun.tunnel
        /\ nsRun'.cfg = nsRun.cfg /\ nsRun'.endpoint = nsRun.endpoint
        /\ nsRun'.relay = nsRun.relay \/ ~nsConfig.relayCapable
    BY <2>1 DEF RunFields
  <2> QED BY <1>5, <2>1, <2>2
<1>12. CASE EscalateGossip \/ EscalationDone \/ NotForced \/ FallbackRelay \/ NoFallback
  BY <1>5, <1>12 DEF EscalateGossip, EscalationDone, NotForced, FallbackRelay, NoFallback,
     RelayWorkerFallbackAllowed, RunFields
<1>13. CASE FallbackOfRelay
  <2>1. /\ nsPc = "fallback" /\ nsRun.tunnel = 0
        /\ \/ nsPc' = "exit_75" /\ nsChildren' = nsChildren - nsRun.tunnel
           \/ nsPc' = "guard" /\ nsChildren' = nsChildren
        /\ UNCHANGED <<nsConfig, nsRun, nsHoles, nsPidfile, nsDirectory>>
    BY <1>13 DEF FallbackOfRelay, NeedsFallback, AtExit
  <2> QED BY <2>1
<1>14. CASE Nat4Guard
  <2> DEFINE skips == nsRun.skip \/ SkipUnroutable(nsRun)
  <2>1. /\ nsPc = "guard" /\ nsPc' = "lock" /\ nsRun' = [nsRun EXCEPT !.skip = skips]
        /\ UNCHANGED <<nsConfig, nsChildren, nsHoles, nsPidfile, nsDirectory>>
    BY <1>14 DEF Nat4Guard
  <2>2. /\ DOMAIN nsRun' = RunFields /\ nsRun'.cfg = nsRun.cfg /\ nsRun'.endpoint = nsRun.endpoint
        /\ nsRun'.relay = nsRun.relay /\ nsRun'.uid = nsRun.uid /\ nsRun'.tunnel = nsRun.tunnel
    BY <2>1 DEF RunFields
  <2>3. nsRun'.skip = skips
    BY <2>1 DEF RunFields
  <2>4. SkipUnroutable(nsRun)' => SkipUnroutable(nsRun)
    BY <2>2 DEF SkipUnroutable
  <2>5. SkipUnroutable(nsRun) => nsRun'.skip
    BY <2>3
  <2> QED BY <2>1, <2>2, <2>4, <2>5
<1>15. CASE TakeLock
  <2>1. /\ DOMAIN nsRun' = RunFields /\ nsRun'.cfg = nsRun.cfg /\ nsRun'.endpoint = nsRun.endpoint
        /\ nsRun'.relay = nsRun.relay /\ nsRun'.uid = nsRun.uid /\ nsRun'.tunnel = nsRun.tunnel
    BY <1>15 DEF TakeLock, RunFields
  <2>2. /\ nsPc = "lock" /\ UNCHANGED <<nsConfig, nsHoles, nsDirectory>>
        /\ \/ nsPc' = "locked_out" /\ nsChildren' = nsChildren - nsRun.tunnel
           \/ /\ nsPc' = IF nsRun.skip THEN "serving" ELSE "register"
              /\ UNCHANGED nsChildren
    BY <1>15 DEF TakeLock, AtExit
  <2>3. SkipUnroutable(nsRun)' => SkipUnroutable(nsRun)
    BY <2>1 DEF SkipUnroutable
  <2> QED BY <2>1, <2>2, <2>3
<1>16. CASE RegisterOk
  <2>1. /\ DOMAIN nsRun' = RunFields /\ nsRun'.cfg = nsRun.cfg /\ nsRun'.endpoint = nsRun.endpoint
        /\ nsRun'.relay = nsRun.relay /\ nsRun'.uid = nsRun.uid /\ nsRun'.tunnel = nsRun.tunnel
    BY <1>16 DEF RegisterOk, RunFields
  <2>2. nsDirectory'.endpoint = nsRun.cfg /\ nsDirectory'.relay = nsRun.relay
    BY <1>16 DEF RegisterOk
  <2>3. nsPc = "register" /\ nsPc' = "serving" /\ UNCHANGED <<nsConfig, nsChildren, nsHoles>>
    BY <1>16 DEF RegisterOk
  <2>4. nsRun.cfg = Endpoint("localhost") => nsRun.relay # "none"
    BY <1>0, <2>3 DEF SkipUnroutable, EndpointIsLocalOrPrivate
  <2> QED BY <2>1, <2>2, <2>3, <2>4
<1>17. CASE RegisterFails
  <2>1. /\ DOMAIN nsRun' = RunFields /\ nsRun'.cfg = nsRun.cfg /\ nsRun'.endpoint = nsRun.endpoint
        /\ nsRun'.relay = nsRun.relay /\ nsRun'.uid = nsRun.uid /\ nsRun'.tunnel = nsRun.tunnel
    BY <1>17 DEF RegisterFails, RunFields
  <2>2. /\ nsPc = "register" /\ nsPc' \in {"serving", "register"}
        /\ UNCHANGED <<nsConfig, nsChildren, nsHoles, nsDirectory>>
    BY <1>17 DEF RegisterFails
  <2>3. SkipUnroutable(nsRun)' => SkipUnroutable(nsRun)
    BY <2>1 DEF SkipUnroutable
  <2> QED BY <2>1, <2>2, <2>3
<1>18. CASE Stop
  <2>1. PICK answers \in BOOLEAN :
          /\ nsHoles' = IF answers THEN nsHoles \ {nsRun.uid} ELSE nsHoles
          /\ nsRun' = [nsRun EXCEPT !.revoked = answers, !.uid = "none"]
    BY <1>18 DEF Stop
  <2>2. /\ DOMAIN nsRun' = RunFields /\ nsRun'.cfg = nsRun.cfg /\ nsRun'.endpoint = nsRun.endpoint
        /\ nsRun'.relay = nsRun.relay /\ nsRun'.tunnel = nsRun.tunnel
    BY <2>1 DEF RunFields
  <2>3. nsRun'.revoked = answers
    BY <2>1 DEF RunFields
  <2>4. /\ nsPc = "serving" /\ nsPc' = "stopped" /\ nsPidfile' = FALSE /\ nsConfig' = nsConfig
        /\ nsDirectory' \in {Unregistered, nsDirectory} /\ nsChildren' = nsChildren - nsRun.tunnel
    BY <1>18 DEF Stop, AtExit
  <2>5. nsRun'.revoked => nsHoles' = {}
    BY <2>1, <2>3, <2>4
  <2> QED BY <2>2, <2>4, <2>5
<1>19. CASE Interrupted
  <2>1. nsChildren' = nsChildren - nsRun.tunnel /\ UNCHANGED nsRun
    BY <1>19 DEF Interrupted, AtExit
  <2> QED BY <1>19, <2>1 DEF Interrupted
<1>20. CASE Terminated
  BY <1>20 DEF Terminated
<1>21. CASE KilledOpening \/ ExitAbruptly \/ TunnelDeadExits \/ Replaced
  BY <1>21 DEF KilledOpening, ExitAbruptly, TunnelDeadExits, Replaced
<1>22. CASE UNCHANGED nsVars
  BY <1>22 DEF nsVars, SkipUnroutable
<1> QED BY <1>1, <1>2, <1>3, <1>4, <1>7, <1>8, <1>9, <1>10, <1>11, <1>12, <1>13, <1>14,
           <1>15, <1>16, <1>17, <1>18, <1>19, <1>20, <1>21, <1>22 DEF NsNext

\* The whole invariant of serve's start, its registration and its shutdown.
THEOREM StartupInvariant == NsSpec => []StartupInv
<1>1. NsInit => StartupInv
  BY DEF NsInit, StartupInv, RunFields, RouteInv, HolesInv, ChildrenInv,
         PlaceholderNeverRegistered, ServeLeavesNothing, CleanEndings, NoEndpoint, Endpoint
<1>2. StartupInv /\ [NsNext]_nsVars => StartupInv'
  BY StartupStep
<1> QED BY <1>1, <1>2, PTL DEF NsSpec

\* The placeholder address reaches the directory only behind a relay, and a node that
\* offers relaying elects none, along every path of serve to register
\* (PlaceholderNeverRegistered).
THEOREM PlaceholderStaysLocal == NsSpec => []PlaceholderNeverRegistered
<1>1. StartupInv => PlaceholderNeverRegistered
  BY DEF StartupInv
<1> QED BY <1>1, StartupInvariant, PTL

\* The endings of serve that run a handler or an atexit hook leave no tunnel running, and an
\* orderly stop no pidfile and no pinhole that the router answered for (ServeLeavesNothing).
THEOREM ServeCleansUp == NsSpec => []ServeLeavesNothing
<1>1. StartupInv => ServeLeavesNothing
  BY DEF StartupInv
<1> QED BY <1>1, StartupInvariant, PTL

=============================================================================
