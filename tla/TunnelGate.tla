----------------------------- MODULE TunnelGate -----------------------------
(* open_quick_tunnel of several nodes on one host (tunnel.py): the provider's *)
(* rate-limit cooldown, kept in the process and in a file, the create gate    *)
(* that paces creations and the create lease, a lock file with an expiry.     *)
(*                                                                            *)
(* Deadlines are kept as the ticks that remain (0: none or past), so the      *)
(* state is finite without a bound on time. Each file access is a step.       *)
EXTENDS Naturals

CONSTANTS
    Openers,        \* processes that open a tunnel
    WaitForCapacity,\* IICP_TUNNEL_WAIT_FOR_CAPACITY
    Cooldown,       \* ticks of the rate-limit cooldown
    Interval,       \* ticks between two creations
    Lease           \* ticks of the create lease

VARIABLES
    tgLimit,   \* the cooldown file
    tgMem,     \* _quick_tunnel_rate_limit_until of each process
    tgGate,    \* the create gate file
    tgLock,    \* the lock file: [owner, left]; owner "none" when absent
    tgPc,      \* where each opener is
    tgTry      \* tries of _acquire_quick_tunnel_create_lease

tgVars == <<tgLimit, tgMem, tgGate, tgLock, tgPc, tgTry>>

NoLock == [owner |-> "none", left |-> 0]

TgInit ==
    /\ tgLimit = 0 /\ tgGate = 0 /\ tgLock = NoLock
    /\ tgMem = [o \in Openers |-> 0]
    /\ tgPc = [o \in Openers |-> "limit"]
    /\ tgTry = [o \in Openers |-> 0]

Ended == {"up", "failed", "dead"}
Less(n) == IF n = 0 THEN 0 ELSE n - 1

TgTick ==
    /\ \/ tgLimit > 0 \/ tgGate > 0 \/ tgLock.left > 0 \/ \E o \in Openers : tgMem[o] > 0
    /\ tgLimit' = Less(tgLimit) /\ tgGate' = Less(tgGate)
    /\ tgLock' = [tgLock EXCEPT !.left = Less(@)]
    /\ tgMem' = [o \in Openers |-> Less(tgMem[o])]
    /\ UNCHANGED <<tgPc, tgTry>>

Goes(o, pc) == tgPc' = [tgPc EXCEPT ![o] = pc]
(* What the opener does with time left to wait: sleep and start over, or fail.*)
Backoff(o) == Goes(o, IF WaitForCapacity THEN "limit" ELSE "failed")

(* _quick_tunnel_rate_limit_remaining_s: a file that reads as past is removed.*)
CheckLimit(o) ==
    /\ tgPc[o] = "limit"
    /\ IF tgLimit > 0
       THEN Backoff(o)
       ELSE Goes(o, "clear_limit")
    /\ UNCHANGED <<tgLimit, tgMem, tgGate, tgLock, tgTry>>

ClearLimit(o) ==
    /\ tgPc[o] = "clear_limit"
    /\ tgLimit' = 0
    /\ IF tgMem[o] > 0 THEN Backoff(o) ELSE Goes(o, "gate")
    /\ UNCHANGED <<tgMem, tgGate, tgLock, tgTry>>

(* _quick_tunnel_create_gate_remaining_s, likewise.                           *)
CheckGate(o) ==
    /\ tgPc[o] = "gate"
    /\ IF tgGate > 0 THEN Backoff(o) ELSE Goes(o, "clear_gate")
    /\ UNCHANGED <<tgLimit, tgMem, tgGate, tgLock, tgTry>>

ClearGate(o) ==
    /\ tgPc[o] = "clear_gate"
    /\ tgGate' = 0
    /\ tgTry' = [tgTry EXCEPT ![o] = 0]
    /\ Goes(o, "lease")
    /\ UNCHANGED <<tgLimit, tgMem, tgLock>>

(* The lock file is created empty and written afterwards; until then its      *)
(* expiry reads as zero.                                                      *)
LeaseCreate(o) ==
    /\ tgPc[o] = "lease" /\ tgTry[o] < 2
    /\ tgLock = NoLock
    /\ tgLock' = [owner |-> o, left |-> 0]
    /\ Goes(o, "write_lease")
    /\ UNCHANGED <<tgLimit, tgMem, tgGate, tgTry>>

LeaseWrite(o) ==
    /\ tgPc[o] = "write_lease"
    /\ tgLock' = IF tgLock.owner = o THEN [tgLock EXCEPT !.left = Lease] ELSE tgLock
    /\ Goes(o, "mark")
    /\ UNCHANGED <<tgLimit, tgMem, tgGate, tgTry>>

LeaseHeld(o) ==
    /\ tgPc[o] = "lease"
    /\ \/ tgTry[o] = 2
       \/ tgLock # NoLock /\ tgLock.left > 0
    /\ Backoff(o)
    /\ UNCHANGED <<tgLimit, tgMem, tgGate, tgLock, tgTry>>

(* Mutation: a lock file whose expiry is past or unreadable counts as held.   *)
LeaseNeverExpires(o) ==
    /\ tgPc[o] = "lease"
    /\ tgLock # NoLock /\ tgLock.left = 0
    /\ Backoff(o)
    /\ UNCHANGED <<tgLimit, tgMem, tgGate, tgLock, tgTry>>

LeaseExpired(o) ==
    /\ tgPc[o] = "lease" /\ tgTry[o] < 2
    /\ tgLock # NoLock /\ tgLock.left = 0
    /\ Goes(o, "unlink_lease")
    /\ UNCHANGED <<tgLimit, tgMem, tgGate, tgLock, tgTry>>

(* unlink removes whatever file has the name by now.                          *)
LeaseUnlink(o) ==
    /\ tgPc[o] = "unlink_lease"
    /\ tgLock' = NoLock
    /\ tgTry' = [tgTry EXCEPT ![o] = @ + 1]
    /\ Goes(o, "lease")
    /\ UNCHANGED <<tgLimit, tgMem, tgGate>>

(* _mark_quick_tunnel_create_attempt, then cloudflared is started.            *)
MarkAttempt(o) ==
    /\ tgPc[o] = "mark"
    /\ tgGate' = Interval
    /\ Goes(o, "spawned")
    /\ UNCHANGED <<tgLimit, tgMem, tgLock, tgTry>>

(* The URL appears; or none does in time, with or without a rate-limit answer.*)
(* Either way the lease file is removed by name.                              *)
TunnelUp(o) ==
    /\ tgPc[o] = "spawned"
    /\ tgLock' = NoLock
    /\ Goes(o, "up")
    /\ UNCHANGED <<tgLimit, tgMem, tgGate, tgTry>>

TunnelFails(o, limited) ==
    /\ tgPc[o] = "spawned"
    /\ tgLock' = NoLock
    /\ tgLimit' = IF limited THEN Cooldown ELSE tgLimit
    /\ tgMem' = IF limited THEN [tgMem EXCEPT ![o] = Cooldown] ELSE tgMem
    /\ Goes(o, "failed")
    /\ UNCHANGED <<tgGate, tgTry>>

(* The process dies wherever it is; its lock file stays.                      *)
OpenerDies(o) ==
    /\ tgPc[o] \notin Ended
    /\ Goes(o, "dead")
    /\ UNCHANGED <<tgLimit, tgMem, tgGate, tgLock, tgTry>>

OpenerStep(o) ==
    \/ CheckLimit(o) \/ ClearLimit(o) \/ CheckGate(o) \/ ClearGate(o)
    \/ LeaseCreate(o) \/ LeaseWrite(o) \/ LeaseHeld(o) \/ LeaseExpired(o) \/ LeaseUnlink(o)
    \/ MarkAttempt(o) \/ TunnelUp(o) \/ \E l \in BOOLEAN : TunnelFails(o, l)

TgNext == TgTick \/ \E o \in Openers : OpenerStep(o) \/ OpenerDies(o)

(* Time passes and a live process keeps running; nothing makes one die.       *)
TgFairness == WF_tgVars(TgTick) /\ \A o \in Openers : WF_tgVars(OpenerStep(o))

(* Every process that asks for a tunnel gets its attempt, or fails, or dies:  *)
(* no cooldown, gate or lease, not even the lock file of a process that died  *)
(* before it wrote an expiry, keeps the others waiting for ever.              *)
OpenersProceed == <>(\A o \in Openers : tgPc[o] \in Ended)
=============================================================================
