---------------------------- MODULE MCNodeState ----------------------------
(* What processes keep in files that others read and write, and leave when   *)
(* they end: tasks and their events, the trust bundle, and what a start of a *)
(* node opens.  They share no state, so a behaviour is one of any of them;   *)
(* the others stay where they start.                                         *)
EXTENDS LifecyclePersistence, TicketTrust, MCNodeStartup, TLC

CONSTANTS t1, o1, j1, j2

VARIABLE subject   \* the component that moves

McWatches == o1 :> t1
McJtiExpires == j1 :> 1 @@ j2 :> 2
\* Writers are alike, and so are verifying threads and cancelling processes.
TrustSymmetry == Permutations(Writers) \cup Permutations(Threads) \cup Permutations(Procs)

stateVars == <<subject, vars, ttVars, nsVars>>

StateInit ==
    /\ subject \in {"lifecycle", "trust", "startup"}
    /\ Init /\ TtInit /\ NsInit
    \* Of a component that does not move, one initial state is enough.
    /\ subject # "startup" => nsConfig = [McNsBase EXCEPT !.skip = TRUE] /\ nsNet = McNet

StateNext ==
    \/ subject = "lifecycle" /\ Next /\ UNCHANGED <<subject, ttVars, nsVars>>
    \/ subject = "trust" /\ TtNext /\ UNCHANGED <<subject, vars, nsVars>>
    \/ subject = "startup" /\ NsNext /\ UNCHANGED <<subject, vars, ttVars>>

StateSpec == StateInit /\ [][StateNext]_stateVars
=============================================================================
