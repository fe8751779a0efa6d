---------------------------- MODULE MCNodeHost ----------------------------
(* The processes that keep a node up on its host: the tunnel's watchdog, the *)
(* supervised instances that hand a rotated key over, and the updater.  They *)
(* share no state, so a behaviour is one of any of them; the others stay     *)
(* where they start.                                                         *)
EXTENDS TunnelWatch, NodeSupervision, SelfUpdate, TLC

CONSTANTS p1, p2, p3, n1, n2

VARIABLE subject   \* the component that moves

\* Two instances serve the node n1, and one the node n2.
McNodeOf == p1 :> n1 @@ p2 :> n2 @@ p3 :> n1
\* Either both nodes run, or an operator starts the second instance of n1 too.
McFleets == {{p1, p2}, {p1, p3}}

hostVars == <<subject, twVars, svVars, upVars>>

HostInit ==
    /\ subject \in {"tunnel", "supervision", "update"}
    /\ TwInit /\ SvInit /\ UpInit
    /\ subject # "supervision" => svPc[p2] = "off"

HostNext ==
    \/ subject = "tunnel" /\ TwNext /\ UNCHANGED <<subject, svVars, upVars>>
    \/ subject = "supervision" /\ SvNext /\ UNCHANGED <<subject, twVars, upVars>>
    \/ subject = "update" /\ UpNext /\ UNCHANGED <<subject, twVars, svVars>>

HostFairness ==
    \/ subject = "tunnel" /\ TwFairness
    \/ subject = "supervision" /\ SvFairness
    \/ subject = "update" /\ UpFairness

HostSpec == HostInit /\ [][HostNext]_hostVars /\ HostFairness

\* NodeComesBack, of the behaviours in which instances start and exit: neither a
\* dead process's pidfile, nor the hand-over's exit, nor a second instance keeps a
\* supervised node from being served again.
SupervisedNodeComesBack == subject = "supervision" => NodeComesBack
===========================================================================
