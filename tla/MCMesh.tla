------------------------------- MODULE MCMesh -------------------------------
(* What a node keeps of others: the workers bound to it as a relay, and the  *)
(* peers it hears of by gossip.  The two share no state, so a behaviour is   *)
(* one of either; the other one stays where it starts.                       *)
EXTENDS RelayBinding, MCPeerGossip

CONSTANTS w1, w2, k1

VARIABLE subject   \* the component that moves

McTicketFor == (k1 :> w1)

meshVars == <<subject, vars, pgVars>>

MeshInit == subject \in {"relay", "gossip"} /\ Init /\ PgInit

MeshNext ==
    \/ subject = "relay" /\ Next /\ UNCHANGED <<subject, pgVars>>
    \/ subject = "gossip" /\ PgNext /\ UNCHANGED <<subject, vars>>

MeshFairness ==
    \/ subject = "relay" /\ Fairness
    \/ subject = "gossip" /\ PgFairness

MeshSpec == MeshInit /\ [][MeshNext]_meshVars /\ MeshFairness
=============================================================================
