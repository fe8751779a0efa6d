----------------------------- MODULE MCRouting -----------------------------
(* The proxy's loops that must end whatever the others do: the resolution of *)
(* nodes through directories that redirect, and the walk over the candidates *)
(* found.  The two share no state, so a behaviour is one of either; the      *)
(* other one stays where it starts.                                          *)
EXTENDS ProxyRouting, ProxyDiscovery

VARIABLE subject   \* the component that moves

routingVars == <<subject, vars, pdVars>>

RoutingInit == subject \in {"routing", "discovery"} /\ Init /\ PdInit

RoutingNext ==
    \/ subject = "routing" /\ Next /\ UNCHANGED <<subject, pdVars>>
    \/ subject = "discovery" /\ PdNext /\ UNCHANGED <<subject, vars>>

RoutingFairness ==
    \/ subject = "routing" /\ Fairness
    \/ subject = "discovery" /\ PdFairness

RoutingSpec == RoutingInit /\ [][RoutingNext]_routingVars /\ RoutingFairness
=============================================================================
