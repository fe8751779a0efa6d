--------------------------- MODULE MCPeerGossip ---------------------------
(* Three nodes, of which one has a key of its own and does not gossip.      *)
EXTENDS PeerGossip, TLC

CONSTANTS a, b, x

McPgKey == (a :> NoKey) @@ (b :> NoKey) @@ (x :> "kx")
===========================================================================
