--------------------------- MODULE MCProxyRouting ---------------------------
(* A small instance of ProxyRouting for TLC.                                 *)
EXTENDS ProxyRouting
=============================================================================
