------------------------ MODULE MCRelayForwarding ------------------------
(* A small instance of RelayForwarding for TLC.                            *)
EXTENDS RelayForwarding
==========================================================================
