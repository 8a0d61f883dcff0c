----------------------------- MODULE MCTCPServer -----------------------------
(* Small instances of TCPServer: two clients, memory for two children, and   *)
(* a queue with room for two events, so that it is full now and then.        *)
EXTENDS TCPServer
=============================================================================
