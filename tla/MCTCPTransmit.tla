---------------------------- MODULE MCTCPTransmit ----------------------------
(* Small instances of TCPTransmit. *)
EXTENDS TCPTransmit
=============================================================================
