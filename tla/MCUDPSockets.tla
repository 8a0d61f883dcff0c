---------------------------- MODULE MCUDPSockets ----------------------------
(* Two tasks and two sockets, owned by one task each or shared. *)
EXTENDS UDPSockets, TLC

CONSTANTS t1, t2, s1, s2

OwnSockets == s1 :> {t1} @@ s2 :> {t2}
SharedSockets == [s \in Sockets |-> Tasks]
=============================================================================
