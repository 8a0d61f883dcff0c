---------------------------- MODULE MCTCPReceive ----------------------------
(* Small instances of TCPReceive. *)
EXTENDS TCPReceive

P(s, n) == [seq |-> s, len |-> n, fin |-> s + n = StreamLength]

\* A peer that cuts its data once: small and full segments, a FIN with data
\* and a FIN alone.
FixedCuts == {P(0, 2), P(2, 1), P(3, 2), P(5, 2), P(7, 1), P(8, 0)}

\* A peer that joins what it repeats.
NewCuts == {P(0, 1), P(1, 1), P(0, 3), P(2, 2)}
=============================================================================
