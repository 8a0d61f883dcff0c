--------------------------- MODULE ReliableStream ---------------------------
(***************************************************************************)
(* What a TCP connection promises in one direction: the receiver's user    *)
(* gets the bytes 0, 1, ..., Length - 1 of the sender in order, each once, *)
(* and hears of the end of the stream after the last one and not before.   *)
(***************************************************************************)
EXTENDS Naturals, Sequences

CONSTANT Length   \* how many bytes the sender will ever send

VARIABLES
    delivered,   \* the bytes the receiver's user was given
    ended        \* the receiver accepted the end of the stream

Init ==
    /\ delivered = <<>>
    /\ ended = FALSE

\* More bytes become available, and perhaps the end with them.
Deliver ==
    /\ ~ended
    /\ Len(delivered') \in Len(delivered)..Length
    /\ \A i \in 1..Len(delivered') :
        delivered'[i] = IF i <= Len(delivered) THEN delivered[i] ELSE i - 1
    /\ ended' \in BOOLEAN
    /\ ended' => Len(delivered') = Length

Spec == Init /\ [][Deliver]_<<delivered, ended>> /\ <>ended
=============================================================================
