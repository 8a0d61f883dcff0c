----------------------------- MODULE ByteStream -----------------------------
(***************************************************************************)
(* What a stream buffer promises to the two sides of a TCP socket: a       *)
(* bounded queue of bytes.  A byte is its position in the stream, so the   *)
(* queue holds the positions out, ..., in - 1 and nothing else needs to be *)
(* remembered.                                                             *)
(***************************************************************************)
EXTENDS Naturals, Sequences

CONSTANTS
    Capacity,      \* how many bytes fit
    StreamLength   \* how many bytes the writer will ever write

VARIABLES
    in,   \* bytes put so far
    out,  \* bytes removed so far
    got   \* the offset the reader asked for last, and the bytes it got

Init ==
    /\ in = 0
    /\ out = 0
    /\ got = [off |-> 0, data |-> <<>>]

\* The writer appends the next n bytes, which must fit.
Put ==
    \E n \in 1..Capacity :
        /\ in + n <= StreamLength
        /\ in + n - out <= Capacity
        /\ in' = in + n
        /\ UNCHANGED <<out, got>>

\* The reader copies n bytes that are in the queue, from an offset it names.
Look ==
    \E off \in 0..Capacity, n \in 1..Capacity :
        /\ out + off + n <= in
        /\ got' = [off |-> off, data |-> [i \in 1..n |-> out + off + i - 1]]
        /\ UNCHANGED <<in, out>>

\* The reader removes the first n bytes.
Drop ==
    \E n \in 1..Capacity :
        /\ out + n <= in
        /\ out' = out + n
        /\ UNCHANGED <<in, got>>

Next == Put \/ Look \/ Drop

Spec == Init /\ [][Next]_<<in, out, got>>
=============================================================================
