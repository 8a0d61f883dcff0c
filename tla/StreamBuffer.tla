---------------------------- MODULE StreamBuffer ----------------------------
(***************************************************************************)
(* The circular buffer of FreeRTOS_Stream_Buffer.c between the IP task and *)
(* a task that owns a TCP socket.  There is no lock: the writer moves      *)
(* uxHead and uxFront, the reader moves uxTail and uxMid, and each call    *)
(* reads the other side's index once and then goes on with what may have   *)
(* become an old value.  uxStreamBufferAdd and uxStreamBufferGet are split *)
(* where the other side can run in between.                                *)
(*                                                                         *)
(* A byte is its position in the stream; the buffer is correct when a cell *)
(* that is read holds the position that is due.                            *)
(***************************************************************************)
EXTENDS Integers, Sequences

CONSTANTS
    LENGTH,        \* number of reserved elements; one is never used
    StreamLength,  \* bound: how many bytes the writer will ever write
    Preempts       \* the sides that can run inside a call of the other side

ASSUME LengthAssumption == LENGTH \in Nat \ {0}
ASSUME StreamLengthAssumption == StreamLength \in Nat
ASSUME SidesAssumption == Preempts \subseteq {"writer", "reader"}

VARIABLES
    use,      \* "txStream", written by FreeRTOS_send and read by the IP task,
              \* or "rxStream", the other way round: fixed when it is created
    tail, mid, head, front,  \* the indexes of StreamBuffer_t
    cell,     \* ucArray; -1 where nothing was stored yet
    written,  \* position in the stream of uxHead
    taken,    \* position in the stream of uxTail
    early,    \* positions stored past uxHead, before uxHead reached them
    got,      \* what the reader copied last, and from which offset
    wpc, wop, woff, wn,  \* the writer's step, kind of call, uxOffset, uxCount
    rpc, rop, roff, rn   \* the same for the reader

indexes == <<tail, mid, head, front>>
writer == <<wpc, wop, woff, wn>>
reader == <<rpc, rop, roff, rn>>
vars == <<use, indexes, cell, written, taken, early, got, writer, reader>>

Indexes == 0..LENGTH - 1

\* Mutant of Wrap: it forgets the index LENGTH itself.
MutWrapLate(i) == IF i > LENGTH THEN i - LENGTH ELSE i

\* The wrap after every addition to an index
Wrap(i) == IF i >= LENGTH THEN i - LENGTH ELSE i

\* uxStreamBufferDistance
Distance(lower, upper) == Wrap(LENGTH + upper - lower)

\* Mutant of Space: the last free cell may be used too.
MutSpaceNoGap(lower, upper) ==
    IF lower = upper THEN LENGTH - 1 ELSE Wrap(LENGTH + upper - lower)

\* uxStreamBufferSpace
Space(lower, upper) == Wrap(LENGTH + upper - lower - 1)

\* xStreamBufferLessThenEqual, with the tail it reads
LessThenEqual(left, right) ==
    IF (left < tail) # (right < tail)
    THEN right < tail
    ELSE left <= right

GetSpace == Space(head, tail)
GetSize == Distance(tail, head)
MidSpace == Distance(mid, head)
FrontSpace == Space(front, tail)

\* The cells a call copies to or from
Region(start, off, n) == {Wrap(Wrap(start + off) + i) : i \in 0..n - 1}

\* txStream, as against rxStream: prvTCPCreateStream makes either the same way.
Transmit == use = "txStream"

\* "add":     data at uxHead                  "early": data past uxHead (rx)
\* "advance": uxHead over data stored before  "place": FreeRTOS_get_tx_head (tx)
WriterOps == {"add", "advance", IF Transmit THEN "place" ELSE "early"}
\* "get": copy and remove (rx)   "peek": copy   "skip": remove only
ReaderOps == {"peek", "skip"} \cup (IF Transmit THEN {} ELSE {"get"})

WriterMayRun == rpc = "idle" \/ "writer" \in Preempts
ReaderMayRun == wpc = "idle" \/ "reader" \in Preempts

\* vStreamBufferClear on a new stream
Init ==
    /\ use \in {"rxStream", "txStream"}
    /\ tail = 0 /\ mid = 0 /\ head = 0 /\ front = 0
    /\ cell = [i \in Indexes |-> -1]
    /\ written = 0 /\ taken = 0
    /\ early = {}
    /\ got = [off |-> 0, data |-> <<>>]
    /\ wpc = "idle" /\ wop = "add" /\ woff = 0 /\ wn = 0
    /\ rpc = "idle" /\ rop = "peek" /\ roff = 0 /\ rn = 0

----------------------------------------------------------------------------
(* The writer *)

\* The offsets and counts a call of each kind is made with: out-of-order data
\* lies past a gap, what uxHead advances over has been stored, and the pointer
\* of FreeRTOS_get_tx_head does not wrap.
WriterWants(op, off, n) ==
    /\ (off > 0) <=> (op = "early")
    /\ op = "advance" => written..(written + n - 1) \subseteq early
    /\ op = "place" => head + n <= LENGTH

\* uxCount is the minimum of the wanted count and the space, which is computed
\* from uxTail as it is now.
BeginAdd ==
    /\ wpc = "idle" /\ WriterMayRun
    /\ \E op \in WriterOps, off \in 0..LENGTH - 1, n \in 1..LENGTH - 1 :
        /\ off + n <= GetSpace
        /\ written + off + n <= StreamLength
        /\ WriterWants(op, off, n)
        /\ wop' = op /\ woff' = off /\ wn' = n
        /\ wpc' = IF op = "advance" THEN "head" ELSE "copy"
    /\ UNCHANGED <<indexes, cell, written, taken, early, got, reader>>

\* Mutant of CopyIn: the second memcpy, at the start of the array, is missing.
MutCopyInOnce ==
    /\ wpc = "copy" /\ WriterMayRun
    /\ cell' = [c \in Indexes |->
                    IF c \in Region(head, woff, wn) /\ c >= Wrap(head + woff)
                    THEN written + Distance(head, c)
                    ELSE cell[c]]
    /\ early' = early \cup (written + woff)..(written + woff + wn - 1)
    /\ wpc' = CASE wop = "add" -> "head"
                [] wop = "early" -> "front"
                [] OTHER -> "idle"
    /\ UNCHANGED <<indexes, written, taken, got, wop, woff, wn, reader>>

\* The two memcpy of an Add, or the stores of the user of FreeRTOS_get_tx_head
CopyIn ==
    /\ wpc = "copy" /\ WriterMayRun
    /\ cell' = [c \in Indexes |->
                    IF c \in Region(head, woff, wn)
                    THEN written + Distance(head, c)
                    ELSE cell[c]]
    /\ early' = early \cup (written + woff)..(written + woff + wn - 1)
    /\ wpc' = CASE wop = "add" -> "head"
                [] wop = "early" -> "front"
                [] OTHER -> "idle"
    /\ UNCHANGED <<indexes, written, taken, got, wop, woff, wn, reader>>

\* uxHead = uxNextHead, when uxOffset is 0
MoveHead ==
    /\ wpc = "head" /\ WriterMayRun
    /\ head' = Wrap(head + wn)
    /\ written' = written + wn
    /\ wpc' = "front"
    /\ UNCHANGED <<tail, mid, front, cell, taken, early, got, wop, woff, wn, reader>>

\* Mutant of MoveFront: only out-of-order data moves it.
MutMoveFrontNever ==
    /\ wpc = "front" /\ WriterMayRun
    /\ front' = IF woff = 0 THEN front ELSE Wrap(head + woff)
    /\ wpc' = "idle"
    /\ UNCHANGED <<tail, mid, head, cell, written, taken, early, got, wop, woff, wn, reader>>

\* uxFront follows uxNextHead: the new uxHead, or the start (not the end) of
\* data stored past uxHead.
MoveFront ==
    /\ wpc = "front" /\ WriterMayRun
    /\ LET next == Wrap(head + woff)
       IN  front' = IF LessThenEqual(front, next) THEN next ELSE front
    /\ wpc' = "idle"
    /\ UNCHANGED <<tail, mid, head, cell, written, taken, early, got, wop, woff, wn, reader>>

----------------------------------------------------------------------------
(* The reader *)

\* The IP task reads and removes only what it has handed to the TCP window, up
\* to uxMid; FreeRTOS_recv reads from uxTail.
ReaderWants(op, off, n) ==
    IF Transmit
    THEN /\ off + n <= Distance(tail, mid)
         /\ op = "skip" => off = 0
    ELSE off = 0

\* uxCount is the minimum of the wanted count and the size, which is computed
\* from uxHead as it is now.
BeginGet ==
    /\ rpc = "idle" /\ ReaderMayRun
    /\ \E op \in ReaderOps, off \in 0..LENGTH - 1, n \in 1..LENGTH - 1 :
        /\ off + n <= GetSize
        /\ ReaderWants(op, off, n)
        /\ rop' = op /\ roff' = off /\ rn' = n
        /\ rpc' = IF op = "skip" THEN "tail" ELSE "copy"
    /\ UNCHANGED <<indexes, cell, written, taken, early, got, writer>>

\* Mutant of CopyOut: the offset of a retransmission is not applied.
MutCopyOutNoOffset ==
    /\ rpc = "copy" /\ ReaderMayRun
    /\ got' = [off |-> roff,
               data |-> [i \in 1..rn |-> cell[Wrap(tail + i - 1)]]]
    /\ rpc' = IF rop = "get" THEN "tail" ELSE "idle"
    /\ UNCHANGED <<indexes, cell, written, taken, early, writer, rop, roff, rn>>

CopyOut ==
    /\ rpc = "copy" /\ ReaderMayRun
    /\ got' = [off |-> roff,
               data |-> [i \in 1..rn |-> cell[Wrap(Wrap(tail + roff) + i - 1)]]]
    /\ rpc' = IF rop = "get" THEN "tail" ELSE "idle"
    /\ UNCHANGED <<indexes, cell, written, taken, early, writer, rop, roff, rn>>

\* uxTail = uxNextTail, unless the call peeks
MoveTail ==
    /\ rpc = "tail" /\ ReaderMayRun
    /\ tail' = Wrap(tail + rn)
    /\ taken' = taken + rn
    /\ rpc' = "idle"
    /\ UNCHANGED <<mid, head, front, cell, written, early, got, writer, rop, roff, rn>>

\* vStreamBufferMoveMid: new data goes to the TCP window; uxMid is the IP
\* task's own.
MoveMid ==
    /\ Transmit
    /\ rpc = "idle" /\ ReaderMayRun
    /\ \E n \in 1..LENGTH - 1 :
        /\ n <= MidSpace
        /\ mid' = Wrap(mid + n)
    /\ UNCHANGED <<tail, head, front, cell, written, taken, early, got, writer, reader>>

----------------------------------------------------------------------------
Next ==
    /\ \/ BeginAdd \/ CopyIn \/ MoveHead \/ MoveFront
       \/ BeginGet \/ CopyOut \/ MoveTail \/ MoveMid
    /\ UNCHANGED use

Spec == Init /\ [][Next]_vars

----------------------------------------------------------------------------
(* Properties *)

\* Every variable keeps its type: indexes stay below LENGTH.
TypeOK ==
    /\ use \in {"rxStream", "txStream"}
    /\ {tail, mid, head, front} \subseteq Indexes
    /\ cell \in [Indexes -> Int]
    /\ written \in Nat /\ taken \in Nat
    /\ early \subseteq Nat
    /\ wpc \in {"idle", "copy", "head", "front"}
    /\ wop \in {"add", "advance", "early", "place"}
    /\ woff \in Nat /\ wn \in Nat
    /\ rpc \in {"idle", "copy", "tail"}
    /\ rop \in {"get", "peek", "skip"}
    /\ roff \in Nat /\ rn \in Nat

\* The indexes count: what lies between uxTail and uxHead is what was written
\* and not yet taken, and one cell always stays free.
SizeIsExact ==
    /\ taken <= written
    /\ written - taken < LENGTH
    /\ GetSize = written - taken

\* Cells between uxTail and uxHead hold the bytes of the stream in order, and
\* data stored out of order lies where uxHead will find it.
StoredInOrder ==
    /\ \A i \in 0..GetSize - 1 : cell[Wrap(tail + i)] = taken + i
    /\ \A p \in early : p >= written => cell[Wrap(head + (p - written))] = p

\* While both sides copy at the same time, without a lock, they never touch
\* the same cell, although each works with an old value of the other's index.
CopiesDisjoint ==
    wpc = "copy" /\ rpc = "copy" =>
        Region(head, woff, wn) \cap Region(tail, roff, rn) = {}

\* uxFront is an "iterator within the free space": unless an Add is about to
\* move it, it lies at or past uxHead, so uxStreamBufferFrontSpace, which the
\* advertised window and bLowWater are computed from, never promises more
\* space than there is.
FrontInFreeSpace ==
    wpc \in {"idle", "copy"} => FrontSpace <= GetSpace

\* The buffer is a bounded queue of bytes.
Stream == INSTANCE ByteStream
            WITH Capacity <- LENGTH - 1, in <- written, out <- taken
ImplementsByteStream == Stream!Spec
=============================================================================
