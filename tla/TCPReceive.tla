----------------------------- MODULE TCPReceive -----------------------------
(***************************************************************************)
(* The receiving half of an established TCP connection: the reception      *)
(* window (FreeRTOS_TCP_WIN.c), the storing of data in rxStream, the       *)
(* acceptance of a FIN, the delayed ACK and the advertised window          *)
(* (FreeRTOS_TCP_IP.c), and the user's FreeRTOS_recv.                      *)
(*                                                                         *)
(* A byte is its position in the peer's stream and sequence numbers count  *)
(* from the first byte: the code compares them by their signed difference, *)
(* so wrapping changes nothing here.  Positions in rxStream are counted    *)
(* from its creation; StreamBuffer has the circular ones.  The peer sends  *)
(* segments of Packets: any segment it has sent may arrive at any time, as *)
(* often as it likes, or never.                                            *)
(***************************************************************************)
EXTENDS Integers, Sequences, FiniteSets

CONSTANTS
    StreamLength,  \* how many bytes the peer sends before its FIN
    Packets,       \* the segments it cuts them into: [seq, len, fin]
    MSS,           \* usCurMSS
    RxWindow,      \* xSize.ulRxWindowLength
    RxStreamSize,  \* what fits in rxStream
    Little,        \* uxLittleSpace
    Enough,        \* uxEnoughSpace
    Segments,      \* ipconfigTCP_WIN_SEG_COUNT
    Stale          \* what a byte of rxStream holds that nobody wrote

ASSUME SizesAssumption ==
    /\ StreamLength \in Nat \ {0} /\ MSS \in Nat \ {0} /\ RxWindow \in Nat \ {0}
    /\ RxStreamSize \in Nat \ {0} /\ Little \in Nat /\ Enough \in Nat /\ Segments \in Nat
ASSUME PacketsAssumption ==
    /\ Packets \subseteq [seq : 0..StreamLength, len : 0..StreamLength, fin : BOOLEAN]
    /\ \A p \in Packets : p.seq + p.len <= StreamLength /\ (p.fin <=> p.seq + p.len = StreamLength)
ASSUME StaleAssumption == Stale \notin Int

VARIABLES
    cur,          \* rx.ulCurrentSequenceNumber
    highest,      \* rx.ulHighestSequenceNumber
    segs,         \* xRxSegments: the stored segments, lengths by sequence number
    sack,         \* ulOptionsData: <<first, last>>, or <<>> while ucOptionLength is 0
    head,         \* rxStream: bytes made available to the user
    front,        \* rxStream: the end of the furthest byte stored
    taken,        \* rxStream: bytes the user has read
    cells,        \* what rxStream holds at each position
    lowWater,     \* bLowWater
    winChange,    \* bWinChange
    rxWin,        \* ulRxCurWinSize
    ackDue,       \* pxAckMessage holds a delayed ACK
    finAccepted,  \* bFinAccepted
    reset,        \* an RST was sent because a segment did not fit
    told,         \* ack and ulHighestRxAllowed of the last packet sent
    heard,        \* those of the last packet that reached the peer
    reach         \* the end of what the peer has sent

window == <<cur, highest, segs, sack>>
stream == <<head, front, cells>>
reply == <<rxWin, ackDue, told>>
peer == <<heard, reach>>
vars == <<window, stream, reply, peer, taken, lowWater, winChange, finAccepted, reset>>

Least(a, b) == IF a < b THEN a ELSE b
Largest(a, b) == IF a > b THEN a ELSE b

Positions == 0..StreamLength + RxStreamSize

EndOf(p) == p.seq + p.len

----------------------------------------------------------------------------
(* The window: lTCPWindowRxCheck and its helpers *)

Without(s, gone) == [x \in DOMAIN s \ gone |-> s[x]]

\* The segments a loop of xTCPWindowRxFind meets from sequence number x on:
\* the least set that holds the one at x and, with each, the one at its end.
Chain(s, x) ==
    {y \in DOMAIN s : \A C \in SUBSET DOMAIN s :
        (/\ x \in DOMAIN s => x \in C
         /\ \A z \in C : z + s[z] \in DOMAIN s => z + s[z] \in C)
        => y \in C}

\* Where that loop ends.
ChainEnd(s, x) ==
    IF x \notin DOMAIN s THEN x
    ELSE CHOOSE e \in {z + s[z] : z \in Chain(s, x)} : \A z \in Chain(s, x) : z + s[z] <= e

\* xTCPWindowRxConfirm: the lowest stored segment that starts in the packet.
Confirmed(p) ==
    {x \in DOMAIN segs : /\ p.seq <= x /\ x < EndOf(p)
                         /\ \A y \in DOMAIN segs : p.seq <= y /\ y < EndOf(p) => x <= y}

\* Mutant of Expected: the data of the packet itself is counted again.
MutExpectedTwice(p) ==
    LET end == ChainEnd(segs, EndOf(p))
    IN  [offset |-> 0, cur |-> end, segs |-> Without(segs, Chain(segs, EndOf(p))),
         sack |-> <<>>, user |-> end - p.seq]

\* Mutant of Expected: the segments that follow are not freed.
MutExpectedKeeps(p) ==
    LET end == ChainEnd(segs, EndOf(p))
    IN  [offset |-> 0, cur |-> end, segs |-> segs, sack |-> <<>>, user |-> end - EndOf(p)]

\* The segment that was expected is passed on, and the stored ones with it
\* that now follow without a gap.
Expected(p) ==
    LET found == Confirmed(p)
        next == IF found = {} THEN EndOf(p) ELSE LET x == CHOOSE x \in found : TRUE IN x + segs[x]
        left == Without(segs, found)
        end == ChainEnd(left, next)
    IN  [offset |-> 0, cur |-> end, segs |-> Without(left, Chain(left, next)),
         sack |-> <<>>, user |-> end - EndOf(p)]

\* A segment that is not passed on now is recorded, unless its start is.
Ahead(p) ==
    [offset |-> IF p.seq \in DOMAIN segs THEN -1 ELSE p.seq - cur, cur |-> cur,
     segs |-> [x \in DOMAIN segs \cup {p.seq} |-> IF x \in DOMAIN segs THEN segs[x] ELSE p.len],
     sack |-> <<p.seq, ChainEnd(segs, EndOf(p))>>, user |-> 0]

Refused == [offset |-> -1, cur |-> cur, segs |-> segs, sack |-> <<>>, user |-> 0]

\* Mutant of RxCheck: a SACK is prepared although no segment is left.
MutRxCheckSacks(p, space, room) ==
    CASE p.seq = cur /\ p.len <= space -> Expected(p)
      [] /\ p.seq # cur /\ p.seq + 1 # cur
         /\ EndOf(p) - cur \in 1..space ->
            IF p.seq \in DOMAIN segs \/ room THEN Ahead(p)
            ELSE [Refused EXCEPT !.sack = <<p.seq, EndOf(p)>>]
      [] OTHER -> Refused

\* Mutant of RxCheck: the segment that is expected is taken whatever the space.
MutRxCheckTakes(p, space, room) ==
    CASE p.seq = cur -> Expected(p)
      [] /\ p.seq # cur /\ p.seq + 1 # cur
         /\ EndOf(p) - cur \in 1..space
         /\ p.seq \in DOMAIN segs \/ room -> Ahead(p)
      [] OTHER -> Refused

\* lTCPWindowRxCheck: room tells whether the common pool has a segment left.
RxCheck(p, space, room) ==
    CASE p.seq = cur /\ p.len <= space -> Expected(p)
      [] /\ p.seq # cur /\ p.seq + 1 # cur
         /\ EndOf(p) - cur \in 1..space
         /\ p.seq \in DOMAIN segs \/ room -> Ahead(p)
      [] OTHER -> Refused

----------------------------------------------------------------------------
(* rxStream *)

GetSpace == RxStreamSize - (head - taken)

FrontSpace(f) == RxStreamSize - (f - taken)

\* uxStreamBufferAdd takes its count as unsigned: one below 0 is above any size.
Fitting(count, space) == IF count < 0 THEN space ELSE Least(count, space)

\* lTCPAddRxdata, for the packet and then, with no data, for what was stored
\* before: head moves over both.
Stored(p, d) ==
    LET n == IF d.offset < 0 THEN 0 ELSE Fitting(p.len, Largest(GetSpace - d.offset, 0))
        from == head + d.offset
        available == IF d.offset = 0 THEN head + n ELSE head
        more == IF d.user = 0 THEN 0 ELSE Fitting(d.user, RxStreamSize - (available - taken))
    IN  [count |-> n, head |-> available + more,
         front |-> Largest(front, Largest(available + more, IF n = 0 THEN 0 ELSE from + n)),
         cells |-> [i \in Positions |->
            IF n > 0 /\ from <= i /\ i < from + n THEN p.seq + (i - from) ELSE cells[i]]]

----------------------------------------------------------------------------
(* The IP task *)

\* ulRxCurWinSize, as prvSendData computes it from unsigned numbers.
CurWinSize(c, high, f) ==
    IF high - c > RxWindow THEN FrontSpace(f) ELSE Least(FrontSpace(f), RxWindow - (high - c))

\* The window prvTCPReturnPacket advertises.
Advertised(size, f, low) ==
    LET space == IF low THEN 0 ELSE Least(size, RxWindow)
    IN  IF space < MSS /\ FrontSpace(f) >= MSS THEN MSS ELSE space

Init ==
    /\ cur = 0 /\ highest = 0 /\ segs = [x \in {} |-> 0] /\ sack = <<>>
    /\ head = 0 /\ front = 0 /\ taken = 0
    /\ cells = [i \in Positions |-> Stale]
    /\ lowWater = FALSE /\ winChange = FALSE
    /\ rxWin = Least(RxStreamSize, RxWindow)
    /\ ackDue = FALSE /\ finAccepted = FALSE /\ reset = FALSE
    /\ told = [ack |-> 0, edge |-> Advertised(rxWin, 0, FALSE)]
    /\ heard = told
    /\ reach = 0

\* Mutant of MayClose: that nothing was received above is not asked.
MutMayCloseEarly(p, d, high) ==
    finAccepted \/ (p.fin /\ DOMAIN d.segs = {})

\* prvHandleEstablished: a FIN is accepted when nothing is missing before it.
\* Once it is, every packet is answered with our own FIN.
MayClose(p, d, high) ==
    \/ finAccepted
    \/ p.fin /\ DOMAIN d.segs = {} /\ d.cur >= high /\ EndOf(p) - d.cur <= 1

\* prvSendData: a plain ACK waits as long as the peer may send two segments.
Delayed(p, c) == p.len > 0 /\ sack' = <<>> /\ told.edge - c >= 2 * MSS

\* prvTCPHandleState and prvSendData: d is what lTCPWindowRxCheck made of the
\* packet p and s what then became of rxStream.
Handle(p, d, s) ==
    LET high == Largest(highest, EndOf(p))
        low == lowWater \/ (d.offset = 0 /\ FrontSpace(s.front) <= Little)
        change == winChange \/ cur = p.seq + 1 \/ low # lowWater
        close == MayClose(p, d, high)
        answers == close \/ p.len > 0 \/ change
    IN  /\ highest' = high
        /\ segs' = d.segs
        /\ sack' = d.sack
        /\ head' = s.head /\ front' = s.front /\ cells' = s.cells
        /\ lowWater' = low
        /\ reset' = (d.offset >= 0 /\ s.count # p.len)
        /\ IF reset'
           THEN
              /\ cur' = d.cur
              /\ winChange' = change
              /\ UNCHANGED <<finAccepted, reply>>
           ELSE
              /\ finAccepted' = close
              /\ cur' = IF close /\ p.fin THEN EndOf(p) + 1 ELSE d.cur
              /\ rxWin' = IF answers THEN CurWinSize(cur', high, s.front) ELSE rxWin
              /\ \/ /\ ~answers
                    /\ UNCHANGED <<winChange, ackDue, told>>
                 \/ /\ answers /\ ~close /\ Delayed(p, cur')
                    /\ ackDue' = TRUE
                    /\ winChange' = change
                    /\ UNCHANGED told
                 \/ /\ answers /\ (close \/ ~Delayed(p, cur'))
                    /\ ackDue' = FALSE
                    /\ winChange' = FALSE
                    /\ told' = [ack |-> cur', edge |-> cur' + Advertised(rxWin', s.front, low)]
        /\ UNCHANGED <<taken, peer>>

\* A packet comes in: prvStoreRxData checks it, if it has data, and stores it.
Receive(p, room) ==
    /\ ~reset
    /\ room => Cardinality(DOMAIN segs) < Segments
    /\ \E d \in {IF p.len = 0 THEN Refused ELSE RxCheck(p, GetSpace, room)} :
        \E s \in {Stored(p, d)} : Handle(p, d, s)

\* xTCPSocketCheck: a delayed ACK, or a changed window, is sent.
SocketCheck ==
    /\ ackDue \/ winChange
    /\ ~reset
    /\ ackDue' = FALSE
    /\ winChange' = FALSE
    /\ told' = [ack |-> cur, edge |-> cur + Advertised(rxWin, front, lowWater)]
    /\ UNCHANGED <<window, stream, peer, rxWin, taken, lowWater, finAccepted, reset>>

----------------------------------------------------------------------------
(* The user *)

\* Mutant of Recv: what is stored is taken for what is available.
MutRecvStored(n) ==
    /\ n <= front - taken
    /\ taken' = taken + n
    /\ UNCHANGED <<window, stream, reply, peer, lowWater, winChange, finAccepted, reset>>

\* FreeRTOS_recv of n bytes.
Recv(n) ==
    /\ n <= head - taken
    /\ taken' = taken + n
    /\ LET open == lowWater /\ RxStreamSize - (front - taken') >= Enough
       IN  /\ lowWater' = (lowWater /\ ~open)
           /\ winChange' = (winChange \/ open)
    /\ UNCHANGED <<window, stream, reply, peer, finAccepted, reset>>

----------------------------------------------------------------------------
(* The peer and the network *)

\* The peer sends more: within the window it knows, or to probe a closed one.
PeerSends ==
    /\ ~reset
    /\ \E p \in Packets :
        /\ p.seq <= reach /\ reach < EndOf(p)
        /\ EndOf(p) <= heard.edge \/ p.seq = heard.ack
        /\ reach' = EndOf(p)
    /\ UNCHANGED <<window, stream, reply, heard, taken, lowWater, winChange, finAccepted, reset>>

\* The last packet we sent reaches the peer.
PeerHears ==
    /\ heard' = told
    /\ UNCHANGED <<window, stream, reply, reach, taken, lowWater, winChange, finAccepted, reset>>

\* A segment the peer has sent arrives, for the first time or again.
Arrives(p) ==
    /\ EndOf(p) <= reach
    /\ \E room \in BOOLEAN : Receive(p, room)

\* A window probe, or a keep-alive message: one before what was acknowledged.
Probe == Receive([seq |-> heard.ack - 1, len |-> 0, fin |-> FALSE], FALSE)

Reads == \E n \in 1..RxStreamSize : Recv(n)

Next ==
    \/ \E p \in Packets : Arrives(p)
    \/ Probe \/ SocketCheck \/ Reads \/ PeerSends \/ PeerHears

\* A segment with the first byte that the peer does not know to have arrived.
Repeats ==
    \E p \in Packets :
        /\ p.seq <= heard.ack /\ heard.ack < EndOf(p) + (IF p.fin THEN 1 ELSE 0)
        /\ Arrives(p)

\* The peer repeats what was not acknowledged until it is, the network does
\* not lose every packet, the user goes on reading and the IP task is run.
Fairness ==
    /\ WF_vars(Repeats)
    /\ WF_vars(SocketCheck) /\ WF_vars(Reads) /\ WF_vars(PeerSends) /\ WF_vars(PeerHears)

Spec == Init /\ [][Next]_vars /\ Fairness

----------------------------------------------------------------------------
(* Properties *)

\* The receive path's state has its types and rxStream its bounds: what is
\* read is available, what is available is stored, all of it fits.
TypeOK ==
    /\ cur \in 0..StreamLength + 1 /\ highest \in 0..StreamLength
    /\ DOMAIN segs \subseteq 0..StreamLength /\ \A x \in DOMAIN segs : segs[x] \in 1..StreamLength
    /\ sack \in {<<>>} \cup (0..StreamLength) \X (0..StreamLength)
    /\ {head, front, taken} \subseteq Nat
    /\ taken <= head /\ head <= front /\ front <= taken + RxStreamSize
    /\ cells \in [Positions -> 0..StreamLength \cup {Stale}]
    /\ {lowWater, winChange, ackDue, finAccepted, reset} \subseteq BOOLEAN
    /\ rxWin \in Nat
    /\ {told, heard} \subseteq [ack : 0..StreamLength + 1, edge : Nat]
    /\ reach \in 0..StreamLength

\* What lTCPWindowRxCheck lets the user read is what the peer sent, in its
\* order, whatever arrived before, twice or late.
UserSeesPeersBytes == \A i \in 0..head - 1 : i < StreamLength /\ cells[i] = i

\* A SACK names only bytes that rxStream holds and xRxSegments records: the
\* peer need not keep them any longer.
SackHonest ==
    sack # <<>> => \A i \in sack[1]..sack[2] - 1 :
        /\ i < cur \/ \E x \in DOMAIN segs : x <= i /\ i < x + segs[x]
        /\ cells[i] = i

\* A segment stays in xRxSegments only while something before it is missing:
\* what is left behind there would keep every FIN from being accepted.
StoredLiesAhead == \A x \in DOMAIN segs : cur < x

\* Both together: xRxSegments records what was SACKed and nothing else.
ReassemblyHonest == SackHonest /\ StoredLiesAhead

\* What lTCPWindowRxCheck accepts, lTCPAddRxdata has the room for.
AcceptedFits == ~reset

\* The user's bytes and the accepted FIN are those of a reliable stream: in
\* order, complete, and all of them in the end.
Promised == INSTANCE ReliableStream WITH
    Length <- StreamLength,
    delivered <- [i \in 1..head |-> cells[i - 1]],
    ended <- finAccepted
ImplementsReliableStream == Promised!Spec
=============================================================================
