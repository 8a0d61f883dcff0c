---------------------------- MODULE TCPTransmit -----------------------------
(***************************************************************************)
(* The sending half of an established TCP connection: the transmission     *)
(* window of FreeRTOS_TCP_WIN.c with its segments and three queues, the    *)
(* moving of the user's data from txStream into it and of acknowledged     *)
(* data out of it (FreeRTOS_TCP_IP.c), against a network that loses,       *)
(* repeats and reorders data and loses acknowledgements, and a peer that   *)
(* keeps what comes early, sends SACKs and closes its window.              *)
(*                                                                         *)
(* A byte is its position in our stream.  The window keeps positions too:  *)
(* the code compares sequence numbers by their signed difference, which    *)
(* wrapping does not change, except in prvTCPWindowTxHasSpace.  Whether a  *)
(* retransmission timer has expired is a free choice of the environment.   *)
(***************************************************************************)
EXTENDS Integers, Sequences, FiniteSets, SequencesExt

CONSTANTS
    StreamLength,  \* how many bytes the user sends
    FirstNumber,   \* the 32-bit sequence number of the first one
    Modulus,       \* how many sequence numbers there are, 2^32 in the code
    MSS,           \* usMSS
    TxWindow,      \* xSize.ulTxWindowLength of a new window
    LENGTH,        \* txStream->LENGTH: one more than what fits
    Segments,      \* ipconfigTCP_WIN_SEG_COUNT
    PeerSpace,     \* the size of the peer's buffer
    MAX_TRANSMIT_COUNT_USING_LARGE_WINDOW,
    DUPLICATE_ACKS_BEFORE_FAST_RETRANSMIT,
    MaxAcks,       \* bound: acknowledgements under way
    Missing        \* a byte the peer does not have; no segment

ASSUME SizesAssumption ==
    /\ StreamLength \in Nat \ {0} /\ MSS \in Nat \ {0} /\ LENGTH \in Nat \ {0, 1}
    /\ Modulus \in Nat /\ Modulus > StreamLength /\ FirstNumber \in 0..Modulus - 1
    /\ TxWindow \in Nat /\ Segments \in Nat /\ MaxAcks \in Nat
    /\ MAX_TRANSMIT_COUNT_USING_LARGE_WINDOW \in Nat \ {0}
    /\ DUPLICATE_ACKS_BEFORE_FAST_RETRANSMIT \in Nat \ {0}
ASSUME PeerAssumption == PeerSpace \in Nat /\ PeerSpace >= MSS
ASSUME MissingAssumption == Missing \notin Int

VARIABLES
    win,    \* the transmission window, a record
    wnd,    \* u.xTcp.wnd: the window the peer advertised
    tail,   \* txStream: the first byte that is not acknowledged
    mid,    \* txStream: the first byte not handed to the window
    head,   \* txStream: the end of what the user has written
    data,   \* segments on their way to the peer: [seq, len, from]
    acks,   \* acknowledgements on their way to us: [ack, wnd, sack]
    got,    \* the bytes the peer has stored
    read    \* how many its user has read

vars == <<win, wnd, tail, mid, head, data, acks, got, read>>

Least(a, b) == IF a < b THEN a ELSE b

\* ucTransmitCount and ucDupAckCount are only compared with these two.
MaxCount == MAX_TRANSMIT_COUNT_USING_LARGE_WINDOW + 1
MaxDup == DUPLICATE_ACKS_BEFORE_FAST_RETRANSMIT + 1

\* The elements of a queue that are in keep, in their order.
Only(q, keep) ==
    LET f[n \in 0..Len(q)] ==
          IF n = 0 THEN <<>>
          ELSE IF q[n] \in keep THEN Append(f[n - 1], q[n]) ELSE f[n - 1]
    IN  f[Len(q)]

Segment(n, p) ==
    [len |-> n, pos |-> p, outstanding |-> FALSE, acked |-> FALSE, count |-> 0, dup |-> 0]

----------------------------------------------------------------------------
(* The window: the functions of FreeRTOS_TCP_WIN.c *)

\* A segment with n bytes more
Filled(r, n) == [r EXCEPT !.len = @ + n]

\* lTCPWindowTxAdd of n bytes from index p of txStream, with room segments
\* left in the pool: the segment that still grows is filled up, then new ones
\* are made.
Grown(w, n) ==
    IF w.growing = Missing THEN 0 ELSE Least(n, MSS - w.segs[w.growing].len)

TxAdd(w, n, p, room) ==
    LET fill == Grown(w, n)
        made == Least(room, (n - fill + MSS - 1) \div MSS)
        At(i) == fill + (i - 1) * MSS
        Len1(i) == Least(MSS, n - At(i))
        new == {w.next + At(i) : i \in 1..made}
        Index(x) == ((x - w.next - fill) \div MSS) + 1
        last == w.next + At(made)
    IN  [w EXCEPT
          !.segs = [x \in DOMAIN w.segs \cup new |->
            IF x \in new THEN Segment(Len1(Index(x)), (p + x - w.next) % LENGTH)
            ELSE IF x = w.growing THEN Filled(w.segs[x], fill) ELSE w.segs[x]],
          !.tx = @ \o [i \in 1..made |-> w.next + At(i)],
          !.growing =
            IF made > 0 THEN IF Len1(made) < MSS THEN last ELSE Missing
            ELSE IF @ = Missing \/ w.segs[@].len + fill >= MSS THEN Missing ELSE @,
          !.next = @ + Least(n, fill + made * MSS)]

Number(x) == (FirstNumber + x) % Modulus

\* ulTxOutstanding.  The two numbers are compared as they are.
Outstanding(w) == IF Number(w.highest) >= Number(w.cur) THEN w.highest - w.cur ELSE 0

\* Mutant of HasSpace: what is outstanding is not subtracted.
MutHasSpaceWhole(w, size) == size >= w.segs[Head(w.tx)].len

\* prvTCPWindowTxHasSpace
HasSpace(w, size) ==
    LET len == w.segs[Head(w.tx)].len
        out == Outstanding(w)
    IN  /\ size - Least(size, out) >= len
        /\ out = 0 \/ w.size >= out + len

\* Mutant of Chosen: nothing is repeated after a time-out.
MutChosenOnce(w, size, expired) ==
    IF w.prio # <<>> THEN Head(w.prio)
    ELSE IF w.tx # <<>> /\ HasSpace(w, size) THEN Head(w.tx)
    ELSE Missing

\* ulTCPWindowTxGet: first what must be repeated at once, then the oldest that
\* waits if its timer has expired, then new data if the peer has the space.
Chosen(w, size, expired) ==
    IF w.prio # <<>> THEN Head(w.prio)
    ELSE IF w.wait # <<>> /\ expired THEN Head(w.wait)
    ELSE IF w.tx # <<>> /\ HasSpace(w, size) THEN Head(w.tx)
    ELSE Missing

\* A queue from which xTCPWindowGetHead took x, if it was there.
Rest(q, x) == IF q # <<>> /\ Head(q) = x THEN Tail(q) ELSE q

\* A segment that is sent for the nth time
Transmitted(r, n, timedOut) ==
    [r EXCEPT !.outstanding = TRUE, !.count = n, !.dup = IF timedOut THEN 0 ELSE @]

\* The end of ulTCPWindowTxGet: segment x is about to be sent.
Sent(w, x) ==
    LET n == Least(w.segs[x].count + 1, MaxCount)
        timedOut == w.prio = <<>> /\ x \in ToSet(w.wait)
    IN  IF x = Missing THEN w
        ELSE [w EXCEPT
          !.prio = Rest(@, x), !.tx = Rest(@, x), !.wait = Append(Rest(@, x), x),
          !.segs[x] = Transmitted(@, n, timedOut),
          !.growing = IF @ = x THEN Missing ELSE @,
          !.highest = IF x \in ToSet(w.tx) THEN x + w.segs[x].len ELSE @,
          !.size = IF n = MAX_TRANSMIT_COUNT_USING_LARGE_WINDOW THEN Least(@, 2 * MSS) ELSE @]

\* prvTCPWindowTxCheckAck: the segments from first to last, in their order.
\* One that is only partly acknowledged ends the search.
Acked(w, first, last) ==
    IF first \notin DOMAIN w.segs THEN {}
    ELSE {x \in DOMAIN w.segs : /\ first <= x /\ x < last
                                /\ w.segs[x].acked \/ x + w.segs[x].len <= last}

\* A segment whose bAcked is set if done is true
Confirm(r, done) == [r EXCEPT !.acked = @ \/ done]

\* Mutant of CheckAck: what is acknowledged is freed wherever it lies.
MutCheckAckFrees(w, first, last) ==
    LET done == Acked(w, first, last)
        rest == DOMAIN w.segs \ done
    IN  [w EXCEPT
          !.segs = [x \in DOMAIN @ \ done |-> @[x]],
          !.prio = Only(@, rest), !.tx = Only(@, rest), !.wait = Only(@, rest),
          !.cur = IF done = {} THEN @ ELSE CHOOSE e \in {x + w.segs[x].len : x \in done} :
                    \A x \in done : x < e]

CheckAck(w, first, last) ==
    LET done == Acked(w, first, last)
        free == IF first = w.cur THEN done ELSE {}
        rest == DOMAIN w.segs \ done
    IN  [w EXCEPT
          !.segs = [x \in DOMAIN @ \ free |-> Confirm(@[x], x \in done)],
          !.prio = Only(@, rest), !.tx = Only(@, rest), !.wait = Only(@, rest),
          !.cur = IF free = {} THEN @ ELSE CHOOSE e \in {x + w.segs[x].len : x \in free} :
                    \A x \in free : x < e]

\* ulTCPWindowTxAck
TxAck(w, ack) == IF ack <= w.cur THEN w ELSE CheckAck(w, w.cur, ack)

\* The segments that wait below first without being acknowledged
Passed(w, first) == {x \in ToSet(w.wait) : x < first /\ ~w.segs[x].acked}

\* Those that were passed often enough
Again(w, first) ==
    {x \in Passed(w, first) : w.segs[x].dup + 1 = DUPLICATE_ACKS_BEFORE_FAST_RETRANSMIT}

\* One more duplicate acknowledgement
PassOver(r, again) ==
    [r EXCEPT !.dup = Least(@ + 1, MaxDup), !.count = IF again THEN 0 ELSE @]

\* Mutant of FastRetransmit: the segment stays in xWaitQueue.
MutFastRetransmitKeeps(w, first) ==
    [w EXCEPT !.prio = @ \o Only(w.wait, Again(w, first))]

\* prvTCPWindowFastRetransmit: the third block that was acknowledged above a
\* segment has it repeated at once.
FastRetransmit(w, first) ==
    [w EXCEPT
      !.segs = [x \in DOMAIN @ |->
        IF x \in Passed(w, first) THEN PassOver(@[x], x \in Again(w, first)) ELSE @[x]],
      !.prio = @ \o Only(w.wait, Again(w, first)),
      !.wait = Only(@, DOMAIN w.segs \ Again(w, first))]

\* ulTCPWindowTxSack
TxSack(w, sack) ==
    IF sack = <<>> THEN w ELSE FastRetransmit(CheckAck(w, sack[1], sack[2]), sack[1])

----------------------------------------------------------------------------
(* The IP task *)

\* prvTCPAddTxData
AddTxData(w, room) ==
    IF head = mid THEN w ELSE TxAdd(w, head - mid, mid % LENGTH, room)

\* Mutant of Packet: the position is taken for the distance.
MutPacketPosition(w, x, t) == [seq |-> x, len |-> w.segs[x].len, from |-> t + w.segs[x].pos]

\* The packet of prvTCPPrepareSend: its bytes are copied from txStream at the
\* segment's distance from the tail.
Packet(w, x, t) ==
    [seq |-> x, len |-> w.segs[x].len, from |-> t + ((w.segs[x].pos - t) % LENGTH)]

\* prvTCPPrepareSend with window w and tail t.  Without a network buffer
\* nothing is sent, the segment waits as if it had been.
PrepareSend(w, size, t, expired, buffer) ==
    \E x \in {Chosen(w, size, expired)} :
        /\ win' = Sent(w, x)
        /\ data' = IF x # Missing /\ buffer THEN data \cup {Packet(w, x, t)} ELSE data

\* The segments that are free, if the other sockets leave them all.
Free == Segments - Cardinality(DOMAIN win.segs)

\* xTCPSocketCheck and one turn of prvTCPSendRepeated, which stops after any.
SocketCheck(room, expired, buffer) ==
    /\ \E w \in {AddTxData(win, room)} :
        /\ PrepareSend(w, wnd, tail, expired, buffer)
        /\ mid' = mid + (w.next - win.next)
    /\ UNCHANGED <<wnd, tail, head, acks, got, read>>

\* How far the tail of txStream moves when the window's left edge does.
Confirmed(from, to, t) == t + Least(to.cur - from.cur, head - t)

\* A packet from the peer, without data: prvCheckOptions takes its SACK, then
\* prvHandleEstablished its window and acknowledgement.
AckArrives(room, expired, buffer) ==
    /\ acks # <<>>
    /\ acks' = Tail(acks)
    /\ wnd' = Head(acks).wnd
    /\ \E s \in {TxSack(win, Head(acks).sack)} :
       \E a \in {TxAck(s, Head(acks).ack)} :
       \E w \in {AddTxData(a, room)} :
        /\ tail' = Confirmed(s, a, Confirmed(win, s, tail))
        /\ mid' = mid + (w.next - a.next)
        /\ PrepareSend(w, wnd', tail', expired, buffer)
    /\ UNCHANGED <<head, got, read>>

----------------------------------------------------------------------------
(* The user, the peer and the network *)

\* Mutant of Send: the last cell is used too.
MutSendFull(n) ==
    /\ n <= LENGTH - (head - tail)
    /\ head + n <= StreamLength
    /\ head' = head + n
    /\ UNCHANGED <<win, wnd, tail, mid, data, acks, got, read>>

\* FreeRTOS_send of n bytes.
Send(n) ==
    /\ n <= LENGTH - 1 - (head - tail)
    /\ head + n <= StreamLength
    /\ head' = head + n
    /\ UNCHANGED <<win, wnd, tail, mid, data, acks, got, read>>

\* The first byte the peer misses.
PeerNext(g) == CHOOSE i \in 0..StreamLength :
    /\ i = StreamLength \/ g[i] = Missing
    /\ \A j \in 0..i - 1 : g[j] # Missing

\* The blocks it has above that, of which it tells one.
Blocks(g) ==
    {b \in (PeerNext(g) + 1..StreamLength) \X (1..StreamLength) :
        /\ b[1] < b[2]
        /\ g[b[1] - 1] = Missing
        /\ b[2] = StreamLength \/ g[b[2]] = Missing
        /\ \A i \in b[1]..b[2] - 1 : g[i] # Missing}

Answers(g, r) ==
    [ack : {PeerNext(g)}, wnd : {r + PeerSpace - PeerNext(g)},
     sack : IF Blocks(g) = {} THEN {<<>>} ELSE Blocks(g)]

\* The peer answers, to a keep-alive message or because its user has read.
PeerAnswers ==
    /\ Len(acks) < MaxAcks
    /\ \E a \in Answers(got, read) : acks' = Append(acks, a)
    /\ UNCHANGED <<win, wnd, tail, mid, head, data, got, read>>

\* A segment arrives, and the copy that was not the last stays under way.  The
\* peer keeps what lies in its window; its answer may be lost.
Arrives(p, last, answered) ==
    /\ p \in data
    /\ data' = IF last THEN data \ {p} ELSE data
    /\ got' = [i \in DOMAIN got |->
         IF got[i] = Missing /\ p.seq <= i /\ i < p.seq + p.len /\ i < read + PeerSpace
         THEN p.from + (i - p.seq) ELSE got[i]]
    /\ IF answered
       THEN Len(acks) < MaxAcks /\ \E a \in Answers(got', read) : acks' = Append(acks, a)
       ELSE UNCHANGED acks
    /\ UNCHANGED <<win, wnd, tail, mid, head, read>>

Lost(p) ==
    /\ p \in data
    /\ data' = data \ {p}
    /\ UNCHANGED <<win, wnd, tail, mid, head, acks, got, read>>

\* The peer's user reads what has come.
PeerReads ==
    /\ read < PeerNext(got)
    /\ read' \in read + 1..PeerNext(got)
    /\ UNCHANGED <<win, wnd, tail, mid, head, data, acks, got>>

Init ==
    /\ win = [segs |-> [x \in {} |-> Segment(0, 0)], prio |-> <<>>, tx |-> <<>>, wait |-> <<>>,
              growing |-> Missing, cur |-> 0, next |-> 0, highest |-> 0, size |-> TxWindow]
    /\ wnd = PeerSpace
    /\ tail = 0 /\ mid = 0 /\ head = 0
    /\ data = {} /\ acks = <<>>
    /\ got = [i \in 0..StreamLength - 1 |-> Missing] /\ read = 0

Sends == \E n \in 1..LENGTH - 1 : Send(n)
Checks == \E room \in 0..Free, expired, buffer \in BOOLEAN : SocketCheck(room, expired, buffer)
Hears == \E room \in 0..Free, expired, buffer \in BOOLEAN : AckArrives(room, expired, buffer)
Travels == \E p \in data : Lost(p) \/ \E last, answered \in BOOLEAN : Arrives(p, last, answered)

Next == Sends \/ Checks \/ Hears \/ Travels \/ PeerAnswers \/ PeerReads

\* The packet has the first byte that the peer misses.
Awaited(p) == p.seq <= PeerNext(got) /\ PeerNext(got) < p.seq + p.len

\* The user goes on sending, the peer reads and answers, the IP task checks the
\* socket once a timer has expired.  The segment the peer waits for does not
\* lack a network buffer each time, nor is it or an answer lost each time.
Fairness ==
    /\ WF_vars(Sends) /\ WF_vars(PeerReads) /\ WF_vars(PeerAnswers)
    /\ WF_vars(SocketCheck(Free, TRUE, TRUE))
    /\ WF_vars(AckArrives(Free, TRUE, TRUE))
    /\ SF_vars(SocketCheck(Free, TRUE, TRUE) /\ \E p \in data' \ data : Awaited(p))
    /\ SF_vars(\E p \in data : Awaited(p) /\ Arrives(p, TRUE, FALSE) /\ got' # got)

Spec == Init /\ [][Next]_vars /\ Fairness

----------------------------------------------------------------------------
(* Properties *)

Queued(x) == {q \in {"prio", "tx", "wait"} : x \in ToSet(win[q])}

\* The window, txStream and the network hold values of their types.
TypeOK ==
    /\ DOMAIN win.segs \subseteq 0..StreamLength - 1
    /\ \A x \in DOMAIN win.segs : win.segs[x] \in
         [len : 1..MSS, pos : 0..LENGTH - 1, outstanding : BOOLEAN, acked : BOOLEAN,
          count : 0..MaxCount, dup : 0..MaxDup]
    /\ Cardinality(DOMAIN win.segs) <= Segments
    /\ win.growing \in ToSet(win.tx) \cup {Missing}
    /\ win.size \in 0..TxWindow
    /\ 0 <= tail /\ tail <= mid /\ mid <= head /\ head < tail + LENGTH /\ head <= StreamLength
    /\ \A p \in data : p.seq \in 0..StreamLength - 1 /\ p.len \in 1..MSS
    /\ Len(acks) <= MaxAcks /\ wnd \in 0..PeerSpace
    /\ read \in 0..PeerNext(got)

\* The segments cover what lies between the tail and the middle of txStream,
\* without gap or overlap: no byte is freed before the peer has it, none is
\* forgotten when an acknowledgement or a SACK frees part of the window.
SegmentsCoverStream ==
    /\ win.cur = tail /\ win.next = mid
    /\ \A i \in tail..mid - 1 :
        \E x \in DOMAIN win.segs : x <= i /\ i < x + win.segs[x].len
                               /\ \A y \in DOMAIN win.segs \ {x} : i < y \/ y + win.segs[y].len <= i
    /\ \A i \in 0..tail - 1 : got[i] # Missing

\* A segment that the peer has not acknowledged is in one queue, once, and in
\* the one for its state: in none it would never be sent again, and one that is
\* acknowledged is in none.
EverySegmentQueued ==
    /\ \A x \in DOMAIN win.segs :
        IF win.segs[x].acked THEN Queued(x) = {}
        ELSE Cardinality(Queued(x)) = 1 /\ ("tx" \in Queued(x) <=> ~win.segs[x].outstanding)
    /\ \A q \in {"prio", "tx", "wait"} :
        IsInjective(win[q]) /\ ToSet(win[q]) \subseteq DOMAIN win.segs

\* Both together: the window knows of every byte under way, and will send it.
WindowConsistent == SegmentsCoverStream /\ EverySegmentQueued

\* No byte is sent for which the peer has not announced the space.
InPeerWindow == win.highest <= read + PeerSpace

\* What the peer passes to its user is our user's stream: in order, complete,
\* and in the end all of it, over a network that loses and repeats.
Promised == INSTANCE ReliableStream WITH
    Length <- StreamLength,
    delivered <- [i \in 1..PeerNext(got) |-> got[i - 1]],
    ended <- tail = StreamLength
ImplementsReliableStream == Promised!Spec
=============================================================================
