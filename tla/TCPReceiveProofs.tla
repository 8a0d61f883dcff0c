-------------------------- MODULE TCPReceiveProofs --------------------------
(***************************************************************************)
(* Proofs about TCPReceive, for a peer that repeats its segments as it cut *)
(* them at first: whatever is lost, repeated or reordered, the user is     *)
(* given the peer's bytes in order, what is SACKed is kept, what is        *)
(* accepted fits, and nothing stays behind in the reassembly list.         *)
(***************************************************************************)
EXTENDS TCPReceive, TLAPS, NaturalsInduction, WellFoundedInduction

\* The peer does not cut its data anew: two of its segments are the same data
\* or do not overlap.
PeerKeepsItsCuts ==
    \A p, q \in Packets : p.len > 0 /\ q.len > 0 =>
        /\ p.seq = q.seq => p.len = q.len
        /\ p.seq < q.seq => EndOf(p) <= q.seq

----------------------------------------------------------------------------
(* Stored segments, as a loop of xTCPWindowRxFind meets them *)

\* Segments of positive length that do not overlap.
Apart(s) ==
    /\ DOMAIN s \subseteq 0..StreamLength
    /\ \A x \in DOMAIN s : s[x] \in 1..StreamLength /\ x + s[x] <= StreamLength
    /\ \A x, y \in DOMAIN s : x < y => x + s[x] <= y

LEMMA ChainStarts ==
    ASSUME NEW s, NEW x \in DOMAIN s
    PROVE  x \in Chain(s, x)
BY DEF Chain

LEMMA ChainIn ==
    ASSUME NEW s, NEW x
    PROVE  Chain(s, x) \subseteq DOMAIN s
BY DEF Chain

LEMMA ChainGoesOn ==
    ASSUME NEW s, NEW x, NEW z \in Chain(s, x), z + s[z] \in DOMAIN s
    PROVE  z + s[z] \in Chain(s, x)
<1>1. ASSUME NEW C \in SUBSET DOMAIN s, x \in DOMAIN s => x \in C,
             \A w \in C : w + s[w] \in DOMAIN s => w + s[w] \in C
      PROVE  z + s[z] \in C
  <2>1. z \in C
    BY <1>1 DEF Chain
  <2> QED BY <2>1, <1>1
<1> QED BY <1>1 DEF Chain

\* What holds at the start and goes on from segment to segment holds for all.
LEMMA ChainLeast ==
    ASSUME NEW s, NEW x \in DOMAIN s, NEW C \in SUBSET DOMAIN s, x \in C,
           \A z \in C : z + s[z] \in DOMAIN s => z + s[z] \in C
    PROVE  Chain(s, x) \subseteq C
BY DEF Chain

\* A bounded set of numbers has a largest one.
LEMMA LargestExists ==
    ASSUME NEW N \in Nat, NEW S \in SUBSET (0..N), S # {}
    PROVE  \E e \in S : \A z \in S : z <= e
<1> DEFINE T == {N - e : e \in S}
<1>1. T \subseteq Nat /\ T # {}
  OBVIOUS
<1>2. PICK t \in T : \A u \in T : ~(<<u, t>> \in OpToRel(<, Nat))
  BY <1>1, NatLessThanWellFounded, WFMin
<1>3. PICK e \in S : t = N - e
  OBVIOUS
<1>4. ASSUME NEW z \in S PROVE z <= e
  <2>1. N - z \in T /\ N - z \in Nat /\ t \in Nat
    BY <1>1
  <2>2. ~(N - z < t)
    BY <1>2, <2>1 DEF OpToRel
  <2> QED BY <2>2, <1>3
<1> QED BY <1>4

\* The loop ends at its start or at the end of one of the segments it met.
LEMMA EndIsAnEnd ==
    ASSUME NEW s, Apart(s), NEW x \in DOMAIN s
    PROVE  /\ \E z \in Chain(s, x) : ChainEnd(s, x) = z + s[z]
           /\ \A z \in Chain(s, x) : z + s[z] <= ChainEnd(s, x)
<1> DEFINE Ends == {z + s[z] : z \in Chain(s, x)}
<1>1. Chain(s, x) \subseteq DOMAIN s /\ x \in Chain(s, x)
  BY ChainIn, ChainStarts
<1>2. Ends \subseteq 0..StreamLength /\ Ends # {}
  BY <1>1, SizesAssumption DEF Apart
<1>3. \E e \in Ends : \A z \in Ends : z <= e
  BY <1>2, LargestExists, SizesAssumption
<1>4. \E e \in Ends : \A z \in Chain(s, x) : z + s[z] <= e
  BY <1>3
<1>5. ChainEnd(s, x) = CHOOSE e \in Ends : \A z \in Chain(s, x) : z + s[z] <= e
  BY DEF ChainEnd
<1>6. ChainEnd(s, x) \in Ends /\ \A z \in Chain(s, x) : z + s[z] <= ChainEnd(s, x)
  <2> HIDE DEF Ends
  <2> QED BY <1>4, <1>5
<1> QED BY <1>6

\* Every byte the loop passes lies in a stored segment.
LEMMA PassedIsStored ==
    ASSUME NEW s, Apart(s), NEW x \in DOMAIN s
    PROVE  \A i \in x..ChainEnd(s, x) - 1 : \E w \in DOMAIN s : w <= i /\ i < w + s[w]
<1> DEFINE C == {z \in DOMAIN s : \A i \in x..z + s[z] - 1 :
                    \E w \in DOMAIN s : w <= i /\ i < w + s[w]}
<1>1. x \in C
  BY DEF Apart
<1>2. ASSUME NEW z \in C, z + s[z] \in DOMAIN s PROVE z + s[z] \in C
  <2> DEFINE y == z + s[z]
  <2>1. z \in Int /\ s[z] \in Int /\ y \in Int /\ s[y] \in Int /\ x \in Int
    BY <1>2 DEF Apart
  <2>2. ASSUME NEW i \in x..y + s[y] - 1 PROVE \E w \in DOMAIN s : w <= i /\ i < w + s[w]
    <3>1. CASE i < y
      <4>1. i \in x..z + s[z] - 1
        BY <3>1, <2>1, <2>2
      <4> QED BY <4>1
    <3>2. CASE ~(i < y)
      <4>1. y <= i /\ i < y + s[y]
        BY <3>2, <2>1, <2>2
      <4> QED BY <4>1, <1>2
    <3> QED BY <3>1, <3>2
  <2> QED BY <2>2, <1>2
<1>3. Chain(s, x) \subseteq C
  <2> HIDE DEF C
  <2>1. C \in SUBSET DOMAIN s
    BY DEF C
  <2> QED BY <2>1, <1>1, <1>2, ChainLeast
<1>4. PICK z \in Chain(s, x) : ChainEnd(s, x) = z + s[z]
  BY EndIsAnEnd
<1>5. z \in C
  BY <1>3
<1>6. z \in Int /\ s[z] \in Int /\ x \in Int
  BY <1>5 DEF Apart
<1>7. \A i \in x..z + s[z] - 1 : \E w \in DOMAIN s : w <= i /\ i < w + s[w]
  BY <1>5
<1> HIDE DEF C
<1> QED BY <1>4, <1>6, <1>7

\* What the loop leaves of the segments behind its start lies behind its end.
LEMMA LeftLiesBehind ==
    ASSUME NEW s, Apart(s), NEW x \in DOMAIN s, NEW y \in DOMAIN s \ Chain(s, x), x <= y
    PROVE  ChainEnd(s, x) < y
<1> DEFINE C == {z \in Chain(s, x) : \A w \in DOMAIN s : x <= w /\ w <= z => w \in Chain(s, x)}
<1>0. Chain(s, x) \subseteq DOMAIN s
  BY ChainIn
<1>1. x \in C
  <2>1. \A w \in DOMAIN s : x <= w /\ w <= x => w = x
    BY DEF Apart
  <2> QED BY <2>1, ChainStarts
<1>2. ASSUME NEW z \in C, z + s[z] \in DOMAIN s PROVE z + s[z] \in C
  <2>1. z + s[z] \in Chain(s, x)
    BY <1>2, ChainGoesOn
  <2>2. ASSUME NEW w \in DOMAIN s, x <= w, w <= z + s[z] PROVE w \in Chain(s, x)
    <3>1. CASE w <= z
      BY <3>1, <2>2
    <3>2. CASE w = z + s[z]
      BY <3>2, <2>1
    <3>3. CASE ~(w <= z) /\ w # z + s[z]
      <4>1. z \in DOMAIN s /\ z \in Int /\ w \in Int /\ s[z] \in Int
        BY <1>0 DEF Apart
      <4>2. z + s[z] <= w
        BY <3>3, <4>1 DEF Apart
      <4> QED BY <3>3, <4>1, <4>2, <2>2
    <3> QED BY <3>1, <3>2, <3>3
  <2> QED BY <2>1, <2>2
<1>3. Chain(s, x) \subseteq C
  <2> HIDE DEF C
  <2>1. C \in SUBSET DOMAIN s
    BY <1>0 DEF C
  <2> QED BY <2>1, <1>1, <1>2, ChainLeast
<1>4. PICK z \in Chain(s, x) : ChainEnd(s, x) = z + s[z]
  BY EndIsAnEnd
<1>5. z \in C /\ z \in DOMAIN s /\ z \in Int /\ y \in Int /\ s[z] \in Int
  BY <1>0, <1>3 DEF Apart
<1>6. ~(y <= z)
  BY <1>5
<1>7. z + s[z] <= y
  BY <1>5, <1>6 DEF Apart
<1>8. y # z + s[z]
  BY ChainGoesOn
<1> QED BY <1>4, <1>5, <1>7, <1>8

\* The three together, for a start that need not be stored.
LEMMA EndOfChain ==
    ASSUME NEW s, Apart(s), NEW x \in 0..StreamLength
    PROVE  /\ ChainEnd(s, x) \in x..StreamLength
           /\ ChainEnd(s, x) = x \/ \E z \in DOMAIN s : ChainEnd(s, x) = z + s[z]
           /\ \A i \in x..ChainEnd(s, x) - 1 : \E w \in DOMAIN s : w <= i /\ i < w + s[w]
           /\ \A y \in DOMAIN s \ Chain(s, x) : x <= y => ChainEnd(s, x) < y
<1>1. CASE x \in DOMAIN s
  <2>1. PICK z \in Chain(s, x) : ChainEnd(s, x) = z + s[z]
    BY <1>1, EndIsAnEnd
  <2>2. z \in DOMAIN s
    BY ChainIn
  <2>3. x + s[x] <= ChainEnd(s, x)
    BY <1>1, EndIsAnEnd, ChainStarts
  <2>4. ChainEnd(s, x) \in x..StreamLength
    <3>1. z + s[z] \in Int /\ z + s[z] <= StreamLength
      BY <2>2, SizesAssumption DEF Apart
    <3>2. s[x] \in Int /\ s[x] > 0
      BY <1>1, SizesAssumption DEF Apart
    <3> QED BY <3>1, <3>2, <2>1, <2>3, SizesAssumption
  <2>5. \A i \in x..ChainEnd(s, x) - 1 : \E w \in DOMAIN s : w <= i /\ i < w + s[w]
    BY <1>1, PassedIsStored
  <2>6. \A y \in DOMAIN s \ Chain(s, x) : x <= y => ChainEnd(s, x) < y
    BY <1>1, LeftLiesBehind
  <2> QED BY <2>1, <2>2, <2>4, <2>5, <2>6
<1>2. CASE x \notin DOMAIN s
  <2>1. ChainEnd(s, x) = x
    BY <1>2 DEF ChainEnd
  <2>2. \A y \in DOMAIN s \ Chain(s, x) : x <= y => x < y
    BY <1>2, SizesAssumption DEF Apart
  <2> QED BY <2>1, <2>2, SizesAssumption
<1> QED BY <1>1, <1>2

----------------------------------------------------------------------------
(* The invariant *)

\* c, h, f, m, s, k, t stand for cur, head, front, cells, segs, sack and taken.

\* What is stored is a segment of the peer, whole, in the place where head will
\* find it, and lies ahead.
Recorded(s, c, f, m) ==
    /\ DOMAIN s \subseteq 0..StreamLength
    /\ \A x \in DOMAIN s :
        /\ c < x
        /\ x + s[x] <= f
        /\ \E q \in Packets : q.len > 0 /\ q.seq = x /\ q.len = s[x]
        /\ \A i \in x..x + s[x] - 1 : m[i] = i

\* No segment of the peer has a part before c and a part behind it.
AtACut(c) == \A q \in Packets : q.len > 0 => EndOf(q) <= c \/ c <= q.seq

\* A SACK names only bytes that are held.
SackHeld(k, c, s, m) ==
    k # <<>> =>
        /\ k \in (0..StreamLength) \X (0..StreamLength)
        /\ \A i \in k[1]..k[2] - 1 :
            /\ i < c \/ \E x \in DOMAIN s : x <= i /\ i < x + s[x]
            /\ m[i] = i

Bounds(h, f, t) == h \in Nat /\ f \in Nat /\ t \in Nat /\ h <= StreamLength
                   /\ t <= h /\ h <= f /\ f <= t + RxStreamSize

InOrder(h, m) == /\ m \in [Positions -> 0..StreamLength \cup {Stale}]
                 /\ \A i \in 0..h - 1 : m[i] = i

Flags ==
    /\ lowWater \in BOOLEAN /\ winChange \in BOOLEAN /\ ackDue \in BOOLEAN
    /\ finAccepted \in BOOLEAN

Counters ==
    /\ highest \in 0..StreamLength
    /\ rxWin \in Nat
    /\ told \in [ack : 0..StreamLength + 1, edge : Nat]
    /\ heard \in [ack : 0..StreamLength + 1, edge : Nat]
    /\ reach \in 0..StreamLength

\* Until the FIN is accepted the peer's next byte is the next of rxStream; from
\* then on all of it is there.
Position(c, h, fin) ==
    IF fin THEN c = StreamLength + 1 /\ h = StreamLength ELSE c = h

Core ==
    /\ Bounds(head, front, taken)
    /\ InOrder(head, cells)
    /\ Position(cur, head, finAccepted)
    /\ AtACut(cur)
    /\ Recorded(segs, cur, front, cells)
    /\ SackHeld(sack, cur, segs, cells)

IInv == Core /\ ~reset /\ reset \in BOOLEAN /\ Flags /\ Counters

\* What RxCheck and Stored made of a packet, given what they found.
Sound(p, d, s) ==
    /\ d.offset \in Int
    /\ d.offset >= 0 => s.count = p.len
    /\ Bounds(s.head, s.front, taken)
    /\ head <= s.head
    /\ InOrder(s.head, s.cells)
    /\ Position(d.cur, s.head, finAccepted)
    /\ AtACut(d.cur)
    /\ Recorded(d.segs, d.cur, s.front, s.cells)
    /\ SackHeld(d.sack, d.cur, d.segs, s.cells)

\* What may arrive: a segment of the peer, or a packet without data.
MayArrive(p) ==
    \/ p \in Packets
    \/ /\ p = [seq |-> heard.ack - 1, len |-> 0, fin |-> FALSE]

----------------------------------------------------------------------------
(* Storing a packet *)

LEMMA PacketTypes ==
    ASSUME NEW p \in Packets
    PROVE  /\ p.seq \in 0..StreamLength /\ p.len \in 0..StreamLength /\ p.fin \in BOOLEAN
           /\ EndOf(p) \in 0..StreamLength /\ p.seq <= EndOf(p) /\ EndOf(p) = p.seq + p.len
           /\ p.fin <=> EndOf(p) = StreamLength
BY PacketsAssumption, SizesAssumption DEF EndOf

\* Stored segments do not overlap, nor does a packet overlap one of them.
LEMMA RecordedApart ==
    ASSUME PeerKeepsItsCuts, NEW s, NEW c, NEW f, NEW m, Recorded(s, c, f, m)
    PROVE  /\ Apart(s)
           /\ \A p \in Packets, x \in DOMAIN s : p.len > 0 =>
                /\ p.seq = x => s[x] = p.len
                /\ p.seq < x => EndOf(p) <= x
<1>1. ASSUME NEW x \in DOMAIN s
      PROVE  x \in 0..StreamLength /\ s[x] \in 1..StreamLength /\ x + s[x] <= StreamLength
  <2>1. PICK q \in Packets : q.len > 0 /\ q.seq = x /\ q.len = s[x]
    BY DEF Recorded
  <2> QED BY <2>1, PacketTypes, SizesAssumption
<1>2. ASSUME NEW p \in Packets, NEW x \in DOMAIN s, p.len > 0
      PROVE  (p.seq = x => s[x] = p.len) /\ (p.seq < x => EndOf(p) <= x)
  <2>1. PICK q \in Packets : q.len > 0 /\ q.seq = x /\ q.len = s[x]
    BY DEF Recorded
  <2> QED BY <2>1, <1>2 DEF PeerKeepsItsCuts
<1>3. ASSUME NEW x \in DOMAIN s, NEW y \in DOMAIN s, x < y PROVE x + s[x] <= y
  <2>1. PICK q \in Packets : q.len > 0 /\ q.seq = x /\ q.len = s[x]
    BY DEF Recorded
  <2>2. EndOf(q) = x + s[x]
    BY <2>1 DEF EndOf
  <2> QED BY <2>1, <2>2, <1>2, <1>3
<1> QED BY <1>1, <1>2, <1>3 DEF Apart, Recorded

\* The end of a segment of the peer is a cut.
LEMMA EndsAreCuts ==
    ASSUME PeerKeepsItsCuts, NEW p \in Packets, p.len > 0
    PROVE  AtACut(EndOf(p))
<1> SUFFICES ASSUME NEW q \in Packets, q.len > 0, ~(EndOf(q) <= EndOf(p)), ~(EndOf(p) <= q.seq)
             PROVE  FALSE
  BY DEF AtACut
<1>1. /\ p.seq \in Int /\ p.len \in Int /\ EndOf(p) = p.seq + p.len
      /\ q.seq \in Int /\ q.len \in Int /\ EndOf(q) = q.seq + q.len
  BY PacketTypes
<1>2. /\ p.seq = q.seq => p.len = q.len
      /\ p.seq < q.seq => EndOf(p) <= q.seq
      /\ q.seq < p.seq => EndOf(q) <= p.seq
  BY DEF PeerKeepsItsCuts
<1> QED BY <1>1, <1>2

\* Without an offset nothing is stored.
LEMMA StoredNothing ==
    ASSUME IInv, NEW p, NEW d, d.offset = -1, d.user = 0
    PROVE  LET s == Stored(p, d) IN s.head = head /\ s.front = front /\ s.cells = cells
<1> DEFINE s == Stored(p, d)
<1>1. head \in Nat /\ front \in Nat /\ head <= front
  BY DEF IInv, Core, Bounds
<1>2. s.head = head
  BY <1>1 DEF Stored
<1>3. s.front = front
  BY <1>1 DEF Stored, Largest
<1>4. s.cells = [i \in Positions |-> cells[i]]
  BY DEF Stored
<1>5. s.cells = cells
  BY <1>4 DEF IInv, Core, InOrder
<1> QED BY <1>2, <1>3, <1>5

\* A packet that is refused changes nothing but the SACK.
LEMMA RefusedSound ==
    ASSUME IInv, NEW p
    PROVE  Sound(p, Refused, Stored(p, Refused))
<1> DEFINE d == Refused  s == Stored(p, Refused)
<1>1. d.offset = -1 /\ d.user = 0 /\ d.cur = cur /\ d.segs = segs /\ d.sack = <<>>
  BY DEF Refused
<1>2. s.head = head /\ s.front = front /\ s.cells = cells
  BY <1>1, StoredNothing
<1>3. SackHeld(d.sack, d.cur, d.segs, s.cells)
  BY <1>1 DEF SackHeld
<1>4. head <= s.head
  BY <1>2 DEF IInv, Core, Bounds
<1> HIDE DEF d, s
<1>5. Sound(p, d, s)
  BY <1>1, <1>2, <1>3, <1>4 DEF IInv, Core, Sound
<1> QED BY <1>5 DEF d, s

\* A segment ahead of what was received is recorded, and stored unless it was
\* before; the SACK reaches to the end of what follows it.
LEMMA AheadSound ==
    ASSUME PeerKeepsItsCuts, IInv, NEW p \in Packets, p.len > 0,
           p.seq # cur, EndOf(p) - cur \in 1..GetSpace
    PROVE  Sound(p, Ahead(p), Stored(p, Ahead(p)))
<1> DEFINE d == Ahead(p)  s == Stored(p, Ahead(p))
           known == p.seq \in DOMAIN segs
           end == ChainEnd(segs, EndOf(p))
<1>0. /\ head \in Nat /\ front \in Nat /\ taken \in Nat /\ head <= StreamLength
      /\ taken <= head /\ head <= front /\ front <= taken + RxStreamSize
      /\ p.seq \in 0..StreamLength /\ p.len \in 0..StreamLength /\ EndOf(p) = p.seq + p.len
      /\ EndOf(p) \in 0..StreamLength /\ RxStreamSize \in Nat /\ StreamLength \in Nat
  BY PacketTypes, SizesAssumption DEF IInv, Core, Bounds
<1>1. ~finAccepted /\ cur = head
  BY <1>0 DEF IInv, Core, Position, GetSpace
<1>2. head < p.seq /\ EndOf(p) <= head + GetSpace /\ GetSpace = RxStreamSize - (head - taken)
  <2>1. EndOf(p) <= cur \/ cur <= p.seq
    BY DEF IInv, Core, AtACut
  <2> QED BY <2>1, <1>0, <1>1 DEF GetSpace
<1>3. /\ d.cur = cur /\ d.user = 0 /\ d.sack = <<p.seq, end>>
      /\ d.offset = (IF known THEN -1 ELSE p.seq - cur)
      /\ d.segs = [x \in DOMAIN segs \cup {p.seq} |-> IF x \in DOMAIN segs THEN segs[x] ELSE p.len]
  BY DEF Ahead
<1>4. /\ DOMAIN d.segs = DOMAIN segs \cup {p.seq}
      /\ \A x \in DOMAIN segs : d.segs[x] = segs[x]
      /\ d.segs[p.seq] = p.len
  <2>1. known => segs[p.seq] = p.len
    BY RecordedApart DEF IInv, Core
  <2> HIDE DEF d
  <2> QED BY <1>3, <2>1
<1>5. /\ s.head = head
      /\ ~known => s.count = p.len
      /\ head <= s.front /\ front <= s.front /\ s.front \in Nat /\ s.front <= taken + RxStreamSize
      /\ EndOf(p) <= s.front
      /\ s.cells \in [Positions -> 0..StreamLength \cup {Stale}]
      /\ \A i \in Positions : s.cells[i] = IF p.seq <= i /\ i < EndOf(p) THEN i ELSE cells[i]
  <2>1. CASE known
    <3>1. d.offset = -1 /\ d.user = 0
      BY <1>3, <2>1
    <3>2. s.head = head /\ s.front = front /\ s.cells = cells
      <4> HIDE DEF d
      <4> QED BY <3>1, StoredNothing DEF d
    <3>3. segs[p.seq] = p.len
      BY <2>1, RecordedApart DEF IInv, Core
    <3>4. /\ p.seq + segs[p.seq] <= front
          /\ \A i \in p.seq..p.seq + segs[p.seq] - 1 : cells[i] = i
      BY <2>1 DEF IInv, Core, Recorded
    <3>5. cells \in [Positions -> 0..StreamLength \cup {Stale}]
      BY DEF IInv, Core, InOrder
    <3>6. \A i \in Positions : cells[i] = IF p.seq <= i /\ i < EndOf(p) THEN i ELSE cells[i]
      BY <3>3, <3>4, <1>0 DEF Positions
    <3> HIDE DEF s, d
    <3> QED BY <2>1, <3>2, <3>3, <3>4, <3>5, <3>6, <1>0
  <2>2. CASE ~known
    <3> DEFINE n == IF d.offset < 0 THEN 0 ELSE Fitting(p.len, Largest(GetSpace - d.offset, 0))
               from == head + d.offset
               available == IF d.offset = 0 THEN head + n ELSE head
               more == IF d.user = 0 THEN 0
                       ELSE Fitting(d.user, RxStreamSize - (available - taken))
    <3>1. d.offset = p.seq - head /\ d.offset > 0 /\ d.user = 0
      BY <1>3, <2>2, <1>0, <1>1, <1>2
    <3>2. n = p.len
      <4>1. GetSpace - d.offset >= p.len /\ GetSpace \in Int /\ d.offset \in Int
        BY <3>1, <1>0, <1>2
      <4> HIDE DEF d
      <4>2. Largest(GetSpace - d.offset, 0) = GetSpace - d.offset
        BY <4>1, <1>0 DEF Largest
      <4>3. ~(d.offset < 0)
        BY <3>1, <1>0
      <4> QED BY <4>1, <4>2, <4>3, <1>0 DEF Fitting, Least
    <3>3. from = p.seq /\ available = head /\ more = 0
      <4> HIDE DEF d
      <4> QED BY <3>1, <1>0
    <3>4. s = [count |-> n, head |-> available + more,
               front |-> Largest(front, Largest(available + more, IF n = 0 THEN 0 ELSE from + n)),
               cells |-> [i \in Positions |->
                  IF n > 0 /\ from <= i /\ i < from + n THEN p.seq + (i - from) ELSE cells[i]]]
      BY DEF Stored
    <3> HIDE DEF n, from, available, more, d, s
    <3>5. s.head = head /\ s.count = p.len
      BY <3>2, <3>3, <3>4, <1>0
    <3>6. s.front = Largest(front, Largest(head, EndOf(p)))
      BY <3>2, <3>3, <3>4, <1>0
    <3>7. s.cells = [i \in Positions |->
             IF p.seq <= i /\ i < EndOf(p) THEN i ELSE cells[i]]
      <4>1. s.cells = [i \in Positions |->
             IF n > 0 /\ from <= i /\ i < from + n THEN p.seq + (i - from) ELSE cells[i]]
        BY <3>4
      <4>2. \A i \in Positions :
               (IF n > 0 /\ from <= i /\ i < from + n THEN p.seq + (i - from) ELSE cells[i])
               = IF p.seq <= i /\ i < EndOf(p) THEN i ELSE cells[i]
        BY <3>2, <3>3, <1>0 DEF Positions
      <4> QED BY <4>1, <4>2
    <3>8. /\ head <= s.front /\ front <= s.front /\ s.front \in Nat
          /\ s.front <= taken + RxStreamSize /\ EndOf(p) <= s.front
      BY <3>6, <1>0, <1>2 DEF Largest
    <3>9. s.cells \in [Positions -> 0..StreamLength \cup {Stale}]
      <4>1. cells \in [Positions -> 0..StreamLength \cup {Stale}]
        BY DEF IInv, Core, InOrder
      <4>2. \A i \in Positions : (IF p.seq <= i /\ i < EndOf(p) THEN i ELSE cells[i])
                                 \in 0..StreamLength \cup {Stale}
        BY <4>1, <1>0 DEF Positions
      <4> QED BY <4>2, <3>7
    <3> QED BY <3>5, <3>7, <3>8, <3>9
  <2> QED BY <2>1, <2>2
<1> HIDE DEF d, s
<1>6. InOrder(s.head, s.cells)
  <2>1. \A i \in 0..head - 1 : cells[i] = i /\ i \in Positions
    BY <1>0 DEF IInv, Core, InOrder, Positions
  <2>2. \A i \in 0..head - 1 : s.cells[i] = i
    <3> SUFFICES ASSUME NEW i \in 0..head - 1 PROVE s.cells[i] = i
      OBVIOUS
    <3>1. cells[i] = i /\ i \in Positions
      BY <2>1
    <3> QED BY <3>1, <1>5
  <2>3. s.head = head /\ s.cells \in [Positions -> 0..StreamLength \cup {Stale}]
    BY <1>5
  <2> QED BY <2>2, <2>3 DEF InOrder
<1>7. Recorded(d.segs, d.cur, s.front, s.cells)
  <2>1. ASSUME NEW x \in DOMAIN d.segs
        PROVE  /\ d.cur < x /\ x + d.segs[x] <= s.front
               /\ \E q \in Packets : q.len > 0 /\ q.seq = x /\ q.len = d.segs[x]
               /\ \A i \in x..x + d.segs[x] - 1 : s.cells[i] = i
    <3>1. CASE x = p.seq
      <4>1. \A i \in p.seq..p.seq + p.len - 1 : i \in Positions
        BY <1>0 DEF Positions
      <4>2. \A i \in p.seq..p.seq + p.len - 1 : s.cells[i] = i
        BY <4>1, <1>0, <1>5
      <4> QED BY <3>1, <4>2, <1>0, <1>1, <1>2, <1>3, <1>4, <1>5
    <3>2. CASE x \in DOMAIN segs
      <4>1. /\ cur < x /\ x + segs[x] <= front
            /\ \E q \in Packets : q.len > 0 /\ q.seq = x /\ q.len = segs[x]
            /\ \A i \in x..x + segs[x] - 1 : cells[i] = i
        BY <3>2 DEF IInv, Core, Recorded
      <4>2. x \in 0..StreamLength /\ segs[x] \in 1..StreamLength /\ x + segs[x] <= StreamLength
        BY <3>2, RecordedApart DEF IInv, Core, Apart
      <4>3. \A i \in x..x + segs[x] - 1 : i \in Positions /\ i \in Int
        BY <4>2, <1>0 DEF Positions
      <4>4. \A i \in x..x + segs[x] - 1 : s.cells[i] = i
        BY <4>1, <4>3, <1>5
      <4>5. d.segs[x] = segs[x]
        BY <3>2, <1>4
      <4>6. x + segs[x] <= s.front
        BY <4>1, <4>2, <1>0, <1>5
      <4> QED BY <4>1, <4>4, <4>5, <4>6, <1>3
    <3> QED BY <3>1, <3>2, <1>4
  <2>2. DOMAIN d.segs \subseteq 0..StreamLength
    BY <1>0, <1>4 DEF IInv, Core, Recorded
  <2> QED BY <2>1, <2>2 DEF Recorded
<1>8. SackHeld(d.sack, d.cur, d.segs, s.cells)
  <2>0. Apart(segs)
    BY RecordedApart DEF IInv, Core
  <2>1. /\ end \in EndOf(p)..StreamLength
        /\ \A i \in EndOf(p)..end - 1 : \E w \in DOMAIN segs : w <= i /\ i < w + segs[w]
    BY <2>0, <1>0, EndOfChain
  <2>2. ASSUME NEW i \in p.seq..end - 1
        PROVE  (\E x \in DOMAIN d.segs : x <= i /\ i < x + d.segs[x]) /\ s.cells[i] = i
    <3>0. i \in Int /\ i \in Positions
      BY <2>1, <2>2, <1>0 DEF Positions
    <3>1. CASE i < EndOf(p)
      <4>1. p.seq <= i /\ i < p.seq + d.segs[p.seq]
        BY <3>1, <2>2, <1>0, <1>4
      <4> QED BY <4>1, <3>0, <3>1, <1>4, <1>5
    <3>2. CASE ~(i < EndOf(p))
      <4>1. i \in EndOf(p)..end - 1
        BY <3>2, <2>1, <2>2, <1>0
      <4>2. PICK w \in DOMAIN segs : w <= i /\ i < w + segs[w]
        BY <4>1, <2>1
      <4>3. cells[i] = i
        <5>1. i \in w..w + segs[w] - 1
          BY <4>2, <3>0, <2>0, SizesAssumption DEF Apart
        <5> QED BY <5>1 DEF IInv, Core, Recorded
      <4>4. s.cells[i] = i
        BY <3>0, <4>3, <1>5
      <4> QED BY <4>2, <4>4, <1>4
    <3> QED BY <3>1, <3>2
  <2>3. d.sack \in (0..StreamLength) \X (0..StreamLength) /\ d.sack[1] = p.seq /\ d.sack[2] = end
    BY <2>1, <1>0, <1>3
  <2> QED BY <2>2, <2>3 DEF SackHeld
<1>9. AtACut(d.cur) /\ Position(d.cur, s.head, finAccepted)
  <2>1. d.cur = cur /\ s.head = head
    BY <1>3, <1>5
  <2>2. AtACut(cur) /\ Position(cur, head, finAccepted)
    BY DEF IInv, Core
  <2> QED BY <2>1, <2>2 DEF AtACut, Position
<1>10. d.offset \in Int /\ (d.offset >= 0 => s.count = p.len)
  <2>1. CASE known
    <3>1. d.offset = -1
      BY <2>1, <1>3
    <3> QED BY <3>1
  <2>2. CASE ~known
    <3>1. d.offset = p.seq - cur /\ s.count = p.len
      BY <2>2, <1>3, <1>5
    <3> QED BY <3>1, <1>0, <1>1
  <2> QED BY <2>1, <2>2
<1>11. Bounds(s.head, s.front, taken) /\ head <= s.head
  <2>1. s.head = head /\ s.front \in Nat /\ head <= s.front /\ s.front <= taken + RxStreamSize
    BY <1>5
  <2> QED BY <2>1, <1>0 DEF Bounds
<1>12. Sound(p, d, s)
  BY <1>6, <1>7, <1>8, <1>9, <1>10, <1>11 DEF Sound
<1> QED BY <1>12 DEF d, s

\* The segment that was expected is passed on with all that follows it, and
\* what stays behind lies ahead.
LEMMA ExpectedSound ==
    ASSUME PeerKeepsItsCuts, IInv, NEW p \in Packets, p.len > 0,
           p.seq = cur, p.len <= GetSpace
    PROVE  Sound(p, Expected(p), Stored(p, Expected(p)))
<1> DEFINE d == Expected(p)  s == Stored(p, Expected(p))
           left == Without(segs, Confirmed(p))
           end == ChainEnd(left, EndOf(p))
<1>0. /\ head \in Nat /\ front \in Nat /\ taken \in Nat /\ head <= StreamLength
      /\ taken <= head /\ head <= front /\ front <= taken + RxStreamSize
      /\ p.seq \in 0..StreamLength /\ p.len \in 0..StreamLength /\ EndOf(p) = p.seq + p.len
      /\ EndOf(p) \in 0..StreamLength /\ RxStreamSize \in Nat /\ StreamLength \in Nat
  BY PacketTypes, SizesAssumption DEF IInv, Core, Bounds
<1>1. ~finAccepted /\ cur = head /\ p.seq = head
  BY <1>0 DEF IInv, Core, Position
<1>2. EndOf(p) <= head + GetSpace /\ GetSpace = RxStreamSize - (head - taken)
  BY <1>0, <1>1 DEF GetSpace
<1>3. Recorded(segs, cur, front, cells) /\ InOrder(head, cells)
  BY DEF IInv, Core
<1>4. \A x \in DOMAIN segs : EndOf(p) <= x
  <2>1. \A x \in DOMAIN segs : cur < x
    BY <1>3 DEF Recorded
  <2> QED BY <2>1, <1>3, RecordedApart
<1>5. Confirmed(p) = {}
  <2>1. \A x \in DOMAIN segs : x \in 0..StreamLength
    BY <1>3 DEF Recorded
  <2>2. \A x \in DOMAIN segs : ~(x < EndOf(p))
    BY <2>1, <1>4, <1>0
  <2> QED BY <2>2 DEF Confirmed
<1>6. DOMAIN left = DOMAIN segs /\ \A x \in DOMAIN segs : left[x] = segs[x]
  BY <1>5 DEF Without
<1>7. /\ d.offset = 0 /\ d.cur = end /\ d.sack = <<>> /\ d.user = end - EndOf(p)
      /\ d.segs = Without(left, Chain(left, EndOf(p)))
  BY <1>5 DEF Expected
<1> HIDE DEF left
<1>8. Recorded(left, cur, front, cells)
  BY <1>3, <1>6 DEF Recorded
<1>9. Apart(left)
  BY <1>8, RecordedApart
<1>10. /\ end \in EndOf(p)..StreamLength
       /\ end = EndOf(p) \/ \E z \in DOMAIN left : end = z + left[z]
       /\ \A i \in EndOf(p)..end - 1 : \E w \in DOMAIN left : w <= i /\ i < w + left[w]
       /\ \A y \in DOMAIN left \ Chain(left, EndOf(p)) : EndOf(p) <= y => end < y
  BY <1>9, <1>0, EndOfChain
<1>11. end \in Nat /\ end <= taken + RxStreamSize
  <2>1. CASE end = EndOf(p)
    BY <2>1, <1>0, <1>2
  <2>2. CASE \E z \in DOMAIN left : end = z + left[z]
    <3>1. PICK z \in DOMAIN left : end = z + left[z]
      BY <2>2
    <3>2. z + left[z] <= front
      BY <1>8 DEF Recorded
    <3> QED BY <3>1, <3>2, <1>0, <1>10
  <2> QED BY <2>1, <2>2, <1>10
<1>12. AtACut(end)
  <2>1. CASE end = EndOf(p)
    BY <2>1, EndsAreCuts
  <2>2. CASE \E z \in DOMAIN left : end = z + left[z]
    <3>1. PICK z \in DOMAIN left : end = z + left[z]
      BY <2>2
    <3>2. PICK q \in Packets : q.len > 0 /\ q.seq = z /\ q.len = left[z]
      BY <1>8 DEF Recorded
    <3>3. end = EndOf(q)
      BY <3>1, <3>2 DEF EndOf
    <3> QED BY <3>2, <3>3, EndsAreCuts
  <2> QED BY <2>1, <2>2, <1>10
<1> HIDE DEF end
<1>13. /\ s.count = p.len /\ s.head = end
       /\ end <= s.front /\ front <= s.front /\ s.front \in Nat /\ s.front <= taken + RxStreamSize
       /\ s.cells = [i \in Positions |-> IF p.seq <= i /\ i < EndOf(p) THEN i ELSE cells[i]]
  <2> DEFINE n == IF d.offset < 0 THEN 0 ELSE Fitting(p.len, Largest(GetSpace - d.offset, 0))
             from == head + d.offset
             available == IF d.offset = 0 THEN head + n ELSE head
             more == IF d.user = 0 THEN 0
                     ELSE Fitting(d.user, RxStreamSize - (available - taken))
  <2>1. s = [count |-> n, head |-> available + more,
             front |-> Largest(front, Largest(available + more, IF n = 0 THEN 0 ELSE from + n)),
             cells |-> [i \in Positions |->
                IF n > 0 /\ from <= i /\ i < from + n THEN p.seq + (i - from) ELSE cells[i]]]
    BY DEF Stored
  <2>2. n = p.len
    <3> HIDE DEF d
    <3>1. GetSpace \in Nat /\ p.len <= GetSpace /\ ~(d.offset < 0) /\ GetSpace - d.offset = GetSpace
      BY <1>0, <1>2, <1>7
    <3>2. Largest(GetSpace - d.offset, 0) = GetSpace
      BY <3>1 DEF Largest
    <3> QED BY <3>1, <3>2, <1>0 DEF Fitting, Least
  <2>3. from = p.seq /\ available = EndOf(p)
    <3> HIDE DEF n, d
    <3> QED BY <2>2, <1>0, <1>1, <1>7
  <2>4. available + more = end
    <3> HIDE DEF n, d, available
    <3>1. d.user = end - EndOf(p) /\ d.user \in Nat
      BY <1>0, <1>7, <1>10
    <3>2. CASE d.user = 0
      BY <3>1, <3>2, <2>3, <1>0, <1>11
    <3>3. CASE d.user # 0
      <4>1. d.user <= RxStreamSize - (available - taken)
        BY <3>1, <2>3, <1>0, <1>11
      <4>2. more = d.user
        BY <4>1, <3>1, <3>3, <2>3, <1>0 DEF Fitting, Least
      <4> QED BY <4>2, <3>1, <2>3, <1>0, <1>11
    <3> QED BY <3>2, <3>3
  <2> HIDE DEF n, from, available, more, d, s
  <2>5. s.count = p.len /\ s.head = end
    BY <2>1, <2>2, <2>4
  <2>6. s.front = Largest(front, Largest(end, EndOf(p)))
    BY <2>1, <2>2, <2>3, <2>4, <1>0
  <2>7. end <= s.front /\ front <= s.front /\ s.front \in Nat /\ s.front <= taken + RxStreamSize
    BY <2>6, <1>0, <1>10, <1>11 DEF Largest
  <2>8. s.cells = [i \in Positions |->
             IF n > 0 /\ from <= i /\ i < from + n THEN p.seq + (i - from) ELSE cells[i]]
    BY <2>1
  <2>9. \A i \in Positions :
            (IF n > 0 /\ from <= i /\ i < from + n THEN p.seq + (i - from) ELSE cells[i])
            = IF p.seq <= i /\ i < EndOf(p) THEN i ELSE cells[i]
    BY <2>2, <2>3, <1>0 DEF Positions
  <2> QED BY <2>5, <2>7, <2>8, <2>9
<1> HIDE DEF d, s
<1>14. \A i \in Positions : s.cells[i] = IF p.seq <= i /\ i < EndOf(p) THEN i ELSE cells[i]
  BY <1>13
<1>15. InOrder(s.head, s.cells)
  <2>1. s.cells \in [Positions -> 0..StreamLength \cup {Stale}]
    <3>1. cells \in [Positions -> 0..StreamLength \cup {Stale}]
      BY <1>3 DEF InOrder
    <3>2. \A i \in Positions : (IF p.seq <= i /\ i < EndOf(p) THEN i ELSE cells[i])
                               \in 0..StreamLength \cup {Stale}
      BY <3>1, <1>0 DEF Positions
    <3> QED BY <3>2, <1>13
  <2>2. ASSUME NEW i \in 0..end - 1 PROVE s.cells[i] = i
    <3>0. i \in Positions /\ i \in Int
      BY <1>0, <1>10 DEF Positions
    <3>1. CASE i < head
      <4>1. cells[i] = i
        BY <3>1, <1>3, <1>0 DEF InOrder
      <4> QED BY <4>1, <3>0, <1>14
    <3>2. CASE head <= i /\ i < EndOf(p)
      BY <3>2, <3>0, <1>1, <1>14
    <3>3. CASE EndOf(p) <= i
      <4>1. i \in EndOf(p)..end - 1
        BY <3>3, <1>0, <1>10
      <4>2. PICK w \in DOMAIN left : w <= i /\ i < w + left[w]
        BY <4>1, <1>10
      <4>3. i \in w..w + left[w] - 1
        BY <4>2, <3>0, <1>9, <1>0 DEF Apart
      <4>4. cells[i] = i
        BY <4>3, <1>8 DEF Recorded
      <4> QED BY <4>4, <3>0, <1>14
    <3> QED BY <3>1, <3>2, <3>3, <3>0, <1>0
  <2> QED BY <2>1, <2>2, <1>13 DEF InOrder
<1>16. Recorded(d.segs, d.cur, s.front, s.cells)
  <2>1. /\ DOMAIN d.segs = DOMAIN left \ Chain(left, EndOf(p))
        /\ \A x \in DOMAIN d.segs : d.segs[x] = left[x]
    BY <1>7 DEF Without
  <2>2. ASSUME NEW x \in DOMAIN d.segs
        PROVE  /\ d.cur < x /\ x + d.segs[x] <= s.front
               /\ \E q \in Packets : q.len > 0 /\ q.seq = x /\ q.len = d.segs[x]
               /\ \A i \in x..x + d.segs[x] - 1 : s.cells[i] = i
    <3>1. x \in DOMAIN left /\ x \notin Chain(left, EndOf(p)) /\ d.segs[x] = left[x]
      BY <2>1
    <3>2. /\ x + left[x] <= front
          /\ \E q \in Packets : q.len > 0 /\ q.seq = x /\ q.len = left[x]
          /\ \A i \in x..x + left[x] - 1 : cells[i] = i
      BY <3>1, <1>8 DEF Recorded
    <3>3. x \in 0..StreamLength /\ left[x] \in 1..StreamLength /\ x + left[x] <= StreamLength
      BY <3>1, <1>9 DEF Apart
    <3>4. EndOf(p) <= x
      BY <3>1, <1>4, <1>6
    <3>5. d.cur < x
      BY <3>1, <3>4, <1>7, <1>10
    <3>6. \A i \in x..x + left[x] - 1 : i \in Positions /\ i \in Int
      BY <3>3, <1>0 DEF Positions
    <3>7. \A i \in x..x + left[x] - 1 : s.cells[i] = i
      BY <3>2, <3>6, <1>14
    <3>8. x + left[x] <= s.front
      BY <3>2, <3>3, <1>0, <1>13
    <3> QED BY <3>1, <3>2, <3>5, <3>7, <3>8
  <2>3. DOMAIN d.segs \subseteq 0..StreamLength
    BY <2>1, <1>9 DEF Apart
  <2> QED BY <2>2, <2>3 DEF Recorded
<1>17. SackHeld(d.sack, d.cur, d.segs, s.cells)
  BY <1>7 DEF SackHeld
<1>18. AtACut(d.cur) /\ Position(d.cur, s.head, finAccepted)
  BY <1>1, <1>7, <1>12, <1>13 DEF Position
<1>19. Bounds(s.head, s.front, taken) /\ head <= s.head
  BY <1>0, <1>1, <1>10, <1>13 DEF Bounds
<1>20. d.offset \in Int /\ (d.offset >= 0 => s.count = p.len)
  BY <1>7, <1>13
<1>21. Sound(p, d, s)
  BY <1>15, <1>16, <1>17, <1>18, <1>19, <1>20 DEF Sound
<1> QED BY <1>21 DEF d, s

LEMMA ReceiveSound ==
    ASSUME PeerKeepsItsCuts, IInv, NEW p, MayArrive(p), NEW room \in BOOLEAN,
           NEW d, d = IF p.len = 0 THEN Refused ELSE RxCheck(p, GetSpace, room)
    PROVE  Sound(p, d, Stored(p, d))
<1>1. CASE d = Refused
  BY <1>1, RefusedSound
<1>2. CASE d # Refused
  <2>1. p.len # 0 /\ d = RxCheck(p, GetSpace, room)
    BY <1>2
  <2>2. p \in Packets
    BY <2>1 DEF MayArrive
  <2>3. p.len > 0
    BY <2>1, <2>2, PacketTypes
  <2>4. CASE p.seq = cur /\ p.len <= GetSpace
    <3>1. d = Expected(p)
      <4>1. ~(p.seq # cur)
        BY <2>4
      <4> QED BY <2>1, <2>4, <4>1 DEF RxCheck
    <3> QED BY <2>2, <2>3, <2>4, <3>1, ExpectedSound
  <2>5. CASE p.seq # cur /\ EndOf(p) - cur \in 1..GetSpace
    <3>1. d = Ahead(p)
      <4>1. ~(p.seq = cur /\ p.len <= GetSpace)
        BY <2>5
      <4> QED BY <1>2, <2>1, <4>1 DEF RxCheck
    <3> QED BY <2>2, <2>3, <2>5, <3>1, AheadSound
  <2>6. CASE ~(p.seq = cur /\ p.len <= GetSpace) /\ ~(p.seq # cur /\ EndOf(p) - cur \in 1..GetSpace)
    <3>1. d = Refused
      BY <2>1, <2>6 DEF RxCheck
    <3> QED BY <1>2, <3>1
  <2> QED BY <2>4, <2>5, <2>6
<1> QED BY <1>1, <1>2

----------------------------------------------------------------------------
(* Each action keeps the invariant *)

LEMMA IntegerTypes ==
    ASSUME IInv
    PROVE  /\ cur \in 0..StreamLength + 1 /\ head \in Nat /\ front \in Nat /\ taken \in Nat
           /\ taken <= head /\ head <= front /\ front <= taken + RxStreamSize
           /\ head <= StreamLength
           /\ highest \in 0..StreamLength /\ heard.ack \in 0..StreamLength + 1
           /\ told.edge \in Nat /\ rxWin \in Nat
<1>1. cur = StreamLength + 1 \/ cur = head
  BY DEF IInv, Core, Position
<1>2. told.edge \in Nat /\ heard.ack \in 0..StreamLength + 1
  BY DEF IInv, Counters
<1> QED BY <1>1, <1>2, SizesAssumption DEF IInv, Core, Counters, Bounds

\* Sizes that are advertised are not negative.
LEMMA AdvertisedIsNumber ==
    ASSUME NEW f \in Nat, taken \in Nat, f <= taken + RxStreamSize, NEW size \in Nat, NEW low \in BOOLEAN
    PROVE  Advertised(size, f, low) \in Nat
BY SizesAssumption DEF Advertised, Least, FrontSpace

LEMMA CurWinSizeIsNumber ==
    ASSUME NEW f \in Nat, taken \in Nat, f <= taken + RxStreamSize, NEW c \in Int, NEW high \in Int
    PROVE  CurWinSize(c, high, f) \in Nat
BY SizesAssumption DEF CurWinSize, Least, FrontSpace

LEMMA HandleKeeps ==
    ASSUME IInv, NEW p, MayArrive(p), NEW d, NEW s, Sound(p, d, s), Handle(p, d, s)
    PROVE  IInv' /\ head <= head' /\ (finAccepted => finAccepted')
<1>0. StreamLength \in Nat /\ RxStreamSize \in Nat
  BY SizesAssumption
<1>1. /\ head' = s.head /\ front' = s.front /\ cells' = s.cells /\ segs' = d.segs
      /\ sack' = d.sack /\ taken' = taken /\ heard' = heard /\ reach' = reach
      /\ highest' = Largest(highest, EndOf(p))
  BY DEF Handle, peer
<1>2. ~reset' /\ reset' \in BOOLEAN
  BY DEF Handle, Sound
<1> DEFINE high == Largest(highest, EndOf(p))
           low == lowWater \/ (d.offset = 0 /\ FrontSpace(s.front) <= Little)
           change == winChange \/ cur = p.seq + 1 \/ low # lowWater
           close == MayClose(p, d, high)
           answers == close \/ p.len > 0 \/ change
<1>3. /\ finAccepted' = close
      /\ cur' = IF close /\ p.fin THEN EndOf(p) + 1 ELSE d.cur
      /\ rxWin' = IF answers THEN CurWinSize(cur', high, s.front) ELSE rxWin
      /\ \/ /\ ~answers
            /\ UNCHANGED <<winChange, ackDue, told>>
         \/ /\ answers /\ ~close /\ Delayed(p, cur')
            /\ ackDue' = TRUE
            /\ winChange' = change
            /\ UNCHANGED told
         \/ /\ answers /\ (close \/ ~Delayed(p, cur'))
            /\ ackDue' = FALSE
            /\ winChange' = FALSE
            /\ told' = [ack |-> cur', edge |-> cur' + Advertised(rxWin', s.front, low)]
      /\ lowWater' = low
  BY <1>2 DEF Handle
<1>4. lowWater \in BOOLEAN /\ winChange \in BOOLEAN /\ ackDue \in BOOLEAN /\ finAccepted \in BOOLEAN
  BY DEF IInv, Flags
<1>5. low \in BOOLEAN /\ change \in BOOLEAN /\ close \in BOOLEAN
  BY <1>4 DEF MayClose
<1> HIDE DEF low, change, answers
<1>6. /\ winChange' \in BOOLEAN /\ ackDue' \in BOOLEAN /\ lowWater' \in BOOLEAN
      /\ told' = told \/ told' = [ack |-> cur', edge |-> cur' + Advertised(rxWin', s.front, low)]
  <2>1. CASE ~answers /\ UNCHANGED <<winChange, ackDue, told>>
    BY <2>1, <1>3, <1>4, <1>5
  <2>2. CASE answers /\ ~close /\ Delayed(p, cur') /\ ackDue' = TRUE /\ winChange' = change
             /\ UNCHANGED told
    BY <2>2, <1>3, <1>5
  <2>3. CASE answers /\ (close \/ ~Delayed(p, cur')) /\ ackDue' = FALSE /\ winChange' = FALSE
             /\ told' = [ack |-> cur', edge |-> cur' + Advertised(rxWin', s.front, low)]
    BY <2>3, <1>3, <1>5
  <2> QED BY <2>1, <2>2, <2>3, <1>3
<1>7. /\ p.fin \in BOOLEAN /\ EndOf(p) \in -1..StreamLength
      /\ p.fin => p \in Packets /\ EndOf(p) = StreamLength
  <2>1. CASE p \in Packets
    BY <2>1, <1>0, PacketTypes
  <2>2. CASE p = [seq |-> heard.ack - 1, len |-> 0, fin |-> FALSE]
    BY <2>2, <1>0, IntegerTypes DEF EndOf
  <2> QED BY <2>1, <2>2 DEF MayArrive
<1>8. high \in 0..StreamLength /\ EndOf(p) <= high
  BY <1>7, <1>0, IntegerTypes DEF Largest
<1>9. Bounds(head', front', taken') /\ InOrder(head', cells') /\ head <= head'
  BY <1>1 DEF Sound
<1>10. /\ Position(d.cur, head', finAccepted) /\ AtACut(d.cur)
       /\ Recorded(d.segs, d.cur, front', cells') /\ SackHeld(d.sack, d.cur, d.segs, cells')
  BY <1>1 DEF Sound
<1>11. /\ Position(cur', head', finAccepted') /\ AtACut(cur')
       /\ Recorded(segs', cur', front', cells') /\ SackHeld(sack', cur', segs', cells')
  <2>1. CASE close /\ p.fin
    <3>1. cur' = StreamLength + 1 /\ finAccepted'
      BY <2>1, <1>3, <1>7
    <3>2. head' = StreamLength /\ (finAccepted => d.cur = StreamLength + 1)
          /\ (~finAccepted => DOMAIN d.segs = {} /\ d.cur = StreamLength)
      <4>1. CASE finAccepted
        BY <4>1, <1>10 DEF Position
      <4>2. CASE ~finAccepted
        <5>1. DOMAIN d.segs = {} /\ d.cur >= high
          BY <4>2, <2>1 DEF MayClose
        <5>2. d.cur = head'
          BY <4>2, <1>10 DEF Position
        <5>3. head' \in Nat /\ head' <= StreamLength
          BY <1>9 DEF Bounds
        <5> QED BY <4>2, <5>1, <5>2, <5>3, <1>0, <1>7, <1>8, <2>1
      <4> QED BY <4>1, <4>2
    <3>3. Position(cur', head', finAccepted')
      BY <3>1, <3>2 DEF Position
    <3>4. AtACut(cur')
      BY <3>1, <1>0, PacketTypes DEF AtACut
    <3>5. Recorded(segs', cur', front', cells')
      <4>1. CASE finAccepted
        BY <4>1, <3>1, <3>2, <1>1, <1>10
      <4>2. CASE ~finAccepted
        BY <4>2, <3>2, <1>1 DEF Recorded
      <4> QED BY <4>1, <4>2
    <3>6. SackHeld(sack', cur', segs', cells')
      <4>1. d.cur <= cur' /\ d.cur \in Int /\ cur' \in Int
        BY <3>1, <3>2, <1>0, <1>4
      <4>2. ASSUME d.sack \in (0..StreamLength) \X (0..StreamLength),
                   NEW i \in d.sack[1]..d.sack[2] - 1, i < d.cur
            PROVE  i < cur'
        <5>1. i \in Int
          BY <4>2
        <5> QED BY <4>1, <4>2, <5>1
      <4> QED BY <4>2, <1>1, <1>10 DEF SackHeld
    <3> QED BY <3>3, <3>4, <3>5, <3>6
  <2>2. CASE close /\ ~p.fin
    <3>1. finAccepted /\ finAccepted' /\ cur' = d.cur
      BY <2>2, <1>3 DEF MayClose
    <3> QED BY <3>1, <1>1, <1>10 DEF Position
  <2>3. CASE ~close
    <3>1. ~finAccepted /\ ~finAccepted' /\ cur' = d.cur
      BY <2>3, <1>3 DEF MayClose
    <3> QED BY <3>1, <1>1, <1>10 DEF Position
  <2> QED BY <2>1, <2>2, <2>3
<1>12. cur' \in 0..StreamLength + 1
  BY <1>9, <1>11, <1>0 DEF Position, Bounds
<1>13. rxWin' \in Nat /\ Advertised(rxWin', s.front, low) \in Nat
  <2>1. s.front \in Nat /\ taken \in Nat /\ s.front <= taken + RxStreamSize
    BY <1>1, <1>9 DEF Bounds
  <2>2. CurWinSize(cur', high, s.front) \in Nat
    <3>1. high \in Int /\ cur' \in Int
      BY <1>8, <1>12, <1>0
    <3> HIDE DEF high
    <3> QED BY <2>1, <3>1, CurWinSizeIsNumber
  <2>3. rxWin' \in Nat
    BY <2>2, <1>3, IntegerTypes
  <2> QED BY <2>1, <2>3, <1>5, AdvertisedIsNumber
<1>14. Counters'
  <2>1. told' \in [ack : 0..StreamLength + 1, edge : Nat]
    <3>1. told \in [ack : 0..StreamLength + 1, edge : Nat]
      BY DEF IInv, Counters
    <3>2. cur' + Advertised(rxWin', s.front, low) \in Nat
      BY <1>12, <1>13, <1>0
    <3> QED BY <3>1, <3>2, <1>6, <1>12
  <2> QED BY <2>1, <1>1, <1>8, <1>13 DEF IInv, Counters
<1>15. Flags'
  BY <1>3, <1>5, <1>6 DEF Flags
<1>16. finAccepted => finAccepted'
  BY <1>3 DEF MayClose
<1> QED BY <1>2, <1>9, <1>11, <1>14, <1>15, <1>16 DEF IInv, Core

LEMMA ArrivesKeeps ==
    ASSUME PeerKeepsItsCuts, IInv, (\E p \in Packets : Arrives(p)) \/ Probe
    PROVE  IInv' /\ head <= head' /\ (finAccepted => finAccepted')
<1>2. ASSUME NEW p, MayArrive(p), NEW room \in BOOLEAN, Receive(p, room)
      PROVE  IInv' /\ head <= head' /\ (finAccepted => finAccepted')
  <2> DEFINE d == IF p.len = 0 THEN Refused ELSE RxCheck(p, GetSpace, room)
  <2>1. Handle(p, d, Stored(p, d))
    BY <1>2 DEF Receive
  <2>2. Sound(p, d, Stored(p, d))
    BY <1>2, ReceiveSound
  <2> HIDE DEF d
  <2> QED BY <1>2, <2>1, <2>2, HandleKeeps
<1>3. CASE \E p \in Packets : Arrives(p)
  <2>1. PICK p \in Packets, room \in BOOLEAN : Receive(p, room)
    BY <1>3 DEF Arrives
  <2> QED BY <2>1, <1>2 DEF MayArrive
<1>4. CASE Probe
  <2>1. Receive([seq |-> heard.ack - 1, len |-> 0, fin |-> FALSE], FALSE)
    BY <1>4 DEF Probe
  <2>2. MayArrive([seq |-> heard.ack - 1, len |-> 0, fin |-> FALSE])
    BY DEF MayArrive
  <2> QED BY <2>1, <2>2, <1>2
<1> QED BY <1>3, <1>4

\* The actions that store nothing.
LEMMA OthersKeep ==
    ASSUME IInv, SocketCheck \/ Reads \/ PeerSends \/ PeerHears
    PROVE  IInv' /\ UNCHANGED <<head, cells, finAccepted>>
<1>0. /\ Core /\ Flags /\ Counters /\ ~reset /\ reset \in BOOLEAN
      /\ StreamLength \in Nat /\ RxStreamSize \in Nat
  BY SizesAssumption DEF IInv
<1>1. CASE SocketCheck
  <2>1. /\ UNCHANGED <<cur, highest, segs, sack, head, front, cells, heard, reach, rxWin, taken,
                       lowWater, finAccepted, reset>>
        /\ ackDue' = FALSE /\ winChange' = FALSE
        /\ told' = [ack |-> cur, edge |-> cur + Advertised(rxWin, front, lowWater)]
    BY <1>1 DEF SocketCheck, window, stream, peer
  <2>2. Advertised(rxWin, front, lowWater) \in Nat
    <3>1. lowWater \in BOOLEAN
      BY <1>0 DEF Flags
    <3> QED BY <3>1, IntegerTypes, AdvertisedIsNumber
  <2>3. told' \in [ack : 0..StreamLength + 1, edge : Nat]
    BY <2>1, <2>2, <1>0, IntegerTypes
  <2>4. Core'
    BY <2>1, <1>0 DEF Core
  <2>5. Flags' /\ Counters'
    BY <2>1, <2>3, <1>0 DEF Flags, Counters
  <2> QED BY <2>1, <2>4, <2>5, <1>0 DEF IInv
<1>2. CASE Reads
  <2>1. PICK n \in 1..RxStreamSize : Recv(n)
    BY <1>2 DEF Reads
  <2>2. /\ UNCHANGED <<cur, highest, segs, sack, head, front, cells, heard, reach, rxWin, ackDue,
                       told, finAccepted, reset>>
        /\ n <= head - taken /\ taken' = taken + n
        /\ lowWater' \in BOOLEAN /\ winChange' \in BOOLEAN
    BY <2>1, <1>0 DEF Recv, window, stream, reply, peer, Flags
  <2>3. Bounds(head', front', taken')
    BY <2>2, <1>0 DEF Core, Bounds
  <2>4. Core'
    BY <2>2, <2>3, <1>0 DEF Core
  <2>5. Flags' /\ Counters'
    BY <2>2, <1>0 DEF Flags, Counters
  <2> QED BY <2>2, <2>4, <2>5, <1>0 DEF IInv
<1>3. CASE PeerSends
  <2>1. UNCHANGED <<cur, highest, segs, sack, head, front, cells, heard, rxWin, ackDue, told, taken,
                    lowWater, winChange, finAccepted, reset>>
    BY <1>3 DEF PeerSends, window, stream, reply
  <2>2. reach' \in 0..StreamLength
    BY <1>3, PacketTypes DEF PeerSends
  <2>3. Core'
    BY <2>1, <1>0 DEF Core
  <2>4. Flags' /\ Counters'
    BY <2>1, <2>2, <1>0 DEF Flags, Counters
  <2> QED BY <2>1, <2>3, <2>4, <1>0 DEF IInv
<1>4. CASE PeerHears
  <2>1. /\ UNCHANGED <<cur, highest, segs, sack, head, front, cells, reach, rxWin, ackDue, told,
                       taken, lowWater, winChange, finAccepted, reset>>
        /\ heard' = told
    BY <1>4 DEF PeerHears, window, stream, reply
  <2>2. Core'
    BY <2>1, <1>0 DEF Core
  <2>3. Flags' /\ Counters'
    BY <2>1, <1>0 DEF Flags, Counters
  <2> QED BY <2>1, <2>2, <2>3, <1>0 DEF IInv
<1> QED BY <1>1, <1>2, <1>3, <1>4

LEMMA InitKeeps == Init => IInv
<1> SUFFICES ASSUME Init PROVE IInv
  OBVIOUS
<1>1. /\ cur = 0 /\ highest = 0 /\ DOMAIN segs = {} /\ sack = <<>> /\ head = 0 /\ front = 0
      /\ taken = 0 /\ cells = [i \in Positions |-> Stale] /\ ~lowWater /\ ~winChange
      /\ ~ackDue /\ ~finAccepted /\ ~reset /\ reach = 0
      /\ rxWin = Least(RxStreamSize, RxWindow)
      /\ told = [ack |-> 0, edge |-> Advertised(rxWin, 0, FALSE)] /\ heard = told
      /\ lowWater \in BOOLEAN /\ winChange \in BOOLEAN /\ ackDue \in BOOLEAN
      /\ finAccepted \in BOOLEAN /\ reset \in BOOLEAN
  BY DEF Init
<1>2. StreamLength \in Nat /\ RxStreamSize \in Nat
  BY SizesAssumption
<1>3. rxWin \in Nat
  BY <1>1, SizesAssumption DEF Least
<1>4. Advertised(rxWin, 0, FALSE) \in Nat
  <2>1. taken \in Nat /\ 0 <= taken + RxStreamSize
    BY <1>1, <1>2
  <2> QED BY <2>1, <1>3, AdvertisedIsNumber
<1>5. told \in [ack : 0..StreamLength + 1, edge : Nat] /\ heard \in [ack : 0..StreamLength + 1, edge : Nat]
  <2>1. told = [ack |-> 0, edge |-> Advertised(rxWin, 0, FALSE)] /\ heard = told
    BY <1>1
  <2>2. 0 \in 0..StreamLength + 1
    BY <1>2
  <2> QED BY <2>1, <2>2, <1>4
<1>6. Bounds(head, front, taken) /\ InOrder(head, cells) /\ Position(cur, head, finAccepted)
  BY <1>1, <1>2 DEF Bounds, InOrder, Position
<1>7. AtACut(cur)
  BY <1>1, PacketTypes DEF AtACut
<1>8. Recorded(segs, cur, front, cells) /\ SackHeld(sack, cur, segs, cells)
  BY <1>1 DEF Recorded, SackHeld
<1>9. Core
  BY <1>6, <1>7, <1>8 DEF Core
<1>10. Flags /\ Counters
  <2>1. highest \in 0..StreamLength /\ reach \in 0..StreamLength
    BY <1>1, <1>2
  <2> QED BY <2>1, <1>1, <1>3, <1>5 DEF Flags, Counters
<1> QED BY <1>1, <1>9, <1>10 DEF IInv

LEMMA NextKeeps ==
    ASSUME PeerKeepsItsCuts, IInv, [Next]_vars
    PROVE  IInv' /\ head <= head' /\ (finAccepted => finAccepted')
<1>1. CASE (\E p \in Packets : Arrives(p)) \/ Probe
  BY <1>1, ArrivesKeeps
<1>2. CASE SocketCheck \/ Reads \/ PeerSends \/ PeerHears
  BY <1>2, OthersKeep, IntegerTypes
<1>3. CASE UNCHANGED vars
  <2>1. UNCHANGED <<cur, highest, segs, sack, head, front, cells, heard, reach, rxWin, ackDue, told,
                    taken, lowWater, winChange, finAccepted, reset>>
    BY <1>3 DEF vars, window, stream, reply, peer
  <2>2. Core' /\ Flags' /\ Counters'
    BY <2>1 DEF IInv, Core, Flags, Counters
  <2> QED BY <2>1, <2>2, IntegerTypes DEF IInv
<1> QED BY <1>1, <1>2, <1>3 DEF Next

----------------------------------------------------------------------------
(* The theorems *)

THEOREM Inductive == ASSUME PeerKeepsItsCuts PROVE Spec => []IInv
<1>1. IInv /\ [Next]_vars => IInv'
  BY NextKeeps
<1> QED BY InitKeeps, <1>1, PTL DEF Spec

\* Every variable keeps its type, and rxStream its bounds.
THEOREM TypeCorrect == ASSUME PeerKeepsItsCuts PROVE Spec => []TypeOK
<1>1. IInv => TypeOK
  <2> SUFFICES ASSUME IInv PROVE TypeOK
    OBVIOUS
  <2>1. Apart(segs)
    BY RecordedApart DEF IInv, Core
  <2>2. sack \in {<<>>} \cup (0..StreamLength) \X (0..StreamLength)
    BY DEF IInv, Core, SackHeld
  <2>3. cells \in [Positions -> 0..StreamLength \cup {Stale}]
    BY DEF IInv, Core, InOrder
  <2>4. {lowWater, winChange, ackDue, finAccepted, reset} \subseteq BOOLEAN
    BY DEF IInv, Flags
  <2>5. {told, heard} \subseteq [ack : 0..StreamLength + 1, edge : Nat] /\ reach \in 0..StreamLength
    BY DEF IInv, Counters
  <2>6. DOMAIN segs \subseteq 0..StreamLength /\ \A x \in DOMAIN segs : segs[x] \in 1..StreamLength
    BY <2>1 DEF Apart
  <2> QED BY <2>2, <2>3, <2>4, <2>5, <2>6, IntegerTypes DEF TypeOK
<1> QED BY Inductive, <1>1, PTL

\* What the user can read is what the peer sent, in its order.
THEOREM InOrderForTheUser == ASSUME PeerKeepsItsCuts PROVE Spec => []UserSeesPeersBytes
<1>1. IInv => UserSeesPeersBytes
  BY IntegerTypes, SizesAssumption DEF IInv, Core, InOrder, UserSeesPeersBytes
<1> QED BY Inductive, <1>1, PTL

\* A SACK names bytes that are held, and nothing stays behind in xRxSegments.
THEOREM HonestReassembly == ASSUME PeerKeepsItsCuts PROVE Spec => []ReassemblyHonest
<1>1. IInv => ReassemblyHonest
  BY DEF IInv, Core, Recorded, SackHeld, ReassemblyHonest, SackHonest, StoredLiesAhead
<1> QED BY Inductive, <1>1, PTL

\* The room that was advertised is there: no segment of the peer is answered
\* with an RST because rxStream is full.
THEOREM RoomForTheAccepted == ASSUME PeerKeepsItsCuts PROVE Spec => []AcceptedFits
<1>1. IInv => AcceptedFits
  BY DEF IInv, AcceptedFits
<1> QED BY Inductive, <1>1, PTL

----------------------------------------------------------------------------
(* The reliable stream, as far as safety goes *)

given == [i \in 1..head |-> cells[i - 1]]

LEMMA InOrderSequence ==
    ASSUME NEW h \in Nat, NEW m, \A i \in 0..h - 1 : m[i] = i,
           NEW g, g = [i \in 1..h |-> m[i - 1]]
    PROVE  Len(g) = h /\ \A i \in 1..h : g[i] = i - 1
<1>1. \A i \in 1..h : m[i - 1] = i - 1
  OBVIOUS
<1>2. g = [i \in 1..h |-> i - 1]
  BY <1>1
<1>3. g \in Seq(Int) /\ Len(g) = h
  BY <1>2
<1> QED BY <1>2, <1>3

\* Every step of the receive path gives the user more of the peer's stream, or
\* nothing, and the end of the stream after its last byte.
THEOREM RefinesReliableStream ==
    ASSUME PeerKeepsItsCuts
    PROVE  Spec => Promised!Init /\ [][Promised!Deliver]_<<given, finAccepted>>
<1>1. Init => Promised!Init
  <2> SUFFICES ASSUME Init PROVE given = <<>> /\ finAccepted = FALSE
    BY DEF Promised!Init, given
  <2>1. head = 0 /\ finAccepted = FALSE
    BY DEF Init
  <2>2. given = [i \in 1..0 |-> cells[i - 1]]
    BY <2>1 DEF given
  <2> QED BY <2>1, <2>2
<1>2. ASSUME IInv, [Next]_vars PROVE [Promised!Deliver]_<<given, finAccepted>>
  <2>0. IInv' /\ head <= head' /\ (finAccepted => finAccepted') /\ StreamLength \in Nat
    BY <1>2, NextKeeps, SizesAssumption
  <2>1. Len(given) = head /\ \A i \in 1..head : given[i] = i - 1
    <3>1. head \in Nat /\ \A i \in 0..head - 1 : cells[i] = i
      BY <1>2 DEF IInv, Core, Bounds, InOrder
    <3> QED BY <3>1, InOrderSequence DEF given
  <2>2. Len(given') = head' /\ \A i \in 1..head' : given'[i] = i - 1
    <3>1. head' \in Nat /\ \A i \in 0..head' - 1 : cells'[i] = i
      BY <2>0 DEF IInv, Core, Bounds, InOrder
    <3> QED BY <3>1, InOrderSequence DEF given
  <2>3. /\ head \in Nat /\ head' \in Nat /\ head' <= StreamLength
        /\ finAccepted \in BOOLEAN /\ finAccepted' \in BOOLEAN
    BY <1>2, <2>0 DEF IInv, Core, Bounds, Flags
  <2>4. CASE finAccepted
    <3>1. head = StreamLength /\ head' = StreamLength /\ finAccepted'
      BY <2>4, <1>2, <2>0 DEF IInv, Core, Position
    <3>2. given' = [i \in 1..head' |-> cells'[i - 1]] /\ given = [i \in 1..head |-> cells[i - 1]]
      BY DEF given
    <3>3. given' = given
      BY <3>1, <3>2, <2>1, <2>2
    <3> QED BY <3>1, <3>3, <2>3, <2>4
  <2>5. CASE ~finAccepted
    <3>1. Len(given') \in Len(given)..StreamLength
      BY <2>0, <2>1, <2>2, <2>3
    <3>2. \A i \in 1..Len(given') :
             given'[i] = IF i <= Len(given) THEN given[i] ELSE i - 1
      BY <2>1, <2>2, <2>3
    <3>3. finAccepted' => Len(given') = StreamLength
      BY <2>0, <2>2 DEF IInv, Core, Position
    <3> QED BY <2>5, <3>1, <3>2, <3>3, <2>3 DEF Promised!Deliver, given
  <2> QED BY <2>4, <2>5
<1> QED BY Inductive, <1>1, <1>2, PTL DEF Spec

=============================================================================
