------------------------- MODULE TCPTransmitProofs -------------------------
(***************************************************************************)
(* Proofs about the sending half of a TCP connection, for every size of    *)
(* stream, segment, window and pool: whatever is lost, repeated, reordered *)
(* or SACKed, the segments cover what is not acknowledged, each of them is *)
(* in the queue for its state, and each byte arrives at its place.         *)
(***************************************************************************)
EXTENDS TCPTransmit, TLAPS, NaturalsInduction, WellFoundedInduction, FiniteSetTheorems

Positions == 0..StreamLength - 1

----------------------------------------------------------------------------
(* The invariant of the window *)

SegmentType ==
    [len : 1..MSS, pos : 0..LENGTH - 1, outstanding : BOOLEAN, acked : BOOLEAN,
     count : 0..MaxCount, dup : 0..MaxDup]

\* The first byte past segment x.
End(s, x) == x + s[x].len

\* A record with the fields of the window.
IsWindow(w) ==
    DOMAIN w = {"segs", "prio", "tx", "wait", "growing", "cur", "next", "highest", "size"}

IsFcn(s) == s = [x \in DOMAIN s |-> s[x]]

\* Segments, each at its position in the circular txStream.
Segs(s) ==
    /\ IsFcn(s)
    /\ DOMAIN s \subseteq Positions
    /\ \A x \in DOMAIN s : s[x] \in SegmentType /\ s[x].pos = x % LENGTH

Typed(w) ==
    /\ IsWindow(w)
    /\ Segs(w.segs)
    /\ w.prio \in Seq(Positions) /\ w.tx \in Seq(Positions) /\ w.wait \in Seq(Positions)
    /\ w.cur \in Nat /\ w.highest \in Nat /\ w.next \in Nat
    /\ w.cur <= w.highest /\ w.highest <= w.next /\ w.next <= StreamLength
    /\ w.size \in 0..TxWindow

\* Segments that cover the bytes between two positions without overlap.
Tiles(s, from, to) ==
    /\ \A x \in DOMAIN s : from <= x /\ End(s, x) <= to
    /\ \A x, y \in DOMAIN s : x < y => End(s, x) <= y
    /\ \A i \in from..to - 1 : \E x \in DOMAIN s : x <= i /\ i < End(s, x)

\* The segments below ulHighestSequenceNumber are those that have been sent.
SentBelow(s, highest) ==
    \A x \in DOMAIN s :
        /\ s[x].outstanding <=> x < highest
        /\ x < highest => End(s, x) <= highest
        /\ s[x].acked => x < highest

\* xTxQueue holds what was not sent, in order; the two others what was sent
\* and is not acknowledged.
Queues(w) ==
    /\ ToSet(w.tx) = {x \in DOMAIN w.segs : x >= w.highest}
    /\ \A i, j \in 1..Len(w.tx) : i < j => w.tx[i] < w.tx[j]
    /\ IsInjective(w.prio) /\ IsInjective(w.wait)
    /\ ToSet(w.prio) \cap ToSet(w.wait) = {}
    /\ ToSet(w.prio) \cup ToSet(w.wait) =
         {x \in DOMAIN w.segs : x < w.highest /\ ~w.segs[x].acked}

\* The segment that still grows is the last one and has not been sent.
GrowsAtEnd(w) ==
    w.growing # Missing =>
        /\ w.growing \in DOMAIN w.segs /\ w.growing >= w.highest
        /\ End(w.segs, w.growing) = w.next /\ w.segs[w.growing].len < MSS

WindowOK(w) ==
    /\ Typed(w) /\ Tiles(w.segs, w.cur, w.next) /\ SentBelow(w.segs, w.highest)
    /\ Queues(w) /\ GrowsAtEnd(w)

----------------------------------------------------------------------------
(* The invariant of the system *)

AckType ==
    [ack : 0..StreamLength, wnd : 0..PeerSpace,
     sack : {<<>>} \cup ((1..StreamLength) \X (1..StreamLength))]

\* A peer that has g has the bytes between two positions.
Has(g, from, to) == \A i \in from..to - 1 : g[i] # Missing

\* txStream and the window agree, and the peer has what left both.
StreamOK ==
    /\ win.cur = tail /\ win.next = mid
    /\ tail \in Nat /\ mid \in Nat /\ head \in Nat
    /\ mid <= head /\ head < tail + LENGTH /\ head <= StreamLength
    /\ Has(got, 0, tail)
    /\ Cardinality(DOMAIN win.segs) <= Segments

\* What is under way and what the peer has are bytes of the stream in their
\* places, that were sent.
PeerOK ==
    /\ got \in [Positions -> Positions \cup {Missing}]
    /\ read \in 0..PeerNext(got)
    /\ \A i \in Positions : got[i] # Missing =>
        got[i] = i /\ i < win.highest /\ i < read + PeerSpace
    /\ \A p \in data :
        /\ p.seq \in Positions /\ p.len \in 1..MSS
        /\ p.from = p.seq /\ p.seq + p.len <= win.highest

\* A block that was told with an older acknowledgement, or a segment that was
\* SACKed, is not cut by a newer one.
NotCut(from, to, ack) == from < ack => to <= ack

AckOK(a) ==
    /\ tail <= a.ack /\ a.ack <= PeerNext(got) /\ a.ack + a.wnd <= read + PeerSpace
    /\ a.sack # <<>> =>
        a.ack < a.sack[1] /\ a.sack[1] < a.sack[2] /\ Has(got, a.sack[1], a.sack[2])
    /\ \A x \in DOMAIN win.segs :
        win.segs[x].acked => NotCut(x, End(win.segs, x), a.ack)

AcksOK ==
    /\ acks \in Seq(AckType) /\ Len(acks) <= MaxAcks
    /\ \A i \in 1..Len(acks) : AckOK(acks[i])
    /\ \A i, j \in 1..Len(acks) : i < j =>
        /\ acks[i].ack <= acks[j].ack
        /\ acks[i].sack # <<>> => NotCut(acks[i].sack[1], acks[i].sack[2], acks[j].ack)
    /\ \A x \in DOMAIN win.segs : win.segs[x].acked => Has(got, x, End(win.segs, x))
    /\ wnd \in 0..PeerSpace /\ win.cur + wnd <= read + PeerSpace

IInv == WindowOK(win) /\ StreamOK /\ PeerOK /\ AcksOK

----------------------------------------------------------------------------
(* Induction and largest elements *)

\* A set of numbers has a least one.
LEMMA LeastExists ==
    ASSUME NEW S \in SUBSET Nat, S # {}
    PROVE  \E m \in S : \A z \in S : m <= z
<1>1. PICK m \in S : \A z \in S : ~(<<z, m>> \in OpToRel(<, Nat))
  BY NatLessThanWellFounded, WFMin
<1>2. ASSUME NEW z \in S PROVE m <= z
  <2>1. ~(z < m)
    BY <1>1 DEF OpToRel
  <2> QED BY <2>1
<1> QED BY <1>2

\* Induction up to a bound, over a set instead of a predicate.
LEMMA Induct ==
    ASSUME NEW N \in Nat, NEW T, 0 \in T, \A n \in 1..N : n - 1 \in T => n \in T
    PROVE  0..N \subseteq T
<1> SUFFICES ASSUME (0..N) \ T # {} PROVE FALSE
  OBVIOUS
<1> DEFINE S == (0..N) \ T
<1>0. S \in SUBSET Nat /\ S # {}
  OBVIOUS
<1>1. PICK m \in S : \A z \in S : m <= z
  <2> HIDE DEF S
  <2> QED BY <1>0, LeastExists
<1>2. m \in 1..N /\ m - 1 \in 0..N /\ ~(m <= m - 1)
  BY <1>1
<1> QED BY <1>1, <1>2

\* A bounded set of numbers has a largest one.
LEMMA LargestExists ==
    ASSUME NEW N \in Nat, NEW S \in SUBSET (0..N), S # {}
    PROVE  \E e \in S : \A z \in S : z <= e
<1> DEFINE T == {N - e : e \in S}
<1>1. T \in SUBSET Nat /\ T # {}
  OBVIOUS
<1>2. PICK t \in T : \A u \in T : t <= u
  BY <1>1, LeastExists
<1>3. PICK e \in S : t = N - e
  OBVIOUS
<1>4. ASSUME NEW z \in S PROVE z <= e
  <2>1. N - z \in T
    OBVIOUS
  <2> QED BY <1>2, <1>3, <2>1
<1> QED BY <1>4

----------------------------------------------------------------------------
(* Queues *)

\* The function that Only is the last value of.
FilterTo(g, m, q, keep) ==
    g = [n \in 0..m |-> IF n = 0 THEN <<>>
                        ELSE IF q[n] \in keep THEN Append(g[n - 1], q[n]) ELSE g[n - 1]]

LEMMA FilterExists ==
    ASSUME NEW q, NEW keep, Len(q) \in Nat
    PROVE  \E g : FilterTo(g, Len(q), q, keep) /\ Only(q, keep) = g[Len(q)]
<1> DEFINE T == {m \in 0..Len(q) : \E g : FilterTo(g, m, q, keep)}
<1>1. 0 \in T
  <2>1. FilterTo([n \in 0..0 |-> <<>>], 0, q, keep)
    BY DEF FilterTo
  <2> QED BY <2>1
<1>2. ASSUME NEW m \in 1..Len(q), m - 1 \in T PROVE m \in T
  <2>1. PICK g : FilterTo(g, m - 1, q, keep)
    BY <1>2
  <2> DEFINE h == [n \in 0..m |->
                     IF n < m THEN g[n]
                     ELSE IF q[m] \in keep THEN Append(g[m - 1], q[m]) ELSE g[m - 1]]
  <2>2. ASSUME NEW n \in 0..m
        PROVE  h[n] = IF n = 0 THEN <<>>
                      ELSE IF q[n] \in keep THEN Append(h[n - 1], q[n]) ELSE h[n - 1]
    <3>1. CASE n < m
      <4>1. n \in 0..m - 1 /\ (n # 0 => n - 1 \in 0..m /\ n - 1 < m)
        BY <3>1
      <4>2. g[n] = IF n = 0 THEN <<>>
                   ELSE IF q[n] \in keep THEN Append(g[n - 1], q[n]) ELSE g[n - 1]
        BY <2>1, <4>1 DEF FilterTo
      <4> QED BY <3>1, <4>1, <4>2
    <3>2. CASE ~(n < m)
      <4>1. n = m /\ n # 0 /\ n - 1 \in 0..m /\ n - 1 < m
        BY <3>2
      <4> QED BY <4>1
    <3> QED BY <3>1, <3>2
  <2>3. FilterTo(h, m, q, keep)
    <3>1. h = [n \in 0..m |-> h[n]]
      OBVIOUS
    <3> HIDE DEF h
    <3> QED BY <2>2, <3>1 DEF FilterTo
  <2> HIDE DEF h
  <2> QED BY <2>3
<1>3. 0..Len(q) \subseteq T
  <2> HIDE DEF T
  <2> QED BY <1>1, <1>2, Induct
<1>4. \E g : FilterTo(g, Len(q), q, keep)
  BY <1>3
<1> DEFINE f == CHOOSE g : FilterTo(g, Len(q), q, keep)
<1>5. FilterTo(f, Len(q), q, keep)
  BY <1>4
<1>6. Only(q, keep) = f[Len(q)]
  BY DEF Only, FilterTo
<1> QED BY <1>5, <1>6

\* A queue with one element more at its end.
LEMMA AppendFacts ==
    ASSUME NEW S, NEW q \in Seq(S), NEW x \in S
    PROVE  /\ Append(q, x) \in Seq(S)
           /\ Len(Append(q, x)) = Len(q) + 1 /\ Append(q, x)[Len(q) + 1] = x
           /\ \A i \in 1..Len(q) : Append(q, x)[i] = q[i]
           /\ ToSet(Append(q, x)) = ToSet(q) \cup {x}
           /\ IsInjective(q) /\ x \notin ToSet(q) => IsInjective(Append(q, x))
<1> DEFINE r == Append(q, x)
<1>1. /\ r \in Seq(S) /\ Len(r) = Len(q) + 1 /\ r[Len(q) + 1] = x
      /\ \A i \in 1..Len(q) : r[i] = q[i]
  OBVIOUS
<1>2. DOMAIN r = 1..Len(q) \cup {Len(q) + 1} /\ DOMAIN q = 1..Len(q)
  BY <1>1
<1> HIDE DEF r
<1>3. ToSet(r) = ToSet(q) \cup {x}
  BY <1>1, <1>2 DEF ToSet
<1>4. ASSUME IsInjective(q), x \notin ToSet(q) PROVE IsInjective(r)
  <2>1. \A i \in 1..Len(q) : q[i] # x
    BY <1>2, <1>4 DEF ToSet
  <2> QED BY <1>1, <1>2, <1>4, <2>1 DEF IsInjective
<1>5. r = Append(q, x)
  BY DEF r
<1> QED BY <1>1, <1>3, <1>4, <1>5

\* What a filtered queue holds, and that it repeats nothing.
LEMMA OnlyFacts ==
    ASSUME NEW S, NEW q \in Seq(S), NEW keep
    PROVE  /\ Only(q, keep) \in Seq(S)
           /\ ToSet(Only(q, keep)) = ToSet(q) \cap keep
           /\ IsInjective(q) => IsInjective(Only(q, keep))
<1>1. PICK g : FilterTo(g, Len(q), q, keep) /\ Only(q, keep) = g[Len(q)]
  BY FilterExists
<1> DEFINE Ends(n) == {q[i] : i \in 1..n}
           Good(n) == /\ g[n] \in Seq(S)
                      /\ ToSet(g[n]) = Ends(n) \cap keep
                      /\ IsInjective(q) => IsInjective(g[n])
           T == {n \in 0..Len(q) : Good(n)}
<1>2. 0 \in T
  <2>1. g[0] = <<>>
    <3>1. 0 \in 0..Len(q)
      OBVIOUS
    <3> QED BY <1>1, <3>1 DEF FilterTo
  <2>2. <<>> \in Seq(S) /\ DOMAIN <<>> = {} /\ Ends(0) = {}
    OBVIOUS
  <2>3. ToSet(<<>>) = {} /\ IsInjective(<<>>)
    BY <2>2 DEF ToSet, IsInjective
  <2>4. Good(0)
    BY <2>1, <2>2, <2>3
  <2> QED BY <2>4
<1>3. ASSUME NEW n \in 1..Len(q), n - 1 \in T PROVE n \in T
  <2>1. /\ g[n] = IF q[n] \in keep THEN Append(g[n - 1], q[n]) ELSE g[n - 1]
        /\ Good(n - 1) /\ q[n] \in S /\ n - 1 \in Nat
    <3>1. n \in 0..Len(q) /\ n # 0
      OBVIOUS
    <3>2. g[n] = IF q[n] \in keep THEN Append(g[n - 1], q[n]) ELSE g[n - 1]
      BY <1>1, <3>1 DEF FilterTo
    <3> QED BY <1>3, <3>2
  <2>2. Ends(n) = Ends(n - 1) \cup {q[n]}
    <3>1. 1..n = 1..n - 1 \cup {n}
      OBVIOUS
    <3> QED BY <3>1
  <2>3. CASE q[n] \notin keep
    BY <2>1, <2>2, <2>3
  <2>4. CASE q[n] \in keep
    <3> DEFINE h == g[n - 1]
    <3>1. /\ h \in Seq(S) /\ g[n] = Append(h, q[n]) /\ ToSet(h) = Ends(n - 1) \cap keep
          /\ IsInjective(q) => IsInjective(h)
      BY <2>1, <2>4
    <3>2. ASSUME IsInjective(q) PROVE q[n] \notin ToSet(h)
      <4>1. ASSUME NEW i \in 1..n - 1 PROVE q[i] # q[n]
        BY <3>2 DEF IsInjective
      <4> QED BY <3>1, <4>1
    <3> DEFINE x == q[n]
    <3>3. h \in Seq(S) /\ x \in S
      BY <2>1, <3>1
    <3> HIDE DEF h, x
    <3>4. /\ Append(h, x) \in Seq(S) /\ ToSet(Append(h, x)) = ToSet(h) \cup {x}
          /\ IsInjective(h) /\ x \notin ToSet(h) => IsInjective(Append(h, x))
      BY <3>3, AppendFacts
    <3>5. Good(n)
      BY <2>2, <2>4, <3>1, <3>2, <3>4 DEF x
    <3> QED BY <3>5
  <2> QED BY <2>3, <2>4
<1>4. Len(q) \in T
  <2> HIDE DEF T
  <2>0. Len(q) \in Nat
    OBVIOUS
  <2>1. 0..Len(q) \subseteq T
    BY <1>2, <1>3, <2>0, Induct
  <2> QED BY <2>1, <2>0
<1>5. Ends(Len(q)) = ToSet(q)
  BY DEF ToSet
<1> QED BY <1>1, <1>4, <1>5

\* A queue all of whose elements are kept stays as it is.
LEMMA OnlyAll ==
    ASSUME NEW S, NEW q \in Seq(S), NEW keep, ToSet(q) \subseteq keep
    PROVE  Only(q, keep) = q
<1>1. PICK g : FilterTo(g, Len(q), q, keep) /\ Only(q, keep) = g[Len(q)]
  BY FilterExists
<1> DEFINE Good(n) == /\ g[n] \in Seq(S) /\ Len(g[n]) = n
                      /\ \A i \in 1..n : g[n][i] = q[i]
           T == {n \in 0..Len(q) : Good(n)}
<1>2. 0 \in T
  <2>1. g[0] = <<>>
    <3>1. 0 \in 0..Len(q)
      OBVIOUS
    <3> QED BY <1>1, <3>1 DEF FilterTo
  <2>2. <<>> \in Seq(S) /\ Len(<<>>) = 0
    OBVIOUS
  <2>3. Good(0)
    BY <2>1, <2>2
  <2> QED BY <2>3
<1>3. ASSUME NEW n \in 1..Len(q), n - 1 \in T PROVE n \in T
  <2>1. q[n] \in keep /\ q[n] \in S
    BY DEF ToSet
  <2>2. g[n] = Append(g[n - 1], q[n]) /\ Good(n - 1)
    <3>1. n \in 0..Len(q) /\ n # 0
      OBVIOUS
    <3> QED BY <1>1, <1>3, <2>1, <3>1 DEF FilterTo
  <2> DEFINE h == g[n - 1]
  <2>3. h \in Seq(S) /\ Len(h) = n - 1 /\ g[n] = Append(h, q[n])
        /\ \A i \in 1..n - 1 : h[i] = q[i]
    BY <2>2
  <2> HIDE DEF h
  <2>4. /\ g[n] \in Seq(S) /\ Len(g[n]) = Len(h) + 1 /\ g[n][Len(h) + 1] = q[n]
        /\ \A i \in 1..Len(h) : g[n][i] = h[i]
    BY <2>1, <2>3, AppendFacts
  <2>5. Good(n)
    BY <2>3, <2>4
  <2> QED BY <2>5
<1>4. Len(q) \in T
  <2> HIDE DEF T
  <2>0. Len(q) \in Nat
    OBVIOUS
  <2>1. 0..Len(q) \subseteq T
    BY <1>2, <1>3, <2>0, Induct
  <2> QED BY <2>1, <2>0
<1> QED BY <1>1, <1>4

\* Two queues, one behind the other.
LEMMA ConcatFacts ==
    ASSUME NEW S, NEW q \in Seq(S), NEW r \in Seq(S)
    PROVE  /\ q \o r \in Seq(S)
           /\ ToSet(q \o r) = ToSet(q) \cup ToSet(r)
           /\ IsInjective(q) /\ IsInjective(r) /\ ToSet(q) \cap ToSet(r) = {}
                => IsInjective(q \o r)
<1> DEFINE c == q \o r
<1>1. /\ c \in Seq(S) /\ Len(c) = Len(q) + Len(r)
      /\ \A i \in 1..Len(q) : c[i] = q[i]
      /\ \A i \in 1..Len(r) : c[Len(q) + i] = r[i]
  OBVIOUS
<1>2. /\ DOMAIN c = 1..Len(c) /\ DOMAIN q = 1..Len(q) /\ DOMAIN r = 1..Len(r)
      /\ Len(q) \in Nat /\ Len(r) \in Nat
  BY <1>1
<1> HIDE DEF c
<1>3. \A i \in DOMAIN c : i = Len(q) + (i - Len(q)) /\ (i \in DOMAIN q \/ i - Len(q) \in DOMAIN r)
  BY <1>1, <1>2
<1>4. ToSet(c) = ToSet(q) \cup ToSet(r)
  <2>1. ASSUME NEW i \in DOMAIN c PROVE c[i] \in ToSet(q) \cup ToSet(r)
    BY <1>1, <1>2, <1>3 DEF ToSet
  <2>2. ASSUME NEW i \in DOMAIN q PROVE q[i] \in ToSet(c)
    BY <1>1, <1>2 DEF ToSet
  <2>3. ASSUME NEW i \in DOMAIN r PROVE r[i] \in ToSet(c)
    <3>1. Len(q) + i \in DOMAIN c
      BY <1>1, <1>2
    <3> QED BY <1>1, <1>2, <3>1 DEF ToSet
  <2> QED BY <2>1, <2>2, <2>3 DEF ToSet
<1>5. ASSUME IsInjective(q), IsInjective(r), ToSet(q) \cap ToSet(r) = {} PROVE IsInjective(c)
  <2>1. \A i \in DOMAIN q, j \in DOMAIN r : q[i] # r[j]
    BY <1>5 DEF ToSet
  <2> SUFFICES ASSUME NEW a \in DOMAIN c, NEW b \in DOMAIN c, c[a] = c[b] PROVE a = b
    BY DEF IsInjective
  <2>2. CASE a \in DOMAIN q /\ b \in DOMAIN q
    BY <1>1, <1>2, <1>5, <2>2 DEF IsInjective
  <2>3. CASE a \notin DOMAIN q /\ b \notin DOMAIN q
    <3>1. a - Len(q) = b - Len(q)
      BY <1>1, <1>2, <1>3, <1>5, <2>3 DEF IsInjective
    <3> QED BY <1>1, <1>2, <3>1
  <2>4. CASE a \in DOMAIN q /\ b \notin DOMAIN q
    BY <1>1, <1>2, <1>3, <2>1, <2>4
  <2>5. CASE a \notin DOMAIN q /\ b \in DOMAIN q
    BY <1>1, <1>2, <1>3, <2>1, <2>5
  <2> QED BY <2>2, <2>3, <2>4, <2>5
<1>6. c = q \o r
  BY DEF c
<1> QED BY <1>1, <1>4, <1>5, <1>6

\* A queue without its head, if that is x.
LEMMA RestFacts ==
    ASSUME NEW S, NEW q \in Seq(S), NEW x, IsInjective(q)
    PROVE  /\ Rest(q, x) \in Seq(S) /\ IsInjective(Rest(q, x))
           /\ q # <<>> /\ Head(q) = x => ToSet(Rest(q, x)) = ToSet(q) \ {x}
           /\ ~(q # <<>> /\ Head(q) = x) => Rest(q, x) = q
<1>1. CASE ~(q # <<>> /\ Head(q) = x)
  BY <1>1 DEF Rest
<1>2. CASE q # <<>> /\ Head(q) = x
  <2> DEFINE t == Tail(q)
  <2>1. /\ Rest(q, x) = t /\ t \in Seq(S) /\ Len(t) = Len(q) - 1 /\ q[1] = x
        /\ \A i \in 1..Len(t) : t[i] = q[i + 1]
    BY <1>2 DEF Rest
  <2>2. Len(q) \in Nat /\ Len(q) > 0 /\ DOMAIN q = 1..Len(q) /\ DOMAIN t = 1..Len(t)
    BY <1>2, <2>1
  <2> HIDE DEF t
  <2>3. IsInjective(t)
    <3> SUFFICES ASSUME NEW a \in DOMAIN t, NEW b \in DOMAIN t, t[a] = t[b] PROVE a = b
      BY DEF IsInjective
    <3>1. a + 1 \in DOMAIN q /\ b + 1 \in DOMAIN q /\ q[a + 1] = q[b + 1]
      BY <2>1, <2>2
    <3>2. a + 1 = b + 1
      BY <3>1 DEF IsInjective
    <3> QED BY <2>1, <2>2, <3>2
  <2>4. ToSet(t) = ToSet(q) \ {x}
    <3>1. ASSUME NEW i \in DOMAIN t PROVE t[i] \in ToSet(q) \ {x}
      <4>1. i + 1 \in DOMAIN q /\ i + 1 # 1 /\ t[i] = q[i + 1] /\ 1 \in DOMAIN q
        BY <2>1, <2>2
      <4> QED BY <2>1, <4>1 DEF ToSet, IsInjective
    <3>2. ASSUME NEW i \in DOMAIN q, q[i] # x PROVE q[i] \in ToSet(t)
      <4>1. i - 1 \in DOMAIN t /\ t[i - 1] = q[i]
        BY <2>1, <2>2, <3>2
      <4> QED BY <4>1 DEF ToSet
    <3> QED BY <3>1, <3>2 DEF ToSet
  <2> QED BY <1>2, <2>1, <2>3, <2>4
<1> QED BY <1>1, <1>2

----------------------------------------------------------------------------
(* Acknowledgements: prvTCPWindowTxCheckAck *)

\* Segments keep the length and place they were made with.
SameSegs(s, t) ==
    \A x \in DOMAIN t : x \in DOMAIN s /\ t[x].len = s[x].len /\ t[x].pos = s[x].pos

\* The segments that are freed: none, unless the search starts at the left edge.
Freed(w, first, last) == IF first = w.cur THEN Acked(w, first, last) ELSE {}

\* Those that stay in their queues.
Kept(w, first, last) == DOMAIN w.segs \ Acked(w, first, last)

\* The window after the search, field by field.
LEMMA CheckAckFields ==
    ASSUME NEW w, IsWindow(w), NEW first, NEW last
    PROVE  LET rest == Kept(w, first, last)
               c == CheckAck(w, first, last)
           IN  /\ IsFcn(c.segs)
               /\ DOMAIN c.segs = DOMAIN w.segs \ Freed(w, first, last)
               /\ c.prio = Only(w.prio, rest) /\ c.tx = Only(w.tx, rest)
               /\ c.wait = Only(w.wait, rest)
               /\ c.growing = w.growing /\ c.next = w.next /\ c.highest = w.highest
               /\ c.size = w.size
BY DEF IsWindow, CheckAck, Freed, IsFcn, Kept

LEMMA CheckAckWindow ==
    ASSUME NEW w, IsWindow(w), NEW first, NEW last PROVE IsWindow(CheckAck(w, first, last))
BY DEF IsWindow, CheckAck

LEMMA CheckAckSegs ==
    ASSUME NEW w, IsWindow(w), NEW first, NEW last,
           NEW x \in DOMAIN w.segs \ Freed(w, first, last)
    PROVE  CheckAck(w, first, last).segs[x] = Confirm(w.segs[x], x \in Acked(w, first, last))
BY DEF IsWindow, CheckAck, Freed

LEMMA CheckAckCur ==
    ASSUME NEW w, IsWindow(w), NEW first, NEW last
    PROVE  LET free == Freed(w, first, last)
           IN  CheckAck(w, first, last).cur =
                 IF free = {} THEN w.cur
                 ELSE CHOOSE e \in {x + w.segs[x].len : x \in free} : \A x \in free : x < e
BY DEF IsWindow, CheckAck, Freed

\* Setting bAcked changes nothing else of a segment.
LEMMA ConfirmFacts ==
    ASSUME NEW r \in SegmentType, NEW b \in BOOLEAN
    PROVE  LET m == Confirm(r, b)
           IN  /\ m \in SegmentType /\ m.len = r.len /\ m.pos = r.pos
               /\ m.outstanding = r.outstanding /\ (m.acked <=> r.acked \/ b)
BY DEF SegmentType, Confirm

\* What a search may free or mark leaves the queues in order.
LEMMA QueuesFiltered ==
    ASSUME NEW w, WindowOK(w), NEW done, done \subseteq {x \in DOMAIN w.segs : x < w.highest}
    PROVE  LET rest == DOMAIN w.segs \ done
           IN  /\ Only(w.tx, rest) = w.tx
               /\ Only(w.prio, rest) \in Seq(Positions) /\ Only(w.wait, rest) \in Seq(Positions)
               /\ IsInjective(Only(w.prio, rest)) /\ IsInjective(Only(w.wait, rest))
               /\ ToSet(Only(w.prio, rest)) \cap ToSet(Only(w.wait, rest)) = {}
               /\ ToSet(Only(w.prio, rest)) \cup ToSet(Only(w.wait, rest)) =
                    {x \in DOMAIN w.segs : x < w.highest /\ ~w.segs[x].acked /\ x \notin done}
<1> DEFINE rest == DOMAIN w.segs \ done
<1>1. /\ w.tx \in Seq(Positions) /\ w.prio \in Seq(Positions) /\ w.wait \in Seq(Positions)
      /\ IsInjective(w.prio) /\ IsInjective(w.wait)
      /\ ToSet(w.prio) \cap ToSet(w.wait) = {}
      /\ ToSet(w.tx) = {x \in DOMAIN w.segs : x >= w.highest}
      /\ ToSet(w.prio) \cup ToSet(w.wait) =
           {x \in DOMAIN w.segs : x < w.highest /\ ~w.segs[x].acked}
  BY DEF WindowOK, Typed, Queues
<1>2. ToSet(w.tx) \subseteq rest
  <2>1. \A x \in DOMAIN w.segs : x \in Int /\ w.highest \in Int
    BY DEF WindowOK, Typed, Segs, Positions
  <2> QED BY <1>1, <2>1
<1> HIDE DEF rest
<1>3. Only(w.tx, rest) = w.tx
  BY <1>1, <1>2, OnlyAll
<1>4. /\ Only(w.prio, rest) \in Seq(Positions) /\ IsInjective(Only(w.prio, rest))
      /\ ToSet(Only(w.prio, rest)) = ToSet(w.prio) \cap rest
  BY <1>1, OnlyFacts
<1>5. /\ Only(w.wait, rest) \in Seq(Positions) /\ IsInjective(Only(w.wait, rest))
      /\ ToSet(Only(w.wait, rest)) = ToSet(w.wait) \cap rest
  BY <1>1, OnlyFacts
<1>6. /\ ToSet(Only(w.prio, rest)) \cap ToSet(Only(w.wait, rest)) = {}
      /\ ToSet(Only(w.prio, rest)) \cup ToSet(Only(w.wait, rest)) =
           {x \in DOMAIN w.segs : x < w.highest /\ ~w.segs[x].acked /\ x \notin done}
  BY <1>1, <1>4, <1>5 DEF rest
<1> QED BY <1>3, <1>4, <1>5, <1>6 DEF rest

\* What the search makes of each segment that is not freed.
LEMMA SegmentsMarked ==
    ASSUME NEW w, IsWindow(w), Segs(w.segs), NEW first, NEW last
    PROVE  \A x \in DOMAIN w.segs \ Freed(w, first, last) :
             /\ CheckAck(w, first, last).segs[x] \in SegmentType
             /\ CheckAck(w, first, last).segs[x].len = w.segs[x].len
             /\ CheckAck(w, first, last).segs[x].pos = w.segs[x].pos
             /\ CheckAck(w, first, last).segs[x].outstanding = w.segs[x].outstanding
             /\ CheckAck(w, first, last).segs[x].acked
                  <=> (w.segs[x].acked \/ x \in Acked(w, first, last))
<1> SUFFICES ASSUME NEW x \in DOMAIN w.segs \ Freed(w, first, last)
             PROVE  /\ CheckAck(w, first, last).segs[x] \in SegmentType
                    /\ CheckAck(w, first, last).segs[x].len = w.segs[x].len
                    /\ CheckAck(w, first, last).segs[x].pos = w.segs[x].pos
                    /\ CheckAck(w, first, last).segs[x].outstanding = w.segs[x].outstanding
                    /\ CheckAck(w, first, last).segs[x].acked
                         <=> (w.segs[x].acked \/ x \in Acked(w, first, last))
  OBVIOUS
<1> DEFINE m == CheckAck(w, first, last).segs[x]
           b == x \in Acked(w, first, last)
<1>1. b \in BOOLEAN /\ w.segs[x] \in SegmentType
  BY DEF Segs
<1>2. m = Confirm(w.segs[x], b)
  BY CheckAckSegs
<1> HIDE DEF b, m
<1>3. /\ m \in SegmentType /\ m.len = w.segs[x].len /\ m.pos = w.segs[x].pos
      /\ m.outstanding = w.segs[x].outstanding /\ (m.acked <=> (w.segs[x].acked \/ b))
  BY <1>1, <1>2, ConfirmFacts
<1> QED BY <1>3 DEF b, m

\* A SACK, which does not start at the left edge: segments are marked and
\* leave their queues, none is freed.
LEMMA CheckAckMarks ==
    ASSUME NEW w, WindowOK(w), NEW first \in Int, NEW last \in Int,
           first # w.cur, last <= w.highest
    PROVE  LET c == CheckAck(w, first, last)
           IN  /\ WindowOK(c) /\ DOMAIN c.segs = DOMAIN w.segs /\ SameSegs(w.segs, c.segs)
               /\ c.cur = w.cur /\ c.next = w.next /\ c.highest = w.highest
               /\ \A x \in DOMAIN c.segs : c.segs[x].acked =>
                    w.segs[x].acked \/ (first <= x /\ End(w.segs, x) <= last)
<1> DEFINE c == CheckAck(w, first, last)
           done == Acked(w, first, last)
           rest == Kept(w, first, last)
           D == DOMAIN w.segs
<1>1. /\ IsWindow(w) /\ Segs(w.segs) /\ SentBelow(w.segs, w.highest)
      /\ Tiles(w.segs, w.cur, w.next) /\ Queues(w) /\ GrowsAtEnd(w)
      /\ w.cur \in Nat /\ w.highest \in Nat /\ w.next \in Nat
  BY DEF WindowOK, Typed
<1>2. /\ IsWindow(c) /\ IsFcn(c.segs) /\ DOMAIN c.segs = D
      /\ c.prio = Only(w.prio, rest) /\ c.tx = Only(w.tx, rest) /\ c.wait = Only(w.wait, rest)
      /\ c.cur = w.cur /\ c.growing = w.growing /\ c.next = w.next
      /\ c.highest = w.highest /\ c.size = w.size
  <2>1. Freed(w, first, last) = {}
    BY DEF Freed
  <2>2. c.cur = w.cur
    BY <1>1, <2>1, CheckAckCur
  <2>3. DOMAIN c.segs = D
    BY <1>1, <2>1, CheckAckFields
  <2>4. IsWindow(c)
    BY <1>1, CheckAckWindow
  <2>5. /\ IsFcn(c.segs)
        /\ c.prio = Only(w.prio, rest) /\ c.tx = Only(w.tx, rest) /\ c.wait = Only(w.wait, rest)
        /\ c.growing = w.growing /\ c.next = w.next
        /\ c.highest = w.highest /\ c.size = w.size
    BY <1>1, CheckAckFields
  <2> QED BY <2>2, <2>3, <2>4, <2>5
<1>3. \A x \in done : x \in D /\ x < w.highest /\ (w.segs[x].acked \/ (first <= x /\ End(w.segs, x) <= last))
  <2>1. \A x \in done : x \in D /\ first <= x /\ (w.segs[x].acked \/ End(w.segs, x) <= last)
    BY DEF Acked, End
  <2>2. \A x \in D : x \in Int /\ w.segs[x].len \in 1..MSS /\ (w.segs[x].acked => x < w.highest)
    BY <1>1 DEF Segs, Positions, SegmentType, SentBelow
  <2>3. ASSUME NEW x \in done PROVE x < w.highest
    <3>1. x \in D /\ x \in Int /\ w.segs[x].len \in 1..MSS
      BY <2>1, <2>2
    <3>2. CASE w.segs[x].acked
      BY <3>1, <3>2, <2>2
    <3>3. CASE x + w.segs[x].len <= last
      BY <1>1, <3>1, <3>3, SizesAssumption
    <3> QED BY <2>1, <3>2, <3>3 DEF End
  <2> HIDE DEF done
  <2> QED BY <2>1, <2>3
<1>4. /\ DOMAIN c.segs = D
      /\ \A x \in D : /\ c.segs[x] \in SegmentType /\ c.segs[x].len = w.segs[x].len
                      /\ c.segs[x].pos = w.segs[x].pos
                      /\ c.segs[x].outstanding = w.segs[x].outstanding
                      /\ c.segs[x].acked <=> (w.segs[x].acked \/ x \in done)
  <2>1. Freed(w, first, last) = {}
    BY DEF Freed
  <2>2. DOMAIN w.segs \ Freed(w, first, last) = D
    BY <2>1
  <2> QED BY <1>1, <1>2, <2>2, SegmentsMarked
<1> HIDE DEF c
<1>5. Segs(c.segs)
  <2>1. IsFcn(c.segs)
    BY <1>2
  <2> QED BY <1>1, <1>4, <2>1 DEF Segs
<1>6. \A x \in D : End(c.segs, x) = End(w.segs, x)
  BY <1>4 DEF End
<1>7. Tiles(c.segs, c.cur, c.next)
  BY <1>1, <1>2, <1>4, <1>6 DEF Tiles
<1>8. SentBelow(c.segs, c.highest)
  BY <1>1, <1>2, <1>3, <1>4, <1>6 DEF SentBelow
<1>9. GrowsAtEnd(c)
  BY <1>1, <1>2, <1>4, <1>6 DEF GrowsAtEnd
<1>10. Queues(c) /\ c.prio \in Seq(Positions) /\ c.tx \in Seq(Positions) /\ c.wait \in Seq(Positions)
  <2>1. done \subseteq {x \in D : x < w.highest}
    BY <1>3
  <2> HIDE DEF done
  <2>2. /\ c.tx = w.tx
        /\ c.prio \in Seq(Positions) /\ c.wait \in Seq(Positions)
        /\ IsInjective(c.prio) /\ IsInjective(c.wait)
        /\ ToSet(c.prio) \cap ToSet(c.wait) = {}
        /\ ToSet(c.prio) \cup ToSet(c.wait) =
             {x \in D : x < w.highest /\ ~w.segs[x].acked /\ x \notin done}
    <3>1. /\ Only(w.tx, rest) = w.tx
          /\ Only(w.prio, rest) \in Seq(Positions) /\ Only(w.wait, rest) \in Seq(Positions)
          /\ IsInjective(Only(w.prio, rest)) /\ IsInjective(Only(w.wait, rest))
          /\ ToSet(Only(w.prio, rest)) \cap ToSet(Only(w.wait, rest)) = {}
          /\ ToSet(Only(w.prio, rest)) \cup ToSet(Only(w.wait, rest)) =
               {x \in D : x < w.highest /\ ~w.segs[x].acked /\ x \notin done}
      <4>1. rest = D \ done
        BY DEF Kept, done
      <4> QED BY <2>1, <4>1, QueuesFiltered
    <3> HIDE DEF rest, D
    <3> QED BY <1>2, <3>1
  <2>3. c.tx \in Seq(Positions)
    BY <2>2 DEF WindowOK, Typed
  <2> QED BY <1>1, <1>2, <1>4, <2>2, <2>3 DEF Queues
<1>11. Typed(c)
  BY <1>2, <1>5, <1>10 DEF WindowOK, Typed
<1> QED BY <1>2, <1>3, <1>4, <1>5, <1>7, <1>8, <1>9, <1>10, <1>11 DEF WindowOK, SameSegs, c

\* What an acknowledgement frees ends where a segment ends, and
\* ulCurrentSequenceNumber moves there.
LEMMA NewLeftEdge ==
    ASSUME NEW w, WindowOK(w), NEW last \in Int, w.cur < last, last <= w.highest,
           \A x \in DOMAIN w.segs : w.segs[x].acked => NotCut(x, End(w.segs, x), last)
    PROVE  LET done == Acked(w, w.cur, last)
               e == CheckAck(w, w.cur, last).cur
           IN  /\ e \in Int /\ w.cur <= e /\ e <= last
               /\ \A x \in done : x < w.highest /\ End(w.segs, x) <= e
               /\ \A x \in DOMAIN w.segs \ done : e <= x
<1> DEFINE done == Acked(w, w.cur, last)
           D == DOMAIN w.segs
           e == CheckAck(w, w.cur, last).cur
<1>1. /\ IsWindow(w) /\ Segs(w.segs) /\ Tiles(w.segs, w.cur, w.next)
      /\ w.cur \in Nat /\ w.highest \in Nat /\ w.next \in Nat
      /\ w.highest <= w.next /\ w.next <= StreamLength
  BY DEF WindowOK, Typed
<1>2. \A x \in D : x \in Int /\ w.segs[x].len \in 1..MSS /\ w.cur <= x
  BY <1>1 DEF Segs, Positions, SegmentType, Tiles
<1>3. \A x, y \in D : x < y => End(w.segs, x) <= y
  BY <1>1 DEF Tiles
<1>4. w.cur \in D
  <2>1. w.cur \in w.cur..w.next - 1
    BY <1>1
  <2>2. PICK x \in D : x <= w.cur /\ w.cur < End(w.segs, x)
    BY <1>1, <2>1 DEF Tiles
  <2>3. x = w.cur
    BY <1>1, <1>2, <2>2
  <2> QED BY <2>3
<1>5. done = {x \in D : x < last /\ End(w.segs, x) <= last}
  <2>1. \A x \in D : w.segs[x].acked /\ x < last => x + w.segs[x].len <= last
    BY DEF NotCut, End
  <2> QED BY <1>2, <1>4, <2>1 DEF Acked, End
<1>6. e = IF done = {} THEN w.cur
          ELSE CHOOSE i \in {x + w.segs[x].len : x \in done} : \A x \in done : x < i
  BY <1>1, CheckAckCur DEF Freed
<1> HIDE DEF e, done
<1>7. /\ e \in Int /\ w.cur <= e /\ e <= last
      /\ \A x \in done : End(w.segs, x) <= e
      /\ done # {} => \E z \in done : e = End(w.segs, z)
  <2>1. CASE done = {}
    BY <1>1, <1>6, <2>1
  <2>2. CASE done # {}
    <3> DEFINE Ends == {x + w.segs[x].len : x \in done}
    <3>1. Ends \in SUBSET (0..StreamLength) /\ Ends # {}
      <4>1. ASSUME NEW x \in done PROVE x + w.segs[x].len \in 0..StreamLength
        BY <1>1, <1>2, <1>5, SizesAssumption DEF End
      <4> QED BY <2>2, <4>1
    <3>2. PICK i \in Ends : \A j \in Ends : j <= i
      <4> HIDE DEF Ends
      <4> QED BY <3>1, LargestExists, SizesAssumption
    <3>3. \A x \in done : x < i
      <4> SUFFICES ASSUME NEW x \in done PROVE x < i
        OBVIOUS
      <4>1. x + w.segs[x].len <= i /\ i \in Int
        BY <3>1, <3>2
      <4> QED BY <1>2, <1>5, <4>1, SizesAssumption
    <3>4. e \in Ends /\ \A x \in done : x < e
      <4>1. \E j \in Ends : \A x \in done : x < j
        BY <3>3
      <4>2. e = CHOOSE j \in Ends : \A x \in done : x < j
        BY <1>6, <2>2
      <4> HIDE DEF Ends
      <4> QED BY <4>1, <4>2
    <3>5. PICK z \in done : e = z + w.segs[z].len
      BY <3>4
    <3>6. z \in D /\ End(w.segs, z) <= last /\ w.cur <= z /\ z \in Int /\ w.segs[z].len \in 1..MSS
      BY <1>2, <1>5
    <3>7. ASSUME NEW x \in done PROVE End(w.segs, x) <= e
      <4>1. x \in D /\ x < e /\ x \in Int /\ w.segs[x].len \in 1..MSS
        BY <1>2, <1>5, <3>4
      <4>2. ~(z < x)
        BY <1>3, <3>5, <3>6, <4>1, SizesAssumption DEF End
      <4>3. CASE x = z
        BY <3>5, <4>3, <3>6, SizesAssumption DEF End
      <4>4. CASE x < z
        BY <1>3, <3>5, <3>6, <4>1, <4>4, SizesAssumption DEF End
      <4> QED BY <3>6, <4>1, <4>2, <4>3, <4>4
    <3> QED BY <1>1, <3>5, <3>6, <3>7, SizesAssumption DEF End
  <2> QED BY <2>1, <2>2
<1>8. ASSUME NEW x \in D \ done PROVE e <= x
  <2>1. x \in Int /\ w.cur <= x /\ ~(x < last /\ End(w.segs, x) <= last)
    BY <1>2, <1>5
  <2>2. CASE done = {}
    BY <1>6, <2>1, <2>2
  <2>3. CASE done # {}
    <3>1. PICK z \in done : e = End(w.segs, z)
      BY <1>7, <2>3
    <3>2. z \in D /\ z < last /\ e <= last /\ z # x /\ z \in Int
      BY <1>2, <1>5, <1>7, <3>1
    <3>3. ~(x < z)
      <4>1. SUFFICES ASSUME x < z PROVE FALSE
        OBVIOUS
      <4>2. End(w.segs, x) <= z /\ End(w.segs, x) \in Int
        BY <1>2, <1>3, <3>2, <4>1, SizesAssumption DEF End
      <4> QED BY <2>1, <3>2, <4>1, <4>2
    <3> QED BY <1>3, <2>1, <3>1, <3>2, <3>3
  <2> QED BY <2>2, <2>3
<1>9. ASSUME NEW x \in done PROVE x < w.highest
  BY <1>1, <1>2, <1>5
<1> QED BY <1>7, <1>8, <1>9 DEF e, done

\* An acknowledgement: the segments it covers are freed, and no other.
LEMMA CheckAckFrees ==
    ASSUME NEW w, WindowOK(w), NEW last \in Int, w.cur < last, last <= w.highest,
           \A x \in DOMAIN w.segs : w.segs[x].acked => NotCut(x, End(w.segs, x), last)
    PROVE  LET c == CheckAck(w, w.cur, last)
           IN  /\ WindowOK(c) /\ DOMAIN c.segs \subseteq DOMAIN w.segs /\ SameSegs(w.segs, c.segs)
               /\ w.cur <= c.cur /\ c.cur <= last /\ c.next = w.next /\ c.highest = w.highest
               /\ \A x \in DOMAIN c.segs : c.segs[x].acked => w.segs[x].acked
<1> DEFINE c == CheckAck(w, w.cur, last)
           done == Acked(w, w.cur, last)
           rest == Kept(w, w.cur, last)
           D == DOMAIN w.segs
<1>1. /\ IsWindow(w) /\ Segs(w.segs) /\ SentBelow(w.segs, w.highest)
      /\ Tiles(w.segs, w.cur, w.next) /\ Queues(w) /\ GrowsAtEnd(w)
      /\ w.cur \in Nat /\ w.highest \in Nat /\ w.next \in Nat
      /\ w.highest <= w.next /\ w.next <= StreamLength
  BY DEF WindowOK, Typed
<1>2. /\ IsWindow(c) /\ IsFcn(c.segs) /\ DOMAIN c.segs = D \ done
      /\ c.prio = Only(w.prio, rest) /\ c.tx = Only(w.tx, rest) /\ c.wait = Only(w.wait, rest)
      /\ c.growing = w.growing /\ c.next = w.next
      /\ c.highest = w.highest /\ c.size = w.size
  <2>1. Freed(w, w.cur, last) = done
    BY DEF Freed
  <2>2. IsWindow(c)
    BY <1>1, CheckAckWindow
  <2>3. /\ IsFcn(c.segs) /\ DOMAIN c.segs = D \ Freed(w, w.cur, last)
        /\ c.prio = Only(w.prio, rest) /\ c.tx = Only(w.tx, rest) /\ c.wait = Only(w.wait, rest)
        /\ c.growing = w.growing /\ c.next = w.next
        /\ c.highest = w.highest /\ c.size = w.size
    BY <1>1, CheckAckFields
  <2> QED BY <2>1, <2>2, <2>3
<1>3. /\ c.cur \in Int /\ w.cur <= c.cur /\ c.cur <= last
      /\ \A x \in done : x < w.highest /\ End(w.segs, x) <= c.cur
      /\ \A x \in D \ done : c.cur <= x
  BY NewLeftEdge
<1>4. \A x \in DOMAIN c.segs :
        /\ c.segs[x] \in SegmentType /\ c.segs[x].len = w.segs[x].len
        /\ c.segs[x].pos = w.segs[x].pos
        /\ c.segs[x].outstanding = w.segs[x].outstanding
        /\ c.segs[x].acked <=> w.segs[x].acked
  <2>1. Freed(w, w.cur, last) = done
    BY DEF Freed
  <2>2. DOMAIN c.segs = DOMAIN w.segs \ Freed(w, w.cur, last)
    BY <1>2, <2>1
  <2> SUFFICES ASSUME NEW x \in DOMAIN w.segs \ Freed(w, w.cur, last)
               PROVE  /\ c.segs[x] \in SegmentType /\ c.segs[x].len = w.segs[x].len
                      /\ c.segs[x].pos = w.segs[x].pos
                      /\ c.segs[x].outstanding = w.segs[x].outstanding
                      /\ c.segs[x].acked <=> w.segs[x].acked
    BY <2>2
  <2>3. x \notin done
    BY <2>1
  <2> HIDE DEF done
  <2> QED BY <1>1, <2>3, SegmentsMarked DEF done
<1> HIDE DEF c
<1>e. DOMAIN c.segs \subseteq D /\ \A x \in DOMAIN c.segs : End(c.segs, x) = End(w.segs, x)
  BY <1>2, <1>4 DEF End
<1>n. \A x \in D : x \in Int /\ w.segs[x].len \in 1..MSS /\ End(w.segs, x) \in Int
  BY <1>1, SizesAssumption DEF Segs, Positions, SegmentType, End
<1>5. Segs(c.segs)
  BY <1>1, <1>2, <1>4, <1>e DEF Segs
<1>6. Tiles(c.segs, c.cur, c.next)
  <2>1. \A x \in DOMAIN c.segs : c.cur <= x /\ End(c.segs, x) <= c.next
    BY <1>1, <1>2, <1>3, <1>e DEF Tiles
  <2>2. \A x, y \in DOMAIN c.segs : x < y => End(c.segs, x) <= y
    BY <1>1, <1>e DEF Tiles
  <2>3. ASSUME NEW i \in c.cur..c.next - 1
        PROVE  \E x \in DOMAIN c.segs : x <= i /\ i < End(c.segs, x)
    <3>1. i \in w.cur..w.next - 1
      BY <1>1, <1>2, <1>3
    <3>2. PICK x \in D : x <= i /\ i < End(w.segs, x)
      BY <1>1, <3>1 DEF Tiles
    <3>3. x \notin done
      <4>1. c.cur <= i
        BY <1>1, <1>2, <1>3
      <4> HIDE DEF done
      <4> QED BY <1>3, <1>n, <3>2, <4>1
    <3> QED BY <1>2, <1>e, <3>2, <3>3
  <2> QED BY <2>1, <2>2, <2>3 DEF Tiles
<1>7. SentBelow(c.segs, c.highest)
  BY <1>1, <1>2, <1>4, <1>e DEF SentBelow
<1>8. GrowsAtEnd(c)
  <2>1. SUFFICES ASSUME c.growing # Missing
                 PROVE  /\ c.growing \in DOMAIN c.segs /\ c.growing >= c.highest
                        /\ End(c.segs, c.growing) = c.next /\ c.segs[c.growing].len < MSS
    BY DEF GrowsAtEnd
  <2>2. /\ w.growing \in D /\ w.growing >= w.highest
        /\ End(w.segs, w.growing) = w.next /\ w.segs[w.growing].len < MSS
    BY <1>1, <1>2, <2>1 DEF GrowsAtEnd
  <2>3. w.growing \notin done
    <3> HIDE DEF done
    <3> QED BY <1>1, <1>3, <1>n, <2>2
  <2>4. w.growing \in DOMAIN c.segs
    BY <1>2, <2>2, <2>3
  <2> QED BY <1>2, <1>4, <1>e, <2>2, <2>4
<1>9. Queues(c) /\ c.prio \in Seq(Positions) /\ c.tx \in Seq(Positions) /\ c.wait \in Seq(Positions)
  <2>1. done \subseteq {x \in D : x < w.highest}
    <3>1. done \subseteq D
      BY DEF Acked
    <3> HIDE DEF done
    <3> QED BY <1>3, <3>1
  <2>2. rest = D \ done
    BY DEF Kept
  <2> HIDE DEF done
  <2>3. /\ c.tx = w.tx
        /\ c.prio \in Seq(Positions) /\ c.wait \in Seq(Positions)
        /\ IsInjective(c.prio) /\ IsInjective(c.wait)
        /\ ToSet(c.prio) \cap ToSet(c.wait) = {}
        /\ ToSet(c.prio) \cup ToSet(c.wait) =
             {x \in D : x < w.highest /\ ~w.segs[x].acked /\ x \notin done}
    <3>1. /\ Only(w.tx, rest) = w.tx
          /\ Only(w.prio, rest) \in Seq(Positions) /\ Only(w.wait, rest) \in Seq(Positions)
          /\ IsInjective(Only(w.prio, rest)) /\ IsInjective(Only(w.wait, rest))
          /\ ToSet(Only(w.prio, rest)) \cap ToSet(Only(w.wait, rest)) = {}
          /\ ToSet(Only(w.prio, rest)) \cup ToSet(Only(w.wait, rest)) =
               {x \in D : x < w.highest /\ ~w.segs[x].acked /\ x \notin done}
      BY <2>1, <2>2, QueuesFiltered
    <3> HIDE DEF rest, D
    <3> QED BY <1>2, <3>1
  <2>4. c.tx \in Seq(Positions)
    BY <2>3 DEF WindowOK, Typed
  <2>5. {x \in D : x < w.highest /\ ~w.segs[x].acked /\ x \notin done}
          = {x \in DOMAIN c.segs : x < c.highest /\ ~c.segs[x].acked}
    BY <1>2, <1>4
  <2>6. ToSet(c.tx) = {x \in DOMAIN c.segs : x >= c.highest}
    <3>1. \A x \in D : x >= w.highest => x \notin done
      BY <1>1, <1>n, <2>1
    <3> QED BY <1>1, <1>2, <2>3, <3>1 DEF Queues
  <2> QED BY <1>1, <1>2, <2>3, <2>4, <2>5, <2>6 DEF Queues
<1>10. Typed(c)
  <2>1. c.cur \in Nat /\ c.cur <= c.highest
    BY <1>1, <1>2, <1>3
  <2> QED BY <1>2, <1>5, <1>9, <2>1 DEF WindowOK, Typed
<1> QED BY <1>2, <1>3, <1>4, <1>e, <1>5, <1>6, <1>7, <1>8, <1>9, <1>10 DEF WindowOK, SameSegs, c

----------------------------------------------------------------------------
(* SACKs and acknowledgements: ulTCPWindowTxSack, ulTCPWindowTxAck *)

\* A duplicate acknowledgement changes two counters of a segment.
LEMMA PassOverFacts ==
    ASSUME NEW r \in SegmentType, NEW b \in BOOLEAN
    PROVE  LET m == PassOver(r, b)
           IN  /\ m \in SegmentType /\ m.len = r.len /\ m.pos = r.pos
               /\ m.outstanding = r.outstanding /\ m.acked = r.acked
<1> DEFINE d == Least(r.dup + 1, MaxDup)
           n == IF b THEN 0 ELSE r.count
<1>1. MaxDup \in Nat /\ MaxCount \in Nat
  BY SizesAssumption DEF MaxDup, MaxCount
<1>2. d \in 0..MaxDup /\ n \in 0..MaxCount
  BY <1>1 DEF SegmentType, Least
<1>3. PassOver(r, b) = [r EXCEPT !.dup = d, !.count = n]
  BY DEF PassOver, SegmentType
<1> HIDE DEF d, n
<1> QED BY <1>2, <1>3 DEF SegmentType

\* What is not repeated at once stays in xWaitQueue.
StillWaits(w, first) == DOMAIN w.segs \ Again(w, first)

LEMMA FastRetransmitFields ==
    ASSUME NEW w, IsWindow(w), NEW first
    PROVE  LET f == FastRetransmit(w, first)
           IN  /\ IsFcn(f.segs) /\ DOMAIN f.segs = DOMAIN w.segs
               /\ f.prio = w.prio \o Only(w.wait, Again(w, first))
               /\ f.wait = Only(w.wait, StillWaits(w, first))
               /\ f.tx = w.tx /\ f.growing = w.growing /\ f.cur = w.cur /\ f.next = w.next
               /\ f.highest = w.highest /\ f.size = w.size
BY DEF IsWindow, FastRetransmit, IsFcn, StillWaits

LEMMA FastRetransmitWindow ==
    ASSUME NEW w, IsWindow(w), NEW first PROVE IsWindow(FastRetransmit(w, first))
BY DEF IsWindow, FastRetransmit

LEMMA FastRetransmitSegs ==
    ASSUME NEW w, IsWindow(w), NEW first, NEW x \in DOMAIN w.segs
    PROVE  FastRetransmit(w, first).segs[x] =
             IF x \in Passed(w, first) THEN PassOver(w.segs[x], x \in Again(w, first))
             ELSE w.segs[x]
BY DEF IsWindow, FastRetransmit

\* Segments move from xWaitQueue to xPriorityQueue, none is lost or doubled.
LEMMA FastRetransmitKeeps ==
    ASSUME NEW w, WindowOK(w), NEW first
    PROVE  LET f == FastRetransmit(w, first)
           IN  /\ WindowOK(f) /\ DOMAIN f.segs = DOMAIN w.segs /\ SameSegs(w.segs, f.segs)
               /\ f.cur = w.cur /\ f.next = w.next /\ f.highest = w.highest
               /\ \A x \in DOMAIN f.segs : f.segs[x].acked = w.segs[x].acked
<1> DEFINE f == FastRetransmit(w, first)
           again == Again(w, first)
           rest == StillWaits(w, first)
           D == DOMAIN w.segs
<1>1. /\ IsWindow(w) /\ Segs(w.segs) /\ SentBelow(w.segs, w.highest)
      /\ Tiles(w.segs, w.cur, w.next) /\ Queues(w) /\ GrowsAtEnd(w)
      /\ w.prio \in Seq(Positions) /\ w.wait \in Seq(Positions)
  BY DEF WindowOK, Typed
<1>2. /\ IsFcn(f.segs) /\ DOMAIN f.segs = D
      /\ f.prio = w.prio \o Only(w.wait, again) /\ f.wait = Only(w.wait, rest)
      /\ f.tx = w.tx /\ f.growing = w.growing /\ f.cur = w.cur /\ f.next = w.next
      /\ f.highest = w.highest /\ f.size = w.size
  BY <1>1, FastRetransmitFields
<1>3. IsWindow(f)
  BY <1>1, FastRetransmitWindow
<1>4. \A x \in D : /\ f.segs[x] \in SegmentType /\ f.segs[x].len = w.segs[x].len
                   /\ f.segs[x].pos = w.segs[x].pos
                   /\ f.segs[x].outstanding = w.segs[x].outstanding
                   /\ f.segs[x].acked = w.segs[x].acked
  <2> SUFFICES ASSUME NEW x \in D
               PROVE  /\ f.segs[x] \in SegmentType /\ f.segs[x].len = w.segs[x].len
                      /\ f.segs[x].pos = w.segs[x].pos
                      /\ f.segs[x].outstanding = w.segs[x].outstanding
                      /\ f.segs[x].acked = w.segs[x].acked
    OBVIOUS
  <2> DEFINE b == x \in again
             m == f.segs[x]
  <2>1. b \in BOOLEAN /\ w.segs[x] \in SegmentType
    BY <1>1 DEF Segs
  <2>2. m = IF x \in Passed(w, first) THEN PassOver(w.segs[x], b) ELSE w.segs[x]
    BY <1>1, FastRetransmitSegs
  <2> HIDE DEF b, m
  <2>3. /\ m \in SegmentType /\ m.len = w.segs[x].len /\ m.pos = w.segs[x].pos
        /\ m.outstanding = w.segs[x].outstanding /\ m.acked = w.segs[x].acked
    BY <2>1, <2>2, PassOverFacts
  <2> QED BY <2>3 DEF m
<1>5. again \subseteq ToSet(w.wait) /\ rest = D \ again
  BY DEF Again, Passed, StillWaits
<1> HIDE DEF f, again, rest
<1>6. \A x \in D : End(f.segs, x) = End(w.segs, x)
  BY <1>4 DEF End
<1>7. Segs(f.segs)
  BY <1>1, <1>2, <1>4 DEF Segs
<1>8. Tiles(f.segs, f.cur, f.next)
  BY <1>1, <1>2, <1>6 DEF Tiles
<1>9. SentBelow(f.segs, f.highest)
  BY <1>1, <1>2, <1>4, <1>6 DEF SentBelow
<1>10. GrowsAtEnd(f)
  BY <1>1, <1>2, <1>4, <1>6 DEF GrowsAtEnd
<1>11. Queues(f) /\ f.prio \in Seq(Positions) /\ f.wait \in Seq(Positions)
  <2> DEFINE moved == Only(w.wait, again)
             wait == Only(w.wait, rest)
  <2>1. /\ IsInjective(w.prio) /\ IsInjective(w.wait)
        /\ ToSet(w.prio) \cap ToSet(w.wait) = {}
        /\ ToSet(w.prio) \cup ToSet(w.wait) = {x \in D : x < w.highest /\ ~w.segs[x].acked}
    BY <1>1 DEF Queues
  <2>2. /\ moved \in Seq(Positions) /\ IsInjective(moved)
        /\ ToSet(moved) = ToSet(w.wait) \cap again
    BY <1>1, <2>1, OnlyFacts
  <2>3. /\ wait \in Seq(Positions) /\ IsInjective(wait)
        /\ ToSet(wait) = ToSet(w.wait) \cap rest
    BY <1>1, <2>1, OnlyFacts
  <2>4. f.prio = w.prio \o moved /\ f.wait = wait
    BY <1>2
  <2> HIDE DEF moved, wait
  <2>5. /\ f.prio \in Seq(Positions) /\ ToSet(f.prio) = ToSet(w.prio) \cup ToSet(moved)
        /\ IsInjective(f.prio)
    <3>1. ToSet(w.prio) \cap ToSet(moved) = {}
      BY <2>1, <2>2
    <3> QED BY <1>1, <2>1, <2>2, <2>4, <3>1, ConcatFacts
  <2>6. ToSet(w.wait) \subseteq D
    BY <2>1
  <2>7. /\ ToSet(f.prio) \cap ToSet(f.wait) = {}
        /\ ToSet(f.prio) \cup ToSet(f.wait) = ToSet(w.prio) \cup ToSet(w.wait)
    BY <1>5, <2>1, <2>2, <2>3, <2>4, <2>5, <2>6
  <2>8. {x \in D : x < w.highest /\ ~w.segs[x].acked}
          = {x \in DOMAIN f.segs : x < f.highest /\ ~f.segs[x].acked}
    BY <1>2, <1>4
  <2> QED BY <1>1, <1>2, <2>1, <2>3, <2>4, <2>5, <2>7, <2>8 DEF Queues
<1>12. Typed(f)
  BY <1>2, <1>3, <1>7, <1>11 DEF WindowOK, Typed
<1> QED BY <1>2, <1>4, <1>8, <1>9, <1>10, <1>11, <1>12 DEF WindowOK, SameSegs, f

\* A SACK of a block past the left edge.
LEMMA TxSackKeeps ==
    ASSUME NEW w, WindowOK(w), NEW sack,
           sack # <<>> => /\ sack[1] \in Int /\ sack[2] \in Int
                          /\ w.cur < sack[1] /\ sack[2] <= w.highest
    PROVE  LET s == TxSack(w, sack)
           IN  /\ WindowOK(s) /\ DOMAIN s.segs = DOMAIN w.segs /\ SameSegs(w.segs, s.segs)
               /\ s.cur = w.cur /\ s.next = w.next /\ s.highest = w.highest
               /\ \A x \in DOMAIN s.segs : s.segs[x].acked =>
                    \/ w.segs[x].acked
                    \/ sack # <<>> /\ sack[1] <= x /\ End(w.segs, x) <= sack[2]
<1>1. CASE sack = <<>>
  BY <1>1 DEF TxSack, SameSegs
<1>2. CASE sack # <<>>
  <2> DEFINE c == CheckAck(w, sack[1], sack[2])
             s == TxSack(w, sack)
  <2>1. sack[1] \in Int /\ sack[2] \in Int /\ sack[1] # w.cur /\ sack[2] <= w.highest
    BY <1>2 DEF WindowOK, Typed
  <2>2. /\ WindowOK(c) /\ DOMAIN c.segs = DOMAIN w.segs /\ SameSegs(w.segs, c.segs)
        /\ c.cur = w.cur /\ c.next = w.next /\ c.highest = w.highest
        /\ \A x \in DOMAIN c.segs : c.segs[x].acked =>
             w.segs[x].acked \/ (sack[1] <= x /\ End(w.segs, x) <= sack[2])
    BY <2>1, CheckAckMarks
  <2>3. s = FastRetransmit(c, sack[1])
    BY <1>2 DEF TxSack
  <2> HIDE DEF c, s
  <2>4. /\ WindowOK(s) /\ DOMAIN s.segs = DOMAIN c.segs /\ SameSegs(c.segs, s.segs)
        /\ s.cur = c.cur /\ s.next = c.next /\ s.highest = c.highest
        /\ \A x \in DOMAIN s.segs : s.segs[x].acked = c.segs[x].acked
    BY <2>2, <2>3, FastRetransmitKeeps
  <2> QED BY <1>2, <2>2, <2>4 DEF SameSegs, s
<1> QED BY <1>1, <1>2

\* An acknowledgement that cuts no segment that was SACKed.
LEMMA TxAckKeeps ==
    ASSUME NEW w, WindowOK(w), NEW ack \in Int, ack <= w.highest,
           \A x \in DOMAIN w.segs : w.segs[x].acked => NotCut(x, End(w.segs, x), ack)
    PROVE  LET c == TxAck(w, ack)
           IN  /\ WindowOK(c) /\ DOMAIN c.segs \subseteq DOMAIN w.segs /\ SameSegs(w.segs, c.segs)
               /\ w.cur <= c.cur /\ (w.cur <= ack => c.cur <= ack)
               /\ c.next = w.next /\ c.highest = w.highest
               /\ \A x \in DOMAIN c.segs : c.segs[x].acked => w.segs[x].acked
<1>0. w.cur \in Nat
  BY DEF WindowOK, Typed
<1>1. CASE ack <= w.cur
  BY <1>0, <1>1 DEF TxAck, SameSegs
<1>2. CASE ~(ack <= w.cur)
  <2>1. w.cur < ack /\ TxAck(w, ack) = CheckAck(w, w.cur, ack)
    BY <1>0, <1>2 DEF TxAck
  <2> QED BY <2>1, CheckAckFrees
<1> QED BY <1>1, <1>2

----------------------------------------------------------------------------
(* Remainders *)

LEMMA Divide ==
    ASSUME NEW a \in Int, NEW n \in Nat \ {0}
    PROVE  a % n \in 0..n - 1 /\ a \div n \in Int /\ a = n * (a \div n) + (a % n)
OBVIOUS

LEMMA Remainder ==
    ASSUME NEW n \in Nat \ {0}, NEW k \in Int, NEW r \in 0..n - 1
    PROVE  (n * k + r) % n = r
OBVIOUS

LEMMA Small ==
    ASSUME NEW n \in Nat \ {0}, NEW r \in 0..n - 1
    PROVE  r % n = r
OBVIOUS

LEMMA AddToRemainder ==
    ASSUME NEW n \in Nat \ {0}, NEW a \in Int, NEW b \in Int
    PROVE  ((a % n) + b) % n = (a + b) % n
<1> DEFINE q == (a + b) \div n
           r == (a + b) % n
           p == a \div n
           s == a % n
<1>1. s \in 0..n - 1 /\ p \in Int /\ a = n * p + s
  BY Divide
<1>2. r \in 0..n - 1 /\ q \in Int /\ a + b = n * q + r
  BY Divide
<1> HIDE DEF p, q, r, s
<1>3. n * (q - p) = n * q - n * p
  BY <1>1, <1>2
<1>4. s + b = n * (q - p) + r
  BY <1>1, <1>2, <1>3
<1>5. (n * (q - p) + r) % n = r
  BY <1>1, <1>2, Remainder
<1> QED BY <1>4, <1>5 DEF r, s

\* The distance of a position from the tail, in a circular buffer of n cells.
LEMMA Distance ==
    ASSUME NEW n \in Nat \ {0}, NEW t \in Nat, NEW x \in Nat, t <= x, x < t + n
    PROVE  t + (((x % n) - t) % n) = x
<1> DEFINE q == x \div n
           s == x % n
<1>1. s \in 0..n - 1 /\ q \in Int /\ x = n * q + s
  BY Divide
<1> DEFINE k == -q
           d == x - t
<1>2. n * k = -(n * q) /\ k \in Int /\ d \in 0..n - 1
  BY <1>1
<1> HIDE DEF q, s
<1>3. s - t = n * k + d
  BY <1>1, <1>2
<1>4. t + d = x
  OBVIOUS
<1> HIDE DEF k, d
<1>5. (n * k + d) % n = d
  BY <1>2, Remainder
<1> QED BY <1>3, <1>4, <1>5 DEF s

\* The index in txStream of a position.
Wrapped(x) == x % LENGTH

LEMMA WrappedRange ==
    ASSUME NEW x \in Int
    PROVE  Wrapped(x) \in 0..LENGTH - 1 /\ Wrapped(x) \in Int
BY SizesAssumption, Divide DEF Wrapped

LEMMA WrappedSum ==
    ASSUME NEW x \in Int, NEW y \in Int
    PROVE  Wrapped(Wrapped(x) + y) = Wrapped(x + y)
BY SizesAssumption, AddToRemainder DEF Wrapped

LEMMA WrappedDistance ==
    ASSUME NEW t \in Nat, NEW x \in Nat, t <= x, x < t + LENGTH
    PROVE  t + Wrapped(Wrapped(x) - t) = x
BY SizesAssumption, Distance DEF Wrapped

----------------------------------------------------------------------------
(* Sending a segment: ulTCPWindowTxGet *)

\* The head of a queue.
LEMMA HeadFacts ==
    ASSUME NEW S, NEW q \in Seq(S), q # <<>>
    PROVE  Len(q) >= 1 /\ Head(q) = q[1] /\ Head(q) \in S /\ Head(q) \in ToSet(q)
<1>1. Len(q) >= 1 /\ 1 \in DOMAIN q /\ Head(q) = q[1] /\ q[1] \in S
  OBVIOUS
<1> QED BY <1>1 DEF ToSet

\* An ascending queue repeats nothing, and its head is its least element.
LEMMA AscendingFacts ==
    ASSUME NEW q \in Seq(Positions), \A i, j \in 1..Len(q) : i < j => q[i] < q[j]
    PROVE  IsInjective(q) /\ \A z \in ToSet(q) : z = q[1] \/ q[1] < z
<1>1. DOMAIN q = 1..Len(q) /\ Len(q) \in Nat /\ \A i \in 1..Len(q) : q[i] \in Int
  BY SizesAssumption DEF Positions
<1>2. IsInjective(q)
  BY <1>1 DEF IsInjective
<1>3. ASSUME NEW i \in 1..Len(q) PROVE q[i] = q[1] \/ q[1] < q[i]
  BY <1>1
<1> QED BY <1>1, <1>2, <1>3 DEF ToSet

\* The same without its head.
LEMMA TailAscends ==
    ASSUME NEW q \in Seq(Positions), q # <<>>, \A i, j \in 1..Len(q) : i < j => q[i] < q[j]
    PROVE  \A i, j \in 1..Len(Tail(q)) : i < j => Tail(q)[i] < Tail(q)[j]
<1> DEFINE t == Tail(q)
<1>1. Len(t) = Len(q) - 1 /\ Len(q) \in Nat /\ \A i \in 1..Len(t) : t[i] = q[i + 1]
  OBVIOUS
<1> HIDE DEF t
<1>2. ASSUME NEW i \in 1..Len(t), NEW j \in 1..Len(t), i < j PROVE t[i] < t[j]
  <2>1. i + 1 \in 1..Len(q) /\ j + 1 \in 1..Len(q) /\ i + 1 < j + 1
    BY <1>1, <1>2
  <2> QED BY <1>1, <2>1
<1> QED BY <1>2 DEF t

LEMMA TransmittedFacts ==
    ASSUME NEW r \in SegmentType, NEW n \in 0..MaxCount, NEW b \in BOOLEAN
    PROVE  LET m == Transmitted(r, n, b)
           IN  /\ m \in SegmentType /\ m.len = r.len /\ m.pos = r.pos
               /\ m.outstanding = TRUE /\ m.acked = r.acked
<1> DEFINE d == IF b THEN 0 ELSE r.dup
<1>1. d \in 0..MaxDup
  BY SizesAssumption DEF SegmentType, MaxDup
<1>2. Transmitted(r, n, b) = [r EXCEPT !.outstanding = TRUE, !.count = n, !.dup = d]
  BY DEF Transmitted, SegmentType
<1> HIDE DEF d
<1> QED BY <1>1, <1>2 DEF SegmentType

LEMMA SentFields ==
    ASSUME NEW w, IsWindow(w), NEW x, x # Missing
    PROVE  LET s == Sent(w, x)
           IN  /\ s.prio = Rest(w.prio, x) /\ s.tx = Rest(w.tx, x)
               /\ s.wait = Append(Rest(w.wait, x), x)
               /\ s.growing = IF w.growing = x THEN Missing ELSE w.growing
               /\ s.cur = w.cur /\ s.next = w.next
               /\ s.highest = IF x \in ToSet(w.tx) THEN x + w.segs[x].len ELSE w.highest
               /\ s.size = w.size \/ s.size = Least(w.size, 2 * MSS)
BY DEF IsWindow, Sent

LEMMA SentWindow ==
    ASSUME NEW w, IsWindow(w), NEW x PROVE IsWindow(Sent(w, x))
BY DEF IsWindow, Sent

LEMMA SentSegs ==
    ASSUME NEW w, IsWindow(w), IsFcn(w.segs), NEW x \in DOMAIN w.segs, x # Missing
    PROVE  LET s == Sent(w, x)
               n == Least(w.segs[x].count + 1, MaxCount)
               b == w.prio = <<>> /\ x \in ToSet(w.wait)
           IN  /\ IsFcn(s.segs) /\ DOMAIN s.segs = DOMAIN w.segs
               /\ s.segs[x] = Transmitted(w.segs[x], n, b)
               /\ \A y \in DOMAIN w.segs : y # x => s.segs[y] = w.segs[y]
BY DEF IsWindow, Sent, IsFcn
\* The segments after one of them is sent.
LEMMA SentSegments ==
    ASSUME NEW w, WindowOK(w), NEW x \in DOMAIN w.segs
    PROVE  LET s == Sent(w, x)
           IN  /\ Segs(s.segs) /\ DOMAIN s.segs = DOMAIN w.segs
               /\ s.segs[x].outstanding = TRUE
               /\ \A y \in DOMAIN w.segs :
                    /\ s.segs[y].len = w.segs[y].len /\ s.segs[y].pos = w.segs[y].pos
                    /\ s.segs[y].acked = w.segs[y].acked
                    /\ y # x => s.segs[y].outstanding = w.segs[y].outstanding
               /\ s.size \in 0..TxWindow
<1> DEFINE s == Sent(w, x)
           n == Least(w.segs[x].count + 1, MaxCount)
           b == w.prio = <<>> /\ x \in ToSet(w.wait)
<1>1. IsWindow(w) /\ Segs(w.segs) /\ w.size \in 0..TxWindow
  BY DEF WindowOK, Typed
<1>2. x # Missing /\ w.segs[x] \in SegmentType
  BY <1>1, MissingAssumption, SizesAssumption DEF Segs, Positions
<1>3. /\ IsFcn(s.segs) /\ DOMAIN s.segs = DOMAIN w.segs
      /\ s.segs[x] = Transmitted(w.segs[x], n, b)
      /\ \A y \in DOMAIN w.segs : y # x => s.segs[y] = w.segs[y]
  BY <1>1, <1>2, SentSegs DEF Segs
<1>4. n \in 0..MaxCount /\ b \in BOOLEAN
  BY <1>2, SizesAssumption DEF SegmentType, MaxCount, Least
<1>5. s.size = w.size \/ s.size = Least(w.size, 2 * MSS)
  BY <1>1, <1>2, SentFields
<1> HIDE DEF s, n, b
<1>6. /\ s.segs[x] \in SegmentType /\ s.segs[x].len = w.segs[x].len
      /\ s.segs[x].pos = w.segs[x].pos
      /\ s.segs[x].outstanding = TRUE /\ s.segs[x].acked = w.segs[x].acked
  <2> DEFINE r == w.segs[x]
             m == s.segs[x]
  <2>1. r \in SegmentType /\ m = Transmitted(r, n, b)
    BY <1>2, <1>3
  <2> HIDE DEF r, m
  <2>2. /\ m \in SegmentType /\ m.len = r.len /\ m.pos = r.pos
        /\ m.outstanding = TRUE /\ m.acked = r.acked
    BY <1>4, <2>1, TransmittedFacts
  <2> QED BY <2>2 DEF r, m
<1>7. s.size \in 0..TxWindow
  BY <1>1, <1>5, SizesAssumption DEF Least
<1>8. Segs(s.segs)
  BY <1>1, <1>3, <1>6 DEF Segs
<1> QED BY <1>3, <1>6, <1>7, <1>8 DEF s

\* What a segment that is sent leaves of a window whose queues stay in order.
LEMMA SentRest ==
    ASSUME NEW w, WindowOK(w), NEW x \in DOMAIN w.segs,
           Sent(w, x).highest >= w.highest, Sent(w, x).highest \in Nat,
           Sent(w, x).highest <= w.next,
           x < Sent(w, x).highest, x + w.segs[x].len <= Sent(w, x).highest,
           \A y \in DOMAIN w.segs : y < Sent(w, x).highest => y = x \/ y < w.highest,
           Queues(Sent(w, x)), Sent(w, x).prio \in Seq(Positions),
           Sent(w, x).tx \in Seq(Positions), Sent(w, x).wait \in Seq(Positions)
    PROVE  WindowOK(Sent(w, x)) /\ SameSegs(w.segs, Sent(w, x).segs)
<1> DEFINE s == Sent(w, x)
           D == DOMAIN w.segs
<1>1. /\ IsWindow(w) /\ Segs(w.segs) /\ SentBelow(w.segs, w.highest)
      /\ Tiles(w.segs, w.cur, w.next) /\ Queues(w) /\ GrowsAtEnd(w)
      /\ w.cur \in Nat /\ w.highest \in Nat /\ w.next \in Nat
      /\ w.cur <= w.highest /\ w.highest <= w.next /\ w.next <= StreamLength
  BY DEF WindowOK, Typed
<1>2. /\ Segs(s.segs) /\ DOMAIN s.segs = D /\ s.segs[x].outstanding = TRUE
      /\ \A y \in D :
            /\ s.segs[y].len = w.segs[y].len /\ s.segs[y].pos = w.segs[y].pos
            /\ s.segs[y].acked = w.segs[y].acked
            /\ y # x => s.segs[y].outstanding = w.segs[y].outstanding
      /\ s.size \in 0..TxWindow
  BY SentSegments
<1>3. x # Missing
  BY <1>1, MissingAssumption, SizesAssumption DEF Segs, Positions
<1>4. /\ s.growing = IF w.growing = x THEN Missing ELSE w.growing
      /\ s.cur = w.cur /\ s.next = w.next
  BY <1>1, <1>3, SentFields
<1>5. IsWindow(s)
  BY <1>1, SentWindow
<1>6. /\ s.highest >= w.highest /\ s.highest \in Nat /\ s.highest <= w.next
      /\ x < s.highest /\ x + w.segs[x].len <= s.highest
      /\ \A y \in D : y < s.highest => y = x \/ y < w.highest
      /\ Queues(s) /\ s.prio \in Seq(Positions)
      /\ s.tx \in Seq(Positions) /\ s.wait \in Seq(Positions)
  OBVIOUS
<1> HIDE DEF s
<1>7. \A y \in D : End(s.segs, y) = End(w.segs, y)
  BY <1>2 DEF End
<1>8. Tiles(s.segs, s.cur, s.next)
  BY <1>1, <1>2, <1>4, <1>7 DEF Tiles
<1>n. \A y \in D : y \in Int /\ End(w.segs, y) \in Int /\ y < End(w.segs, y)
  <2>1. \A y \in D : y \in Int /\ w.segs[y].len \in 1..MSS
    BY <1>1, SizesAssumption DEF Segs, Positions, SegmentType
  <2> HIDE DEF D
  <2>2. ASSUME NEW y \in D PROVE End(w.segs, y) \in Int /\ y < End(w.segs, y)
    <3>1. y \in Int /\ w.segs[y].len \in Int /\ w.segs[y].len > 0
      BY <2>1, SizesAssumption
    <3> QED BY <3>1 DEF End
  <2> QED BY <2>1, <2>2
<1>9. SentBelow(s.segs, s.highest)
  <2> SUFFICES ASSUME NEW y \in D
               PROVE  /\ s.segs[y].outstanding <=> y < s.highest
                      /\ y < s.highest => End(s.segs, y) <= s.highest
                      /\ s.segs[y].acked => y < s.highest
    BY <1>2 DEF SentBelow
  <2>1. /\ w.segs[y].outstanding <=> y < w.highest
        /\ y < w.highest => End(w.segs, y) <= w.highest
        /\ w.segs[y].acked => y < w.highest
    BY <1>1 DEF SentBelow
  <2>2. CASE y = x
    BY <1>2, <1>6, <1>7, <2>2 DEF End
  <2>3. CASE y # x
    <3>1. y < w.highest <=> y < s.highest
      <4>1. y \in Int /\ s.highest >= w.highest /\ (y < s.highest => y < w.highest)
            /\ s.highest \in Int /\ w.highest \in Int
        <5>1. y \in Int /\ s.highest \in Int /\ w.highest \in Int
          BY <1>1, <1>6, <1>n
        <5>2. y < s.highest => y < w.highest
          BY <1>6, <2>3
        <5> QED BY <1>6, <5>1, <5>2
      <4> QED BY <4>1
    <3>2. /\ s.segs[y].outstanding = w.segs[y].outstanding /\ s.segs[y].acked = w.segs[y].acked
      BY <1>2, <2>3
    <3>3. End(s.segs, y) = End(w.segs, y)
      BY <1>7
    <3>4. y < s.highest => End(s.segs, y) <= s.highest
      <4>1. End(w.segs, y) \in Int /\ s.highest \in Int /\ w.highest \in Int /\ w.highest <= s.highest
        BY <1>1, <1>6, <1>n
      <4> QED BY <2>1, <3>1, <3>3, <4>1
    <3> QED BY <2>1, <3>1, <3>2, <3>4
  <2> QED BY <2>2, <2>3
<1>10. GrowsAtEnd(s)
  <2> SUFFICES ASSUME s.growing # Missing
               PROVE  /\ s.growing \in DOMAIN s.segs /\ s.growing >= s.highest
                      /\ End(s.segs, s.growing) = s.next /\ s.segs[s.growing].len < MSS
    BY DEF GrowsAtEnd
  <2>1. s.growing = w.growing /\ w.growing # x /\ w.growing # Missing
    BY <1>4
  <2>2. /\ w.growing \in D /\ w.growing >= w.highest
        /\ End(w.segs, w.growing) = w.next /\ w.segs[w.growing].len < MSS
    BY <1>1, <2>1 DEF GrowsAtEnd
  <2>3. w.growing >= s.highest
    <3>1. w.growing \in Int /\ ~(w.growing < w.highest)
      BY <1>1, <1>n, <2>2
    <3>2. ~(w.growing < s.highest)
      BY <1>6, <2>1, <2>2, <3>1
    <3> QED BY <1>6, <3>1, <3>2
  <2> QED BY <1>2, <1>4, <1>7, <2>1, <2>2, <2>3
<1>11. Typed(s)
  BY <1>1, <1>2, <1>4, <1>5, <1>6 DEF Typed
<1> QED BY <1>2, <1>6, <1>8, <1>9, <1>10, <1>11 DEF WindowOK, SameSegs, s

\* Segments are not empty.
LEMMA Numbers ==
    ASSUME NEW s, Segs(s)
    PROVE  \A x \in DOMAIN s : /\ x \in Nat /\ s[x].len \in 1..MSS
                              /\ End(s, x) \in Nat /\ x < End(s, x)
<1> SUFFICES ASSUME NEW x \in DOMAIN s
             PROVE  /\ x \in Nat /\ s[x].len \in 1..MSS /\ End(s, x) \in Nat /\ x < End(s, x)
  OBVIOUS
<1>1. x \in Nat /\ s[x].len \in 1..MSS
  BY SizesAssumption DEF Segs, Positions, SegmentType
<1> QED BY <1>1, SizesAssumption DEF End

\* The head of xTxQueue is the segment at ulHighestSequenceNumber.
LEMMA FirstUnsent ==
    ASSUME NEW w, WindowOK(w), w.tx # <<>>
    PROVE  /\ Head(w.tx) = w.highest /\ w.highest \in DOMAIN w.segs
           /\ w.tx[1] = w.highest /\ w.highest \in ToSet(w.tx)
<1> DEFINE D == DOMAIN w.segs
<1>1. /\ Tiles(w.segs, w.cur, w.next) /\ SentBelow(w.segs, w.highest)
      /\ w.cur \in Nat /\ w.highest \in Nat /\ w.next \in Nat /\ w.cur <= w.highest
      /\ w.tx \in Seq(Positions)
      /\ ToSet(w.tx) = {x \in D : x >= w.highest}
      /\ \A i, j \in 1..Len(w.tx) : i < j => w.tx[i] < w.tx[j]
  BY DEF WindowOK, Typed, Queues
<1>n. \A x \in D : x \in Nat /\ End(w.segs, x) \in Nat /\ x < End(w.segs, x)
  BY Numbers DEF WindowOK, Typed
<1>2. /\ Head(w.tx) = w.tx[1] /\ w.tx[1] \in ToSet(w.tx)
  BY <1>1, HeadFacts
<1>3. \A z \in ToSet(w.tx) : z = w.tx[1] \/ w.tx[1] < z
  BY <1>1, AscendingFacts
<1>4. w.tx[1] \in D /\ w.tx[1] >= w.highest
  BY <1>1, <1>2
<1>5. w.highest \in w.cur..w.next - 1
  <2>1. End(w.segs, w.tx[1]) <= w.next
    BY <1>1, <1>4 DEF Tiles
  <2>2. w.tx[1] \in Nat /\ End(w.segs, w.tx[1]) \in Nat /\ w.tx[1] < End(w.segs, w.tx[1])
    BY <1>4, <1>n
  <2>3. w.cur \in Nat /\ w.highest \in Nat /\ w.next \in Nat /\ w.cur <= w.highest
    BY <1>1
  <2>4. w.highest <= w.tx[1]
    BY <1>4, <2>2, <2>3
  <2> QED BY <2>1, <2>2, <2>3, <2>4
<1>6. PICK y \in D : y <= w.highest /\ w.highest < End(w.segs, y)
  BY <1>1, <1>5 DEF Tiles
<1>7. y = w.highest
  <2>1. SUFFICES ASSUME y < w.highest PROVE FALSE
    BY <1>1, <1>6, <1>n
  <2>2. End(w.segs, y) <= w.highest
    BY <1>1, <2>1 DEF SentBelow
  <2> QED BY <1>1, <1>6, <1>n, <2>2
<1>8. y \in ToSet(w.tx)
  BY <1>1, <1>7
<1>9. y = w.tx[1]
  BY <1>1, <1>3, <1>4, <1>7, <1>8, <1>n
<1> QED BY <1>2, <1>7, <1>8, <1>9

\* A segment is repeated: it goes to the end of xWaitQueue.
LEMMA SentAgain ==
    ASSUME NEW w, WindowOK(w), NEW x,
           \/ w.prio # <<>> /\ x = Head(w.prio)
           \/ w.wait # <<>> /\ x = Head(w.wait)
    PROVE  LET s == Sent(w, x)
           IN  /\ WindowOK(s) /\ SameSegs(w.segs, s.segs) /\ s.highest = w.highest
               /\ x \in DOMAIN w.segs /\ End(w.segs, x) <= s.highest
<1> DEFINE s == Sent(w, x)
           D == DOMAIN w.segs
<1>1. /\ IsWindow(w) /\ Segs(w.segs) /\ SentBelow(w.segs, w.highest)
      /\ w.highest \in Nat /\ w.next \in Nat /\ w.highest <= w.next
      /\ w.prio \in Seq(Positions) /\ w.tx \in Seq(Positions) /\ w.wait \in Seq(Positions)
      /\ ToSet(w.tx) = {y \in D : y >= w.highest}
      /\ \A i, j \in 1..Len(w.tx) : i < j => w.tx[i] < w.tx[j]
      /\ IsInjective(w.prio) /\ IsInjective(w.wait)
      /\ ToSet(w.prio) \cap ToSet(w.wait) = {}
      /\ ToSet(w.prio) \cup ToSet(w.wait) = {y \in D : y < w.highest /\ ~w.segs[y].acked}
  BY DEF WindowOK, Typed, Queues
<1>2. x \in D /\ x < w.highest /\ (x \in ToSet(w.prio) \/ x \in ToSet(w.wait)) /\ ~w.segs[x].acked
  <2>1. w.prio # <<>> => Head(w.prio) \in ToSet(w.prio)
    BY <1>1, HeadFacts
  <2>2. w.wait # <<>> => Head(w.wait) \in ToSet(w.wait)
    BY <1>1, HeadFacts
  <2> QED BY <1>1, <2>1, <2>2
<1>3. x \in Positions /\ x \in Int /\ x # Missing
  BY <1>1, <1>2, MissingAssumption, SizesAssumption DEF Segs, Positions
<1>4. x \notin ToSet(w.tx)
  BY <1>1, <1>2, <1>3
<1>5. Rest(w.tx, x) = w.tx
  <2>1. ~(w.tx # <<>> /\ Head(w.tx) = x)
    BY <1>1, <1>4, HeadFacts
  <2> QED BY <2>1 DEF Rest
<1>6. /\ s.prio = Rest(w.prio, x) /\ s.tx = w.tx /\ s.wait = Append(Rest(w.wait, x), x)
      /\ s.highest = w.highest
  BY <1>1, <1>3, <1>4, <1>5, SentFields
<1>7. /\ s.prio \in Seq(Positions) /\ IsInjective(s.prio)
      /\ ToSet(s.prio) = ToSet(w.prio) \ {x}
  <2>1. /\ Rest(w.prio, x) \in Seq(Positions) /\ IsInjective(Rest(w.prio, x))
        /\ w.prio # <<>> /\ Head(w.prio) = x => ToSet(Rest(w.prio, x)) = ToSet(w.prio) \ {x}
        /\ ~(w.prio # <<>> /\ Head(w.prio) = x) => Rest(w.prio, x) = w.prio
    BY <1>1, RestFacts
  <2>2. CASE w.prio # <<>> /\ Head(w.prio) = x
    BY <1>6, <2>1, <2>2
  <2>3. CASE ~(w.prio # <<>> /\ Head(w.prio) = x)
    <3>1. x \in ToSet(w.wait)
      <4>1. w.wait # <<>> /\ x = Head(w.wait)
        BY <2>3
      <4> QED BY <1>1, <4>1, HeadFacts
    <3> QED BY <1>1, <1>6, <2>1, <2>3, <3>1
  <2> QED BY <2>2, <2>3
<1> DEFINE r == Rest(w.wait, x)
<1>8. r \in Seq(Positions) /\ IsInjective(r) /\ ToSet(r) = ToSet(w.wait) \ {x}
  <2>1. /\ r \in Seq(Positions) /\ IsInjective(r)
        /\ w.wait # <<>> /\ Head(w.wait) = x => ToSet(r) = ToSet(w.wait) \ {x}
        /\ ~(w.wait # <<>> /\ Head(w.wait) = x) => r = w.wait
    BY <1>1, RestFacts
  <2>2. CASE w.wait # <<>> /\ Head(w.wait) = x
    BY <2>1, <2>2
  <2>3. CASE ~(w.wait # <<>> /\ Head(w.wait) = x)
    <3>1. x \in ToSet(w.prio)
      <4>1. w.prio # <<>> /\ x = Head(w.prio)
        BY <2>3
      <4> QED BY <1>1, <4>1, HeadFacts
    <3> QED BY <1>1, <2>1, <2>3, <3>1
  <2> QED BY <2>2, <2>3
<1>9. /\ s.wait \in Seq(Positions) /\ IsInjective(s.wait)
      /\ ToSet(s.wait) = (ToSet(w.wait) \ {x}) \cup {x}
  <2>1. s.wait = Append(r, x) /\ x \notin ToSet(r)
    BY <1>6, <1>8
  <2> HIDE DEF r, s
  <2> QED BY <1>3, <1>8, <2>1, AppendFacts
<1>10. /\ DOMAIN s.segs = D /\ \A y \in D : s.segs[y].acked = w.segs[y].acked
  BY <1>2, SentSegments
<1> HIDE DEF s
<1>11. Queues(s)
  <2>1. /\ ToSet(s.prio) \cap ToSet(s.wait) = {}
        /\ ToSet(s.prio) \cup ToSet(s.wait) = ToSet(w.prio) \cup ToSet(w.wait)
    BY <1>1, <1>2, <1>7, <1>9
  <2>2. {y \in D : y < w.highest /\ ~w.segs[y].acked}
          = {y \in DOMAIN s.segs : y < s.highest /\ ~s.segs[y].acked}
    BY <1>6, <1>10
  <2>3. ToSet(s.tx) = {y \in DOMAIN s.segs : y >= s.highest}
    BY <1>1, <1>6, <1>10
  <2> QED BY <1>1, <1>6, <1>7, <1>9, <2>1, <2>2, <2>3 DEF Queues
<1>12. End(w.segs, x) <= w.highest
  BY <1>1, <1>2 DEF SentBelow
<1>13. w.highest >= w.highest
  BY <1>1
<1>14. s.tx \in Seq(Positions)
  BY <1>1, <1>6
<1>15. WindowOK(s) /\ SameSegs(w.segs, s.segs)
  BY <1>1, <1>2, <1>6, <1>7, <1>9, <1>11, <1>12, <1>13, <1>14, SentRest DEF End, s
<1> QED BY <1>2, <1>6, <1>12, <1>15 DEF s

\* A new segment is sent: the one at ulHighestSequenceNumber, which moves past it.
LEMMA SentFirst ==
    ASSUME NEW w, WindowOK(w), w.prio = <<>>, w.tx # <<>>, NEW x, x = Head(w.tx)
    PROVE  LET s == Sent(w, x)
           IN  /\ WindowOK(s) /\ SameSegs(w.segs, s.segs)
               /\ x = w.highest /\ x \in DOMAIN w.segs /\ s.highest = End(w.segs, x)
<1> DEFINE s == Sent(w, x)
           D == DOMAIN w.segs
           h == w.highest
<1>1. /\ IsWindow(w) /\ Segs(w.segs) /\ SentBelow(w.segs, w.highest)
      /\ Tiles(w.segs, w.cur, w.next)
      /\ h \in Nat /\ w.next \in Nat /\ h <= w.next
      /\ w.prio \in Seq(Positions) /\ w.tx \in Seq(Positions) /\ w.wait \in Seq(Positions)
      /\ ToSet(w.tx) = {y \in D : y >= h}
      /\ \A i, j \in 1..Len(w.tx) : i < j => w.tx[i] < w.tx[j]
      /\ IsInjective(w.prio) /\ IsInjective(w.wait)
      /\ ToSet(w.prio) \cap ToSet(w.wait) = {}
      /\ ToSet(w.prio) \cup ToSet(w.wait) = {y \in D : y < h /\ ~w.segs[y].acked}
  BY DEF WindowOK, Typed, Queues
<1>n. \A y \in D : y \in Nat /\ End(w.segs, y) \in Nat /\ y < End(w.segs, y)
  BY <1>1, Numbers
<1>2. x = h /\ x \in D /\ x \in ToSet(w.tx)
  BY FirstUnsent
<1>3. x \in Positions /\ x # Missing
  BY <1>1, <1>2, MissingAssumption, SizesAssumption DEF Segs, Positions
<1>4. x \notin ToSet(w.wait)
  BY <1>1, <1>2
<1>5. Rest(w.prio, x) = w.prio /\ Rest(w.wait, x) = w.wait /\ Rest(w.tx, x) = Tail(w.tx)
  <2>1. ~(w.wait # <<>> /\ Head(w.wait) = x)
    BY <1>1, <1>4, HeadFacts
  <2> QED BY <2>1 DEF Rest
<1>6. /\ s.prio = w.prio /\ s.tx = Tail(w.tx) /\ s.wait = Append(w.wait, x)
      /\ s.highest = End(w.segs, x)
  BY <1>1, <1>2, <1>3, <1>5, SentFields DEF End
<1>7. /\ s.wait \in Seq(Positions) /\ IsInjective(s.wait) /\ ToSet(s.wait) = ToSet(w.wait) \cup {x}
  <2> HIDE DEF s
  <2> QED BY <1>1, <1>3, <1>4, <1>6, AppendFacts
<1>8. /\ s.tx \in Seq(Positions) /\ ToSet(s.tx) = ToSet(w.tx) \ {x}
      /\ \A i, j \in 1..Len(s.tx) : i < j => s.tx[i] < s.tx[j]
  <2>1. IsInjective(w.tx)
    BY <1>1, AscendingFacts
  <2>2. Rest(w.tx, x) \in Seq(Positions) /\ ToSet(Rest(w.tx, x)) = ToSet(w.tx) \ {x}
    BY <1>1, <2>1, RestFacts
  <2>3. \A i, j \in 1..Len(Tail(w.tx)) : i < j => Tail(w.tx)[i] < Tail(w.tx)[j]
    BY <1>1, TailAscends
  <2>4. s.tx = Rest(w.tx, x) /\ s.tx = Tail(w.tx)
    BY <1>5, <1>6
  <2> HIDE DEF s
  <2> QED BY <2>2, <2>3, <2>4
<1>9. /\ DOMAIN s.segs = D /\ \A y \in D : s.segs[y].acked = w.segs[y].acked
  BY <1>2, SentSegments
<1>10. /\ s.highest \in Nat /\ h < s.highest /\ s.highest <= w.next
       /\ \A y \in D : y < s.highest => y = x \/ y < h
       /\ \A y \in D : y >= s.highest <=> y >= h /\ y # x
  <2>1. End(w.segs, x) <= w.next /\ \A y \in D : x < y => End(w.segs, x) <= y
    BY <1>1, <1>2 DEF Tiles
  <2>2. End(w.segs, x) \in Nat /\ x < End(w.segs, x)
    BY <1>2, <1>n
  <2>3. ASSUME NEW y \in D
        PROVE  /\ y < End(w.segs, x) => y = x \/ y < h
               /\ y >= End(w.segs, x) <=> y >= h /\ y # x
    BY <1>1, <1>2, <1>n, <2>1, <2>2
  <2> HIDE DEF s, D, h
  <2> QED BY <1>2, <1>6, <2>1, <2>2, <2>3
<1> HIDE DEF s
<1>11. Queues(s)
  <2>1. ToSet(s.prio) \cap ToSet(s.wait) = {}
    BY <1>1, <1>2, <1>6, <1>7
  <2>2. ~w.segs[x].acked
    <3>1. ~(x < w.highest)
      BY <1>1, <1>2
    <3> QED BY <1>1, <1>2, <3>1 DEF SentBelow
  <2>3. ToSet(s.prio) \cup ToSet(s.wait)
          = {y \in DOMAIN s.segs : y < s.highest /\ ~s.segs[y].acked}
    <3>1. ToSet(s.prio) \cup ToSet(s.wait) = {y \in D : y < h /\ ~w.segs[y].acked} \cup {x}
      BY <1>1, <1>6, <1>7
    <3>2. \A y \in D : y < s.highest <=> y < h \/ y = x
      BY <1>1, <1>2, <1>10, <1>n
    <3> QED BY <1>2, <1>9, <2>2, <3>1, <3>2
  <2>4. ToSet(s.tx) = {y \in DOMAIN s.segs : y >= s.highest}
    BY <1>1, <1>8, <1>9, <1>10
  <2> QED BY <1>1, <1>6, <1>7, <1>8, <2>1, <2>3, <2>4 DEF Queues
<1>12. WindowOK(s) /\ SameSegs(w.segs, s.segs)
  <2>1. s.highest >= w.highest /\ x < s.highest /\ x + w.segs[x].len <= s.highest
    <3>1. x + w.segs[x].len = s.highest /\ s.highest \in Nat
      BY <1>6, <1>10 DEF End
    <3> QED BY <1>1, <1>2, <1>10, <3>1
  <2>2. s.prio \in Seq(Positions)
    BY <1>1, <1>6
  <2> QED BY <1>2, <1>7, <1>8, <1>10, <1>11, <2>1, <2>2, SentRest DEF s
<1> QED BY <1>2, <1>6, <1>12 DEF s

\* The sequence numbers do not wrap.
NoWrap == FirstNumber + StreamLength < Modulus

\* Then prvTCPWindowTxHasSpace keeps what is under way in the peer's window.
LEMMA HasSpaceFacts ==
    ASSUME NEW w, WindowOK(w), w.tx # <<>>, NEW size \in Nat, NoWrap, HasSpace(w, size)
    PROVE  End(w.segs, Head(w.tx)) <= w.cur + size
<1> DEFINE h == w.highest
           c == w.cur
           n == w.segs[h].len
<1>1. Head(w.tx) = h /\ h \in DOMAIN w.segs
  BY FirstUnsent
<1>2. h \in Nat /\ c \in Nat /\ c <= h /\ h <= StreamLength
  BY SizesAssumption DEF WindowOK, Typed
<1>3. n \in Nat \ {0}
  <2>1. n \in 1..MSS /\ MSS \in Nat
    BY <1>1, Numbers, SizesAssumption DEF WindowOK, Typed
  <2> HIDE DEF n
  <2> QED BY <2>1
<1>4. Number(h) = FirstNumber + h /\ Number(c) = FirstNumber + c
  <2>1. FirstNumber + h \in 0..Modulus - 1 /\ FirstNumber + c \in 0..Modulus - 1
        /\ Modulus \in Nat \ {0}
    <3> HIDE DEF h, c
    <3>1. /\ FirstNumber \in Nat /\ Modulus \in Nat /\ StreamLength \in Nat
          /\ FirstNumber + StreamLength < Modulus
      BY SizesAssumption DEF NoWrap
    <3> QED BY <1>2, <3>1
  <2> HIDE DEF h, c
  <2> QED BY <2>1, Small DEF Number
<1>5. Outstanding(w) = h - c
  <2>1. Number(h) >= Number(c)
    BY <1>2, <1>4, SizesAssumption
  <2> QED BY <2>1 DEF Outstanding
<1>6. size - Least(size, h - c) >= n
  BY <1>1, <1>5 DEF HasSpace
<1> HIDE DEF h, c, n
<1>7. h + n <= c + size
  BY <1>2, <1>3, <1>6 DEF Least
<1> QED BY <1>1, <1>7 DEF End, h, c, n

\* Whatever segment ulTCPWindowTxGet chooses, the window stays as it should be.
LEMMA SentKeeps ==
    ASSUME NEW w, WindowOK(w), NEW size \in Nat, NEW expired \in BOOLEAN,
           NEW x, x = Chosen(w, size, expired)
    PROVE  LET s == Sent(w, x)
           IN  /\ WindowOK(s) /\ DOMAIN s.segs = DOMAIN w.segs /\ SameSegs(w.segs, s.segs)
               /\ s.cur = w.cur /\ s.next = w.next
               /\ w.highest <= s.highest
               /\ \A y \in DOMAIN s.segs : s.segs[y].acked = w.segs[y].acked
               /\ x # Missing => x \in DOMAIN w.segs /\ End(w.segs, x) <= s.highest
               /\ NoWrap => s.highest = w.highest \/ s.highest <= w.cur + size
<1> DEFINE s == Sent(w, x)
<1>0. w.highest \in Nat /\ IsWindow(w) /\ Segs(w.segs)
  BY DEF WindowOK, Typed
<1>1. CASE x = Missing
  <2>1. s = w
    BY <1>1 DEF Sent
  <2> QED BY <1>0, <1>1, <2>1 DEF SameSegs
<1>2. ASSUME x \in DOMAIN w.segs
      PROVE  /\ DOMAIN s.segs = DOMAIN w.segs /\ s.cur = w.cur /\ s.next = w.next
             /\ \A y \in DOMAIN s.segs : s.segs[y].acked = w.segs[y].acked
  <2>1. x # Missing
    BY <1>0, <1>2, MissingAssumption, SizesAssumption DEF Segs, Positions
  <2>2. s.cur = w.cur /\ s.next = w.next
    BY <1>0, <2>1, SentFields
  <2>3. /\ DOMAIN s.segs = DOMAIN w.segs
        /\ \A y \in DOMAIN w.segs : s.segs[y].acked = w.segs[y].acked
    BY <1>2, SentSegments
  <2> HIDE DEF s
  <2> QED BY <2>2, <2>3
<1>3. CASE \/ w.prio # <<>> /\ x = Head(w.prio)
           \/ w.wait # <<>> /\ x = Head(w.wait)
  <2>1. /\ WindowOK(s) /\ SameSegs(w.segs, s.segs) /\ s.highest = w.highest
        /\ x \in DOMAIN w.segs /\ End(w.segs, x) <= s.highest
    BY <1>3, SentAgain
  <2> HIDE DEF s
  <2> QED BY <1>0, <1>2, <2>1 DEF s
<1>4. CASE w.prio = <<>> /\ w.tx # <<>> /\ HasSpace(w, size) /\ x = Head(w.tx)
  <2>1. /\ WindowOK(s) /\ SameSegs(w.segs, s.segs)
        /\ x = w.highest /\ x \in DOMAIN w.segs /\ s.highest = End(w.segs, x)
    BY <1>4, SentFirst
  <2>2. End(w.segs, x) \in Nat /\ x < End(w.segs, x)
    BY <1>0, <2>1, Numbers
  <2>3. NoWrap => End(w.segs, x) <= w.cur + size
    BY <1>4, HasSpaceFacts
  <2> HIDE DEF s
  <2> QED BY <1>0, <1>2, <2>1, <2>2, <2>3 DEF s
<1>5. \/ x = Missing
      \/ w.prio # <<>> /\ x = Head(w.prio)
      \/ w.wait # <<>> /\ x = Head(w.wait)
      \/ w.prio = <<>> /\ w.tx # <<>> /\ HasSpace(w, size) /\ x = Head(w.tx)
  BY DEF Chosen
<1> QED BY <1>1, <1>3, <1>4, <1>5

----------------------------------------------------------------------------
(* New segments: lTCPWindowTxAdd *)

\* The beginning and the length of the ith new segment, when n bytes are added
\* of which the last segment takes f.
Cut(f, i) == f + (i - 1) * MSS
Piece(f, n, i) == Least(MSS, n - Cut(f, i))

LEMMA Products ==
    ASSUME NEW m \in Nat \ {0}, NEW i \in Nat, NEW j \in Nat, i <= j
    PROVE  /\ i * m \in Nat /\ j * m \in Nat /\ i * m <= j * m
           /\ i < j => i * m + m <= j * m
           /\ (i + 1) * m = i * m + m
<1>1. i * m \in Nat /\ (j - i) * m \in Nat /\ (j - i) * m = j * m - i * m
  OBVIOUS
<1>2. i < j => (j - i) * m >= m
  OBVIOUS
<1> QED BY <1>1, <1>2

LEMMA Quotient ==
    ASSUME NEW m \in Nat \ {0}, NEW i \in Int
    PROVE  (i * m) \div m = i
OBVIOUS

LEMMA QuotientFacts ==
    ASSUME NEW m \in Nat \ {0}, NEW d \in Nat
    PROVE  /\ d \div m \in Nat /\ (d \div m) * m <= d /\ d < (d \div m) * m + m
<1> DEFINE q == d \div m
           r == d % m
<1>1. r \in 0..m - 1 /\ q \in Int /\ d = m * q + r
  BY Divide
<1>2. q >= 0
  OBVIOUS
<1> HIDE DEF q, r
<1>3. m * q = q * m /\ q * m \in Int
  BY <1>1
<1>4. q * m <= d /\ d < q * m + m
  BY <1>1, <1>3
<1> QED BY <1>1, <1>2, <1>4 DEF q

\* The new segments lie behind each other, and leave out nothing.
LEMMA Cuts ==
    ASSUME NEW n \in Nat, NEW f \in 0..n, NEW k \in Nat, k <= (n - f + MSS - 1) \div MSS
    PROVE  /\ \A i \in 1..k : /\ Cut(f, i) \in Nat /\ f <= Cut(f, i) /\ Cut(f, i) < n
                              /\ Piece(f, n, i) \in 1..MSS
                              /\ ((Cut(f, i) - f) \div MSS) + 1 = i
           /\ \A i, j \in 1..k : i < j => Cut(f, i) + Piece(f, n, i) <= Cut(f, j)
<1> DEFINE a == n - f + MSS - 1
           q == a \div MSS
<1>1. MSS \in Nat \ {0} /\ a \in Nat
  BY SizesAssumption
<1>2. q \in Nat /\ q * MSS <= a /\ k <= q
  BY <1>1, QuotientFacts
<1> HIDE DEF q
<1>3. ASSUME NEW i \in 1..k
      PROVE  /\ Cut(f, i) \in Nat /\ f <= Cut(f, i) /\ Cut(f, i) < n
             /\ Piece(f, n, i) \in 1..MSS /\ ((Cut(f, i) - f) \div MSS) + 1 = i
  <2> DEFINE h == i - 1
             c == h * MSS
  <2>1. h \in Nat /\ h < q /\ h <= q
    BY <1>2
  <2>2. c \in Nat /\ c + MSS <= q * MSS /\ q * MSS \in Nat
    BY <1>1, <1>2, <2>1, Products
  <2>3. c \div MSS = h
    BY <1>1, <2>1, Quotient
  <2>4. Cut(f, i) = f + c
    BY DEF Cut
  <2> HIDE DEF c
  <2>5. c <= n - f - 1
    BY <1>1, <1>2, <2>2
  <2>6. Cut(f, i) - f = c
    BY <2>2, <2>4
  <2>7. Cut(f, i) \in Nat /\ f <= Cut(f, i) /\ Cut(f, i) < n
    BY <2>2, <2>4, <2>5
  <2>8. Piece(f, n, i) \in 1..MSS
    BY <1>1, <2>7 DEF Piece, Least
  <2> QED BY <2>3, <2>6, <2>7, <2>8
<1>4. ASSUME NEW i \in 1..k, NEW j \in 1..k, i < j
      PROVE  Cut(f, i) + Piece(f, n, i) <= Cut(f, j)
  <2> DEFINE h == i - 1
             g == j - 1
  <2>1. h \in Nat /\ g \in Nat /\ h < g /\ h <= g
    BY <1>4
  <2>2. h * MSS \in Nat /\ g * MSS \in Nat /\ h * MSS + MSS <= g * MSS
    BY <1>1, <2>1, Products
  <2>3. Cut(f, i) = f + h * MSS /\ Cut(f, j) = f + g * MSS
    BY DEF Cut
  <2>4. Piece(f, n, i) <= MSS /\ Piece(f, n, i) \in Int
    BY <1>1, <1>3
  <2> DEFINE u == h * MSS
             v == g * MSS
  <2> HIDE DEF u, v
  <2> QED BY <1>1, <2>2, <2>3, <2>4 DEF u, v
<1> QED BY <1>3, <1>4

\* How many bytes they take, and that they cover these.
LEMMA CutsCover ==
    ASSUME NEW n \in Nat, NEW f \in 0..n, NEW k \in Nat, k <= (n - f + MSS - 1) \div MSS
    PROVE  LET e == Least(n, f + k * MSS)
           IN  /\ e \in f..n
               /\ e = IF k = 0 THEN f ELSE Cut(f, k) + Piece(f, n, k)
               /\ \A d \in f..e - 1 : \E i \in 1..k :
                    Cut(f, i) <= d /\ d < Cut(f, i) + Piece(f, n, i)
<1> DEFINE e == Least(n, f + k * MSS)
<1>1. MSS \in Nat \ {0}
  BY SizesAssumption
<1>2. k * MSS \in Nat
  BY <1>1, Products
<1>3. e \in f..n
  BY <1>2 DEF Least
<1>4. CASE k = 0
  <2>1. k * MSS = 0
    BY <1>1, <1>4
  <2>2. e = f
    BY <1>4, <2>1 DEF Least
  <2> QED BY <1>4, <2>2
<1>5. CASE k # 0
  <2> DEFINE h == k - 1
             c == h * MSS
  <2>1. h \in Nat /\ k = h + 1
    BY <1>5
  <2>2. c \in Nat /\ k * MSS = c + MSS
    BY <1>1, <2>1, Products
  <2>3. Cut(f, k) = f + c
    BY DEF Cut
  <2> HIDE DEF c
  <2>4. e = Cut(f, k) + Piece(f, n, k)
    BY <1>1, <2>2, <2>3 DEF Piece, Least
  <2>5. ASSUME NEW d \in f..e - 1
        PROVE  \E i \in 1..k : Cut(f, i) <= d /\ d < Cut(f, i) + Piece(f, n, i)
    <3> DEFINE b == d - f
               j == b \div MSS
               g == j * MSS
    <3>0. b \in Nat
      BY <1>3
    <3>1. j \in Nat /\ g <= b /\ b < g + MSS
      BY <1>1, <3>0, QuotientFacts
    <3> HIDE DEF b, j
    <3>2. g \in Nat /\ (k <= j => k * MSS <= g)
      BY <1>1, <3>1, Products
    <3>3. b < k * MSS
      BY <1>2, <1>3 DEF Least, b
    <3>4. j + 1 \in 1..k
      BY <1>2, <3>0, <3>1, <3>2, <3>3
    <3>5. Cut(f, j + 1) = f + g
      BY <3>1 DEF Cut
    <3> HIDE DEF g
    <3>6. d < n /\ d = f + b
      BY <1>3 DEF b
    <3>7. Cut(f, j + 1) <= d /\ d < Cut(f, j + 1) + Piece(f, n, j + 1)
      BY <1>1, <3>0, <3>1, <3>2, <3>5, <3>6 DEF Piece, Least
    <3> QED BY <3>4, <3>7
  <2> QED BY <1>3, <1>5, <2>4, <2>5
<1> QED BY <1>3, <1>4, <1>5

\* How many segments are made, and where they begin.
Made(f, n, room) == Least(room, (n - f + MSS - 1) \div MSS)
CutAt(f, i, next) == next + Cut(f, i)
Cuttings(f, k, next) == [i \in 1..k |-> CutAt(f, i, next)]
NewAt(f, k, next) == {CutAt(f, i, next) : i \in 1..k}

\* How many bytes the segments take.
Taken(f, n, k) == Least(n, f + k * MSS)

LEMMA FilledFacts ==
    ASSUME NEW r \in SegmentType, NEW f \in Nat, r.len + f <= MSS
    PROVE  LET m == Filled(r, f)
           IN  /\ m \in SegmentType /\ m.len = r.len + f /\ m.pos = r.pos
               /\ m.outstanding = r.outstanding /\ m.acked = r.acked
<1> DEFINE n == r.len + f
<1>1. n \in 1..MSS
  BY SizesAssumption DEF SegmentType
<1>2. Filled(r, f) = [r EXCEPT !.len = n]
  BY DEF Filled, SegmentType
<1> HIDE DEF n
<1>3. /\ Filled(r, f) \in SegmentType /\ Filled(r, f).len = n /\ Filled(r, f).pos = r.pos
      /\ Filled(r, f).outstanding = r.outstanding /\ Filled(r, f).acked = r.acked
  BY <1>1, <1>2 DEF SegmentType
<1> QED BY <1>3 DEF n

LEMMA SegmentFacts ==
    ASSUME NEW n \in 1..MSS, NEW p \in 0..LENGTH - 1
    PROVE  LET m == Segment(n, p)
           IN  /\ m \in SegmentType /\ m.len = n /\ m.pos = p
               /\ m.outstanding = FALSE /\ m.acked = FALSE
BY SizesAssumption DEF Segment, SegmentType, MaxCount, MaxDup

\* What the last segment takes: all, or what fills it up.
LEMMA GrownFacts ==
    ASSUME NEW w, WindowOK(w), NEW n \in Nat \ {0}
    PROVE  LET f == Grown(w, n)
           IN  /\ f \in 0..n
               /\ w.growing = Missing => f = 0
               /\ w.growing # Missing => /\ w.segs[w.growing].len + f <= MSS
                                         /\ f < n => w.segs[w.growing].len + f = MSS
<1> DEFINE r == w.segs[w.growing].len
<1>1. w.growing # Missing => r \in 1..MSS /\ r < MSS
  <2>1. w.growing # Missing => w.growing \in DOMAIN w.segs /\ r < MSS
    BY DEF WindowOK, GrowsAtEnd
  <2>2. \A x \in DOMAIN w.segs : w.segs[x].len \in 1..MSS
    BY Numbers DEF WindowOK, Typed
  <2> QED BY <2>1, <2>2
<1>2. Grown(w, n) = IF w.growing = Missing THEN 0 ELSE Least(n, MSS - r)
  BY DEF Grown
<1> HIDE DEF r
<1>3. /\ Grown(w, n) \in 0..n
      /\ w.growing = Missing => Grown(w, n) = 0
      /\ w.growing # Missing => /\ r + Grown(w, n) <= MSS
                                /\ Grown(w, n) < n => r + Grown(w, n) = MSS
  BY <1>1, <1>2, SizesAssumption DEF Least
<1> QED BY <1>3 DEF r

LEMMA MadeFacts ==
    ASSUME NEW n \in Nat, NEW f \in 0..n, NEW room \in Nat
    PROVE  LET k == Made(f, n, room)
           IN  /\ k \in 0..room /\ k <= (n - f + MSS - 1) \div MSS
               /\ k > 0 => f < n
<1> DEFINE a == n - f + MSS - 1
           q == a \div MSS
<1>1. MSS \in Nat \ {0} /\ a \in Nat
  BY SizesAssumption
<1>2. q \in Nat /\ q * MSS <= a
  BY <1>1, QuotientFacts
<1>3. Made(f, n, room) = Least(room, q)
  BY DEF Made
<1>4. q >= 1 => MSS <= q * MSS /\ q * MSS \in Nat
  <2> HIDE DEF q
  <2> SUFFICES ASSUME q >= 1 PROVE MSS <= q * MSS /\ q * MSS \in Nat
    OBVIOUS
  <2>1. 1 * MSS <= q * MSS /\ q * MSS \in Nat
    BY <1>1, <1>2, Products
  <2> QED BY <1>1, <2>1
<1> HIDE DEF q
<1>5. q >= 1 => f < n
  BY <1>1, <1>2, <1>4
<1>6. /\ Least(room, q) \in 0..room /\ Least(room, q) <= q
      /\ Least(room, q) > 0 => f < n
  BY <1>2, <1>5 DEF Least
<1> QED BY <1>3, <1>6 DEF q

\* The new segments as a queue, in their order.
LEMMA CuttingsFacts ==
    ASSUME NEW f \in Nat, NEW k \in Nat, NEW next \in Nat,
           \A i \in 1..k : CutAt(f, i, next) \in Positions
    PROVE  LET c == Cuttings(f, k, next)
           IN  /\ c \in Seq(Positions) /\ Len(c) = k /\ ToSet(c) = NewAt(f, k, next)
               /\ \A i \in 1..k : c[i] = CutAt(f, i, next)
<1> DEFINE c == Cuttings(f, k, next)
<1>1. DOMAIN c = 1..k /\ \A i \in 1..k : c[i] = CutAt(f, i, next)
  BY DEF Cuttings
<1>2. c \in Seq(Positions) /\ Len(c) = k
  BY DEF Cuttings
<1>3. ToSet(c) = NewAt(f, k, next)
  <2> HIDE DEF c
  <2> QED BY <1>1 DEF ToSet, NewAt
<1> QED BY <1>1, <1>2, <1>3

\* Two ascending queues, one behind the other.
LEMMA ConcatAscends ==
    ASSUME NEW q \in Seq(Positions), NEW r \in Seq(Positions),
           \A i, j \in 1..Len(q) : i < j => q[i] < q[j],
           \A i, j \in 1..Len(r) : i < j => r[i] < r[j],
           \A i \in 1..Len(q), j \in 1..Len(r) : q[i] < r[j]
    PROVE  \A i, j \in 1..Len(q \o r) : i < j => (q \o r)[i] < (q \o r)[j]
<1> DEFINE c == q \o r
<1>1. /\ Len(q) \in Nat /\ Len(r) \in Nat /\ Len(c) = Len(q) + Len(r)
      /\ \A i \in 1..Len(q) : c[i] = q[i]
      /\ \A i \in 1..Len(r) : c[Len(q) + i] = r[i]
  OBVIOUS
<1> HIDE DEF c
<1>2. \A i \in 1..Len(c) : \/ i \in 1..Len(q) /\ c[i] = q[i]
                           \/ i > Len(q) /\ i - Len(q) \in 1..Len(r) /\ c[i] = r[i - Len(q)]
  <2> SUFFICES ASSUME NEW i \in 1..Len(c), i > Len(q)
               PROVE  i - Len(q) \in 1..Len(r) /\ c[i] = r[i - Len(q)]
    BY <1>1
  <2> DEFINE j == i - Len(q)
  <2>1. j \in 1..Len(r) /\ i = Len(q) + j
    BY <1>1
  <2> QED BY <1>1, <2>1
<1>3. ASSUME NEW i \in 1..Len(c), NEW j \in 1..Len(c), i < j PROVE c[i] < c[j]
  <2>1. CASE i \in 1..Len(q) /\ j \in 1..Len(q)
    BY <1>1, <1>3, <2>1
  <2>2. CASE i \in 1..Len(q) /\ ~(j \in 1..Len(q))
    BY <1>2, <2>2
  <2>3. CASE ~(i \in 1..Len(q))
    <3>1. /\ i - Len(q) \in 1..Len(r) /\ c[i] = r[i - Len(q)]
          /\ j - Len(q) \in 1..Len(r) /\ c[j] = r[j - Len(q)]
      BY <1>1, <1>2, <1>3, <2>3
    <3>2. i - Len(q) < j - Len(q)
      BY <1>1, <1>3
    <3> QED BY <3>1, <3>2
  <2> QED BY <2>1, <2>2, <2>3
<1> QED BY <1>3 DEF c

\* The window with n bytes more, how many segments were made, where the ith of
\* them begins and how long it is.
Added(w, n, room) == TxAdd(w, n, Wrapped(w.next), room)
Count(w, n, room) == Made(Grown(w, n), n, room)
Place(w, n, i) == CutAt(Grown(w, n), i, w.next)
Size(w, n, i) == Piece(Grown(w, n), n, i)
Places(w, n, room) == NewAt(Grown(w, n), Count(w, n, room), w.next)

LEMMA AddedNext ==
    ASSUME NEW w, IsWindow(w), NEW n, NEW room
    PROVE  Added(w, n, room).next = w.next + Taken(Grown(w, n), n, Count(w, n, room))
BY DEF IsWindow, TxAdd, Added, Count, Taken, Made

LEMMA AddedDomain ==
    ASSUME NEW w, IsWindow(w), NEW n, NEW room
    PROVE  LET t == Added(w, n, room)
           IN  IsFcn(t.segs) /\ DOMAIN t.segs = DOMAIN w.segs \cup Places(w, n, room)
BY DEF IsWindow, TxAdd, IsFcn, Added, Places, Count, Made, NewAt, CutAt, Cut

LEMMA AddedQueues ==
    ASSUME NEW w, IsWindow(w), NEW n, NEW room
    PROVE  LET t == Added(w, n, room)
           IN  /\ t.prio = w.prio /\ t.wait = w.wait /\ t.cur = w.cur
               /\ t.highest = w.highest /\ t.size = w.size
BY DEF IsWindow, TxAdd, Added

LEMMA AddedTx ==
    ASSUME NEW w, IsWindow(w), NEW n, NEW room
    PROVE  Added(w, n, room).tx = w.tx \o Cuttings(Grown(w, n), Count(w, n, room), w.next)
BY DEF IsWindow, TxAdd, Added, Count, Made, Cuttings, CutAt, Cut

LEMMA AddedGrowing ==
    ASSUME NEW w, IsWindow(w), NEW n, NEW room
    PROVE  LET k == Count(w, n, room)
           IN  Added(w, n, room).growing =
                 IF k > 0 THEN IF Size(w, n, k) < MSS THEN Place(w, n, k) ELSE Missing
                 ELSE IF w.growing = Missing \/ w.segs[w.growing].len + Grown(w, n) >= MSS
                      THEN Missing ELSE w.growing
BY DEF IsWindow, TxAdd, Added, Count, Made, Size, Piece, Place, CutAt, Cut

LEMMA AddedWindow ==
    ASSUME NEW w, IsWindow(w), NEW n, NEW room PROVE IsWindow(Added(w, n, room))
BY DEF IsWindow, TxAdd, Added

LEMMA AddedSegs ==
    ASSUME NEW w, IsWindow(w), NEW n, NEW room, NEW x \in DOMAIN w.segs \cup Places(w, n, room)
    PROVE  LET f == Grown(w, n)
           IN  Added(w, n, room).segs[x] =
                 IF x \in Places(w, n, room)
                 THEN Segment(Size(w, n, ((x - w.next - f) \div MSS) + 1),
                              (Wrapped(w.next) + x - w.next) % LENGTH)
                 ELSE IF x = w.growing THEN Filled(w.segs[x], f) ELSE w.segs[x]
BY DEF IsWindow, TxAdd, Added, Count, Made, Places, NewAt, CutAt, Cut, Size, Piece

\* How many segments are made, and how they lie behind each other.
LEMMA CountFacts ==
    ASSUME NEW w, WindowOK(w), NEW n \in Nat \ {0}, NEW room \in Nat
    PROVE  LET f == Grown(w, n)
               k == Count(w, n, room)
           IN  /\ f \in 0..n /\ k \in Nat /\ k <= room
               /\ k <= (n - f + MSS - 1) \div MSS /\ (k > 0 => f < n)
<1> DEFINE f == Grown(w, n)
<1>1. f \in 0..n /\ n \in Nat
  BY GrownFacts
<1>2. Count(w, n, room) = Made(f, n, room)
  BY DEF Count
<1> HIDE DEF f
<1>3. /\ Made(f, n, room) \in 0..room /\ Made(f, n, room) <= (n - f + MSS - 1) \div MSS
      /\ Made(f, n, room) > 0 => f < n
  BY <1>1, MadeFacts
<1> QED BY <1>1, <1>2, <1>3 DEF f

\* A new segment.
LEMMA NewSegment ==
    ASSUME NEW w, WindowOK(w), NEW n \in Nat \ {0}, w.next + n <= StreamLength, NEW room \in Nat,
           NEW i \in 1..Count(w, n, room)
    PROVE  LET t == Added(w, n, room)
               x == Place(w, n, i)
           IN  /\ x = w.next + Cut(Grown(w, n), i)
               /\ x \in Positions /\ x >= w.next /\ x \in Places(w, n, room)
               /\ t.segs[x] \in SegmentType /\ t.segs[x].pos = x % LENGTH
               /\ t.segs[x].len = Size(w, n, i)
               /\ t.segs[x].outstanding = FALSE /\ t.segs[x].acked = FALSE
<1> DEFINE f == Grown(w, n)
           k == Count(w, n, room)
           t == Added(w, n, room)
           x == Place(w, n, i)
           c == Cut(f, i)
           g == Size(w, n, i)
           b == x % LENGTH
           p == Wrapped(w.next)
<1>1. IsWindow(w) /\ w.next \in Nat /\ StreamLength \in Nat
  BY SizesAssumption DEF WindowOK, Typed
<1>2. f \in 0..n /\ k \in Nat /\ k <= (n - f + MSS - 1) \div MSS
  BY CountFacts
<1>3. c \in Nat /\ f <= c /\ c < n /\ g \in 1..MSS /\ ((c - f) \div MSS) + 1 = i
  <2>1. g = Piece(f, n, i) /\ i \in 1..k /\ n \in Nat
    BY DEF Size
  <2> HIDE DEF f, k, g
  <2> QED BY <1>2, <2>1, Cuts
<1>4. x = w.next + c
  BY DEF Place, CutAt
<1>5. x \in Places(w, n, room)
  BY DEF Place, Places, NewAt
<1>6. t.segs[x] = Segment(Size(w, n, ((x - w.next - f) \div MSS) + 1),
                          (p + x - w.next) % LENGTH)
  <2> HIDE DEF x
  <2> QED BY <1>1, <1>5, AddedSegs
<1> HIDE DEF x, c, f, k, t, p, b
<1>7. x \in Positions /\ x >= w.next /\ x \in Nat
  BY <1>1, <1>3, <1>4 DEF Positions
<1>8. x - w.next - f = c - f
  BY <1>1, <1>2, <1>3, <1>4
<1>9. (p + x - w.next) % LENGTH = b
  <2>1. w.next \in Int /\ c \in Int
    BY <1>1, <1>3
  <2>2. Wrapped(Wrapped(w.next) + c) = Wrapped(w.next + c)
    BY <2>1, WrappedSum
  <2>3. p \in Int
    BY <2>1, WrappedRange DEF p
  <2>4. p + x - w.next = p + c
    BY <1>1, <1>3, <1>4, <2>3
  <2> QED BY <1>4, <2>2, <2>4 DEF Wrapped, b, p
<1>10. b \in 0..LENGTH - 1
  BY <1>7, WrappedRange DEF Wrapped, b
<1>11. t.segs[x] = Segment(g, b)
  BY <1>3, <1>6, <1>8, <1>9
<1> HIDE DEF g
<1>12. /\ Segment(g, b) \in SegmentType /\ Segment(g, b).len = g /\ Segment(g, b).pos = b
       /\ Segment(g, b).outstanding = FALSE /\ Segment(g, b).acked = FALSE
  BY <1>3, <1>10, SegmentFacts
<1> QED BY <1>4, <1>5, <1>7, <1>11, <1>12 DEF x, c, g, b, f, t

\* A segment that was there: the one that grows is longer.
LEMMA OldSegment ==
    ASSUME NEW w, WindowOK(w), NEW n \in Nat \ {0}, w.next + n <= StreamLength, NEW room \in Nat,
           NEW x \in DOMAIN w.segs
    PROVE  LET t == Added(w, n, room)
           IN  /\ x \in Nat /\ x < w.next /\ x \notin Places(w, n, room)
               /\ t.segs[x] \in SegmentType /\ t.segs[x].pos = x % LENGTH
               /\ x # w.growing => t.segs[x].len = w.segs[x].len
               /\ x = w.growing => t.segs[x].len = w.segs[x].len + Grown(w, n)
               /\ t.segs[x].outstanding = w.segs[x].outstanding
               /\ t.segs[x].acked = w.segs[x].acked
<1> DEFINE f == Grown(w, n)
           t == Added(w, n, room)
           r == w.segs[x]
           m == t.segs[x]
<1>1. /\ IsWindow(w) /\ Segs(w.segs) /\ Tiles(w.segs, w.cur, w.next) /\ w.next \in Nat
  BY DEF WindowOK, Typed
<1>2. x \in Nat /\ x < w.next
  <2>1. x \in Nat /\ End(w.segs, x) \in Nat /\ x < End(w.segs, x)
    BY <1>1, Numbers
  <2>2. End(w.segs, x) <= w.next
    BY <1>1 DEF Tiles
  <2> QED BY <1>1, <2>1, <2>2
<1>3. x \notin Places(w, n, room)
  <2>1. ASSUME NEW i \in 1..Count(w, n, room) PROVE Place(w, n, i) # x
    <3>1. Place(w, n, i) >= w.next
      BY NewSegment
    <3>2. ~(x >= w.next)
      BY <1>1, <1>2
    <3> QED BY <3>1, <3>2
  <2> QED BY <2>1 DEF Places, NewAt, Place
<1>4. r \in SegmentType /\ r.pos = x % LENGTH
  BY <1>1 DEF Segs
<1>5. m = IF x = w.growing THEN Filled(r, f) ELSE r
  BY <1>1, <1>3, AddedSegs
<1>6. f \in Nat /\ (x = w.growing => r.len + f <= MSS)
  <2>1. x # Missing
    BY <1>2, MissingAssumption
  <2>2. f \in 0..n /\ (w.growing # Missing => w.segs[w.growing].len + f <= MSS)
    BY GrownFacts
  <2> QED BY <2>1, <2>2
<1> HIDE DEF f, t, r, m
<1>7. CASE x = w.growing
  <2>1. m = Filled(r, f) /\ r.len + f <= MSS
    BY <1>5, <1>6, <1>7
  <2>2. /\ m \in SegmentType /\ m.len = r.len + f /\ m.pos = r.pos
        /\ m.outstanding = r.outstanding /\ m.acked = r.acked
    BY <1>4, <1>6, <2>1, FilledFacts
  <2> QED BY <1>2, <1>3, <1>4, <1>7, <2>2 DEF r, m, f, t
<1>8. CASE x # w.growing
  <2>1. m = r
    BY <1>5, <1>8
  <2> QED BY <1>2, <1>3, <1>4, <1>8, <2>1 DEF r, m, f, t
<1> QED BY <1>7, <1>8

\* The segments cover the bytes that are added too.
LEMMA AddedTiles ==
    ASSUME NEW w, WindowOK(w), NEW n \in Nat \ {0}, w.next + n <= StreamLength, NEW room \in Nat
    PROVE  LET t == Added(w, n, room)
           IN  /\ Tiles(t.segs, w.cur, t.next)
               /\ t.next \in Nat /\ w.next <= t.next /\ t.next <= w.next + n
<1> DEFINE f == Grown(w, n)
           k == Count(w, n, room)
           t == Added(w, n, room)
           new == Places(w, n, room)
           D == DOMAIN w.segs
           e == Taken(f, n, k)
           s == t.segs
           g == w.growing
           next == w.next
           L(i) == Size(w, n, i)
           At(i) == Place(w, n, i)
<1>1. /\ IsWindow(w) /\ Segs(w.segs) /\ Tiles(w.segs, w.cur, next)
      /\ next \in Nat /\ w.cur \in Nat /\ w.cur <= next
      /\ g # Missing => g \in D /\ End(w.segs, g) = next
  BY DEF WindowOK, Typed, GrowsAtEnd
<1>2. f \in 0..n /\ (g = Missing => f = 0) /\ n \in Nat
  BY GrownFacts
<1>3. k \in Nat /\ k <= (n - f + MSS - 1) \div MSS
  BY CountFacts
<1>4. DOMAIN s = D \cup new
  BY <1>1, AddedDomain
<1>N. ASSUME NEW i \in 1..k
      PROVE  At(i) \in new /\ s[At(i)].len = L(i) /\ At(i) = next + Cut(f, i)
  BY NewSegment
<1>D. ASSUME NEW x \in D
      PROVE  /\ x < next
             /\ x # g => s[x].len = w.segs[x].len
             /\ x = g => s[x].len = w.segs[x].len + f
  BY OldSegment
<1>5. t.next = next + e
  BY <1>1, AddedNext
<1>L. \A i : L(i) = Piece(f, n, i)
  BY DEF Size
<1>6. \A i \in 1..k : Cut(f, i) \in Nat /\ f <= Cut(f, i) /\ L(i) \in 1..MSS
  <2> HIDE DEF f, k, L
  <2> QED BY <1>2, <1>3, <1>L, Cuts
<1>7. \A i, j \in 1..k : i < j => Cut(f, i) + L(i) <= Cut(f, j)
  <2> HIDE DEF f, k, L
  <2> QED BY <1>2, <1>3, <1>L, Cuts
<1>8. /\ e \in f..n
      /\ e = IF k = 0 THEN f ELSE Cut(f, k) + L(k)
      /\ \A d \in f..e - 1 : \E i \in 1..k : Cut(f, i) <= d /\ d < Cut(f, i) + L(i)
  <2> HIDE DEF f, k, L
  <2> QED BY <1>2, <1>3, <1>L, CutsCover DEF Taken
<1>9. MSS \in Nat
  BY SizesAssumption
<1>P. \A x \in new : \E i \in 1..k : x = At(i)
  BY DEF Places, NewAt, Place
<1> HIDE DEF t, s, e, f, k, L, At, new
<1>a. \A i \in 1..k : At(i) = next + Cut(f, i)
  BY <1>N
<1>10. \A x \in D : /\ x \in Nat /\ x < next /\ End(w.segs, x) <= next
                    /\ End(w.segs, x) \in Nat /\ x < End(w.segs, x)
                    /\ x # g => End(s, x) = End(w.segs, x)
                    /\ x = g => End(s, x) = next + f
  <2> SUFFICES ASSUME NEW x \in D
               PROVE  /\ x \in Nat /\ x < next /\ End(w.segs, x) <= next
                      /\ End(w.segs, x) \in Nat /\ x < End(w.segs, x)
                      /\ x # g => End(s, x) = End(w.segs, x)
                      /\ x = g => End(s, x) = next + f
    OBVIOUS
  <2>1. /\ x \in Nat /\ w.segs[x].len \in 1..MSS
        /\ End(w.segs, x) \in Nat /\ x < End(w.segs, x)
    BY <1>1, Numbers
  <2>2. End(w.segs, x) <= next
    BY <1>1 DEF Tiles
  <2>3. /\ x < next
        /\ x # g => s[x].len = w.segs[x].len
        /\ x = g => s[x].len = w.segs[x].len + f
    BY <1>D
  <2> DEFINE l == w.segs[x].len
  <2>4. l \in Nat /\ End(w.segs, x) = x + l /\ End(s, x) = x + s[x].len
    BY <1>9, <2>1 DEF End
  <2>5. x # g => End(s, x) = End(w.segs, x)
    <3> HIDE DEF l
    <3>1. x # g => s[x].len = l
      BY <2>3 DEF l
    <3> QED BY <2>4, <3>1
  <2>6. x = g => End(s, x) = next + f
    <3>1. x = g => s[x].len = l + f /\ x + l = next
      BY <1>1, <2>1, <2>3, <2>4, MissingAssumption
    <3> HIDE DEF l
    <3> QED BY <1>2, <2>1, <2>4, <3>1
  <2> QED BY <2>1, <2>2, <2>3, <2>5, <2>6
<1>11. \A x \in new : \E i \in 1..k :
         /\ x = At(i) /\ End(s, x) = At(i) + L(i) /\ x \in Nat /\ next + f <= x
  <2> SUFFICES ASSUME NEW x \in new
               PROVE  \E i \in 1..k :
                        /\ x = At(i) /\ End(s, x) = At(i) + L(i) /\ x \in Nat /\ next + f <= x
    OBVIOUS
  <2>1. PICK i \in 1..k : x = At(i)
    BY <1>P
  <2>2. End(s, x) = x + L(i)
    BY <1>N, <2>1 DEF End
  <2>3. x \in Nat /\ next + f <= x
    BY <1>1, <1>2, <1>6, <1>a, <2>1
  <2> QED BY <2>1, <2>2, <2>3
<1> HIDE DEF D, next, g
<1>12. ASSUME NEW x \in D \cup new PROVE w.cur <= x /\ End(s, x) <= next + e
  <2>1. CASE x \in D
    <3>1. w.cur <= x
      BY <1>1, <2>1 DEF Tiles, D
    <3>2. End(s, x) <= next + f
      BY <1>1, <1>2, <1>10, <2>1
    <3>3. x = g => End(s, x) <= next + f
      BY <3>2
    <3> QED BY <1>1, <1>2, <1>8, <1>10, <2>1, <3>1, <3>2
  <2>2. CASE x \in new
    <3>1. PICK i \in 1..k : x = At(i) /\ End(s, x) = At(i) + L(i) /\ x \in Nat /\ next + f <= x
      BY <1>11, <2>2
    <3>2. Cut(f, i) + L(i) <= e
      <4>1. CASE i = k
        BY <1>3, <1>6, <1>8, <1>9, <4>1
      <4>2. CASE i < k
        <5>1. k \in 1..k
          BY <1>3, <4>2
        <5>2. Cut(f, i) + L(i) <= Cut(f, k)
          BY <1>7, <4>2, <5>1
        <5>3. Cut(f, i) \in Nat /\ L(i) \in Nat /\ Cut(f, k) \in Nat /\ L(k) \in Nat
          BY <1>6, <1>9, <5>1
        <5>4. e = Cut(f, k) + L(k)
          BY <1>8, <4>2
        <5> QED BY <5>2, <5>3, <5>4
      <4> QED BY <1>3, <4>1, <4>2
    <3>3. Cut(f, i) \in Nat /\ L(i) \in Nat /\ e \in Nat
      BY <1>2, <1>6, <1>8, <1>9
    <3>4. End(s, x) <= next + e
      BY <1>1, <1>a, <3>1, <3>2, <3>3
    <3> QED BY <1>1, <1>2, <3>1, <3>4
  <2> QED BY <2>1, <2>2
<1>13. ASSUME NEW x \in D \cup new, NEW y \in D \cup new, x < y PROVE End(s, x) <= y
  <2>1. CASE x \in D /\ y \in D
    <3>1. End(w.segs, x) <= y
      BY <1>1, <1>13, <2>1 DEF Tiles, D
    <3>2. x # g
      <4>1. x = g => End(w.segs, x) = next
        BY <1>1, <1>10, <2>1, MissingAssumption
      <4> QED BY <1>1, <1>10, <2>1, <3>1, <4>1
    <3> QED BY <1>10, <2>1, <3>1, <3>2
  <2>2. CASE x \in D /\ y \in new
    <3>1. End(s, x) <= next + f /\ End(s, x) \in Nat
      BY <1>1, <1>2, <1>10, <2>2
    <3> QED BY <1>1, <1>2, <1>11, <2>2, <3>1
  <2>3. CASE x \in new /\ y \in D
    BY <1>1, <1>2, <1>10, <1>11, <1>13, <2>3
  <2>4. CASE x \in new /\ y \in new
    <3>1. PICK i \in 1..k : x = At(i) /\ End(s, x) = At(i) + L(i) /\ x \in Nat
      BY <1>11, <2>4
    <3>2. PICK j \in 1..k : y = At(j)
      BY <1>11, <2>4
    <3>3. /\ Cut(f, i) \in Nat /\ Cut(f, j) \in Nat /\ L(i) \in 1..MSS /\ L(j) \in 1..MSS
      BY <1>6
    <3>4. i < j
      <4>1. CASE j < i
        <5>1. Cut(f, j) + L(j) <= Cut(f, i)
          BY <1>7, <4>1
        <5> QED BY <1>1, <1>9, <1>13, <1>a, <3>1, <3>2, <3>3, <5>1
      <4>2. CASE j = i
        <5>1. x = y /\ ~(x < x)
          BY <3>1, <3>2, <4>2
        <5> QED BY <1>13, <5>1
      <4> QED BY <1>3, <4>1, <4>2
    <3>5. Cut(f, i) + L(i) <= Cut(f, j)
      BY <1>7, <3>4
    <3> QED BY <1>1, <1>9, <1>a, <3>1, <3>2, <3>3, <3>5
  <2> QED BY <2>1, <2>2, <2>3, <2>4
<1> DEFINE to == next + e
<1>14. ASSUME NEW i \in w.cur..to - 1
       PROVE  \E x \in D \cup new : x <= i /\ i < End(s, x)
  <2>0. i \in Int /\ w.cur <= i /\ i < next + e /\ e \in Nat
    BY <1>1, <1>2, <1>8
  <2>1. CASE i < next
    <3>1. PICK x \in D : x <= i /\ i < End(w.segs, x)
      BY <1>1, <2>0, <2>1 DEF Tiles, D
    <3>2. i < End(s, x)
      BY <1>1, <1>2, <1>10, <2>0, <2>1, <3>1
    <3> QED BY <3>1, <3>2
  <2>2. CASE next <= i /\ i < next + f
    <3>1. g # Missing
      BY <1>1, <1>2, <2>0, <2>2
    <3>2. g \in D /\ End(s, g) = next + f /\ g \in Nat /\ g < next
      BY <1>1, <1>10, <3>1 DEF g
    <3>3. g <= i
      BY <1>1, <2>0, <2>2, <3>2
    <3> QED BY <2>2, <3>2, <3>3
  <2>3. CASE next + f <= i
    <3> DEFINE d == i - next
    <3>1. d \in f..e - 1
      BY <1>1, <1>2, <2>0, <2>3
    <3>2. PICK j \in 1..k : Cut(f, j) <= d /\ d < Cut(f, j) + L(j)
      BY <1>8, <3>1
    <3>3. At(j) \in new
      BY <1>N
    <3>4. Cut(f, j) \in Nat /\ L(j) \in Nat
      BY <1>6, <1>9
    <3>5. End(s, At(j)) = At(j) + L(j)
      BY <1>N DEF End
    <3>6. At(j) <= i /\ i < At(j) + L(j)
      BY <1>1, <1>a, <2>0, <3>2, <3>4
    <3> QED BY <3>3, <3>5, <3>6
  <2> QED BY <1>1, <1>2, <2>0, <2>1, <2>2, <2>3
<1>15. Tiles(s, w.cur, to)
  <2>1. \A x \in DOMAIN s : w.cur <= x /\ End(s, x) <= to
    BY <1>4, <1>12
  <2>2. \A x, y \in DOMAIN s : x < y => End(s, x) <= y
    BY <1>4, <1>13
  <2>3. \A i \in w.cur..to - 1 : \E x \in DOMAIN s : x <= i /\ i < End(s, x)
    <3> HIDE DEF to
    <3> QED BY <1>4, <1>14
  <2> HIDE DEF to
  <2> QED BY <2>1, <2>2, <2>3 DEF Tiles
<1>16. next + e \in Nat /\ next <= next + e /\ next + e <= next + n
  BY <1>1, <1>2, <1>8
<1> QED BY <1>5, <1>15, <1>16 DEF t, s, next

\* Adding bytes of the user leaves the window as it should be.
LEMMA AddedKeeps ==
    ASSUME NEW w, WindowOK(w), NEW n \in Nat \ {0}, w.next + n <= StreamLength, NEW room \in Nat
    PROVE  LET t == Added(w, n, room)
           IN  /\ WindowOK(t) /\ DOMAIN w.segs \subseteq DOMAIN t.segs
               /\ t.cur = w.cur /\ t.highest = w.highest
               /\ w.next <= t.next /\ t.next <= w.next + n
               /\ \A x \in DOMAIN t.segs : t.segs[x].acked =>
                    x \in DOMAIN w.segs /\ w.segs[x].acked /\ End(t.segs, x) = End(w.segs, x)
<1> DEFINE f == Grown(w, n)
           k == Count(w, n, room)
           t == Added(w, n, room)
           new == Places(w, n, room)
           D == DOMAIN w.segs
           h == w.highest
           At(i) == Place(w, n, i)
           c == Cuttings(f, k, w.next)
<1>1. /\ IsWindow(w) /\ Segs(w.segs) /\ SentBelow(w.segs, h) /\ Queues(w) /\ GrowsAtEnd(w)
      /\ w.next \in Nat /\ w.cur \in Nat /\ h \in Nat /\ w.cur <= h /\ h <= w.next
      /\ w.prio \in Seq(Positions) /\ w.tx \in Seq(Positions) /\ w.wait \in Seq(Positions)
      /\ w.size \in 0..TxWindow /\ StreamLength \in Nat
  BY SizesAssumption DEF WindowOK, Typed
<1>0. h \in Nat /\ w.next \in Nat /\ h <= w.next
  BY <1>1
<1>2. f \in 0..n /\ k \in Nat /\ k <= (n - f + MSS - 1) \div MSS /\ (k > 0 => f < n)
  BY CountFacts
<1>3. IsFcn(t.segs) /\ DOMAIN t.segs = D \cup new
  BY <1>1, AddedDomain
<1>4. /\ t.tx = w.tx \o c /\ t.prio = w.prio /\ t.wait = w.wait
      /\ t.cur = w.cur /\ t.highest = h /\ t.size = w.size
  <2>1. t.tx = w.tx \o c
    BY <1>1, AddedTx
  <2>2. t.prio = w.prio /\ t.wait = w.wait /\ t.cur = w.cur /\ t.highest = h /\ t.size = w.size
    BY <1>1, AddedQueues
  <2> QED BY <2>1, <2>2
<1>5. IsWindow(t)
  BY <1>1, AddedWindow
<1>6. Tiles(t.segs, w.cur, t.next) /\ t.next \in Nat /\ w.next <= t.next /\ t.next <= w.next + n
  BY AddedTiles
<1>N. ASSUME NEW i \in 1..k
      PROVE  LET x == At(i)
             IN  /\ x = w.next + Cut(f, i)
                 /\ x \in Positions /\ x >= w.next /\ x \in new
                 /\ t.segs[x] \in SegmentType /\ t.segs[x].pos = x % LENGTH
                 /\ t.segs[x].len = Size(w, n, i)
                 /\ t.segs[x].outstanding = FALSE /\ t.segs[x].acked = FALSE
  BY NewSegment
<1>D. ASSUME NEW x \in D
      PROVE  /\ x \in Nat /\ x < w.next /\ x \in Positions /\ x \notin new
             /\ t.segs[x] \in SegmentType /\ t.segs[x].pos = x % LENGTH
             /\ x # w.growing => t.segs[x].len = w.segs[x].len
             /\ x = w.growing => t.segs[x].len = w.segs[x].len + f
             /\ t.segs[x].outstanding = w.segs[x].outstanding
             /\ t.segs[x].acked = w.segs[x].acked
  <2>1. /\ x \in Nat /\ x < w.next /\ x \notin new
        /\ t.segs[x] \in SegmentType /\ t.segs[x].pos = x % LENGTH
        /\ x # w.growing => t.segs[x].len = w.segs[x].len
        /\ x = w.growing => t.segs[x].len = w.segs[x].len + f
        /\ t.segs[x].outstanding = w.segs[x].outstanding
        /\ t.segs[x].acked = w.segs[x].acked
    BY OldSegment
  <2>2. x \in Positions
    BY <1>1 DEF Segs
  <2> QED BY <2>1, <2>2
<1>P. \A x \in new : \E i \in 1..k : x = At(i)
  BY DEF Places, NewAt, Place
<1>G. t.growing =
        IF k > 0 THEN IF Size(w, n, k) < MSS THEN At(k) ELSE Missing
        ELSE IF w.growing = Missing \/ w.segs[w.growing].len + f >= MSS
             THEN Missing ELSE w.growing
  BY <1>1, AddedGrowing
<1>C. c \in Seq(Positions) /\ Len(c) = k /\ ToSet(c) = new /\ \A i \in 1..k : c[i] = At(i)
  <2>1. \A i \in 1..k : CutAt(f, i, w.next) \in Positions
    BY <1>N DEF Place
  <2> HIDE DEF f, k
  <2>2. /\ Cuttings(f, k, w.next) \in Seq(Positions) /\ Len(Cuttings(f, k, w.next)) = k
        /\ ToSet(Cuttings(f, k, w.next)) = NewAt(f, k, w.next)
        /\ \A i \in 1..k : Cuttings(f, k, w.next)[i] = CutAt(f, i, w.next)
    BY <1>1, <1>2, <2>1, CuttingsFacts
  <2> QED BY <2>2 DEF Places, Place, f, k
<1>E. /\ k = 0 => t.next = w.next + f
      /\ k > 0 => t.next = w.next + (Cut(f, k) + Size(w, n, k))
      /\ \A i, j \in 1..k : i < j => Cut(f, i) + Size(w, n, i) <= Cut(f, j)
      /\ \A i \in 1..k : Cut(f, i) \in Nat /\ Size(w, n, i) \in 1..MSS
  <2>1. t.next = w.next + Taken(f, n, k)
    BY <1>1, AddedNext
  <2>2. \A i : Size(w, n, i) = Piece(f, n, i)
    BY DEF Size
  <2> HIDE DEF f, k, t
  <2>3. Taken(f, n, k) = IF k = 0 THEN f ELSE Cut(f, k) + Size(w, n, k)
    BY <1>2, <2>2, CutsCover DEF Taken
  <2>4. \A i, j \in 1..k : i < j => Cut(f, i) + Size(w, n, i) <= Cut(f, j)
    BY <1>2, <2>2, Cuts
  <2>5. \A i \in 1..k : Cut(f, i) \in Nat /\ Size(w, n, i) \in 1..MSS
    BY <1>2, <2>2, Cuts
  <2> QED BY <1>2, <2>1, <2>3, <2>4, <2>5
<1> HIDE DEF t, f, k, new, D, h, At, c
<1>g. w.growing # Missing =>
        /\ w.growing \in D /\ w.growing >= h
        /\ End(w.segs, w.growing) = w.next /\ w.segs[w.growing].len < MSS
  BY <1>1 DEF GrowsAtEnd, D, h
<1>o. ASSUME NEW x \in D, x < h PROVE t.segs[x].len = w.segs[x].len
  <2>1. x # Missing
    BY <1>D, MissingAssumption
  <2>2. x # w.growing
    BY <1>1, <1>D, <1>o, <1>g, <2>1
  <2> QED BY <1>D, <2>2
<1>n. ASSUME NEW x \in new
      PROVE  /\ x \in Positions /\ x \in Nat /\ x >= h /\ ~(x < h)
             /\ t.segs[x] \in SegmentType /\ t.segs[x].pos = x % LENGTH
             /\ t.segs[x].outstanding = FALSE /\ t.segs[x].acked = FALSE
  <2>1. PICK i \in 1..k : x = At(i)
    BY <1>P
  <2>2. /\ x \in Positions /\ x >= w.next
        /\ t.segs[x] \in SegmentType /\ t.segs[x].pos = x % LENGTH
        /\ t.segs[x].outstanding = FALSE /\ t.segs[x].acked = FALSE
    BY <1>N, <2>1
  <2>3. x \in Nat
    BY <2>2, SizesAssumption DEF Positions
  <2>4. x >= h /\ ~(x < h)
    BY <1>0, <2>2, <2>3
  <2> QED BY <2>2, <2>3, <2>4
<1>7. Segs(t.segs)
  <2>1. \A x \in DOMAIN t.segs :
          x \in Positions /\ t.segs[x] \in SegmentType /\ t.segs[x].pos = x % LENGTH
    BY <1>3, <1>D, <1>n
  <2> QED BY <1>3, <2>1 DEF Segs
<1>8. SentBelow(t.segs, h)
  <2>1. ASSUME NEW x \in D
        PROVE  /\ t.segs[x].outstanding <=> x < h
               /\ x < h => End(t.segs, x) <= h
               /\ t.segs[x].acked => x < h
    <3>1. /\ w.segs[x].outstanding <=> x < h
          /\ x < h => End(w.segs, x) <= h
          /\ w.segs[x].acked => x < h
      BY <1>1 DEF SentBelow, D
    <3> QED BY <1>D, <1>o, <3>1 DEF End
  <2>2. ASSUME NEW x \in new
        PROVE  /\ t.segs[x].outstanding <=> x < h
               /\ x < h => End(t.segs, x) <= h
               /\ t.segs[x].acked => x < h
    BY <1>n
  <2> QED BY <1>3, <2>1, <2>2 DEF SentBelow
<1>9. Queues(t) /\ t.tx \in Seq(Positions)
  <2>1. /\ ToSet(w.tx) = {x \in D : x >= h}
        /\ \A i, j \in 1..Len(w.tx) : i < j => w.tx[i] < w.tx[j]
        /\ IsInjective(w.prio) /\ IsInjective(w.wait)
        /\ ToSet(w.prio) \cap ToSet(w.wait) = {}
        /\ ToSet(w.prio) \cup ToSet(w.wait) = {x \in D : x < h /\ ~w.segs[x].acked}
    BY <1>1 DEF Queues, D, h
  <2>2. t.tx \in Seq(Positions) /\ ToSet(t.tx) = ToSet(w.tx) \cup new
    BY <1>1, <1>4, <1>C, ConcatFacts
  <2>3. ToSet(t.tx) = {x \in DOMAIN t.segs : x >= t.highest}
    BY <1>3, <1>4, <1>n, <2>1, <2>2
  <2>4. {x \in D : x < h /\ ~w.segs[x].acked} = {x \in DOMAIN t.segs : x < h /\ ~t.segs[x].acked}
    BY <1>3, <1>D, <1>n
  <2>5. \A i, j \in 1..Len(c) : i < j => c[i] < c[j]
    <3> SUFFICES ASSUME NEW i \in 1..k, NEW j \in 1..k, i < j PROVE At(i) < At(j)
      BY <1>C
    <3>1. Cut(f, i) \in Nat /\ Cut(f, j) \in Nat /\ Size(w, n, i) \in 1..MSS /\ MSS \in Nat
      BY <1>E, SizesAssumption
    <3>2. Cut(f, i) < Cut(f, j)
      <4>1. Cut(f, i) + Size(w, n, i) <= Cut(f, j)
        BY <1>E
      <4> QED BY <3>1, <4>1
    <3>3. At(i) = w.next + Cut(f, i) /\ At(j) = w.next + Cut(f, j)
      BY <1>N
    <3> QED BY <1>0, <3>1, <3>2, <3>3
  <2>6. \A i \in 1..Len(w.tx), j \in 1..Len(c) : w.tx[i] < c[j]
    <3> SUFFICES ASSUME NEW i \in 1..Len(w.tx), NEW j \in 1..k PROVE w.tx[i] < At(j)
      BY <1>C
    <3>1. w.tx[i] \in ToSet(w.tx)
      <4>1. i \in DOMAIN w.tx
        BY <1>1
      <4> QED BY <4>1 DEF ToSet
    <3>2. w.tx[i] \in Nat /\ w.tx[i] < w.next
      BY <1>D, <2>1, <3>1
    <3>3. At(j) >= w.next /\ At(j) \in Positions
      BY <1>N
    <3>4. At(j) \in Nat
      BY <3>3, SizesAssumption DEF Positions
    <3> DEFINE a == w.tx[i]
               b == At(j)
    <3> HIDE DEF a, b
    <3>5. a \in Nat /\ b \in Nat /\ a < w.next /\ b >= w.next => a < b
      BY <1>0
    <3> QED BY <3>2, <3>3, <3>4, <3>5 DEF a, b
  <2>7. \A i, j \in 1..Len(t.tx) : i < j => t.tx[i] < t.tx[j]
    BY <1>1, <1>4, <1>C, <2>1, <2>5, <2>6, ConcatAscends
  <2> QED BY <1>4, <2>1, <2>2, <2>3, <2>4, <2>7 DEF Queues
<1>10. GrowsAtEnd(t)
  <2> SUFFICES ASSUME t.growing # Missing
               PROVE  /\ t.growing \in DOMAIN t.segs /\ t.growing >= t.highest
                      /\ End(t.segs, t.growing) = t.next /\ t.segs[t.growing].len < MSS
    BY DEF GrowsAtEnd
  <2>1. CASE k > 0
    <3> DEFINE x == At(k)
    <3>1. k \in 1..k
      BY <1>2, <2>1
    <3>2. t.growing = x /\ Size(w, n, k) < MSS
      BY <1>G, <2>1
    <3>3. /\ x = w.next + Cut(f, k) /\ x \in new /\ t.segs[x].len = Size(w, n, k)
      BY <1>N, <3>1
    <3>4. Cut(f, k) \in Nat /\ Size(w, n, k) \in 1..MSS /\ MSS \in Nat
      BY <1>E, <3>1, SizesAssumption
    <3>5. t.next = w.next + (Cut(f, k) + Size(w, n, k))
      BY <1>E, <2>1
    <3>6. End(t.segs, x) = t.next
      BY <1>1, <3>3, <3>4, <3>5 DEF End
    <3> QED BY <1>3, <1>4, <1>n, <3>2, <3>3, <3>6
  <2>2. CASE ~(k > 0)
    <3> DEFINE x == w.growing
               l == w.segs[x].len
    <3>1. t.growing = x /\ x # Missing /\ ~(l + f >= MSS)
      BY <1>G, <2>2
    <3>2. x \in D /\ x >= h /\ End(w.segs, x) = w.next
      BY <1>g, <3>1
    <3>3. t.segs[x].len = l + f /\ x \in Nat
      BY <1>D, <3>2
    <3>4. l \in Nat
      BY <1>1, <3>2, Numbers, SizesAssumption DEF D
    <3>5. x + l = w.next
      BY <3>2 DEF End
    <3>6. t.next = w.next + f
      BY <1>2, <1>E, <2>2
    <3> HIDE DEF l
    <3>7. End(t.segs, x) = t.next
      <4>1. End(t.segs, x) = x + (l + f)
        BY <3>3 DEF End
      <4>2. f \in Nat
        BY <1>2
      <4> HIDE DEF x
      <4> QED BY <3>3, <3>4, <3>5, <3>6, <4>1, <4>2
    <3>8. t.segs[x].len < MSS
      BY <1>2, <3>1, <3>3, <3>4, SizesAssumption
    <3> QED BY <1>3, <1>4, <3>1, <3>2, <3>7, <3>8
  <2> QED BY <2>1, <2>2
<1>11. Typed(t)
  <2>1. t.highest <= t.next /\ t.next <= StreamLength
    <3>1. t.highest = h /\ t.next \in Nat /\ w.next <= t.next /\ t.next <= w.next + n
      BY <1>4, <1>6
    <3>2. StreamLength \in Nat
      BY <1>1
    <3> HIDE DEF h
    <3> QED BY <1>0, <3>1, <3>2
  <2> QED BY <1>1, <1>4, <1>5, <1>6, <1>7, <1>9, <2>1 DEF Typed, h
<1>12. WindowOK(t)
  BY <1>4, <1>6, <1>8, <1>9, <1>10, <1>11 DEF WindowOK
<1>13. ASSUME NEW x \in DOMAIN t.segs, t.segs[x].acked
       PROVE  x \in D /\ w.segs[x].acked /\ End(t.segs, x) = End(w.segs, x)
  <2>1. x \in D /\ w.segs[x].acked
    BY <1>3, <1>13, <1>D, <1>n
  <2>2. x < h
    BY <1>1, <2>1 DEF SentBelow, D
  <2> QED BY <1>o, <2>1, <2>2 DEF End
<1> QED BY <1>3, <1>4, <1>6, <1>12, <1>13 DEF t, h, D

\* The segments of a window are finitely many, and no more are made than room for.
LEMMA SegmentsFinite ==
    ASSUME NEW s, Segs(s) PROVE IsFiniteSet(DOMAIN s) /\ Cardinality(DOMAIN s) \in Nat
<1>1. IsFiniteSet(Positions)
  <2>1. 0 \in Int /\ StreamLength - 1 \in Int
    BY SizesAssumption
  <2> QED BY <2>1, FS_Interval DEF Positions
<1>2. DOMAIN s \in SUBSET Positions
  BY DEF Segs
<1> QED BY <1>1, <1>2, FS_Subset, FS_CardinalityType

LEMMA AddedCount ==
    ASSUME NEW w, WindowOK(w), NEW n \in Nat \ {0}, w.next + n <= StreamLength, NEW room \in Nat
    PROVE  Cardinality(DOMAIN Added(w, n, room).segs) <= Cardinality(DOMAIN w.segs) + room
<1> DEFINE k == Count(w, n, room)
           new == Places(w, n, room)
           D == DOMAIN w.segs
           g == [i \in 1..k |-> Place(w, n, i)]
<1>1. IsWindow(w) /\ Segs(w.segs)
  BY DEF WindowOK, Typed
<1>2. k \in Nat /\ k <= room
  BY CountFacts
<1>3. IsFiniteSet(1..k) /\ Cardinality(1..k) = k
  <2> HIDE DEF k
  <2>1. 1 \in Int /\ k \in Int
    BY <1>2
  <2>2. Cardinality(1..k) = IF 1 > k THEN 0 ELSE k - 1 + 1
    BY <2>1, FS_Interval
  <2> QED BY <1>2, <2>1, <2>2, FS_Interval
<1>4. g \in Surjection(1..k, new)
  <2>1. \A i \in 1..k : Place(w, n, i) \in new
    BY DEF Places, NewAt, Place
  <2>2. \A x \in new : \E i \in 1..k : x = Place(w, n, i)
    BY DEF Places, NewAt, Place
  <2> HIDE DEF new, k
  <2> QED BY <2>1, <2>2 DEF Surjection
<1>5. IsFiniteSet(new) /\ Cardinality(new) <= k /\ Cardinality(new) \in Nat
  <2> HIDE DEF new, k, g
  <2>1. IsFiniteSet(new) /\ Cardinality(new) <= Cardinality(1..k)
    BY <1>3, <1>4, FS_Surjection
  <2> QED BY <1>3, <2>1, FS_CardinalityType
<1>6. IsFiniteSet(D) /\ Cardinality(D) \in Nat
  BY <1>1, SegmentsFinite
<1>7. DOMAIN Added(w, n, room).segs = D \cup new
  BY <1>1, AddedDomain
<1> HIDE DEF D, new, k
<1>8. Cardinality(D \cup new) = Cardinality(D) + Cardinality(new) - Cardinality(D \cap new)
  BY <1>5, <1>6, FS_Union
<1>9. Cardinality(D \cap new) \in Nat
  BY <1>6, FS_Subset, FS_CardinalityType
<1>10. Cardinality(D \cup new) <= Cardinality(D) + room
  BY <1>2, <1>5, <1>6, <1>8, <1>9
<1> QED BY <1>7, <1>10 DEF D

----------------------------------------------------------------------------
(* The peer *)

\* PeerNext is where what the peer has in order ends.
LEMMA PeerNextFacts ==
    ASSUME NEW g \in [Positions -> Positions \cup {Missing}]
    PROVE  /\ PeerNext(g) \in 0..StreamLength
           /\ \A j \in 0..PeerNext(g) - 1 : g[j] # Missing
           /\ PeerNext(g) < StreamLength => g[PeerNext(g)] = Missing
           /\ \A m \in 0..StreamLength : (\A j \in 0..m - 1 : g[j] # Missing) => m <= PeerNext(g)
<1> DEFINE P(i) == /\ i = StreamLength \/ g[i] = Missing
                   /\ \A j \in 0..i - 1 : g[j] # Missing
           S == {i \in 0..StreamLength : i = StreamLength \/ g[i] = Missing}
<1>0. StreamLength \in Nat
  BY SizesAssumption
<1>1. S \in SUBSET Nat /\ S # {}
  <2>1. StreamLength \in S
    BY <1>0
  <2> QED BY <1>0, <2>1
<1>2. PICK m \in S : \A z \in S : m <= z
  <2> HIDE DEF S
  <2> QED BY <1>1, LeastExists
<1>3. m \in 0..StreamLength /\ P(m)
  <2>1. ASSUME NEW j \in 0..m - 1 PROVE g[j] # Missing
    <3>1. j \in 0..StreamLength /\ ~(m <= j)
      BY <1>0, <1>2
    <3> QED BY <1>2, <3>1
  <2> QED BY <1>2, <2>1
<1>4. PeerNext(g) \in 0..StreamLength /\ P(PeerNext(g))
  BY <1>3 DEF PeerNext
<1>5. ASSUME NEW l \in 0..StreamLength, \A j \in 0..l - 1 : g[j] # Missing
      PROVE  l <= PeerNext(g)
  <2> SUFFICES ASSUME ~(l <= PeerNext(g)) PROVE FALSE
    OBVIOUS
  <2>1. PeerNext(g) \in 0..l - 1 /\ PeerNext(g) # StreamLength
    BY <1>0, <1>4
  <2> QED BY <1>4, <1>5, <2>1
<1>6. PeerNext(g) < StreamLength => PeerNext(g) # StreamLength
  BY <1>0, <1>4
<1> QED BY <1>4, <1>5, <1>6

\* What comes leaves the peer no less.
LEMMA PeerNextGrows ==
    ASSUME NEW g \in [Positions -> Positions \cup {Missing}],
           NEW h \in [Positions -> Positions \cup {Missing}],
           \A i \in Positions : g[i] # Missing => h[i] # Missing
    PROVE  PeerNext(g) <= PeerNext(h)
<1>1. /\ PeerNext(g) \in 0..StreamLength
      /\ \A j \in 0..PeerNext(g) - 1 : g[j] # Missing
  BY PeerNextFacts
<1>2. \A j \in 0..PeerNext(g) - 1 : h[j] # Missing
  BY <1>1, SizesAssumption DEF Positions
<1> QED BY <1>1, <1>2, PeerNextFacts

\* The bytes of a packet are copied from their place in txStream.
LEMMA PacketFacts ==
    ASSUME NEW w, Segs(w.segs), NEW x \in DOMAIN w.segs, NEW t \in Nat, t <= x, x < t + LENGTH
    PROVE  /\ Packet(w, x, t).seq = x /\ Packet(w, x, t).len = w.segs[x].len
           /\ Packet(w, x, t).from = x
<1>1. x \in Nat /\ w.segs[x].pos = Wrapped(x)
  BY Numbers DEF Segs, Wrapped
<1>2. t + Wrapped(Wrapped(x) - t) = x
  BY <1>1, WrappedDistance
<1>3. Packet(w, x, t) = [seq |-> x, len |-> w.segs[x].len, from |-> t + Wrapped(Wrapped(x) - t)]
  BY <1>1 DEF Packet, Wrapped
<1> QED BY <1>2, <1>3

----------------------------------------------------------------------------
(* A turn of the IP task *)

\* prvTCPAddTxData.
LEMMA AddTxDataKeeps ==
    ASSUME NEW w, WindowOK(w), w.next = mid, head \in Nat, mid <= head, head <= StreamLength,
           NEW room \in Nat
    PROVE  LET t == AddTxData(w, room)
           IN  /\ WindowOK(t) /\ t.cur = w.cur /\ t.highest = w.highest
               /\ mid <= t.next /\ t.next <= head
               /\ Cardinality(DOMAIN t.segs) <= Cardinality(DOMAIN w.segs) + room
               /\ \A x \in DOMAIN t.segs : t.segs[x].acked =>
                    x \in DOMAIN w.segs /\ w.segs[x].acked /\ End(t.segs, x) = End(w.segs, x)
<1>0. mid \in Nat /\ Cardinality(DOMAIN w.segs) \in Nat
  BY SegmentsFinite DEF WindowOK, Typed
<1>1. CASE head = mid
  <2>1. AddTxData(w, room) = w
    BY <1>1 DEF AddTxData
  <2> QED BY <1>0, <1>1, <2>1
<1>2. CASE head # mid
  <2> DEFINE n == head - mid
             t == Added(w, n, room)
  <2>1. n \in Nat \ {0} /\ w.next + n = head /\ w.next + n <= StreamLength
    BY <1>0, <1>2
  <2>2. AddTxData(w, room) = t
    BY <1>2 DEF AddTxData, Added, Wrapped
  <2> HIDE DEF n
  <2>3. /\ WindowOK(t) /\ t.cur = w.cur /\ t.highest = w.highest
        /\ w.next <= t.next /\ t.next <= w.next + n
        /\ \A x \in DOMAIN t.segs : t.segs[x].acked =>
             x \in DOMAIN w.segs /\ w.segs[x].acked /\ End(t.segs, x) = End(w.segs, x)
    BY <2>1, AddedKeeps
  <2>4. Cardinality(DOMAIN t.segs) <= Cardinality(DOMAIN w.segs) + room
    BY <2>1, AddedCount
  <2> HIDE DEF t
  <2> QED BY <2>1, <2>2, <2>3, <2>4
<1> QED BY <1>1, <1>2

\* The user's data is added to the window, then a segment is sent.
LEMMA TurnKeeps ==
    ASSUME NEW a, WindowOK(a), a.next = mid, head \in Nat, mid <= head, head <= StreamLength,
           head < a.cur + LENGTH, NEW room \in Nat, NEW size \in Nat, NEW expired \in BOOLEAN,
           Cardinality(DOMAIN a.segs) + room <= Segments
    PROVE  LET w == AddTxData(a, room)
               x == Chosen(w, size, expired)
               s == Sent(w, x)
               p == Packet(w, x, a.cur)
           IN  /\ WindowOK(s) /\ s.cur = a.cur /\ s.next = w.next
               /\ mid <= s.next /\ s.next <= head
               /\ Cardinality(DOMAIN s.segs) <= Segments
               /\ a.highest <= s.highest
               /\ \A y \in DOMAIN s.segs : s.segs[y].acked =>
                    y \in DOMAIN a.segs /\ a.segs[y].acked /\ End(s.segs, y) = End(a.segs, y)
               /\ x # Missing => /\ p.seq \in Positions /\ p.len \in 1..MSS /\ p.from = p.seq
                                 /\ p.seq + p.len <= s.highest
               /\ NoWrap => s.highest = a.highest \/ s.highest <= a.cur + size
<1> DEFINE w == AddTxData(a, room)
           x == Chosen(w, size, expired)
           s == Sent(w, x)
           p == Packet(w, x, a.cur)
<1>1. /\ WindowOK(w) /\ w.cur = a.cur /\ w.highest = a.highest
      /\ mid <= w.next /\ w.next <= head
      /\ Cardinality(DOMAIN w.segs) <= Cardinality(DOMAIN a.segs) + room
      /\ \A y \in DOMAIN w.segs : w.segs[y].acked =>
           y \in DOMAIN a.segs /\ a.segs[y].acked /\ End(w.segs, y) = End(a.segs, y)
  BY AddTxDataKeeps
<1> HIDE DEF w
<1>2. x = Chosen(w, size, expired)
  OBVIOUS
<1> HIDE DEF x
<1>3. /\ WindowOK(s) /\ DOMAIN s.segs = DOMAIN w.segs /\ SameSegs(w.segs, s.segs)
      /\ s.cur = w.cur /\ s.next = w.next /\ w.highest <= s.highest
      /\ \A y \in DOMAIN s.segs : s.segs[y].acked = w.segs[y].acked
      /\ x # Missing => x \in DOMAIN w.segs /\ End(w.segs, x) <= s.highest
      /\ NoWrap => s.highest = w.highest \/ s.highest <= w.cur + size
  BY <1>1, <1>2, SentKeeps
<1>4. /\ a.cur \in Nat /\ mid \in Nat /\ Segs(w.segs) /\ w.next \in Nat
      /\ Tiles(w.segs, w.cur, w.next)
  BY <1>1 DEF WindowOK, Typed
<1>5. Cardinality(DOMAIN s.segs) <= Segments
  <2>1. Cardinality(DOMAIN w.segs) \in Nat /\ Cardinality(DOMAIN a.segs) \in Nat
    BY <1>4, SegmentsFinite DEF WindowOK, Typed
  <2> HIDE DEF s
  <2> QED BY <1>1, <1>3, <2>1, SizesAssumption
<1>6. \A y \in DOMAIN s.segs : End(s.segs, y) = End(w.segs, y)
  BY <1>3 DEF SameSegs, End
<1>7. ASSUME x # Missing
      PROVE  /\ p.seq \in Positions /\ p.len \in 1..MSS /\ p.from = p.seq
             /\ p.seq + p.len <= s.highest
  <2>1. x \in DOMAIN w.segs /\ End(w.segs, x) <= s.highest
    BY <1>3, <1>7
  <2>2. /\ x \in Nat /\ w.segs[x].len \in 1..MSS
        /\ End(w.segs, x) \in Nat /\ x < End(w.segs, x)
    BY <1>4, <2>1, Numbers
  <2>3. a.cur <= x /\ End(w.segs, x) <= w.next
    BY <1>1, <1>4, <2>1 DEF Tiles
  <2>4. x < a.cur + LENGTH
    BY <1>1, <1>4, <2>2, <2>3, SizesAssumption
  <2>5. p.seq = x /\ p.len = w.segs[x].len /\ p.from = x
    BY <1>4, <2>1, <2>3, <2>4, PacketFacts
  <2>6. x \in Positions
    BY <1>4, <2>1 DEF Segs
  <2> HIDE DEF p, s
  <2> QED BY <2>1, <2>2, <2>5, <2>6 DEF End
<1> HIDE DEF s, p
<1>8. mid <= s.next /\ s.next <= head /\ a.highest <= s.highest /\ s.cur = a.cur
  BY <1>1, <1>3
<1>9. \A y \in DOMAIN s.segs : s.segs[y].acked =>
        y \in DOMAIN a.segs /\ a.segs[y].acked /\ End(s.segs, y) = End(a.segs, y)
  BY <1>1, <1>3, <1>6
<1> QED BY <1>1, <1>3, <1>5, <1>7, <1>8, <1>9 DEF w, x, s, p

----------------------------------------------------------------------------
(* The steps of the system *)

\* The numbers that the invariant speaks of.
LEMMA InvNumbers ==
    ASSUME IInv
    PROVE  /\ tail \in Nat /\ mid \in Nat /\ head \in Nat /\ read \in Nat
           /\ win.highest \in Nat /\ win.cur = tail /\ win.next = mid
           /\ tail <= win.highest /\ win.highest <= mid /\ mid <= head /\ head <= StreamLength
           /\ PeerNext(got) \in 0..StreamLength /\ read <= PeerNext(got) /\ tail <= PeerNext(got)
           /\ StreamLength \in Nat /\ PeerSpace \in Nat /\ LENGTH \in Nat
<1>1. /\ tail \in Nat /\ mid \in Nat /\ head \in Nat /\ win.highest \in Nat
      /\ win.cur = tail /\ win.next = mid /\ win.cur <= win.highest /\ win.highest <= win.next
      /\ mid <= head /\ head <= StreamLength /\ Has(got, 0, tail)
  BY DEF IInv, WindowOK, Typed, StreamOK
<1>2. StreamLength \in Nat /\ PeerSpace \in Nat /\ LENGTH \in Nat
  BY SizesAssumption, PeerAssumption
<1>3. got \in [Positions -> Positions \cup {Missing}] /\ read \in 0..PeerNext(got)
  BY DEF IInv, PeerOK
<1>4. PeerNext(got) \in 0..StreamLength
  BY <1>3, PeerNextFacts
<1>5. tail <= PeerNext(got)
  <2>1. tail \in 0..StreamLength
    BY <1>1, <1>2
  <2> QED BY <1>1, <1>3, <2>1, PeerNextFacts DEF Has
<1> QED BY <1>1, <1>2, <1>3, <1>4, <1>5

\* FreeRTOS_send changes the head of txStream.
LEMMA SendStep ==
    ASSUME IInv, NEW n \in 1..LENGTH - 1, Send(n)
    PROVE  IInv'
<1>1. /\ n <= LENGTH - 1 - (head - tail) /\ head + n <= StreamLength /\ head' = head + n
      /\ win' = win /\ wnd' = wnd /\ tail' = tail /\ mid' = mid /\ data' = data
      /\ acks' = acks /\ got' = got /\ read' = read
  BY DEF Send
<1>2. head' \in Nat /\ mid <= head' /\ head' < tail + LENGTH /\ head' <= StreamLength
  BY <1>1, InvNumbers
<1>3. WindowOK(win) /\ StreamOK /\ PeerOK /\ AcksOK
  BY DEF IInv
<1>4. StreamOK'
  BY <1>1, <1>2, <1>3 DEF StreamOK, Has
<1>5. PeerOK' /\ AcksOK'
  BY <1>1, <1>3 DEF PeerOK, AcksOK, AckOK, Has
<1> QED BY <1>1, <1>3, <1>4, <1>5 DEF IInv

\* What the IP task's turn leaves of the window and puts on its way is as it
\* should be, whatever it acknowledged before.
LEMMA TurnStep ==
    ASSUME IInv, NEW a, WindowOK(a), a.next = mid, tail <= a.cur,
           NEW room \in Nat, NEW expired \in BOOLEAN, NEW buffer \in BOOLEAN,
           NEW size \in Nat,
           Cardinality(DOMAIN a.segs) + room <= Segments,
           win.highest <= a.highest, Has(got, 0, a.cur), a.cur <= head,
           PrepareSend(AddTxData(a, room), size, a.cur, expired, buffer),
           tail' = a.cur, mid' = mid + (AddTxData(a, room).next - a.next),
           head' = head, got' = got, read' = read
    PROVE  /\ WindowOK(win)' /\ StreamOK' /\ PeerOK'
           /\ win'.cur = a.cur
           /\ \A x \in DOMAIN win'.segs : win'.segs[x].acked =>
                x \in DOMAIN a.segs /\ a.segs[x].acked /\ End(win'.segs, x) = End(a.segs, x)
           /\ NoWrap => win'.highest = a.highest \/ win'.highest <= a.cur + size
<1> DEFINE w == AddTxData(a, room)
           x == Chosen(w, size, expired)
           s == Sent(w, x)
           p == Packet(w, x, a.cur)
<1>0. /\ tail \in Nat /\ mid \in Nat /\ head \in Nat /\ mid <= head /\ head <= StreamLength
      /\ LENGTH \in Nat /\ head < tail + LENGTH /\ a.cur \in Nat
      /\ a.highest \in Nat /\ win.highest \in Nat
  BY InvNumbers DEF IInv, StreamOK, WindowOK, Typed
<1>1. head < a.cur + LENGTH
  BY <1>0
<1>2. /\ WindowOK(s) /\ s.cur = a.cur /\ s.next = w.next /\ mid <= s.next /\ s.next <= head
      /\ Cardinality(DOMAIN s.segs) <= Segments
      /\ a.highest <= s.highest
      /\ \A y \in DOMAIN s.segs : s.segs[y].acked =>
           y \in DOMAIN a.segs /\ a.segs[y].acked /\ End(s.segs, y) = End(a.segs, y)
      /\ x # Missing => /\ p.seq \in Positions /\ p.len \in 1..MSS /\ p.from = p.seq
                        /\ p.seq + p.len <= s.highest
      /\ NoWrap => s.highest = a.highest \/ s.highest <= a.cur + size
  BY <1>0, <1>1, TurnKeeps
<1>3. win' = s /\ data' = IF x # Missing /\ buffer THEN data \cup {p} ELSE data
  BY DEF PrepareSend
<1>4. mid' = mid + (w.next - a.next)
  OBVIOUS
<1> HIDE DEF w, x, s, p
<1>5. s.next \in Nat /\ s.highest \in Nat
  BY <1>2 DEF WindowOK, Typed
<1>6. mid' = s.next
  BY <1>0, <1>2, <1>4, <1>5
<1>7. StreamOK'
  <2>1. Has(got, 0, tail)'
    BY DEF Has
  <2>2. win'.cur = tail' /\ win'.next = mid'
    BY <1>2, <1>3, <1>6
  <2>3. tail' \in Nat /\ mid' \in Nat /\ head' \in Nat /\ mid' <= head'
        /\ head' < tail' + LENGTH /\ head' <= StreamLength
    BY <1>0, <1>1, <1>2, <1>5, <1>6
  <2>4. Cardinality(DOMAIN win'.segs) <= Segments
    BY <1>2, <1>3
  <2> QED BY <2>1, <2>2, <2>3, <2>4 DEF StreamOK
<1>8. PeerOK'
  <2>1. /\ got \in [Positions -> Positions \cup {Missing}]
        /\ read \in 0..PeerNext(got)
        /\ \A i \in Positions : got[i] # Missing =>
             got[i] = i /\ i < win.highest /\ i < read + PeerSpace
        /\ \A q \in data : /\ q.seq \in Positions /\ q.len \in 1..MSS
                           /\ q.from = q.seq /\ q.seq + q.len <= win.highest
    BY DEF IInv, PeerOK
  <2>2. win'.highest = s.highest /\ win.highest <= s.highest
    BY <1>0, <1>2, <1>3, <1>5
  <2>3. \A i \in Positions : got[i] # Missing => i < win'.highest
    BY <1>0, <1>5, <2>1, <2>2, SizesAssumption DEF Positions
  <2>4. ASSUME NEW q \in data'
        PROVE  /\ q.seq \in Positions /\ q.len \in 1..MSS
               /\ q.from = q.seq /\ q.seq + q.len <= win'.highest
    <3>1. CASE q \in data
      <4>1. /\ q.seq \in Positions /\ q.len \in 1..MSS
            /\ q.from = q.seq /\ q.seq + q.len <= win.highest
        BY <2>1, <3>1
      <4>2. q.seq + q.len \in Int
        BY <4>1, SizesAssumption DEF Positions
      <4>3. q.seq + q.len <= win'.highest
        BY <1>0, <1>5, <2>2, <4>1, <4>2
      <4> QED BY <4>1, <4>3
    <3>2. CASE q \notin data
      <4>1. q = p /\ x # Missing
        BY <1>3, <3>2
      <4> QED BY <1>2, <2>2, <4>1
    <3> QED BY <3>1, <3>2
  <2> QED BY <2>1, <2>3, <2>4 DEF PeerOK
<1> QED BY <1>2, <1>3, <1>7, <1>8

\* xTCPSocketCheck and prvTCPSendRepeated.
LEMMA SocketCheckStep ==
    ASSUME IInv, NEW room \in 0..Free, NEW expired \in BOOLEAN, NEW buffer \in BOOLEAN,
           SocketCheck(room, expired, buffer)
    PROVE  /\ IInv'
           /\ NoWrap => win'.highest = win.highest \/ win'.highest <= read + PeerSpace
<1>1. /\ PrepareSend(AddTxData(win, room), wnd, tail, expired, buffer)
      /\ mid' = mid + (AddTxData(win, room).next - win.next)
      /\ wnd' = wnd /\ tail' = tail /\ head' = head /\ acks' = acks /\ got' = got /\ read' = read
  BY DEF SocketCheck
<1>2. /\ WindowOK(win) /\ win.cur = tail /\ win.next = mid /\ Has(got, 0, win.cur)
      /\ wnd \in 0..PeerSpace /\ win.cur + wnd <= read + PeerSpace
      /\ Cardinality(DOMAIN win.segs) <= Segments
  BY DEF IInv, StreamOK, AcksOK
<1>3. room \in Nat /\ Cardinality(DOMAIN win.segs) + room <= Segments
  <2>1. Cardinality(DOMAIN win.segs) \in Nat /\ Segments \in Nat
    BY <1>2, SegmentsFinite, SizesAssumption DEF WindowOK, Typed
  <2> QED BY <1>2, <2>1 DEF Free
<1>4. wnd \in Nat /\ tail <= win.cur /\ win.highest <= win.highest /\ win.cur <= head
  BY <1>2, InvNumbers
<1>5. /\ WindowOK(win)' /\ StreamOK' /\ PeerOK'
      /\ win'.cur = win.cur
      /\ \A x \in DOMAIN win'.segs : win'.segs[x].acked =>
           x \in DOMAIN win.segs /\ win.segs[x].acked /\ End(win'.segs, x) = End(win.segs, x)
      /\ NoWrap => win'.highest = win.highest \/ win'.highest <= win.cur + wnd
  <2>1. PrepareSend(AddTxData(win, room), wnd, win.cur, expired, buffer) /\ tail' = win.cur
    BY <1>1, <1>2
  <2> QED BY <1>1, <1>2, <1>3, <1>4, <2>1, TurnStep
<1>6. AcksOK'
  <2>1. AcksOK
    BY DEF IInv
  <2>2. \A i \in 1..Len(acks) : AckOK(acks[i])'
    BY <1>1, <1>2, <1>5, <2>1 DEF AcksOK, AckOK, Has
  <2>3. \A x \in DOMAIN win'.segs : win'.segs[x].acked => Has(got', x, End(win'.segs, x))
    BY <1>1, <1>5, <2>1 DEF AcksOK, Has
  <2> QED BY <1>1, <1>2, <1>5, <2>1, <2>2, <2>3 DEF AcksOK
<1>7. NoWrap => win'.highest = win.highest \/ win'.highest <= read + PeerSpace
  <2>1. win'.highest \in Nat
    BY <1>5 DEF WindowOK, Typed
  <2> QED BY <1>2, <1>4, <1>5, <2>1, InvNumbers
<1> QED BY <1>5, <1>6, <1>7 DEF IInv

\* What the peer has in a row before m lies below PeerNext; what it has at all
\* was sent.
LEMMA HadFacts ==
    ASSUME IInv
    PROVE  /\ \A m \in 0..StreamLength : m > 0 /\ got[m - 1] # Missing => m <= win.highest
           /\ \A m \in 0..PeerNext(got) : m <= win.highest /\ Has(got, 0, m)
<1>1. /\ got \in [Positions -> Positions \cup {Missing}]
      /\ \A i \in Positions : got[i] # Missing => i < win.highest
  BY DEF IInv, PeerOK
<1>2. /\ win.highest \in Nat /\ StreamLength \in Nat /\ PeerNext(got) \in 0..StreamLength
  BY InvNumbers
<1>3. ASSUME NEW m \in 0..StreamLength, m > 0, got[m - 1] # Missing PROVE m <= win.highest
  <2>1. m - 1 \in Positions
    BY <1>2, <1>3 DEF Positions
  <2>2. m - 1 < win.highest
    BY <1>1, <1>3, <2>1
  <2> QED BY <1>2, <2>2
<1>4. ASSUME NEW m \in 0..PeerNext(got) PROVE m <= win.highest /\ Has(got, 0, m)
  <2>1. \A j \in 0..PeerNext(got) - 1 : got[j] # Missing
    BY <1>1, PeerNextFacts
  <2>2. \A j \in 0..m - 1 : got[j] # Missing
    BY <1>2, <2>1
  <2>3. m > 0 => got[m - 1] # Missing /\ m \in 0..StreamLength
    BY <1>2, <2>1
  <2>4. m <= win.highest
    BY <1>2, <1>3, <2>3
  <2> QED BY <2>2, <2>4 DEF Has
<1> QED BY <1>3, <1>4

\* The window after a SACK and an acknowledgement that the peer really sent.
LEMMA AckKeeps ==
    ASSUME IInv, acks # <<>>
    PROVE  LET m == Head(acks)
               s == TxSack(win, m.sack)
               a == TxAck(s, m.ack)
           IN  /\ m = acks[1] /\ m \in AckType /\ AckOK(m)
               /\ WindowOK(s) /\ s.cur = tail
               /\ WindowOK(a) /\ a.next = mid /\ a.highest = win.highest
               /\ tail <= a.cur /\ a.cur <= m.ack
               /\ DOMAIN a.segs \subseteq DOMAIN win.segs
               /\ \A x \in DOMAIN a.segs : End(a.segs, x) = End(win.segs, x)
               /\ \A x \in DOMAIN a.segs : a.segs[x].acked =>
                    \/ win.segs[x].acked
                    \/ m.sack # <<>> /\ m.sack[1] <= x /\ End(win.segs, x) <= m.sack[2]
<1> DEFINE m == Head(acks)
           s == TxSack(win, m.sack)
           a == TxAck(s, m.ack)
<1>1. acks \in Seq(AckType) /\ Len(acks) >= 1 /\ \A i \in 1..Len(acks) : AckOK(acks[i])
  <2>1. acks \in Seq(AckType) /\ \A i \in 1..Len(acks) : AckOK(acks[i])
    BY DEF IInv, AcksOK
  <2> QED BY <2>1
<1>2. m = acks[1] /\ m \in AckType /\ AckOK(m)
  BY <1>1
<1> HIDE DEF m
<1>3. /\ tail <= m.ack /\ m.ack <= PeerNext(got)
      /\ m.sack # <<>> =>
           m.ack < m.sack[1] /\ m.sack[1] < m.sack[2] /\ Has(got, m.sack[1], m.sack[2])
      /\ \A x \in DOMAIN win.segs : win.segs[x].acked => NotCut(x, End(win.segs, x), m.ack)
  BY <1>2 DEF AckOK
<1>4. /\ m.ack \in 0..StreamLength
      /\ m.sack # <<>> => m.sack[1] \in 1..StreamLength /\ m.sack[2] \in 1..StreamLength
  BY <1>2 DEF AckType
<1>5. WindowOK(win) /\ win.cur = tail /\ win.next = mid /\ tail \in Nat /\ StreamLength \in Nat
  BY InvNumbers DEF IInv
<1>6. m.ack <= win.highest
  <2>1. m.ack \in 0..PeerNext(got)
    BY <1>3, <1>4, <1>5, InvNumbers
  <2> QED BY <2>1, HadFacts
<1>7. m.sack # <<>> => /\ m.sack[1] \in Int /\ m.sack[2] \in Int
                       /\ win.cur < m.sack[1] /\ m.sack[2] <= win.highest
  <2> SUFFICES ASSUME m.sack # <<>>
               PROVE  /\ m.sack[1] \in Int /\ m.sack[2] \in Int
                      /\ win.cur < m.sack[1] /\ m.sack[2] <= win.highest
    OBVIOUS
  <2> DEFINE b == m.sack[1]
             e == m.sack[2]
  <2>1. /\ b \in 1..StreamLength /\ e \in 1..StreamLength /\ m.ack < b /\ b < e
        /\ Has(got, b, e)
    BY <1>3, <1>4
  <2> HIDE DEF b, e
  <2>2. e - 1 \in b..e - 1 /\ e \in 0..StreamLength /\ e > 0
    BY <1>5, <2>1
  <2>3. got[e - 1] # Missing
    BY <2>1, <2>2 DEF Has
  <2>4. e <= win.highest
    BY <2>2, <2>3, HadFacts
  <2>5. tail < b
    BY <1>3, <1>4, <1>5, <2>1
  <2> QED BY <1>5, <2>1, <2>4, <2>5 DEF b, e
<1>8. /\ WindowOK(s) /\ DOMAIN s.segs = DOMAIN win.segs /\ SameSegs(win.segs, s.segs)
      /\ s.cur = win.cur /\ s.next = win.next /\ s.highest = win.highest
      /\ \A x \in DOMAIN s.segs : s.segs[x].acked =>
           \/ win.segs[x].acked
           \/ m.sack # <<>> /\ m.sack[1] <= x /\ End(win.segs, x) <= m.sack[2]
  BY <1>5, <1>7, TxSackKeeps
<1> HIDE DEF s
<1>9. \A x \in DOMAIN s.segs : End(s.segs, x) = End(win.segs, x)
  BY <1>8 DEF SameSegs, End
<1>10. ASSUME NEW x \in DOMAIN s.segs, s.segs[x].acked PROVE NotCut(x, End(s.segs, x), m.ack)
  <2>1. CASE win.segs[x].acked
    BY <1>3, <1>8, <1>9, <2>1
  <2>2. CASE m.sack # <<>> /\ m.sack[1] <= x
    <3>1. x \in Nat
      BY <1>8, Numbers DEF WindowOK, Typed
    <3>2. ~(x < m.ack)
      BY <1>3, <1>4, <1>7, <2>2, <3>1
    <3> QED BY <3>2 DEF NotCut
  <2> QED BY <1>8, <1>10, <2>1, <2>2
<1>11. m.ack \in Int /\ m.ack <= s.highest /\ s.cur <= m.ack
  BY <1>3, <1>4, <1>5, <1>6, <1>8
<1>12. /\ WindowOK(a) /\ DOMAIN a.segs \subseteq DOMAIN s.segs /\ SameSegs(s.segs, a.segs)
       /\ s.cur <= a.cur /\ a.cur <= m.ack
       /\ a.next = s.next /\ a.highest = s.highest
       /\ \A x \in DOMAIN a.segs : a.segs[x].acked => s.segs[x].acked
  BY <1>8, <1>10, <1>11, TxAckKeeps
<1> HIDE DEF a
<1>13. \A x \in DOMAIN a.segs : End(a.segs, x) = End(s.segs, x)
  BY <1>12 DEF SameSegs, End
<1>14. \A x \in DOMAIN a.segs : a.segs[x].acked =>
         \/ win.segs[x].acked
         \/ m.sack # <<>> /\ m.sack[1] <= x /\ End(win.segs, x) <= m.sack[2]
  BY <1>8, <1>12
<1>15. \A x \in DOMAIN a.segs : End(a.segs, x) = End(win.segs, x)
  BY <1>9, <1>12, <1>13
<1> QED BY <1>2, <1>5, <1>8, <1>12, <1>14, <1>15 DEF m, s, a

\* prvTCPHandleState of a packet with a SACK and an acknowledgement.
LEMMA AckArrivesStep ==
    ASSUME IInv, NEW room \in 0..Free, NEW expired \in BOOLEAN, NEW buffer \in BOOLEAN,
           AckArrives(room, expired, buffer)
    PROVE  /\ IInv'
           /\ tail <= tail' /\ read' = read /\ got' = got
           /\ NoWrap => win'.highest = win.highest \/ win'.highest <= read + PeerSpace
<1> DEFINE m == Head(acks)
           s == TxSack(win, m.sack)
           a == TxAck(s, m.ack)
<1>1. /\ acks # <<>> /\ acks' = Tail(acks) /\ wnd' = m.wnd
      /\ tail' = Confirmed(s, a, Confirmed(win, s, tail))
      /\ mid' = mid + (AddTxData(a, room).next - a.next)
      /\ PrepareSend(AddTxData(a, room), wnd', tail', expired, buffer)
      /\ head' = head /\ got' = got /\ read' = read
  BY DEF AckArrives
<1>2. /\ m = acks[1] /\ m \in AckType /\ AckOK(m)
      /\ WindowOK(s) /\ s.cur = tail
      /\ WindowOK(a) /\ a.next = mid /\ a.highest = win.highest
      /\ tail <= a.cur /\ a.cur <= m.ack
      /\ DOMAIN a.segs \subseteq DOMAIN win.segs
      /\ \A x \in DOMAIN a.segs : End(a.segs, x) = End(win.segs, x)
      /\ \A x \in DOMAIN a.segs : a.segs[x].acked =>
           \/ win.segs[x].acked
           \/ m.sack # <<>> /\ m.sack[1] <= x /\ End(win.segs, x) <= m.sack[2]
  BY <1>1, AckKeeps
<1> HIDE DEF m, s, a
<1>0. /\ tail \in Nat /\ mid \in Nat /\ head \in Nat /\ read \in Nat
      /\ win.highest \in Nat /\ win.cur = tail /\ mid <= head /\ head <= StreamLength
      /\ PeerNext(got) \in 0..StreamLength /\ StreamLength \in Nat /\ PeerSpace \in Nat
  BY InvNumbers
<1>3. /\ m.ack \in 0..StreamLength /\ m.wnd \in 0..PeerSpace
      /\ tail <= m.ack /\ m.ack <= PeerNext(got) /\ m.ack + m.wnd <= read + PeerSpace
  <2>1. AckOK(m) /\ m \in AckType
    BY <1>2
  <2> QED BY <2>1 DEF AckOK, AckType
<1>3a. m.sack # <<>> =>
         /\ m.sack[1] \in 1..StreamLength /\ m.sack[2] \in 1..StreamLength
         /\ Has(got, m.sack[1], m.sack[2])
  BY <1>2 DEF AckOK, AckType
<1>4. /\ a.cur \in Nat /\ a.highest \in Nat /\ a.cur <= mid
      /\ Segs(a.segs) /\ Segs(win.segs)
  <2>1. /\ a.cur \in Nat /\ a.highest \in Nat /\ Segs(a.segs) /\ a.next \in Nat
        /\ a.cur <= a.highest /\ a.highest <= a.next
    BY <1>2 DEF WindowOK, Typed
  <2>2. Segs(win.segs)
    BY DEF IInv, WindowOK, Typed
  <2> QED BY <1>2, <2>1, <2>2
<1>5. tail' = a.cur
  <2>0. s.cur = tail /\ tail <= a.cur
    BY <1>2
  <2>1. Confirmed(win, s, tail) = tail
    <3>1. s.cur - win.cur = 0 /\ 0 <= head - tail
      BY <1>0, <1>4, <2>0
    <3> QED BY <1>0, <3>1 DEF Confirmed, Least
  <2>2. Confirmed(s, a, tail) = a.cur
    <3>1. a.cur - s.cur <= head - tail /\ tail + (a.cur - s.cur) = a.cur
      BY <1>0, <1>4, <2>0
    <3> QED BY <1>0, <1>4, <2>0, <3>1 DEF Confirmed, Least
  <2> QED BY <1>1, <2>1, <2>2
<1>6. Has(got, 0, a.cur) /\ a.cur <= head /\ win.highest <= a.highest
  <2>1. a.cur \in 0..PeerNext(got)
    <3>1. a.cur <= m.ack
      BY <1>2
    <3> QED BY <1>0, <1>3, <1>4, <3>1
  <2>2. a.cur <= head /\ win.highest <= a.highest
    <3>1. a.highest = win.highest
      BY <1>2
    <3> QED BY <1>0, <1>4, <3>1
  <2> QED BY <2>1, <2>2, HadFacts
<1>7. room \in Nat /\ Cardinality(DOMAIN a.segs) + room <= Segments
  <2>1. /\ Cardinality(DOMAIN win.segs) \in Nat /\ Segments \in Nat /\ IsFiniteSet(DOMAIN win.segs)
        /\ Cardinality(DOMAIN win.segs) <= Segments
    BY <1>4, SegmentsFinite, SizesAssumption DEF IInv, StreamOK
  <2>2. Cardinality(DOMAIN a.segs) <= Cardinality(DOMAIN win.segs)
    BY <1>2, <2>1, FS_Subset
  <2>3. Cardinality(DOMAIN a.segs) \in Nat
    BY <1>4, SegmentsFinite
  <2> QED BY <2>1, <2>2, <2>3 DEF Free
<1>8. /\ WindowOK(win)' /\ StreamOK' /\ PeerOK'
      /\ win'.cur = a.cur
      /\ \A x \in DOMAIN win'.segs : win'.segs[x].acked =>
           x \in DOMAIN a.segs /\ a.segs[x].acked /\ End(win'.segs, x) = End(a.segs, x)
      /\ NoWrap => win'.highest = a.highest \/ win'.highest <= a.cur + m.wnd
  <2>1. m.wnd \in Nat
    BY <1>3, PeerAssumption
  <2>2. PrepareSend(AddTxData(a, room), m.wnd, a.cur, expired, buffer)
    BY <1>1, <1>5
  <2> QED BY <1>1, <1>2, <1>5, <1>6, <1>7, <2>1, <2>2, TurnStep
<1>9. \A x \in DOMAIN win'.segs : win'.segs[x].acked =>
        /\ x \in DOMAIN win.segs /\ End(win'.segs, x) = End(win.segs, x)
        /\ \/ win.segs[x].acked
           \/ m.sack # <<>> /\ m.sack[1] <= x /\ End(win.segs, x) <= m.sack[2]
  BY <1>2, <1>8
<1>10. AcksOK'
  <2>1. /\ acks \in Seq(AckType) /\ Len(acks) <= MaxAcks
        /\ \A i \in 1..Len(acks) : AckOK(acks[i])
        /\ \A i, j \in 1..Len(acks) : i < j =>
             /\ acks[i].ack <= acks[j].ack
             /\ acks[i].sack # <<>> => NotCut(acks[i].sack[1], acks[i].sack[2], acks[j].ack)
        /\ \A x \in DOMAIN win.segs : win.segs[x].acked => Has(got, x, End(win.segs, x))
    BY DEF IInv, AcksOK
  <2>2. /\ acks' \in Seq(AckType) /\ Len(acks') = Len(acks) - 1
        /\ \A i \in 1..Len(acks') : i + 1 \in 1..Len(acks) /\ acks'[i] = acks[i + 1]
    BY <1>1, <2>1
  <2>3. Len(acks) \in Nat /\ 1 \in 1..Len(acks) /\ \A i \in 1..Len(acks') : 1 < i + 1
    <3>1. acks \in Seq(AckType) /\ acks # <<>>
      BY <1>1, <2>1
    <3>2. Len(acks) \in Nat /\ 1 \in 1..Len(acks)
      BY <3>1
    <3> QED BY <2>2, <3>2
  <2>4. Len(acks') <= MaxAcks
    BY <2>1, <2>2, <2>3, SizesAssumption
  <2>5. ASSUME NEW i \in 1..Len(acks') PROVE AckOK(acks[i])'
    <3> DEFINE n == acks[i + 1]
    <3>1. /\ AckOK(n) /\ n \in AckType /\ m.ack <= n.ack
          /\ m.sack # <<>> => NotCut(m.sack[1], m.sack[2], n.ack)
      BY <1>2, <2>1, <2>2, <2>3
    <3> HIDE DEF n
    <3>2. /\ tail <= n.ack /\ n.ack <= PeerNext(got) /\ n.ack + n.wnd <= read + PeerSpace
          /\ n.sack # <<>> =>
               n.ack < n.sack[1] /\ n.sack[1] < n.sack[2] /\ Has(got, n.sack[1], n.sack[2])
          /\ \A x \in DOMAIN win.segs : win.segs[x].acked => NotCut(x, End(win.segs, x), n.ack)
      BY <3>1 DEF AckOK
    <3>3. n.ack \in 0..StreamLength
      BY <3>1 DEF AckType
    <3>4. tail' <= n.ack
      <4>1. a.cur <= m.ack
        BY <1>2
      <4> QED BY <1>3, <1>4, <1>5, <3>1, <3>3, <4>1
    <3>5. ASSUME NEW x \in DOMAIN win'.segs, win'.segs[x].acked
          PROVE  NotCut(x, End(win'.segs, x), n.ack)
      <4>1. CASE win.segs[x].acked
        BY <1>9, <3>2, <3>5, <4>1
      <4>2. CASE m.sack # <<>> /\ m.sack[1] <= x /\ End(win.segs, x) <= m.sack[2]
        <5>1. x \in DOMAIN win.segs /\ End(win'.segs, x) = End(win.segs, x)
          BY <1>9, <3>5
        <5>2. x \in Nat /\ End(win.segs, x) \in Nat
          BY <1>4, <5>1, Numbers
        <5>3. m.sack[1] < n.ack => m.sack[2] <= n.ack
          BY <3>1, <4>2 DEF NotCut
        <5>4. x < n.ack => End(win.segs, x) <= n.ack
          <6>1. m.sack[1] \in Int /\ m.sack[2] \in Int /\ m.sack[1] <= x /\ End(win.segs, x) <= m.sack[2]
            BY <1>3a, <4>2
          <6>2. n.ack \in Int
            BY <1>0, <3>3
          <6> DEFINE u == m.sack[1]
                     v == m.sack[2]
          <6>3. u \in Int /\ v \in Int /\ u <= x /\ End(win.segs, x) <= v /\ (u < n.ack => v <= n.ack)
            BY <5>3, <6>1
          <6> HIDE DEF u, v
          <6> QED BY <5>2, <6>2, <6>3
        <5> QED BY <5>1, <5>4 DEF NotCut
      <4> QED BY <1>9, <3>5, <4>1, <4>2
    <3>6. \A x \in DOMAIN win'.segs : win'.segs[x].acked => NotCut(x, End(win'.segs, x), n.ack)
      BY <3>5
    <3>7. /\ n.ack <= PeerNext(got') /\ n.ack + n.wnd <= read' + PeerSpace
          /\ n.sack # <<>> =>
               n.ack < n.sack[1] /\ n.sack[1] < n.sack[2] /\ Has(got', n.sack[1], n.sack[2])
      BY <1>1, <3>2
    <3>8. acks'[i] = n
      BY <2>2 DEF n
    <3> QED BY <3>4, <3>6, <3>7, <3>8 DEF AckOK
  <2>6. ASSUME NEW i \in 1..Len(acks'), NEW j \in 1..Len(acks'), i < j
        PROVE  /\ acks'[i].ack <= acks'[j].ack
               /\ acks'[i].sack # <<>> => NotCut(acks'[i].sack[1], acks'[i].sack[2], acks'[j].ack)
    <3>1. i + 1 \in 1..Len(acks) /\ j + 1 \in 1..Len(acks) /\ i + 1 < j + 1
      BY <2>2, <2>3, <2>6
    <3>2. acks'[i] = acks[i + 1] /\ acks'[j] = acks[j + 1]
      BY <2>2
    <3> QED BY <2>1, <3>1, <3>2
  <2>7. ASSUME NEW x \in DOMAIN win'.segs, win'.segs[x].acked
        PROVE  Has(got', x, End(win'.segs, x))
    <3>1. x \in DOMAIN win.segs /\ End(win'.segs, x) = End(win.segs, x) /\ got' = got
      BY <1>1, <1>9, <2>7
    <3>2. CASE win.segs[x].acked
      BY <2>1, <3>1, <3>2
    <3>3. CASE m.sack # <<>> /\ m.sack[1] <= x /\ End(win.segs, x) <= m.sack[2]
      <4>1. x \in Nat /\ End(win.segs, x) \in Nat
        BY <1>4, <3>1, Numbers
      <4>2. \A i \in x..End(win.segs, x) - 1 : i \in m.sack[1]..m.sack[2] - 1
        <5>1. m.sack[1] \in Int /\ m.sack[2] \in Int /\ m.sack[1] <= x /\ End(win.segs, x) <= m.sack[2]
          BY <1>3a, <3>3
        <5> QED BY <4>1, <5>1
      <4>3. Has(got, m.sack[1], m.sack[2])
        BY <1>3a, <3>3
      <4> QED BY <3>1, <4>2, <4>3 DEF Has
    <3> QED BY <1>9, <2>7, <3>2, <3>3
  <2>8. wnd' \in 0..PeerSpace /\ win'.cur + wnd' <= read' + PeerSpace
    <3>1. a.cur <= m.ack /\ wnd' = m.wnd /\ read' = read /\ win'.cur = a.cur
      BY <1>1, <1>2, <1>8
    <3> QED BY <1>0, <1>3, <1>4, <3>1
  <2> QED BY <2>2, <2>4, <2>5, <2>6, <2>7, <2>8 DEF AcksOK
<1>11. NoWrap => win'.highest = win.highest \/ win'.highest <= read + PeerSpace
  <2>1. win'.highest \in Nat
    BY <1>8 DEF WindowOK, Typed
  <2>2. a.cur + m.wnd <= read + PeerSpace
    <3>1. a.cur <= m.ack
      BY <1>2
    <3> QED BY <1>0, <1>3, <1>4, <3>1
  <2>3. a.cur + m.wnd \in Nat /\ read + PeerSpace \in Nat
    BY <1>0, <1>3, <1>4
  <2> QED BY <1>2, <1>8, <2>1, <2>2, <2>3
<1>12. tail <= tail' /\ read' = read /\ got' = got
  <2>1. tail <= a.cur
    BY <1>2
  <2> QED BY <1>1, <1>5, <2>1
<1> QED BY <1>8, <1>10, <1>11, <1>12 DEF IInv

\* A run of bytes that the peer has is not cut by what it acknowledges.
LEMMA RunsAreWhole ==
    ASSUME NEW g \in [Positions -> Positions \cup {Missing}],
           NEW from \in 0..StreamLength, NEW to \in 0..StreamLength, Has(g, from, to)
    PROVE  NotCut(from, to, PeerNext(g))
<1> SUFFICES ASSUME from < PeerNext(g) PROVE to <= PeerNext(g)
  BY DEF NotCut
<1>1. \A j \in 0..PeerNext(g) - 1 : g[j] # Missing
  BY PeerNextFacts
<1>2. PeerNext(g) \in 0..StreamLength /\ StreamLength \in Nat
  BY PeerNextFacts, SizesAssumption
<1>3. \A j \in 0..to - 1 : j \in 0..PeerNext(g) - 1 \/ j \in from..to - 1
  BY <1>2
<1>4. \A j \in 0..to - 1 : g[j] # Missing
  BY <1>1, <1>3 DEF Has
<1> QED BY <1>4, PeerNextFacts

\* What the peer answers.
LEMMA AnswersFacts ==
    ASSUME NEW g \in [Positions -> Positions \cup {Missing}], NEW r \in 0..PeerNext(g),
           \A i \in Positions : g[i] # Missing => i < r + PeerSpace,
           NEW a \in Answers(g, r)
    PROVE  /\ a \in AckType /\ a.ack = PeerNext(g) /\ a.ack + a.wnd = r + PeerSpace
           /\ a.sack # <<>> =>
                a.ack < a.sack[1] /\ a.sack[1] < a.sack[2] /\ Has(g, a.sack[1], a.sack[2])
<1>0. StreamLength \in Nat /\ PeerSpace \in Nat /\ PeerNext(g) \in 0..StreamLength /\ r \in Nat
  BY SizesAssumption, PeerAssumption, PeerNextFacts
<1>1. PeerNext(g) <= r + PeerSpace
  <2>1. CASE PeerNext(g) = 0
    BY <1>0, <2>1
  <2>2. CASE PeerNext(g) # 0
    <3>1. PeerNext(g) - 1 \in 0..PeerNext(g) - 1 /\ PeerNext(g) - 1 \in Positions
      BY <1>0, <2>2 DEF Positions
    <3>2. PeerNext(g) - 1 < r + PeerSpace
      BY <3>1, PeerNextFacts
    <3> QED BY <1>0, <3>2
  <2> QED BY <2>1, <2>2
<1>2. a.ack = PeerNext(g) /\ a.wnd = r + PeerSpace - PeerNext(g)
  BY DEF Answers
<1>3. a.wnd \in 0..PeerSpace /\ a.ack + a.wnd = r + PeerSpace
  BY <1>0, <1>1, <1>2
<1>4. a.sack = <<>> \/ a.sack \in Blocks(g)
  BY DEF Answers
<1>5. ASSUME a.sack \in Blocks(g)
      PROVE  /\ a.sack \in (1..StreamLength) \X (1..StreamLength)
             /\ a.ack < a.sack[1] /\ a.sack[1] < a.sack[2] /\ Has(g, a.sack[1], a.sack[2])
  <2> DEFINE b == a.sack
  <2>1. /\ b \in (PeerNext(g) + 1..StreamLength) \X (1..StreamLength)
        /\ b[1] < b[2] /\ Has(g, b[1], b[2])
    BY <1>5 DEF Blocks, Has
  <2> HIDE DEF b
  <2>2. b = <<b[1], b[2]>> /\ b[1] \in PeerNext(g) + 1..StreamLength /\ b[2] \in 1..StreamLength
    BY <2>1
  <2>3. b[1] \in 1..StreamLength /\ PeerNext(g) < b[1]
    BY <1>0, <2>2
  <2>4. b \in (1..StreamLength) \X (1..StreamLength)
    BY <2>2, <2>3
  <2> QED BY <1>2, <2>1, <2>3, <2>4 DEF b
<1>6. a \in [ack : {PeerNext(g)}, wnd : {r + PeerSpace - PeerNext(g)},
             sack : IF Blocks(g) = {} THEN {<<>>} ELSE Blocks(g)]
  BY DEF Answers
<1>7. a = [ack |-> a.ack, wnd |-> a.wnd, sack |-> a.sack]
  BY <1>6
<1>8. a \in AckType
  <2>1. a.ack \in 0..StreamLength /\ a.wnd \in 0..PeerSpace
    BY <1>0, <1>2, <1>3
  <2>2. a.sack \in {<<>>} \cup ((1..StreamLength) \X (1..StreamLength))
    BY <1>4, <1>5
  <2> QED BY <1>7, <2>1, <2>2 DEF AckType
<1> QED BY <1>2, <1>3, <1>4, <1>5, <1>8

\* What leaves the sender alone: more bytes reach the peer or its user, it
\* answers or not, packets are lost.
LEMMA PeerStep ==
    ASSUME IInv, NEW g \in [Positions -> Positions \cup {Missing}], NEW r \in read..PeerNext(g),
           \A i \in Positions : got[i] # Missing => g[i] # Missing,
           \A i \in Positions : g[i] # Missing =>
             g[i] = i /\ i < win.highest /\ i < r + PeerSpace,
           got' = g, read' = r, data' \subseteq data,
           win' = win, wnd' = wnd, tail' = tail, mid' = mid, head' = head,
           \/ acks' = acks
           \/ Len(acks) < MaxAcks /\ \E a \in Answers(g, r) : acks' = Append(acks, a)
    PROVE  IInv'
<1>0. /\ tail \in Nat /\ read \in Nat /\ r \in Nat /\ read <= r /\ tail <= StreamLength
      /\ StreamLength \in Nat /\ PeerSpace \in Nat /\ win.next \in Nat /\ win.next <= StreamLength
      /\ PeerNext(got) \in 0..StreamLength /\ PeerNext(g) \in 0..StreamLength
  BY InvNumbers, PeerNextFacts
<1>1. /\ WindowOK(win) /\ StreamOK /\ PeerOK /\ got \in [Positions -> Positions \cup {Missing}]
  BY DEF IInv, PeerOK
<1>2. PeerNext(got) <= PeerNext(g)
  BY <1>1, PeerNextGrows
<1>3. ASSUME NEW from \in 0..StreamLength, NEW to \in 0..StreamLength, Has(got, from, to)
      PROVE  Has(g, from, to)
  <2>1. \A i \in from..to - 1 : i \in Positions
    BY <1>0 DEF Positions
  <2> QED BY <1>3, <2>1 DEF Has
<1>4. StreamOK'
  <2>1. Has(g, 0, tail)
    BY <1>0, <1>1, <1>3 DEF StreamOK
  <2> QED BY <1>1, <2>1 DEF StreamOK
<1>5. PeerOK'
  <2>1. r \in 0..PeerNext(g)
    BY <1>0
  <2>2. \A p \in data' : /\ p.seq \in Positions /\ p.len \in 1..MSS
                         /\ p.from = p.seq /\ p.seq + p.len <= win'.highest
    BY <1>1 DEF PeerOK
  <2> QED BY <2>1, <2>2 DEF PeerOK
<1>6. /\ acks \in Seq(AckType) /\ Len(acks) <= MaxAcks
      /\ \A i \in 1..Len(acks) : AckOK(acks[i])
      /\ \A i, j \in 1..Len(acks) : i < j =>
           /\ acks[i].ack <= acks[j].ack
           /\ acks[i].sack # <<>> => NotCut(acks[i].sack[1], acks[i].sack[2], acks[j].ack)
      /\ \A x \in DOMAIN win.segs : win.segs[x].acked => Has(got, x, End(win.segs, x))
      /\ wnd \in 0..PeerSpace /\ win.cur + wnd <= read + PeerSpace
  BY DEF IInv, AcksOK
<1>7. \A x \in DOMAIN win.segs : x \in 0..StreamLength /\ End(win.segs, x) \in 0..StreamLength
  <2> SUFFICES ASSUME NEW x \in DOMAIN win.segs
               PROVE  x \in 0..StreamLength /\ End(win.segs, x) \in 0..StreamLength
    OBVIOUS
  <2>1. Segs(win.segs) /\ Tiles(win.segs, win.cur, win.next)
    BY <1>1 DEF WindowOK, Typed
  <2>2. x \in Nat /\ End(win.segs, x) \in Nat /\ x < End(win.segs, x)
    BY <2>1, Numbers
  <2>3. End(win.segs, x) <= win.next
    BY <2>1 DEF Tiles
  <2> QED BY <1>0, <2>2, <2>3
<1>8. \A x \in DOMAIN win.segs : win.segs[x].acked => Has(g, x, End(win.segs, x))
  BY <1>3, <1>6, <1>7
<1>9. \A i \in 1..Len(acks) : AckOK(acks[i])'
  <2> SUFFICES ASSUME NEW i \in 1..Len(acks) PROVE AckOK(acks[i])'
    OBVIOUS
  <2> DEFINE n == acks[i]
  <2>1. AckOK(n) /\ n \in AckType
    BY <1>6
  <2>2. acks'[i] = n
    <3>1. CASE acks' = acks
      BY <3>1
    <3>2. CASE \E a \in Answers(g, r) : acks' = Append(acks, a)
      BY <1>6, <3>2
    <3> QED BY <3>1, <3>2
  <2> HIDE DEF n
  <2>3. /\ tail <= n.ack /\ n.ack <= PeerNext(got) /\ n.ack + n.wnd <= read + PeerSpace
        /\ n.sack # <<>> =>
             n.ack < n.sack[1] /\ n.sack[1] < n.sack[2] /\ Has(got, n.sack[1], n.sack[2])
        /\ \A x \in DOMAIN win.segs : win.segs[x].acked => NotCut(x, End(win.segs, x), n.ack)
    BY <2>1 DEF AckOK
  <2>4. n.ack \in 0..StreamLength /\ n.wnd \in 0..PeerSpace
    BY <2>1 DEF AckType
  <2>5. n.ack <= PeerNext(g) /\ n.ack + n.wnd <= r + PeerSpace
    <3>1. n.ack <= PeerNext(got) /\ n.ack + n.wnd <= read + PeerSpace
      BY <2>3
    <3>2. n.ack \in Int /\ n.wnd \in Int
      BY <1>0, <2>4
    <3>3. PeerNext(got) \in Int /\ PeerNext(g) \in Int /\ read \in Int /\ r \in Int /\ read <= r
          /\ PeerSpace \in Int
      BY <1>0
    <3>4. n.ack <= PeerNext(g)
      BY <1>2, <3>1, <3>2, <3>3
    <3>5. n.ack + n.wnd <= r + PeerSpace
      BY <3>1, <3>2, <3>3
    <3> QED BY <3>4, <3>5
  <2>6. ASSUME n.sack # <<>> PROVE Has(g, n.sack[1], n.sack[2])
    <3>1. n.sack[1] \in 1..StreamLength /\ n.sack[2] \in 1..StreamLength
      BY <2>1, <2>6 DEF AckType
    <3>2. n.sack[1] \in 0..StreamLength /\ n.sack[2] \in 0..StreamLength
      BY <1>0, <3>1
    <3> QED BY <1>3, <2>3, <2>6, <3>2
  <2> QED BY <2>2, <2>3, <2>5, <2>6 DEF AckOK
<1>10. wnd \in 0..PeerSpace /\ win.cur + wnd <= r + PeerSpace
  <2>1. win.cur \in Nat
    BY <1>0, InvNumbers
  <2> QED BY <1>0, <1>6, <2>1
<1>11. CASE acks' = acks
  <2>1. AcksOK'
    BY <1>6, <1>8, <1>9, <1>10, <1>11 DEF AcksOK
  <2> QED BY <1>1, <1>4, <1>5, <2>1 DEF IInv
<1>12. ASSUME Len(acks) < MaxAcks, NEW a \in Answers(g, r), acks' = Append(acks, a)
       PROVE  IInv'
  <2>1. /\ a \in AckType /\ a.ack = PeerNext(g) /\ a.ack + a.wnd = r + PeerSpace
        /\ a.sack # <<>> =>
             a.ack < a.sack[1] /\ a.sack[1] < a.sack[2] /\ Has(g, a.sack[1], a.sack[2])
    <3>1. r \in 0..PeerNext(g)
      BY <1>0
    <3> QED BY <3>1, AnswersFacts
  <2>2. /\ acks' \in Seq(AckType) /\ Len(acks') = Len(acks) + 1 /\ acks'[Len(acks) + 1] = a
        /\ \A i \in 1..Len(acks) : acks'[i] = acks[i]
        /\ Len(acks) \in Nat
    BY <1>6, <1>12, <2>1
  <2>3. AckOK(a)'
    <3>1. a.ack <= PeerNext(g) /\ tail <= a.ack /\ a.ack + a.wnd <= r + PeerSpace
      <4>1. tail <= PeerNext(got)
        BY InvNumbers
      <4> QED BY <1>0, <1>2, <2>1, <4>1
    <3>2. \A x \in DOMAIN win.segs : win.segs[x].acked => NotCut(x, End(win.segs, x), a.ack)
      BY <1>7, <1>8, <2>1, RunsAreWhole
    <3> QED BY <2>1, <3>1, <3>2 DEF AckOK
  <2>4. \A i \in 1..Len(acks') : AckOK(acks[i])'
    <3> SUFFICES ASSUME NEW i \in 1..Len(acks') PROVE AckOK(acks[i])'
      OBVIOUS
    <3>1. CASE i \in 1..Len(acks)
      BY <1>9, <3>1
    <3>2. CASE i = Len(acks) + 1
      <4>1. acks'[i] = a
        BY <2>2, <3>2
      <4> QED BY <2>3, <4>1 DEF AckOK
    <3> QED BY <2>2, <3>1, <3>2
  <2>5. ASSUME NEW i \in 1..Len(acks'), NEW j \in 1..Len(acks'), i < j
        PROVE  /\ acks'[i].ack <= acks'[j].ack
               /\ acks'[i].sack # <<>> => NotCut(acks'[i].sack[1], acks'[i].sack[2], acks'[j].ack)
    <3>1. i \in 1..Len(acks) /\ acks'[i] = acks[i]
      BY <2>2, <2>5
    <3>2. CASE j \in 1..Len(acks)
      BY <1>6, <2>2, <2>5, <3>1, <3>2
    <3>3. CASE j = Len(acks) + 1
      <4> DEFINE n == acks[i]
      <4>1. AckOK(n) /\ n \in AckType /\ acks'[j] = a
        BY <1>6, <2>2, <3>1, <3>3
      <4>2. acks'[i] = n
        BY <3>1
      <4> HIDE DEF n
      <4>3. n.ack <= PeerNext(got) /\ n.ack \in 0..StreamLength
        BY <4>1 DEF AckOK, AckType
      <4>4. n.ack <= a.ack
        BY <1>0, <1>2, <2>1, <4>3
      <4>5. ASSUME n.sack # <<>> PROVE NotCut(n.sack[1], n.sack[2], a.ack)
        <5>1. n.sack[1] \in 1..StreamLength /\ n.sack[2] \in 1..StreamLength
          BY <4>1, <4>5 DEF AckType
        <5>2. n.sack[1] \in 0..StreamLength /\ n.sack[2] \in 0..StreamLength
          <6>1. \A z \in 1..StreamLength : z \in 0..StreamLength
            BY <1>0
          <6> QED BY <5>1, <6>1
        <5>3. Has(got, n.sack[1], n.sack[2])
          BY <4>1, <4>5 DEF AckOK
        <5>4. Has(g, n.sack[1], n.sack[2])
          BY <1>3, <5>2, <5>3
        <5> QED BY <2>1, <5>2, <5>4, RunsAreWhole
      <4> QED BY <4>1, <4>2, <4>4, <4>5
    <3> QED BY <2>2, <3>2, <3>3
  <2>6. Len(acks') <= MaxAcks
    BY <1>12, <2>2, SizesAssumption
  <2>7. AcksOK'
    BY <1>8, <1>10, <2>2, <2>4, <2>5, <2>6 DEF AcksOK
  <2> QED BY <1>1, <1>4, <1>5, <2>7 DEF IInv
<1> QED BY <1>11, <1>12

\* A segment arrives: the peer keeps what lies in its window.
LEMMA ArrivesStep ==
    ASSUME IInv, NEW p \in data, NEW last \in BOOLEAN, NEW answered \in BOOLEAN,
           Arrives(p, last, answered)
    PROVE  /\ IInv' /\ win' = win /\ read' = read /\ tail' = tail
           /\ PeerNext(got) <= PeerNext(got')
<1> DEFINE g == [i \in DOMAIN got |->
                   IF got[i] = Missing /\ p.seq <= i /\ i < p.seq + p.len /\ i < read + PeerSpace
                   THEN p.from + (i - p.seq) ELSE got[i]]
<1>1. /\ data' = IF last THEN data \ {p} ELSE data
      /\ got' = g
      /\ IF answered THEN Len(acks) < MaxAcks /\ \E a \in Answers(g, read) : acks' = Append(acks, a)
                     ELSE acks' = acks
      /\ win' = win /\ wnd' = wnd /\ tail' = tail /\ mid' = mid /\ head' = head /\ read' = read
  BY DEF Arrives
<1>2. /\ got \in [Positions -> Positions \cup {Missing}]
      /\ \A i \in Positions : got[i] # Missing =>
           got[i] = i /\ i < win.highest /\ i < read + PeerSpace
      /\ p.seq \in Positions /\ p.len \in 1..MSS
      /\ p.from = p.seq /\ p.seq + p.len <= win.highest
  BY DEF IInv, PeerOK
<1>3. /\ win.highest \in Nat /\ StreamLength \in Nat /\ MSS \in Nat /\ read \in Nat
      /\ PeerSpace \in Nat /\ PeerNext(got) \in 0..StreamLength /\ read <= PeerNext(got)
  BY InvNumbers, SizesAssumption
<1>4. ASSUME NEW i \in Positions
      PROVE  /\ g[i] \in Positions \cup {Missing}
             /\ got[i] # Missing => g[i] # Missing
             /\ g[i] # Missing => g[i] = i /\ i < win.highest /\ i < read + PeerSpace
  <2>1. CASE got[i] = Missing /\ p.seq <= i /\ i < p.seq + p.len /\ i < read + PeerSpace
    <3>1. i \in Nat /\ p.seq \in Nat /\ p.len \in Nat
      BY <1>2, <1>3 DEF Positions
    <3>2. p.from + (i - p.seq) = i
      BY <1>2, <3>1
    <3>3. g[i] = i
      BY <1>2, <2>1, <3>2
    <3>4. i < win.highest
      BY <1>2, <1>3, <2>1, <3>1
    <3> QED BY <2>1, <3>3, <3>4
  <2>2. CASE ~(got[i] = Missing /\ p.seq <= i /\ i < p.seq + p.len /\ i < read + PeerSpace)
    <3>1. g[i] = got[i]
      BY <1>2, <2>2
    <3> QED BY <1>2, <3>1
  <2> QED BY <2>1, <2>2
<1>5. g \in [Positions -> Positions \cup {Missing}]
  <2>1. DOMAIN got = Positions
    BY <1>2
  <2> QED BY <1>4, <2>1
<1> HIDE DEF g
<1>6. PeerNext(got) <= PeerNext(g)
  BY <1>2, <1>4, <1>5, PeerNextGrows
<1>7. read \in read..PeerNext(g)
  <2>1. PeerNext(g) \in 0..StreamLength
    BY <1>5, PeerNextFacts
  <2> QED BY <1>3, <1>6, <2>1
<1>8. data' \subseteq data
  BY <1>1
<1>9. \/ acks' = acks
      \/ Len(acks) < MaxAcks /\ \E a \in Answers(g, read) : acks' = Append(acks, a)
  BY <1>1
<1>10. IInv'
  BY <1>1, <1>4, <1>5, <1>7, <1>8, <1>9, PeerStep
<1> QED BY <1>1, <1>6, <1>10

\* The other steps that leave the sender alone, and the one that changes nothing.
LEMMA QuietSteps ==
    ASSUME IInv,
           \/ \E p \in data : Lost(p)
           \/ PeerAnswers \/ PeerReads \/ UNCHANGED vars
    PROVE  IInv' /\ win' = win /\ read <= read' /\ tail' = tail /\ got' = got
<1>1. /\ got \in [Positions -> Positions \cup {Missing}]
      /\ \A i \in Positions : got[i] # Missing =>
           got[i] = i /\ i < win.highest /\ i < read + PeerSpace
  BY DEF IInv, PeerOK
<1>2. /\ StreamLength \in Nat /\ read \in Nat /\ PeerSpace \in Nat
      /\ PeerNext(got) \in 0..StreamLength /\ read <= PeerNext(got)
  BY InvNumbers
<1>3. /\ got' = got /\ win' = win /\ wnd' = wnd /\ tail' = tail /\ mid' = mid /\ head' = head
      /\ data' \subseteq data
      /\ read' = read \/ read' \in read + 1..PeerNext(got)
      /\ \/ acks' = acks
         \/ /\ Len(acks) < MaxAcks /\ read' = read
            /\ \E a \in Answers(got, read) : acks' = Append(acks, a)
  BY DEF Lost, PeerAnswers, PeerReads, vars
<1>4. read' \in read..PeerNext(got) /\ read <= read'
  BY <1>2, <1>3
<1> DEFINE r == read'
<1>5. \A i \in Positions : got[i] # Missing =>
        got[i] = i /\ i < win.highest /\ i < r + PeerSpace
  <2>1. \A i \in Positions : i \in Int
    BY <1>2 DEF Positions
  <2> QED BY <1>1, <1>2, <1>4, <2>1
<1>6. \/ acks' = acks
      \/ Len(acks) < MaxAcks /\ \E a \in Answers(got, r) : acks' = Append(acks, a)
  BY <1>3
<1>7. r \in read..PeerNext(got) /\ read' = r
  BY <1>4
<1> HIDE DEF r
<1>8. IInv'
  BY <1>1, <1>3, <1>5, <1>6, <1>7, PeerStep
<1> QED BY <1>3, <1>4, <1>8

----------------------------------------------------------------------------
(* The invariant is inductive *)

\* The empty window of a new connection.
LEMMA InitStep ==
    ASSUME Init
    PROVE  IInv
<1>1. /\ win = [segs |-> [x \in {} |-> Segment(0, 0)], prio |-> <<>>, tx |-> <<>>,
                wait |-> <<>>, growing |-> Missing, cur |-> 0, next |-> 0, highest |-> 0,
                size |-> TxWindow]
      /\ wnd = PeerSpace /\ tail = 0 /\ mid = 0 /\ head = 0 /\ data = {} /\ acks = <<>>
      /\ got = [i \in 0..StreamLength - 1 |-> Missing] /\ read = 0
  BY DEF Init
<1>2. /\ StreamLength \in Nat /\ LENGTH \in Nat \ {0, 1} /\ TxWindow \in Nat /\ Segments \in Nat
      /\ MaxAcks \in Nat /\ PeerSpace \in Nat
  BY SizesAssumption, PeerAssumption
<1>3. /\ IsWindow(win) /\ DOMAIN win.segs = {} /\ IsFcn(win.segs)
      /\ win.prio = <<>> /\ win.tx = <<>> /\ win.wait = <<>> /\ win.growing = Missing
      /\ win.cur = 0 /\ win.next = 0 /\ win.highest = 0 /\ win.size = TxWindow
  BY <1>1 DEF IsWindow, IsFcn
<1>4. /\ <<>> \in Seq(Positions) /\ Len(<<>>) = 0 /\ DOMAIN <<>> = {}
      /\ ToSet(<<>>) = {} /\ IsInjective(<<>>)
  BY DEF ToSet, IsInjective
<1>5. WindowOK(win)
  <2>1. Typed(win)
    BY <1>2, <1>3, <1>4 DEF Typed, Segs
  <2>2. Tiles(win.segs, win.cur, win.next)
    BY <1>3 DEF Tiles
  <2>3. SentBelow(win.segs, win.highest) /\ GrowsAtEnd(win)
    BY <1>3 DEF SentBelow, GrowsAtEnd
  <2>4. Queues(win)
    BY <1>3, <1>4 DEF Queues
  <2> QED BY <2>1, <2>2, <2>3, <2>4 DEF WindowOK
<1>6. StreamOK
  <2>1. Cardinality(DOMAIN win.segs) = 0
    BY <1>3, FS_EmptySet
  <2> QED BY <1>1, <1>2, <1>3, <2>1 DEF StreamOK, Has
<1>7. got \in [Positions -> Positions \cup {Missing}] /\ \A i \in Positions : got[i] = Missing
  BY <1>1 DEF Positions
<1>8. PeerOK
  <2>1. read \in 0..PeerNext(got)
    <3>1. PeerNext(got) \in 0..StreamLength
      BY <1>7, PeerNextFacts
    <3> QED BY <1>1, <1>2, <3>1
  <2> QED BY <1>1, <1>7, <2>1 DEF PeerOK
<1>9. AcksOK
  <2>1. acks \in Seq(AckType) /\ Len(acks) = 0
    BY <1>1
  <2>2. win.cur + wnd <= read + PeerSpace /\ wnd \in 0..PeerSpace
    BY <1>1, <1>2, <1>3
  <2> QED BY <1>2, <1>3, <2>1, <2>2 DEF AcksOK
<1> QED BY <1>5, <1>6, <1>8, <1>9 DEF IInv

\* Every step keeps the invariant, and nothing that was done is undone.
LEMMA NextStep ==
    ASSUME IInv, [Next]_vars
    PROVE  /\ IInv'
           /\ NoWrap => win'.highest = win.highest \/ win'.highest <= read + PeerSpace
           /\ tail <= tail' /\ read <= read' /\ PeerNext(got) <= PeerNext(got')
<1>0. /\ tail <= tail /\ read <= read /\ PeerNext(got) <= PeerNext(got)
  BY InvNumbers
<1>1. CASE Sends
  <2>1. PICK n \in 1..LENGTH - 1 : Send(n)
    BY <1>1 DEF Sends
  <2>2. IInv'
    BY <2>1, SendStep
  <2>3. win' = win /\ tail' = tail /\ read' = read /\ got' = got
    BY <2>1 DEF Send
  <2> QED BY <1>0, <2>2, <2>3
<1>2. CASE Checks
  <2>1. PICK room \in 0..Free, expired \in BOOLEAN, buffer \in BOOLEAN :
          SocketCheck(room, expired, buffer)
    BY <1>2 DEF Checks
  <2>2. IInv' /\ (NoWrap => win'.highest = win.highest \/ win'.highest <= read + PeerSpace)
    BY <2>1, SocketCheckStep
  <2>3. tail' = tail /\ read' = read /\ got' = got
    BY <2>1 DEF SocketCheck
  <2> QED BY <1>0, <2>2, <2>3
<1>3. CASE Hears
  <2>1. PICK room \in 0..Free, expired \in BOOLEAN, buffer \in BOOLEAN :
          AckArrives(room, expired, buffer)
    BY <1>3 DEF Hears
  <2>2. /\ IInv' /\ (NoWrap => win'.highest = win.highest \/ win'.highest <= read + PeerSpace)
        /\ tail <= tail' /\ read' = read /\ got' = got
    BY <2>1, AckArrivesStep
  <2> QED BY <1>0, <2>2
<1>4. CASE \E p \in data : \E last, answered \in BOOLEAN : Arrives(p, last, answered)
  <2>1. PICK p \in data, last \in BOOLEAN, answered \in BOOLEAN : Arrives(p, last, answered)
    BY <1>4
  <2>2. /\ IInv' /\ win' = win /\ read' = read /\ tail' = tail
        /\ PeerNext(got) <= PeerNext(got')
    BY <2>1, ArrivesStep
  <2> QED BY <1>0, <2>2
<1>5. CASE (\E p \in data : Lost(p)) \/ PeerAnswers \/ PeerReads \/ UNCHANGED vars
  <2>1. IInv' /\ win' = win /\ read <= read' /\ tail' = tail /\ got' = got
    BY <1>5, QuietSteps
  <2> QED BY <1>0, <2>1
<1> QED BY <1>1, <1>2, <1>3, <1>4, <1>5 DEF Next, Travels

LEMMA Inductive == Spec => []IInv
<1>1. Init => IInv
  BY InitStep
<1>2. IInv /\ [Next]_vars => IInv'
  BY NextStep
<1> QED BY <1>1, <1>2, PTL DEF Spec

----------------------------------------------------------------------------
(* The theorems *)

\* The window, txStream, the packets and the acknowledgements hold values of
\* their types, whatever the peer answers and the network does: no position
\* leaves the stream, no segment grows past usMSS, the pool is not overdrawn.
THEOREM TypeCorrect == Spec => []TypeOK
<1>1. ASSUME IInv PROVE TypeOK
  <2>1. /\ Segs(win.segs) /\ DOMAIN win.segs \subseteq Positions /\ win.size \in 0..TxWindow
        /\ \A x \in DOMAIN win.segs : win.segs[x] \in SegmentType
        /\ Cardinality(DOMAIN win.segs) <= Segments
    BY <1>1 DEF IInv, WindowOK, Typed, Segs, StreamOK
  <2>2. win.growing \in ToSet(win.tx) \cup {Missing}
    <3>1. /\ ToSet(win.tx) = {x \in DOMAIN win.segs : x >= win.highest}
          /\ win.growing # Missing => win.growing \in DOMAIN win.segs /\ win.growing >= win.highest
      BY <1>1 DEF IInv, WindowOK, Queues, GrowsAtEnd
    <3> QED BY <3>1
  <2>3. 0 <= tail /\ tail <= mid /\ mid <= head /\ head < tail + LENGTH /\ head <= StreamLength
    <3>1. head < tail + LENGTH
      BY <1>1 DEF IInv, StreamOK
    <3> QED BY <1>1, <3>1, InvNumbers
  <2>4. \A p \in data : p.seq \in Positions /\ p.len \in 1..MSS
    BY <1>1 DEF IInv, PeerOK
  <2>5. Len(acks) <= MaxAcks /\ wnd \in 0..PeerSpace /\ read \in 0..PeerNext(got)
    BY <1>1 DEF IInv, AcksOK, PeerOK
  <2> QED BY <2>1, <2>2, <2>3, <2>4, <2>5 DEF TypeOK, SegmentType, Positions
<1> QED BY <1>1, Inductive, PTL

\* The segments are a partition of what is sent or waits and not acknowledged.
LEMMA CoversStream ==
    ASSUME IInv
    PROVE  SegmentsCoverStream
<1>1. /\ win.cur = tail /\ win.next = mid /\ Has(got, 0, tail)
      /\ Segs(win.segs) /\ Tiles(win.segs, tail, mid)
  BY DEF IInv, WindowOK, Typed, StreamOK
<1>2. tail \in Nat /\ mid \in Nat
  BY InvNumbers
<1>3. ASSUME NEW i \in tail..mid - 1
      PROVE  \E x \in DOMAIN win.segs :
               /\ x <= i /\ i < x + win.segs[x].len
               /\ \A y \in DOMAIN win.segs \ {x} : i < y \/ y + win.segs[y].len <= i
  <2>1. PICK x \in DOMAIN win.segs : x <= i /\ i < End(win.segs, x)
    BY <1>1 DEF Tiles
  <2>2. ASSUME NEW y \in DOMAIN win.segs \ {x} PROVE i < y \/ End(win.segs, y) <= i
    <3>1. /\ x \in Nat /\ End(win.segs, x) \in Nat
          /\ y \in Nat /\ End(win.segs, y) \in Nat
      BY <1>1, Numbers
    <3>2. (x < y => End(win.segs, x) <= y) /\ (y < x => End(win.segs, y) <= x)
      BY <1>1 DEF Tiles
    <3>3. x < y \/ y < x
      BY <3>1
    <3>4. i \in Int
      BY <1>2
    <3> QED BY <2>1, <3>1, <3>2, <3>3, <3>4
  <2> QED BY <2>1, <2>2 DEF End
<1> QED BY <1>1, <1>3 DEF SegmentsCoverStream, Has

\* Each segment is in the queue that its state asks for.
LEMMA QueuedByState ==
    ASSUME IInv
    PROVE  EverySegmentQueued
<1>1. WindowOK(win)
  BY DEF IInv
<1>2. /\ Segs(win.segs) /\ win.prio \in Seq(Positions) /\ win.tx \in Seq(Positions)
      /\ win.wait \in Seq(Positions) /\ win.highest \in Nat
  BY <1>1 DEF WindowOK, Typed
<1>3. /\ ToSet(win.tx) = {x \in DOMAIN win.segs : x >= win.highest}
      /\ \A i, j \in 1..Len(win.tx) : i < j => win.tx[i] < win.tx[j]
      /\ IsInjective(win.prio) /\ IsInjective(win.wait)
      /\ ToSet(win.prio) \cap ToSet(win.wait) = {}
      /\ ToSet(win.prio) \cup ToSet(win.wait) =
           {x \in DOMAIN win.segs : x < win.highest /\ ~win.segs[x].acked}
  BY <1>1 DEF WindowOK, Queues
<1>4. ASSUME NEW x \in DOMAIN win.segs
      PROVE  IF win.segs[x].acked THEN Queued(x) = {}
             ELSE Cardinality(Queued(x)) = 1 /\ ("tx" \in Queued(x) <=> ~win.segs[x].outstanding)
  <2>1. /\ x \in Nat /\ (win.segs[x].outstanding <=> x < win.highest)
        /\ win.segs[x].acked => x < win.highest
    BY <1>1, <1>2, Numbers DEF WindowOK, SentBelow
  <2>2. x \in ToSet(win.tx) <=> ~(x < win.highest)
    BY <1>2, <1>3, <2>1
  <2>3. x \in ToSet(win.prio) \/ x \in ToSet(win.wait) <=> x < win.highest /\ ~win.segs[x].acked
    BY <1>3
  <2>4. ~(x \in ToSet(win.prio) /\ x \in ToSet(win.wait))
    BY <1>3
  <2>5. /\ "tx" \in Queued(x) <=> x \in ToSet(win.tx)
        /\ "prio" \in Queued(x) <=> x \in ToSet(win.prio)
        /\ "wait" \in Queued(x) <=> x \in ToSet(win.wait)
        /\ Queued(x) \subseteq {"prio", "tx", "wait"}
    BY DEF Queued
  <2>6. CASE win.segs[x].acked
    <3>1. Queued(x) = {}
      BY <2>1, <2>2, <2>3, <2>5, <2>6
    <3> QED BY <2>6, <3>1
  <2>7. CASE ~win.segs[x].acked
    <3>1. \E q : Queued(x) = {q}
      <4>1. CASE x < win.highest /\ x \in ToSet(win.prio)
        <5>1. Queued(x) = {"prio"}
          BY <2>2, <2>4, <2>5, <4>1
        <5> QED BY <5>1
      <4>2. CASE x < win.highest /\ x \in ToSet(win.wait)
        <5>1. Queued(x) = {"wait"}
          BY <2>2, <2>4, <2>5, <4>2
        <5> QED BY <5>1
      <4>3. CASE ~(x < win.highest)
        <5>1. Queued(x) = {"tx"}
          BY <2>2, <2>3, <2>5, <4>3
        <5> QED BY <5>1
      <4> QED BY <2>3, <2>7, <4>1, <4>2, <4>3
    <3>2. Cardinality(Queued(x)) = 1
      BY <3>1, FS_Singleton
    <3>3. "tx" \in Queued(x) <=> ~win.segs[x].outstanding
      BY <2>1, <2>2, <2>5
    <3> QED BY <2>7, <3>2, <3>3
  <2> QED BY <2>6, <2>7
<1>5. IsInjective(win.tx)
  <2> DEFINE q == win.tx
  <2>1. /\ q \in Seq(Positions) /\ Len(q) \in Nat /\ DOMAIN q = 1..Len(q)
        /\ \A i, j \in 1..Len(q) : i < j => q[i] < q[j]
        /\ \A i \in 1..Len(q) : q[i] \in Positions
    BY <1>2, <1>3
  <2> HIDE DEF q
  <2>2. \A i \in 1..Len(q) : q[i] \in Int
    BY <2>1, SizesAssumption DEF Positions
  <2>3. ASSUME NEW i \in 1..Len(q), NEW j \in 1..Len(q), q[i] = q[j] PROVE i = j
    <3>1. ~(i < j) /\ ~(j < i)
      BY <2>1, <2>2, <2>3
    <3> QED BY <2>1, <3>1
  <2>4. IsInjective(q)
    BY <2>1, <2>3 DEF IsInjective
  <2> QED BY <2>4 DEF q
<1>6. /\ IsInjective(win["prio"]) /\ IsInjective(win["tx"]) /\ IsInjective(win["wait"])
      /\ ToSet(win["prio"]) \subseteq DOMAIN win.segs /\ ToSet(win["tx"]) \subseteq DOMAIN win.segs
      /\ ToSet(win["wait"]) \subseteq DOMAIN win.segs
  BY <1>3, <1>5
<1>7. \A q \in {"prio", "tx", "wait"} :
        IsInjective(win[q]) /\ ToSet(win[q]) \subseteq DOMAIN win.segs
  BY <1>6
<1> QED BY <1>4, <1>7 DEF EverySegmentQueued

\* Whatever is lost, repeated, reordered, SACKed or sent again: the segments
\* cover exactly what is between the tail and the middle of txStream, each that
\* is not acknowledged is once in the queue for its state, and no byte leaves
\* txStream before the peer has it.  The window neither forgets a byte nor
\* frees one early.
THEOREM WindowIsConsistent == Spec => []WindowConsistent
<1>1. IInv => WindowConsistent
  BY CoversStream, QueuedByState DEF WindowConsistent
<1> QED BY <1>1, Inductive, PTL

\* As long as the sequence numbers of the connection do not wrap (then
\* prvTCPWindowTxHasSpace counts nothing as outstanding), no new data is sent
\* past the space the peer has announced, though its announcements arrive late,
\* in part or not at all.
THEOREM StaysInPeerWindow ==
    ASSUME NoWrap
    PROVE  Spec => []InPeerWindow
<1>1. Init => InPeerWindow
  <2> SUFFICES ASSUME Init PROVE InPeerWindow
    OBVIOUS
  <2>1. win.highest = 0 /\ read = 0
    BY DEF Init
  <2> QED BY <2>1, PeerAssumption DEF InPeerWindow
<1>2. ASSUME IInv, InPeerWindow, [Next]_vars PROVE InPeerWindow'
  <2>1. IInv' /\ read <= read' /\ (win'.highest = win.highest \/ win'.highest <= read + PeerSpace)
    BY <1>2, NextStep
  <2>2. /\ read \in Nat /\ win.highest \in Nat /\ PeerSpace \in Nat
        /\ read' \in Nat /\ win'.highest \in Nat
    <3>1. read' \in Nat /\ win'.highest \in Nat
      BY <2>1 DEF IInv, PeerOK, WindowOK, Typed
    <3> QED BY <1>2, <3>1, InvNumbers
  <2> QED BY <1>2, <2>1, <2>2 DEF InPeerWindow
<1> QED BY <1>1, <1>2, Inductive, PTL DEF Spec

\* What the peer has passed on, or can pass on, to its user.
given == [i \in 1..PeerNext(got) |-> got[i - 1]]

\* It is our user's stream, in order, and all that was acknowledged.
InOrder ==
    /\ given = [i \in 1..PeerNext(got) |-> i - 1]
    /\ Len(given) = PeerNext(got) /\ \A i \in 1..PeerNext(got) : given[i] = i - 1
    /\ tail \in Nat /\ tail <= PeerNext(got) /\ PeerNext(got) \in 0..StreamLength

LEMMA GivenInOrder == IInv => InOrder
<1> SUFFICES ASSUME IInv PROVE InOrder
  OBVIOUS
<1>1. /\ got \in [Positions -> Positions \cup {Missing}]
      /\ \A i \in Positions : got[i] # Missing => got[i] = i
  BY DEF IInv, PeerOK
<1>2. StreamLength \in Nat /\ PeerNext(got) \in 0..StreamLength
  BY InvNumbers
<1>3. \A i \in 1..PeerNext(got) : got[i - 1] = i - 1
  <2> SUFFICES ASSUME NEW i \in 1..PeerNext(got) PROVE got[i - 1] = i - 1
    OBVIOUS
  <2>1. i - 1 \in 0..PeerNext(got) - 1 /\ i - 1 \in Positions
    BY <1>2 DEF Positions
  <2>2. got[i - 1] # Missing
    BY <1>1, <2>1, PeerNextFacts
  <2> QED BY <1>1, <2>1, <2>2
<1> DEFINE n == PeerNext(got)
<1>4. given = [i \in 1..n |-> i - 1] /\ n \in Nat
  BY <1>2, <1>3 DEF given
<1> HIDE DEF n
<1>5. Len(given) = n /\ \A i \in 1..n : given[i] = i - 1
  BY <1>4
<1>6. tail \in Nat /\ tail <= PeerNext(got)
  BY InvNumbers
<1> QED BY <1>2, <1>4, <1>5, <1>6 DEF n, InOrder

\* Every step of the sender, the peer and the network gives the peer's user
\* more of our user's stream or nothing, in order; and once all of it has been
\* acknowledged, nothing more comes.
THEOREM RefinesReliableStream ==
    Spec => Promised!Init /\ [][Promised!Deliver]_<<given, tail = StreamLength>>
<1>1. Init => Promised!Init
  <2> SUFFICES ASSUME Init PROVE given = <<>> /\ (tail = StreamLength) = FALSE
    BY DEF Promised!Init, given
  <2>1. tail # StreamLength
    BY SizesAssumption DEF Init
  <2>2. PeerNext(got) = 0
    <3>1. got \in [Positions -> Positions \cup {Missing}] /\ \A i \in Positions : got[i] = Missing
      BY DEF Init, Positions
    <3>2. PeerNext(got) \in 0..StreamLength /\ \A j \in 0..PeerNext(got) - 1 : got[j] # Missing
      BY <3>1, PeerNextFacts
    <3>3. PeerNext(got) # 0 => 0 \in 0..PeerNext(got) - 1 /\ 0 \in Positions
      BY <3>2, SizesAssumption DEF Positions
    <3> QED BY <3>1, <3>2, <3>3
  <2>3. given = [i \in 1..0 |-> got[i - 1]]
    BY <2>2 DEF given
  <2> QED BY <2>1, <2>3
<1>2. ASSUME IInv, InOrder, InOrder', [Next]_vars
      PROVE  [Promised!Deliver]_<<given, tail = StreamLength>>
  <2>0. tail <= tail' /\ PeerNext(got) <= PeerNext(got') /\ StreamLength \in Nat
    BY <1>2, NextStep, SizesAssumption
  <2>1. /\ given = [i \in 1..PeerNext(got) |-> i - 1]
        /\ Len(given) = PeerNext(got) /\ \A i \in 1..PeerNext(got) : given[i] = i - 1
        /\ tail \in Nat /\ tail <= PeerNext(got) /\ PeerNext(got) \in 0..StreamLength
    BY <1>2 DEF InOrder
  <2>2. /\ given' = [i \in 1..PeerNext(got') |-> i - 1]
        /\ Len(given') = PeerNext(got') /\ \A i \in 1..PeerNext(got') : given'[i] = i - 1
        /\ tail' \in Nat /\ tail' <= PeerNext(got') /\ PeerNext(got') \in 0..StreamLength
    BY <1>2 DEF InOrder
  <2>5. CASE tail = StreamLength
    <3>1. tail' = StreamLength /\ PeerNext(got) = StreamLength /\ PeerNext(got') = StreamLength
      BY <2>0, <2>1, <2>2, <2>5
    <3>2. given' = given
      BY <2>1, <2>2, <3>1
    <3> QED BY <2>5, <3>1, <3>2
  <2>6. CASE tail # StreamLength
    <3>1. Len(given') \in Len(given)..StreamLength
      BY <2>0, <2>1, <2>2
    <3>2. \A i \in 1..Len(given') :
             given'[i] = IF i <= Len(given) THEN given[i] ELSE i - 1
      BY <2>1, <2>2
    <3>3. tail' = StreamLength => Len(given') = StreamLength
      BY <2>0, <2>2
    <3> QED BY <2>6, <3>1, <3>2, <3>3 DEF Promised!Deliver, given
  <2> QED BY <2>5, <2>6
<1> QED BY Inductive, GivenInOrder, <1>1, <1>2, PTL DEF Spec

============================================================================
