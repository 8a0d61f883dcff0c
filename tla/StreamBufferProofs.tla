------------------------- MODULE StreamBufferProofs -------------------------
(***************************************************************************)
(* Proofs about the stream buffer, for every LENGTH, every number of bytes *)
(* and every way the two sides preempt each other.  What makes the buffer  *)
(* work without a lock is in Calls: the space a writer saw can only grow   *)
(* while it copies, and so can the data a reader saw.                      *)
(***************************************************************************)
EXTENDS StreamBuffer, TLAPS

\* Where the byte at position p of the stream lies.
CellOf(p) == Wrap(tail + (p - taken))

\* uxTail and uxHead are the cells of the first byte not taken and the first
\* not written.
Positions ==
    /\ taken <= written
    /\ written - taken < LENGTH
    /\ head = CellOf(written)

\* Everything stored and not yet taken is in its cell.
Stored ==
    /\ taken..written - 1 \subseteq early
    /\ \A p \in early : p >= taken => p - taken < LENGTH /\ cell[CellOf(p)] = p

\* The call in progress on each side still fits.
Calls ==
    /\ wpc \in {"copy", "head"} => written - taken + woff + wn < LENGTH
    /\ wpc \in {"copy", "head"} => wn > 0 /\ written + woff + wn <= StreamLength
    /\ wpc = "front" => woff < LENGTH
    /\ wpc = "head" => woff = 0 /\ written..written + wn - 1 \subseteq early
    /\ wpc = "copy" => (woff > 0 <=> wop = "early") /\ wop # "advance"
    /\ rpc # "idle" => taken + roff + rn <= written /\ rn > 0
    /\ rpc = "tail" => roff = 0
    /\ rpc = "copy" /\ rop = "get" => roff = 0

IInv == TypeOK /\ Positions /\ Stored /\ Calls

USE LengthAssumption, StreamLengthAssumption, SidesAssumption

----------------------------------------------------------------------------
(* Facts about the wrap-around arithmetic *)

\* One wrap brings an index below 2 * LENGTH back into range.
LEMMA WrapInRange ==
    ASSUME NEW i \in 0..2 * LENGTH - 1 PROVE Wrap(i) \in Indexes
BY DEF Wrap, Indexes

\* Wrapping between two additions changes nothing, and distances are lengths.
LEMMA WrapTwice ==
    ASSUME NEW i \in Indexes, NEW m \in Nat, NEW n \in Nat, m + n < LENGTH
    PROVE  /\ Wrap(Wrap(i + m) + n) = Wrap(i + (m + n))
           /\ Distance(i, Wrap(i + m)) = m
           /\ Distance(Wrap(i + m), Wrap(i + (m + n))) = n
BY DEF Wrap, Indexes, Distance

\* Two different lengths below LENGTH lead to two different cells.
LEMMA WrapInjective ==
    ASSUME NEW i \in Indexes, NEW m \in 0..LENGTH - 1, NEW n \in 0..LENGTH - 1,
           Wrap(i + m) = Wrap(i + n)
    PROVE  m = n
BY DEF Wrap, Indexes

\* The space is what is left of LENGTH - 1.
LEMMA SpaceIsRest ==
    ASSUME NEW i \in Indexes, NEW m \in 0..LENGTH - 1
    PROVE  Space(Wrap(i + m), i) = LENGTH - 1 - m
BY DEF Wrap, Indexes, Space

\* The sizes the two sides compute.
LEMMA Sizes ==
    ASSUME TypeOK, Positions
    PROVE  /\ GetSize = written - taken
           /\ GetSpace = LENGTH - 1 - (written - taken)
<1> DEFINE m == written - taken
<1>1. tail \in Indexes /\ m \in 0..LENGTH - 1 /\ head = Wrap(tail + m)
  BY DEF TypeOK, Positions, CellOf
<1>2. Distance(tail, Wrap(tail + m)) = m
  BY <1>1, WrapTwice
<1>3. Space(Wrap(tail + m), tail) = LENGTH - 1 - m
  BY <1>1, SpaceIsRest
<1> QED BY <1>1, <1>2, <1>3 DEF GetSize, GetSpace

\* A region that starts at a byte's cell is made of the following bytes' cells.
LEMMA RegionCells ==
    ASSUME TypeOK, NEW p \in Nat, p >= taken, NEW off \in Nat, NEW n \in Nat,
           p - taken + off + n <= LENGTH
    PROVE  Region(CellOf(p), off, n) = {CellOf(q) : q \in p + off..p + off + n - 1}
<1>1. ASSUME NEW i \in 0..n - 1
      PROVE  Wrap(Wrap(CellOf(p) + off) + i) = CellOf(p + off + i)
  <2> DEFINE m == p - taken
  <2>1. tail \in Indexes /\ m \in Nat /\ m + off < LENGTH /\ m + off + i < LENGTH /\ i \in Nat
    BY DEF TypeOK
  <2>2. Wrap(Wrap(tail + m) + off) = Wrap(tail + (m + off))
    BY <2>1, WrapTwice
  <2>3. Wrap(Wrap(tail + (m + off)) + i) = Wrap(tail + ((m + off) + i))
    BY <2>1, WrapTwice
  <2>4. p + off + i - taken = (m + off) + i
    BY <2>1 DEF TypeOK
  <2> QED BY <2>1, <2>2, <2>3, <2>4 DEF CellOf, TypeOK
<1>2. ASSUME NEW c \in Region(CellOf(p), off, n)
      PROVE  c \in {CellOf(q) : q \in p + off..p + off + n - 1}
  <2>1. PICK i \in 0..n - 1 : c = Wrap(Wrap(CellOf(p) + off) + i)
    BY DEF Region
  <2>2. p + off + i \in p + off..p + off + n - 1
    BY <2>1
  <2> QED BY <2>1, <2>2, <1>1
<1>3. ASSUME NEW q \in p + off..p + off + n - 1
      PROVE  CellOf(q) \in Region(CellOf(p), off, n)
  <2> DEFINE i == q - (p + off)
  <2>1. i \in 0..n - 1 /\ q = p + off + i
    OBVIOUS
  <2> QED BY <2>1, <1>1 DEF Region
<1> QED BY <1>2, <1>3

\* The bytes past uxTail, up to LENGTH of them, have cells of their own.
LEMMA CellsDiffer ==
    ASSUME TypeOK, NEW p \in Nat, NEW q \in Nat, p >= taken, q >= taken,
           p - taken < LENGTH, q - taken < LENGTH, CellOf(p) = CellOf(q)
    PROVE  p = q
<1>1. tail \in Indexes /\ p - taken \in 0..LENGTH - 1 /\ q - taken \in 0..LENGTH - 1
  BY DEF TypeOK
<1>2. p - taken = q - taken
  BY <1>1, WrapInjective DEF CellOf
<1> QED BY <1>2 DEF TypeOK

----------------------------------------------------------------------------
(* The invariant *)

LEMMA InitIInv == Init => IInv
<1> SUFFICES ASSUME Init PROVE IInv
  OBVIOUS
<1>1. TypeOK
  BY DEF Init, TypeOK, Indexes
<1>2. Positions
  BY DEF Init, Positions, CellOf, Wrap
<1>3. Stored
  BY DEF Init, Stored
<1>4. Calls
  BY DEF Init, Calls
<1> QED BY <1>1, <1>2, <1>3, <1>4 DEF IInv

LEMMA StepTypeOK == IInv /\ [Next]_vars => TypeOK'
<1> SUFFICES ASSUME IInv, [Next]_vars PROVE TypeOK'
  OBVIOUS
<1> USE DEF TypeOK, indexes, writer, reader
<1>t. TypeOK /\ Calls /\ Positions
  BY DEF IInv
<1>u. use' = use
  BY DEF Next, vars
<1>1. CASE BeginAdd
  BY <1>1, <1>t, <1>u DEF BeginAdd, WriterOps, Transmit
<1>2. CASE CopyIn
  <2>1. cell' \in [Indexes -> Int]
    <3>1. \A c \in Indexes : written + Distance(head, c) \in Int
      <4>1. written \in Int /\ head \in Int
        BY <1>t DEF Indexes
      <4>2. ASSUME NEW c \in Indexes PROVE Distance(head, c) \in Int
        <5>1. c \in Int /\ LENGTH \in Int
          BY DEF Indexes
        <5>2. LENGTH + c - head \in Int
          BY <4>1, <5>1
        <5> QED BY <5>1, <5>2 DEF Distance, Wrap
      <4> QED BY <4>1, <4>2
    <3>2. \A c \in Indexes : cell[c] \in Int
      BY <1>t
    <3>3. cell' = [c \in Indexes |->
                     IF c \in Region(head, woff, wn) THEN written + Distance(head, c) ELSE cell[c]]
      BY <1>2 DEF CopyIn
    <3> QED BY <3>1, <3>2, <3>3
  <2>2. early' \subseteq Nat
    BY <1>2, <1>t DEF CopyIn
  <2> QED BY <1>2, <1>t, <1>u, <2>1, <2>2 DEF CopyIn
<1>3. CASE MoveHead
  <2>1. written \in Nat /\ taken \in Nat /\ written - taken + woff + wn < LENGTH
    BY <1>3, <1>t DEF MoveHead, Calls
  <2>2. head \in 0..LENGTH - 1 /\ wn \in Nat /\ woff \in Nat /\ taken <= written
    BY <1>t DEF Positions, Indexes
  <2>3. head + wn \in 0..2 * LENGTH - 1
    BY <2>1, <2>2
  <2>4. head' \in Indexes
    BY <1>3, <2>3, WrapInRange DEF MoveHead
  <2> QED BY <1>3, <1>t, <1>u, <2>4 DEF MoveHead
<1>4. CASE MoveFront
  <2>1. head \in 0..LENGTH - 1 /\ woff \in Nat /\ woff < LENGTH /\ front \in Indexes
    BY <1>4, <1>t DEF MoveFront, Calls, Indexes
  <2>2. head + woff \in 0..2 * LENGTH - 1
    BY <2>1
  <2>3. Wrap(head + woff) \in Indexes
    BY <2>2, WrapInRange
  <2>4. front' \in {front, head, Wrap(head + woff)}
    BY <1>4 DEF MoveFront
  <2>5. front' \in Indexes
    BY <2>1, <2>3, <2>4 DEF Indexes
  <2> QED BY <1>4, <1>t, <1>u, <2>5 DEF MoveFront
<1>5. CASE BeginGet
  BY <1>5, <1>t, <1>u DEF BeginGet, ReaderOps, Transmit
<1>6. CASE CopyOut
  BY <1>6, <1>t, <1>u DEF CopyOut
<1>7. CASE MoveTail
  <2>1. rn \in Nat /\ roff \in Nat /\ taken + roff + rn <= written /\ tail \in 0..LENGTH - 1
    BY <1>7, <1>t DEF MoveTail, Calls, Indexes
  <2>2. written \in Nat /\ taken \in Nat /\ written - taken < LENGTH
    BY <1>t DEF Positions
  <2>3. tail + rn \in 0..2 * LENGTH - 1
    BY <2>1, <2>2
  <2>4. tail' \in Indexes
    BY <1>7, <2>3, WrapInRange DEF MoveTail
  <2> QED BY <1>7, <1>t, <1>u, <2>4 DEF MoveTail
<1>8. CASE MoveMid
  <2>1. mid \in 0..LENGTH - 1
    BY <1>t DEF Indexes
  <2>2. PICK n \in 1..LENGTH - 1 : mid' = Wrap(mid + n)
    BY <1>8 DEF MoveMid
  <2>3. mid + n \in 0..2 * LENGTH - 1
    BY <2>1, <2>2
  <2>4. mid' \in Indexes
    BY <2>2, <2>3, WrapInRange
  <2> QED BY <1>8, <1>t, <1>u, <2>4 DEF MoveMid
<1>9. CASE UNCHANGED vars
  BY <1>9, <1>t DEF vars
<1> QED BY <1>1, <1>2, <1>3, <1>4, <1>5, <1>6, <1>7, <1>8, <1>9 DEF Next

LEMMA StepPositions == IInv /\ [Next]_vars => Positions'
<1> SUFFICES ASSUME IInv, [Next]_vars PROVE Positions'
  OBVIOUS
<1>t. TypeOK /\ Calls /\ Positions
  BY DEF IInv
<1>1. CASE MoveHead
  <2> DEFINE m == written - taken
  <2>1. /\ tail \in Indexes /\ m \in Nat /\ wn \in Nat /\ m + wn < LENGTH
        /\ head = Wrap(tail + m) /\ written' = written + wn
        /\ head' = Wrap(head + wn) /\ UNCHANGED <<tail, taken>>
    BY <1>1, <1>t DEF MoveHead, TypeOK, Calls, Positions, CellOf
  <2>2. head' = Wrap(tail + (m + wn))
    BY <2>1, WrapTwice
  <2>3. written' - taken' = m + wn
    BY <2>1, <1>t DEF TypeOK
  <2> QED BY <2>1, <2>2, <2>3, <1>t DEF Positions, CellOf, TypeOK
<1>2. CASE MoveTail
  <2> DEFINE m == written - taken - rn
  <2>1. /\ tail \in Indexes /\ m \in Nat /\ rn \in Nat /\ rn + m < LENGTH
        /\ head = Wrap(tail + (rn + m)) /\ taken' = taken + rn
        /\ tail' = Wrap(tail + rn) /\ UNCHANGED <<head, written>>
    <3>1. written - taken = rn + m
      BY <1>t DEF TypeOK
    <3> QED BY <3>1, <1>2, <1>t DEF MoveTail, TypeOK, Calls, Positions, CellOf
  <2>2. head' = Wrap(tail' + m)
    BY <2>1, WrapTwice
  <2>3. written' - taken' = m /\ m < LENGTH
    BY <2>1, <1>t DEF TypeOK
  <2> QED BY <2>1, <2>2, <2>3, <1>t DEF Positions, CellOf, TypeOK
<1>3. CASE UNCHANGED <<tail, head, written, taken>>
  BY <1>3, <1>t DEF Positions, CellOf
<1> QED BY <1>1, <1>2, <1>3 DEF Next, vars, indexes, BeginAdd, CopyIn, MoveFront,
           BeginGet, CopyOut, MoveMid

LEMMA StepCalls == IInv /\ [Next]_vars => Calls'
<1> SUFFICES ASSUME IInv, [Next]_vars PROVE Calls'
  OBVIOUS
<1> USE DEF Calls, indexes, writer, reader
<1>t. TypeOK /\ Calls /\ Positions
  BY DEF IInv
<1>s. /\ GetSize = written - taken /\ GetSpace = LENGTH - 1 - (written - taken)
      /\ written \in Nat /\ taken \in Nat /\ taken <= written
  BY <1>t, Sizes DEF TypeOK, Positions
<1>1. CASE BeginAdd
  BY <1>1, <1>t, <1>s DEF BeginAdd, WriterWants, WriterOps
<1>2. CASE CopyIn
  BY <1>2, <1>t, <1>s DEF CopyIn, TypeOK
<1>3. CASE MoveHead
  BY <1>3, <1>t, <1>s DEF MoveHead, TypeOK
<1>4. CASE MoveFront
  BY <1>4, <1>t, <1>s DEF MoveFront, TypeOK
<1>5. CASE BeginGet
  BY <1>5, <1>t, <1>s DEF BeginGet, ReaderWants, ReaderOps
<1>6. CASE CopyOut
  BY <1>6, <1>t, <1>s DEF CopyOut, TypeOK
<1>7. CASE MoveTail
  BY <1>7, <1>t, <1>s DEF MoveTail, TypeOK
<1>8. CASE MoveMid
  BY <1>8, <1>t, <1>s DEF MoveMid, TypeOK
<1>9. CASE UNCHANGED vars
  BY <1>9, <1>t DEF vars
<1> QED BY <1>1, <1>2, <1>3, <1>4, <1>5, <1>6, <1>7, <1>8, <1>9 DEF Next

LEMMA StepStored == IInv /\ [Next]_vars => Stored'
<1> SUFFICES ASSUME IInv, [Next]_vars PROVE Stored'
  OBVIOUS
<1>t. TypeOK /\ Calls /\ Positions /\ Stored
  BY DEF IInv
<1>n. /\ written \in Nat /\ taken \in Nat /\ taken <= written /\ written - taken < LENGTH
      /\ woff \in Nat /\ wn \in Nat /\ rn \in Nat /\ early \subseteq Nat /\ tail \in Indexes
      /\ tail \in Nat
  BY <1>t DEF TypeOK, Positions, Indexes
<1>1. CASE CopyIn
  <2> DEFINE new == written + woff..written + woff + wn - 1
  <2>1. /\ wpc = "copy" /\ written - taken + woff + wn < LENGTH /\ wn > 0
        /\ early' = early \cup new
        /\ UNCHANGED <<tail, written, taken, head>>
    BY <1>1, <1>t DEF CopyIn, Calls, indexes
  <2>2. Region(head, woff, wn) = {CellOf(q) : q \in new}
    <3>1. written - taken + woff + wn <= LENGTH
      BY <2>1, <1>n
    <3>2. head = CellOf(written)
      BY <1>t DEF Positions
    <3> QED BY <3>1, <3>2, <1>n, <1>t, RegionCells
  <2>3. \A q \in new : q \in Nat /\ q >= taken /\ q - taken < LENGTH /\ q >= written
    BY <2>1, <1>n
  <2>4. ASSUME NEW q \in new PROVE cell'[CellOf(q)] = q
    <3> DEFINE m == written - taken
               n == q - written
    <3>1. /\ m \in Nat /\ n \in Nat /\ m + n < LENGTH /\ q - taken = m + n
          /\ head = Wrap(tail + m)
      BY <2>3, <1>n, <1>t DEF Positions, CellOf
    <3>2. Distance(head, CellOf(q)) = n
      BY <3>1, <1>n, WrapTwice DEF CellOf
    <3>3. CellOf(q) \in Indexes
      <4>1. q - taken \in 0..LENGTH - 1
        BY <2>3, <1>n
      <4> QED BY <4>1, <1>n DEF CellOf, Wrap, Indexes
    <3>4. CellOf(q) \in Region(head, woff, wn)
      BY <2>2
    <3>5. cell'[CellOf(q)] = written + Distance(head, CellOf(q))
      BY <1>1, <3>3, <3>4 DEF CopyIn
    <3> QED BY <3>2, <3>5, <2>3, <1>n
  <2>5. ASSUME NEW p \in early, p >= taken, p \notin new
        PROVE  p - taken < LENGTH /\ cell'[CellOf(p)] = p
    <3>1. p \in Nat /\ p - taken < LENGTH /\ cell[CellOf(p)] = p
      BY <2>5, <1>t, <1>n DEF Stored
    <3>2. CellOf(p) \notin Region(head, woff, wn)
      BY <2>2, <2>3, <2>5, <3>1, <1>t, CellsDiffer
    <3>3. CellOf(p) \in Indexes
      BY <3>1, <2>5, <1>n DEF CellOf, Wrap, Indexes
    <3> QED BY <1>1, <3>1, <3>2, <3>3 DEF CopyIn
  <2>6. \A p \in early' : p >= taken => p - taken < LENGTH /\ cell'[CellOf(p)] = p
    BY <2>1, <2>3, <2>4, <2>5
  <2>7. \A p : CellOf(p)' = CellOf(p)
    BY <2>1 DEF CellOf
  <2> QED BY <2>1, <2>6, <2>7, <1>t DEF Stored
<1>2. CASE MoveHead
  <2>1. /\ written' = written + wn /\ written..written + wn - 1 \subseteq early
        /\ UNCHANGED <<tail, taken, early, cell>>
    BY <1>2, <1>t DEF MoveHead, Calls
  <2>2. taken'..written' - 1 \subseteq early'
    BY <2>1, <1>t, <1>n DEF Stored
  <2> QED BY <2>1, <2>2, <1>t DEF Stored, CellOf
<1>3. CASE MoveTail
  <2>1. /\ taken' = taken + rn /\ tail' = Wrap(tail + rn)
        /\ taken + rn <= written
        /\ UNCHANGED <<written, early, cell>>
    BY <1>3, <1>t, <1>n DEF MoveTail, Calls, TypeOK
  <2>2. taken'..written' - 1 \subseteq early'
    BY <2>1, <1>t, <1>n DEF Stored
  <2>3. ASSUME NEW p \in early', p >= taken'
        PROVE  p - taken' < LENGTH /\ cell'[CellOf(p)'] = p
    <3> DEFINE m == p - (taken + rn)
    <3>1. p \in Nat /\ m \in Nat /\ p >= taken
      BY <2>1, <2>3, <1>n
    <3>2. p - taken < LENGTH /\ cell[CellOf(p)] = p
      BY <2>1, <3>1, <1>t DEF Stored
    <3>3. rn + m < LENGTH /\ p - taken = rn + m
      BY <3>1, <3>2, <1>n
    <3>4. Wrap(Wrap(tail + rn) + m) = Wrap(tail + (rn + m))
      <4>1. tail \in Indexes /\ rn \in Nat /\ m \in Nat /\ rn + m < LENGTH
        BY <3>1, <3>3, <1>n, <1>t DEF TypeOK
      <4> HIDE DEF m
      <4> QED BY <4>1, WrapTwice
    <3>5. CellOf(p)' = CellOf(p)
      BY <2>1, <3>3, <3>4 DEF CellOf
    <3> QED BY <2>1, <3>1, <3>2, <3>3, <3>5, <1>n
  <2> QED BY <2>2, <2>3 DEF Stored
<1>4. CASE UNCHANGED <<tail, written, taken, early, cell>>
  BY <1>4, <1>t DEF Stored, CellOf
<1> QED BY <1>1, <1>2, <1>3, <1>4 DEF Next, vars, indexes, BeginAdd, MoveFront,
           BeginGet, CopyOut, MoveMid

\* The invariant is inductive.
THEOREM Inductive == Spec => []IInv
<1>1. IInv /\ [Next]_vars => IInv'
  BY StepTypeOK, StepPositions, StepStored, StepCalls DEF IInv
<1> QED BY InitIInv, <1>1, PTL DEF Spec

----------------------------------------------------------------------------
(* What follows from it *)

\* Every variable keeps its type; indexes never leave the array.
THEOREM TypeCorrect == Spec => []TypeOK
BY Inductive, PTL DEF IInv

\* The size both sides compute is the number of bytes written and not taken.
THEOREM ExactSize == Spec => []SizeIsExact
<1>1. IInv => SizeIsExact
  BY Sizes DEF IInv, SizeIsExact, Positions
<1> QED BY <1>1, Inductive, PTL

\* No cell is copied to and from at the same time.
THEOREM NoOverlap == Spec => []CopiesDisjoint
<1>1. IInv => CopiesDisjoint
  <2> SUFFICES ASSUME IInv, wpc = "copy", rpc = "copy"
               PROVE  Region(head, woff, wn) \cap Region(tail, roff, rn) = {}
    BY DEF CopiesDisjoint
  <2>1. /\ TypeOK /\ written \in Nat /\ taken \in Nat /\ taken <= written
        /\ written - taken + woff + wn < LENGTH /\ taken + roff + rn <= written
        /\ woff \in Nat /\ wn \in Nat /\ roff \in Nat /\ rn \in Nat /\ tail \in Indexes
    BY DEF IInv, TypeOK, Positions, Calls
  <2> DEFINE W == written + woff..written + woff + wn - 1
             R == taken + roff..taken + roff + rn - 1
  <2>2. Region(head, woff, wn) = {CellOf(q) : q \in W}
    <3>1. head = CellOf(written) /\ written - taken + woff + wn <= LENGTH
      BY <2>1 DEF IInv, Positions
    <3> QED BY <2>1, <3>1, RegionCells
  <2>3. Region(tail, roff, rn) = {CellOf(q) : q \in R}
    <3>1. tail = CellOf(taken) /\ taken - taken + roff + rn <= LENGTH
      BY <2>1 DEF CellOf, Wrap, Indexes
    <3> QED BY <2>1, <3>1, RegionCells
  <2>4. ASSUME NEW p \in W, NEW q \in R PROVE CellOf(p) # CellOf(q)
    <3>1. /\ p \in Nat /\ q \in Nat /\ p >= taken /\ q >= taken /\ p # q
          /\ p - taken < LENGTH /\ q - taken < LENGTH
      BY <2>1
    <3> QED BY <2>1, <3>1, CellsDiffer
  <2> QED BY <2>2, <2>3, <2>4
<1> QED BY <1>1, Inductive, PTL

\* What is in the buffer is the stream, in order.
THEOREM InOrder == Spec => []StoredInOrder
<1>1. IInv => StoredInOrder
  <2> SUFFICES ASSUME IInv PROVE StoredInOrder
    OBVIOUS
  <2>1. /\ TypeOK /\ written \in Nat /\ taken \in Nat /\ taken <= written
        /\ written - taken < LENGTH /\ early \subseteq Nat /\ tail \in Indexes
        /\ GetSize = written - taken /\ Stored
    BY Sizes DEF IInv, TypeOK, Positions
  <2>2. ASSUME NEW i \in 0..GetSize - 1 PROVE cell[Wrap(tail + i)] = taken + i
    <3>1. taken + i \in early /\ taken + i >= taken /\ (taken + i) - taken = i
      BY <2>1 DEF Stored
    <3> QED BY <2>1, <3>1 DEF Stored, CellOf
  <2>3. ASSUME NEW p \in early, p >= written
        PROVE  cell[Wrap(head + (p - written))] = p
    <3> DEFINE m == written - taken
               n == p - written
    <3>1. /\ m \in Nat /\ n \in Nat /\ p - taken = m + n /\ p >= taken
          /\ head = Wrap(tail + m)
      BY <2>1, <2>3 DEF IInv, Positions, CellOf
    <3>2. m + n < LENGTH /\ cell[Wrap(tail + (m + n))] = p
      BY <2>1, <3>1 DEF Stored, CellOf
    <3>3. Wrap(Wrap(tail + m) + n) = Wrap(tail + (m + n))
      BY <2>1, <3>1, <3>2, WrapTwice
    <3> QED BY <3>1, <3>2, <3>3
  <2> QED BY <2>2, <2>3 DEF StoredInOrder
<1> QED BY <1>1, Inductive, PTL

\* The buffer implements the bounded queue of bytes: moving uxHead is Put,
\* copying out is Look, moving uxTail is Drop, and the rest is invisible.
THEOREM Refinement == Spec => ImplementsByteStream
<1>1. Init => Stream!Init
  BY DEF Init, Stream!Init
<1>2. IInv /\ [Next]_vars => [Stream!Next]_<<written, taken, got>>
  <2> SUFFICES ASSUME IInv, [Next]_vars PROVE [Stream!Next]_<<written, taken, got>>
    OBVIOUS
  <2>n. /\ TypeOK /\ Calls /\ Stored /\ written \in Nat /\ taken \in Nat
        /\ taken <= written /\ written - taken < LENGTH /\ tail \in Indexes
        /\ woff \in Nat /\ wn \in Nat /\ roff \in Nat /\ rn \in Nat
    BY DEF IInv, TypeOK, Positions
  <2>1. CASE MoveHead
    <3>1. /\ wn \in 1..LENGTH - 1 /\ written + wn <= StreamLength
          /\ written + wn - taken <= LENGTH - 1
          /\ written' = written + wn /\ UNCHANGED <<taken, got>>
      BY <2>1, <2>n DEF MoveHead, Calls
    <3> QED BY <3>1 DEF Stream!Next, Stream!Put
  <2>2. CASE CopyOut
    <3>1. /\ rn \in 1..LENGTH - 1 /\ roff \in 0..LENGTH - 1
          /\ taken + roff + rn <= written /\ UNCHANGED <<written, taken>>
      BY <2>2, <2>n DEF CopyOut, Calls
    <3>2. ASSUME NEW i \in 1..rn
          PROVE  cell[Wrap(Wrap(tail + roff) + i - 1)] = taken + roff + i - 1
      <4> DEFINE p == taken + roff + i - 1
                 m == i - 1
      <4>1. /\ p \in taken..written - 1 /\ m \in Nat /\ roff + m < LENGTH
            /\ p >= taken /\ p - taken = roff + m
        BY <3>1, <2>n
      <4>2. cell[Wrap(tail + (roff + m))] = p
        BY <4>1, <2>n DEF Stored, CellOf
      <4>3. Wrap(Wrap(tail + roff) + m) = Wrap(tail + (roff + m))
        BY <4>1, <2>n, WrapTwice
      <4>4. Wrap(tail + roff) + i - 1 = Wrap(tail + roff) + m
        BY <2>n DEF Wrap, Indexes
      <4> QED BY <4>2, <4>3, <4>4
    <3>3. got' = [off |-> roff, data |-> [i \in 1..rn |-> taken + roff + i - 1]]
      BY <2>2, <3>2 DEF CopyOut
    <3> QED BY <3>1, <3>3 DEF Stream!Next, Stream!Look
  <2>3. CASE MoveTail
    <3>1. /\ rn \in 1..LENGTH - 1 /\ taken + rn <= written
          /\ taken' = taken + rn /\ UNCHANGED <<written, got>>
      BY <2>3, <2>n DEF MoveTail, Calls
    <3> QED BY <3>1 DEF Stream!Next, Stream!Drop
  <2>4. CASE UNCHANGED <<written, taken, got>>
    BY <2>4
  <2> QED BY <2>1, <2>2, <2>3, <2>4 DEF Next, vars, BeginAdd, CopyIn, MoveFront,
             BeginGet, MoveMid
<1> QED BY <1>1, <1>2, Inductive, PTL DEF Spec, ImplementsByteStream, Stream!Spec
----------------------------------------------------------------------------
(* uxFront *)

\* uxFront lies at or past uxHead, seen from uxTail.  An Add of data in order
\* moves uxHead first: until it goes on, the tail may pass uxFront.
FrontKeepsUp ==
    wpc # "front" \/ woff > 0 => Distance(tail, front) >= written - taken

\* xStreamBufferLessThenEqual orders indexes by their distance from the tail.
LEMMA ComparesDistances ==
    ASSUME tail \in Indexes, NEW left \in Indexes, NEW right \in Indexes
    PROVE  LessThenEqual(left, right) <=> Distance(tail, left) <= Distance(tail, right)
BY DEF LessThenEqual, Distance, Wrap, Indexes

\* When the tail moves on, an index it does not pass comes nearer by as much.
LEMMA DistanceShrinks ==
    ASSUME NEW t \in Indexes, NEW i \in Indexes, NEW n \in Nat, n <= Distance(t, i)
    PROVE  Distance(Wrap(t + n), i) = Distance(t, i) - n
BY DEF Distance, Wrap, Indexes

\* The space that is advertised is counted from the same distance.
LEMMA SpaceFromDistance ==
    ASSUME NEW t \in Indexes, NEW i \in Indexes
    PROVE  Space(i, t) = LENGTH - 1 - Distance(t, i)
BY DEF Distance, Space, Wrap, Indexes

LEMMA StepFront == IInv /\ FrontKeepsUp /\ [Next]_vars => FrontKeepsUp'
<1> SUFFICES ASSUME IInv, FrontKeepsUp, [Next]_vars PROVE FrontKeepsUp'
  OBVIOUS
<1> USE DEF FrontKeepsUp, indexes, writer, reader
<1>t. /\ TypeOK /\ Calls /\ Positions /\ GetSize = written - taken
      /\ written \in Nat /\ taken \in Nat /\ taken <= written /\ written - taken < LENGTH
      /\ tail \in Indexes /\ front \in Indexes /\ head \in Indexes
      /\ woff \in Nat /\ rn \in Nat /\ roff \in Nat
  BY Sizes DEF IInv, TypeOK, Positions
<1>1. CASE BeginAdd
  BY <1>1 DEF BeginAdd
<1>2. CASE CopyIn
  BY <1>2 DEF CopyIn
<1>3. CASE MoveHead
  BY <1>3, <1>t DEF MoveHead, Calls
<1>4. CASE MoveFront
  <2> DEFINE next == Wrap(head + woff)
  <2>1. next \in Indexes
    <3>1. head + woff \in 0..2 * LENGTH - 1
      BY <1>4, <1>t DEF MoveFront, Calls, Indexes
    <3> QED BY <3>1, WrapInRange
  <2>2. /\ front' = IF LessThenEqual(front, next) THEN next ELSE front
        /\ UNCHANGED <<tail, written, taken>>
    BY <1>4 DEF MoveFront
  <2>3. LessThenEqual(front, next) <=> Distance(tail, front) <= Distance(tail, next)
    BY <1>t, <2>1, ComparesDistances
  <2>4. Distance(tail, front) \in Int /\ Distance(tail, next) \in Int
    BY <1>t, <2>1 DEF Distance, Wrap, Indexes
  <2>5. \/ Distance(tail, front) >= written - taken
        \/ woff = 0 /\ Distance(tail, next) = written - taken
    <3>1. CASE woff > 0
      BY <3>1
    <3>2. CASE woff = 0
      <4>1. next = head
        BY <3>2, <1>t DEF Wrap, Indexes
      <4> QED BY <4>1, <3>2, <1>t DEF GetSize
    <3> QED BY <3>1, <3>2, <1>t
  <2> HIDE DEF next
  <2>6. Distance(tail, front') >= written - taken
    <3>1. CASE LessThenEqual(front, next)
      BY <3>1, <2>2, <2>3, <2>4, <2>5, <1>t
    <3>2. CASE ~LessThenEqual(front, next)
      BY <3>2, <2>2, <2>3, <2>4, <2>5, <1>t
    <3> QED BY <3>1, <3>2
  <2>7. Distance(tail, front)' = Distance(tail, front')
    BY <2>2 DEF Distance, Wrap
  <2> QED BY <2>2, <2>6, <2>7
<1>5. CASE BeginGet
  BY <1>5 DEF BeginGet
<1>6. CASE CopyOut
  BY <1>6 DEF CopyOut
<1>7. CASE MoveTail
  <2>1. /\ tail' = Wrap(tail + rn) /\ taken' = taken + rn /\ rn <= written - taken
        /\ UNCHANGED <<front, written, wpc, woff>>
    BY <1>7, <1>t DEF MoveTail, Calls
  <2>2. CASE wpc # "front" \/ woff > 0
    <3>1. Distance(tail, front) >= written - taken /\ Distance(tail, front) \in Int
      BY <2>2, <1>t DEF Distance, Wrap, Indexes
    <3>2. Distance(Wrap(tail + rn), front) = Distance(tail, front) - rn
      <4>1. rn <= Distance(tail, front)
        BY <2>1, <3>1, <1>t
      <4> QED BY <4>1, <1>t, DistanceShrinks
    <3>3. Distance(tail, front)' = Distance(Wrap(tail + rn), front)
      BY <2>1 DEF Distance, Wrap
    <3> QED BY <2>1, <3>1, <3>2, <3>3, <1>t
  <2> QED BY <2>1, <2>2
<1>8. CASE MoveMid
  BY <1>8 DEF MoveMid
<1>9. CASE UNCHANGED vars
  BY <1>9 DEF vars
<1> QED BY <1>1, <1>2, <1>3, <1>4, <1>5, <1>6, <1>7, <1>8, <1>9 DEF Next

\* While no Add is about to move uxFront, the space computed from it, which
\* the advertised window is made of, is never more than there is.
THEOREM FrontPromisesNoMore == Spec => []FrontInFreeSpace
<1>1. Init => FrontKeepsUp
  BY DEF Init, FrontKeepsUp, Distance, Wrap
<1>2. IInv /\ FrontKeepsUp => FrontInFreeSpace
  <2> SUFFICES ASSUME IInv, FrontKeepsUp, wpc \in {"idle", "copy"}
               PROVE  FrontSpace <= GetSpace
    BY DEF FrontInFreeSpace
  <2>1. /\ TypeOK /\ Positions /\ tail \in Indexes /\ front \in Indexes
        /\ written \in Nat /\ taken \in Nat
    BY DEF IInv, TypeOK
  <2>2. GetSpace = LENGTH - 1 - (written - taken)
    BY <2>1, Sizes
  <2>3. FrontSpace = LENGTH - 1 - Distance(tail, front)
    BY <2>1, SpaceFromDistance DEF FrontSpace
  <2>4. Distance(tail, front) >= written - taken /\ Distance(tail, front) \in Int
    BY <2>1 DEF FrontKeepsUp, Distance, Wrap, Indexes
  <2> QED BY <2>1, <2>2, <2>3, <2>4
<1> QED BY <1>1, <1>2, StepFront, Inductive, PTL DEF Spec
=============================================================================
