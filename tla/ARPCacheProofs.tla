--------------------------- MODULE ARPCacheProofs ---------------------------
(***************************************************************************)
(* Proofs about the ARP cache, for every size, every limit of the ages and *)
(* every network.  The rows of an address are unique only together: the    *)
(* function that stores a MAC address stops at the first row of the IP     *)
(* address, or keeps the last one, and that is right only because there is *)
(* one at most.                                                            *)
(***************************************************************************)
EXTENDS ARPCache, TLAPS

\* Only addresses of the local network have a row.
OnlyOnNet == \A x \in Rows : cache[x].ip \in OnNet \cup {NoIp}

\* What a valid row says is what was heard last.
RowsHeard ==
    \A x \in Rows :
        cache[x].ip # NoIp /\ cache[x].valid => cache[x].mac = heard[cache[x].ip]

IInv == TypeOK /\ RowsConsistent /\ UniqueIp /\ UniqueMac /\ OnlyOnNet /\ RowsHeard

USE EntriesAssumption, AgesAssumption, AddressesAssumption

----------------------------------------------------------------------------
(* The operations on the table *)

\* The part of the invariant that is about the table alone.
TableOK(c) ==
    /\ c \in [Rows -> Row]
    /\ \A x \in Rows :
        /\ c[x].age = 0 <=> c[x].ip = NoIp
        /\ c[x].ip # NoIp /\ ~c[x].valid => c[x].age <= MaxRetransmissions
        /\ c[x].ip \in OnNet \cup {NoIp}
    /\ \A x, y \in Rows : c[x].ip = c[y].ip /\ c[x].ip # NoIp => x = y
    /\ \A x, y \in Rows : c[x].mac = c[y].mac /\ c[x].mac # NoMac => x = y

\* The conjuncts of the invariant, gathered in one formula about the table.
LEMMA TableOfInv == IInv => TableOK(cache)
BY DEF IInv, TypeOK, RowsConsistent, UniqueIp, UniqueMac, OnlyOnNet, TableOK

\* Storing a pair of addresses leaves both unique, and its row valid.
LEMMA StoreHeardKeepsTable ==
    ASSUME TableOK(cache), NEW ip \in OnNet, NEW mac \in Macs, StoreHeard(ip, mac)
    PROVE  /\ TableOK(cache')
           /\ \A x \in Rows : \/ cache'[x] = cache[x] /\ cache[x].ip # ip
                              \/ cache'[x].ip = ip /\ cache'[x].mac = mac
                              \/ cache'[x].ip = NoIp
<1> DEFINE new == Known(ip, mac)
<1>1. PICK use \in Rows :
        /\ IF MacRows(ip, mac) # {} THEN IsLast(use, MacRows(ip, mac))
           ELSE IF IpRows(ip) # {} THEN IsLast(use, IpRows(ip))
           ELSE IsOldest(use)
        /\ cache' = [x \in Rows |->
               IF x = use THEN new
               ELSE IF MacRows(ip, mac) # {} /\ IsLast(x, IpRows(ip)) THEN FreeRow
               ELSE cache[x]]
  BY DEF StoreHeard
<1>2. new \in Row /\ FreeRow \in Row /\ ip # NoIp /\ mac # NoMac
  BY DEF Row, FreeRow, Known
<1>3. \A x \in Rows : \/ x = use /\ cache'[x] = new
                      \/ x # use /\ cache'[x] = FreeRow
                      \/ x # use /\ cache'[x] = cache[x]
  BY <1>1
<1>4. ASSUME NEW x \in Rows, x # use, cache[x].ip = ip
      PROVE  cache'[x] = FreeRow
  <2>1. IpRows(ip) = {x}
    BY <1>2, <1>4 DEF TableOK, IpRows
  <2>2. IsLast(x, IpRows(ip)) /\ ~IsLast(use, IpRows(ip))
    BY <2>1, <1>4 DEF IsLast, Rows
  <2>3. MacRows(ip, mac) # {}
    BY <1>1, <2>1, <2>2
  <2> QED BY <1>1, <1>4, <2>2, <2>3
<1>5. ASSUME NEW x \in Rows, x # use, cache[x].mac = mac
      PROVE  cache'[x] = FreeRow
  <2>1. CASE cache[x].ip = ip
    BY <2>1, <1>4, <1>5
  <2>2. CASE cache[x].ip # ip
    <3>1. MacRows(ip, mac) = {x}
      BY <2>2, <1>2, <1>5 DEF TableOK, MacRows
    <3> QED BY <3>1, <1>1, <1>5 DEF IsLast
  <2> QED BY <2>1, <2>2
<1>6. cache' \in [Rows -> Row]
  BY <1>1, <1>2 DEF TableOK
<1>7. \A x, y \in Rows : cache'[x].ip = cache'[y].ip /\ cache'[x].ip # NoIp => x = y
  BY <1>2, <1>3, <1>4 DEF TableOK, FreeRow, Known
<1>8. \A x, y \in Rows : cache'[x].mac = cache'[y].mac /\ cache'[x].mac # NoMac => x = y
  BY <1>2, <1>3, <1>5 DEF TableOK, FreeRow, Known
<1>9. \A x \in Rows :
        /\ cache'[x].age = 0 <=> cache'[x].ip = NoIp
        /\ cache'[x].ip # NoIp /\ ~cache'[x].valid => cache'[x].age <= MaxRetransmissions
        /\ cache'[x].ip \in OnNet \cup {NoIp}
  BY <1>2, <1>3 DEF TableOK, FreeRow, Known
<1>10. \A x \in Rows : \/ cache'[x] = cache[x] /\ cache[x].ip # ip
                       \/ cache'[x].ip = ip /\ cache'[x].mac = mac
                       \/ cache'[x].ip = NoIp
  BY <1>3, <1>4 DEF FreeRow, Known
<1> QED BY <1>6, <1>7, <1>8, <1>9, <1>10 DEF TableOK

\* So does hearing a pair, and no other row learns anything.
LEMMA RefreshHeardKeepsTable ==
    ASSUME TableOK(cache), NEW ip \in Ips, NEW mac \in Macs, RefreshHeard(ip, mac)
    PROVE  /\ TableOK(cache')
           /\ \A x \in Rows : \/ cache'[x] = cache[x] /\ cache[x].ip # ip
                              \/ cache'[x].ip = ip /\ cache'[x].mac = mac
                              \/ cache'[x].ip = NoIp
<1>1. CASE ip \notin OnNet
  BY <1>1 DEF RefreshHeard, TableOK
<1>2. CASE ip \in OnNet /\ \E x \in Rows : cache[x].ip = ip /\ cache[x].mac = mac
  <2>1. RefreshRow(ip, mac)
    BY <1>2 DEF RefreshHeard
  <2>2. PICK x \in Rows :
           /\ cache[x].ip = ip /\ cache[x].mac = mac
           /\ cache' = [cache EXCEPT ![x] = Known(ip, mac)]
    BY <2>1 DEF RefreshRow
  <2>3. ip # NoIp /\ cache \in [Rows -> Row] /\ Known(ip, mac) \in Row
    BY <1>2 DEF TableOK, Row, Known
  <2>4. \A y \in Rows \ {x} : cache'[y] = cache[y] /\ cache[y].ip # ip
    BY <2>2, <2>3 DEF TableOK
  <2>5. cache' \in [Rows -> Row] /\ cache'[x] = Known(ip, mac)
    BY <2>2, <2>3
  <2> QED BY <2>2, <2>3, <2>4, <2>5, <1>2 DEF TableOK, Known
<1>3. CASE ip \in OnNet /\ ~\E x \in Rows : cache[x].ip = ip /\ cache[x].mac = mac
  <2>1. StoreHeard(ip, mac)
    BY <1>3 DEF RefreshHeard
  <2> QED BY <2>1, <1>3, StoreHeardKeepsTable
<1> QED BY <1>1, <1>2, <1>3

\* A reserved row is not valid, whatever MAC address it still has.
LEMMA ReserveKeepsTable ==
    ASSUME TableOK(cache), NEW ip \in Ips, Reserve(ip)
    PROVE  /\ TableOK(cache')
           /\ \A x \in Rows : cache'[x] = cache[x] \/ ~cache'[x].valid
<1>1. CASE UNCHANGED cache
  BY <1>1 DEF TableOK
<1>2. CASE ~UNCHANGED cache
  <2>1. PICK use \in Rows :
           cache' = [cache EXCEPT ![use] = Pending(ip, cache[use].mac)]
    BY <1>2 DEF Reserve
  <2>2. ip \in OnNet /\ \A y \in Rows : cache[y].ip # ip
    BY <1>2 DEF Reserve, IpRows
  <2>3. ip # NoIp /\ cache \in [Rows -> Row] /\ Pending(ip, cache[use].mac) \in Row
    BY <2>2 DEF TableOK, Row, Pending
  <2>4. \A y \in Rows \ {use} : cache'[y] = cache[y]
    BY <2>1, <2>3
  <2>5. cache' \in [Rows -> Row] /\ cache'[use] = Pending(ip, cache[use].mac)
    BY <2>1, <2>3
  <2> QED BY <2>2, <2>3, <2>4, <2>5 DEF TableOK, Pending
<1> QED BY <1>1, <1>2

----------------------------------------------------------------------------
(* The invariant *)

LEMMA InvInit == Init => IInv
BY DEF Init, IInv, TypeOK, RowsConsistent, UniqueIp, UniqueMac, OnlyOnNet, RowsHeard,
       FreeRow, NoLookup, Row, Rows

\* The lookup's four results.
LEMMA LookupResultType ==
    ASSUME NEW ip \in Ips
    PROVE  LookupResult(ip) \in {"hit", "miss", "cantSend"}
BY DEF LookupResult

\* Every step keeps the invariant.
LEMMA InvNext == IInv /\ [Next]_vars => IInv'
<1> SUFFICES ASSUME IInv, [Next]_vars PROVE IInv'
  OBVIOUS
<1> USE DEF IInv
<1>0. TableOK(cache)
  BY TableOfInv
<1>1. ASSUME NEW ip \in Ips \ FixedMac, NEW mac \in Macs, Hear(ip, mac) PROVE IInv'
  <2>1. /\ TableOK(cache')
        /\ \A x \in Rows : \/ cache'[x] = cache[x] /\ cache[x].ip # ip
                           \/ cache'[x].ip = ip /\ cache'[x].mac = mac
                           \/ cache'[x].ip = NoIp
    BY <1>0, <1>1, RefreshHeardKeepsTable DEF Hear
  <2>2. heard' = [heard EXCEPT ![ip] = mac] /\ heard' \in [Ips -> Macs \cup {NoMac}]
    BY <1>1 DEF Hear, TypeOK
  <2>3. RowsHeard'
    BY <2>1, <2>2 DEF RowsHeard, TypeOK, TableOK, Row
  <2> QED BY <2>1, <2>2, <2>3, <1>1 DEF Hear, TypeOK, RowsConsistent, UniqueIp, UniqueMac,
            OnlyOnNet, TableOK, NoLookup
<1>2. ASSUME NEW ip \in Ips, Send(ip) PROVE IInv'
  <2>1. /\ TableOK(cache')
        /\ \A x \in Rows : cache'[x] = cache[x] \/ ~cache'[x].valid
        /\ asked' \subseteq Ips
    <3>1. CASE LookupResult(ip) = "miss"
      <4>1. NextHop(ip) \in Ips
        BY <3>1 DEF LookupResult, NextHop
      <4> QED BY <3>1, <4>1, <1>0, <1>2, ReserveKeepsTable DEF Send
    <3>2. CASE LookupResult(ip) # "miss"
      BY <3>2, <1>0, <1>2 DEF Send, TableOK
    <3> QED BY <3>1, <3>2
  <2>2. RowsHeard'
    BY <2>1, <1>2 DEF RowsHeard, Send
  <2>3. looked' \in [ip : Ips \cup {NoIp}, result : {"none", "hit", "miss", "cantSend"}]
    BY <1>2, LookupResultType DEF Send
  <2> QED BY <2>1, <2>2, <2>3, <1>2 DEF Send, TypeOK, RowsConsistent, UniqueIp, UniqueMac,
            OnlyOnNet, TableOK
<1>3. CASE AgeCache
  <2>0. ASSUME NEW r \in Row, r.age = 0 <=> r.ip = NoIp
        PROVE  /\ AgeRow(r) \in Row
               /\ AgeRow(r).mac = r.mac /\ AgeRow(r).valid = r.valid
               /\ AgeRow(r).ip \in {r.ip, NoIp}
               /\ AgeRow(r).age = 0 <=> AgeRow(r).ip = NoIp
               /\ AgeRow(r).age <= r.age
    BY <2>0 DEF AgeRow, Row
  <2>1. \A x \in Rows :
           /\ cache[x] \in Row /\ cache'[x] \in Row
           /\ cache'[x].mac = cache[x].mac /\ cache'[x].valid = cache[x].valid
           /\ cache'[x].ip \in {cache[x].ip, NoIp}
           /\ cache'[x].age = 0 <=> cache'[x].ip = NoIp
           /\ cache'[x].age <= cache[x].age
    <3>1. \A x \in Rows : cache[x] \in Row /\ cache'[x] = AgeRow(cache[x])
      BY <1>0, <1>3 DEF AgeCache, TableOK
    <3> QED BY <3>1, <2>0, <1>0 DEF TableOK
  <2>2. cache' \in [Rows -> Row]
    BY <2>1, <1>3 DEF AgeCache
  <2>3. asked' \subseteq Ips
    BY <1>0, <1>3 DEF AgeCache, AskAgain, TableOK, Row
  <2>4. TableOK(cache')
    BY <2>1, <2>2, <1>0 DEF TableOK, Row
  <2>5. RowsHeard'
    BY <2>1, <1>3 DEF RowsHeard, AgeCache
  <2> QED BY <2>3, <2>4, <2>5, <1>3 DEF AgeCache, TypeOK, RowsConsistent, UniqueIp, UniqueMac,
            OnlyOnNet, TableOK, NoLookup
<1>4. CASE GratuitousDue
  BY <1>4 DEF GratuitousDue, TypeOK, RowsConsistent, UniqueIp, UniqueMac, OnlyOnNet,
         RowsHeard, NoLookup
<1>5. CASE Clear
  BY <1>5 DEF Clear, TypeOK, RowsConsistent, UniqueIp, UniqueMac, OnlyOnNet, RowsHeard,
         NoLookup, FreeRow, Row
<1>6. CASE UNCHANGED vars
  BY <1>6 DEF vars, TypeOK, RowsConsistent, UniqueIp, UniqueMac, OnlyOnNet, RowsHeard
<1> QED BY <1>1, <1>2, <1>3, <1>4, <1>5, <1>6 DEF Next

----------------------------------------------------------------------------
(* The theorems *)

\* The invariant holds in every behaviour.
LEMMA Invariant == Spec => []IInv
BY InvInit, InvNext, PTL DEF Spec

\* Types: ages stay within their limits.
THEOREM TypeCorrect == Spec => []TypeOK
<1>1. IInv => TypeOK
  BY DEF IInv
<1> QED BY Invariant, <1>1, PTL

\* Rows are free exactly at age 0, and no ARP request asks for the address 0.
THEOREM ConsistentRows == Spec => []RowsConsistent
<1>1. IInv => RowsConsistent
  BY DEF IInv
<1> QED BY Invariant, <1>1, PTL

\* vARPRefreshCacheEntry never leaves two rows for an IP address,
THEOREM OneRowPerIp == Spec => []UniqueIp
<1>1. IInv => UniqueIp
  BY DEF IInv
<1> QED BY Invariant, <1>1, PTL

\* nor two rows for a MAC address.
THEOREM OneRowPerMac == Spec => []UniqueMac
<1>1. IInv => UniqueMac
  BY DEF IInv
<1> QED BY Invariant, <1>1, PTL

\* Both together.
THEOREM OneRowEach == Spec => []AddressesUnique
<1>1. IInv => AddressesUnique
  BY DEF IInv, AddressesUnique
<1> QED BY Invariant, <1>1, PTL

\* A lookup that hits returns what was heard last: a reused row never passes
\* its former owner's MAC address off as the new one's.
THEOREM HitsAreFresh == Spec => []HitIsLastHeard
<1>1. IInv => HitIsLastHeard
  <2> SUFFICES ASSUME IInv, NEW ip \in Ips \ FixedMac, LookupResult(ip) = "hit"
               PROVE  LookupMac(ip) = heard[NextHop(ip)]
    BY DEF HitIsLastHeard
  <2>1. IpRows(NextHop(ip)) # {} /\ NextHop(ip) # NoIp
    BY DEF LookupResult
  <2>2. PICK x \in Rows : IpRows(NextHop(ip)) = {x} /\ cache[x].ip = NextHop(ip)
    BY <2>1 DEF IInv, UniqueIp, IpRows
  <2>3. FirstRow(NextHop(ip)) = x
    BY <2>2 DEF FirstRow, Rows
  <2>4. cache[x].valid
    BY <2>1, <2>3 DEF LookupResult
  <2> QED BY <2>1, <2>2, <2>3, <2>4 DEF LookupMac, IInv, RowsHeard
<1> QED BY Invariant, <1>1, PTL

\* A row that knows a host loses it to an older need only: the row was the
\* oldest, the host's MAC address went to another one, the table was cleared,
\* or the row aged out after a last ARP request.
THEOREM ForgottenForAReason == Spec => HostsForgottenForAReason
<1> DEFINE Lost(x) == /\ cache[x].ip # NoIp /\ cache[x].valid
                      /\ \A y \in Rows : cache'[y].ip # cache[x].ip
           Excused(x) ==
             \/ IsOldest(x) /\ \E y \in Rows : cache'[y].ip # NoIp /\ cache[y].ip # cache'[y].ip
             \/ \E y \in Rows : cache'[y].mac = cache[x].mac /\ cache'[y].ip # NoIp
             \/ cache' = [y \in Rows |-> FreeRow]
             \/ cache[x].age = 1 /\ cache[x].ip \in asked'
<1>1. ASSUME IInv, Next, NEW x \in Rows, Lost(x) PROVE Excused(x)
  <2>0. cache \in [Rows -> Row]
    BY <1>1 DEF IInv, TypeOK
  <2>1. ~UNCHANGED cache
    BY <1>1
  <2>2. ASSUME NEW ip \in Ips \ FixedMac, NEW mac \in Macs, Hear(ip, mac) PROVE Excused(x)
    <3>1. RefreshHeard(ip, mac) /\ ip # NoIp
      BY <2>2 DEF Hear
    <3>2. CASE RefreshRow(ip, mac)
      <4>1. PICK r \in Rows : cache[r].ip = ip /\ cache' = [cache EXCEPT ![r] = Known(ip, mac)]
        BY <3>2 DEF RefreshRow
      <4>2. \A y \in Rows : cache'[y].ip = cache[y].ip
        BY <2>0, <4>1 DEF Known
      <4> QED BY <4>2, <1>1
    <3>3. CASE StoreHeard(ip, mac)
      <4>1. PICK use \in Rows :
              /\ IF MacRows(ip, mac) # {} THEN IsLast(use, MacRows(ip, mac))
                 ELSE IF IpRows(ip) # {} THEN IsLast(use, IpRows(ip))
                 ELSE IsOldest(use)
              /\ cache' = [y \in Rows |->
                     IF y = use THEN Known(ip, mac)
                     ELSE IF MacRows(ip, mac) # {} /\ IsLast(y, IpRows(ip)) THEN FreeRow
                     ELSE cache[y]]
        BY <3>3 DEF StoreHeard
      <4>2. cache'[use].ip = ip /\ cache'[use].mac = mac
        BY <4>1 DEF Known
      <4>3. x = use
        <5>1. cache[x].ip # ip
          BY <4>2, <1>1
        <5>2. ~IsLast(x, IpRows(ip))
          BY <5>1 DEF IsLast, IpRows
        <5> QED BY <4>1, <5>2, <1>1
      <4>4. CASE MacRows(ip, mac) # {}
        <5>1. cache[x].mac = mac
          BY <4>1, <4>3, <4>4 DEF IsLast, MacRows
        <5> QED BY <5>1, <4>2, <3>1
      <4>5. CASE MacRows(ip, mac) = {} /\ IpRows(ip) # {}
        <5>1. cache[x].ip = ip
          BY <4>1, <4>3, <4>5 DEF IsLast, IpRows
        <5> QED BY <5>1, <4>2, <1>1
      <4>6. CASE MacRows(ip, mac) = {} /\ IpRows(ip) = {}
        <5>1. IsOldest(x)
          BY <4>1, <4>3, <4>6
        <5>2. cache[use].ip # cache'[use].ip
          BY <4>2, <4>3, <1>1
        <5> QED BY <5>1, <5>2, <4>2, <3>1
      <4> QED BY <4>4, <4>5, <4>6
    <3> QED BY <3>1, <3>2, <3>3, <2>1 DEF RefreshHeard
  <2>3. ASSUME NEW ip \in Ips, Send(ip) PROVE Excused(x)
    <3>1. Reserve(NextHop(ip)) /\ NextHop(ip) \in OnNet
      BY <2>3, <2>1 DEF Send, Reserve
    <3>2. PICK use \in Rows :
            IsOldest(use) /\ cache' = [cache EXCEPT ![use] = Pending(NextHop(ip), cache[use].mac)]
      BY <3>1, <2>1 DEF Reserve
    <3>3. \A y \in Rows \ {use} : cache'[y] = cache[y]
      BY <2>0, <3>2
    <3>4. x = use /\ cache'[use].ip = NextHop(ip)
      BY <2>0, <3>2, <3>3, <1>1 DEF Pending
    <3> QED BY <3>1, <3>2, <3>4, <1>1
  <2>4. CASE AgeCache
    <3>1. cache'[x] = AgeRow(cache[x]) /\ cache[x] \in Row
      BY <2>4, <2>0, <1>1 DEF AgeCache
    <3>2. cache[x].age = 1
      BY <3>1, <1>1 DEF AgeRow
    <3>3. AskAgain(cache[x])
      BY <3>2 DEF AskAgain
    <3> QED BY <2>4, <3>2, <3>3, <1>1 DEF AgeCache
  <2>5. CASE Clear
    BY <2>5 DEF Clear
  <2>6. ~GratuitousDue
    BY <2>1 DEF GratuitousDue
  <2> QED BY <1>1, <2>2, <2>3, <2>4, <2>5, <2>6 DEF Next
<1>2. IInv /\ [Next]_vars => [ForgetsForAReason]_vars
  BY <1>1 DEF ForgetsForAReason
<1> QED BY <1>2, Invariant, PTL DEF Spec, HostsForgottenForAReason
=============================================================================
