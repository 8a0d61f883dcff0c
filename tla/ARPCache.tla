------------------------------ MODULE ARPCache ------------------------------
(***************************************************************************)
(* The ARP cache of FreeRTOS_ARP.c as the IP task uses it: a table of rows *)
(* that map an IP address to a MAC address, age, and are reused.  A row    *)
(* that is not valid stands for an ARP request whose answer is awaited.    *)
(*                                                                         *)
(* The module is built as ipconfigARP_STORES_REMOTE_ADDRESSES == 0 builds  *)
(* the code: only addresses of the local network are stored.               *)
(***************************************************************************)
EXTENDS Integers

CONSTANTS
    Entries,      \* ipconfigARP_CACHE_ENTRIES
    MaxAge,       \* ipconfigMAX_ARP_AGE
    MaxRetransmissions,  \* ipconfigMAX_ARP_RETRANSMISSIONS
    AskAge,       \* arpMAX_ARP_AGE_BEFORE_NEW_ARP_REQUEST
    Ips, Macs,    \* the addresses of the hosts, this one included
    NoIp, NoMac,  \* the zeros of an unused row
    LocalIp,      \* *ipLOCAL_IP_ADDRESS_POINTER
    Gateway,      \* ulGatewayAddress, or NoIp
    OnNet,        \* the addresses that match the local address and netmask
    FixedMac      \* broadcast and LLMNR addresses: their MAC is no cache matter

ASSUME EntriesAssumption == Entries \in Nat \ {0}
ASSUME AgesAssumption ==
    /\ MaxAge \in Nat /\ AskAge \in Nat
    /\ MaxRetransmissions \in 1..MaxAge
ASSUME AddressesAssumption ==
    /\ NoIp \notin Ips /\ NoMac \notin Macs
    /\ OnNet \subseteq Ips /\ FixedMac \subseteq Ips
    /\ LocalIp \in OnNet /\ Gateway \in Ips \cup {NoIp}

VARIABLES
    cache,       \* xARPCache
    asked,       \* addresses the last step tried to send an ARP request for
    gratuitous,  \* a gratuitous ARP is due: xLastGratuitousARPTime is 0 or old
    heard,       \* the MAC address last heard to belong to an IP address
    looked       \* the lookup of the last step, if any, and its result

vars == <<cache, asked, gratuitous, heard, looked>>

Rows == 0..Entries - 1

Row == [ip : Ips \cup {NoIp}, mac : Macs \cup {NoMac}, age : 0..MaxAge, valid : BOOLEAN]

NoLookup == [ip |-> NoIp, result |-> "none"]

FreeRow == [ip |-> NoIp, mac |-> NoMac, age |-> 0, valid |-> FALSE]

Init ==
    /\ cache = [x \in Rows |-> FreeRow]
    /\ asked = {}
    /\ gratuitous = TRUE
    /\ heard = [ip \in Ips |-> NoMac]
    /\ looked = NoLookup

----------------------------------------------------------------------------
(* vARPRefreshCacheEntry *)

Known(ip, mac) == [ip |-> ip, mac |-> mac, age |-> MaxAge, valid |-> TRUE]

Pending(ip, mac) == [ip |-> ip, mac |-> mac, age |-> MaxRetransmissions, valid |-> FALSE]

IpRows(ip) == {x \in Rows : cache[x].ip = ip}

\* Mutant of MacRows: the MAC address of an expired row is overlooked.
MutMacRowsUsed(ip, mac) ==
    {x \in Rows : cache[x].mac = mac /\ cache[x].ip \notin {ip, NoIp}}

\* Rows of another address with this MAC, the one of an expired row included
MacRows(ip, mac) == {x \in Rows : cache[x].mac = mac /\ cache[x].ip # ip}

\* The loop keeps the last match it sees.
IsLast(x, S) == x \in S /\ \A y \in S : y <= x

\* The row of the lowest age, the first of them
IsOldest(x) ==
    \A y \in Rows :
        \/ cache[x].age < cache[y].age
        \/ cache[x].age = cache[y].age /\ x <= y

\* Mutant of StoreHeard: the row that held the IP address is not cleared.
MutStoreHeardKeeps(ip, mac) ==
    \E use \in Rows :
        /\ IF MacRows(ip, mac) # {} THEN IsLast(use, MacRows(ip, mac))
           ELSE IF IpRows(ip) # {} THEN IsLast(use, IpRows(ip))
           ELSE IsOldest(use)
        /\ cache' = [cache EXCEPT ![use] = Known(ip, mac)]

\* Neither row matches both addresses: the row of the MAC address is taken
\* over and the one of the IP address cleared, or the latter is rewritten, or
\* the oldest row is replaced.
StoreHeard(ip, mac) ==
    \E use \in Rows :
        /\ IF MacRows(ip, mac) # {} THEN IsLast(use, MacRows(ip, mac))
           ELSE IF IpRows(ip) # {} THEN IsLast(use, IpRows(ip))
           ELSE IsOldest(use)
        /\ cache' = [x \in Rows |->
               IF x = use
               THEN Known(ip, mac)
               ELSE IF MacRows(ip, mac) # {} /\ IsLast(x, IpRows(ip)) THEN FreeRow
               ELSE cache[x]]

\* A row of both addresses is refreshed: the early return.
RefreshRow(ip, mac) ==
    \E x \in Rows :
        /\ cache[x].ip = ip /\ cache[x].mac = mac
        /\ \A y \in Rows : cache[y].ip = ip /\ cache[y].mac = mac => x <= y
        /\ cache' = [cache EXCEPT ![x] = Known(ip, mac)]

RefreshHeard(ip, mac) ==
    IF ip \notin OnNet THEN UNCHANGED cache
    ELSE IF \E x \in Rows : cache[x].ip = ip /\ cache[x].mac = mac
         THEN RefreshRow(ip, mac)
         ELSE StoreHeard(ip, mac)

\* Mutant of Reserve: the row keeps its ucValid.
MutReserveValid(ip) ==
    IF ip \notin OnNet \/ IpRows(ip) # {} THEN UNCHANGED cache
    ELSE \E use \in Rows :
            /\ IsOldest(use)
            /\ cache' = [cache EXCEPT ![use] = [@ EXCEPT !.ip = ip, !.age = MaxRetransmissions]]

\* With a NULL MAC address: reserve a row for the answer, if there is none.
\* The MAC address of the row's former owner stays in it.
Reserve(ip) ==
    IF ip \notin OnNet \/ IpRows(ip) # {} THEN UNCHANGED cache
    ELSE \E use \in Rows :
            /\ IsOldest(use)
            /\ cache' = [cache EXCEPT ![use] = Pending(ip, @.mac)]

----------------------------------------------------------------------------
(* eARPGetCacheEntry and prvCacheLookup *)

\* The address whose row decides: the host's own or the gateway's
NextHop(ip) == IF ip \in OnNet THEN ip ELSE Gateway

FirstRow(ip) == CHOOSE x \in IpRows(ip) : \A y \in IpRows(ip) : x <= y

LookupResult(ip) ==
    IF ip \in FixedMac THEN "hit"
    ELSE IF NextHop(ip) = NoIp THEN "cantSend"
    ELSE IF IpRows(NextHop(ip)) = {} THEN "miss"
    ELSE IF cache[FirstRow(NextHop(ip))].valid THEN "hit"
    ELSE "cantSend"

\* The MAC address that a hit of an address without a fixed one copies
LookupMac(ip) == cache[FirstRow(NextHop(ip))].mac

----------------------------------------------------------------------------
(* The handlers that use the cache *)

\* A received ARP request for this host, ARP reply or UDP packet tells where
\* its sender is.
Hear(ip, mac) ==
    /\ RefreshHeard(ip, mac)
    /\ heard' = [heard EXCEPT ![ip] = mac]
    /\ asked' = {}
    /\ looked' = NoLookup
    /\ UNCHANGED gratuitous

\* A UDP packet is to be sent: on a miss the packet becomes an ARP request and
\* a row awaits the answer.
Send(ip) ==
    /\ looked' = [ip |-> ip, result |-> LookupResult(ip)]
    /\ IF LookupResult(ip) = "miss"
       THEN Reserve(NextHop(ip)) /\ asked' = {NextHop(ip)}
       ELSE UNCHANGED cache /\ asked' = {}
    /\ UNCHANGED <<gratuitous, heard>>

\* Mutant of AgeRow: a row that awaits its answer does not age.
MutAgeRowValidOnly(r) ==
    IF r.age = 0 \/ ~r.valid THEN r
    ELSE [r EXCEPT !.age = r.age - 1, !.ip = IF r.age = 1 THEN NoIp ELSE r.ip]

\* Mutant of AgeRow: the age of a free row is decremented too.
MutAgeRowFree(r) == [r EXCEPT !.age = r.age - 1, !.ip = IF r.age = 1 THEN NoIp ELSE r.ip]

AgeRow(r) ==
    [ip |-> IF r.age = 1 THEN NoIp ELSE r.ip, mac |-> r.mac,
     age |-> IF r.age = 0 THEN 0 ELSE r.age - 1, valid |-> r.valid]

\* Mutant of AskAgain: a row is asked about only while it is not valid.
MutAskPendingOnly(r) == r.age > 0 /\ ~r.valid

AskAgain(r) == r.age > 0 /\ (r.valid => r.age - 1 <= AskAge)

\* vARPAgeCache, on each eARPTimerEvent
AgeCache ==
    /\ cache' = [x \in Rows |-> AgeRow(cache[x])]
    /\ asked' = {cache[x].ip : x \in {y \in Rows : AskAgain(cache[y])}}
                    \cup (IF gratuitous THEN {LocalIp} ELSE {})
    /\ gratuitous' = FALSE
    /\ looked' = NoLookup
    /\ UNCHANGED heard

\* The gratuitous ARP falls due, by time or by vARPSendGratuitous.
GratuitousDue ==
    /\ ~gratuitous
    /\ gratuitous' = TRUE
    /\ asked' = {}
    /\ looked' = NoLookup
    /\ UNCHANGED <<cache, heard>>

\* FreeRTOS_ClearARP
Clear ==
    /\ cache' = [x \in Rows |-> FreeRow]
    /\ asked' = {}
    /\ looked' = NoLookup
    /\ UNCHANGED <<gratuitous, heard>>

Next ==
    \/ \E ip \in Ips \ FixedMac, mac \in Macs : Hear(ip, mac)
    \/ \E ip \in Ips : Send(ip)
    \/ AgeCache
    \/ GratuitousDue
    \/ Clear

Spec == Init /\ [][Next]_vars

\* The ARP timer keeps firing.
FairSpec == Spec /\ WF_vars(AgeCache)

----------------------------------------------------------------------------
(* Properties *)

\* Ages stay within their limits and addresses are addresses.
TypeOK ==
    /\ cache \in [Rows -> Row]
    /\ asked \subseteq Ips \cup {NoIp}
    /\ gratuitous \in BOOLEAN
    /\ heard \in [Ips -> Macs \cup {NoMac}]
    /\ looked \in [ip : Ips \cup {NoIp}, result : {"none", "hit", "miss", "cantSend"}]

\* A row is free exactly when its age is 0, a row that awaits its answer is
\* retried no more than the configured number of times, and so no ARP request
\* ever asks for the address 0.
RowsConsistent ==
    /\ \A x \in Rows :
        /\ cache[x].age = 0 <=> cache[x].ip = NoIp
        /\ cache[x].ip # NoIp /\ ~cache[x].valid => cache[x].age <= MaxRetransmissions
    /\ NoIp \notin asked

\* Whatever addresses hosts take over from each other, an IP address has one
\* row, so that the first match of a lookup is the only one,
UniqueIp ==
    \A x, y \in Rows : cache[x].ip = cache[y].ip /\ cache[x].ip # NoIp => x = y

\* and so has a MAC address: also the one left in an expired or reserved row.
UniqueMac ==
    \A x, y \in Rows :
        cache[x].mac = cache[y].mac /\ cache[x].mac # NoMac => x = y

\* Both together: the one pass over the table finds all there is to clear,
\* whichever of two matching rows comes first.
AddressesUnique == UniqueIp /\ UniqueMac

\* A packet is never sent to a MAC address other than the one its next hop was
\* last heard to have: neither a host that moved nor the former owner of a
\* reused row gets it.
HitIsLastHeard ==
    \A ip \in Ips \ FixedMac :
        LookupResult(ip) = "hit" => LookupMac(ip) = heard[NextHop(ip)]

\* A known host is forgotten only because its row was the oldest and is
\* needed, its MAC address went to another host, the table was cleared, or it
\* aged out and an ARP request for it was tried then at the latest.
ForgetsForAReason ==
    \A x \in Rows :
        cache[x].ip # NoIp /\ cache[x].valid /\ (\A y \in Rows : cache'[y].ip # cache[x].ip) =>
            \/ IsOldest(x)
                 /\ \E y \in Rows : cache'[y].ip # NoIp /\ cache[y].ip # cache'[y].ip
            \/ \E y \in Rows : cache'[y].mac = cache[x].mac /\ cache'[y].ip # NoIp
            \/ cache' = [y \in Rows |-> FreeRow]
            \/ cache[x].age = 1 /\ cache[x].ip \in asked'
HostsForgottenForAReason == [][ForgetsForAReason]_vars

\* An ARP request does not stay outstanding for ever: the row becomes valid or
\* is given up, so that a later packet asks again.
PendingResolves ==
    \A ip \in OnNet :
        (\E x \in Rows : cache[x].ip = ip /\ ~cache[x].valid) ~>
            ~(\E x \in Rows : cache[x].ip = ip /\ ~cache[x].valid)

=============================================================================
