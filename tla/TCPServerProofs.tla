--------------------------- MODULE TCPServerProofs ---------------------------
(***************************************************************************)
(* For any numbers of clients, children and places in the queue: while the *)
(* user keeps the listening socket open, children are counted exactly,     *)
(* each has one owner, and no pointer outlives its socket.                 *)
(***************************************************************************)
EXTENDS TCPServer, FiniteSetTheorems, TLAPS

States == Handshaking \cup Connected \cup Lasting \cup {"free"}

Users == owned \cup ({taken} \ {None})

EventSet == {Event(t, s) : t \in {"accept", "close"}, s \in Sockets}

\* The types of what decides who owns a socket.
CoreTypes ==
    /\ state \in [Sockets -> States]
    /\ peerSocket \in [Sockets -> Sockets \cup {None}]
    /\ passQueued \subseteq Children /\ passAccept \subseteq Children
    /\ events \in Seq(EventSet)
    /\ acceptBit \in BOOLEAN
    /\ user \in {"idle", "accept", "ask", "wait"}
    /\ taken \in Children \cup {None}
    /\ owned \subseteq Sockets

OtherTypes ==
    /\ remote \in [Sockets -> Clients \cup {None}]
    /\ fin \in [Sockets -> SUBSET {"sent", "recv", "acked", "last", "shutdown"}]
    /\ answers \in [Clients -> SUBSET {"SYNACK", "FINACK"}]

\* An orphan is not connected and has its parent; a child to be accepted is
\* past the handshake; the listener's next client is one of these.
Passing ==
    /\ \A s \in passQueued :
        state[s] \in {"SYN_RECEIVED", "CLOSE_WAIT", "CLOSED"} /\ peerSocket[s] = Listener
    /\ \A s \in passAccept : state[s] \notin {"free", "SYN_RECEIVED"}
    /\ peerSocket[Listener] \in passAccept \cup {None}
    /\ passQueued \cap passAccept = {}

\* The queue names live sockets, each of them to be closed once at most and
\* by nobody else; an orphan among them was reset.
EventsOK ==
    /\ \A i \in 1..Len(events) :
        /\ events[i].type = "accept" => events[i].socket = Listener
        /\ events[i].type = "close" =>
              events[i].socket \in Children /\ state[events[i].socket] # "free"
    /\ \A i, j \in 1..Len(events) : i # j /\ events[i].type = "close" => events[i] # events[j]
    /\ \A s \in Closing : s \in passQueued => state[s] = "CLOSED"
    /\ Closing \cap (Users \cup passAccept) = {}

\* The user holds the listener and live sockets that are not passed any more.
UsersOK ==
    /\ state[Listener] = "LISTEN" /\ Listener \in owned
    /\ \A s \in Users : state[s] # "free"
    /\ Users \cap (passQueued \cup passAccept) = {}
    /\ taken # None <=> user = "ask"

\* Every live child has an owner, and is counted.
Owned == Live \cap Children \subseteq passQueued \cup passAccept \cup Users \cup Closing

Counted == children = Cardinality(Live \cap Children) /\ children <= Backlog

Core == CoreTypes /\ Passing /\ EventsOK /\ UsersOK /\ Owned

IInv == Core /\ Counted /\ OtherTypes

USE SocketsAssumption, SizesAssumption

----------------------------------------------------------------------------
(* The queue *)

\* Appending an event.
LEMMA AppendEvent ==
  ASSUME events \in Seq(EventSet), NEW e \in EventSet, events' = Append(events, e)
  PROVE  /\ events' \in Seq(EventSet)
         /\ Len(events') = Len(events) + 1
         /\ \A i \in 1..Len(events) : events'[i] = events[i]
         /\ events'[Len(events) + 1] = e
         /\ \A s \in Sockets : s \in Closing' <=> s \in Closing \/ e = Event("close", s)
<1>1. /\ events' \in Seq(EventSet)
      /\ Len(events') = Len(events) + 1
      /\ \A i \in 1..Len(events) : events'[i] = events[i]
      /\ events'[Len(events) + 1] = e
  OBVIOUS
<1>2. Len(events) \in Nat
  OBVIOUS
<1>3. \A i \in 1..Len(events') : i \in 1..Len(events) \/ i = Len(events) + 1
  BY <1>1, <1>2
<1>4. \A i \in 1..Len(events) : i \in 1..Len(events')
  BY <1>1, <1>2
<1>5. Len(events) + 1 \in 1..Len(events')
  BY <1>1, <1>2
<1>6. ASSUME NEW s \in Sockets
      PROVE  s \in Closing' <=> s \in Closing \/ e = Event("close", s)
  BY <1>1, <1>3, <1>4, <1>5 DEF Closing
<1> QED BY <1>1, <1>6

\* Removing its head.
LEMMA TailEvent ==
  ASSUME events \in Seq(EventSet), events # <<>>, events' = Tail(events)
  PROVE  /\ events' \in Seq(EventSet)
         /\ Len(events) = Len(events') + 1
         /\ Head(events) = events[1] /\ 1 \in 1..Len(events)
         /\ \A i \in 1..Len(events') : events'[i] = events[i + 1] /\ i + 1 \in 1..Len(events)
         /\ \A i \in 1..Len(events) : i # 1 => i - 1 \in 1..Len(events') /\ events'[i - 1] = events[i]
<1>1. /\ events' \in Seq(EventSet)
      /\ Len(events) = Len(events') + 1
      /\ Head(events) = events[1]
      /\ \A i \in 1..Len(events') : events'[i] = events[i + 1]
  OBVIOUS
<1>2. Len(events') \in Nat
  BY <1>1
<1>3. /\ 1 \in 1..Len(events)
      /\ \A i \in 1..Len(events') : i + 1 \in 1..Len(events)
  BY <1>1, <1>2
<1>4. ASSUME NEW i \in 1..Len(events), i # 1
      PROVE  i - 1 \in 1..Len(events') /\ events'[i - 1] = events[i]
  <2>1. i - 1 \in 1..Len(events') /\ (i - 1) + 1 = i
    BY <1>1, <1>2, <1>4
  <2> QED BY <2>1, <1>1
<1> QED BY <1>1, <1>3, <1>4

----------------------------------------------------------------------------
(* Steps that change a state *)

\* A child in an active state changes its state and keeps its memory.
LEMMA StepState ==
  ASSUME Core, NEW s \in Children,
         state[s] \in Handshaking \cup Connected,
         NEW new \in Connected \cup {"CLOSED", "CLOSE_WAIT"},
         StateChange(s, new), UNCHANGED task
  PROVE  Core'
<1> USE DEF Core
<1>0. /\ s # Listener /\ s \in Sockets /\ Listener \in Sockets /\ s # None /\ Listener # None
      /\ state' = [state EXCEPT ![s] = new] /\ new \in States /\ new # "free"
      /\ state[s] # "free"
      /\ UNCHANGED <<user, taken, owned>> /\ Users' = Users
  BY DEF Sockets, StateChange, States, Lasting, Connected, Handshaking, task, Users
<1>1. state' \in [Sockets -> States] /\ state'[Listener] = state[Listener] /\ state'[s] = new
      /\ \A x \in Sockets : x # s => state'[x] = state[x]
  BY <1>0 DEF CoreTypes
<1>2. Live' = Live
  BY <1>0, <1>1 DEF Live
<1>3. UsersOK /\ Passing /\ EventsOK /\ Owned /\ CoreTypes
  OBVIOUS
<1>4. CASE Connect(s, new)
  <2>1. peerSocket[s] = Listener /\ s \in passQueued /\ state[s] = "SYN_RECEIVED"
    BY <1>4, <1>3 DEF Connect, Passing, Connected, Handshaking
  <2>2. /\ peerSocket' \in [Sockets -> Sockets \cup {None}]
        /\ peerSocket'[Listener] = IF peerSocket[Listener] = None THEN s ELSE peerSocket[Listener]
        /\ \A x \in Sockets \ {s, Listener} : peerSocket'[x] = peerSocket[x]
    BY <1>4, <2>1, <1>0, <1>3 DEF Connect, CoreTypes
  <2>3. /\ passQueued' = passQueued \ {s} /\ passAccept' = passAccept \cup {s}
        /\ acceptBit' = TRUE /\ events' = events /\ Closing' = Closing
    BY <1>4 DEF Connect, Closing
  <2>4. s \notin Closing /\ s \notin Users /\ s \notin passAccept
    BY <2>1, <1>3 DEF EventsOK, UsersOK, Passing
  <2>5. CoreTypes'
    BY <1>0, <1>1, <2>2, <2>3, <1>3 DEF CoreTypes
  <2>6. Passing'
    <3>1. new \in Connected
      BY <1>4 DEF Connect
    <3>2. \A x \in passQueued' :
             /\ state'[x] \in {"SYN_RECEIVED", "CLOSE_WAIT", "CLOSED"}
             /\ peerSocket'[x] = Listener
      BY <1>0, <1>1, <2>2, <2>3, <1>3 DEF Passing, CoreTypes, Sockets
    <3>3. \A x \in passAccept' : state'[x] \notin {"free", "SYN_RECEIVED"}
      BY <1>0, <1>1, <2>3, <3>1, <1>3 DEF Passing, CoreTypes, Sockets, Connected
    <3> QED BY <3>2, <3>3, <2>2, <2>3, <2>4, <1>3 DEF Passing
  <2>7. EventsOK'
    <3>1. \A i \in 1..Len(events) : events[i].type = "close" => state'[events[i].socket] # "free"
      BY <1>1, <1>0, <1>3 DEF EventsOK, Sockets
    <3>2. \A x \in Closing' : x \in passQueued' => state'[x] = "CLOSED"
      BY <1>1, <2>3, <1>3 DEF EventsOK, CoreTypes, Sockets
    <3> QED BY <3>1, <3>2, <2>3, <2>4, <1>0, <1>3 DEF EventsOK
  <2>8. UsersOK'
    <3>1. \A x \in Users' : state'[x] # "free"
      BY <1>0, <1>1, <1>3 DEF UsersOK, CoreTypes, Users, Sockets
    <3> QED BY <3>1, <2>3, <2>4, <1>0, <1>1, <1>3 DEF UsersOK
  <2>9. Owned'
    BY <1>2, <1>0, <2>3, <1>3 DEF Owned
  <2> QED BY <2>5, <2>6, <2>7, <2>8, <2>9
<1>5. CASE Abandon(s, new)
  <2>1. s \in passQueued /\ state[s] = "SYN_RECEIVED" /\ new = "CLOSED"
    BY <1>5, <1>3 DEF Abandon, Passing, Connected, Handshaking
  <2>2. UNCHANGED <<peerSocket, passQueued, passAccept, acceptBit>>
    BY <1>5 DEF Abandon, passing
  <2>3. s \notin Closing /\ s \notin Users /\ s \notin passAccept
    BY <2>1, <1>3 DEF EventsOK, UsersOK, Passing
  <2>4. Passing'
    BY <1>0, <1>1, <2>1, <2>2, <1>3 DEF Passing, CoreTypes, Sockets
  <2>5. UsersOK'
    <3>1. \A x \in Users' : state'[x] # "free"
      BY <1>0, <1>1, <1>3 DEF UsersOK, CoreTypes, Users, Sockets
    <3> QED BY <3>1, <2>2, <1>0, <1>1, <1>3 DEF UsersOK
  <2>6. CASE events' = events
    <3>1. CoreTypes' /\ Closing' = Closing
      BY <1>0, <1>1, <2>2, <2>6, <1>3 DEF CoreTypes, Closing
    <3>2. EventsOK'
      <4>1. \A i \in 1..Len(events) : events[i].type = "close" => state'[events[i].socket] # "free"
        BY <1>1, <1>0, <1>3 DEF EventsOK, Sockets
      <4>2. \A x \in Closing' : x \in passQueued' => state'[x] = "CLOSED"
        BY <1>1, <2>1, <2>2, <3>1, <1>3 DEF EventsOK, CoreTypes, Sockets
      <4> QED BY <4>1, <4>2, <3>1, <2>6, <2>2, <1>0, <1>3 DEF EventsOK
    <3>3. Owned'
      BY <1>2, <1>0, <2>2, <3>1, <1>3 DEF Owned
    <3> QED BY <2>4, <2>5, <3>1, <3>2, <3>3
  <2>7. CASE events' = Append(events, Event("close", s))
    <3> DEFINE e == Event("close", s)
    <3>1. events \in Seq(EventSet) /\ e \in EventSet /\ e.type = "close" /\ e.socket = s
      BY <1>0, <1>3 DEF CoreTypes, EventSet, Event
    <3>2. /\ events' \in Seq(EventSet)
          /\ Len(events') = Len(events) + 1
          /\ \A i \in 1..Len(events) : events'[i] = events[i]
          /\ events'[Len(events) + 1] = e
          /\ \A x \in Sockets : x \in Closing' <=> x \in Closing \/ e = Event("close", x)
      BY <3>1, <2>7, AppendEvent
    <3>3. \A x \in Sockets : x \in Closing' <=> x \in Closing \/ x = s
      BY <3>2, <1>0 DEF Event
    <3>4. CoreTypes'
      BY <1>0, <1>1, <2>2, <3>2, <1>3 DEF CoreTypes, EventSet
    <3>5. \A i \in 1..Len(events) : events[i] # e
      BY <2>3, <1>0 DEF Closing
    <3>6. Len(events) \in Nat /\ \A i \in 1..Len(events') : i \in 1..Len(events) \/ i = Len(events) + 1
      BY <3>1, <3>2
    <3>7. EventsOK'
      <4>1. ASSUME NEW i \in 1..Len(events')
            PROVE  /\ events'[i].type = "accept" => events'[i].socket = Listener
                   /\ events'[i].type = "close" =>
                        events'[i].socket \in Children /\ state'[events'[i].socket] # "free"
        <5>1. CASE i = Len(events) + 1
          BY <5>1, <3>1, <3>2, <1>0, <1>1
        <5>2. CASE i \in 1..Len(events)
          <6>1. events'[i] = events[i]
            BY <5>2, <3>2
          <6> QED BY <6>1, <5>2, <1>0, <1>1, <1>3 DEF EventsOK, Sockets
        <5> QED BY <5>1, <5>2, <3>6
      <4>2. ASSUME NEW i \in 1..Len(events'), NEW j \in 1..Len(events'), i # j,
                   events'[i].type = "close"
            PROVE  events'[i] # events'[j]
        BY <4>2, <3>2, <3>5, <3>6, <1>3 DEF EventsOK
      <4>3. \A x \in Closing' : x \in passQueued' => state'[x] = "CLOSED"
        BY <1>0, <1>1, <2>1, <2>2, <3>3, <1>3 DEF EventsOK, Closing
      <4>4. Closing' \cap (Users' \cup passAccept') = {}
        BY <2>2, <2>3, <3>3, <1>0, <1>3 DEF EventsOK, Closing
      <4> QED BY <4>1, <4>2, <4>3, <4>4 DEF EventsOK
    <3>8. Owned'
      BY <1>2, <1>0, <2>2, <3>3, <1>3 DEF Owned, Sockets
    <3> QED BY <2>4, <2>5, <3>4, <3>7, <3>8
  <2> QED BY <1>5, <2>6, <2>7 DEF Abandon
<1>6. CASE /\ ~(s \in passQueued /\ state[s] \notin Connected /\ new \in Connected)
           /\ ~(state[s] \notin Connected /\ new = "CLOSED" /\ s \in passQueued \cup passAccept)
           /\ UNCHANGED <<passing, events>>
  <2>1. UNCHANGED <<peerSocket, passQueued, passAccept, acceptBit, events>> /\ Closing' = Closing
    BY <1>6 DEF passing, Closing
  <2>2. s \in passQueued => new = "CLOSE_WAIT" /\ state[s] = "SYN_RECEIVED"
    BY <1>6, <1>3 DEF Passing, Connected, Handshaking
  <2>3. new # "SYN_RECEIVED"
    BY DEF Connected
  <2>4. CoreTypes'
    BY <1>0, <1>1, <2>1, <1>3 DEF CoreTypes
  <2>5. Passing'
    BY <1>0, <1>1, <2>1, <2>2, <2>3, <1>3 DEF Passing, CoreTypes, Sockets
  <2>6. EventsOK'
    <3>1. \A i \in 1..Len(events) : events[i].type = "close" => state'[events[i].socket] # "free"
      BY <1>1, <1>0, <1>3 DEF EventsOK, Sockets
    <3>2. \A x \in Closing' : x \in passQueued' => state'[x] = "CLOSED"
      BY <1>1, <2>1, <2>2, <1>3 DEF EventsOK, CoreTypes, Sockets
    <3> QED BY <3>1, <3>2, <2>1, <1>0, <1>3 DEF EventsOK
  <2>7. UsersOK'
    <3>1. \A x \in Users' : state'[x] # "free"
      BY <1>0, <1>1, <1>3 DEF UsersOK, CoreTypes, Users, Sockets
    <3> QED BY <3>1, <2>1, <1>0, <1>1, <1>3 DEF UsersOK
  <2>8. Owned'
    BY <1>2, <1>0, <2>1, <1>3 DEF Owned
  <2> QED BY <2>4, <2>5, <2>6, <2>7, <2>8
<1> QED BY <1>4, <1>5, <1>6 DEF StateChange

----------------------------------------------------------------------------
(* Steps that free a child *)

\* The memory of a child is freed, whose close event was the next, or about
\* which there is none.
LEMMA StepFree ==
  ASSUME Core, NEW s \in Children, Free(s), UNCHANGED task,
         state[s] # "free", s \notin Users, s \notin passAccept,
         events' \in Seq(EventSet),
         \A i \in 1..Len(events') : \E j \in 1..Len(events) : events'[i] = events[j],
         \A i, j \in 1..Len(events') :
             i # j /\ events'[i].type = "close" => events'[i] # events'[j],
         \A x \in Sockets : x \in Closing' <=> x \in Closing /\ x # s
  PROVE  Core'
<1> USE DEF Core
<1>0. /\ s # Listener /\ s \in Sockets /\ Listener \in Sockets /\ s # None /\ Listener # None
      /\ state' = [state EXCEPT ![s] = "free"]
      /\ UNCHANGED <<user, taken, owned, peerSocket, acceptBit>> /\ Users' = Users
      /\ passQueued' = passQueued \ {s} /\ passAccept' = passAccept \ {s}
  BY DEF Sockets, Free, task, Users
<1>1. /\ state' \in [Sockets -> States] /\ state'[Listener] = state[Listener]
      /\ \A x \in Sockets : x # s => state'[x] = state[x]
  BY <1>0 DEF CoreTypes, States
<1>2. Live' = Live \ {s}
  BY <1>0, <1>1 DEF Live, CoreTypes
<1>3. UsersOK /\ Passing /\ EventsOK /\ Owned /\ CoreTypes
  OBVIOUS
<1>4. CoreTypes'
  BY <1>0, <1>1, <1>3 DEF CoreTypes, EventSet
<1>5. Passing'
  BY <1>0, <1>1, <1>3 DEF Passing, CoreTypes, Sockets
<1>6. UsersOK'
  <2>1. \A x \in Users' : x \in Sockets /\ x # s /\ state[x] # "free"
    BY <1>0, <1>3 DEF UsersOK, CoreTypes, Users, Sockets
  <2> QED BY <2>1, <1>0, <1>1, <1>3 DEF UsersOK
<1>7. EventsOK'
  <2>1. ASSUME NEW i \in 1..Len(events')
        PROVE  /\ events'[i].type = "accept" => events'[i].socket = Listener
               /\ events'[i].type = "close" =>
                    events'[i].socket \in Children /\ state'[events'[i].socket] # "free"
    <3>1. PICK j \in 1..Len(events) : events'[i] = events[j]
      OBVIOUS
    <3>2. events[j] \in EventSet
      BY <1>3 DEF CoreTypes, EventSet
    <3>3. CASE events[j].type = "close"
      <4>1. events[j].socket \in Children /\ state[events[j].socket] # "free"
        BY <3>3, <1>3 DEF EventsOK
      <4>2. events[j].socket \in Closing /\ events[j].socket \in Closing'
        BY <3>1, <3>2, <3>3, <4>1 DEF Closing, EventSet, Event, Sockets
      <4>3. events[j].socket # s
        BY <4>2, <1>0
      <4> QED BY <3>1, <3>3, <4>1, <4>3, <1>1 DEF Sockets
    <3>4. CASE events[j].type = "accept"
      BY <3>1, <3>4, <1>3 DEF EventsOK
    <3> QED BY <3>1, <3>2, <3>3, <3>4 DEF EventSet, Event
  <2>2. \A x \in Closing' : x \in Closing /\ x # s /\ x \in Sockets
    BY DEF Closing
  <2>3. \A x \in Closing' : x \in passQueued' => state'[x] = "CLOSED"
    BY <2>2, <1>0, <1>1, <1>3 DEF EventsOK
  <2>4. Closing' \cap (Users' \cup passAccept') = {}
    BY <2>2, <1>0, <1>3 DEF EventsOK
  <2> QED BY <2>1, <2>3, <2>4 DEF EventsOK
<1>8. Owned'
  BY <1>0, <1>2, <1>3 DEF Owned, Sockets
<1> QED BY <1>4, <1>5, <1>6, <1>7, <1>8

\* The anti-hang protection deletes an orphan.
LEMMA StepOrphan ==
  ASSUME Core, NEW s \in Children, s \in passQueued, state[s] = "SYN_RECEIVED",
         Free(s), UNCHANGED events, UNCHANGED task
  PROVE  Core'
<1>1. state[s] # "free" /\ s \notin Users /\ s \notin passAccept /\ s \notin Closing
  BY DEF Core, UsersOK, Passing, EventsOK
<1>2. /\ events' \in Seq(EventSet)
      /\ \A i \in 1..Len(events') : \E j \in 1..Len(events) : events'[i] = events[j]
      /\ \A i, j \in 1..Len(events') :
            i # j /\ events'[i].type = "close" => events'[i] # events'[j]
  BY DEF Core, CoreTypes, EventSet, EventsOK
<1>3. \A x \in Sockets : x \in Closing' <=> x \in Closing /\ x # s
  BY <1>1 DEF Closing
<1> QED BY <1>1, <1>2, <1>3, StepFree

\* The IP task handles a close event.
LEMMA StepCloseEvent ==
  ASSUME Core, CloseEvent
  PROVE  /\ Core' /\ Head(events).socket \in Children /\ state[Head(events).socket] # "free"
<1> DEFINE s == Head(events).socket
<1>0. events \in Seq(EventSet) /\ events # <<>> /\ events' = Tail(events)
  BY DEF Core, CoreTypes, CloseEvent, EventSet
<1>1. /\ events' \in Seq(EventSet)
      /\ Len(events) = Len(events') + 1
      /\ Head(events) = events[1] /\ 1 \in 1..Len(events)
      /\ \A i \in 1..Len(events') : events'[i] = events[i + 1] /\ i + 1 \in 1..Len(events)
      /\ \A i \in 1..Len(events) :
            i # 1 => i - 1 \in 1..Len(events') /\ events'[i - 1] = events[i]
  BY <1>0, TailEvent
<1>2. events[1].type = "close" /\ events[1] \in EventSet
  BY <1>0, <1>1 DEF CloseEvent
<1>3. s \in Children /\ state[s] # "free"
  BY <1>1, <1>2 DEF Core, EventsOK
<1>4. events[1] = Event("close", s) /\ s \in Sockets
  BY <1>1, <1>2, <1>3 DEF Event, EventSet, Sockets
<1>5. s \in Closing
  BY <1>1, <1>4 DEF Closing
<1>6. s \notin Users /\ s \notin passAccept
  BY <1>5 DEF Core, EventsOK
<1>7. ASSUME NEW i \in 1..Len(events'), NEW j \in 1..Len(events'), i # j,
             events'[i].type = "close"
      PROVE  events'[i] # events'[j]
  <2>1. i + 1 # j + 1 /\ i + 1 \in 1..Len(events) /\ j + 1 \in 1..Len(events)
        /\ events'[i] = events[i + 1] /\ events'[j] = events[j + 1]
    BY <1>1, <1>7
  <2> QED BY <2>1, <1>7 DEF Core, EventsOK
<1>8. ASSUME NEW x \in Sockets
      PROVE  x \in Closing' <=> x \in Closing /\ x # s
  <2>1. ASSUME x \in Closing' PROVE x \in Closing /\ x # s
    <3>1. PICK i \in 1..Len(events') : events'[i] = Event("close", x)
      BY <2>1 DEF Closing
    <3>2. i + 1 \in 1..Len(events) /\ events[i + 1] = Event("close", x) /\ i + 1 # 1
      BY <1>1, <3>1
    <3>3. events[i + 1] # events[1]
      BY <3>2, <1>1 DEF Core, EventsOK, Event
    <3> QED BY <3>2, <3>3, <1>4 DEF Closing
  <2>2. ASSUME x \in Closing, x # s PROVE x \in Closing'
    <3>1. PICK i \in 1..Len(events) : events[i] = Event("close", x)
      BY <2>2 DEF Closing
    <3>2. i # 1
      BY <3>1, <2>2, <1>4 DEF Event
    <3> QED BY <3>1, <3>2, <1>1 DEF Closing
  <2> QED BY <2>1, <2>2
<1>9. Free(s) /\ UNCHANGED task
  BY DEF CloseEvent, task
<1>10. \A i \in 1..Len(events') : \E j \in 1..Len(events) : events'[i] = events[j]
  BY <1>1
<1> HIDE DEF s
<1>11. \A i, j \in 1..Len(events') :
          i # j /\ events'[i].type = "close" => events'[i] # events'[j]
  BY <1>7
<1>12. \A x \in Sockets : x \in Closing' <=> x \in Closing /\ x # s
  BY <1>8
<1>13. events' \in Seq(EventSet)
  BY <1>1
<1>14. Core'
  BY <1>3, <1>6, <1>9, <1>10, <1>11, <1>12, <1>13, StepFree
<1> QED BY <1>3, <1>14 DEF s

----------------------------------------------------------------------------
(* Steps that create a child, and those of the user *)

\* A new child is an orphan in the handshake.
LEMMA StepListen ==
  ASSUME Core, NEW c \in Clients, NEW s \in Children \ Live,
         state' = [state EXCEPT ![s] = "SYN_RECEIVED"],
         peerSocket' = [peerSocket EXCEPT ![s] = Listener],
         passQueued' = passQueued \cup {s},
         UNCHANGED <<passAccept, acceptBit, events, task>>
  PROVE  Core'
<1> USE DEF Core
<1>0. /\ s # Listener /\ s \in Sockets /\ Listener \in Sockets /\ state[s] = "free"
      /\ UNCHANGED <<user, taken, owned>> /\ Users' = Users /\ Closing' = Closing
  BY DEF Sockets, Live, task, Users, Closing
<1>1. /\ state' \in [Sockets -> States] /\ state'[Listener] = state[Listener]
      /\ state'[s] = "SYN_RECEIVED"
      /\ \A x \in Sockets : x # s => state'[x] = state[x]
      /\ peerSocket' \in [Sockets -> Sockets \cup {None}]
      /\ \A x \in Sockets : x # s => peerSocket'[x] = peerSocket[x]
      /\ peerSocket'[s] = Listener
  BY <1>0 DEF CoreTypes, States, Handshaking
<1>2. Live' = Live \cup {s}
  BY <1>0, <1>1 DEF Live, CoreTypes
<1>3. UsersOK /\ Passing /\ EventsOK /\ Owned /\ CoreTypes
  OBVIOUS
<1>4. s \notin Users /\ s \notin passAccept /\ s \notin passQueued
  BY <1>0, <1>3 DEF UsersOK, Passing
<1>5. s \notin Closing
  <2>1. \A i \in 1..Len(events) : events[i] # Event("close", s)
    BY <1>0, <1>3 DEF EventsOK, Event
  <2> QED BY <2>1 DEF Closing
<1>6. CoreTypes'
  BY <1>0, <1>1, <1>3 DEF CoreTypes
<1>7. Passing'
  BY <1>0, <1>1, <1>3, <1>4 DEF Passing, CoreTypes, Sockets
<1>8. EventsOK'
  <2>1. \A i \in 1..Len(events) : events[i].type = "close" => state'[events[i].socket] # "free"
    BY <1>1, <1>0, <1>3 DEF EventsOK, Sockets
  <2>2. \A x \in Closing' : x \in passQueued' => state'[x] = "CLOSED"
    BY <1>0, <1>1, <1>3, <1>5 DEF EventsOK, CoreTypes, Sockets
  <2> QED BY <2>1, <2>2, <1>0, <1>3 DEF EventsOK
<1>9. UsersOK'
  <2>1. \A x \in Users' : state'[x] # "free"
    BY <1>0, <1>1, <1>3, <1>4 DEF UsersOK, CoreTypes, Users, Sockets
  <2> QED BY <2>1, <1>0, <1>1, <1>3, <1>4 DEF UsersOK
<1>10. Owned'
  BY <1>2, <1>0, <1>3 DEF Owned
<1> QED BY <1>6, <1>7, <1>8, <1>9, <1>10

\* accept takes the listener's next client.
LEMMA StepTake ==
  ASSUME Core, Take
  PROVE  Core'
<1> USE DEF Core
<1> DEFINE s == peerSocket[Listener]
           fresh == s # None /\ s \in passAccept
<1>0. /\ Listener \in Sockets /\ UNCHANGED <<state, passQueued, acceptBit, events, owned>>
      /\ Closing' = Closing /\ Live' = Live /\ taken = None /\ Users = owned
      /\ s \in passAccept \cup {None}
      /\ peerSocket' = [peerSocket EXCEPT ![Listener] = None]
      /\ passAccept' = IF fresh THEN passAccept \ {s} ELSE passAccept
      /\ taken' = IF fresh THEN s ELSE None
      /\ user' = IF fresh THEN "ask" ELSE "wait"
  BY DEF Sockets, Live, Users, Closing, Take, UsersOK, Passing, sockets
<1>1. UsersOK /\ Passing /\ EventsOK /\ Owned /\ CoreTypes
  OBVIOUS
<1>2. /\ peerSocket' \in [Sockets -> Sockets \cup {None}] /\ peerSocket'[Listener] = None
      /\ \A x \in Sockets : x # Listener => peerSocket'[x] = peerSocket[x]
  BY <1>0, <1>1 DEF CoreTypes
<1>3. /\ Users' = IF fresh THEN owned \cup {s} ELSE owned
      /\ fresh => s \in Children /\ s # None /\ s \notin passQueued
                  /\ state[s] \notin {"free", "SYN_RECEIVED"} /\ s \notin Closing
  BY <1>0, <1>1 DEF Users, CoreTypes, Passing, EventsOK, Sockets
<1> HIDE DEF s, fresh
<1>4. fresh \in BOOLEAN /\ (fresh => s \in passAccept)
  BY DEF fresh
<1>5. CoreTypes'
  BY <1>0, <1>1, <1>2, <1>3 DEF CoreTypes
<1>6. Passing'
  BY <1>0, <1>1, <1>2 DEF Passing, CoreTypes, Sockets
<1>7. EventsOK'
  BY <1>0, <1>1, <1>3 DEF EventsOK
<1>8. UsersOK'
  <2>1. Users' \cap (passQueued' \cup passAccept') = {}
    BY <1>0, <1>1, <1>3, <1>4 DEF UsersOK
  <2>2. \A x \in Users' : state'[x] # "free"
    BY <1>0, <1>1, <1>3 DEF UsersOK
  <2>3. taken' # None <=> user' = "ask"
    BY <1>0, <1>3
  <2> QED BY <2>1, <2>2, <2>3, <1>0, <1>1 DEF UsersOK
<1>9. Owned'
  BY <1>0, <1>1, <1>3, <1>4 DEF Owned
<1> QED BY <1>5, <1>6, <1>7, <1>8, <1>9

\* accept asks for the next client and returns this one.
LEMMA StepAsk ==
  ASSUME Core, Ask
  PROVE  Core'
<1> USE DEF Core
<1> DEFINE e == Event("accept", Listener)
<1>0. /\ UNCHANGED <<state, peerSocket, passQueued, passAccept, acceptBit>>
      /\ events' = Append(events, e) /\ Live' = Live
      /\ owned' = owned \cup {taken} /\ taken' = None /\ user' = "idle"
      /\ taken # None /\ taken \in Children /\ Users' = Users
      /\ events \in Seq(EventSet) /\ e \in EventSet /\ e.type = "accept" /\ e.socket = Listener
  BY DEF Ask, sockets, passing, Live, Users, UsersOK, CoreTypes, EventSet, Event, Sockets
<1>1. UsersOK /\ Passing /\ EventsOK /\ Owned /\ CoreTypes
  OBVIOUS
<1>2. /\ events' \in Seq(EventSet)
      /\ Len(events') = Len(events) + 1
      /\ \A i \in 1..Len(events) : events'[i] = events[i]
      /\ events'[Len(events) + 1] = e
      /\ \A x \in Sockets : x \in Closing' <=> x \in Closing \/ e = Event("close", x)
  BY <1>0, AppendEvent
<1>3. Closing' = Closing
  BY <1>2 DEF Event, Closing
<1>4. Len(events) \in Nat /\ \A i \in 1..Len(events') : i \in 1..Len(events) \/ i = Len(events) + 1
  BY <1>0, <1>2
<1>5. CoreTypes'
  BY <1>0, <1>1, <1>2 DEF CoreTypes, EventSet, Sockets
<1>6. EventsOK'
  <2>1. ASSUME NEW i \in 1..Len(events')
        PROVE  /\ events'[i].type = "accept" => events'[i].socket = Listener
               /\ events'[i].type = "close" =>
                    events'[i].socket \in Children /\ state'[events'[i].socket] # "free"
    BY <1>0, <1>1, <1>2, <1>4 DEF EventsOK
  <2>2. ASSUME NEW i \in 1..Len(events'), NEW j \in 1..Len(events'), i # j,
               events'[i].type = "close"
        PROVE  events'[i] # events'[j]
    BY <2>2, <1>0, <1>1, <1>2, <1>4 DEF EventsOK
  <2>3. \A x \in Closing' : x \in passQueued' => state'[x] = "CLOSED"
    BY <1>0, <1>1, <1>3 DEF EventsOK
  <2> QED BY <2>1, <2>2, <2>3, <1>0, <1>1, <1>3 DEF EventsOK
<1>7. UsersOK'
  BY <1>0, <1>1 DEF UsersOK
<1>8. Owned'
  BY <1>0, <1>1, <1>3 DEF Owned
<1>9. Passing'
  BY <1>0, <1>1 DEF Passing
<1> QED BY <1>5, <1>6, <1>7, <1>8, <1>9

\* The user closes a child.
LEMMA StepClose ==
  ASSUME Core, NEW s \in Sockets, ListenerStays, Close(s)
  PROVE  Core'
<1> USE DEF Core
<1> DEFINE e == Event("close", s)
<1>0. /\ UNCHANGED <<state, peerSocket, passQueued, passAccept, acceptBit, user, taken>>
      /\ s \in Children /\ s # Listener /\ s \in Users /\ state[s] # "free"
      /\ events' = Append(events, e) /\ Live' = Live
      /\ owned' = owned \ {s} /\ taken = None /\ Users' = Users \ {s} /\ Users = owned
      /\ events \in Seq(EventSet) /\ e \in EventSet /\ e.type = "close" /\ e.socket = s
  BY DEF Close, sockets, passing, Live, Users, UsersOK, CoreTypes, EventSet, Event, Sockets
<1>1. UsersOK /\ Passing /\ EventsOK /\ Owned /\ CoreTypes
  OBVIOUS
<1>2. /\ events' \in Seq(EventSet)
      /\ Len(events') = Len(events) + 1
      /\ \A i \in 1..Len(events) : events'[i] = events[i]
      /\ events'[Len(events) + 1] = e
      /\ \A x \in Sockets : x \in Closing' <=> x \in Closing \/ e = Event("close", x)
  BY <1>0, AppendEvent
<1>3. \A x \in Sockets : x \in Closing' <=> x \in Closing \/ x = s
  BY <1>2 DEF Event
<1>4. Len(events) \in Nat /\ \A i \in 1..Len(events') : i \in 1..Len(events) \/ i = Len(events) + 1
  BY <1>0, <1>2
<1>5. s \notin Closing /\ s \notin passQueued /\ s \notin passAccept
  BY <1>0, <1>1 DEF EventsOK, UsersOK
<1>6. \A i \in 1..Len(events) : events[i] # e
  BY <1>5 DEF Closing
<1>7. CoreTypes'
  BY <1>0, <1>1, <1>2 DEF CoreTypes, EventSet
<1>8. EventsOK'
  <2>1. ASSUME NEW i \in 1..Len(events')
        PROVE  /\ events'[i].type = "accept" => events'[i].socket = Listener
               /\ events'[i].type = "close" =>
                    events'[i].socket \in Children /\ state'[events'[i].socket] # "free"
    <3>1. CASE i = Len(events) + 1
      BY <3>1, <1>0, <1>2
    <3>2. CASE i \in 1..Len(events)
      BY <3>2, <1>0, <1>1, <1>2 DEF EventsOK
    <3> QED BY <3>1, <3>2, <1>4
  <2>2. ASSUME NEW i \in 1..Len(events'), NEW j \in 1..Len(events'), i # j,
               events'[i].type = "close"
        PROVE  events'[i] # events'[j]
    BY <2>2, <1>1, <1>2, <1>4, <1>6 DEF EventsOK
  <2>3. \A x \in Closing' : x \in Sockets /\ (x \in Closing \/ x = s)
    BY <1>3 DEF Closing
  <2>4. \A x \in Closing' : x \in passQueued' => state'[x] = "CLOSED"
    BY <2>3, <1>0, <1>1, <1>5 DEF EventsOK
  <2>5. Closing' \cap (Users' \cup passAccept') = {}
    BY <2>3, <1>0, <1>1, <1>5 DEF EventsOK
  <2> QED BY <2>1, <2>2, <2>4, <2>5 DEF EventsOK
<1>9. UsersOK'
  BY <1>0, <1>1 DEF UsersOK
<1>10. Owned'
  BY <1>0, <1>1, <1>3 DEF Owned, Sockets
<1>11. Passing'
  BY <1>0, <1>1 DEF Passing
<1> QED BY <1>7, <1>8, <1>9, <1>10, <1>11

\* The IP task looks for a client on the user's behalf.
LEMMA StepCheckNewClient ==
  ASSUME Core, CheckNewClient
  PROVE  Core'
<1> USE DEF Core
<1>0. /\ events \in Seq(EventSet) /\ events # <<>> /\ events' = Tail(events)
      /\ UNCHANGED <<state, passQueued, passAccept, user, taken, owned>>
      /\ Users' = Users /\ Live' = Live /\ Listener \in Sockets
      /\ Head(events) = Event("accept", Listener)
  BY DEF CheckNewClient, CoreTypes, EventSet, sockets, passing, task, Users, Live, Sockets
<1>1. UsersOK /\ Passing /\ EventsOK /\ Owned /\ CoreTypes
  OBVIOUS
<1>2. /\ events' \in Seq(EventSet)
      /\ Len(events) = Len(events') + 1
      /\ Head(events) = events[1] /\ 1 \in 1..Len(events)
      /\ \A i \in 1..Len(events') : events'[i] = events[i + 1] /\ i + 1 \in 1..Len(events)
      /\ \A i \in 1..Len(events) :
            i # 1 => i - 1 \in 1..Len(events') /\ events'[i - 1] = events[i]
  BY <1>0, TailEvent
<1>3. Closing' = Closing
  <2>1. ASSUME NEW x \in Sockets, x \in Closing PROVE x \in Closing'
    <3>1. PICK i \in 1..Len(events) : events[i] = Event("close", x)
      BY <2>1 DEF Closing
    <3>2. i # 1
      BY <3>1, <1>0, <1>2 DEF Event
    <3> QED BY <3>1, <3>2, <1>2 DEF Closing
  <2>2. ASSUME NEW x \in Sockets, x \in Closing' PROVE x \in Closing
    BY <2>2, <1>2 DEF Closing
  <2> QED BY <2>1, <2>2 DEF Closing
<1>4. /\ peerSocket' \in [Sockets -> Sockets \cup {None}] /\ acceptBit' \in BOOLEAN
      /\ peerSocket'[Listener] \in passAccept \cup {None}
      /\ \A x \in Sockets : x # Listener => peerSocket'[x] = peerSocket[x]
  <2>1. CASE passAccept = {}
    BY <2>1, <1>1 DEF CheckNewClient, CoreTypes, Passing, passing
  <2>2. CASE passAccept # {}
    <3>1. PICK s \in passAccept : peerSocket' = [peerSocket EXCEPT ![Listener] = s]
      BY <2>2 DEF CheckNewClient
    <3>2. acceptBit' = TRUE
      BY <2>2 DEF CheckNewClient
    <3> QED BY <3>1, <3>2, <1>0, <1>1 DEF CoreTypes, Sockets
  <2> QED BY <2>1, <2>2
<1>5. CoreTypes'
  BY <1>0, <1>1, <1>2, <1>4 DEF CoreTypes, EventSet
<1>6. Passing'
  BY <1>0, <1>1, <1>4 DEF Passing, CoreTypes, Sockets
<1>7. EventsOK'
  <2>1. ASSUME NEW i \in 1..Len(events')
        PROVE  /\ events'[i].type = "accept" => events'[i].socket = Listener
               /\ events'[i].type = "close" =>
                    events'[i].socket \in Children /\ state'[events'[i].socket] # "free"
    BY <1>0, <1>1, <1>2 DEF EventsOK
  <2>2. ASSUME NEW i \in 1..Len(events'), NEW j \in 1..Len(events'), i # j,
               events'[i].type = "close"
        PROVE  events'[i] # events'[j]
    <3>1. i + 1 # j + 1 /\ i + 1 \in 1..Len(events) /\ j + 1 \in 1..Len(events)
          /\ events'[i] = events[i + 1] /\ events'[j] = events[j + 1]
      BY <1>2, <2>2
    <3> QED BY <3>1, <2>2, <1>1 DEF EventsOK
  <2> QED BY <2>1, <2>2, <1>0, <1>1, <1>3 DEF EventsOK
<1>8. UsersOK'
  BY <1>0, <1>1 DEF UsersOK
<1>9. Owned'
  BY <1>0, <1>1, <1>3 DEF Owned
<1> QED BY <1>5, <1>6, <1>7, <1>8, <1>9

\* The other steps of the user's task change what decides about ownership
\* only by where the task is.
LEMMA StepUser ==
  ASSUME Core, UNCHANGED <<state, peerSocket, passQueued, passAccept, events, taken, owned>>,
         acceptBit' \in BOOLEAN,
         user' = user \/ (user \in {"idle", "wait"} /\ user' \in {"idle", "accept"})
  PROVE  Core'
<1>1. Users' = Users /\ Closing' = Closing /\ Live' = Live
  BY DEF Users, Closing, Live
<1> QED BY <1>1 DEF Core, CoreTypes, Passing, EventsOK, UsersOK, Owned

----------------------------------------------------------------------------
(* The count *)

\* A live child less is a child counted off; what is live is counted.
LEMMA CountFreed ==
  ASSUME Core, Counted, NEW s \in Children, Free(s), state[s] # "free"
  PROVE  Counted'
<1> DEFINE kids == Live \cap Children
<1>1. s \in kids /\ IsFiniteSet(kids)
  BY FS_Subset DEF Live, Sockets
<1>2. Cardinality(kids) \in Nat /\ Cardinality(kids \ {s}) \in Nat
      /\ Cardinality(kids \ {s}) = Cardinality(kids) - 1
  BY <1>1, FS_RemoveElement, FS_CardinalityType
<1>3. kids' = kids \ {s}
  BY DEF Free, Live, Core, CoreTypes, Sockets
<1>4. state[Listener] = "LISTEN"
  BY DEF Core, UsersOK
<1>5. children' = IF children > 0 THEN children - 1 ELSE children
  BY <1>4 DEF Free
<1> HIDE DEF kids
<1>6. children = Cardinality(kids) /\ children <= Backlog
  BY DEF Counted, kids
<1>7. children' = Cardinality(kids') /\ children' <= Backlog
  BY <1>2, <1>3, <1>5, <1>6
<1> QED BY <1>7 DEF Counted, kids

\* A new child is counted.
LEMMA CountListen ==
  ASSUME Core, Counted, NEW s \in Children \ Live,
         state' = [state EXCEPT ![s] = "SYN_RECEIVED"],
         children < Backlog, children' = children + 1
  PROVE  Counted'
<1> DEFINE kids == Live \cap Children
<1>1. s \notin kids /\ IsFiniteSet(kids)
  BY FS_Subset
<1>2. Cardinality(kids) \in Nat /\ Cardinality(kids \cup {s}) = Cardinality(kids) + 1
  BY <1>1, FS_AddElement, FS_CardinalityType
<1>3. kids' = kids \cup {s}
  BY DEF Live, Core, CoreTypes, Sockets
<1> HIDE DEF kids
<1>4. children = Cardinality(kids)
  BY DEF Counted, kids
<1>5. children' = Cardinality(kids') /\ children' <= Backlog
  BY <1>2, <1>3, <1>4
<1> QED BY <1>5 DEF Counted, kids

\* The others leave both alone.
LEMMA CountSame ==
  ASSUME Core, Counted, UNCHANGED children,
         \A s \in Children : (state'[s] = "free") <=> (state[s] = "free")
  PROVE  Counted'
<1>1. Live' \cap Children = Live \cap Children
  BY DEF Live, Sockets
<1> QED BY <1>1 DEF Counted

----------------------------------------------------------------------------
(* The invariant *)

\* No child at first.
LEMMA InvInit == Init => IInv
<1> SUFFICES ASSUME Init PROVE IInv
  OBVIOUS
<1> USE DEF Init
<1>0. events \in Seq(EventSet) /\ Len(events) = 0 /\ 1..0 = {} /\ Listener \in Sockets
  BY DEF Sockets
<1>1. CoreTypes /\ OtherTypes
  <2>1. state \in [Sockets -> States]
    BY DEF States, Lasting
  <2>2. peerSocket \in [Sockets -> Sockets \cup {None}]
    OBVIOUS
  <2>3. CoreTypes
    BY <1>0, <2>1, <2>2 DEF CoreTypes
  <2>4. OtherTypes
    BY DEF OtherTypes
  <2> QED BY <2>3, <2>4
<1>6. Passing
  BY <1>0 DEF Passing
<1>2. Closing = {} /\ Live = {Listener} /\ Users = {Listener}
  BY <1>0 DEF Closing, Live, Users, Sockets
<1>3. EventsOK /\ UsersOK /\ Owned
  BY <1>0, <1>2 DEF EventsOK, UsersOK, Owned
<1>4. Live \cap Children = {}
  BY <1>2
<1>5. Counted
  <2>1. Cardinality(Live \cap Children) = 0
    BY <1>4, FS_EmptySet
  <2> QED BY <2>1 DEF Counted
<1> QED BY <1>1, <1>3, <1>5, <1>6 DEF IInv, Core

\* A step that only changes the state of a child keeps everything.
LEMMA StateKeeps ==
  ASSUME Core, Counted, OtherTypes, NEW s \in Children,
         state[s] \in Handshaking \cup Connected,
         NEW new \in Connected \cup {"CLOSED", "CLOSE_WAIT"},
         StateChange(s, new), UNCHANGED <<task, children>>, OtherTypes'
  PROVE  IInv'
<1>1. Core'
  BY StepState
<1>2. \A x \in Children : (state'[x] = "free") <=> (state[x] = "free")
  BY DEF StateChange, Core, CoreTypes, Sockets, Handshaking, Connected
<1>3. Counted'
  BY <1>2, CountSame
<1> QED BY <1>1, <1>3 DEF IInv

\* prvTCPHandleFin does.
LEMMA HandleFinKeeps ==
  ASSUME IInv, NEW s \in Children, state[s] \in Connected,
         NEW f \in SUBSET {"sent", "recv", "acked", "last", "shutdown"},
         NEW acked \in BOOLEAN, HandleFin(s, f, acked)
  PROVE  IInv'
<1> DEFINE all == IF "sent" \notin f THEN f \cup {"sent"}
                  ELSE IF acked THEN f \cup {"acked"} ELSE f
<1>1. all \subseteq {"sent", "recv", "acked", "last", "shutdown"}
      /\ fin' = [fin EXCEPT ![s] = all] /\ UNCHANGED <<remote, children, task>>
  BY DEF HandleFin
<1>2. /\ fin' \in [Sockets -> SUBSET {"sent", "recv", "acked", "last", "shutdown"}]
      /\ remote' \in [Sockets -> Clients \cup {None}]
      /\ answers \in [Clients -> SUBSET {"SYNACK", "FINACK"}]
  BY <1>1 DEF IInv, OtherTypes
<1>3. CASE StateChange(s, "LAST_ACK")
           /\ answers' = [answers EXCEPT ![remote[s]] = @ \cup {"FINACK"}]
  <2>1. OtherTypes'
    BY <1>2, <1>3 DEF OtherTypes
  <2> QED BY <2>1, <1>1, <1>3, StateKeeps DEF IInv, Connected
<1>4. CASE StateChange(s, "CLOSE_WAIT") /\ UNCHANGED answers
  <2>1. OtherTypes'
    BY <1>2, <1>4 DEF OtherTypes
  <2> QED BY <2>1, <1>1, <1>4, StateKeeps DEF IInv
<1>5. CASE UNCHANGED <<state, passing, events, answers>>
  <2>1. OtherTypes'
    BY <1>2, <1>5 DEF OtherTypes
  <2>2. Core'
    BY <1>1, <1>5, StepUser DEF IInv, Core, CoreTypes, passing, task
  <2>3. Counted'
    BY <1>1, <1>5, CountSame DEF IInv
  <2> QED BY <2>1, <2>2, <2>3 DEF IInv
<1> QED BY <1>3, <1>4, <1>5 DEF HandleFin

\* Every packet a client may send keeps the invariant.
LEMMA PacketKeeps ==
  ASSUME IInv, NEW s \in Children, Packet(s)
  PROVE  IInv'
<1>0. /\ Core /\ Counted /\ OtherTypes
      /\ fin[s] \in SUBSET {"sent", "recv", "acked", "last", "shutdown"}
      /\ Noted(s) \in SUBSET {"sent", "recv", "acked", "last", "shutdown"}
  BY DEF IInv, OtherTypes, Noted, Sockets
<1>1. CASE HandshakeAck(s)
  <2>1. OtherTypes' /\ StateChange(s, "ESTABLISHED") /\ UNCHANGED <<task, children>>
    BY <1>0, <1>1 DEF HandshakeAck, OtherTypes
  <2> QED BY <2>1, <1>0, <1>1, StateKeeps DEF HandshakeAck, Handshaking, Connected
<1>2. CASE HandshakeFails(s)
  <2>1. OtherTypes' /\ StateChange(s, "CLOSE_WAIT") /\ UNCHANGED <<task, children>>
    BY <1>0, <1>2 DEF HandshakeFails, OtherTypes
  <2> QED BY <2>1, <1>0, <1>2, StateKeeps DEF HandshakeFails, Handshaking
<1>3. CASE Reset(s)
  <2>1. OtherTypes' /\ StateChange(s, "CLOSED") /\ UNCHANGED <<task, children>>
    BY <1>0, <1>3 DEF Reset, OtherTypes
  <2> QED BY <2>1, <1>0, <1>3, StateKeeps DEF Reset
<1>4. ASSUME NEW complete \in BOOLEAN, FinArrives(s, complete) PROVE IInv'
  <2>1. CASE complete
    BY <2>1, <1>0, <1>4, HandleFinKeeps DEF FinArrives, Connected
  <2>2. CASE ~complete
    <3>1. fin' = [fin EXCEPT ![s] = Noted(s)]
          /\ UNCHANGED <<state, remote, children, passing, events, task, answers>>
      BY <2>2, <1>4 DEF FinArrives
    <3>2. OtherTypes'
      BY <3>1, <1>0 DEF OtherTypes
    <3>3. Core'
      BY <3>1, <1>0, StepUser DEF Core, CoreTypes, passing, task
    <3>4. Counted'
      BY <3>1, <1>0, CountSame
    <3> QED BY <3>2, <3>3, <3>4 DEF IInv
  <2> QED BY <2>1, <2>2
<1>5. ASSUME NEW isFin \in BOOLEAN, NEW acked \in BOOLEAN, ClosingPacket(s, isFin, acked)
      PROVE  IInv'
  <2>1. state[s] \in Connected
    BY <1>5 DEF ClosingPacket, Connected
  <2>2. CASE isFin
    BY <2>1, <2>2, <1>0, <1>5, HandleFinKeeps DEF ClosingPacket
  <2>3. CASE ~isFin
    BY <2>1, <2>3, <1>0, <1>5, HandleFinKeeps DEF ClosingPacket
  <2> QED BY <2>2, <2>3
<1> QED BY <1>1, <1>2, <1>3, <1>4, <1>5 DEF Packet

\* So do the timers.
LEMMA TimerKeeps ==
  ASSUME IInv, NEW s \in Children, Timer(s)
  PROVE  IInv'
<1>0. Core /\ Counted /\ OtherTypes
  BY DEF IInv
<1>1. CASE SendFin(s)
  <2>1. OtherTypes' /\ StateChange(s, "FIN_WAIT_1") /\ UNCHANGED <<task, children>>
    BY <1>0, <1>1 DEF SendFin, OtherTypes
  <2> QED BY <2>1, <1>0, <1>1, StateKeeps DEF SendFin, Connected
<1>2. CASE KeepAliveFails(s)
  <2>1. OtherTypes' /\ StateChange(s, "CLOSE_WAIT") /\ UNCHANGED <<task, children>>
    BY <1>0, <1>2 DEF KeepAliveFails, OtherTypes
  <2> QED BY <2>1, <1>0, <1>2, StateKeeps DEF KeepAliveFails, Connected
<1>3. CASE AgeCheck(s)
  <2>1. CASE s \in passQueued
    <3>1. Free(s) /\ UNCHANGED events /\ UNCHANGED task /\ UNCHANGED answers
      BY <1>3, <2>1 DEF AgeCheck
    <3>2. state[s] = "SYN_RECEIVED"
      BY <1>3, <2>1, <1>0 DEF AgeCheck, Core, Passing, Lasting
    <3>3. Core' /\ Counted'
      BY <3>1, <3>2, <2>1, <1>0, StepOrphan, CountFreed
    <3>4. OtherTypes'
      BY <3>1, <1>0 DEF Free, OtherTypes
    <3> QED BY <3>3, <3>4 DEF IInv
  <2>2. CASE s \notin passQueued
    <3>1. OtherTypes' /\ StateChange(s, "CLOSE_WAIT") /\ UNCHANGED <<task, children>>
      BY <1>0, <1>3, <2>2 DEF AgeCheck, OtherTypes
    <3>2. state[s] \in Handshaking \cup Connected
      BY <1>0, <1>3 DEF AgeCheck, Core, CoreTypes, States, Sockets
    <3> QED BY <3>1, <3>2, <1>0, StateKeeps
  <2> QED BY <2>1, <2>2
<1> QED BY <1>1, <1>2, <1>3 DEF Timer

\* And so does every other step, while the listener stays open.
LEMMA InvNext == ListenerStays /\ IInv /\ [Next]_vars => IInv'
<1> SUFFICES ASSUME ListenerStays, IInv, [Next]_vars PROVE IInv'
  OBVIOUS
<1>0. Core /\ Counted /\ OtherTypes
  BY DEF IInv
<1>1. ASSUME NEW c \in Clients, Listen(c) PROVE IInv'
  <2>1. PICK s \in Children \ Live :
           /\ state' = [state EXCEPT ![s] = "SYN_RECEIVED"]
           /\ remote' = [remote EXCEPT ![s] = c]
           /\ peerSocket' = [peerSocket EXCEPT ![s] = Listener]
           /\ passQueued' = passQueued \cup {s}
    BY <1>1 DEF Listen
  <2>2. /\ children < Backlog /\ children' = children + 1
        /\ UNCHANGED <<passAccept, acceptBit, events, task>> /\ UNCHANGED fin
        /\ answers' = [answers EXCEPT ![c] = {"SYNACK"}]
    BY <1>1 DEF Listen
  <2>3. Core'
    BY <2>1, <2>2, <1>0, StepListen
  <2>4. Counted'
    BY <2>1, <2>2, <1>0, CountListen
  <2>5. OtherTypes'
    BY <2>1, <2>2, <1>0 DEF OtherTypes
  <2> QED BY <2>3, <2>4, <2>5 DEF IInv
<1>2. ASSUME NEW s \in Children, Packet(s) \/ Timer(s) PROVE IInv'
  BY <1>2, PacketKeeps, TimerKeeps
<1>3. CASE CheckNewClient
  <2>1. Core' /\ UNCHANGED sockets /\ UNCHANGED answers
    BY <1>3, <1>0, StepCheckNewClient DEF CheckNewClient
  <2> QED BY <2>1, <1>0, CountSame DEF IInv, OtherTypes, sockets
<1>4. CASE CloseEvent
  <2>1. /\ Core' /\ Head(events).socket \in Children /\ state[Head(events).socket] # "free"
        /\ Free(Head(events).socket) /\ UNCHANGED answers
    BY <1>4, <1>0, StepCloseEvent DEF CloseEvent
  <2>2. Counted'
    BY <2>1, <1>0, CountFreed
  <2>3. OtherTypes'
    BY <2>1, <1>0 DEF Free, OtherTypes
  <2> QED BY <2>1, <2>2, <2>3 DEF IInv
<1>5. CASE Take
  <2>1. Core' /\ UNCHANGED sockets /\ UNCHANGED answers
    BY <1>5, <1>0, StepTake DEF Take
  <2> QED BY <2>1, <1>0, CountSame DEF IInv, OtherTypes, sockets
<1>6. CASE Ask
  <2>1. Core' /\ UNCHANGED sockets /\ UNCHANGED answers
    BY <1>6, <1>0, StepAsk DEF Ask
  <2> QED BY <2>1, <1>0, CountSame DEF IInv, OtherTypes, sockets
<1>7. ASSUME NEW s \in Sockets, Close(s) PROVE IInv'
  <2>1. Core' /\ UNCHANGED sockets /\ UNCHANGED answers
    BY <1>7, <1>0, StepClose DEF Close
  <2> QED BY <2>1, <1>0, CountSame DEF IInv, OtherTypes, sockets
<1>8. CASE Woken \/ CallsAccept \/ TimesOut \/ UNCHANGED vars
  <2>1. /\ UNCHANGED <<state, peerSocket, passQueued, passAccept, events, taken, owned>>
        /\ acceptBit' \in BOOLEAN
        /\ user' = user \/ (user \in {"idle", "wait"} /\ user' \in {"idle", "accept"})
        /\ UNCHANGED <<children, remote, fin, answers>>
    <3>1. CASE Woken
      BY <3>1 DEF Woken, sockets
    <3>2. CASE CallsAccept
      BY <3>2, <1>0 DEF CallsAccept, sockets, passing, Core, CoreTypes
    <3>3. CASE TimesOut
      BY <3>3, <1>0 DEF TimesOut, sockets, passing, Core, CoreTypes
    <3>4. CASE UNCHANGED vars
      BY <3>4, <1>0 DEF vars, sockets, passing, task, Core, CoreTypes
    <3> QED BY <1>8, <3>1, <3>2, <3>3, <3>4
  <2>2. Core'
    BY <2>1, <1>0, StepUser
  <2> QED BY <2>1, <2>2, <1>0, CountSame DEF IInv, OtherTypes
<1>9. ASSUME NEW s \in Sockets, Shutdown(s) PROVE IInv'
  <2>1. UNCHANGED <<state, remote, children, passing, events, task, answers>>
        /\ fin' = [fin EXCEPT ![s] = @ \cup {"shutdown"}]
    BY <1>9 DEF Shutdown
  <2>2. Core'
    BY <2>1, <1>0, StepUser DEF Core, CoreTypes, passing, task
  <2>3. OtherTypes'
    BY <2>1, <1>0 DEF OtherTypes
  <2> QED BY <2>1, <2>2, <2>3, <1>0, CountSame DEF IInv
<1> QED BY <1>1, <1>2, <1>3, <1>4, <1>5, <1>6, <1>7, <1>8, <1>9 DEF Next, Accept

----------------------------------------------------------------------------
(* The theorems *)

\* The invariant holds as long as the listener stays open.
THEOREM Inductive == ASSUME ListenerStays PROVE Spec => []IInv
<1>1. IInv /\ [Next]_vars => IInv'
  BY InvNext
<1> QED BY InvInit, <1>1, PTL DEF Spec

\* Every variable keeps its type.
THEOREM TypeCorrect == ASSUME ListenerStays PROVE Spec => []TypeOK
<1>1. IInv => TypeOK
  <2> SUFFICES ASSUME IInv PROVE TypeOK
    OBVIOUS
  <2>1. IsFiniteSet(Live \cap Children)
    BY FS_Subset
  <2>2. children \in 0..Backlog
    BY <2>1, FS_CardinalityType DEF IInv, Counted
  <2> QED BY <2>2 DEF IInv, Core, CoreTypes, OtherTypes, TypeOK, States, EventSet
<1> QED BY Inductive, <1>1, PTL

\* The listener's count is that of its children, whichever way each of them
\* ended: it never refuses a client for which there is a place.
THEOREM CountIsExact == ASSUME ListenerStays PROVE Spec => []ChildCountExact
<1>1. IInv => ChildCountExact
  BY DEF IInv, Counted, ChildCountExact
<1> QED BY Inductive, <1>1, PTL

\* No pointer of the stack or the user leads to freed memory.
THEOREM PointersAreLive == ASSUME ListenerStays PROVE Spec => []NoFreedSocketUsed
<1>1. IInv => NoFreedSocketUsed
  <2> SUFFICES ASSUME IInv PROVE NoFreedSocketUsed
    OBVIOUS
  <2>1. Listener \in Live /\ \A x \in Sockets : state[x] # "free" => x \in Live
    BY DEF IInv, Core, UsersOK, Live, Sockets
  <2>2. \A s \in passQueued : peerSocket[s] \in Live
    BY <2>1 DEF IInv, Core, Passing
  <2>3. peerSocket[Listener] \in Live \cup {None}
    BY <2>1 DEF IInv, Core, Passing, CoreTypes, Sockets
  <2>4. \A i \in 1..Len(events) : events[i].socket \in Live
    <3>1. \A i \in 1..Len(events) : events[i] \in EventSet
      BY DEF IInv, Core, CoreTypes, EventSet
    <3> QED BY <3>1, <2>1 DEF IInv, Core, EventsOK, EventSet, Event, Sockets
  <2>5. owned \cup ({taken} \ {None}) \subseteq Live
    BY <2>1 DEF IInv, Core, UsersOK, Users, CoreTypes, Sockets
  <2> QED BY <2>2, <2>3, <2>4, <2>5 DEF NoFreedSocketUsed
<1> QED BY Inductive, <1>1, PTL

\* Each child has one owner, who closes it once.
THEOREM OwnedOnce == ASSUME ListenerStays PROVE Spec => []OneOwner
<1>1. IInv => OneOwner
  BY DEF IInv, Core, Owned, Passing, UsersOK, EventsOK, Users, OneOwner
<1> QED BY Inductive, <1>1, PTL

----------------------------------------------------------------------------
(* The clients that wait *)

\* A step that takes nothing from those who wait keeps the promise.
LEMMA SameWaiting ==
  ASSUME NoClientForgotten, Listener \in owned,
         passAccept' = passAccept, peerSocket'[Listener] = peerSocket[Listener],
         Accepting => Accepting',
         acceptBit' = acceptBit, user' = user
  PROVE  NoClientForgotten'
BY DEF NoClientForgotten

\* The question to the IP task stays in its queue while others are added.
LEMMA AppendAccepting ==
  ASSUME events \in Seq(EventSet), NEW e \in EventSet, events' = Append(events, e)
  PROVE  (Accepting => Accepting') /\ (e = Event("accept", Listener) => Accepting')
<1>1. /\ Len(events) \in Nat /\ Len(events') = Len(events) + 1
      /\ \A i \in 1..Len(events) : events'[i] = events[i]
      /\ events'[Len(events) + 1] = e
  BY AppendEvent
<1>2. Len(events) + 1 \in 1..Len(events') /\ \A i \in 1..Len(events) : i \in 1..Len(events')
  BY <1>1
<1> QED BY <1>1, <1>2 DEF Accepting

\* A change of state adds to those who wait, and wakes the user, or leaves them alone.
LEMMA StateWaiting ==
  ASSUME Core, NoClientForgotten, NEW s \in Children, NEW new, StateChange(s, new),
         UNCHANGED task
  PROVE  NoClientForgotten'
<1>0. s # Listener /\ Listener \in Sockets /\ Listener \in owned /\ UNCHANGED user
      /\ s \in Sockets /\ s # None
  BY DEF Core, UsersOK, Sockets, task
<1>1. CASE Connect(s, new)
  <2>1. peerSocket[s] = Listener
    BY <1>1 DEF Connect, Core, Passing
  <2>2. /\ peerSocket'[Listener] = IF peerSocket[Listener] = None THEN s ELSE peerSocket[Listener]
        /\ passAccept' = passAccept \cup {s} /\ acceptBit' = TRUE
    BY <1>0, <1>1, <2>1 DEF Connect, Core, CoreTypes
  <2> QED BY <2>2 DEF NoClientForgotten, Core, Passing
<1>2. CASE Abandon(s, new)
  <2>1. UNCHANGED <<peerSocket, passAccept, acceptBit>> /\ events \in Seq(EventSet)
        /\ Event("close", s) \in EventSet
    BY <1>0, <1>2 DEF Abandon, passing, Core, CoreTypes, EventSet
  <2>2. Accepting => Accepting'
    BY <1>2, <2>1, AppendAccepting DEF Abandon, Accepting
  <2> QED BY <1>0, <2>1, <2>2, SameWaiting
<1>3. CASE UNCHANGED <<passing, events>>
  BY <1>0, <1>3, SameWaiting DEF passing, Accepting
<1> QED BY <1>1, <1>2, <1>3 DEF StateChange

\* prvTCPHandleFin too.
LEMMA FinWaiting ==
  ASSUME Core, NoClientForgotten, NEW s \in Children, NEW f, NEW acked, HandleFin(s, f, acked)
  PROVE  NoClientForgotten'
<1>1. UNCHANGED task /\ Listener \in owned
  BY DEF HandleFin, Core, UsersOK
<1>2. CASE UNCHANGED <<state, passing, events, answers>>
  BY <1>1, <1>2, SameWaiting DEF passing, Accepting, task
<1> QED BY <1>1, <1>2, StateWaiting DEF HandleFin

\* No step forgets a client.
LEMMA WaitingNext ==
  ListenerStays /\ IInv /\ NoClientForgotten /\ [Next]_vars => NoClientForgotten'
<1> SUFFICES ASSUME ListenerStays, IInv, NoClientForgotten, [Next]_vars PROVE NoClientForgotten'
  OBVIOUS
<1>0. /\ Core /\ Listener \in owned /\ Listener \in Sockets /\ events \in Seq(EventSet)
      /\ \A s \in Children : s # Listener
  BY DEF IInv, Core, UsersOK, CoreTypes, Sockets
<1>1. ASSUME NEW c \in Clients, Listen(c) PROVE NoClientForgotten'
  <2>1. PICK s \in Children : peerSocket' = [peerSocket EXCEPT ![s] = Listener]
    BY <1>1 DEF Listen
  <2>2. peerSocket'[Listener] = peerSocket[Listener]
    BY <2>1, <1>0
  <2> QED BY <1>0, <1>1, <2>2, SameWaiting DEF Listen, task, Accepting
<1>2. ASSUME NEW s \in Children, Packet(s) PROVE NoClientForgotten'
  <2>1. CASE HandshakeAck(s)
    BY <2>1, <1>0, StateWaiting DEF HandshakeAck
  <2>2. CASE HandshakeFails(s)
    BY <2>2, <1>0, StateWaiting DEF HandshakeFails
  <2>3. CASE Reset(s)
    BY <2>3, <1>0, StateWaiting DEF Reset
  <2>4. ASSUME NEW complete \in BOOLEAN, FinArrives(s, complete) PROVE NoClientForgotten'
    <3>1. CASE complete
      BY <3>1, <2>4, <1>0, FinWaiting DEF FinArrives
    <3>2. CASE ~complete
      BY <3>2, <2>4, <1>0, SameWaiting DEF FinArrives, passing, task, Accepting
    <3> QED BY <3>1, <3>2
  <2>5. ASSUME NEW isFin \in BOOLEAN, NEW acked \in BOOLEAN, ClosingPacket(s, isFin, acked)
        PROVE  NoClientForgotten'
    BY <2>5, <1>0, FinWaiting DEF ClosingPacket
  <2> QED BY <1>2, <2>1, <2>2, <2>3, <2>4, <2>5 DEF Packet
<1>3. ASSUME NEW s \in Children, Timer(s) PROVE NoClientForgotten'
  <2>1. CASE SendFin(s)
    BY <2>1, <1>0, StateWaiting DEF SendFin
  <2>2. CASE KeepAliveFails(s)
    BY <2>2, <1>0, StateWaiting DEF KeepAliveFails
  <2>3. CASE AgeCheck(s) /\ s \in passQueued
    <3>1. passAccept' = passAccept
      BY <2>3, <1>0 DEF AgeCheck, Free, Core, Passing
    <3> QED BY <2>3, <3>1, <1>0, SameWaiting DEF AgeCheck, Free, task, Accepting
  <2>4. CASE AgeCheck(s) /\ s \notin passQueued
    BY <2>4, <1>0, StateWaiting DEF AgeCheck
  <2> QED BY <1>3, <2>1, <2>2, <2>3, <2>4 DEF Timer
<1>4. CASE CheckNewClient
  <2>1. CASE passAccept = {}
    BY <2>1, <1>4 DEF CheckNewClient, passing, NoClientForgotten
  <2>2. CASE passAccept # {}
    <3>1. PICK s \in passAccept : peerSocket' = [peerSocket EXCEPT ![Listener] = s]
      BY <2>2, <1>4 DEF CheckNewClient
    <3>2. peerSocket'[Listener] = s /\ passAccept' = passAccept /\ acceptBit' = TRUE
      BY <3>1, <2>2, <1>4, <1>0 DEF CheckNewClient, Core, CoreTypes
    <3> QED BY <3>2 DEF NoClientForgotten
  <2> QED BY <2>1, <2>2
<1>5. CASE CloseEvent
  <2>1. /\ events # <<>> /\ events' = Tail(events) /\ Head(events).type = "close"
        /\ Free(Head(events).socket) /\ UNCHANGED task
    BY <1>5 DEF CloseEvent
  <2>2. /\ Head(events) = events[1] /\ 1 \in 1..Len(events)
        /\ \A i \in 1..Len(events) :
              i # 1 => i - 1 \in 1..Len(events') /\ events'[i - 1] = events[i]
    BY <2>1, <1>0, TailEvent
  <2>3. Accepting => Accepting'
    <3> SUFFICES ASSUME Accepting PROVE Accepting'
      OBVIOUS
    <3>1. PICK i \in 1..Len(events) : events[i] = Event("accept", Listener)
      BY DEF Accepting
    <3>2. i # 1
      BY <3>1, <2>1, <2>2 DEF Event
    <3> QED BY <3>1, <3>2, <2>2 DEF Accepting
  <2>4. Head(events).socket \notin passAccept
    <3>1. events[1].socket \in Children /\ events[1].type = "close" /\ events[1] \in EventSet
      BY <2>1, <2>2, <1>0 DEF Core, EventsOK
    <3>2. events[1] = Event("close", events[1].socket)
      BY <3>1 DEF EventSet, Event
    <3>3. events[1].socket \in Closing
      BY <3>1, <3>2, <2>2 DEF Closing, Sockets
    <3> QED BY <3>3, <2>2, <1>0 DEF Core, EventsOK
  <2> QED BY <2>1, <2>3, <2>4, <1>0, SameWaiting DEF Free, task
<1>6. CASE Take
  <2> DEFINE s == peerSocket[Listener]
  <2>1. CASE s # None /\ s \in passAccept
    BY <2>1, <1>6 DEF Take, NoClientForgotten
  <2>2. CASE ~(s # None /\ s \in passAccept)
    <3>1. /\ passAccept' = passAccept /\ events' = events /\ user = "accept"
          /\ s \notin passAccept
      BY <2>2, <1>6, <1>0 DEF Take, Core, CoreTypes, Sockets
    <3> QED BY <3>1, <1>0 DEF NoClientForgotten, Accepting
  <2> QED BY <2>1, <2>2
<1>7. CASE Ask
  <2>1. Event("accept", Listener) \in EventSet /\ events' = Append(events, Event("accept", Listener))
    BY <1>7, <1>0 DEF Ask, EventSet
  <2>2. Accepting'
    BY <2>1, <1>0, AppendAccepting
  <2> QED BY <2>2 DEF NoClientForgotten
<1>8. ASSUME NEW s \in Sockets, Close(s) PROVE NoClientForgotten'
  <2>1. Event("close", s) \in EventSet /\ events' = Append(events, Event("close", s))
    BY <1>8 DEF Close, EventSet
  <2>2. Accepting => Accepting'
    BY <2>1, <1>0, AppendAccepting
  <2> QED BY <2>2, <1>0, <1>8, SameWaiting DEF Close, passing
<1>9. CASE Woken
  BY <1>9, <1>0 DEF Woken, NoClientForgotten, Accepting
<1>10. CASE CallsAccept \/ TimesOut
  BY <1>10, <1>0 DEF CallsAccept, TimesOut, passing, NoClientForgotten, Accepting
<1>11. ASSUME NEW s \in Sockets, Shutdown(s) PROVE NoClientForgotten'
  BY <1>11, <1>0, SameWaiting DEF Shutdown, passing, task, Accepting
<1>12. CASE UNCHANGED vars
  BY <1>12, <1>0, SameWaiting DEF vars, passing, task, Accepting
<1> QED BY <1>1, <1>2, <1>3, <1>4, <1>5, <1>6, <1>7, <1>8, <1>9, <1>10, <1>11, <1>12
    DEF Next, Accept

\* accept finds every client that waits, however many get connected between two
\* of its calls.
THEOREM ClientsFound == ASSUME ListenerStays PROVE Spec => []NoClientForgotten
<1>1. Init => NoClientForgotten
  BY DEF Init, NoClientForgotten
<1>2. IInv /\ NoClientForgotten /\ [Next]_vars => NoClientForgotten'
  BY WaitingNext
<1> QED BY Inductive, <1>1, <1>2, PTL DEF Spec
=============================================================================
