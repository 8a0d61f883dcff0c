------------------------------ MODULE TCPServer ------------------------------
(***************************************************************************)
(* A listening TCP socket and its children: the handshake with each client *)
(* (prvHandleListen, prvHandleSynReceived), the passing of a connected     *)
(* child to the user (vTCPStateChange, FreeRTOS_accept,                    *)
(* xTCPCheckNewClient), the closing of a connection from either side       *)
(* (prvTCPHandleFin), RST, the anti-hang protection, and the freeing of    *)
(* sockets (FreeRTOS_closesocket, vSocketClose, prvTCPSetSocketCount).     *)
(*                                                                         *)
(* The IP task handles one packet, event or timer at a time; the user's    *)
(* task may be preempted between the steps of FreeRTOS_accept, and cannot  *)
(* preempt the IP task.  Packets of a client may be lost, late or repeated *)
(* and a client may stop at any moment: each action below that names a     *)
(* packet may occur whenever a client may have sent it, and a packet that  *)
(* is answered without any change of state is a stuttering step.  Data is  *)
(* left to TCPReceive and TCPTransmit, and so is bCloseAfterSend;          *)
(* bReuseSocket is not set.                                                *)
(***************************************************************************)
EXTENDS Integers, Sequences, FiniteSets

CONSTANTS
    Listener,      \* the socket of the user that is in eTCP_LISTEN
    Children,      \* memory for the sockets that prvHandleListen creates
    Clients,       \* the remote addresses and ports
    Backlog,       \* usBacklog
    QueueLength,   \* room for events of this module in the IP task's queue
    ListenerStays, \* the user never closes the listening socket
    None

Sockets == Children \cup {Listener}

ASSUME SocketsAssumption == Listener \notin Children /\ None \notin Sockets \cup Clients
ASSUME SizesAssumption == IsFiniteSet(Children) /\ Backlog \in Nat /\ QueueLength \in Nat

VARIABLES
    state,       \* ucTcpState, or "free" when the memory is free
    remote,      \* ulRemoteIP and usRemotePort
    peerSocket,  \* pxPeerSocket: a child's parent, a listener's next client
    passQueued,  \* the sockets with bPassQueued
    passAccept,  \* the sockets with bPassAccept
    children,    \* usChildCount of the listener
    fin,         \* bFinSent, bFinRecv, bFinAcked, bFinLast and bUserShutdown
    events,      \* the IP task's queue: [type, socket]
    acceptBit,   \* eSOCKET_ACCEPT in the listener's event group
    user,        \* where the user's task is in FreeRTOS_accept
    taken,       \* pxClientSocket there
    owned,       \* the sockets the user has and may use
    answers      \* what each client has been sent: "SYNACK", "FINACK"

sockets == <<state, remote, fin, children>>
passing == <<peerSocket, passQueued, passAccept, acceptBit>>
task == <<user, taken, owned>>
vars == <<sockets, passing, events, task, answers>>

Connected == {"ESTABLISHED", "FIN_WAIT_1", "LAST_ACK"}   \* NOW_CONNECTED
Handshaking == {"SYN_RECEIVED"}   \* eSYN_FIRST is left in the same handler
Lasting == {"CLOSED", "LISTEN", "CLOSE_WAIT"}            \* no anti-hang protection

Live == {s \in Sockets : state[s] # "free"}

Event(type, s) == [type |-> type, socket |-> s]

Closing == {s \in Sockets : \E i \in 1..Len(events) : events[i] = Event("close", s)}

Accepting == \E i \in 1..Len(events) : events[i] = Event("accept", Listener)

----------------------------------------------------------------------------
(* vTCPStateChange *)

\* An orphan is connected: its parent may pass it on now.
Connect(s, new) ==
    /\ s \in passQueued /\ state[s] \notin Connected /\ new \in Connected
    /\ LET parent == peerSocket[s]
           next == IF peerSocket[parent] = None THEN s ELSE peerSocket[parent]
       IN  peerSocket' = [peerSocket EXCEPT ![parent] = next, ![s] = None]
    /\ passQueued' = passQueued \ {s}
    /\ passAccept' = passAccept \cup {s}
    /\ acceptBit' = TRUE
    /\ UNCHANGED events

\* An RST for a socket that nobody owns and that is not connected: the IP task
\* asks itself to close it, without waiting for room in its queue.
Abandon(s, new) ==
    /\ state[s] \notin Connected /\ new = "CLOSED"
    /\ s \in passQueued \cup passAccept
    /\ events' = IF Len(events) < QueueLength THEN Append(events, Event("close", s)) ELSE events
    /\ UNCHANGED passing

StateChange(s, new) ==
    /\ state' = [state EXCEPT ![s] = new]
    /\ \/ Connect(s, new)
       \/ Abandon(s, new)
       \/ /\ ~(s \in passQueued /\ state[s] \notin Connected /\ new \in Connected)
          /\ ~(state[s] \notin Connected /\ new = "CLOSED" /\ s \in passQueued \cup passAccept)
          /\ UNCHANGED <<passing, events>>

\* Mutant of Free: a child that was never passed to the user is not counted off.
MutFreeOrphan(s) ==
    /\ state' = [state EXCEPT ![s] = "free"]
    /\ remote' = [remote EXCEPT ![s] = None]
    /\ fin' = [fin EXCEPT ![s] = {}]
    /\ children' = IF state[Listener] = "LISTEN" /\ children > 0 /\ s \notin passQueued
                   THEN children - 1 ELSE children
    /\ passQueued' = passQueued \ {s}
    /\ passAccept' = passAccept \ {s}
    /\ UNCHANGED <<peerSocket, acceptBit>>

\* vSocketClose, with prvTCPSetSocketCount: a listening socket on the port has
\* one child less.
Free(s) ==
    /\ state' = [state EXCEPT ![s] = "free"]
    /\ remote' = [remote EXCEPT ![s] = None]
    /\ fin' = [fin EXCEPT ![s] = {}]
    /\ children' = IF state[Listener] = "LISTEN" /\ children > 0 THEN children - 1 ELSE children
    /\ passQueued' = passQueued \ {s}
    /\ passAccept' = passAccept \ {s}
    /\ UNCHANGED <<peerSocket, acceptBit>>

----------------------------------------------------------------------------
(* The IP task: packets *)

\* pxTCPSocketLookup finds no socket of this client: the listener is taken.
Unknown(c) == \A s \in Live : remote[s] # c

\* prvHandleListen and the state eSYN_FIRST: a new socket answers the SYN.  At
\* the backlog, or without memory, the client is sent an RST.
Listen(c) ==
    /\ state[Listener] = "LISTEN" /\ Unknown(c)
    /\ children < Backlog
    /\ \E s \in Children \ Live :
        /\ state' = [state EXCEPT ![s] = "SYN_RECEIVED"]
        /\ remote' = [remote EXCEPT ![s] = c]
        /\ peerSocket' = [peerSocket EXCEPT ![s] = Listener]
        /\ passQueued' = passQueued \cup {s}
    /\ children' = children + 1
    /\ answers' = [answers EXCEPT ![c] = {"SYNACK"}]
    /\ UNCHANGED <<passAccept, acceptBit, fin, events, task>>

\* prvHandleSynReceived: the ACK to our SYN and ACK.
HandshakeAck(s) ==
    /\ state[s] = "SYN_RECEIVED"
    /\ StateChange(s, "ESTABLISHED")
    /\ UNCHANGED <<remote, fin, children, task, answers>>

\* prvTCPHandleState: a FIN is noted when it comes first.
Noted(s) ==
    IF "recv" \in fin[s] THEN fin[s]
    ELSE fin[s] \cup {"recv"} \cup (IF "sent" \in fin[s] THEN {} ELSE {"last"})

\* prvHandleSynReceived: a client that closes before its ACK has come in does
\* not have the flags that are expected.
HandshakeFails(s) ==
    /\ state[s] = "SYN_RECEIVED"
    /\ StateChange(s, "CLOSE_WAIT")
    /\ fin' = [fin EXCEPT ![s] = Noted(s)]
    /\ UNCHANGED <<remote, children, task, answers>>

\* xProcessReceivedTCPPacket: an RST for a socket in an active state.
Reset(s) ==
    /\ state[s] \in Handshaking \cup Connected
    /\ StateChange(s, "CLOSED")
    /\ UNCHANGED <<remote, fin, children, task, answers>>

\* prvTCPHandleFin, with the flags f noted so far: we send our FIN, again until
\* it is acknowledged, and are done when the client's has come as well.
HandleFin(s, f, acked) ==
    LET all == IF "sent" \notin f THEN f \cup {"sent"} ELSE IF acked THEN f \cup {"acked"} ELSE f
    IN  /\ fin' = [fin EXCEPT ![s] = all]
        /\ \/ /\ "acked" \notin all
              /\ StateChange(s, "LAST_ACK")
              /\ answers' = [answers EXCEPT ![remote[s]] = @ \cup {"FINACK"}]
           \/ /\ {"acked", "recv"} \subseteq all
              /\ StateChange(s, "CLOSE_WAIT")
              /\ UNCHANGED answers
           \/ /\ "acked" \in all /\ "recv" \notin all
              /\ UNCHANGED <<state, passing, events, answers>>
        /\ UNCHANGED <<remote, children, task>>

\* prvHandleEstablished: a FIN is refused while data is missing or was not
\* acknowledged.
FinArrives(s, complete) ==
    /\ state[s] = "ESTABLISHED"
    /\ IF complete THEN HandleFin(s, Noted(s), FALSE)
       ELSE /\ fin' = [fin EXCEPT ![s] = Noted(s)]
            /\ UNCHANGED <<state, remote, children, passing, events, task, answers>>

\* In the closing states every packet is handled by prvTCPHandleFin.  A client
\* acknowledges a FIN that it was sent.
ClosingPacket(s, isFin, acked) ==
    /\ state[s] \in {"FIN_WAIT_1", "LAST_ACK"}
    /\ acked => "FINACK" \in answers[remote[s]]
    /\ HandleFin(s, IF isFin THEN Noted(s) ELSE fin[s], acked)

----------------------------------------------------------------------------
(* The IP task: timers and events *)

\* prvTCPPrepareSend: the user's shutdown, once all data is acknowledged.
SendFin(s) ==
    /\ state[s] = "ESTABLISHED" /\ "shutdown" \in fin[s]
    /\ StateChange(s, "FIN_WAIT_1")
    /\ fin' = [fin EXCEPT ![s] = (@ \cup {"sent"}) \ {"shutdown"}]
    /\ answers' = [answers EXCEPT ![remote[s]] = @ \cup {"FINACK"}]
    /\ UNCHANGED <<remote, children, task>>

\* prvTCPPrepareSend: no answer to the keep-alive messages.
KeepAliveFails(s) ==
    /\ state[s] = "ESTABLISHED"
    /\ StateChange(s, "CLOSE_WAIT")
    /\ UNCHANGED <<remote, fin, children, task, answers>>

\* prvTCPStatusAgeCheck: nothing came for ipconfigTCP_HANG_PROTECTION_TIME.  An
\* orphan is deleted on the spot.
AgeCheck(s) ==
    /\ state[s] \notin Lasting \cup {"ESTABLISHED", "free"}
    /\ IF s \in passQueued THEN Free(s) /\ UNCHANGED events
       ELSE StateChange(s, "CLOSE_WAIT") /\ UNCHANGED <<remote, fin, children>>
    /\ UNCHANGED <<task, answers>>

\* Mutant of CheckNewClient: the user is not woken.
MutCheckNewClientSilent ==
    /\ events # <<>> /\ Head(events) = Event("accept", Listener)
    /\ events' = Tail(events)
    /\ IF passAccept = {} THEN UNCHANGED peerSocket
       ELSE \E s \in passAccept : peerSocket' = [peerSocket EXCEPT ![Listener] = s]
    /\ UNCHANGED <<sockets, passQueued, passAccept, acceptBit, task, answers>>

\* eTCPAcceptEvent: xTCPCheckNewClient.
CheckNewClient ==
    /\ events # <<>> /\ Head(events) = Event("accept", Listener)
    /\ events' = Tail(events)
    /\ IF passAccept = {} THEN UNCHANGED passing
       ELSE /\ \E s \in passAccept : peerSocket' = [peerSocket EXCEPT ![Listener] = s]
            /\ acceptBit' = TRUE
            /\ UNCHANGED <<passQueued, passAccept>>
    /\ UNCHANGED <<sockets, task, answers>>

\* eSocketCloseEvent.
CloseEvent ==
    /\ events # <<>> /\ Head(events).type = "close"
    /\ events' = Tail(events)
    /\ Free(Head(events).socket)
    /\ UNCHANGED <<task, answers>>

----------------------------------------------------------------------------
(* The user's task *)

\* Mutant of Take: the listener goes on pointing to the client.
MutTakeKeepsPointer ==
    /\ user = "accept" /\ Listener \in owned
    /\ LET s == peerSocket[Listener]
           fresh == s # None /\ s \in passAccept
       IN  /\ passAccept' = IF fresh THEN passAccept \ {s} ELSE passAccept
           /\ taken' = IF fresh THEN s ELSE None
           /\ user' = IF fresh THEN "ask" ELSE "wait"
    /\ UNCHANGED <<sockets, peerSocket, passQueued, acceptBit, events, owned, answers>>

\* Mutant of Take: bPassAccept of the client is not cleared.
MutTakeKeepsFlag ==
    /\ user = "accept" /\ Listener \in owned
    /\ LET s == peerSocket[Listener]
           fresh == s # None /\ s \in passAccept
       IN  /\ peerSocket' = [peerSocket EXCEPT ![Listener] = None]
           /\ taken' = IF fresh THEN s ELSE None
           /\ user' = IF fresh THEN "ask" ELSE "wait"
    /\ UNCHANGED <<sockets, passQueued, passAccept, acceptBit, events, owned, answers>>

\* FreeRTOS_accept, under a suspended scheduler: is there a new client, and is
\* it still not taken?
Take ==
    /\ user = "accept" /\ Listener \in owned
    /\ LET s == peerSocket[Listener]
           fresh == s # None /\ s \in passAccept
       IN  /\ peerSocket' = [peerSocket EXCEPT ![Listener] = None]
           /\ passAccept' = IF fresh THEN passAccept \ {s} ELSE passAccept
           /\ taken' = IF fresh THEN s ELSE None
           /\ user' = IF fresh THEN "ask" ELSE "wait"
    /\ UNCHANGED <<sockets, passQueued, acceptBit, events, owned, answers>>

\* Mutant of Ask: it returns without asking for the next client.
MutAskNothing ==
    /\ user = "ask"
    /\ owned' = owned \cup {taken}
    /\ taken' = None
    /\ user' = "idle"
    /\ UNCHANGED <<sockets, passing, events, answers>>

\* Mutant of Ask: the pointer is cleared before it is returned.
MutAskCleared ==
    /\ user = "ask"
    /\ Len(events) < QueueLength
    /\ events' = Append(events, Event("accept", Listener))
    /\ taken' = None
    /\ owned' = owned \cup {taken'}
    /\ user' = "idle"
    /\ UNCHANGED <<sockets, passing, answers>>

\* It asks for the next one, waiting for room in the queue, and returns.
Ask ==
    /\ user = "ask"
    /\ Len(events) < QueueLength
    /\ events' = Append(events, Event("accept", Listener))
    /\ owned' = owned \cup {taken}
    /\ taken' = None
    /\ user' = "idle"
    /\ UNCHANGED <<sockets, passing, answers>>

Woken ==
    /\ user = "wait" /\ acceptBit
    /\ acceptBit' = FALSE
    /\ user' = "accept"
    /\ UNCHANGED <<sockets, peerSocket, passQueued, passAccept, events, taken, owned, answers>>

TimesOut ==
    /\ user = "wait"
    /\ user' = "idle"
    /\ UNCHANGED <<sockets, passing, events, taken, owned, answers>>

CallsAccept ==
    /\ user = "idle" /\ Listener \in owned
    /\ user' = "accept"
    /\ UNCHANGED <<sockets, passing, events, taken, owned, answers>>

\* FreeRTOS_shutdown.
Shutdown(s) ==
    /\ user = "idle" /\ s \in owned
    /\ state[s] = "ESTABLISHED"
    /\ fin' = [fin EXCEPT ![s] = @ \cup {"shutdown"}]
    /\ UNCHANGED <<state, remote, children, passing, events, task, answers>>

\* FreeRTOS_closesocket.  It returns an error when the queue is full.
Close(s) ==
    /\ user = "idle" /\ s \in owned
    /\ s = Listener => ~ListenerStays
    /\ Len(events) < QueueLength
    /\ events' = Append(events, Event("close", s))
    /\ owned' = owned \ {s}
    /\ UNCHANGED <<sockets, passing, user, taken, answers>>

----------------------------------------------------------------------------
Init ==
    /\ state = [s \in Sockets |-> IF s = Listener THEN "LISTEN" ELSE "free"]
    /\ remote = [s \in Sockets |-> None]
    /\ peerSocket = [s \in Sockets |-> None]
    /\ passQueued = {} /\ passAccept = {}
    /\ children = 0
    /\ fin = [s \in Sockets |-> {}]
    /\ events = <<>>
    /\ acceptBit = FALSE
    /\ user = "idle" /\ taken = None /\ owned = {Listener}
    /\ answers = [c \in Clients |-> {}]

Packet(s) ==
    \/ HandshakeAck(s) \/ HandshakeFails(s) \/ Reset(s)
    \/ \E complete \in BOOLEAN : FinArrives(s, complete)
    \/ \E isFin, acked \in BOOLEAN : ClosingPacket(s, isFin, acked)

Timer(s) == SendFin(s) \/ KeepAliveFails(s) \/ AgeCheck(s)

Accept == Take \/ Ask \/ Woken \/ CallsAccept

Next ==
    \/ \E c \in Clients : Listen(c)
    \/ \E s \in Children : Packet(s) \/ Timer(s)
    \/ CheckNewClient \/ CloseEvent
    \/ Accept \/ TimesOut
    \/ \E s \in Sockets : Shutdown(s) \/ Close(s)

\* The IP task handles its events, its timer finds a socket too old unless
\* packets keep it young, the user calls accept again and again.
Fairness ==
    /\ WF_vars(CheckNewClient) /\ WF_vars(CloseEvent) /\ WF_vars(Accept)
    /\ \A s \in Children : WF_vars(AgeCheck(s))

Spec == Init /\ [][Next]_vars /\ Fairness

----------------------------------------------------------------------------
(* Properties *)

\* The sockets, the queue and the user's task have their types.
TypeOK ==
    /\ state \in [Sockets -> Handshaking \cup Connected \cup Lasting \cup {"free"}]
    /\ remote \in [Sockets -> Clients \cup {None}]
    /\ peerSocket \in [Sockets -> Sockets \cup {None}]
    /\ passQueued \subseteq Children /\ passAccept \subseteq Children
    /\ children \in 0..Backlog
    /\ fin \in [Sockets -> SUBSET {"sent", "recv", "acked", "last", "shutdown"}]
    /\ events \in Seq({Event(t, s) : t \in {"accept", "close"}, s \in Sockets})
    /\ acceptBit \in BOOLEAN
    /\ user \in {"idle", "accept", "ask", "wait"}
    /\ taken \in Children \cup {None}
    /\ owned \subseteq Sockets
    /\ answers \in [Clients -> SUBSET {"SYNACK", "FINACK"}]

\* usChildCount counts the children there are, however each of them ends: it
\* decides whether the listener answers the next client.
ChildCountExact ==
    state[Listener] = "LISTEN" => children = Cardinality(Live \cap Children)

\* Every pointer that the IP task or the user may still follow leads to a
\* socket whose memory was not freed: those of orphans to their parents, of
\* the listener to its next client, of events, and those the user holds.
NoFreedSocketUsed ==
    /\ \A s \in passQueued : peerSocket[s] \in Live
    /\ Listener \in Live => peerSocket[Listener] \in Live \cup {None}
    /\ \A i \in 1..Len(events) : events[i].socket \in Live
    /\ owned \cup ({taken} \ {None}) \subseteq Live

\* A child is an orphan, waits to be accepted, belongs to the user, or is about
\* to be closed; it is passed to the user once and closed once.
OneOwner ==
    LET users == owned \cup ({taken} \ {None})
    IN  /\ Live \cap Children \subseteq passQueued \cup passAccept \cup users \cup Closing
        /\ passQueued \cap passAccept = {} /\ users \cap (passQueued \cup passAccept) = {}
        /\ (users \cup passAccept) \cap Closing = {}
        /\ \A i, j \in 1..Len(events) : i # j /\ events[i].type = "close" => events[i] # events[j]

\* While a connected child waits to be accepted, FreeRTOS_accept will find it:
\* the listener points to one, or the IP task is or will be asked to look for
\* one, and a user who sleeps is woken.
NoClientForgotten ==
    passAccept # {} /\ Listener \in owned =>
        \/ peerSocket[Listener] \in passAccept /\ (user = "wait" => acceptBit)
        \/ Accepting
        \/ user = "ask"

\* Each of them is accepted in the end.
ClientAccepted == \A s \in Children : s \in passAccept ~> s \notin passAccept

\* An orphan gets connected or is deleted.
OrphanEnds == \A s \in Children : s \in passQueued ~> s \notin passQueued
=============================================================================
