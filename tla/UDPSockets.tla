----------------------------- MODULE UDPSockets -----------------------------
(***************************************************************************)
(* UDP sockets: the calls FreeRTOS_Sockets.c gives to user tasks, the      *)
(* events they post, and the handlers of the IP task that serve them.      *)
(*                                                                         *)
(* A socket belongs to the tasks of Users; any task may signal it.  A      *)
(* task that holds a zero-copy buffer sends it or releases it before it    *)
(* sends or receives another one.  The pool is a set here (NetworkBuffers  *)
(* has its steps), a call of the ARP cache has one of its three results,   *)
(* and ports keep their identity: byte order is left out.                  *)
(***************************************************************************)
EXTENDS Integers, Sequences, FiniteSets

CONSTANTS
    Tasks,          \* user tasks
    Sockets,        \* socket structures that may be allocated
    Users,          \* Users[s]: the tasks that call the API with s
    Ports,          \* the ports of the private range, all non-zero
    Wanted,         \* those a task asks for by number, and 0 for any
    ZeroCopy,       \* the tasks that use FREERTOS_ZERO_COPY
    Signalled,      \* the sockets tasks signal
    Buffers,        \* network buffer descriptors
    QueueLength,    \* ipconfigEVENT_QUEUE_LENGTH
    DriverReleases, \* the driver releases what it has transmitted
    None

ASSUME UsersAssumption == Users \in [Sockets -> SUBSET Tasks]
ASSUME PortsAssumption == Ports \subseteq Nat \ {0} /\ Cardinality(Ports) >= Cardinality(Sockets)
ASSUME WantedAssumption == Wanted \subseteq Ports \cup {0}
ASSUME SignalledAssumption == Signalled \subseteq Sockets
ASSUME QueueAssumption == QueueLength \in Nat \ {0}
ASSUME NoneAssumption == None \notin Buffers \cup Sockets
ASSUME DriverAssumption == DriverReleases \in BOOLEAN

VARIABLES
    pool,     \* the free descriptors
    queue,    \* xNetworkEventQueue
    handle,   \* handle[s]: "none", "open", or "closing" once the close is posted
    port,     \* xBoundSocketListItem's value, 0 while in no list
    locPort,  \* usLocPort
    waiting,  \* xWaitingPacketsList
    bits,     \* the bits of xEventGroup
    waking,   \* <<s, bit>> the IP task is about to set, or <<>>
    driver,   \* buffers handed to the driver
    pc,       \* the next step of the call the task is in
    sock,     \* its xSocket
    buf,      \* pxNetworkBuffer, or the zero-copy buffer the task holds
    sending   \* FreeRTOS_bind was called by FreeRTOS_sendto

sockets == <<handle, port, locPort, waiting, bits>>
tasks == <<pc, sock, buf, sending>>
vars == <<pool, queue, sockets, waking, driver, tasks>>

Bits == {"RECEIVE", "BOUND", "INTR"}

Steps == {"idle", "bindPort", "bindSend", "bindWait", "getBuffer", "post", "postZeroCopy",
          "recvWait", "recvCount", "recvTimedOut", "take", "copy"}

Bound(s) == port[s] # 0

\* A post at the full queue overwrites its limit.
MutHasRoom == Len(queue) <= QueueLength

\* A post succeeds at once.
HasRoom == Len(queue) < QueueLength

Event(type, s, b, p) == [type |-> type, sock |-> s, buf |-> b, port |-> p]

Call(t, s, step) ==
    /\ pc' = [pc EXCEPT ![t] = step]
    /\ sock' = [sock EXCEPT ![t] = s]

Goto(t, step) == Call(t, sock[t], step)

Return(t) == Call(t, None, "idle")

\* A call by t on an open socket of its own.
MayUse(t, s) == pc[t] = "idle" /\ t \in Users[s] /\ handle[s] = "open"

Init ==
    /\ pool = Buffers
    /\ queue = <<>>
    /\ handle = [s \in Sockets |-> "none"]
    /\ port = [s \in Sockets |-> 0]
    /\ locPort = [s \in Sockets |-> 0]
    /\ waiting = [s \in Sockets |-> <<>>]
    /\ bits = [s \in Sockets |-> {}]
    /\ waking = <<>>
    /\ driver = {}
    /\ pc = [t \in Tasks |-> "idle"]
    /\ sock = [t \in Tasks |-> None]
    /\ buf = [t \in Tasks |-> None]
    /\ sending = [t \in Tasks |-> FALSE]

----------------------------------------------------------------------------
(* FreeRTOS_socket, FreeRTOS_closesocket *)

\* The structure is zeroed, its list and its event group are new.
Socket(t, s) ==
    /\ pc[t] = "idle" /\ t \in Users[s]
    /\ handle[s] = "none"
    /\ handle' = [handle EXCEPT ![s] = "open"]
    /\ port' = [port EXCEPT ![s] = 0]
    /\ locPort' = [locPort EXCEPT ![s] = 0]
    /\ waiting' = [waiting EXCEPT ![s] = <<>>]
    /\ bits' = [bits EXCEPT ![s] = {}]
    /\ UNCHANGED <<pool, queue, waking, driver, tasks>>

\* The calling task closes the socket itself.
MutCloseSocket(t, s) ==
    /\ MayUse(t, s)
    /\ \A u \in Tasks : sock[u] # s
    /\ handle' = [handle EXCEPT ![s] = "none"]
    /\ port' = [port EXCEPT ![s] = 0]
    /\ pool' = pool \cup {waiting[s][i] : i \in DOMAIN waiting[s]}
    /\ waiting' = [waiting EXCEPT ![s] = <<>>]
    /\ UNCHANGED <<queue, locPort, bits, waking, driver, tasks>>

\* The event is posted with a block time of 0.  With no room the call returns
\* -1 and the socket stays open.
CloseSocket(t, s) ==
    /\ MayUse(t, s)
    /\ \A u \in Tasks : sock[u] # s
    /\ HasRoom
    /\ queue' = Append(queue, Event("close", s, None, 0))
    /\ handle' = [handle EXCEPT ![s] = "closing"]
    /\ UNCHANGED <<pool, port, locPort, waiting, bits, waking, driver, tasks>>

----------------------------------------------------------------------------
(* FreeRTOS_bind *)

\* The test that the socket is not bound.
StartBind(t, s, bySendto) ==
    /\ ~Bound(s)
    /\ sending' = [sending EXCEPT ![t] = bySendto]
    /\ Call(t, s, "bindPort")

Bind(t, s) ==
    /\ MayUse(t, s)
    /\ StartBind(t, s, FALSE)
    /\ UNCHANGED <<pool, queue, sockets, waking, driver, buf>>

\* usLocPort takes the wanted port; FreeRTOS_sendto asks for any.
BindPort(t) ==
    /\ pc[t] = "bindPort"
    /\ \E wanted \in IF sending[t] THEN {0} ELSE Wanted :
          locPort' = [locPort EXCEPT ![sock[t]] = wanted]
    /\ Goto(t, "bindSend")
    /\ UNCHANGED <<pool, queue, handle, port, waiting, bits, waking, driver, buf, sending>>

\* portMAX_DELAY: the task stays here until the queue has room.
BindSend(t) ==
    /\ pc[t] = "bindSend"
    /\ HasRoom
    /\ queue' = Append(queue, Event("bind", sock[t], None, 0))
    /\ Goto(t, "bindWait")
    /\ UNCHANGED <<pool, sockets, waking, driver, buf, sending>>

\* xEventGroupWaitBits(eSOCKET_BOUND), cleared on exit, then the second look at
\* the list item; FreeRTOS_sendto goes on when the socket is bound.
BindWake(t) ==
    /\ pc[t] = "bindWait"
    /\ "BOUND" \in bits[sock[t]]
    /\ bits' = [bits EXCEPT ![sock[t]] = @ \ {"BOUND"}]
    /\ IF sending[t] /\ Bound(sock[t])
       THEN Goto(t, IF buf[t] = None THEN "getBuffer" ELSE "postZeroCopy")
       ELSE Return(t)
    /\ sending' = [sending EXCEPT ![t] = FALSE]
    /\ UNCHANGED <<pool, queue, handle, port, locPort, waiting, waking, driver, buf>>

----------------------------------------------------------------------------
(* FreeRTOS_sendto *)

\* The release of a buffer that could not be posted is forgotten.
MutPostFails(t) ==
    /\ pc[t] \in {"post", "postZeroCopy"}
    /\ ~HasRoom
    /\ Return(t)
    /\ buf' = [buf EXCEPT ![t] = IF pc[t] = "post" THEN None ELSE @]
    /\ UNCHANGED <<pool, queue, sockets, waking, driver, sending>>

\* A task that holds a zero-copy buffer sends that one.
SendTo(t, s) ==
    /\ MayUse(t, s)
    /\ \/ /\ StartBind(t, s, TRUE)
       \/ /\ Bound(s)
          /\ Call(t, s, IF buf[t] = None THEN "getBuffer" ELSE "postZeroCopy")
          /\ UNCHANGED sending
    /\ UNCHANGED <<pool, queue, sockets, waking, driver, buf>>

GetBuffer(t) ==
    /\ pc[t] = "getBuffer"
    /\ \E b \in pool : buf' = [buf EXCEPT ![t] = b] /\ pool' = pool \ {b}
    /\ Goto(t, "post")
    /\ UNCHANGED <<queue, sockets, waking, driver, sending>>

\* The pool stayed empty for xTicksToWait: sendto returns 0.
GetBufferFails(t) ==
    /\ pc[t] = "getBuffer"
    /\ pool = {}
    /\ Return(t)
    /\ UNCHANGED <<pool, queue, sockets, waking, driver, buf, sending>>

Post(t) ==
    /\ pc[t] \in {"post", "postZeroCopy"}
    /\ HasRoom
    /\ queue' = Append(queue, Event("tx", None, buf[t], port[sock[t]]))
    /\ buf' = [buf EXCEPT ![t] = None]
    /\ Return(t)
    /\ UNCHANGED <<pool, sockets, waking, driver, sending>>

\* The queue stayed full for xTicksToWait: sendto releases the buffer it took
\* and returns 0; a zero-copy buffer stays with the caller.
PostFails(t) ==
    /\ pc[t] \in {"post", "postZeroCopy"}
    /\ ~HasRoom
    /\ Return(t)
    /\ \/ pc[t] = "post" /\ pool' = pool \cup {buf[t]} /\ buf' = [buf EXCEPT ![t] = None]
       \/ pc[t] = "postZeroCopy" /\ UNCHANGED <<pool, buf>>
    /\ UNCHANGED <<queue, sockets, waking, driver, sending>>

GetUDPPayloadBuffer(t) ==
    /\ t \in ZeroCopy /\ pc[t] = "idle" /\ buf[t] = None
    /\ \E b \in pool : buf' = [buf EXCEPT ![t] = b] /\ pool' = pool \ {b}
    /\ UNCHANGED <<queue, sockets, waking, driver, pc, sock, sending>>

ReleaseUDPPayloadBuffer(t) ==
    /\ pc[t] = "idle" /\ buf[t] # None
    /\ pool' = pool \cup {buf[t]}
    /\ buf' = [buf EXCEPT ![t] = None]
    /\ UNCHANGED <<queue, sockets, waking, driver, pc, sock, sending>>

----------------------------------------------------------------------------
(* FreeRTOS_recvfrom *)

\* A wake-up by eSOCKET_RECEIVE is taken to mean that a packet waits.
MutRecvCount(t) ==
    /\ pc[t] \in {"recvCount", "recvTimedOut"}
    /\ Goto(t, "take")
    /\ UNCHANGED <<pool, queue, sockets, waking, driver, buf, sending>>

\* prvValidSocket wants a bound socket.  The length of the list is read outside
\* the critical section.
RecvFrom(t, s) ==
    /\ MayUse(t, s) /\ Bound(s) /\ buf[t] = None
    /\ Call(t, s, IF waiting[s] # <<>> THEN "take" ELSE "recvWait")
    /\ UNCHANGED <<pool, queue, sockets, waking, driver, buf, sending>>

\* xReceiveBlockTime is 0 and nothing waits: only a signal is taken.
RecvDontBlock(t, s) ==
    /\ MayUse(t, s) /\ Bound(s) /\ buf[t] = None
    /\ waiting[s] = <<>>
    /\ bits' = [bits EXCEPT ![s] = @ \ {"INTR"}]
    /\ UNCHANGED <<pool, queue, handle, port, locPort, waiting, waking, driver, tasks>>

\* A signal ends the call with EINTR and puts eSOCKET_RECEIVE back.
RecvWake(t) ==
    /\ pc[t] = "recvWait"
    /\ \/ /\ "INTR" \in bits[sock[t]]
          /\ bits' = [bits EXCEPT ![sock[t]] = @ \ {"INTR"}]
          /\ Return(t)
       \/ /\ "RECEIVE" \in bits[sock[t]] /\ "INTR" \notin bits[sock[t]]
          /\ bits' = [bits EXCEPT ![sock[t]] = @ \ {"RECEIVE"}]
          /\ Goto(t, "recvCount")
    /\ UNCHANGED <<pool, queue, handle, port, locPort, waiting, waking, driver, buf, sending>>

\* The event group returns without a bit.
RecvTimeout(t) ==
    /\ pc[t] = "recvWait"
    /\ bits[sock[t]] \cap {"RECEIVE", "INTR"} = {}
    /\ Goto(t, "recvTimedOut")
    /\ UNCHANGED <<pool, queue, sockets, waking, driver, buf, sending>>

\* The length again; with none waiting the call returns EWOULDBLOCK or, time
\* left, waits again.
RecvCount(t) ==
    /\ pc[t] \in {"recvCount", "recvTimedOut"}
    /\ \/ waiting[sock[t]] # <<>> /\ Goto(t, "take")
       \/ waiting[sock[t]] = <<>> /\ Return(t)
       \/ waiting[sock[t]] = <<>> /\ pc[t] = "recvCount" /\ Goto(t, "recvWait")
    /\ UNCHANGED <<pool, queue, sockets, waking, driver, buf, sending>>

\* The critical section, whatever the list holds by now, then the release of
\* the copied buffer, or the return of the zero-copy one.
RecvTake(t) ==
    /\ pc[t] = "take"
    /\ waiting[sock[t]] # <<>>
    /\ buf' = [buf EXCEPT ![t] = Head(waiting[sock[t]])]
    /\ waiting' = [waiting EXCEPT ![sock[t]] = Tail(@)]
    /\ Goto(t, "copy") \/ (t \in ZeroCopy /\ Return(t))
    /\ UNCHANGED <<pool, queue, handle, port, locPort, bits, waking, driver, sending>>

RecvCopy(t) ==
    /\ pc[t] = "copy"
    /\ pool' = pool \cup {buf[t]}
    /\ buf' = [buf EXCEPT ![t] = None]
    /\ Return(t)
    /\ UNCHANGED <<queue, sockets, waking, driver, sending>>

\* FreeRTOS_SignalSocket, by any task
Signal(s) ==
    /\ handle[s] = "open"
    /\ bits' = [bits EXCEPT ![s] = @ \cup {"INTR"}]
    /\ UNCHANGED <<pool, queue, handle, port, locPort, waiting, waking, driver, tasks>>

----------------------------------------------------------------------------
(* The IP task: one event at a time.  Its own steps are atomic up to the     *)
(* point where it wakes a socket's user.                                     *)

Received(type) == waking = <<>> /\ queue # <<>> /\ Head(queue).type = type

OnPort(p) == {s \in Sockets : Bound(s) /\ port[s] = p}

\* A failed bind does not wake the user.
MutBindEvent ==
    /\ Received("bind")
    /\ queue' = Tail(queue)
    /\ LET s == Head(queue).sock IN
       IF locPort[s] # 0 /\ OnPort(locPort[s]) # {}
       THEN /\ locPort' = [locPort EXCEPT ![s] = 0]
            /\ UNCHANGED <<port, waking>>
       ELSE /\ \E p \in Ports :
                  /\ p = locPort[s] \/ (locPort[s] = 0 /\ OnPort(p) = {})
                  /\ port' = [port EXCEPT ![s] = p]
                  /\ locPort' = [locPort EXCEPT ![s] = p]
            /\ waking' = <<s, "BOUND">>
    /\ UNCHANGED <<pool, handle, waiting, bits, driver, tasks>>

\* usLocPort is read and zeroed; vSocketBind gives the socket that port unless
\* a bound socket has it, and for 0 a port of the private range that none has.
\* Nothing tests that the socket is not bound already.
BindEvent ==
    /\ Received("bind")
    /\ queue' = Tail(queue)
    /\ LET s == Head(queue).sock IN
       /\ waking' = <<s, "BOUND">>
       /\ \/ /\ locPort[s] # 0 /\ OnPort(locPort[s]) # {}
             /\ locPort' = [locPort EXCEPT ![s] = 0]
             /\ UNCHANGED port
          \/ \E p \in Ports :
                /\ OnPort(p) = {}
                /\ locPort[s] \in {0, p}
                /\ port' = [port EXCEPT ![s] = p]
                /\ locPort' = [locPort EXCEPT ![s] = p]
    /\ UNCHANGED <<pool, handle, waiting, bits, driver, tasks>>

\* vWakeUpSocketUser after a bind, xEventGroupSetBits after a packet
WakeUser ==
    /\ waking # <<>>
    /\ bits' = [bits EXCEPT ![waking[1]] = @ \cup {waking[2]}]
    /\ waking' = <<>>
    /\ UNCHANGED <<pool, queue, handle, port, locPort, waiting, driver, tasks>>

\* vSocketClose: out of the bound list, then the waiting packets are released,
\* then the event group and the structure are freed.
CloseEvent ==
    /\ Received("close")
    /\ queue' = Tail(queue)
    /\ LET s == Head(queue).sock IN
       /\ port' = [port EXCEPT ![s] = 0]
       /\ locPort' = [locPort EXCEPT ![s] = 0]
       /\ pool' = pool \cup {waiting[s][i] : i \in DOMAIN waiting[s]}
       /\ waiting' = [waiting EXCEPT ![s] = <<>>]
       /\ bits' = [bits EXCEPT ![s] = {}]
       /\ handle' = [handle EXCEPT ![s] = "none"]
    /\ UNCHANGED <<waking, driver, tasks>>

\* vProcessGeneratedUDPPacket: a cache hit sends the datagram, a miss sends an
\* ARP request in the same buffer, and eCantSendPacket drops it.
TxEvent ==
    /\ Received("tx")
    /\ queue' = Tail(queue)
    /\ \/ driver' = driver \cup {Head(queue).buf} /\ UNCHANGED pool
       \/ pool' = pool \cup {Head(queue).buf} /\ UNCHANGED driver
    /\ UNCHANGED <<sockets, waking, tasks>>

\* The packet is inserted but its reader is not told.
MutRxEvent ==
    /\ Received("rx")
    /\ queue' = Tail(queue)
    /\ \/ /\ \E s \in OnPort(Head(queue).port) :
                waiting' = [waiting EXCEPT ![s] = Append(@, Head(queue).buf)]
          /\ UNCHANGED <<pool, driver>>
       \/ /\ OnPort(Head(queue).port) = {}
          /\ pool' = pool \cup {Head(queue).buf}
          /\ UNCHANGED <<waiting, driver>>
    /\ UNCHANGED <<handle, port, locPort, bits, waking, tasks>>

\* prvProcessEthernetPacket with xProcessReceivedUDPPacket: the packet goes to
\* the socket bound to its port; with no such socket it is released, and a frame
\* that is no UDP packet may also be returned to its sender.
RxEvent ==
    /\ Received("rx")
    /\ queue' = Tail(queue)
    /\ LET b == Head(queue).buf
           p == Head(queue).port IN
       \/ /\ \E s \in OnPort(p) :
                /\ waiting' = [waiting EXCEPT ![s] = Append(@, b)]
                /\ waking' = <<s, "RECEIVE">>
          /\ UNCHANGED <<pool, driver>>
       \/ /\ OnPort(p) = {}
          /\ pool' = pool \cup {b}
          /\ UNCHANGED <<waiting, waking, driver>>
       \/ /\ p = 0
          /\ driver' = driver \cup {b}
          /\ UNCHANGED <<pool, waiting, waking>>
    /\ UNCHANGED <<handle, port, locPort, bits, tasks>>

----------------------------------------------------------------------------
(* The driver *)

\* A frame for UDP port p, or (0) one that is no UDP packet.  With no buffer or
\* no room in the queue the frame is dropped.
ReceiveFrame ==
    /\ HasRoom
    /\ \E b \in pool, p \in Ports \cup {0} :
        /\ pool' = pool \ {b}
        /\ queue' = Append(queue, Event("rx", None, b, p))
    /\ UNCHANGED <<sockets, waking, driver, tasks>>

\* The transmission has ended.  xNetworkInterfaceOutput of NetworkInterface.c
\* sends a message of its own and forgets the buffer: no step of this kind.
TransmitDone ==
    /\ DriverReleases
    /\ \E b \in driver : driver' = driver \ {b} /\ pool' = pool \cup {b}
    /\ UNCHANGED <<queue, sockets, waking, tasks>>

----------------------------------------------------------------------------
StartCall(t) ==
    \/ \E s \in Sockets : \/ Socket(t, s) \/ CloseSocket(t, s) \/ Bind(t, s)
                          \/ SendTo(t, s) \/ RecvFrom(t, s) \/ RecvDontBlock(t, s)
    \/ GetUDPPayloadBuffer(t)
    \/ ReleaseUDPPayloadBuffer(t)

\* The steps of a call that wait for nothing but the processor, and the
\* wake-ups.  A time-out is never one of them.
Continue(t) ==
    \/ BindPort(t) \/ BindWake(t) \/ GetBuffer(t) \/ GetBufferFails(t) \/ Post(t) \/ PostFails(t)
    \/ RecvWake(t) \/ RecvCount(t) \/ RecvTake(t) \/ RecvCopy(t)

IPStep == BindEvent \/ WakeUser \/ CloseEvent \/ TxEvent \/ RxEvent

Next ==
    \/ \E t \in Tasks : StartCall(t) \/ BindSend(t) \/ Continue(t) \/ RecvTimeout(t)
    \/ \E s \in Signalled : Signal(s)
    \/ IPStep
    \/ ReceiveFrame
    \/ TransmitDone

Spec == Init /\ [][Next]_vars

\* The scheduler runs a ready task at some time; a sender blocked on the queue
\* is woken when it has room, though others may fill it again first.
FairSpec ==
    /\ Spec
    /\ WF_vars(IPStep)
    /\ WF_vars(TransmitDone)
    /\ \A t \in Tasks : WF_vars(Continue(t)) /\ SF_vars(BindSend(t))

----------------------------------------------------------------------------
(* Properties *)

\* The type invariant.
TypeOK ==
    /\ pool \subseteq Buffers /\ driver \subseteq Buffers
    /\ queue \in Seq([type : {"bind", "close", "tx", "rx"}, sock : Sockets \cup {None},
                      buf : Buffers \cup {None}, port : Ports \cup {0}])
    /\ Len(queue) <= QueueLength
    /\ handle \in [Sockets -> {"none", "open", "closing"}]
    /\ port \in [Sockets -> Ports \cup {0}]
    /\ locPort \in [Sockets -> Ports \cup {0}]
    /\ waiting \in [Sockets -> Seq(Buffers)]
    /\ bits \in [Sockets -> SUBSET Bits]
    /\ waking \in {<<>>} \cup (Sockets \X Bits)
    /\ pc \in [Tasks -> Steps]
    /\ sock \in [Tasks -> Sockets \cup {None}]
    /\ buf \in [Tasks -> Buffers \cup {None}]
    /\ sending \in [Tasks -> BOOLEAN]

\* Where a buffer is.
Places(b) ==
    {<<"event", i>> : i \in {j \in DOMAIN queue : queue[j].buf = b}}
    \cup (UNION {{<<"list", s, i>> : i \in {j \in DOMAIN waiting[s] : waiting[s][j] = b}} :
                 s \in Sockets})
    \cup {<<"task", t>> : t \in {u \in Tasks : buf[u] = b}}
    \cup {<<"pool">> : x \in {b} \cap pool}
    \cup {<<"driver">> : x \in {b} \cap driver}

\* Every buffer is in exactly one place (the pool, an event, a socket's list, a
\* task, the driver) whatever fails on the way: a full queue, an empty pool, a
\* close of a socket with packets waiting, a failed ARP lookup.
BuffersOwnedOnce == \A b \in Buffers : Cardinality(Places(b)) = 1

\* A reader that saw a non-zero length outside the critical section finds a
\* packet inside it: the close of a socket and the other calls never empty the
\* list in between when one task reads the socket.
TakeFindsPacket ==
    \A t \in Tasks : pc[t] = "take" => waiting[sock[t]] # <<>>

\* An event, a pending wake-up or a task blocked on an event group never names
\* a socket whose structure vSocketClose has freed.
NoFreedSocketUsed ==
    /\ \A i \in DOMAIN queue :
          queue[i].type \in {"bind", "close"} => handle[queue[i].sock] # "none"
    /\ waking # <<>> => handle[waking[1]] # "none"
    /\ \A t \in Tasks : sock[t] # None => handle[sock[t]] = "open"

Binding == {"bindPort", "bindSend", "bindWait"}

\* FreeRTOS_bind, which waits for the queue and for eSOCKET_BOUND without a
\* time-out, returns: also when the port is in use.
BindCompletes ==
    \A t \in Tasks : pc[t] \in Binding ~> pc[t] \notin Binding

\* A task that waits in FreeRTOS_recvfrom without a time-out is woken once a
\* packet waits for it, whichever signals and closes come between.
ReaderServed ==
    \A t \in Tasks :
        (pc[t] = "recvWait" /\ waiting[sock[t]] # <<>>) ~> (pc[t] # "recvWait")

\* "The network driver is responsible for freeing the network buffer after the
\* packet has been sent."
SentBuffersReturn == \A b \in Buffers : b \in driver ~> b \in pool

=============================================================================
