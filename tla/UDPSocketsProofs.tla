-------------------------- MODULE UDPSocketsProofs --------------------------
(***************************************************************************)
(* For any number of tasks, sockets, ports and buffers: every buffer is in *)
(* one place whatever fails on the way, and, while each socket is used by  *)
(* one task, no freed socket is used and no packet is taken from an empty  *)
(* list.                                                                   *)
(***************************************************************************)
EXTENDS UDPSockets, FiniteSetTheorems, TLAPS

EventSet == [type : {"bind", "close", "tx", "rx"}, sock : Sockets \cup {None},
             buf : Buffers \cup {None}, port : Ports \cup {0}]

\* The types of the IP task's and the sockets' state.
SocketTypes ==
    /\ pool \subseteq Buffers /\ driver \subseteq Buffers
    /\ handle \in [Sockets -> {"none", "open", "closing"}]
    /\ port \in [Sockets -> Ports \cup {0}]
    /\ locPort \in [Sockets -> Ports \cup {0}]
    /\ waiting \in [Sockets -> Seq(Buffers)]
    /\ bits \in [Sockets -> SUBSET Bits]
    /\ waking \in {<<>>} \cup (Sockets \X Bits)

QueueTypes == queue \in Seq(EventSet) /\ Len(queue) <= QueueLength

TaskTypes ==
    /\ pc \in [Tasks -> Steps]
    /\ sock \in [Tasks -> Sockets \cup {None}]
    /\ buf \in [Tasks -> Buffers \cup {None}]
    /\ sending \in [Tasks -> BOOLEAN]

\* A call names its socket, and holds a buffer only where the code does.
CallsOK ==
    \A t \in Tasks :
        /\ pc[t] = "idle" <=> sock[t] = None
        /\ pc[t] \in {"post", "postZeroCopy", "copy"} => buf[t] # None
        /\ pc[t] \in {"getBuffer", "recvWait", "recvCount", "recvTimedOut", "take"}
           => buf[t] = None

\* An event carries a socket or a buffer.
EventsOK ==
    \A i \in 1..Len(queue) :
        /\ queue[i].type \in {"bind", "close"} => queue[i].sock \in Sockets /\ queue[i].buf = None
        /\ queue[i].type \in {"tx", "rx"} => queue[i].buf \in Buffers

Types == SocketTypes /\ QueueTypes /\ TaskTypes /\ CallsOK /\ EventsOK

LEMMA TypesOK == Types => TypeOK
BY DEF Types, SocketTypes, QueueTypes, TaskTypes, EventSet, TypeOK

USE QueueAssumption, NoneAssumption

----------------------------------------------------------------------------
(* The queue, and the steps of a call *)

\* Appending an event to a queue with room.
LEMMA AppendEvent ==
  ASSUME QueueTypes, HasRoom, NEW e \in EventSet, queue' = Append(queue, e)
  PROVE  /\ QueueTypes'
         /\ Len(queue) \in Nat /\ Len(queue') = Len(queue) + 1
         /\ \A i \in 1..Len(queue) : queue'[i] = queue[i]
         /\ queue'[Len(queue) + 1] = e
BY DEF QueueTypes, HasRoom

\* Taking the first event.
LEMMA TailEvent ==
  ASSUME QueueTypes, queue # <<>>, queue' = Tail(queue)
  PROVE  /\ QueueTypes'
         /\ Len(queue) \in Nat /\ Len(queue') = Len(queue) - 1
         /\ \A i \in 1..Len(queue') : i + 1 \in 1..Len(queue) /\ queue'[i] = queue[i + 1]
         /\ Head(queue) = queue[1] /\ 1 \in 1..Len(queue) /\ Head(queue) \in EventSet
BY DEF QueueTypes

\* What is appended keeps the events in order, or is a pair of them.
LEMMA AppendKeepsEvents ==
  ASSUME QueueTypes, EventsOK, HasRoom, NEW e \in EventSet, queue' = Append(queue, e),
         e.type \in {"bind", "close"} => e.sock \in Sockets /\ e.buf = None,
         e.type \in {"tx", "rx"} => e.buf \in Buffers
  PROVE  QueueTypes' /\ EventsOK'
<1>1. /\ QueueTypes'
      /\ Len(queue) \in Nat /\ Len(queue') = Len(queue) + 1
      /\ \A i \in 1..Len(queue) : queue'[i] = queue[i]
      /\ queue'[Len(queue) + 1] = e
  BY AppendEvent
<1>2. \A i \in 1..Len(queue') : i \in 1..Len(queue) \/ i = Len(queue) + 1
  BY <1>1
<1> QED BY <1>1, <1>2 DEF EventsOK

LEMMA TailKeepsEvents ==
  ASSUME QueueTypes, EventsOK, queue # <<>>, queue' = Tail(queue)
  PROVE  /\ QueueTypes' /\ EventsOK' /\ Head(queue) \in EventSet
         /\ Head(queue).type \in {"bind", "close"} =>
               Head(queue).sock \in Sockets /\ Head(queue).buf = None
         /\ Head(queue).type \in {"tx", "rx"} => Head(queue).buf \in Buffers
<1>1. /\ QueueTypes'
      /\ \A i \in 1..Len(queue') : i + 1 \in 1..Len(queue) /\ queue'[i] = queue[i + 1]
      /\ Head(queue) = queue[1] /\ 1 \in 1..Len(queue) /\ Head(queue) \in EventSet
  BY TailEvent
<1> QED BY <1>1 DEF EventsOK

\* A task goes to a step of its call; the others stay where they are.
LEMMA CallStep ==
  ASSUME TaskTypes, NEW t \in Tasks, NEW s \in Sockets \cup {None}, NEW step \in Steps,
         Call(t, s, step)
  PROVE  /\ pc' \in [Tasks -> Steps] /\ sock' \in [Tasks -> Sockets \cup {None}]
         /\ pc'[t] = step /\ sock'[t] = s
         /\ \A u \in Tasks \ {t} : pc'[u] = pc[u] /\ sock'[u] = sock[u]
BY DEF TaskTypes, Call

LEMMA GotoStep ==
  ASSUME TaskTypes, NEW t \in Tasks, NEW step \in Steps, Goto(t, step)
  PROVE  /\ pc' \in [Tasks -> Steps] /\ sock' \in [Tasks -> Sockets \cup {None}]
         /\ pc'[t] = step /\ sock'[t] = sock[t]
         /\ \A u \in Tasks \ {t} : pc'[u] = pc[u] /\ sock'[u] = sock[u]
<1>1. sock[t] \in Sockets \cup {None}
  BY DEF TaskTypes
<1> QED BY <1>1, CallStep DEF Goto

LEMMA ReturnStep ==
  ASSUME TaskTypes, NEW t \in Tasks, Return(t)
  PROVE  /\ pc' \in [Tasks -> Steps] /\ sock' \in [Tasks -> Sockets \cup {None}]
         /\ pc'[t] = "idle" /\ sock'[t] = None
         /\ \A u \in Tasks \ {t} : pc'[u] = pc[u] /\ sock'[u] = sock[u]
<1>1. "idle" \in Steps /\ None \in Sockets \cup {None}
  BY DEF Steps
<1> QED BY <1>1, CallStep DEF Return

\* The buffer of a task.
LEMMA BufStep ==
  ASSUME TaskTypes, NEW t \in Tasks, NEW b \in Buffers \cup {None}, buf' = [buf EXCEPT ![t] = b]
  PROVE  /\ buf' \in [Tasks -> Buffers \cup {None}]
         /\ buf'[t] = b /\ \A u \in Tasks \ {t} : buf'[u] = buf[u]
BY DEF TaskTypes

\* Only the call of t moves.
LEMMA OneCall ==
  ASSUME CallsOK, NEW t \in Tasks,
         \A u \in Tasks \ {t} : pc'[u] = pc[u] /\ sock'[u] = sock[u] /\ buf'[u] = buf[u],
         pc'[t] = "idle" <=> sock'[t] = None,
         pc'[t] \in {"post", "postZeroCopy", "copy"} => buf'[t] # None,
         pc'[t] \in {"getBuffer", "recvWait", "recvCount", "recvTimedOut", "take"}
           => buf'[t] = None
  PROVE  CallsOK'
BY DEF CallsOK

----------------------------------------------------------------------------
(* Type correctness *)

LEMMA SocketsTypes ==
  ASSUME Types, NEW t \in Tasks, NEW s \in Sockets, Socket(t, s)
  PROVE  Types'
<1>1. SocketTypes'
  BY DEF Types, SocketTypes, Socket
<1> QED BY <1>1 DEF Types, QueueTypes, TaskTypes, CallsOK, EventsOK, Socket, tasks

LEMMA CloseTypes ==
  ASSUME Types, NEW t \in Tasks, NEW s \in Sockets, CloseSocket(t, s)
  PROVE  Types'
<1> DEFINE e == Event("close", s, None, 0)
<1>1. e \in EventSet /\ e.type = "close" /\ e.sock = s /\ e.buf = None
  BY DEF Event, EventSet
<1>2. QueueTypes /\ EventsOK /\ HasRoom /\ queue' = Append(queue, e)
  BY DEF Types, CloseSocket
<1> HIDE DEF e
<1>3. QueueTypes' /\ EventsOK'
  BY <1>1, <1>2, AppendKeepsEvents
<1>4. SocketTypes'
  BY DEF Types, SocketTypes, CloseSocket
<1> QED BY <1>3, <1>4 DEF Types, TaskTypes, CallsOK, CloseSocket, tasks

\* The calls that move the task and change no socket.
LEMMA StartTypes ==
  ASSUME Types, NEW t \in Tasks, NEW s \in Sockets,
         Bind(t, s) \/ SendTo(t, s) \/ RecvFrom(t, s)
  PROVE  Types'
<1>0. TaskTypes /\ CallsOK
  BY DEF Types
<1>1. PICK step \in Steps :
        /\ Call(t, s, step) /\ step # "idle" /\ sending' \in [Tasks -> BOOLEAN]
        /\ step \in {"post", "postZeroCopy", "copy"} => buf[t] # None
        /\ step \in {"getBuffer", "recvWait", "recvCount", "recvTimedOut", "take"}
           => buf[t] = None
  <2>1. CASE Bind(t, s)
    <3>1. sending' \in [Tasks -> BOOLEAN]
      BY <1>0, <2>1 DEF TaskTypes, Bind, StartBind
    <3> QED BY <3>1, <2>1 DEF Bind, StartBind, Steps
  <2>2. CASE SendTo(t, s)
    <3>1. sending' \in [Tasks -> BOOLEAN]
      BY <1>0, <2>2 DEF TaskTypes, SendTo, StartBind
    <3> QED BY <3>1, <2>2 DEF SendTo, StartBind, Steps
  <2>3. CASE RecvFrom(t, s)
    <3>1. sending' \in [Tasks -> BOOLEAN]
      BY <1>0, <2>3 DEF TaskTypes, RecvFrom
    <3> QED BY <3>1, <2>3 DEF RecvFrom, Steps
  <2> QED BY <2>1, <2>2, <2>3
<1>2. /\ pc' \in [Tasks -> Steps] /\ sock' \in [Tasks -> Sockets \cup {None}]
      /\ pc'[t] = step /\ sock'[t] = s
      /\ \A u \in Tasks \ {t} : pc'[u] = pc[u] /\ sock'[u] = sock[u]
  BY <1>0, <1>1, CallStep
<1>3. UNCHANGED <<pool, queue, handle, port, locPort, waiting, bits, waking, driver, buf>>
  BY DEF Bind, SendTo, RecvFrom, sockets
<1>4. CallsOK'
  BY <1>0, <1>1, <1>2, <1>3, OneCall
<1>5. SocketTypes' /\ QueueTypes' /\ EventsOK'
  BY <1>3 DEF Types, SocketTypes, QueueTypes, EventsOK
<1> QED BY <1>0, <1>1, <1>2, <1>3, <1>4, <1>5 DEF Types, TaskTypes

\* The calls that move no task.
LEMMA AtOnceTypes ==
  ASSUME Types, NEW t \in Tasks,
         \/ \E s \in Sockets : RecvDontBlock(t, s)
         \/ GetUDPPayloadBuffer(t)
         \/ ReleaseUDPPayloadBuffer(t)
  PROVE  Types'
<1>0. TaskTypes /\ CallsOK /\ SocketTypes
  BY DEF Types
<1>1. CASE \E s \in Sockets : RecvDontBlock(t, s)
  <2>1. SocketTypes'
    BY <1>0, <1>1 DEF SocketTypes, RecvDontBlock
  <2> QED BY <2>1, <1>1 DEF Types, QueueTypes, TaskTypes, CallsOK, EventsOK, RecvDontBlock, tasks
<1>2. CASE GetUDPPayloadBuffer(t)
  <2>1. PICK b \in pool : buf' = [buf EXCEPT ![t] = b] /\ pool' = pool \ {b}
    BY <1>2 DEF GetUDPPayloadBuffer
  <2>2. b \in Buffers
    BY <2>1, <1>0 DEF SocketTypes
  <2>3. /\ buf' \in [Tasks -> Buffers \cup {None}]
        /\ buf'[t] = b /\ \A u \in Tasks \ {t} : buf'[u] = buf[u]
    BY <2>1, <2>2, <1>0, BufStep
  <2>4. CallsOK'
    BY <2>3, <1>0, <1>2, OneCall DEF GetUDPPayloadBuffer, CallsOK
  <2>5. SocketTypes'
    BY <2>1, <1>0, <1>2 DEF GetUDPPayloadBuffer, SocketTypes, sockets
  <2> QED BY <2>3, <2>4, <2>5, <1>2 DEF Types, QueueTypes, TaskTypes, EventsOK, GetUDPPayloadBuffer
<1>3. CASE ReleaseUDPPayloadBuffer(t)
  <2>1. buf' = [buf EXCEPT ![t] = None]
    BY <1>3 DEF ReleaseUDPPayloadBuffer
  <2>3. /\ buf' \in [Tasks -> Buffers \cup {None}]
        /\ buf'[t] = None /\ \A u \in Tasks \ {t} : buf'[u] = buf[u]
    BY <2>1, <1>0, BufStep
  <2>4. CallsOK'
    BY <2>3, <1>0, <1>3, OneCall DEF ReleaseUDPPayloadBuffer, CallsOK
  <2>5. buf[t] \in Buffers
    BY <1>0, <1>3 DEF ReleaseUDPPayloadBuffer, TaskTypes
  <2>6. SocketTypes'
    BY <2>5, <1>0, <1>3 DEF ReleaseUDPPayloadBuffer, SocketTypes, sockets
  <2> QED BY <2>3, <2>4, <2>6, <1>3 DEF Types, QueueTypes, TaskTypes, EventsOK, ReleaseUDPPayloadBuffer
<1> QED BY <1>1, <1>2, <1>3

\* The steps of FreeRTOS_bind.
LEMMA BindTypes ==
  ASSUME Types, NEW t \in Tasks, BindPort(t) \/ BindSend(t) \/ BindWake(t)
  PROVE  Types'
<1>0. TaskTypes /\ CallsOK /\ SocketTypes /\ QueueTypes /\ EventsOK
  BY DEF Types
<1>s. sock[t] \in Sockets
  BY <1>0 DEF TaskTypes, CallsOK, BindPort, BindSend, BindWake
<1>1. CASE BindPort(t)
  <2>0. "bindSend" \in Steps /\ Goto(t, "bindSend")
    BY <1>1 DEF Steps, BindPort
  <2>1. /\ pc' \in [Tasks -> Steps] /\ sock' \in [Tasks -> Sockets \cup {None}]
        /\ pc'[t] = "bindSend" /\ sock'[t] = sock[t]
        /\ \A u \in Tasks \ {t} : pc'[u] = pc[u] /\ sock'[u] = sock[u]
    BY <2>0, <1>0, GotoStep
  <2>2. PICK wanted \in Ports \cup {0} : locPort' = [locPort EXCEPT ![sock[t]] = wanted]
    BY <1>1, WantedAssumption DEF BindPort
  <2>3. UNCHANGED <<pool, queue, handle, port, waiting, bits, waking, driver, buf, sending>>
    BY <1>1 DEF BindPort
  <2>4. CallsOK'
    BY <2>1, <2>3, <1>0, <1>s, OneCall
  <2>5. SocketTypes'
    BY <2>2, <2>3, <1>0 DEF SocketTypes
  <2> QED BY <2>1, <2>3, <2>4, <2>5, <1>0 DEF Types, QueueTypes, TaskTypes, EventsOK
<1>2. CASE BindSend(t)
  <2> DEFINE e == Event("bind", sock[t], None, 0)
  <2>0. "bindWait" \in Steps /\ Goto(t, "bindWait")
    BY <1>2 DEF Steps, BindSend
  <2>1. /\ pc' \in [Tasks -> Steps] /\ sock' \in [Tasks -> Sockets \cup {None}]
        /\ pc'[t] = "bindWait" /\ sock'[t] = sock[t]
        /\ \A u \in Tasks \ {t} : pc'[u] = pc[u] /\ sock'[u] = sock[u]
    BY <2>0, <1>0, GotoStep
  <2>2. e \in EventSet /\ e.type = "bind" /\ e.sock = sock[t] /\ e.buf = None
    BY <1>s DEF Event, EventSet
  <2>3. /\ UNCHANGED <<pool, handle, port, locPort, waiting, bits, waking, driver, buf, sending>>
        /\ HasRoom /\ queue' = Append(queue, e)
    BY <1>2 DEF BindSend, sockets
  <2> HIDE DEF e
  <2>4. CallsOK'
    BY <2>1, <2>3, <1>0, <1>s, OneCall
  <2>5. QueueTypes' /\ EventsOK'
    BY <2>2, <2>3, <1>0, <1>s, AppendKeepsEvents
  <2>6. SocketTypes'
    BY <2>3, <1>0 DEF SocketTypes
  <2> QED BY <2>1, <2>3, <2>4, <2>5, <2>6, <1>0 DEF Types, TaskTypes
<1>3. CASE BindWake(t)
  <2>1. PICK step \in Steps, s \in Sockets \cup {None} :
          /\ Call(t, s, step)
          /\ step = "idle" <=> s = None
          /\ step \in {"idle", "getBuffer", "postZeroCopy"}
          /\ step = "getBuffer" => buf[t] = None
          /\ step = "postZeroCopy" => buf[t] # None
    <3>1. CASE sending[t] /\ Bound(sock[t])
      <4>1. Call(t, sock[t], IF buf[t] = None THEN "getBuffer" ELSE "postZeroCopy")
        BY <3>1, <1>3 DEF BindWake, Goto
      <4> QED BY <4>1, <1>s DEF Steps
    <3>2. CASE ~(sending[t] /\ Bound(sock[t]))
      BY <3>2, <1>3 DEF BindWake, Return, Steps
    <3> QED BY <3>1, <3>2
  <2>2. /\ pc' \in [Tasks -> Steps] /\ sock' \in [Tasks -> Sockets \cup {None}]
        /\ pc'[t] = step /\ sock'[t] = s
        /\ \A u \in Tasks \ {t} : pc'[u] = pc[u] /\ sock'[u] = sock[u]
    BY <2>1, <1>0, CallStep
  <2>3. /\ UNCHANGED <<pool, queue, handle, port, locPort, waiting, waking, driver, buf>>
        /\ bits' = [bits EXCEPT ![sock[t]] = @ \ {"BOUND"}]
        /\ sending' = [sending EXCEPT ![t] = FALSE]
    BY <1>3 DEF BindWake
  <2>4. CallsOK'
    BY <2>1, <2>2, <2>3, <1>0, OneCall
  <2>5. SocketTypes'
    BY <2>3, <1>0, <1>s DEF SocketTypes
  <2>6. sending' \in [Tasks -> BOOLEAN]
    BY <2>3, <1>0 DEF TaskTypes
  <2> QED BY <2>2, <2>3, <2>4, <2>5, <2>6, <1>0 DEF Types, QueueTypes, TaskTypes, EventsOK
<1> QED BY <1>1, <1>2, <1>3

\* The steps of FreeRTOS_sendto.
LEMMA SendTypes ==
  ASSUME Types, NEW t \in Tasks, GetBuffer(t) \/ GetBufferFails(t) \/ Post(t) \/ PostFails(t)
  PROVE  Types'
<1>0. TaskTypes /\ CallsOK /\ SocketTypes /\ QueueTypes /\ EventsOK
  BY DEF Types
<1>s. sock[t] \in Sockets
  BY <1>0 DEF TaskTypes, CallsOK, GetBuffer, GetBufferFails, Post, PostFails
<1>f. /\ UNCHANGED <<handle, port, locPort, waiting, bits, waking, driver, sending>>
  BY DEF GetBuffer, GetBufferFails, Post, PostFails, sockets
<1>1. CASE GetBuffer(t)
  <2>0. "post" \in Steps /\ Goto(t, "post")
    BY <1>1 DEF Steps, GetBuffer
  <2>1. /\ pc' \in [Tasks -> Steps] /\ sock' \in [Tasks -> Sockets \cup {None}]
        /\ pc'[t] = "post" /\ sock'[t] = sock[t]
        /\ \A u \in Tasks \ {t} : pc'[u] = pc[u] /\ sock'[u] = sock[u]
    BY <2>0, <1>0, GotoStep
  <2>2. PICK b \in pool : buf' = [buf EXCEPT ![t] = b] /\ pool' = pool \ {b}
    BY <1>1 DEF GetBuffer
  <2>3. b \in Buffers /\ b # None
    BY <2>2, <1>0 DEF SocketTypes
  <2>4. /\ buf' \in [Tasks -> Buffers \cup {None}]
        /\ buf'[t] = b /\ \A u \in Tasks \ {t} : buf'[u] = buf[u]
    BY <2>2, <2>3, <1>0, BufStep
  <2>5. CallsOK'
    BY <2>1, <2>3, <2>4, <1>0, <1>s, OneCall
  <2>6. SocketTypes'
    BY <2>2, <1>0, <1>f DEF SocketTypes
  <2>7. UNCHANGED queue
    BY <1>1 DEF GetBuffer
  <2> QED BY <2>1, <2>4, <2>5, <2>6, <2>7, <1>0, <1>f DEF Types, QueueTypes, TaskTypes, EventsOK
<1>2. CASE GetBufferFails(t)
  <2>1. /\ pc' \in [Tasks -> Steps] /\ sock' \in [Tasks -> Sockets \cup {None}]
        /\ pc'[t] = "idle" /\ sock'[t] = None
        /\ \A u \in Tasks \ {t} : pc'[u] = pc[u] /\ sock'[u] = sock[u]
    BY <1>2, <1>0, ReturnStep DEF GetBufferFails
  <2>2. UNCHANGED <<pool, queue, buf>>
    BY <1>2 DEF GetBufferFails
  <2>3. CallsOK'
    BY <2>1, <2>2, <1>0, OneCall
  <2>4. SocketTypes'
    BY <2>2, <1>0, <1>f DEF SocketTypes
  <2> QED BY <2>1, <2>2, <2>3, <2>4, <1>0, <1>f DEF Types, QueueTypes, TaskTypes, EventsOK
<1>3. CASE Post(t)
  <2> DEFINE e == Event("tx", None, buf[t], port[sock[t]])
  <2>1. /\ pc' \in [Tasks -> Steps] /\ sock' \in [Tasks -> Sockets \cup {None}]
        /\ pc'[t] = "idle" /\ sock'[t] = None
        /\ \A u \in Tasks \ {t} : pc'[u] = pc[u] /\ sock'[u] = sock[u]
    BY <1>3, <1>0, ReturnStep DEF Post
  <2>2. buf[t] \in Buffers
    BY <1>3, <1>0 DEF Post, TaskTypes, CallsOK
  <2>3. port[sock[t]] \in Ports \cup {0}
    BY <1>0, <1>s DEF SocketTypes
  <2>4. e \in EventSet /\ e.type = "tx" /\ e.buf = buf[t]
    BY <2>2, <2>3 DEF Event, EventSet
  <2>5. HasRoom /\ queue' = Append(queue, e) /\ buf' = [buf EXCEPT ![t] = None] /\ UNCHANGED pool
    BY <1>3 DEF Post
  <2> HIDE DEF e
  <2>6. QueueTypes' /\ EventsOK'
    BY <2>2, <2>4, <2>5, <1>0, AppendKeepsEvents
  <2>7. /\ buf' \in [Tasks -> Buffers \cup {None}]
        /\ buf'[t] = None /\ \A u \in Tasks \ {t} : buf'[u] = buf[u]
    BY <2>5, <1>0, BufStep
  <2>8. CallsOK'
    BY <2>1, <2>7, <1>0, OneCall
  <2>9. SocketTypes'
    BY <2>5, <1>0, <1>f DEF SocketTypes
  <2> QED BY <2>1, <2>6, <2>7, <2>8, <2>9, <1>0, <1>f DEF Types, TaskTypes
<1>4. CASE PostFails(t)
  <2>1. /\ pc' \in [Tasks -> Steps] /\ sock' \in [Tasks -> Sockets \cup {None}]
        /\ pc'[t] = "idle" /\ sock'[t] = None
        /\ \A u \in Tasks \ {t} : pc'[u] = pc[u] /\ sock'[u] = sock[u]
    BY <1>4, <1>0, ReturnStep DEF PostFails
  <2>2. buf[t] \in Buffers
    BY <1>4, <1>0 DEF PostFails, TaskTypes, CallsOK
  <2>3. UNCHANGED queue
    BY <1>4 DEF PostFails
  <2>4. /\ buf' \in [Tasks -> Buffers \cup {None}] /\ pool' \subseteq Buffers
        /\ \A u \in Tasks \ {t} : buf'[u] = buf[u]
    <3>1. CASE pool' = pool \cup {buf[t]} /\ buf' = [buf EXCEPT ![t] = None]
      <4>1. pool' \subseteq Buffers
        BY <3>1, <2>2, <1>0 DEF SocketTypes
      <4> QED BY <4>1, <3>1, <1>0, BufStep
    <3>2. CASE UNCHANGED <<pool, buf>>
      BY <3>2, <1>0 DEF SocketTypes, TaskTypes
    <3> QED BY <3>1, <3>2, <1>4 DEF PostFails
  <2>5. CallsOK'
    BY <2>1, <2>4, <1>0, OneCall
  <2>6. SocketTypes'
    BY <2>4, <1>0, <1>f DEF SocketTypes
  <2> QED BY <2>1, <2>3, <2>4, <2>5, <2>6, <1>0, <1>f DEF Types, QueueTypes, TaskTypes, EventsOK
<1> QED BY <1>1, <1>2, <1>3, <1>4

\* The steps of FreeRTOS_recvfrom up to the critical section.
LEMMA WaitTypes ==
  ASSUME Types, NEW t \in Tasks, RecvWake(t) \/ RecvTimeout(t) \/ RecvCount(t)
  PROVE  Types'
<1>0. TaskTypes /\ CallsOK /\ SocketTypes /\ QueueTypes /\ EventsOK
  BY DEF Types
<1>s. sock[t] \in Sockets /\ buf[t] = None
  BY <1>0 DEF TaskTypes, CallsOK, RecvWake, RecvTimeout, RecvCount
<1>1. PICK step \in Steps, s \in Sockets \cup {None} :
        /\ Call(t, s, step)
        /\ step = "idle" <=> s = None
        /\ step \in {"idle", "recvWait", "recvCount", "recvTimedOut", "take"}
  <2>1. CASE Return(t)
    BY <2>1 DEF Return, Steps
  <2>2. CASE \E step \in {"recvWait", "recvCount", "recvTimedOut", "take"} : Goto(t, step)
    BY <2>2, <1>s DEF Goto, Steps
  <2> QED BY <2>1, <2>2 DEF RecvWake, RecvTimeout, RecvCount
<1>2. /\ pc' \in [Tasks -> Steps] /\ sock' \in [Tasks -> Sockets \cup {None}]
      /\ pc'[t] = step /\ sock'[t] = s
      /\ \A u \in Tasks \ {t} : pc'[u] = pc[u] /\ sock'[u] = sock[u]
  BY <1>0, <1>1, CallStep
<1>3. UNCHANGED <<pool, queue, handle, port, locPort, waiting, waking, driver, buf, sending>>
  BY DEF RecvWake, RecvTimeout, RecvCount, sockets
<1>4. bits' \in [Sockets -> SUBSET Bits]
  <2>1. CASE RecvWake(t)
    <3>1. \A x : [bits EXCEPT ![sock[t]] = @ \ {x}] \in [Sockets -> SUBSET Bits]
      BY <1>0, <1>s DEF SocketTypes
    <3> QED BY <2>1, <3>1 DEF RecvWake
  <2>2. CASE UNCHANGED bits
    BY <2>2, <1>0 DEF SocketTypes
  <2> QED BY <2>1, <2>2 DEF RecvTimeout, RecvCount, sockets
<1>5. CallsOK'
  BY <1>0, <1>1, <1>2, <1>3, <1>s, OneCall
<1>6. SocketTypes'
  BY <1>0, <1>3, <1>4 DEF SocketTypes
<1> QED BY <1>0, <1>2, <1>3, <1>5, <1>6 DEF Types, QueueTypes, TaskTypes, EventsOK

\* The head and the tail of a list of packets.
LEMMA WaitingHead ==
  ASSUME waiting \in [Sockets -> Seq(Buffers)], NEW s \in Sockets, waiting[s] # <<>>
  PROVE  /\ Head(waiting[s]) \in Buffers /\ Tail(waiting[s]) \in Seq(Buffers)
         /\ Len(waiting[s]) \in Nat /\ Len(Tail(waiting[s])) = Len(waiting[s]) - 1
         /\ \A i \in 1..Len(Tail(waiting[s])) :
               i + 1 \in 1..Len(waiting[s]) /\ Tail(waiting[s])[i] = waiting[s][i + 1]
         /\ Head(waiting[s]) = waiting[s][1] /\ 1 \in 1..Len(waiting[s])
<1>1. waiting[s] \in Seq(Buffers)
  OBVIOUS
<1> QED BY <1>1

\* The critical section and the copy.
LEMMA TakeTypes ==
  ASSUME Types, NEW t \in Tasks, RecvTake(t) \/ RecvCopy(t)
  PROVE  Types'
<1>0. TaskTypes /\ CallsOK /\ SocketTypes /\ QueueTypes /\ EventsOK
  BY DEF Types
<1>s. sock[t] \in Sockets
  BY <1>0 DEF TaskTypes, CallsOK, RecvTake, RecvCopy
<1>1. CASE RecvTake(t)
  <2>1. PICK step \in Steps, s \in Sockets \cup {None} :
          /\ Call(t, s, step)
          /\ step = "idle" <=> s = None
          /\ step \in {"idle", "copy"}
    <3>1. CASE Return(t)
      BY <3>1 DEF Return, Steps
    <3>2. CASE Goto(t, "copy")
      BY <3>2, <1>s DEF Goto, Steps
    <3> QED BY <3>1, <3>2, <1>1 DEF RecvTake
  <2>2. /\ pc' \in [Tasks -> Steps] /\ sock' \in [Tasks -> Sockets \cup {None}]
        /\ pc'[t] = step /\ sock'[t] = s
        /\ \A u \in Tasks \ {t} : pc'[u] = pc[u] /\ sock'[u] = sock[u]
    BY <1>0, <2>1, CallStep
  <2>3. /\ UNCHANGED <<pool, queue, handle, port, locPort, bits, waking, driver, sending>>
        /\ waiting[sock[t]] # <<>>
        /\ buf' = [buf EXCEPT ![t] = Head(waiting[sock[t]])]
        /\ waiting' = [waiting EXCEPT ![sock[t]] = Tail(waiting[sock[t]])]
    BY <1>1 DEF RecvTake
  <2>4. Head(waiting[sock[t]]) \in Buffers /\ Tail(waiting[sock[t]]) \in Seq(Buffers)
    BY <2>3, <1>0, <1>s, WaitingHead DEF SocketTypes
  <2>5. waiting' \in [Sockets -> Seq(Buffers)]
    BY <2>3, <2>4, <1>0 DEF SocketTypes
  <2>6. /\ buf' \in [Tasks -> Buffers \cup {None}]
        /\ buf'[t] # None /\ \A u \in Tasks \ {t} : buf'[u] = buf[u]
    BY <2>3, <2>4, <1>0 DEF TaskTypes
  <2>7. CallsOK'
    BY <2>1, <2>2, <2>6, <1>0, OneCall
  <2>8. SocketTypes'
    BY <2>3, <2>5, <1>0 DEF SocketTypes
  <2> QED BY <2>2, <2>3, <2>6, <2>7, <2>8, <1>0 DEF Types, QueueTypes, TaskTypes, EventsOK
<1>2. CASE RecvCopy(t)
  <2>1. /\ pc' \in [Tasks -> Steps] /\ sock' \in [Tasks -> Sockets \cup {None}]
        /\ pc'[t] = "idle" /\ sock'[t] = None
        /\ \A u \in Tasks \ {t} : pc'[u] = pc[u] /\ sock'[u] = sock[u]
    BY <1>2, <1>0, ReturnStep DEF RecvCopy
  <2>2. buf[t] \in Buffers
    BY <1>2, <1>0 DEF RecvCopy, TaskTypes, CallsOK
  <2>3. /\ UNCHANGED <<queue, handle, port, locPort, waiting, bits, waking, driver, sending>>
        /\ pool' = pool \cup {buf[t]} /\ buf' = [buf EXCEPT ![t] = None]
    BY <1>2 DEF RecvCopy, sockets
  <2>4. /\ buf' \in [Tasks -> Buffers \cup {None}]
        /\ buf'[t] = None /\ \A u \in Tasks \ {t} : buf'[u] = buf[u]
    BY <2>3, <1>0, BufStep
  <2>5. CallsOK'
    BY <2>1, <2>4, <1>0, OneCall
  <2>6. SocketTypes'
    BY <2>2, <2>3, <1>0 DEF SocketTypes
  <2> QED BY <2>1, <2>3, <2>4, <2>5, <2>6, <1>0 DEF Types, QueueTypes, TaskTypes, EventsOK
<1> QED BY <1>1, <1>2

\* The handlers of the IP task.
LEMMA IPTypes ==
  ASSUME Types, IPStep
  PROVE  Types'
<1>0. TaskTypes /\ CallsOK /\ SocketTypes /\ QueueTypes /\ EventsOK
  BY DEF Types
<1>t. UNCHANGED tasks
  BY DEF IPStep, BindEvent, WakeUser, CloseEvent, TxEvent, RxEvent
<1>c. TaskTypes' /\ CallsOK'
  BY <1>0, <1>t DEF TaskTypes, CallsOK, tasks
<1>1. CASE WakeUser
  <2>1. waking[1] \in Sockets /\ waking[2] \in Bits
    BY <1>1, <1>0 DEF WakeUser, SocketTypes
  <2>2. bits' \in [Sockets -> SUBSET Bits]
    BY <2>1, <1>1, <1>0 DEF WakeUser, SocketTypes
  <2>3. SocketTypes'
    BY <2>2, <1>1, <1>0 DEF WakeUser, SocketTypes
  <2> QED BY <2>3, <1>1, <1>0, <1>c DEF WakeUser, Types, QueueTypes, EventsOK
<1>2. ASSUME BindEvent \/ CloseEvent \/ TxEvent \/ RxEvent PROVE Types'
  <2> DEFINE e == Head(queue)
  <2>0. queue # <<>> /\ queue' = Tail(queue)
    BY <1>2 DEF BindEvent, CloseEvent, TxEvent, RxEvent, Received
  <2>1. /\ QueueTypes' /\ EventsOK' /\ e \in EventSet
        /\ e.type \in {"bind", "close"} => e.sock \in Sockets /\ e.buf = None
        /\ e.type \in {"tx", "rx"} => e.buf \in Buffers
    BY <2>0, <1>0, TailKeepsEvents
  <2>2. CASE BindEvent
    <3> DEFINE s == e.sock
    <3>1. s \in Sockets
      BY <2>1, <2>2 DEF BindEvent, Received
    <3>2. waking' = <<s, "BOUND">> /\ UNCHANGED <<pool, handle, waiting, bits, driver>>
      BY <2>2 DEF BindEvent
    <3>3. waking' \in Sockets \X Bits
      BY <3>1, <3>2 DEF Bits
    <3>4. PICK p \in Ports \cup {0} :
             /\ locPort' = [locPort EXCEPT ![s] = p]
             /\ port' = port \/ port' = [port EXCEPT ![s] = p]
      BY <2>2 DEF BindEvent
    <3> HIDE DEF s
    <3>5. port' \in [Sockets -> Ports \cup {0}] /\ locPort' \in [Sockets -> Ports \cup {0}]
      BY <3>1, <3>4, <1>0 DEF SocketTypes
    <3>6. SocketTypes'
      BY <3>2, <3>3, <3>5, <1>0 DEF SocketTypes
    <3> QED BY <3>6, <2>1, <1>c DEF Types
  <2>3. CASE CloseEvent
    <3> DEFINE s == e.sock
    <3>1. s \in Sockets
      BY <2>1, <2>3 DEF CloseEvent, Received
    <3>2. /\ port' = [port EXCEPT ![s] = 0] /\ locPort' = [locPort EXCEPT ![s] = 0]
          /\ pool' = pool \cup {waiting[s][i] : i \in DOMAIN waiting[s]}
          /\ waiting' = [waiting EXCEPT ![s] = <<>>]
          /\ bits' = [bits EXCEPT ![s] = {}]
          /\ handle' = [handle EXCEPT ![s] = "none"]
          /\ UNCHANGED <<waking, driver>>
      BY <2>3 DEF CloseEvent
    <3> HIDE DEF s
    <3>3. waiting[s] \in Seq(Buffers)
      BY <3>1, <1>0 DEF SocketTypes
    <3>4. \A i \in DOMAIN waiting[s] : waiting[s][i] \in Buffers
      BY <3>3
    <3>5. pool' \subseteq Buffers
      BY <3>2, <3>4, <1>0 DEF SocketTypes
    <3>e. <<>> \in Seq(Buffers)
      OBVIOUS
    <3>6. waiting' \in [Sockets -> Seq(Buffers)] /\ bits' \in [Sockets -> SUBSET Bits]
      BY <3>2, <3>e, <1>0 DEF SocketTypes
    <3>7. SocketTypes'
      BY <3>2, <3>5, <3>6, <1>0 DEF SocketTypes
    <3> QED BY <3>7, <2>1, <1>c DEF Types
  <2>4. CASE TxEvent
    <3>1. e.buf \in Buffers
      BY <2>1, <2>4 DEF TxEvent, Received
    <3>2. pool' \subseteq Buffers /\ driver' \subseteq Buffers
      BY <3>1, <2>4, <1>0 DEF TxEvent, SocketTypes
    <3>3. SocketTypes'
      BY <3>2, <2>4, <1>0 DEF TxEvent, SocketTypes, sockets
    <3> QED BY <3>3, <2>1, <1>c DEF Types
  <2>5. CASE RxEvent
    <3>1. e.buf \in Buffers
      BY <2>1, <2>5 DEF RxEvent, Received
    <3>2. pool' \subseteq Buffers /\ driver' \subseteq Buffers
      BY <3>1, <2>5, <1>0 DEF RxEvent, SocketTypes
    <3>3. /\ waiting' \in [Sockets -> Seq(Buffers)]
          /\ waking' \in {<<>>} \cup (Sockets \X Bits)
      <4>1. CASE UNCHANGED <<waiting, waking>>
        BY <4>1, <1>0 DEF SocketTypes
      <4>2. ASSUME NEW s \in Sockets,
                   waiting' = [waiting EXCEPT ![s] = Append(waiting[s], e.buf)],
                   waking' = <<s, "RECEIVE">>
            PROVE  /\ waiting' \in [Sockets -> Seq(Buffers)]
                   /\ waking' \in {<<>>} \cup (Sockets \X Bits)
        <5>1. waiting[s] \in Seq(Buffers)
          BY <1>0 DEF SocketTypes
        <5>2. Append(waiting[s], e.buf) \in Seq(Buffers)
          BY <5>1, <3>1
        <5>3. waiting' \in [Sockets -> Seq(Buffers)]
          BY <5>2, <4>2, <1>0 DEF SocketTypes
        <5> QED BY <5>3, <4>2 DEF Bits
      <4> QED BY <4>1, <4>2, <2>5 DEF RxEvent, OnPort
    <3>4. SocketTypes'
      BY <3>2, <3>3, <2>5, <1>0 DEF RxEvent, SocketTypes
    <3> QED BY <3>4, <2>1, <1>c DEF Types
  <2> QED BY <2>2, <2>3, <2>4, <2>5, <1>2
<1> QED BY <1>1, <1>2 DEF IPStep

\* Signals, the driver, and steps of others.
LEMMA OtherTypes ==
  ASSUME Types,
         (\E s \in Sockets : Signal(s)) \/ ReceiveFrame \/ TransmitDone \/ UNCHANGED vars
  PROVE  Types'
<1>0. TaskTypes /\ CallsOK /\ SocketTypes /\ QueueTypes /\ EventsOK
  BY DEF Types
<1>1. CASE \E s \in Sockets : Signal(s)
  <2>1. PICK s \in Sockets : Signal(s)
    BY <1>1
  <2>2. bits' \in [Sockets -> SUBSET Bits]
    BY <2>1, <1>0 DEF Signal, SocketTypes, Bits
  <2>3. SocketTypes'
    BY <2>1, <2>2, <1>0 DEF Signal, SocketTypes
  <2> QED BY <2>1, <2>3, <1>0 DEF Signal, Types, QueueTypes, EventsOK, TaskTypes, CallsOK, tasks
<1>2. CASE ReceiveFrame
  <2>1. PICK b \in pool, p \in Ports \cup {0} :
          /\ pool' = pool \ {b}
          /\ queue' = Append(queue, Event("rx", None, b, p))
    BY <1>2 DEF ReceiveFrame
  <2> DEFINE e == Event("rx", None, b, p)
  <2>2. b \in Buffers
    BY <1>0 DEF SocketTypes
  <2>3. e \in EventSet /\ e.type = "rx" /\ e.buf = b
    BY <2>2 DEF Event, EventSet
  <2>4. HasRoom /\ queue' = Append(queue, e) /\ UNCHANGED <<sockets, waking, driver, tasks>>
    BY <1>2, <2>1 DEF ReceiveFrame
  <2> HIDE DEF e
  <2>5. QueueTypes' /\ EventsOK'
    BY <2>2, <2>3, <2>4, <1>0, AppendKeepsEvents
  <2>6. SocketTypes'
    BY <2>1, <2>4, <1>0 DEF SocketTypes, sockets
  <2> QED BY <2>4, <2>5, <2>6, <1>0 DEF Types, TaskTypes, CallsOK, tasks
<1>3. CASE TransmitDone
  <2>1. SocketTypes'
    BY <1>3, <1>0 DEF TransmitDone, SocketTypes, sockets
  <2> QED BY <2>1, <1>3, <1>0 DEF TransmitDone, Types, QueueTypes, EventsOK, TaskTypes, CallsOK, tasks
<1>4. CASE UNCHANGED vars
  BY <1>4, <1>0 DEF vars, Types, SocketTypes, QueueTypes, EventsOK, TaskTypes, CallsOK, tasks, sockets
<1> QED BY <1>1, <1>2, <1>3, <1>4

LEMMA InitTypes == Init => Types
<1> SUFFICES ASSUME Init PROVE Types
  OBVIOUS
<1>1. queue = <<>> /\ Len(queue) = 0 /\ 1..0 = {} /\ <<>> \in Seq(Buffers)
  BY DEF Init
<1>2. QueueTypes /\ EventsOK
  BY <1>1 DEF QueueTypes, EventsOK
<1>3. SocketTypes
  BY <1>1 DEF Init, SocketTypes
<1>4. TaskTypes /\ CallsOK
  BY DEF Init, TaskTypes, CallsOK, Steps
<1> QED BY <1>2, <1>3, <1>4 DEF Types

LEMMA NextTypes == Types /\ [Next]_vars => Types'
<1> SUFFICES ASSUME Types, [Next]_vars PROVE Types'
  OBVIOUS
<1>1. ASSUME NEW t \in Tasks, StartCall(t) PROVE Types'
  BY <1>1, SocketsTypes, CloseTypes, StartTypes, AtOnceTypes DEF StartCall
<1>2. ASSUME NEW t \in Tasks, BindSend(t) \/ Continue(t) \/ RecvTimeout(t) PROVE Types'
  BY <1>2, BindTypes, SendTypes, WaitTypes, TakeTypes DEF Continue
<1>3. CASE (\E s \in Signalled : Signal(s)) \/ ReceiveFrame \/ TransmitDone \/ UNCHANGED vars
  BY <1>3, SignalledAssumption, OtherTypes
<1>4. CASE IPStep
  BY <1>4, IPTypes
<1> QED BY <1>1, <1>2, <1>3, <1>4 DEF Next

\* The types of the pool, the sockets, the queue and the calls.
THEOREM TypeCorrect == Spec => []TypeOK
BY InitTypes, NextTypes, TypesOK, PTL DEF Spec

----------------------------------------------------------------------------
(* One task for each socket *)

OneTaskEach == \A s \in Sockets : \A t, u \in Users[s] : t = u

Queued(type, s) == \E i \in 1..Len(queue) : queue[i].type = type /\ queue[i].sock = s

\* No socket is in two events of a kind.
Sole ==
    \A i, j \in 1..Len(queue) :
        queue[i].type \in {"bind", "close"} /\ queue[i].type = queue[j].type
        /\ queue[i].sock = queue[j].sock => i = j

\* A task waits for the end of a bind of s.
Asks(s) == \E t \in Tasks : pc[t] = "bindWait" /\ sock[t] = s

\* A call runs on an open socket of its task, and finds a packet to take.
CallsLive ==
    \A t \in Tasks :
        /\ sock[t] # None => handle[sock[t]] = "open" /\ t \in Users[sock[t]]
        /\ pc[t] = "take" => waiting[sock[t]] # <<>>

\* Only sockets that exist are bound, closed or woken.
Alive ==
    /\ \A s \in Sockets : /\ Queued("close", s) => handle[s] = "closing"
                          /\ port[s] # 0 => handle[s] # "none"
    /\ waking # <<>> => handle[waking[1]] # "none"

\* A bind is an event, a wake-up about to be made or a bit, one at a time, and
\* the task that asked for it waits all the time: the close cannot overtake it.
BindsOK ==
    \A s \in Sockets :
        /\ Queued("bind", s) \/ waking = <<s, "BOUND">> \/ "BOUND" \in bits[s] => Asks(s)
        /\ Queued("bind", s) => waking # <<s, "BOUND">> /\ "BOUND" \notin bits[s]
        /\ waking = <<s, "BOUND">> => "BOUND" \notin bits[s]

SocketsOK == Sole /\ CallsLive /\ Alive /\ BindsOK

LEMMA SocketsSafe == Types /\ SocketsOK => NoFreedSocketUsed /\ TakeFindsPacket
<1> SUFFICES ASSUME Types, SocketsOK PROVE NoFreedSocketUsed /\ TakeFindsPacket
  OBVIOUS
<1>1. \A t \in Tasks : sock[t] # None => handle[sock[t]] = "open"
  BY DEF SocketsOK, CallsLive
<1>2. TakeFindsPacket
  BY DEF SocketsOK, CallsLive, TakeFindsPacket
<1>3. waking # <<>> => handle[waking[1]] # "none"
  BY DEF SocketsOK, Alive
<1>4. \A s \in Sockets : Queued("bind", s) => handle[s] = "open"
  BY <1>1 DEF SocketsOK, BindsOK, Asks, Types, TaskTypes, CallsOK
<1>5. \A s \in Sockets : Queued("close", s) => handle[s] = "closing"
  BY DEF SocketsOK, Alive
<1>6. ASSUME NEW i \in 1..Len(queue), queue[i].type \in {"bind", "close"}
      PROVE  handle[queue[i].sock] # "none"
  <2>1. queue[i].sock \in Sockets
    BY <1>6 DEF Types, EventsOK
  <2>2. Queued("bind", queue[i].sock) \/ Queued("close", queue[i].sock)
    BY <1>6 DEF Queued
  <2> QED BY <2>1, <2>2, <1>4, <1>5
<1>7. \A i \in DOMAIN queue : i \in 1..Len(queue)
  BY DEF Types, QueueTypes
<1> QED BY <1>1, <1>2, <1>3, <1>6, <1>7 DEF NoFreedSocketUsed

LEMMA AppendQueued ==
  ASSUME QueueTypes, HasRoom, Sole, NEW e \in EventSet, queue' = Append(queue, e),
         e.type \in {"bind", "close"} => ~Queued(e.type, e.sock)
  PROVE  /\ Sole'
         /\ \A type \in {"bind", "close"}, s \in Sockets :
               Queued(type, s)' <=> Queued(type, s) \/ (e.type = type /\ e.sock = s)
<1>1. /\ Len(queue) \in Nat /\ Len(queue') = Len(queue) + 1
      /\ \A i \in 1..Len(queue) : queue'[i] = queue[i]
      /\ queue'[Len(queue) + 1] = e
  BY AppendEvent
<1>2. \A i \in 1..Len(queue') : i \in 1..Len(queue) \/ i = Len(queue) + 1
  BY <1>1
<1>3. \A i \in 1..Len(queue) : i \in 1..Len(queue')
  BY <1>1
<1>4. Len(queue) + 1 \in 1..Len(queue')
  BY <1>1
<1>5. Sole'
  BY <1>1, <1>2 DEF Sole, Queued
<1> QED BY <1>1, <1>2, <1>3, <1>4, <1>5 DEF Queued

LEMMA TailQueued ==
  ASSUME QueueTypes, Sole, queue # <<>>, queue' = Tail(queue)
  PROVE  /\ Sole'
         /\ \A type \in {"bind", "close"}, s \in Sockets :
               /\ Queued(type, s)' => Queued(type, s)
               /\ Queued(type, s)' => ~(Head(queue).type = type /\ Head(queue).sock = s)
               /\ Queued(type, s) =>
                     Queued(type, s)' \/ (Head(queue).type = type /\ Head(queue).sock = s)
         /\ \A s \in Sockets : \A type \in {"bind", "close"} :
               Head(queue).type = type /\ Head(queue).sock = s => Queued(type, s)
<1>1. /\ Len(queue) \in Nat /\ Len(queue') = Len(queue) - 1
      /\ \A i \in 1..Len(queue') : i + 1 \in 1..Len(queue) /\ queue'[i] = queue[i + 1]
      /\ Head(queue) = queue[1] /\ 1 \in 1..Len(queue)
  BY TailEvent
<1>2. \A i \in 1..Len(queue) : i = 1 \/ (i - 1 \in 1..Len(queue') /\ queue[i] = queue'[i - 1])
  <2> SUFFICES ASSUME NEW i \in 1..Len(queue), i # 1
               PROVE  i - 1 \in 1..Len(queue') /\ queue[i] = queue'[i - 1]
    OBVIOUS
  <2>1. i - 1 \in 1..Len(queue') /\ (i - 1) + 1 = i
    BY <1>1
  <2> QED BY <2>1, <1>1
<1>3. Sole'
  <2> SUFFICES ASSUME NEW i \in 1..Len(queue'), NEW j \in 1..Len(queue'),
                      queue'[i].type \in {"bind", "close"}, queue'[i].type = queue'[j].type,
                      queue'[i].sock = queue'[j].sock
               PROVE  i = j
    BY DEF Sole
  <2>1. i + 1 = j + 1
    BY <1>1 DEF Sole
  <2> QED BY <2>1
<1>4. ASSUME NEW type \in {"bind", "close"}, NEW s \in Sockets, Queued(type, s)'
      PROVE  Queued(type, s) /\ ~(Head(queue).type = type /\ Head(queue).sock = s)
  <2>1. PICK i \in 1..Len(queue') : queue'[i].type = type /\ queue'[i].sock = s
    BY <1>4 DEF Queued
  <2>2. i + 1 \in 1..Len(queue) /\ queue[i + 1].type = type /\ queue[i + 1].sock = s /\ i + 1 # 1
    BY <2>1, <1>1
  <2> QED BY <2>2, <1>1 DEF Queued, Sole
<1>5. ASSUME NEW type \in {"bind", "close"}, NEW s \in Sockets, Queued(type, s)
      PROVE  Queued(type, s)' \/ (Head(queue).type = type /\ Head(queue).sock = s)
  <2>1. PICK i \in 1..Len(queue) : queue[i].type = type /\ queue[i].sock = s
    BY <1>5 DEF Queued
  <2> QED BY <2>1, <1>1, <1>2 DEF Queued
<1> QED BY <1>1, <1>3, <1>4, <1>5 DEF Queued

\* A task leaves a step that is not the wait for a bind, for another such step.
LEMMA TaskMoves ==
  ASSUME Types, SocketsOK, NEW t \in Tasks,
         \A u \in Tasks \ {t} : pc'[u] = pc[u] /\ sock'[u] = sock[u],
         pc[t] # "bindWait",
         sock'[t] # None => handle[sock'[t]] = "open" /\ t \in Users[sock'[t]],
         pc'[t] = "take" => waiting[sock'[t]] # <<>>,
         UNCHANGED <<handle, port, waiting, waking>>,
         \A s \in Sockets : "BOUND" \in bits'[s] <=> "BOUND" \in bits[s],
         Sole',
         \A type \in {"bind", "close"}, s \in Sockets : Queued(type, s)' <=> Queued(type, s)
  PROVE  SocketsOK'
<1>1. CallsLive'
  BY DEF SocketsOK, CallsLive
<1>2. Alive'
  BY DEF SocketsOK, Alive
<1>3. \A s \in Sockets : Asks(s) => Asks(s)'
  BY DEF Asks
<1>4. BindsOK'
  BY <1>3 DEF SocketsOK, BindsOK
<1> QED BY <1>1, <1>2, <1>4 DEF SocketsOK

LEMMA QueueUnchanged ==
  ASSUME Sole, UNCHANGED queue
  PROVE  Sole' /\ \A type, s : Queued(type, s)' <=> Queued(type, s)
BY DEF Sole, Queued

\* The steps of the tasks that leave binds and sockets alone.
LEMMA MovesKeepSockets ==
  ASSUME Types, SocketsOK, NEW t \in Tasks,
         \/ \E s \in Sockets : Bind(t, s) \/ SendTo(t, s) \/ RecvFrom(t, s)
         \/ BindPort(t) \/ GetBuffer(t) \/ GetBufferFails(t) \/ PostFails(t)
         \/ RecvWake(t) \/ RecvTimeout(t) \/ RecvCount(t) \/ RecvCopy(t)
  PROVE  SocketsOK'
<1>0. TaskTypes /\ SocketTypes /\ CallsOK /\ Sole /\ CallsLive
  BY DEF Types, SocketsOK
<1>1. UNCHANGED <<queue, handle, port, waiting, waking>>
  BY DEF Bind, SendTo, RecvFrom, BindPort, GetBuffer, GetBufferFails, PostFails, RecvWake,
         RecvTimeout, RecvCount, RecvCopy, sockets
<1>2. Sole' /\ \A type, s : Queued(type, s)' <=> Queued(type, s)
  BY <1>0, <1>1, QueueUnchanged
<1>3. \A s \in Sockets : "BOUND" \in bits'[s] <=> "BOUND" \in bits[s]
  <2>1. CASE UNCHANGED bits
    BY <2>1
  <2>2. CASE RecvWake(t)
    <3>1. sock[t] \in Sockets
      BY <2>2, <1>0 DEF RecvWake, TaskTypes, CallsOK
    <3>2. PICK x \in {"INTR", "RECEIVE"} : bits' = [bits EXCEPT ![sock[t]] = @ \ {x}]
      BY <2>2 DEF RecvWake
    <3> QED BY <3>1, <3>2, <1>0 DEF SocketTypes
  <2> QED BY <2>1, <2>2 DEF Bind, SendTo, RecvFrom, BindPort, GetBuffer, GetBufferFails, PostFails,
             RecvTimeout, RecvCount, RecvCopy, sockets
<1>4. PICK step \in Steps, s \in Sockets \cup {None} :
        /\ Call(t, s, step)
        /\ pc[t] # "bindWait"
        /\ s # None => handle[s] = "open" /\ t \in Users[s]
        /\ step = "take" => waiting[s] # <<>>
  <2>1. CASE \E s \in Sockets : Bind(t, s) \/ SendTo(t, s) \/ RecvFrom(t, s)
    <3>1. PICK s \in Sockets : Bind(t, s) \/ SendTo(t, s) \/ RecvFrom(t, s)
      BY <2>1
    <3>2. \E step \in Steps : Call(t, s, step) /\ (step = "take" => waiting[s] # <<>>)
      BY <3>1 DEF Bind, SendTo, RecvFrom, StartBind, Steps
    <3>3. handle[s] = "open" /\ t \in Users[s] /\ pc[t] = "idle"
      BY <3>1 DEF Bind, SendTo, RecvFrom, MayUse
    <3> QED BY <3>2, <3>3
  <2>2. CASE ~\E s \in Sockets : Bind(t, s) \/ SendTo(t, s) \/ RecvFrom(t, s)
    <3>1. pc[t] \notin {"idle", "bindWait"}
      BY <2>2 DEF BindPort, GetBuffer, GetBufferFails, PostFails, RecvWake, RecvTimeout, RecvCount,
                  RecvCopy
    <3>2. sock[t] \in Sockets /\ handle[sock[t]] = "open" /\ t \in Users[sock[t]]
      BY <3>1, <1>0 DEF TaskTypes, CallsOK, CallsLive
    <3>3. CASE Return(t)
      BY <3>1, <3>3 DEF Return, Steps
    <3>4. CASE \E step \in Steps : Goto(t, step) /\ (step = "take" => waiting[sock[t]] # <<>>)
      BY <3>1, <3>2, <3>4 DEF Goto
    <3>5. CASE RecvCount(t) \/ BindPort(t) \/ GetBuffer(t)
      <4>1. {"bindSend", "post", "take", "recvWait"} \subseteq Steps
        BY DEF Steps
      <4> QED BY <4>1, <3>5, <3>3, <3>4 DEF RecvCount, BindPort, GetBuffer
    <3>6. CASE RecvWake(t) \/ RecvTimeout(t)
      <4>1. {"recvCount", "recvTimedOut"} \subseteq Steps
        BY DEF Steps
      <4> QED BY <4>1, <3>6, <3>3, <3>4 DEF RecvWake, RecvTimeout
    <3>7. CASE GetBufferFails(t) \/ PostFails(t) \/ RecvCopy(t)
      BY <3>7, <3>3 DEF GetBufferFails, PostFails, RecvCopy
    <3> QED BY <2>2, <3>5, <3>6, <3>7
  <2> QED BY <2>1, <2>2
<1>5. /\ pc'[t] = step /\ sock'[t] = s
      /\ \A u \in Tasks \ {t} : pc'[u] = pc[u] /\ sock'[u] = sock[u]
  BY <1>0, <1>4, CallStep
<1> QED BY <1>1, <1>2, <1>3, <1>4, <1>5, TaskMoves

\* Nothing that the invariant names changes but the queue.
LEMMA EventKeepsSockets ==
  ASSUME Types, SocketsOK, UNCHANGED <<handle, port, waiting, bits, waking, pc, sock>>, Sole',
         \A type \in {"bind", "close"}, s \in Sockets : Queued(type, s)' <=> Queued(type, s)
  PROVE  SocketsOK'
<1>1. CallsLive' /\ Alive'
  BY DEF SocketsOK, CallsLive, Alive
<1>2. \A s \in Sockets : Asks(s) => Asks(s)'
  BY DEF Asks
<1>3. BindsOK'
  BY <1>2 DEF SocketsOK, BindsOK
<1> QED BY <1>1, <1>3 DEF SocketsOK

LEMMA PostKeepsSockets ==
  ASSUME Types, SocketsOK, NEW t \in Tasks, Post(t)
  PROVE  SocketsOK'
<1>0. TaskTypes /\ SocketTypes /\ CallsOK /\ QueueTypes /\ Sole
  BY DEF Types, SocketsOK
<1> DEFINE e == Event("tx", None, buf[t], port[sock[t]])
<1>1. sock[t] \in Sockets
  BY <1>0 DEF Post, TaskTypes, CallsOK
<1>2. e \in EventSet /\ e.type = "tx"
  BY <1>0, <1>1 DEF Event, EventSet, SocketTypes, TaskTypes
<1>3. HasRoom /\ queue' = Append(queue, e) /\ UNCHANGED <<handle, port, waiting, bits, waking>>
  BY DEF Post, sockets
<1> HIDE DEF e
<1>4. /\ Sole'
      /\ \A type \in {"bind", "close"}, s \in Sockets : Queued(type, s)' <=> Queued(type, s)
  BY <1>0, <1>2, <1>3, AppendQueued
<1>5. /\ pc'[t] = "idle" /\ sock'[t] = None
      /\ \A u \in Tasks \ {t} : pc'[u] = pc[u] /\ sock'[u] = sock[u]
  BY <1>0, ReturnStep DEF Post
<1>6. pc[t] # "bindWait"
  BY DEF Post
<1> QED BY <1>3, <1>4, <1>5, <1>6, TaskMoves

\* A socket is taken: nothing names it yet.
LEMMA SocketKeepsSockets ==
  ASSUME Types, SocketsOK, NEW t \in Tasks, NEW s \in Sockets, Socket(t, s)
  PROVE  SocketsOK'
<1>0. SocketTypes /\ Sole
  BY DEF Types, SocketsOK
<1>1. /\ handle[s] = "none" /\ handle' = [handle EXCEPT ![s] = "open"]
      /\ port' = [port EXCEPT ![s] = 0] /\ waiting' = [waiting EXCEPT ![s] = <<>>]
      /\ bits' = [bits EXCEPT ![s] = {}] /\ UNCHANGED <<queue, waking, pc, sock>>
  BY DEF Socket, tasks
<1>2. Sole' /\ \A type, r : Queued(type, r)' <=> Queued(type, r)
  BY <1>0, <1>1, QueueUnchanged
<1>3. ~Queued("close", s)
  BY <1>1 DEF SocketsOK, Alive
<1>4. CallsLive'
  BY <1>1 DEF SocketsOK, CallsLive, Types, SocketTypes, TaskTypes, CallsOK
<1>5. Alive'
  BY <1>0, <1>1, <1>2, <1>3 DEF SocketsOK, Alive, SocketTypes
<1>6. \A r \in Sockets : Asks(r) => Asks(r)'
  BY <1>1 DEF Asks
<1>7. \A r \in Sockets : "BOUND" \in bits'[r] => "BOUND" \in bits[r]
  BY <1>0, <1>1 DEF SocketTypes
<1>8. BindsOK'
  BY <1>1, <1>2, <1>6, <1>7 DEF SocketsOK, BindsOK
<1> QED BY <1>2, <1>4, <1>5, <1>8 DEF SocketsOK

\* The close of a socket is posted: no call runs on it.
LEMMA CloseKeepsSockets ==
  ASSUME Types, SocketsOK, NEW t \in Tasks, NEW s \in Sockets, CloseSocket(t, s)
  PROVE  SocketsOK'
<1>0. SocketTypes /\ Sole /\ QueueTypes
  BY DEF Types, SocketsOK
<1> DEFINE e == Event("close", s, None, 0)
<1>1. e \in EventSet /\ e.type = "close" /\ e.sock = s
  BY DEF Event, EventSet
<1>2. /\ HasRoom /\ queue' = Append(queue, e) /\ handle[s] = "open"
      /\ handle' = [handle EXCEPT ![s] = "closing"]
      /\ \A u \in Tasks : sock[u] # s
      /\ UNCHANGED <<port, waiting, bits, waking, pc, sock>>
  BY DEF CloseSocket, MayUse, tasks
<1> HIDE DEF e
<1>3. ~Queued("close", s)
  BY <1>2 DEF SocketsOK, Alive
<1>4. /\ Sole'
      /\ \A type \in {"bind", "close"}, r \in Sockets :
            Queued(type, r)' <=> Queued(type, r) \/ (type = "close" /\ r = s)
  BY <1>0, <1>1, <1>2, <1>3, AppendQueued
<1>5. handle'[s] = "closing" /\ \A r \in Sockets \ {s} : handle'[r] = handle[r]
  BY <1>0, <1>2 DEF SocketTypes
<1>6. CallsLive'
  BY <1>2, <1>5 DEF SocketsOK, CallsLive, Types, TaskTypes, CallsOK
<1>7. Alive'
  <2>1. waking # <<>> => waking[1] \in Sockets
    BY <1>0 DEF SocketTypes
  <2> QED BY <2>1, <1>2, <1>4, <1>5 DEF SocketsOK, Alive
<1>8. \A r \in Sockets : Asks(r) => Asks(r)'
  BY <1>2 DEF Asks
<1>9. BindsOK'
  BY <1>2, <1>4, <1>8 DEF SocketsOK, BindsOK
<1> QED BY <1>4, <1>6, <1>7, <1>9 DEF SocketsOK

\* A bind is posted: there is no other, for its task is the only one.
LEMMA BindSendKeepsSockets ==
  ASSUME OneTaskEach, Types, SocketsOK, NEW t \in Tasks, BindSend(t)
  PROVE  SocketsOK'
<1>0. SocketTypes /\ Sole /\ QueueTypes /\ TaskTypes /\ CallsOK /\ CallsLive
  BY DEF Types, SocketsOK
<1> DEFINE s == sock[t]
           e == Event("bind", s, None, 0)
<1>1. s \in Sockets /\ handle[s] = "open" /\ t \in Users[s] /\ pc[t] = "bindSend"
  BY <1>0 DEF BindSend, TaskTypes, CallsOK, CallsLive
<1>2. e \in EventSet /\ e.type = "bind" /\ e.sock = s
  BY <1>1 DEF Event, EventSet
<1>3. /\ HasRoom /\ queue' = Append(queue, e) /\ Goto(t, "bindWait")
      /\ UNCHANGED <<handle, port, waiting, bits, waking>>
  BY DEF BindSend, sockets
<1>4. /\ pc'[t] = "bindWait" /\ sock'[t] = s
      /\ \A u \in Tasks \ {t} : pc'[u] = pc[u] /\ sock'[u] = sock[u]
  BY <1>0, <1>3, GotoStep DEF Steps
<1> HIDE DEF s, e
<1>5. ~Asks(s)
  <2> SUFFICES ASSUME NEW u \in Tasks, pc[u] = "bindWait", sock[u] = s
               PROVE  FALSE
    BY DEF Asks
  <2>1. u \in Users[s]
    BY <1>0, <1>1 DEF CallsLive
  <2> QED BY <2>1, <1>1 DEF OneTaskEach
<1>6. ~Queued("bind", s) /\ waking # <<s, "BOUND">> /\ "BOUND" \notin bits[s]
  BY <1>1, <1>5 DEF SocketsOK, BindsOK
<1>7. /\ Sole'
      /\ \A type \in {"bind", "close"}, r \in Sockets :
            Queued(type, r)' <=> Queued(type, r) \/ (type = "bind" /\ r = s)
  BY <1>0, <1>2, <1>3, <1>6, AppendQueued
<1>8. CallsLive'
  BY <1>1, <1>3, <1>4 DEF SocketsOK, CallsLive
<1>9. Alive'
  BY <1>3, <1>7 DEF SocketsOK, Alive
<1>10. \A r \in Sockets : Asks(r) \/ r = s => Asks(r)'
  BY <1>1, <1>4 DEF Asks
<1>11. BindsOK'
  BY <1>3, <1>6, <1>7, <1>10 DEF SocketsOK, BindsOK
<1> QED BY <1>7, <1>8, <1>9, <1>11 DEF SocketsOK

\* The task takes the bit: its bind has left no other trace.
LEMMA BindWakeKeepsSockets ==
  ASSUME Types, SocketsOK, NEW t \in Tasks, BindWake(t)
  PROVE  SocketsOK'
<1>0. SocketTypes /\ Sole /\ TaskTypes /\ CallsOK /\ CallsLive
  BY DEF Types, SocketsOK
<1> DEFINE s == sock[t]
<1>1. s \in Sockets /\ handle[s] = "open" /\ t \in Users[s] /\ pc[t] = "bindWait"
  BY <1>0 DEF BindWake, TaskTypes, CallsOK, CallsLive
<1>2. /\ "BOUND" \in bits[s] /\ bits' = [bits EXCEPT ![s] = @ \ {"BOUND"}]
      /\ UNCHANGED <<queue, handle, port, waiting, waking>>
  BY DEF BindWake
<1>3. PICK step \in Steps, r \in {s, None} : Call(t, r, step) /\ step # "take"
  <2>1. CASE sending[t] /\ Bound(sock[t])
    <3>1. Call(t, sock[t], IF buf[t] = None THEN "getBuffer" ELSE "postZeroCopy")
      BY <2>1 DEF BindWake, Goto
    <3> QED BY <3>1 DEF Steps
  <2>2. CASE ~(sending[t] /\ Bound(sock[t]))
    BY <2>2 DEF BindWake, Return, Steps
  <2> QED BY <2>1, <2>2
<1>4. /\ pc'[t] = step /\ sock'[t] = r
      /\ \A u \in Tasks \ {t} : pc'[u] = pc[u] /\ sock'[u] = sock[u]
  BY <1>0, <1>1, <1>3, CallStep
<1> HIDE DEF s
<1>5. Sole' /\ \A type, x : Queued(type, x)' <=> Queued(type, x)
  BY <1>0, <1>2, QueueUnchanged
<1>6. /\ "BOUND" \notin bits'[s]
      /\ \A x \in Sockets \ {s} : bits'[x] = bits[x]
  BY <1>0, <1>1, <1>2 DEF SocketTypes
<1>7. CallsLive'
  BY <1>1, <1>2, <1>3, <1>4 DEF SocketsOK, CallsLive
<1>8. Alive'
  BY <1>2, <1>5 DEF SocketsOK, Alive
<1>9. \A x \in Sockets \ {s} : Asks(x) => Asks(x)'
  BY <1>4 DEF Asks, s
<1>10. ~Queued("bind", s) /\ waking # <<s, "BOUND">>
  BY <1>1, <1>2 DEF SocketsOK, BindsOK
<1>11. BindsOK'
  BY <1>2, <1>5, <1>6, <1>9, <1>10 DEF SocketsOK, BindsOK
<1> QED BY <1>5, <1>7, <1>8, <1>11 DEF SocketsOK

\* The packet is taken by the only task that takes any.
LEMMA TakeKeepsSockets ==
  ASSUME OneTaskEach, Types, SocketsOK, NEW t \in Tasks, RecvTake(t)
  PROVE  SocketsOK'
<1>0. SocketTypes /\ Sole /\ TaskTypes /\ CallsOK /\ CallsLive
  BY DEF Types, SocketsOK
<1> DEFINE s == sock[t]
<1>1. s \in Sockets /\ handle[s] = "open" /\ t \in Users[s] /\ pc[t] = "take"
  BY <1>0 DEF RecvTake, TaskTypes, CallsOK, CallsLive
<1>2. /\ waiting' = [waiting EXCEPT ![s] = Tail(@)]
      /\ UNCHANGED <<queue, handle, port, bits, waking>>
  BY DEF RecvTake
<1>3. PICK step \in Steps, r \in {s, None} : Call(t, r, step) /\ step # "take"
  BY DEF RecvTake, Goto, Return, Steps
<1>4. /\ pc'[t] = step /\ sock'[t] = r
      /\ \A u \in Tasks \ {t} : pc'[u] = pc[u] /\ sock'[u] = sock[u]
  BY <1>0, <1>1, <1>3, CallStep
<1> HIDE DEF s
<1>5. Sole' /\ \A type, x : Queued(type, x)' <=> Queued(type, x)
  BY <1>0, <1>2, QueueUnchanged
<1>6. \A x \in Sockets \ {s} : waiting'[x] = waiting[x]
  BY <1>0, <1>2 DEF SocketTypes
<1>7. \A u \in Tasks : sock[u] = s => u = t
  BY <1>0, <1>1 DEF CallsLive, OneTaskEach
<1>8. CallsLive'
  <2> SUFFICES ASSUME NEW u \in Tasks
               PROVE  /\ sock'[u] # None => handle'[sock'[u]] = "open" /\ u \in Users[sock'[u]]
                      /\ pc'[u] = "take" => waiting'[sock'[u]] # <<>>
    BY DEF CallsLive
  <2>1. CASE u = t
    BY <2>1, <1>1, <1>2, <1>3, <1>4
  <2>2. CASE u # t
    <3>1. pc'[u] = pc[u] /\ sock'[u] = sock[u] /\ sock[u] # s
      BY <2>2, <1>4, <1>7
    <3>2. pc[u] = "take" => sock[u] \in Sockets \ {s}
      BY <3>1, <1>0 DEF TaskTypes, CallsOK
    <3> QED BY <3>1, <3>2, <1>0, <1>2, <1>6 DEF CallsLive
  <2> QED BY <2>1, <2>2
<1>9. Alive'
  BY <1>2, <1>5 DEF SocketsOK, Alive
<1>10. \A x \in Sockets : Asks(x) => Asks(x)'
  BY <1>1, <1>4 DEF Asks
<1>11. BindsOK'
  BY <1>2, <1>5, <1>10 DEF SocketsOK, BindsOK
<1> QED BY <1>5, <1>8, <1>9, <1>11 DEF SocketsOK

\* Signals, and the steps that do not touch sockets.
LEMMA OthersKeepSockets ==
  ASSUME Types, SocketsOK,
         \/ \E s \in Sockets : Signal(s)
         \/ \E t \in Tasks : \/ \E s \in Sockets : RecvDontBlock(t, s)
                             \/ GetUDPPayloadBuffer(t) \/ ReleaseUDPPayloadBuffer(t)
         \/ TransmitDone \/ UNCHANGED vars
  PROVE  SocketsOK'
<1>0. SocketTypes /\ Sole
  BY DEF Types, SocketsOK
<1>1. UNCHANGED <<queue, handle, port, waiting, waking, pc, sock>>
  BY DEF Signal, RecvDontBlock, GetUDPPayloadBuffer, ReleaseUDPPayloadBuffer, TransmitDone, vars,
         sockets, tasks
<1>2. Sole' /\ \A type, s : Queued(type, s)' <=> Queued(type, s)
  BY <1>0, <1>1, QueueUnchanged
<1>3. \A s \in Sockets : "BOUND" \in bits'[s] <=> "BOUND" \in bits[s]
  <2>1. CASE UNCHANGED bits
    BY <2>1
  <2>2. CASE \E s \in Sockets : Signal(s)
    BY <2>2, <1>0 DEF SocketTypes, Signal
  <2>3. CASE \E t \in Tasks, s \in Sockets : RecvDontBlock(t, s)
    BY <2>3, <1>0 DEF SocketTypes, RecvDontBlock
  <2> QED BY <2>1, <2>2, <2>3 DEF GetUDPPayloadBuffer, ReleaseUDPPayloadBuffer, TransmitDone, vars,
             sockets
<1>4. CallsLive' /\ Alive'
  BY <1>1, <1>2 DEF SocketsOK, CallsLive, Alive
<1>5. \A s \in Sockets : Asks(s) => Asks(s)'
  BY <1>1 DEF Asks
<1>6. BindsOK'
  BY <1>1, <1>2, <1>3, <1>5 DEF SocketsOK, BindsOK
<1> QED BY <1>2, <1>4, <1>6 DEF SocketsOK

LEMMA FrameKeepsSockets ==
  ASSUME Types, SocketsOK, ReceiveFrame
  PROVE  SocketsOK'
<1>0. SocketTypes /\ Sole /\ QueueTypes
  BY DEF Types, SocketsOK
<1>1. PICK b \in pool, p \in Ports \cup {0} : queue' = Append(queue, Event("rx", None, b, p))
  BY DEF ReceiveFrame
<1> DEFINE e == Event("rx", None, b, p)
<1>2. e \in EventSet /\ e.type = "rx"
  BY <1>0 DEF Event, EventSet, SocketTypes
<1>3. /\ HasRoom /\ queue' = Append(queue, e)
      /\ UNCHANGED <<handle, port, waiting, bits, waking, pc, sock>>
  BY <1>1 DEF ReceiveFrame, sockets, tasks
<1> HIDE DEF e
<1>4. /\ Sole'
      /\ \A type \in {"bind", "close"}, s \in Sockets : Queued(type, s)' <=> Queued(type, s)
  BY <1>0, <1>2, <1>3, AppendQueued
<1> QED BY <1>3, <1>4, EventKeepsSockets

\* The handlers of the IP task.
LEMMA IPKeepsSockets ==
  ASSUME Types, SocketsOK, IPStep
  PROVE  SocketsOK'
<1>0. SocketTypes /\ Sole /\ QueueTypes /\ EventsOK /\ TaskTypes /\ CallsOK /\ CallsLive
  BY DEF Types, SocketsOK
<1>t. UNCHANGED <<pc, sock>>
  BY DEF IPStep, BindEvent, WakeUser, CloseEvent, TxEvent, RxEvent, tasks
<1>a. \A s \in Sockets : Asks(s) => Asks(s)'
  BY <1>t DEF Asks
<1>1. CASE WakeUser
  <2>1. /\ UNCHANGED <<queue, handle, port, waiting>> /\ waking # <<>> /\ waking' = <<>>
        /\ bits' = [bits EXCEPT ![waking[1]] = @ \cup {waking[2]}]
    BY <1>1 DEF WakeUser
  <2>2. Sole' /\ \A type, s : Queued(type, s)' <=> Queued(type, s)
    BY <1>0, <2>1, QueueUnchanged
  <2>3. CallsLive' /\ Alive'
    BY <2>1, <2>2, <1>t DEF SocketsOK, CallsLive, Alive
  <2>4. waking \in Sockets \X Bits /\ waking = <<waking[1], waking[2]>>
    BY <2>1, <1>0 DEF SocketTypes
  <2>5. \A s \in Sockets : "BOUND" \in bits'[s] <=> "BOUND" \in bits[s] \/ waking = <<s, "BOUND">>
    BY <2>1, <2>4, <1>0 DEF SocketTypes
  <2>6. \A s : <<s, "BOUND">> # <<>>
    OBVIOUS
  <2>7. BindsOK'
    BY <2>1, <2>2, <2>5, <2>6, <1>a DEF SocketsOK, BindsOK
  <2> QED BY <2>2, <2>3, <2>7 DEF SocketsOK
<1>2. ASSUME BindEvent \/ CloseEvent \/ TxEvent \/ RxEvent PROVE SocketsOK'
  <2> DEFINE e == Head(queue)
  <2>0. queue # <<>> /\ queue' = Tail(queue) /\ waking = <<>>
    BY <1>2 DEF BindEvent, CloseEvent, TxEvent, RxEvent, Received
  <2>1. /\ e \in EventSet /\ (e.type \in {"bind", "close"} => e.sock \in Sockets)
    BY <2>0, <1>0, TailKeepsEvents
  <2>2. /\ Sole'
        /\ \A type \in {"bind", "close"}, s \in Sockets :
               /\ Queued(type, s)' => Queued(type, s)
               /\ Queued(type, s)' => ~(e.type = type /\ e.sock = s)
               /\ Queued(type, s) => Queued(type, s)' \/ (e.type = type /\ e.sock = s)
        /\ \A s \in Sockets : \A type \in {"bind", "close"} :
               e.type = type /\ e.sock = s => Queued(type, s)
    BY <2>0, <1>0, TailQueued
  <2>n. \A s, x : <<s, x>> # <<>>
    OBVIOUS
  <2> HIDE DEF e
  <2>3. CASE BindEvent
    <3>1. PICK s \in Sockets : e.type = "bind" /\ e.sock = s
      BY <2>1, <2>3 DEF BindEvent, Received, e
    <3>2. waking' = <<s, "BOUND">> /\ UNCHANGED <<handle, waiting, bits>>
      BY <2>3, <3>1 DEF BindEvent, e
    <3>3. \A r \in Sockets \ {s} : port'[r] = port[r]
      <4>1. port' = port \/ \E p : port' = [port EXCEPT ![s] = p]
        BY <2>3, <3>1 DEF BindEvent, e
      <4> QED BY <4>1, <3>1, <1>0 DEF SocketTypes
    <3>4. Queued("bind", s) /\ ~Queued("bind", s)'
      BY <2>2, <3>1
    <3>5. Asks(s) /\ "BOUND" \notin bits[s]
      BY <3>1, <3>4 DEF SocketsOK, BindsOK
    <3>6. handle[s] = "open"
      BY <3>1, <3>5, <1>0 DEF Asks, CallsLive
    <3>7. CallsLive'
      BY <3>2, <1>t, <1>0 DEF CallsLive
    <3>8. Alive'
      <4>1. waking'[1] = s
        BY <3>2
      <4> QED BY <4>1, <3>2, <3>3, <3>6, <2>2 DEF SocketsOK, Alive
    <3>9. \A r : waking' = <<r, "BOUND">> => r = s
      BY <3>2
    <3>10. BindsOK'
      BY <2>2, <3>2, <3>4, <3>5, <3>9, <1>a DEF SocketsOK, BindsOK
    <3> QED BY <2>2, <3>7, <3>8, <3>10 DEF SocketsOK
  <2>4. CASE CloseEvent
    <3>1. PICK s \in Sockets : e.type = "close" /\ e.sock = s
      BY <2>1, <2>4 DEF CloseEvent, Received, e
    <3>2. /\ port' = [port EXCEPT ![s] = 0] /\ waiting' = [waiting EXCEPT ![s] = <<>>]
          /\ bits' = [bits EXCEPT ![s] = {}] /\ handle' = [handle EXCEPT ![s] = "none"]
          /\ UNCHANGED waking
      BY <2>4, <3>1 DEF CloseEvent, e
    <3>3. Queued("close", s) /\ ~Queued("close", s)' /\ handle[s] = "closing"
      BY <2>2, <3>1 DEF SocketsOK, Alive
    <3>4. /\ port'[s] = 0 /\ bits'[s] = {}
          /\ \A r \in Sockets \ {s} : /\ port'[r] = port[r] /\ waiting'[r] = waiting[r]
                                      /\ bits'[r] = bits[r] /\ handle'[r] = handle[r]
      BY <3>1, <3>2, <1>0 DEF SocketTypes
    <3>5. \A t \in Tasks : sock[t] # s /\ (sock[t] # None => sock[t] \in Sockets \ {s})
      BY <3>1, <3>3, <1>0 DEF CallsLive, TaskTypes
    <3>6. CallsLive'
      <4>1. \A t \in Tasks : pc[t] = "take" => sock[t] \in Sockets \ {s}
        BY <3>5, <1>0 DEF CallsOK
      <4> QED BY <4>1, <3>4, <3>5, <1>t, <1>0 DEF CallsLive
    <3>7. Alive'
      BY <2>0, <2>2, <3>2, <3>3, <3>4 DEF SocketsOK, Alive
    <3>8. ~Queued("bind", s)
      BY <3>1, <3>5 DEF SocketsOK, BindsOK, Asks
    <3>9. BindsOK'
      BY <2>0, <2>2, <2>n, <3>2, <3>4, <3>8, <1>a DEF SocketsOK, BindsOK
    <3> QED BY <2>2, <3>6, <3>7, <3>9 DEF SocketsOK
  <2>5. CASE TxEvent
    <3>1. e.type = "tx" /\ UNCHANGED <<handle, port, waiting, bits, waking>>
      BY <2>5 DEF TxEvent, Received, e, sockets
    <3> QED BY <3>1, <2>2, <1>t, EventKeepsSockets
  <2>6. CASE RxEvent
    <3>1. e.type = "rx" /\ UNCHANGED <<handle, port, bits>>
      BY <2>6 DEF RxEvent, Received, e
    <3>2. \/ UNCHANGED <<waiting, waking>>
          \/ \E s \in Sockets : /\ port[s] # 0 /\ waking' = <<s, "RECEIVE">>
                                /\ waiting' = [waiting EXCEPT ![s] = Append(@, e.buf)]
      BY <2>6 DEF RxEvent, OnPort, Bound, e
    <3>3. CASE UNCHANGED <<waiting, waking>>
      BY <3>1, <3>3, <2>2, <1>t, EventKeepsSockets
    <3>4. ASSUME NEW s \in Sockets, port[s] # 0, waking' = <<s, "RECEIVE">>,
                 waiting' = [waiting EXCEPT ![s] = Append(@, e.buf)]
          PROVE  SocketsOK'
      <4>1. waiting[s] \in Seq(Buffers) /\ e.buf \in Buffers
        <5>1. e.buf \in Buffers
          BY <2>0, <1>0, <3>1, TailKeepsEvents DEF e
        <5> QED BY <5>1, <1>0 DEF SocketTypes
      <4>2. Append(waiting[s], e.buf) # <<>>
        BY <4>1
      <4>3. waiting'[s] # <<>> /\ \A r \in Sockets \ {s} : waiting'[r] = waiting[r]
        BY <4>2, <3>4, <1>0 DEF SocketTypes
      <4>4. \A t \in Tasks : pc[t] = "take" => sock[t] \in Sockets
        BY <1>0 DEF TaskTypes, CallsOK
      <4>5. CallsLive'
        BY <4>3, <4>4, <3>1, <1>t, <1>0 DEF CallsLive
      <4>6. waking'[1] = s /\ \A r : waking' # <<r, "BOUND">>
        BY <3>4
      <4>7. Alive'
        BY <4>6, <3>1, <3>4, <2>2 DEF SocketsOK, Alive
      <4>8. BindsOK'
        BY <4>6, <3>1, <2>2, <1>a DEF SocketsOK, BindsOK
      <4> QED BY <2>2, <4>5, <4>7, <4>8 DEF SocketsOK
    <3> QED BY <3>2, <3>3, <3>4
  <2> QED BY <2>3, <2>4, <2>5, <2>6, <1>2
<1> QED BY <1>1, <1>2 DEF IPStep

LEMMA InitSockets == Init => SocketsOK
<1> SUFFICES ASSUME Init PROVE SocketsOK
  OBVIOUS
<1>1. queue = <<>> /\ Len(queue) = 0 /\ 1..0 = {}
  BY DEF Init
<1>2. Sole /\ \A type, s : ~Queued(type, s)
  BY <1>1 DEF Sole, Queued
<1>3. CallsLive /\ Alive
  BY <1>2 DEF Init, CallsLive, Alive
<1>4. \A s : <<s, "BOUND">> # <<>>
  OBVIOUS
<1>5. BindsOK
  BY <1>2, <1>4 DEF Init, BindsOK
<1> QED BY <1>2, <1>3, <1>5 DEF SocketsOK

LEMMA NextSockets == ASSUME OneTaskEach PROVE Types /\ SocketsOK /\ [Next]_vars => SocketsOK'
<1> SUFFICES ASSUME Types, SocketsOK, [Next]_vars PROVE SocketsOK'
  OBVIOUS
<1>1. ASSUME NEW t \in Tasks, StartCall(t) PROVE SocketsOK'
  BY <1>1, SocketKeepsSockets, CloseKeepsSockets, MovesKeepSockets, OthersKeepSockets DEF StartCall
<1>2. ASSUME NEW t \in Tasks, BindSend(t) \/ Continue(t) \/ RecvTimeout(t) PROVE SocketsOK'
  BY <1>2, BindSendKeepsSockets, BindWakeKeepsSockets, MovesKeepSockets, PostKeepsSockets,
     TakeKeepsSockets DEF Continue
<1>3. CASE (\E s \in Signalled : Signal(s)) \/ ReceiveFrame \/ TransmitDone \/ UNCHANGED vars
  BY <1>3, SignalledAssumption, OthersKeepSockets, FrameKeepsSockets
<1>4. CASE IPStep
  BY <1>4, IPKeepsSockets
<1> QED BY <1>1, <1>2, <1>3, <1>4 DEF Next

\* While each socket is used by one task, no event, wake-up or call names a
\* socket that vSocketClose has freed.
THEOREM NoSocketAfterClose == ASSUME OneTaskEach PROVE Spec => []NoFreedSocketUsed
BY InitTypes, NextTypes, InitSockets, NextSockets, SocketsSafe, PTL DEF Spec

\* Under the same condition FreeRTOS_recvfrom finds in its critical section
\* the packet it counted outside.
THEOREM CountedPacketIsThere == ASSUME OneTaskEach PROVE Spec => []TakeFindsPacket
BY InitTypes, NextTypes, InitSockets, NextSockets, SocketsSafe, PTL DEF Spec

----------------------------------------------------------------------------
(* The owners of a buffer *)

InQueue(b) == \E i \in 1..Len(queue) : queue[i].buf = b

OnList(b) == \E s \in Sockets : \E i \in 1..Len(waiting[s]) : waiting[s][i] = b

Held(b) == \E t \in Tasks : buf[t] = b

\* The kinds of places exclude each other, and leave no buffer out.
Partition ==
    \A b \in Buffers :
        /\ b \in pool \/ b \in driver \/ InQueue(b) \/ OnList(b) \/ Held(b)
        /\ b \in pool => b \notin driver /\ ~InQueue(b) /\ ~OnList(b) /\ ~Held(b)
        /\ b \in driver => ~InQueue(b) /\ ~OnList(b) /\ ~Held(b)
        /\ InQueue(b) => ~OnList(b) /\ ~Held(b)
        /\ OnList(b) => ~Held(b)

\* Within a kind a buffer is in one place.
QueueSole ==
    \A i, j \in 1..Len(queue) : queue[i].buf = queue[j].buf /\ queue[i].buf # None => i = j

ListSole ==
    \A s, r \in Sockets : \A i \in 1..Len(waiting[s]), j \in 1..Len(waiting[r]) :
        waiting[s][i] = waiting[r][j] => s = r /\ i = j

HeldSole == \A t, u \in Tasks : buf[t] = buf[u] /\ buf[t] # None => t = u

\* A structure that is free has no packets: FreeRTOS_socket forgets none.
FreeIsEmpty == \A s \in Sockets : handle[s] = "none" => waiting[s] = <<>>

BuffersOK == Partition /\ QueueSole /\ ListSole /\ HeldSole /\ FreeIsEmpty

LEMMA OnePlace == Types /\ BuffersOK => BuffersOwnedOnce
<1> SUFFICES ASSUME Types, BuffersOK, NEW b \in Buffers PROVE \E p : Places(b) = {p}
  BY FS_Singleton DEF BuffersOwnedOnce
<1> DEFINE Q == {<<"event", i>> : i \in {j \in DOMAIN queue : queue[j].buf = b}}
           L == UNION {{<<"list", s, i>> : i \in {j \in DOMAIN waiting[s] : waiting[s][j] = b}} :
                       s \in Sockets}
           T == {<<"task", t>> : t \in {u \in Tasks : buf[u] = b}}
           P == {<<"pool">> : x \in {b} \cap pool}
           D == {<<"driver">> : x \in {b} \cap driver}
<1>1. Places(b) = Q \cup L \cup T \cup P \cup D
  BY DEF Places
<1>2. DOMAIN queue = 1..Len(queue) /\ \A s \in Sockets : DOMAIN waiting[s] = 1..Len(waiting[s])
  <2>1. \A s \in Sockets : waiting[s] \in Seq(Buffers)
    BY DEF Types, SocketTypes
  <2> QED BY <2>1 DEF Types, QueueTypes
<1>3. ~InQueue(b) => Q = {}
  BY <1>2 DEF InQueue
<1>4. ~OnList(b) => L = {}
  BY <1>2 DEF OnList
<1>5. ~Held(b) => T = {}
  BY DEF Held
<1>6. /\ b \notin pool => P = {}
      /\ b \in pool => P = {<<"pool">>}
  OBVIOUS
<1>7. /\ b \notin driver => D = {}
      /\ b \in driver => D = {<<"driver">>}
  OBVIOUS
<1>8. InQueue(b) => \E p : Q = {p}
  <2> SUFFICES ASSUME InQueue(b) PROVE \E p : Q = {p}
    OBVIOUS
  <2>1. PICK i \in 1..Len(queue) : queue[i].buf = b
    BY DEF InQueue
  <2>2. \A j \in 1..Len(queue) : queue[j].buf = b => j = i
    BY <2>1 DEF BuffersOK, QueueSole
  <2>3. {j \in DOMAIN queue : queue[j].buf = b} = {i}
    BY <1>2, <2>1, <2>2
  <2>4. Q = {<<"event", i>>}
    BY <2>3
  <2> QED BY <2>4
<1>9. OnList(b) => \E p : L = {p}
  <2> SUFFICES ASSUME OnList(b) PROVE \E p : L = {p}
    OBVIOUS
  <2>0. PICK s \in Sockets : \E i \in 1..Len(waiting[s]) : waiting[s][i] = b
    BY DEF OnList
  <2>1. PICK i \in 1..Len(waiting[s]) : waiting[s][i] = b
    BY <2>0
  <2>2. \A r \in Sockets : \A j \in 1..Len(waiting[r]) : waiting[r][j] = b => r = s /\ j = i
    BY <2>1 DEF BuffersOK, ListSole
  <2>3. {j \in DOMAIN waiting[s] : waiting[s][j] = b} = {i}
    BY <1>2, <2>1, <2>2
  <2>4. \A r \in Sockets \ {s} : {j \in DOMAIN waiting[r] : waiting[r][j] = b} = {}
    BY <1>2, <2>2
  <2>5. L = {<<"list", s, i>>}
    <3>1. \A p \in L : p = <<"list", s, i>>
      BY <2>3, <2>4
    <3>2. <<"list", s, i>> \in {<<"list", s, j>> : j \in {j \in DOMAIN waiting[s] : waiting[s][j] = b}}
      BY <2>3
    <3>3. <<"list", s, i>> \in L
      BY <3>2
    <3> QED BY <3>1, <3>3
  <2> QED BY <2>5
<1>10. Held(b) => \E p : T = {p}
  <2> SUFFICES ASSUME Held(b) PROVE \E p : T = {p}
    OBVIOUS
  <2>1. PICK t \in Tasks : buf[t] = b
    BY DEF Held
  <2>2. {u \in Tasks : buf[u] = b} = {t}
    BY <2>1, NoneAssumption DEF BuffersOK, HeldSole
  <2>3. T = {<<"task", t>>}
    BY <2>2
  <2> QED BY <2>3
<1> HIDE DEF Q, L, T, P, D
<1> QED BY <1>1, <1>3, <1>4, <1>5, <1>6, <1>7, <1>8, <1>9, <1>10 DEF BuffersOK, Partition

\* Appending an event, and taking the first.
LEMMA AppendBuffer ==
  ASSUME QueueTypes, HasRoom, QueueSole, NEW e \in EventSet, queue' = Append(queue, e),
         e.buf # None => ~InQueue(e.buf)
  PROVE  QueueSole' /\ \A b \in Buffers : InQueue(b)' <=> InQueue(b) \/ b = e.buf
<1>1. /\ Len(queue) \in Nat /\ Len(queue') = Len(queue) + 1
      /\ \A i \in 1..Len(queue) : queue'[i] = queue[i]
      /\ queue'[Len(queue) + 1] = e
  BY AppendEvent
<1>2. \A i \in 1..Len(queue') : i \in 1..Len(queue) \/ i = Len(queue) + 1
  BY <1>1
<1>3. \A i \in 1..Len(queue) : i \in 1..Len(queue')
  BY <1>1
<1>4. Len(queue) + 1 \in 1..Len(queue')
  BY <1>1
<1>5. QueueSole'
  BY <1>1, <1>2 DEF QueueSole, InQueue
<1> QED BY <1>1, <1>2, <1>3, <1>4, <1>5 DEF InQueue

LEMMA TailBuffer ==
  ASSUME QueueTypes, QueueSole, queue # <<>>, queue' = Tail(queue), NEW x, x = Head(queue).buf
  PROVE  /\ QueueSole'
         /\ \A b \in Buffers : /\ InQueue(b)' <=> InQueue(b) /\ b # x
                               /\ b = x => InQueue(b)
<1>1. /\ Len(queue) \in Nat /\ Len(queue') = Len(queue) - 1
      /\ \A i \in 1..Len(queue') : i + 1 \in 1..Len(queue) /\ queue'[i] = queue[i + 1]
      /\ Head(queue) = queue[1] /\ 1 \in 1..Len(queue)
  BY TailEvent
<1>2. \A i \in 1..Len(queue) : i = 1 \/ (i - 1 \in 1..Len(queue') /\ queue[i] = queue'[i - 1])
  <2> SUFFICES ASSUME NEW i \in 1..Len(queue), i # 1
               PROVE  i - 1 \in 1..Len(queue') /\ queue[i] = queue'[i - 1]
    OBVIOUS
  <2>1. i - 1 \in 1..Len(queue') /\ (i - 1) + 1 = i
    BY <1>1
  <2> QED BY <2>1, <1>1
<1>3. QueueSole'
  <2> SUFFICES ASSUME NEW i \in 1..Len(queue'), NEW j \in 1..Len(queue'),
                      queue'[i].buf = queue'[j].buf, queue'[i].buf # None
               PROVE  i = j
    BY DEF QueueSole
  <2>1. i + 1 = j + 1
    BY <1>1 DEF QueueSole
  <2> QED BY <2>1
<1>4. ASSUME NEW b \in Buffers, InQueue(b)' PROVE InQueue(b) /\ b # x
  <2>1. PICK i \in 1..Len(queue') : queue'[i].buf = b
    BY <1>4 DEF InQueue
  <2>2. i + 1 \in 1..Len(queue) /\ queue[i + 1].buf = b /\ i + 1 # 1
    BY <2>1, <1>1
  <2> QED BY <2>2, <1>1 DEF InQueue, QueueSole
<1>5. ASSUME NEW b \in Buffers, InQueue(b), b # x PROVE InQueue(b)'
  <2>1. PICK i \in 1..Len(queue) : queue[i].buf = b
    BY <1>5 DEF InQueue
  <2>2. i - 1 \in 1..Len(queue') /\ queue'[i - 1].buf = b
    BY <2>1, <1>1, <1>2, <1>5
  <2> QED BY <2>2 DEF InQueue
<1>6. \A b \in Buffers : b = x => InQueue(b)
  BY <1>1 DEF InQueue
<1> QED BY <1>3, <1>4, <1>5, <1>6

\* A packet joins a list, is taken from it, or the list is emptied.
LEMMA InsertBuffer ==
  ASSUME SocketTypes, ListSole, NEW s \in Sockets, NEW x \in Buffers, ~OnList(x),
         waiting' = [waiting EXCEPT ![s] = Append(@, x)]
  PROVE  ListSole' /\ \A b \in Buffers : OnList(b)' <=> OnList(b) \/ b = x
<1>1. waiting[s] \in Seq(Buffers)
  BY DEF SocketTypes
<1>2. waiting'[s] = Append(waiting[s], x) /\ \A r \in Sockets \ {s} : waiting'[r] = waiting[r]
  BY DEF SocketTypes
<1>3. /\ Len(waiting[s]) \in Nat /\ Len(waiting'[s]) = Len(waiting[s]) + 1
      /\ \A i \in 1..Len(waiting[s]) : waiting'[s][i] = waiting[s][i]
      /\ waiting'[s][Len(waiting[s]) + 1] = x
  BY <1>1, <1>2
<1>4. \A i \in 1..Len(waiting'[s]) : i \in 1..Len(waiting[s]) \/ i = Len(waiting[s]) + 1
  BY <1>3
<1>5. /\ \A i \in 1..Len(waiting[s]) : i \in 1..Len(waiting'[s])
      /\ Len(waiting[s]) + 1 \in 1..Len(waiting'[s])
  BY <1>3
<1>6. \A r \in Sockets : \A i \in 1..Len(waiting'[r]) :
         \/ i \in 1..Len(waiting[r]) /\ waiting'[r][i] = waiting[r][i]
         \/ r = s /\ i = Len(waiting[s]) + 1 /\ waiting'[r][i] = x
  BY <1>2, <1>3, <1>4
<1>7. ListSole'
  BY <1>6 DEF ListSole, OnList
<1>8. ASSUME NEW b \in Buffers, OnList(b)' PROVE OnList(b) \/ b = x
  BY <1>6, <1>8 DEF OnList
<1>9. ASSUME NEW b \in Buffers, OnList(b) PROVE OnList(b)'
  <2>0. PICK r \in Sockets : \E i \in 1..Len(waiting[r]) : waiting[r][i] = b
    BY <1>9 DEF OnList
  <2>1. PICK i \in 1..Len(waiting[r]) : waiting[r][i] = b
    BY <2>0
  <2>2. i \in 1..Len(waiting'[r]) /\ waiting'[r][i] = b
    BY <2>1, <1>2, <1>3, <1>5
  <2> QED BY <2>2 DEF OnList
<1>10. OnList(x)'
  BY <1>3, <1>5 DEF OnList
<1> QED BY <1>7, <1>8, <1>9, <1>10

LEMMA TakeBuffer ==
  ASSUME SocketTypes, ListSole, NEW s \in Sockets, waiting[s] # <<>>, NEW x, x = Head(waiting[s]),
         waiting' = [waiting EXCEPT ![s] = Tail(@)]
  PROVE  /\ ListSole'
         /\ x \in Buffers
         /\ \A b \in Buffers : /\ OnList(b)' <=> OnList(b) /\ b # x
                               /\ b = x => OnList(b)
<1>1. /\ x \in Buffers
      /\ Len(waiting[s]) \in Nat /\ Len(Tail(waiting[s])) = Len(waiting[s]) - 1
      /\ \A i \in 1..Len(Tail(waiting[s])) :
            i + 1 \in 1..Len(waiting[s]) /\ Tail(waiting[s])[i] = waiting[s][i + 1]
      /\ x = waiting[s][1] /\ 1 \in 1..Len(waiting[s])
  BY WaitingHead DEF SocketTypes
<1>2. waiting'[s] = Tail(waiting[s]) /\ \A r \in Sockets \ {s} : waiting'[r] = waiting[r]
  BY DEF SocketTypes
<1>3. \A r \in Sockets : \A i \in 1..Len(waiting'[r]) :
         \/ r # s /\ i \in 1..Len(waiting[r]) /\ waiting'[r][i] = waiting[r][i]
         \/ r = s /\ i + 1 \in 1..Len(waiting[s]) /\ i + 1 # 1
            /\ waiting'[r][i] = waiting[s][i + 1]
  <2> SUFFICES ASSUME NEW r \in Sockets, NEW i \in 1..Len(waiting'[r])
               PROVE  \/ r # s /\ i \in 1..Len(waiting[r]) /\ waiting'[r][i] = waiting[r][i]
                      \/ r = s /\ i + 1 \in 1..Len(waiting[s]) /\ i + 1 # 1
                         /\ waiting'[r][i] = waiting[s][i + 1]
    OBVIOUS
  <2>1. CASE r = s
    <3>1. i \in 1..Len(Tail(waiting[s])) /\ waiting'[r][i] = Tail(waiting[s])[i]
      BY <2>1, <1>2
    <3>2. i + 1 \in 1..Len(waiting[s]) /\ Tail(waiting[s])[i] = waiting[s][i + 1] /\ i + 1 # 1
      BY <3>1, <1>1
    <3> QED BY <2>1, <3>1, <3>2
  <2>2. CASE r # s
    BY <2>2, <1>2
  <2> QED BY <2>1, <2>2
<1>4. ListSole'
  <2> SUFFICES ASSUME NEW q \in Sockets, NEW r \in Sockets,
                      NEW i \in 1..Len(waiting'[q]), NEW j \in 1..Len(waiting'[r]),
                      waiting'[q][i] = waiting'[r][j]
               PROVE  q = r /\ i = j
    BY DEF ListSole
  <2>1. CASE q = s /\ r = s
    <3>1. i + 1 = j + 1
      BY <2>1, <1>1, <1>3 DEF ListSole
    <3> QED BY <3>1, <2>1
  <2>2. CASE ~(q = s /\ r = s)
    BY <2>2, <1>1, <1>3 DEF ListSole
  <2> QED BY <2>1, <2>2
<1>5. ASSUME NEW b \in Buffers, OnList(b)' PROVE OnList(b) /\ b # x
  <2>0. PICK r \in Sockets : \E i \in 1..Len(waiting'[r]) : waiting'[r][i] = b
    BY <1>5 DEF OnList
  <2>1. PICK i \in 1..Len(waiting'[r]) : waiting'[r][i] = b
    BY <2>0
  <2>2. CASE r # s
    BY <2>1, <2>2, <1>1, <1>3 DEF OnList, ListSole
  <2>3. CASE r = s
    <3>1. i + 1 \in 1..Len(waiting[s]) /\ waiting[s][i + 1] = b /\ i + 1 # 1
      BY <2>1, <2>3, <1>1, <1>3
    <3> QED BY <3>1, <1>1 DEF OnList, ListSole
  <2> QED BY <2>2, <2>3
<1>6. ASSUME NEW b \in Buffers, OnList(b), b # x PROVE OnList(b)'
  <2>0. PICK r \in Sockets : \E i \in 1..Len(waiting[r]) : waiting[r][i] = b
    BY <1>6 DEF OnList
  <2>1. PICK i \in 1..Len(waiting[r]) : waiting[r][i] = b
    BY <2>0
  <2>2. CASE r # s
    BY <2>1, <2>2, <1>2 DEF OnList
  <2>3. CASE r = s
    <3>1. i - 1 \in 1..Len(waiting'[s]) /\ (i - 1) + 1 = i
      BY <2>1, <2>3, <1>1, <1>2, <1>6
    <3>2. waiting'[s][i - 1] = b
      BY <3>1, <2>1, <2>3, <1>1, <1>2
    <3> QED BY <3>1, <3>2 DEF OnList
  <2> QED BY <2>2, <2>3
<1>7. \A b \in Buffers : b = x => OnList(b)
  BY <1>1 DEF OnList
<1> QED BY <1>1, <1>4, <1>5, <1>6, <1>7

LEMMA EmptyList ==
  ASSUME SocketTypes, ListSole, NEW s \in Sockets, waiting' = [waiting EXCEPT ![s] = <<>>],
         NEW W, W = {waiting[s][i] : i \in DOMAIN waiting[s]}
  PROVE  /\ ListSole'
         /\ \A b \in Buffers : /\ OnList(b)' <=> OnList(b) /\ b \notin W
                               /\ b \in W => OnList(b)
<1>1. waiting[s] \in Seq(Buffers)
  BY DEF SocketTypes
<1>2. waiting'[s] = <<>> /\ \A r \in Sockets \ {s} : waiting'[r] = waiting[r]
  BY DEF SocketTypes
<1>3. DOMAIN waiting[s] = 1..Len(waiting[s]) /\ 1..Len(waiting'[s]) = {}
  BY <1>1, <1>2
<1>4. \A r \in Sockets : \A i \in 1..Len(waiting'[r]) : r \in Sockets \ {s}
  BY <1>3
<1>5. ListSole'
  BY <1>2, <1>4 DEF ListSole
<1>6. \A b \in Buffers : b \in W <=> \E i \in 1..Len(waiting[s]) : waiting[s][i] = b
  BY <1>3
<1>7. ASSUME NEW b \in Buffers, OnList(b)' PROVE OnList(b) /\ b \notin W
  BY <1>2, <1>4, <1>6, <1>7 DEF OnList, ListSole
<1>8. ASSUME NEW b \in Buffers, OnList(b), b \notin W PROVE OnList(b)'
  BY <1>2, <1>6, <1>8 DEF OnList
<1>9. \A b \in Buffers : b \in W => OnList(b)
  BY <1>6 DEF OnList
<1> QED BY <1>5, <1>7, <1>8, <1>9

\* A task takes or drops a buffer.
LEMMA HoldBuffer ==
  ASSUME TaskTypes, HeldSole, NEW t \in Tasks, buf[t] = None, NEW x \in Buffers, ~Held(x),
         buf' = [buf EXCEPT ![t] = x]
  PROVE  HeldSole' /\ \A b \in Buffers : Held(b)' <=> Held(b) \/ b = x
<1>1. buf'[t] = x /\ \A u \in Tasks \ {t} : buf'[u] = buf[u]
  BY DEF TaskTypes
<1>2. HeldSole'
  BY <1>1 DEF HeldSole, Held
<1> QED BY <1>1, <1>2 DEF Held

LEMMA DropBuffer ==
  ASSUME TaskTypes, HeldSole, NEW t \in Tasks, NEW x, x = buf[t], x \in Buffers,
         buf' = [buf EXCEPT ![t] = None]
  PROVE  HeldSole' /\ Held(x) /\ \A b \in Buffers : Held(b)' <=> Held(b) /\ b # x
<1>1. buf'[t] = None /\ \A u \in Tasks \ {t} : buf'[u] = buf[u]
  BY DEF TaskTypes
<1>2. HeldSole'
  BY <1>1 DEF HeldSole
<1> QED BY <1>1, <1>2 DEF Held, HeldSole

LEMMA QueueStays ==
  ASSUME QueueSole, UNCHANGED queue PROVE QueueSole' /\ \A b : InQueue(b)' <=> InQueue(b)
BY DEF QueueSole, InQueue

LEMMA ListsStay ==
  ASSUME ListSole, UNCHANGED waiting PROVE ListSole' /\ \A b : OnList(b)' <=> OnList(b)
BY DEF ListSole, OnList

LEMMA TasksStay ==
  ASSUME HeldSole, UNCHANGED buf PROVE HeldSole' /\ \A b : Held(b)' <=> Held(b)
BY DEF HeldSole, Held

LEMMA PlacesStay ==
  ASSUME BuffersOK, UNCHANGED <<pool, driver, queue, waiting, buf, handle>>
  PROVE  BuffersOK'
<1>1. QueueSole' /\ \A b : InQueue(b)' <=> InQueue(b)
  BY QueueStays DEF BuffersOK
<1>2. ListSole' /\ \A b : OnList(b)' <=> OnList(b)
  BY ListsStay DEF BuffersOK
<1>3. HeldSole' /\ \A b : Held(b)' <=> Held(b)
  BY TasksStay DEF BuffersOK
<1>4. Partition'
  BY <1>1, <1>2, <1>3 DEF BuffersOK, Partition
<1>5. FreeIsEmpty'
  BY DEF BuffersOK, FreeIsEmpty
<1> QED BY <1>1, <1>2, <1>3, <1>4, <1>5 DEF BuffersOK

\* A structure is taken: its list was empty.
LEMMA SocketKeepsBuffers ==
  ASSUME Types, BuffersOK, NEW t \in Tasks, NEW s \in Sockets, Socket(t, s)
  PROVE  BuffersOK'
<1>1. /\ handle[s] = "none" /\ handle' = [handle EXCEPT ![s] = "open"]
      /\ waiting' = [waiting EXCEPT ![s] = <<>>]
      /\ UNCHANGED <<pool, driver, queue, buf>>
  BY DEF Socket, tasks
<1>2. waiting[s] = <<>> /\ waiting \in [Sockets -> Seq(Buffers)]
      /\ handle \in [Sockets -> {"none", "open", "closing"}]
  BY <1>1 DEF BuffersOK, FreeIsEmpty, Types, SocketTypes
<1>3. waiting' = waiting
  BY <1>1, <1>2
<1>4. QueueSole' /\ \A b : InQueue(b)' <=> InQueue(b)
  BY <1>1, QueueStays DEF BuffersOK
<1>5. ListSole' /\ \A b : OnList(b)' <=> OnList(b)
  BY <1>3, ListsStay DEF BuffersOK
<1>6. HeldSole' /\ \A b : Held(b)' <=> Held(b)
  BY <1>1, TasksStay DEF BuffersOK
<1>7. Partition'
  BY <1>1, <1>4, <1>5, <1>6 DEF BuffersOK, Partition
<1>8. FreeIsEmpty'
  BY <1>1, <1>2, <1>3 DEF BuffersOK, FreeIsEmpty
<1> QED BY <1>4, <1>5, <1>6, <1>7, <1>8 DEF BuffersOK

\* An event without a buffer is posted or handled.
LEMMA PlainEventKeepsBuffers ==
  ASSUME BuffersOK, QueueSole', \A b \in Buffers : InQueue(b)' <=> InQueue(b),
         UNCHANGED <<pool, driver, waiting, buf>>, FreeIsEmpty'
  PROVE  BuffersOK'
<1>1. ListSole' /\ \A b : OnList(b)' <=> OnList(b)
  BY ListsStay DEF BuffersOK
<1>2. HeldSole' /\ \A b : Held(b)' <=> Held(b)
  BY TasksStay DEF BuffersOK
<1>3. Partition'
  BY <1>1, <1>2 DEF BuffersOK, Partition
<1> QED BY <1>1, <1>2, <1>3 DEF BuffersOK

LEMMA CloseOrBindKeepsBuffers ==
  ASSUME Types, BuffersOK, NEW t \in Tasks,
         (\E s \in Sockets : CloseSocket(t, s)) \/ BindSend(t)
  PROVE  BuffersOK'
<1>0. QueueTypes /\ QueueSole /\ TaskTypes /\ SocketTypes
  BY DEF Types, BuffersOK
<1>1. PICK e \in EventSet : HasRoom /\ queue' = Append(queue, e) /\ e.buf = None
  <2>1. CASE BindSend(t)
    <3>1. Event("bind", sock[t], None, 0) \in EventSet /\ Event("bind", sock[t], None, 0).buf = None
      BY <1>0 DEF Event, EventSet, TaskTypes
    <3> QED BY <2>1, <3>1 DEF BindSend
  <2>2. ASSUME NEW s \in Sockets, CloseSocket(t, s)
        PROVE  \E e \in EventSet : HasRoom /\ queue' = Append(queue, e) /\ e.buf = None
    <3>1. Event("close", s, None, 0) \in EventSet /\ Event("close", s, None, 0).buf = None
      BY DEF Event, EventSet
    <3> QED BY <2>2, <3>1 DEF CloseSocket
  <2> QED BY <2>1, <2>2
<1>2. UNCHANGED <<pool, driver, waiting, buf>>
  BY DEF CloseSocket, BindSend, tasks, sockets
<1>3. QueueSole' /\ \A b \in Buffers : InQueue(b)' <=> InQueue(b)
  BY <1>0, <1>1, AppendBuffer
<1>4. FreeIsEmpty'
  <2>1. \A s \in Sockets : handle'[s] = "none" => handle[s] = "none"
    <3>1. CASE BindSend(t)
      BY <3>1 DEF BindSend, sockets
    <3>2. CASE \E s \in Sockets : CloseSocket(t, s)
      BY <3>2, <1>0 DEF CloseSocket, SocketTypes
    <3> QED BY <3>1, <3>2
  <2> QED BY <2>1, <1>2 DEF BuffersOK, FreeIsEmpty
<1> QED BY <1>2, <1>3, <1>4, PlainEventKeepsBuffers

\* A buffer goes from the pool to a task.
LEMMA GetKeepsBuffers ==
  ASSUME Types, BuffersOK, NEW t \in Tasks, GetBuffer(t) \/ GetUDPPayloadBuffer(t)
  PROVE  BuffersOK'
<1>0. /\ QueueSole /\ ListSole /\ HeldSole /\ Partition /\ FreeIsEmpty
      /\ TaskTypes /\ CallsOK /\ SocketTypes
  BY DEF Types, BuffersOK
<1>1. PICK x \in pool : buf' = [buf EXCEPT ![t] = x] /\ pool' = pool \ {x}
  BY DEF GetBuffer, GetUDPPayloadBuffer
<1>2. buf[t] = None /\ x \in Buffers
  BY <1>0 DEF GetBuffer, GetUDPPayloadBuffer, CallsOK, SocketTypes
<1>3. UNCHANGED <<queue, waiting, driver, handle>>
  BY DEF GetBuffer, GetUDPPayloadBuffer, sockets
<1>4. ~Held(x)
  BY <1>0, <1>2 DEF Partition
<1>5. HeldSole' /\ \A b \in Buffers : Held(b)' <=> Held(b) \/ b = x
  BY <1>0, <1>1, <1>2, <1>4, HoldBuffer
<1>6. QueueSole' /\ \A b : InQueue(b)' <=> InQueue(b)
  BY <1>0, <1>3, QueueStays
<1>7. ListSole' /\ \A b : OnList(b)' <=> OnList(b)
  BY <1>0, <1>3, ListsStay
<1>8. Partition'
  BY <1>0, <1>1, <1>3, <1>5, <1>6, <1>7 DEF Partition
<1>9. FreeIsEmpty'
  BY <1>0, <1>3 DEF FreeIsEmpty
<1> QED BY <1>5, <1>6, <1>7, <1>8, <1>9 DEF BuffersOK

\* A buffer goes from a task to the pool.
LEMMA ReleaseKeepsBuffers ==
  ASSUME Types, BuffersOK, NEW t \in Tasks, NEW x \in Buffers, x = buf[t],
         pool' = pool \cup {x}, buf' = [buf EXCEPT ![t] = None],
         UNCHANGED <<queue, waiting, driver, handle>>
  PROVE  BuffersOK'
<1>0. /\ QueueSole /\ ListSole /\ HeldSole /\ Partition /\ FreeIsEmpty
      /\ TaskTypes
  BY DEF Types, BuffersOK
<1>1. HeldSole' /\ Held(x) /\ \A b \in Buffers : Held(b)' <=> Held(b) /\ b # x
  BY <1>0, DropBuffer
<1>2. QueueSole' /\ \A b : InQueue(b)' <=> InQueue(b)
  BY <1>0, QueueStays
<1>3. ListSole' /\ \A b : OnList(b)' <=> OnList(b)
  BY <1>0, ListsStay
<1>4. Partition'
  BY <1>0, <1>1, <1>2, <1>3 DEF Partition
<1>5. FreeIsEmpty'
  BY <1>0 DEF FreeIsEmpty
<1> QED BY <1>1, <1>2, <1>3, <1>4, <1>5 DEF BuffersOK

LEMMA GivenBack ==
  ASSUME Types, BuffersOK, NEW t \in Tasks,
         ReleaseUDPPayloadBuffer(t) \/ RecvCopy(t) \/ PostFails(t)
  PROVE  BuffersOK'
<1>1. UNCHANGED <<queue, waiting, driver, handle>>
  BY DEF ReleaseUDPPayloadBuffer, RecvCopy, PostFails, sockets
<1>2. buf[t] \in Buffers
  BY DEF Types, TaskTypes, CallsOK, ReleaseUDPPayloadBuffer, RecvCopy, PostFails
<1>3. \/ pool' = pool \cup {buf[t]} /\ buf' = [buf EXCEPT ![t] = None]
      \/ UNCHANGED <<pool, buf>>
  BY DEF ReleaseUDPPayloadBuffer, RecvCopy, PostFails
<1>4. CASE UNCHANGED <<pool, buf>>
  BY <1>1, <1>4, PlacesStay
<1>5. CASE pool' = pool \cup {buf[t]} /\ buf' = [buf EXCEPT ![t] = None]
  BY <1>1, <1>2, <1>5, ReleaseKeepsBuffers
<1> QED BY <1>3, <1>4, <1>5

\* A buffer goes from a task to an event.
LEMMA PostKeepsBuffers ==
  ASSUME Types, BuffersOK, NEW t \in Tasks, Post(t)
  PROVE  BuffersOK'
<1>0. /\ QueueSole /\ ListSole /\ HeldSole /\ Partition /\ FreeIsEmpty
      /\ TaskTypes /\ CallsOK /\ SocketTypes /\ QueueTypes
  BY DEF Types, BuffersOK
<1>1. PICK x \in Buffers : x = buf[t]
  BY <1>0 DEF Post, CallsOK, TaskTypes
<1>2. sock[t] \in Sockets
  BY <1>0 DEF Post, TaskTypes, CallsOK
<1>3. PICK e \in EventSet : HasRoom /\ queue' = Append(queue, e) /\ e.buf = x
  <2>1. port[sock[t]] \in Ports \cup {0}
    BY <1>0, <1>2 DEF SocketTypes
  <2>2. Event("tx", None, x, port[sock[t]]) \in EventSet /\ Event("tx", None, x, port[sock[t]]).buf = x
    BY <2>1 DEF Event, EventSet
  <2> QED BY <2>2, <1>1 DEF Post
<1>4. buf' = [buf EXCEPT ![t] = None] /\ UNCHANGED <<pool, waiting, driver, handle>>
  BY DEF Post, sockets
<1>5. HeldSole' /\ Held(x) /\ \A b \in Buffers : Held(b)' <=> Held(b) /\ b # x
  BY <1>0, <1>1, <1>4, DropBuffer
<1>6. ~InQueue(x)
  BY <1>0, <1>5 DEF Partition
<1>7. QueueSole' /\ \A b \in Buffers : InQueue(b)' <=> InQueue(b) \/ b = x
  BY <1>0, <1>3, <1>6, AppendBuffer
<1>8. ListSole' /\ \A b : OnList(b)' <=> OnList(b)
  BY <1>0, <1>4, ListsStay
<1>9. Partition'
  BY <1>0, <1>4, <1>5, <1>7, <1>8 DEF Partition
<1>10. FreeIsEmpty'
  BY <1>0, <1>4 DEF FreeIsEmpty
<1> QED BY <1>5, <1>7, <1>8, <1>9, <1>10 DEF BuffersOK

\* A buffer goes from a list to a task.
LEMMA TakeKeepsBuffers ==
  ASSUME Types, BuffersOK, NEW t \in Tasks, RecvTake(t)
  PROVE  BuffersOK'
<1>0. /\ QueueSole /\ ListSole /\ HeldSole /\ Partition /\ FreeIsEmpty
      /\ TaskTypes /\ CallsOK /\ SocketTypes
  BY DEF Types, BuffersOK
<1>1. PICK s \in Sockets : s = sock[t]
  BY <1>0 DEF RecvTake, TaskTypes, CallsOK
<1>2. /\ waiting[s] # <<>> /\ buf' = [buf EXCEPT ![t] = Head(waiting[s])]
      /\ waiting' = [waiting EXCEPT ![s] = Tail(@)]
      /\ UNCHANGED <<pool, queue, driver, handle>>
  BY <1>1 DEF RecvTake
<1>3. PICK x : x = Head(waiting[s])
  OBVIOUS
<1>4. /\ ListSole' /\ x \in Buffers
      /\ \A b \in Buffers : (OnList(b)' <=> OnList(b) /\ b # x) /\ (b = x => OnList(b))
  BY <1>0, <1>2, <1>3, TakeBuffer
<1>5. buf[t] = None /\ ~Held(x)
  BY <1>0, <1>4 DEF RecvTake, CallsOK, Partition
<1>6. HeldSole' /\ \A b \in Buffers : Held(b)' <=> Held(b) \/ b = x
  BY <1>0, <1>2, <1>3, <1>4, <1>5, HoldBuffer
<1>7. QueueSole' /\ \A b : InQueue(b)' <=> InQueue(b)
  BY <1>0, <1>2, QueueStays
<1>8. Partition'
  BY <1>0, <1>2, <1>4, <1>6, <1>7 DEF Partition
<1>9. FreeIsEmpty'
  <2>1. handle[s] # "none"
    BY <1>0, <1>2 DEF FreeIsEmpty
  <2>2. \A r \in Sockets \ {s} : waiting'[r] = waiting[r]
    BY <1>0, <1>2 DEF SocketTypes
  <2> QED BY <2>1, <2>2, <1>0, <1>2 DEF FreeIsEmpty
<1> QED BY <1>4, <1>6, <1>7, <1>8, <1>9 DEF BuffersOK

\* The driver: a frame takes a buffer of the pool into the queue, and what was
\* transmitted goes back.
LEMMA DriverKeepsBuffers ==
  ASSUME Types, BuffersOK, ReceiveFrame \/ TransmitDone
  PROVE  BuffersOK'
<1>0. /\ QueueSole /\ ListSole /\ HeldSole /\ Partition /\ FreeIsEmpty
      /\ SocketTypes /\ QueueTypes
  BY DEF Types, BuffersOK
<1>1. UNCHANGED <<waiting, buf, handle>>
  BY DEF ReceiveFrame, TransmitDone, sockets, tasks
<1>2. ListSole' /\ \A b : OnList(b)' <=> OnList(b)
  BY <1>0, <1>1, ListsStay
<1>3. HeldSole' /\ \A b : Held(b)' <=> Held(b)
  BY <1>0, <1>1, TasksStay
<1>4. FreeIsEmpty'
  BY <1>0, <1>1 DEF FreeIsEmpty
<1>5. CASE ReceiveFrame
  <2>1. PICK x \in pool, p \in Ports \cup {0} :
          /\ pool' = pool \ {x}
          /\ queue' = Append(queue, Event("rx", None, x, p))
    BY <1>5 DEF ReceiveFrame
  <2>2. x \in Buffers
    BY <1>0 DEF SocketTypes
  <2>3. PICK e \in EventSet : e = Event("rx", None, x, p)
    BY <2>2 DEF Event, EventSet
  <2>4. HasRoom /\ queue' = Append(queue, e) /\ e.buf = x /\ UNCHANGED driver
    BY <1>5, <2>1, <2>3 DEF ReceiveFrame, Event
  <2>5. ~InQueue(x)
    BY <1>0, <2>2 DEF Partition
  <2>6. QueueSole' /\ \A b \in Buffers : InQueue(b)' <=> InQueue(b) \/ b = x
    BY <1>0, <2>4, <2>5, AppendBuffer
  <2>7. Partition'
    BY <1>0, <1>2, <1>3, <2>1, <2>4, <2>6 DEF Partition
  <2> QED BY <1>2, <1>3, <1>4, <2>6, <2>7 DEF BuffersOK
<1>6. CASE TransmitDone
  <2>1. PICK x \in driver : driver' = driver \ {x} /\ pool' = pool \cup {x}
    BY <1>6 DEF TransmitDone
  <2>2. QueueSole' /\ \A b : InQueue(b)' <=> InQueue(b)
    BY <1>0, <1>6, QueueStays DEF TransmitDone
  <2>3. Partition'
    BY <1>0, <1>2, <1>3, <2>1, <2>2 DEF Partition
  <2> QED BY <1>2, <1>3, <1>4, <2>2, <2>3 DEF BuffersOK
<1> QED BY <1>5, <1>6

\* The handlers of the IP task: the buffer of the event goes on, the packets of
\* a closed socket go to the pool.
LEMMA IPKeepsBuffers ==
  ASSUME Types, SocketsOK, BuffersOK, IPStep
  PROVE  BuffersOK'
<1>0. /\ QueueSole /\ ListSole /\ HeldSole /\ Partition /\ FreeIsEmpty
      /\ SocketTypes /\ QueueTypes /\ EventsOK
  BY DEF Types, BuffersOK
<1>t. UNCHANGED buf
  BY DEF IPStep, BindEvent, WakeUser, CloseEvent, TxEvent, RxEvent, tasks
<1>h. HeldSole' /\ \A b : Held(b)' <=> Held(b)
  BY <1>0, <1>t, TasksStay
<1>1. CASE WakeUser
  BY <1>1, <1>t, PlacesStay DEF WakeUser
<1>2. ASSUME BindEvent \/ CloseEvent \/ TxEvent \/ RxEvent PROVE BuffersOK'
  <2>0. queue # <<>> /\ queue' = Tail(queue)
    BY <1>2 DEF BindEvent, CloseEvent, TxEvent, RxEvent, Received
  <2>1. PICK e : e = Head(queue)
    OBVIOUS
  <2>2. /\ e.type \in {"bind", "close"} => e.sock \in Sockets /\ e.buf = None
        /\ e.type \in {"tx", "rx"} => e.buf \in Buffers
    BY <2>0, <2>1, <1>0, TailKeepsEvents
  <2>3. /\ QueueSole'
        /\ \A b \in Buffers : (InQueue(b)' <=> InQueue(b) /\ b # e.buf) /\ (b = e.buf => InQueue(b))
    BY <2>0, <2>1, <1>0, TailBuffer
  <2>4. CASE BindEvent
    <3>1. e.buf = None
      BY <2>1, <2>2, <2>4 DEF BindEvent, Received
    <3>2. \A b \in Buffers : InQueue(b)' <=> InQueue(b)
      BY <2>3, <3>1
    <3>3. UNCHANGED <<pool, driver, waiting, handle>>
      BY <2>4 DEF BindEvent
    <3>4. FreeIsEmpty'
      BY <1>0, <3>3 DEF FreeIsEmpty
    <3> QED BY <1>t, <2>3, <3>2, <3>3, <3>4, PlainEventKeepsBuffers
  <2>5. CASE CloseEvent
    <3>1. PICK s \in Sockets : e.sock = s /\ e.buf = None
      BY <2>1, <2>2, <2>5 DEF CloseEvent, Received
    <3>2. PICK W : W = {waiting[s][i] : i \in DOMAIN waiting[s]}
      OBVIOUS
    <3>3. /\ pool' = pool \cup W /\ waiting' = [waiting EXCEPT ![s] = <<>>]
          /\ handle' = [handle EXCEPT ![s] = "none"] /\ UNCHANGED driver
      BY <2>1, <2>5, <3>1, <3>2 DEF CloseEvent
    <3>4. /\ ListSole'
          /\ \A b \in Buffers : (OnList(b)' <=> OnList(b) /\ b \notin W) /\ (b \in W => OnList(b))
      BY <1>0, <3>2, <3>3, EmptyList
    <3>5. \A b \in Buffers : InQueue(b)' <=> InQueue(b)
      BY <2>3, <3>1
    <3>6. Partition'
      BY <1>0, <1>h, <3>3, <3>4, <3>5 DEF Partition
    <3>7. FreeIsEmpty'
      BY <1>0, <3>3 DEF FreeIsEmpty, SocketTypes
    <3> QED BY <1>h, <2>3, <3>4, <3>6, <3>7 DEF BuffersOK
  <2>6. CASE TxEvent
    <3>1. PICK x \in Buffers : e.buf = x
      BY <2>1, <2>2, <2>6 DEF TxEvent, Received
    <3>2. /\ UNCHANGED <<waiting, handle>>
          /\ \/ driver' = driver \cup {x} /\ UNCHANGED pool
             \/ pool' = pool \cup {x} /\ UNCHANGED driver
      BY <2>1, <2>6, <3>1 DEF TxEvent, sockets
    <3>3. ListSole' /\ \A b : OnList(b)' <=> OnList(b)
      BY <1>0, <3>2, ListsStay
    <3>4. Partition'
      BY <1>0, <1>h, <2>3, <3>1, <3>2, <3>3 DEF Partition
    <3>5. FreeIsEmpty'
      BY <1>0, <3>2 DEF FreeIsEmpty
    <3> QED BY <1>h, <2>3, <3>3, <3>4, <3>5 DEF BuffersOK
  <2>7. CASE RxEvent
    <3>1. PICK x \in Buffers : e.buf = x
      BY <2>1, <2>2, <2>7 DEF RxEvent, Received
    <3>2. /\ UNCHANGED handle
          /\ \/ /\ \E s \in Sockets : port[s] # 0 /\ waiting' = [waiting EXCEPT ![s] = Append(@, x)]
                /\ UNCHANGED <<pool, driver>>
             \/ driver' = driver \cup {x} /\ UNCHANGED <<pool, waiting>>
             \/ pool' = pool \cup {x} /\ UNCHANGED <<driver, waiting>>
      BY <2>1, <2>7, <3>1 DEF RxEvent, OnPort, Bound
    <3>3. CASE UNCHANGED waiting
      <4>1. ListSole' /\ \A b : OnList(b)' <=> OnList(b)
        BY <1>0, <3>3, ListsStay
      <4>2. \/ driver' = driver \cup {x} /\ UNCHANGED pool
            \/ pool' = pool \cup {x} /\ UNCHANGED driver
        <5>1. ASSUME NEW s \in Sockets, waiting' = [waiting EXCEPT ![s] = Append(@, x)] PROVE FALSE
          <6>1. waiting[s] \in Seq(Buffers) /\ waiting'[s] = Append(waiting[s], x)
            BY <1>0, <5>1 DEF SocketTypes
          <6>2. Len(Append(waiting[s], x)) = Len(waiting[s]) + 1 /\ Len(waiting[s]) \in Nat
            BY <6>1
          <6> QED BY <6>1, <6>2, <3>3
        <5> QED BY <3>2, <5>1
      <4>3. Partition'
        BY <1>0, <1>h, <2>3, <3>1, <4>1, <4>2 DEF Partition
      <4>4. FreeIsEmpty'
        BY <1>0, <3>2, <3>3 DEF FreeIsEmpty
      <4> QED BY <1>h, <2>3, <4>1, <4>3, <4>4 DEF BuffersOK
    <3>4. ASSUME NEW s \in Sockets, port[s] # 0, waiting' = [waiting EXCEPT ![s] = Append(@, x)],
                 UNCHANGED <<pool, driver>>
          PROVE  BuffersOK'
      <4>1. ~OnList(x)
        BY <1>0, <2>3, <3>1 DEF Partition
      <4>2. ListSole' /\ \A b \in Buffers : OnList(b)' <=> OnList(b) \/ b = x
        BY <1>0, <3>4, <4>1, InsertBuffer
      <4>3. Partition'
        BY <1>0, <1>h, <2>3, <3>1, <3>4, <4>2 DEF Partition
      <4>4. handle[s] # "none" /\ \A r \in Sockets \ {s} : waiting'[r] = waiting[r]
        BY <1>0, <3>4 DEF SocketsOK, Alive, SocketTypes
      <4>5. FreeIsEmpty'
        BY <1>0, <3>2, <4>4 DEF FreeIsEmpty
      <4> QED BY <1>h, <2>3, <4>2, <4>3, <4>5 DEF BuffersOK
    <3> QED BY <3>2, <3>3, <3>4
  <2> QED BY <2>4, <2>5, <2>6, <2>7, <1>2
<1> QED BY <1>1, <1>2 DEF IPStep

LEMMA InitBuffers == Init => BuffersOK
<1> SUFFICES ASSUME Init PROVE BuffersOK
  OBVIOUS
<1>1. /\ Len(queue) = 0 /\ 1..0 = {} /\ \A s \in Sockets : Len(waiting[s]) = 0
      /\ \A t \in Tasks : buf[t] = None
  BY DEF Init
<1>2. \A b \in Buffers : ~InQueue(b) /\ ~OnList(b) /\ ~Held(b)
  BY <1>1 DEF InQueue, OnList, Held
<1>3. Partition
  BY <1>2 DEF Init, Partition
<1>4. QueueSole /\ ListSole /\ HeldSole
  BY <1>1 DEF QueueSole, ListSole, HeldSole
<1>5. FreeIsEmpty
  BY DEF Init, FreeIsEmpty
<1> QED BY <1>3, <1>4, <1>5 DEF BuffersOK

LEMMA NextBuffers == Types /\ SocketsOK /\ BuffersOK /\ [Next]_vars => BuffersOK'
<1> SUFFICES ASSUME Types, SocketsOK, BuffersOK, [Next]_vars PROVE BuffersOK'
  OBVIOUS
<1>1. ASSUME NEW t \in Tasks,
             \/ \E s \in Sockets : \/ Bind(t, s) \/ SendTo(t, s) \/ RecvFrom(t, s)
                                   \/ RecvDontBlock(t, s)
             \/ BindPort(t) \/ BindWake(t) \/ GetBufferFails(t)
             \/ RecvWake(t) \/ RecvTimeout(t) \/ RecvCount(t)
      PROVE  BuffersOK'
  <2>1. UNCHANGED <<pool, driver, queue, waiting, buf, handle>>
    BY <1>1 DEF Bind, SendTo, RecvFrom, RecvDontBlock, BindPort, BindWake, GetBufferFails, RecvWake,
                RecvTimeout, RecvCount, sockets, tasks
  <2> QED BY <2>1, PlacesStay
<1>2. ASSUME NEW t \in Tasks, StartCall(t) PROVE BuffersOK'
  BY <1>1, <1>2, SocketKeepsBuffers, CloseOrBindKeepsBuffers, GetKeepsBuffers, GivenBack DEF StartCall
<1>3. ASSUME NEW t \in Tasks, BindSend(t) \/ Continue(t) \/ RecvTimeout(t) PROVE BuffersOK'
  BY <1>1, <1>3, CloseOrBindKeepsBuffers, GetKeepsBuffers, PostKeepsBuffers, GivenBack,
     TakeKeepsBuffers DEF Continue
<1>4. CASE (\E s \in Signalled : Signal(s)) \/ UNCHANGED vars
  <2>1. UNCHANGED <<pool, driver, queue, waiting, buf, handle>>
    BY <1>4 DEF Signal, vars, sockets, tasks
  <2> QED BY <2>1, PlacesStay
<1>5. CASE ReceiveFrame \/ TransmitDone
  BY <1>5, DriverKeepsBuffers
<1>6. CASE IPStep
  BY <1>6, IPKeepsBuffers
<1> QED BY <1>2, <1>3, <1>4, <1>5, <1>6 DEF Next

\* While each socket is used by one task, every buffer is in exactly one place:
\* none is lost and none is given to two owners, whatever fails.
THEOREM OneOwnerEach == ASSUME OneTaskEach PROVE Spec => []BuffersOwnedOnce
BY InitTypes, NextTypes, InitSockets, NextSockets, InitBuffers, NextBuffers, OnePlace, PTL DEF Spec
=============================================================================
