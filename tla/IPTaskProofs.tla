---------------------------- MODULE IPTaskProofs ----------------------------
(***************************************************************************)
(* Proofs about IPTask, for every length of the queue, every period and    *)
(* every set of tasks: nothing is processed before the network interface   *)
(* was initialised; and with the usual priorities no report of a network   *)
(* that is down and no request to check the TCP sockets gets lost, and the *)
(* ARP timer is looked at in time.                                         *)
(***************************************************************************)
EXTENDS IPTask, TLAPS

\* The priorities of this program: the network driver's task runs above the IP
\* task, the tasks that use the stack below it.
UsualPriorities == Drivers \subseteq Higher /\ Users \subseteq Lower

----------------------------------------------------------------------------
(* Types *)

IPRecords == [at : IPPlaces, then : {"ready", "loop", "pending"}, sent : BOOLEAN,
              event : Events \cup {"none"}, sleep : 0..(MaxSleep + ArpPeriod),
              next : 0..TcpPeriod, count : 0..(CountWidth - 1)]

TaskRecords == [at : TaskPlaces, event : Events \cup {"none"}, count : 0..(CountWidth - 1)]

ArpTimers == [active : BOOLEAN, remaining : Latest..ArpPeriod]

TcpTimers == [expired : BOOLEAN, remaining : Latest..TcpPeriod]

Types ==
    /\ queue \in Seq(Events) /\ Len(queue) <= QueueLength
    /\ initialised \in BOOLEAN /\ networkUp \in BOOLEAN /\ downPending \in BOOLEAN
    /\ tcpMessage \in BOOLEAN /\ opened \in BOOLEAN /\ tcpWanted \in BOOLEAN
    /\ downWanted \in BOOLEAN
    /\ rxCount \in 0..(CountWidth - 1)
    /\ arp \in ArpTimers /\ tcp \in TcpTimers
    /\ ip \in IPRecords
    /\ task \in [Posters -> TaskRecords]
    /\ ip.at = "rxStore" => ip.count > 0
    /\ \A t \in Posters : task[t].event = "none" => task[t].at = "idle"

LEMMA TypesOK == Types => TypeOK
BY DEF Types, TypeOK, IPRecords, TaskRecords, ArpTimers, TcpTimers

LEMMA Numbers ==
    /\ QueueLength \in Nat /\ QueueLength > 0 /\ ArpPeriod \in Nat /\ ArpPeriod > 0
    /\ TcpPeriod \in Nat /\ TcpPeriod > 0 /\ MaxSleep \in Nat /\ TcpPeriod <= MaxSleep
    /\ CountWidth \in Nat /\ CountWidth > 0 /\ Latest = -(TcpPeriod + 1) /\ Latest \in Int
BY QueueLengthAssumption, PeriodsAssumption, CountWidthAssumption DEF Latest

LEMMA LoopType == AtLoop \in IPRecords
BY Numbers DEF AtLoop, IPRecords, IPPlaces

\* IPGoto leaves nothing behind but the place.
LEMMA GotoType ==
    ASSUME NEW place \in IPPlaces, IPGoto(place)
    PROVE  /\ ip' \in IPRecords /\ ip'.at = place /\ ip'.then = "loop" /\ ip'.sent = FALSE
           /\ ip'.sleep = 0 /\ ip'.event = "none" /\ ip'.count = 0
<1>1. ip' = [AtLoop EXCEPT !.at = place]
  BY DEF IPGoto
<1>2. AtLoop.then = "loop" /\ AtLoop.sent = FALSE /\ AtLoop.sleep = 0 /\ AtLoop.event = "none"
      /\ AtLoop.count = 0
  BY DEF AtLoop
<1> QED BY <1>1, <1>2, LoopType DEF IPRecords

\* A post changes nothing, or adds the event at the end.
LEMMA PostedType ==
    ASSUME queue \in Seq(Events), Len(queue) <= QueueLength, NEW e \in Events
    PROVE  /\ Posted(e) \in Seq(Events) /\ Len(Posted(e)) <= QueueLength
           /\ Len(Posted(e)) >= Len(queue) /\ Len(Posted(e)) > 0
           /\ \A i \in 1..Len(queue) : Posted(e)[i] = queue[i]
           /\ \A i \in 1..Len(Posted(e)) : Posted(e)[i] = e \/ (i \in 1..Len(queue))
           /\ HasRoom => Posted(e)[Len(Posted(e))] = e
BY Numbers DEF Posted, HasRoom

LEMMA TaskGotoType ==
    ASSUME Types, NEW t \in Posters, NEW place \in TaskPlaces, TaskGoto(t, place)
    PROVE  /\ task' \in [Posters -> TaskRecords]
           /\ task'[t].at = place
           /\ task'[t].event = (IF place = "idle" THEN "none" ELSE task[t].event)
           /\ \A u \in Posters \ {t} : task'[u] = task[u]
BY Numbers DEF TaskGoto, Idle, Types, TaskRecords, TaskPlaces

LEMMA IPTypes ==
    ASSUME Types, IPProcess
    PROVE  Types'
<1> USE Numbers DEF Types
<1>0. AtLoop \in IPRecords /\ {"down", "downFlag", "ready", "loop", "tcp", "tcpStart", "sleep",
                               "wait", "handle", "opening", "rxStore", "delay", "pending"} = IPPlaces
  BY LoopType DEF IPPlaces
<1>1. CASE NetworkDown
  <2>1. ip' \in IPRecords /\ ip'.at # "rxStore"
    <3>1. ip' = [ip EXCEPT !.at = "downFlag", !.sent = HasRoom] /\ HasRoom \in BOOLEAN
      BY <1>1 DEF NetworkDown, HasRoom
    <3> QED BY <3>1, <1>0 DEF IPRecords
  <2> QED BY <1>1, <2>1, PostedType DEF NetworkDown, Events, timers
<1>2. CASE NetworkDownFlag
  <2>1. ip.then \in IPPlaces
    BY <1>0 DEF IPRecords
  <2> QED BY <1>2, <2>1, GotoType DEF NetworkDownFlag, timers, IPRecords
<1>3. CASE Ready
  <2>1. tcp' \in TcpTimers
    BY <1>3 DEF Ready, TcpTimers
  <2> QED BY <1>3, <2>1, <1>0, GotoType DEF Ready
<1>4. CASE CheckArpTimer
  <2>1. ip' \in IPRecords /\ ip'.at # "rxStore"
    BY <1>4, <1>0, GotoType DEF CheckArpTimer
  <2>2. arp' \in ArpTimers
    BY <1>4 DEF CheckArpTimer, ArpTimers
  <2> QED BY <1>4, <2>1, <2>2, PostedType DEF CheckArpTimer, Events
<1>5. CASE CheckTcpTimer
  <2>1. \A n \in NextTimes : n \in 0..TcpPeriod
    BY DEF NextTimes
  <2>2. ip' \in IPRecords /\ ip'.at # "rxStore" /\ tcpWanted' \in BOOLEAN
    <3>1. CASE TcpTimerDue \/ (tcpMessage /\ queue = <<>>)
      BY <1>5, <3>1, <2>1, <1>0 DEF CheckTcpTimer, IPRecords
    <3>2. CASE ~(TcpTimerDue \/ (tcpMessage /\ queue = <<>>))
      BY <1>5, <3>2, <1>0, GotoType DEF CheckTcpTimer
    <3> QED BY <3>1, <3>2
  <2>3. tcp' \in TcpTimers
    <3>1. [expired |-> FALSE, remaining |-> TcpPeriod] \in TcpTimers
      BY DEF TcpTimers
    <3> QED BY <1>5, <3>1 DEF CheckTcpTimer
  <2> QED BY <1>5, <2>2, <2>3 DEF CheckTcpTimer
<1>6. CASE StartTcpTimer
  <2>1. tcp' \in TcpTimers
    BY <1>6 DEF StartTcpTimer, IPRecords, TcpTimers
  <2> QED BY <1>6, <2>1, <1>0, GotoType DEF StartTcpTimer
<1>7. CASE BeginWait
  <2>1. (IF SleepTime < 0 THEN 0 ELSE SleepTime) \in 0..(MaxSleep + ArpPeriod)
    BY DEF SleepTime, ArpTimers, TcpTimers
  <2>2. ip' \in IPRecords /\ ip'.at # "rxStore"
    BY <1>7, <2>1, <1>0 DEF BeginWait, IPRecords
  <2> QED BY <1>7, <2>2 DEF BeginWait, timers
<1>8. CASE Receive
  <2>1. Head(queue) \in Events /\ Tail(queue) \in Seq(Events) /\ Len(Tail(queue)) <= QueueLength
    BY <1>8 DEF Receive
  <2>2. ip' \in IPRecords /\ ip'.at # "rxStore"
    BY <1>8, <2>1, <1>0 DEF Receive, IPRecords
  <2> QED BY <1>8, <2>1, <2>2 DEF Receive, timers
<1>9. CASE ReceiveTimesOut
  BY <1>9, <1>0, GotoType DEF ReceiveTimesOut, timers
<1>10. CASE HandleDown
  <2>1. arp' \in ArpTimers
    BY <1>10 DEF HandleDown, ArpTimers
  <2> QED BY <1>10, <2>1, <1>0, GotoType DEF HandleDown
<1>11. CASE NetworkUp
  <2>1. arp' \in ArpTimers
    BY <1>11 DEF NetworkUp, ArpTimers
  <2> QED BY <1>11, <2>1, <1>0, GotoType DEF NetworkUp
<1>12. CASE OpeningFails
  BY <1>12, <1>0, GotoType DEF OpeningFails, timers
<1>13. CASE EndDelay
  <2>1. ip' \in IPRecords /\ ip'.at # "rxStore"
    BY <1>13, <1>0 DEF EndDelay, IPRecords
  <2>2. tcp' \in TcpTimers
    BY <1>13 DEF EndDelay, TcpTimers
  <2> QED BY <1>13, <2>1, <2>2 DEF EndDelay
<1>14. CASE HandleRx
  <2>1. ip' \in IPRecords /\ (ip'.at = "rxStore" => ip'.count > 0)
    <3>1. CASE queue # <<>> /\ rxCount # 0
      <4>1. ip' = [AtLoop EXCEPT !.at = "rxStore", !.count = rxCount]
        BY <1>14, <3>1 DEF HandleRx
      <4>2. rxCount > 0 /\ rxCount \in 0..(CountWidth - 1)
        BY <3>1
      <4>3. ip' \in IPRecords /\ ip'.count = rxCount
        BY <4>1, <4>2, <1>0 DEF IPRecords
      <4> QED BY <4>2, <4>3
    <3>2. CASE ~(queue # <<>> /\ rxCount # 0)
      BY <1>14, <3>2, <1>0, GotoType DEF HandleRx
    <3> QED BY <3>1, <3>2
  <2>2. rxCount' \in 0..(CountWidth - 1) /\ tcpMessage' \in BOOLEAN
    <3>1. rxCount' = (IF queue = <<>> THEN 0 ELSE rxCount) /\ tcpMessage' \in {tcpMessage, TRUE}
      BY <1>14 DEF HandleRx
    <3>2. 0 \in 0..(CountWidth - 1)
      OBVIOUS
    <3> QED BY <3>1, <3>2
  <2> QED BY <1>14, <2>1, <2>2 DEF HandleRx
<1>15. CASE StoreRxCount
  <2>1. ip.count - 1 \in 0..(CountWidth - 1)
    BY <1>15 DEF StoreRxCount, IPRecords
  <2> QED BY <1>15, <2>1, <1>0, GotoType DEF StoreRxCount, timers
<1>16. CASE HandleTcpTimer
  <2>1. tcp' \in TcpTimers
    BY <1>16 DEF HandleTcpTimer, TcpTimers
  <2> QED BY <1>16, <2>1, <1>0, GotoType DEF HandleTcpTimer
<1>17. CASE HandleOther
  BY <1>17, <1>0, GotoType DEF HandleOther, timers
<1>18. CASE CheckPending
  <2>1. (IF downPending THEN "down" ELSE "loop") \in IPPlaces
    BY <1>0
  <2> QED BY <1>18, <2>1, GotoType DEF CheckPending, timers
<1> QED BY <1>1, <1>2, <1>3, <1>4, <1>5, <1>6, <1>7, <1>8, <1>9, <1>10, <1>11, <1>12, <1>13,
           <1>14, <1>15, <1>16, <1>17, <1>18 DEF IPProcess

LEMMA TaskTypes ==
    ASSUME Types, NEW t \in Posters, Begin(t) \/ ContinueTask(t)
    PROVE  Types'
<1> USE Numbers DEF Types, TaskPlaces
<1>1. CASE Begin(t)
  <2>1. PICK e \in Requests(t) :
           /\ task' = [task EXCEPT ![t] =
                IF e = "rx" THEN [at |-> "inc", event |-> "rx", count |-> rxCount]
                ELSE [at |-> "send", event |-> e, count |-> 0]]
           /\ IF e = "tcpTimer"
              THEN /\ tcp' = [tcp EXCEPT !.expired = TRUE]
                   /\ tcpWanted' = TRUE
              ELSE UNCHANGED <<tcp, tcpWanted>>
    BY <1>1 DEF Begin
  <2>2. e \in Events
    BY DEF Requests, Events
  <2>3. task' \in [Posters -> TaskRecords]
    BY <2>1, <2>2 DEF TaskRecords
  <2>5. \A u \in Posters : task'[u].event = "none" => task'[u].at = "idle"
    <3>1. task'[t].event = e /\ e # "none" /\ \A u \in Posters \ {t} : task'[u] = task[u]
      BY <2>1 DEF Requests
    <3> QED BY <3>1
  <2>4. tcp' \in TcpTimers /\ tcpWanted' \in BOOLEAN
    BY <2>1 DEF TcpTimers
  <2> QED BY <1>1, <2>3, <2>4, <2>5 DEF Begin
<1>2. CASE Increment(t)
  <2>1. (task[t].count + 1) % CountWidth \in 0..(CountWidth - 1)
    BY DEF TaskRecords
  <2> QED BY <1>2, <2>1, TaskGotoType DEF Increment, timers
<1>3. CASE SkipSend(t)
  BY <1>3, TaskGotoType DEF SkipSend, timers
<1>4. CASE Send(t)
  <2>1. task[t].event \in Events
    BY <1>4 DEF Send, TaskRecords
  <2>2. queue' \in Seq(Events) /\ Len(queue') <= QueueLength
    BY <1>4, <2>1 DEF Send, HasRoom
  <2>3. (IF task[t].event = "down" THEN "clearFlag" ELSE "idle") \in TaskPlaces
    OBVIOUS
  <2>4. downWanted' \in BOOLEAN
    BY <1>4 DEF Send
  <2> QED BY <1>4, <2>2, <2>3, <2>4, TaskGotoType DEF Send, timers
<1>5. CASE SendFails(t)
  <2>1. (CASE task[t].event = "down" -> "setFlag"
           [] task[t].event = "rx"   -> "load"
           [] OTHER                  -> "idle") \in TaskPlaces
    OBVIOUS
  <2> QED BY <1>5, <2>1, TaskGotoType DEF SendFails, timers
<1>6. CASE LoadRxCount(t)
  <2>1. task' \in [Posters -> TaskRecords]
    BY <1>6 DEF LoadRxCount, TaskRecords, Events
  <2> QED BY <1>6, <2>1 DEF LoadRxCount, timers
<1>7. CASE Decrement(t)
  <2>1. (task[t].count - 1) % CountWidth \in 0..(CountWidth - 1)
    BY DEF TaskRecords
  <2> QED BY <1>7, <2>1, TaskGotoType DEF Decrement, timers
<1>8. CASE SetDownFlag(t)
  BY <1>8, TaskGotoType DEF SetDownFlag, timers
<1> QED BY <1>1, <1>2, <1>3, <1>4, <1>5, <1>6, <1>7, <1>8 DEF ContinueTask

LEMMA OtherTypes ==
    ASSUME Types, DownFromISR \/ Tick \/ UNCHANGED vars
    PROVE  Types'
<1> USE Numbers DEF Types
<1>1. CASE DownFromISR
  <2>1. downPending' \in BOOLEAN
    BY <1>1 DEF DownFromISR, HasRoom
  <2>2. "down" \in Events
    BY DEF Events
  <2>3. queue' \in Seq(Events) /\ Len(queue') <= QueueLength
    BY <1>1, <2>2, PostedType DEF DownFromISR
  <2>4. UNCHANGED <<initialised, networkUp, rxCount, arp, tcp, tcpMessage, ip, task, opened, tcpWanted>>
    BY <1>1 DEF DownFromISR, timers
  <2>5. downWanted' \in BOOLEAN
    BY <1>1 DEF DownFromISR
  <2> QED BY <2>1, <2>3, <2>4, <2>5
<1>2. CASE Tick
  <2>1. \A n \in Int : n >= Latest => OneLess(n) \in Int /\ OneLess(n) >= Latest /\ OneLess(n) <= n
    BY DEF OneLess
  <2>2. arp' \in ArpTimers
    BY <1>2, <2>1 DEF Tick, ArpTimers
  <2>3. tcp' \in TcpTimers
    BY <1>2, <2>1 DEF Tick, TcpTimers
  <2>4. ip' \in IPRecords /\ ip'.at = ip.at /\ ip'.count = ip.count
    <3>1. CASE ip.at = "wait" /\ ip.sleep > 0
      <4>1. ip' = [ip EXCEPT !.sleep = ip.sleep - 1]
        BY <1>2, <3>1 DEF Tick
      <4>2. ip.sleep - 1 \in 0..(MaxSleep + ArpPeriod)
        BY <3>1 DEF IPRecords
      <4> QED BY <4>1, <4>2 DEF IPRecords
    <3>2. CASE ~(ip.at = "wait" /\ ip.sleep > 0)
      BY <1>2, <3>2 DEF Tick
    <3> QED BY <3>1, <3>2
  <2> QED BY <1>2, <2>2, <2>3, <2>4 DEF Tick
<1>3. CASE UNCHANGED vars
  BY <1>3 DEF vars
<1> QED BY <1>1, <1>2, <1>3

LEMMA InitTypes == Init => Types
<1> SUFFICES ASSUME Init PROVE Types
  OBVIOUS
<1> USE Numbers DEF Types, Init
<1>1. ip \in IPRecords /\ ip.at # "rxStore"
  BY LoopType DEF IPRecords, IPPlaces
<1>2. task \in [Posters -> TaskRecords] /\ \A t \in Posters : task[t].at = "idle"
  BY DEF Idle, TaskRecords, TaskPlaces
<1>3. arp \in ArpTimers /\ tcp \in TcpTimers
  BY DEF ArpTimers, TcpTimers
<1>4. queue \in Seq(Events) /\ Len(queue) = 0
  OBVIOUS
<1>5. rxCount \in 0..(CountWidth - 1) /\ Len(queue) <= QueueLength
  BY <1>4
<1>6. /\ initialised \in BOOLEAN /\ networkUp \in BOOLEAN /\ downPending \in BOOLEAN
      /\ tcpMessage \in BOOLEAN /\ opened \in BOOLEAN /\ tcpWanted \in BOOLEAN
      /\ downWanted \in BOOLEAN
  OBVIOUS
<1> QED BY ONLY <1>1, <1>2, <1>3, <1>4, <1>5, <1>6 DEF Types

LEMMA NextTypes == Types /\ [Next]_vars => Types'
BY IPTypes, TaskTypes, OtherTypes DEF Next, IPStep

\* Every variable keeps its type: the queue and the numbers keep their bounds.
THEOREM TypeCorrect == Spec => []TypeOK
<1>1. Spec => []Types
  BY InitTypes, NextTypes, PTL DEF Spec
<1> QED BY <1>1, TypesOK, PTL

----------------------------------------------------------------------------
(* Where a task is, and with which event *)

Shape(t) ==
    /\ task[t].at \in {"inc", "load", "dec"} => task[t].event = "rx"
    /\ task[t].at \in {"setFlag", "clearFlag"} => task[t].event = "down"
    /\ task[t].event \in {"rx", "down"} => t \in Drivers
    /\ task[t].event \in {"tcpTimer", "other"} => t \in Users

Shapes == \A t \in Posters : Shape(t)

LEMMA InitShapes == Init => Shapes
BY DEF Init, Shapes, Shape, Idle

\* What a step of a task leaves as it is.
LEMMA ContinueEffect ==
    ASSUME Types, Shapes, NEW t \in Posters, ContinueTask(t)
    PROVE  /\ TaskMayRun(t) /\ task[t].at # "idle"
           /\ ip' = ip /\ opened' = opened /\ initialised' = initialised
           /\ UNCHANGED <<timers, tcpWanted>>
           /\ task'[t].event \in {"none", task[t].event}
           /\ task'[t].at # "idle" => task'[t].event = task[t].event
           /\ \A u \in Posters \ {t} : task'[u] = task[u]
           /\ Shape(t)'
<1>1. /\ TaskMayRun(t) /\ ip' = ip /\ opened' = opened /\ initialised' = initialised
      /\ UNCHANGED <<timers, tcpWanted>>
  BY DEF ContinueTask, Increment, SkipSend, Send, SendFails, LoadRxCount, Decrement, SetDownFlag
<1>2. CASE LoadRxCount(t)
  <2>1. task[t].event = "rx" /\ t \in Drivers /\ task[t].at = "load"
    BY <1>2 DEF LoadRxCount, Shapes, Shape
  <2>2. task'[t].event = "rx" /\ task'[t].at = "dec" /\ \A u \in Posters \ {t} : task'[u] = task[u]
    BY <1>2 DEF LoadRxCount, Types
  <2> QED BY <1>1, <2>1, <2>2 DEF Shape
<1>3. CASE ~LoadRxCount(t)
  <2>1. PICK place \in {"send", "idle", "clearFlag", "setFlag", "load"} :
           /\ TaskGoto(t, place) /\ task[t].at # "idle"
           /\ place = "load" => task[t].event = "rx"
           /\ place \in {"clearFlag", "setFlag"} => task[t].event = "down"
    <3>1. CASE Increment(t)
      BY <3>1 DEF Increment
    <3>2. CASE SkipSend(t) \/ Decrement(t) \/ SetDownFlag(t)
      BY <3>2 DEF SkipSend, Decrement, SetDownFlag
    <3>3. CASE Send(t)
      BY <3>3 DEF Send
    <3>4. CASE SendFails(t)
      BY <3>4 DEF SendFails
    <3> QED BY <1>3, <3>1, <3>2, <3>3, <3>4 DEF ContinueTask
  <2>2. /\ task'[t].at = place /\ task'[t].event = (IF place = "idle" THEN "none" ELSE task[t].event)
        /\ \A u \in Posters \ {t} : task'[u] = task[u]
    BY <2>1, TaskGotoType DEF TaskPlaces
  <2> QED BY <1>1, <2>1, <2>2 DEF Shapes, Shape
<1> QED BY <1>2, <1>3

LEMMA BeginEffect ==
    ASSUME Types, NEW t \in Posters, Begin(t)
    PROVE  \E e \in Requests(t) :
              /\ TaskMayRun(t) /\ (initialised \/ e = "down")
              /\ ip' = ip /\ queue' = queue /\ arp' = arp /\ UNCHANGED <<opened, initialised, downPending, downWanted>>
              /\ task'[t].event = e /\ task'[t].at = (IF e = "rx" THEN "inc" ELSE "send")
              /\ \A u \in Posters \ {t} : task'[u] = task[u]
              /\ IF e = "tcpTimer" THEN tcp'.expired = TRUE /\ tcpWanted' = TRUE
                 ELSE tcp' = tcp /\ tcpWanted' = tcpWanted
<1>1. PICK e \in Requests(t) :
           /\ initialised \/ e = "down"
           /\ task' = [task EXCEPT ![t] =
                IF e = "rx" THEN [at |-> "inc", event |-> "rx", count |-> rxCount]
                ELSE [at |-> "send", event |-> e, count |-> 0]]
           /\ IF e = "tcpTimer"
              THEN /\ tcp' = [tcp EXCEPT !.expired = TRUE]
                   /\ tcpWanted' = TRUE
              ELSE UNCHANGED <<tcp, tcpWanted>>
  BY DEF Begin
<1>2. task'[t].event = e /\ task'[t].at = (IF e = "rx" THEN "inc" ELSE "send")
  BY <1>1 DEF Types
<1>3. IF e = "tcpTimer" THEN tcp'.expired = TRUE /\ tcpWanted' = TRUE
      ELSE tcp' = tcp /\ tcpWanted' = tcpWanted
  BY <1>1 DEF Types, TcpTimers
<1>4. \A u \in Posters \ {t} : task'[u] = task[u]
  BY <1>1 DEF Types
<1> QED BY <1>1, <1>2, <1>3, <1>4 DEF Begin

LEMMA ShapesKept == Types /\ Shapes /\ [Next]_vars => Shapes'
<1> SUFFICES ASSUME Types, Shapes, [Next]_vars PROVE Shapes'
  OBVIOUS
<1>1. CASE \E t \in Posters : Begin(t)
  <2>1. PICK t \in Posters : Begin(t)
    BY <1>1
  <2>2. Shape(t)' /\ \A u \in Posters \ {t} : task'[u] = task[u]
    BY <2>1, BeginEffect, TasksAssumption DEF Requests, Shape, Posters
  <2> QED BY <2>2 DEF Shapes, Shape
<1>2. CASE \E t \in Posters : ContinueTask(t)
  <2>1. PICK t \in Posters : ContinueTask(t)
    BY <1>2
  <2>2. Shape(t)' /\ \A u \in Posters \ {t} : task'[u] = task[u]
    BY <2>1, ContinueEffect
  <2> QED BY <2>2 DEF Shapes, Shape
<1>3. CASE IPStep \/ DownFromISR \/ Tick \/ UNCHANGED vars
  <2>1. task' = task
    BY <1>3 DEF IPStep, IPProcess, NetworkDown, NetworkDownFlag, Ready, CheckArpTimer, CheckTcpTimer,
          StartTcpTimer, BeginWait, Receive, ReceiveTimesOut, HandleDown, NetworkUp, OpeningFails,
          EndDelay, HandleRx, StoreRxCount, HandleTcpTimer, HandleOther, CheckPending, DownFromISR,
          Tick, vars
  <2> QED BY <2>1 DEF Shapes, Shape
<1> QED BY <1>1, <1>2, <1>3 DEF Next

----------------------------------------------------------------------------
(* Nothing is processed before the network interface was initialised *)

OnlyDown == \A i \in 1..Len(queue) : queue[i] = "down"

\* Until the IP task is ready its queue holds reports of the network-down alone,
\* and from then until it has handled the first of them that one is the first.
Opening ==
    ~opened =>
        /\ ~initialised => OnlyDown /\ \A t \in Posters : task[t].event \in {"none", "down"}
        /\ ip.at \in {"down", "downFlag", "ready", "loop", "tcp", "tcpStart", "sleep", "wait", "handle"}
        /\ initialised <=> ip.at \notin {"down", "downFlag", "ready"}
        /\ ip.at \in {"down", "downFlag"} => ip.then = "ready"
        /\ ip.at \notin {"down", "handle"} => queue # <<>> /\ queue[1] = "down"
        /\ ip.at = "handle" => ip.event = "down"

\* What keeps it while the IP task stays where it is: events are added at the
\* end, and reports of the network-down alone until it is ready.
LEMMA PostersKeepOpening ==
    ASSUME queue \in Seq(Events), Opening,
           ip'.at = ip.at, ip'.then = ip.then, ip'.event = ip.event,
           opened' = opened, initialised' = initialised,
           queue' \in Seq(Events), Len(queue') >= Len(queue),
           \A i \in 1..Len(queue) : queue'[i] = queue[i],
           ~opened /\ ~initialised =>
               OnlyDown' /\ \A t \in Posters : task'[t].event \in {"none", "down"}
    PROVE  Opening'
<1>1. queue # <<>> => queue' # <<>> /\ queue'[1] = queue[1]
  OBVIOUS
<1> QED BY <1>1 DEF Opening

\* A post of the IP task is such an addition.
LEMMA PostAdds ==
    ASSUME queue \in Seq(Events), Len(queue) <= QueueLength, NEW e \in Events, queue' = Posted(e)
    PROVE  /\ queue' \in Seq(Events) /\ Len(queue') >= Len(queue) /\ queue' # <<>>
           /\ \A i \in 1..Len(queue) : queue'[i] = queue[i]
           /\ queue # <<>> => queue'[1] = queue[1]
           /\ OnlyDown /\ e = "down" => OnlyDown' /\ queue'[1] = "down"
<1>1. /\ queue' \in Seq(Events) /\ Len(queue') >= Len(queue) /\ Len(queue') > 0
      /\ \A i \in 1..Len(queue) : queue'[i] = queue[i]
      /\ \A i \in 1..Len(queue') : queue'[i] = e \/ (i \in 1..Len(queue))
  BY PostedType
<1>2. OnlyDown /\ e = "down" => OnlyDown'
  BY <1>1 DEF OnlyDown
<1>3. 1 \in 1..Len(queue')
  BY <1>1
<1> QED BY <1>1, <1>2, <1>3 DEF OnlyDown

LEMMA IPKeepsOpening ==
    ASSUME Types, Opening, IPProcess
    PROVE  Opening'
<1>0. queue \in Seq(Events) /\ Len(queue) <= QueueLength /\ initialised \in BOOLEAN
      /\ opened \in BOOLEAN /\ ip \in IPRecords
  BY Numbers DEF Types
<1>1. CASE opened'
  BY <1>1 DEF Opening
<1>2. CASE ~opened'
  <2>0. ~opened
    BY <1>2, <1>0 DEF IPProcess, NetworkDown, NetworkDownFlag, Ready, CheckArpTimer, CheckTcpTimer,
          StartTcpTimer, BeginWait, Receive, ReceiveTimesOut, HandleDown, NetworkUp, OpeningFails,
          EndDelay, HandleRx, StoreRxCount, HandleTcpTimer, HandleOther, CheckPending
  <2>a. /\ ~initialised => OnlyDown /\ \A t \in Posters : task[t].event \in {"none", "down"}
        /\ ip.at \in {"down", "downFlag", "ready", "loop", "tcp", "tcpStart", "sleep", "wait", "handle"}
        /\ initialised <=> ip.at \notin {"down", "downFlag", "ready"}
        /\ ip.at \in {"down", "downFlag"} => ip.then = "ready"
        /\ ip.at \notin {"down", "handle"} => queue # <<>> /\ queue[1] = "down"
        /\ ip.at = "handle" => ip.event = "down"
    BY <2>0 DEF Opening
  <2>1. CASE NetworkDown
    <3>1. /\ queue' = Posted("down") /\ ip'.at = "downFlag" /\ ip'.then = ip.then
          /\ initialised' = initialised /\ task' = task /\ ip.at = "down"
      BY <2>1, <1>0 DEF NetworkDown, IPRecords
    <3>2. queue' # <<>> /\ OnlyDown' /\ queue'[1] = "down"
      BY <3>1, <2>a, <1>0, PostAdds DEF Events
    <3> QED BY <3>1, <3>2, <2>a DEF Opening
  <2>2. CASE NetworkDownFlag
    <3>1. /\ queue' = queue /\ ip'.at = "ready" /\ initialised' = initialised /\ task' = task
          /\ ip.at = "downFlag"
      <4>1. ip.at = "downFlag" /\ ip.then = "ready"
        BY <2>2, <2>a DEF NetworkDownFlag
      <4> QED BY <2>2, <4>1, GotoType DEF NetworkDownFlag, IPPlaces
    <3> QED BY <3>1, <2>a DEF Opening, OnlyDown
  <2>3. CASE Ready
    <3>1. queue' = queue /\ ip'.at = "loop" /\ initialised' = TRUE /\ ip.at = "ready"
      BY <2>3, GotoType DEF Ready, IPPlaces
    <3> QED BY <3>1, <2>a DEF Opening
  <2>4. CASE CheckArpTimer
    <3>1. /\ queue' = queue \/ queue' = Posted("arp")
          /\ ip'.at = "tcp" /\ initialised' = initialised /\ task' = task /\ ip.at = "loop"
      BY <2>4, GotoType DEF CheckArpTimer, IPPlaces
    <3>2. queue' # <<>> /\ queue'[1] = "down"
      BY <3>1, <2>a, <1>0, PostAdds DEF Events
    <3> QED BY <3>1, <3>2, <2>a DEF Opening
  <2>5. CASE CheckTcpTimer
    <3>1. ip'.at \in {"tcpStart", "sleep"}
      <4>1. CASE TcpTimerDue \/ (tcpMessage /\ queue = <<>>)
        BY <2>5, <4>1, LoopType DEF CheckTcpTimer, IPRecords
      <4>2. CASE ~(TcpTimerDue \/ (tcpMessage /\ queue = <<>>))
        BY <2>5, <4>2, GotoType DEF CheckTcpTimer, IPPlaces
      <4> QED BY <4>1, <4>2
    <3>2. queue' = queue /\ initialised' = initialised /\ task' = task /\ ip.at = "tcp"
      BY <2>5 DEF CheckTcpTimer
    <3> QED BY <3>1, <3>2, <2>a DEF Opening
  <2>6. CASE StartTcpTimer
    <3>1. /\ queue' = queue /\ ip'.at = "sleep" /\ initialised' = initialised /\ task' = task
          /\ ip.at = "tcpStart"
      BY <2>6, GotoType DEF StartTcpTimer, IPPlaces
    <3> QED BY <3>1, <2>a DEF Opening
  <2>7. CASE BeginWait
    <3>1. /\ queue' = queue /\ ip'.at = "wait" /\ initialised' = initialised /\ task' = task
          /\ ip.at = "sleep"
      BY <2>7, LoopType DEF BeginWait, IPRecords
    <3> QED BY <3>1, <2>a DEF Opening
  <2>8. CASE Receive
    <3>1. /\ ip'.at = "handle" /\ ip'.event = Head(queue) /\ initialised' = initialised
          /\ task' = task /\ ip.at = "wait"
      BY <2>8, LoopType DEF Receive, IPRecords
    <3>2. Head(queue) = "down"
      BY <3>1, <2>a, <1>0
    <3> QED BY <3>1, <3>2, <2>a DEF Opening
  <2>9. CASE ReceiveTimesOut
    BY <2>9, <2>a DEF ReceiveTimesOut
  <2>10. CASE HandleDown
    BY <2>10, <1>2 DEF HandleDown
  <2>11. CASE NetworkUp \/ OpeningFails \/ EndDelay \/ StoreRxCount \/ CheckPending
    BY <2>11, <2>a DEF NetworkUp, OpeningFails, EndDelay, StoreRxCount, CheckPending
  <2>12. CASE HandleRx \/ HandleTcpTimer \/ HandleOther
    BY <2>12, <2>a DEF HandleRx, HandleTcpTimer, HandleOther
  <2> QED BY <2>1, <2>2, <2>3, <2>4, <2>5, <2>6, <2>7, <2>8, <2>9, <2>10, <2>11, <2>12
          DEF IPProcess
<1> QED BY <1>1, <1>2

LEMMA OthersKeepOpening ==
    ASSUME Types, Shapes, Opening, (\E t \in Posters : Begin(t) \/ ContinueTask(t)) \/ DownFromISR \/ Tick
                           \/ UNCHANGED vars
    PROVE  Opening'
<1>0. queue \in Seq(Events) /\ Len(queue) <= QueueLength /\ initialised \in BOOLEAN
      /\ opened \in BOOLEAN /\ ip \in IPRecords
  BY Numbers DEF Types
<1>a. ~opened /\ ~initialised => OnlyDown /\ \A t \in Posters : task[t].event \in {"none", "down"}
  BY DEF Opening
<1>1. CASE \E t \in Posters : Begin(t)
  <2>1. PICK t \in Posters : Begin(t)
    BY <1>1
  <2>2. PICK e \in Requests(t) :
           /\ initialised \/ e = "down"
           /\ ip' = ip /\ queue' = queue /\ UNCHANGED <<opened, initialised>>
           /\ task'[t].event = e
           /\ \A u \in Posters \ {t} : task'[u] = task[u]
    BY <2>1, BeginEffect
  <2>3. ASSUME ~opened, ~initialised, NEW u \in Posters PROVE task'[u].event \in {"none", "down"}
    BY <2>2, <2>3, <1>a
  <2> QED BY <2>2, <2>3, <1>0, <1>a, PostersKeepOpening DEF OnlyDown
<1>2. CASE \E t \in Posters : ContinueTask(t)
  <2>1. PICK t \in Posters : ContinueTask(t)
    BY <1>2
  <2>2. /\ ip' = ip /\ opened' = opened /\ initialised' = initialised
        /\ task'[t].event \in {"none", task[t].event} /\ task[t].at # "idle"
        /\ \A u \in Posters \ {t} : task'[u] = task[u]
    BY <2>1, ContinueEffect
  <2>3. queue' = queue \/ queue' = Append(queue, task[t].event)
    BY <2>1 DEF ContinueTask, Increment, SkipSend, Send, SendFails, LoadRxCount, Decrement, SetDownFlag
  <2>4. task[t].event \in Events
    BY <2>2 DEF Types, TaskRecords
  <2>5. /\ queue' \in Seq(Events) /\ Len(queue') >= Len(queue)
        /\ \A i \in 1..Len(queue) : queue'[i] = queue[i]
        /\ OnlyDown /\ task[t].event = "down" => OnlyDown'
    BY <2>3, <2>4, <1>0 DEF OnlyDown
  <2>6. ASSUME ~opened, ~initialised
        PROVE  OnlyDown' /\ \A u \in Posters : task'[u].event \in {"none", "down"}
    BY <2>2, <2>4, <2>5, <2>6, <1>a DEF Events
  <2> QED BY <2>2, <2>5, <2>6, <1>0, PostersKeepOpening
<1>3. CASE DownFromISR
  <2>1. /\ queue' = Posted("down") /\ ip' = ip /\ opened' = opened /\ initialised' = initialised
        /\ task' = task
    BY <1>3 DEF DownFromISR
  <2> QED BY <2>1, <1>0, <1>a, PostAdds, PostersKeepOpening DEF Events
<1>4. CASE Tick
  <2>1. /\ queue' = queue /\ opened' = opened /\ initialised' = initialised /\ task' = task
        /\ ip'.at = ip.at /\ ip'.then = ip.then /\ ip'.event = ip.event
    BY <1>4, <1>0 DEF Tick, IPRecords
  <2> QED BY <2>1, <1>0, <1>a, PostersKeepOpening DEF OnlyDown
<1>5. CASE UNCHANGED vars
  BY <1>5 DEF vars, Opening, OnlyDown
<1> QED BY <1>1, <1>2, <1>3, <1>4, <1>5

\* No frame, packet, socket or timer is processed before the network interface
\* was initialised.
THEOREM FirstThingsFirst == Spec => []InitBeforeTraffic
<1>1. Init => Opening
  <2> SUFFICES ASSUME Init PROVE Opening
    OBVIOUS
  <2>1. /\ ip.at = "down" /\ ip.then = "ready" /\ ~initialised
        /\ \A t \in Posters : task[t].event = "none"
    BY LoopType DEF Init, Idle, IPRecords
  <2>2. OnlyDown
    BY DEF Init, OnlyDown
  <2> QED BY <2>1, <2>2 DEF Opening
<1>2. Types /\ Shapes /\ Opening /\ [Next]_vars => Opening'
  BY IPKeepsOpening, OthersKeepOpening DEF Next, IPStep
<1>3. Types /\ Opening => InitBeforeTraffic
  BY DEF Opening, InitBeforeTraffic, Types
<1> QED BY InitTypes, InitShapes, NextTypes, ShapesKept, <1>1, <1>2, <1>3, PTL DEF Spec

----------------------------------------------------------------------------
(* Requests for a check of the TCP sockets *)

Sending(t) == task[t].at = "send" /\ task[t].event = "tcpTimer"

\* A request that has not been seen is recorded in the timer; it cannot be made
\* between the test of the timer and the wait, and there its event is sent.
Asked ==
    /\ ~initialised => ~tcpWanted
    /\ ip.at = "ready" => ~initialised
    /\ ip.at \in {"down", "downFlag"} /\ ip.then = "ready" => ~initialised
    /\ tcpWanted => tcp.expired
    /\ ip.at \in {"tcpStart", "sleep"} => ~tcpWanted
    /\ ip.at = "wait" /\ queue = <<>> => ~tcpWanted \/ \E t \in Posters : Sending(t)

LEMMA IPKeepsAsked ==
    ASSUME Types, Asked, IPProcess
    PROVE  Asked'
<1>0. /\ ip \in IPRecords /\ tcp \in TcpTimers /\ AtLoop \in IPRecords
      /\ tcpWanted \in BOOLEAN /\ initialised \in BOOLEAN
  BY LoopType DEF Types
<1>1. CASE NetworkDown
  <2>1. ip'.at = "downFlag" /\ ip'.then = ip.then
        /\ UNCHANGED <<initialised, tcpWanted, tcp>> /\ ip.at = "down"
    BY <1>1, <1>0 DEF NetworkDown, IPRecords, timers
  <2> QED BY <2>1 DEF Asked
<1>2. CASE NetworkDownFlag
  <2>1. ip'.at = ip.then /\ ip'.then = "loop" /\ ip.at = "downFlag"
        /\ UNCHANGED <<initialised, tcpWanted, tcp>> /\ ip.then \in {"ready", "loop", "pending"}
    BY <1>2, <1>0, GotoType DEF NetworkDownFlag, IPRecords, IPPlaces, timers
  <2> QED BY <2>1 DEF Asked
<1>3. CASE Ready
  <2>1. ip'.at = "loop" /\ initialised' = TRUE /\ ~tcpWanted /\ tcpWanted' = tcpWanted
    BY <1>3, <1>0, GotoType DEF Ready, IPPlaces, Asked
  <2> QED BY <2>1 DEF Asked
<1>4. CASE CheckArpTimer
  <2>1. ip'.at = "tcp" /\ UNCHANGED <<initialised, tcpWanted, tcp>>
    BY <1>4, GotoType DEF CheckArpTimer, IPPlaces
  <2> QED BY <2>1 DEF Asked
<1>5. CASE CheckTcpTimer
  <2>1. ip'.at \in {"tcpStart", "sleep"} /\ initialised' = initialised /\ ~tcpWanted'
    <3>1. CASE TcpTimerDue \/ (tcpMessage /\ queue = <<>>)
      BY <1>5, <3>1, <1>0 DEF CheckTcpTimer, IPRecords
    <3>2. CASE ~(TcpTimerDue \/ (tcpMessage /\ queue = <<>>))
      <4>1. ~tcpWanted
        BY <3>2 DEF TcpTimerDue, Asked
      <4> QED BY <1>5, <3>2, <4>1, GotoType DEF CheckTcpTimer, IPPlaces
    <3> QED BY <3>1, <3>2
  <2> QED BY <2>1 DEF Asked
<1>6. CASE StartTcpTimer
  <2>1. ip'.at = "sleep" /\ UNCHANGED <<initialised, tcpWanted>> /\ ~tcpWanted
    BY <1>6, GotoType DEF StartTcpTimer, IPPlaces, Asked
  <2> QED BY <2>1 DEF Asked
<1>7. CASE BeginWait
  <2>1. ip'.at = "wait" /\ UNCHANGED <<initialised, tcpWanted>> /\ ~tcpWanted
    BY <1>7, <1>0 DEF BeginWait, IPRecords, Asked
  <2> QED BY <2>1 DEF Asked
<1>8. CASE Receive
  <2>1. ip'.at = "handle" /\ UNCHANGED <<initialised, tcpWanted, tcp>>
    BY <1>8, <1>0 DEF Receive, IPRecords, timers
  <2> QED BY <2>1 DEF Asked
<1>9. CASE ReceiveTimesOut \/ HandleDown \/ NetworkUp \/ OpeningFails \/ StoreRxCount \/ HandleOther
  <2>1. ip'.at \in {"pending", "opening", "delay"} /\ UNCHANGED <<initialised, tcpWanted, tcp>>
    BY <1>9, GotoType DEF ReceiveTimesOut, HandleDown, NetworkUp, OpeningFails, StoreRxCount,
          HandleOther, IPPlaces, timers
  <2> QED BY <2>1 DEF Asked
<1>10. CASE EndDelay
  <2>1. ip'.at = "down" /\ ip'.then = "pending" /\ UNCHANGED <<initialised, tcpWanted>>
        /\ tcp'.expired = tcp.expired
    BY <1>10, <1>0 DEF EndDelay, IPRecords, TcpTimers
  <2> QED BY <2>1 DEF Asked
<1>11. CASE HandleRx
  <2>1. ip'.at \in {"rxStore", "pending"} /\ UNCHANGED <<initialised, tcpWanted, tcp>>
    <3>1. CASE queue # <<>> /\ rxCount # 0
      BY <1>11, <3>1, <1>0 DEF HandleRx, IPRecords
    <3>2. CASE ~(queue # <<>> /\ rxCount # 0)
      BY <1>11, <3>2, GotoType DEF HandleRx, IPPlaces
    <3> QED BY <3>1, <3>2
  <2> QED BY <2>1 DEF Asked
<1>12. CASE HandleTcpTimer
  <2>1. ip'.at = "pending" /\ UNCHANGED <<initialised, tcpWanted>> /\ tcp'.expired = TRUE
    BY <1>12, <1>0, GotoType DEF HandleTcpTimer, IPPlaces, TcpTimers
  <2> QED BY <2>1 DEF Asked
<1>13. CASE CheckPending
  <2>1. ip'.at \in {"down", "loop"} /\ ip'.then = "loop" /\ UNCHANGED <<initialised, tcpWanted, tcp>>
    BY <1>13, GotoType DEF CheckPending, IPPlaces, timers
  <2> QED BY <2>1 DEF Asked
<1> QED BY <1>1, <1>2, <1>3, <1>4, <1>5, <1>6, <1>7, <1>8, <1>9, <1>10, <1>11, <1>12, <1>13
        DEF IPProcess

LEMMA OthersKeepAsked ==
    ASSUME UsualPriorities, Types, Shapes, Asked,
           (\E t \in Posters : Begin(t) \/ ContinueTask(t)) \/ DownFromISR \/ Tick \/ UNCHANGED vars
    PROVE  Asked'
<1>0. queue \in Seq(Events) /\ Len(queue) <= QueueLength /\ ip \in IPRecords /\ tcp \in TcpTimers
      /\ tcpWanted \in BOOLEAN /\ initialised \in BOOLEAN
  BY DEF Types
<1>1. CASE \E t \in Posters : Begin(t)
  <2>1. PICK t \in Posters : Begin(t)
    BY <1>1
  <2>2. PICK e \in Requests(t) :
           /\ TaskMayRun(t) /\ (initialised \/ e = "down")
           /\ ip' = ip /\ queue' = queue /\ initialised' = initialised
           /\ task'[t].event = e /\ task'[t].at = (IF e = "rx" THEN "inc" ELSE "send")
           /\ \A u \in Posters \ {t} : task'[u] = task[u]
           /\ IF e = "tcpTimer" THEN tcp'.expired = TRUE /\ tcpWanted' = TRUE
              ELSE tcp' = tcp /\ tcpWanted' = tcpWanted
    BY <2>1, BeginEffect
  <2>3. CASE e = "tcpTimer"
    <3>1. t \in Lower
      BY <2>3 DEF Requests, UsualPriorities, Posters
    <3>2. ip.at \in {"opening", "delay", "wait"}
      BY <2>2, <3>1 DEF TaskMayRun, IPBlocked
    <3>3. Sending(t)'
      BY <2>2, <2>3 DEF Sending
    <3> QED BY <2>2, <2>3, <3>2, <3>3 DEF Asked
  <2>4. CASE e # "tcpTimer"
    <3>1. task[t].at = "idle"
      BY <2>1 DEF Begin
    <3>2. \A u \in Posters : Sending(u) => Sending(u)'
      BY <2>2, <3>1 DEF Sending
    <3> QED BY <2>2, <2>4, <3>2 DEF Asked
  <2> QED BY <2>3, <2>4
<1>2. CASE \E t \in Posters : ContinueTask(t)
  <2>1. PICK t \in Posters : ContinueTask(t)
    BY <1>2
  <2>2. /\ ip' = ip /\ initialised' = initialised /\ UNCHANGED <<tcp, tcpWanted>>
        /\ \A u \in Posters \ {t} : task'[u] = task[u]
    BY <2>1, ContinueEffect DEF timers
  <2>3. queue' = queue \/ queue' # <<>>
    BY <2>1, <1>0 DEF ContinueTask, Increment, SkipSend, Send, SendFails, LoadRxCount, Decrement,
          SetDownFlag
  <2>4. Sending(t) => queue # <<>> \/ queue' # <<>>
    BY <2>1, <1>0 DEF ContinueTask, Increment, SkipSend, Send, SendFails, LoadRxCount, Decrement,
          SetDownFlag, Sending
  <2>5. \A u \in Posters : Sending(u) => Sending(u)' \/ u = t
    BY <2>2 DEF Sending
  <2> QED BY <2>2, <2>3, <2>4, <2>5 DEF Asked
<1>3. CASE DownFromISR
  <2>1. queue' # <<>> /\ ip' = ip /\ initialised' = initialised /\ UNCHANGED <<tcp, tcpWanted>>
    BY <1>3, <1>0, PostAdds DEF DownFromISR, Events, timers
  <2> QED BY <2>1 DEF Asked
<1>4. CASE Tick
  <2>1. /\ ip'.at = ip.at /\ ip'.then = ip.then /\ tcp'.expired = tcp.expired
        /\ UNCHANGED <<queue, task, initialised, tcpWanted>>
    BY <1>4, <1>0 DEF Tick, IPRecords, TcpTimers
  <2>2. \A u \in Posters : Sending(u) => Sending(u)'
    BY <2>1 DEF Sending
  <2> QED BY <2>1, <2>2 DEF Asked
<1>5. CASE UNCHANGED vars
  BY <1>5 DEF vars, timers, Asked, Sending
<1> QED BY <1>1, <1>2, <1>3, <1>4, <1>5

\* With the usual priorities no task that asks for a check of the TCP sockets
\* is left waiting while the IP task sleeps.
THEOREM RequestsAreSeen == ASSUME UsualPriorities PROVE Spec => []NoLostTcpWork
<1>1. Init => Asked
  <2> SUFFICES ASSUME Init PROVE Asked
    OBVIOUS
  <2>1. ip.at = "down" /\ ~initialised /\ ~tcpWanted
    BY LoopType DEF Init, IPRecords
  <2> QED BY <2>1 DEF Asked
<1>2. Types /\ Shapes /\ Asked /\ [Next]_vars => Asked'
  BY IPKeepsAsked, OthersKeepAsked DEF Next, IPStep
<1>3. Asked => NoLostTcpWork
  BY DEF Asked, Sending, NoLostTcpWork
<1> QED BY InitTypes, InitShapes, NextTypes, ShapesKept, <1>1, <1>2, <1>3, PTL DEF Spec

----------------------------------------------------------------------------
(* Reports that the network is down *)

DownQueued == \E i \in 1..Len(queue) : queue[i] = "down"

\* Who is about to clear the pending flag has left a report in the queue.
DownKept ==
    /\ DownNotLost
    /\ ip.at = "downFlag" /\ ip.sent => DownQueued
    /\ \A t \in Posters : task[t].at = "clearFlag" => DownQueued

\* A driver in the middle of a report keeps the IP task from running.
LEMMA NobodyReports ==
    ASSUME UsualPriorities, Shapes, IPStep
    PROVE  \A t \in Posters : task[t].at \notin {"setFlag", "clearFlag"}
BY DEF UsualPriorities, Shapes, Shape, IPStep, IPMayRun

LEMMA PostKeepsDown ==
    ASSUME queue \in Seq(Events), Len(queue) <= QueueLength, NEW e \in Events, queue' = Posted(e)
    PROVE  /\ DownQueued => DownQueued'
           /\ HasRoom /\ e = "down" => DownQueued'
<1>1. /\ Len(queue') \in Nat /\ Len(queue) \in Nat /\ Len(queue') >= Len(queue) /\ Len(queue') > 0
      /\ \A i \in 1..Len(queue) : queue'[i] = queue[i]
      /\ HasRoom => queue'[Len(queue')] = e
  <2>1. /\ Len(Posted(e)) >= Len(queue) /\ Len(Posted(e)) > 0
        /\ \A i \in 1..Len(queue) : Posted(e)[i] = queue[i]
        /\ HasRoom => Posted(e)[Len(Posted(e))] = e
    BY PostedType
  <2>2. Posted(e) \in Seq(Events)
    BY PostedType
  <2>3. Len(queue) \in Nat /\ Len(queue') \in Nat
    BY <2>2
  <2> QED BY <2>1, <2>3
<1>2. \A i \in 1..Len(queue) : i \in 1..Len(queue')
  BY <1>1
<1>3. DownQueued => DownQueued'
  BY <1>1, <1>2 DEF DownQueued
<1>4. HasRoom /\ e = "down" => DownQueued'
  <2>1. Len(queue') \in 1..Len(queue')
    BY <1>1
  <2> QED BY <1>1, <2>1 DEF DownQueued
<1> QED BY <1>3, <1>4

LEMMA IPKeepsDown ==
    ASSUME UsualPriorities, Types, Shapes, DownKept, IPStep
    PROVE  DownKept'
<1>0. /\ queue \in Seq(Events) /\ Len(queue) <= QueueLength /\ ip \in IPRecords
      /\ AtLoop \in IPRecords /\ downPending \in BOOLEAN /\ downWanted \in BOOLEAN
  BY LoopType DEF Types
<1>a. \A t \in Posters : task[t].at \notin {"setFlag", "clearFlag"}
  BY NobodyReports
<1>b. downWanted => \/ DownQueued \/ downPending \/ ip.at \in {"delay", "down"}
                    \/ ip.at = "downFlag" /\ ~ip.sent
                    \/ ip.at = "handle" /\ ip.event = "down"
  BY <1>a DEF DownKept, DownNotLost, DownQueued
<1>c. task' = task
  BY DEF IPStep, IPProcess, NetworkDown, NetworkDownFlag, Ready, CheckArpTimer, CheckTcpTimer,
         StartTcpTimer, BeginWait, Receive, ReceiveTimesOut, HandleDown, NetworkUp, OpeningFails,
         EndDelay, HandleRx, StoreRxCount, HandleTcpTimer, HandleOther, CheckPending
<1>d. SUFFICES /\ downWanted' => \/ DownQueued' \/ downPending' \/ ip'.at \in {"delay", "down"}
                                 \/ ip'.at = "downFlag" /\ ~ip'.sent
                                 \/ ip'.at = "handle" /\ ip'.event = "down"
               /\ ip'.at = "downFlag" /\ ip'.sent => DownQueued'
  BY <1>a, <1>c DEF DownKept, DownNotLost, DownQueued
<1>1. CASE NetworkDown
  <2>1. HasRoom \in BOOLEAN
    BY DEF HasRoom
  <2>2. ip'.at = "downFlag" /\ ip'.sent = HasRoom /\ queue' = Posted("down")
    BY <1>1, <1>0, <2>1 DEF NetworkDown, IPRecords
  <2>3. HasRoom => DownQueued'
    BY <2>2, <1>0, PostKeepsDown DEF Events
  <2> QED BY <2>2, <2>3
<1>2. CASE NetworkDownFlag
  <2>1. /\ ip.at = "downFlag" /\ downPending' = ~ip.sent /\ queue' = queue
        /\ ip'.at \in {"ready", "loop", "pending"} /\ downWanted' = downWanted
    BY <1>2, <1>0, GotoType DEF NetworkDownFlag, IPRecords, IPPlaces
  <2>2. ip.sent => DownQueued
    BY <2>1 DEF DownKept
  <2> QED BY <2>1, <2>2, <1>0 DEF DownQueued, IPRecords
<1>3. CASE CheckArpTimer
  <2>1. /\ queue' = queue \/ queue' = Posted("arp")
        /\ ip'.at = "tcp" /\ ip.at = "loop" /\ UNCHANGED <<downPending, downWanted>>
    BY <1>3, GotoType DEF CheckArpTimer, IPPlaces
  <2>2. DownQueued => DownQueued'
    <3>1. CASE queue' = queue
      BY <3>1 DEF DownQueued
    <3>2. CASE queue' = Posted("arp")
      BY <3>2, <1>0, PostKeepsDown DEF Events
    <3> QED BY <2>1, <3>1, <3>2
  <2> QED BY <2>1, <2>2, <1>b
<1>4. CASE Receive
  <2>1. /\ queue # <<>> /\ queue' = Tail(queue) /\ ip.at = "wait" /\ ip'.at = "handle"
        /\ ip'.event = Head(queue) /\ UNCHANGED <<downPending, downWanted>>
    BY <1>4, <1>0 DEF Receive, IPRecords
  <2>2. DownQueued => DownQueued' \/ Head(queue) = "down"
    <3>1. ASSUME NEW i \in 1..Len(queue), queue[i] = "down", i # 1 PROVE DownQueued'
      <4>1. i - 1 \in 1..Len(queue') /\ queue'[i - 1] = queue[i]
        BY <2>1, <3>1, <1>0
      <4> QED BY <4>1, <3>1 DEF DownQueued
    <3>2. queue[1] = Head(queue)
      BY <2>1, <1>0
    <3> QED BY <3>1, <3>2 DEF DownQueued
  <2> QED BY <2>1, <2>2, <1>b
<1>5. CASE HandleDown
  <2>1. ~downWanted' /\ ip'.at = "opening"
    BY <1>5, GotoType DEF HandleDown, IPPlaces
  <2> QED BY <2>1
<1>6. CASE EndDelay
  <2>1. ip'.at = "down"
    BY <1>6, <1>0 DEF EndDelay, IPRecords
  <2> QED BY <2>1
<1>7. CASE CheckPending
  <2>1. /\ ip'.at = (IF downPending THEN "down" ELSE "loop") /\ ip.at = "pending"
        /\ UNCHANGED <<queue, downPending, downWanted>>
    BY <1>7, GotoType DEF CheckPending, IPPlaces
  <2> QED BY <2>1, <1>b DEF DownQueued
<1>8. CASE HandleRx \/ HandleTcpTimer \/ HandleOther
  <2>1. /\ ip.at = "handle" /\ ip.event # "down" /\ ip'.at \in {"rxStore", "pending"}
        /\ UNCHANGED <<queue, downPending, downWanted>>
    <3>1. CASE HandleRx /\ queue # <<>> /\ rxCount # 0
      BY <3>1, <1>0 DEF HandleRx, IPRecords
    <3>2. CASE HandleRx /\ ~(queue # <<>> /\ rxCount # 0)
      BY <3>2, GotoType DEF HandleRx, IPPlaces
    <3>3. CASE HandleTcpTimer \/ HandleOther
      BY <3>3, GotoType DEF HandleTcpTimer, HandleOther, IPPlaces, timers
    <3> QED BY <1>8, <3>1, <3>2, <3>3
  <2> QED BY <2>1, <1>b DEF DownQueued
<1>9. CASE CheckTcpTimer
  <2>1. /\ ip.at = "tcp" /\ ip'.at \in {"tcpStart", "sleep"}
        /\ UNCHANGED <<queue, downPending, downWanted>>
    <3>1. CASE TcpTimerDue \/ (tcpMessage /\ queue = <<>>)
      BY <1>9, <3>1, <1>0 DEF CheckTcpTimer, IPRecords
    <3>2. CASE ~(TcpTimerDue \/ (tcpMessage /\ queue = <<>>))
      BY <1>9, <3>2, GotoType DEF CheckTcpTimer, IPPlaces
    <3> QED BY <3>1, <3>2
  <2> QED BY <2>1, <1>b DEF DownQueued
<1>10. CASE BeginWait
  <2>1. ip.at = "sleep" /\ ip'.at = "wait" /\ UNCHANGED <<queue, downPending, downWanted>>
    BY <1>10, <1>0 DEF BeginWait, IPRecords
  <2> QED BY <2>1, <1>b DEF DownQueued
<1>11. CASE Ready \/ StartTcpTimer \/ ReceiveTimesOut \/ NetworkUp \/ OpeningFails \/ StoreRxCount
  <2>1. /\ ip.at \in {"ready", "tcpStart", "wait", "opening", "rxStore"}
        /\ ip'.at \in {"loop", "sleep", "pending", "delay"}
        /\ UNCHANGED <<queue, downPending, downWanted>>
    BY <1>11, GotoType DEF Ready, StartTcpTimer, ReceiveTimesOut, NetworkUp, OpeningFails,
          StoreRxCount, IPPlaces, timers
  <2> QED BY <2>1, <1>b DEF DownQueued
<1> QED BY <1>1, <1>2, <1>3, <1>4, <1>5, <1>6, <1>7, <1>8, <1>9, <1>10, <1>11 DEF IPStep, IPProcess

LEMMA OthersKeepDown ==
    ASSUME Types, Shapes, DownKept,
           (\E t \in Posters : Begin(t) \/ ContinueTask(t)) \/ DownFromISR \/ Tick \/ UNCHANGED vars
    PROVE  DownKept'
<1>0. queue \in Seq(Events) /\ Len(queue) <= QueueLength /\ ip \in IPRecords
      /\ downPending \in BOOLEAN /\ downWanted \in BOOLEAN
  BY DEF Types
<1>1. CASE \E t \in Posters : Begin(t)
  <2>1. PICK t \in Posters : Begin(t)
    BY <1>1
  <2>2. PICK e \in Requests(t) :
           /\ ip' = ip /\ queue' = queue /\ UNCHANGED <<downPending, downWanted>>
           /\ task'[t].at = (IF e = "rx" THEN "inc" ELSE "send")
           /\ \A u \in Posters \ {t} : task'[u] = task[u]
    BY <2>1, BeginEffect
  <2>3. task[t].at = "idle"
    BY <2>1 DEF Begin
  <2> QED BY <2>2, <2>3 DEF DownKept, DownNotLost, DownQueued
<1>2. CASE \E t \in Posters : ContinueTask(t)
  <2>1. PICK t \in Posters : ContinueTask(t)
    BY <1>2
  <2>2. ip' = ip /\ task' \in [Posters -> TaskRecords] /\ \A u \in Posters \ {t} : task'[u] = task[u]
    BY <2>1, ContinueEffect, TaskTypes DEF Types
  <2>3. CASE Send(t)
    <3>1. /\ queue' = Append(queue, task[t].event) /\ downPending' = downPending
          /\ downWanted' = (downWanted \/ task[t].event = "down")
          /\ task[t].at = "send" /\ task[t].event \in Events
          /\ TaskGoto(t, IF task[t].event = "down" THEN "clearFlag" ELSE "idle")
      BY <2>3 DEF Send, Types, TaskRecords
    <3>2. task'[t].at = (IF task[t].event = "down" THEN "clearFlag" ELSE "idle")
      BY <3>1, TaskGotoType DEF TaskPlaces
    <3>3. DownQueued \/ task[t].event = "down" => DownQueued'
      <4>1. /\ Len(queue') = Len(queue) + 1 /\ Len(queue) \in Nat
            /\ \A i \in 1..Len(queue) : queue'[i] = queue[i]
            /\ queue'[Len(queue) + 1] = task[t].event
        BY <3>1, <1>0
      <4>2. Len(queue) + 1 \in 1..Len(queue') /\ \A i \in 1..Len(queue) : i \in 1..Len(queue')
        BY <4>1
      <4> QED BY <4>1, <4>2 DEF DownQueued
    <3> QED BY <3>1, <3>2, <3>3, <2>2 DEF DownKept, DownNotLost, DownQueued
  <2>4. CASE SendFails(t)
    <3>1. queue' = queue /\ downPending' = downPending /\ task[t].at = "send"
          /\ downWanted' = (downWanted \/ task[t].event = "down")
          /\ TaskGoto(t, CASE task[t].event = "down" -> "setFlag"
                           [] task[t].event = "rx"   -> "load"
                           [] OTHER                  -> "idle")
      BY <2>4 DEF SendFails
    <3>2. task'[t].at = (CASE task[t].event = "down" -> "setFlag"
                           [] task[t].event = "rx"   -> "load"
                           [] OTHER                  -> "idle")
      BY <3>1, TaskGotoType DEF TaskPlaces
    <3>3. /\ task[t].event = "down" => task'[t].at = "setFlag"
          /\ task'[t].at # "clearFlag"
      BY <3>2
    <3> QED BY <3>1, <3>3, <2>2 DEF DownKept, DownNotLost, DownQueued
  <2>5. CASE SetDownFlag(t)
    <3>1. /\ task[t].at \in {"setFlag", "clearFlag"} /\ downPending' = (task[t].at = "setFlag")
          /\ TaskGoto(t, "idle") /\ queue' = queue /\ downWanted' = downWanted
      BY <2>5 DEF SetDownFlag
    <3>2. task'[t].at = "idle"
      BY <3>1, TaskGotoType DEF TaskPlaces
    <3>3. downPending' \/ DownQueued'
      BY <3>1 DEF DownKept, DownQueued
    <3> QED BY <3>1, <3>2, <3>3, <2>2 DEF DownKept, DownNotLost, DownQueued
  <2>6. CASE Increment(t) \/ SkipSend(t) \/ LoadRxCount(t) \/ Decrement(t)
    <3>1. /\ queue' = queue /\ downPending' = downPending /\ downWanted' = downWanted
          /\ task[t].at \in {"inc", "send", "load", "dec"}
      BY <2>6 DEF Increment, SkipSend, LoadRxCount, Decrement
    <3>2. task'[t].at \in {"send", "idle", "dec"}
      <4>1. CASE LoadRxCount(t)
        BY <4>1 DEF LoadRxCount, Types
      <4>2. CASE Increment(t) \/ SkipSend(t) \/ Decrement(t)
        BY <4>2, TaskGotoType DEF Increment, SkipSend, Decrement, TaskPlaces
      <4> QED BY <2>6, <4>1, <4>2
    <3> QED BY <3>1, <3>2, <2>2 DEF DownKept, DownNotLost, DownQueued
  <2> QED BY <2>1, <2>3, <2>4, <2>5, <2>6 DEF ContinueTask
<1>3. CASE DownFromISR
  <2>1. /\ queue' = Posted("down") /\ downPending' = ~HasRoom /\ ip' = ip /\ task' = task
    BY <1>3 DEF DownFromISR
  <2>2. (HasRoom => DownQueued') /\ (DownQueued => DownQueued')
    BY <2>1, <1>0, PostKeepsDown DEF Events
  <2>3. downPending' \/ DownQueued'
    BY <2>1, <2>2
  <2> QED BY <2>1, <2>2, <2>3 DEF DownKept, DownNotLost, DownQueued
<1>4. CASE Tick
  <2>1. /\ ip'.at = ip.at /\ ip'.sent = ip.sent /\ ip'.event = ip.event
        /\ UNCHANGED <<queue, task, downPending, downWanted>>
    BY <1>4, <1>0 DEF Tick, IPRecords
  <2> QED BY <2>1 DEF DownKept, DownNotLost, DownQueued
<1>5. CASE UNCHANGED vars
  BY <1>5 DEF vars, DownKept, DownNotLost, DownQueued
<1> QED BY <1>1, <1>2, <1>3, <1>4, <1>5

\* With the usual priorities no report of a network that is down gets lost.
THEOREM ReportsAreKept == ASSUME UsualPriorities PROVE Spec => []DownNotLost
<1>1. Init => DownKept
  <2> SUFFICES ASSUME Init PROVE DownKept
    OBVIOUS
  <2>1. ip.at = "down" /\ ~downWanted /\ \A t \in Posters : task[t].at = "idle"
    BY LoopType DEF Init, IPRecords, Idle
  <2> QED BY <2>1 DEF DownKept, DownNotLost
<1>2. Types /\ Shapes /\ DownKept /\ [Next]_vars => DownKept'
  BY IPKeepsDown, OthersKeepDown DEF Next
<1>3. DownKept => DownNotLost
  BY DEF DownKept
<1> QED BY InitTypes, InitShapes, NextTypes, ShapesKept, <1>1, <1>2, <1>3, PTL DEF Spec

----------------------------------------------------------------------------
(* The ARP timer *)

\* From the test of the timer to the wait it has not expired; during the wait
\* it is late by no more than the time that was slept.
Due ==
    /\ arp.active =>
        /\ arp.remaining > -TcpPeriod
        /\ ip.at \in {"tcp", "tcpStart", "sleep"} => arp.remaining > 0
        /\ ip.at = "wait" => arp.remaining > ip.sleep - TcpPeriod
    /\ ip.at = "wait" => ip.sleep <= TcpPeriod

LEMMA IPKeepsDue ==
    ASSUME Types, Due, IPProcess
    PROVE  Due'
<1>0. /\ ip \in IPRecords /\ AtLoop \in IPRecords /\ arp \in ArpTimers /\ tcp \in TcpTimers
      /\ TcpPeriod \in Nat /\ ArpPeriod \in Nat /\ TcpPeriod > 0 /\ ArpPeriod > 0 /\ MaxSleep \in Nat
  BY LoopType, Numbers DEF Types
<1>1. CASE CheckArpTimer
  <2>1. ip'.at = "tcp"
    BY <1>1, GotoType DEF CheckArpTimer, IPPlaces
  <2>2. arp'.active => arp'.remaining > 0
    <3>1. CASE arp.active /\ arp.remaining <= 0
      BY <1>1, <3>1, <1>0 DEF CheckArpTimer, ArpTimers
    <3>2. CASE ~(arp.active /\ arp.remaining <= 0)
      BY <1>1, <3>2, <1>0, Numbers DEF CheckArpTimer, ArpTimers
    <3> QED BY <3>1, <3>2
  <2>3. arp' \in ArpTimers
    BY <1>1, IPTypes DEF Types
  <2> QED BY <2>1, <2>2, <2>3, <1>0, Numbers DEF Due, ArpTimers
<1>2. CASE CheckTcpTimer
  <2>1. ip.at = "tcp" /\ ip'.at \in {"tcpStart", "sleep"} /\ arp' = arp
    <3>1. CASE TcpTimerDue \/ (tcpMessage /\ queue = <<>>)
      BY <1>2, <3>1, <1>0 DEF CheckTcpTimer, IPRecords
    <3>2. CASE ~(TcpTimerDue \/ (tcpMessage /\ queue = <<>>))
      BY <1>2, <3>2, GotoType DEF CheckTcpTimer, IPPlaces
    <3> QED BY <3>1, <3>2
  <2> QED BY <2>1 DEF Due
<1>3. CASE StartTcpTimer
  <2>1. ip.at = "tcpStart" /\ ip'.at = "sleep" /\ arp' = arp
    BY <1>3, GotoType DEF StartTcpTimer, IPPlaces
  <2> QED BY <2>1 DEF Due
<1>4. CASE BeginWait
  <2>1. /\ ip.at = "sleep" /\ ip'.at = "wait" /\ arp' = arp
        /\ ip'.sleep = (IF SleepTime < 0 THEN 0 ELSE SleepTime)
    BY <1>4, <1>0 DEF BeginWait, IPRecords, timers
  <2>2. SleepTime \in Int /\ SleepTime <= TcpPeriod
    BY <1>0, Numbers DEF SleepTime, TcpTimers
  <2>3. ip'.sleep \in Int /\ ip'.sleep <= TcpPeriod
    BY <2>1, <2>2, <1>0
  <2>4. arp.active => arp.remaining > 0 /\ arp.remaining \in Int
    BY <2>1, <1>0, Numbers DEF Due, ArpTimers
  <2> QED BY <2>1, <2>3, <2>4, <1>0 DEF Due
<1>5. CASE HandleDown
  <2>1. ip'.at = "opening" /\ arp'.active = FALSE
    BY <1>5, <1>0, GotoType DEF HandleDown, IPPlaces, ArpTimers
  <2> QED BY <2>1 DEF Due
<1>6. CASE NetworkUp
  <2>1. ip'.at = "pending" /\ arp'.remaining = ArpPeriod
    BY <1>6, GotoType DEF NetworkUp, IPPlaces
  <2> QED BY <2>1, <1>0 DEF Due
<1>7. CASE NetworkDown \/ Receive \/ EndDelay \/ HandleRx
  <2>1. ip'.at \in {"downFlag", "handle", "down", "rxStore", "pending"} /\ arp' = arp
    <3>1. CASE HandleRx /\ ~(queue # <<>> /\ rxCount # 0)
      BY <3>1, GotoType DEF HandleRx, IPPlaces
    <3>2. CASE HandleRx /\ queue # <<>> /\ rxCount # 0
      BY <3>2, <1>0 DEF HandleRx, IPRecords
    <3>3. CASE NetworkDown \/ Receive \/ EndDelay
      BY <3>3, <1>0 DEF NetworkDown, Receive, EndDelay, IPRecords, timers
    <3> QED BY <1>7, <3>1, <3>2, <3>3
  <2> QED BY <2>1 DEF Due
<1>8. CASE \/ NetworkDownFlag \/ Ready \/ ReceiveTimesOut \/ OpeningFails \/ StoreRxCount
           \/ HandleTcpTimer \/ HandleOther \/ CheckPending
  <2>1. ip'.at \in {"ready", "loop", "pending", "delay", "down"} /\ arp' = arp
    <3>1. CASE NetworkDownFlag
      BY <3>1, <1>0, GotoType DEF NetworkDownFlag, IPRecords, IPPlaces, timers
    <3>2. CASE CheckPending
      BY <3>2, GotoType DEF CheckPending, IPPlaces, timers
    <3>3. CASE \/ Ready \/ ReceiveTimesOut \/ OpeningFails \/ StoreRxCount
               \/ HandleTcpTimer \/ HandleOther
      BY <3>3, GotoType DEF Ready, ReceiveTimesOut, OpeningFails, StoreRxCount, HandleTcpTimer,
            HandleOther, IPPlaces, timers
    <3> QED BY <1>8, <3>1, <3>2, <3>3
  <2> QED BY <2>1 DEF Due
<1> QED BY <1>1, <1>2, <1>3, <1>4, <1>5, <1>6, <1>7, <1>8 DEF IPProcess

LEMMA OthersKeepDue ==
    ASSUME Instant, Types, Due,
           (\E t \in Posters : Begin(t) \/ ContinueTask(t)) \/ DownFromISR \/ Tick \/ UNCHANGED vars
    PROVE  Due'
<1>0. /\ ip \in IPRecords /\ arp \in ArpTimers /\ TcpPeriod \in Nat /\ ArpPeriod \in Nat
      /\ Latest = -(TcpPeriod + 1)
  BY Numbers DEF Types
<1>1. CASE (\E t \in Posters : Begin(t) \/ ContinueTask(t)) \/ DownFromISR \/ UNCHANGED vars
  <2>1. ip' = ip /\ arp' = arp
    BY <1>1 DEF Begin, ContinueTask, Increment, SkipSend, Send, SendFails, LoadRxCount, Decrement,
          SetDownFlag, DownFromISR, vars, timers
  <2> QED BY <2>1 DEF Due
<1>2. CASE Tick
  <2>1. ip.at = "wait" /\ ip.sleep > 0
    BY <1>2 DEF Tick
  <2>2. ip'.at = "wait" /\ ip'.sleep = ip.sleep - 1 /\ ip.sleep \in Int
    BY <1>2, <2>1, <1>0 DEF Tick, IPRecords
  <2>3. CASE arp.active
    <3>1. /\ arp.remaining \in Int /\ arp.remaining > ip.sleep - TcpPeriod
          /\ arp'.remaining = OneLess(arp.remaining)
      BY <1>2, <2>1, <2>3, <1>0 DEF Tick, Due, ArpTimers
    <3>2. arp'.remaining \in Int /\ arp'.remaining >= arp.remaining - 1
      BY <3>1 DEF OneLess
    <3> QED BY <2>1, <2>2, <3>1, <3>2, <1>0 DEF Due
  <2>4. CASE ~arp.active
    BY <1>2, <2>1, <2>2, <2>4, <1>0 DEF Tick, Due
  <2> QED BY <2>3, <2>4
<1> QED BY <1>1, <1>2

\* As long as events are processed within a tick, the ARP timer is looked at no
\* later than one TCP period after it expired, whatever the periods are.
THEOREM ArpTimerInTime == ASSUME Instant PROVE Spec => []ArpOnTime
<1>1. Init => Due
  <2> SUFFICES ASSUME Init PROVE Due
    OBVIOUS
  <2>1. ip.at = "down" /\ ~arp.active
    BY LoopType DEF Init, IPRecords
  <2> QED BY <2>1 DEF Due
<1>2. Types /\ Due /\ [Next]_vars => Due'
  BY IPKeepsDue, OthersKeepDue DEF Next, IPStep
<1>3. Types /\ Due => ArpOnTime
  <2> SUFFICES ASSUME Types, Due, arp.active PROVE arp.remaining >= -TcpPeriod
    BY DEF ArpOnTime
  <2>1. arp.remaining \in Int /\ arp.remaining > -TcpPeriod /\ TcpPeriod \in Nat
    BY Numbers DEF Types, Due, ArpTimers
  <2> QED BY <2>1
<1> QED BY InitTypes, NextTypes, <1>1, <1>2, <1>3, PTL DEF Spec

=============================================================================
