------------------------------- MODULE IPTask -------------------------------
(***************************************************************************)
(* The IP task of FreeRTOS_IP.c: the queue of network events that tasks    *)
(* and interrupts fill and it alone empties, its ARP and TCP timers, the   *)
(* time it sleeps, and the recovery of a network that went down.           *)
(*                                                                         *)
(* What the events make the task do to buffers and sockets is the subject  *)
(* of other modules; here an event is its type.                            *)
(***************************************************************************)
EXTENDS Integers, Sequences

CONSTANTS
    QueueLength,  \* ipconfigEVENT_QUEUE_LENGTH
    ArpPeriod,    \* ipARP_TIMER_PERIOD_MS
    TcpPeriod,    \* ipTCP_TIMER_PERIOD_MS, the longest time between TCP checks
    MaxSleep,     \* ipconfigMAX_IP_TASK_SLEEP_TIME
    CountWidth,   \* uxRxEventCount is a number below CountWidth
    Drivers,      \* tasks of the network driver, that send received frames
    Users,        \* tasks that call the stack's API
    Lower,        \* the tasks with a lower priority than the IP task,
    Higher,       \* and those with a higher one; the others share its priority
    Instant       \* no tick passes while the IP task processes an event

ASSUME QueueLengthAssumption == QueueLength \in Nat \ {0}
ASSUME PeriodsAssumption ==
    /\ ArpPeriod \in Nat \ {0} /\ TcpPeriod \in Nat \ {0}
    /\ MaxSleep \in Nat /\ MaxSleep >= TcpPeriod
ASSUME CountWidthAssumption == CountWidth \in Nat /\ CountWidth > QueueLength
ASSUME TasksAssumption == Drivers \cap Users = {} /\ Lower \cap Higher = {}
ASSUME InstantAssumption == Instant \in BOOLEAN

Posters == Drivers \cup Users

VARIABLES
    queue,        \* xNetworkEventQueue
    initialised,  \* xIPTaskInitialised
    networkUp,    \* xNetworkUp
    downPending,  \* xNetworkDownEventPending
    rxCount,      \* uxRxEventCount
    arp,          \* xARPTimer
    tcp,          \* xTCPTimer
    tcpMessage,   \* xProcessedTCPMessage # 0
    ip,           \* the IP task: where it is, and its local variables
    task,         \* the same of each poster
    opened,       \* xNetworkInterfaceInitialise has been called
    tcpWanted,    \* a task has asked for a TCP check that has not begun
    downWanted    \* a network-down was reported and none processed since

vars == <<queue, initialised, networkUp, downPending, rxCount, arp, tcp, tcpMessage,
          ip, task, opened, tcpWanted, downWanted>>

timers == <<arp, tcp, tcpMessage>>

Events == {"down", "rx", "arp", "tcpTimer", "other"}

IPPlaces == {"down", "downFlag", "ready", "loop", "tcp", "tcpStart", "sleep", "wait",
             "handle", "opening", "rxStore", "delay", "pending"}

\* The local variables hold nothing where they are not used.
AtLoop == [at |-> "loop", then |-> "loop", sent |-> FALSE, event |-> "none", sleep |-> 0,
           next |-> 0, count |-> 0]

Idle == [at |-> "idle", event |-> "none", count |-> 0]

Init ==
    /\ queue = <<>>
    /\ initialised = FALSE /\ networkUp = FALSE /\ downPending = FALSE
    /\ rxCount = 0
    /\ arp = [active |-> FALSE, remaining |-> 0]
    /\ tcp = [expired |-> FALSE, remaining |-> 0]
    /\ tcpMessage = FALSE
    /\ ip = [AtLoop EXCEPT !.at = "down", !.then = "ready"]
    /\ task = [t \in Posters |-> Idle]
    /\ opened = FALSE /\ tcpWanted = FALSE /\ downWanted = FALSE

\* Mutant of HasRoom: off by one.
MutHasRoom == Len(queue) <= QueueLength

HasRoom == Len(queue) < QueueLength

\* xQueueSendToBack without a block time: the event is lost if the queue is full.
Posted(event) == IF HasRoom THEN Append(queue, event) ELSE queue

IPGoto(place) == ip' = [AtLoop EXCEPT !.at = place]

----------------------------------------------------------------------------
(* FreeRTOS_NetworkDown in the IP task, from its three callers *)

NetworkDown ==
    /\ ip.at = "down"
    /\ queue' = Posted("down")
    /\ ip' = [ip EXCEPT !.at = "downFlag", !.sent = HasRoom]
    /\ downWanted' = TRUE
    /\ UNCHANGED <<initialised, networkUp, downPending, rxCount, timers, task, opened, tcpWanted>>

NetworkDownFlag ==
    /\ ip.at = "downFlag"
    /\ downPending' = ~ip.sent
    /\ IPGoto(ip.then)
    /\ UNCHANGED <<queue, initialised, networkUp, rxCount, timers, task, opened, tcpWanted,
                   downWanted>>

Ready ==
    /\ ip.at = "ready"
    /\ tcp' = [expired |-> FALSE, remaining |-> TcpPeriod]
    /\ initialised' = TRUE
    /\ IPGoto("loop")
    /\ UNCHANGED <<queue, networkUp, downPending, rxCount, arp, tcpMessage, task, opened,
                   tcpWanted, downWanted>>

----------------------------------------------------------------------------
(* prvCheckNetworkTimers *)

CheckArpTimer ==
    /\ ip.at = "loop"
    /\ IF arp.active /\ arp.remaining <= 0
       THEN /\ arp' = [arp EXCEPT !.remaining = ArpPeriod]
            /\ queue' = Posted("arp")
       ELSE UNCHANGED <<arp, queue>>
    /\ IPGoto("tcp")
    /\ UNCHANGED <<initialised, networkUp, downPending, rxCount, tcp, tcpMessage, task,
                   opened, tcpWanted, downWanted>>

\* What xTCPTimerCheck may return: 0 to be called again at once, because of
\* frames that wait or of socket owners that are woken only before a sleep.
NextTimes ==
    (IF rxCount # 0 THEN {0, TcpPeriod} ELSE 1..TcpPeriod)
        \cup (IF queue # <<>> THEN {0} ELSE {})

TcpTimerDue == tcp.expired \/ tcp.remaining <= 0

\* The TCP timer is restarted if it was due, and the sockets are checked.
CheckTcpTimer ==
    /\ ip.at = "tcp"
    /\ tcp' = IF TcpTimerDue THEN [expired |-> FALSE, remaining |-> TcpPeriod] ELSE tcp
    /\ IF TcpTimerDue \/ (tcpMessage /\ queue = <<>>)
       THEN /\ \E next \in NextTimes : ip' = [AtLoop EXCEPT !.at = "tcpStart", !.next = next]
            /\ tcpWanted' = FALSE
       ELSE IPGoto("sleep") /\ UNCHANGED tcpWanted
    /\ UNCHANGED <<queue, initialised, networkUp, downPending, rxCount, arp, tcpMessage,
                   task, opened, downWanted>>

StartTcpTimer ==
    /\ ip.at = "tcpStart"
    /\ tcp' = [expired |-> ip.next = 0, remaining |-> ip.next]
    /\ tcpMessage' = FALSE
    /\ IPGoto("sleep")
    /\ UNCHANGED <<queue, initialised, networkUp, downPending, rxCount, arp, task, opened,
                   tcpWanted, downWanted>>

----------------------------------------------------------------------------
(* The wait for an event *)

\* Mutant of SleepTime: the timers are left out.
MutSleepTimeMax == MaxSleep

\* prvCalculateSleepTime: with the reload time of the ARP timer.
SleepTime ==
    LET limit == IF arp.active /\ arp.remaining < MaxSleep THEN ArpPeriod ELSE MaxSleep
    IN  IF tcp.remaining < limit THEN tcp.remaining ELSE limit

BeginWait ==
    /\ ip.at = "sleep"
    /\ ip' = [AtLoop EXCEPT !.at = "wait", !.sleep = IF SleepTime < 0 THEN 0 ELSE SleepTime]
    /\ UNCHANGED <<queue, initialised, networkUp, downPending, rxCount, timers, task, opened,
                   tcpWanted, downWanted>>

Receive ==
    /\ ip.at = "wait" /\ queue # <<>>
    /\ ip' = [AtLoop EXCEPT !.at = "handle", !.event = Head(queue)]
    /\ queue' = Tail(queue)
    /\ UNCHANGED <<initialised, networkUp, downPending, rxCount, timers, task, opened,
                   tcpWanted, downWanted>>

ReceiveTimesOut ==
    /\ ip.at = "wait" /\ queue = <<>> /\ ip.sleep = 0
    /\ IPGoto("pending")
    /\ UNCHANGED <<queue, initialised, networkUp, downPending, rxCount, timers, task, opened,
                   tcpWanted, downWanted>>

----------------------------------------------------------------------------
(* The events *)

\* prvProcessNetworkDownEvent: xNetworkInterfaceInitialise is called...
HandleDown ==
    /\ ip.at = "handle" /\ ip.event = "down"
    /\ opened' = TRUE
    /\ networkUp' = FALSE
    /\ arp' = [arp EXCEPT !.active = FALSE]
    /\ downWanted' = FALSE
    /\ IPGoto("opening")
    /\ UNCHANGED <<queue, initialised, downPending, rxCount, tcp, tcpMessage, task, tcpWanted>>

\* ... and the network is up, with vIPNetworkUpCalls...
NetworkUp ==
    /\ ip.at = "opening"
    /\ networkUp' = TRUE
    /\ arp' = [active |-> TRUE, remaining |-> ArpPeriod]
    /\ IPGoto("pending")
    /\ UNCHANGED <<queue, initialised, downPending, rxCount, tcp, tcpMessage, task, opened,
                   tcpWanted, downWanted>>

\* ... or it is tried again later.
OpeningFails ==
    /\ ip.at = "opening"
    /\ IPGoto("delay")
    /\ UNCHANGED <<queue, initialised, networkUp, downPending, rxCount, timers, task, opened,
                   tcpWanted, downWanted>>

\* The delay is longer than the TCP timer's period.
EndDelay ==
    /\ ip.at = "delay"
    /\ tcp' = [tcp EXCEPT !.remaining = 0]
    /\ ip' = [AtLoop EXCEPT !.at = "down", !.then = "pending"]
    /\ UNCHANGED <<queue, initialised, networkUp, downPending, rxCount, arp, tcpMessage, task,
                   opened, tcpWanted, downWanted>>

\* prvHandleEthernetPacket; the frame may be a TCP segment.
HandleRx ==
    /\ ip.at = "handle" /\ ip.event = "rx"
    /\ rxCount' = IF queue = <<>> THEN 0 ELSE rxCount
    /\ IF queue # <<>> /\ rxCount # 0
       THEN ip' = [AtLoop EXCEPT !.at = "rxStore", !.count = rxCount]
       ELSE IPGoto("pending")
    /\ tcpMessage' \in {tcpMessage, TRUE}
    /\ UNCHANGED <<queue, initialised, networkUp, downPending, arp, tcp, task, opened,
                   tcpWanted, downWanted>>

\* The store of uxRxEventCount--
StoreRxCount ==
    /\ ip.at = "rxStore"
    /\ rxCount' = ip.count - 1
    /\ IPGoto("pending")
    /\ UNCHANGED <<queue, initialised, networkUp, downPending, timers, task, opened,
                   tcpWanted, downWanted>>

\* Mutant of HandleTcpTimer: the expiry is not recorded.
MutHandleTcpTimerLost ==
    /\ ip.at = "handle" /\ ip.event = "tcpTimer"
    /\ tcp' = [tcp EXCEPT !.expired = FALSE]
    /\ IPGoto("pending")
    /\ UNCHANGED <<queue, initialised, networkUp, downPending, rxCount, arp, tcpMessage, task,
                   opened, tcpWanted, downWanted>>

HandleTcpTimer ==
    /\ ip.at = "handle" /\ ip.event = "tcpTimer"
    /\ tcp' = [tcp EXCEPT !.expired = TRUE]
    /\ IPGoto("pending")
    /\ UNCHANGED <<queue, initialised, networkUp, downPending, rxCount, arp, tcpMessage, task,
                   opened, tcpWanted, downWanted>>

\* The ARP cache is aged, a packet sent, a socket bound, closed, selected...
HandleOther ==
    /\ ip.at = "handle" /\ ip.event \in {"arp", "other"}
    /\ IPGoto("pending")
    /\ UNCHANGED <<queue, initialised, networkUp, downPending, rxCount, timers, task, opened,
                   tcpWanted, downWanted>>

CheckPending ==
    /\ ip.at = "pending"
    /\ IPGoto(IF downPending THEN "down" ELSE "loop")
    /\ UNCHANGED <<queue, initialised, networkUp, downPending, rxCount, timers, task, opened,
                   tcpWanted, downWanted>>

\* A task with a higher priority is never left in the middle of a call.
IPMayRun == \A t \in Posters \cap Higher : task[t].at = "idle"

IPProcess ==
    \/ NetworkDown \/ NetworkDownFlag \/ Ready
    \/ CheckArpTimer \/ CheckTcpTimer \/ StartTcpTimer
    \/ BeginWait \/ Receive \/ ReceiveTimesOut
    \/ HandleDown \/ NetworkUp \/ OpeningFails \/ EndDelay
    \/ HandleRx \/ StoreRxCount \/ HandleTcpTimer \/ HandleOther
    \/ CheckPending

IPStep == IPMayRun /\ IPProcess

----------------------------------------------------------------------------
(* xSendEventStructToIPTask and FreeRTOS_NetworkDown in the other tasks *)

\* The IP task is blocked: by the driver's initialisation, in a delay, or
\* because its queue is empty.
IPBlocked ==
    \/ ip.at \in {"opening", "delay"}
    \/ ip.at = "wait" /\ queue = <<>> /\ ip.sleep > 0

TaskMayRun(t) == t \in Lower => IPBlocked

TaskGoto(t, place) ==
    task' = [task EXCEPT ![t] =
        IF place = "idle" THEN Idle ELSE [at |-> place, event |-> task[t].event, count |-> 0]]

\* The events a task sends.
Requests(t) == IF t \in Drivers THEN {"rx", "down"} ELSE {"tcpTimer", "other"}

\* Mutant of Begin: whether the IP task is ready is not asked.
MutBeginUnchecked(t) ==
    /\ TaskMayRun(t) /\ task[t].at = "idle"
    /\ \E event \in Requests(t) :
          /\ task' = [task EXCEPT ![t] =
                IF event = "rx" THEN [at |-> "inc", event |-> "rx", count |-> rxCount]
                ELSE [at |-> "send", event |-> event, count |-> 0]]
          /\ IF event = "tcpTimer"
             THEN /\ tcp' = [tcp EXCEPT !.expired = TRUE]
                  /\ tcpWanted' = TRUE
             ELSE UNCHANGED <<tcp, tcpWanted>>
    /\ UNCHANGED <<queue, initialised, networkUp, downPending, rxCount, arp, tcpMessage, ip,
                   opened, downWanted>>

\* Until the IP task is ready, only the network-down event is sent.
Begin(t) ==
    /\ TaskMayRun(t) /\ task[t].at = "idle"
    /\ \E event \in Requests(t) :
          /\ initialised \/ event = "down"
          /\ task' = [task EXCEPT ![t] =
                IF event = "rx" THEN [at |-> "inc", event |-> "rx", count |-> rxCount]
                ELSE [at |-> "send", event |-> event, count |-> 0]]
          /\ IF event = "tcpTimer"
             THEN /\ tcp' = [tcp EXCEPT !.expired = TRUE]
                  /\ tcpWanted' = TRUE
             ELSE UNCHANGED <<tcp, tcpWanted>>
    /\ UNCHANGED <<queue, initialised, networkUp, downPending, rxCount, arp, tcpMessage, ip,
                   opened, downWanted>>

\* The store of uxRxEventCount++
Increment(t) ==
    /\ TaskMayRun(t) /\ task[t].at = "inc"
    /\ rxCount' = (task[t].count + 1) % CountWidth
    /\ TaskGoto(t, "send")
    /\ UNCHANGED <<queue, initialised, networkUp, downPending, timers, ip, opened, tcpWanted,
                   downWanted>>

\* The IP task is awake if there is something in its queue.
SkipSend(t) ==
    /\ TaskMayRun(t) /\ task[t].at = "send" /\ task[t].event = "tcpTimer"
    /\ queue # <<>>
    /\ TaskGoto(t, "idle")
    /\ UNCHANGED <<queue, initialised, networkUp, downPending, rxCount, timers, ip, opened,
                   tcpWanted, downWanted>>

Send(t) ==
    /\ TaskMayRun(t) /\ task[t].at = "send"
    /\ task[t].event = "tcpTimer" => queue = <<>>
    /\ HasRoom
    /\ queue' = Append(queue, task[t].event)
    /\ TaskGoto(t, IF task[t].event = "down" THEN "clearFlag" ELSE "idle")
    /\ downWanted' = (downWanted \/ task[t].event = "down")
    /\ UNCHANGED <<initialised, networkUp, downPending, rxCount, timers, ip, opened, tcpWanted>>

\* Mutant of SendFails: a frame is offered again and again.
MutSendFailsRetries(t) ==
    /\ TaskMayRun(t) /\ task[t].at = "send"
    /\ ~HasRoom /\ task[t].event # "tcpTimer"
    /\ TaskGoto(t, CASE task[t].event = "down" -> "setFlag"
                     [] task[t].event = "rx"   -> "send"
                     [] OTHER                  -> "idle")
    /\ downWanted' = (downWanted \/ task[t].event = "down")
    /\ UNCHANGED <<queue, initialised, networkUp, downPending, rxCount, timers, ip, opened,
                   tcpWanted>>

\* At once, or when the block time is over.
SendFails(t) ==
    /\ TaskMayRun(t) /\ task[t].at = "send"
    /\ ~HasRoom /\ task[t].event # "tcpTimer"
    /\ TaskGoto(t, CASE task[t].event = "down" -> "setFlag"
                     [] task[t].event = "rx"   -> "load"
                     [] OTHER                  -> "idle")
    /\ downWanted' = (downWanted \/ task[t].event = "down")
    /\ UNCHANGED <<queue, initialised, networkUp, downPending, rxCount, timers, ip, opened,
                   tcpWanted>>

\* The load and the store of uxRxEventCount--
LoadRxCount(t) ==
    /\ TaskMayRun(t) /\ task[t].at = "load"
    /\ task' = [task EXCEPT ![t] = [at |-> "dec", event |-> "rx", count |-> rxCount]]
    /\ UNCHANGED <<queue, initialised, networkUp, downPending, rxCount, timers, ip, opened,
                   tcpWanted, downWanted>>

Decrement(t) ==
    /\ TaskMayRun(t) /\ task[t].at = "dec"
    /\ rxCount' = (task[t].count - 1) % CountWidth
    /\ TaskGoto(t, "idle")
    /\ UNCHANGED <<queue, initialised, networkUp, downPending, timers, ip, opened, tcpWanted,
                   downWanted>>

\* What FreeRTOS_NetworkDown does once the event was sent, or was not.
SetDownFlag(t) ==
    /\ TaskMayRun(t) /\ task[t].at \in {"setFlag", "clearFlag"}
    /\ downPending' = (task[t].at = "setFlag")
    /\ TaskGoto(t, "idle")
    /\ UNCHANGED <<queue, initialised, networkUp, rxCount, timers, ip, opened, tcpWanted,
                   downWanted>>

\* Mutant of DownFromISR: the flag is not set.
MutDownFromISR ==
    /\ queue' = Posted("down")
    /\ downWanted' = TRUE
    /\ UNCHANGED <<initialised, networkUp, downPending, rxCount, timers, ip, task, opened, tcpWanted>>

\* FreeRTOS_NetworkDownFromISR
DownFromISR ==
    /\ queue' = Posted("down")
    /\ downPending' = ~HasRoom
    /\ downWanted' = TRUE
    /\ UNCHANGED <<initialised, networkUp, rxCount, timers, ip, task, opened, tcpWanted>>

ContinueTask(t) ==
    \/ Increment(t) \/ SkipSend(t) \/ Send(t) \/ SendFails(t)
    \/ LoadRxCount(t) \/ Decrement(t) \/ SetDownFlag(t)

----------------------------------------------------------------------------
(* Time *)

\* No timer is ever read to be later than this.
Latest == -(TcpPeriod + 1)

OneLess(time) == IF time > Latest THEN time - 1 ELSE time

\* A tick during prvCheckNetworkTimers and prvCalculateSleepTime counts
\* from the end of these.
Tick ==
    /\ ip.at \notin {"loop", "tcp", "tcpStart", "sleep"}
    /\ Instant => ip.at = "wait" /\ queue = <<>> /\ ip.sleep > 0
    /\ arp' = IF arp.active THEN [arp EXCEPT !.remaining = OneLess(@)] ELSE arp
    /\ tcp' = [tcp EXCEPT !.remaining = OneLess(@)]
    /\ ip' = IF ip.at = "wait" /\ ip.sleep > 0 THEN [ip EXCEPT !.sleep = @ - 1] ELSE ip
    /\ UNCHANGED <<queue, initialised, networkUp, downPending, rxCount, tcpMessage, task,
                   opened, tcpWanted, downWanted>>

Next ==
    \/ IPStep
    \/ \E t \in Posters : Begin(t) \/ ContinueTask(t)
    \/ DownFromISR
    \/ Tick

Spec == Init /\ [][Next]_vars

\* The tasks' calls and the IP task go on, however often a task with a higher
\* priority runs, and so does time; nobody has to call the stack.
FairSpec ==
    /\ Spec
    /\ SF_vars(IPStep)
    /\ \A t \in Posters : SF_vars(ContinueTask(t))
    /\ SF_vars(Tick)
----------------------------------------------------------------------------
(* Properties *)

TaskPlaces == {"idle", "inc", "send", "load", "dec", "setFlag", "clearFlag"}

TypeOK ==
    /\ queue \in Seq(Events) /\ Len(queue) <= QueueLength
    /\ {initialised, networkUp, downPending, tcpMessage, opened, tcpWanted, downWanted}
          \subseteq BOOLEAN
    /\ rxCount \in 0..(CountWidth - 1)
    /\ arp \in [active : BOOLEAN, remaining : Latest..ArpPeriod]
    /\ tcp \in [expired : BOOLEAN, remaining : Latest..TcpPeriod]
    /\ ip \in [at : IPPlaces, then : {"ready", "loop", "pending"}, sent : BOOLEAN,
               event : Events \cup {"none"}, sleep : 0..(MaxSleep + ArpPeriod),
               next : 0..TcpPeriod, count : 0..(CountWidth - 1)]
    /\ task \in [Posters -> [at : TaskPlaces, event : Events \cup {"none"},
                             count : 0..(CountWidth - 1)]]

\* The first event that the IP task handles is the network-down it sends to
\* itself, so no frame, packet, socket or timer is processed before the network
\* interface was initialised, although other tasks send events from the moment
\* xIPTaskInitialised is set (prvIPTask, xSendEventStructToIPTask).
InitBeforeTraffic ==
    ip.at = "handle" /\ ip.event # "down" => opened

\* A task that asked for the TCP sockets to be checked is not left waiting
\* while the IP task sleeps: the request was either seen by
\* prvCheckNetworkTimers or its event is in, or on its way to, the queue.
NoLostTcpWork ==
    (/\ ip.at = "wait" /\ queue = <<>>
     /\ \A t \in Posters : ~(task[t].at = "send" /\ task[t].event = "tcpTimer"))
    => ~tcpWanted

\* The ARP timer is looked at no later than one TCP period after it expired,
\* though prvCalculateSleepTime takes its reload time for its remaining time.
ArpOnTime == arp.active => arp.remaining >= -TcpPeriod

\* A report that the network is down is remembered until it is processed: as
\* an event, by the pending flag, or by who is about to set the flag or to
\* report it again, however the calls of FreeRTOS_NetworkDown and
\* FreeRTOS_NetworkDownFromISR interleave and however full the queue is.
DownNotLost ==
    downWanted =>
        \/ \E i \in 1..Len(queue) : queue[i] = "down"
        \/ downPending
        \/ ip.at \in {"delay", "down"}
        \/ ip.at = "downFlag" /\ ~ip.sent
        \/ ip.at = "handle" /\ ip.event = "down"
        \/ \E t \in Posters : task[t].at = "setFlag"

\* The driver's frames reach the queue, or are refused by it: the IP task does not
\* keep a task that received a frame from sending it.
FramesArrive ==
    \A d \in Drivers : task[d].event = "rx" ~> task[d].event # "rx"

=============================================================================
