------------------------ MODULE MoteSessionProofs -------------------------
(***************************************************************************)
(* Proofs about MoteSession, in six parts: its type invariant; that the    *)
(* task handle names the only main task; that it implements LoopSwitch,    *)
(* both when no link forms before app_main is done; and, whenever links    *)
(* form, what the scan mode and previous_connected_wii are once the        *)
(* callback has caught up, the configuration a host leaves, and that a     *)
(* dropped link is not forgotten.                                          *)
(***************************************************************************)
EXTENDS MoteSession, TLAPS

----------------------------------------------------------------------------
(***************************************************************************)
(* Type correctness. TypeOK alone is not inductive: "remember" stores the  *)
(* host of the event it handles and LinkOpens bonds the peer, so both must *)
(* be known to be real addresses.                                          *)
(***************************************************************************)
QueueTyped ==
    /\ events \in Seq(Events)
    /\ \A i \in 1..Len(events) : events[i].type = "open" => events[i].host \in Hosts

Addressed ==
    /\ QueueTyped
    /\ link # "down" => peer \in Hosts
    /\ btc.pc \in {"remember", "register_connect"} => btc.ev.host \in Hosts

TypeInv == TypeOK /\ Addressed

LEMMA EventIsEvent ==
    ASSUME NEW type \in EventTypes, NEW ok \in BOOLEAN,
           NEW conn \in ConnStates, NEW host \in Hosts \cup {NoHost}
    PROVE  Event(type, ok, conn, host) \in Events
BY DEF Event, Events

\* Posting an event keeps the queue typed and its "open" events addressed.
LEMMA PostTyped ==
    ASSUME TypeInv, NEW e \in Events, Post(e),
           e.type = "open" => e.host \in Hosts
    PROVE  QueueTyped'
<1>1. events \in Seq(Events) BY DEF TypeInv, TypeOK
<1>2. events' = Append(events, e) BY DEF Post
<1>3. events' \in Seq(Events) BY <1>1, <1>2
<1>4. ASSUME NEW i \in 1..Len(events') PROVE events'[i].type = "open" => events'[i].host \in Hosts
  <2>1. CASE i \in 1..Len(events)
    <3>1. events'[i] = events[i] BY <1>1, <1>2, <2>1
    <3> QED BY <3>1, <2>1 DEF TypeInv, Addressed, QueueTyped
  <2>2. CASE i = Len(events) + 1
    <3>1. events'[i] = e BY <1>1, <1>2, <2>2
    <3> QED BY <3>1
  <2> QED BY <1>1, <1>2, <2>1, <2>2
<1> QED BY <1>3, <1>4 DEF QueueTyped

\* Taking one does so too, and the event taken is an event.
LEMMA TakeTyped ==
    ASSUME TypeInv, NEW type, Take(type), events' = Tail(events)
    PROVE  /\ Head(events) \in Events
           /\ Head(events).type = type
           /\ type = "open" => Head(events).host \in Hosts
           /\ QueueTyped'
<1>1. events \in Seq(Events) /\ events # <<>> BY DEF TypeInv, TypeOK, Take
<1>2. Head(events) = events[1] /\ Len(events) > 0 BY <1>1
<1>3. Head(events) \in Events /\ Head(events).type = type BY <1>1 DEF Take
<1>4. type = "open" => Head(events).host \in Hosts
  BY <1>1, <1>2, <1>3 DEF TypeInv, Addressed, QueueTyped
<1>5. events' \in Seq(Events) BY <1>1
<1>6. ASSUME NEW i \in 1..Len(events') PROVE events'[i].type = "open" => events'[i].host \in Hosts
  <2>1. i + 1 \in 1..Len(events) /\ events'[i] = events[i + 1] BY <1>1
  <2> QED BY <2>1 DEF TypeInv, Addressed, QueueTyped
<1> QED BY <1>3, <1>4, <1>5, <1>6 DEF QueueTyped

\* A connect request, whatever the state of the link.
LEMMA ConnectTyped ==
    ASSUME TypeInv, NEW h \in Hosts, Connect(h)
    PROVE  /\ QueueTyped'
           /\ link' \in {"down", "opening", "up", "closing"}
           /\ peer' \in Hosts \cup {NoHost}
           /\ link' # "down" => peer' \in Hosts
           /\ registered' = registered /\ known' = known
<1>1. CASE registered /\ link = "down"
  <2>1. /\ Post(Event("open", TRUE, "connecting", h)) /\ link' = "opening" /\ peer' = h
        /\ UNCHANGED <<registered, known>>
    BY <1>1 DEF Connect
  <2>2. Event("open", TRUE, "connecting", h) \in Events
    BY EventIsEvent DEF EventTypes, ConnStates
  <2>3. Event("open", TRUE, "connecting", h).host = h BY DEF Event
  <2> QED BY <2>1, <2>2, <2>3, PostTyped
<1>2. CASE ~(registered /\ link = "down")
  <2>1. /\ Post(Event("open", FALSE, "disconnected", h)) /\ UNCHANGED <<link, peer>>
        /\ UNCHANGED <<registered, known>>
    BY <1>2 DEF Connect
  <2>2. Event("open", FALSE, "disconnected", h) \in Events
    BY EventIsEvent DEF EventTypes, ConnStates
  <2>3. Event("open", FALSE, "disconnected", h).host = h BY DEF Event
  <2> QED BY <2>1, <2>2, <2>3, PostTyped DEF TypeInv, TypeOK, Addressed
<1> QED BY <1>1, <1>2

\* A disconnect request.
LEMMA DisconnectTyped ==
    ASSUME TypeInv, Disconnect
    PROVE  /\ QueueTyped'
           /\ link' \in {"down", "opening", "up", "closing"}
           /\ link' # "down" => link # "down"
           /\ peer' = peer /\ registered' = registered /\ known' = known
<1>1. CASE link = "up"
  <2>1. /\ Post(Event("close", TRUE, "disconnecting", peer)) /\ link' = "closing"
        /\ UNCHANGED <<peer, registered, known>>
    BY <1>1 DEF Disconnect
  <2>2. Event("close", TRUE, "disconnecting", peer) \in Events
    BY EventIsEvent DEF EventTypes, ConnStates, TypeInv, TypeOK
  <2>3. Event("close", TRUE, "disconnecting", peer).type = "close" BY DEF Event
  <2> QED BY <1>1, <2>1, <2>2, <2>3, PostTyped
<1>2. CASE link # "up"
  <2>1. /\ Post(Event("close", FALSE, "disconnected", NoHost)) /\ UNCHANGED link
        /\ UNCHANGED <<peer, registered, known>>
    BY <1>2 DEF Disconnect
  <2>2. Event("close", FALSE, "disconnected", NoHost) \in Events
    BY EventIsEvent DEF EventTypes, ConnStates
  <2>3. Event("close", FALSE, "disconnected", NoHost).type = "close" BY DEF Event
  <2> QED BY <2>1, <2>2, <2>3, PostTyped DEF TypeInv, TypeOK
<1> QED BY <1>1, <1>2

\* Where esp_bt_hidd_cb stands next.
LEMMA GotoTyped ==
    ASSUME NEW pc \in BtcSteps, NEW e \in Events, Goto(pc, e)
    PROVE  btc' \in [pc : BtcSteps, ev : Events] /\ btc'.pc = pc /\ btc'.ev = e
BY DEF Goto

LEMMA NoEventIsEvent == NoEvent \in Events
BY EventIsEvent DEF NoEvent, EventTypes, ConnStates

\* The two scan modes the events set.
LEMMA ScanTyped == Scan(TRUE, FALSE) \in Scans /\ Scan(FALSE, FALSE) \in Scans
BY DEF Scan, Scans

\* A new main task starts at the top of its loop.
LEMMA CreateTyped ==
    ASSUME TypeInv, NEW kind \in Kinds, CreateMainTask(kind)
    PROVE  task' \in [TaskIds -> Loops \cup {Absent}] /\ task_hdl' \in TaskIds \cup {NoTask}
<1>1. PICK t \in TaskIds : task' = [task EXCEPT ![t] = Start(kind)] /\ task_hdl' = t
  BY DEF CreateMainTask
<1>2. Start(kind) \in Loops BY DEF Start, Loops, Kinds, HidSteps, OtherSteps
<1> QED BY <1>1, <1>2 DEF TypeInv, TypeOK

\* Deleting the main task leaves every slot typed.
LEMMA DeleteTyped ==
    ASSUME TypeInv, DeleteMainTask
    PROVE  task' \in [TaskIds -> Loops \cup {Absent}] /\ task_hdl' \in TaskIds \cup {NoTask}
BY DEF DeleteMainTask, TypeInv, TypeOK

\* A main task that moves on stays inside its own loop.
LEMMA AdvanceTyped ==
    ASSUME TypeInv, NEW t \in TaskIds, task[t] # Absent, NEW pc,
           [kind |-> task[t].kind, pc |-> pc] \in Loops, Advance(t, pc)
    PROVE  task' \in [TaskIds -> Loops \cup {Absent}]
<1>1. task[t] \in Loops BY DEF TypeInv, TypeOK
<1>2. [task[t] EXCEPT !.pc = pc] = [kind |-> task[t].kind, pc |-> pc]
  BY <1>1 DEF Loops
<1> QED BY <1>2 DEF Advance, TypeInv, TypeOK

\* The initial states are typed.
LEMMA InitTyped == Init => TypeInv
<1> SUFFICES ASSUME Init PROVE TypeInv OBVIOUS
<1>1. btc \in [pc : BtcSteps, ev : Events] BY NoEventIsEvent DEF Init, BtcSteps
<1>2. events \in Seq(Events) /\ Len(events) = 0 BY DEF Init
<1>3. timers \in 0..MaxTimers BY SessionAssumption DEF Init
<1>4. task \in [TaskIds -> Loops \cup {Absent}] BY DEF Init
<1>5. scan \in Scans BY DEF Init, Scan, Scans
<1>6. TypeOK BY SessionAssumption, <1>1, <1>2, <1>3, <1>4, <1>5 DEF Init, TypeOK
<1>7. Addressed BY <1>2 DEF Init, Addressed, QueueTyped
<1> QED BY <1>6, <1>7 DEF TypeInv

----------------------------------------------------------------------------
\* The stack reports only real hosts.
LEMMA StackTyped == ASSUME TypeInv, Stack PROVE TypeInv'
<1>1. ASSUME NEW h \in Hosts, HostConnects(h) PROVE TypeInv'
  <2>1. Event("open", TRUE, "connected", h) \in Events
    BY EventIsEvent DEF EventTypes, ConnStates
  <2>2. QueueTyped' BY <1>1, <2>1, PostTyped DEF HostConnects, Event
  <2> QED BY <1>1, <2>2 DEF HostConnects, TypeInv, TypeOK, Addressed, QueueTyped
<1>2. CASE LinkOpens
  <2>1. peer \in Hosts BY <1>2 DEF LinkOpens, TypeInv, Addressed
  <2>2. Event("open", TRUE, "connected", peer) \in Events
    BY <2>1, EventIsEvent DEF EventTypes, ConnStates
  <2>3. QueueTyped' BY <1>2, <2>1, <2>2, PostTyped DEF LinkOpens, Event
  <2> QED BY <1>2, <2>1, <2>3 DEF LinkOpens, TypeInv, TypeOK, Addressed, QueueTyped
<1>3. CASE LinkEnds
  <2>1. Event("close", TRUE, "disconnected", peer) \in Events
    BY EventIsEvent DEF EventTypes, ConnStates, TypeInv, TypeOK
  <2>2. QueueTyped' BY <1>3, <2>1, PostTyped DEF LinkEnds, Event
  <2> QED BY <1>3, <2>2 DEF LinkEnds, TypeInv, TypeOK, Addressed, QueueTyped
<1>4. CASE HostUnplugs
  <2>1. Event("vc_unplug", TRUE, "disconnected", peer) \in Events
    BY EventIsEvent DEF EventTypes, ConnStates, TypeInv, TypeOK
  <2>2. QueueTyped' BY <1>4, <2>1, PostTyped DEF HostUnplugs, Event
  <2> QED BY <1>4, <2>2 DEF HostUnplugs, TypeInv, TypeOK, Addressed, QueueTyped
<1>5. CASE HostReports
  <2>1. Event("intr_data", TRUE, "none", peer) \in Events
    BY EventIsEvent DEF EventTypes, ConnStates, TypeInv, TypeOK
  <2>2. QueueTyped' BY <1>5, <2>1, PostTyped DEF HostReports, Event
  <2> QED BY <1>5, <2>2 DEF HostReports, TypeInv, TypeOK, Addressed, QueueTyped
<1> QED BY <1>1, <1>2, <1>3, <1>4, <1>5 DEF Stack

\* app_main.
LEMMA BootTyped ==
    ASSUME TypeInv, InitPeripherals \/ FirstMainTask PROVE TypeInv'
<1>1. CASE InitPeripherals
  <2>1. QueueTyped'
    <3>1. CASE UNCHANGED events BY <3>1 DEF TypeInv, Addressed, QueueTyped
    <3>2. ASSUME NEW ok \in BOOLEAN, Post(Event("init", ok, "none", NoHost))
          PROVE  QueueTyped'
      <4>1. Event("init", ok, "none", NoHost) \in Events
        BY EventIsEvent DEF EventTypes, ConnStates
      <4> QED BY <3>2, <4>1, PostTyped DEF Event
    <3> QED BY <1>1, <3>1, <3>2 DEF InitPeripherals
  <2> QED BY <1>1, <2>1 DEF InitPeripherals, bootOnly, TypeInv, TypeOK, Addressed, QueueTyped
<1>2. CASE FirstMainTask
  <2>1. task' \in [TaskIds -> Loops \cup {Absent}] /\ task_hdl' \in TaskIds \cup {NoTask}
    BY <1>2, CreateTyped DEF FirstMainTask, Kinds
  <2> QED BY <1>2, <2>1 DEF FirstMainTask, bootOnly, TypeInv, TypeOK, Addressed, QueueTyped
<1> QED BY <1>1, <1>2

\* esp_bt_hidd_cb.
LEMMA BtcTyped == ASSUME TypeInv, Btc PROVE TypeInv'
<1>e. btc.ev \in Events /\ NoEvent \in Events BY NoEventIsEvent DEF TypeInv, TypeOK
<1>1. CASE OnInit
  <2>1. QueueTyped' /\ Head(events) \in Events
        /\ ("init" = "open" => Head(events).host \in Hosts)
    BY <1>1, TakeTyped DEF OnInit
  <2>2. Goto("register_app", Head(events)) \/ Goto("idle", NoEvent)
    BY <1>1 DEF OnInit, GoIdle
  <2>3. /\ btc' \in [pc : BtcSteps, ev : Events]
        /\ btc'.pc \in {"remember", "register_connect"} => btc'.ev.host \in Hosts
    BY <1>e, <2>1, <2>2, GotoTyped DEF BtcSteps
  <2>4. /\ scan' \in Scans
        /\ UNCHANGED <<notBtc, stackVars, timers, attempt, previous, ops, task, task_hdl>>
    BY <1>1 DEF OnInit, TypeInv, TypeOK
  <2> QED BY <2>1, <2>3, <2>4 DEF notBtc, stackVars, TypeInv, TypeOK, Addressed, QueueTyped
<1>2. CASE OnRegister
  <2>1. QueueTyped' /\ Head(events) \in Events
        /\ ("register" = "open" => Head(events).host \in Hosts)
    BY <1>2, TakeTyped DEF OnRegister
  <2>2. (Goto("register_connect", Head(events)) /\ Head(events).host # NoHost) \/ Goto("idle", NoEvent)
    BY <1>2 DEF OnRegister, GoIdle
  <2>3. /\ btc' \in [pc : BtcSteps, ev : Events]
        /\ btc'.pc \in {"remember", "register_connect"} => btc'.ev.host \in Hosts
    BY <1>e, <2>1, <2>2, GotoTyped DEF BtcSteps, Events
  <2>4. scan' = Scan(TRUE, FALSE) \/ scan' = scan
    BY <1>2 DEF OnRegister
  <2>5. scan' \in Scans BY <2>4, ScanTyped DEF TypeInv, TypeOK
  <2>6. UNCHANGED <<notBtc, stackVars, timers, attempt, previous, ops, task, task_hdl>>
    BY <1>2 DEF OnRegister
  <2> QED BY <2>1, <2>3, <2>5, <2>6 DEF notBtc, stackVars, TypeInv, TypeOK, Addressed, QueueTyped
<1>3. CASE OnOpen
  <2>1. QueueTyped' /\ Head(events) \in Events
        /\ ("open" = "open" => Head(events).host \in Hosts)
    BY <1>3, TakeTyped DEF OnOpen
  <2>2. Goto("remember", Head(events)) \/ Goto("idle", NoEvent)
    BY <1>3 DEF OnOpen, GoIdle
  <2>3. /\ btc' \in [pc : BtcSteps, ev : Events]
        /\ btc'.pc \in {"remember", "register_connect"} => btc'.ev.host \in Hosts
    BY <1>e, <2>1, <2>2, GotoTyped DEF BtcSteps
  <2>4. scan' = Scan(FALSE, FALSE) \/ scan' = scan
    BY <1>3 DEF OnOpen
  <2>5. scan' \in Scans BY <2>4, ScanTyped DEF TypeInv, TypeOK
  <2>6. UNCHANGED <<notBtc, stackVars, timers, attempt, previous, ops, task, task_hdl>>
    BY <1>3 DEF OnOpen
  <2> QED BY <2>1, <2>3, <2>5, <2>6 DEF notBtc, stackVars, TypeInv, TypeOK, Addressed, QueueTyped
<1>4. CASE OnClose
  <2>1. QueueTyped' /\ Head(events) \in Events
        /\ ("close" = "open" => Head(events).host \in Hosts)
    BY <1>4, TakeTyped DEF OnClose
  <2>2. Goto("shut_delete", Head(events)) \/ Goto("idle", NoEvent)
    BY <1>4 DEF OnClose, GoIdle
  <2>3. /\ btc' \in [pc : BtcSteps, ev : Events]
        /\ btc'.pc \in {"remember", "register_connect"} => btc'.ev.host \in Hosts
    BY <1>e, <2>1, <2>2, GotoTyped DEF BtcSteps
  <2>4. /\ scan' \in Scans
        /\ UNCHANGED <<notBtc, stackVars, timers, attempt, previous, ops, task, task_hdl>>
    BY <1>4 DEF OnClose, TypeInv, TypeOK
  <2> QED BY <2>1, <2>3, <2>4 DEF notBtc, stackVars, TypeInv, TypeOK, Addressed, QueueTyped
<1>5. CASE OnUnplug
  <2>1. QueueTyped' /\ Head(events) \in Events
        /\ ("vc_unplug" = "open" => Head(events).host \in Hosts)
    BY <1>5, TakeTyped DEF OnUnplug
  <2>2. Goto("shut_delete", Head(events)) \/ Goto("idle", NoEvent)
    BY <1>5 DEF OnUnplug, GoIdle
  <2>3. /\ btc' \in [pc : BtcSteps, ev : Events]
        /\ btc'.pc \in {"remember", "register_connect"} => btc'.ev.host \in Hosts
    BY <1>e, <2>1, <2>2, GotoTyped DEF BtcSteps
  <2>4. /\ scan' \in Scans
        /\ UNCHANGED <<notBtc, stackVars, timers, attempt, previous, ops, task, task_hdl>>
    BY <1>5 DEF OnUnplug, TypeInv, TypeOK
  <2> QED BY <2>1, <2>3, <2>4 DEF notBtc, stackVars, TypeInv, TypeOK, Addressed, QueueTyped
<1>6. CASE Remember
  <2>1. btc' \in [pc : BtcSteps, ev : Events] /\ btc'.pc \notin {"remember", "register_connect"}
    BY <1>6, <1>e, GotoTyped DEF Remember, GoIdle, BtcSteps
  <2>2. btc.ev.host \in Hosts BY <1>6 DEF Remember, TypeInv, Addressed
  <2> QED BY <1>6, <2>1, <2>2 DEF Remember, notBtc, stackVars, TypeInv, TypeOK, Addressed, QueueTyped
<1>7. CASE ResetOperationals
  <2>1. btc' \in [pc : BtcSteps, ev : Events] /\ btc'.pc \notin {"remember", "register_connect"}
    BY <1>7, <1>e, GotoTyped DEF ResetOperationals, GoIdle, BtcSteps
  <2> QED BY <1>7, <2>1 DEF ResetOperationals, notBtc, stackVars, TypeInv, TypeOK, Addressed, QueueTyped
<1>8. CASE StartDelete
  <2>1. btc' \in [pc : BtcSteps, ev : Events] /\ btc'.pc \notin {"remember", "register_connect"}
    BY <1>8, <1>e, GotoTyped DEF StartDelete, GoIdle, BtcSteps
  <2>2. task' \in [TaskIds -> Loops \cup {Absent}] /\ task_hdl' \in TaskIds \cup {NoTask}
    BY <1>8, DeleteTyped DEF StartDelete
  <2> QED BY <1>8, <2>1, <2>2 DEF StartDelete, notBtc, stackVars, TypeInv, TypeOK, Addressed, QueueTyped
<1>9. CASE StartCreate
  <2>1. btc' \in [pc : BtcSteps, ev : Events] /\ btc'.pc \notin {"remember", "register_connect"}
    BY <1>9, <1>e, GotoTyped DEF StartCreate, GoIdle, BtcSteps
  <2>2. task' \in [TaskIds -> Loops \cup {Absent}] /\ task_hdl' \in TaskIds \cup {NoTask}
    BY <1>9, CreateTyped DEF StartCreate, Kinds
  <2> QED BY <1>9, <2>1, <2>2 DEF StartCreate, notBtc, stackVars, TypeInv, TypeOK, Addressed, QueueTyped
<1>10. CASE ShutDelete
  <2>1. btc' \in [pc : BtcSteps, ev : Events] /\ btc'.pc \notin {"remember", "register_connect"}
    BY <1>10, <1>e, GotoTyped DEF ShutDelete, GoIdle, BtcSteps
  <2>2. task' \in [TaskIds -> Loops \cup {Absent}] /\ task_hdl' \in TaskIds \cup {NoTask}
    BY <1>10, DeleteTyped DEF ShutDelete
  <2> QED BY <1>10, <2>1, <2>2 DEF ShutDelete, notBtc, stackVars, TypeInv, TypeOK, Addressed, QueueTyped
<1>11. CASE ShutCreate
  <2>1. btc' \in [pc : BtcSteps, ev : Events] /\ btc'.pc \notin {"remember", "register_connect"}
    BY <1>11, <1>e, GotoTyped DEF ShutCreate, GoIdle, BtcSteps
  <2>2. task' \in [TaskIds -> Loops \cup {Absent}] /\ task_hdl' \in TaskIds \cup {NoTask}
    BY <1>11, CreateTyped DEF ShutCreate, Kinds
  <2> QED BY <1>11, <2>1, <2>2 DEF ShutCreate, notBtc, stackVars, TypeInv, TypeOK, Addressed, QueueTyped
<1>12. CASE ShutScan
  <2>1. btc' \in [pc : BtcSteps, ev : Events] /\ btc'.pc \notin {"remember", "register_connect"}
    BY <1>12, <1>e, GotoTyped DEF ShutScan, GoIdle, BtcSteps
  <2> QED BY <1>12, <2>1 DEF ShutScan, Scan, Scans, notBtc, stackVars, TypeInv, TypeOK, Addressed, QueueTyped
<1>13. CASE ShutTimer
  <2>1. btc' \in [pc : BtcSteps, ev : Events] /\ btc'.pc \notin {"remember", "register_connect"}
    BY <1>13, <1>e, GotoTyped DEF ShutTimer, GoIdle, BtcSteps
  <2> QED BY <1>13, <2>1, SessionAssumption DEF ShutTimer, notBtc, stackVars, TypeInv, TypeOK, Addressed, QueueTyped
<1>14. CASE RegisterApp
  <2>1. QueueTyped'
    <3>1. ASSUME NEW h \in known \cup {NoHost}, Post(Event("register", TRUE, "none", h))
          PROVE  QueueTyped'
      <4>1. Event("register", TRUE, "none", h) \in Events
        BY EventIsEvent DEF EventTypes, ConnStates, TypeInv, TypeOK
      <4> QED BY <3>1, <4>1, PostTyped DEF Event
    <3>2. ASSUME Post(Event("register", FALSE, "none", NoHost)) PROVE QueueTyped'
      <4>1. Event("register", FALSE, "none", NoHost) \in Events
        BY EventIsEvent DEF EventTypes, ConnStates
      <4> QED BY <3>2, <4>1, PostTyped DEF Event
    <3> QED BY <1>14, <3>1, <3>2 DEF RegisterApp
  <2>2. btc' \in [pc : BtcSteps, ev : Events] /\ btc'.pc = "idle"
    BY <1>14, <1>e, GotoTyped DEF RegisterApp, GoIdle, BtcSteps
  <2> QED BY <1>14, <2>1, <2>2 DEF RegisterApp, notBtc, stackVars, TypeInv, TypeOK, Addressed, QueueTyped
<1>15. CASE RegisterConnect
  <2>1. btc.ev.host \in Hosts BY <1>15 DEF RegisterConnect, TypeInv, Addressed
  <2>2. btc' \in [pc : BtcSteps, ev : Events] /\ btc'.pc = "idle"
    BY <1>15, <1>e, GotoTyped DEF RegisterConnect, GoIdle, BtcSteps
  <2>3. /\ QueueTyped' /\ link' \in {"down", "opening", "up", "closing"}
        /\ peer' \in Hosts \cup {NoHost} /\ (link' # "down" => peer' \in Hosts)
        /\ registered' = registered /\ known' = known
    BY <1>15, <2>1, ConnectTyped DEF RegisterConnect
  <2> QED BY <1>15, <2>2, <2>3 DEF RegisterConnect, notBtc, stackVars, TypeInv, TypeOK, Addressed, QueueTyped
<1>16. CASE OnReport
  <2>1. QueueTyped' /\ Head(events) \in Events BY <1>16, TakeTyped DEF OnReport
  <2> QED BY <1>16, <2>1 DEF OnReport, Events, notBtc, stackVars, TypeInv, TypeOK, Addressed, QueueTyped
<1> QED BY <1>1, <1>2, <1>3, <1>4, <1>5, <1>6, <1>7, <1>8, <1>9, <1>10, <1>11, <1>12, <1>13, <1>14, <1>15, <1>16 DEF Btc

\* reconnect_callback.
LEMMA TimerTyped == ASSUME TypeInv, Timer PROVE TypeInv'
<1>1. CASE TimerFires
  BY <1>1, SessionAssumption DEF TimerFires, stackVars, TypeInv, TypeOK, Addressed, QueueTyped
<1>2. CASE TimerConnect
  <2>1. CASE Connect(previous) /\ UNCHANGED attempt
    <3>1. /\ QueueTyped' /\ link' \in {"down", "opening", "up", "closing"}
          /\ peer' \in Hosts \cup {NoHost} /\ (link' # "down" => peer' \in Hosts)
          /\ registered' = registered /\ known' = known
      BY <2>1, ConnectTyped DEF TypeInv, TypeOK
    <3> QED BY <1>2, <2>1, <3>1 DEF TimerConnect, TypeInv, TypeOK, Addressed, QueueTyped
  <2>2. CASE RequestMayFail /\ attempt' = FALSE /\ UNCHANGED <<stackVars, events>>
    BY <1>2, <2>2 DEF TimerConnect, stackVars, TypeInv, TypeOK, Addressed, QueueTyped
  <2> QED BY <1>2, <2>1, <2>2 DEF TimerConnect
<1> QED BY <1>1, <1>2 DEF Timer

\* A request of a main task, or none.
LEMMA RequestTyped ==
    ASSUME TypeInv,
           Disconnect \/ Connect(previous) \/ UNCHANGED <<stackVars, events>>
    PROVE  /\ QueueTyped' /\ link' \in {"down", "opening", "up", "closing"}
           /\ peer' \in Hosts \cup {NoHost} /\ (link' # "down" => peer' \in Hosts)
           /\ registered' = registered /\ known' = known
<1>1. CASE Disconnect BY <1>1, DisconnectTyped DEF TypeInv, TypeOK, Addressed
<1>2. CASE Connect(previous) BY <1>2, ConnectTyped DEF TypeInv, TypeOK
<1>3. CASE UNCHANGED <<stackVars, events>>
  BY <1>3 DEF stackVars, TypeInv, TypeOK, Addressed, QueueTyped
<1> QED BY <1>1, <1>2, <1>3

\* The main tasks.
LEMMA MainTaskTyped ==
    ASSUME TypeInv, NEW t \in TaskIds, MainTask(t) PROVE TypeInv'
<1>l. task[t] # Absent => task[t] \in Loops BY DEF TypeInv, TypeOK
<1>1. CASE BootButton(t)
  <2>1. task[t] # Absent /\ [kind |-> task[t].kind, pc |-> "sync"] \in Loops
    BY <1>1, <1>l DEF BootButton, At, AfterSync, Loops, HidSteps, OtherSteps, Absent
  <2>2. task' \in [TaskIds -> Loops \cup {Absent}] BY <1>1, <2>1, AdvanceTyped DEF BootButton
  <2>3. /\ QueueTyped' /\ link' \in {"down", "opening", "up", "closing"}
        /\ peer' \in Hosts \cup {NoHost} /\ (link' # "down" => peer' \in Hosts)
        /\ registered' = registered /\ known' = known
    BY <1>1, RequestTyped DEF BootButton
  <2> QED BY <1>1, <2>2, <2>3 DEF BootButton, notTask, TypeInv, TypeOK, Addressed, QueueTyped
<1>2. CASE CheckSync(t)
  <2>1. /\ task[t] # Absent
        /\ [kind |-> task[t].kind, pc |-> AfterSync(t)] \in Loops
        /\ [kind |-> task[t].kind, pc |-> "window_open"] \in Loops
    BY <1>2, <1>l DEF CheckSync, At, AfterSync, Loops, HidSteps, OtherSteps, Absent
  <2>2. task' \in [TaskIds -> Loops \cup {Absent}] BY <1>2, <2>1, AdvanceTyped DEF CheckSync
  <2>3. /\ QueueTyped' /\ link' \in {"down", "opening", "up", "closing"}
        /\ peer' \in Hosts \cup {NoHost} /\ (link' # "down" => peer' \in Hosts)
        /\ registered' = registered /\ known' = known
    BY <1>2, RequestTyped DEF CheckSync
  <2> QED BY <1>2, <2>2, <2>3 DEF CheckSync, notTask, TypeInv, TypeOK, Addressed, QueueTyped
<1>3. CASE OpenWindow(t)
  <2>1. task[t] # Absent /\ [kind |-> task[t].kind, pc |-> "window"] \in Loops
    BY <1>3, <1>l DEF OpenWindow, At, AfterSync, Loops, HidSteps, OtherSteps, Absent
  <2>2. task' \in [TaskIds -> Loops \cup {Absent}] BY <1>3, <2>1, AdvanceTyped DEF OpenWindow
  <2> QED BY <1>3, <2>2 DEF OpenWindow, stackVars, Scan, Scans, notTask, TypeInv, TypeOK, Addressed, QueueTyped
<1>4. CASE CloseWindow(t)
  <2>1. task[t] # Absent /\ [kind |-> task[t].kind, pc |-> AfterSync(t)] \in Loops
    BY <1>4, <1>l DEF CloseWindow, At, AfterSync, Loops, HidSteps, OtherSteps, Absent
  <2>2. task' \in [TaskIds -> Loops \cup {Absent}] BY <1>4, <2>1, AdvanceTyped DEF CloseWindow
  <2> QED BY <1>4, <2>2 DEF CloseWindow, stackVars, Scan, Scans, notTask, TypeInv, TypeOK, Addressed, QueueTyped
<1>5. CASE ButtonA(t)
  <2>1. task[t] # Absent /\ [kind |-> task[t].kind, pc |-> "sync"] \in Loops
    BY <1>5, <1>l DEF ButtonA, At, AfterSync, Loops, HidSteps, OtherSteps, Absent
  <2>2. task' \in [TaskIds -> Loops \cup {Absent}] BY <1>5, <2>1, AdvanceTyped DEF ButtonA
  <2>3. /\ QueueTyped' /\ link' \in {"down", "opening", "up", "closing"}
        /\ peer' \in Hosts \cup {NoHost} /\ (link' # "down" => peer' \in Hosts)
        /\ registered' = registered /\ known' = known
    BY <1>5, RequestTyped DEF ButtonA
  <2> QED BY <1>5, <2>2, <2>3 DEF ButtonA, notTask, TypeInv, TypeOK, Addressed, QueueTyped
<1> QED BY <1>1, <1>2, <1>3, <1>4, <1>5 DEF MainTask

\* Every step keeps the types.
LEMMA StepTyped == TypeInv /\ [Next]_vars => TypeInv'
<1> SUFFICES ASSUME TypeInv, [Next]_vars PROVE TypeInv' OBVIOUS
<1>1. CASE Halted \/ UNCHANGED vars
  BY <1>1 DEF Halted, vars, TypeInv, TypeOK, Addressed, QueueTyped
<1> QED BY <1>1, BootTyped, StackTyped, BtcTyped, TimerTyped, MainTaskTyped DEF Next

\* Every variable keeps its type, whatever the number of hosts, of undelivered
\* events, of armed timers and of main tasks.
THEOREM TypeCorrect == Spec => []TypeOK
<1>1. TypeInv => TypeOK BY DEF TypeInv
<1> QED BY <1>1, InitTyped, StepTyped, PTL DEF Spec

----------------------------------------------------------------------------
(***************************************************************************)
(* The task handle names the only main task. Three facts make this         *)
(* inductive: the handle is NULL between a delete and the create after it; *)
(* and until app_main has created the first main task none exists, no      *)
(* timer is armed, and no event that would make the callback create one is *)
(* queued. The last one needs links to stay down during boot.              *)
(***************************************************************************)
HandleIsTask == \A t \in TaskIds : task[t] # Absent <=> t = task_hdl

NullBetween == btc.pc \in {"start_create", "shut_create"} => task_hdl = NoTask

\* An event on which esp_bt_hidd_cb leaves the main task alone.
Harmless(e) == ~(e.ok /\ e.conn \in {"connected", "disconnected"})
QueueHarmless == \A i \in 1..Len(events) : Harmless(events[i])

BootIsQuiet ==
    boot # "done" =>
        /\ task_hdl = NoTask
        /\ timers = 0 /\ tmr = "idle"
        /\ link \in {"down", "opening"}
        /\ QueueHarmless
        /\ btc.pc \in {"idle", "register_app", "register_connect"}

SoleInv == HandleIsTask /\ NullBetween /\ BootIsQuiet

\* The queue stays harmless when a harmless event is posted ...
LEMMA PostHarmless ==
    ASSUME TypeInv, QueueHarmless, NEW e \in Events, Harmless(e), Post(e)
    PROVE  QueueHarmless'
<1>1. events \in Seq(Events) /\ events' = Append(events, e)
  BY DEF TypeInv, TypeOK, Post
<1>2. ASSUME NEW i \in 1..Len(events') PROVE Harmless(events'[i])
  <2>1. CASE i \in 1..Len(events)
    <3>1. events'[i] = events[i] BY <1>1, <2>1
    <3> QED BY <3>1, <2>1 DEF QueueHarmless
  <2>2. CASE i = Len(events) + 1
    <3>1. events'[i] = e BY <1>1, <2>2
    <3> QED BY <3>1
  <2> QED BY <1>1, <2>1, <2>2
<1> QED BY <1>2 DEF QueueHarmless, Harmless

\* ... and when one is taken, which is then harmless itself.
LEMMA TakeHarmless ==
    ASSUME TypeInv, QueueHarmless, NEW type, Take(type), events' = Tail(events)
    PROVE  QueueHarmless' /\ Harmless(Head(events))
<1>1. events \in Seq(Events) /\ events # <<>> BY DEF TypeInv, TypeOK, Take
<1>2. Head(events) = events[1] /\ 1 \in 1..Len(events) BY <1>1
<1>3. Harmless(Head(events)) BY <1>2 DEF QueueHarmless
<1>4. ASSUME NEW i \in 1..Len(events') PROVE Harmless(events'[i])
  <2>1. i + 1 \in 1..Len(events) /\ events'[i] = events[i + 1] BY <1>1
  <2> QED BY <2>1 DEF QueueHarmless
<1> QED BY <1>3, <1>4 DEF QueueHarmless, Harmless

\* A delete through a handle that names the only main task leaves none.
LEMMA DeleteLeavesNone ==
    ASSUME TypeInv, HandleIsTask, DeleteMainTask
    PROVE  HandleIsTask' /\ task_hdl' = NoTask
<1>1. task_hdl' = NoTask BY DEF DeleteMainTask
<1>2. ASSUME NEW t \in TaskIds PROVE task'[t] = Absent
  <2>1. CASE task_hdl = NoTask
    BY <2>1, SessionAssumption DEF DeleteMainTask, HandleIsTask
  <2>2. CASE task_hdl # NoTask
    BY <2>2 DEF DeleteMainTask, HandleIsTask, TypeInv, TypeOK
  <2> QED BY <2>1, <2>2
<1> QED BY <1>1, <1>2, SessionAssumption DEF HandleIsTask

\* A create over a NULL handle makes the new task the only one.
LEMMA CreateMakesOne ==
    ASSUME TypeInv, HandleIsTask, task_hdl = NoTask, NEW kind \in Kinds,
           CreateMainTask(kind)
    PROVE  HandleIsTask' /\ task_hdl' # NoTask
<1>1. PICK t \in TaskIds : task' = [task EXCEPT ![t] = Start(kind)] /\ task_hdl' = t
  BY DEF CreateMainTask
<1>2. \A u \in TaskIds : task[u] = Absent BY SessionAssumption DEF HandleIsTask
<1>3. Start(kind) # Absent BY DEF Start, Absent, Kinds
<1>4. \A u \in TaskIds : task'[u] = IF u = t THEN Start(kind) ELSE Absent
  BY <1>1, <1>2 DEF TypeInv, TypeOK
<1> QED BY <1>1, <1>3, <1>4, SessionAssumption DEF HandleIsTask

\* No task appears or goes when a main task only moves on.
LEMMA AdvanceKeepsHandle ==
    ASSUME TypeInv, HandleIsTask, NEW t \in TaskIds, task[t] # Absent, NEW pc \in HidSteps \cup OtherSteps,
           Advance(t, pc), task_hdl' = task_hdl
    PROVE  HandleIsTask'
<1>1. task[t] \in Loops BY DEF TypeInv, TypeOK
<1>2. [task[t] EXCEPT !.pc = pc] # Absent BY <1>1 DEF Loops, Absent, HidSteps, OtherSteps
<1>3. \A u \in TaskIds : task'[u] # Absent <=> task[u] # Absent
  BY <1>2 DEF Advance, TypeInv, TypeOK
<1> QED BY <1>3 DEF HandleIsTask

\* What a step leaves alone when it does not touch the main task.
LEMMA SameHandle ==
    ASSUME HandleIsTask, UNCHANGED <<task, task_hdl>> PROVE HandleIsTask'
BY DEF HandleIsTask

\* app_main: its first main task finds the handle NULL.
LEMMA BootSole ==
    ASSUME TypeInv, SoleInv, InitPeripherals \/ FirstMainTask PROVE SoleInv'
<1>1. CASE InitPeripherals
  <2>1. boot = "peripherals" /\ UNCHANGED <<bootOnly, task, task_hdl>>
    BY <1>1 DEF InitPeripherals
  <2>2. QueueHarmless BY <2>1 DEF SoleInv, BootIsQuiet
  <2>3. QueueHarmless'
    <3>1. CASE UNCHANGED events BY <3>1, <2>2 DEF QueueHarmless, Harmless
    <3>2. ASSUME NEW ok \in BOOLEAN, Post(Event("init", ok, "none", NoHost))
          PROVE  QueueHarmless'
      <4>1. Event("init", ok, "none", NoHost) \in Events
        BY EventIsEvent DEF EventTypes, ConnStates
      <4>2. Harmless(Event("init", ok, "none", NoHost)) BY DEF Harmless, Event
      <4> QED BY <3>2, <4>1, <4>2, <2>2, PostHarmless
    <3> QED BY <1>1, <3>1, <3>2 DEF InitPeripherals
  <2> QED BY <2>1, <2>3, SameHandle DEF SoleInv, NullBetween, BootIsQuiet, bootOnly
<1>2. CASE FirstMainTask
  <2>1. boot = "starting" /\ boot' = "done" /\ btc' = btc
    BY <1>2 DEF FirstMainTask, bootOnly
  <2>2. task_hdl = NoTask /\ btc.pc \in {"idle", "register_app", "register_connect"}
    BY <2>1 DEF SoleInv, BootIsQuiet
  <2>3. HandleIsTask' BY <1>2, <2>2, CreateMakesOne DEF FirstMainTask, SoleInv, Kinds
  <2> QED BY <2>1, <2>2, <2>3 DEF SoleInv, NullBetween, BootIsQuiet
<1> QED BY <1>1, <1>2

\* The stack opens, drops and unplugs nothing before app_main is done.
LEMMA StackSole ==
    ASSUME TypeInv, SoleInv, ConnectDuringBoot = FALSE, Stack PROVE SoleInv'
<1>1. boot = "done"
  <2>1. (LinkOpens \/ LinkEnds \/ \E h \in Hosts : HostConnects(h)) => boot = "done"
    BY DEF LinkOpens, LinkEnds, HostConnects, LinksAllowed
  <2>2. (HostUnplugs \/ HostReports) => boot = "done"
    BY DEF HostUnplugs, HostReports, SoleInv, BootIsQuiet
  <2> QED BY <2>1, <2>2 DEF Stack
<1>2. UNCHANGED <<boot, btc, task, task_hdl>>
  BY DEF Stack, HostConnects, LinkOpens, LinkEnds, HostUnplugs, HostReports
<1> QED BY <1>1, <1>2, SameHandle DEF SoleInv, NullBetween, BootIsQuiet

\* reconnect_callback never runs before app_main is done.
LEMMA TimerSole == ASSUME TypeInv, SoleInv, Timer PROVE SoleInv'
<1>1. boot = "done"
  BY DEF Timer, TimerFires, TimerConnect, SoleInv, BootIsQuiet
<1>2. UNCHANGED <<boot, btc, task, task_hdl>> BY DEF Timer, TimerFires, TimerConnect
<1> QED BY <1>1, <1>2, SameHandle DEF SoleInv, NullBetween, BootIsQuiet

\* A main task neither creates nor deletes one.
LEMMA MainTaskSole ==
    ASSUME TypeInv, SoleInv, NEW t \in TaskIds, MainTask(t) PROVE SoleInv'
<1>1. task[t] # Absent
  BY DEF MainTask, BootButton, CheckSync, OpenWindow, CloseWindow, ButtonA, At
<1>2. task_hdl # NoTask BY <1>1, SessionAssumption DEF SoleInv, HandleIsTask
<1>3. boot = "done" BY <1>2 DEF SoleInv, BootIsQuiet
<1>4. UNCHANGED <<boot, btc, task_hdl>>
  BY DEF MainTask, BootButton, CheckSync, OpenWindow, CloseWindow, ButtonA, notTask
<1>5. \E pc \in HidSteps \cup OtherSteps : Advance(t, pc)
  BY DEF MainTask, BootButton, CheckSync, OpenWindow, CloseWindow, ButtonA,
         AfterSync, HidSteps, OtherSteps
<1>6. HandleIsTask' BY <1>1, <1>4, <1>5, AdvanceKeepsHandle DEF SoleInv
<1> QED BY <1>3, <1>4, <1>6 DEF SoleInv, NullBetween, BootIsQuiet

\* esp_bt_hidd_cb: it deletes before it creates, and before app_main is done it
\* finds no event to do either for.
LEMMA BtcSole == ASSUME TypeInv, SoleInv, Btc PROVE SoleInv'
<1>1. CASE OnInit
  <2>1. btc'.pc \in {"idle", "register_app"}
    BY <1>1 DEF OnInit, Goto, GoIdle
  <2>2. UNCHANGED <<notBtc, stackVars, timers, task, task_hdl>> BY <1>1 DEF OnInit
  <2>3. boot # "done" => QueueHarmless' BY <1>1, TakeHarmless DEF OnInit, SoleInv, BootIsQuiet
  <2> QED BY <2>1, <2>2, <2>3, SameHandle
     DEF SoleInv, NullBetween, BootIsQuiet, notBtc, stackVars
<1>2. CASE OnRegister
  <2>0. Goto("register_connect", Head(events)) \/ GoIdle BY <1>2 DEF OnRegister
  <2>1. btc'.pc \in {"idle", "register_connect"} BY <2>0 DEF Goto, GoIdle
  <2>2. UNCHANGED <<notBtc, stackVars, timers, task, task_hdl>> BY <1>2 DEF OnRegister
  <2>3. boot # "done" => QueueHarmless' BY <1>2, TakeHarmless DEF OnRegister, SoleInv, BootIsQuiet
  <2> QED BY <2>1, <2>2, <2>3, SameHandle
     DEF SoleInv, NullBetween, BootIsQuiet, notBtc, stackVars
<1>3. CASE OnOpen
  <2>1. btc'.pc = "idle" \/ (btc'.pc = "remember" /\ ~Harmless(Head(events)))
    <3>1. GoIdle \/ (Goto("remember", Head(events)) /\ ~Harmless(Head(events)))
      BY <1>3 DEF OnOpen, Harmless
    <3> QED BY <3>1 DEF Goto, GoIdle
  <2>2. UNCHANGED <<notBtc, stackVars, timers, task, task_hdl>> BY <1>3 DEF OnOpen
  <2>3. boot # "done" => QueueHarmless' /\ Harmless(Head(events))
    BY <1>3, TakeHarmless DEF OnOpen, SoleInv, BootIsQuiet
  <2> QED BY <2>1, <2>2, <2>3, SameHandle
     DEF SoleInv, NullBetween, BootIsQuiet, notBtc, stackVars
<1>4. CASE OnClose
  <2>1. btc'.pc = "idle" \/ (btc'.pc = "shut_delete" /\ ~Harmless(Head(events)))
    BY <1>4 DEF OnClose, Goto, GoIdle, Harmless
  <2>2. UNCHANGED <<notBtc, stackVars, timers, task, task_hdl>> BY <1>4 DEF OnClose
  <2>3. boot # "done" => QueueHarmless' /\ Harmless(Head(events))
    BY <1>4, TakeHarmless DEF OnClose, SoleInv, BootIsQuiet
  <2> QED BY <2>1, <2>2, <2>3, SameHandle
     DEF SoleInv, NullBetween, BootIsQuiet, notBtc, stackVars
<1>5. CASE OnUnplug
  <2>1. btc'.pc = "idle" \/ (btc'.pc = "shut_delete" /\ ~Harmless(Head(events)))
    BY <1>5 DEF OnUnplug, Goto, GoIdle, Harmless
  <2>2. UNCHANGED <<notBtc, stackVars, timers, task, task_hdl>> BY <1>5 DEF OnUnplug
  <2>3. boot # "done" => QueueHarmless' /\ Harmless(Head(events))
    BY <1>5, TakeHarmless DEF OnUnplug, SoleInv, BootIsQuiet
  <2> QED BY <2>1, <2>2, <2>3, SameHandle
     DEF SoleInv, NullBetween, BootIsQuiet, notBtc, stackVars
<1>6. CASE RegisterApp
  <2>1. btc'.pc = "idle" /\ UNCHANGED <<notBtc, link, timers, task, task_hdl>>
    BY <1>6 DEF RegisterApp, Goto, GoIdle
  <2>2. ASSUME QueueHarmless PROVE QueueHarmless'
    <3>1. ASSUME NEW ok \in BOOLEAN, NEW h \in Hosts \cup {NoHost}, Post(Event("register", ok, "none", h))
          PROVE  QueueHarmless'
      <4>1. Event("register", ok, "none", h) \in Events
        BY EventIsEvent DEF EventTypes, ConnStates
      <4>2. Harmless(Event("register", ok, "none", h)) BY DEF Harmless, Event
      <4> QED BY <3>1, <4>1, <4>2, <2>2, PostHarmless
    <3>2. \E ok \in BOOLEAN, h \in Hosts \cup {NoHost} : Post(Event("register", ok, "none", h))
      BY <1>6 DEF RegisterApp, TypeInv, TypeOK
    <3> QED BY <3>1, <3>2
  <2> QED BY <2>1, <2>2, SameHandle DEF SoleInv, NullBetween, BootIsQuiet, notBtc
<1>7. CASE RegisterConnect
  <2>1. btc'.pc = "idle" /\ UNCHANGED <<notBtc, timers, task, task_hdl>>
    BY <1>7 DEF RegisterConnect, Goto, GoIdle
  <2>2. btc.ev.host \in Hosts /\ Connect(btc.ev.host)
    BY <1>7 DEF RegisterConnect, TypeInv, Addressed
  <2>3. ASSUME QueueHarmless, link \in {"down", "opening"}
        PROVE  QueueHarmless' /\ link' \in {"down", "opening"}
    <3>1. CASE registered /\ link = "down"
      <4>1. Post(Event("open", TRUE, "connecting", btc.ev.host)) /\ link' = "opening"
        BY <2>2, <3>1 DEF Connect
      <4>2. Event("open", TRUE, "connecting", btc.ev.host) \in Events
        BY <2>2, EventIsEvent DEF EventTypes, ConnStates
      <4>3. Harmless(Event("open", TRUE, "connecting", btc.ev.host)) BY DEF Harmless, Event
      <4> QED BY <2>3, <4>1, <4>2, <4>3, PostHarmless
    <3>2. CASE ~(registered /\ link = "down")
      <4>1. Post(Event("open", FALSE, "disconnected", btc.ev.host)) /\ link' = link
        BY <2>2, <3>2 DEF Connect
      <4>2. Event("open", FALSE, "disconnected", btc.ev.host) \in Events
        BY <2>2, EventIsEvent DEF EventTypes, ConnStates
      <4>3. Harmless(Event("open", FALSE, "disconnected", btc.ev.host)) BY DEF Harmless, Event
      <4> QED BY <2>3, <4>1, <4>2, <4>3, PostHarmless
    <3> QED BY <3>1, <3>2
  <2> QED BY <2>1, <2>3, SameHandle DEF SoleInv, NullBetween, BootIsQuiet, notBtc
<1>8. CASE OnReport
  <2>1. UNCHANGED <<notBtc, btc, stackVars, timers, task, task_hdl>> BY <1>8 DEF OnReport
  <2>2. boot # "done" => QueueHarmless' BY <1>8, TakeHarmless DEF OnReport, SoleInv, BootIsQuiet
  <2> QED BY <2>1, <2>2, SameHandle DEF SoleInv, NullBetween, BootIsQuiet, notBtc, stackVars
<1>9. CASE StartDelete
  <2>1. btc.pc = "start_delete" /\ btc'.pc = "start_create" /\ boot' = boot
    BY <1>9 DEF StartDelete, Goto, GoIdle, notBtc
  <2>2. HandleIsTask' /\ task_hdl' = NoTask
    BY <1>9, <2>1, DeleteLeavesNone DEF StartDelete, SoleInv
  <2> QED BY <2>1, <2>2 DEF SoleInv, NullBetween, BootIsQuiet
<1>10. CASE ShutDelete
  <2>1. btc.pc = "shut_delete" /\ btc'.pc = "shut_create" /\ boot' = boot
    BY <1>10 DEF ShutDelete, Goto, GoIdle, notBtc
  <2>2. HandleIsTask' /\ task_hdl' = NoTask
    BY <1>10, <2>1, DeleteLeavesNone DEF ShutDelete, SoleInv
  <2> QED BY <2>1, <2>2 DEF SoleInv, NullBetween, BootIsQuiet
<1>11. CASE StartCreate
  <2>1. btc.pc = "start_create" /\ btc'.pc = "idle" /\ boot' = boot
    BY <1>11 DEF StartCreate, Goto, GoIdle, notBtc
  <2>2. HandleIsTask'
    BY <1>11, <2>1, CreateMakesOne DEF StartCreate, SoleInv, NullBetween, Kinds
  <2> QED BY <2>1, <2>2 DEF SoleInv, NullBetween, BootIsQuiet
<1>12. CASE ShutCreate
  <2>1. btc.pc = "shut_create" /\ btc'.pc = "shut_scan" /\ boot' = boot
    BY <1>12 DEF ShutCreate, Goto, GoIdle, notBtc
  <2>2. HandleIsTask'
    BY <1>12, <2>1, CreateMakesOne DEF ShutCreate, SoleInv, NullBetween, Kinds
  <2> QED BY <2>1, <2>2 DEF SoleInv, NullBetween, BootIsQuiet
<1>13. CASE Remember \/ ResetOperationals \/ ShutScan \/ ShutTimer
  <2>1. /\ btc.pc \in {"remember", "start_up", "shut_scan", "shut_timer"}
        /\ btc'.pc \in {"idle", "start_up", "start_delete", "shut_timer"}
        /\ UNCHANGED <<boot, task, task_hdl>>
    <3>1. CASE Remember BY <3>1 DEF Remember, Goto, notBtc
    <3>2. CASE ResetOperationals BY <3>2 DEF ResetOperationals, Goto, notBtc
    <3>3. CASE ShutScan
      <4>1. Goto("shut_timer", btc.ev) \/ GoIdle BY <3>3 DEF ShutScan
      <4>2. btc.pc = "shut_scan" /\ UNCHANGED <<boot, task, task_hdl>>
        BY <3>3 DEF ShutScan, notBtc
      <4> QED BY <4>1, <4>2 DEF Goto, GoIdle
    <3>4. CASE ShutTimer BY <3>4 DEF ShutTimer, Goto, GoIdle, notBtc
    <3> QED BY <1>13, <3>1, <3>2, <3>3, <3>4
  <2> QED BY <2>1, SameHandle DEF SoleInv, NullBetween, BootIsQuiet
<1> QED BY <1>1, <1>2, <1>3, <1>4, <1>5, <1>6, <1>7, <1>8, <1>9, <1>10, <1>11, <1>12, <1>13 DEF Btc

\* Before anything has run there is no task, no timer and no event.
LEMMA InitSole == Init => SoleInv
<1> SUFFICES ASSUME Init PROVE SoleInv OBVIOUS
<1>1. HandleIsTask BY SessionAssumption DEF Init, HandleIsTask
<1>2. QueueHarmless BY DEF Init, QueueHarmless
<1> QED BY <1>1, <1>2 DEF Init, SoleInv, NullBetween, BootIsQuiet

\* Every step keeps the handle on the only main task.
LEMMA StepSole ==
    ASSUME ConnectDuringBoot = FALSE
    PROVE  TypeInv /\ SoleInv /\ [Next]_vars => SoleInv'
<1> SUFFICES ASSUME TypeInv, SoleInv, [Next]_vars PROVE SoleInv' OBVIOUS
<1>1. CASE Halted \/ UNCHANGED vars
  <2>1. UNCHANGED vars BY <1>1 DEF Halted
  <2> QED BY <2>1, SameHandle
      DEF vars, SoleInv, NullBetween, BootIsQuiet, QueueHarmless, Harmless
<1> QED BY <1>1, BootSole, StackSole, BtcSole, TimerSole, MainTaskSole DEF Next

\* If no link forms before app_main has created the first main task, then
\* however many hosts, events, timers and task slots there are, every main task
\* that exists is the one s_bt_hid_param.task_hdl names: bt_hid_task_start_up and
\* bt_hid_task_shut_down neither orphan a loop nor delete a task twice.
THEOREM HandleNamesMainTask ==
    ASSUME ConnectDuringBoot = FALSE
    PROVE  Spec => []OneMainTask
<1>1. TypeInv /\ SoleInv => OneMainTask
  BY SessionAssumption DEF TypeInv, TypeOK, SoleInv, HandleIsTask, OneMainTask, Live
<1>2. Init => TypeInv /\ SoleInv BY InitTyped, InitSole
<1>3. TypeInv /\ SoleInv /\ [Next]_vars => (TypeInv /\ SoleInv)'
  BY StepTyped, StepSole
<1> QED BY <1>1, <1>2, <1>3, PTL DEF Spec

----------------------------------------------------------------------------
(***************************************************************************)
(* MoteSession implements LoopSwitch, as far as safety goes and when no    *)
(* link forms before app_main is done.                                     *)
(*                                                                         *)
(* The hard step is StartDelete: LoopSwitch lets the HID loop take over    *)
(* from the other loop only, so no second "connected" event may reach      *)
(* bt_hid_task_start_up before bt_hid_task_shut_down has run. The events   *)
(* that start and end a session alternate (Alternates), because a link can *)
(* only open again after its end has been put into the same queue.         *)
(***************************************************************************)

\* Events on which bt_hid_task_start_up and bt_hid_task_shut_down are called.
Opens(e) == e.type = "open" /\ e.ok /\ e.conn = "connected"
Ends(e) == e.type \in {"close", "vc_unplug"} /\ e.ok /\ e.conn = "disconnected"

HidRuns == \E t \in TaskIds : task[t] # Absent /\ task[t].kind = "hid"

\* The loop that runs once the present event has been handled is the HID loop.
HidNext ==
    \/ btc.pc \in {"remember", "start_up", "start_delete", "start_create"}
    \/ btc.pc \notin {"shut_delete", "shut_create"} /\ HidRuns

\* Between two openings there is an end, so is there one between the opening that
\* is being handled and the next; and a link that is not up has ended.
EndsBetween ==
    \A i, j \in 1..Len(events) :
        (i < j /\ Opens(events[i]) /\ Opens(events[j]))
        => \E k \in 1..Len(events) : i < k /\ k < j /\ Ends(events[k])
EndsFirst ==
    HidNext => \A j \in 1..Len(events) : Opens(events[j])
                    => \E k \in 1..Len(events) : k < j /\ Ends(events[k])
EndsLast ==
    link \in {"down", "opening"} =>
        /\ \A i \in 1..Len(events) : Opens(events[i])
                => \E k \in 1..Len(events) : i < k /\ Ends(events[k])
        /\ HidNext => \E k \in 1..Len(events) : Ends(events[k])

\* A link that is up was opened last: nothing to come ends that session.
OpensLast ==
    link \in {"up", "closing"} =>
        \/ \E i \in 1..Len(events) :
              Opens(events[i]) /\ \A k \in 1..Len(events) : i < k => ~Ends(events[k])
        \/ HidNext /\ \A k \in 1..Len(events) : ~Ends(events[k])

Alternates == EndsBetween /\ EndsFirst /\ EndsLast /\ OpensLast

\* bt_hid_task_start_up finds the other loop, and after boot there is a loop
\* except between a delete and the create after it.
FindsOther == btc.pc \in {"remember", "start_up", "start_delete"} => ~HidRuns
LoopThere ==
    (boot = "done" /\ btc.pc \notin {"start_create", "shut_create"}) => task_hdl # NoTask

TurnInv == Alternates /\ FindsOther /\ LoopThere

----------------------------------------------------------------------------
(***************************************************************************)
(* The queue                                                               *)
(***************************************************************************)
\* Posting an event that opens nothing.
LEMMA PostAlternates ==
    ASSUME TypeInv, Alternates, NEW e \in Events, Post(e), ~Opens(e), HidNext' <=> HidNext,
           link' \in {"down", "opening"} => Ends(e) \/ link \in {"down", "opening"},
           link' \in {"up", "closing"} => ~Ends(e) /\ link \in {"up", "closing"}
    PROVE  Alternates'
<1>1. /\ events \in Seq(Events) /\ events' = Append(events, e)
      /\ Len(events') = Len(events) + 1 /\ Len(events) \in Nat
      /\ \A i \in 1..Len(events) : events'[i] = events[i]
      /\ events'[Len(events) + 1] = e
  BY DEF TypeInv, TypeOK, Post
<1>2. \A i \in 1..Len(events') : Opens(events'[i]) => i \in 1..Len(events)
  BY <1>1
<1>3. EndsBetween'
  <2> SUFFICES ASSUME NEW i \in 1..Len(events'), NEW j \in 1..Len(events'), i < j,
                      Opens(events'[i]), Opens(events'[j])
               PROVE  \E k \in 1..Len(events') : i < k /\ k < j /\ Ends(events'[k])
    BY DEF EndsBetween, Opens, Ends
  <2>1. PICK k \in 1..Len(events) : i < k /\ k < j /\ Ends(events[k])
    BY <1>1, <1>2 DEF Alternates, EndsBetween
  <2> QED BY <1>1, <2>1
<1>4. EndsFirst'
  <2> SUFFICES ASSUME HidNext', NEW j \in 1..Len(events'), Opens(events'[j])
               PROVE  \E k \in 1..Len(events') : k < j /\ Ends(events'[k])
    BY DEF EndsFirst, Opens, Ends
  <2>1. PICK k \in 1..Len(events) : k < j /\ Ends(events[k])
    BY <1>1, <1>2 DEF Alternates, EndsFirst
  <2> QED BY <1>1, <2>1
<1>5. EndsLast'
  <2> SUFFICES ASSUME link' \in {"down", "opening"}
               PROVE  /\ \A i \in 1..Len(events') : Opens(events'[i])
                            => \E k \in 1..Len(events') : i < k /\ Ends(events'[k])
                      /\ HidNext' => \E k \in 1..Len(events') : Ends(events'[k])
    BY DEF EndsLast, Opens, Ends
  <2>1. CASE Ends(e)
    <3>1. Len(events) + 1 \in 1..Len(events') /\ Ends(events'[Len(events) + 1])
      BY <1>1, <2>1
    <3> QED BY <1>1, <1>2, <3>1
  <2>2. CASE link \in {"down", "opening"}
    <3>1. ASSUME NEW i \in 1..Len(events'), Opens(events'[i])
          PROVE  \E k \in 1..Len(events') : i < k /\ Ends(events'[k])
      <4>1. PICK k \in 1..Len(events) : i < k /\ Ends(events[k])
        BY <1>1, <1>2, <2>2, <3>1 DEF Alternates, EndsLast
      <4> QED BY <1>1, <4>1
    <3>2. ASSUME HidNext' PROVE \E k \in 1..Len(events') : Ends(events'[k])
      <4>1. PICK k \in 1..Len(events) : Ends(events[k])
        BY <2>2, <3>2 DEF Alternates, EndsLast
      <4> QED BY <1>1, <4>1
    <3> QED BY <3>1, <3>2
  <2> QED BY <2>1, <2>2
<1>6. OpensLast'
  <2> SUFFICES ASSUME link' \in {"up", "closing"}
               PROVE  \/ \E i \in 1..Len(events') : /\ Opens(events'[i])
                                                   /\ \A k \in 1..Len(events') : i < k => ~Ends(events'[k])
                      \/ HidNext' /\ \A k \in 1..Len(events') : ~Ends(events'[k])
    BY DEF OpensLast, Opens, Ends
  <2>1. \A k \in 1..Len(events') : Ends(events'[k]) => k \in 1..Len(events) /\ Ends(events[k])
    BY <1>1
  <2>2. CASE \E i \in 1..Len(events) :
                Opens(events[i]) /\ \A k \in 1..Len(events) : i < k => ~Ends(events[k])
    <3>1. PICK i \in 1..Len(events) :
                Opens(events[i]) /\ \A k \in 1..Len(events) : i < k => ~Ends(events[k])
      BY <2>2
    <3>2. i \in 1..Len(events') /\ Opens(events'[i]) BY <1>1, <3>1
    <3> QED BY <2>1, <3>1, <3>2
  <2>3. CASE HidNext /\ \A k \in 1..Len(events) : ~Ends(events[k])
    BY <2>1, <2>3
  <2> QED BY <2>2, <2>3 DEF Alternates, OpensLast
<1> QED BY <1>3, <1>4, <1>5, <1>6 DEF Alternates

\* Posting the opening of a link that was down or on its way.
LEMMA OpeningAlternates ==
    ASSUME TypeInv, Alternates, NEW e \in Events, Post(e), Opens(e), HidNext' <=> HidNext,
           link \in {"down", "opening"}, link' = "up"
    PROVE  Alternates'
<1>1. /\ events \in Seq(Events) /\ events' = Append(events, e)
      /\ Len(events') = Len(events) + 1 /\ Len(events) \in Nat
      /\ \A i \in 1..Len(events) : events'[i] = events[i]
  BY DEF TypeInv, TypeOK, Post
<1>2. EndsBetween'
  <2> SUFFICES ASSUME NEW i \in 1..Len(events'), NEW j \in 1..Len(events'), i < j,
                      Opens(events'[i]), Opens(events'[j])
               PROVE  \E k \in 1..Len(events') : i < k /\ k < j /\ Ends(events'[k])
    BY DEF EndsBetween, Opens, Ends
  <2>1. i \in 1..Len(events) /\ Opens(events[i]) BY <1>1
  <2>2. CASE j \in 1..Len(events)
    <3>1. PICK k \in 1..Len(events) : i < k /\ k < j /\ Ends(events[k])
      BY <1>1, <2>1, <2>2 DEF Alternates, EndsBetween
    <3> QED BY <1>1, <3>1
  <2>3. CASE j = Len(events) + 1
    <3>1. PICK k \in 1..Len(events) : i < k /\ Ends(events[k])
      BY <2>1 DEF Alternates, EndsLast
    <3> QED BY <1>1, <2>3, <3>1
  <2> QED BY <1>1, <2>2, <2>3
<1>3. EndsFirst'
  <2> SUFFICES ASSUME HidNext', NEW j \in 1..Len(events'), Opens(events'[j])
               PROVE  \E k \in 1..Len(events') : k < j /\ Ends(events'[k])
    BY DEF EndsFirst, Opens, Ends
  <2>1. CASE j \in 1..Len(events)
    <3>1. PICK k \in 1..Len(events) : k < j /\ Ends(events[k])
      BY <1>1, <2>1 DEF Alternates, EndsFirst
    <3> QED BY <1>1, <3>1
  <2>2. CASE j = Len(events) + 1
    <3>1. PICK k \in 1..Len(events) : Ends(events[k]) BY DEF Alternates, EndsLast
    <3> QED BY <1>1, <2>2, <3>1
  <2> QED BY <1>1, <2>1, <2>2
<1>4. EndsLast' BY DEF EndsLast
<1>5. OpensLast'
  <2>1. /\ Len(events) + 1 \in 1..Len(events') /\ events'[Len(events) + 1] = e
        /\ ~\E k \in 1..Len(events') : Len(events) + 1 < k
    BY <1>1
  <2> QED BY <2>1 DEF OpensLast, Opens, Ends
<1> QED BY <1>2, <1>3, <1>4, <1>5 DEF Alternates

\* Taking an event, with the loop that it leads to.
LEMMA TakeAlternates ==
    ASSUME TypeInv, Alternates, events # <<>>, events' = Tail(events), link' = link,
           HidNext' <=> Opens(Head(events)) \/ (HidNext /\ ~Ends(Head(events)))
    PROVE  Alternates'
<1>1. /\ Head(events) = events[1] /\ Len(events) \in Nat /\ Len(events) > 0
      /\ Len(events') = Len(events) - 1
      /\ \A i \in 1..Len(events') : events'[i] = events[i + 1]
  BY DEF TypeInv, TypeOK
<1>2. EndsBetween'
  <2> SUFFICES ASSUME NEW i \in 1..Len(events'), NEW j \in 1..Len(events'), i < j,
                      Opens(events'[i]), Opens(events'[j])
               PROVE  \E k \in 1..Len(events') : i < k /\ k < j /\ Ends(events'[k])
    BY DEF EndsBetween, Opens, Ends
  <2>1. PICK k \in 1..Len(events) : i + 1 < k /\ k < j + 1 /\ Ends(events[k])
    BY <1>1 DEF Alternates, EndsBetween
  <2>2. k - 1 \in 1..Len(events') /\ i < k - 1 /\ k - 1 < j BY <1>1, <2>1
  <2>3. events'[k - 1] = events[k] BY <1>1, <2>2
  <2> QED BY <2>1, <2>2, <2>3
<1>3. EndsFirst'
  <2> SUFFICES ASSUME HidNext', NEW j \in 1..Len(events'), Opens(events'[j])
               PROVE  \E k \in 1..Len(events') : k < j /\ Ends(events'[k])
    BY DEF EndsFirst, Opens, Ends
  <2>1. j + 1 \in 1..Len(events) /\ Opens(events[j + 1]) /\ 1 \in 1..Len(events) BY <1>1
  <2>2. \E k \in 1..Len(events) : 1 < k /\ k < j + 1 /\ Ends(events[k])
    <3>1. CASE Opens(Head(events)) BY <1>1, <2>1, <3>1 DEF Alternates, EndsBetween
    <3>2. CASE HidNext /\ ~Ends(Head(events))
      <4>1. PICK k \in 1..Len(events) : k < j + 1 /\ Ends(events[k])
        BY <2>1, <3>2 DEF Alternates, EndsFirst
      <4>2. k # 1 BY <1>1, <3>2, <4>1
      <4> QED BY <4>1, <4>2
    <3> QED BY <3>1, <3>2
  <2>3. PICK k \in 1..Len(events) : 1 < k /\ k < j + 1 /\ Ends(events[k]) BY <2>2
  <2>4. k - 1 \in 1..Len(events') /\ k - 1 < j BY <1>1, <2>3
  <2>5. events'[k - 1] = events[k] BY <1>1, <2>4
  <2> QED BY <2>3, <2>4, <2>5
<1>4. EndsLast'
  <2> SUFFICES ASSUME link \in {"down", "opening"}
               PROVE  /\ \A i \in 1..Len(events') : Opens(events'[i])
                            => \E k \in 1..Len(events') : i < k /\ Ends(events'[k])
                      /\ HidNext' => \E k \in 1..Len(events') : Ends(events'[k])
    BY DEF EndsLast, Opens, Ends
  <2>1. ASSUME NEW i \in 1..Len(events'), Opens(events'[i])
        PROVE  \E k \in 1..Len(events') : i < k /\ Ends(events'[k])
    <3>1. PICK k \in 1..Len(events) : i + 1 < k /\ Ends(events[k])
      BY <1>1, <2>1 DEF Alternates, EndsLast
    <3>2. k - 1 \in 1..Len(events') /\ i < k - 1 BY <1>1, <3>1
    <3>3. events'[k - 1] = events[k] BY <1>1, <3>2
    <3> QED BY <3>1, <3>2, <3>3
  <2>2. ASSUME HidNext' PROVE \E k \in 1..Len(events') : Ends(events'[k])
    <3>1. \E k \in 1..Len(events) : 1 < k /\ Ends(events[k])
      <4>1. CASE Opens(Head(events)) BY <1>1, <4>1 DEF Alternates, EndsLast
      <4>2. CASE HidNext /\ ~Ends(Head(events))
        <5>1. PICK k \in 1..Len(events) : Ends(events[k])
          BY <4>2 DEF Alternates, EndsLast
        <5>2. k # 1 BY <1>1, <4>2, <5>1
        <5> QED BY <5>1, <5>2
      <4> QED BY <2>2, <4>1, <4>2
    <3>2. PICK k \in 1..Len(events) : 1 < k /\ Ends(events[k]) BY <3>1
    <3>3. k - 1 \in 1..Len(events') /\ events'[k - 1] = events[k] BY <1>1, <3>2
    <3> QED BY <3>2, <3>3
  <2> QED BY <2>1, <2>2
<1>5. OpensLast'
  <2> SUFFICES ASSUME link \in {"up", "closing"}
               PROVE  \/ \E i \in 1..Len(events') : /\ Opens(events'[i])
                                                   /\ \A k \in 1..Len(events') : i < k => ~Ends(events'[k])
                      \/ HidNext' /\ \A k \in 1..Len(events') : ~Ends(events'[k])
    BY DEF OpensLast, Opens, Ends
  <2>1. \A k \in 1..Len(events') : k + 1 \in 1..Len(events) /\ events'[k] = events[k + 1]
    BY <1>1
  <2>2. CASE \E i \in 1..Len(events) :
                Opens(events[i]) /\ \A k \in 1..Len(events) : i < k => ~Ends(events[k])
    <3>1. PICK i \in 1..Len(events) :
                Opens(events[i]) /\ \A k \in 1..Len(events) : i < k => ~Ends(events[k])
      BY <2>2
    <3>2. CASE i = 1
      <4>1. \A k \in 1..Len(events') : ~Ends(events'[k]) BY <2>1, <3>1, <3>2
      <4> QED BY <1>1, <3>1, <3>2, <4>1
    <3>3. CASE i # 1
      <4>1. i - 1 \in 1..Len(events') BY <1>1, <3>3
      <4>2. Opens(events'[i - 1]) BY <1>1, <3>1, <4>1
      <4>3. \A k \in 1..Len(events') : i - 1 < k => ~Ends(events'[k]) BY <2>1, <3>1
      <4> QED BY <4>1, <4>2, <4>3
    <3> QED BY <3>2, <3>3
  <2>3. CASE HidNext /\ \A k \in 1..Len(events) : ~Ends(events[k])
    BY <1>1, <2>1, <2>3
  <2> QED BY <2>2, <2>3 DEF Alternates, OpensLast
<1> QED BY <1>2, <1>3, <1>4, <1>5 DEF Alternates

\* A step that leaves the queue alone.
LEMMA SameAlternates ==
    ASSUME Alternates, HidNext' <=> HidNext, events' = events, link' = link
    PROVE  Alternates'
BY DEF Alternates, EndsBetween, EndsFirst, EndsLast, OpensLast, Opens, Ends

\* A connect request is answered by an event that opens nothing.
LEMMA ConnectAlternates ==
    ASSUME TypeInv, Alternates, NEW h \in Hosts, Connect(h), HidNext' <=> HidNext
    PROVE  Alternates'
<1>1. CASE registered /\ link = "down"
  <2> DEFINE e == Event("open", TRUE, "connecting", h)
  <2>1. Post(e) /\ link' = "opening" BY <1>1 DEF Connect
  <2>2. e \in Events BY EventIsEvent DEF EventTypes, ConnStates
  <2>3. ~Opens(e) /\ ~Ends(e) BY DEF Event, Opens, Ends
  <2> HIDE DEF e
  <2> QED BY <1>1, <2>1, <2>2, <2>3, PostAlternates
<1>2. CASE ~(registered /\ link = "down")
  <2> DEFINE e == Event("open", FALSE, "disconnected", h)
  <2>1. Post(e) /\ link' = link BY <1>2 DEF Connect
  <2>2. e \in Events BY EventIsEvent DEF EventTypes, ConnStates
  <2>3. ~Opens(e) /\ ~Ends(e) BY DEF Event, Opens, Ends
  <2> HIDE DEF e
  <2> QED BY <2>1, <2>2, <2>3, PostAlternates
<1> QED BY <1>1, <1>2

\* So is a disconnect request; the link ends later.
LEMMA DisconnectAlternates ==
    ASSUME TypeInv, Alternates, Disconnect, HidNext' <=> HidNext
    PROVE  Alternates'
<1>1. CASE link = "up"
  <2> DEFINE e == Event("close", TRUE, "disconnecting", peer)
  <2>1. Post(e) /\ link' = "closing" BY <1>1 DEF Disconnect
  <2>2. e \in Events BY EventIsEvent DEF EventTypes, ConnStates, TypeInv, TypeOK
  <2>3. ~Opens(e) /\ ~Ends(e) BY DEF Event, Opens, Ends
  <2> HIDE DEF e
  <2> QED BY <1>1, <2>1, <2>2, <2>3, PostAlternates
<1>2. CASE link # "up"
  <2> DEFINE e == Event("close", FALSE, "disconnected", NoHost)
  <2>1. Post(e) /\ link' = link BY <1>2 DEF Disconnect
  <2>2. e \in Events BY EventIsEvent DEF EventTypes, ConnStates
  <2>3. ~Opens(e) /\ ~Ends(e) BY DEF Event, Opens, Ends
  <2> HIDE DEF e
  <2> QED BY <2>1, <2>2, <2>3, PostAlternates
<1> QED BY <1>1, <1>2

----------------------------------------------------------------------------
(***************************************************************************)
(* The main tasks                                                          *)
(***************************************************************************)
\* After a create over a NULL handle every main task is of the kind created.
LEMMA CreateKind ==
    ASSUME TypeInv, HandleIsTask, task_hdl = NoTask, NEW kind \in Kinds, CreateMainTask(kind)
    PROVE  /\ \A t \in TaskIds : task'[t] # Absent => task'[t].kind = kind
           /\ \E t \in TaskIds : task'[t] # Absent
           /\ task_hdl' # NoTask
<1>1. PICK t \in TaskIds : task' = [task EXCEPT ![t] = Start(kind)] /\ task_hdl' = t
  BY DEF CreateMainTask
<1>2. \A u \in TaskIds : task[u] = Absent BY SessionAssumption DEF HandleIsTask
<1>3. Start(kind) # Absent /\ Start(kind).kind = kind BY DEF Start, Absent, Kinds
<1>4. \A u \in TaskIds : task'[u] = IF u = t THEN Start(kind) ELSE Absent
  BY <1>1, <1>2 DEF TypeInv, TypeOK
<1> QED BY <1>1, <1>3, <1>4, SessionAssumption

\* A main task that moves on stays what it is.
LEMMA AdvanceKind ==
    ASSUME TypeInv, NEW t \in TaskIds, task[t] # Absent, NEW pc \in HidSteps \cup OtherSteps,
           Advance(t, pc)
    PROVE  \A u \in TaskIds : /\ task'[u] # Absent <=> task[u] # Absent
                              /\ task[u] # Absent => task'[u].kind = task[u].kind
<1>1. task[t] \in Loops BY DEF TypeInv, TypeOK
<1>2. /\ [task[t] EXCEPT !.pc = pc] # Absent
      /\ [task[t] EXCEPT !.pc = pc].kind = task[t].kind
  BY <1>1 DEF Loops, Absent, HidSteps, OtherSteps
<1>3. \A u \in TaskIds : task'[u] = IF u = t THEN [task[t] EXCEPT !.pc = pc] ELSE task[u]
  BY DEF Advance, TypeInv, TypeOK
<1> QED BY <1>2, <1>3

----------------------------------------------------------------------------
(***************************************************************************)
(* The steps                                                               *)
(***************************************************************************)
\* Steps of the stack.
LEMMA StackTurn == ASSUME TypeInv, TurnInv, Stack PROVE TurnInv'
<1>1. UNCHANGED <<boot, btc, task, task_hdl>>
  BY DEF Stack, HostConnects, LinkOpens, LinkEnds, HostUnplugs, HostReports
<1>2. (HidNext' <=> HidNext) /\ FindsOther' /\ LoopThere'
  BY <1>1 DEF HidNext, HidRuns, TurnInv, FindsOther, LoopThere
<1>3. Alternates BY DEF TurnInv
<1>4. ASSUME NEW h \in Hosts, HostConnects(h) PROVE Alternates'
  <2>1. Event("open", TRUE, "connected", h) \in Events
    BY EventIsEvent DEF EventTypes, ConnStates
  <2>2. Opens(Event("open", TRUE, "connected", h)) BY DEF Event, Opens
  <2> QED BY <1>2, <1>3, <1>4, <2>1, <2>2, OpeningAlternates DEF HostConnects
<1>5. CASE LinkOpens
  <2>1. peer \in Hosts BY <1>5 DEF LinkOpens, TypeInv, Addressed
  <2>2. Event("open", TRUE, "connected", peer) \in Events
    BY <2>1, EventIsEvent DEF EventTypes, ConnStates
  <2>3. Opens(Event("open", TRUE, "connected", peer)) BY DEF Event, Opens
  <2> QED BY <1>2, <1>3, <1>5, <2>2, <2>3, OpeningAlternates DEF LinkOpens, TurnInv
<1>6. CASE LinkEnds \/ HostUnplugs
  <2>1. PICK type \in {"close", "vc_unplug"} : Post(Event(type, TRUE, "disconnected", peer))
    BY <1>6 DEF LinkEnds, HostUnplugs
  <2> DEFINE e == Event(type, TRUE, "disconnected", peer)
  <2>2. e \in Events BY EventIsEvent DEF EventTypes, ConnStates, TypeInv, TypeOK
  <2>3. Ends(e) /\ ~Opens(e) BY DEF Event, Ends, Opens
  <2>4. Post(e) /\ link' = "down" BY <1>6, <2>1 DEF LinkEnds, HostUnplugs
  <2> HIDE DEF e
  <2> QED BY <1>2, <1>3, <2>2, <2>3, <2>4, PostAlternates DEF TurnInv
<1>7. CASE HostReports
  <2> DEFINE e == Event("intr_data", TRUE, "none", peer)
  <2>1. e \in Events BY EventIsEvent DEF EventTypes, ConnStates, TypeInv, TypeOK
  <2>2. ~Opens(e) /\ ~Ends(e) BY DEF Event, Opens, Ends
  <2>3. Post(e) /\ link' = link BY <1>7 DEF HostReports
  <2> HIDE DEF e
  <2> QED BY <1>2, <1>3, <2>1, <2>2, <2>3, PostAlternates DEF TurnInv
<1> QED BY <1>2, <1>4, <1>5, <1>6, <1>7 DEF Stack, TurnInv

\* Steps of the timer task.
LEMMA TimerTurn == ASSUME TypeInv, TurnInv, Timer PROVE TurnInv'
<1>1. UNCHANGED <<boot, btc, task, task_hdl>> BY DEF Timer, TimerFires, TimerConnect
<1>2. (HidNext' <=> HidNext) /\ FindsOther' /\ LoopThere'
  BY <1>1 DEF HidNext, HidRuns, TurnInv, FindsOther, LoopThere
<1>3. Alternates /\ previous \in Hosts BY DEF TurnInv, TypeInv, TypeOK
<1>4. CASE Connect(previous) BY <1>2, <1>3, <1>4, ConnectAlternates DEF TurnInv
<1>5. CASE UNCHANGED <<link, events>> BY <1>2, <1>3, <1>5, SameAlternates DEF TurnInv
<1>6. Connect(previous) \/ UNCHANGED <<link, events>>
  BY DEF Timer, TimerFires, TimerConnect, stackVars
<1> QED BY <1>2, <1>4, <1>5, <1>6 DEF TurnInv

\* Steps of a main task.
LEMMA MainTaskTurn ==
    ASSUME TypeInv, TurnInv, NEW t \in TaskIds, MainTask(t) PROVE TurnInv'
<1>1. task[t] # Absent
  BY DEF MainTask, BootButton, CheckSync, OpenWindow, CloseWindow, ButtonA, At
<1>2. UNCHANGED <<boot, btc, task_hdl>>
  BY DEF MainTask, BootButton, CheckSync, OpenWindow, CloseWindow, ButtonA, notTask
<1>3. \E pc \in HidSteps \cup OtherSteps : Advance(t, pc)
  BY DEF MainTask, BootButton, CheckSync, OpenWindow, CloseWindow, ButtonA,
         AfterSync, HidSteps, OtherSteps
<1>4. \A u \in TaskIds : /\ task'[u] # Absent <=> task[u] # Absent
                         /\ task[u] # Absent => task'[u].kind = task[u].kind
  BY <1>1, <1>3, AdvanceKind
<1>5. HidRuns' <=> HidRuns BY <1>4 DEF HidRuns
<1>6. (HidNext' <=> HidNext) /\ FindsOther' /\ LoopThere'
  BY <1>2, <1>5 DEF HidNext, TurnInv, FindsOther, LoopThere
<1>7. Alternates /\ previous \in Hosts BY DEF TurnInv, TypeInv, TypeOK
<1>8. Connect(previous) \/ Disconnect \/ UNCHANGED <<link, events>>
  BY DEF MainTask, BootButton, CheckSync, OpenWindow, CloseWindow, ButtonA, stackVars
<1>9. CASE Connect(previous) BY <1>6, <1>7, <1>9, ConnectAlternates DEF TurnInv
<1>10. CASE Disconnect BY <1>6, <1>7, <1>10, DisconnectAlternates DEF TurnInv
<1>11. CASE UNCHANGED <<link, events>> BY <1>6, <1>7, <1>11, SameAlternates DEF TurnInv
<1> QED BY <1>6, <1>8, <1>9, <1>10, <1>11 DEF TurnInv

\* Steps of app_main: until its end there are neither tasks nor such events.
LEMMA BootTurn ==
    ASSUME TypeInv, SoleInv, TurnInv, InitPeripherals \/ FirstMainTask PROVE TurnInv'
<1>1. Alternates BY DEF TurnInv
<1>2. CASE InitPeripherals
  <2>1. UNCHANGED <<btc, task, task_hdl, link>> /\ boot' # "done"
    BY <1>2 DEF InitPeripherals, bootOnly
  <2>2. (HidNext' <=> HidNext) /\ FindsOther' /\ LoopThere'
    BY <2>1 DEF HidNext, HidRuns, TurnInv, FindsOther, LoopThere
  <2>3. CASE UNCHANGED events BY <1>1, <2>1, <2>2, <2>3, SameAlternates DEF TurnInv
  <2>4. ASSUME NEW ok \in BOOLEAN, Post(Event("init", ok, "none", NoHost)) PROVE TurnInv'
    <3>1. Event("init", ok, "none", NoHost) \in Events
      BY EventIsEvent DEF EventTypes, ConnStates
    <3>2. ~Opens(Event("init", ok, "none", NoHost)) /\ ~Ends(Event("init", ok, "none", NoHost))
      BY DEF Event, Opens, Ends
    <3> QED BY <1>1, <2>1, <2>2, <2>4, <3>1, <3>2, PostAlternates DEF TurnInv
  <2> QED BY <1>2, <2>3, <2>4 DEF InitPeripherals
<1>3. CASE FirstMainTask
  <2>1. /\ boot = "starting" /\ UNCHANGED <<btc, link, events>> /\ CreateMainTask("other")
    BY <1>3 DEF FirstMainTask, bootOnly
  <2>2. /\ task_hdl = NoTask /\ HandleIsTask
        /\ btc.pc \in {"idle", "register_app", "register_connect"}
    BY <2>1 DEF SoleInv, BootIsQuiet
  <2>3. ~HidRuns' /\ task_hdl' # NoTask BY <2>1, <2>2, CreateKind DEF Kinds, HidRuns
  <2>4. ~HidRuns BY <2>2, SessionAssumption DEF HandleIsTask, HidRuns
  <2>5. ~HidNext /\ ~HidNext' /\ FindsOther' /\ LoopThere'
    BY <2>1, <2>2, <2>3, <2>4 DEF HidNext, FindsOther, LoopThere
  <2> QED BY <1>1, <2>1, <2>5, SameAlternates DEF TurnInv
<1> QED BY <1>2, <1>3

\* Every event that esp_bt_hidd_cb takes.
LEMMA TakeTurn ==
    ASSUME TypeInv, TurnInv,
           OnInit \/ OnRegister \/ OnOpen \/ OnClose \/ OnUnplug \/ OnReport
    PROVE  TurnInv'
<1> DEFINE e == Head(events)
<1>1. /\ UNCHANGED <<boot, link, task, task_hdl>> /\ btc.pc = "idle"
      /\ events # <<>> /\ events' = Tail(events)
  BY DEF OnInit, OnRegister, OnOpen, OnClose, OnUnplug, OnReport, Take, notBtc, stackVars
<1>2. \/ btc'.pc = "remember" /\ Opens(e) /\ ~Ends(e)
      \/ btc'.pc = "shut_delete" /\ ~Opens(e) /\ Ends(e)
      \/ btc'.pc \in {"idle", "register_app", "register_connect"} /\ ~Opens(e) /\ ~Ends(e)
  <2>1. CASE OnInit \/ OnRegister \/ OnReport
    <3>1. e.type \in {"init", "register", "intr_data"} /\ ~Opens(e) /\ ~Ends(e)
      BY <2>1 DEF OnInit, OnRegister, OnReport, Take, Opens, Ends
    <3>2. (\E v \in {e, NoEvent} : Goto("register_app", v) \/ Goto("register_connect", v) \/ Goto("idle", v))
          \/ btc' = btc
      BY <2>1 DEF OnInit, OnRegister, OnReport, GoIdle
    <3>3. btc'.pc \in {"idle", "register_app", "register_connect"}
      BY <1>1, <3>2 DEF Goto
    <3> QED BY <3>1, <3>3
  <2>2. CASE OnOpen
    <3>1. e.type = "open" /\ ~Ends(e) BY <2>2 DEF OnOpen, Take, Ends
    <3>2. (Goto("remember", e) /\ Opens(e)) \/ (GoIdle /\ ~Opens(e))
      BY <2>2, <3>1 DEF OnOpen, Opens
    <3> QED BY <3>1, <3>2 DEF Goto, GoIdle
  <2>3. CASE OnClose \/ OnUnplug
    <3>1. e.type \in {"close", "vc_unplug"} /\ ~Opens(e)
      BY <2>3 DEF OnClose, OnUnplug, Take, Opens
    <3>2. (Goto("shut_delete", e) /\ Ends(e)) \/ (GoIdle /\ ~Ends(e))
      BY <2>3, <3>1 DEF OnClose, OnUnplug, Take, Ends
    <3> QED BY <3>1, <3>2 DEF Goto, GoIdle
  <2> QED BY <2>1, <2>2, <2>3
<1>3. HidRuns' <=> HidRuns BY <1>1 DEF HidRuns
<1>4. HidNext' <=> Opens(e) \/ (HidNext /\ ~Ends(e)) BY <1>1, <1>2, <1>3 DEF HidNext
<1>5. Alternates' BY <1>1, <1>4, TakeAlternates DEF TurnInv
<1>6. FindsOther'
  <2>1. CASE btc'.pc = "remember" /\ Opens(e)
    <3>1. e = events[1] /\ 1 \in 1..Len(events) /\ ~\E k \in 1..Len(events) : k < 1
      BY <1>1 DEF TypeInv, TypeOK
    <3>2. ~HidNext BY <2>1, <3>1 DEF TurnInv, Alternates, EndsFirst
    <3> QED BY <1>1, <1>3, <3>2 DEF FindsOther, HidNext
  <2> QED BY <1>2, <2>1 DEF FindsOther
<1>7. LoopThere' BY <1>1 DEF TurnInv, LoopThere
<1> QED BY <1>5, <1>6, <1>7 DEF TurnInv

\* The rest of esp_bt_hidd_cb.
LEMMA HandleTurn ==
    ASSUME TypeInv, SoleInv, TurnInv,
           \/ RegisterApp \/ RegisterConnect
           \/ Remember \/ ResetOperationals \/ StartDelete \/ StartCreate
           \/ ShutDelete \/ ShutCreate \/ ShutScan \/ ShutTimer
    PROVE  TurnInv'
<1>a. Alternates /\ HandleIsTask BY DEF TurnInv, SoleInv
<1>1. CASE RegisterApp
  <2>1. /\ btc.pc = "register_app" /\ btc'.pc = "idle"
        /\ UNCHANGED <<boot, link, task, task_hdl>>
    BY <1>1 DEF RegisterApp, GoIdle, Goto, notBtc
  <2>2. (HidNext' <=> HidNext) /\ FindsOther' /\ LoopThere'
    BY <2>1 DEF HidNext, HidRuns, TurnInv, FindsOther, LoopThere
  <2>3. PICK ok \in BOOLEAN, h \in Hosts \cup {NoHost} : Post(Event("register", ok, "none", h))
    BY <1>1 DEF RegisterApp, TypeInv, TypeOK
  <2>4. Event("register", ok, "none", h) \in Events
    BY EventIsEvent DEF EventTypes, ConnStates
  <2>5. ~Opens(Event("register", ok, "none", h)) /\ ~Ends(Event("register", ok, "none", h))
    BY DEF Event, Opens, Ends
  <2> QED BY <1>a, <2>1, <2>2, <2>3, <2>4, <2>5, PostAlternates DEF TurnInv
<1>2. CASE RegisterConnect
  <2>1. /\ btc.pc = "register_connect" /\ btc'.pc = "idle"
        /\ UNCHANGED <<boot, task, task_hdl>> /\ Connect(btc.ev.host)
    BY <1>2 DEF RegisterConnect, GoIdle, Goto, notBtc
  <2>2. (HidNext' <=> HidNext) /\ FindsOther' /\ LoopThere'
    BY <2>1 DEF HidNext, HidRuns, TurnInv, FindsOther, LoopThere
  <2>3. btc.ev.host \in Hosts BY <2>1 DEF TypeInv, Addressed
  <2> QED BY <1>a, <2>1, <2>2, <2>3, ConnectAlternates DEF TurnInv
<1>3. CASE Remember \/ ResetOperationals
  <2>1. /\ btc.pc \in {"remember", "start_up"} /\ btc'.pc \in {"start_up", "start_delete"}
        /\ UNCHANGED <<boot, link, events, task, task_hdl>>
    BY <1>3 DEF Remember, ResetOperationals, Goto, notBtc, stackVars
  <2>2. (HidNext' <=> HidNext) /\ FindsOther' /\ LoopThere'
    BY <2>1 DEF HidNext, HidRuns, TurnInv, FindsOther, LoopThere
  <2> QED BY <1>a, <2>1, <2>2, SameAlternates DEF TurnInv
<1>4. CASE StartDelete \/ ShutDelete
  <2>1. /\ \/ btc.pc = "start_delete" /\ btc'.pc = "start_create"
           \/ btc.pc = "shut_delete" /\ btc'.pc = "shut_create"
        /\ UNCHANGED <<boot, link, events>>
    BY <1>4 DEF StartDelete, ShutDelete, Goto, notBtc, stackVars
  <2>2. (HidNext' <=> HidNext) /\ FindsOther' /\ LoopThere'
    BY <2>1 DEF HidNext, FindsOther, LoopThere
  <2> QED BY <1>a, <2>1, <2>2, SameAlternates DEF TurnInv
<1>5. CASE StartCreate
  <2>1. /\ btc.pc = "start_create" /\ btc'.pc = "idle" /\ CreateMainTask("hid")
        /\ UNCHANGED <<boot, link, events>>
    BY <1>5 DEF StartCreate, GoIdle, Goto, notBtc, stackVars
  <2>2. task_hdl' # NoTask BY <1>a, <2>1, CreateKind DEF SoleInv, NullBetween, Kinds
  <2>3. HidRuns'
    <3>1. PICK t \in TaskIds : task'[t] # Absent /\ task'[t].kind = "hid"
      BY <1>a, <2>1, CreateKind DEF SoleInv, NullBetween, Kinds
    <3> QED BY <3>1 DEF HidRuns
  <2>4. HidNext /\ HidNext' /\ FindsOther' /\ LoopThere'
    BY <2>1, <2>2, <2>3 DEF HidNext, FindsOther, LoopThere
  <2> QED BY <1>a, <2>1, <2>4, SameAlternates DEF TurnInv
<1>6. CASE ShutCreate
  <2>1. /\ btc.pc = "shut_create" /\ btc'.pc = "shut_scan" /\ CreateMainTask("other")
        /\ UNCHANGED <<boot, link, events>>
    BY <1>6 DEF ShutCreate, Goto, notBtc, stackVars
  <2>2. task_hdl' # NoTask /\ ~HidRuns'
    BY <1>a, <2>1, CreateKind DEF SoleInv, NullBetween, Kinds, HidRuns
  <2>3. ~HidNext /\ ~HidNext' /\ FindsOther' /\ LoopThere'
    BY <2>1, <2>2 DEF HidNext, FindsOther, LoopThere
  <2> QED BY <1>a, <2>1, <2>3, SameAlternates DEF TurnInv
<1>7. CASE ShutScan \/ ShutTimer
  <2>1. /\ btc.pc \in {"shut_scan", "shut_timer"} /\ btc'.pc \in {"idle", "shut_timer"}
        /\ UNCHANGED <<boot, link, events, task, task_hdl>>
    <3>1. CASE ShutScan
      <4>1. Goto("shut_timer", btc.ev) \/ GoIdle BY <3>1 DEF ShutScan
      <4>2. btc.pc = "shut_scan" /\ UNCHANGED <<boot, link, events, task, task_hdl>>
        BY <3>1 DEF ShutScan, notBtc, stackVars
      <4> QED BY <4>1, <4>2 DEF Goto, GoIdle
    <3>2. CASE ShutTimer BY <3>2 DEF ShutTimer, Goto, GoIdle, notBtc, stackVars
    <3> QED BY <1>7, <3>1, <3>2
  <2>2. (HidNext' <=> HidNext) /\ FindsOther' /\ LoopThere'
    BY <2>1 DEF HidNext, HidRuns, TurnInv, FindsOther, LoopThere
  <2> QED BY <1>a, <2>1, <2>2, SameAlternates DEF TurnInv
<1> QED BY <1>1, <1>2, <1>3, <1>4, <1>5, <1>6, <1>7

\* Nothing is queued and nothing runs at the start.
LEMMA InitTurn == Init => TurnInv
<1> SUFFICES ASSUME Init PROVE TurnInv OBVIOUS
<1>1. \A t \in TaskIds : task[t] = Absent BY DEF Init
<1>2. ~HidRuns /\ ~HidNext BY <1>1 DEF Init, HidRuns, HidNext
<1>3. 1..Len(events) = {} BY DEF Init
<1> QED BY <1>2, <1>3 DEF Init, TurnInv, Alternates, EndsBetween, EndsFirst, EndsLast,
                          OpensLast, FindsOther, LoopThere

\* Every step keeps the two kinds of events in turns.
LEMMA StepTurn == TypeInv /\ SoleInv /\ TurnInv /\ [Next]_vars => TurnInv'
<1> SUFFICES ASSUME TypeInv, SoleInv, TurnInv, [Next]_vars PROVE TurnInv' OBVIOUS
<1>1. CASE Halted \/ UNCHANGED vars
  <2>1. UNCHANGED vars BY <1>1 DEF Halted
  <2>2. HidNext' = HidNext /\ FindsOther' /\ LoopThere'
    BY <2>1 DEF vars, HidNext, HidRuns, TurnInv, FindsOther, LoopThere
  <2> QED BY <2>1, <2>2, SameAlternates DEF vars, TurnInv
<1> QED BY <1>1, BootTurn, StackTurn, TimerTurn, MainTaskTurn, TakeTurn, HandleTurn
   DEF Next, Btc

----------------------------------------------------------------------------
(***************************************************************************)
(* The refinement                                                          *)
(***************************************************************************)
\* The loop that is there has one kind.
LEMMA LoopHasKind ==
    ASSUME TypeInv, HandleIsTask, task_hdl # NoTask
    PROVE  /\ \E t \in TaskIds : task[t] # Absent
           /\ \E kind \in Kinds : \A t \in TaskIds : task[t] # Absent => task[t].kind = kind
<1>1. task_hdl \in TaskIds /\ task[task_hdl] # Absent BY DEF HandleIsTask, TypeInv, TypeOK
<1>2. task[task_hdl] \in Loops BY <1>1 DEF TypeInv, TypeOK
<1>3. task[task_hdl].kind \in Kinds BY <1>2 DEF Loops, Kinds
<1> QED BY <1>1, <1>3 DEF HandleIsTask

\* A step of MoteSession is a step of LoopSwitch or leaves the phase alone.
LEMMA StepMaps ==
    ASSUME TypeInv, SoleInv, TurnInv, SoleInv', [Next]_vars
    PROVE  [Abstract!Next]_Phase
<1>n. SUFFICES \/ Phase' = Phase
               \/ Phase = "boot" /\ Phase' = "other"
               \/ Phase = "other" /\ Phase' = "to_hid"
               \/ Phase = "to_hid" /\ Phase' = "hid"
               \/ Phase \in {"hid", "other"} /\ Phase' = "to_other"
               \/ Phase = "to_other" /\ Phase' = "other"
  BY DEF Abstract!Next, Abstract!Begin, Abstract!Opening, Abstract!Opened,
         Abstract!Closing, Abstract!Closed
<1>1. CASE FirstMainTask
  <2>1. boot = "starting" /\ boot' = "done" /\ CreateMainTask("other")
    BY <1>1 DEF FirstMainTask
  <2>2. task_hdl = NoTask /\ HandleIsTask BY <2>1 DEF SoleInv, BootIsQuiet
  <2>3. /\ \A t \in TaskIds : task'[t] # Absent => task'[t].kind = "other"
        /\ \E t \in TaskIds : task'[t] # Absent
    BY <2>1, <2>2, CreateKind DEF Kinds
  <2>4. Phase = "boot" /\ Phase' = "other" BY <2>1, <2>3 DEF Phase, Live
  <2> QED BY <2>4
<1>2. CASE StartDelete
  <2>1. /\ btc.pc = "start_delete" /\ btc'.pc = "start_create" /\ boot' = boot
        /\ DeleteMainTask
    BY <1>2 DEF StartDelete, Goto, notBtc
  <2>2. boot = "done" BY <2>1 DEF SoleInv, BootIsQuiet
  <2>3. task_hdl # NoTask /\ ~HidRuns BY <2>1, <2>2 DEF TurnInv, LoopThere, FindsOther
  <2>4. Phase = "other"
    <3>1. PICK kind \in Kinds : \A t \in TaskIds : task[t] # Absent => task[t].kind = kind
      BY <2>3, LoopHasKind DEF SoleInv
    <3>2. \E t \in TaskIds : task[t] # Absent BY <2>3, LoopHasKind DEF SoleInv
    <3>3. kind = "other" BY <2>3, <3>1, <3>2 DEF HidRuns, Kinds
    <3> QED BY <2>2, <3>1, <3>2, <3>3 DEF Phase, Live
  <2>5. HandleIsTask' /\ task_hdl' = NoTask BY <2>1, DeleteLeavesNone DEF SoleInv
  <2>6. \A t \in TaskIds : task'[t] = Absent BY <2>5, SessionAssumption DEF HandleIsTask
  <2>7. Phase' = "to_hid" BY <2>1, <2>2, <2>6 DEF Phase, Live
  <2> QED BY <2>4, <2>7
<1>3. CASE ShutDelete
  <2>1. /\ btc.pc = "shut_delete" /\ btc'.pc = "shut_create" /\ boot' = boot
        /\ DeleteMainTask
    BY <1>3 DEF ShutDelete, Goto, notBtc
  <2>2. boot = "done" BY <2>1 DEF SoleInv, BootIsQuiet
  <2>3. task_hdl # NoTask BY <2>1, <2>2 DEF TurnInv, LoopThere
  <2>4. Phase \in {"hid", "other"}
    <3>1. PICK kind \in Kinds : \A t \in TaskIds : task[t] # Absent => task[t].kind = kind
      BY <2>3, LoopHasKind DEF SoleInv
    <3>2. \E t \in TaskIds : task[t] # Absent BY <2>3, LoopHasKind DEF SoleInv
    <3> QED BY <2>2, <3>1, <3>2 DEF Phase, Live, Kinds
  <2>5. HandleIsTask' /\ task_hdl' = NoTask BY <2>1, DeleteLeavesNone DEF SoleInv
  <2>6. \A t \in TaskIds : task'[t] = Absent BY <2>5, SessionAssumption DEF HandleIsTask
  <2>7. Phase' = "to_other" BY <2>1, <2>2, <2>6 DEF Phase, Live
  <2> QED BY <2>4, <2>7
<1>4. CASE StartCreate \/ ShutCreate
  <2>1. \/ btc.pc = "start_create" /\ CreateMainTask("hid")
        \/ btc.pc = "shut_create" /\ CreateMainTask("other")
    BY <1>4 DEF StartCreate, ShutCreate
  <2>2. boot = "done" /\ boot' = "done"
    BY <1>4, <2>1 DEF StartCreate, ShutCreate, SoleInv, BootIsQuiet, notBtc
  <2>3. task_hdl = NoTask /\ HandleIsTask BY <2>1 DEF SoleInv, NullBetween
  <2>4. \A t \in TaskIds : task[t] = Absent BY <2>3, SessionAssumption DEF HandleIsTask
  <2>5. Phase = IF btc.pc = "start_create" THEN "to_hid" ELSE "to_other"
    BY <2>2, <2>4 DEF Phase, Live
  <2>6. ASSUME NEW kind \in Kinds, CreateMainTask(kind) PROVE Phase' = kind
    <3>1. /\ \A t \in TaskIds : task'[t] # Absent => task'[t].kind = kind
          /\ \E t \in TaskIds : task'[t] # Absent
      BY <2>3, <2>6, CreateKind
    <3> QED BY <2>2, <3>1 DEF Phase, Live, Kinds
  <2> QED BY <2>1, <2>5, <2>6 DEF Kinds
<1>5. CASE UNCHANGED <<boot, btc, task>>
  BY <1>5 DEF Phase, Live
<1>6. CASE InitPeripherals
  <2>1. boot # "done" /\ boot' # "done" BY <1>6 DEF InitPeripherals
  <2> QED BY <2>1 DEF Phase
<1>7. ASSUME NEW t \in TaskIds, MainTask(t) PROVE Phase' = Phase
  <2>1. task[t] # Absent
    BY <1>7 DEF MainTask, BootButton, CheckSync, OpenWindow, CloseWindow, ButtonA, At
  <2>2. UNCHANGED <<boot, btc>>
    BY <1>7 DEF MainTask, BootButton, CheckSync, OpenWindow, CloseWindow, ButtonA, notTask
  <2>3. \E pc \in HidSteps \cup OtherSteps : Advance(t, pc)
    BY <1>7 DEF MainTask, BootButton, CheckSync, OpenWindow, CloseWindow, ButtonA,
           AfterSync, HidSteps, OtherSteps
  <2>4. \A u \in TaskIds : /\ task'[u] # Absent <=> task[u] # Absent
                           /\ task[u] # Absent => task'[u].kind = task[u].kind
    BY <2>1, <2>3, AdvanceKind
  <2>5. Live' = Live BY <2>4 DEF Live
  <2>6. \A u \in Live : u \in TaskIds /\ task'[u].kind = task[u].kind
    BY <2>4 DEF Live
  <2> QED BY <2>2, <2>5, <2>6 DEF Phase
<1>8. ASSUME \/ OnInit \/ OnRegister \/ OnOpen \/ OnClose \/ OnUnplug \/ OnReport
             \/ RegisterApp \/ RegisterConnect \/ Remember \/ ResetOperationals
             \/ ShutScan \/ ShutTimer
      PROVE  Phase' = Phase
  <2>1. UNCHANGED <<boot, task, task_hdl>>
    BY <1>8 DEF OnInit, OnRegister, OnOpen, OnClose, OnUnplug, OnReport, RegisterApp,
                RegisterConnect, Remember, ResetOperationals, ShutScan, ShutTimer, notBtc
  <2>2. btc.pc \notin {"start_create", "shut_create"}
    BY <1>8 DEF OnInit, OnRegister, OnOpen, OnClose, OnUnplug, OnReport, RegisterApp, Take,
                RegisterConnect, Remember, ResetOperationals, ShutScan, ShutTimer
  <2>3. CASE boot = "done"
    <3>1. task_hdl # NoTask BY <2>2, <2>3 DEF TurnInv, LoopThere
    <3>2. Live # {} BY <3>1, LoopHasKind DEF SoleInv, Live
    <3> QED BY <2>1, <3>2 DEF Phase, Live
  <2>4. CASE boot # "done" BY <2>1, <2>4 DEF Phase
  <2> QED BY <2>3, <2>4
<1>9. (Stack \/ Timer \/ Halted \/ UNCHANGED vars) => UNCHANGED <<boot, btc, task>>
  BY DEF Stack, HostConnects, LinkOpens, LinkEnds, HostUnplugs, HostReports,
         Timer, TimerFires, TimerConnect, Halted, vars
<1> QED BY <1>1, <1>2, <1>3, <1>4, <1>5, <1>6, <1>7, <1>8, <1>9 DEF Next, Btc

\* If no link forms before app_main has created the first main task, the life
\* cycle of the main tasks is the one LoopSwitch describes, whatever hosts, radio,
\* buttons and timers do and however many events are queued: the HID loop only
\* takes over from the other loop, a loop is replaced by way of a state without
\* any, and the two never coexist.
THEOREM LoopsTakeTurns ==
    ASSUME ConnectDuringBoot = FALSE
    PROVE  Spec => Abstract!Init /\ [][Abstract!Next]_Phase
<1> DEFINE I == TypeInv /\ SoleInv /\ TurnInv
<1>1. Init => I BY InitTyped, InitSole, InitTurn
<1>2. I /\ [Next]_vars => I' BY StepTyped, StepSole, StepTurn
<1>3. I /\ [Next]_vars => [Abstract!Next]_Phase BY StepSole, StepMaps
<1>4. Init => Abstract!Init BY DEF Init, Abstract!Init, Phase
<1> QED BY <1>1, <1>2, <1>3, <1>4, PTL DEF Spec

\* With the same assumption the loop that runs once the callback has caught up with
\* the stack is the one for the state of the link: mote_hid_main_task while a host is
\* connected, mote_other_main_task otherwise, whatever order openings, drops,
\* unplugs, attempts of the mote's own and button presses came in.
THEOREM RightLoopRuns ==
    ASSUME ConnectDuringBoot = FALSE
    PROVE  Spec => []LoopMatchesLink
<1> DEFINE I == TypeInv /\ SoleInv /\ TurnInv
<1>1. Init => I BY InitTyped, InitSole, InitTurn
<1>2. I /\ [Next]_vars => I' BY StepTyped, StepSole, StepTurn
<1>3. I => LoopMatchesLink
  <2> SUFFICES ASSUME I, boot = "done", Quiescent
               PROVE  /\ Live # {}
                      /\ \A t \in Live : task[t].kind = "hid" <=> link \in {"up", "closing"}
    BY DEF LoopMatchesLink
  <2>1. btc.pc = "idle" /\ 1..Len(events) = {} BY DEF Quiescent
  <2>2. task_hdl # NoTask BY <2>1 DEF TurnInv, LoopThere
  <2>3. Live # {} BY <2>2, LoopHasKind DEF SoleInv, Live
  <2>4. \A t \in Live : task[t].kind = "hid" <=> HidRuns
    BY DEF Live, HidRuns, SoleInv, HandleIsTask
  <2>5. HidRuns <=> link \in {"up", "closing"}
    <3>1. HidNext <=> HidRuns BY <2>1 DEF HidNext
    <3>2. link \in {"down", "opening", "up", "closing"} BY DEF TypeInv, TypeOK
    <3> QED BY <2>1, <3>1, <3>2 DEF TurnInv, Alternates, EndsLast, OpensLast
  <2> QED BY <2>3, <2>4, <2>5
<1> QED BY <1>1, <1>2, <1>3, PTL DEF Spec

----------------------------------------------------------------------------
(***************************************************************************)
(* What the scan mode and previous_connected_wii are once esp_bt_hidd_cb   *)
(* has caught up with the stack. Both lag behind the link, so the          *)
(* invariants speak of the events that are still queued. Unlike the proofs *)
(* about the main tasks these need no assumption on when links form.       *)
(* First: the mote stays findable.                                         *)
(***************************************************************************)
\* Events on which the scan mode is closed, and those that lead to opening it.
Hides(e) == e.type = "open" /\ e.ok
Shows(e) == Ends(e) \/ (e.type = "register" /\ e.ok)

\* The mote can be paged, or will be when the present event has been handled.
Showing == scan.connectable \/ btc.pc \in {"shut_delete", "shut_create", "shut_scan"}

\* Without a link, whatever closes the scan mode is followed by what opens it.
Unlinked == registered /\ link = "down"
ShownAfter ==
    Unlinked => \A i \in 1..Len(events) : Hides(events[i])
                    => \E k \in 1..Len(events) : i < k /\ Shows(events[k])
ShownNow == Unlinked => Showing \/ \E k \in 1..Len(events) : Shows(events[k])

FindInv == ShownAfter /\ ShownNow

\* Posting an event, which does not close the scan mode of a mote without a link.
LEMMA PostFind ==
    ASSUME TypeInv, FindInv, NEW e \in Events, Post(e), Showing => Showing',
           Unlinked' => ~Hides(e) /\ (Unlinked \/ Shows(e))
    PROVE  FindInv'
<1>1. /\ events \in Seq(Events) /\ events' = Append(events, e)
      /\ Len(events') = Len(events) + 1 /\ Len(events) \in Nat
      /\ \A i \in 1..Len(events) : events'[i] = events[i]
      /\ events'[Len(events) + 1] = e
  BY DEF TypeInv, TypeOK, Post
<1> SUFFICES ASSUME Unlinked'
             PROVE  /\ \A i \in 1..Len(events') : Hides(events'[i])
                          => \E k \in 1..Len(events') : i < k /\ Shows(events'[k])
                    /\ Showing' \/ \E k \in 1..Len(events') : Shows(events'[k])
  BY DEF FindInv, ShownAfter, ShownNow, Hides, Shows, Ends
<1>2. \A i \in 1..Len(events') : Hides(events'[i]) => i \in 1..Len(events) /\ Hides(events[i])
  BY <1>1
<1>3. CASE Shows(e)
  <2>1. Len(events) + 1 \in 1..Len(events') /\ Shows(events'[Len(events) + 1])
    BY <1>1, <1>3
  <2> QED BY <1>1, <1>2, <2>1
<1>4. CASE Unlinked
  <2>1. ASSUME NEW i \in 1..Len(events'), Hides(events'[i])
        PROVE  \E k \in 1..Len(events') : i < k /\ Shows(events'[k])
    <3>1. PICK k \in 1..Len(events) : i < k /\ Shows(events[k])
      BY <1>2, <1>4, <2>1 DEF FindInv, ShownAfter
    <3> QED BY <1>1, <3>1
  <2>2. ASSUME ~Showing' PROVE \E k \in 1..Len(events') : Shows(events'[k])
    <3>1. PICK k \in 1..Len(events) : Shows(events[k])
      BY <1>4, <2>2 DEF FindInv, ShownNow
    <3> QED BY <1>1, <3>1
  <2> QED BY <2>1, <2>2
<1> QED BY <1>3, <1>4

\* Taking an event.
LEMMA TakeFind ==
    ASSUME TypeInv, FindInv, events # <<>>, events' = Tail(events),
           registered' = registered, link' = link,
           Shows(Head(events)) => Showing',
           ~Hides(Head(events)) => (Showing => Showing')
    PROVE  FindInv'
<1>1. /\ Head(events) = events[1] /\ Len(events) \in Nat /\ Len(events) > 0
      /\ Len(events') = Len(events) - 1
      /\ \A i \in 1..Len(events') : events'[i] = events[i + 1]
  BY DEF TypeInv, TypeOK
<1> SUFFICES ASSUME Unlinked
             PROVE  /\ \A i \in 1..Len(events') : Hides(events'[i])
                          => \E k \in 1..Len(events') : i < k /\ Shows(events'[k])
                    /\ Showing' \/ \E k \in 1..Len(events') : Shows(events'[k])
  BY DEF FindInv, ShownAfter, ShownNow, Hides, Shows, Ends, Unlinked
<1>2. ASSUME NEW i \in 1..Len(events'), Hides(events'[i])
      PROVE  \E k \in 1..Len(events') : i < k /\ Shows(events'[k])
  <2>1. PICK k \in 1..Len(events) : i + 1 < k /\ Shows(events[k])
    BY <1>1, <1>2 DEF FindInv, ShownAfter
  <2>2. k - 1 \in 1..Len(events') /\ i < k - 1 BY <1>1, <2>1
  <2>3. events'[k - 1] = events[k] BY <1>1, <2>2
  <2> QED BY <2>1, <2>2, <2>3
<1>3. ASSUME ~Showing' PROVE \E k \in 1..Len(events') : Shows(events'[k])
  <2>1. \E k \in 1..Len(events) : 1 < k /\ Shows(events[k])
    <3>1. CASE Hides(Head(events)) BY <1>1, <3>1 DEF FindInv, ShownAfter
    <3>2. CASE ~Hides(Head(events))
      <4>1. PICK k \in 1..Len(events) : Shows(events[k])
        BY <1>3, <3>2 DEF FindInv, ShownNow
      <4>2. k # 1 BY <1>1, <1>3, <4>1
      <4> QED BY <4>1, <4>2
    <3> QED BY <3>1, <3>2
  <2>2. PICK k \in 1..Len(events) : 1 < k /\ Shows(events[k]) BY <2>1
  <2>3. k - 1 \in 1..Len(events') BY <1>1, <2>2
  <2>4. events'[k - 1] = events[k] BY <1>1, <2>3
  <2> QED BY <2>2, <2>3, <2>4
<1> QED BY <1>2, <1>3

\* A step that leaves the queue alone.
LEMMA SameFind ==
    ASSUME FindInv, Showing => Showing', events' = events, link' = link,
           registered' = registered
    PROVE  FindInv'
BY DEF FindInv, ShownAfter, ShownNow, Hides, Shows, Ends, Unlinked

----------------------------------------------------------------------------
(***************************************************************************)
(* The host that will be retried is the one of the present link.           *)
(***************************************************************************)
\* previous_connected_wii is the peer, or is about to be.
Bound ==
    \/ btc.pc = "remember" /\ btc.ev.host = peer
    \/ btc.pc # "remember" /\ previous = peer

\* The last opening, queued or already handled, is that of the present link.
PeerInv ==
    link \in {"up", "closing"} =>
        \/ \E i \in 1..Len(events) :
              /\ Opens(events[i]) /\ events[i].host = peer
              /\ \A k \in 1..Len(events) : i < k => ~Opens(events[k])
        \/ Bound /\ \A k \in 1..Len(events) : ~Opens(events[k])

\* Posting an event: an opening is one of the new peer.
LEMMA PostPeer ==
    ASSUME TypeInv, PeerInv, NEW e \in Events, Post(e),
           link' \in {"up", "closing"} =>
               \/ Opens(e) /\ e.host = peer'
               \/ ~Opens(e) /\ link \in {"up", "closing"} /\ peer' = peer /\ (Bound => Bound')
    PROVE  PeerInv'
<1>1. /\ events \in Seq(Events) /\ events' = Append(events, e)
      /\ Len(events') = Len(events) + 1 /\ Len(events) \in Nat
      /\ \A i \in 1..Len(events) : events'[i] = events[i]
      /\ events'[Len(events) + 1] = e
  BY DEF TypeInv, TypeOK, Post
<1> SUFFICES ASSUME link' \in {"up", "closing"}
             PROVE  \/ \E i \in 1..Len(events') :
                          /\ Opens(events'[i]) /\ events'[i].host = peer'
                          /\ \A k \in 1..Len(events') : i < k => ~Opens(events'[k])
                    \/ Bound' /\ \A k \in 1..Len(events') : ~Opens(events'[k])
  BY DEF PeerInv, Opens
<1>2. CASE Opens(e) /\ e.host = peer'
  <2>1. /\ Len(events) + 1 \in 1..Len(events')
        /\ ~\E k \in 1..Len(events') : Len(events) + 1 < k
    BY <1>1
  <2> QED BY <1>1, <1>2, <2>1
<1>3. CASE ~Opens(e) /\ link \in {"up", "closing"} /\ peer' = peer /\ (Bound => Bound')
  <2>1. \A k \in 1..Len(events') : Opens(events'[k]) => k \in 1..Len(events) /\ Opens(events[k])
    BY <1>1, <1>3
  <2>2. CASE \E i \in 1..Len(events) :
                /\ Opens(events[i]) /\ events[i].host = peer
                /\ \A k \in 1..Len(events) : i < k => ~Opens(events[k])
    <3>1. PICK i \in 1..Len(events) :
                /\ Opens(events[i]) /\ events[i].host = peer
                /\ \A k \in 1..Len(events) : i < k => ~Opens(events[k])
      BY <2>2
    <3>2. i \in 1..Len(events') /\ Opens(events'[i]) /\ events'[i].host = peer'
      BY <1>1, <1>3, <3>1
    <3> QED BY <2>1, <3>1, <3>2
  <2>3. CASE Bound /\ \A k \in 1..Len(events) : ~Opens(events[k])
    BY <1>3, <2>1, <2>3
  <2> QED BY <1>3, <2>2, <2>3 DEF PeerInv
<1> QED BY <1>2, <1>3

\* Taking an event: an opening is remembered next.
LEMMA TakePeer ==
    ASSUME TypeInv, PeerInv, events # <<>>, events' = Tail(events),
           link' = link, peer' = peer,
           Opens(Head(events)) => btc'.pc = "remember" /\ btc'.ev = Head(events),
           ~Opens(Head(events)) => (Bound => Bound')
    PROVE  PeerInv'
<1>1. /\ Head(events) = events[1] /\ Len(events) \in Nat /\ Len(events) > 0
      /\ Len(events') = Len(events) - 1
      /\ \A i \in 1..Len(events') : i + 1 \in 1..Len(events) /\ events'[i] = events[i + 1]
  BY DEF TypeInv, TypeOK
<1> SUFFICES ASSUME link \in {"up", "closing"}
             PROVE  \/ \E i \in 1..Len(events') :
                          /\ Opens(events'[i]) /\ events'[i].host = peer
                          /\ \A k \in 1..Len(events') : i < k => ~Opens(events'[k])
                    \/ Bound' /\ \A k \in 1..Len(events') : ~Opens(events'[k])
  BY DEF PeerInv, Opens
<1>2. CASE \E i \in 1..Len(events) :
              /\ Opens(events[i]) /\ events[i].host = peer
              /\ \A k \in 1..Len(events) : i < k => ~Opens(events[k])
  <2>1. PICK i \in 1..Len(events) :
              /\ Opens(events[i]) /\ events[i].host = peer
              /\ \A k \in 1..Len(events) : i < k => ~Opens(events[k])
    BY <1>2
  <2>2. CASE i = 1
    <3>1. \A k \in 1..Len(events') : ~Opens(events'[k]) BY <1>1, <2>1, <2>2
    <3>2. Bound' BY <1>1, <2>1, <2>2 DEF Bound
    <3> QED BY <3>1, <3>2
  <2>3. CASE i # 1
    <3>1. i - 1 \in 1..Len(events') BY <1>1, <2>3
    <3>2. events'[i - 1] = events[i] BY <1>1, <3>1
    <3>3. \A k \in 1..Len(events') : i - 1 < k => ~Opens(events'[k]) BY <1>1, <2>1
    <3> QED BY <2>1, <3>1, <3>2, <3>3
  <2> QED BY <2>2, <2>3
<1>3. CASE Bound /\ \A k \in 1..Len(events) : ~Opens(events[k])
  <2>1. ~Opens(Head(events)) /\ Bound' BY <1>1, <1>3
  <2> QED BY <1>1, <1>3, <2>1
<1> QED BY <1>2, <1>3 DEF PeerInv

\* A step that leaves the queue alone.
LEMMA SamePeer ==
    ASSUME PeerInv, Bound => Bound', events' = events, link' = link, peer' = peer
    PROVE  PeerInv'
BY DEF PeerInv, Opens
----------------------------------------------------------------------------
(***************************************************************************)
(* The steps                                                               *)
(***************************************************************************)
EventInv == FindInv /\ PeerInv

\* What a step that leaves scan mode, callback and previous_connected_wii alone
\* cannot disturb.
LEMMA SameState ==
    ASSUME UNCHANGED <<scan, btc, previous>>
    PROVE  /\ Showing => Showing'
           /\ peer' = peer => (Bound => Bound')
BY DEF Showing, Bound

\* A connect request.
LEMMA ConnectEvent ==
    ASSUME TypeInv, EventInv, NEW h \in Hosts, Connect(h), Showing => Showing',
           peer' = peer => (Bound => Bound')
    PROVE  EventInv'
<1>1. CASE registered /\ link = "down"
  <2> DEFINE e == Event("open", TRUE, "connecting", h)
  <2>1. Post(e) /\ link' = "opening" BY <1>1 DEF Connect
  <2>2. e \in Events BY EventIsEvent DEF EventTypes, ConnStates
  <2>3. ~Unlinked' BY <2>1 DEF Unlinked
  <2> HIDE DEF e
  <2> QED BY <2>1, <2>2, <2>3, PostFind, PostPeer DEF EventInv
<1>2. CASE ~(registered /\ link = "down")
  <2> DEFINE e == Event("open", FALSE, "disconnected", h)
  <2>1. Post(e) /\ UNCHANGED <<link, peer, registered>> BY <1>2 DEF Connect
  <2>2. e \in Events BY EventIsEvent DEF EventTypes, ConnStates
  <2>3. ~Opens(e) /\ ~Unlinked' BY <1>2, <2>1 DEF Event, Opens, Unlinked
  <2> HIDE DEF e
  <2> QED BY <2>1, <2>2, <2>3, PostFind, PostPeer DEF EventInv
<1> QED BY <1>1, <1>2

\* A disconnect request.
LEMMA DisconnectEvent ==
    ASSUME TypeInv, EventInv, Disconnect, Showing => Showing', Bound => Bound'
    PROVE  EventInv'
<1>1. CASE link = "up"
  <2> DEFINE e == Event("close", TRUE, "disconnecting", peer)
  <2>1. Post(e) /\ link' = "closing" /\ peer' = peer BY <1>1 DEF Disconnect
  <2>2. e \in Events BY EventIsEvent DEF EventTypes, ConnStates, TypeInv, TypeOK
  <2>3. ~Opens(e) /\ ~Unlinked' BY <2>1 DEF Event, Opens, Unlinked
  <2> HIDE DEF e
  <2> QED BY <1>1, <2>1, <2>2, <2>3, PostFind, PostPeer DEF EventInv
<1>2. CASE link # "up"
  <2> DEFINE e == Event("close", FALSE, "disconnected", NoHost)
  <2>1. Post(e) /\ UNCHANGED <<link, peer, registered>> BY <1>2 DEF Disconnect
  <2>2. e \in Events BY EventIsEvent DEF EventTypes, ConnStates
  <2>3. ~Opens(e) /\ ~Hides(e) BY DEF Event, Opens, Hides
  <2>4. Unlinked' => Unlinked BY <2>1 DEF Unlinked
  <2> HIDE DEF e
  <2> QED BY <2>1, <2>2, <2>3, <2>4, PostFind, PostPeer DEF EventInv
<1> QED BY <1>1, <1>2

\* Steps of the stack.
LEMMA StackEvent == ASSUME TypeInv, EventInv, Stack PROVE EventInv'
<1>1. (Showing => Showing') /\ (peer' = peer => (Bound => Bound'))
  BY SameState DEF Stack, HostConnects, LinkOpens, LinkEnds, HostUnplugs, HostReports
<1>2. ASSUME NEW h \in Hosts, HostConnects(h) PROVE EventInv'
  <2>1. Post(Event("open", TRUE, "connected", h)) /\ link' = "up" /\ peer' = h
    BY <1>2 DEF HostConnects
  <2>2. Event("open", TRUE, "connected", h) \in Events
    BY EventIsEvent DEF EventTypes, ConnStates
  <2>3. /\ Opens(Event("open", TRUE, "connected", h))
        /\ Event("open", TRUE, "connected", h).host = h
    BY DEF Event, Opens
  <2>4. ~Unlinked' BY <2>1 DEF Unlinked
  <2> QED BY <1>1, <2>1, <2>2, <2>3, <2>4, PostFind, PostPeer DEF EventInv
<1>3. CASE LinkOpens
  <2> DEFINE e == Event("open", TRUE, "connected", peer)
  <2>1. Post(e) /\ link' = "up" /\ peer' = peer BY <1>3 DEF LinkOpens
  <2>2. peer \in Hosts BY <1>3 DEF LinkOpens, TypeInv, Addressed
  <2>3. e \in Events BY <2>2, EventIsEvent DEF EventTypes, ConnStates
  <2>4. Opens(e) /\ e.host = peer BY DEF Event, Opens
  <2>5. ~Unlinked' BY <2>1 DEF Unlinked
  <2> HIDE DEF e
  <2> QED BY <1>1, <2>1, <2>3, <2>4, <2>5, PostFind, PostPeer DEF EventInv
<1>4. CASE LinkEnds \/ HostUnplugs
  <2>1. PICK type \in {"close", "vc_unplug"} : Post(Event(type, TRUE, "disconnected", peer))
    BY <1>4 DEF LinkEnds, HostUnplugs
  <2> DEFINE e == Event(type, TRUE, "disconnected", peer)
  <2>2. e \in Events BY EventIsEvent DEF EventTypes, ConnStates, TypeInv, TypeOK
  <2>3. Shows(e) /\ ~Hides(e) BY DEF Event, Ends, Shows, Hides
  <2>4. Post(e) /\ link' = "down" BY <1>4, <2>1 DEF LinkEnds, HostUnplugs
  <2> HIDE DEF e
  <2> QED BY <1>1, <2>2, <2>3, <2>4, PostFind, PostPeer DEF EventInv
<1>5. CASE HostReports
  <2> DEFINE e == Event("intr_data", TRUE, "none", peer)
  <2>1. Post(e) /\ link = "up" /\ UNCHANGED <<link, peer>> BY <1>5 DEF HostReports
  <2>2. e \in Events BY EventIsEvent DEF EventTypes, ConnStates, TypeInv, TypeOK
  <2>3. ~Opens(e) /\ ~Unlinked' BY <2>1 DEF Event, Opens, Unlinked
  <2> HIDE DEF e
  <2> QED BY <1>1, <2>1, <2>2, <2>3, PostFind, PostPeer DEF EventInv
<1> QED BY <1>2, <1>3, <1>4, <1>5 DEF Stack

\* Steps of app_main.
LEMMA BootEvent ==
    ASSUME TypeInv, EventInv, InitPeripherals \/ FirstMainTask PROVE EventInv'
<1>1. UNCHANGED <<link, peer, registered, scan, btc, previous>>
  BY DEF InitPeripherals, FirstMainTask, bootOnly
<1>2. (Showing => Showing') /\ (Bound => Bound') BY <1>1, SameState
<1>3. CASE UNCHANGED events BY <1>1, <1>2, <1>3, SameFind, SamePeer DEF EventInv
<1>4. ASSUME NEW ok \in BOOLEAN, Post(Event("init", ok, "none", NoHost)) PROVE EventInv'
  <2> DEFINE e == Event("init", ok, "none", NoHost)
  <2>1. e \in Events BY EventIsEvent DEF EventTypes, ConnStates
  <2>2. ~Opens(e) /\ ~Hides(e) BY DEF Event, Opens, Hides
  <2>3. Unlinked' => Unlinked BY <1>1 DEF Unlinked
  <2>4. Post(e) BY <1>4
  <2> HIDE DEF e
  <2> QED BY <1>1, <1>2, <2>1, <2>2, <2>3, <2>4, PostFind, PostPeer DEF EventInv
<1> QED BY <1>3, <1>4 DEF InitPeripherals, FirstMainTask

\* Steps of the timer task.
LEMMA TimerEvent == ASSUME TypeInv, EventInv, Timer PROVE EventInv'
<1>1. UNCHANGED <<scan, btc, previous>> BY DEF Timer, TimerFires, TimerConnect
<1>2. (Showing => Showing') /\ (peer' = peer => (Bound => Bound')) BY <1>1, SameState
<1>3. previous \in Hosts BY DEF TypeInv, TypeOK
<1>4. Connect(previous) \/ UNCHANGED <<link, peer, registered, events>>
  BY DEF Timer, TimerFires, TimerConnect, stackVars
<1>5. CASE UNCHANGED <<link, peer, registered, events>>
  BY <1>2, <1>5, SameFind, SamePeer DEF EventInv
<1> QED BY <1>2, <1>3, <1>4, <1>5, ConnectEvent

\* Steps of a main task: both windows of check_sync leave the mote connectable.
LEMMA MainTaskEvent ==
    ASSUME TypeInv, EventInv, NEW t \in TaskIds, MainTask(t) PROVE EventInv'
<1>1. UNCHANGED <<btc, previous>>
  BY DEF MainTask, BootButton, CheckSync, OpenWindow, CloseWindow, ButtonA, notTask
<1>2. scan' = scan \/ scan'.connectable
  BY DEF MainTask, BootButton, CheckSync, OpenWindow, CloseWindow, ButtonA, Scan
<1>3. (Showing => Showing') /\ (peer' = peer => (Bound => Bound'))
  BY <1>1, <1>2 DEF Showing, Bound
<1>4. previous \in Hosts BY DEF TypeInv, TypeOK
<1>5. Connect(previous) \/ Disconnect \/ UNCHANGED <<link, peer, registered, events>>
  BY DEF MainTask, BootButton, CheckSync, OpenWindow, CloseWindow, ButtonA, stackVars
<1>6. CASE UNCHANGED <<link, peer, registered, events>>
  BY <1>3, <1>6, SameFind, SamePeer DEF EventInv
<1>7. CASE Disconnect
  <2>1. peer' = peer BY <1>7 DEF Disconnect
  <2> QED BY <1>3, <1>7, <2>1, DisconnectEvent
<1> QED BY <1>3, <1>4, <1>5, <1>6, <1>7, ConnectEvent

\* Every event that esp_bt_hidd_cb takes.
LEMMA TakeEvent ==
    ASSUME TypeInv, EventInv,
           OnInit \/ OnRegister \/ OnOpen \/ OnClose \/ OnUnplug \/ OnReport
    PROVE  EventInv'
<1> DEFINE e == Head(events)
<1>1. /\ UNCHANGED <<link, peer, registered, previous>> /\ btc.pc = "idle"
      /\ events # <<>> /\ events' = Tail(events)
  BY DEF OnInit, OnRegister, OnOpen, OnClose, OnUnplug, OnReport, Take, stackVars
<1>2. /\ Opens(e) => btc'.pc = "remember" /\ btc'.ev = e
      /\ ~Opens(e) => btc'.pc # "remember"
      /\ Shows(e) => Showing'
      /\ ~Hides(e) => (Showing => Showing')
  <2>1. CASE OnInit \/ OnReport
    <3>1. ~Opens(e) /\ ~Shows(e) /\ scan' = scan
      BY <2>1 DEF OnInit, OnReport, Take, Opens, Ends, Shows
    <3>2. btc' = btc \/ Goto("register_app", e) \/ GoIdle BY <2>1 DEF OnInit, OnReport
    <3>3. btc'.pc # "remember" BY <1>1, <3>2 DEF Goto, GoIdle
    <3> QED BY <1>1, <3>1, <3>3 DEF Showing
  <2>2. CASE OnRegister
    <3>1. ~Opens(e) /\ ~Ends(e) BY <2>2 DEF OnRegister, Take, Opens, Ends
    <3>2. (e.ok /\ scan' = Scan(TRUE, FALSE)) \/ (~e.ok /\ scan' = scan)
      BY <2>2 DEF OnRegister
    <3>3. Goto("register_connect", e) \/ GoIdle BY <2>2 DEF OnRegister
    <3>4. btc'.pc # "remember" BY <3>3 DEF Goto, GoIdle
    <3> QED BY <1>1, <3>1, <3>2, <3>4 DEF Shows, Showing, Scan
  <2>3. CASE OnOpen
    <3>1. e.type = "open" BY <2>3 DEF OnOpen, Take
    <3>2. ~Shows(e) BY <3>1 DEF Shows, Ends
    <3>3. \/ Goto("remember", e) /\ Opens(e) /\ Hides(e)
          \/ GoIdle /\ ~Opens(e) /\ (Hides(e) \/ scan' = scan)
      BY <2>3, <3>1 DEF OnOpen, Opens, Hides
    <3>4. CASE Goto("remember", e) /\ Opens(e) /\ Hides(e)
      BY <3>2, <3>4 DEF Goto
    <3>5. CASE GoIdle /\ ~Opens(e) /\ (Hides(e) \/ scan' = scan)
      BY <1>1, <3>2, <3>5 DEF Goto, GoIdle, Showing
    <3> QED BY <3>3, <3>4, <3>5
  <2>4. CASE OnClose \/ OnUnplug
    <3>1. e.type \in {"close", "vc_unplug"} /\ ~Opens(e) /\ scan' = scan
      BY <2>4 DEF OnClose, OnUnplug, Take, Opens
    <3>2. Goto("shut_delete", e) \/ (GoIdle /\ ~Shows(e))
      BY <2>4, <3>1 DEF OnClose, OnUnplug, Shows, Ends
    <3> QED BY <1>1, <3>1, <3>2 DEF Goto, GoIdle, Showing
  <2> QED BY <2>1, <2>2, <2>3, <2>4
<1>3. ~Opens(e) => (Bound => Bound') BY <1>1, <1>2 DEF Bound
<1>4. FindInv' BY <1>1, <1>2, TakeFind DEF EventInv
<1>5. PeerInv' BY <1>1, <1>2, <1>3, TakePeer DEF EventInv
<1> QED BY <1>4, <1>5 DEF EventInv

\* The rest of esp_bt_hidd_cb.
LEMMA HandleEvent ==
    ASSUME TypeInv, EventInv,
           \/ RegisterApp \/ RegisterConnect
           \/ Remember \/ ResetOperationals \/ StartDelete \/ StartCreate
           \/ ShutDelete \/ ShutCreate \/ ShutScan \/ ShutTimer
    PROVE  EventInv'
<1>1. CASE RegisterApp
  <2>1. /\ btc.pc = "register_app" /\ btc'.pc = "idle"
        /\ UNCHANGED <<link, peer, scan, previous>>
    BY <1>1 DEF RegisterApp, GoIdle, Goto
  <2>2. (Showing => Showing') /\ (Bound => Bound') BY <2>1 DEF Showing, Bound
  <2>3. PICK ok \in BOOLEAN, h \in Hosts \cup {NoHost} :
            Post(Event("register", ok, "none", h)) /\ registered' = ok
    BY <1>1 DEF RegisterApp, TypeInv, TypeOK
  <2> DEFINE e == Event("register", ok, "none", h)
  <2>4. e \in Events BY EventIsEvent DEF EventTypes, ConnStates
  <2>5. ~Opens(e) /\ ~Hides(e) /\ (ok => Shows(e)) BY DEF Event, Opens, Hides, Shows
  <2>6. Unlinked' => ok BY <2>3 DEF Unlinked
  <2>7. Post(e) BY <2>3
  <2> HIDE DEF e
  <2> QED BY <2>1, <2>2, <2>4, <2>5, <2>6, <2>7, PostFind, PostPeer DEF EventInv
<1>2. CASE RegisterConnect
  <2>1. /\ btc.pc = "register_connect" /\ btc'.pc = "idle"
        /\ UNCHANGED <<scan, previous>> /\ Connect(btc.ev.host)
    BY <1>2 DEF RegisterConnect, GoIdle, Goto
  <2>2. (Showing => Showing') /\ (peer' = peer => (Bound => Bound'))
    BY <2>1 DEF Showing, Bound
  <2>3. btc.ev.host \in Hosts BY <2>1 DEF TypeInv, Addressed
  <2> QED BY <2>1, <2>2, <2>3, ConnectEvent
<1>3. ASSUME \/ Remember \/ ResetOperationals \/ StartDelete \/ StartCreate
             \/ ShutDelete \/ ShutCreate \/ ShutScan \/ ShutTimer
      PROVE  EventInv'
  <2>1. UNCHANGED <<link, peer, registered, events>>
    BY <1>3 DEF Remember, ResetOperationals, StartDelete, StartCreate,
                ShutDelete, ShutCreate, ShutScan, ShutTimer, stackVars
  <2>2. (Showing => Showing') /\ (Bound => Bound')
    <3>1. CASE Remember
      BY <2>1, <3>1 DEF Remember, Goto, Showing, Bound
    <3>2. CASE ResetOperationals \/ StartDelete
      BY <2>1, <3>2 DEF ResetOperationals, StartDelete, Goto, Showing, Bound
    <3>3. CASE StartCreate \/ ShutTimer
      BY <2>1, <3>3 DEF StartCreate, ShutTimer, Goto, GoIdle, Showing, Bound
    <3>4. CASE ShutDelete \/ ShutCreate
      BY <2>1, <3>4 DEF ShutDelete, ShutCreate, Goto, Showing, Bound
    <3>5. CASE ShutScan
      <4>1. Goto("shut_timer", btc.ev) \/ GoIdle BY <3>5 DEF ShutScan
      <4>2. btc'.pc # "remember" BY <4>1 DEF Goto, GoIdle
      <4>3. btc.pc # "remember" /\ scan'.connectable /\ previous' = previous
        BY <3>5 DEF ShutScan, Scan
      <4> QED BY <2>1, <4>2, <4>3 DEF Showing, Bound
    <3> QED BY <1>3, <3>1, <3>2, <3>3, <3>4, <3>5
  <2> QED BY <2>1, <2>2, SameFind, SamePeer DEF EventInv
<1> QED BY <1>1, <1>2, <1>3

\* Without a link and without events both invariants hold.
LEMMA InitEvent == Init => EventInv
<1> SUFFICES ASSUME Init PROVE EventInv OBVIOUS
<1>1. registered = FALSE /\ link = "down" BY DEF Init
<1> QED BY <1>1 DEF EventInv, FindInv, ShownAfter, ShownNow, Unlinked, PeerInv

\* Every step keeps them.
LEMMA StepEvent == TypeInv /\ EventInv /\ [Next]_vars => EventInv'
<1> SUFFICES ASSUME TypeInv, EventInv, [Next]_vars PROVE EventInv' OBVIOUS
<1>1. CASE Halted \/ UNCHANGED vars
  <2>1. UNCHANGED vars BY <1>1 DEF Halted
  <2>2. (Showing => Showing') /\ (Bound => Bound') BY <2>1 DEF vars, Showing, Bound
  <2> QED BY <2>1, <2>2, SameFind, SamePeer DEF vars, EventInv
<1> QED BY <1>1, BootEvent, StackEvent, TimerEvent, MainTaskEvent, TakeEvent, HandleEvent
   DEF Next, Btc

\* Once the callback has caught up, a registered mote without a link and without an
\* attempt of its own can be paged: every OPEN event that closed the scan mode, those
\* of attempts that then failed included, has been answered by a CLOSE or an unplug
\* that opened it again. Holds for any number of hosts and events, whenever links form.
THEOREM MoteStaysFindable == Spec => []Findable
<1> DEFINE I == TypeInv /\ EventInv
<1>1. Init => I BY InitTyped, InitEvent
<1>2. I /\ [Next]_vars => I' BY StepTyped, StepEvent
<1>3. I => Findable
  <2> SUFFICES ASSUME I, Quiescent, Unlinked PROVE scan.connectable
    BY DEF Findable, Unlinked
  <2>1. btc.pc = "idle" /\ 1..Len(events) = {} BY DEF Quiescent
  <2> QED BY <2>1 DEF EventInv, FindInv, ShownNow, Showing
<1> QED BY <1>1, <1>2, <1>3, PTL DEF Spec

\* Once the callback has caught up, previous_connected_wii, the host the reconnect
\* timer and button A will page, is the host of the present link, whichever hosts
\* came and went before and whoever opened the link.
THEOREM PresentHostIsRetried == Spec => []RetriesPresentHost
<1> DEFINE I == TypeInv /\ EventInv
<1>1. Init => I BY InitTyped, InitEvent
<1>2. I /\ [Next]_vars => I' BY StepTyped, StepEvent
<1>3. I => RetriesPresentHost
  <2> SUFFICES ASSUME I, Quiescent, link \in {"up", "closing"} PROVE previous = peer
    BY DEF RetriesPresentHost
  <2>1. btc.pc = "idle" /\ 1..Len(events) = {} BY DEF Quiescent
  <2> QED BY <2>1 DEF EventInv, PeerInv, Bound
<1> QED BY <1>1, <1>2, <1>3, PTL DEF Spec

----------------------------------------------------------------------------
(***************************************************************************)
(* What a host configured is kept. bt_hid_task_start_up resets it unless   *)
(* attempt_to_reconnect is set, so wherever a report may set it the flag   *)
(* must be set already, or be about to be: a report is queued behind the   *)
(* opening of its link.                                                    *)
(***************************************************************************)
Reports(e) == e.type = "intr_data"

\* The flag is set, or will be before the next event is taken.
Begun == attempt \/ btc.pc \in {"remember", "start_up"}

\* A link and a report come after an opening.
LinkFollows ==
    link \in {"up", "closing"} => Begun \/ \E k \in 1..Len(events) : Opens(events[k])
ReportFollows ==
    \A i \in 1..Len(events) : Reports(events[i])
        => /\ events[i].host \in Hosts
           /\ Begun \/ \E k \in 1..Len(events) : k < i /\ Opens(events[k])
SetSince == ops # NoHost => attempt

KeptInv == LinkFollows /\ ReportFollows /\ SetSince

\* Posting an event.
LEMMA PostKept ==
    ASSUME TypeInv, KeptInv, NEW e \in Events, Post(e), Begun => Begun', SetSince',
           Reports(e) => e.host \in Hosts /\ link \in {"up", "closing"},
           link' \in {"up", "closing"} => Opens(e) \/ link \in {"up", "closing"}
    PROVE  KeptInv'
<1>1. /\ events \in Seq(Events) /\ events' = Append(events, e)
      /\ Len(events') = Len(events) + 1 /\ Len(events) \in Nat
      /\ \A i \in 1..Len(events) : i \in 1..Len(events') /\ events'[i] = events[i]
      /\ events'[Len(events) + 1] = e
  BY DEF TypeInv, TypeOK, Post
<1>2. ASSUME link' \in {"up", "closing"}, ~Begun'
      PROVE  \E k \in 1..Len(events') : Opens(events'[k])
  <2>1. CASE Opens(e)
    <3>1. Len(events) + 1 \in 1..Len(events') BY <1>1
    <3> QED BY <1>1, <2>1, <3>1
  <2>2. CASE ~Opens(e)
    <3>1. PICK k \in 1..Len(events) : Opens(events[k])
      BY <1>2, <2>2 DEF KeptInv, LinkFollows
    <3> QED BY <1>1, <3>1
  <2> QED BY <2>1, <2>2
<1>3. ASSUME NEW i \in 1..Len(events'), Reports(events'[i])
      PROVE  /\ events'[i].host \in Hosts
             /\ Begun' \/ \E k \in 1..Len(events') : k < i /\ Opens(events'[k])
  <2>1. CASE i \in 1..Len(events)
    <3>1. Reports(events[i]) /\ events'[i] = events[i] BY <1>1, <1>3, <2>1
    <3>2. /\ events[i].host \in Hosts
          /\ Begun \/ \E k \in 1..Len(events) : k < i /\ Opens(events[k])
      BY <2>1, <3>1 DEF KeptInv, ReportFollows
    <3> QED BY <1>1, <3>1, <3>2
  <2>2. CASE i = Len(events) + 1
    <3>1. e.host \in Hosts /\ link \in {"up", "closing"} BY <1>1, <1>3, <2>2
    <3>2. Begun \/ \E k \in 1..Len(events) : Opens(events[k])
      BY <3>1 DEF KeptInv, LinkFollows
    <3>3. \A k \in 1..Len(events) : k < i BY <1>1, <2>2
    <3> QED BY <1>1, <2>2, <3>1, <3>2, <3>3
  <2> QED BY <1>1, <2>1, <2>2
<1>4. LinkFollows' BY <1>2 DEF LinkFollows, Opens
<1>5. ReportFollows' BY <1>3 DEF ReportFollows, Reports, Opens
<1> QED BY <1>4, <1>5 DEF KeptInv

\* Taking one: an opening leads to the flag.
LEMMA TakeKept ==
    ASSUME TypeInv, KeptInv, events # <<>>, events' = Tail(events), link' = link,
           Opens(Head(events)) => Begun', Begun => Begun', SetSince'
    PROVE  KeptInv'
<1>1. /\ Head(events) = events[1] /\ Len(events) \in Nat /\ Len(events) > 0
      /\ Len(events') = Len(events) - 1
      /\ \A i \in 1..Len(events') : i + 1 \in 1..Len(events) /\ events'[i] = events[i + 1]
  BY DEF TypeInv, TypeOK
<1>2. ASSUME NEW k \in 1..Len(events), Opens(events[k]), ~Begun'
      PROVE  k - 1 \in 1..Len(events') /\ Opens(events'[k - 1])
  <2>1. k # 1 BY <1>1, <1>2
  <2>2. k - 1 \in 1..Len(events') BY <1>1, <2>1
  <2>3. events'[k - 1] = events[k] BY <1>1, <2>2
  <2> QED BY <1>2, <2>2, <2>3
<1>3. ASSUME link \in {"up", "closing"}, ~Begun'
      PROVE  \E k \in 1..Len(events') : Opens(events'[k])
  <2>1. PICK k \in 1..Len(events) : Opens(events[k]) BY <1>3 DEF KeptInv, LinkFollows
  <2> QED BY <1>2, <1>3, <2>1
<1>4. ASSUME NEW i \in 1..Len(events'), Reports(events'[i])
      PROVE  /\ events'[i].host \in Hosts
             /\ Begun' \/ \E k \in 1..Len(events') : k < i /\ Opens(events'[k])
  <2>1. i + 1 \in 1..Len(events) /\ events'[i] = events[i + 1] BY <1>1
  <2>2. /\ events[i + 1].host \in Hosts
        /\ Begun \/ \E k \in 1..Len(events) : k < i + 1 /\ Opens(events[k])
    BY <1>4, <2>1 DEF KeptInv, ReportFollows
  <2>3. ASSUME ~Begun' PROVE \E k \in 1..Len(events') : k < i /\ Opens(events'[k])
    <3>1. PICK k \in 1..Len(events) : k < i + 1 /\ Opens(events[k]) BY <2>2, <2>3
    <3>2. k - 1 \in 1..Len(events') /\ Opens(events'[k - 1]) BY <1>2, <2>3, <3>1
    <3>3. k - 1 < i BY <3>1
    <3> QED BY <3>2, <3>3
  <2> QED BY <2>1, <2>2, <2>3
<1>5. LinkFollows' BY <1>3 DEF LinkFollows, Opens
<1>6. ReportFollows' BY <1>4 DEF ReportFollows, Reports, Opens
<1> QED BY <1>5, <1>6 DEF KeptInv

\* Leaving the queue alone.
LEMMA SameKept ==
    ASSUME KeptInv, Begun => Begun', SetSince', events' = events, link' = link
    PROVE  KeptInv'
BY DEF KeptInv, LinkFollows, ReportFollows, Reports, Opens

\* A connect request posts neither a report nor the opening of a link.
LEMMA ConnectKept ==
    ASSUME TypeInv, KeptInv, NEW h \in Hosts, Connect(h), Begun => Begun', SetSince'
    PROVE  KeptInv'
<1>1. PICK ok \in BOOLEAN, conn \in {"connecting", "disconnected"} :
          Post(Event("open", ok, conn, h)) /\ (link' = "opening" \/ link' = link)
  BY DEF Connect
<1> DEFINE e == Event("open", ok, conn, h)
<1>2. e \in Events BY EventIsEvent DEF EventTypes, ConnStates
<1>3. ~Reports(e) BY DEF Event, Reports
<1>4. Post(e) /\ (link' \in {"up", "closing"} => link \in {"up", "closing"}) BY <1>1
<1> HIDE DEF e
<1> QED BY <1>2, <1>3, <1>4, PostKept

\* Nor does a disconnect request.
LEMMA DisconnectKept ==
    ASSUME TypeInv, KeptInv, Disconnect, Begun => Begun', SetSince'
    PROVE  KeptInv'
<1>1. PICK ok \in BOOLEAN, conn \in {"disconnecting", "disconnected"},
           h \in Hosts \cup {NoHost} : Post(Event("close", ok, conn, h))
  BY DEF Disconnect, TypeInv, TypeOK
<1>2. link' \in {"up", "closing"} => link \in {"up", "closing"} BY DEF Disconnect
<1> DEFINE e == Event("close", ok, conn, h)
<1>3. e \in Events BY EventIsEvent DEF EventTypes, ConnStates
<1>4. ~Reports(e) BY DEF Event, Reports
<1>5. Post(e) BY <1>1
<1> HIDE DEF e
<1> QED BY <1>2, <1>3, <1>4, <1>5, PostKept

\* What leaves the callback, the flag and the configuration alone.
LEMMA SameBegun ==
    ASSUME KeptInv, UNCHANGED <<btc, attempt, ops>>
    PROVE  (Begun => Begun') /\ SetSince'
BY DEF KeptInv, SetSince, Begun

\* Steps of the stack: a report comes from the peer of a link.
LEMMA StackKept == ASSUME TypeInv, KeptInv, Stack PROVE KeptInv'
<1>1. (Begun => Begun') /\ SetSince'
  BY SameBegun DEF Stack, HostConnects, LinkOpens, LinkEnds, HostUnplugs, HostReports
<1>2. ASSUME NEW h \in Hosts, Post(Event("open", TRUE, "connected", h)) PROVE KeptInv'
  <2> DEFINE e == Event("open", TRUE, "connected", h)
  <2>1. e \in Events BY EventIsEvent DEF EventTypes, ConnStates
  <2>2. Opens(e) /\ ~Reports(e) BY DEF Event, Opens, Reports
  <2>3. Post(e) BY <1>2
  <2> HIDE DEF e
  <2> QED BY <1>1, <2>1, <2>2, <2>3, PostKept
<1>3. CASE \E h \in Hosts : HostConnects(h) BY <1>2, <1>3 DEF HostConnects
<1>4. CASE LinkOpens
  <2>1. peer \in Hosts BY <1>4 DEF LinkOpens, TypeInv, Addressed
  <2> QED BY <1>2, <1>4, <2>1 DEF LinkOpens
<1>5. CASE LinkEnds \/ HostUnplugs
  <2>1. PICK type \in {"close", "vc_unplug"} : Post(Event(type, TRUE, "disconnected", peer))
    BY <1>5 DEF LinkEnds, HostUnplugs
  <2> DEFINE e == Event(type, TRUE, "disconnected", peer)
  <2>2. e \in Events BY EventIsEvent DEF EventTypes, ConnStates, TypeInv, TypeOK
  <2>3. ~Reports(e) BY DEF Event, Reports
  <2>4. Post(e) /\ link' = "down" BY <1>5, <2>1 DEF LinkEnds, HostUnplugs
  <2> HIDE DEF e
  <2> QED BY <1>1, <2>2, <2>3, <2>4, PostKept
<1>6. CASE HostReports
  <2> DEFINE e == Event("intr_data", TRUE, "none", peer)
  <2>1. Post(e) /\ link = "up" /\ link' = link BY <1>6 DEF HostReports
  <2>2. e \in Events BY EventIsEvent DEF EventTypes, ConnStates, TypeInv, TypeOK
  <2>3. e.host \in Hosts BY <2>1 DEF Event, TypeInv, Addressed
  <2> HIDE DEF e
  <2> QED BY <1>1, <2>1, <2>2, <2>3, PostKept
<1> QED BY <1>3, <1>4, <1>5, <1>6 DEF Stack

\* Steps of app_main.
LEMMA BootKept ==
    ASSUME TypeInv, KeptInv, InitPeripherals \/ FirstMainTask PROVE KeptInv'
<1>1. UNCHANGED <<link, btc, attempt, ops>>
  BY DEF InitPeripherals, FirstMainTask, bootOnly
<1>2. (Begun => Begun') /\ SetSince' BY <1>1, SameBegun
<1>3. CASE UNCHANGED events BY <1>1, <1>2, <1>3, SameKept
<1>4. ASSUME NEW ok \in BOOLEAN, Post(Event("init", ok, "none", NoHost)) PROVE KeptInv'
  <2> DEFINE e == Event("init", ok, "none", NoHost)
  <2>1. e \in Events BY EventIsEvent DEF EventTypes, ConnStates
  <2>2. ~Reports(e) BY DEF Event, Reports
  <2>3. Post(e) BY <1>4
  <2> HIDE DEF e
  <2> QED BY <1>1, <1>2, <2>1, <2>2, <2>3, PostKept
<1> QED BY <1>3, <1>4 DEF InitPeripherals, FirstMainTask

\* Steps of the timer task: it only clears the flag when a request is refused.
LEMMA TimerKept ==
    ASSUME RequestMayFail = FALSE, TypeInv, KeptInv, Timer PROVE KeptInv'
<1>1. btc' = btc /\ ops' = ops /\ (attempt => attempt')
  BY DEF Timer, TimerFires, TimerConnect
<1>2. (Begun => Begun') /\ SetSince' BY <1>1 DEF KeptInv, SetSince, Begun
<1>3. Connect(previous) \/ UNCHANGED <<link, events>>
  BY DEF Timer, TimerFires, TimerConnect, stackVars
<1>4. previous \in Hosts BY DEF TypeInv, TypeOK
<1> QED BY <1>2, <1>3, <1>4, ConnectKept, SameKept

\* Steps of a main task.
LEMMA MainTaskKept ==
    ASSUME TypeInv, KeptInv, NEW t \in TaskIds, MainTask(t) PROVE KeptInv'
<1>1. UNCHANGED <<btc, attempt, ops>>
  BY DEF MainTask, BootButton, CheckSync, OpenWindow, CloseWindow, ButtonA, notTask
<1>2. (Begun => Begun') /\ SetSince' BY <1>1, SameBegun
<1>3. Connect(previous) \/ Disconnect \/ UNCHANGED <<link, events>>
  BY DEF MainTask, BootButton, CheckSync, OpenWindow, CloseWindow, ButtonA, stackVars
<1>4. previous \in Hosts BY DEF TypeInv, TypeOK
<1> QED BY <1>2, <1>3, <1>4, ConnectKept, DisconnectKept, SameKept

\* A report is taken from an idle callback, so what comes before it is handled.
LEMMA ReportKept ==
    ASSUME TypeInv, KeptInv, OnReport PROVE ops' \in Hosts /\ SetSince' /\ attempt
<1>1. /\ btc.pc = "idle" /\ events # <<>> /\ Reports(Head(events))
      /\ ops' = Head(events).host /\ attempt' = attempt
  BY DEF OnReport, Take, Reports
<1>2. 1 \in 1..Len(events) /\ Head(events) = events[1] BY <1>1 DEF TypeInv, TypeOK
<1>3. /\ events[1].host \in Hosts
      /\ Begun \/ \E k \in 1..Len(events) : k < 1 /\ Opens(events[k])
  BY <1>1, <1>2 DEF KeptInv, ReportFollows
<1>4. \A k \in 1..Len(events) : ~(k < 1) OBVIOUS
<1>5. attempt BY <1>1, <1>3, <1>4 DEF Begun
<1> QED BY <1>1, <1>2, <1>3, <1>5 DEF SetSince

\* Every event that esp_bt_hidd_cb takes.
LEMMA TakeEventKept ==
    ASSUME TypeInv, KeptInv,
           OnInit \/ OnRegister \/ OnOpen \/ OnClose \/ OnUnplug \/ OnReport
    PROVE  KeptInv'
<1>1. /\ link' = link /\ attempt' = attempt /\ btc.pc = "idle"
      /\ events # <<>> /\ events' = Tail(events)
  BY DEF OnInit, OnRegister, OnOpen, OnClose, OnUnplug, OnReport, Take, stackVars
<1>2. Begun => Begun' BY <1>1 DEF Begun
<1>3. SetSince'
  <2>1. CASE OnReport BY <2>1, ReportKept
  <2>2. CASE ops' = ops BY <1>1, <2>2 DEF KeptInv, SetSince
  <2> QED BY <2>1, <2>2 DEF OnInit, OnRegister, OnOpen, OnClose, OnUnplug
<1>4. Opens(Head(events)) => Begun'
  <2>1. CASE OnOpen
      BY <2>1 DEF OnOpen, Goto, Begun, Opens
  <2>2. CASE Head(events).type # "open" BY <2>2 DEF Opens
  <2> QED BY <2>1, <2>2 DEF OnInit, OnRegister, OnClose, OnUnplug, OnReport, Take
<1> QED BY <1>1, <1>2, <1>3, <1>4, TakeKept

\* The rest of it: the reset sets the flag.
LEMMA HandleKept ==
    ASSUME TypeInv, KeptInv,
           \/ RegisterApp \/ RegisterConnect
           \/ Remember \/ ResetOperationals \/ StartDelete \/ StartCreate
           \/ ShutDelete \/ ShutCreate \/ ShutScan \/ ShutTimer
    PROVE  KeptInv'
<1>1. CASE RegisterApp
  <2>1. btc.pc = "register_app" /\ UNCHANGED <<link, attempt, ops>> BY <1>1 DEF RegisterApp
  <2>2. (Begun => Begun') /\ SetSince' BY <2>1 DEF Begun, KeptInv, SetSince
  <2>3. PICK ok \in BOOLEAN, h \in Hosts \cup {NoHost} : Post(Event("register", ok, "none", h))
    BY <1>1 DEF RegisterApp, TypeInv, TypeOK
  <2> DEFINE e == Event("register", ok, "none", h)
  <2>4. e \in Events BY EventIsEvent DEF EventTypes, ConnStates
  <2>5. ~Reports(e) BY DEF Event, Reports
  <2>6. Post(e) BY <2>3
  <2> HIDE DEF e
  <2> QED BY <2>1, <2>2, <2>4, <2>5, <2>6, PostKept
<1>2. CASE RegisterConnect
  <2>1. /\ btc.pc = "register_connect" /\ UNCHANGED <<attempt, ops>>
        /\ Connect(btc.ev.host)
    BY <1>2 DEF RegisterConnect
  <2>2. (Begun => Begun') /\ SetSince' BY <2>1 DEF Begun, KeptInv, SetSince
  <2>3. btc.ev.host \in Hosts BY <2>1 DEF TypeInv, Addressed
  <2> QED BY <2>1, <2>2, <2>3, ConnectKept
<1>3. CASE Remember
  <2>1. btc'.pc = "start_up" BY <1>3 DEF Remember, Goto
  <2> QED BY <1>3, <2>1, SameKept DEF Remember, stackVars, Begun, KeptInv, SetSince
<1>4. CASE ResetOperationals
  <2>1. attempt' /\ link' = link /\ events' = events
    BY <1>4 DEF ResetOperationals, stackVars
  <2> QED BY <2>1, SameKept DEF Begun, SetSince
<1>5. CASE \/ StartDelete \/ StartCreate \/ ShutDelete \/ ShutCreate
           \/ ShutScan \/ ShutTimer
  <2>1. btc.pc \notin {"remember", "start_up"} /\ UNCHANGED <<link, events, attempt, ops>>
    BY <1>5 DEF StartDelete, StartCreate, ShutDelete, ShutCreate, ShutScan, ShutTimer,
                stackVars
  <2> QED BY <2>1, SameKept DEF Begun, KeptInv, SetSince
<1> QED BY <1>1, <1>2, <1>3, <1>4, <1>5

\* Every step.
LEMMA StepKept ==
    ASSUME RequestMayFail = FALSE
    PROVE  TypeInv /\ KeptInv /\ [Next]_vars => KeptInv'
<1> SUFFICES ASSUME TypeInv, KeptInv, [Next]_vars PROVE KeptInv' OBVIOUS
<1>1. CASE Halted \/ UNCHANGED vars
  <2>1. UNCHANGED vars BY <1>1 DEF Halted
  <2> QED BY <2>1, SameBegun, SameKept DEF vars
<1> QED BY <1>1, BootKept, StackKept, TimerKept, MainTaskKept, TakeEventKept, HandleKept
   DEF Next, Btc

\* If the stack never refuses a reconnect request, what a host configured survives
\* every drop of the link and every reconnection, by whatever hosts and in whatever
\* order links come and go: the reset in bt_hid_task_start_up only ever happens before
\* the first report of the first session, whenever links form.
THEOREM ConfigurationSurvives ==
    ASSUME RequestMayFail = FALSE
    PROVE  Spec => ConfigurationKept
<1> DEFINE I == TypeInv /\ KeptInv
<1>1. Init => I
  <2>1. Init => KeptInv BY DEF Init, KeptInv, LinkFollows, ReportFollows, SetSince
  <2> QED BY <2>1, InitTyped
<1>2. I /\ [Next]_vars => I' BY StepTyped, StepKept
<1>3. I /\ [Next]_vars => [ops # NoHost => ops' # NoHost]_vars
  <2> SUFFICES ASSUME I, [Next]_vars, ops # NoHost PROVE ops' # NoHost OBVIOUS
  <2>1. attempt BY DEF KeptInv, SetSince
  <2>2. CASE OnReport BY <2>2, ReportKept, SessionAssumption
  <2>3. CASE ResetOperationals BY <2>1, <2>3 DEF ResetOperationals
  <2>4. CASE Btc /\ ~OnReport /\ ~ResetOperationals
    BY <2>4 DEF Btc, OnInit, RegisterApp, OnRegister, RegisterConnect, OnOpen, Remember,
                StartDelete, StartCreate, OnClose, OnUnplug, ShutDelete, ShutCreate,
                ShutScan, ShutTimer
  <2>5. CASE Stack
    BY <2>5 DEF Stack, HostConnects, LinkOpens, LinkEnds, HostUnplugs, HostReports
  <2>6. CASE Timer BY <2>6 DEF Timer, TimerFires, TimerConnect
  <2>7. CASE \E t \in TaskIds : MainTask(t)
    BY <2>7 DEF MainTask, BootButton, CheckSync, OpenWindow, CloseWindow, ButtonA, notTask
  <2>8. CASE InitPeripherals \/ FirstMainTask \/ Halted \/ UNCHANGED vars
    BY <2>8 DEF InitPeripherals, FirstMainTask, Halted, bootOnly, vars
  <2> QED BY <2>2, <2>3, <2>4, <2>5, <2>6, <2>7, <2>8 DEF Next
<1> QED BY <1>1, <1>2, <1>3, PTL DEF Spec, ConfigurationKept

----------------------------------------------------------------------------
(***************************************************************************)
(* A dropped link is never forgotten: until there is a link again, the     *)
(* event that reported the drop is queued, or the callback is handling it, *)
(* or a timer is armed, or its request is being made. This is what         *)
(* DropIsRetried needs besides fairness. The request is only answered with *)
(* a link if the mote is registered, so the second half says when it is:   *)
(* there is one INIT event, and nothing is dropped before it is answered.  *)
(***************************************************************************)
Drops(e) == e.type = "close" /\ e.ok /\ e.conn = "disconnected"
Inits(e) == e.type = "init"

Pending == \/ btc.pc \in {"shut_delete", "shut_create", "shut_scan"} /\ btc.ev.type = "close"
           \/ btc.pc = "shut_timer"
           \/ timers > 0
           \/ tmr = "connect"
RetryAhead == Dropped \/ Pending

\* app_main posts one INIT event, esp_bt_hidd_cb registers once, and only then can a
\* link form and be dropped.
InitAhead == \E i \in 1..Len(events) : Inits(events[i])
OnceInv ==
    /\ \A i, k \in 1..Len(events) : Inits(events[i]) /\ Inits(events[k]) => i = k
    /\ boot = "peripherals" => ~InitAhead /\ btc.pc # "register_app"
    /\ InitAhead => btc.pc # "register_app"
    /\ registered => boot # "peripherals" /\ ~InitAhead /\ btc.pc # "register_app"
    /\ ~registered => link = "down" /\ ~RetryAhead

LEMMA DroppedIs ==
    ASSUME TypeInv
    PROVE  Dropped <=> \E i \in 1..Len(events) : Drops(events[i])
BY DEF TypeInv, TypeOK, Dropped, Drops

\* Posting an event.
LEMMA PostDrops ==
    ASSUME TypeInv, TypeInv', NEW e \in Events, Post(e)
    PROVE  /\ Dropped' <=> Dropped \/ Drops(e)
           /\ InitAhead' <=> InitAhead \/ Inits(e)
<1>1. /\ events \in Seq(Events) /\ events' = Append(events, e)
      /\ Len(events') = Len(events) + 1 /\ Len(events) \in Nat
      /\ \A i \in 1..Len(events) : i \in 1..Len(events') /\ events'[i] = events[i]
      /\ Len(events) + 1 \in 1..Len(events') /\ events'[Len(events) + 1] = e
      /\ \A i \in 1..Len(events') : i \in 1..Len(events) \/ i = Len(events) + 1
  BY DEF TypeInv, TypeOK, Post
<1>2. Dropped' <=> \E i \in 1..Len(events') : Drops(events'[i])
  BY DEF TypeInv, TypeOK, Dropped, Drops
<1>3. (\E i \in 1..Len(events') : Drops(events'[i]))
        <=> (\E i \in 1..Len(events) : Drops(events[i])) \/ Drops(e)
  BY <1>1
<1>4. InitAhead' <=> InitAhead \/ Inits(e)
  BY <1>1 DEF InitAhead, Inits
<1> QED BY <1>2, <1>3, <1>4, DroppedIs

LEMMA PostOnce ==
    ASSUME TypeInv, TypeInv', OnceInv, NEW e \in Events, Post(e),
           Inits(e) => boot = "peripherals",
           boot' = boot \/ (boot = "peripherals" /\ boot' # boot),
           Inits(e) => boot' # boot,
           btc'.pc = "register_app" => btc.pc = "register_app",
           registered' => registered \/ (btc.pc = "register_app" /\ btc'.pc # "register_app"),
           ~registered' => ~registered /\ link' = "down" /\ ~Drops(e) /\ ~Pending'
    PROVE  OnceInv'
<1>1. /\ Dropped' <=> Dropped \/ Drops(e)
      /\ InitAhead' <=> InitAhead \/ Inits(e)
  BY PostDrops
<1>2. ASSUME NEW i \in 1..Len(events'), NEW k \in 1..Len(events'),
             Inits(events'[i]), Inits(events'[k])
      PROVE  i = k
  <2>1. /\ events' = Append(events, e) /\ Len(events') = Len(events) + 1
        /\ Len(events) \in Nat
        /\ \A j \in 1..Len(events') :
               \/ j \in 1..Len(events) /\ events'[j] = events[j]
               \/ j = Len(events) + 1 /\ events'[j] = e
    BY DEF TypeInv, TypeOK, Post
  <2>2. Inits(e) => ~InitAhead BY DEF OnceInv
  <2> QED BY <1>2, <2>1, <2>2 DEF OnceInv, InitAhead
<1>3. boot' = "peripherals" => ~InitAhead' /\ btc'.pc # "register_app"
  BY <1>1 DEF OnceInv
<1>4. InitAhead' => btc'.pc # "register_app"
  BY <1>1 DEF OnceInv
<1>5. registered' => boot' # "peripherals" /\ ~InitAhead' /\ btc'.pc # "register_app"
  BY <1>1 DEF OnceInv
<1>6. ~registered' => link' = "down" /\ ~RetryAhead'
  BY <1>1 DEF OnceInv, RetryAhead
<1>7. \A i, k \in 1..Len(events') : Inits(events'[i]) /\ Inits(events'[k]) => i = k
  BY <1>2
<1> QED BY <1>3, <1>4, <1>5, <1>6, <1>7 DEF OnceInv, Inits

\* Taking one.
LEMMA TakeDrops ==
    ASSUME TypeInv, TypeInv', events # <<>>, events' = Tail(events)
    PROVE  /\ Dropped <=> Dropped' \/ Drops(Head(events))
           /\ InitAhead <=> InitAhead' \/ Inits(Head(events))
<1>1. /\ Head(events) = events[1] /\ Len(events) \in Nat /\ Len(events) > 0
      /\ Len(events') = Len(events) - 1
      /\ \A i \in 1..Len(events') : i + 1 \in 1..Len(events) /\ events'[i] = events[i + 1]
      /\ 1 \in 1..Len(events)
  BY DEF TypeInv, TypeOK
<1>2. \A k \in 1..Len(events) :
          k = 1 \/ \E i \in 1..Len(events') : k = i + 1 /\ events'[i] = events[k]
  <2> TAKE k \in 1..Len(events)
  <2>1. ASSUME k # 1 PROVE k - 1 \in 1..Len(events') /\ k = (k - 1) + 1 BY <1>1, <2>1
  <2> QED BY <1>1, <2>1
<1>3. Dropped' <=> \E i \in 1..Len(events') : Drops(events'[i])
  <2>1. events' \in Seq(Events) BY DEF TypeInv, TypeOK
  <2>2. DOMAIN events' = 1..Len(events') BY <2>1
  <2> QED BY <2>2 DEF Dropped, Drops
<1>4. (\E i \in 1..Len(events) : Drops(events[i]))
        <=> (\E i \in 1..Len(events') : Drops(events'[i])) \/ Drops(Head(events))
  BY <1>1, <1>2
<1>5. InitAhead <=> InitAhead' \/ Inits(Head(events))
  <2>1. InitAhead' <=> \E i \in 1..Len(events') : Inits(events'[i])
    BY DEF InitAhead, Inits
  <2> QED BY <1>1, <1>2, <2>1 DEF InitAhead
<1> QED BY <1>3, <1>4, <1>5, DroppedIs

LEMMA TakeOnce ==
    ASSUME TypeInv, TypeInv', OnceInv, events # <<>>, events' = Tail(events),
           UNCHANGED <<boot, registered, link>>, btc.pc # "register_app",
           btc'.pc = "register_app" => Inits(Head(events)),
           Pending' => Pending \/ Drops(Head(events))
    PROVE  OnceInv'
<1>1. /\ Dropped <=> Dropped' \/ Drops(Head(events))
      /\ InitAhead <=> InitAhead' \/ Inits(Head(events))
  BY TakeDrops
<1>2. /\ Head(events) = events[1] /\ Len(events) \in Nat /\ Len(events) > 0
      /\ \A i \in 1..Len(events') :
             i \in Nat /\ i + 1 \in 1..Len(events) /\ events'[i] = events[i + 1]
      /\ 1 \in 1..Len(events)
  BY DEF TypeInv, TypeOK
<1>3. ASSUME NEW i \in 1..Len(events'), NEW k \in 1..Len(events'),
             Inits(events'[i]), Inits(events'[k])
      PROVE  i = k
  <2>1. i + 1 = k + 1 BY <1>2, <1>3 DEF OnceInv
  <2> QED BY <1>2, <2>1
<1>4. Inits(Head(events)) => ~InitAhead'
  <2>1. ASSUME NEW i \in 1..Len(events'), Inits(events'[i]), Inits(Head(events)) PROVE FALSE
    <3>1. i + 1 = 1 BY <1>2, <2>1 DEF OnceInv
    <3>2. i >= 1 OBVIOUS
    <3> QED BY <1>2, <3>1, <3>2
  <2> QED BY <2>1 DEF InitAhead, Inits
<1>5. /\ boot' = "peripherals" => ~InitAhead' /\ btc'.pc # "register_app"
      /\ InitAhead' => btc'.pc # "register_app"
      /\ registered' => boot' # "peripherals" /\ ~InitAhead' /\ btc'.pc # "register_app"
      /\ ~registered' => link' = "down" /\ ~RetryAhead'
  BY <1>1, <1>4 DEF OnceInv, RetryAhead
<1>6. \A i, k \in 1..Len(events') : Inits(events'[i]) /\ Inits(events'[k]) => i = k
  BY <1>3
<1> QED BY <1>5, <1>6 DEF OnceInv, Inits

\* Leaving the queue alone.
LEMMA SameOnce ==
    ASSUME OnceInv, UNCHANGED <<events, registered, link>>,
           boot' = "peripherals" => boot = "peripherals",
           btc'.pc = "register_app" => btc.pc = "register_app", Pending' => Pending
    PROVE  OnceInv'
<1>1. (Dropped' <=> Dropped) /\ (InitAhead' <=> InitAhead)
  BY DEF Dropped, InitAhead, Inits
<1>2. \A i, k \in 1..Len(events') : Inits(events'[i]) /\ Inits(events'[k]) => i = k
  BY DEF OnceInv
<1>3. /\ boot' = "peripherals" => ~InitAhead' /\ btc'.pc # "register_app"
      /\ InitAhead' => btc'.pc # "register_app"
      /\ registered' => boot' # "peripherals" /\ ~InitAhead' /\ btc'.pc # "register_app"
      /\ ~registered' => link' = "down" /\ ~RetryAhead'
  BY <1>1 DEF OnceInv, RetryAhead
<1> QED BY <1>2, <1>3 DEF OnceInv, Inits

\* No step drops the retry, unless it brings a link.
Retries == (RetryAhead /\ link = "down") => (RetryAhead' \/ link' # "down")

\* What cannot disturb a retry that is under way.
LEMMA SamePending ==
    ASSUME UNCHANGED <<btc, timers, tmr>>
    PROVE  Pending' <=> Pending
BY DEF Pending

\* A connect request brings a link to a registered mote without one.
LEMMA ConnectRetries ==
    ASSUME TypeInv, TypeInv', OnceInv, NEW h \in Hosts, Connect(h), boot' = boot,
           btc'.pc = "register_app" => btc.pc = "register_app",
           Pending' => Pending
    PROVE  OnceInv' /\ Retries
<1>1. CASE registered /\ link = "down"
  <2> DEFINE e == Event("open", TRUE, "connecting", h)
  <2>1. Post(e) /\ link' = "opening" /\ registered' = registered BY <1>1 DEF Connect
  <2>2. e \in Events BY EventIsEvent DEF EventTypes, ConnStates
  <2>3. ~Inits(e) BY DEF Event, Inits
  <2>4. Retries BY <2>1 DEF Retries
  <2> HIDE DEF e
  <2> QED BY <1>1, <2>1, <2>2, <2>3, <2>4, PostOnce
<1>2. CASE ~(registered /\ link = "down")
  <2> DEFINE e == Event("open", FALSE, "disconnected", h)
  <2>1. Post(e) /\ UNCHANGED <<link, peer, registered>> BY <1>2 DEF Connect
  <2>2. e \in Events BY EventIsEvent DEF EventTypes, ConnStates
  <2>3. ~Inits(e) /\ ~Drops(e) BY DEF Event, Inits, Drops
  <2>4. ~registered => link = "down" /\ ~RetryAhead BY DEF OnceInv
  <2>5. Retries BY <1>2, <2>4 DEF Retries
  <2>6. ~registered => ~Pending' BY <2>4 DEF RetryAhead
  <2> HIDE DEF e
  <2> QED BY <2>1, <2>2, <2>3, <2>4, <2>5, <2>6, PostOnce
<1> QED BY <1>1, <1>2

\* A disconnect request ends no retry: it leaves one to be made by the event that
\* reports the end of the link.
LEMMA DisconnectRetries ==
    ASSUME TypeInv, TypeInv', OnceInv, Disconnect, UNCHANGED <<boot, btc, timers, tmr>>
    PROVE  OnceInv' /\ Retries
<1>1. PICK ok \in BOOLEAN, conn \in {"disconnecting", "disconnected"},
           h \in Hosts \cup {NoHost} :
          Post(Event("close", ok, conn, h)) /\ ~(ok /\ conn = "disconnected")
  BY DEF Disconnect, TypeInv, TypeOK
<1> DEFINE e == Event("close", ok, conn, h)
<1>2. e \in Events BY EventIsEvent DEF EventTypes, ConnStates
<1>3. ~Inits(e) /\ ~Drops(e) BY <1>1 DEF Event, Inits, Drops
<1>4. Post(e) /\ registered' = registered /\ (link = "down" => link' = "down")
  BY <1>1 DEF Disconnect
<1>5. Pending' <=> Pending BY SamePending
<1> HIDE DEF e
<1>6. Retries BY <1>2, <1>4, <1>5, PostDrops DEF Retries, RetryAhead
<1>7. ~registered => link = "down" /\ ~Pending BY DEF OnceInv, RetryAhead
<1> QED BY <1>2, <1>3, <1>4, <1>5, <1>6, <1>7, PostOnce

\* Steps of the stack: without a registration there is no link to drop.
LEMMA StackRetries ==
    ASSUME TypeInv, TypeInv', OnceInv, Stack PROVE OnceInv' /\ Retries
<1>1. UNCHANGED <<boot, btc, timers, tmr, registered>>
  BY DEF Stack, HostConnects, LinkOpens, LinkEnds, HostUnplugs, HostReports
<1>2. registered
  BY DEF Stack, HostConnects, LinkOpens, LinkEnds, HostUnplugs, HostReports, OnceInv
<1>3. \E e \in Events : Post(e) /\ ~Inits(e)
  <2>1. \A type \in {"open", "close", "vc_unplug", "intr_data"},
           conn \in {"connected", "disconnected", "none"}, h \in Hosts \cup {NoHost} :
            Event(type, TRUE, conn, h) \in Events /\ ~Inits(Event(type, TRUE, conn, h))
    BY EventIsEvent DEF EventTypes, ConnStates, Event, Inits
  <2>2. peer \in Hosts \cup {NoHost} BY DEF TypeInv, TypeOK
  <2> QED BY <2>1, <2>2
      DEF Stack, HostConnects, LinkOpens, LinkEnds, HostUnplugs, HostReports
<1>4. PICK e \in Events : Post(e) /\ ~Inits(e) BY <1>3
<1>5. Retries BY <1>1, <1>4, PostDrops, SamePending DEF Retries, RetryAhead
<1> QED BY <1>1, <1>2, <1>4, <1>5, PostOnce

\* Steps of app_main.
LEMMA BootRetries ==
    ASSUME TypeInv, TypeInv', OnceInv, InitPeripherals \/ FirstMainTask
    PROVE  OnceInv' /\ Retries
<1>1. UNCHANGED <<link, registered, btc, timers, tmr>>
  BY DEF InitPeripherals, FirstMainTask, bootOnly
<1>2. Pending' <=> Pending BY <1>1, SamePending
<1>3. CASE UNCHANGED events
  <2>1. boot' = "peripherals" => boot = "peripherals"
    BY DEF InitPeripherals, FirstMainTask
  <2>2. Retries BY <1>2, <1>3 DEF Retries, RetryAhead, Dropped
  <2> QED BY <1>1, <1>2, <1>3, <2>1, <2>2, SameOnce
<1>4. ASSUME NEW ok \in BOOLEAN, Post(Event("init", ok, "none", NoHost)),
             boot = "peripherals", boot' = "starting"
      PROVE  OnceInv' /\ Retries
  <2> DEFINE e == Event("init", ok, "none", NoHost)
  <2>1. e \in Events BY EventIsEvent DEF EventTypes, ConnStates
  <2>2. ~Drops(e) BY DEF Event, Drops
  <2>3. Post(e) BY <1>4
  <2> HIDE DEF e
  <2>4. Retries BY <1>2, <2>1, <2>3, PostDrops DEF Retries, RetryAhead
  <2>5. ~registered => link = "down" /\ ~Pending BY DEF OnceInv, RetryAhead
  <2> QED BY <1>1, <1>2, <1>4, <2>1, <2>2, <2>3, <2>4, <2>5, PostOnce
<1> QED BY <1>3, <1>4 DEF InitPeripherals, FirstMainTask

\* Steps of the timer task: a timer that has fired leads to the request, and if that is
\* not refused, to a link.
LEMMA TimerRetries ==
    ASSUME RequestMayFail = FALSE, TypeInv, TypeInv', OnceInv, Timer
    PROVE  OnceInv' /\ Retries
<1>1. UNCHANGED <<boot, btc>> BY DEF Timer, TimerFires, TimerConnect
<1>2. CASE TimerFires
  <2>1. Pending /\ Pending'
    BY <1>2 DEF TimerFires, Pending
  <2>2. UNCHANGED <<events, registered, link>> BY <1>2 DEF TimerFires, stackVars
  <2>3. Retries BY <2>1 DEF Retries, RetryAhead
  <2> QED BY <1>1, <2>1, <2>2, <2>3, SameOnce
<1>3. CASE TimerConnect
  <2>1. Connect(previous) /\ previous \in Hosts /\ Pending
    BY <1>3 DEF TimerConnect, Pending, TypeInv, TypeOK
  <2>2. registered BY <2>1 DEF OnceInv, RetryAhead
  <2> QED BY <1>1, <2>1, <2>2, ConnectRetries
<1> QED BY <1>2, <1>3 DEF Timer

\* Steps of a main task.
LEMMA MainTaskRetries ==
    ASSUME TypeInv, TypeInv', OnceInv, NEW t \in TaskIds, MainTask(t)
    PROVE  OnceInv' /\ Retries
<1>1. UNCHANGED <<boot, btc, timers, tmr>>
  BY DEF MainTask, BootButton, CheckSync, OpenWindow, CloseWindow, ButtonA, notTask
<1>2. Pending' <=> Pending BY <1>1, SamePending
<1>3. previous \in Hosts BY DEF TypeInv, TypeOK
<1>4. Connect(previous) \/ Disconnect \/ UNCHANGED <<link, peer, registered, events>>
  BY DEF MainTask, BootButton, CheckSync, OpenWindow, CloseWindow, ButtonA, stackVars
<1>5. CASE UNCHANGED <<link, peer, registered, events>>
  <2>1. Retries BY <1>2, <1>5 DEF Retries, RetryAhead, Dropped
  <2> QED BY <1>1, <1>2, <1>5, <2>1, SameOnce
<1> QED BY <1>1, <1>2, <1>3, <1>4, <1>5, ConnectRetries, DisconnectRetries

\* Every event that esp_bt_hidd_cb takes: a drop is acted upon.
LEMMA TakeRetries ==
    ASSUME TypeInv, TypeInv', OnceInv,
           OnInit \/ OnRegister \/ OnOpen \/ OnClose \/ OnUnplug \/ OnReport
    PROVE  OnceInv' /\ Retries
<1> DEFINE e == Head(events)
<1>1. /\ UNCHANGED <<boot, link, registered, timers, tmr>> /\ btc.pc = "idle"
      /\ events # <<>> /\ events' = Tail(events)
  BY DEF OnInit, OnRegister, OnOpen, OnClose, OnUnplug, OnReport, Take, stackVars, notBtc
<1>2. /\ btc'.pc = "register_app" => Inits(e)
      /\ Pending' <=> Pending \/ Drops(e)
  <2>1. CASE OnInit
    <3>1. e.type = "init" /\ (Goto("register_app", e) \/ GoIdle)
      BY <2>1 DEF OnInit, Take
    <3>2. btc'.pc \in {"register_app", "idle"} BY <3>1 DEF Goto, GoIdle
    <3> QED BY <1>1, <3>1, <3>2 DEF Inits, Drops, Pending
  <2>2. CASE OnRegister \/ OnOpen \/ OnReport
    <3>1. e.type # "close" BY <2>2 DEF OnRegister, OnOpen, OnReport, Take
    <3>2. btc'.pc \in {"register_connect", "remember", "idle"}
      <4>1. Goto("register_connect", e) \/ Goto("remember", e) \/ GoIdle \/ btc' = btc
        BY <2>2 DEF OnRegister, OnOpen, OnReport
      <4> QED BY <1>1, <4>1 DEF Goto, GoIdle
    <3> QED BY <1>1, <3>1, <3>2 DEF Drops, Pending
  <2>3. CASE OnClose
    <3>1. e.type = "close" /\ IF Drops(e) THEN Goto("shut_delete", e) ELSE GoIdle
      BY <2>3 DEF OnClose, Take, Drops
    <3> QED BY <1>1, <3>1 DEF Goto, GoIdle, Pending
  <2>4. CASE OnUnplug
    <3>1. e.type = "vc_unplug" /\ (Goto("shut_delete", e) \/ GoIdle)
      BY <2>4 DEF OnUnplug, Take
    <3> QED BY <1>1, <3>1 DEF Goto, GoIdle, Drops, Pending
  <2> QED BY <2>1, <2>2, <2>3, <2>4
<1>3. Retries BY <1>1, <1>2, TakeDrops DEF Retries, RetryAhead
<1>4. btc.pc # "register_app" BY <1>1
<1> QED BY <1>1, <1>2, <1>3, <1>4, TakeOnce

\* The rest of esp_bt_hidd_cb: what a drop leads to arms the timer at its end.
LEMMA HandleRetries ==
    ASSUME TypeInv, TypeInv', OnceInv,
           \/ RegisterApp \/ RegisterConnect
           \/ Remember \/ ResetOperationals \/ StartDelete \/ StartCreate
           \/ ShutDelete \/ ShutCreate \/ ShutScan \/ ShutTimer
    PROVE  OnceInv' /\ Retries
<1>1. CASE RegisterApp
  <2>1. /\ btc.pc = "register_app" /\ btc'.pc = "idle"
        /\ UNCHANGED <<boot, link, timers, tmr>>
    BY <1>1 DEF RegisterApp, GoIdle, Goto, notBtc
  <2>2. Pending' <=> Pending BY <2>1 DEF Pending
  <2>3. PICK ok \in BOOLEAN, h \in Hosts \cup {NoHost} :
            Post(Event("register", ok, "none", h)) /\ registered' = ok
    BY <1>1 DEF RegisterApp, TypeInv, TypeOK
  <2> DEFINE e == Event("register", ok, "none", h)
  <2>4. e \in Events BY EventIsEvent DEF EventTypes, ConnStates
  <2>5. ~Inits(e) /\ ~Drops(e) BY DEF Event, Inits, Drops
  <2>6. ~registered /\ link = "down" /\ ~Pending BY <2>1 DEF OnceInv, RetryAhead
  <2>7. Post(e) BY <2>3
  <2> HIDE DEF e
  <2>8. Retries BY <2>2, <2>4, <2>7, PostDrops DEF Retries, RetryAhead
  <2> QED BY <2>1, <2>2, <2>4, <2>5, <2>6, <2>7, <2>8, PostOnce
<1>2. CASE RegisterConnect
  <2>1. /\ btc.pc = "register_connect" /\ btc'.pc = "idle"
        /\ UNCHANGED <<boot, timers, tmr>> /\ Connect(btc.ev.host)
    BY <1>2 DEF RegisterConnect, GoIdle, Goto, notBtc
  <2>2. Pending' <=> Pending BY <2>1 DEF Pending
  <2>3. btc.ev.host \in Hosts BY <2>1 DEF TypeInv, Addressed
  <2> QED BY <2>1, <2>2, <2>3, ConnectRetries
<1>3. ASSUME \/ Remember \/ ResetOperationals \/ StartDelete \/ StartCreate
             \/ ShutDelete \/ ShutCreate \/ ShutScan \/ ShutTimer
      PROVE  OnceInv' /\ Retries
  <2>1. UNCHANGED <<boot, link, registered, events, tmr>>
    BY <1>3 DEF Remember, ResetOperationals, StartDelete, StartCreate,
                ShutDelete, ShutCreate, ShutScan, ShutTimer, stackVars, notBtc
  <2>2. (Pending' <=> Pending) /\ btc'.pc # "register_app"
    <3>1. CASE Remember \/ ResetOperationals \/ StartDelete \/ StartCreate
      <4>1. /\ btc.pc \in {"remember", "start_up", "start_delete", "start_create"}
            /\ timers' = timers
            /\ btc'.pc \in {"start_up", "start_delete", "start_create", "idle"}
        BY <3>1 DEF Remember, ResetOperationals, StartDelete, StartCreate, Goto, GoIdle
      <4> QED BY <2>1, <4>1 DEF Pending
    <3>2. CASE ShutDelete \/ ShutCreate
      <4>1. /\ btc.pc \in {"shut_delete", "shut_create"} /\ timers' = timers
            /\ btc'.pc \in {"shut_create", "shut_scan"} /\ btc'.ev = btc.ev
        BY <3>2 DEF ShutDelete, ShutCreate, Goto
      <4> QED BY <2>1, <4>1 DEF Pending
    <3>3. CASE ShutScan
      <4>1. /\ btc.pc = "shut_scan" /\ timers' = timers
            /\ IF btc.ev.type = "close" THEN Goto("shut_timer", btc.ev) ELSE GoIdle
        BY <3>3 DEF ShutScan
      <4> QED BY <2>1, <4>1 DEF Goto, GoIdle, Pending
    <3>4. CASE ShutTimer
      <4>1. btc.pc = "shut_timer" /\ timers' = timers + 1 /\ btc'.pc = "idle"
        BY <3>4 DEF ShutTimer, GoIdle, Goto
      <4>2. timers \in Nat BY SessionAssumption DEF TypeInv, TypeOK
      <4>3. Pending' BY <4>1, <4>2 DEF Pending
      <4> QED BY <4>1, <4>3 DEF Pending
    <3> QED BY <1>3, <3>1, <3>2, <3>3, <3>4
  <2>3. Retries BY <2>1, <2>2 DEF Retries, RetryAhead, Dropped
  <2> QED BY <2>1, <2>2, <2>3, SameOnce
<1> QED BY <1>1, <1>2, <1>3

LEMMA InitOnce == Init => OnceInv
<1> SUFFICES ASSUME Init PROVE OnceInv OBVIOUS
<1>1. /\ btc.pc = "idle" /\ timers = 0 /\ tmr = "idle" /\ link = "down"
      /\ registered = FALSE /\ events = <<>>
  BY DEF Init
<1>2. 1..Len(events) = {} /\ DOMAIN events = {} BY <1>1
<1>3. ~RetryAhead BY <1>1, <1>2 DEF RetryAhead, Pending, Dropped
<1> QED BY <1>1, <1>2, <1>3 DEF OnceInv, InitAhead

\* Every step.
LEMMA StepRetries ==
    ASSUME RequestMayFail = FALSE, TypeInv, OnceInv, [Next]_vars
    PROVE  OnceInv' /\ Retries
<1>0. TypeInv' BY StepTyped
<1>1. CASE Halted \/ UNCHANGED vars
  <2>1. UNCHANGED vars BY <1>1 DEF Halted
  <2>2. UNCHANGED <<boot, events, registered, link, btc, timers, tmr>> BY <2>1 DEF vars
  <2>3. Pending' <=> Pending BY <2>2, SamePending
  <2>4. Retries BY <2>2, <2>3 DEF Retries, RetryAhead, Dropped
  <2> QED BY <2>2, <2>3, <2>4, SameOnce
<1> QED BY <1>0, <1>1, BootRetries, StackRetries, TimerRetries, MainTaskRetries,
           TakeRetries, HandleRetries DEF Next, Btc

\* A link that was reported closed stays with the event, the callback, a timer or its
\* request until there is a link again: a drop reported while another one is handled,
\* several armed timers or a main task deleted at any point never lose the retry, and a
\* request is never made before the mote is registered, when it would lead to nothing.
\* A request that the stack refuses does lose it.
THEOREM RetryIsNotForgotten ==
    ASSUME RequestMayFail = FALSE
    PROVE  Spec => [][(RetryAhead /\ link = "down") => (RetryAhead' \/ link' # "down")]_vars
<1> DEFINE I == TypeInv /\ OnceInv
<1>1. Init => I BY InitTyped, InitOnce
<1>2. I /\ [Next]_vars => I' BY StepTyped, StepRetries
<1>3. I /\ [Next]_vars =>
          [(RetryAhead /\ link = "down") => (RetryAhead' \/ link' # "down")]_vars
  BY StepRetries DEF Retries
<1> QED BY <1>1, <1>2, <1>3, PTL DEF Spec
============================================================================
