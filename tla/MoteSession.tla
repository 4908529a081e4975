---------------------------- MODULE MoteSession ----------------------------
(***************************************************************************)
(* The connection life cycle of the mote (main/espmote_main.c): the end of *)
(* app_main, the Bluetooth HID callback esp_bt_hidd_cb, the reconnect      *)
(* timer and the one "main task" (mote_hid_main_task while connected,      *)
(* mote_other_main_task otherwise) whose handle is s_bt_hid_param.task_hdl.*)
(*                                                                         *)
(* Four threads of control interleave here:                                *)
(*   - app_main, until it has created the first main task;                 *)
(*   - the BTC task, which runs esp_bt_hidd_cb for one event at a time;    *)
(*   - the esp_timer task, which runs reconnect_callback;                  *)
(*   - the main task, which BTC may delete between any two of its steps.   *)
(* The Bluetooth stack below the callback is not under src/: it is modelled*)
(* from the calls the source makes and the events it handles.              *)
(***************************************************************************)
EXTENDS Naturals, Sequences

CONSTANTS
    Hosts,              \* Bluetooth addresses of consoles
    NoHost,             \* "no address"
    DefaultWii,         \* initial value of previous_connected_wii
    TaskIds,            \* main tasks that may exist at the same time
    NoTask,             \* a NULL task handle
    ConnectDuringBoot,  \* may a link come up before app_main is done?
    RequestMayFail,     \* may esp_bt_hid_device_connect return an error?
    MaxEvents,          \* bound on undelivered stack events
    MaxTimers           \* bound on armed reconnect timers

ASSUME SessionAssumption ==
    /\ NoHost \notin Hosts
    /\ DefaultWii \in Hosts
    /\ NoTask \notin TaskIds
    /\ ConnectDuringBoot \in BOOLEAN
    /\ RequestMayFail \in BOOLEAN
    /\ MaxEvents \in Nat
    /\ MaxTimers \in Nat

VARIABLES
    boot,       \* progress of app_main
    link,       \* state of the HID link inside the stack
    peer,       \* address at the other end of the link
    registered, \* the stack has registered the HID application
    known,      \* hosts that hold a bond with the mote
    events,     \* stack events not yet delivered to esp_bt_hidd_cb
    scan,       \* last scan mode given to esp_bt_gap_set_scan_mode
    btc,        \* position inside esp_bt_hidd_cb and the event it handles
    timers,     \* armed one-shot reconnect timers
    tmr,        \* position inside reconnect_callback
    attempt,    \* attempt_to_reconnect
    previous,   \* previous_connected_wii
    ops,        \* host whose reports set reportingMode, status_byte, ...
    task,       \* the main tasks that exist
    task_hdl    \* s_bt_hid_param.task_hdl

stackVars == <<link, peer, registered, known>>
vars == <<boot, link, peer, registered, known, events, scan, btc, timers, tmr,
          attempt, previous, ops, task, task_hdl>>

----------------------------------------------------------------------------
Kinds == {"hid", "other"}
Absent == [kind |-> "none", pc |-> "none"]

\* The main loops, cut at their calls into the Bluetooth stack.
HidSteps   == {"boot_button", "sync", "window_open", "window"}
OtherSteps == {"sync", "window_open", "window", "button_a"}
Loops == [kind : {"hid"}, pc : HidSteps] \cup [kind : {"other"}, pc : OtherSteps]
Start(kind) == [kind |-> kind,
                pc   |-> IF kind = "hid" THEN "boot_button" ELSE "sync"]

Scans == [connectable : BOOLEAN, discoverable : BOOLEAN]
Scan(c, d) == [connectable |-> c, discoverable |-> d]

EventTypes == {"init", "register", "open", "close", "vc_unplug", "intr_data"}
ConnStates == {"none", "connecting", "connected", "disconnecting", "disconnected"}
Events == [type : EventTypes, ok : BOOLEAN, conn : ConnStates,
           host : Hosts \cup {NoHost}]
Event(type, ok, conn, host) ==
    [type |-> type, ok |-> ok, conn |-> conn, host |-> host]
NoEvent == Event("init", FALSE, "none", NoHost)

BtcSteps == {"idle", "register_app", "register_connect",
             "remember", "start_up", "start_delete", "start_create",
             "shut_delete", "shut_create", "shut_scan", "shut_timer"}

TypeOK ==
    /\ boot \in {"peripherals", "starting", "done", "failed"}
    /\ link \in {"down", "opening", "up", "closing"}
    /\ peer \in Hosts \cup {NoHost}
    /\ registered \in BOOLEAN
    /\ known \in SUBSET Hosts
    /\ events \in Seq(Events)
    /\ scan \in Scans
    /\ btc \in [pc : BtcSteps, ev : Events]
    /\ timers \in 0..MaxTimers
    /\ tmr \in {"idle", "connect"}
    /\ attempt \in BOOLEAN
    /\ previous \in Hosts
    /\ ops \in Hosts \cup {NoHost}
    /\ task \in [TaskIds -> Loops \cup {Absent}]
    /\ task_hdl \in TaskIds \cup {NoTask}

Init ==
    /\ boot = "peripherals"
    /\ link = "down"
    /\ peer = NoHost
    /\ registered = FALSE
    /\ known \in SUBSET Hosts
    /\ events = <<>>
    /\ scan = Scan(FALSE, FALSE)
    /\ btc = [pc |-> "idle", ev |-> NoEvent]
    /\ timers = 0
    /\ tmr = "idle"
    /\ attempt = FALSE
    /\ previous = DefaultWii
    /\ ops = NoHost
    /\ task = [t \in TaskIds |-> Absent]
    /\ task_hdl = NoTask

----------------------------------------------------------------------------
(***************************************************************************)
(* The Bluetooth stack. A request made with the link in the wrong state is *)
(* answered by an event that reports the failure; an accepted one by a     *)
(* "connecting"/"disconnecting" event, and by the outcome later.           *)
(* MaxEvents bounds what the hosts, the radio and the buttons add to the   *)
(* queue; requests the program makes by itself are never held back.        *)
(***************************************************************************)
CanPost == Len(events) < MaxEvents
Post(e) == events' = Append(events, e)

\* esp_bt_hid_device_connect(h), the call accepted.
Connect(h) ==
    /\ IF registered /\ link = "down"
       THEN /\ link' = "opening"
            /\ peer' = h
            /\ Post(Event("open", TRUE, "connecting", h))
       ELSE /\ Post(Event("open", FALSE, "disconnected", h))
            /\ UNCHANGED <<link, peer>>
    /\ UNCHANGED <<registered, known>>

\* esp_bt_hid_device_disconnect()
Disconnect ==
    /\ IF link = "up"
       THEN link' = "closing" /\ Post(Event("close", TRUE, "disconnecting", peer))
       ELSE Post(Event("close", FALSE, "disconnected", NoHost)) /\ UNCHANGED link
    /\ UNCHANGED <<peer, registered, known>>

\* The guard that keeps links from forming or failing while app_main is still
\* between esp_bt_hid_device_init and its last xTaskCreate.
LinksAllowed == ConnectDuringBoot \/ boot = "done"

\* A host pages the mote: one that holds a bond needs it connectable, one that
\* does not must also have discovered it.
HostConnects(h) ==
    /\ registered /\ LinksAllowed /\ CanPost
    /\ link = "down"
    /\ scan.connectable
    /\ h \in known \/ scan.discoverable
    /\ link' = "up"
    /\ peer' = h
    /\ known' = known \cup {h}
    /\ Post(Event("open", TRUE, "connected", h))
    /\ UNCHANGED <<boot, registered, scan, btc, timers, tmr, attempt, previous,
                   ops, task, task_hdl>>

\* The attempt the mote itself made succeeds ...
LinkOpens ==
    /\ link = "opening" /\ LinksAllowed /\ CanPost
    /\ link' = "up"
    /\ known' = known \cup {peer}
    /\ Post(Event("open", TRUE, "connected", peer))
    /\ UNCHANGED <<boot, peer, registered, scan, btc, timers, tmr, attempt,
                   previous, ops, task, task_hdl>>

\* ... or fails, or an open link ends: by our own request, because the host
\* left, or because the radio lost it. All are reported as a closed link.
LinkEnds ==
    /\ link # "down" /\ LinksAllowed /\ CanPost
    /\ link' = "down"
    /\ peer' = NoHost
    /\ Post(Event("close", TRUE, "disconnected", peer))
    /\ UNCHANGED <<boot, registered, known, scan, btc, timers, tmr, attempt,
                   previous, ops, task, task_hdl>>

\* The host removes the virtual cable.
HostUnplugs ==
    /\ link = "up" /\ CanPost
    /\ link' = "down"
    /\ peer' = NoHost
    /\ known' = known \ {peer}
    /\ Post(Event("vc_unplug", TRUE, "disconnected", peer))
    /\ UNCHANGED <<boot, registered, scan, btc, timers, tmr, attempt, previous,
                   ops, task, task_hdl>>

\* The host sends an output report that changes the operational variables.
HostReports ==
    /\ link = "up" /\ CanPost
    /\ Post(Event("intr_data", TRUE, "none", peer))
    /\ UNCHANGED <<boot, link, peer, registered, known, scan, btc, timers, tmr,
                   attempt, previous, ops, task, task_hdl>>

Stack == \/ \E h \in Hosts : HostConnects(h)
         \/ LinkOpens \/ LinkEnds \/ HostUnplugs \/ HostReports

----------------------------------------------------------------------------
(***************************************************************************)
(* app_main: the peripherals (any failure returns for good), then          *)
(* esp_bt_hid_device_init, and only after the ADC, PIN and sensor set-up   *)
(* the first main task.                                                    *)
(***************************************************************************)
bootOnly == <<link, peer, registered, known, scan, btc, timers, tmr, attempt,
              previous, ops>>

InitPeripherals ==
    /\ boot = "peripherals"
    /\ \/ boot' = "failed" /\ UNCHANGED events
       \/ /\ boot' = "starting"
          /\ \E ok \in BOOLEAN : Post(Event("init", ok, "none", NoHost))
    /\ UNCHANGED <<bootOnly, task, task_hdl>>

\* xTaskCreate(f, ..., &s_bt_hid_param.task_hdl): the handle is written before
\* the new task can run; whatever it held before is overwritten.
CreateMainTask(kind) ==
    \E t \in TaskIds :
        /\ task[t] = Absent
        /\ task' = [task EXCEPT ![t] = Start(kind)]
        /\ task_hdl' = t

\* Mutant of DeleteMainTask: the handle is cleared, the task lives on.
ForgetMainTask == task_hdl' = NoTask /\ UNCHANGED task

\* if (task_hdl) { vTaskDelete(task_hdl); task_hdl = NULL; }
DeleteMainTask ==
    /\ task_hdl' = NoTask
    /\ task' = IF task_hdl = NoTask THEN task
               ELSE [task EXCEPT ![task_hdl] = Absent]

FirstMainTask ==
    /\ boot = "starting"
    /\ boot' = "done"
    /\ CreateMainTask("other")
    /\ UNCHANGED <<bootOnly, events>>

\* app_main returned early: nothing runs any more.
Halted == boot = "failed" /\ UNCHANGED vars

----------------------------------------------------------------------------
(***************************************************************************)
(* esp_bt_hidd_cb, run by the BTC task for one event at a time.            *)
(***************************************************************************)
Goto(pc, e) == btc' = [pc |-> pc, ev |-> e]
GoIdle == Goto("idle", NoEvent)

Take(type) ==
    /\ btc.pc = "idle"
    /\ events # <<>>
    /\ Head(events).type = type

notBtc == <<boot, tmr>>

\* ESP_HIDD_INIT_EVT
OnInit ==
    /\ Take("init")
    /\ events' = Tail(events)
    /\ IF Head(events).ok THEN Goto("register_app", Head(events)) ELSE GoIdle
    /\ UNCHANGED <<notBtc, stackVars, scan, timers, attempt, previous, ops, task,
                   task_hdl>>

\* esp_bt_hid_device_register_app: the stack answers with its outcome and, if
\* it holds a virtual cable, that host's address ("in_use").
RegisterApp ==
    /\ btc.pc = "register_app"
    /\ \/ /\ registered' = TRUE
          /\ \E h \in known \cup {NoHost} : Post(Event("register", TRUE, "none", h))
       \/ /\ registered' = FALSE
          /\ Post(Event("register", FALSE, "none", NoHost))
    /\ GoIdle
    /\ UNCHANGED <<notBtc, link, peer, known, scan, timers, attempt, previous, ops,
                   task, task_hdl>>

\* ESP_HIDD_REGISTER_APP_EVT
OnRegister ==
    /\ Take("register")
    /\ events' = Tail(events)
    /\ IF Head(events).ok
       THEN /\ scan' = Scan(TRUE, FALSE)
            /\ IF Head(events).host # NoHost
               THEN Goto("register_connect", Head(events))
               ELSE GoIdle
       ELSE GoIdle /\ UNCHANGED scan
    /\ UNCHANGED <<notBtc, stackVars, timers, attempt, previous, ops, task, task_hdl>>

RegisterConnect ==
    /\ btc.pc = "register_connect"
    /\ Connect(btc.ev.host)
    /\ GoIdle
    /\ UNCHANGED <<notBtc, scan, timers, attempt, previous, ops, task, task_hdl>>

\* ESP_HIDD_OPEN_EVT: any success hides the mote, also "connecting".
OnOpen ==
    /\ Take("open")
    /\ events' = Tail(events)
    /\ IF Head(events).ok
       THEN /\ scan' = Scan(FALSE, FALSE)
            /\ IF Head(events).conn = "connected"
               THEN Goto("remember", Head(events))
               ELSE GoIdle
       ELSE GoIdle /\ UNCHANGED scan
    /\ UNCHANGED <<notBtc, stackVars, timers, attempt, previous, ops, task, task_hdl>>

\* Mutant of Remember: the address is kept when this counts as a reconnect.
RememberFirst ==
    /\ btc.pc = "remember"
    /\ previous' = IF attempt THEN previous ELSE btc.ev.host
    /\ Goto("start_up", btc.ev)
    /\ UNCHANGED <<notBtc, stackVars, events, scan, timers, attempt, ops, task,
                   task_hdl>>

\* memcpy(previous_connected_wii, param->open.bd_addr, 6)
Remember ==
    /\ btc.pc = "remember"
    /\ previous' = btc.ev.host
    /\ Goto("start_up", btc.ev)
    /\ UNCHANGED <<notBtc, stackVars, events, scan, timers, attempt, ops, task,
                   task_hdl>>

\* Mutant of ResetOperationals: attempt_to_reconnect is not set.
ResetAlways ==
    /\ btc.pc = "start_up"
    /\ ops' = IF attempt THEN ops ELSE NoHost
    /\ Goto("start_delete", btc.ev)
    /\ UNCHANGED <<notBtc, stackVars, events, scan, timers, attempt, previous, task,
                   task_hdl>>

\* bt_hid_task_start_up, first part: reset unless this is taken for a reconnect.
ResetOperationals ==
    /\ btc.pc = "start_up"
    /\ ops' = IF attempt THEN ops ELSE NoHost
    /\ attempt' = TRUE
    /\ Goto("start_delete", btc.ev)
    /\ UNCHANGED <<notBtc, stackVars, events, scan, timers, previous, task, task_hdl>>

\* bt_hid_task_start_up, second part.
StartDelete ==
    /\ btc.pc = "start_delete"
    /\ DeleteMainTask
    /\ Goto("start_create", btc.ev)
    /\ UNCHANGED <<notBtc, stackVars, events, scan, timers, attempt, previous, ops>>

StartCreate ==
    /\ btc.pc = "start_create"
    /\ CreateMainTask("hid")
    /\ GoIdle
    /\ UNCHANGED <<notBtc, stackVars, events, scan, timers, attempt, previous, ops>>

\* ESP_HIDD_CLOSE_EVT: only "disconnected" is acted upon.
OnClose ==
    /\ Take("close")
    /\ events' = Tail(events)
    /\ IF Head(events).ok /\ Head(events).conn = "disconnected"
       THEN Goto("shut_delete", Head(events))
       ELSE GoIdle
    /\ UNCHANGED <<notBtc, stackVars, scan, timers, attempt, previous, ops, task,
                   task_hdl>>

\* Mutant of OnUnplug: bt_hid_task_shut_down is not called.
OnUnplugNoShutDown ==
    /\ Take("vc_unplug")
    /\ events' = Tail(events)
    /\ Goto("shut_scan", Head(events))
    /\ UNCHANGED <<notBtc, stackVars, scan, timers, attempt, previous, ops, task,
                   task_hdl>>

\* ESP_HIDD_VC_UNPLUG_EVT
OnUnplug ==
    /\ Take("vc_unplug")
    /\ events' = Tail(events)
    /\ IF Head(events).ok /\ Head(events).conn = "disconnected"
       THEN Goto("shut_delete", Head(events))
       ELSE GoIdle
    /\ UNCHANGED <<notBtc, stackVars, scan, timers, attempt, previous, ops, task,
                   task_hdl>>

\* bt_hid_task_shut_down
ShutDelete ==
    /\ btc.pc = "shut_delete"
    /\ DeleteMainTask
    /\ Goto("shut_create", btc.ev)
    /\ UNCHANGED <<notBtc, stackVars, events, scan, timers, attempt, previous, ops>>

ShutCreate ==
    /\ btc.pc = "shut_create"
    /\ CreateMainTask("other")
    /\ Goto("shut_scan", btc.ev)
    /\ UNCHANGED <<notBtc, stackVars, events, scan, timers, attempt, previous, ops>>

\* Mutant of ShutScan: the scan mode is left as the OPEN event set it.
ShutNoScan ==
    /\ btc.pc = "shut_scan"
    /\ IF btc.ev.type = "close" THEN Goto("shut_timer", btc.ev) ELSE GoIdle
    /\ UNCHANGED <<notBtc, stackVars, events, scan, timers, attempt, previous, ops,
                   task, task_hdl>>

\* Mutant of ShutScan: a closed link arms no timer.
ShutNoTimer ==
    /\ btc.pc = "shut_scan"
    /\ scan' = Scan(TRUE, FALSE)
    /\ GoIdle
    /\ UNCHANGED <<notBtc, stackVars, events, timers, attempt, previous, ops, task,
                   task_hdl>>

\* Connectable again; a closed link, unlike an unplugged one, is also retried.
ShutScan ==
    /\ btc.pc = "shut_scan"
    /\ scan' = Scan(TRUE, FALSE)
    /\ IF btc.ev.type = "close" THEN Goto("shut_timer", btc.ev) ELSE GoIdle
    /\ UNCHANGED <<notBtc, stackVars, events, timers, attempt, previous, ops, task,
                   task_hdl>>

\* esp_timer_create and esp_timer_start_once, 2.5 s; the timer is never deleted
\* and an armed one is never stopped.
ShutTimer ==
    /\ btc.pc = "shut_timer"
    /\ timers < MaxTimers
    /\ timers' = timers + 1
    /\ GoIdle
    /\ UNCHANGED <<notBtc, stackVars, events, scan, attempt, previous, ops, task,
                   task_hdl>>

\* ESP_HIDD_INTR_DATA_EVT: handle_output_reports sets the operational variables.
OnReport ==
    /\ Take("intr_data")
    /\ events' = Tail(events)
    /\ ops' = Head(events).host
    /\ UNCHANGED <<notBtc, btc, stackVars, scan, timers, attempt, previous, task,
                   task_hdl>>

Btc == \/ OnInit \/ RegisterApp \/ OnRegister \/ RegisterConnect
       \/ OnOpen \/ Remember \/ ResetOperationals \/ StartDelete \/ StartCreate
       \/ OnClose \/ OnUnplug \/ ShutDelete \/ ShutCreate \/ ShutScan \/ ShutTimer
       \/ OnReport

----------------------------------------------------------------------------
(***************************************************************************)
(* reconnect_callback, run by the esp_timer task.                          *)
(***************************************************************************)
\* Mutant of TimerFires: a periodic timer, which fires again once it has fired.
TimerFiresAgain ==
    /\ tmr = "idle" /\ boot = "done"
    /\ timers' = timers - 1
    /\ tmr' = "connect"
    /\ attempt' = TRUE
    /\ UNCHANGED <<boot, stackVars, events, scan, btc, previous, ops, task, task_hdl>>

TimerFires ==
    /\ tmr = "idle" /\ timers > 0
    /\ timers' = timers - 1
    /\ tmr' = "connect"
    /\ attempt' = TRUE
    /\ UNCHANGED <<boot, stackVars, events, scan, btc, previous, ops, task, task_hdl>>

\* A refused call (no memory for the request) clears the flag again.
TimerConnect ==
    /\ tmr = "connect"
    /\ tmr' = "idle"
    /\ \/ Connect(previous) /\ UNCHANGED attempt
       \/ RequestMayFail /\ attempt' = FALSE /\ UNCHANGED <<stackVars, events>>
    /\ UNCHANGED <<boot, scan, btc, timers, previous, ops, task, task_hdl>>

Timer == TimerFires \/ TimerConnect

----------------------------------------------------------------------------
(***************************************************************************)
(* The main tasks. A deleted task takes no further step.                   *)
(***************************************************************************)
At(t, pc) == task[t] # Absent /\ task[t].pc = pc
Advance(t, pc) == task' = [task EXCEPT ![t].pc = pc]
notTask == <<boot, btc, timers, tmr, attempt, previous, ops, task_hdl>>

\* mote_hid_main_task: the BOOT button disconnects.
BootButton(t) ==
    /\ At(t, "boot_button")
    /\ Advance(t, "sync")
    /\ \/ CanPost /\ Disconnect
       \/ UNCHANGED <<stackVars, events>>
    /\ UNCHANGED <<notTask, scan>>

AfterSync(t) == IF task[t].kind = "hid" THEN "boot_button" ELSE "button_a"

\* check_sync with the SYNC button up, or down: disconnect first.
CheckSync(t) ==
    /\ At(t, "sync")
    /\ \/ Advance(t, AfterSync(t)) /\ UNCHANGED <<stackVars, events>>
       \/ Advance(t, "window_open") /\ CanPost /\ Disconnect
    /\ UNCHANGED <<notTask, scan>>

\* check_sync: discoverable for the 100 steps of the LED loop ...
OpenWindow(t) ==
    /\ At(t, "window_open")
    /\ scan' = Scan(TRUE, TRUE)
    /\ Advance(t, "window")
    /\ UNCHANGED <<notTask, stackVars, events>>

\* ... and then connectable only.
CloseWindow(t) ==
    /\ At(t, "window")
    /\ scan' = Scan(TRUE, FALSE)
    /\ Advance(t, AfterSync(t))
    /\ UNCHANGED <<notTask, stackVars, events>>

\* mote_other_main_task: button A asks for the previous host; the result is
\* only logged.
ButtonA(t) ==
    /\ At(t, "button_a")
    /\ Advance(t, "sync")
    /\ \/ CanPost /\ Connect(previous)
       \/ UNCHANGED <<stackVars, events>>
    /\ UNCHANGED <<notTask, scan>>

MainTask(t) == \/ BootButton(t) \/ CheckSync(t) \/ OpenWindow(t)
               \/ CloseWindow(t) \/ ButtonA(t)

----------------------------------------------------------------------------
Next == \/ InitPeripherals \/ FirstMainTask \/ Halted
        \/ Stack \/ Btc \/ Timer
        \/ \E t \in TaskIds : MainTask(t)

Spec == Init /\ [][Next]_vars

----------------------------------------------------------------------------
(***************************************************************************)
(* Properties                                                              *)
(***************************************************************************)
Live == {t \in TaskIds : task[t] # Absent}

\* Nothing is left for esp_bt_hidd_cb to do.
Quiescent == btc.pc = "idle" /\ events = <<>>

\* bt_hid_task_start_up and bt_hid_task_shut_down delete "the" main task
\* through s_bt_hid_param.task_hdl. They can only do so if every main task that
\* exists is the one the handle names, and the handle never names a deleted
\* one: no loop is orphaned and no task is deleted twice.
OneMainTask == Live = {task_hdl} \ {NoTask}

\* Once the callback has caught up with the stack, the loop that runs is the
\* one for the state of the link ("main loop ... begun on successful bluetooth
\* connection", "alternate loop ... running when no bluetooth").
LoopMatchesLink ==
    (boot = "done" /\ Quiescent) =>
        /\ Live # {}
        /\ \A t \in Live :
              (task[t].kind = "hid") <=> (link \in {"up", "closing"})

\* A registered mote without a link, a pending event or an attempt of its own
\* can be paged: the scan mode closed by an OPEN event is always given back,
\* also after an attempt that was announced and then failed.
Findable ==
    (Quiescent /\ registered /\ link = "down") => scan.connectable

\* The host that will be retried (timer and button A) is the host of the
\* present link, whoever was connected before.
RetriesPresentHost ==
    (Quiescent /\ link \in {"up", "closing"}) => previous = peer

\* What a host configured (reporting mode, status byte) survives every drop of
\* the link, provided the stack never refuses a reconnect request: the reset in
\* bt_hid_task_start_up is for the first session only.
ConfigurationKept == [][ops # NoHost => ops' # NoHost]_vars

\* The FreeRTOS scheduler and the esp_timer task run what is ready, and
\* app_main is never stopped; nothing is assumed of hosts, radio or buttons.
Fairness == /\ WF_vars(InitPeripherals \/ FirstMainTask)
            /\ WF_vars(Btc)
            /\ WF_vars(Timer)
FairSpec == Spec /\ Fairness

\* A link that was reported closed is retried without anybody's help (the
\* reconnect timer), unless the host comes back first. Holds when reconnect
\* requests are not refused.
Dropped == \E i \in DOMAIN events :
               /\ events[i].type = "close" /\ events[i].ok
               /\ events[i].conn = "disconnected"
DropIsRetried == Dropped ~> link # "down"

----------------------------------------------------------------------------
(***************************************************************************)
(* The life cycle of the main tasks implements LoopSwitch.                 *)
(***************************************************************************)
Phase ==
    IF boot # "done" THEN "boot"
    ELSE IF Live = {} THEN IF btc.pc = "start_create" THEN "to_hid" ELSE "to_other"
    ELSE IF \A t \in Live : task[t].kind = "hid" THEN "hid"
    ELSE IF \A t \in Live : task[t].kind = "other" THEN "other"
    ELSE "both"

Abstract == INSTANCE LoopSwitch WITH phase <- Phase

\* The HID loop only takes over from the other loop (a second connection is
\* never opened over a loop that was not shut down), the two never coexist, and
\* a replacement is always finished.
ImplementsLoopSwitch == Abstract!Spec
============================================================================
