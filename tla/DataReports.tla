---------------------------- MODULE DataReports ----------------------------
(***************************************************************************)
(* The input data reports 0x30 to 0x3d (main/espmote_main.c): a call of    *)
(* mote_input_data_core samples buttons, accelerometer and IR camera,      *)
(* fills the shared buffer core_input_report for the reporting mode,       *)
(* compares it with core_input_report_old and sends it if it is new.       *)
(*                                                                         *)
(* Two threads call it over the same buffers without a lock: the HID loop  *)
(* on every turn, and the BTC task when the host sets the reporting mode.  *)
(* A report is cut into cells at the offsets where some mode puts another  *)
(* source. Cell 0 is the button bits of the first two bytes, cell 1 their  *)
(* spare bits (where the accelerometer puts its low bits), cell n > 1 the  *)
(* bytes from n up to the next cell.                                       *)
(***************************************************************************)
EXTENDS Naturals, Sequences

CONSTANTS
    Values,     \* readings of a sensor
    Changing,   \* the sensors whose reading changes
    Overlap,    \* may both threads be inside mote_input_data_core?
    MaxChanges  \* bound on what the world and the host change

ASSUME DataAssumption ==
    /\ Values # {}
    /\ Changing \subseteq {"buttons", "accel", "ir", "extension", "gyro"}
    /\ Overlap \in BOOLEAN
    /\ MaxChanges \in Nat

Sensors == {"buttons", "accel", "ir", "extension", "gyro"}
Threads == {"main", "btc"}
Cells == {0, 1, 2, 5, 10, 12, 15, 17}
Within(p, n) == {c \in Cells : p <= c /\ c < p + n}

\* What a cell holds: the reading of a sensor, or FF or zero bytes.
Contents == [from : Sensors, reading : Values]
            \cup [from : {"FF", "zero"}, reading : {CHOOSE v \in Values : TRUE}]
Of(sensor, v) == [from |-> sensor, reading |-> v]
Fixed(byte) == Of(byte, CHOOSE v \in Values : TRUE)
AllFF == [c \in Cells |-> Fixed("FF")]

----------------------------------------------------------------------------
(***************************************************************************)
(* The cases of the switch. Every mode but 3d starts with the buttons; the *)
(* other sources are loaded in this order at an offset for a length.       *)
(***************************************************************************)
Modes == {"30", "31", "32", "33", "34", "35", "36", "37", "3d", "3e"}
Load(source, p, n) == [source |-> source, at |-> p, cells |-> Within(p, n)]
Buttons == Load("buttons", 0, 2)
Accel == [source |-> "accel", at |-> 2, cells |-> Within(2, 3) \cup {1}]

\* Mutant of Loads: mode 37 puts the extension where mode 36 has it.
LoadsOverIr == [m \in Modes |->
    CASE m = "30" -> <<Buttons>>
      [] m = "31" -> <<Buttons, Accel>>
      [] m = "32" -> <<Buttons, Load("port", 2, 8)>>
      [] m = "33" -> <<Buttons, Accel, Load("ir_extended", 5, 12)>>
      [] m = "34" -> <<Buttons, Load("port", 2, 19)>>
      [] m = "35" -> <<Buttons, Accel, Load("port", 5, 16)>>
      [] m = "36" -> <<Buttons, Load("ir_basic", 5, 10), Load("port", 12, 9)>>
      [] m = "37" -> <<Buttons, Accel, Load("ir_basic", 5, 10), Load("port", 12, 6)>>
      [] m = "3d" -> <<Load("port", 0, 21)>>
      [] m = "3e" -> <<>>]

Loads == [m \in Modes |->
    CASE m = "30" -> <<Buttons>>
      [] m = "31" -> <<Buttons, Accel>>
      [] m = "32" -> <<Buttons, Load("port", 2, 8)>>
      [] m = "33" -> <<Buttons, Accel, Load("ir_extended", 5, 12)>>
      [] m = "34" -> <<Buttons, Load("port", 2, 19)>>
      [] m = "35" -> <<Buttons, Accel, Load("port", 5, 16)>>
      [] m = "36" -> <<Buttons, Load("ir_basic", 5, 10), Load("port", 12, 9)>>
      [] m = "37" -> <<Buttons, Accel, Load("ir_basic", 5, 10), Load("port", 15, 6)>>
      [] m = "3d" -> <<Load("port", 0, 21)>>
      [] m = "3e" -> <<>>]

\* The cells that are sent and remembered, and those compared before: the
\* same, but for mode 33.
Sent(m) == Within(0, CASE m = "30" -> 2 [] m = "31" -> 5 [] m = "32" -> 10
                       [] m = "33" -> 17 [] OTHER -> 21)
Compared(m) == IF m = "33" THEN Within(0, 21) ELSE Sent(m)

VARIABLES
    sensor,     \* what each sensor reads
    port,       \* who answers for the extension port
    camera,     \* IR_camera_settings[0x33]
    mode,       \* reportingMode
    interleave, \* static bool interleave
    array,      \* button_array
    raw,        \* ir_raw_buffer
    buf,        \* core_input_report
    old,        \* core_input_report_old
    thread,     \* per thread: where it is, and the locals of the call
    view,       \* history: the last report sent in this session
    owed,       \* history: no report remembered since old was filled with FF
    missed,     \* history: the last report remembered could not be sent
    changes     \* history: number of changes so far

vars == <<sensor, port, camera, mode, interleave, array, raw, buf, old, thread,
          view, owed, missed, changes>>
world == <<sensor, port, camera, changes>>

\* "unsupported": the MotionPlus in a pass-through mode other than the Nunchuk's.
Ports == {"empty", "extension", "motionplus", "passthrough_empty", "passthrough",
          "unsupported"}
Cameras == {"off", "basic", "extended"}
Idle == [pc |-> "idle", accel |-> CHOOSE v \in Values : TRUE,
         buttons |-> CHOOSE v \in Values : TRUE, mode |-> "3e", left |-> 0,
         whole |-> TRUE]
NoView == [mode |-> "none", cells |-> AllFF, whole |-> TRUE]

TypeOK ==
    /\ sensor \in [Sensors -> Values]
    /\ port \in Ports
    /\ camera \in Cameras
    /\ mode \in Modes
    /\ interleave \in BOOLEAN
    /\ array \in Values
    /\ raw \in Values
    /\ buf \in [Cells -> Contents]
    /\ old \in [Cells -> Contents]
    /\ thread \in [Threads ->
          [pc : {"idle", "reopened", "reset", "sample", "switch", "load", "check",
                 "send", "copy"},
           accel : Values, buttons : Values, mode : Modes, left : 0..4,
           whole : BOOLEAN]]
    /\ view \in [mode : Modes \cup {"none"}, cells : [Cells -> Contents],
                 whole : BOOLEAN]
    /\ owed \in BOOLEAN
    /\ missed \in BOOLEAN
    /\ changes \in 0..MaxChanges

\* A link has just opened for the first time: all buffers are still zero.
Init ==
    /\ \E v \in Values : /\ sensor = [s \in Sensors |-> v]
                         /\ array = v /\ raw = v
    /\ port \in Ports
    /\ camera \in Cameras
    /\ mode = "30"
    /\ interleave = FALSE
    /\ buf = [c \in Cells |-> Fixed("zero")]
    /\ old = AllFF
    /\ thread = [t \in Threads |-> Idle]
    /\ view = NoView
    /\ owed = TRUE
    /\ missed = FALSE
    /\ changes = 0

----------------------------------------------------------------------------
(***************************************************************************)
(* The world, and the settings other parts of the program change.          *)
(***************************************************************************)
Change == changes < MaxChanges /\ changes' = changes + 1

Reads(s, v) ==
    /\ Change /\ s \in Changing
    /\ sensor' = [sensor EXCEPT ![s] = v]
    /\ UNCHANGED <<port, camera, mode, interleave, array, raw, buf, old, thread,
                   view, owed, missed>>

PortBecomes(p) ==
    /\ Change
    /\ port' = p
    /\ UNCHANGED <<sensor, camera, mode, interleave, array, raw, buf, old, thread,
                   view, owed, missed>>

CameraBecomes(c) ==
    /\ Change
    /\ camera' = c
    /\ UNCHANGED <<sensor, port, mode, interleave, array, raw, buf, old, thread,
                   view, owed, missed>>

----------------------------------------------------------------------------
(***************************************************************************)
(* O_DATA_REPORTING_MODE and ESP_HIDD_OPEN_EVT, by the BTC task.           *)
(***************************************************************************)
At(t, pc) == thread[t].pc = pc
Goto(t, pc) == thread' = [thread EXCEPT ![t].pc = pc]
BtcMayStart == At("btc", "idle") /\ (Overlap \/ At("main", "idle"))

HostModes == Modes \cup {"3f"}

\* 3e and 3f are both stored as 3e. 3e stands for every mode without a report.
SetMode(m) ==
    /\ Change /\ BtcMayStart
    /\ mode' = IF m = "3f" THEN "3e" ELSE m
    /\ Goto("btc", "reset")
    /\ UNCHANGED <<sensor, port, camera, interleave, array, raw, buf, old, view,
                   owed, missed>>

\* The link comes back: bt_hid_task_start_up replaces the main task, wherever it
\* is (attempt_to_reconnect is set: the mode stays).
Reopen ==
    /\ Change /\ BtcMayStart
    /\ thread' = [thread EXCEPT !["main"] = Idle, !["btc"].pc = "reopened"]
    /\ view' = NoView
    /\ UNCHANGED <<sensor, port, camera, mode, interleave, array, raw, buf, old, owed,
                   missed>>

\* memset(core_input_report_old, 0xFF, 21)
Reset ==
    /\ At("btc", "reset") \/ At("btc", "reopened")
    /\ old' = AllFF
    /\ owed' = TRUE
    /\ missed' = FALSE
    /\ Goto("btc", IF At("btc", "reset") THEN "sample" ELSE "idle")
    /\ UNCHANGED <<world, mode, interleave, array, raw, buf, view>>

----------------------------------------------------------------------------
(***************************************************************************)
(* mote_input_data_core(false), by thread t.                               *)
(***************************************************************************)
\* The HID loop turns: load_button_array, then the call.
Turn ==
    /\ At("main", "idle")
    /\ Overlap \/ At("btc", "idle")
    /\ array' = sensor["buttons"]
    /\ Goto("main", "sample")
    /\ UNCHANGED <<world, mode, interleave, raw, buf, old, view, owed, missed>>

SampleAs(t, accel, ir) ==
    /\ At(t, "sample")
    /\ raw' = ir
    /\ thread' = [thread EXCEPT ![t] = [@ EXCEPT !.pc = "switch",
                     !.buttons = array, !.accel = accel]]
    /\ UNCHANGED <<sensor, port, camera, mode, interleave, array, buf, old, view,
                   owed, missed>>

Sample(t) == SampleAs(t, sensor["accel"], sensor["ir"]) /\ UNCHANGED changes

\* A failed read leaves the three automatic variables uninitialised, or the raw IR
\* bytes as they are; nothing stops the report.
SampleFails(t) ==
    /\ Change
    /\ \E v \in Values, ir \in {raw, sensor["ir"]} : SampleAs(t, v, ir)

\* switch (reportingMode)
Switch(t) ==
    /\ At(t, "switch")
    /\ thread' = [thread EXCEPT ![t] = [@ EXCEPT !.mode = mode,
                     !.left = Len(Loads[mode]), !.whole = TRUE,
                     !.pc = IF Loads[mode] = <<>> THEN "idle" ELSE "load"]]
    /\ UNCHANGED <<world, mode, interleave, array, raw, buf, old, view, owed, missed>>

\* load_extension_buffer: who answers for the port if all reads succeed, and if
\* some fail: the bytes stay as they are, an unplugged extension reads as FF, a
\* bad Nunchuk is replaced by the gyroscope.
Answer == CASE port = "empty"       -> "nobody"
            [] port = "unsupported" -> "stale"
            [] port = "extension" \/ (port = "passthrough" /\ interleave) -> "extension"
            [] OTHER                -> "gyro"
FailedAnswers == CASE Answer = "gyro"     -> {"stale"}
                   [] port = "extension"  -> {"stale", "FF"}
                   [] port = "passthrough" /\ interleave -> {"gyro", "stale"}
                   [] OTHER               -> {}

\* What a load puts into cell c, from these readings of buttons, accelerometer
\* and camera. The buttons clear the spare bits, a camera in another mode gives
\* FF, and the bytes after the six of the port are zero.
Filling(load, c, buttons, accel, ir, answer) ==
    CASE load.source = "buttons" ->
             IF c = 1 THEN Fixed("zero") ELSE Of("buttons", buttons)
      [] load.source = "accel" -> Of("accel", accel)
      [] load.source = "ir_basic" ->
             IF camera = "basic" THEN Of("ir", ir) ELSE Fixed("FF")
      [] load.source = "ir_extended" ->
             IF camera = "extended" THEN Of("ir", ir) ELSE Fixed("FF")
      [] load.source = "port" ->
             IF answer = "nobody" THEN Fixed("FF")
             ELSE IF c >= load.at + 6 THEN Fixed("zero")
             ELSE CASE answer = "stale" -> buf[c]
                    [] answer = "FF"    -> Fixed("FF")
                    [] OTHER            -> Of(answer, sensor[answer])

Upcoming(t) == Loads[thread[t].mode][Len(Loads[thread[t].mode]) + 1 - thread[t].left]

LoadAs(t, answer) ==
    /\ At(t, "load")
    /\ buf' = [c \in Cells |->
                 IF c \in Upcoming(t).cells
                 THEN Filling(Upcoming(t), c, thread[t].buttons, thread[t].accel, raw, answer)
                 ELSE buf[c]]
    /\ interleave' = (interleave # (/\ Upcoming(t).source = "port"
                                    /\ port \in {"passthrough", "passthrough_empty"}))
    /\ thread' = [thread EXCEPT ![t] = [@ EXCEPT
                     !.left  = thread[t].left - 1,
                     !.whole = /\ thread[t].whole
                               /\ ~(Upcoming(t).source = "port" /\ answer = "stale"),
                     !.pc = IF thread[t].left = 1 THEN "check" ELSE "load"]]
    /\ UNCHANGED <<sensor, port, camera, mode, array, raw, old, view, owed, missed>>

LoadNext(t) == LoadAs(t, Answer) /\ UNCHANGED changes

\* A read from the extension or the gyroscope fails.
LoadFails(t) ==
    /\ Change
    /\ At(t, "load") /\ Upcoming(t).source = "port"
    /\ \E answer \in FailedAnswers : LoadAs(t, answer)

\* Mutant of Check: only the buttons are compared.
CheckButtons(t) ==
    /\ At(t, "check")
    /\ Goto(t, IF \E c \in Within(0, 2) : buf[c] # old[c] THEN "send" ELSE "idle")
    /\ UNCHANGED <<world, mode, interleave, array, raw, buf, old, view, owed, missed>>

\* CHECK_NEW
Check(t) ==
    /\ At(t, "check")
    /\ Goto(t, IF \E c \in Compared(thread[t].mode) : buf[c] # old[c]
               THEN "send" ELSE "idle")
    /\ UNCHANGED <<world, mode, interleave, array, raw, buf, old, view, owed, missed>>

SendReport(t) ==
    /\ At(t, "send")
    /\ view' = [mode  |-> thread[t].mode,
                cells |-> [c \in Cells |-> IF c \in Sent(thread[t].mode)
                                           THEN buf[c] ELSE Fixed("FF")],
                whole |-> thread[t].whole]
    /\ owed' = FALSE
    /\ missed' = FALSE
    /\ Goto(t, "copy")
    /\ UNCHANGED <<world, mode, interleave, array, raw, buf, old>>

\* send_hid_report ignores the result of esp_bt_hid_device_send_report: a report
\* that was not sent is remembered like any other.
SendFails(t) ==
    /\ Change
    /\ At(t, "send")
    /\ owed' = FALSE
    /\ missed' = TRUE
    /\ Goto(t, "copy")
    /\ UNCHANGED <<sensor, port, camera, mode, interleave, array, raw, buf, old, view>>

\* Mutant of CopyOld: the report that was sent is not remembered.
CopyNothing(t) ==
    /\ At(t, "copy")
    /\ Goto(t, "idle")
    /\ UNCHANGED <<world, mode, interleave, array, raw, buf, old, view, owed, missed>>

\* memcpy(core_input_report_old, core_input_report, length)
CopyOld(t) ==
    /\ At(t, "copy")
    /\ old' = [c \in Cells |-> IF c \in Sent(thread[t].mode) THEN buf[c] ELSE old[c]]
    /\ Goto(t, "idle")
    /\ UNCHANGED <<world, mode, interleave, array, raw, buf, view, owed, missed>>

Core(t) == \/ Sample(t) \/ Switch(t) \/ LoadNext(t)
           \/ Check(t) \/ SendReport(t) \/ CopyOld(t)
Fails(t) == SampleFails(t) \/ LoadFails(t) \/ SendFails(t)
Main == Turn \/ Core("main")
Btc == Reset \/ Core("btc")
World == \/ \E s \in Sensors, v \in Values : Reads(s, v)
         \/ \E p \in Ports : PortBecomes(p)
         \/ \E c \in Cameras : CameraBecomes(c)
         \/ \E t \in Threads : Fails(t)
Host == Reopen \/ \E m \in HostModes : SetMode(m)

Next == World \/ Host \/ Main \/ Btc
Spec == Init /\ [][Next]_vars

\* The scheduler runs both threads; the world and the host owe nothing.
FairSpec == Spec /\ WF_vars(Main) /\ WF_vars(Btc)

----------------------------------------------------------------------------
(***************************************************************************)
(* Properties                                                              *)
(***************************************************************************)
\* The layout of each report as the comment on its case gives it.
WithAccel == {"31", "33", "35", "37"}
IrCells(m) == {c \in Cells : CASE m = "33" -> c > 2          [] m = "36" -> c > 1 /\ c < 12
                               [] m = "37" -> c > 2 /\ c < 15 [] OTHER    -> FALSE}
Documented(m, c) ==
    IF m = "3d" THEN "port"
    ELSE CASE c = 0 -> "buttons"
           [] c = 1 -> IF m \in WithAccel THEN "accel" ELSE "zero"
           [] c = 2 /\ m \in WithAccel -> "accel"
           [] c \in IrCells(m) -> "ir"
           [] OTHER -> "port"

Fits(content, source) ==
    CASE source = "port" -> content.from \in {"FF", "zero", "extension", "gyro"}
      [] source = "ir"   -> content.from \in {"FF", "ir"}
      [] OTHER           -> content.from = source

\* Every byte the host receives comes from the sensor the comment names, also
\* right after a change of mode, when the shared buffer still holds the bytes of
\* another layout. Mode 36 is the exception (its IR bytes are three cells
\* behind the place the comment names), and bytes that could not be read.
LayoutBut36 ==
    (view.mode \notin {"none", "36"} /\ view.whole) =>
        \A c \in Sent(view.mode) : Fits(view.cells[c], Documented(view.mode, c))

\* "check if previous sent report matches the about-to-be-sent report": a report
\* is not sent again while it does not change. Exceptions: mode 33 compares four
\* bytes more than it remembers, and after a report that could not be sent the
\* host may get again the one before it.
SilentWhenUnchanged ==
    [][\A t \in Threads :
          (SendReport(t) /\ thread[t].mode # "33")
          => (owed \/ missed \/ view' # view)]_vars

\* The load that fills cell c last.
Last(m, c) == LET loads == Loads[m]
              IN  loads[CHOOSE i \in DOMAIN loads :
                          /\ c \in loads[i].cells
                          /\ \A j \in DOMAIN loads : c \in loads[j].cells => j <= i]
Filled(m) == {c \in Sent(m) : \E i \in DOMAIN Loads[m] : c \in Loads[m][i].cells}

\* The host sees what the sensors read, and FF where the port is empty or the
\* camera is in another mode (a port that alternates, or gives nothing, apart).
UpToDate ==
    /\ view.mode = mode
    /\ \A c \in Filled(mode) :
          \/ /\ Last(mode, c).source = "port"
             /\ port \in {"passthrough", "passthrough_empty", "unsupported"}
          \/ view.cells[c] = Filling(Last(mode, c), c, sensor["buttons"],
                                     sensor["accel"], sensor["ir"], Answer)

\* No change is lost: once sensors, port, camera, mode and link stay as they are
\* and reads and reports succeed, the last report sent shows them, although reports
\* that seem to repeat the previous one are suppressed. Exception: the last report
\* remembered could not be sent, and nothing has changed or been set since.
NoChangeLost == <>[](mode \in {"3d", "3e"} \/ missed \/ UpToDate)
============================================================================
