-------------------------- MODULE ExtensionStatus --------------------------
(***************************************************************************)
(* The extension port and what the host is told about it: the plug         *)
(* handling of the two main loops, the MotionPlus switch and the status    *)
(* bits written by handle_output_reports (main/espmote_main.c).            *)
(*                                                                         *)
(* Two threads share extension_handle, extension_handle_connected,         *)
(* status_byte, wii_motion_plus_enabled and the pass-through registers     *)
(* without a lock: the main task (either loop), which is deleted and       *)
(* replaced when the link opens or closes, and the BTC task, which handles *)
(* one output report at a time and does the replacing. MoteSession models  *)
(* the replacing step by step; here it is one action.                      *)
(*                                                                         *)
(* What the lack of a lock can spoil is kept in three history variables    *)
(* (told, owed, clobbered), which the step that does the damage sets and   *)
(* the step that repairs it resets: the properties say that nothing else   *)
(* goes wrong, and for how long it does.                                   *)
(***************************************************************************)
EXTENDS Naturals

CONSTANTS
    Leds,    \* bits of status_byte that O_PLAYER_LEDS writes
    Enables  \* bits that O_SPEAKER_ENABLE and O_IR_CAMERA_ENABLE_2 set

VARIABLES
    plugged,     \* level of EXT_SENSE_GPIO
    loop,        \* which main loop exists
    main,        \* its position, and whether it is giving an extension up
    connected,   \* extension_handle_connected
    device,      \* extension_handle.i2c_handle on the I2C bus
    status,      \* status_byte, as the set of its bits
    held,        \* per thread: status_byte as loaded by an unfinished update
    wmp,         \* wii_motion_plus_enabled
    passthrough, \* whose data the pass-through registers hold, per part
    attempt,     \* attempt_to_reconnect
    btc,         \* position inside handle_output_reports
    commanded,   \* history: LED and enable bits as the host commanded them
    told,        \* history: extension bit of the session's last status report,
                 \* "late" if it had changed by the time the report was sent
    owed,        \* history: what the last change of the flag, or of the plug
                 \* behind it, was not followed by
    clobbered    \* history: bits of another thread a stale store overwrote

vars == <<plugged, loop, main, connected, device, status, held, wmp,
          passthrough, attempt, btc, commanded, told, owed, clobbered>>

HostBits == Leds \cup Enables
Bits == {"EXTENSION"} \cup HostBits
Threads == {"main", "btc"}
\* The pass-through registers of wii_motion_plus_settings_data: F6, F8 and F9,
\* from the ID of the extension, and 40..4F, from its calibration.
Parts == {"id", "calibration"}
HidSteps == {"loop", "add", "flag", "raise", "identify", "copy", "report",
             "remove", "unflag", "lower", "blank"}
OtherSteps == {"loop", "add", "flag", "remove", "unflag"}
Steps == {"idle", "led_clear", "led_set", "status", "wmp_raise", "wmp_status",
          "ext_lower", "ext_unplugged", "ext_on", "ext_raise", "ext_status"}
BtcSteps == Steps \cup Enables  \* at f \in Enables, f is about to be set

TypeOK ==
    /\ plugged \in BOOLEAN
    /\ \/ loop = "hid"   /\ main \in [pc : HidSteps,   failed : BOOLEAN]
       \/ loop = "other" /\ main \in [pc : OtherSteps, failed : {FALSE}]
    /\ connected \in BOOLEAN
    /\ device \in {"attached", "removed"}
    /\ status \in SUBSET Bits
    /\ held \in [Threads -> SUBSET SUBSET Bits]
    /\ wmp \in BOOLEAN
    /\ passthrough \in [Parts -> {"nothing", "now", "earlier"}]
    /\ attempt \in BOOLEAN
    /\ btc \in BtcSteps
    /\ commanded \in SUBSET HostBits
    /\ told \in {"nothing", "in", "out", "late"}
    /\ owed \in SUBSET ({"status", "device"} \cup Parts)
    /\ clobbered \in SUBSET Bits

ASSUME ExtensionAssumption ==
    /\ "EXTENSION" \notin HostBits
    /\ Enables \cap Steps = {}

Fresh == [pc |-> "loop", failed |-> FALSE]
Blank == [p \in Parts |-> "nothing"]

Init ==
    /\ plugged \in BOOLEAN
    /\ loop = "other" /\ main = Fresh
    /\ connected = FALSE
    /\ device = "removed"
    /\ status = {}
    /\ held = [w \in Threads |-> {}]
    /\ wmp = FALSE
    /\ passthrough = Blank
    /\ attempt = FALSE
    /\ btc = "idle"
    /\ commanded = {}
    /\ told = "nothing"
    /\ owed = {}
    /\ clobbered = {}

----------------------------------------------------------------------------
(***************************************************************************)
(* Steps shared by the two threads.                                        *)
(***************************************************************************)
Told(byte) == IF "EXTENSION" \in byte THEN "in" ELSE "out"

\* An update status_byte = (status_byte \ drop) \cup add by thread w is a load ...
Load(w) ==
    /\ held[w] = {}
    /\ held' = [held EXCEPT ![w] = {status}]

\* ... and a store, which undoes whatever was stored in between.
Store(w, drop, add) ==
    \E loaded \in held[w] :
       /\ status' = (loaded \ drop) \cup add
       /\ held' = [held EXCEPT ![w] = {}]
       /\ clobbered' = (clobbered \cup (status \ loaded) \cup (loaded \ status))
                       \ (drop \cup add)

\* mote_input_data_status: report 0x20 with the status byte, loaded and then
\* handed to the stack.
Send(w) ==
    \E loaded \in held[w] :
       /\ told' = IF Told(loaded) = Told(status) THEN Told(status) ELSE "late"
       /\ held' = [held EXCEPT ![w] = {}]

----------------------------------------------------------------------------
(***************************************************************************)
(* The world: the plug, and the link that comes and goes.                  *)
(***************************************************************************)
Unplug ==
    /\ plugged /\ plugged' = FALSE
    /\ UNCHANGED <<loop, main, connected, device, status, held, wmp, passthrough,
                   attempt, btc, commanded, told, owed, clobbered>>

\* It may be another extension: what the registers hold is then of an earlier
\* one, and stays there unless the HID loop is on its way to blank it.
PlugIn ==
    /\ ~plugged /\ plugged' = TRUE
    /\ passthrough' = [p \in Parts |->
                         IF passthrough[p] = "now" THEN "earlier" ELSE passthrough[p]]
    /\ owed' = owed \cup
               (IF connected /\ ~(loop = "hid" /\ main.pc \in {"remove", "unflag"})
                THEN {p \in Parts : passthrough[p] = "now"} ELSE {})
    /\ UNCHANGED <<loop, main, connected, device, status, held, wmp, attempt, btc,
                   commanded, told, clobbered>>

\* vTaskDelete of the old loop wherever it is, xTaskCreate of the new one.
Replace(new) ==
    /\ btc = "idle"
    /\ loop' = new
    /\ main' = Fresh
    /\ held' = [held EXCEPT !["main"] = {}]
    /\ UNCHANGED <<plugged, connected, device, wmp, passthrough, btc>>

\* A loop deleted between the device and the flag leaves them apart, the HID
\* loop deleted anywhere in the handling leaves its other effects undone.
Undone == (IF main.pc \in {"flag", "unflag"} THEN {"device"} ELSE {})
          \cup (IF loop = "hid" /\ main.pc # "loop"
                THEN {"status"} \cup Parts ELSE {})

\* bt_hid_task_start_up: reset, unless this is taken for a reconnect.
StartUp ==
    /\ loop = "other"
    /\ Replace("hid")
    /\ attempt' = TRUE
    /\ told' = "nothing"
    /\ \/ /\ attempt
          /\ owed' = owed \cup Undone
          /\ UNCHANGED <<status, commanded, clobbered>>
       \/ /\ ~attempt
          /\ status' = {} /\ commanded' = {} /\ clobbered' = {}
          /\ owed' = owed \cup Undone \cup (IF connected THEN {"status"} ELSE {})

\* bt_hid_task_shut_down
ShutDown ==
    /\ loop = "hid"
    /\ Replace("other")
    /\ owed' = owed \cup Undone
    /\ UNCHANGED <<status, commanded, attempt, told, clobbered>>

\* reconnect_callback: a refused request clears attempt_to_reconnect.
ReconnectRefused ==
    /\ attempt
    /\ attempt' = FALSE
    /\ UNCHANGED <<plugged, loop, main, connected, device, status, held, wmp,
                   passthrough, btc, commanded, told, owed, clobbered>>

World == Unplug \/ PlugIn \/ StartUp \/ ShutDown \/ ReconnectRefused

----------------------------------------------------------------------------
(***************************************************************************)
(* The plug handling of the main loops.                                    *)
(***************************************************************************)
At(pc) == main.pc = pc
Goto(pc) == main' = [main EXCEPT !.pc = pc]
\* Mutant of GotoIfHid: the other loop continues like the HID loop.
GotoInBoth(pc) == Goto(pc)
\* The other loop is through after the flag; the HID loop goes on.
GotoIfHid(pc) == Goto(IF loop = "hid" THEN pc ELSE "loop")
\* What a change of the flag by the other loop leaves undone for good.
LeftOut == IF loop = "hid" THEN {} ELSE {"status"} \cup Parts
notMain == <<plugged, loop, attempt, btc, commanded, wmp>>

\* Mutant of Sense: the other loop does not look for an unplugged extension.
SensePlugOnly ==
    /\ At("loop")
    /\ plugged # connected
    /\ plugged \/ loop = "hid"
    /\ Goto(IF plugged THEN "add" ELSE "remove")
    /\ UNCHANGED <<notMain, connected, device, status, held, passthrough, told,
                   owed, clobbered>>

\* gpio_get_level(EXT_SENSE_GPIO) against extension_handle_connected.
Sense ==
    /\ At("loop")
    /\ plugged # connected
    /\ Goto(IF plugged THEN "add" ELSE "remove")
    /\ UNCHANGED <<notMain, connected, device, status, held, passthrough, told,
                   owed, clobbered>>

\* extension_init clears the handle and adds the device to the bus. Its callers
\* do not look at the result: without a device they go on, and owe one.
Add ==
    /\ At("add")
    /\ \/ device' = "attached" /\ owed' = owed \ {"device"}
       \/ device' = "removed" /\ owed' = owed \cup {"device"}
    /\ Goto("flag")
    /\ UNCHANGED <<notMain, connected, status, held, passthrough, told, clobbered>>

Flag ==
    /\ At("flag")
    /\ connected' = TRUE
    /\ owed' = owed \cup LeftOut
    /\ GotoIfHid("raise")
    /\ UNCHANGED <<notMain, device, status, held, passthrough, told, clobbered>>

\* Mutant of Remove: extension_deinit is missing when identification failed.
RemoveUnlessFailed ==
    /\ At("remove")
    /\ device' = IF main.failed THEN device ELSE "removed"
    /\ owed' = owed \ {"device"}
    /\ Goto("unflag")
    /\ UNCHANGED <<notMain, connected, status, held, passthrough, told, clobbered>>

\* extension_deinit removes it.
Remove ==
    /\ At("remove")
    /\ device' = "removed"
    /\ owed' = owed \ {"device"}
    /\ Goto("unflag")
    /\ UNCHANGED <<notMain, connected, status, held, passthrough, told, clobbered>>

Unflag ==
    /\ At("unflag")
    /\ connected' = FALSE
    /\ owed' = owed \cup LeftOut
    /\ GotoIfHid("lower")
    /\ UNCHANGED <<notMain, device, status, held, passthrough, told, clobbered>>

RaiseLoad ==
    /\ At("raise")
    /\ Load("main")
    /\ UNCHANGED <<notMain, main, connected, device, status, passthrough, told,
                   owed, clobbered>>

Raise ==
    /\ At("raise")
    /\ Store("main", {}, {"EXTENSION"})
    /\ owed' = owed \ {"status"}
    /\ Goto("identify")
    /\ UNCHANGED <<notMain, connected, device, passthrough, told>>

\* A device that was added and is in the port answers a read, if it can be done.
Answers == plugged /\ device = "attached"

\* Up to 50 tries, with growing delays, to read ID bytes A4 20. The ID goes to
\* the pass-through registers at once.
Identify ==
    /\ At("identify")
    /\ \/ /\ Answers
          /\ Goto("copy")
          /\ passthrough' = [passthrough EXCEPT !["id"] = "now"]
          /\ owed' = owed \ {"id"}
       \/ /\ main' = [pc |-> "remove", failed |-> TRUE]
          /\ UNCHANGED <<passthrough, owed>>
    /\ UNCHANGED <<notMain, connected, device, status, held, told, clobbered>>

\* The 16 calibration bytes at 20 are read into the registers, and the result is
\* not looked at: a read that fails has left them as they were, or, if only its
\* second receive did, with the FF of the first.
CopyCalibration ==
    /\ At("copy")
    /\ \E data \in {"nothing"} \cup (IF Answers THEN {"now"} ELSE {}) :
          \/ /\ passthrough' = [passthrough EXCEPT !["calibration"] = data]
             /\ owed' = owed \ {"calibration"}
          \/ UNCHANGED <<passthrough, owed>>
    /\ Goto("report")
    /\ UNCHANGED <<notMain, connected, device, status, held, told, clobbered>>

LowerLoad ==
    /\ At("lower")
    /\ Load("main")
    /\ UNCHANGED <<notMain, main, connected, device, status, passthrough, told,
                   owed, clobbered>>

\* An extension that was never identified leaves no data to blank and is not
\* reported.
LowerTo(drop, next) ==
    /\ At("lower")
    /\ Store("main", drop, {})
    /\ owed' = owed \ {"status"}
    /\ IF main.failed THEN main' = Fresh ELSE Goto(next)
    /\ UNCHANGED <<notMain, connected, device, passthrough, told>>

\* Mutant of Lower: status_byte = 0 instead of clearing one bit.
LowerAll == LowerTo(Bits, "blank")
\* Mutant of Lower: the pass-through registers are not blanked.
LowerNoBlank == LowerTo({"EXTENSION"}, "report")
Lower == LowerTo({"EXTENSION"}, "blank")

\* The pass-through registers are filled with FF.
BlankPassthrough ==
    /\ At("blank")
    /\ passthrough' = Blank
    /\ owed' = owed \ Parts
    /\ Goto("report")
    /\ UNCHANGED <<notMain, connected, device, status, held, told, clobbered>>

ReportLoad ==
    /\ At("report")
    /\ Load("main")
    /\ UNCHANGED <<notMain, main, connected, device, status, passthrough, told,
                   owed, clobbered>>

ReportPlug ==
    /\ At("report")
    /\ Send("main")
    /\ Goto("loop")
    /\ UNCHANGED <<notMain, connected, device, status, passthrough, owed, clobbered>>

Main == \/ Sense \/ Add \/ Flag \/ Remove \/ Unflag
        \/ RaiseLoad \/ Raise \/ Identify \/ CopyCalibration
        \/ LowerLoad \/ Lower \/ BlankPassthrough \/ ReportLoad \/ ReportPlug

----------------------------------------------------------------------------
(***************************************************************************)
(* handle_output_reports, by the BTC task while the link is up.            *)
(***************************************************************************)
notBtc == <<plugged, loop, main, connected, device, passthrough, attempt, owed>>

Receive(next) == loop = "hid" /\ btc = "idle" /\ btc' = next

\* Every update and every report of the BTC task starts with a load.
BtcLoad ==
    /\ btc \notin {"idle", "ext_on"}
    /\ Load("btc")
    /\ UNCHANGED <<notBtc, status, btc, wmp, commanded, told, clobbered>>

Update(pc, next, drop, add) ==
    /\ btc = pc /\ btc' = next
    /\ Store("btc", drop, add)
    /\ UNCHANGED <<notBtc, wmp, commanded, told>>

Report(pc, next) ==
    /\ btc = pc /\ btc' = next
    /\ Send("btc")
    /\ UNCHANGED <<notBtc, status, wmp, commanded, clobbered>>

\* O_PLAYER_LEDS: status_byte &= 0x0F; status_byte |= data & 0xF0.
PlayerLeds ==
    /\ Receive("led_clear")
    /\ \E on \in SUBSET Leds : commanded' = (commanded \ Leds) \cup on
    /\ UNCHANGED <<notBtc, status, held, wmp, told, clobbered>>

LedClear == Update("led_clear", "led_set", Leds, {})
LedSet == Update("led_set", "idle", {}, commanded \cap Leds)

\* O_SPEAKER_ENABLE and O_IR_CAMERA_ENABLE_2 with bit 2: the status bit is set.
\* Without bit 2 they leave the status byte as it is.
Enable ==
    /\ \E f \in Enables : Receive(f) /\ commanded' = commanded \cup {f}
    /\ UNCHANGED <<notBtc, status, held, wmp, told, clobbered>>

EnableSet == \E f \in Enables : Update(f, "idle", {}, {f})

\* O_STATUS_INFO_REQUEST
StatusRequest ==
    /\ Receive("status")
    /\ UNCHANGED <<notBtc, status, held, wmp, commanded, told, clobbered>>

StatusReply == Report("status", "idle")

\* 04, 05 or 07 written to A600FE: the MotionPlus becomes active.
ActivateWmp ==
    /\ Receive("wmp_raise")
    /\ wmp' = TRUE
    /\ UNCHANGED <<notBtc, status, held, commanded, told, clobbered>>

\* Mutant of WmpRaise: no status report follows.
WmpRaiseNoReport == Update("wmp_raise", "idle", {}, {"EXTENSION"})
WmpRaise == Update("wmp_raise", "wmp_status", {}, {"EXTENSION"})
WmpStatus == Report("wmp_status", "idle")

\* 55 written to A400F0: the extension behind the MotionPlus becomes active;
\* without one the write is refused with ACK_INACTIVE_EXTENSION.
ActivateExtension ==
    /\ IF connected
       THEN Receive(IF wmp THEN "ext_lower" ELSE "ext_on")
       ELSE Receive("idle")
    /\ UNCHANGED <<notBtc, status, held, wmp, commanded, told, clobbered>>

ExtensionLower == Update("ext_lower", "ext_unplugged", {"EXTENSION"}, {})
ExtensionUnplugged == Report("ext_unplugged", "ext_on")

\* Mutant of ExtensionOn: the bit cleared for the "unplugged" report stays clear.
ExtensionOnNoRaise ==
    /\ btc = "ext_on" /\ btc' = "ext_status"
    /\ wmp' = FALSE
    /\ UNCHANGED <<notBtc, status, held, commanded, told, clobbered>>

ExtensionOn ==
    /\ btc = "ext_on" /\ btc' = "ext_raise"
    /\ wmp' = FALSE
    /\ UNCHANGED <<notBtc, status, held, commanded, told, clobbered>>

ExtensionRaise == Update("ext_raise", "ext_status", {}, {"EXTENSION"})
ExtensionPlugged == Report("ext_status", "idle")

Btc == \/ BtcLoad \/ PlayerLeds \/ LedClear \/ LedSet
       \/ Enable \/ EnableSet \/ StatusRequest \/ StatusReply
       \/ ActivateWmp \/ WmpRaise \/ WmpStatus
       \/ ActivateExtension \/ ExtensionLower \/ ExtensionUnplugged
       \/ ExtensionOn \/ ExtensionRaise \/ ExtensionPlugged

Next == World \/ Main \/ Btc

\* The scheduler runs the main task and lets the BTC task finish what it has
\* begun; the reports and the plug owe nothing.
Spec == Init /\ [][Next]_vars
FairSpec == Spec /\ WF_vars(Main) /\ WF_vars(Btc /\ btc # "idle")

----------------------------------------------------------------------------
(***************************************************************************)
(* Properties                                                              *)
(***************************************************************************)
\* Neither thread is inside a sequence of updates.
AtRest == loop = "hid" /\ main.pc = "loop" /\ btc = "idle"
Shown == "EXTENSION" \in status

\* "0x02 An Extension Controller is connected": whenever the HID loop has an
\* extension, the status byte says so. Exceptions: the flag was set by the other
\* loop, by a loop deleted before it was through, or before the status byte was
\* reset; or a stale store has cleared the bit since.
ConnectedIsShown ==
    AtRest /\ connected /\ "status" \notin owed /\ "EXTENSION" \notin clobbered
    => Shown

\* "0x02 An Extension Controller is connected", without the exceptions: with an
\* extension in the port that is connected the HID loop has nothing more to do
\* about it, so by then the status byte must show it.
PluggedIsShown == AtRest /\ plugged /\ connected => Shown

\* A host that has been sent a status report in this session is never left
\* believing that the port is empty when the bit is set: every way to set the
\* bit, of either thread, ends in a report. Exceptions: that report was
\* overtaken by a change, or a stale store has set the bit.
HostNotUnaware ==
    AtRest /\ Shown /\ "EXTENSION" \notin clobbered => told # "out"

\* The updates of one thread only undo those of the other through a stale
\* store, and only until the bit is written again: LED and enable bits are those
\* the host last commanded, whatever the plug handling did meanwhile.
HostBitsAsCommanded ==
    btc = "idle" => (status \cap HostBits) \ clobbered = commanded \ clobbered

\* The host that selects the MotionPlus can tell and calibrate the extension
\* behind it: the registers hold the ID of the connected extension, and for its
\* calibration that or FF, never what an earlier extension left there, although a
\* read of it that fails is taken for done. Exceptions: the change was left to the
\* other loop or to a loop that was deleted, or extensions were swapped between
\* two polls, and the registers have not been written since.
PassthroughFresh ==
    AtRest =>
        /\ "id" \notin owed =>
              passthrough["id"] = IF connected THEN "now" ELSE "nothing"
        /\ "calibration" \notin owed =>
              passthrough["calibration"] \in IF connected THEN {"now", "nothing"}
                                             ELSE {"nothing"}

\* The I2C device is on the bus exactly while the flag says so, but for a device
\* that could not be added and a loop deleted between the two, until a device is
\* next added or removed.
DeviceMatchesFlag ==
    main.pc = "loop" /\ "device" \notin owed => (connected <=> device = "attached")

\* If the plug and the link are left alone and identification stops failing, the
\* flag ends up following the plug, from wherever a deleted loop left it.
Converges ==
    \A b \in BOOLEAN :
        (/\ <>[](plugged = b)
         /\ <>[](loop = "hid") \/ <>[](loop = "other")
         /\ <>[]~main.failed)
        => <>[](connected = b)
============================================================================
