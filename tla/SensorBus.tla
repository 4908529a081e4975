----------------------------- MODULE SensorBus -----------------------------
(***************************************************************************)
(* The IR camera (components/pixart_ir) and the motion sensor              *)
(* (components/lsm6ds3) on the I2C bus, as app_main sets them up and as    *)
(* the two threads of the firmware use them afterwards: mote_input_data_   *)
(* core reads both of them on the HID loop and, on a change of reporting   *)
(* mode, on the BTC task; the BTC task also passes the host's reads and    *)
(* writes of the camera's registers on (main/espmote_main.c).              *)
(*                                                                         *)
(* Nothing locks either device: a transfer is atomic, a read of the camera *)
(* is two of them. A transfer may fail, and most results are ignored.      *)
(***************************************************************************)
EXTENDS Naturals

CONSTANTS
    CamRegs,  \* camera registers the host reads and writes
    ModeReg,  \* the one that selects the format of a frame, 33
    Values,   \* their values
    PowerUp,  \* ... after a reset of the camera
    Scales,   \* its full scales
    Known,    \* ... those the driver has a factor for
    Wanted    \* ... and what app_main asks for

VARIABLES
    camera,  \* registers of the camera, and where its pointer is
    mirror,  \* IR_camera_settings
    raw,     \* ir_raw_buffer: its register, and the mode it was taken in
    loaded,  \* the frame last put into a report, and the mode it was taken for
    reply,   \* the last reply to a read of the camera's registers
    imu,     \* CTRL1_XL and CTRL2_G of the LSM6DS3: full scale, and a data rate
    reading, \* scale a sample was taken at, and that of its factor
    thread,  \* per thread: where it is, and what it holds
    astray,  \* history: threads whose pointer was not set, or was moved since
    unsure   \* history: registers that may differ from their mirror

vars == <<camera, mirror, raw, loaded, reply, imu, reading, thread, astray, unsure>>

Threads == {"main", "btc"}
Sensors == {"accel", "gyro"}
Other(t) == IF t = "main" THEN "btc" ELSE "main"
\* Where pixart_ir_get_raw_data and pixart_ir_get_data point, and where a
\* receive leaves the pointer.
Pointers == CamRegs \cup {"frame", "frame36", "past"}
NoReg == "nothing"
Origins == Pointers \cup {NoReg, "astray"}

ASSUME SensorBusAssumption ==
    /\ ModeReg \in CamRegs
    /\ CamRegs \cap {"frame", "frame36", "past", "nothing", "astray"} = {}
    /\ PowerUp \in Values /\ "unknown" \notin Values
    /\ Known \subseteq Scales
    /\ Wanted \in [Sensors -> Known]

\* A frame; its mode is "unknown" once the host has asked for another, or if
\* the camera may have been in another than the host asked for.
Frame == [from : Origins, mode : Values \cup {"unknown"}]
NoFrame == [from |-> NoReg, mode |-> "unknown"]
NoReply == [asked |-> ModeReg, got |-> NoReg]
BootPcs == {"whoami", "accel_fs", "gyro_fs"}
BootReadPcs == {"boot_accel", "boot_scale", "boot_frame", "boot_receive"}
CorePcs == {"accel", "accel_scale", "frame", "frame_receive", "ir", "ir_copy",
            "gyro", "gyro_scale"}
HostPcs == {"write", "point", "receive"}
Pcs == {"idle", "halted"} \cup BootPcs \cup BootReadPcs \cup CorePcs \cup HostPcs

TypeOK ==
    /\ camera \in [reg : [CamRegs -> Values], pointer : Pointers]
    /\ mirror \in [CamRegs -> Values]
    /\ raw \in Frame
    /\ loaded \in [frame : Frame, mode : Values]
    /\ reply \in [asked : CamRegs, got : Origins]
    /\ imu \in [Sensors -> Scales]
    /\ reading \in [at : Scales, by : Scales]
    /\ thread \in [Threads ->
          [pc : Pcs, scale : Scales, reg : CamRegs, mode : Values]]
    /\ astray \in SUBSET Threads
    /\ unsure \in SUBSET CamRegs

Rest == [pc |-> "idle", scale |-> Wanted["accel"], reg |-> ModeReg, mode |-> PowerUp]

\* Both devices may have been left in any state by an earlier run.
Init ==
    /\ camera \in [reg : [CamRegs -> Values], pointer : {"past"}]
    /\ mirror \in {[r \in CamRegs |-> PowerUp]}
    /\ raw = NoFrame
    /\ loaded = [frame |-> NoFrame, mode |-> PowerUp]
    /\ reply = NoReply
    /\ imu \in [Sensors -> Scales]
    /\ reading = [at |-> Rest.scale, by |-> Rest.scale]
    /\ thread = [t \in Threads |->
                   [Rest EXCEPT !.pc = IF t = "main" THEN "whoami" ELSE "idle"]]
    /\ astray = {}
    /\ unsure = CamRegs

At(t, pc) == thread[t].pc = pc
Goto(t, pc) == thread' = [thread EXCEPT ![t] = [Rest EXCEPT !.pc = pc]]
cameraSide == <<camera, mirror, raw, loaded, reply, astray, unsure>>
imuSide == <<imu, reading>>

----------------------------------------------------------------------------
(***************************************************************************)
(* The motion sensor.                                                      *)
(***************************************************************************)
\* lsm6ds3_init: without the right answer of the chip, app_main returns.
WhoAmI ==
    /\ At("main", "whoami")
    /\ \E next \in {"accel_fs", "halted"} : Goto("main", next)
    /\ UNCHANGED <<cameraSide, imuSide>>

\* A setter of lsm6ds3_reg.c reads its register and writes it back with one
\* field changed; app_main does not look at the result. (The data rates, set
\* in the same way, change nothing here.)
Configure(pc, next, s) ==
    /\ At("main", pc)
    /\ Goto("main", next)
    /\ imu' = [imu EXCEPT ![s] = Wanted[s]] \/ UNCHANGED imu
    /\ UNCHANGED <<cameraSide, reading>>

AccelFs == Configure("accel_fs", "gyro_fs", "accel")
GyroFs == Configure("gyro_fs", "boot_accel", "gyro")

\* lsm6ds3_read_accel and lsm6ds3_read_gyro: the sample ...
Sample(t, s, pc, next, given_up) ==
    /\ At(t, pc)
    /\ \/ thread' = [thread EXCEPT ![t] = [Rest EXCEPT !.pc = next, !.scale = imu[s]]]
       \/ Goto(t, given_up)
    /\ UNCHANGED <<cameraSide, imuSide>>

\* Mutant of Factor: the factor is that of the scale app_main has asked for.
FactorAsAsked(t, s, pc, next) ==
    /\ At(t, pc)
    /\ Goto(t, next)
    /\ reading' = [at |-> thread[t].scale, by |-> Wanted[s]]
    /\ UNCHANGED <<cameraSide, imu>>

\* ... then the full scale, which must be one there is a factor for; the value
\* goes to accel_mg or gyro_mdps, which both threads use.
Factor(t, s, pc, next) ==
    /\ At(t, pc)
    /\ Goto(t, next)
    /\ \/ /\ imu[s] \in Known
          /\ reading' = [at |-> thread[t].scale, by |-> imu[s]]
       \/ UNCHANGED reading
    /\ UNCHANGED <<cameraSide, imu>>

----------------------------------------------------------------------------
(***************************************************************************)
(* Transfers to the camera.                                                *)
(***************************************************************************)
\* A thread between the two transfers of a read loses its pointer, one between
\* the test of the mode and the copy of the frame its mode.
Reading(t) == thread[t].pc \in {"frame_receive", "receive"}
Overtaken(t) == IF Reading(Other(t)) THEN {Other(t)} ELSE {}

PointAt(t, where) ==
    /\ camera' = [camera EXCEPT !.pointer = where]
    /\ astray' = (astray \ {t}) \cup Overtaken(t)

\* A receive brings the register at the pointer and leaves it behind.
Own(t, from) == IF t \in astray THEN "astray" ELSE from
ReceiveFrom(t) ==
    /\ camera' = [camera EXCEPT !.pointer = "past"]
    /\ astray' = (astray \ {t}) \cup Overtaken(t)

----------------------------------------------------------------------------
(***************************************************************************)
(* What app_main reads for the log.                                        *)
(***************************************************************************)
BootAccel == Sample("main", "accel", "boot_accel", "boot_scale", "boot_frame")
BootScale == Factor("main", "accel", "boot_scale", "boot_frame")

\* pixart_ir_get_data
BootFrame ==
    /\ At("main", "boot_frame")
    /\ Goto("main", "boot_receive")
    /\ PointAt("main", "frame36") \/ UNCHANGED <<camera, astray>>
    /\ UNCHANGED <<mirror, raw, loaded, reply, unsure, imuSide>>

BootReceive ==
    /\ At("main", "boot_receive")
    /\ Goto("main", "idle")
    /\ ReceiveFrom("main") \/ UNCHANGED <<camera, astray>>
    /\ UNCHANGED <<mirror, raw, loaded, reply, unsure, imuSide>>

Boot == \/ WhoAmI \/ AccelFs \/ GyroFs \/ BootAccel \/ BootScale \/ BootFrame \/ BootReceive

----------------------------------------------------------------------------
(***************************************************************************)
(* mote_input_data_core, by thread t.                                      *)
(***************************************************************************)
Booted == thread["main"].pc \notin {"halted"} \cup BootPcs \cup BootReadPcs

Turn(t) ==
    /\ Booted /\ At(t, "idle")
    /\ Goto(t, "accel")
    /\ loaded' = [frame |-> NoFrame, mode |-> PowerUp]
    /\ UNCHANGED <<camera, mirror, raw, reply, astray, unsure, imuSide>>

ReadAccel(t) == Sample(t, "accel", "accel", "accel_scale", "frame")
ScaleAccel(t) == Factor(t, "accel", "accel_scale", "frame")

\* Mutant of PointFrame: the register of pixart_ir_get_data.
PointFrame36(t) ==
    /\ At(t, "frame")
    /\ Goto(t, "frame_receive")
    /\ \/ PointAt(t, "frame36")
       \/ astray' = astray \cup {t} /\ UNCHANGED camera
    /\ UNCHANGED <<mirror, raw, loaded, reply, unsure, imuSide>>

\* pixart_ir_get_raw_data looks at neither result.
PointFrame(t) ==
    /\ At(t, "frame")
    /\ Goto(t, "frame_receive")
    /\ \/ PointAt(t, "frame")
       \/ astray' = astray \cup {t} /\ UNCHANGED camera
    /\ UNCHANGED <<mirror, raw, loaded, reply, unsure, imuSide>>

ReceiveFrame(t) ==
    /\ At(t, "frame_receive")
    /\ Goto(t, "ir")
    /\ \/ /\ ReceiveFrom(t)
          /\ raw' = [from |-> Own(t, camera.pointer),
                     mode |-> IF ModeReg \in unsure THEN "unknown"
                              ELSE camera.reg[ModeReg]]
       \/ astray' = astray \ {t} /\ UNCHANGED <<camera, raw>>
    /\ UNCHANGED <<mirror, loaded, reply, unsure, imuSide>>

\* Mutant of FormatIr: the format of the mode after a reset.
FormatIrDefault(t) ==
    /\ At(t, "ir")
    /\ thread' = [thread EXCEPT ![t] = [Rest EXCEPT !.pc = "ir_copy"]]
    /\ UNCHANGED <<cameraSide, imuSide>>

\* The reporting modes with IR bytes ask get_IR_mode() for the format ...
FormatIr(t) ==
    /\ At(t, "ir")
    /\ thread' = [thread EXCEPT ![t] = [Rest EXCEPT !.pc = "ir_copy",
                                                    !.mode = mirror[ModeReg]]]
    /\ UNCHANGED <<cameraSide, imuSide>>

\* ... and copy ir_raw_buffer in that format.
CopyIr(t) ==
    /\ At(t, "ir_copy")
    /\ Goto(t, "gyro")
    /\ loaded' = [frame |-> IF t \in astray THEN NoFrame ELSE raw,
                  mode |-> thread[t].mode]
    /\ astray' = astray \ {t}
    /\ UNCHANGED <<camera, mirror, raw, reply, unsure, imuSide>>

\* The modes without IR bytes, and those without the MotionPlus.
SkipIr(t) == At(t, "ir") /\ Goto(t, "gyro") /\ UNCHANGED <<cameraSide, imuSide>>
SkipGyro(t) == At(t, "gyro") /\ Goto(t, "idle") /\ UNCHANGED <<cameraSide, imuSide>>

ReadGyro(t) == Sample(t, "gyro", "gyro", "gyro_scale", "idle")
ScaleGyro(t) == Factor(t, "gyro", "gyro_scale", "idle")

Core(t) == \/ Turn(t) \/ ReadAccel(t) \/ ScaleAccel(t) \/ PointFrame(t)
           \/ ReceiveFrame(t) \/ FormatIr(t) \/ CopyIr(t) \/ SkipIr(t)
           \/ ReadGyro(t) \/ ScaleGyro(t) \/ SkipGyro(t)

\* The main task is deleted wherever it is, and a new one begins.
Replace ==
    /\ Booted /\ At("btc", "idle")
    /\ Goto("main", "idle")
    /\ astray' = astray \ {"main"}
    /\ UNCHANGED <<camera, mirror, raw, loaded, reply, unsure, imuSide>>

----------------------------------------------------------------------------
(***************************************************************************)
(* handle_output_reports: the host and the camera.                         *)
(***************************************************************************)
Receive(next, r) ==
    /\ Booted /\ At("btc", "idle")
    /\ thread' = [thread EXCEPT !["btc"] = [Rest EXCEPT !.pc = next, !.reg = r]]

\* O_IR_CAMERA_ENABLE and O_IR_CAMERA_ENABLE_2 switch the clock and the enable
\* line of the camera, which may or may not survive that.
Enable ==
    /\ Booted /\ At("btc", "idle")
    /\ camera' = [reg |-> [r \in CamRegs |-> PowerUp], pointer |-> "past"]
    /\ unsure' = CamRegs
    /\ astray' = astray \cup Overtaken("btc")
    /\ UNCHANGED <<mirror, raw, loaded, reply, thread, imuSide>>

Testing(t) == IF At(t, "ir_copy") THEN {t} ELSE {}

\* A write to block B0: memcpy to IR_camera_settings ...
Write(r, v) ==
    /\ Receive("write", r)
    /\ mirror' = [mirror EXCEPT ![r] = v]
    /\ unsure' = unsure \cup {r}
    /\ IF r = ModeReg /\ v # mirror[r]
       THEN /\ raw' = [raw EXCEPT !.mode = "unknown"]
            /\ astray' = astray \cup Testing("main")
       ELSE UNCHANGED <<raw, astray>>
    /\ UNCHANGED <<camera, loaded, reply, imuSide>>

\* ... and pixart_reg_write, whose result is ignored.
WriteCamera ==
    /\ At("btc", "write")
    /\ Goto("btc", "idle")
    /\ \/ /\ camera' = [reg |-> [camera.reg EXCEPT ![thread["btc"].reg] =
                                    mirror[thread["btc"].reg]],
                        pointer |-> "past"]
          /\ unsure' = unsure \ {thread["btc"].reg}
          /\ astray' = astray \cup Overtaken("btc")
       \/ UNCHANGED <<camera, unsure, astray>>
    /\ UNCHANGED <<mirror, raw, loaded, reply, imuSide>>

\* A read of block B0: pixart_reg_read, whose result is ignored: what it did not
\* fill goes to the host as zeros.
Read(r) ==
    /\ Receive("point", r)
    /\ reply' = NoReply
    /\ UNCHANGED <<camera, mirror, raw, loaded, astray, unsure, imuSide>>

Replied(got) == reply' = [asked |-> thread["btc"].reg, got |-> got]

PointRegister ==
    /\ At("btc", "point")
    /\ \/ /\ thread' = [thread EXCEPT !["btc"].pc = "receive"]
          /\ PointAt("btc", thread["btc"].reg)
          /\ UNCHANGED reply
       \/ Goto("btc", "idle") /\ Replied(NoReg) /\ UNCHANGED <<camera, astray>>
    /\ UNCHANGED <<mirror, raw, loaded, unsure, imuSide>>

\* Mutant of ReceiveRegister: the reply holds what IR_camera_settings does.
ReceiveMirror ==
    /\ At("btc", "receive")
    /\ Goto("btc", "idle")
    /\ ReceiveFrom("btc") /\ Replied(mirror[thread["btc"].reg])
    /\ UNCHANGED <<mirror, raw, loaded, unsure, imuSide>>

ReceiveRegister ==
    /\ At("btc", "receive")
    /\ Goto("btc", "idle")
    /\ \/ ReceiveFrom("btc") /\ Replied(Own("btc", camera.pointer))
       \/ Replied(NoReg) /\ astray' = astray \ {"btc"} /\ UNCHANGED camera
    /\ UNCHANGED <<mirror, raw, loaded, unsure, imuSide>>

Host == \/ Enable \/ WriteCamera \/ PointRegister \/ ReceiveRegister
        \/ \E r \in CamRegs : Read(r) \/ \E v \in Values : Write(r, v)

Next == Boot \/ Replace \/ Host \/ \E t \in Threads : Core(t)
Spec == Init /\ [][Next]_vars

----------------------------------------------------------------------------
(***************************************************************************)
(* Properties                                                              *)
(***************************************************************************)
\* What a read of the camera brings is the frame, or the register the host has
\* asked for, unless the transfer that sets the pointer failed or the other
\* thread has talked to the camera between the two transfers.
CameraReadIsOwn ==
    /\ raw.from \in {"frame", NoReg, "astray"}
    /\ reply.got \in {reply.asked, NoReg, "astray"}

\* The IR bytes of a report are in the format of the mode that the camera took
\* the frame in, although the format is looked up in IR_camera_settings after
\* the frame was read. Exceptions: the host has changed the mode since, or the
\* camera has not got the last write of it.
FormatIsFrames == loaded.frame.mode \in {loaded.mode, "unknown"}

\* Acceleration and rotation are converted by the scale they were sampled at,
\* whichever of the settings app_main did not get through, unnoticed.
ScaleIsTrue == reading.at = reading.by
============================================================================
