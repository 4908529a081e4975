--------------------------- MODULE ReportCodecs ---------------------------
(***************************************************************************)
(* How samples become bytes of an input report (main/espmote_main.c,       *)
(* load_buttons_buffer to load_extension_buffer, the camera left out), and *)
(* how a host reads them back. DataReports decides which of them a report  *)
(* carries and where.                                                      *)
(*                                                                         *)
(* Bytes are numbers; (x & mask) >> k is written with \div and %, and | as  *)
(* +, since the parts of a byte never overlap. Floats are exact fractions, *)
(* rounded as the code's conversions do; what rounding inside a float      *)
(* expression could add is below the tolerances of the properties.         *)
(***************************************************************************)
EXTENDS Integers, Sequences

CONSTANTS
    Samples,   \* what all sensors read at one moment
    Rest,      \* one of them, when nothing is touched
    Unset      \* what locals that were never set can hold

Buttons == {"Up", "Down", "Left", "Right", "Plus",
            "A", "B", "One", "Two", "Minus", "Home"}
Byte == 0..255
Counts == -32768..32767                      \* int16_t

\* pressed: button_array; mg: accel_mg; rate: the gyroscope in units of 70 mdps;
\* nunchuk: its six bytes.
Sample == [pressed : SUBSET Buttons, mg : [1..3 -> Counts], rate : [1..3 -> Counts],
           nunchuk : [1..6 -> Byte]]

ASSUME CodecsAssumption ==
    Samples \subseteq Sample /\ Rest \in Samples /\ Unset \subseteq Counts

\* unread: the core without an acceleration; kept: six bytes that no read replaced.
Kinds == {"none", "core", "unread", "gyro", "nunchuk", "kept"}
FrameKinds == {"other", "gyro", "nunchuk"}

VARIABLES
    sample,      \* what the sensors read
    connected,   \* extension_handle_connected
    passthrough, \* wii_motion_plus_settings_data + 0xFE says 0505, not 0504
    interleave,  \* static bool interleave
    wire,        \* the part of a report that was loaded last
    frame        \* the six bytes of core_input_report where the extension's belong

vars == <<sample, connected, passthrough, interleave, wire, frame>>

Nothing == [kind |-> "none", bytes |-> <<>>]

\* The report holds something of another layout there, or raw bytes from before
\* the MotionPlus was active. Otherwise: which frame, and whether the extension
\* was there when it was made.
Other == [kind |-> "other", bytes |-> <<>>, plugged |-> FALSE]

TypeOK ==
    /\ sample \in Sample
    /\ connected \in BOOLEAN
    /\ passthrough \in BOOLEAN
    /\ interleave \in BOOLEAN
    /\ wire \in [kind : Kinds, bytes : Seq(Byte)]
    /\ frame \in [kind : FrameKinds, bytes : Seq(Byte), plugged : BOOLEAN]

Init ==
    /\ sample = Rest
    /\ connected \in BOOLEAN
    /\ passthrough \in BOOLEAN
    /\ interleave = FALSE
    /\ wire = Nothing
    /\ frame = Other

----------------------------------------------------------------------------
(***************************************************************************)
(* Buttons and accelerometer                                               *)
(***************************************************************************)
Bit(condition) == IF condition THEN 1 ELSE 0

\* load_buttons_buffer, with the shifts BUTTONS_SHIFT_*
ButtonBytes(pressed) ==
    << Bit("Left" \in pressed) + 2 * Bit("Right" \in pressed)
         + 4 * Bit("Down" \in pressed) + 8 * Bit("Up" \in pressed)
         + 16 * Bit("Plus" \in pressed),
       Bit("Two" \in pressed) + 2 * Bit("One" \in pressed) + 4 * Bit("B" \in pressed)
         + 8 * Bit("A" \in pressed) + 16 * Bit("Minus" \in pressed)
         + 128 * Bit("Home" \in pressed) >>

\* Division as in C, towards zero.
Quotient(a, b) == IF a >= 0 THEN a \div b ELSE -((-a) \div b)

\* accelerometer_mg_to_10bit; accel_offset_mg is 0 and accel_scale_mg 0.1.
TenBit(mg) == Quotient(mg, 10) + 512

\* Mutant of CoreBytes: the low bits of y and z trade places.
CoreBytesSwapped(pressed, x, y, z) ==
    LET buttons == ButtonBytes(pressed)
    IN  << buttons[1] + (x % 4) * 32,
           buttons[2] + ((y \div 2) % 2) * 64 + ((z \div 2) % 2) * 32,
           (x \div 4) % 256, (y \div 4) % 256, (z \div 4) % 256 >>

\* load_accelerometer_buffer, over the bytes of the buttons.
CoreBytes(pressed, x, y, z) ==
    LET buttons == ButtonBytes(pressed)
    IN  << buttons[1] + (x % 4) * 32,
           buttons[2] + ((y \div 2) % 2) * 32 + ((z \div 2) % 2) * 64,
           (x \div 4) % 256, (y \div 4) % 256, (z \div 4) % 256 >>

\* The sensor is mounted turned: x is its second axis (read_from_accelerometer).
CoreOf(s) == CoreBytes(s.pressed, TenBit(s.mg[2]), TenBit(s.mg[1]), TenBit(s.mg[3]))

----------------------------------------------------------------------------
(***************************************************************************)
(* Gyroscope and nunchuk                                                   *)
(***************************************************************************)
\* Above 440 dps the scale is 4352 units for 1200 dps, otherwise 4352 for 270.
Slow(rate) == 70 * rate <= 440000
Fourteen(rate) ==
    8192 + IF Slow(rate) THEN Quotient(30464 * rate, 27000)
                         ELSE Quotient(30464 * rate, 120000)

\* A float below zero has no uint16_t: C leaves open what is stored.
Stored(value) == IF value < 0 THEN {0, value % 65536} ELSE {value}

Fits(rate) == Fourteen(rate) \in 0..16383

\* Mutant of GyroBytes: the slow bits of yaw and pitch trade places.
GyroBytesSlowSwapped(rate, yaw, roll, pitch) ==
    LET HighBits(v) == ((v \div 256) % 64) * 4
    IN  << yaw % 256, roll % 256, pitch % 256,
           HighBits(yaw) + 2 * Bit(Slow(rate[3])) + Bit(Slow(rate[1])),
           HighBits(roll) + 2 * Bit(Slow(rate[2])) + Bit(connected),
           HighBits(pitch) + 2 >>

\* Mutant of GyroBytes: the mark of the frame is put into roll, not pitch.
GyroBytesMarkInRoll(rate, yaw, roll, pitch) ==
    LET HighBits(v) == ((v \div 256) % 64) * 4
    IN  << yaw % 256, roll % 256, pitch % 256,
           HighBits(yaw) + 2 * Bit(Slow(rate[1])) + Bit(Slow(rate[3])),
           HighBits(roll) + 2 + Bit(connected),
           HighBits(pitch) >>

\* load_wii_motion_plus_buffer, for one choice of the stored values.
GyroBytes(rate, yaw, roll, pitch) ==
    LET HighBits(v) == ((v \div 256) % 64) * 4
    IN  << yaw % 256, roll % 256, pitch % 256,
           HighBits(yaw) + 2 * Bit(Slow(rate[1])) + Bit(Slow(rate[3])),
           HighBits(roll) + 2 * Bit(Slow(rate[2])) + Bit(connected),
           HighBits(pitch) + 2 >>

\* Mutant of PassthroughBytes: the two low bits of z trade places.
PassthroughBytesSwapped(n) ==
    << n[1], n[2], n[3], n[4],
       (n[5] \div 2) * 2 + Bit(connected),
       (n[5] % 2) * 64 + (n[6] \div 128) * 128 + ((n[6] \div 32) % 2) * 32
         + ((n[6] \div 8) % 2) * 16 + ((n[6] \div 2) % 2) * 8 + (n[6] % 2) * 4 >>

\* load_nunchuck_passthrough_buffer: one bit less of each acceleration.
PassthroughBytes(n) ==
    << n[1], n[2], n[3], n[4],
       (n[5] \div 2) * 2 + Bit(connected),
       (n[5] % 2) * 128 + (n[6] \div 128) * 64 + ((n[6] \div 32) % 2) * 32
         + ((n[6] \div 8) % 2) * 16 + ((n[6] \div 2) % 2) * 8 + (n[6] % 2) * 4 >>

AllFF == [k \in 1..6 |-> 255]

----------------------------------------------------------------------------
(***************************************************************************)
(* Steps                                                                   *)
(***************************************************************************)
\* The player moves, and between two samples is at rest: the bytes depend on one
\* sample only. Bound: the player moves only after a report of another layout, so
\* that a frame of any sample is kept at rest, and none of them longer.
Sense ==
    /\ sample = Rest => frame = Other
    /\ sample' \in IF sample = Rest THEN Samples ELSE {Rest}
    /\ wire' = Nothing
    /\ UNCHANGED <<connected, passthrough, interleave, frame>>

\* Plugs and the host's choice of the MotionPlus mode.
Switch ==
    /\ sample = Rest
    /\ connected' \in BOOLEAN /\ passthrough' \in BOOLEAN
    /\ wire' = Nothing
    /\ UNCHANGED <<sample, interleave, frame>>

\* A report of another mode, or one with the MotionPlus inactive, is written over
\* the six bytes.
OtherLayout ==
    /\ frame # Other /\ frame' = Other
    /\ wire' = Nothing
    /\ UNCHANGED <<sample, connected, passthrough, interleave>>

Load(kind, bytes) ==
    /\ wire = Nothing
    /\ wire' = [kind |-> kind, bytes |-> bytes]
    /\ UNCHANGED <<sample, connected, passthrough>>

\* mote_input_data_core reads the accelerometer into locals without a value; a
\* failing read leaves them so (main.c: accel_10b_x, accel_10b_y, accel_10b_z).
LoadCore ==
    /\ \/ Load("core", CoreOf(sample))
       \/ \E x, y, z \in Unset : Load("unread", CoreBytes(sample.pressed, x, y, z))
    /\ UNCHANGED <<interleave, frame>>

LoadFrame(kind, bytes) ==
    /\ Load(kind, bytes)
    /\ frame' = [kind |-> kind, bytes |-> bytes, plugged |-> connected]

\* A read that fails leaves the destination as it is.
KeepFrame == Load("kept", frame.bytes) /\ UNCHANGED frame

LoadGyro ==
    \/ \E yaw \in Stored(Fourteen(sample.rate[1])),
          roll \in Stored(Fourteen(sample.rate[2])),
          pitch \in Stored(Fourteen(sample.rate[3])) :
           LoadFrame("gyro", GyroBytes(sample.rate, yaw, roll, pitch))
    \/ KeepFrame

\* What the nunchuk answers: its bytes, only FF (not ready, or gone), or an error.
Answers == {"bytes", "FF", "error"}

\* Mutant of LoadExtension: the nunchuk is read straight into the report, as it is
\* without the MotionPlus, and its FF stay there if the gyroscope fails as well.
LoadExtensionInPlace(answer) ==
    /\ LET turn == passthrough /\ connected /\ interleave
       IN  CASE turn /\ answer = "bytes" ->
                    LoadFrame("nunchuk", PassthroughBytes(sample.nunchuk))
             [] turn /\ answer = "FF" ->
                    LoadGyro \/ (Load("kept", AllFF) /\ UNCHANGED frame)
             [] OTHER -> LoadGyro
    /\ interleave' = IF passthrough THEN ~interleave ELSE interleave

\* load_extension_buffer with the MotionPlus active: in passthrough every other
\* call is the nunchuk's turn, and the gyroscope takes it if the read fails or
\* brings only FF.
LoadExtension(answer) ==
    /\ LET turn == passthrough /\ connected /\ interleave
       IN  IF turn /\ answer = "bytes" /\ sample.nunchuk # AllFF
           THEN LoadFrame("nunchuk", PassthroughBytes(sample.nunchuk))
           ELSE LoadGyro
    /\ interleave' = IF passthrough THEN ~interleave ELSE interleave

Next ==
    \/ Sense
    \/ Switch
    \/ OtherLayout
    \/ LoadCore
    \/ \E answer \in Answers : LoadExtension(answer)

Spec == Init /\ [][Next]_vars

----------------------------------------------------------------------------
(***************************************************************************)
(* The host's side                                                         *)
(***************************************************************************)
IsSet(byte, weight) == (byte \div weight) % 2 = 1

HostButtons(b) ==
    {n \in Buttons :
        CASE n = "Left"  -> IsSet(b[1], 1)  [] n = "Right" -> IsSet(b[1], 2)
          [] n = "Down"  -> IsSet(b[1], 4)  [] n = "Up"    -> IsSet(b[1], 8)
          [] n = "Plus"  -> IsSet(b[1], 16) [] n = "Two"   -> IsSet(b[2], 1)
          [] n = "One"   -> IsSet(b[2], 2)  [] n = "B"     -> IsSet(b[2], 4)
          [] n = "A"     -> IsSet(b[2], 8)  [] n = "Minus" -> IsSet(b[2], 16)
          [] n = "Home"  -> IsSet(b[2], 128)}

HostX(b) == b[3] * 4 + ((b[1] \div 32) % 4)
HostY(b) == b[4] * 4 + ((b[2] \div 32) % 2) * 2
HostZ(b) == b[5] * 4 + ((b[2] \div 64) % 2) * 2

HostIsGyro(b) == IsSet(b[6], 2)
HostValue(b, axis) == b[axis] + (b[axis + 3] \div 4) * 256
HostSlow(b, axis) == CASE axis = 1 -> IsSet(b[4], 2)
                       [] axis = 2 -> IsSet(b[5], 2)
                       [] axis = 3 -> IsSet(b[4], 1)

\* extension_decompose_nunchuck, for a nunchuk that is asked directly; the code's
\* buttons are TRUE when pressed.
Decompose(n) ==
    [stick |-> <<n[1], n[2]>>,
     accel |-> << n[3] * 4 + ((n[6] \div 4) % 4), n[4] * 4 + ((n[6] \div 16) % 4),
                  n[5] * 4 + n[6] \div 64 >>,
     c |-> ~IsSet(n[6], 2), z |-> ~IsSet(n[6], 1)]

HostNunchuk(b) ==
    [stick |-> <<b[1], b[2]>>,
     accel |-> << b[3] * 4 + ((b[6] \div 16) % 2) * 2, b[4] * 4 + ((b[6] \div 32) % 2) * 2,
                  (b[5] \div 2) * 8 + (b[6] \div 64) * 2 >>,
     c |-> ~IsSet(b[6], 8), z |-> ~IsSet(b[6], 4)]

----------------------------------------------------------------------------
(***************************************************************************)
(* Properties                                                              *)
(***************************************************************************)
\* The range of the sensor, in mg.
FourG == -4000..4000

\* The low bits of the acceleration travel in the bytes of the buttons: the host
\* still sees exactly the pressed buttons, whatever a failed read left for the
\* acceleration, and after a good read each axis but for the bit that y and z
\* lose, over the range of the sensor.
HostSeesCore ==
    /\ wire.kind \in {"core", "unread"} => HostButtons(wire.bytes) = sample.pressed
    /\ wire.kind = "core" /\ (\A axis \in 1..3 : sample.mg[axis] \in FourG) =>
           /\ HostX(wire.bytes) = TenBit(sample.mg[2])
           /\ TenBit(sample.mg[1]) - HostY(wire.bytes) \in 0..1
           /\ TenBit(sample.mg[3]) - HostZ(wire.bytes) \in 0..1

\* "to get a dps from measurement, equation is ((measurement - GYRO_ZERO) *
\* SCALE_DEGREES / _VALUE)": with the scale that the axis's own slow bit selects
\* this is the rate, to within one unit, wherever 14 bits hold it.
HostSeesRates ==
    wire.kind = "gyro" => \A axis \in 1..3 : Fits(sample.rate[axis]) =>
        LET units == HostValue(wire.bytes, axis) - 8192
            scale == IF HostSlow(wire.bytes, axis) THEN 27000 ELSE 120000
            exact == 30464 * sample.rate[axis]
        IN  exact - units * scale \in -scale..scale

\* A host that asks in passthrough mode can tell the two kinds of frames apart
\* and finds in both of them whether the extension is there. Where reads failed it
\* gets an earlier frame, and that one whole: its mark and its extension bit are
\* those of the frame that was loaded last, however many reads failed since and
\* whatever was plugged or switched. Bytes of another layout tell nothing.
HostTellsFrames ==
    wire.kind \in {"gyro", "nunchuk", "kept"} /\ frame.kind # "other" =>
        /\ HostIsGyro(wire.bytes) <=> frame.kind = "gyro"
        /\ IsSet(wire.bytes[5], 1) <=> frame.plugged
        /\ wire.kind # "kept" => frame.kind = wire.kind /\ frame.plugged = connected

\* The nunchuk in passthrough reads as it does when asked directly, but for the
\* lowest bit of each axis.
HostSeesNunchuk ==
    wire.kind = "nunchuk" =>
        LET direct == Decompose(sample.nunchuk)
            host == HostNunchuk(wire.bytes)
        IN  /\ host.stick = direct.stick /\ host.c = direct.c /\ host.z = direct.z
            /\ \A axis \in 1..3 : direct.accel[axis] - host.accel[axis] \in 0..1

=============================================================================
