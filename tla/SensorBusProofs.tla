--------------------------- MODULE SensorBusProofs ---------------------------
(***************************************************************************)
(* Proofs about SensorBus, for any registers, values and scales.           *)
(*                                                                         *)
(* What each property needs of the threads' positions is an invariant of   *)
(* its own: who may be in the middle of what while somebody else moves the *)
(* camera's pointer, changes the mode, or sets a full scale.               *)
(***************************************************************************)
EXTENDS SensorBus, TLAPS

----------------------------------------------------------------------------
(***************************************************************************)
(* Types.                                                                  *)
(***************************************************************************)
Local == [pc : Pcs, scale : Scales, reg : CamRegs, mode : Values]
ThreadTyped == thread \in [Threads -> Local]

CameraTyped ==
    /\ camera \in [reg : [CamRegs -> Values], pointer : Pointers]
    /\ mirror \in [CamRegs -> Values]
    /\ raw \in Frame
    /\ loaded \in [frame : Frame, mode : Values]
    /\ reply \in [asked : CamRegs, got : Origins]
    /\ astray \in SUBSET Threads
    /\ unsure \in SUBSET CamRegs

ImuTyped ==
    /\ imu \in [Sensors -> Scales]
    /\ reading \in [at : Scales, by : Scales]

\* The parts make up TypeOK.
LEMMA TypeParts ==
    /\ TypeOK <=> ThreadTyped /\ CameraTyped /\ ImuTyped
    /\ TypeOK' <=> ThreadTyped' /\ CameraTyped' /\ ImuTyped'
BY DEF TypeOK, ThreadTyped, Local, CameraTyped, ImuTyped

\* Members of the constants that the actions name.
LEMMA Members ==
    /\ "main" \in Threads /\ "btc" \in Threads /\ "accel" \in Sensors /\ "gyro" \in Sensors
    /\ Wanted["accel"] \in Scales /\ Wanted["gyro"] \in Scales
    /\ ModeReg \in CamRegs /\ PowerUp \in Values
    /\ Rest \in Local /\ Rest.pc = "idle"
BY SensorBusAssumption DEF Threads, Sensors, Rest, Local, Pcs

\* What a thread may become ...
LEMMA Locals ==
    /\ \A p \in Pcs :
          [Rest EXCEPT !.pc = p] \in Local /\ [Rest EXCEPT !.pc = p].pc = p
    /\ \A p \in Pcs, s \in Scales :
          /\ [Rest EXCEPT !.pc = p, !.scale = s] \in Local
          /\ [Rest EXCEPT !.pc = p, !.scale = s].pc = p
          /\ [Rest EXCEPT !.pc = p, !.scale = s].scale = s
    /\ \A p \in Pcs, r \in CamRegs :
          /\ [Rest EXCEPT !.pc = p, !.reg = r] \in Local
          /\ [Rest EXCEPT !.pc = p, !.reg = r].pc = p
          /\ [Rest EXCEPT !.pc = p, !.reg = r].reg = r
    /\ \A p \in Pcs, v \in Values :
          /\ [Rest EXCEPT !.pc = p, !.mode = v] \in Local
          /\ [Rest EXCEPT !.pc = p, !.mode = v].pc = p
          /\ [Rest EXCEPT !.pc = p, !.mode = v].mode = v
<1>1. ASSUME NEW p \in Pcs
      PROVE  [Rest EXCEPT !.pc = p] \in Local /\ [Rest EXCEPT !.pc = p].pc = p
    BY Members DEF Local
<1>2. ASSUME NEW p \in Pcs, NEW s \in Scales
      PROVE  /\ [Rest EXCEPT !.pc = p, !.scale = s] \in Local
             /\ [Rest EXCEPT !.pc = p, !.scale = s].pc = p
             /\ [Rest EXCEPT !.pc = p, !.scale = s].scale = s
    BY Members DEF Local
<1>3. ASSUME NEW p \in Pcs, NEW r \in CamRegs
      PROVE  /\ [Rest EXCEPT !.pc = p, !.reg = r] \in Local
             /\ [Rest EXCEPT !.pc = p, !.reg = r].pc = p
             /\ [Rest EXCEPT !.pc = p, !.reg = r].reg = r
    BY Members DEF Local
<1>4. ASSUME NEW p \in Pcs, NEW v \in Values
      PROVE  /\ [Rest EXCEPT !.pc = p, !.mode = v] \in Local
             /\ [Rest EXCEPT !.pc = p, !.mode = v].pc = p
             /\ [Rest EXCEPT !.pc = p, !.mode = v].mode = v
    BY Members DEF Local
<1> QED BY <1>1, <1>2, <1>3, <1>4

\* ... and does, while the other stays what it is.
LEMMA GotoEffect ==
    ThreadTyped =>
        \A t \in Threads, p \in Pcs :
            Goto(t, p) => /\ ThreadTyped'
                          /\ thread'[t].pc = p
                          /\ \A u \in Threads \ {t} : thread'[u] = thread[u]
<1> SUFFICES ASSUME ThreadTyped, NEW t \in Threads, NEW p \in Pcs, Goto(t, p)
             PROVE  /\ ThreadTyped' /\ thread'[t].pc = p
                    /\ \A u \in Threads \ {t} : thread'[u] = thread[u]
    OBVIOUS
<1> DEFINE new == [Rest EXCEPT !.pc = p]
<1>1. new \in Local /\ new.pc = p BY Locals
<1>2. thread' = [thread EXCEPT ![t] = new] BY DEF Goto
<1> HIDE DEF new
<1> QED BY <1>1, <1>2 DEF ThreadTyped

\* The positions the actions name.
LEMMA Positions ==
    /\ {"idle", "halted"} \subseteq Pcs /\ BootPcs \subseteq Pcs
    /\ BootReadPcs \subseteq Pcs /\ CorePcs \subseteq Pcs /\ HostPcs \subseteq Pcs
BY DEF Pcs

\* The position and the others of the thread that takes a step.
Moves(t, from, to) ==
    /\ thread[t].pc = from /\ thread'[t].pc \in to
    /\ \A u \in Threads \ {t} : thread'[u] = thread[u]

\* Steps that only move on.
LEMMA GotoMoves ==
    ThreadTyped =>
        \A t \in Threads, from, p \in Pcs :
            At(t, from) /\ Goto(t, p) => ThreadTyped' /\ Moves(t, from, {p})
BY GotoEffect DEF At, Moves

\* A sample is taken at the scale that is set.
LEMMA SampleMoves ==
    ASSUME TypeOK
    PROVE  \A t \in Threads, s \in Sensors, pc \in Pcs, next \in Pcs, given_up \in Pcs :
              Sample(t, s, pc, next, given_up) =>
                  /\ ThreadTyped' /\ Moves(t, pc, {next, given_up})
                  /\ \/ thread'[t].pc = next /\ thread'[t].scale = imu[s]
                     \/ thread'[t].pc = given_up
                  /\ UNCHANGED <<cameraSide, imuSide>>
<1> SUFFICES ASSUME NEW t \in Threads, NEW s \in Sensors, NEW pc \in Pcs, NEW next \in Pcs,
                    NEW given_up \in Pcs, Sample(t, s, pc, next, given_up)
             PROVE  /\ ThreadTyped' /\ Moves(t, pc, {next, given_up})
                    /\ \/ thread'[t].pc = next /\ thread'[t].scale = imu[s]
                       \/ thread'[t].pc = given_up
                    /\ UNCHANGED <<cameraSide, imuSide>>
    OBVIOUS
<1>1. ThreadTyped /\ imu[s] \in Scales /\ thread[t].pc = pc
    BY TypeParts DEF ImuTyped, Sample, At
<1>2. UNCHANGED <<cameraSide, imuSide>> BY DEF Sample
<1>3. CASE Goto(t, given_up)
    BY <1>1, <1>2, <1>3, GotoMoves DEF At, Moves
<1>4. CASE thread' = [thread EXCEPT ![t] = [Rest EXCEPT !.pc = next, !.scale = imu[s]]]
  <2> DEFINE new == [Rest EXCEPT !.pc = next, !.scale = imu[s]]
  <2>0. \A x \in Scales : /\ [Rest EXCEPT !.pc = next, !.scale = x] \in Local
                          /\ [Rest EXCEPT !.pc = next, !.scale = x].pc = next
                          /\ [Rest EXCEPT !.pc = next, !.scale = x].scale = x
      BY Locals
  <2>1. new \in Local /\ new.pc = next /\ new.scale = imu[s] BY <1>1, <2>0
  <2> HIDE DEF new
  <2>2. thread' = [thread EXCEPT ![t] = new] BY <1>4 DEF new
  <2>3. thread'[t] = new /\ \A u \in Threads \ {t} : thread'[u] = thread[u]
      BY <1>1, <2>2 DEF ThreadTyped
  <2>4. ThreadTyped' BY <1>1, <2>1, <2>2 DEF ThreadTyped
  <2> QED BY <1>1, <1>2, <2>1, <2>3, <2>4 DEF Moves
<1> QED BY <1>3, <1>4 DEF Sample

\* A factor is looked up.
LEMMA FactorMoves ==
    ASSUME TypeOK
    PROVE  \A t \in Threads, s \in Sensors, pc \in Pcs, next \in Pcs :
              Factor(t, s, pc, next) =>
                  /\ ThreadTyped' /\ Moves(t, pc, {next})
                  /\ reading' = reading \/ reading' = [at |-> thread[t].scale, by |-> imu[s]]
                  /\ UNCHANGED <<cameraSide, imu>>
BY TypeParts, GotoMoves DEF Factor

\* A report of the host is received.
LEMMA ReceiveMoves ==
    ASSUME TypeOK
    PROVE  \A next \in Pcs, r \in CamRegs :
              Receive(next, r) => /\ ThreadTyped' /\ Moves("btc", "idle", {next})
                                  /\ thread'["btc"].reg = r
<1> SUFFICES ASSUME NEW next \in Pcs, NEW r \in CamRegs, Receive(next, r)
             PROVE  ThreadTyped' /\ Moves("btc", "idle", {next}) /\ thread'["btc"].reg = r
    OBVIOUS
<1> DEFINE new == [Rest EXCEPT !.pc = next, !.reg = r]
<1>1. new \in Local /\ new.pc = next /\ new.reg = r BY Locals
<1>2. thread' = [thread EXCEPT !["btc"] = new] /\ thread["btc"].pc = "idle"
    BY DEF Receive, At
<1> HIDE DEF new
<1>3. ThreadTyped /\ "btc" \in Threads BY TypeParts, Members
<1> QED BY <1>1, <1>2, <1>3 DEF ThreadTyped, Moves

\* The format is looked up.
LEMMA FormatMoves ==
    ASSUME TypeOK
    PROVE  \A t \in Threads :
              FormatIr(t) => /\ ThreadTyped' /\ Moves(t, "ir", {"ir_copy"})
                             /\ thread'[t].mode = mirror[ModeReg]
                             /\ UNCHANGED <<cameraSide, imuSide>>
<1> SUFFICES ASSUME NEW t \in Threads, FormatIr(t)
             PROVE  /\ ThreadTyped' /\ Moves(t, "ir", {"ir_copy"})
                    /\ thread'[t].mode = mirror[ModeReg]
                    /\ UNCHANGED <<cameraSide, imuSide>>
    OBVIOUS
<1> DEFINE new == [Rest EXCEPT !.pc = "ir_copy", !.mode = mirror[ModeReg]]
<1>0. mirror[ModeReg] \in Values BY TypeParts, Members DEF CameraTyped
<1>1. new \in Local /\ new.pc = "ir_copy" /\ new.mode = mirror[ModeReg]
  <2>1. "ir_copy" \in Pcs BY DEF Pcs, CorePcs
  <2> QED BY <1>0, <2>1, Locals
<1>2. thread' = [thread EXCEPT ![t] = new] /\ thread[t].pc = "ir"
    BY DEF FormatIr, At
<1>3. UNCHANGED <<cameraSide, imuSide>> BY DEF FormatIr
<1> HIDE DEF new
<1>4. ThreadTyped BY TypeParts
<1>5. thread'[t] = new /\ \A u \in Threads \ {t} : thread'[u] = thread[u]
    BY <1>2, <1>4 DEF ThreadTyped
<1>6. ThreadTyped' BY <1>1, <1>2, <1>4 DEF ThreadTyped
<1> QED BY <1>1, <1>2, <1>3, <1>5, <1>6 DEF Moves

\* Where each step takes the thread that takes it.
LEMMA BootMoves ==
    ASSUME TypeOK
    PROVE  /\ WhoAmI => ThreadTyped' /\ Moves("main", "whoami", {"accel_fs", "halted"})
           /\ AccelFs => ThreadTyped' /\ Moves("main", "accel_fs", {"gyro_fs"})
           /\ GyroFs => ThreadTyped' /\ Moves("main", "gyro_fs", {"boot_accel"})
           /\ BootFrame => ThreadTyped' /\ Moves("main", "boot_frame", {"boot_receive"})
           /\ BootReceive => ThreadTyped' /\ Moves("main", "boot_receive", {"idle"})
           /\ Replace => /\ ThreadTyped' /\ thread'["main"].pc = "idle"
                         /\ thread'["btc"] = thread["btc"]
<1> USE Members, Positions DEF BootPcs, BootReadPcs
<1>1. ThreadTyped BY TypeParts
<1>2. WhoAmI => ThreadTyped' /\ Moves("main", "whoami", {"accel_fs", "halted"})
    BY <1>1, GotoMoves DEF WhoAmI, Moves
<1>3. AccelFs => ThreadTyped' /\ Moves("main", "accel_fs", {"gyro_fs"})
    BY <1>1, GotoMoves DEF AccelFs, Configure
<1>4. GyroFs => ThreadTyped' /\ Moves("main", "gyro_fs", {"boot_accel"})
    BY <1>1, GotoMoves DEF GyroFs, Configure
<1>5. BootFrame => ThreadTyped' /\ Moves("main", "boot_frame", {"boot_receive"})
    BY <1>1, GotoMoves DEF BootFrame
<1>6. BootReceive => ThreadTyped' /\ Moves("main", "boot_receive", {"idle"})
    BY <1>1, GotoMoves DEF BootReceive
<1>7. Replace => /\ ThreadTyped' /\ thread'["main"].pc = "idle"
                 /\ thread'["btc"] = thread["btc"]
  <2>1. "btc" \in Threads \ {"main"} OBVIOUS
  <2> QED BY <1>1, <2>1, GotoEffect DEF Replace
<1> QED BY <1>2, <1>3, <1>4, <1>5, <1>6, <1>7

\* ... in mote_input_data_core ...
LEMMA CoreMoves ==
    ASSUME TypeOK, NEW t \in Threads
    PROVE  /\ Turn(t) => ThreadTyped' /\ Moves(t, "idle", {"accel"})
           /\ PointFrame(t) => ThreadTyped' /\ Moves(t, "frame", {"frame_receive"})
           /\ ReceiveFrame(t) => ThreadTyped' /\ Moves(t, "frame_receive", {"ir"})
           /\ CopyIr(t) => ThreadTyped' /\ Moves(t, "ir_copy", {"gyro"})
           /\ SkipIr(t) => ThreadTyped' /\ Moves(t, "ir", {"gyro"})
           /\ SkipGyro(t) => ThreadTyped' /\ Moves(t, "gyro", {"idle"})
<1> USE Members, Positions, GotoMoves DEF CorePcs
<1>1. ThreadTyped BY TypeParts
<1>2. Turn(t) => ThreadTyped' /\ Moves(t, "idle", {"accel"}) BY <1>1 DEF Turn
<1>3. PointFrame(t) => ThreadTyped' /\ Moves(t, "frame", {"frame_receive"})
    BY <1>1 DEF PointFrame
<1>4. ReceiveFrame(t) => ThreadTyped' /\ Moves(t, "frame_receive", {"ir"})
    BY <1>1 DEF ReceiveFrame
<1>5. CopyIr(t) => ThreadTyped' /\ Moves(t, "ir_copy", {"gyro"}) BY <1>1 DEF CopyIr
<1>6. SkipIr(t) => ThreadTyped' /\ Moves(t, "ir", {"gyro"}) BY <1>1 DEF SkipIr
<1>7. SkipGyro(t) => ThreadTyped' /\ Moves(t, "gyro", {"idle"}) BY <1>1 DEF SkipGyro
<1> QED BY <1>2, <1>3, <1>4, <1>5, <1>6, <1>7

\* ... and in handle_output_reports.
LEMMA HostMoves ==
    ASSUME TypeOK
    PROVE  /\ WriteCamera => ThreadTyped' /\ Moves("btc", "write", {"idle"})
           /\ PointRegister => /\ ThreadTyped' /\ Moves("btc", "point", {"receive", "idle"})
                               /\ thread'["btc"].pc = "receive"
                                  => thread'["btc"].reg = thread["btc"].reg
           /\ ReceiveRegister => ThreadTyped' /\ Moves("btc", "receive", {"idle"})
           /\ \A r \in CamRegs : Read(r) => ThreadTyped' /\ Moves("btc", "idle", {"point"})
           /\ \A r \in CamRegs, v \in Values :
                 Write(r, v) => ThreadTyped' /\ Moves("btc", "idle", {"write"})
<1> USE Members, Positions DEF HostPcs
<1>1. ThreadTyped BY TypeParts
<1>2. WriteCamera => ThreadTyped' /\ Moves("btc", "write", {"idle"})
    BY <1>1, GotoMoves DEF WriteCamera
<1>3. PointRegister => /\ ThreadTyped' /\ Moves("btc", "point", {"receive", "idle"})
                       /\ thread'["btc"].pc = "receive"
                          => thread'["btc"].reg = thread["btc"].reg
  <2>1. ASSUME PointRegister, Goto("btc", "idle")
        PROVE  ThreadTyped' /\ Moves("btc", "point", {"idle"})
      BY <1>1, <2>1, GotoMoves DEF PointRegister
  <2>2. ASSUME PointRegister, thread' = [thread EXCEPT !["btc"].pc = "receive"]
        PROVE  /\ ThreadTyped' /\ Moves("btc", "point", {"receive"})
               /\ thread'["btc"].reg = thread["btc"].reg
    <3> DEFINE new == [thread["btc"] EXCEPT !.pc = "receive"]
    <3>1. thread["btc"] \in Local /\ thread["btc"].pc = "point"
        BY <1>1, <2>2 DEF ThreadTyped, PointRegister, At
    <3>2. new \in Local /\ new.pc = "receive" /\ new.reg = thread["btc"].reg
        BY <3>1 DEF Local
    <3>3. thread' = [thread EXCEPT !["btc"] = new] BY <2>2
    <3> HIDE DEF new
    <3>4. thread'["btc"] = new /\ \A u \in Threads \ {"btc"} : thread'[u] = thread[u]
        BY <1>1, <3>3 DEF ThreadTyped
    <3>5. ThreadTyped' BY <1>1, <3>2, <3>3 DEF ThreadTyped
    <3> QED BY <3>1, <3>2, <3>4, <3>5 DEF Moves
  <2> QED BY <2>1, <2>2 DEF PointRegister, Moves
<1>4. ReceiveRegister => ThreadTyped' /\ Moves("btc", "receive", {"idle"})
    BY <1>1, GotoMoves DEF ReceiveRegister
<1>5. \A r \in CamRegs : Read(r) => ThreadTyped' /\ Moves("btc", "idle", {"point"})
    BY ReceiveMoves DEF Read
<1>6. \A r \in CamRegs, v \in Values :
         Write(r, v) => ThreadTyped' /\ Moves("btc", "idle", {"write"})
    BY ReceiveMoves DEF Write
<1> QED BY <1>2, <1>3, <1>4, <1>5, <1>6

\* The pointer is set ...
LEMMA PointEffect ==
    ASSUME CameraTyped
    PROVE  \A t \in Threads, where \in Pointers :
              PointAt(t, where) =>
                  /\ camera' \in [reg : [CamRegs -> Values], pointer : Pointers]
                  /\ camera'.pointer = where /\ camera'.reg = camera.reg
                  /\ astray' \in SUBSET Threads
                  /\ \A u \in Threads \ {t} : /\ Reading(u) => u \in astray'
                                              /\ u \in astray => u \in astray'
BY DEF CameraTyped, PointAt, Overtaken, Other, Threads

\* ... and moved.
LEMMA ReceiveEffect ==
    ASSUME CameraTyped
    PROVE  \A t \in Threads :
              ReceiveFrom(t) =>
                  /\ camera' \in [reg : [CamRegs -> Values], pointer : Pointers]
                  /\ camera'.pointer = "past" /\ camera'.reg = camera.reg
                  /\ astray' \in SUBSET Threads
                  /\ \A u \in Threads \ {t} : /\ Reading(u) => u \in astray'
                                              /\ u \in astray => u \in astray'
BY DEF CameraTyped, ReceiveFrom, Overtaken, Other, Threads, Pointers

\* What is brought has an origin.
LEMMA OriginsTyped ==
    /\ CameraTyped => \A t : Own(t, camera.pointer) \in Origins
    /\ NoFrame \in Frame /\ NoReply \in [asked : CamRegs, got : Origins]
    /\ NoReg \in Origins /\ "past" \in Pointers /\ "frame" \in Pointers
    /\ "frame36" \in Pointers /\ CamRegs \subseteq Pointers
<1>1. NoReg \in Origins /\ "astray" \in Origins /\ Pointers \subseteq Origins
    BY DEF Origins
<1>2. NoFrame \in Frame BY <1>1 DEF NoFrame, Frame
<1>3. NoReply \in [asked : CamRegs, got : Origins] BY <1>1, Members DEF NoReply
<1>4. "past" \in Pointers /\ "frame" \in Pointers
      /\ "frame36" \in Pointers /\ CamRegs \subseteq Pointers
    BY DEF Pointers
<1>5. CameraTyped => \A t : Own(t, camera.pointer) \in Origins
    BY <1>1 DEF CameraTyped, Own
<1> QED BY <1>1, <1>2, <1>3, <1>4, <1>5

\* The steps that leave the camera and the reports alone.
Elsewhere == \/ WhoAmI \/ AccelFs \/ GyroFs \/ BootAccel \/ BootScale
             \/ \E t \in Threads : \/ ReadAccel(t) \/ ScaleAccel(t) \/ FormatIr(t)
                                   \/ SkipIr(t) \/ ReadGyro(t) \/ ScaleGyro(t) \/ SkipGyro(t)

\* They do.
LEMMA ElsewhereFrame == Elsewhere => UNCHANGED cameraSide
BY DEF Elsewhere, WhoAmI, AccelFs, GyroFs, Configure, BootAccel, BootScale, ReadAccel,
       ScaleAccel, FormatIr, SkipIr, ReadGyro, ScaleGyro, SkipGyro, Sample, Factor

\* The steps that do not, and leave the motion sensor alone.
AtCamera == \/ BootFrame \/ BootReceive \/ Replace \/ Host
            \/ \E t \in Threads : \/ Turn(t) \/ PointFrame(t) \/ ReceiveFrame(t)
                                  \/ CopyIr(t)

\* They do.
LEMMA AtCameraFrame == AtCamera => UNCHANGED imuSide
BY DEF AtCamera, BootFrame, BootReceive, Replace, Host, Enable, WriteCamera, PointRegister,
       ReceiveRegister, Read, Write, Turn, PointFrame, ReceiveFrame, CopyIr

\* There are no others.
LEMMA AllSteps == Next <=> Elsewhere \/ AtCamera
BY DEF Next, Boot, Core, Elsewhere, AtCamera

\* Every step leaves the threads at a position they have.
LEMMA ThreadStep ==
    ASSUME TypeOK, Next
    PROVE  ThreadTyped'
<1>0. ThreadTyped BY TypeParts
<1>1. CASE WhoAmI \/ AccelFs \/ GyroFs \/ BootFrame \/ BootReceive \/ Replace
    BY <1>1, BootMoves
<1>2. CASE BootAccel \/ BootScale
  <2>1. {"boot_accel", "boot_scale", "boot_frame"} \subseteq Pcs
      BY Positions DEF BootReadPcs
  <2> QED BY <1>2, <2>1, Members, SampleMoves, FactorMoves DEF BootAccel, BootScale
<1>3. ASSUME NEW t \in Threads, Core(t) PROVE ThreadTyped'
  <2>1. {"accel", "accel_scale", "frame", "gyro", "gyro_scale", "idle"} \subseteq Pcs
      BY Positions DEF CorePcs
  <2>2. CASE ReadAccel(t) \/ ReadGyro(t)
      BY <2>1, <2>2, Members, SampleMoves DEF ReadAccel, ReadGyro
  <2>3. CASE ScaleAccel(t) \/ ScaleGyro(t)
      BY <2>1, <2>3, Members, FactorMoves DEF ScaleAccel, ScaleGyro
  <2> QED BY <1>3, <2>2, <2>3, CoreMoves, FormatMoves DEF Core
<1>4. CASE Host
    BY <1>0, <1>4, HostMoves DEF Host, Enable, ThreadTyped
<1> QED BY <1>1, <1>2, <1>3, <1>4 DEF Next, Boot

\* The camera and the reports keep their types.
LEMMA CameraStep ==
    ASSUME TypeOK, Next
    PROVE  CameraTyped'
<1>0. CameraTyped /\ ThreadTyped BY TypeParts
<1> USE DEF CameraTyped
<1>1. CASE Elsewhere BY <1>0, <1>1, ElsewhereFrame DEF cameraSide
<1>2. CASE BootFrame \/ BootReceive \/ Replace
    BY <1>0, <1>2, Members, PointEffect, ReceiveEffect, OriginsTyped
    DEF BootFrame, BootReceive, Replace
<1>3. ASSUME NEW t \in Threads,
             Turn(t) \/ PointFrame(t) \/ ReceiveFrame(t) \/ CopyIr(t)
      PROVE  CameraTyped'
  <2>1. CASE Turn(t)
      BY <1>0, <2>1, Members, OriginsTyped DEF Turn
  <2>2. CASE PointFrame(t)
      BY <1>0, <1>3, <2>2, PointEffect, OriginsTyped DEF PointFrame
  <2>3. CASE ReceiveFrame(t)
    <3> DEFINE new == [from |-> Own(t, camera.pointer),
                       mode |-> IF ModeReg \in unsure THEN "unknown" ELSE camera.reg[ModeReg]]
    <3>1. new \in Frame
        BY <1>0, Members, OriginsTyped DEF Frame
    <3> HIDE DEF new
    <3>2. CASE ReceiveFrom(t) /\ raw' = new
        BY <1>0, <1>3, <2>3, <3>1, <3>2, ReceiveEffect DEF ReceiveFrame
    <3>3. CASE astray' = astray \ {t} /\ UNCHANGED <<camera, raw>>
        BY <1>0, <2>3, <3>3 DEF ReceiveFrame
    <3> QED BY <2>3, <3>2, <3>3 DEF ReceiveFrame, new
  <2>4. CASE CopyIr(t)
    <3>1. thread[t].mode \in Values BY <1>0 DEF ThreadTyped, Local
    <3> QED BY <1>0, <2>4, <3>1, OriginsTyped DEF CopyIr
  <2> QED BY <1>3, <2>1, <2>2, <2>3, <2>4
<1>4. CASE Enable
    BY <1>0, <1>4, Members, OriginsTyped DEF Enable, Overtaken, Other, Threads
<1>5. CASE WriteCamera
  <2>1. thread["btc"].reg \in CamRegs BY <1>0, Members DEF ThreadTyped, Local
  <2>2. mirror[thread["btc"].reg] \in Values BY <1>0, <2>1
  <2> DEFINE new == [camera.reg EXCEPT ![thread["btc"].reg] = mirror[thread["btc"].reg]]
  <2>3. new \in [CamRegs -> Values] BY <1>0, <2>1, <2>2
  <2> HIDE DEF new
  <2>4. camera' = [reg |-> new, pointer |-> "past"] \/ camera' = camera
      BY <1>5 DEF WriteCamera, new
  <2>5. camera' \in [reg : [CamRegs -> Values], pointer : Pointers]
      BY <1>0, <2>3, <2>4, OriginsTyped
  <2>6. astray' \in SUBSET Threads /\ unsure' \in SUBSET CamRegs
      BY <1>0, <1>5 DEF WriteCamera, Overtaken, Other, Threads
  <2>7. UNCHANGED <<mirror, raw, loaded, reply>> BY <1>5 DEF WriteCamera
  <2> QED BY <1>0, <2>5, <2>6, <2>7
<1>6. CASE PointRegister \/ ReceiveRegister
  <2>1. thread["btc"].reg \in CamRegs BY <1>0, Members DEF ThreadTyped, Local
  <2>2. \A got \in Origins : Replied(got) => reply' \in [asked : CamRegs, got : Origins]
      BY <2>1 DEF Replied
  <2>3. NoReg \in Origins /\ Own("btc", camera.pointer) \in Origins
        /\ thread["btc"].reg \in Pointers /\ "btc" \in Threads
      BY <1>0, <2>1, Members, OriginsTyped
  <2>4. reply' \in [asked : CamRegs, got : Origins]
    <3>1. CASE UNCHANGED reply BY <1>0, <3>1
    <3>2. CASE Replied(NoReg) BY <2>2, <2>3, <3>2
    <3>3. CASE Replied(Own("btc", camera.pointer)) BY <2>2, <2>3, <3>3
    <3> QED BY <1>6, <3>1, <3>2, <3>3 DEF PointRegister, ReceiveRegister
  <2>5. /\ camera' \in [reg : [CamRegs -> Values], pointer : Pointers]
        /\ astray' \in SUBSET Threads
    <3>1. CASE PointAt("btc", thread["btc"].reg)
        BY <1>0, <2>3, <3>1, PointEffect
    <3>2. CASE ReceiveFrom("btc")
        BY <1>0, <2>3, <3>2, ReceiveEffect
    <3>3. CASE camera' = camera /\ astray' \in {astray, astray \ {"btc"}}
        BY <1>0, <3>3
    <3> QED BY <1>6, <3>1, <3>2, <3>3 DEF PointRegister, ReceiveRegister
  <2> QED BY <1>0, <1>6, <2>4, <2>5 DEF PointRegister, ReceiveRegister
<1>7. ASSUME NEW r \in CamRegs, Read(r) PROVE CameraTyped'
    BY <1>0, <1>7, OriginsTyped DEF Read
<1>8. ASSUME NEW r \in CamRegs, NEW v \in Values, Write(r, v) PROVE CameraTyped'
  <2>1. mirror' \in [CamRegs -> Values] /\ unsure' \in SUBSET CamRegs
      BY <1>0, <1>8 DEF Write
  <2>2. raw' \in Frame
    <3>1. [raw EXCEPT !.mode = "unknown"] \in Frame BY <1>0 DEF Frame
    <3> QED BY <1>0, <1>8, <3>1 DEF Write
  <2>3. astray' \in SUBSET Threads
      BY <1>0, <1>8 DEF Write, Testing, Threads
  <2> QED BY <1>0, <1>8, <2>1, <2>2, <2>3 DEF Write
<1> QED
    BY <1>1, <1>2, <1>3, <1>4, <1>5, <1>6, <1>7, <1>8, AllSteps DEF AtCamera, Host

\* The motion sensor keeps its types.
LEMMA ImuStep ==
    ASSUME TypeOK, Next
    PROVE  ImuTyped'
<1>0. ImuTyped /\ ThreadTyped BY TypeParts
<1> USE DEF ImuTyped
<1>1. CASE AtCamera BY <1>0, <1>1, AtCameraFrame DEF imuSide
<1>2. CASE AccelFs \/ GyroFs
    BY <1>0, <1>2, Members DEF AccelFs, GyroFs, Configure
<1>3. ASSUME NEW t \in Threads, NEW s \in Sensors, NEW pc, NEW next, Factor(t, s, pc, next)
      PROVE  ImuTyped'
  <2>1. thread[t].scale \in Scales /\ imu[s] \in Scales BY <1>0 DEF ThreadTyped, Local
  <2> QED BY <1>0, <1>3, <2>1 DEF Factor
<1>4. CASE BootScale BY <1>3, <1>4, Members DEF BootScale
<1>5. ASSUME NEW t \in Threads, ScaleAccel(t) \/ ScaleGyro(t) PROVE ImuTyped'
    BY <1>3, <1>5, Members DEF ScaleAccel, ScaleGyro
<1>6. CASE WhoAmI \/ BootAccel BY <1>0, <1>6 DEF WhoAmI, BootAccel, Sample, imuSide
<1>7. ASSUME NEW t \in Threads,
             ReadAccel(t) \/ FormatIr(t) \/ SkipIr(t) \/ ReadGyro(t) \/ SkipGyro(t)
      PROVE  ImuTyped'
    BY <1>0, <1>7 DEF ReadAccel, FormatIr, SkipIr, ReadGyro, SkipGyro, Sample, imuSide
<1> QED
    BY <1>1, <1>2, <1>4, <1>5, <1>6, <1>7, AllSteps DEF Elsewhere

\* The initial state is of the right type.
LEMMA InitTyped == Init => TypeOK
<1> SUFFICES ASSUME Init PROVE ThreadTyped /\ CameraTyped /\ ImuTyped
    BY TypeParts
<1>1. ThreadTyped
  <2>1. [Rest EXCEPT !.pc = "whoami"] \in Local /\ [Rest EXCEPT !.pc = "idle"] \in Local
      BY Locals, Positions DEF BootPcs
  <2> QED BY <2>1 DEF Init, ThreadTyped
<1>2. CameraTyped
  <2>1. [r \in CamRegs |-> PowerUp] \in [CamRegs -> Values] BY Members
  <2>2. [frame |-> NoFrame, mode |-> PowerUp] \in [frame : Frame, mode : Values]
      BY Members, OriginsTyped
  <2> QED BY <2>1, <2>2, OriginsTyped DEF Init, CameraTyped
<1>3. ImuTyped
  <2>1. Rest.scale \in Scales BY Members DEF Local
  <2> QED BY <2>1 DEF Init, ImuTyped
<1> QED BY <1>1, <1>2, <1>3

\* Type correctness, for any registers, values and full scales.
THEOREM SensorTypeCorrect == Spec => []TypeOK
<1>1. TypeOK /\ [Next]_vars => TypeOK'
  <2> SUFFICES ASSUME TypeOK, [Next]_vars PROVE TypeOK'
      OBVIOUS
  <2>1. CASE Next BY <2>1, TypeParts, ThreadStep, CameraStep, ImuStep
  <2>2. CASE UNCHANGED vars BY <2>2 DEF vars, TypeOK
  <2> QED BY <2>1, <2>2
<1> QED BY <1>1, InitTyped, PTL DEF Spec

----------------------------------------------------------------------------
(***************************************************************************)
(* Scales. While one is being set no other thread reads the sensor, so a   *)
(* sample and its factor are of the same scale.                            *)
(***************************************************************************)
Setup == BootPcs \cup BootReadPcs \cup {"halted"}

ScaleSoFar ==
    /\ thread["main"].pc \in Setup => thread["btc"].pc = "idle"
    /\ \A t \in Threads :
          /\ thread[t].pc \in {"boot_scale", "accel_scale"} => thread[t].scale = imu["accel"]
          /\ thread[t].pc = "gyro_scale" => thread[t].scale = imu["gyro"]

\* Initially no sample was taken.
LEMMA ScaleInit == Init => ScaleSoFar
<1> SUFFICES ASSUME Init PROVE ScaleSoFar
    OBVIOUS
<1>1. /\ thread["main"] = [Rest EXCEPT !.pc = "whoami"]
      /\ thread["btc"] = [Rest EXCEPT !.pc = "idle"]
    BY Members DEF Init
<1>2. thread["main"].pc = "whoami" /\ thread["btc"].pc = "idle"
    BY <1>1, Locals, Positions DEF BootPcs
<1> QED BY <1>2 DEF ScaleSoFar, Threads

\* A step outside the set-up, by a thread that ends at a position where it holds
\* no sample.
LEMMA ScaleElsewhere ==
    ASSUME ScaleSoFar, UNCHANGED imu, NEW t \in Threads, NEW from, NEW to, Moves(t, from, to),
           to \cap {"boot_scale", "accel_scale", "gyro_scale"} = {},
           thread'["main"].pc \in Setup => thread'["btc"].pc = "idle"
    PROVE  ScaleSoFar'
BY DEF ScaleSoFar, Moves, Threads

\* Every step keeps the scales in line.
LEMMA ScaleStep ==
    ASSUME TypeOK, ScaleSoFar, Next
    PROVE  ScaleSoFar' /\ (ScaleIsTrue => ScaleIsTrue')
<1> USE Members DEF Setup, BootPcs, BootReadPcs
<1>1. CASE AccelFs \/ GyroFs
  <2>1. /\ thread["main"].pc \in {"accel_fs", "gyro_fs"} /\ thread["btc"].pc = "idle"
        /\ thread'["main"].pc \in {"gyro_fs", "boot_accel"} /\ thread'["btc"].pc = "idle"
      BY <1>1, BootMoves DEF Moves, ScaleSoFar, Threads
  <2>2. UNCHANGED reading BY <1>1 DEF AccelFs, GyroFs, Configure
  <2> QED BY <2>1, <2>2 DEF ScaleSoFar, Threads, ScaleIsTrue
<1>2. CASE WhoAmI
  <2>1. UNCHANGED <<imu, reading>> BY <1>2 DEF WhoAmI, imuSide
  <2>2. Moves("main", "whoami", {"accel_fs", "halted"}) BY <1>2, BootMoves
  <2>3. thread'["btc"].pc = "idle" BY <2>2 DEF Moves, ScaleSoFar, Threads
  <2> QED BY <2>1, <2>2, <2>3, ScaleElsewhere DEF ScaleIsTrue
<1>3. CASE BootFrame \/ BootReceive \/ Replace
  <2>1. UNCHANGED <<imu, reading>>
      BY <1>3, AtCameraFrame DEF AtCamera, imuSide
  <2>2. thread["main"].pc \notin Setup \/ thread["btc"].pc = "idle" BY DEF ScaleSoFar
  <2>3. CASE BootFrame \/ BootReceive
    <3>1. PICK from, to : /\ Moves("main", from, to) /\ from \in Setup
                          /\ to \cap {"boot_scale", "accel_scale", "gyro_scale"} = {}
        BY <2>3, BootMoves
    <3>2. thread'["btc"].pc = "idle" BY <2>2, <3>1 DEF Moves, Threads
    <3> QED BY <2>1, <3>1, <3>2, ScaleElsewhere DEF ScaleIsTrue
  <2>4. CASE Replace
    <3>1. thread'["main"].pc = "idle" /\ thread'["btc"] = thread["btc"] BY <2>4, BootMoves
    <3> QED BY <2>1, <3>1 DEF ScaleSoFar, Threads, ScaleIsTrue
  <2> QED BY <1>3, <2>3, <2>4
<1>4. CASE BootAccel
  <2>1. /\ Moves("main", "boot_accel", {"boot_scale", "boot_frame"})
        /\ \/ thread'["main"].pc = "boot_scale" /\ thread'["main"].scale = imu["accel"]
           \/ thread'["main"].pc = "boot_frame"
        /\ UNCHANGED <<imu, reading>>
      BY <1>4, SampleMoves, Positions DEF BootAccel, imuSide
  <2>2. thread'["btc"] = thread["btc"] /\ thread["btc"].pc = "idle"
      BY <2>1 DEF Moves, ScaleSoFar, Threads
  <2> QED BY <2>1, <2>2 DEF ScaleSoFar, Threads, ScaleIsTrue
<1>5. CASE BootScale
  <2>1. /\ Moves("main", "boot_scale", {"boot_frame"})
        /\ reading' = reading \/ reading' = [at |-> thread["main"].scale, by |-> imu["accel"]]
        /\ UNCHANGED imu
      BY <1>5, FactorMoves, Positions DEF BootScale
  <2>2. /\ thread'["btc"].pc = "idle" /\ thread["main"].scale = imu["accel"]
      BY <2>1 DEF Moves, ScaleSoFar, Threads
  <2>3. ScaleSoFar' BY <2>1, <2>2, ScaleElsewhere
  <2> QED BY <2>1, <2>2, <2>3 DEF ScaleIsTrue
<1>6. ASSUME NEW t \in Threads, Core(t)
      PROVE  ScaleSoFar' /\ (ScaleIsTrue => ScaleIsTrue')
  <2>1. {"accel", "accel_scale", "frame", "gyro", "gyro_scale", "idle"} \subseteq Pcs
      BY Positions DEF CorePcs
  <2>2. /\ thread[t].pc \in CorePcs \/ Booted
        /\ thread'[t].pc \in CorePcs \cup {"idle"}
        /\ \A u \in Threads \ {t} : thread'[u] = thread[u]
    <3> USE DEF Moves, CorePcs
    <3>1. CASE ReadAccel(t) \/ ReadGyro(t)
        BY <2>1, <3>1, SampleMoves DEF ReadAccel, ReadGyro
    <3>2. CASE ScaleAccel(t) \/ ScaleGyro(t)
        BY <2>1, <3>2, FactorMoves DEF ScaleAccel, ScaleGyro
    <3>3. CASE Turn(t) BY <3>3, CoreMoves DEF Turn
    <3>4. CASE FormatIr(t) BY <3>4, FormatMoves
    <3>5. CASE PointFrame(t) \/ ReceiveFrame(t) BY <3>5, CoreMoves
    <3>6. CASE CopyIr(t) \/ SkipIr(t) \/ SkipGyro(t) BY <3>6, CoreMoves
    <3> QED BY <1>6, <3>1, <3>2, <3>3, <3>4, <3>5, <3>6 DEF Core
  <2>3. thread["main"].pc \notin Setup
      BY <2>2 DEF ScaleSoFar, Threads, CorePcs, Booted
  <2>4. thread'["main"].pc \notin Setup
      BY <2>2, <2>3 DEF Threads, CorePcs
  <2>5. UNCHANGED imu
      BY <1>6, AtCameraFrame, <2>1, SampleMoves, FactorMoves
      DEF Core, AtCamera, imuSide, ReadAccel, ReadGyro, ScaleAccel, ScaleGyro, FormatIr,
          SkipIr, SkipGyro, Sample, Factor
  <2>6. /\ thread'[t].pc \in {"boot_scale", "accel_scale"} => thread'[t].scale = imu["accel"]
        /\ thread'[t].pc = "gyro_scale" => thread'[t].scale = imu["gyro"]
      BY <1>6, <2>1, CoreMoves, FormatMoves, SampleMoves, FactorMoves
      DEF Core, ReadAccel, ReadGyro, ScaleAccel, ScaleGyro, Moves
  <2>7. ScaleSoFar' BY <2>2, <2>4, <2>5, <2>6 DEF ScaleSoFar
  <2>8. reading' = reading \/ reading'.at = reading'.by
    <3>1. CASE ScaleAccel(t)
        BY <2>1, <3>1, FactorMoves DEF ScaleAccel, Moves, ScaleSoFar
    <3>2. CASE ScaleGyro(t)
        BY <2>1, <3>2, FactorMoves DEF ScaleGyro, Moves, ScaleSoFar
    <3>3. CASE Turn(t) \/ PointFrame(t) \/ ReceiveFrame(t) \/ CopyIr(t)
        BY <3>3, AtCameraFrame DEF AtCamera, imuSide
    <3>4. CASE ReadAccel(t) \/ ReadGyro(t) \/ FormatIr(t) \/ SkipIr(t) \/ SkipGyro(t)
        BY <3>4 DEF ReadAccel, ReadGyro, FormatIr, SkipIr, SkipGyro, Sample, imuSide
    <3> QED BY <1>6, <3>1, <3>2, <3>3, <3>4 DEF Core
  <2> QED BY <2>7, <2>8 DEF ScaleIsTrue
<1>7. CASE Host
  <2>1. UNCHANGED <<imu, reading>> BY <1>7, AtCameraFrame DEF AtCamera, imuSide
  <2>2. CASE Enable BY <2>1, <2>2 DEF Enable, ScaleSoFar, ScaleIsTrue
  <2>3. CASE ~Enable
    <3>1. /\ thread["btc"].pc # "idle" \/ Booted
          /\ thread'["btc"].pc \notin {"boot_scale", "accel_scale", "gyro_scale"}
          /\ thread'["main"] = thread["main"]
      <4> USE DEF Moves, Threads
      <4>1. CASE WriteCamera \/ ReceiveRegister BY <4>1, HostMoves
      <4>2. CASE PointRegister BY <4>2, HostMoves
      <4>3. ASSUME NEW r \in CamRegs, Read(r)
            PROVE  /\ Booted
                   /\ thread'["btc"].pc \notin {"boot_scale", "accel_scale", "gyro_scale"}
                   /\ thread'["main"] = thread["main"]
          BY <4>3, HostMoves DEF Read, Receive
      <4>4. ASSUME NEW r \in CamRegs, NEW v \in Values, Write(r, v)
            PROVE  /\ Booted
                   /\ thread'["btc"].pc \notin {"boot_scale", "accel_scale", "gyro_scale"}
                   /\ thread'["main"] = thread["main"]
          BY <4>4, HostMoves DEF Write, Receive
      <4> QED BY <1>7, <2>3, <4>1, <4>2, <4>3, <4>4 DEF Host
    <3>2. thread["main"].pc \notin Setup
        BY <3>1 DEF ScaleSoFar, Booted
    <3> QED BY <2>1, <3>1, <3>2 DEF ScaleSoFar, Threads, ScaleIsTrue
  <2> QED BY <2>2, <2>3
<1> QED BY <1>1, <1>2, <1>3, <1>4, <1>5, <1>6, <1>7 DEF Next, Boot

\* Acceleration and rotation are converted by the scale they were sampled at,
\* whichever of the settings went through.
THEOREM ScalesAreTrue == Spec => []ScaleIsTrue
<1>1. Init => ScaleIsTrue BY DEF Init, ScaleIsTrue
<1>2. TypeOK /\ ScaleSoFar /\ ScaleIsTrue /\ [Next]_vars => ScaleSoFar' /\ ScaleIsTrue'
  <2> SUFFICES ASSUME TypeOK, ScaleSoFar, ScaleIsTrue, [Next]_vars
               PROVE  ScaleSoFar' /\ ScaleIsTrue'
      OBVIOUS
  <2>1. CASE Next BY <2>1, ScaleStep
  <2>2. CASE UNCHANGED vars BY <2>2 DEF vars, ScaleSoFar, ScaleIsTrue
  <2> QED BY <2>1, <2>2
<1> QED BY <1>1, <1>2, SensorTypeCorrect, ScaleInit, PTL DEF Spec

----------------------------------------------------------------------------
(***************************************************************************)
(* The camera's pointer. A thread between the two transfers of a read owns *)
(* it, or has been marked by the thread that moved it.                     *)
(***************************************************************************)
PointerOwned(t) ==
    t \notin astray =>
        /\ thread[t].pc = "frame_receive" => camera.pointer = "frame"
        /\ thread[t].pc = "receive" /\ t = "btc" => camera.pointer = thread["btc"].reg

PointerSoFar ==
    /\ \A t \in Threads : PointerOwned(t)
    /\ CameraReadIsOwn

\* Threads that a step neither moves nor unmarks keep what they own, as long as
\* they are marked if the pointer moves.
LEMMA OwnedStays ==
    ASSUME NEW u \in Threads, PointerOwned(u), thread'[u] = thread[u],
           u \in astray => u \in astray',
           camera'.pointer = camera.pointer \/ (Reading(u) => u \in astray')
    PROVE  PointerOwned(u)'
BY DEF PointerOwned, Reading

\* A thread at another position owns nothing.
LEMMA OwnsNothing ==
    ASSUME NEW u \in Threads, thread'[u].pc \notin {"frame_receive", "receive"}
    PROVE  PointerOwned(u)'
BY DEF PointerOwned

\* Positions before and after the steps that do not touch the camera.
LEMMA ElsewhereMoves ==
    ASSUME TypeOK, Elsewhere
    PROVE  \E t \in Threads :
              /\ thread'[t].pc \notin {"frame_receive", "receive"}
              /\ thread'[t].pc = "ir_copy" => thread'[t].mode = mirror[ModeReg]
              /\ \A u \in Threads \ {t} : thread'[u] = thread[u]
<1> USE Members DEF Moves
<1>1. {"boot_accel", "boot_scale", "boot_frame"} \subseteq Pcs
    BY Positions DEF BootReadPcs
<1>2. {"accel", "accel_scale", "frame", "gyro", "gyro_scale", "idle"} \subseteq Pcs
    BY Positions DEF CorePcs
<1>3. CASE WhoAmI \/ AccelFs \/ GyroFs BY <1>3, BootMoves
<1>4. CASE BootAccel BY <1>1, <1>4, SampleMoves DEF BootAccel
<1>5. CASE BootScale BY <1>1, <1>5, FactorMoves DEF BootScale
<1>6. ASSUME NEW t \in Threads, ReadAccel(t) \/ ReadGyro(t)
      PROVE  /\ thread'[t].pc \notin {"frame_receive", "receive"}
             /\ thread'[t].pc = "ir_copy" => thread'[t].mode = mirror[ModeReg]
             /\ \A u \in Threads \ {t} : thread'[u] = thread[u]
    BY <1>2, <1>6, SampleMoves DEF ReadAccel, ReadGyro
<1>7. ASSUME NEW t \in Threads, ScaleAccel(t) \/ ScaleGyro(t)
      PROVE  /\ thread'[t].pc \notin {"frame_receive", "receive"}
             /\ thread'[t].pc = "ir_copy" => thread'[t].mode = mirror[ModeReg]
             /\ \A u \in Threads \ {t} : thread'[u] = thread[u]
    BY <1>2, <1>7, FactorMoves DEF ScaleAccel, ScaleGyro
<1>8. ASSUME NEW t \in Threads, FormatIr(t) \/ SkipIr(t) \/ SkipGyro(t)
      PROVE  /\ thread'[t].pc \notin {"frame_receive", "receive"}
             /\ thread'[t].pc = "ir_copy" => thread'[t].mode = mirror[ModeReg]
             /\ \A u \in Threads \ {t} : thread'[u] = thread[u]
    BY <1>8, FormatMoves, CoreMoves
<1> QED BY <1>3, <1>4, <1>5, <1>6, <1>7, <1>8 DEF Elsewhere

\* Every step keeps the pointer owned.
LEMMA PointerStep ==
    ASSUME TypeOK, PointerSoFar, Next
    PROVE  PointerSoFar'
<1> USE Members DEF PointerSoFar
<1>0. CameraTyped /\ ThreadTyped BY TypeParts
<1>1. CASE Elsewhere
  <2>1. PICK t \in Threads : /\ thread'[t].pc \notin {"frame_receive", "receive"}
                             /\ \A u \in Threads \ {t} : thread'[u] = thread[u]
      BY <1>1, ElsewhereMoves
  <2>2. UNCHANGED <<camera, astray, raw, reply>> BY <1>1, ElsewhereFrame DEF cameraSide
  <2>3. \A u \in Threads : PointerOwned(u)' BY <2>1, <2>2, OwnedStays, OwnsNothing
  <2> QED BY <2>2, <2>3 DEF CameraReadIsOwn
<1>2. CASE BootFrame \/ BootReceive
  <2>1. /\ thread'["main"].pc \notin {"frame_receive", "receive"}
        /\ thread'["btc"] = thread["btc"]
      BY <1>2, BootMoves DEF Moves, Threads
  <2>2. /\ "btc" \in astray => "btc" \in astray'
        /\ camera'.pointer = camera.pointer \/ (Reading("btc") => "btc" \in astray')
    <3>1. CASE PointAt("main", "frame36")
        BY <1>0, <3>1, PointEffect, OriginsTyped DEF Threads
    <3>2. CASE ReceiveFrom("main")
        BY <1>0, <3>2, ReceiveEffect DEF Threads
    <3>3. CASE UNCHANGED <<camera, astray>> BY <3>3
    <3> QED BY <1>2, <3>1, <3>2, <3>3 DEF BootFrame, BootReceive
  <2>3. UNCHANGED <<raw, reply>> BY <1>2 DEF BootFrame, BootReceive
  <2>4. PointerOwned("main")' BY <2>1, OwnsNothing
  <2>5. PointerOwned("btc")' BY <2>1, <2>2, OwnedStays
  <2> QED BY <2>3, <2>4, <2>5 DEF CameraReadIsOwn, Threads
<1>3. CASE Replace
  <2>1. thread'["main"].pc = "idle" /\ thread'["btc"] = thread["btc"] BY <1>3, BootMoves
  <2>2. UNCHANGED <<camera, raw, reply>> /\ ("btc" \in astray => "btc" \in astray')
      BY <1>3 DEF Replace
  <2>3. PointerOwned("main")' BY <2>1, OwnsNothing
  <2>4. PointerOwned("btc")' BY <2>1, <2>2, OwnedStays
  <2> QED BY <2>2, <2>3, <2>4 DEF CameraReadIsOwn, Threads
<1>4. ASSUME NEW t \in Threads, Turn(t) \/ CopyIr(t) PROVE PointerSoFar'
  <2>1. /\ thread'[t].pc \notin {"frame_receive", "receive"}
        /\ \A u \in Threads \ {t} : thread'[u] = thread[u]
      BY <1>4, CoreMoves DEF Moves
  <2>2. /\ UNCHANGED <<camera, raw, reply>>
        /\ \A u \in Threads \ {t} : u \in astray => u \in astray'
      BY <1>4 DEF Turn, CopyIr
  <2>3. ASSUME NEW u \in Threads PROVE PointerOwned(u)'
      BY <2>1, <2>2, OwnedStays, OwnsNothing
  <2> QED BY <2>2, <2>3 DEF CameraReadIsOwn
<1>5. ASSUME NEW t \in Threads, PointFrame(t) PROVE PointerSoFar'
  <2>1. /\ thread'[t].pc = "frame_receive"
        /\ \A u \in Threads \ {t} : thread'[u] = thread[u]
      BY <1>5, CoreMoves DEF Moves
  <2>2. /\ t \in astray' \/ camera'.pointer = "frame"
        /\ \A u \in Threads \ {t} :
              /\ u \in astray => u \in astray'
              /\ camera'.pointer = camera.pointer \/ (Reading(u) => u \in astray')
    <3>1. CASE PointAt(t, "frame") BY <1>0, <1>5, <3>1, PointEffect, OriginsTyped
    <3>2. CASE astray' = astray \cup {t} /\ UNCHANGED camera BY <3>2
    <3> QED BY <1>5, <3>1, <3>2 DEF PointFrame
  <2>3. PointerOwned(t)' BY <2>1, <2>2 DEF PointerOwned
  <2>4. ASSUME NEW u \in Threads \ {t} PROVE PointerOwned(u)'
      BY <2>1, <2>2, OwnedStays
  <2>5. UNCHANGED <<raw, reply>> BY <1>5 DEF PointFrame
  <2> QED BY <2>3, <2>4, <2>5 DEF CameraReadIsOwn
<1>6. ASSUME NEW t \in Threads, ReceiveFrame(t) PROVE PointerSoFar'
  <2>1. /\ thread[t].pc = "frame_receive" /\ thread'[t].pc = "ir"
        /\ \A u \in Threads \ {t} : thread'[u] = thread[u]
      BY <1>6, CoreMoves DEF Moves
  <2>2. \A u \in Threads \ {t} :
           /\ u \in astray => u \in astray'
           /\ camera'.pointer = camera.pointer \/ (Reading(u) => u \in astray')
    <3>1. CASE ReceiveFrom(t) BY <1>0, <1>6, <3>1, ReceiveEffect
    <3>2. CASE astray' = astray \ {t} /\ UNCHANGED camera BY <3>2
    <3> QED BY <1>6, <3>1, <3>2 DEF ReceiveFrame
  <2>3. PointerOwned(t)' BY <2>1, OwnsNothing
  <2>4. ASSUME NEW u \in Threads \ {t} PROVE PointerOwned(u)'
      BY <2>1, <2>2, OwnedStays
  <2>5. Own(t, camera.pointer) \in {"frame", "astray"}
      BY <1>6, <2>1 DEF Own, PointerOwned
  <2>6. raw' = raw \/ raw'.from = Own(t, camera.pointer)
      BY <1>6 DEF ReceiveFrame
  <2>7. UNCHANGED reply BY <1>6 DEF ReceiveFrame
  <2> QED BY <2>3, <2>4, <2>5, <2>6, <2>7 DEF CameraReadIsOwn
<1>7. CASE Enable \/ WriteCamera
  <2>1. /\ thread["btc"].pc \in {"idle", "write"}
        /\ thread'["btc"].pc = "idle" /\ thread'["main"] = thread["main"]
      BY <1>7, HostMoves DEF Enable, At, Moves, Threads
  <2>2. /\ "main" \in astray => "main" \in astray'
        /\ camera'.pointer = camera.pointer \/ (Reading("main") => "main" \in astray')
      BY <1>7 DEF Enable, WriteCamera, Overtaken, Other
  <2>3. UNCHANGED <<raw, reply>> BY <1>7 DEF Enable, WriteCamera
  <2>4. PointerOwned("main")' BY <2>1, <2>2, OwnedStays
  <2>5. PointerOwned("btc")' BY <2>1, OwnsNothing
  <2> QED BY <2>3, <2>4, <2>5 DEF CameraReadIsOwn, Threads
<1>8. ASSUME NEW r \in CamRegs, Read(r) \/ \E v \in Values : Write(r, v)
      PROVE  PointerSoFar'
  <2>1. /\ thread'["btc"].pc \in {"point", "write"} /\ thread'["main"] = thread["main"]
      BY <1>8, HostMoves DEF Moves, Threads
  <2>2. /\ UNCHANGED camera /\ ("main" \in astray => "main" \in astray')
        /\ raw'.from = raw.from
        /\ reply' = reply \/ reply' = NoReply
    <3>1. CASE Read(r) BY <3>1 DEF Read
    <3>2. ASSUME NEW v \in Values, Write(r, v)
          PROVE  /\ UNCHANGED <<camera, reply>> /\ ("main" \in astray => "main" \in astray')
                 /\ raw'.from = raw.from
        BY <1>0, <3>2 DEF Write, CameraTyped, Frame
    <3> QED BY <1>8, <3>1, <3>2
  <2>3. PointerOwned("main")' BY <2>1, <2>2, OwnedStays
  <2>4. PointerOwned("btc")' BY <2>1, OwnsNothing
  <2> QED BY <2>2, <2>3, <2>4 DEF CameraReadIsOwn, Threads, NoReply
<1>9. CASE PointRegister
  <2>1. /\ thread'["btc"].pc \in {"receive", "idle"} /\ thread'["main"] = thread["main"]
        /\ thread'["btc"].pc = "receive" => thread'["btc"].reg = thread["btc"].reg
      BY <1>9, HostMoves DEF Moves, Threads
  <2>2. thread["btc"].reg \in Pointers
      BY <1>0, OriginsTyped DEF ThreadTyped, Local
  <2>3. UNCHANGED raw /\ (reply' = reply \/ reply'.got = NoReg)
      BY <1>9 DEF PointRegister, Replied
  <2>4. /\ "main" \in astray => "main" \in astray'
        /\ camera'.pointer = camera.pointer \/ (Reading("main") => "main" \in astray')
        /\ thread'["btc"].pc = "idle" \/ camera'.pointer = thread["btc"].reg
    <3>1. CASE PointAt("btc", thread["btc"].reg)
        BY <1>0, <2>2, <3>1, PointEffect DEF Threads
    <3>2. CASE Goto("btc", "idle") /\ UNCHANGED <<camera, astray>>
      <4>1. thread'["btc"].pc = "idle"
          BY <1>0, <3>2, GotoEffect, Positions
      <4> QED BY <3>2, <4>1
    <3> QED BY <1>9, <3>1, <3>2 DEF PointRegister
  <2>5. PointerOwned("main")' BY <2>1, <2>4, OwnedStays
  <2>6. PointerOwned("btc")' BY <2>1, <2>4 DEF PointerOwned
  <2> QED BY <2>3, <2>5, <2>6 DEF CameraReadIsOwn, Threads
<1>10. CASE ReceiveRegister
  <2>1. /\ thread["btc"].pc = "receive" /\ thread'["btc"].pc = "idle"
        /\ thread'["main"] = thread["main"]
      BY <1>10, HostMoves DEF Moves, Threads
  <2>2. /\ "main" \in astray => "main" \in astray'
        /\ camera'.pointer = camera.pointer \/ (Reading("main") => "main" \in astray')
    <3>1. CASE ReceiveFrom("btc") BY <1>0, <3>1, ReceiveEffect DEF Threads
    <3>2. CASE astray' = astray \ {"btc"} /\ UNCHANGED camera BY <3>2
    <3> QED BY <1>10, <3>1, <3>2 DEF ReceiveRegister
  <2>3. Own("btc", camera.pointer) \in {thread["btc"].reg, "astray"}
      BY <2>1 DEF Own, PointerOwned
  <2>4. UNCHANGED raw /\ reply'.asked = thread["btc"].reg
        /\ reply'.got \in {Own("btc", camera.pointer), NoReg}
      BY <1>10 DEF ReceiveRegister, Replied
  <2>5. PointerOwned("main")' BY <2>1, <2>2, OwnedStays
  <2>6. PointerOwned("btc")' BY <2>1, OwnsNothing
  <2> QED BY <2>3, <2>4, <2>5, <2>6 DEF CameraReadIsOwn, Threads
<1> QED
    BY <1>1, <1>2, <1>3, <1>4, <1>5, <1>6, <1>7, <1>8, <1>9, <1>10, AllSteps
    DEF AtCamera, Host

\* A read of the camera brings the frame, or the register the host has asked for,
\* whatever the other thread does to the pointer: it can spoil a read only
\* between its two transfers.
THEOREM CameraReadsAreOwn == Spec => []CameraReadIsOwn
<1>1. Init => PointerSoFar
  <2> SUFFICES ASSUME Init PROVE PointerSoFar
      OBVIOUS
  <2>1. \A t \in Threads : thread[t].pc \in {"whoami", "idle"}
    <3>1. "whoami" \in Pcs /\ "idle" \in Pcs BY Positions DEF BootPcs
    <3>2. /\ thread["main"] = [Rest EXCEPT !.pc = "whoami"]
          /\ thread["btc"] = [Rest EXCEPT !.pc = "idle"]
        BY Members DEF Init
    <3>3. thread["main"].pc = "whoami" /\ thread["btc"].pc = "idle"
        BY <3>1, <3>2, Locals
    <3> QED BY <3>3 DEF Threads
  <2> QED
      BY <2>1 DEF Init, PointerSoFar, PointerOwned, CameraReadIsOwn, NoFrame, NoReply
<1>2. TypeOK /\ PointerSoFar /\ [Next]_vars => PointerSoFar'
  <2> SUFFICES ASSUME TypeOK, PointerSoFar, [Next]_vars PROVE PointerSoFar'
      OBVIOUS
  <2>1. CASE Next BY <2>1, PointerStep
  <2>2. CASE UNCHANGED vars
      BY <2>2 DEF vars, PointerSoFar, PointerOwned, CameraReadIsOwn
  <2> QED BY <2>1, <2>2
<1>3. PointerSoFar => CameraReadIsOwn BY DEF PointerSoFar
<1> QED BY <1>1, <1>2, <1>3, SensorTypeCorrect, PTL DEF Spec

----------------------------------------------------------------------------
(***************************************************************************)
(* The format of a frame. Whoever changes the mode marks the frame in      *)
(* ir_raw_buffer, and the thread that has looked up the format and not yet *)
(* copied the frame; whoever can have left the camera in another mode than *)
(* IR_camera_settings marks the register.                                  *)
(***************************************************************************)
FormatHeld(t) ==
    thread[t].pc = "ir_copy" /\ t \notin astray => thread[t].mode = mirror[ModeReg]

FormatSoFar ==
    /\ \A r \in CamRegs \ unsure : camera.reg[r] = mirror[r]
    /\ raw.mode \in {mirror[ModeReg], "unknown"}
    /\ \A t \in Threads : FormatHeld(t)
    /\ FormatIsFrames

\* A thread that a step neither moves nor unmarks still holds the format.
LEMMA FormatStays ==
    ASSUME NEW u \in Threads, FormatHeld(u), thread'[u] = thread[u],
           u \in astray => u \in astray', UNCHANGED mirror
    PROVE  FormatHeld(u)'
BY DEF FormatHeld

\* A thread at another position holds none.
LEMMA HoldsNoFormat ==
    ASSUME NEW u \in Threads, thread'[u].pc # "ir_copy"
    PROVE  FormatHeld(u)'
BY DEF FormatHeld

\* Transfers leave the marks of the other thread.
LEMMA MarksStay ==
    ASSUME CameraTyped
    PROVE  \A t \in Threads, where \in Pointers :
              PointAt(t, where) \/ ReceiveFrom(t) =>
                  /\ camera'.reg = camera.reg
                  /\ \A u \in Threads \ {t} : u \in astray => u \in astray'
BY PointEffect, ReceiveEffect

\* Every step keeps format and frame in line.
LEMMA FormatStep ==
    ASSUME TypeOK, FormatSoFar, Next
    PROVE  FormatSoFar'
<1> USE Members DEF FormatSoFar
<1>0. CameraTyped /\ ThreadTyped BY TypeParts
<1>1. CASE Elsewhere
  <2>1. PICK t \in Threads :
           /\ thread'[t].pc = "ir_copy" => thread'[t].mode = mirror[ModeReg]
           /\ \A u \in Threads \ {t} : thread'[u] = thread[u]
      BY <1>1, ElsewhereMoves
  <2>2. UNCHANGED <<camera, mirror, raw, loaded, astray, unsure>>
      BY <1>1, ElsewhereFrame DEF cameraSide
  <2>3. FormatHeld(t)' BY <2>1, <2>2 DEF FormatHeld
  <2>4. ASSUME NEW u \in Threads \ {t} PROVE FormatHeld(u)'
      BY <2>1, <2>2, FormatStays
  <2> QED BY <2>2, <2>3, <2>4 DEF FormatIsFrames
<1>2. CASE BootFrame \/ BootReceive \/ Replace
  <2>1. /\ thread'["main"].pc # "ir_copy" /\ thread'["btc"] = thread["btc"]
      BY <1>2, BootMoves DEF Moves, Threads
  <2>2. camera'.reg = camera.reg /\ ("btc" \in astray => "btc" \in astray')
    <3>1. CASE PointAt("main", "frame36") \/ ReceiveFrom("main")
        BY <1>0, <3>1, MarksStay, OriginsTyped DEF Threads
    <3>2. CASE camera' = camera /\ astray' \in {astray, astray \ {"main"}} BY <3>2
    <3> QED BY <1>2, <3>1, <3>2 DEF BootFrame, BootReceive, Replace
  <2>3. UNCHANGED <<mirror, raw, loaded, unsure>>
      BY <1>2 DEF BootFrame, BootReceive, Replace
  <2>4. FormatHeld("main")' BY <2>1, HoldsNoFormat
  <2>5. FormatHeld("btc")' BY <2>1, <2>2, <2>3, FormatStays
  <2> QED BY <2>2, <2>3, <2>4, <2>5 DEF FormatIsFrames, Threads
<1>3. ASSUME NEW t \in Threads, Turn(t) \/ CopyIr(t) PROVE FormatSoFar'
  <2>1. /\ thread'[t].pc # "ir_copy"
        /\ \A u \in Threads \ {t} : thread'[u] = thread[u]
      BY <1>3, CoreMoves DEF Moves
  <2>2. /\ UNCHANGED <<camera, mirror, raw, unsure>>
        /\ \A u \in Threads \ {t} : u \in astray => u \in astray'
      BY <1>3 DEF Turn, CopyIr
  <2>3. FormatHeld(t)' BY <2>1, HoldsNoFormat
  <2>4. ASSUME NEW u \in Threads \ {t} PROVE FormatHeld(u)'
      BY <2>1, <2>2, FormatStays
  <2>5. FormatIsFrames'
    <3>1. CASE Turn(t) BY <3>1 DEF Turn, FormatIsFrames, NoFrame
    <3>2. CASE CopyIr(t)
      <4>1. thread[t].pc = "ir_copy" BY <3>2 DEF CopyIr, At
      <4>2. CASE t \in astray BY <3>2, <4>2 DEF CopyIr, FormatIsFrames, NoFrame
      <4>3. CASE t \notin astray
        <5>1. thread[t].mode = mirror[ModeReg] BY <4>1, <4>3 DEF FormatHeld
        <5>2. loaded' = [frame |-> raw, mode |-> thread[t].mode]
            BY <3>2, <4>3 DEF CopyIr
        <5> QED BY <5>1, <5>2 DEF FormatIsFrames
      <4> QED BY <4>2, <4>3
    <3> QED BY <1>3, <3>1, <3>2
  <2> QED BY <2>2, <2>3, <2>4, <2>5
<1>4. ASSUME NEW t \in Threads, PointFrame(t) \/ ReceiveFrame(t) PROVE FormatSoFar'
  <2>1. /\ thread'[t].pc # "ir_copy"
        /\ \A u \in Threads \ {t} : thread'[u] = thread[u]
      BY <1>4, CoreMoves DEF Moves
  <2>2. /\ camera'.reg = camera.reg
        /\ \A u \in Threads \ {t} : u \in astray => u \in astray'
    <3>1. CASE PointAt(t, "frame") \/ ReceiveFrom(t)
        BY <1>0, <3>1, MarksStay, OriginsTyped
    <3>2. CASE camera' = camera /\ astray' \in {astray \cup {t}, astray \ {t}} BY <3>2
    <3> QED BY <1>4, <3>1, <3>2 DEF PointFrame, ReceiveFrame
  <2>3. UNCHANGED <<mirror, loaded, unsure>> BY <1>4 DEF PointFrame, ReceiveFrame
  <2>4. raw'.mode \in {mirror[ModeReg], "unknown"}
      BY <1>4 DEF PointFrame, ReceiveFrame
  <2>5. FormatHeld(t)' BY <2>1, HoldsNoFormat
  <2>6. ASSUME NEW u \in Threads \ {t} PROVE FormatHeld(u)'
      BY <2>1, <2>2, <2>3, FormatStays
  <2> QED BY <2>2, <2>3, <2>4, <2>5, <2>6 DEF FormatIsFrames
<1>5. CASE Enable \/ WriteCamera
  <2>1. /\ thread'["btc"].pc = "idle" /\ thread'["main"] = thread["main"]
      BY <1>5, HostMoves DEF Enable, At, Moves, Threads
  <2>2. /\ UNCHANGED <<mirror, raw, loaded>>
        /\ "main" \in astray => "main" \in astray'
      BY <1>5 DEF Enable, WriteCamera
  <2>3. \A r \in CamRegs \ unsure' : camera'.reg[r] = mirror[r]
    <3>1. CASE Enable BY <3>1 DEF Enable
    <3>2. CASE WriteCamera /\ UNCHANGED <<camera, unsure>> BY <3>2
    <3>3. CASE /\ camera' = [reg |-> [camera.reg EXCEPT ![thread["btc"].reg] =
                                         mirror[thread["btc"].reg]],
                             pointer |-> "past"]
               /\ unsure' = unsure \ {thread["btc"].reg}
        BY <1>0, <3>3 DEF CameraTyped
    <3> QED BY <1>5, <3>1, <3>2, <3>3 DEF WriteCamera
  <2>4. FormatHeld("main")' BY <2>1, <2>2, FormatStays
  <2>5. FormatHeld("btc")' BY <2>1, HoldsNoFormat
  <2> QED BY <2>2, <2>3, <2>4, <2>5 DEF FormatIsFrames, Threads
<1>6. CASE PointRegister \/ ReceiveRegister
  <2>1. thread'["btc"].pc # "ir_copy" /\ thread'["main"] = thread["main"]
      BY <1>6, HostMoves DEF Moves, Threads
  <2>2. camera'.reg = camera.reg /\ ("main" \in astray => "main" \in astray')
    <3>1. thread["btc"].reg \in Pointers
        BY <1>0, OriginsTyped DEF ThreadTyped, Local
    <3>2. CASE PointAt("btc", thread["btc"].reg)
        BY <1>0, <3>1, <3>2, MarksStay DEF Threads
    <3>3. CASE ReceiveFrom("btc")
        BY <1>0, <3>1, <3>3, MarksStay DEF Threads
    <3>4. CASE camera' = camera /\ astray' \in {astray, astray \ {"btc"}} BY <3>4
    <3> QED BY <1>6, <3>2, <3>3, <3>4 DEF PointRegister, ReceiveRegister
  <2>3. UNCHANGED <<mirror, raw, loaded, unsure>>
      BY <1>6 DEF PointRegister, ReceiveRegister
  <2>4. FormatHeld("main")' BY <2>1, <2>2, <2>3, FormatStays
  <2>5. FormatHeld("btc")' BY <2>1, HoldsNoFormat
  <2> QED BY <2>2, <2>3, <2>4, <2>5 DEF FormatIsFrames, Threads
<1>7. ASSUME NEW r \in CamRegs, Read(r) PROVE FormatSoFar'
  <2>1. thread'["btc"].pc # "ir_copy" /\ thread'["main"] = thread["main"]
      BY <1>7, HostMoves DEF Moves, Threads
  <2>2. UNCHANGED <<camera, mirror, raw, loaded, astray, unsure>> BY <1>7 DEF Read
  <2>3. FormatHeld("main")' BY <2>1, <2>2, FormatStays
  <2>4. FormatHeld("btc")' BY <2>1, HoldsNoFormat
  <2> QED BY <2>2, <2>3, <2>4 DEF FormatIsFrames, Threads
<1>8. ASSUME NEW r \in CamRegs, NEW v \in Values, Write(r, v) PROVE FormatSoFar'
  <2>1. thread'["btc"].pc # "ir_copy" /\ thread'["main"] = thread["main"]
      BY <1>8, HostMoves DEF Moves, Threads
  <2>2. /\ mirror' = [mirror EXCEPT ![r] = v] /\ unsure' = unsure \cup {r}
        /\ UNCHANGED <<camera, loaded>>
      BY <1>8 DEF Write
  <2>3. \A q \in CamRegs \ unsure' : camera'.reg[q] = mirror'[q]
      BY <1>0, <2>2 DEF CameraTyped
  <2>4. FormatHeld("btc")' BY <2>1, HoldsNoFormat
  <2>5. CASE r = ModeReg /\ v # mirror[r]
    <3>1. raw'.mode = "unknown" /\ astray' = astray \cup Testing("main")
        BY <1>0, <1>8, <2>5 DEF Write, CameraTyped, Frame
    <3>2. FormatHeld("main")' BY <2>1, <3>1 DEF FormatHeld, Testing, At
    <3> QED BY <2>2, <2>3, <2>4, <3>1, <3>2 DEF FormatIsFrames, Threads
  <2>6. CASE ~(r = ModeReg /\ v # mirror[r])
    <3>1. UNCHANGED <<raw, astray>> BY <1>8, <2>6 DEF Write
    <3>2. mirror'[ModeReg] = mirror[ModeReg]
        BY <1>0, <2>2, <2>6 DEF CameraTyped
    <3>3. FormatHeld("main")' BY <2>1, <3>1, <3>2 DEF FormatHeld
    <3> QED BY <2>2, <2>3, <2>4, <3>1, <3>2, <3>3 DEF FormatIsFrames, Threads
  <2> QED BY <2>5, <2>6
<1> QED
    BY <1>1, <1>2, <1>3, <1>4, <1>5, <1>6, <1>7, <1>8, AllSteps
    DEF AtCamera, Host

\* The IR bytes of a report are in the format of the mode that the camera took the
\* frame in, unless the host has changed the mode since or a write of it was lost.
THEOREM FormatsAreFrames == Spec => []FormatIsFrames
<1>1. Init => FormatSoFar
  <2> SUFFICES ASSUME Init PROVE FormatSoFar
      OBVIOUS
  <2>1. /\ thread["main"] = [Rest EXCEPT !.pc = "whoami"]
        /\ thread["btc"] = [Rest EXCEPT !.pc = "idle"]
      BY Members DEF Init
  <2>2. thread["main"].pc = "whoami" /\ thread["btc"].pc = "idle"
      BY <2>1, Locals, Positions DEF BootPcs
  <2>3. \A t \in Threads : FormatHeld(t) BY <2>2 DEF FormatHeld, Threads
  <2> QED BY <2>3 DEF Init, FormatSoFar, FormatIsFrames, NoFrame
<1>2. TypeOK /\ FormatSoFar /\ [Next]_vars => FormatSoFar'
  <2> SUFFICES ASSUME TypeOK, FormatSoFar, [Next]_vars PROVE FormatSoFar'
      OBVIOUS
  <2>1. CASE Next BY <2>1, FormatStep
  <2>2. CASE UNCHANGED vars
      BY <2>2 DEF vars, FormatSoFar, FormatHeld, FormatIsFrames
  <2> QED BY <2>1, <2>2
<1>3. FormatSoFar => FormatIsFrames BY DEF FormatSoFar
<1> QED BY <1>1, <1>2, <1>3, SensorTypeCorrect, PTL DEF Spec

=============================================================================
