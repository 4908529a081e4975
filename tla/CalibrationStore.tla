-------------------------- MODULE CalibrationStore --------------------------
(***************************************************************************)
(* The calibration of the LSM6DS3 driver (components/lsm6ds3/lsm6ds3.c):   *)
(* offsets that every read subtracts once their flag is set, where they    *)
(* come from, and how they get to the flash (NVS) and back.                *)
(*                                                                         *)
(* A save would write four entries, one after the other, and commit them;  *)
(* any write may fail, and that of accel_calibrated always does, since its *)
(* key is longer than NVS allows. So a save stores offsets at most: it ends *)
(* with an error there, and its last write and nvs_commit are not reached. *)
(* The power may go at any point; NVS keeps each entry whole, but without  *)
(* a commit it need not outlive a power loss. Calls are made one at a time; *)
(* the caller is whoever uses the driver (espmote_main.c reads with it and *)
(* does not calibrate yet).                                                *)
(***************************************************************************)
EXTENDS Integers, Sequences

CONSTANTS
    Axes, Up,    \* axes of a sensor, and the one that gravity is on
    Gravity,     \* GRAVITY_MG
    Biases,      \* what a sensor at rest shows in excess
    Offsets      \* offsets a caller sets

VARIABLES
    bias,      \* of each sensor and axis
    handle,    \* handle->calibration
    entries,   \* the record in NVS: per entry {} or {what is stored}
    flash,     \* ... as it would be after a power loss
    call,      \* the call that is under way, and the entry it is at
    asked,     \* history: sensors to be corrected, by a call since the power came
    fresh,     \* history: sensors corrected by what a calibration has measured
    unflagged  \* history: sensors whose offsets were loaded and their flag was not set

vars == <<bias, handle, entries, flash, call, asked, fresh, unflagged>>

Sensors == {"accel", "gyro"}
Fields == {"offset", "flag"}
Entries == Fields \X Sensors
\* The order in which save writes and load reads them.
Order == << <<"offset", "accel">>, <<"offset", "gyro">>,
            <<"flag", "accel">>, <<"flag", "gyro">> >>

\* Keys of NVS have at most 15 characters; "accel_calibrated" has 16.
Storable(e) == e # <<"flag", "accel">>

ASSUME CalibrationAssumption ==
    /\ Up \in Axes
    /\ Gravity \in Int
    /\ Biases \subseteq Int
    /\ Offsets \subseteq Int

Calibrations == [Sensors -> [offset : [Axes -> Int], flag : BOOLEAN]]
\* Of each entry also whether its sensor was freshly calibrated when it was saved.
StoredOffsets == [value : [Axes -> Int], measured : BOOLEAN]
StoredFlags == [value : BOOLEAN, measured : BOOLEAN]
None == [offset |-> [a \in Axes |-> 0], flag |-> FALSE]
Idle == [op |-> "none", at |-> 1]

TypeOK ==
    /\ bias \in [Sensors -> [Axes -> Biases]]
    /\ handle \in Calibrations
    /\ DOMAIN entries = Entries /\ DOMAIN flash = Entries
    /\ \A s \in Sensors : /\ entries[<<"offset", s>>] \subseteq StoredOffsets
                          /\ flash[<<"offset", s>>] \subseteq StoredOffsets
                          /\ entries[<<"flag", s>>] \subseteq StoredFlags
                          /\ flash[<<"flag", s>>] \subseteq StoredFlags
    /\ call \in [op : {"none", "save", "load"}, at : 1 .. Len(Order) + 1]
    /\ asked \in SUBSET Sensors
    /\ fresh \in SUBSET Sensors
    /\ unflagged \in SUBSET Sensors

Init ==
    /\ bias \in [Sensors -> [Axes -> Biases]]
    /\ handle = [s \in Sensors |-> None]
    /\ entries = [e \in Entries |-> {}]
    /\ flash = entries
    /\ call = Idle
    /\ asked = {} /\ fresh = {} /\ unflagged = {}

----------------------------------------------------------------------------
(***************************************************************************)
(* Reading.                                                                *)
(***************************************************************************)
\* What a sensor at rest should show, and what it does.
Level(s, a) == IF s = "accel" /\ a = Up THEN Gravity ELSE 0
Raw(s, a) == Level(s, a) + bias[s][a]

\* lsm6ds3_read_accel, lsm6ds3_read_gyro
Corrected(s, a) == IF handle[s].flag THEN Raw(s, a) - handle[s].offset[a]
                                     ELSE Raw(s, a)

----------------------------------------------------------------------------
(***************************************************************************)
(* Calls that change the calibration in memory.                            *)
(***************************************************************************)
record == <<entries, flash>>
Becomes(s, offset, flag) == handle' = [handle EXCEPT ![s] = [offset |-> offset, flag |-> flag]]

\* Mutant of Calibrate: the samples are taken with the corrected read.
CalibrateCorrected(s) ==
    /\ call = Idle
    /\ Becomes(s, [a \in Axes |-> Corrected(s, a) - Level(s, a)], TRUE)
    /\ asked' = asked \cup {s} /\ fresh' = fresh \cup {s} /\ unflagged' = unflagged \ {s}
    /\ UNCHANGED <<bias, call, record>>

\* The mean of raw samples at rest, without gravity. A sample that cannot be
\* read gives the calibration up and leaves everything as it is.
Calibrate(s) ==
    /\ call = Idle
    /\ Becomes(s, [a \in Axes |-> Raw(s, a) - Level(s, a)], TRUE)
    /\ asked' = asked \cup {s} /\ fresh' = fresh \cup {s} /\ unflagged' = unflagged \ {s}
    /\ UNCHANGED <<bias, call, record>>

SetOffset(s) ==
    /\ call = Idle
    /\ \E offset \in [Axes -> Offsets] : Becomes(s, offset, TRUE)
    /\ asked' = asked \cup {s} /\ fresh' = fresh \ {s} /\ unflagged' = unflagged \ {s}
    /\ UNCHANGED <<bias, call, record>>

\* One axis is set, the flag makes the offsets of all three count.
SetOffsetAxis(s) ==
    /\ call = Idle
    /\ \E a \in Axes, v \in Offsets :
          Becomes(s, [handle[s].offset EXCEPT ![a] = v], TRUE)
    /\ asked' = asked \cup {s} /\ fresh' = fresh \ {s} /\ unflagged' = unflagged \ {s}
    /\ UNCHANGED <<bias, call, record>>

\* Mutant of Clear: only the flag is cleared.
ClearFlag(s) ==
    /\ call = Idle
    /\ Becomes(s, handle[s].offset, FALSE)
    /\ asked' = asked \ {s} /\ fresh' = fresh \ {s} /\ unflagged' = unflagged \ {s}
    /\ UNCHANGED <<bias, call, record>>

Clear(s) ==
    /\ call = Idle
    /\ Becomes(s, None.offset, FALSE)
    /\ asked' = asked \ {s} /\ fresh' = fresh \ {s} /\ unflagged' = unflagged \ {s}
    /\ UNCHANGED <<bias, call, record>>

----------------------------------------------------------------------------
(***************************************************************************)
(* lsm6ds3_save_calibration_to_nvs                                         *)
(***************************************************************************)
inMemory == <<bias, handle, asked, fresh, unflagged>>
Entry == Order[call.at]
Holds(e) == [value |-> handle[e[2]][e[1]], measured |-> e[2] \in fresh]
Further == [call EXCEPT !.at = @ + 1]

\* An open that fails changes nothing.
OpenSave ==
    /\ call = Idle
    /\ call' = [op |-> "save", at |-> 1]
    /\ UNCHANGED <<inMemory, record>>

\* The entry is written, and may be in the flash without a commit; a write that
\* fails ends the save with its error.
Write ==
    /\ call.op = "save"
    /\ \/ /\ Storable(Entry)
          /\ entries' = [entries EXCEPT ![Entry] = {Holds(Entry)}]
          /\ flash' \in {flash, [flash EXCEPT ![Entry] = {Holds(Entry)}]}
          /\ call' = Further
       \/ call' = Idle /\ UNCHANGED record
    /\ UNCHANGED inMemory

----------------------------------------------------------------------------
(***************************************************************************)
(* lsm6ds3_load_calibration_from_nvs                                       *)
(***************************************************************************)
\* An open that fails changes nothing; it does so until a first save was begun.
OpenLoad ==
    /\ call = Idle
    /\ call' = [op |-> "load", at |-> 1]
    /\ UNCHANGED <<inMemory, record>>

\* Offsets are loaded for sensor s, and count if its flag is set.
Origin(s, measured) ==
    IF handle[s].flag
    THEN /\ fresh' = IF measured THEN fresh \cup {s} ELSE fresh \ {s}
         /\ unflagged' = unflagged \ {s}
    ELSE fresh' = fresh \ {s} /\ unflagged' = unflagged \cup {s}

\* An entry goes straight to the handle.
LoadEntry ==
    /\ call.op = "load" /\ call.at <= Len(Order)
    /\ \E stored \in entries[Entry] :
          /\ handle' = [handle EXCEPT ![Entry[2]] = [@ EXCEPT ![Entry[1]] = stored.value]]
          /\ IF Entry[1] = "offset" THEN Origin(Entry[2], stored.measured)
                                    ELSE UNCHANGED <<fresh, unflagged>>
    /\ call' = Further
    /\ UNCHANGED <<bias, asked, record>>

\* Mutant of UnreadEntry: it does not end with the last entry.
UnreadPastEnd ==
    /\ call.op = "load"
    /\ call' = Further
    /\ UNCHANGED <<inMemory, record>>

\* Mutant of UnreadEntry: the flag becomes that of the local that was not set.
UnreadClears ==
    /\ call.op = "load" /\ call.at <= Len(Order)
    /\ IF Entry[1] = "offset"
       THEN call' = Idle /\ UNCHANGED inMemory
       ELSE /\ call' = Further
            /\ Becomes(Entry[2], handle[Entry[2]].offset, FALSE)
            /\ UNCHANGED <<bias, asked, fresh, unflagged>>
    /\ UNCHANGED record

\* An entry is missing, or its read fails. The load gives up at offsets; a flag is
\* passed over, without an error, and the flag of the handle stays.
UnreadEntry ==
    /\ call.op = "load" /\ call.at <= Len(Order)
    /\ call' = IF Entry[1] = "offset" THEN Idle ELSE Further
    /\ UNCHANGED <<inMemory, record>>

EndLoad ==
    /\ call.op = "load" /\ call.at > Len(Order)
    /\ call' = Idle
    /\ UNCHANGED <<inMemory, record>>

\* The power goes; lsm6ds3_init clears the handle.
PowerLoss ==
    /\ handle' = [s \in Sensors |-> None]
    /\ entries' = flash
    /\ call' = Idle
    /\ asked' = {} /\ fresh' = {} /\ unflagged' = {}
    /\ UNCHANGED <<bias, flash>>

Next ==
    \/ OpenSave \/ Write
    \/ OpenLoad \/ LoadEntry \/ UnreadEntry \/ EndLoad
    \/ PowerLoss
    \/ \E s \in Sensors : Calibrate(s) \/ SetOffset(s) \/ SetOffsetAxis(s) \/ Clear(s)

Spec == Init /\ [][Next]_vars

----------------------------------------------------------------------------
(***************************************************************************)
(* Properties                                                              *)
(***************************************************************************)
\* A sensor is corrected exactly if a calibration or a setter since the power
\* came asked for it and no call has cleared it since: a load replaces offsets,
\* and whatever saves left behind, however often the power went and whichever
\* reads failed, it neither starts to correct nor stops.
CorrectedOnRequest ==
    \A s \in Sensors : handle[s].flag <=> s \in asked

\* A sensor that is not calibrated has no offsets: those that the setter of one
\* axis makes count with its own are zero. Exception: offsets that were loaded
\* while the sensor's flag was not set, as they are after every restart.
NothingDormant ==
    \A s \in Sensors :
        ~handle[s].flag /\ s \notin unflagged => handle[s] = None

\* A calibrated sensor at rest reads zero, or gravity, no matter what it was
\* calibrated to before; so it does when measured offsets are loaded back over
\* others while it is corrected, even from a save that did not complete.
RestReadsTrue ==
    \A s \in fresh, a \in Axes : Corrected(s, a) = Level(s, a)

=============================================================================
