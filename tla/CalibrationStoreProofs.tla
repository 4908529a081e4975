----------------------- MODULE CalibrationStoreProofs -----------------------
(***************************************************************************)
(* Proofs about CalibrationStore, for any axes, biases and offsets, and    *)
(* any number of saves, loads and power losses.                            *)
(*                                                                         *)
(* The invariant follows the offsets through the record: what is stored as *)
(* measured is the bias, and no flag is ever stored, because every save    *)
(* ends at the first of them.                                              *)
(***************************************************************************)
EXTENDS CalibrationStore, TLAPS

----------------------------------------------------------------------------
(***************************************************************************)
(* Entries.                                                                *)
(***************************************************************************)
\* Each position below five is that of one entry.
LEMMA EntryAtPosition ==
    ASSUME call.at \in 1..5
    PROVE  /\ Len(Order) = 4
           /\ call.at <= Len(Order) => \E f \in Fields, s \in Sensors : Entry = <<f, s>>
<1>1. Len(Order) = 4 /\ Order[1] = <<"offset", "accel">> /\ Order[2] = <<"offset", "gyro">>
      /\ Order[3] = <<"flag", "accel">> /\ Order[4] = <<"flag", "gyro">>
    BY DEF Order
<1>2. CASE call.at \in {1, 2}
    BY <1>1, <1>2 DEF Entry, Fields, Sensors
<1>3. CASE call.at \in {3, 4}
    BY <1>1, <1>3 DEF Entry, Fields, Sensors
<1> QED BY <1>1, <1>2, <1>3

\* Of the entries a save comes to, those that can be stored are offsets.
LEMMA StorableIsOffset ==
    ASSUME call.at \in 1..3, Storable(Entry)
    PROVE  call.at \in 1..2 /\ \E s \in Sensors : Entry = <<"offset", s>>
<1>1. Order[1] = <<"offset", "accel">> /\ Order[2] = <<"offset", "gyro">>
      /\ Order[3] = <<"flag", "accel">>
    BY DEF Order
<1>2. call.at # 3
    BY <1>1 DEF Storable, Entry
<1>3. CASE call.at = 1
    BY <1>1, <1>3 DEF Entry, Sensors
<1>4. CASE call.at = 2
    BY <1>1, <1>4 DEF Entry, Sensors
<1> QED BY <1>2, <1>3, <1>4

LEMMA EntriesAre ==
    ASSUME NEW s \in Sensors, NEW t \in Sensors
    PROVE  /\ <<"offset", s>> \in Entries /\ <<"flag", s>> \in Entries
           /\ <<"offset", s>> # <<"flag", t>>
           /\ <<"offset", s>> = <<"offset", t>> <=> s = t
BY DEF Entries, Fields

----------------------------------------------------------------------------
(***************************************************************************)
(* The invariant: what the record holds, and what the handle does.         *)
(***************************************************************************)
\* A record has no flags, and offsets stored as measured are the bias.
RecordIs(rec, b) ==
    /\ DOMAIN rec = Entries
    /\ \A s \in Sensors :
          /\ rec[<<"offset", s>>] \subseteq StoredOffsets
          /\ rec[<<"flag", s>>] = {}
          /\ \A stored \in rec[<<"offset", s>>] :
                stored.measured => \A a \in Axes : stored.value[a] = b[s][a]

\* A sensor without dormant offsets, and one as a calibration leaves it.
Plain(c) == c.flag \/ c = None
Measured(c, b) == c.flag /\ \A a \in Axes : c.offset[a] = b[a]

HandleIs(s) ==
    /\ handle[s].flag <=> s \in asked
    /\ s \notin unflagged => Plain(handle[s])
    /\ s \in fresh => Measured(handle[s], bias[s])

HistoryTyped ==
    asked \in SUBSET Sensors /\ fresh \in SUBSET Sensors /\ unflagged \in SUBSET Sensors

CallTyped ==
    /\ call \in [op : {"none", "save", "load"}, at : 1 .. Len(Order) + 1]
    /\ call.op = "save" => call.at \in 1..3

StoreInv ==
    /\ bias \in [Sensors -> [Axes -> Biases]]
    /\ handle \in Calibrations
    /\ CallTyped
    /\ HistoryTyped
    /\ RecordIs(entries, bias) /\ RecordIs(flash, bias)
    /\ \A s \in Sensors : HandleIs(s)

LEMMA StoreTyped == StoreInv => TypeOK
BY DEF StoreInv, TypeOK, RecordIs, CallTyped, HistoryTyped

LEMMA CallsTyped ==
    /\ Idle \in [op : {"none", "save", "load"}, at : 1 .. Len(Order) + 1]
    /\ \A op \in {"save", "load"} :
          [op |-> op, at |-> 1] \in [op : {"none", "save", "load"}, at : 1 .. Len(Order) + 1]
    /\ Len(Order) = 4 /\ Idle.op = "none"
BY DEF Idle, Order

\* The power may go at any point.
LEMMA NoneTyped ==
    /\ [s \in Sensors |-> None] \in Calibrations
    /\ \A s \in Sensors : [t \in Sensors |-> None][s] = None
    /\ None.flag = FALSE /\ None.offset \in [Axes -> Int]
    /\ None = [offset |-> None.offset, flag |-> FALSE]
BY DEF None, Calibrations

LEMMA StoreInit == Init => StoreInv
<1> SUFFICES ASSUME Init PROVE StoreInv
    OBVIOUS
<1>1. RecordIs([e \in Entries |-> {}], bias)
    BY DEF RecordIs, Entries, Fields
<1>2. RecordIs(entries, bias) /\ RecordIs(flash, bias)
    BY <1>1 DEF Init
<1>3. CallTyped
    BY CallsTyped DEF Init, CallTyped
<1>4. \A s \in Sensors : HandleIs(s)
    BY NoneTyped DEF Init, HandleIs, Plain
<1> QED BY <1>2, <1>3, <1>4, NoneTyped DEF Init, StoreInv, HistoryTyped

----------------------------------------------------------------------------
(***************************************************************************)
(* Steps.                                                                  *)
(***************************************************************************)
\* The handle of one sensor changes, that of the others stays.
LEMMA BecomesEffect ==
    ASSUME handle \in Calibrations, NEW s \in Sensors, NEW offset \in [Axes -> Int],
           NEW flag \in BOOLEAN, Becomes(s, offset, flag)
    PROVE  /\ handle' \in Calibrations
           /\ handle'[s] = [offset |-> offset, flag |-> flag]
           /\ handle'[s].offset = offset /\ handle'[s].flag = flag
           /\ \A t \in Sensors \ {s} : handle'[t] = handle[t]
BY DEF Becomes, Calibrations

\* Storing the offsets of a sensor keeps a record good: they are the bias if they
\* are those of a calibration.
LEMMA StoreOffsets ==
    ASSUME StoreInv, NEW rec, RecordIs(rec, bias), NEW s \in Sensors, Entry = <<"offset", s>>
    PROVE  RecordIs([rec EXCEPT ![Entry] = {Holds(Entry)}], bias)
<1> DEFINE stored == [value |-> handle[s].offset, measured |-> s \in fresh]
           new == [rec EXCEPT ![<<"offset", s>>] = {stored}]
<1>1. Holds(Entry) = stored
    BY DEF Holds
<1>2. stored \in StoredOffsets
    BY DEF StoreInv, Calibrations, StoredOffsets
<1>3. stored.measured => \A a \in Axes : stored.value[a] = bias[s][a]
    BY DEF StoreInv, HandleIs, Measured
<1> HIDE DEF stored
<1>4. DOMAIN new = Entries /\ \A e \in Entries :
         new[e] = IF e = <<"offset", s>> THEN {stored} ELSE rec[e]
    BY DEF RecordIs
<1> HIDE DEF new
<1>5. ASSUME NEW t \in Sensors
      PROVE  /\ new[<<"offset", t>>] \subseteq StoredOffsets
             /\ new[<<"flag", t>>] = {}
             /\ \A x \in new[<<"offset", t>>] :
                   x.measured => \A a \in Axes : x.value[a] = bias[t][a]
  <2>1. /\ <<"offset", t>> \in Entries /\ <<"flag", t>> \in Entries
        /\ <<"flag", t>> # <<"offset", s>>
        /\ <<"offset", t>> = <<"offset", s>> <=> t = s
      BY EntriesAre
  <2>2. new[<<"flag", t>>] = {}
      BY <1>4, <2>1 DEF RecordIs
  <2>3. CASE t = s
    <3>1. new[<<"offset", t>>] = {stored} BY <1>4, <2>1, <2>3
    <3> QED BY <1>2, <1>3, <2>2, <2>3, <3>1
  <2>4. CASE t # s
    <3>1. new[<<"offset", t>>] = rec[<<"offset", t>>] BY <1>4, <2>1, <2>4
    <3> QED BY <2>2, <3>1 DEF RecordIs
  <2> QED BY <2>3, <2>4
<1>6. RecordIs(new, bias)
    BY <1>4, <1>5 DEF RecordIs
<1> QED BY <1>1, <1>6 DEF new

\* What a calibration measures is the bias.
LEMMA MeasuredIsBias ==
    ASSUME StoreInv, NEW s \in Sensors
    PROVE  /\ [a \in Axes |-> Raw(s, a) - Level(s, a)] \in [Axes -> Int]
           /\ \A a \in Axes : /\ Raw(s, a) - Level(s, a) = bias[s][a]
                              /\ Raw(s, a) - bias[s][a] = Level(s, a)
<1>1. ASSUME NEW a \in Axes
      PROVE  /\ Raw(s, a) - Level(s, a) \in Int
             /\ Raw(s, a) - Level(s, a) = bias[s][a]
             /\ Raw(s, a) - bias[s][a] = Level(s, a)
  <2>1. bias[s][a] \in Int BY CalibrationAssumption DEF StoreInv
  <2>2. Level(s, a) \in Int BY CalibrationAssumption DEF Level
  <2>3. Raw(s, a) = Level(s, a) + bias[s][a] BY DEF Raw
  <2> QED BY <2>1, <2>2, <2>3
<1> QED BY <1>1

\* A call that changes the calibration of one sensor in memory.
InMemory(s, offset, flag) ==
    /\ Becomes(s, offset, flag)
    /\ asked' = IF flag THEN asked \cup {s} ELSE asked \ {s}
    /\ fresh' \in {fresh \cup {s}, fresh \ {s}}
    /\ s \in fresh' => flag /\ \A a \in Axes : offset[a] = bias[s][a]
    /\ unflagged' = unflagged \ {s}
    /\ UNCHANGED <<bias, call, entries, flash>>

\* It may leave no offsets behind a flag that is not set.
LEMMA InMemoryKeeps ==
    ASSUME StoreInv, NEW s \in Sensors, NEW offset \in [Axes -> Int], NEW flag \in BOOLEAN,
           flag \/ offset = None.offset, InMemory(s, offset, flag)
    PROVE  StoreInv'
<1>1. /\ handle \in Calibrations /\ HistoryTyped
      /\ Becomes(s, offset, flag) /\ UNCHANGED <<bias, call, entries, flash>>
    BY DEF StoreInv, InMemory
<1>2. /\ handle' \in Calibrations
      /\ handle'[s] = [offset |-> offset, flag |-> flag]
      /\ handle'[s].offset = offset /\ handle'[s].flag = flag
      /\ \A t \in Sensors \ {s} : handle'[t] = handle[t]
    BY <1>1, BecomesEffect
<1>3. HistoryTyped'
    BY <1>1 DEF InMemory, HistoryTyped
<1>4. HandleIs(s)'
  <2>1. flag <=> s \in asked'
      BY DEF InMemory
  <2>2. Plain(handle'[s])
      BY <1>2, NoneTyped DEF Plain
  <2>3. s \in fresh' => Measured(handle'[s], bias'[s])
      BY <1>1, <1>2 DEF InMemory, Measured
  <2> QED BY <1>2, <2>1, <2>2, <2>3 DEF HandleIs, Measured, Plain
<1>5. ASSUME NEW t \in Sensors, t # s PROVE HandleIs(t)'
  <2>1. handle'[t] = handle[t] /\ bias' = bias
      BY <1>1, <1>2, <1>5
  <2>2. /\ t \in asked' <=> t \in asked
        /\ t \in fresh' <=> t \in fresh
        /\ t \in unflagged' <=> t \in unflagged
      BY <1>5 DEF InMemory
  <2>3. HandleIs(t)
      BY DEF StoreInv
  <2> QED BY <2>1, <2>2, <2>3 DEF HandleIs, Measured, Plain
<1>6. CallTyped'
    BY <1>1 DEF StoreInv, CallTyped
<1>7. RecordIs(entries', bias') /\ RecordIs(flash', bias')
    BY <1>1 DEF StoreInv
<1>8. bias' \in [Sensors -> [Axes -> Biases]]
    BY <1>1 DEF StoreInv
<1> QED BY <1>2, <1>3, <1>4, <1>5, <1>6, <1>7, <1>8 DEF StoreInv

\* The calls of the driver that calibrate are such calls.
LEMMA CalibrateKeeps ==
    ASSUME StoreInv, NEW s \in Sensors,
           Calibrate(s) \/ SetOffset(s) \/ SetOffsetAxis(s) \/ Clear(s)
    PROVE  StoreInv'
<1>1. CASE Calibrate(s)
  <2> DEFINE offset == [a \in Axes |-> Raw(s, a) - Level(s, a)]
  <2>1. offset \in [Axes -> Int] /\ \A a \in Axes : offset[a] = bias[s][a]
      BY MeasuredIsBias
  <2>2. Becomes(s, offset, TRUE)
      BY <1>1 DEF Calibrate
  <2> HIDE DEF offset
  <2>3. InMemory(s, offset, TRUE)
      BY <1>1, <2>1, <2>2 DEF Calibrate, InMemory, record
  <2> QED BY <2>1, <2>3, InMemoryKeeps
<1>2. CASE SetOffset(s)
  <2>1. PICK offset \in [Axes -> Offsets] : Becomes(s, offset, TRUE)
      BY <1>2 DEF SetOffset
  <2>2. offset \in [Axes -> Int]
      BY CalibrationAssumption
  <2>3. InMemory(s, offset, TRUE)
      BY <1>2, <2>1 DEF SetOffset, InMemory, record
  <2> QED BY <2>2, <2>3, InMemoryKeeps
<1>3. CASE SetOffsetAxis(s)
  <2>1. PICK a \in Axes, v \in Offsets :
           Becomes(s, [handle[s].offset EXCEPT ![a] = v], TRUE)
      BY <1>3 DEF SetOffsetAxis
  <2> DEFINE offset == [handle[s].offset EXCEPT ![a] = v]
  <2>2. offset \in [Axes -> Int]
      BY CalibrationAssumption DEF StoreInv, Calibrations
  <2> HIDE DEF offset
  <2>3. InMemory(s, offset, TRUE)
      BY <1>3, <2>1 DEF SetOffsetAxis, InMemory, record, offset
  <2> QED BY <2>2, <2>3, InMemoryKeeps
<1>4. CASE Clear(s)
  <2>1. InMemory(s, None.offset, FALSE)
      BY <1>4 DEF Clear, InMemory, record
  <2> QED BY <2>1, NoneTyped, InMemoryKeeps
<1> QED BY <1>1, <1>2, <1>3, <1>4

\* Steps that leave everything in memory alone.
LEMMA MemoryStays ==
    ASSUME StoreInv, UNCHANGED inMemory, CallTyped',
           RecordIs(entries', bias), RecordIs(flash', bias)
    PROVE  StoreInv'
<1>1. UNCHANGED <<bias, handle, asked, fresh, unflagged>>
    BY DEF inMemory
<1>2. ASSUME NEW s \in Sensors PROVE HandleIs(s)'
  <2>1. HandleIs(s) BY DEF StoreInv
  <2> QED BY <1>1, <2>1 DEF HandleIs, Measured, Plain
<1>3. HistoryTyped' BY <1>1 DEF StoreInv, HistoryTyped
<1> QED BY <1>1, <1>2, <1>3 DEF StoreInv

LEMMA SaveKeeps ==
    ASSUME StoreInv, OpenSave \/ Write
    PROVE  StoreInv'
<1>1. RecordIs(entries, bias) /\ RecordIs(flash, bias) /\ CallTyped
    BY DEF StoreInv
<1>2. CASE OpenSave
  <2>1. call' = [op |-> "save", at |-> 1] /\ UNCHANGED inMemory /\ UNCHANGED <<entries, flash>>
      BY <1>2 DEF OpenSave, record
  <2>2. CallTyped'
      BY <2>1, CallsTyped DEF CallTyped
  <2> QED BY <1>1, <2>1, <2>2, MemoryStays
<1>3. CASE Write
  <2>1. call.op = "save" /\ call.at \in 1..3 /\ UNCHANGED inMemory
      BY <1>1, <1>3 DEF Write, CallTyped
  <2>2. CASE call' = Idle /\ UNCHANGED record
    <3>1. CallTyped' BY <2>2, CallsTyped DEF CallTyped
    <3> QED BY <1>1, <2>1, <2>2, <3>1, MemoryStays DEF record
  <2>3. CASE /\ Storable(Entry)
             /\ entries' = [entries EXCEPT ![Entry] = {Holds(Entry)}]
             /\ flash' \in {flash, [flash EXCEPT ![Entry] = {Holds(Entry)}]}
             /\ call' = Further
    <3>1. call.at \in 1..2 /\ \E s \in Sensors : Entry = <<"offset", s>>
        BY <2>1, <2>3, StorableIsOffset
    <3>2. RecordIs(entries', bias) /\ RecordIs(flash', bias)
        BY <1>1, <2>3, <3>1, StoreOffsets
    <3>3. CallTyped'
        BY <1>1, <2>1, <2>3, <3>1, CallsTyped DEF CallTyped, Further
    <3> QED BY <2>1, <3>2, <3>3, MemoryStays
  <2> QED BY <1>3, <2>2, <2>3 DEF Write
<1> QED BY <1>2, <1>3

\* What a load takes from the record are offsets; the flag stays.
LEMMA LoadKeeps ==
    ASSUME StoreInv, LoadEntry
    PROVE  StoreInv'
<1>1. /\ handle \in Calibrations /\ HistoryTyped /\ CallTyped
      /\ RecordIs(entries, bias) /\ RecordIs(flash, bias)
    BY DEF StoreInv
<1>2. /\ call.op = "load" /\ call.at \in 1..4 /\ call' = Further
      /\ UNCHANGED <<bias, asked, entries, flash>>
    BY <1>1, CallsTyped DEF LoadEntry, CallTyped, record
<1>3. PICK f \in Fields, s \in Sensors : Entry = <<f, s>>
    BY <1>2, EntryAtPosition
<1>4. Entry[1] = f /\ Entry[2] = s
    BY <1>3
<1>5. f = "offset"
    BY <1>1, <1>3 DEF LoadEntry, RecordIs, Fields
<1>6. PICK stored \in entries[<<"offset", s>>] :
         /\ handle' = [handle EXCEPT ![s] = [handle[s] EXCEPT ![f] = stored.value]]
         /\ Origin(s, stored.measured)
    BY <1>3, <1>4, <1>5 DEF LoadEntry
<1>7. /\ stored.value \in [Axes -> Int]
      /\ stored.measured => \A a \in Axes : stored.value[a] = bias[s][a]
    BY <1>1 DEF RecordIs, StoredOffsets
<1>8. handle[s] \in [offset : [Axes -> Int], flag : BOOLEAN]
    BY <1>1 DEF Calibrations
<1>9. Becomes(s, stored.value, handle[s].flag)
  <2>1. [handle[s] EXCEPT ![f] = stored.value]
           = [offset |-> stored.value, flag |-> handle[s].flag]
      BY <1>5, <1>8
  <2> QED BY <1>6, <2>1 DEF Becomes
<1>10. /\ handle' \in Calibrations
       /\ handle'[s].offset = stored.value /\ handle'[s].flag = handle[s].flag
       /\ \A t \in Sensors \ {s} : handle'[t] = handle[t]
  <2>1. handle[s].flag \in BOOLEAN BY <1>8
  <2> QED BY <1>1, <1>7, <1>9, <2>1, BecomesEffect
<1>11. HistoryTyped'
    BY <1>1, <1>2, <1>6 DEF HistoryTyped, Origin
<1>12. HandleIs(s)'
  <2>1. HandleIs(s) BY DEF StoreInv
  <2>2. CASE handle[s].flag
    <3>1. s \in fresh' => stored.measured
        BY <1>6, <2>2 DEF Origin
    <3>2. s \in fresh' => Measured(handle'[s], bias'[s])
        BY <1>2, <1>7, <1>10, <2>2, <3>1 DEF Measured
    <3> QED BY <1>2, <1>10, <2>1, <2>2, <3>2 DEF HandleIs, Plain
  <2>3. CASE ~handle[s].flag
    <3>1. s \in unflagged' /\ s \notin fresh'
        BY <1>6, <2>3 DEF Origin
    <3> QED BY <1>2, <1>10, <2>1, <2>3, <3>1 DEF HandleIs
  <2> QED BY <2>2, <2>3
<1>13. ASSUME NEW t \in Sensors, t # s PROVE HandleIs(t)'
  <2>1. HandleIs(t) BY DEF StoreInv
  <2>2. /\ t \in fresh' <=> t \in fresh
        /\ t \in unflagged' <=> t \in unflagged
      BY <1>6, <1>13 DEF Origin
  <2>3. handle'[t] = handle[t] BY <1>10, <1>13
  <2> QED BY <1>2, <2>1, <2>2, <2>3 DEF HandleIs, Measured, Plain
<1>14. CallTyped'
    BY <1>1, <1>2, CallsTyped DEF CallTyped, Further
<1>15. /\ bias' \in [Sensors -> [Axes -> Biases]]
       /\ RecordIs(entries', bias') /\ RecordIs(flash', bias')
    BY <1>1, <1>2 DEF StoreInv
<1> QED BY <1>10, <1>11, <1>12, <1>13, <1>14, <1>15 DEF StoreInv

\* The other steps of a load.
LEMMA PassKeeps ==
    ASSUME StoreInv, OpenLoad \/ UnreadEntry \/ EndLoad
    PROVE  StoreInv'
<1>1. CallTyped /\ RecordIs(entries, bias) /\ RecordIs(flash, bias)
    BY DEF StoreInv
<1>2. UNCHANGED inMemory /\ UNCHANGED <<entries, flash>>
    BY DEF OpenLoad, UnreadEntry, EndLoad, record
<1>3. CallTyped'
  <2>1. CASE OpenLoad BY <2>1, CallsTyped DEF OpenLoad, CallTyped
  <2>2. CASE UnreadEntry
    <3>1. call.op = "load" /\ call.at \in 1..4 /\ (call' = Idle \/ call' = Further)
        BY <1>1, <2>2, CallsTyped DEF UnreadEntry, CallTyped
    <3> QED BY <1>1, <3>1, CallsTyped DEF CallTyped, Further
  <2>3. CASE EndLoad BY <2>3, CallsTyped DEF EndLoad, CallTyped
  <2> QED BY <2>1, <2>2, <2>3
<1> QED BY <1>1, <1>2, <1>3, MemoryStays

\* A restart finds what the flash kept, and nothing in memory.
LEMMA PowerLossKeeps ==
    ASSUME StoreInv, PowerLoss
    PROVE  StoreInv'
<1>1. /\ handle' = [s \in Sensors |-> None] /\ entries' = flash /\ call' = Idle
      /\ asked' = {} /\ fresh' = {} /\ unflagged' = {}
      /\ UNCHANGED <<bias, flash>>
    BY DEF PowerLoss
<1>2. ASSUME NEW s \in Sensors PROVE HandleIs(s)'
  <2>1. handle'[s] = None BY <1>1, NoneTyped
  <2> QED BY <1>1, <2>1, NoneTyped DEF HandleIs, Plain
<1>3. CallTyped' BY <1>1, CallsTyped DEF CallTyped
<1>4. HistoryTyped' BY <1>1 DEF HistoryTyped
<1> QED BY <1>1, <1>2, <1>3, <1>4, NoneTyped DEF StoreInv

LEMMA StoreStep == StoreInv /\ [Next]_vars => StoreInv'
<1> SUFFICES ASSUME StoreInv, [Next]_vars PROVE StoreInv'
    OBVIOUS
<1>1. CASE UNCHANGED vars
  <2>1. CallTyped' BY <1>1 DEF vars, StoreInv, CallTyped
  <2>2. RecordIs(entries', bias) /\ RecordIs(flash', bias)
      BY <1>1 DEF vars, StoreInv
  <2> QED BY <1>1, <2>1, <2>2, MemoryStays DEF vars, inMemory
<1> QED
    BY <1>1, CalibrateKeeps, SaveKeeps, LoadKeeps, PassKeeps, PowerLossKeeps DEF Next

LEMMA StoreKept == Spec => []StoreInv
BY StoreInit, StoreStep, PTL DEF Spec

----------------------------------------------------------------------------
(***************************************************************************)
(* The theorems.                                                           *)
(***************************************************************************)
\* Whatever calls are made and whenever the power goes, handle, record and calls
\* stay what the driver's types say.
THEOREM CalibrationTypeCorrect == Spec => []TypeOK
BY StoreKept, StoreTyped, PTL

\* Loads, saves and power losses neither start nor stop the correction of a
\* sensor: only a calibration, a setter or a clear since the power came does.
THEOREM CorrectedAsAsked == Spec => []CorrectedOnRequest
<1>1. StoreInv => CorrectedOnRequest
    BY DEF StoreInv, HandleIs, CorrectedOnRequest
<1> QED BY <1>1, StoreKept, PTL

\* A sensor that is not calibrated has no offsets that the setter of one axis
\* could bring back, unless a load put them there while its flag was not set.
THEOREM NoneDormant == Spec => []NothingDormant
<1>1. StoreInv => NothingDormant
    BY DEF StoreInv, HandleIs, Plain, NothingDormant
<1> QED BY <1>1, StoreKept, PTL

\* A sensor at rest that is corrected by measured offsets reads zero, or gravity,
\* for any bias; also when the offsets come back from the record.
THEOREM RestIsTrue == Spec => []RestReadsTrue
<1>1. StoreInv => RestReadsTrue
  <2> SUFFICES ASSUME StoreInv, NEW s \in fresh, NEW a \in Axes
               PROVE  Corrected(s, a) = Level(s, a)
      BY DEF RestReadsTrue
  <2>1. s \in Sensors BY DEF StoreInv, HistoryTyped
  <2>2. Measured(handle[s], bias[s])
      BY <2>1 DEF StoreInv, HandleIs
  <2>3. Raw(s, a) - bias[s][a] = Level(s, a)
      BY <2>1, MeasuredIsBias
  <2> QED BY <2>2, <2>3 DEF Measured, Corrected
<1> QED BY <1>1, StoreKept, PTL

=============================================================================
