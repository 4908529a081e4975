------------------------- MODULE DataReportsProofs --------------------------
(***************************************************************************)
(* Proofs about DataReports: its type invariant for both settings of       *)
(* Overlap, and, for calls that do not overlap, the layout of the reports  *)
(* and that none is sent again without a change.                           *)
(***************************************************************************)
EXTENDS DataReports, TLAPS

----------------------------------------------------------------------------
(***************************************************************************)
(* The tables of the cases: Loads, Sent and Documented.                    *)
(***************************************************************************)
Sources == {"buttons", "accel", "ir_basic", "ir_extended", "port"}
LoadRecords == [source : Sources, at : Nat, cells : SUBSET Cells]

\* The two loads that most cases begin with.
LEMMA ButtonsAre ==
    Buttons = [source |-> "buttons", at |-> 0, cells |-> {0, 1}]
BY DEF Buttons, Load, Within, Cells

LEMMA AccelIs ==
    Accel = [source |-> "accel", at |-> 2, cells |-> {1, 2}]
<1>1. Within(2, 3) = {2}
  BY DEF Within, Cells
<1> QED BY <1>1 DEF Accel

\* A load of a stretch of bytes is a load of cells.
LEMMA LoadTyped ==
    ASSUME NEW source \in Sources, NEW p \in Nat, NEW n \in Nat
    PROVE  Load(source, p, n) \in LoadRecords
BY DEF Load, LoadRecords, Within

\* The case of one mode, as a sequence of loads.
LEMMA CasesOfSwitch ==
    /\ Loads["30"] = <<Buttons>>
    /\ Loads["31"] = <<Buttons, Accel>>
    /\ Loads["32"] = <<Buttons, Load("port", 2, 8)>>
    /\ Loads["33"] = <<Buttons, Accel, Load("ir_extended", 5, 12)>>
    /\ Loads["34"] = <<Buttons, Load("port", 2, 19)>>
    /\ Loads["35"] = <<Buttons, Accel, Load("port", 5, 16)>>
    /\ Loads["36"] = <<Buttons, Load("ir_basic", 5, 10), Load("port", 12, 9)>>
    /\ Loads["37"] = <<Buttons, Accel, Load("ir_basic", 5, 10), Load("port", 15, 6)>>
    /\ Loads["3d"] = <<Load("port", 0, 21)>>
    /\ Loads["3e"] = <<>>
BY DEF Loads, Modes

\* Each case loads at most four times, and each load names a source and cells.
LEMMA LoadsTyped ==
    ASSUME NEW m \in Modes
    PROVE  /\ Loads[m] \in Seq(LoadRecords)
           /\ Len(Loads[m]) \in 0..4
           /\ m # "3e" <=> Len(Loads[m]) # 0
<1>1. \A a \in LoadRecords : <<a>> \in Seq(LoadRecords) /\ Len(<<a>>) = 1
  OBVIOUS
<1>2. \A a, b \in LoadRecords : <<a, b>> \in Seq(LoadRecords) /\ Len(<<a, b>>) = 2
  OBVIOUS
<1>3. \A a, b, c \in LoadRecords :
          <<a, b, c>> \in Seq(LoadRecords) /\ Len(<<a, b, c>>) = 3
  OBVIOUS
<1>4. \A a, b, c, d \in LoadRecords :
          <<a, b, c, d>> \in Seq(LoadRecords) /\ Len(<<a, b, c, d>>) = 4
  OBVIOUS
<1>5. Buttons \in LoadRecords /\ Accel \in LoadRecords
  BY ButtonsAre, AccelIs DEF LoadRecords, Sources, Cells
<1>6. \A source \in {"port", "ir_basic", "ir_extended"}, p, n \in Nat :
          Load(source, p, n) \in LoadRecords
  BY LoadTyped DEF Sources
<1> DEFINE IsCase(loads) == /\ loads \in Seq(LoadRecords)
                            /\ Len(loads) \in 1..4
<1>7. IsCase(Loads["30"]) /\ IsCase(Loads["31"])
  BY <1>1, <1>2, <1>5, CasesOfSwitch
<1>8. IsCase(Loads["32"]) /\ IsCase(Loads["34"]) /\ IsCase(Loads["3d"])
  BY <1>1, <1>2, <1>5, <1>6, CasesOfSwitch
<1>9. IsCase(Loads["33"]) /\ IsCase(Loads["35"]) /\ IsCase(Loads["36"])
  BY <1>3, <1>5, <1>6, CasesOfSwitch
<1>10. IsCase(Loads["37"])
  BY <1>4, <1>5, <1>6, CasesOfSwitch
<1>11. Loads["3e"] \in Seq(LoadRecords) /\ Len(Loads["3e"]) = 0
  BY CasesOfSwitch
<1>12. CASE m = "3e"
  BY <1>12, <1>11
<1>13. CASE m # "3e"
  <2>1. IsCase(Loads[m])
    <3> HIDE DEF IsCase
    <3> QED BY <1>13, <1>7, <1>8, <1>9, <1>10 DEF Modes
  <2>2. \A n \in 1..4 : n \in 0..4 /\ n # 0
    OBVIOUS
  <2> QED BY <2>1, <2>2, <1>13, Zenon
<1> QED BY <1>12, <1>13

\* The stretches of bytes of the cases, in cells.
LEMMA CellsWithin ==
    /\ Within(0, 2) = {0, 1} /\ Within(0, 5) = {0, 1, 2}
    /\ Within(0, 10) = {0, 1, 2, 5} /\ Within(0, 17) = {0, 1, 2, 5, 10, 12, 15}
    /\ Within(0, 21) = Cells
    /\ Within(2, 8) = {2, 5} /\ Within(2, 19) = {2, 5, 10, 12, 15, 17}
    /\ Within(5, 10) = {5, 10, 12} /\ Within(5, 12) = {5, 10, 12, 15}
    /\ Within(5, 16) = {5, 10, 12, 15, 17} /\ Within(15, 6) = {15, 17}
BY DEF Within, Cells

\* The cells of a report are cells of the buffer, and those compared include them.
LEMMA SentCells ==
    ASSUME NEW m
    PROVE  Sent(m) \subseteq Cells /\ Compared(m) \subseteq Cells
BY DEF Sent, Compared, Within

\* What a load fills a cell with is of the kind the comment on the case names.
Suits(load, c, source) ==
    CASE load.source = "buttons" -> source = IF c = 1 THEN "zero" ELSE "buttons"
      [] load.source = "accel"   -> source = "accel"
      [] load.source = "port"    -> source = "port"
      [] OTHER                   -> source = "ir"

\* The table of the modes is the table of the comments: whatever fills a cell of
\* a report last is of the kind documented for it, and every cell is filled.
\* Mode 36, which the code lays out differently, is left out.
TableIsDocumented(m) ==
    \A c \in Sent(m) :
        /\ \E i \in 1..Len(Loads[m]) : c \in Loads[m][i].cells
        /\ \A i \in 1..Len(Loads[m]) :
               c \in Loads[m][i].cells =>
                   \/ \E j \in 1..Len(Loads[m]) : i < j /\ c \in Loads[m][j].cells
                   \/ Suits(Loads[m][i], c, Documented(m, c))

LEMMA TablesAgree ==
    ASSUME NEW m \in Modes \ {"36", "3e"}
    PROVE  TableIsDocumented(m)
<1> USE DEF Suits, Documented, WithAccel, IrCells, Cells
<1>1. CASE m = "30"
  <2>1. Sent(m) = {0, 1}
    BY <1>1, CellsWithin DEF Sent
  <2>2. /\ Len(Loads[m]) = 1
        /\ Loads[m][1].source = "buttons" /\ Loads[m][1].cells = {0, 1}
    BY <1>1, CasesOfSwitch, ButtonsAre
  <2> QED BY <1>1, <2>1, <2>2 DEF TableIsDocumented
<1>2. CASE m = "31"
  <2>1. Sent(m) = {0, 1, 2}
    BY <1>2, CellsWithin DEF Sent
  <2>2. /\ Len(Loads[m]) = 2
        /\ Loads[m][1].source = "buttons" /\ Loads[m][1].cells = {0, 1}
        /\ Loads[m][2].source = "accel" /\ Loads[m][2].cells = {1, 2}
    BY <1>2, CasesOfSwitch, ButtonsAre, AccelIs
  <2> QED BY <1>2, <2>1, <2>2 DEF TableIsDocumented
<1>3. CASE m = "32"
  <2>1. Sent(m) = {0, 1, 2, 5}
    BY <1>3, CellsWithin DEF Sent
  <2>2. /\ Len(Loads[m]) = 2
        /\ Loads[m][1].source = "buttons" /\ Loads[m][1].cells = {0, 1}
        /\ Loads[m][2].source = "port" /\ Loads[m][2].cells = {2, 5}
    BY <1>3, CasesOfSwitch, ButtonsAre, CellsWithin DEF Load
  <2> QED BY <1>3, <2>1, <2>2 DEF TableIsDocumented
<1>4. CASE m = "33"
  <2>1. Sent(m) = {0, 1, 2, 5, 10, 12, 15}
    BY <1>4, CellsWithin DEF Sent
  <2>2. /\ Len(Loads[m]) = 3
        /\ Loads[m][1].source = "buttons" /\ Loads[m][1].cells = {0, 1}
        /\ Loads[m][2].source = "accel" /\ Loads[m][2].cells = {1, 2}
        /\ Loads[m][3].source = "ir_extended" /\ Loads[m][3].cells = {5, 10, 12, 15}
    BY <1>4, CasesOfSwitch, ButtonsAre, AccelIs, CellsWithin DEF Load
  <2>3. /\ Documented(m, 0) = "buttons"
        /\ Documented(m, 1) = "accel" /\ Documented(m, 2) = "accel"
        /\ \A c \in {5, 10, 12, 15} : Documented(m, c) = "ir"
    BY <1>4
  <2> HIDE DEF Documented
  <2> QED BY <2>1, <2>2, <2>3 DEF TableIsDocumented
<1>5. CASE m = "34"
  <2>1. Sent(m) = Cells
    BY <1>5, CellsWithin DEF Sent
  <2>2. /\ Len(Loads[m]) = 2
        /\ Loads[m][1].source = "buttons" /\ Loads[m][1].cells = {0, 1}
        /\ Loads[m][2].source = "port" /\ Loads[m][2].cells = {2, 5, 10, 12, 15, 17}
    BY <1>5, CasesOfSwitch, ButtonsAre, CellsWithin DEF Load
  <2> QED BY <1>5, <2>1, <2>2 DEF TableIsDocumented, Cells
<1>6. CASE m = "35"
  <2>1. Sent(m) = Cells
    BY <1>6, CellsWithin DEF Sent
  <2>2. /\ Len(Loads[m]) = 3
        /\ Loads[m][1].source = "buttons" /\ Loads[m][1].cells = {0, 1}
        /\ Loads[m][2].source = "accel" /\ Loads[m][2].cells = {1, 2}
        /\ Loads[m][3].source = "port" /\ Loads[m][3].cells = {5, 10, 12, 15, 17}
    BY <1>6, CasesOfSwitch, ButtonsAre, AccelIs, CellsWithin DEF Load
  <2>3. /\ Documented(m, 0) = "buttons"
        /\ Documented(m, 1) = "accel" /\ Documented(m, 2) = "accel"
        /\ \A c \in {5, 10, 12, 15, 17} : Documented(m, c) = "port"
    BY <1>6
  <2> HIDE DEF Documented
  <2> QED BY <2>1, <2>2, <2>3 DEF TableIsDocumented, Cells
<1>7. CASE m = "37"
  <2>1. Sent(m) = Cells
    BY <1>7, CellsWithin DEF Sent
  <2>2. /\ Len(Loads[m]) = 4
        /\ Loads[m][1].source = "buttons" /\ Loads[m][1].cells = {0, 1}
        /\ Loads[m][2].source = "accel" /\ Loads[m][2].cells = {1, 2}
        /\ Loads[m][3].source = "ir_basic" /\ Loads[m][3].cells = {5, 10, 12}
        /\ Loads[m][4].source = "port" /\ Loads[m][4].cells = {15, 17}
    BY <1>7, CasesOfSwitch, ButtonsAre, AccelIs, CellsWithin DEF Load
  <2>3. /\ Documented(m, 0) = "buttons"
        /\ Documented(m, 1) = "accel" /\ Documented(m, 2) = "accel"
        /\ \A c \in {5, 10, 12} : Documented(m, c) = "ir"
        /\ \A c \in {15, 17} : Documented(m, c) = "port"
    BY <1>7
  <2> HIDE DEF Documented
  <2> QED BY <2>1, <2>2, <2>3 DEF TableIsDocumented, Cells
<1>8. CASE m = "3d"
  <2>1. Sent(m) = Cells
    BY <1>8, CellsWithin DEF Sent
  <2>2. /\ Len(Loads[m]) = 1
        /\ Loads[m][1].source = "port" /\ Loads[m][1].cells = Cells
    BY <1>8, CasesOfSwitch, CellsWithin DEF Load
  <2> QED BY <1>8, <2>1, <2>2 DEF TableIsDocumented, Cells
<1> QED BY <1>1, <1>2, <1>3, <1>4, <1>5, <1>6, <1>7, <1>8 DEF Modes

----------------------------------------------------------------------------
(***************************************************************************)
(* Type correctness. TypeOK alone is not inductive: a thread that loads    *)
(* has a load ahead of it.                                                 *)
(***************************************************************************)
Places == {"idle", "reopened", "reset", "sample", "switch", "load", "check", "send",
           "copy"}
Calls == [pc : Places, accel : Values, buttons : Values, mode : Modes, left : 0..4,
          whole : BOOLEAN]

\* How far a call has come in its case.
InCase ==
    \A t \in Threads :
        /\ At(t, "load") => thread[t].left \in 1..Len(Loads[thread[t].mode])
        /\ thread[t].pc \in {"check", "send", "copy"} =>
               thread[t].left = 0 /\ thread[t].mode # "3e"

TypeInv == TypeOK /\ InCase

LEMMA SomeValue == (CHOOSE v \in Values : TRUE) \in Values
BY DataAssumption

LEMMA ContentTyped ==
    /\ \A s \in Sensors, v \in Values : Of(s, v) \in Contents
    /\ Fixed("FF") \in Contents /\ Fixed("zero") \in Contents
    /\ AllFF \in [Cells -> Contents]
BY SomeValue DEF Of, Fixed, Contents, AllFF

LEMMA IdleTyped == Idle \in Calls
BY SomeValue DEF Idle, Calls, Places, Modes

\* A step of thread t leaves the other thread where it is.
LEMMA GotoThread ==
    ASSUME TypeOK, NEW t \in Threads, NEW pc \in Places, Goto(t, pc)
    PROVE  /\ thread' \in [Threads -> Calls]
           /\ thread'[t] = [thread[t] EXCEPT !.pc = pc]
           /\ \A u \in Threads : u # t => thread'[u] = thread[u]
<1>1. thread \in [Threads -> Calls]
  BY DEF TypeOK, Calls, Places
<1>2. thread' = [thread EXCEPT ![t] = [thread[t] EXCEPT !.pc = pc]]
  BY DEF Goto
<1>3. [thread[t] EXCEPT !.pc = pc] \in Calls
  BY <1>1 DEF Calls
<1> QED BY <1>1, <1>2, <1>3

\* A step to a place outside of the loads, or on from the end of them.
LEMMA GotoInCase ==
    ASSUME TypeInv, NEW t \in Threads, NEW pc \in Places, Goto(t, pc),
           pc \in {"idle", "reset", "reopened", "sample", "switch"}
             \/ (pc \in {"send", "copy"} /\ thread[t].pc \in {"check", "send"})
    PROVE  InCase'
<1>1. /\ thread' \in [Threads -> Calls]
      /\ thread'[t] = [thread[t] EXCEPT !.pc = pc]
      /\ \A u \in Threads : u # t => thread'[u] = thread[u]
  BY GotoThread DEF TypeInv
<1>2. thread \in [Threads -> Calls]
  BY DEF TypeInv, TypeOK, Calls, Places
<1>3. /\ thread'[t].pc = pc /\ thread'[t].left = thread[t].left
      /\ thread'[t].mode = thread[t].mode
  BY <1>1, <1>2 DEF Calls
<1> SUFFICES ASSUME NEW u \in Threads
             PROVE  /\ thread'[u].pc = "load" =>
                           thread'[u].left \in 1..Len(Loads[thread'[u].mode])
                    /\ thread'[u].pc \in {"check", "send", "copy"} =>
                           thread'[u].left = 0 /\ thread'[u].mode # "3e"
  BY DEF InCase, At
<1>4. CASE u = t
  BY <1>3, <1>4 DEF TypeInv, InCase
<1>5. CASE u # t
  BY <1>1, <1>5 DEF TypeInv, InCase, At
<1> QED BY <1>4, <1>5

\* The load that comes next is one of the case.
LEMMA UpcomingIs ==
    ASSUME TypeInv, NEW t \in Threads, At(t, "load")
    PROVE  LET m == thread[t].mode
               i == Len(Loads[m]) + 1 - thread[t].left
           IN  /\ m \in Modes /\ thread[t].left \in 1..4
               /\ i \in 1..Len(Loads[m]) /\ Len(Loads[m]) \in 0..4
               /\ Upcoming(t) = Loads[m][i]
               /\ Upcoming(t) \in LoadRecords
               /\ m # "3e"
<1> DEFINE m == thread[t].mode
           i == Len(Loads[m]) + 1 - thread[t].left
<1>1. thread \in [Threads -> Calls]
  BY DEF TypeInv, TypeOK, Calls, Places
<1>2. m \in Modes /\ thread[t].left \in 0..4
  BY <1>1 DEF Calls
<1>3. Loads[m] \in Seq(LoadRecords) /\ Len(Loads[m]) \in 0..4
  BY <1>2, LoadsTyped
<1>4. thread[t].left \in 1..Len(Loads[m])
  BY DEF TypeInv, InCase
<1>5. i \in 1..Len(Loads[m]) /\ thread[t].left \in 1..4
  <2>1. \A n \in 0..4, l \in 0..4 : l \in 1..n => n + 1 - l \in 1..n /\ l \in 1..4
    OBVIOUS
  <2> QED BY <1>2, <1>3, <1>4, <2>1, Zenon
<1>6. Upcoming(t) = Loads[m][i]
  BY DEF Upcoming
<1>7. m # "3e"
  <2>1. Len(Loads[m]) # 0
    <3> HIDE DEF m
    <3> QED BY <1>3, <1>4
  <2> QED BY <2>1, <1>2, LoadsTyped
<1>8. Upcoming(t) \in LoadRecords
  <2> HIDE DEF m, i
  <2> QED BY <1>3, <1>5, <1>6
<1> QED BY <1>2, <1>3, <1>5, <1>6, <1>7, <1>8

Answers == {"nobody", "stale", "FF", "gyro", "extension"}

LEMMA AnswersTyped == Answer \in Answers /\ FailedAnswers \subseteq Answers
BY DEF Answer, FailedAnswers, Answers

\* Whatever a load puts into a cell is content.
LEMMA FillingTyped ==
    ASSUME TypeOK, NEW load \in LoadRecords, NEW c \in Cells, NEW buttons \in Values,
           NEW accel \in Values, NEW ir \in Values, NEW answer \in Answers
    PROVE  Filling(load, c, buttons, accel, ir, answer) \in Contents
<1>1. load.source \in Sources /\ load.at \in Nat
  BY DEF LoadRecords
<1>2. buf[c] \in Contents /\ sensor \in [Sensors -> Values]
  BY DEF TypeOK
<1> DEFINE filling == Filling(load, c, buttons, accel, ir, answer)
<1>3. CASE load.source = "buttons"
  <2>1. filling = IF c = 1 THEN Fixed("zero") ELSE Of("buttons", buttons)
    BY <1>3 DEF Filling
  <2> QED BY <2>1, ContentTyped DEF Sensors
<1>4. CASE load.source = "accel"
  <2>1. filling = Of("accel", accel)
    BY <1>4 DEF Filling
  <2> QED BY <2>1, ContentTyped DEF Sensors
<1>5. CASE load.source \in {"ir_basic", "ir_extended"}
  <2>1. filling \in {Of("ir", ir), Fixed("FF")}
    BY <1>5 DEF Filling
  <2> QED BY <2>1, ContentTyped DEF Sensors
<1>6. CASE load.source = "port"
  <2>1. filling \in {Fixed("FF"), Fixed("zero"), buf[c]}
           \/ (answer \in {"gyro", "extension"} /\ filling = Of(answer, sensor[answer]))
    BY <1>6 DEF Filling, Answers
  <2> QED BY <2>1, <1>2, ContentTyped DEF Sensors
<1> QED BY <1>1, <1>3, <1>4, <1>5, <1>6 DEF Sources

\* The bytes stay as the buffer had them.
LeavesBytes(t, answer) == Upcoming(t).source = "port" /\ answer = "stale"

\* One load: it fills its cells, and the call has one load less ahead.
LEMMA LoadStep ==
    ASSUME TypeInv, NEW t \in Threads, NEW answer \in Answers, LoadAs(t, answer)
    PROVE  /\ buf' \in [Cells -> Contents]
           /\ thread' \in [Threads -> Calls]
           /\ thread'[t].mode = thread[t].mode
           /\ thread'[t].left = thread[t].left - 1
           /\ thread'[t].pc = IF thread[t].left = 1 THEN "check" ELSE "load"
           /\ thread'[t].whole = (thread[t].whole /\ ~LeavesBytes(t, answer))
           /\ \A u \in Threads : u # t => thread'[u] = thread[u]
           /\ InCase'
<1>1. thread \in [Threads -> Calls]
  BY DEF TypeInv, TypeOK, Calls, Places
<1>2. /\ At(t, "load") /\ Upcoming(t) \in LoadRecords /\ thread[t].left \in 1..4
      /\ thread[t].mode \in Modes /\ thread[t].mode # "3e"
  BY UpcomingIs DEF LoadAs
<1>3. buf' \in [Cells -> Contents]
  <2>1. \A c \in Cells : Filling(Upcoming(t), c, thread[t].buttons, thread[t].accel,
                                raw, answer) \in Contents
    BY <1>1, <1>2, FillingTyped DEF TypeInv, TypeOK, Calls
  <2>2. buf \in [Cells -> Contents]
    BY DEF TypeInv, TypeOK
  <2> QED BY <2>1, <2>2 DEF LoadAs
<1> DEFINE w == thread[t].whole /\ ~LeavesBytes(t, answer)
           pc == IF thread[t].left = 1 THEN "check" ELSE "load"
           call == [thread[t] EXCEPT !.left = thread[t].left - 1, !.whole = w, !.pc = pc]
<1>4. thread' = [thread EXCEPT ![t] = call]
  BY DEF LoadAs, LeavesBytes
<1>5. /\ call \in Calls /\ call.mode = thread[t].mode /\ call.left = thread[t].left - 1
      /\ call.pc = pc /\ call.whole = w
  <2>1. w \in BOOLEAN /\ pc \in Places /\ thread[t].left - 1 \in 0..4
    BY <1>1, <1>2 DEF Calls, Places
  <2> HIDE DEF w, pc
  <2> QED BY <1>1, <2>1 DEF Calls
<1>6. /\ thread' \in [Threads -> Calls] /\ thread'[t] = call
      /\ \A u \in Threads : u # t => thread'[u] = thread[u]
  <2> HIDE DEF call
  <2> QED BY <1>1, <1>4, <1>5
<1>7. InCase'
  <2> SUFFICES ASSUME NEW u \in Threads
               PROVE  /\ thread'[u].pc = "load" =>
                             thread'[u].left \in 1..Len(Loads[thread'[u].mode])
                      /\ thread'[u].pc \in {"check", "send", "copy"} =>
                             thread'[u].left = 0 /\ thread'[u].mode # "3e"
    BY DEF InCase, At
  <2>1. CASE u # t
    BY <1>6, <2>1 DEF TypeInv, InCase, At
  <2>2. CASE u = t /\ thread[t].left = 1
    <3>1. thread'[u].pc = "check" /\ thread'[u].left = 0
          /\ thread'[u].mode = thread[t].mode
      <4> HIDE DEF call
      <4> QED BY <1>5, <1>6, <2>2
    <3> QED BY <1>2, <3>1
  <2>3. CASE u = t /\ thread[t].left # 1
    <3>1. thread[t].left \in 1..Len(Loads[thread[t].mode])
      BY <1>2 DEF TypeInv, InCase
    <3>2. Len(Loads[thread[t].mode]) \in 0..4
      BY <1>2, LoadsTyped
    <3>3. \A n \in 0..4 : \A l \in 1..n : l # 1 => l - 1 \in 1..n
      OBVIOUS
    <3>4. thread[t].left - 1 \in 1..Len(Loads[thread[t].mode])
      BY <2>3, <3>1, <3>2, <3>3, Zenon
    <3>5. thread'[u].pc = "load" /\ thread'[u].left = thread[t].left - 1
          /\ thread'[u].mode = thread[t].mode
      <4> HIDE DEF call
      <4> QED BY <1>5, <1>6, <2>3
    <3> QED BY <3>4, <3>5
  <2> QED BY <2>1, <2>2, <2>3
<1> QED BY <1>3, <1>5, <1>6, <1>7

LEMMA InitTyped == Init => TypeInv
<1> SUFFICES ASSUME Init PROVE TypeInv
  OBVIOUS
<1>1. thread \in [Threads -> Calls] /\ \A t \in Threads : thread[t].pc = "idle"
  BY IdleTyped DEF Init, Idle
<1>2. InCase
  BY <1>1 DEF InCase, At
<1>3. view \in [mode : Modes \cup {"none"}, cells : [Cells -> Contents], whole : BOOLEAN]
  BY ContentTyped DEF Init, NoView
<1>4. mode \in Modes /\ interleave \in BOOLEAN /\ owed \in BOOLEAN /\ missed \in BOOLEAN
  BY DEF Init, Modes
<1>8. changes \in 0..MaxChanges
  <2>1. changes = 0 /\ MaxChanges \in Nat
    BY DataAssumption DEF Init
  <2> QED BY <2>1
<1>7. buf \in [Cells -> Contents] /\ old \in [Cells -> Contents]
  BY ContentTyped DEF Init
<1>5. sensor \in [Sensors -> Values] /\ array \in Values /\ raw \in Values
  BY DEF Init
<1>6. port \in Ports /\ camera \in Cameras
  BY DEF Init
<1> QED BY <1>1, <1>2, <1>3, <1>4, <1>5, <1>6, <1>7, <1>8 DEF TypeInv, TypeOK, Calls, Places

LEMMA ChangeTyped == ASSUME TypeOK, Change PROVE changes' \in 0..MaxChanges
BY DataAssumption DEF TypeOK, Change

\* What the world and the host change.
LEMMA WorldTyped ==
    ASSUME TypeInv,
           \/ \E s \in Sensors, v \in Values : Reads(s, v)
           \/ \E p \in Ports : PortBecomes(p)
           \/ \E c \in Cameras : CameraBecomes(c)
    PROVE  TypeInv'
<1>1. CASE \E s \in Sensors, v \in Values : Reads(s, v)
  <2>1. changes' \in 0..MaxChanges
    BY <1>1, ChangeTyped DEF Reads, TypeInv
  <2> QED BY <1>1, <2>1 DEF Reads, TypeInv, TypeOK, InCase, At
<1>2. CASE \E p \in Ports : PortBecomes(p)
  <2>1. changes' \in 0..MaxChanges
    BY <1>2, ChangeTyped DEF PortBecomes, TypeInv
  <2> QED BY <1>2, <2>1 DEF PortBecomes, TypeInv, TypeOK, InCase, At
<1>3. CASE \E c \in Cameras : CameraBecomes(c)
  <2>1. changes' \in 0..MaxChanges
    BY <1>3, ChangeTyped DEF CameraBecomes, TypeInv
  <2> QED BY <1>3, <2>1 DEF CameraBecomes, TypeInv, TypeOK, InCase, At
<1> QED BY <1>1, <1>2, <1>3

LEMMA HostTyped == ASSUME TypeInv, Host PROVE TypeInv'
<1>1. ASSUME NEW m \in HostModes, SetMode(m) PROVE TypeInv'
  <2>1. changes' \in 0..MaxChanges
    BY <1>1, ChangeTyped DEF SetMode, TypeInv
  <2>2. mode' \in Modes
    BY <1>1 DEF SetMode, HostModes, Modes
  <2>3. thread' \in [Threads -> Calls] /\ InCase'
    <3>1. Goto("btc", "reset") /\ "btc" \in Threads /\ "reset" \in Places
      BY <1>1 DEF SetMode, Threads, Places
    <3> QED BY <3>1, GotoThread, GotoInCase DEF TypeInv
  <2> QED BY <1>1, <2>1, <2>2, <2>3 DEF SetMode, TypeInv, TypeOK, Calls, Places
<1>2. ASSUME Reopen PROVE TypeInv'
  <2>1. changes' \in 0..MaxChanges
    BY <1>2, ChangeTyped DEF Reopen, TypeInv
  <2>2. thread \in [Threads -> Calls]
    BY DEF TypeInv, TypeOK, Calls, Places
  <2> DEFINE call == [thread["btc"] EXCEPT !.pc = "reopened"]
  <2>3. call \in Calls /\ call.pc = "reopened"
    BY <2>2 DEF Calls, Places, Threads
  <2>4. thread' = [t \in Threads |-> IF t = "main" THEN Idle ELSE call]
    BY <1>2, <2>2 DEF Reopen, Threads
  <2>5. thread' \in [Threads -> Calls] /\ InCase'
    <3> HIDE DEF call
    <3>1. \A t \in Threads : thread'[t].pc \in {"idle", "reopened"}
      BY <2>3, <2>4 DEF Idle
    <3> QED BY <2>3, <2>4, <3>1, IdleTyped DEF InCase, At
  <2>6. view' \in [mode : Modes \cup {"none"}, cells : [Cells -> Contents],
                    whole : BOOLEAN]
    BY <1>2, ContentTyped DEF Reopen, NoView
  <2> QED BY <1>2, <2>1, <2>5, <2>6 DEF Reopen, TypeInv, TypeOK, Calls, Places
<1> QED BY <1>1, <1>2 DEF Host

LEMMA ResetTyped == ASSUME TypeInv, Reset PROVE TypeInv'
<1>1. \E pc \in {"sample", "idle"} : Goto("btc", pc)
  BY DEF Reset
<1>2. thread' \in [Threads -> Calls] /\ InCase'
  <2>1. "btc" \in Threads /\ {"sample", "idle"} \subseteq Places
    BY DEF Threads, Places
  <2> QED BY <1>1, <2>1, GotoThread, GotoInCase DEF TypeInv
<1> QED BY <1>2, ContentTyped DEF Reset, world, TypeInv, TypeOK, Calls, Places

LEMMA TurnTyped == ASSUME TypeInv, Turn PROVE TypeInv'
<1>1. thread' \in [Threads -> Calls] /\ InCase'
  <2>1. Goto("main", "sample") /\ "main" \in Threads /\ "sample" \in Places
    BY DEF Turn, Threads, Places
  <2> QED BY <2>1, GotoThread, GotoInCase DEF TypeInv
<1>2. array' \in Values
  BY DEF Turn, TypeInv, TypeOK, Sensors
<1> QED BY <1>1, <1>2 DEF Turn, world, TypeInv, TypeOK, Calls, Places

LEMMA SampleTyped ==
    ASSUME TypeInv, NEW t \in Threads, NEW v \in Values, NEW ir \in Values,
           SampleAs(t, v, ir), changes' \in 0..MaxChanges
    PROVE  TypeInv'
<1>1. thread \in [Threads -> Calls] /\ array \in Values
  BY DEF TypeInv, TypeOK, Calls, Places
<1> DEFINE call == [thread[t] EXCEPT !.pc = "switch", !.buttons = array, !.accel = v]
<1>2. call \in Calls /\ call.pc = "switch"
  BY <1>1 DEF Calls, Places
<1>3. thread' = [thread EXCEPT ![t] = call]
  BY DEF SampleAs
<1>4. thread' \in [Threads -> Calls] /\ InCase'
  <2> HIDE DEF call
  <2>1. thread' \in [Threads -> Calls]
    BY <1>1, <1>2, <1>3
  <2>2. \A u \in Threads : thread'[u].pc = "switch" \/ thread'[u] = thread[u]
    BY <1>1, <1>2, <1>3
  <2> QED BY <2>1, <2>2 DEF TypeInv, InCase, At
<1> QED BY <1>4 DEF SampleAs, TypeInv, TypeOK, Calls, Places

\* At the switch a call takes the mode as it is, and all its loads are ahead.
LEMMA SwitchStep ==
    ASSUME TypeInv, NEW t \in Threads, Switch(t)
    PROVE  /\ thread' \in [Threads -> Calls]
           /\ thread'[t].mode = mode /\ mode \in Modes
           /\ thread'[t].left = Len(Loads[mode])
           /\ thread'[t].pc = IF mode = "3e" THEN "idle" ELSE "load"
           /\ \A u \in Threads : u # t => thread'[u] = thread[u]
           /\ InCase'
<1>1. thread \in [Threads -> Calls] /\ mode \in Modes
  BY DEF TypeInv, TypeOK, Calls, Places
<1>2. Len(Loads[mode]) \in 0..4 /\ (mode # "3e" <=> Len(Loads[mode]) # 0)
  BY <1>1, LoadsTyped
<1>3. (Loads[mode] = <<>>) <=> (mode = "3e")
  <2>1. Len(<<>>) = 0
    OBVIOUS
  <2>2. Loads["3e"] = <<>>
    BY CasesOfSwitch
  <2> QED BY <1>2, <2>1, <2>2, Zenon
<1> DEFINE left == Len(Loads[mode])
           pc == IF Loads[mode] = <<>> THEN "idle" ELSE "load"
           call == [thread[t] EXCEPT !.mode = mode, !.left = left, !.whole = TRUE,
                                     !.pc = pc]
<1>4. thread' = [thread EXCEPT ![t] = call]
  BY DEF Switch
<1>5. /\ call \in Calls /\ call.mode = mode /\ call.left = left
      /\ call.pc = IF mode = "3e" THEN "idle" ELSE "load"
  <2>1. left \in 0..4 /\ pc \in Places /\ pc = IF mode = "3e" THEN "idle" ELSE "load"
    BY <1>2, <1>3 DEF Places
  <2> HIDE DEF left, pc
  <2> QED BY <1>1, <2>1 DEF Calls
<1>6. /\ thread' \in [Threads -> Calls] /\ thread'[t] = call
      /\ \A u \in Threads : u # t => thread'[u] = thread[u]
  <2> HIDE DEF call
  <2> QED BY <1>1, <1>4, <1>5
<1>7. mode # "3e" => left \in 1..left
  <2>1. \A n \in 0..4 : n # 0 => n \in 1..n
    OBVIOUS
  <2> QED BY <1>2, <2>1, Zenon
<1>8. InCase'
  <2> HIDE DEF call
  <2> SUFFICES ASSUME NEW u \in Threads
               PROVE  /\ thread'[u].pc = "load" =>
                             thread'[u].left \in 1..Len(Loads[thread'[u].mode])
                      /\ thread'[u].pc \in {"check", "send", "copy"} =>
                             thread'[u].left = 0 /\ thread'[u].mode # "3e"
    BY DEF InCase, At
  <2>1. CASE u # t
    BY <1>6, <2>1 DEF TypeInv, InCase, At
  <2>2. CASE u = t
    BY <1>5, <1>6, <1>7, <2>2
  <2> QED BY <2>1, <2>2
<1> QED
  <2> HIDE DEF call
  <2> QED BY <1>1, <1>5, <1>6, <1>8

LEMMA SwitchTyped == ASSUME TypeInv, NEW t \in Threads, Switch(t) PROVE TypeInv'
<1>1. thread' \in [Threads -> Calls] /\ InCase'
  BY SwitchStep
<1> QED BY <1>1 DEF Switch, world, TypeInv, TypeOK, Calls, Places

LEMMA LoadAsTyped ==
    ASSUME TypeInv, NEW t \in Threads, NEW answer \in Answers, LoadAs(t, answer),
           changes' \in 0..MaxChanges
    PROVE  TypeInv'
<1>1. buf' \in [Cells -> Contents] /\ thread' \in [Threads -> Calls] /\ InCase'
  BY LoadStep
<1>2. interleave' \in BOOLEAN
  BY DEF LoadAs
<1> QED BY <1>1, <1>2 DEF LoadAs, TypeInv, TypeOK, Calls, Places

\* What leads from the filled buffer to the remembered report.
LEMMA SendTyped ==
    ASSUME TypeInv, NEW t \in Threads,
           \/ Check(t) \/ SendReport(t) \/ CopyOld(t)
           \/ SendFails(t) /\ changes' \in 0..MaxChanges
    PROVE  TypeInv'
<1>1. thread \in [Threads -> Calls] /\ buf \in [Cells -> Contents]
      /\ old \in [Cells -> Contents]
  BY DEF TypeInv, TypeOK, Calls, Places
<1>2. CASE Check(t)
  <2>1. (Goto(t, "send") \/ Goto(t, "idle")) /\ thread[t].pc = "check"
    BY <1>2 DEF Check, At
  <2>2. thread' \in [Threads -> Calls] /\ InCase'
    BY <2>1, GotoThread, GotoInCase DEF TypeInv, Places
  <2> QED BY <1>2, <2>2 DEF Check, world, TypeInv, TypeOK, Calls, Places
<1>3. CASE SendReport(t)
  <2>1. Goto(t, "copy") /\ thread[t].pc = "send" /\ thread[t] \in Calls
    BY <1>1, <1>3 DEF SendReport, At
  <2>2. thread' \in [Threads -> Calls] /\ InCase'
    BY <2>1, GotoThread, GotoInCase DEF TypeInv, Places
  <2>3. view' \in [mode : Modes \cup {"none"}, cells : [Cells -> Contents],
                    whole : BOOLEAN]
    BY <1>1, <1>3, <2>1, ContentTyped DEF SendReport, Calls
  <2> QED BY <1>3, <2>2, <2>3 DEF SendReport, world, TypeInv, TypeOK, Calls, Places
<1>4. CASE CopyOld(t)
  <2>1. Goto(t, "idle") /\ thread[t].pc = "copy"
    BY <1>4 DEF CopyOld, At
  <2>2. thread' \in [Threads -> Calls] /\ InCase'
    BY <2>1, GotoThread, GotoInCase DEF TypeInv, Places
  <2>3. old' \in [Cells -> Contents]
    BY <1>1, <1>4 DEF CopyOld
  <2> QED BY <1>4, <2>2, <2>3 DEF CopyOld, world, TypeInv, TypeOK, Calls, Places
<1>5. CASE SendFails(t) /\ changes' \in 0..MaxChanges
  <2>1. Goto(t, "copy") /\ thread[t].pc = "send"
    BY <1>5 DEF SendFails, At
  <2>2. thread' \in [Threads -> Calls] /\ InCase'
    BY <2>1, GotoThread, GotoInCase DEF TypeInv, Places
  <2> QED BY <1>5, <2>2 DEF SendFails, TypeInv, TypeOK, Calls, Places
<1> QED BY <1>2, <1>3, <1>4, <1>5

\* A step of a call is one of these, with its answer and its readings.
LEMMA CallSteps ==
    ASSUME TypeInv, NEW t \in Threads, Core(t) \/ Fails(t)
    PROVE  \/ \E v, ir \in Values : SampleAs(t, v, ir) /\ changes' \in 0..MaxChanges
           \/ Switch(t)
           \/ \E answer \in Answers : LoadAs(t, answer) /\ changes' \in 0..MaxChanges
           \/ Check(t) \/ SendReport(t) \/ CopyOld(t)
           \/ SendFails(t) /\ changes' \in 0..MaxChanges
<1>1. /\ sensor["accel"] \in Values /\ sensor["ir"] \in Values /\ raw \in Values
      /\ changes \in 0..MaxChanges
  BY DEF TypeInv, TypeOK, Sensors
<1>2. Change => changes' \in 0..MaxChanges
  BY ChangeTyped DEF TypeInv
<1>3. ASSUME Sample(t) \/ SampleFails(t)
      PROVE  \E v, ir \in Values : SampleAs(t, v, ir) /\ changes' \in 0..MaxChanges
  BY <1>1, <1>2, <1>3 DEF Sample, SampleFails
<1>4. ASSUME LoadNext(t) \/ LoadFails(t)
      PROVE  \E answer \in Answers : LoadAs(t, answer) /\ changes' \in 0..MaxChanges
  BY <1>1, <1>2, <1>4, AnswersTyped DEF LoadNext, LoadFails
<1>5. SendFails(t) => changes' \in 0..MaxChanges
  BY <1>2 DEF SendFails
<1> QED BY <1>3, <1>4, <1>5 DEF Core, Fails

LEMMA CallTyped ==
    ASSUME TypeInv, NEW t \in Threads, Core(t) \/ Fails(t)
    PROVE  TypeInv'
BY CallSteps, SampleTyped, SwitchTyped, LoadAsTyped, SendTyped

LEMMA StepTyped == TypeInv /\ [Next]_vars => TypeInv'
<1> SUFFICES ASSUME TypeInv, [Next]_vars PROVE TypeInv'
  OBVIOUS
<1>1. CASE UNCHANGED vars
  BY <1>1 DEF vars, TypeInv, TypeOK, InCase, At
<1>2. CASE \E t \in Threads : Core(t) \/ Fails(t)
  BY <1>2, CallTyped
<1> QED BY <1>1, <1>2, WorldTyped, HostTyped, ResetTyped, TurnTyped
        DEF Next, World, Main, Btc, Threads

\* Buffers, calls and the view of the host hold what their types say, whether or
\* not the two threads are inside mote_input_data_core at the same time.
THEOREM DataTypeCorrect == Spec => []TypeOK
<1>1. TypeInv => TypeOK
  BY DEF TypeInv
<1> QED BY <1>1, InitTyped, StepTyped, PTL DEF Spec

----------------------------------------------------------------------------
(***************************************************************************)
(* The layout of the reports, for calls that do not overlap. The buffer is *)
(* shared by all modes and never cleared, so what a call has not filled    *)
(* yet may be of another layout: the invariant says which cells those are. *)
(***************************************************************************)
\* Only one thread at a time is on its way through a call or a request.
Alone == \E t \in Threads : At(t, "idle")

LEMMA StepAlone ==
    ASSUME TypeInv, Alone, Overlap = FALSE, [Next]_vars
    PROVE  Alone'
<1> USE DEF Alone, Threads, At
<1>1. thread \in [Threads -> Calls]
  BY DEF TypeInv, TypeOK, Calls, Places
<1>2. ASSUME NEW t \in Threads, ~At(t, "idle"),
             \A u \in Threads : u # t => thread'[u] = thread[u]
      PROVE  Alone'
  BY <1>2
<1>3. CASE \E t \in Threads : Core(t) \/ Fails(t)
  <2>1. PICK t \in Threads : Core(t) \/ Fails(t)
    BY <1>3
  <2>2. ~At(t, "idle")
    <3>1. Sample(t) \/ SampleFails(t) => thread[t].pc = "sample"
      BY DEF Sample, SampleFails, SampleAs
    <3>2. LoadNext(t) \/ LoadFails(t) => thread[t].pc = "load"
      BY DEF LoadNext, LoadFails, LoadAs
    <3>3. /\ Switch(t) => thread[t].pc = "switch"
          /\ Check(t) => thread[t].pc = "check"
          /\ SendReport(t) \/ SendFails(t) => thread[t].pc = "send"
          /\ CopyOld(t) => thread[t].pc = "copy"
      BY DEF Switch, Check, SendReport, SendFails, CopyOld
    <3> QED BY <2>1, <3>1, <3>2, <3>3 DEF Core, Fails
  <2>3. \E f : thread' = [thread EXCEPT ![t] = f]
    <3>1. CASE Sample(t) \/ SampleFails(t)
      BY <3>1 DEF Sample, SampleFails, SampleAs
    <3>2. CASE Switch(t)
      BY <3>2 DEF Switch
    <3>3. CASE LoadNext(t) \/ LoadFails(t)
      BY <3>3 DEF LoadNext, LoadFails, LoadAs
    <3>4. CASE Check(t) \/ SendReport(t) \/ SendFails(t) \/ CopyOld(t)
      BY <3>4 DEF Check, SendReport, SendFails, CopyOld, Goto
    <3> QED BY <2>1, <3>1, <3>2, <3>3, <3>4 DEF Core, Fails
  <2>4. \A u \in Threads : u # t => thread'[u] = thread[u]
    BY <1>1, <2>3
  <2> QED BY <1>2, <2>2, <2>4
<1>4. CASE UNCHANGED thread
  BY <1>4
<1>5. CASE Turn
  <2>1. thread'["btc"] = thread["btc"] /\ At("btc", "idle")
    BY <1>1, <1>5 DEF Turn, Goto
  <2> QED BY <2>1
<1>6. CASE Reset
  <2>1. thread'["main"] = thread["main"] /\ ~At("btc", "idle")
    BY <1>1, <1>6 DEF Reset, Goto
  <2> QED BY <2>1
<1>7. CASE Reopen
  <2>1. thread'["main"] = Idle
    BY <1>1, <1>7 DEF Reopen
  <2> QED BY <2>1 DEF Idle
<1>8. CASE \E m \in HostModes : SetMode(m)
  <2>1. thread'["main"] = thread["main"] /\ At("main", "idle")
    BY <1>1, <1>8 DEF SetMode, BtcMayStart, Goto
  <2> QED BY <2>1
<1>9. UNCHANGED thread \/ Turn \/ Reset \/ Reopen \/ (\E m \in HostModes : SetMode(m))
        \/ \E t \in Threads : Core(t) \/ Fails(t)
  BY DEF Next, vars, World, Host, Main, Btc, Reads, PortBecomes, CameraBecomes
<1> QED BY <1>3, <1>4, <1>5, <1>6, <1>7, <1>8, <1>9

\* The loads that thread t has not done yet.
Ahead(t) == {i \in 1..Len(Loads[thread[t].mode]) :
                i > Len(Loads[thread[t].mode]) - thread[t].left}

\* From the first load until it is sent, each cell of the report is of the kind
\* documented for it, or is still to be filled; and so is the last report sent.
FilledSoFar(t) ==
    (thread[t].pc \in {"load", "check", "send"} /\ thread[t].whole
        /\ thread[t].mode # "36") =>
            \A c \in Sent(thread[t].mode) :
                \/ \E i \in Ahead(t) : c \in Loads[thread[t].mode][i].cells
                \/ Fits(buf[c], Documented(thread[t].mode, c))
LayoutSoFar == \A t \in Threads : FilledSoFar(t)

LayoutInv == Alone /\ LayoutSoFar /\ LayoutBut36

\* What a load fills a cell with is what the comment says, unless the bytes stay.
LEMMA FillingFits ==
    ASSUME NEW load \in LoadRecords, NEW c, NEW buttons, NEW accel, NEW ir,
           NEW answer \in Answers, NEW source, Suits(load, c, source),
           ~(load.source = "port" /\ answer = "stale")
    PROVE  Fits(Filling(load, c, buttons, accel, ir, answer), source)
<1> DEFINE filling == Filling(load, c, buttons, accel, ir, answer)
<1>1. load.source \in Sources
  BY DEF LoadRecords
<1>2. \A s, v : Of(s, v).from = s /\ Fixed(s).from = s
  BY DEF Of, Fixed
<1>3. CASE load.source = "buttons"
  <2>1. filling = IF c = 1 THEN Fixed("zero") ELSE Of("buttons", buttons)
    BY <1>3 DEF Filling
  <2>2. source = IF c = 1 THEN "zero" ELSE "buttons"
    BY <1>3 DEF Suits
  <2> QED BY <1>2, <2>1, <2>2 DEF Fits
<1>4. CASE load.source = "accel"
  <2>1. filling = Of("accel", accel) /\ source = "accel"
    BY <1>4 DEF Filling, Suits
  <2> QED BY <1>2, <2>1 DEF Fits
<1>5. CASE load.source \in {"ir_basic", "ir_extended"}
  <2>1. filling \in {Of("ir", ir), Fixed("FF")} /\ source = "ir"
    BY <1>5 DEF Filling, Suits
  <2> QED BY <1>2, <2>1 DEF Fits
<1>6. CASE load.source = "port"
  <2>1. filling \in {Fixed("FF"), Fixed("zero")}
           \/ (answer \in {"gyro", "extension"} /\ filling = Of(answer, sensor[answer]))
    BY <1>6 DEF Filling, Answers
  <2>2. source = "port"
    BY <1>6 DEF Suits
  <2> QED BY <1>2, <2>1, <2>2 DEF Fits
<1> QED BY <1>1, <1>3, <1>4, <1>5, <1>6 DEF Sources

\* The step that enters the case: nothing is filled, and everything will be.
LEMMA SwitchFills ==
    ASSUME TypeInv, NEW t \in Threads, Switch(t)
    PROVE  FilledSoFar(t)'
<1>1. /\ thread'[t].mode = mode /\ mode \in Modes
      /\ thread'[t].left = Len(Loads[mode])
      /\ thread'[t].pc = IF mode = "3e" THEN "idle" ELSE "load"
  BY SwitchStep
<1>2. Len(Loads[mode]) \in 0..4
  BY <1>1, LoadsTyped
<1> SUFFICES ASSUME thread'[t].pc \in {"load", "check", "send"}, thread'[t].mode # "36",
                    NEW c \in Sent(thread'[t].mode)
             PROVE  \E i \in Ahead(t)' : c \in Loads[thread'[t].mode][i].cells
  BY DEF FilledSoFar
<1>3. mode \in Modes \ {"36", "3e"}
  BY <1>1
<1>4. PICK i \in 1..Len(Loads[mode]) : c \in Loads[mode][i].cells
  BY <1>1, <1>3, TablesAgree DEF TableIsDocumented
<1>5. \A n \in 0..4 : \A k \in 1..n : k > n - n
  OBVIOUS
<1>6. i > Len(Loads[mode]) - Len(Loads[mode])
  BY <1>2, <1>4, <1>5, Zenon
<1> QED BY <1>1, <1>4, <1>6 DEF Ahead

\* One load: the cells it fills last are right, the others are as they were or
\* still ahead.
LEMMA LoadFills ==
    ASSUME TypeInv, NEW t \in Threads, FilledSoFar(t), NEW answer \in Answers,
           LoadAs(t, answer)
    PROVE  FilledSoFar(t)'
<1> DEFINE m == thread[t].mode
           n == Len(Loads[m])
           l == thread[t].left
           i == n + 1 - l
<1>1. /\ m \in Modes /\ l \in 1..4 /\ i \in 1..n /\ n \in 0..4 /\ m # "3e"
      /\ Upcoming(t) = Loads[m][i] /\ Upcoming(t) \in LoadRecords
  BY UpcomingIs DEF LoadAs
<1>2. /\ thread'[t].mode = m /\ thread'[t].left = l - 1
      /\ thread'[t].whole = (thread[t].whole /\ ~LeavesBytes(t, answer))
  BY LoadStep
<1> SUFFICES ASSUME thread'[t].whole, m # "36", NEW c \in Sent(m)
             PROVE  \/ \E k \in Ahead(t)' : c \in Loads[m][k].cells
                    \/ Fits(buf'[c], Documented(m, c))
  BY <1>2 DEF FilledSoFar, Fits
<1>3. thread[t].whole /\ ~LeavesBytes(t, answer) /\ thread[t].pc = "load"
  BY <1>2 DEF LoadAs, At
<1>4. \A k \in 1..n : k > i => k \in Ahead(t)'
  <2>1. Ahead(t)' = {k \in 1..n : k > n - (l - 1)}
    BY <1>2 DEF Ahead
  <2>2. n - (l - 1) = i
    <3> HIDE DEF n, l
    <3> QED BY <1>1
  <2> QED BY <2>1, <2>2
<1>5. c \in Cells
  BY SentCells
<1>6. CASE c \in Upcoming(t).cells
  <2>1. buf'[c] = Filling(Upcoming(t), c, thread[t].buttons, thread[t].accel, raw, answer)
    BY <1>5, <1>6 DEF LoadAs
  <2>2. \/ \E k \in 1..n : i < k /\ c \in Loads[m][k].cells
        \/ Suits(Loads[m][i], c, Documented(m, c))
    <3>1. TableIsDocumented(m)
      BY <1>1, TablesAgree
    <3> HIDE DEF m, i
    <3> QED BY <1>1, <1>6, <3>1 DEF TableIsDocumented
  <2>3. CASE Suits(Loads[m][i], c, Documented(m, c))
    <3> HIDE DEF m, i
    <3> QED BY <1>1, <1>3, <2>1, <2>3, FillingFits DEF LeavesBytes
  <2>4. CASE \E k \in 1..n : i < k /\ c \in Loads[m][k].cells
    <3>1. PICK k \in 1..n : i < k /\ c \in Loads[m][k].cells
      BY <2>4
    <3>2. k > i
      <4> HIDE DEF n, i
      <4> QED BY <1>1, <3>1
    <3> QED BY <1>4, <3>1, <3>2
  <2> QED BY <2>2, <2>3, <2>4
<1>7. CASE c \notin Upcoming(t).cells
  <2>1. buf'[c] = buf[c]
    BY <1>5, <1>7 DEF LoadAs
  <2>2. (\E k \in Ahead(t) : c \in Loads[m][k].cells) \/ Fits(buf[c], Documented(m, c))
    BY <1>3 DEF FilledSoFar
  <2>3. CASE \E k \in Ahead(t) : c \in Loads[m][k].cells
    <3>1. PICK k \in Ahead(t) : c \in Loads[m][k].cells
      BY <2>3
    <3>2. k \in 1..n /\ k > n - l
      BY <3>1 DEF Ahead
    <3>3. k # i
      BY <1>1, <1>7, <3>1
    <3>4. k > i
      <4> HIDE DEF n, l
      <4> QED BY <1>1, <3>2, <3>3
    <3> QED BY <1>4, <3>1, <3>2, <3>4
  <2>4. CASE Fits(buf[c], Documented(m, c))
    BY <2>1, <2>4
  <2> QED BY <2>2, <2>3, <2>4
<1> QED BY <1>6, <1>7

\* A step that leaves the buffer alone and takes no thread into its loads.
LEMMA SameFills ==
    ASSUME TypeInv, LayoutSoFar, buf' = buf,
           \A t \in Threads :
               \/ thread'[t].pc \notin {"load", "check", "send"}
               \/ thread'[t] = thread[t]
               \/ thread[t].pc = "check" /\ thread'[t] = [thread[t] EXCEPT !.pc = "send"]
    PROVE  LayoutSoFar'
<1> SUFFICES ASSUME NEW t \in Threads PROVE FilledSoFar(t)'
  BY DEF LayoutSoFar
<1>1. FilledSoFar(t) /\ thread[t] \in Calls
  BY DEF LayoutSoFar, TypeInv, TypeOK, Calls, Places
<1>2. CASE thread'[t].pc \notin {"load", "check", "send"}
  BY <1>2 DEF FilledSoFar
<1>3. CASE thread'[t] = thread[t]
  BY <1>1, <1>3 DEF FilledSoFar, Ahead, Fits
<1>4. CASE thread[t].pc = "check" /\ thread'[t] = [thread[t] EXCEPT !.pc = "send"]
  <2>1. /\ thread'[t].mode = thread[t].mode /\ thread'[t].left = thread[t].left
        /\ thread'[t].whole = thread[t].whole
    BY <1>1, <1>4 DEF Calls
  <2>2. Ahead(t)' = Ahead(t)
    BY <2>1 DEF Ahead
  <2> QED BY <1>1, <1>4, <2>1, <2>2 DEF FilledSoFar, Fits
<1> QED BY <1>2, <1>3, <1>4

\* A call that is done with its loads has all cells filled.
LEMMA NoneAhead ==
    ASSUME TypeInv, NEW t \in Threads, thread[t].pc \in {"check", "send", "copy"}
    PROVE  Ahead(t) = {}
<1>1. thread[t].left = 0 /\ thread[t].mode \in Modes
  BY DEF TypeInv, TypeOK, InCase
<1>2. Len(Loads[thread[t].mode]) \in 0..4
  BY <1>1, LoadsTyped
<1>3. \A n \in 0..4 : \A k \in 1..n : ~(k > n - 0)
  OBVIOUS
<1> QED BY <1>1, <1>2, <1>3 DEF Ahead

LEMMA SendLayout ==
    ASSUME TypeInv, LayoutInv, NEW t \in Threads, SendReport(t)
    PROVE  LayoutBut36'
<1>1. thread[t].pc = "send" /\ FilledSoFar(t) /\ Ahead(t) = {}
  BY NoneAhead DEF SendReport, At, LayoutInv, LayoutSoFar
<1>2. /\ view'.mode = thread[t].mode /\ view'.whole = thread[t].whole
      /\ \A c \in Sent(thread[t].mode) : view'.cells[c] = buf[c]
  BY SentCells DEF SendReport
<1>3. (view'.mode # "36" /\ view'.whole) =>
          \A c \in Sent(view'.mode) : Fits(view'.cells[c], Documented(view'.mode, c))
  BY <1>1, <1>2 DEF FilledSoFar, Fits
<1> QED BY <1>3 DEF LayoutBut36

\* The step of one call leaves the others where they are.
LEMMA LoadLayout ==
    ASSUME TypeInv, LayoutInv, NEW t \in Threads,
           Switch(t) \/ \E answer \in Answers : LoadAs(t, answer)
    PROVE  LayoutSoFar'
<1>1. FilledSoFar(t)' /\ \A u \in Threads : u # t => thread'[u] = thread[u]
  <2>1. CASE Switch(t)
    BY <2>1, SwitchFills, SwitchStep
  <2>2. CASE \E answer \in Answers : LoadAs(t, answer)
    BY <2>2, LoadFills, LoadStep DEF LayoutInv, LayoutSoFar
  <2> QED BY <2>1, <2>2
<1>2. thread[t].pc # "idle"
  BY DEF Switch, LoadAs, At
<1>3. \A u \in Threads : u # t => thread[u].pc = "idle"
  BY <1>2 DEF LayoutInv, Alone, At, Threads
<1>4. ASSUME NEW u \in Threads, u # t PROVE FilledSoFar(u)'
  BY <1>1, <1>3, <1>4 DEF FilledSoFar
<1> QED BY <1>1, <1>4 DEF LayoutSoFar

LEMMA CallLayout ==
    ASSUME TypeInv, LayoutInv, NEW t \in Threads, Core(t) \/ Fails(t)
    PROVE  LayoutSoFar' /\ LayoutBut36'
<1> USE DEF LayoutInv
<1>1. thread \in [Threads -> Calls]
  BY DEF TypeInv, TypeOK, Calls, Places
<1>2. CASE \E v, ir \in Values : SampleAs(t, v, ir)
  <2>1. PICK v, ir \in Values : SampleAs(t, v, ir)
    BY <1>2
  <2>2. thread'[t].pc = "switch" /\ \A u \in Threads : u # t => thread'[u] = thread[u]
    BY <1>1, <2>1 DEF SampleAs, Calls
  <2>3. LayoutSoFar'
    BY <2>1, <2>2, SameFills DEF SampleAs
  <2> QED BY <2>1, <2>3 DEF SampleAs, LayoutBut36, Fits
<1>3. CASE Switch(t) \/ \E answer \in Answers : LoadAs(t, answer)
  <2>1. view' = view
    BY <1>3 DEF Switch, LoadAs
  <2> QED BY <1>3, <2>1, LoadLayout DEF LayoutBut36, Fits
<1>4. CASE Check(t)
  <2>1. (Goto(t, "send") \/ Goto(t, "idle")) /\ thread[t].pc = "check" /\ buf' = buf
    BY <1>4 DEF Check, At
  <2>2. /\ thread'[t].pc = "idle" \/ thread'[t] = [thread[t] EXCEPT !.pc = "send"]
        /\ \A u \in Threads : u # t => thread'[u] = thread[u]
    BY <1>1, <2>1 DEF Goto, Calls
  <2>3. LayoutSoFar'
    BY <2>1, <2>2, SameFills
  <2> QED BY <1>4, <2>3 DEF Check, LayoutBut36, Fits
<1>5. CASE SendReport(t)
  <2>1. thread'[t].pc = "copy" /\ \A u \in Threads : u # t => thread'[u] = thread[u]
    BY <1>1, <1>5 DEF SendReport, Goto, Calls
  <2>2. LayoutSoFar'
    BY <1>5, <2>1, SameFills DEF SendReport
  <2> QED BY <1>5, <2>2, SendLayout
<1>6. CASE CopyOld(t)
  <2>1. thread'[t].pc = "idle" /\ \A u \in Threads : u # t => thread'[u] = thread[u]
    BY <1>1, <1>6 DEF CopyOld, Goto, Calls
  <2>2. LayoutSoFar'
    BY <1>6, <2>1, SameFills DEF CopyOld
  <2> QED BY <1>6, <2>2 DEF CopyOld, LayoutBut36, Fits
<1>7. CASE SendFails(t)
  <2>1. thread'[t].pc = "copy" /\ \A u \in Threads : u # t => thread'[u] = thread[u]
    BY <1>1, <1>7 DEF SendFails, Goto, Calls
  <2>2. LayoutSoFar'
    BY <1>7, <2>1, SameFills DEF SendFails
  <2> QED BY <1>7, <2>2 DEF SendFails, LayoutBut36, Fits
<1> QED BY <1>2, <1>3, <1>4, <1>5, <1>6, <1>7, CallSteps

LEMMA OtherLayout ==
    ASSUME TypeInv, LayoutInv, [Next]_vars, ~\E t \in Threads : Core(t) \/ Fails(t)
    PROVE  LayoutSoFar' /\ LayoutBut36'
<1>1. thread \in [Threads -> Calls]
  BY DEF TypeInv, TypeOK, Calls, Places
<1>2. Idle.pc = "idle" /\ NoView.mode = "none"
  BY DEF Idle, NoView
<1>3. buf' = buf /\ (view' = view \/ view' = NoView)
  BY DEF Next, vars, World, Host, Main, Btc, Turn, Reset, Reopen, SetMode, Reads,
         PortBecomes, CameraBecomes, Threads
<1>4. \A t \in Threads : thread'[t].pc \notin {"load", "check", "send"}
                          \/ thread'[t] = thread[t]
  <2>1. CASE UNCHANGED thread
    BY <2>1
  <2>2. CASE Turn
    BY <1>1, <2>2 DEF Turn, Goto, Calls, Threads
  <2>3. CASE Reset
    BY <1>1, <2>3 DEF Reset, Goto, Calls, Threads
  <2>4. CASE Reopen
    BY <1>1, <1>2, <2>4 DEF Reopen, Calls, Threads
  <2>5. CASE \E m \in HostModes : SetMode(m)
    BY <1>1, <2>5 DEF SetMode, Goto, Calls, Threads
  <2> QED BY <2>1, <2>2, <2>3, <2>4, <2>5
          DEF Next, vars, World, Host, Main, Btc, Reads, PortBecomes, CameraBecomes, Threads
<1>5. LayoutSoFar'
  BY <1>3, <1>4, SameFills DEF LayoutInv
<1>6. LayoutBut36'
  BY <1>2, <1>3 DEF LayoutInv, LayoutBut36, Fits
<1> QED BY <1>5, <1>6

LEMMA InitLayout == Init => LayoutInv
<1> SUFFICES ASSUME Init PROVE LayoutInv
  OBVIOUS
<1>1. \A t \in Threads : thread[t].pc = "idle"
  BY DEF Init, Idle
<1>2. view.mode = "none"
  BY DEF Init, NoView
<1> QED BY <1>1, <1>2
        DEF LayoutInv, Alone, LayoutSoFar, FilledSoFar, LayoutBut36, At, Threads

\* Every byte of every report of a mode other than 36 comes from the sensor that
\* the comment on its case names, through any changes of mode, failed reads, plugs
\* and links, if the two threads do not overlap.
THEOREM ReportsAsDocumented ==
    ASSUME Overlap = FALSE
    PROVE  Spec => []LayoutBut36
<1>1. TypeInv /\ LayoutInv /\ [Next]_vars => TypeInv' /\ LayoutInv'
  <2> SUFFICES ASSUME TypeInv, LayoutInv, [Next]_vars PROVE TypeInv' /\ LayoutInv'
    OBVIOUS
  <2>1. LayoutSoFar' /\ LayoutBut36'
    BY CallLayout, OtherLayout
  <2>2. Alone'
    BY StepAlone DEF LayoutInv
  <2> QED BY <2>1, <2>2, StepTyped DEF LayoutInv
<1>2. LayoutInv => LayoutBut36
  BY DEF LayoutInv
<1> QED BY <1>1, <1>2, InitTyped, InitLayout, PTL DEF Spec

----------------------------------------------------------------------------
(***************************************************************************)
(* No report is sent twice, for calls that do not overlap. The check reads *)
(* core_input_report_old, the property speaks of the last report: they are *)
(* the same but while a report is sent and not yet copied, or after old    *)
(* was filled with FF, when a report is owed anyway, or after one that     *)
(* could not be sent was remembered.                                       *)
(***************************************************************************)
\* What is about to be sent differs from what is remembered.
NewAtSend ==
    \A t \in Threads :
        At(t, "send") => \E c \in Compared(thread[t].mode) : buf[c] # old[c]

\* A report that is still to be copied is the last one sent, if it could be.
CopiesView ==
    \A t \in Threads :
        At(t, "copy") /\ ~missed => /\ view.mode = thread[t].mode
                         /\ \A c \in Sent(thread[t].mode) : view.cells[c] = buf[c]

OldIsView ==
    (~owed /\ ~missed /\ view.mode # "none" /\ \A t \in Threads : ~At(t, "copy")) =>
        \A c \in Sent(view.mode) : view.cells[c] = old[c]

SilentInv == Alone /\ NewAtSend /\ CopiesView /\ OldIsView

\* No call is about to send a report or to remember it.
Away == \A t \in Threads : thread[t].pc \notin {"send", "copy"}

\* A step that leaves the last report and the remembered one alone, and takes no
\* thread to the places where a report is sent or away from the copy.
LEMMA SameSilent ==
    ASSUME SilentInv, view' = view, owed' = owed, missed' = missed, old' = old,
           buf' = buf \/ Away',
           \A t \in Threads :
               \/ thread'[t] = thread[t]
               \/ thread'[t].pc \notin {"send", "copy"} /\ thread[t].pc # "copy"
    PROVE  NewAtSend' /\ CopiesView' /\ OldIsView'
<1>1. NewAtSend'
  <2> SUFFICES ASSUME NEW t \in Threads, thread'[t].pc = "send"
               PROVE  \E c \in Compared(thread'[t].mode) : buf'[c] # old'[c]
    BY DEF NewAtSend, At
  <2>1. thread'[t] = thread[t] /\ buf' = buf
    BY DEF Away
  <2> QED BY <2>1 DEF SilentInv, NewAtSend, At
<1>2. CopiesView'
  <2> SUFFICES ASSUME NEW t \in Threads, thread'[t].pc = "copy", ~missed'
               PROVE  /\ view'.mode = thread'[t].mode
                      /\ \A c \in Sent(thread'[t].mode) : view'.cells[c] = buf'[c]
    BY DEF CopiesView, At
  <2>1. thread'[t] = thread[t] /\ buf' = buf
    BY DEF Away
  <2> QED BY <2>1 DEF SilentInv, CopiesView, At
<1>3. OldIsView'
  BY DEF SilentInv, OldIsView, At
<1> QED BY <1>1, <1>2, <1>3

\* Where nothing is about to be sent and nothing has been since old was filled, or
\* no link has carried a report, nothing need be remembered.
LEMMA AwaySilent ==
    ASSUME Away', owed' \/ view'.mode = "none"
    PROVE  NewAtSend' /\ CopiesView' /\ OldIsView'
BY DEF Away, NewAtSend, CopiesView, OldIsView, At

LEMMA CallSilent ==
    ASSUME TypeInv, SilentInv, NEW t \in Threads, Core(t) \/ Fails(t)
    PROVE  NewAtSend' /\ CopiesView' /\ OldIsView'
<1>1. thread \in [Threads -> Calls]
  BY DEF TypeInv, TypeOK, Calls, Places
<1>2. \A u \in Threads : u # t /\ thread[t].pc # "idle" => thread[u].pc = "idle"
  BY DEF SilentInv, Alone, At, Threads
<1>3. CASE \E v, ir \in Values : SampleAs(t, v, ir)
  <2>1. PICK v, ir \in Values : SampleAs(t, v, ir)
    BY <1>3
  <2>2. /\ thread'[t].pc = "switch" /\ thread[t].pc = "sample"
        /\ \A u \in Threads : u # t => thread'[u] = thread[u]
    BY <1>1, <2>1 DEF SampleAs, Calls, At
  <2> QED BY <2>1, <2>2, SameSilent DEF SampleAs
<1>4. CASE Switch(t)
  <2>1. /\ thread'[t].pc \in {"idle", "load"} /\ thread[t].pc = "switch"
        /\ \A u \in Threads : u # t => thread'[u] = thread[u]
    BY <1>4, SwitchStep DEF Switch, At
  <2> QED BY <1>4, <2>1, SameSilent DEF Switch
<1>5. CASE \E answer \in Answers : LoadAs(t, answer)
  <2>1. /\ thread'[t].pc \in {"check", "load"} /\ thread[t].pc = "load"
        /\ \A u \in Threads : u # t => thread'[u] = thread[u]
    BY <1>5, LoadStep DEF LoadAs, At
  <2>2. Away'
    BY <1>2, <2>1 DEF Away
  <2> QED BY <1>5, <2>1, <2>2, SameSilent DEF LoadAs
<1>6. CASE Check(t)
  <2>1. /\ thread[t].pc = "check" /\ buf' = buf /\ old' = old /\ view' = view /\ owed' = owed
        /\ missed' = missed /\ thread'[t].mode = thread[t].mode
        /\ \A u \in Threads : u # t => thread'[u] = thread[u]
        /\ \/ thread'[t].pc = "idle"
           \/ /\ thread'[t].pc = "send"
              /\ \E c \in Compared(thread[t].mode) : buf[c] # old[c]
    BY <1>1, <1>6 DEF Check, Goto, Calls, At
  <2>2. \A u \in Threads : u # t => thread'[u].pc = "idle"
    BY <1>2, <2>1
  <2>3. NewAtSend'
    BY <2>1, <2>2 DEF NewAtSend, At
  <2>4. CopiesView'
    BY <2>1, <2>2 DEF CopiesView, At
  <2>5. \A u \in Threads : thread[u].pc # "copy"
    BY <1>2, <2>1
  <2>6. OldIsView'
    BY <2>1, <2>5 DEF SilentInv, OldIsView, At
  <2> QED BY <2>3, <2>4, <2>6
<1>7. CASE SendReport(t)
  <2>1. /\ thread[t].pc = "send" /\ buf' = buf
        /\ thread'[t].mode = thread[t].mode /\ thread'[t].pc = "copy"
        /\ \A u \in Threads : u # t => thread'[u] = thread[u]
    BY <1>1, <1>7 DEF SendReport, Goto, Calls, At
  <2>2. /\ view'.mode = thread[t].mode
        /\ \A c \in Sent(thread[t].mode) : view'.cells[c] = buf[c]
    BY <1>7, SentCells DEF SendReport
  <2>3. \A u \in Threads : u # t => thread'[u].pc = "idle"
    BY <1>2, <2>1
  <2>4. NewAtSend'
    BY <2>1, <2>3 DEF NewAtSend, At
  <2>5. CopiesView'
    BY <2>1, <2>2, <2>3 DEF CopiesView, At
  <2>6. OldIsView'
    BY <2>1 DEF OldIsView, At
  <2> QED BY <2>4, <2>5, <2>6
<1>8. CASE CopyOld(t)
  <2>1. /\ thread[t].pc = "copy" /\ view' = view
        /\ thread'[t].pc = "idle" /\ \A u \in Threads : u # t => thread'[u] = thread[u]
    BY <1>1, <1>8 DEF CopyOld, Goto, Calls, At
  <2>2. \A u \in Threads : thread'[u].pc = "idle"
    BY <1>2, <2>1
  <2>3. ~missed => /\ view.mode = thread[t].mode
                   /\ \A c \in Sent(thread[t].mode) : view.cells[c] = buf[c]
    BY <2>1 DEF SilentInv, CopiesView, At
  <2>4. \A c \in Sent(thread[t].mode) : old'[c] = buf[c]
    BY <1>8, SentCells DEF CopyOld
  <2>5. missed' = missed
    BY <1>8 DEF CopyOld
  <2>6. OldIsView'
    BY <2>1, <2>3, <2>4, <2>5 DEF OldIsView
  <2> QED BY <2>2, <2>6 DEF NewAtSend, CopiesView, At
<1>9. CASE SendFails(t)
  <2>1. /\ thread[t].pc = "send" /\ thread'[t].pc = "copy" /\ missed' = TRUE
        /\ \A u \in Threads : u # t => thread'[u] = thread[u]
    BY <1>1, <1>9 DEF SendFails, Goto, Calls, At
  <2>2. \A u \in Threads : thread'[u].pc # "send"
    BY <1>2, <2>1
  <2> QED BY <2>1, <2>2 DEF NewAtSend, CopiesView, OldIsView, At
<1> QED BY <1>3, <1>4, <1>5, <1>6, <1>7, <1>8, <1>9, CallSteps

LEMMA OtherSilent ==
    ASSUME TypeInv, SilentInv, [Next]_vars, ~\E t \in Threads : Core(t) \/ Fails(t)
    PROVE  NewAtSend' /\ CopiesView' /\ OldIsView'
<1>1. thread \in [Threads -> Calls]
  BY DEF TypeInv, TypeOK, Calls, Places
<1>2. CASE UNCHANGED <<buf, old, thread, view, owed, missed>>
  BY <1>2, SameSilent
<1>3. CASE Turn
  <2>1. /\ thread'["main"].pc = "sample" /\ thread'["btc"] = thread["btc"]
        /\ thread["main"].pc = "idle"
    BY <1>1, <1>3 DEF Turn, Goto, Calls, Threads, At
  <2> QED BY <1>3, <2>1, SameSilent DEF Turn, Threads
<1>4. CASE Reset
  <2>1. /\ thread'["btc"].pc \in {"sample", "idle"} /\ thread'["main"] = thread["main"]
        /\ thread["btc"].pc # "idle"
    BY <1>1, <1>4 DEF Reset, Goto, Calls, Threads, At
  <2>2. Away'
    BY <2>1 DEF SilentInv, Alone, At, Threads, Away
  <2> QED BY <1>4, <2>2, AwaySilent DEF Reset
<1>5. CASE Reopen
  <2>1. thread'["main"].pc = "idle" /\ thread'["btc"].pc = "reopened"
    BY <1>1, <1>5 DEF Reopen, Calls, Threads, Idle
  <2>2. Away' /\ view'.mode = "none"
    BY <1>5, <2>1 DEF Away, Threads, Reopen, NoView
  <2> QED BY <2>2, AwaySilent
<1>6. CASE \E m \in HostModes : SetMode(m)
  <2>1. /\ thread'["btc"].pc = "reset" /\ thread'["main"] = thread["main"]
        /\ thread["btc"].pc = "idle"
    BY <1>1, <1>6 DEF SetMode, BtcMayStart, Goto, Calls, Threads, At
  <2> QED BY <1>6, <2>1, SameSilent DEF SetMode, Threads
<1> QED BY <1>2, <1>3, <1>4, <1>5, <1>6
        DEF Next, vars, World, Host, Main, Btc, Reads, PortBecomes, CameraBecomes, Threads

LEMMA InitSilent == Init => SilentInv
<1> SUFFICES ASSUME Init PROVE SilentInv
  OBVIOUS
<1>1. \A t \in Threads : thread[t].pc = "idle"
  BY DEF Init, Idle
<1>2. view.mode = "none"
  BY DEF Init, NoView
<1> QED BY <1>1, <1>2 DEF SilentInv, Alone, NewAtSend, CopiesView, OldIsView, At, Threads

\* A report is only sent if it differs from the last one that this link has
\* carried, in its mode or in a byte, or if the host has just asked for a mode, or
\* if the one remembered could not be sent, if the two threads do not overlap.
THEOREM NothingSentTwice ==
    ASSUME Overlap = FALSE
    PROVE  Spec => SilentWhenUnchanged
<1>1. TypeInv /\ SilentInv /\ [Next]_vars => TypeInv' /\ SilentInv'
  <2> SUFFICES ASSUME TypeInv, SilentInv, [Next]_vars PROVE TypeInv' /\ SilentInv'
    OBVIOUS
  <2>1. NewAtSend' /\ CopiesView' /\ OldIsView'
    BY CallSilent, OtherSilent
  <2>2. Alone'
    BY StepAlone DEF SilentInv
  <2> QED BY <2>1, <2>2, StepTyped DEF SilentInv
<1>2. TypeInv /\ SilentInv /\ [Next]_vars =>
          [\A t \in Threads :
              (SendReport(t) /\ thread[t].mode # "33")
              => (owed \/ missed \/ view' # view)]_vars
  <2> SUFFICES ASSUME TypeInv, SilentInv, NEW t \in Threads, SendReport(t),
                      thread[t].mode # "33", ~owed, ~missed, view' = view
               PROVE  FALSE
    OBVIOUS
  <2>1. /\ view'.mode = thread[t].mode /\ thread[t].pc = "send"
        /\ \A c \in Sent(thread[t].mode) : view'.cells[c] = buf[c]
    BY SentCells DEF SendReport, At
  <2>2. view.mode # "none"
    BY <2>1 DEF TypeInv, TypeOK, Modes
  <2>3. \A u \in Threads : ~At(u, "copy")
    BY <2>1 DEF SilentInv, Alone, At, Threads
  <2>4. \A c \in Sent(thread[t].mode) : view.cells[c] = old[c]
    BY <2>1, <2>2, <2>3 DEF SilentInv, OldIsView
  <2>5. \E c \in Sent(thread[t].mode) : buf[c] # old[c]
    BY <2>1 DEF SilentInv, NewAtSend, Compared, At
  <2> QED BY <2>1, <2>4, <2>5
<1> QED BY <1>1, <1>2, InitTyped, InitSilent, PTL DEF Spec, SilentWhenUnchanged

----------------------------------------------------------------------------
(***************************************************************************)
(* One quiet turn is enough, for calls that do not overlap: from the start *)
(* of a turn of the HID loop, while no setting or reading changes and no   *)
(* read fails, each step of the threads brings the host closer to what the *)
(* sensors read, and where the turn is over the host has it. This is what  *)
(* NoChangeLost needs besides fairness.                                    *)
(***************************************************************************)
\* A call works on the mode that is set.
OfMode == \A t \in Threads :
    thread[t].pc \in {"load", "check", "send", "copy"} => thread[t].mode = mode

\* While a report is owed nothing is remembered, else the last one was of the mode
\* that is set, unless it could not be sent or the host is just changing the mode.
Owing == /\ owed => old = AllFF /\ \A t \in Threads : ~At(t, "copy")
         /\ thread["btc"].pc \in {"reset", "reopened"} \/ owed \/ missed \/ view.mode = mode

QuietInv == SilentInv /\ OfMode /\ Owing

\* A load whose cells the host need not see: the port alternates or gives nothing.
AsItWas(load) == /\ load.source = "port"
                 /\ port \in {"passthrough", "passthrough_empty", "unsupported"}

\* What a load fills a cell with if all sensors are read now.
Shown(load, c) == Filling(load, c, sensor["buttons"], sensor["accel"], sensor["ir"], Answer)

\* The loads that thread t has done; the cells they filled last are as the sensors
\* read.
Done(t) == 1..(Len(Loads[thread[t].mode]) - thread[t].left)
Fresh(t) ==
    \A i \in Done(t) : \A c \in Loads[thread[t].mode][i].cells :
        \/ \E j \in Done(t) : i < j /\ c \in Loads[thread[t].mode][j].cells
        \/ AsItWas(Loads[thread[t].mode][i])
        \/ buf[c] = Shown(Loads[thread[t].mode][i], c)

Sampled(call) == /\ call.buttons = sensor["buttons"] /\ call.accel = sensor["accel"]
                 /\ raw = sensor["ir"]

\* The host has what the sensors read, or the report of it could not be sent.
Told == mode \in {"3d", "3e"} \/ missed \/ UpToDate

\* How far the main thread has come in telling the host.
TellingAt(pc) ==
    CASE pc = "sample" -> array = sensor["buttons"]
      [] pc = "switch" -> Sampled(thread["main"])
      [] pc = "load"   -> Sampled(thread["main"]) /\ Fresh("main")
      [] pc = "check"  -> Fresh("main")
      [] pc = "send"   -> Fresh("main")
      [] OTHER         -> Told
Telling == At("btc", "idle") /\ TellingAt(thread["main"].pc)

\* Nothing but buf and interleave changes: what is to be shown stays.
LEMMA StillShown ==
    ASSUME NEW load, NEW c, port' = port, sensor' = sensor, camera' = camera,
           port \in Ports
    PROVE  /\ AsItWas(load)' <=> AsItWas(load)
           /\ ~AsItWas(load) => Shown(load, c)' = Shown(load, c)
<1>1. AsItWas(load)' <=> AsItWas(load)
  BY DEF AsItWas
<1>2. ASSUME ~AsItWas(load) PROVE Shown(load, c)' = Shown(load, c)
  <2>1. CASE load.source # "port"
    BY <2>1 DEF Shown, Filling
  <2>2. CASE load.source = "port"
    <3>1. port \in {"empty", "extension", "motionplus"}
      BY <1>2, <2>2 DEF AsItWas, Ports
    <3>2. Answer \in {"nobody", "extension", "gyro"} /\ Answer' = Answer
      BY <3>1 DEF Answer
    <3> QED BY <2>2, <3>2 DEF Shown, Filling
  <2> QED BY <2>1, <2>2
<1> QED BY <1>1, <1>2

LEMMA StillTold ==
    ASSUME Told, port' = port, sensor' = sensor, camera' = camera, mode' = mode,
           view' = view, missed' = missed, port \in Ports
    PROVE  Told'
<1>1. \A load, c : /\ AsItWas(load)' <=> AsItWas(load)
                   /\ ~AsItWas(load) => Shown(load, c)' = Shown(load, c)
  BY StillShown
<1>2. CASE mode \in {"3d", "3e"} \/ missed
  BY <1>2 DEF Told
<1>3. CASE UpToDate
  BY <1>1, <1>3 DEF Told, UpToDate, AsItWas, Shown
<1> QED BY <1>2, <1>3 DEF Told

\* The last of a few loads.
LEMMA SomeLast ==
    ASSUME NEW S \in SUBSET (1..4), S # {}
    PROVE  \E i \in S : \A j \in S : j <= i
<1>0. S \subseteq {1, 2, 3, 4}
  OBVIOUS
<1>1. CASE 4 \in S
  BY <1>0, <1>1
<1>2. CASE 4 \notin S /\ 3 \in S
  BY <1>0, <1>2
<1>3. CASE 4 \notin S /\ 3 \notin S /\ 2 \in S
  BY <1>0, <1>3
<1>4. CASE 4 \notin S /\ 3 \notin S /\ 2 \notin S
  <2>1. S = {1}
    BY <1>0, <1>4
  <2> QED BY <2>1
<1> QED BY <1>1, <1>2, <1>3, <1>4

\* Last is the load that no later one of the case covers.
LEMMA LastIs ==
    ASSUME NEW m \in Modes, NEW c \in Filled(m)
    PROVE  \E i \in 1..Len(Loads[m]) :
               /\ Last(m, c) = Loads[m][i] /\ c \in Loads[m][i].cells
               /\ \A j \in 1..Len(Loads[m]) : c \in Loads[m][j].cells => j <= i
<1> DEFINE S == {i \in 1..Len(Loads[m]) : c \in Loads[m][i].cells}
           IsLast(i) == i \in S /\ \A j \in S : j <= i
<1>1. Loads[m] \in Seq(LoadRecords) /\ Len(Loads[m]) \in 0..4
  BY LoadsTyped
<1>2. DOMAIN Loads[m] = 1..Len(Loads[m])
  BY <1>1
<1>3. S \in SUBSET (1..4) /\ S # {}
  <2>1. \A n \in 0..4 : 1..n \subseteq 1..4
    OBVIOUS
  <2> QED BY <1>1, <1>2, <2>1 DEF Filled
<1>4. \E i : IsLast(i)
  BY <1>3, SomeLast, Zenon
<1>5. Last(m, c) = Loads[m][CHOOSE i \in S : \A j \in S : j <= i]
  <2>1. (CHOOSE i \in DOMAIN Loads[m] :
            /\ c \in Loads[m][i].cells
            /\ \A j \in DOMAIN Loads[m] : c \in Loads[m][j].cells => j <= i)
        = CHOOSE i \in S : \A j \in S : j <= i
    BY <1>2
  <2> QED BY <2>1 DEF Last
<1>6. IsLast(CHOOSE i \in S : \A j \in S : j <= i)
  BY <1>4
<1> QED BY <1>5, <1>6

\* A call that is done with its loads has the whole report as the sensors read.
LEMMA AllShown ==
    ASSUME TypeInv, NEW t \in Threads, Fresh(t), thread[t].pc \in {"check", "send"},
           NEW c \in Filled(thread[t].mode)
    PROVE  LET load == Last(thread[t].mode, c)
           IN  AsItWas(load) \/ buf[c] = Shown(load, c)
<1> DEFINE m == thread[t].mode
<1>1. m \in Modes /\ thread[t].left = 0 /\ Len(Loads[m]) \in 0..4
  BY LoadsTyped DEF TypeInv, TypeOK, InCase
<1>2. Done(t) = 1..Len(Loads[m])
  <2>1. \A n \in 0..4 : n - 0 = n
    OBVIOUS
  <2> QED BY <1>1, <2>1 DEF Done
<1>3. PICK i \in 1..Len(Loads[m]) :
               /\ Last(m, c) = Loads[m][i] /\ c \in Loads[m][i].cells
               /\ \A j \in 1..Len(Loads[m]) : c \in Loads[m][j].cells => j <= i
  BY <1>1, LastIs
<1>4. ~\E j \in Done(t) : i < j /\ c \in Loads[m][j].cells
  <2>1. \A j \in 1..Len(Loads[m]) : j <= i => ~(i < j)
    BY <1>1
  <2> QED BY <1>2, <1>3, <2>1
<1> QED BY <1>2, <1>3, <1>4 DEF Fresh

\* Every report but 3d shows the buttons in its first byte.
LEMMA ButtonsShown ==
    ASSUME NEW m \in Modes \ {"3d", "3e"}
    PROVE  0 \in Filled(m) /\ Last(m, 0).source = "buttons"
<1>1. \A load \in {Accel, Load("port", 2, 8), Load("port", 2, 19), Load("port", 5, 16),
                   Load("port", 12, 9), Load("port", 15, 6), Load("ir_basic", 5, 10),
                   Load("ir_extended", 5, 12)} : 0 \notin load.cells
  BY AccelIs DEF Load, Within, Cells
<1> DEFINE ButtonsFirst(loads) ==
               /\ Len(loads) \in 1..4 /\ loads[1] = Buttons
               /\ \A i \in 1..Len(loads) : i = 1 \/ 0 \notin loads[i].cells
<1>2. ButtonsFirst(Loads[m])
  <2> DEFINE Elsewhere(load) == 0 \notin load.cells
  <2>1. \A a : Elsewhere(a) =>
            ButtonsFirst(<<Buttons>>) /\ ButtonsFirst(<<Buttons, a>>)
    OBVIOUS
  <2>2. \A a, b : Elsewhere(a) /\ Elsewhere(b) => ButtonsFirst(<<Buttons, a, b>>)
    OBVIOUS
  <2>3. \A a, b, c : Elsewhere(a) /\ Elsewhere(b) /\ Elsewhere(c) =>
            ButtonsFirst(<<Buttons, a, b, c>>)
    OBVIOUS
  <2>4. /\ Elsewhere(Accel)
        /\ Elsewhere(Load("port", 2, 8)) /\ Elsewhere(Load("port", 2, 19))
        /\ Elsewhere(Load("port", 5, 16)) /\ Elsewhere(Load("port", 12, 9))
        /\ Elsewhere(Load("port", 15, 6)) /\ Elsewhere(Load("ir_basic", 5, 10))
        /\ Elsewhere(Load("ir_extended", 5, 12))
    BY <1>1
  <2> HIDE DEF ButtonsFirst, Elsewhere
  <2>5. ButtonsFirst(Loads["30"]) /\ ButtonsFirst(Loads["31"])
    BY <2>1, <2>4, CasesOfSwitch
  <2>6. ButtonsFirst(Loads["32"]) /\ ButtonsFirst(Loads["34"])
    BY <2>1, <2>4, CasesOfSwitch
  <2>7. ButtonsFirst(Loads["33"]) /\ ButtonsFirst(Loads["35"]) /\ ButtonsFirst(Loads["36"])
    BY <2>2, <2>4, CasesOfSwitch
  <2>8. ButtonsFirst(Loads["37"])
    BY <2>3, <2>4, CasesOfSwitch
  <2> QED BY <2>5, <2>6, <2>7, <2>8 DEF Modes
<1>3. 0 \in Sent(m)
  BY CellsWithin DEF Sent, Cells
<1>4. 0 \in Filled(m)
  <2>1. DOMAIN Loads[m] = 1..Len(Loads[m])
    BY LoadsTyped
  <2> QED BY <1>2, <1>3, <2>1, ButtonsAre DEF Filled
<1>5. PICK i \in 1..Len(Loads[m]) : Last(m, 0) = Loads[m][i] /\ 0 \in Loads[m][i].cells
  BY <1>4, LastIs
<1> QED BY <1>2, <1>4, <1>5, ButtonsAre

LEMMA CallQuiet ==
    ASSUME TypeInv, QuietInv, NEW t \in Threads, Core(t) \/ Fails(t)
    PROVE  OfMode' /\ Owing'
<1> USE DEF QuietInv
<1>1. thread \in [Threads -> Calls]
  BY DEF TypeInv, TypeOK, Calls, Places
<1>2. \A u \in Threads : u # t /\ thread[t].pc # "idle" => thread[u].pc = "idle"
  BY DEF SilentInv, Alone, At, Threads
\* What follows for a step that says this of the threads.
<1> DEFINE MovesTo(places) ==
               /\ thread[t].pc \notin {"idle", "reset", "reopened"} /\ thread'[t].pc \in places
               /\ \A u \in Threads : u # t => thread'[u] = thread[u]
<1>3. ASSUME MovesTo(Places \ {"copy"}), thread[t].pc # "copy", old' = old, owed' = owed,
             missed' = missed, view' = view, mode' = mode
      PROVE  Owing'
  <2>1. \A u \in Threads : thread'[u].pc # "copy"
    BY <1>2, <1>3
  <2>2. thread["btc"].pc \in {"reset", "reopened"} => t # "btc"
    BY <1>3
  <2>3. thread["btc"].pc \in {"reset", "reopened"} => thread'["btc"].pc \in {"reset", "reopened"}
    BY <1>3, <2>2 DEF Threads
  <2> QED BY <1>3, <2>1, <2>3 DEF Owing, At
<1>4. ASSUME MovesTo({"load", "check", "send", "copy", "idle"}), mode' = mode,
             thread'[t].pc = "idle" \/ thread'[t].mode = mode
      PROVE  OfMode'
  BY <1>4 DEF OfMode
<1>5. CASE \E v, ir \in Values : SampleAs(t, v, ir)
  <2>1. PICK v, ir \in Values : SampleAs(t, v, ir)
    BY <1>5
  <2>2. /\ thread'[t].pc = "switch" /\ thread[t].pc = "sample"
        /\ \A u \in Threads : u # t => thread'[u] = thread[u]
    BY <1>1, <2>1 DEF SampleAs, Calls, At
  <2>3. OfMode'
    BY <2>1, <2>2 DEF OfMode, SampleAs
  <2> QED BY <2>1, <2>2, <2>3, <1>3 DEF SampleAs, Places
<1>6. CASE Switch(t)
  <2>1. /\ thread'[t].pc \in {"idle", "load"} /\ thread[t].pc = "switch"
        /\ thread'[t].mode = mode
        /\ \A u \in Threads : u # t => thread'[u] = thread[u]
    BY <1>6, SwitchStep DEF Switch, At
  <2> QED BY <1>6, <2>1, <1>3, <1>4 DEF Switch, Places
<1>7. CASE \E answer \in Answers : LoadAs(t, answer)
  <2>1. /\ thread'[t].pc \in {"check", "load"} /\ thread[t].pc = "load"
        /\ thread'[t].mode = thread[t].mode
        /\ \A u \in Threads : u # t => thread'[u] = thread[u]
    BY <1>7, LoadStep DEF LoadAs, At
  <2>2. thread[t].mode = mode
    BY <2>1 DEF OfMode
  <2> QED BY <1>7, <2>1, <2>2, <1>3, <1>4 DEF LoadAs, Places
<1>8. CASE Check(t) \/ SendReport(t) \/ SendFails(t) \/ CopyOld(t)
  <2>1. PICK pc \in {"idle", "send", "copy"} : Goto(t, pc)
    BY <1>8 DEF Check, SendReport, SendFails, CopyOld
  <2>2. /\ thread'[t].pc = pc /\ thread'[t].mode = thread[t].mode
        /\ \A u \in Threads : u # t => thread'[u] = thread[u]
    BY <1>1, <2>1 DEF Goto, Calls
  <2>3. thread[t].pc \in {"check", "send", "copy"} /\ mode' = mode
    BY <1>8 DEF Check, SendReport, SendFails, CopyOld, At
  <2>4. thread[t].mode = mode
    BY <2>3 DEF OfMode
  <2>5. OfMode'
    BY <2>2, <2>3, <2>4, <1>4
  <2>6. CASE Check(t)
    <3>1. Goto(t, "idle") \/ Goto(t, "send")
      BY <2>6 DEF Check
    <3>2. thread'[t].pc \in {"idle", "send"}
      BY <1>1, <3>1 DEF Goto, Calls
    <3>3. thread[t].pc = "check"
      BY <2>6 DEF Check, At
    <3> QED BY <2>2, <2>5, <2>6, <3>2, <3>3, <1>3 DEF Check, Places
  <2>7. CASE SendReport(t)
    <3>1. owed' = FALSE /\ view'.mode = mode
      BY <2>4, <2>7 DEF SendReport
    <3> QED BY <2>3, <2>5, <3>1 DEF Owing
  <2>8. CASE CopyOld(t)
    <3>1. ~owed /\ thread[t].pc = "copy"
      BY <2>8 DEF Owing, CopyOld, At
    <3>2. owed' = owed /\ missed' = missed /\ view' = view
      BY <2>8 DEF CopyOld
    <3>3. thread["btc"].pc \notin {"reset", "reopened"}
      BY <1>2, <3>1 DEF Threads
    <3> QED BY <2>3, <2>5, <3>1, <3>2, <3>3 DEF Owing
  <2>9. CASE SendFails(t)
    <3>1. owed' = FALSE /\ missed' = TRUE
      BY <2>9 DEF SendFails
    <3> QED BY <2>5, <3>1 DEF Owing
  <2> QED BY <1>8, <2>6, <2>7, <2>8, <2>9
<1> QED BY <1>5, <1>6, <1>7, <1>8, CallSteps

LEMMA OtherQuiet ==
    ASSUME TypeInv, QuietInv, Overlap = FALSE, [Next]_vars,
           ~\E t \in Threads : Core(t) \/ Fails(t)
    PROVE  OfMode' /\ Owing'
<1> USE DEF QuietInv
<1>1. thread \in [Threads -> Calls]
  BY DEF TypeInv, TypeOK, Calls, Places
<1>2. CASE UNCHANGED <<mode, old, thread, view, owed, missed>>
  BY <1>2 DEF OfMode, Owing, At
<1>3. CASE Turn
  <2>1. thread'["main"].pc = "sample" /\ thread'["btc"] = thread["btc"]
    BY <1>1, <1>3 DEF Turn, Goto, Calls, Threads
  <2> QED BY <1>3, <2>1 DEF Turn, world, OfMode, Owing, At, Threads
<1>4. CASE Reset
  <2>1. /\ thread'["btc"].pc \in {"sample", "idle"} /\ thread'["main"] = thread["main"]
        /\ thread["btc"].pc # "idle"
    BY <1>1, <1>4 DEF Reset, Goto, Calls, Threads, At
  <2>2. thread["main"].pc = "idle"
    BY <2>1 DEF SilentInv, Alone, At, Threads
  <2> QED BY <1>4, <2>1, <2>2 DEF Reset, OfMode, Owing, At, Threads
<1>5. CASE Reopen
  <2>1. /\ thread'["main"].pc = "idle" /\ thread'["btc"].pc = "reopened"
        /\ owed' = owed /\ old' = old
    BY <1>1, <1>5 DEF Reopen, Calls, Threads, Idle
  <2> QED BY <2>1 DEF OfMode, Owing, At, Threads
<1>6. CASE \E m \in HostModes : SetMode(m)
  <2>1. /\ thread'["btc"].pc = "reset" /\ thread'["main"] = thread["main"]
        /\ thread["main"].pc = "idle" /\ owed' = owed /\ old' = old
    BY <1>1, <1>6 DEF SetMode, BtcMayStart, Goto, Calls, Threads, At
  <2> QED BY <2>1 DEF OfMode, Owing, At, Threads
<1> QED BY <1>2, <1>3, <1>4, <1>5, <1>6
        DEF Next, vars, World, Host, Main, Btc, Reads, PortBecomes, CameraBecomes, Threads

LEMMA InitQuiet == Init => QuietInv
<1> SUFFICES ASSUME Init PROVE QuietInv
  OBVIOUS
<1>1. \A t \in Threads : thread[t].pc = "idle"
  BY DEF Init, Idle
<1>2. owed /\ old = AllFF
  BY DEF Init
<1> QED BY <1>1, <1>2, InitSilent DEF QuietInv, OfMode, Owing, At

LEMMA StepQuiet ==
    ASSUME Overlap = FALSE, TypeInv, QuietInv, [Next]_vars
    PROVE  QuietInv'
<1>1. NewAtSend' /\ CopiesView' /\ OldIsView'
  BY CallSilent, OtherSilent DEF QuietInv
<1>2. Alone'
  BY StepAlone DEF QuietInv, SilentInv
<1> QED BY <1>1, <1>2, CallQuiet, OtherQuiet DEF QuietInv, SilentInv

\* What a buffer must hold after a step that leaves the sensors alone.
LEMMA FreshAfter ==
    ASSUME NEW t \in Threads, NEW m, NEW n,
           thread'[t].mode = m, Len(Loads[m]) - thread'[t].left = n,
           port' = port, sensor' = sensor, camera' = camera, port \in Ports,
           \A i \in 1..n : \A c \in Loads[m][i].cells :
               \/ \E j \in 1..n : i < j /\ c \in Loads[m][j].cells
               \/ AsItWas(Loads[m][i])
               \/ buf'[c] = Shown(Loads[m][i], c)
    PROVE  Fresh(t)'
<1>1. Done(t)' = 1..n
  BY DEF Done
<1>2. \A load, c : /\ AsItWas(load)' <=> AsItWas(load)
                   /\ ~AsItWas(load) => Shown(load, c)' = Shown(load, c)
  BY StillShown
<1>3. \A i \in 1..n : \A c \in Loads[m][i].cells :
          \/ \E j \in 1..n : i < j /\ c \in Loads[m][j].cells
          \/ AsItWas(Loads[m][i])'
          \/ buf'[c] = Shown(Loads[m][i], c)'
  BY <1>2
<1> QED BY <1>1, <1>3 DEF Fresh, AsItWas, Shown

\* One load that succeeds, from what was sampled as the sensors read.
LEMMA LoadsFresh ==
    ASSUME TypeInv, NEW t \in Threads, LoadNext(t), Sampled(thread[t]), Fresh(t)
    PROVE  Fresh(t)'
<1> DEFINE m == thread[t].mode
           n == Len(Loads[m])
           l == thread[t].left
           i == n + 1 - l
<1>1. /\ m \in Modes /\ l \in 1..4 /\ i \in 1..n /\ n \in 0..4
      /\ Upcoming(t) = Loads[m][i]
  BY UpcomingIs DEF LoadNext, LoadAs
<1>2. thread'[t].mode = m /\ thread'[t].left = l - 1
  BY LoadStep, AnswersTyped DEF LoadNext
<1>3. Done(t) = 1..(i - 1) /\ Done(t)' = 1..i
  <2>1. n - l = i - 1 /\ n - (l - 1) = i
    <3> HIDE DEF n, l
    <3> QED BY <1>1
  <2> QED BY <1>2, <2>1 DEF Done
<1>4. UNCHANGED <<port, sensor, camera>> /\ port \in Ports
  BY DEF LoadNext, LoadAs, TypeInv, TypeOK
<1>5. ASSUME NEW k \in 1..i, NEW c \in Loads[m][k].cells
      PROVE  \/ \E j \in 1..i : k < j /\ c \in Loads[m][j].cells
             \/ AsItWas(Loads[m][k])
             \/ buf'[c] = Shown(Loads[m][k], c)
  <2>0. c \in Cells
    <3>1. Loads[m] \in Seq(LoadRecords) /\ k \in 1..n
      <4> HIDE DEF m, i
      <4> QED BY <1>1, LoadsTyped
    <3>2. Loads[m][k] \in LoadRecords
      <4> HIDE DEF m
      <4> QED BY <3>1
    <3> QED BY <3>2 DEF LoadRecords
  <2>1. CASE k = i
    <3>1. buf'[c] = Filling(Upcoming(t), c, thread[t].buttons, thread[t].accel, raw, Answer)
      BY <1>1, <2>0, <2>1 DEF LoadNext, LoadAs
    <3>2. buf'[c] = Shown(Loads[m][k], c)
      BY <1>1, <2>1, <3>1 DEF Sampled, Shown
    <3> QED BY <3>2
  <2>2. CASE k # i /\ c \in Loads[m][i].cells
    <3>1. k < i /\ i \in 1..i
      <4> HIDE DEF i
      <4> QED BY <1>1, <2>2
    <3> QED BY <2>2, <3>1
  <2>3. CASE k # i /\ c \notin Loads[m][i].cells
    <3>1. k \in 1..(i - 1) /\ \A j \in 1..(i - 1) : j \in 1..i
      <4> HIDE DEF i
      <4> QED BY <1>1, <2>3
    <3>2. buf'[c] = buf[c]
      BY <1>1, <2>0, <2>3 DEF LoadNext, LoadAs
    <3>3. \/ \E j \in 1..(i - 1) : k < j /\ c \in Loads[m][j].cells
          \/ AsItWas(Loads[m][k])
          \/ buf[c] = Shown(Loads[m][k], c)
      BY <1>3, <3>1 DEF Fresh
    <3> QED BY <3>1, <3>2, <3>3
  <2> QED BY <2>1, <2>2, <2>3
<1>6. Len(Loads[m]) - (l - 1) = i
  <2>1. n - (l - 1) = i
    <3> HIDE DEF n, l
    <3> QED BY <1>1
  <2> QED BY <2>1
<1> QED
  <2> HIDE DEF m, n, l, i
  <2> QED BY <1>2, <1>4, <1>5, <1>6, FreshAfter

\* The check of a fresh report: if it is not new the host has it.
LEMMA CheckTells ==
    ASSUME TypeInv, QuietInv, Telling, Check("main")
    PROVE  Telling'
<1> DEFINE m == thread["main"].mode
<1>1. thread["main"].pc = "check" /\ thread["btc"].pc = "idle" /\ "main" \in Threads
  BY DEF Check, Telling, At, Threads
<1>2. Fresh("main") /\ m = mode /\ mode \in Modes \ {"3e"}
  BY <1>1 DEF Telling, TellingAt, QuietInv, OfMode, TypeInv, TypeOK, InCase
<1>3. thread \in [Threads -> Calls]
  BY DEF TypeInv, TypeOK, Calls, Places
<1>4. UNCHANGED <<port, sensor, camera, mode, buf, interleave, view, old, owed, missed>>
  BY DEF Check, world
<1>5. CASE Goto("main", "send")
  <2>1. /\ thread'["main"].pc = "send" /\ thread'["main"].mode = m
        /\ thread'["main"].left = thread["main"].left /\ thread'["btc"] = thread["btc"]
    BY <1>3, <1>5 DEF Goto, Calls, Threads
  <2>2. Fresh("main")'
    <3> DEFINE n == Len(Loads[m]) - thread["main"].left
    <3>1. \A i \in 1..n : \A c \in Loads[m][i].cells :
              \/ \E j \in 1..n : i < j /\ c \in Loads[m][j].cells
              \/ AsItWas(Loads[m][i])
              \/ buf'[c] = Shown(Loads[m][i], c)
      BY <1>2, <1>4 DEF Fresh, Done
    <3>2. Len(Loads[m]) - thread'["main"].left = n
      BY <2>1
    <3>3. port \in Ports
      BY DEF TypeInv, TypeOK
    <3> HIDE DEF m, n
    <3> QED BY <1>1, <1>4, <2>1, <3>1, <3>2, <3>3, FreshAfter
  <2> QED BY <1>1, <2>1, <2>2 DEF Telling, TellingAt, At
<1>6. CASE Goto("main", "idle") /\ \A c \in Compared(m) : buf[c] = old[c]
  <2>1. thread'["main"].pc = "idle" /\ thread'["btc"] = thread["btc"]
    BY <1>3, <1>6 DEF Goto, Calls, Threads
  <2>2. ASSUME mode # "3d", ~missed PROVE UpToDate
    <3>1. \A c \in Filled(m) : LET load == Last(m, c)
                               IN  AsItWas(load) \/ buf[c] = Shown(load, c)
      BY <1>1, <1>2, AllShown
    <3>2. ~owed
      <4>1. 0 \in Filled(m) /\ Last(m, 0).source = "buttons"
        BY <1>2, <2>2, ButtonsShown
      <4>2. buf[0] = Of("buttons", sensor["buttons"])
        BY <3>1, <4>1 DEF AsItWas, Shown, Filling
      <4>3. buf[0] # AllFF[0]
        BY <4>2 DEF AllFF, Of, Fixed, Cells
      <4>4. 0 \in Compared(m)
        BY CellsWithin DEF Compared, Sent, Cells
      <4> QED BY <1>6, <4>3, <4>4 DEF QuietInv, Owing
    <3>3. view.mode = mode /\ view.mode # "none"
      BY <1>1, <1>2, <2>2, <3>2 DEF QuietInv, Owing, Modes
    <3>4. \A u \in Threads : ~At(u, "copy")
      BY <1>1 DEF At, Threads
    <3>5. \A c \in Sent(m) : view.cells[c] = old[c]
      BY <1>2, <2>2, <3>2, <3>3, <3>4 DEF QuietInv, SilentInv, OldIsView
    <3>6. Filled(m) \subseteq Sent(m) /\ Sent(m) \subseteq Compared(m)
      BY SentCells, CellsWithin DEF Filled, Compared
    <3>7. \A c \in Filled(m) : view.cells[c] = buf[c]
      BY <1>6, <3>5, <3>6
    <3> QED BY <1>2, <3>1, <3>3, <3>7 DEF UpToDate, AsItWas, Shown
  <2>3. Told'
    BY <1>4, <2>2, StillTold DEF Told, TypeInv, TypeOK
  <2> QED BY <1>1, <2>1, <2>3 DEF Telling, TellingAt, At
<1> QED BY <1>5, <1>6 DEF Check

LEMMA SendTells ==
    ASSUME TypeInv, QuietInv, Telling, SendReport("main")
    PROVE  Telling'
<1> DEFINE m == thread["main"].mode
<1>1. thread["main"].pc = "send" /\ thread["btc"].pc = "idle" /\ "main" \in Threads
  BY DEF SendReport, Telling, At, Threads
<1>2. Fresh("main") /\ m = mode
  BY <1>1 DEF Telling, TellingAt, QuietInv, OfMode
<1>3. thread'["main"].pc = "copy" /\ thread'["btc"] = thread["btc"]
  BY <1>1 DEF SendReport, Goto, TypeInv, TypeOK, Threads
<1>4. UNCHANGED <<port, sensor, camera, mode, buf, interleave>>
  BY DEF SendReport, world
<1>5. \A c \in Filled(m) : LET load == Last(m, c)
                           IN  AsItWas(load) \/ buf[c] = Shown(load, c)
  BY <1>1, <1>2, AllShown
<1>6. view'.mode = m /\ \A c \in Filled(m) : view'.cells[c] = buf[c]
  BY SentCells DEF SendReport, Filled
<1>7. \A load, c : (AsItWas(load)' <=> AsItWas(load)) /\ Shown(load, c)' = Shown(load, c)
  BY <1>4 DEF AsItWas, Shown, Filling, Answer
<1>8. UpToDate'
  BY <1>2, <1>4, <1>5, <1>6, <1>7 DEF UpToDate, AsItWas, Shown
<1> QED BY <1>1, <1>3, <1>8 DEF Telling, TellingAt, Told, At

LEMMA CallTells ==
    ASSUME TypeInv, QuietInv, Telling, Core("main")
    PROVE  Telling'
<1>0. "main" \in Threads /\ "btc" \in Threads /\ thread["btc"].pc = "idle"
  BY DEF Telling, At, Threads
<1>1. thread \in [Threads -> Calls] /\ port \in Ports
  BY DEF TypeInv, TypeOK, Calls, Places
<1>2. CASE Sample("main")
  <2>1. thread["main"].pc = "sample" /\ array = sensor["buttons"]
    BY <1>2 DEF Sample, SampleAs, At, Telling, TellingAt
  <2>2. /\ thread'["main"].pc = "switch" /\ thread'["main"].buttons = array
        /\ thread'["main"].accel = sensor["accel"] /\ thread'["btc"] = thread["btc"]
        /\ raw' = sensor["ir"] /\ sensor' = sensor
    BY <1>0, <1>1, <1>2 DEF Sample, SampleAs, Calls
  <2>3. Sampled(thread["main"])'
    BY <2>1, <2>2 DEF Sampled
  <2> QED BY <1>0, <2>2, <2>3 DEF Telling, TellingAt, At
<1>3. CASE Switch("main")
  <2>1. /\ thread'["main"].pc = IF mode = "3e" THEN "idle" ELSE "load"
        /\ thread'["main"].mode = mode /\ mode \in Modes
        /\ thread'["main"].left = Len(Loads[mode]) /\ thread'["btc"] = thread["btc"]
    BY <1>0, <1>3, SwitchStep
  <2>2. /\ thread'["main"].buttons = thread["main"].buttons
        /\ thread'["main"].accel = thread["main"].accel
        /\ raw' = raw /\ sensor' = sensor /\ mode' = mode
    BY <1>0, <1>1, <1>3 DEF Switch, world, Calls
  <2>3. Sampled(thread["main"])
    BY <1>3 DEF Switch, At, Telling, TellingAt
  <2>4. Sampled(thread["main"])'
    BY <2>2, <2>3 DEF Sampled
  <2>5. Done("main")' = {}
    <3>1. \A n \in 0..4 : 1..(n - n) = {}
      OBVIOUS
    <3> QED BY <2>1, <3>1, LoadsTyped DEF Done
  <2>6. Fresh("main")'
    BY <2>5 DEF Fresh
  <2> QED BY <1>0, <2>1, <2>2, <2>4, <2>6 DEF Telling, TellingAt, Told, At
<1>4. CASE LoadNext("main")
  <2>1. Sampled(thread["main"]) /\ Fresh("main")
    BY <1>4 DEF LoadNext, LoadAs, At, Telling, TellingAt
  <2>2. /\ thread'["main"].pc = IF thread["main"].left = 1 THEN "check" ELSE "load"
        /\ thread'["btc"] = thread["btc"]
    BY <1>0, <1>4, LoadStep, AnswersTyped DEF LoadNext
  <2>3. /\ thread'["main"].buttons = thread["main"].buttons
        /\ thread'["main"].accel = thread["main"].accel
        /\ raw' = raw /\ sensor' = sensor
    BY <1>0, <1>1, <1>4 DEF LoadNext, LoadAs, Calls
  <2>4. Fresh("main")' /\ Sampled(thread["main"])'
    BY <1>0, <1>4, <2>1, <2>3, LoadsFresh DEF Sampled
  <2> QED BY <1>0, <2>2, <2>4 DEF Telling, TellingAt, At
<1>5. CASE CopyOld("main")
  <2>1. Told
    BY <1>5 DEF CopyOld, At, Telling, TellingAt
  <2>2. Told'
    BY <1>1, <1>5, <2>1, StillTold DEF CopyOld, world
  <2>3. thread'["main"].pc = "idle" /\ thread'["btc"] = thread["btc"]
    BY <1>0, <1>1, <1>5 DEF CopyOld, Goto, Calls
  <2> QED BY <1>0, <2>2, <2>3 DEF Telling, TellingAt, At
<1> QED BY <1>2, <1>3, <1>4, <1>5, CheckTells, SendTells DEF Core

\* A turn of the HID loop tells the host: it begins with Telling, each step of the
\* threads keeps that until the world or the host changes something or a read or a
\* report fails, and where the call has ended, Telling says that the last report
\* shows what the sensors read although one that seems to repeat it was
\* suppressed, unless the one remembered was lost because it could not be sent.
THEOREM OneTurnTells ==
    ASSUME Overlap = FALSE
    PROVE  Spec => [][/\ Turn => Telling'
                      /\ Telling /\ (Main \/ Btc) => Telling'
                      /\ Telling /\ At("main", "idle") => Told]_vars
<1>1. TypeInv /\ QuietInv /\ [Next]_vars => TypeInv' /\ QuietInv'
  BY StepTyped, StepQuiet
<1>2. Turn /\ TypeInv => Telling'
  <2> SUFFICES ASSUME Turn, TypeInv PROVE Telling'
    OBVIOUS
  <2>1. /\ thread'["main"].pc = "sample" /\ thread'["btc"].pc = "idle"
        /\ array' = sensor'["buttons"]
    BY DEF Turn, Goto, world, At, TypeInv, TypeOK, Threads
  <2> QED BY <2>1 DEF Telling, TellingAt, At
<1>3. TypeInv /\ QuietInv /\ Telling /\ (Main \/ Btc) => Telling'
  <2>1. Telling => ~Btc
    BY DEF Telling, Btc, Reset, Core, Sample, SampleAs, Switch, LoadNext, LoadAs, Check,
           SendReport, CopyOld, At
  <2> QED BY <1>2, <2>1, CallTells DEF Main
<1>4. Telling /\ At("main", "idle") => Told
  BY DEF Telling, TellingAt, At
<1>5. TypeInv /\ QuietInv /\ [Next]_vars =>
          [/\ Turn => Telling'
           /\ Telling /\ (Main \/ Btc) => Telling'
           /\ Telling /\ At("main", "idle") => Told]_vars
  BY <1>2, <1>3, <1>4
<1> QED BY <1>1, <1>5, InitTyped, InitQuiet, PTL DEF Spec

============================================================================
