----------------------- MODULE ExtensionStatusProofs -----------------------
(***************************************************************************)
(* Proofs about ExtensionStatus, for any LED and enable bits.              *)
(*                                                                         *)
(* None of the properties is inductive: each is about the moment when      *)
(* nothing is under way, and holds because of what the two threads have    *)
(* and have not done yet on the way there. The invariants below say that   *)
(* for every position of both threads. What a stale store can do is the    *)
(* same in all of them and stands in one lemma, StoreEffect.               *)
(***************************************************************************)
EXTENDS ExtensionStatus, TLAPS

----------------------------------------------------------------------------
(***************************************************************************)
(* Types.                                                                  *)
(***************************************************************************)
LoopTyped ==
    \/ loop = "hid"   /\ main \in [pc : HidSteps,   failed : BOOLEAN]
    \/ loop = "other" /\ main \in [pc : OtherSteps, failed : {FALSE}]

BytesTyped ==
    /\ status \in SUBSET Bits
    /\ held \in [Threads -> SUBSET SUBSET Bits]
    /\ clobbered \in SUBSET Bits

PortTyped ==
    /\ plugged \in BOOLEAN
    /\ connected \in BOOLEAN
    /\ device \in {"attached", "removed"}
    /\ passthrough \in [Parts -> {"nothing", "now", "earlier"}]
    /\ owed \in SUBSET ({"status", "device"} \cup Parts)

HostTyped ==
    /\ wmp \in BOOLEAN
    /\ attempt \in BOOLEAN
    /\ btc \in BtcSteps
    /\ commanded \in SUBSET HostBits
    /\ told \in {"nothing", "in", "out", "late"}

\* The parts make up TypeOK.
LEMMA TypeParts == TypeOK <=> LoopTyped /\ BytesTyped /\ PortTyped /\ HostTyped
BY DEF TypeOK, LoopTyped, BytesTyped, PortTyped, HostTyped

\* The records that are assigned as a whole.
LEMMA Records ==
    /\ Fresh \in [pc : HidSteps, failed : BOOLEAN]
    /\ Fresh \in [pc : OtherSteps, failed : {FALSE}]
    /\ [pc |-> "remove", failed |-> TRUE] \in [pc : HidSteps, failed : BOOLEAN]
BY Zenon DEF Fresh, HidSteps, OtherSteps

\* The BTC task leaves the loop and the port alone.
LEMMA BtcFrame ==
    ASSUME Btc
    PROVE  UNCHANGED <<plugged, loop, main, connected, device, passthrough, attempt, owed>>
BY DEF Btc, notBtc, BtcLoad, PlayerLeds, LedClear, LedSet, Enable, EnableSet,
       StatusRequest, StatusReply, ActivateWmp, WmpRaise, WmpStatus,
       ActivateExtension, ExtensionLower, ExtensionUnplugged, ExtensionOn,
       ExtensionRaise, ExtensionPlugged, Update, Report

\* The main task leaves the BTC task and what the host commanded alone.
LEMMA MainFrame ==
    ASSUME Main
    PROVE  UNCHANGED <<plugged, loop, attempt, btc, commanded, wmp>>
BY DEF Main, notMain, Sense, Add, Flag, Remove, Unflag, RaiseLoad, Raise, Identify,
       CopyCalibration, LowerLoad, Lower, LowerTo, BlankPassthrough, ReportLoad,
       ReportPlug

\* The loop stays at a position it has.
LEMMA LoopStep ==
    ASSUME LoopTyped, Next
    PROVE  LoopTyped'
<1> USE DEF LoopTyped, HidSteps, OtherSteps
<1>1. CASE Unplug \/ PlugIn \/ ReconnectRefused
    BY <1>1 DEF Unplug, PlugIn, ReconnectRefused
<1>2. CASE Btc
    BY <1>2, BtcFrame
<1>3. CASE StartUp \/ ShutDown
    BY <1>3, Records DEF StartUp, ShutDown, Replace
<1>4. CASE Main
  <2> USE DEF At, Goto, notMain
  <2>1. CASE Sense BY <2>1 DEF Sense
  <2>2. CASE Add \/ Remove BY <2>2 DEF Add, Remove
  <2>3. CASE Flag \/ Unflag BY <2>3 DEF Flag, Unflag, GotoIfHid
  <2>4. CASE RaiseLoad \/ LowerLoad \/ ReportLoad
      BY <2>4 DEF RaiseLoad, LowerLoad, ReportLoad
  <2>5. CASE Raise BY <2>5 DEF Raise
  <2>6. CASE Identify BY <2>6, Records DEF Identify
  <2>7. CASE CopyCalibration \/ BlankPassthrough
      BY <2>7 DEF CopyCalibration, BlankPassthrough
  <2>8. CASE Lower BY <2>8, Records DEF Lower, LowerTo
  <2>9. CASE ReportPlug BY <2>9 DEF ReportPlug
  <2> QED BY <1>4, <2>1, <2>2, <2>3, <2>4, <2>5, <2>6, <2>7, <2>8, <2>9 DEF Main
<1> QED BY <1>1, <1>2, <1>3, <1>4 DEF Next, World

\* A load, a store and a report keep the types of the status byte.
LEMMA UpdatesTyped ==
    ASSUME BytesTyped, NEW w \in Threads
    PROVE  /\ \A drop, add \in SUBSET Bits : Store(w, drop, add) => BytesTyped'
           /\ Load(w) /\ UNCHANGED <<status, clobbered>> => BytesTyped'
           /\ Send(w) /\ UNCHANGED <<status, clobbered>> => BytesTyped'
<1>1. ASSUME NEW drop \in SUBSET Bits, NEW add \in SUBSET Bits, Store(w, drop, add)
      PROVE  BytesTyped'
    BY <1>1 DEF BytesTyped, Store
<1>2. ASSUME Load(w), UNCHANGED <<status, clobbered>>
      PROVE  BytesTyped'
    BY <1>2 DEF BytesTyped, Load
<1>3. ASSUME Send(w), UNCHANGED <<status, clobbered>>
      PROVE  BytesTyped'
    BY <1>3 DEF BytesTyped, Send
<1> QED BY <1>1, <1>2, <1>3

\* The status byte and its copies hold bits.
LEMMA BytesStep ==
    ASSUME BytesTyped, HostTyped, Next
    PROVE  BytesTyped'
<1>1. /\ "main" \in Threads /\ "btc" \in Threads
      /\ {} \in SUBSET Bits /\ {"EXTENSION"} \in SUBSET Bits
      /\ Leds \in SUBSET Bits /\ commanded \cap Leds \in SUBSET Bits
      /\ \A f \in Enables : {f} \in SUBSET Bits
    BY DEF Threads, Bits, HostBits, HostTyped
<1>2. CASE UNCHANGED <<status, held, clobbered>>
    BY <1>2 DEF BytesTyped
<1>3. CASE RaiseLoad \/ LowerLoad \/ ReportLoad \/ BtcLoad
    BY <1>1, <1>3, UpdatesTyped DEF RaiseLoad, LowerLoad, ReportLoad, BtcLoad
<1>4. CASE Raise \/ Lower
    BY <1>1, <1>4, UpdatesTyped DEF Raise, Lower, LowerTo
<1>5. CASE ReportPlug
    BY <1>1, <1>5, UpdatesTyped DEF ReportPlug
<1>6. CASE LedClear \/ LedSet \/ EnableSet
    BY <1>1, <1>6, UpdatesTyped DEF LedClear, LedSet, EnableSet, Update
<1>7. CASE WmpRaise \/ ExtensionLower \/ ExtensionRaise
    BY <1>1, <1>7, UpdatesTyped DEF WmpRaise, ExtensionLower, ExtensionRaise, Update
<1>8. CASE StatusReply \/ WmpStatus \/ ExtensionUnplugged \/ ExtensionPlugged
    BY <1>1, <1>8, UpdatesTyped
    DEF StatusReply, WmpStatus, ExtensionUnplugged, ExtensionPlugged, Report
<1>9. CASE StartUp \/ ShutDown
    BY <1>1, <1>9 DEF StartUp, ShutDown, Replace, BytesTyped
<1> QED
    BY <1>2, <1>3, <1>4, <1>5, <1>6, <1>7, <1>8, <1>9
    DEF Next, World, Main, Btc, Unplug, PlugIn, ReconnectRefused, Sense, Add, Flag, Remove, Unflag,
        Identify, CopyCalibration, BlankPassthrough, PlayerLeds, Enable, StatusRequest,
        ActivateWmp, ActivateExtension, ExtensionOn

\* The port keeps its types.
LEMMA PortStep ==
    ASSUME PortTyped, Next
    PROVE  PortTyped'
<1> USE DEF PortTyped
<1>1. CASE Unplug \/ PlugIn \/ ReconnectRefused BY <1>1 DEF Unplug, PlugIn, ReconnectRefused
<1>2. CASE Btc BY <1>2, BtcFrame
<1>3. CASE StartUp \/ ShutDown BY <1>3 DEF StartUp, ShutDown, Replace, Undone
<1>4. CASE Main
  <2>1. UNCHANGED plugged BY <1>4, MainFrame
  <2>2. /\ connected' \in BOOLEAN /\ device' \in {"attached", "removed"}
        /\ passthrough' \in [Parts -> {"nothing", "now", "earlier"}]
    <3>1. CASE Sense \/ Add \/ Flag BY <3>1 DEF Sense, Add, Flag
    <3>2. CASE Remove \/ Unflag BY <3>2 DEF Remove, Unflag
    <3>3. CASE RaiseLoad \/ Raise \/ Identify BY <3>3 DEF RaiseLoad, Raise, Identify
    <3>4. CASE CopyCalibration BY <3>4 DEF CopyCalibration
    <3>5. CASE BlankPassthrough BY <3>5 DEF BlankPassthrough, Blank
    <3>6. CASE LowerLoad \/ Lower BY <3>6 DEF LowerLoad, Lower, LowerTo
    <3>7. CASE ReportLoad \/ ReportPlug BY <3>7 DEF ReportLoad, ReportPlug
    <3> QED BY <1>4, <3>1, <3>2, <3>3, <3>4, <3>5, <3>6, <3>7 DEF Main
  <2>3. owed' \subseteq owed \cup {"status", "device"} \cup Parts
    <3>1. CASE Flag \/ Unflag BY <3>1 DEF Flag, Unflag, LeftOut
    <3>2. CASE Raise \/ Lower BY <3>2 DEF Raise, Lower, LowerTo
    <3>3. CASE CopyCalibration \/ BlankPassthrough
        BY <3>3 DEF CopyCalibration, BlankPassthrough
    <3>4. CASE Sense \/ Add \/ Remove \/ Identify
        BY <3>4 DEF Sense, Add, Remove, Identify
    <3>5. CASE RaiseLoad \/ LowerLoad \/ ReportLoad \/ ReportPlug
        BY <3>5 DEF RaiseLoad, LowerLoad, ReportLoad, ReportPlug
    <3> QED BY <1>4, <3>1, <3>2, <3>3, <3>4, <3>5 DEF Main
  <2>4. owed' \in SUBSET ({"status", "device"} \cup Parts) BY <2>3
  <2> QED BY <2>1, <2>2, <2>4
<1> QED BY <1>1, <1>2, <1>3, <1>4 DEF Next, World

\* So does what the host controls.
LEMMA HostStep ==
    ASSUME HostTyped, Next
    PROVE  HostTyped'
<1> USE DEF HostTyped, BtcSteps, Steps
<1>1. CASE Unplug \/ PlugIn \/ ReconnectRefused BY <1>1 DEF Unplug, PlugIn, ReconnectRefused
<1>2. CASE StartUp \/ ShutDown BY <1>2 DEF StartUp, ShutDown, Replace
<1>3. CASE Main
    BY <1>3, MainFrame DEF Main, Sense, Add, Flag, Remove, Unflag, RaiseLoad, Raise,
        Identify, CopyCalibration, LowerLoad, Lower, LowerTo, BlankPassthrough,
        ReportLoad, ReportPlug, Send, Told
<1>4. CASE Btc
  <2> USE DEF notBtc, Receive, Update, Report, Send, Told
  <2>1. CASE BtcLoad BY <2>1 DEF BtcLoad
  <2>2. CASE PlayerLeds \/ LedClear \/ LedSet
      BY <2>2 DEF PlayerLeds, LedClear, LedSet, HostBits
  <2>3. CASE Enable \/ EnableSet BY <2>3 DEF Enable, EnableSet, HostBits
  <2>4. CASE StatusRequest \/ StatusReply BY <2>4 DEF StatusRequest, StatusReply
  <2>5. CASE ActivateWmp \/ WmpRaise \/ WmpStatus
      BY <2>5 DEF ActivateWmp, WmpRaise, WmpStatus
  <2>6. CASE ActivateExtension \/ ExtensionLower \/ ExtensionUnplugged
      BY <2>6 DEF ActivateExtension, ExtensionLower, ExtensionUnplugged
  <2>7. CASE ExtensionOn \/ ExtensionRaise \/ ExtensionPlugged
      BY <2>7 DEF ExtensionOn, ExtensionRaise, ExtensionPlugged
  <2> QED BY <1>4, <2>1, <2>2, <2>3, <2>4, <2>5, <2>6, <2>7 DEF Btc
<1> QED BY <1>1, <1>2, <1>3, <1>4 DEF Next, World

\* The initial state is of the right type.
LEMMA InitTyped == Init => TypeOK
<1> SUFFICES ASSUME Init PROVE LoopTyped /\ BytesTyped /\ PortTyped /\ HostTyped
    BY TypeParts
<1>1. LoopTyped BY Records DEF Init, LoopTyped
<1>2. BytesTyped BY DEF Init, BytesTyped, Threads
<1>3. PortTyped /\ HostTyped
    BY DEF Init, Blank, PortTyped, HostTyped, BtcSteps, Steps
<1> QED BY <1>1, <1>2, <1>3

\* Every step keeps the types.
LEMMA TypeStep == TypeOK /\ [Next]_vars => TypeOK'
<1> SUFFICES ASSUME TypeOK, [Next]_vars PROVE TypeOK'
    OBVIOUS
<1>1. CASE Next
    BY <1>1, TypeParts, LoopStep, BytesStep, PortStep, HostStep
    DEF TypeOK, LoopTyped, BytesTyped, PortTyped, HostTyped
<1>2. CASE UNCHANGED vars
    BY <1>2 DEF TypeOK, vars
<1> QED BY <1>1, <1>2

\* Type correctness: the loops, the threads' copies of the status byte and the
\* histories keep their types for any set of LED and enable bits.
THEOREM StatusTypeCorrect == Spec => []TypeOK
BY InitTyped, TypeStep, PTL DEF Spec

----------------------------------------------------------------------------
(***************************************************************************)
(* Stores.                                                                 *)
(***************************************************************************)
\* A store sets and clears the bits it is about; any other bit it either leaves
\* as it was or marks.
LEMMA StoreEffect ==
    ASSUME NEW w, NEW drop, NEW add, NEW x, Store(w, drop, add)
    PROVE  /\ x \in add => x \in status' /\ x \notin clobbered'
           /\ x \in drop \ add => x \notin status' /\ x \notin clobbered'
           /\ x \notin drop \cup add /\ x \notin clobbered'
              => x \notin clobbered /\ (x \in status' <=> x \in status)
BY DEF Store

\* In particular it keeps what it is not about.
LEMMA StoreKeeps ==
    ASSUME NEW w, NEW drop, NEW add, NEW x, Store(w, drop, add),
           x \notin drop, x \notin add, x \notin clobbered'
    PROVE  x \notin clobbered /\ (x \in status' <=> x \in status)
BY StoreEffect

----------------------------------------------------------------------------
(***************************************************************************)
(* The bits of the host.                                                   *)
(***************************************************************************)
\* Where an unmarked bit differs from what the host commanded, the BTC task is
\* about to store it.
EnableIsCommanded == btc \in Enables => btc \in commanded

BitsFollow ==
    \A x \in HostBits \ clobbered :
        \/ x \in status <=> x \in commanded
        \/ btc = "led_clear" /\ x \in Leds
        \/ btc = "led_set" /\ x \in Leds /\ x \notin status
        \/ btc = x /\ x \in Enables

BitsEqual == \A x \in HostBits \ clobbered : x \in status <=> x \in commanded

CommandedSoFar == EnableIsCommanded /\ BitsFollow

\* A bit to be enabled is no other position of the BTC task.
LEMMA StepsAreNoEnables ==
    /\ \A p \in Steps : p \notin Enables
    /\ {"idle", "led_clear", "led_set", "status", "wmp_raise", "wmp_status",
        "ext_lower", "ext_unplugged", "ext_on", "ext_raise", "ext_status"} = Steps
BY ExtensionAssumption DEF Steps

\* Where no update of a host bit is under way, the bits are as commanded ...
LEMMA Settled ==
    ASSUME BitsFollow, btc \in Steps, btc \notin {"led_clear", "led_set"}
    PROVE  BitsEqual
BY StepsAreNoEnables DEF BitsFollow, BitsEqual

\* ... and that is all there is to show at such a place.
LEMMA Settles ==
    ASSUME BitsEqual', btc' \in Steps
    PROVE  CommandedSoFar'
BY StepsAreNoEnables DEF BitsFollow, BitsEqual, CommandedSoFar, EnableIsCommanded

\* Initially nothing is set or commanded.
LEMMA CommandedInit == Init => CommandedSoFar
<1> SUFFICES ASSUME Init PROVE CommandedSoFar
    OBVIOUS
<1>1. btc \notin Enables
    BY StepsAreNoEnables DEF Init
<1> QED BY <1>1 DEF Init, CommandedSoFar, EnableIsCommanded, BitsFollow

\* A store by the main task is about another bit.
LEMMA CommandedMain ==
    ASSUME CommandedSoFar, Main
    PROVE  CommandedSoFar'
<1> USE DEF CommandedSoFar, EnableIsCommanded, BitsFollow
<1>1. "EXTENSION" \notin HostBits BY ExtensionAssumption
<1>2. UNCHANGED <<btc, commanded>> BY MainFrame
<1>3. CASE UNCHANGED <<status, clobbered>>
    BY <1>2, <1>3
<1>4. CASE Raise \/ Lower
  <2>1. PICK drop \in SUBSET {"EXTENSION"}, add \in SUBSET {"EXTENSION"} :
            Store("main", drop, add)
      BY <1>4 DEF Raise, Lower, LowerTo
  <2>2. ASSUME NEW x \in HostBits, x \notin clobbered'
        PROVE  x \notin clobbered /\ (x \in status' <=> x \in status)
    <3>1. x \notin drop /\ x \notin add BY <1>1
    <3> QED BY <2>1, <2>2, <3>1, StoreKeeps
  <2> QED BY <1>2, <2>2
<1> QED
    BY <1>3, <1>4
    DEF Main, Sense, Add, Flag, Remove, Unflag, RaiseLoad, Identify, CopyCalibration,
        LowerLoad, BlankPassthrough, ReportLoad, ReportPlug

\* The LEDs are cleared ...
LEMMA CommandedLedClear ==
    ASSUME CommandedSoFar, LedClear
    PROVE  CommandedSoFar'
<1>1. /\ btc = "led_clear" /\ btc' = "led_set" /\ commanded' = commanded
      /\ Store("btc", Leds, {})
    BY DEF LedClear, Update
<1>2. btc \notin Enables /\ btc' \notin Enables
    BY <1>1, StepsAreNoEnables
<1> SUFFICES ASSUME NEW x \in HostBits, x \notin clobbered'
             PROVE  \/ x \in status' <=> x \in commanded'
                    \/ btc' = "led_set" /\ x \in Leds /\ x \notin status'
    BY <1>2 DEF CommandedSoFar, EnableIsCommanded, BitsFollow
<1>3. CASE x \in Leds BY <1>1, <1>3, StoreEffect
<1>4. CASE x \notin Leds
  <2>1. x \notin clobbered /\ (x \in status' <=> x \in status)
      BY <1>1, <1>4, StoreEffect
  <2>2. x \in status <=> x \in commanded
      BY <1>2, <1>4, <2>1 DEF CommandedSoFar, BitsFollow
  <2> QED BY <1>1, <2>1, <2>2
<1> QED BY <1>3, <1>4

\* ... and set.
LEMMA CommandedLedSet ==
    ASSUME CommandedSoFar, LedSet
    PROVE  CommandedSoFar'
<1>1. /\ btc = "led_set" /\ btc' = "idle" /\ commanded' = commanded
      /\ Store("btc", {}, commanded \cap Leds)
    BY DEF LedSet, Update
<1>2. btc \notin Enables
    BY <1>1, StepsAreNoEnables
<1>3. ASSUME NEW x \in HostBits, x \notin clobbered'
      PROVE  x \in status' <=> x \in commanded
  <2>1. CASE x \in commanded \cap Leds BY <1>1, <1>3, <2>1, StoreEffect
  <2>2. CASE x \notin commanded \cap Leds
    <3>1. x \notin clobbered /\ (x \in status' <=> x \in status)
        BY <1>1, <1>3, <2>2, StoreEffect
    <3>2. \/ x \in status <=> x \in commanded
          \/ x \in Leds /\ x \notin status
        BY <1>1, <1>2, <3>1 DEF CommandedSoFar, BitsFollow
    <3> QED BY <2>2, <3>1, <3>2
  <2> QED BY <2>1, <2>2
<1>4. BitsEqual'
    BY <1>1, <1>3 DEF BitsEqual
<1>5. btc' \in Steps BY <1>1, StepsAreNoEnables
<1> QED BY <1>4, <1>5, Settles

\* A bit is enabled.
LEMMA CommandedEnableSet ==
    ASSUME CommandedSoFar, EnableSet
    PROVE  CommandedSoFar'
<1>1. PICK f \in Enables : /\ btc = f /\ btc' = "idle" /\ commanded' = commanded
                           /\ Store("btc", {}, {f})
    BY DEF EnableSet, Update
<1>2. f \notin Steps BY StepsAreNoEnables
<1>3. btc # "led_clear" /\ btc # "led_set"
    BY <1>1, <1>2, StepsAreNoEnables
<1>4. f \in commanded BY <1>1 DEF CommandedSoFar, EnableIsCommanded
<1>5. ASSUME NEW x \in HostBits, x \notin clobbered'
      PROVE  x \in status' <=> x \in commanded
  <2>1. CASE x = f BY <1>1, <1>4, <2>1, StoreEffect
  <2>2. CASE x # f
    <3>1. x \notin clobbered /\ (x \in status' <=> x \in status)
      <4>1. x \notin {} /\ x \notin {f} BY <2>2
      <4> QED BY <1>1, <1>5, <4>1, StoreKeeps
    <3>2. x \in status <=> x \in commanded
        BY <1>1, <1>3, <2>2, <3>1 DEF CommandedSoFar, BitsFollow
    <3> QED BY <3>1, <3>2
  <2> QED BY <2>1, <2>2
<1>6. BitsEqual'
    BY <1>1, <1>5 DEF BitsEqual
<1>7. btc' \in Steps BY <1>1, StepsAreNoEnables
<1> QED BY <1>6, <1>7, Settles

\* A store of the extension bit by the BTC task.
LEMMA CommandedExtension ==
    ASSUME CommandedSoFar, WmpRaise \/ ExtensionLower \/ ExtensionRaise
    PROVE  CommandedSoFar'
<1>1. PICK drop \in SUBSET {"EXTENSION"}, add \in SUBSET {"EXTENSION"} :
          Store("btc", drop, add)
    BY DEF WmpRaise, ExtensionLower, ExtensionRaise, Update
<1>2. /\ btc \in {"wmp_raise", "ext_lower", "ext_raise"}
      /\ btc' \in {"wmp_status", "ext_unplugged", "ext_status"}
      /\ commanded' = commanded
    BY DEF WmpRaise, ExtensionLower, ExtensionRaise, Update
<1>3. /\ btc \in Steps /\ btc \notin {"led_clear", "led_set"}
      /\ btc' \in Steps
    BY <1>2 DEF Steps
<1>4. BitsEqual BY <1>3, Settled DEF CommandedSoFar
<1>5. "EXTENSION" \notin HostBits BY ExtensionAssumption
<1>6. ASSUME NEW x \in HostBits, x \notin clobbered'
      PROVE  x \notin clobbered /\ (x \in status' <=> x \in status)
  <2>1. x # "EXTENSION" BY <1>5, <1>6
  <2>2. x \notin drop /\ x \notin add BY <1>1, <2>1
  <2> QED BY <1>1, <1>6, <2>2, StoreKeeps
<1>7. BitsEqual' BY <1>2, <1>4, <1>6 DEF BitsEqual
<1> QED BY <1>3, <1>7, Settles

\* A command of the host, from a BTC task that is idle.
LEMMA CommandedReceive ==
    ASSUME CommandedSoFar, PlayerLeds \/ Enable
    PROVE  CommandedSoFar'
<1>1. btc = "idle" /\ UNCHANGED <<status, clobbered>>
    BY DEF PlayerLeds, Enable, Receive
<1>2. BitsEqual
    BY <1>1, StepsAreNoEnables, Settled DEF CommandedSoFar
<1>3. CASE PlayerLeds
  <2>1. btc' = "led_clear" /\ \A x : x \notin Leds => (x \in commanded' <=> x \in commanded)
      BY <1>3 DEF PlayerLeds, Receive
  <2>2. btc' \notin Enables BY <2>1, StepsAreNoEnables
  <2> QED
      BY <1>1, <1>2, <2>1, <2>2
      DEF CommandedSoFar, BitsFollow, BitsEqual, EnableIsCommanded
<1>4. CASE Enable
  <2>1. PICK f \in Enables : btc' = f /\ commanded' = commanded \cup {f}
      BY <1>4 DEF Enable, Receive
  <2> QED
      BY <1>1, <1>2, <2>1
      DEF CommandedSoFar, BitsFollow, BitsEqual, EnableIsCommanded
<1> QED BY <1>3, <1>4

\* The other steps of the BTC task begin or end with other business.
LEMMA CommandedOther ==
    ASSUME CommandedSoFar,
           \/ StatusRequest \/ StatusReply \/ ActivateWmp \/ WmpStatus
           \/ ActivateExtension \/ ExtensionUnplugged \/ ExtensionOn \/ ExtensionPlugged
    PROVE  CommandedSoFar'
<1>1. /\ btc \in {"idle", "status", "wmp_status", "ext_unplugged", "ext_on", "ext_status"}
      /\ btc' \in {"idle", "status", "wmp_raise", "ext_lower", "ext_on", "ext_raise"}
    BY DEF StatusRequest, StatusReply, ActivateWmp, WmpStatus, ActivateExtension,
           ExtensionUnplugged, ExtensionOn, ExtensionPlugged, Receive, Report
<1>2. UNCHANGED <<status, clobbered, commanded>>
    BY DEF StatusRequest, StatusReply, ActivateWmp, WmpStatus, ActivateExtension,
           ExtensionUnplugged, ExtensionOn, ExtensionPlugged, Report
<1>3. /\ btc \in Steps /\ btc \notin {"led_clear", "led_set"}
      /\ btc' \in Steps
    BY <1>1 DEF Steps
<1>4. BitsEqual BY <1>3, Settled DEF CommandedSoFar
<1>5. BitsEqual' BY <1>2, <1>4 DEF BitsEqual
<1> QED BY <1>3, <1>5, Settles

\* Every step keeps the invariant.
LEMMA CommandedStep == CommandedSoFar /\ [Next]_vars => CommandedSoFar'
<1> SUFFICES ASSUME CommandedSoFar, [Next]_vars PROVE CommandedSoFar'
    OBVIOUS
<1>1. CASE UNCHANGED <<status, clobbered, commanded, btc>>
    BY <1>1 DEF CommandedSoFar, EnableIsCommanded, BitsFollow
<1>2. CASE StartUp \/ ShutDown
  <2>1. UNCHANGED btc /\ btc = "idle"
      BY <1>2 DEF StartUp, ShutDown, Replace
  <2>2. btc \in Steps /\ btc \notin {"led_clear", "led_set"}
      BY <2>1 DEF Steps
  <2>3. BitsEqual BY <2>2, Settled DEF CommandedSoFar
  <2>4. BitsEqual'
    <3>1. CASE UNCHANGED <<status, clobbered, commanded>>
        BY <2>3, <3>1 DEF BitsEqual
    <3>2. CASE status' = {} /\ commanded' = {}
        BY <3>2 DEF BitsEqual
    <3> QED BY <1>2, <3>1, <3>2 DEF StartUp, ShutDown
  <2> QED BY <2>1, <2>2, <2>4, Settles
<1>3. CASE BtcLoad
    BY <1>1, <1>3 DEF BtcLoad
<1>4. CASE Main
    BY <1>4, CommandedMain
<1>5. CASE Btc
    BY <1>3, <1>5, CommandedLedClear, CommandedLedSet, CommandedEnableSet,
       CommandedExtension, CommandedReceive, CommandedOther
    DEF Btc
<1>6. CASE Unplug \/ PlugIn \/ ReconnectRefused \/ UNCHANGED vars
    BY <1>1, <1>6 DEF Unplug, PlugIn, ReconnectRefused, vars
<1> QED BY <1>2, <1>4, <1>5, <1>6 DEF Next, World

\* LED and enable bits: while the BTC task is idle, every bit that no stale store
\* overwrote is as the host last commanded it, for any number of bits.
THEOREM HostBitsKept == Spec => []HostBitsAsCommanded
<1>1. TypeOK /\ CommandedSoFar => HostBitsAsCommanded
  <2> SUFFICES ASSUME TypeOK, CommandedSoFar, btc = "idle"
               PROVE  (status \cap HostBits) \ clobbered = commanded \ clobbered
      BY DEF HostBitsAsCommanded
  <2>1. BitsEqual
      BY StepsAreNoEnables, Settled DEF CommandedSoFar
  <2> QED BY <2>1 DEF BitsEqual, TypeOK
<1> QED BY <1>1, CommandedInit, CommandedStep, StatusTypeCorrect, PTL DEF Spec

----------------------------------------------------------------------------
(***************************************************************************)
(* The positions of the main task.                                         *)
(***************************************************************************)
\* What an assignment to the position does, and what a new loop starts with.
LEMMA GotoEffect ==
    ASSUME TypeOK
    PROVE  /\ \A p : Goto(p) => main'.pc = p /\ main'.failed = main.failed
           /\ Fresh.pc = "loop" /\ Fresh.failed = FALSE
           /\ main.failed \in BOOLEAN
           /\ loop \in {"hid", "other"}
           /\ loop = "other" => main.pc \in OtherSteps /\ main.failed = FALSE
BY DEF TypeOK, Goto, Fresh

\* Where each step of the plug handling goes.
LEMMA Moves ==
    ASSUME TypeOK
    PROVE  /\ Sense => /\ main.pc = "loop" /\ main'.failed = main.failed
                       /\ \/ ~connected /\ main'.pc = "add"
                          \/ connected /\ main'.pc = "remove"
           /\ Add => main.pc = "add" /\ main'.pc = "flag" /\ main'.failed = main.failed
           /\ Flag => /\ main.pc = "flag" /\ main'.failed = main.failed
                      /\ main'.pc = IF loop = "hid" THEN "raise" ELSE "loop"
           /\ Remove => /\ main.pc = "remove" /\ main'.pc = "unflag"
                        /\ main'.failed = main.failed
           /\ Unflag => /\ main.pc = "unflag" /\ main'.failed = main.failed
                        /\ main'.pc = IF loop = "hid" THEN "lower" ELSE "loop"
           /\ Raise => /\ main.pc = "raise" /\ main'.pc = "identify"
                       /\ main'.failed = main.failed
           /\ Identify => /\ main.pc = "identify"
                          /\ \/ main'.pc = "copy" /\ main'.failed = main.failed
                             \/ main'.pc = "remove" /\ main'.failed = TRUE
           /\ CopyCalibration => /\ main.pc = "copy" /\ main'.pc = "report"
                                 /\ main'.failed = main.failed
           /\ Lower => /\ main.pc = "lower"
                       /\ \/ main.failed /\ main'.pc = "loop" /\ main'.failed = FALSE
                          \/ ~main.failed /\ main'.pc = "blank" /\ main'.failed = FALSE
           /\ BlankPassthrough => /\ main.pc = "blank" /\ main'.pc = "report"
                                  /\ main'.failed = main.failed
           /\ ReportPlug => /\ main.pc = "report" /\ main'.pc = "loop"
                            /\ main'.failed = main.failed
           /\ RaiseLoad \/ LowerLoad \/ ReportLoad => main' = main
<1> USE GotoEffect DEF At
<1>1. Sense => /\ main.pc = "loop" /\ main'.failed = main.failed
               /\ \/ ~connected /\ main'.pc = "add"
                  \/ connected /\ main'.pc = "remove"
  <2> SUFFICES ASSUME Sense PROVE /\ main.pc = "loop" /\ main'.failed = main.failed
                                  /\ \/ ~connected /\ main'.pc = "add"
                                     \/ connected /\ main'.pc = "remove"
      OBVIOUS
  <2>1. plugged \in BOOLEAN /\ connected \in BOOLEAN BY DEF TypeOK
  <2>2. main.pc = "loop" /\ plugged # connected BY DEF Sense
  <2>3. CASE plugged BY <2>1, <2>2, <2>3 DEF Sense
  <2>4. CASE ~plugged BY <2>1, <2>2, <2>4 DEF Sense
  <2> QED BY <2>3, <2>4
<1>2. Add => main.pc = "add" /\ main'.pc = "flag" /\ main'.failed = main.failed
    BY DEF Add
<1>3. Flag => /\ main.pc = "flag" /\ main'.failed = main.failed
              /\ main'.pc = IF loop = "hid" THEN "raise" ELSE "loop"
    BY DEF Flag, GotoIfHid
<1>4. Remove => /\ main.pc = "remove" /\ main'.pc = "unflag"
                /\ main'.failed = main.failed
    BY DEF Remove
<1>5. Unflag => /\ main.pc = "unflag" /\ main'.failed = main.failed
                /\ main'.pc = IF loop = "hid" THEN "lower" ELSE "loop"
    BY DEF Unflag, GotoIfHid
<1>6. Raise => main.pc = "raise" /\ main'.pc = "identify" /\ main'.failed = main.failed
    BY DEF Raise
<1>7. Identify => /\ main.pc = "identify"
                  /\ \/ main'.pc = "copy" /\ main'.failed = main.failed
                     \/ main'.pc = "remove" /\ main'.failed = TRUE
    BY DEF Identify
<1>8. CopyCalibration => /\ main.pc = "copy" /\ main'.pc = "report"
                         /\ main'.failed = main.failed
    BY DEF CopyCalibration
<1>9. Lower => /\ main.pc = "lower"
               /\ \/ main.failed /\ main'.pc = "loop" /\ main'.failed = FALSE
                  \/ ~main.failed /\ main'.pc = "blank" /\ main'.failed = FALSE
    BY DEF Lower, LowerTo
<1>10. BlankPassthrough => /\ main.pc = "blank" /\ main'.pc = "report"
                           /\ main'.failed = main.failed
    BY DEF BlankPassthrough
<1>11. ReportPlug => main.pc = "report" /\ main'.pc = "loop" /\ main'.failed = main.failed
    BY DEF ReportPlug
<1>12. RaiseLoad \/ LowerLoad \/ ReportLoad => main' = main
    BY DEF RaiseLoad, LowerLoad, ReportLoad
<1> QED
    BY <1>1, <1>2, <1>3, <1>4, <1>5, <1>6, <1>7, <1>8, <1>9, <1>10, <1>11, <1>12

\* A step that is neither of the main task nor a replacement leaves it where it is.
LEMMA MainStays ==
    ASSUME [Next]_vars
    PROVE  \/ UNCHANGED <<loop, main, connected, device, passthrough, owed>>
           \/ PlugIn \/ StartUp \/ ShutDown \/ Main
BY BtcFrame DEF Next, World, Unplug, ReconnectRefused, vars

\* A plug owes parts of the registers only.
LEMMA PlugInEffect ==
    ASSUME PlugIn
    PROVE  /\ UNCHANGED <<loop, main, connected, device, status, btc, told, clobbered>>
           /\ \A x : x \notin Parts => (x \in owed' <=> x \in owed)
           /\ owed \subseteq owed'
           /\ "status" \notin Parts /\ "device" \notin Parts
BY DEF PlugIn, Parts

\* The flag has been written, or is still to be written, at each position; only
\* the way out of a failed identification knows of the failure.
PositionMatchesFlag ==
    /\ main.pc \in {"add", "flag", "lower", "blank"} => ~connected
    /\ main.pc \in {"raise", "identify", "copy", "remove", "unflag"} => connected
    /\ main.pc \notin {"remove", "unflag", "lower"} => ~main.failed

\* Initially the loop is at its head.
LEMMA PositionInit == Init => PositionMatchesFlag
BY DEF Init, Fresh, PositionMatchesFlag

\* Every step keeps the position and the flag in line.
LEMMA PositionStep == TypeOK /\ PositionMatchesFlag /\ [Next]_vars => PositionMatchesFlag'
<1> SUFFICES ASSUME TypeOK, PositionMatchesFlag, [Next]_vars PROVE PositionMatchesFlag'
    OBVIOUS
<1> USE DEF PositionMatchesFlag
<1>1. CASE UNCHANGED <<main, connected>>
    BY <1>1
<1>2. CASE StartUp \/ ShutDown
    BY <1>2, GotoEffect DEF StartUp, ShutDown, Replace
<1>3. CASE Sense \/ Add \/ Remove \/ Raise \/ Identify
  <2>1. UNCHANGED connected BY <1>3 DEF Sense, Add, Remove, Raise, Identify
  <2>2. CASE Sense BY <2>1, <2>2, Moves
  <2>3. CASE Add \/ Remove BY <2>1, <2>3, Moves
  <2>4. CASE Raise \/ Identify BY <2>1, <2>4, Moves
  <2> QED BY <1>3, <2>2, <2>3, <2>4
<1>4. CASE Flag \/ Unflag
  <2>1. CASE Flag
    <3>1. connected' = TRUE BY <2>1 DEF Flag
    <3> QED BY <2>1, <3>1, Moves
  <2>2. CASE Unflag
    <3>1. connected' = FALSE BY <2>2 DEF Unflag
    <3>2. loop = "hid" \/ ~main.failed BY GotoEffect
    <3> QED BY <2>2, <3>1, <3>2, Moves
  <2> QED BY <1>4, <2>1, <2>2
<1>5. CASE CopyCalibration \/ BlankPassthrough \/ ReportPlug
    BY <1>5, Moves DEF CopyCalibration, BlankPassthrough, ReportPlug
<1>6. CASE Lower
    BY <1>6, Moves DEF Lower, LowerTo
<1>7. CASE RaiseLoad \/ LowerLoad \/ ReportLoad
    BY <1>7, <1>1 DEF RaiseLoad, LowerLoad, ReportLoad
<1>8. CASE PlugIn
    BY <1>8, <1>1, PlugInEffect
<1> QED
    BY <1>1, <1>2, <1>3, <1>4, <1>5, <1>6, <1>7, <1>8, MainStays DEF Main

\* The position is in line with the flag throughout.
LEMMA PositionsMatch == Spec => [](TypeOK /\ PositionMatchesFlag)
BY StatusTypeCorrect, PositionInit, PositionStep, PTL DEF Spec

----------------------------------------------------------------------------
(***************************************************************************)
(* The device on the bus.                                                  *)
(***************************************************************************)
DeviceSoFar ==
    "device" \notin owed =>
        /\ main.pc = "flag" => device = "attached"
        /\ main.pc = "unflag" => device # "attached"
        /\ main.pc \notin {"flag", "unflag"} => (connected <=> device = "attached")

\* Initially there is neither device nor flag.
LEMMA DeviceInit == Init => DeviceSoFar
BY DEF Init, Fresh, DeviceSoFar

\* Every step keeps the device in line with the flag, or owes it.
LEMMA DeviceStep == TypeOK /\ DeviceSoFar /\ [Next]_vars => DeviceSoFar'
<1> SUFFICES ASSUME TypeOK, DeviceSoFar, [Next]_vars PROVE DeviceSoFar'
    OBVIOUS
<1> USE DEF DeviceSoFar
<1>1. CASE UNCHANGED <<main, connected, device, owed>>
    BY <1>1
<1>2. CASE StartUp \/ ShutDown
    BY <1>2, GotoEffect DEF StartUp, ShutDown, Replace, Undone
<1>3. CASE Add \/ Remove
    BY <1>3, Moves DEF Add, Remove
<1>4. CASE Flag \/ Unflag
    BY <1>4, Moves DEF Flag, Unflag
<1>5. CASE Sense \/ Identify \/ ReportPlug
  <2>1. /\ UNCHANGED <<connected, device>>
        /\ "device" \in owed' <=> "device" \in owed
      BY <1>5 DEF Sense, Identify, ReportPlug
  <2>2. /\ main.pc \notin {"flag", "unflag"}
        /\ main'.pc \notin {"flag", "unflag"}
      BY <1>5, Moves
  <2> QED BY <2>1, <2>2
<1>6. CASE CopyCalibration \/ BlankPassthrough
    BY <1>6, Moves DEF CopyCalibration, BlankPassthrough, Parts
<1>7. CASE Raise \/ Lower
  <2>1. UNCHANGED <<connected, device>> /\ owed' = owed \ {"status"}
      BY <1>7 DEF Raise, Lower, LowerTo
  <2>2. /\ main.pc \notin {"flag", "unflag"}
        /\ main'.pc \notin {"flag", "unflag"}
      BY <1>7, Moves
  <2> QED BY <2>1, <2>2
<1>8. CASE RaiseLoad \/ LowerLoad \/ ReportLoad
    BY <1>8, <1>1 DEF RaiseLoad, LowerLoad, ReportLoad
<1>9. CASE PlugIn
    BY <1>9, PlugInEffect
<1> QED
    BY <1>1, <1>2, <1>3, <1>4, <1>5, <1>6, <1>7, <1>8, <1>9, MainStays DEF Main

\* The I2C device is on the bus exactly while the flag says so, except after a
\* device could not be added or a loop was deleted between the two writes, until a device is next added or removed.
THEOREM DeviceKeptInLine == Spec => []DeviceMatchesFlag
<1>1. DeviceSoFar => DeviceMatchesFlag
    BY DEF DeviceSoFar, DeviceMatchesFlag
<1> QED BY <1>1, StatusTypeCorrect, DeviceInit, DeviceStep, PTL DEF Spec

----------------------------------------------------------------------------
(***************************************************************************)
(* The pass-through registers.                                             *)
(***************************************************************************)
\* Part p of the registers, unless it is owed: there, with an extension whose
\* plug handling is over; begun, between its ID and its calibration. Before, and
\* if it could not be identified, it left nothing.
PartSoFar(p, there, begun) ==
    p \notin owed =>
        /\ main.pc \in {"loop", "add", "flag", "report"} \/ loop = "other"
           => passthrough[p] \in IF connected THEN there ELSE {"nothing"}
        /\ main.pc = "copy" => passthrough[p] = begun
        /\ main.pc \in {"raise", "identify"} \/ main.failed
           => passthrough[p] = "nothing"

IdSoFar == PartSoFar("id", {"now"}, "now")
CalibrationSoFar == PartSoFar("calibration", {"now", "nothing"}, "nothing")
RegistersSoFar == IdSoFar /\ CalibrationSoFar

\* Initially the registers are empty and nothing is connected.
LEMMA RegistersInit == Init => RegistersSoFar
BY DEF Init, Fresh, Blank, Parts, RegistersSoFar, IdSoFar, CalibrationSoFar, PartSoFar

\* An extension that is plugged in ages what is there, and is owed it unless the
\* HID loop is about to blank it.
LEMMA RegistersPlugIn ==
    ASSUME TypeOK, PositionMatchesFlag, RegistersSoFar, PlugIn
    PROVE  RegistersSoFar'
<1>1. ASSUME NEW p \in Parts, p \notin owed', connected,
             ~(loop = "hid" /\ main.pc \in {"remove", "unflag"})
      PROVE  passthrough'[p] = passthrough[p]
    BY <1>1 DEF PlugIn
<1>2. ASSUME NEW p \in Parts, passthrough[p] = "nothing"
      PROVE  passthrough'[p] = "nothing"
    BY <1>2 DEF PlugIn
<1>3. UNCHANGED <<loop, main, connected>> /\ owed \subseteq owed'
    BY PlugInEffect
<1>4. ASSUME NEW p \in Parts, NEW there, NEW begun, PartSoFar(p, there, begun)
      PROVE  PartSoFar(p, there, begun)'
  <2>1. CASE loop = "hid" /\ main.pc \in {"remove", "unflag"}
      BY <1>2, <1>3, <1>4, <2>1 DEF PartSoFar
  <2>2. CASE ~(loop = "hid" /\ main.pc \in {"remove", "unflag"})
      BY <1>1, <1>2, <1>3, <1>4, <2>2 DEF PartSoFar, PositionMatchesFlag
  <2> QED BY <2>1, <2>2
<1>5. "id" \in Parts /\ "calibration" \in Parts BY DEF Parts
<1> QED BY <1>4, <1>5 DEF RegistersSoFar, IdSoFar, CalibrationSoFar

\* Every step keeps the registers in line with the flag, or owes them.
LEMMA RegistersStep ==
    TypeOK /\ PositionMatchesFlag /\ RegistersSoFar /\ [Next]_vars => RegistersSoFar'
<1> SUFFICES ASSUME TypeOK, PositionMatchesFlag, RegistersSoFar, [Next]_vars
             PROVE  RegistersSoFar'
    OBVIOUS
<1> USE DEF RegistersSoFar, IdSoFar, CalibrationSoFar, PartSoFar
<1>0. /\ passthrough \in [Parts -> {"nothing", "now", "earlier"}]
      /\ Parts = {"id", "calibration"}
    BY DEF TypeOK, Parts
<1>1. CASE UNCHANGED <<loop, main, connected, passthrough, owed>>
    BY <1>1
<1>2. CASE StartUp \/ ShutDown
  <2>1. /\ main'.pc = "loop" /\ main'.failed = FALSE
        /\ UNCHANGED <<connected, passthrough>>
        /\ owed \cup Undone \subseteq owed'
      BY <1>2, GotoEffect DEF StartUp, ShutDown, Replace
  <2>2. loop = "hid" /\ main.pc # "loop" => Parts \subseteq Undone
      BY DEF Undone
  <2>3. CASE main.pc = "loop"
      BY <2>1, <2>3
  <2>4. CASE loop = "other"
      BY <2>1, <2>4
  <2>5. CASE loop = "hid" /\ main.pc # "loop"
      BY <1>0, <2>1, <2>2, <2>5
  <2> QED BY <2>3, <2>4, <2>5, GotoEffect
<1>3. CASE Sense
    BY <1>3, Moves, GotoEffect DEF Sense, notMain, PositionMatchesFlag
<1>4. CASE Add \/ Remove
  <2>1. /\ UNCHANGED <<loop, connected, passthrough>>
        /\ \A p \in Parts : p \in owed' <=> p \in owed
      BY <1>0, <1>4 DEF Add, Remove, notMain
  <2> QED BY <1>0, <1>4, <2>1, Moves
<1>5. CASE Flag \/ Unflag
  <2>1. /\ UNCHANGED <<loop, passthrough>>
        /\ loop = "other" => Parts \subseteq owed'
        /\ owed \subseteq owed'
      BY <1>5, GotoEffect DEF Flag, Unflag, LeftOut, notMain
  <2>2. main'.pc = IF loop = "other" THEN "loop"
                   ELSE IF Flag THEN "raise" ELSE "lower"
      BY <1>5, Moves, GotoEffect
  <2>3. main'.failed = main.failed
      BY <1>5, Moves
  <2>4. CASE loop = "other"
      BY <1>0, <2>1, <2>4
  <2>5. CASE loop = "hid" /\ Flag
      BY <2>1, <2>2, <2>3, <2>5, Moves DEF PositionMatchesFlag
  <2>6. CASE loop = "hid" /\ Unflag /\ ~Flag
      BY <2>1, <2>2, <2>3, <2>6
  <2> QED BY <1>5, <2>4, <2>5, <2>6, GotoEffect
<1>6. CASE Identify
  <2>1. loop = "hid" /\ loop' = "hid"
      BY <1>6, Moves, GotoEffect DEF OtherSteps, Identify, notMain
  <2>2. main.pc = "identify" /\ ~main.failed
      BY <1>6, Moves DEF PositionMatchesFlag
  <2>3. /\ passthrough'["calibration"] = passthrough["calibration"]
        /\ "calibration" \in owed' <=> "calibration" \in owed
      BY <1>0, <1>6 DEF Identify
  <2>4. CASE Goto("copy") /\ passthrough' = [passthrough EXCEPT !["id"] = "now"]
    <3>1. main'.pc = "copy" /\ main'.failed = main.failed
        BY <2>4, GotoEffect
    <3>2. passthrough'["id"] = "now" BY <1>0, <2>4
    <3> QED BY <2>1, <2>2, <2>3, <3>1, <3>2
  <2>5. CASE main' = [pc |-> "remove", failed |-> TRUE] /\ UNCHANGED <<passthrough, owed>>
    <3>1. main'.pc = "remove" BY <2>5
    <3> QED BY <2>1, <2>2, <2>5, <3>1
  <2> QED BY <1>6, <2>4, <2>5 DEF Identify
<1>7. CASE CopyCalibration
  <2>1. loop = "hid" /\ loop' = "hid"
      BY <1>7, Moves, GotoEffect DEF OtherSteps, CopyCalibration, notMain
  <2>2. /\ UNCHANGED connected /\ connected
        /\ main.pc = "copy" /\ main'.pc = "report" /\ ~main'.failed
      BY <1>7, Moves DEF CopyCalibration, PositionMatchesFlag
  <2>3. /\ passthrough'["id"] = passthrough["id"]
        /\ "id" \in owed' <=> "id" \in owed
      BY <1>0, <1>7 DEF CopyCalibration
  <2>4. \/ passthrough'["calibration"] \in {"now", "nothing"}
        \/ /\ passthrough'["calibration"] = passthrough["calibration"]
           /\ "calibration" \in owed' <=> "calibration" \in owed
      BY <1>0, <1>7 DEF CopyCalibration
  <2> QED BY <2>1, <2>2, <2>3, <2>4
<1>8. CASE BlankPassthrough
  <2>1. loop = "hid" /\ loop' = "hid"
      BY <1>8, Moves, GotoEffect DEF OtherSteps, BlankPassthrough, notMain
  <2>2. /\ UNCHANGED connected /\ ~connected
        /\ main'.pc = "report" /\ ~main'.failed
        /\ \A p \in Parts : passthrough'[p] = "nothing"
      BY <1>8, Moves DEF BlankPassthrough, Blank, PositionMatchesFlag
  <2> QED BY <1>0, <2>1, <2>2
<1>9. CASE Raise \/ Lower \/ ReportPlug
  <2>1. /\ UNCHANGED <<loop, connected, passthrough>>
        /\ \A p \in Parts : p \in owed' <=> p \in owed
      BY <1>0, <1>9 DEF Raise, Lower, LowerTo, ReportPlug, notMain
  <2>2. CASE Raise BY <1>0, <2>1, <2>2, Moves DEF PositionMatchesFlag
  <2>3. CASE Lower BY <1>0, <2>1, <2>3, Moves DEF PositionMatchesFlag
  <2>4. CASE ReportPlug BY <1>0, <2>1, <2>4, Moves
  <2> QED BY <1>9, <2>2, <2>3, <2>4
<1>10. CASE RaiseLoad \/ LowerLoad \/ ReportLoad
    BY <1>10, <1>1 DEF RaiseLoad, LowerLoad, ReportLoad, notMain
<1>11. CASE PlugIn
    BY <1>11, RegistersPlugIn
<1> QED
    BY <1>1, <1>2, <1>3, <1>4, <1>5, <1>6, <1>7, <1>8, <1>9, <1>10, <1>11, MainStays
    DEF Main

\* The pass-through registers: whenever nothing is under way they hold the ID of
\* the connected extension, and its calibration or FF, although the result of
\* reading the calibration is not looked at; exceptions are a change left to the
\* other loop or to a loop that was deleted, and extensions swapped between two
\* polls.
THEOREM PassthroughKeptFresh == Spec => []PassthroughFresh
<1>1. RegistersSoFar => PassthroughFresh
    BY DEF RegistersSoFar, IdSoFar, CalibrationSoFar, PartSoFar, PassthroughFresh, AtRest
<1> QED BY <1>1, PositionsMatch, RegistersInit, RegistersStep, PTL DEF Spec

----------------------------------------------------------------------------
(***************************************************************************)
(* The extension bit.                                                      *)
(***************************************************************************)
\* What one step does to the extension bit: it is kept or marked, it is set, or
\* it is cleared.
Keeps == "EXTENSION" \notin clobbered'
         => "EXTENSION" \notin clobbered /\ (Shown' <=> Shown)
Sets == Shown' /\ "EXTENSION" \notin clobbered'
Clears == ~Shown'

\* The updates of the extension bit, and of the others.
LEMMA BitEffect ==
    ASSUME TypeOK
    PROVE  /\ Raise \/ WmpRaise \/ ExtensionRaise => Sets
           /\ Lower \/ ExtensionLower => Clears
           /\ LedClear \/ LedSet \/ EnableSet => Keeps
<1>1. "EXTENSION" \notin Leds /\ "EXTENSION" \notin Enables
    BY ExtensionAssumption DEF HostBits
<1>2. Raise \/ WmpRaise \/ ExtensionRaise => Sets
  <2>1. ASSUME NEW w, Store(w, {}, {"EXTENSION"}) PROVE Sets
      BY <2>1, StoreEffect DEF Sets, Shown
  <2> QED BY <2>1 DEF Raise, WmpRaise, ExtensionRaise, Update
<1>3. Lower \/ ExtensionLower => Clears
  <2>1. ASSUME NEW w, Store(w, {"EXTENSION"}, {}) PROVE Clears
      BY <2>1, StoreEffect DEF Clears, Shown
  <2> QED BY <2>1 DEF Lower, LowerTo, ExtensionLower, Update
<1>4. LedClear \/ LedSet \/ EnableSet => Keeps
  <2>1. ASSUME NEW drop, NEW add, "EXTENSION" \notin drop, "EXTENSION" \notin add,
               Store("btc", drop, add)
        PROVE  Keeps
      BY <2>1, StoreKeeps DEF Keeps, Shown
  <2>2. \A f \in Enables : "EXTENSION" \notin {f} BY <1>1
  <2> QED BY <1>1, <2>1, <2>2 DEF LedClear, LedSet, EnableSet, Update
<1> QED BY <1>2, <1>3, <1>4

\* While an extension is connected the bit is set but in the course of an
\* update, of either thread.
ShownSoFar ==
    (/\ connected
     /\ "status" \notin owed /\ "EXTENSION" \notin clobbered
     /\ main.pc # "raise"
     /\ btc \notin {"ext_unplugged", "ext_on", "ext_raise"})
    => Shown

\* Initially nothing is connected.
LEMMA ShownInit == Init => ShownSoFar
BY DEF Init, ShownSoFar

\* Steps of the main task, and its replacement.
LEMMA ShownMain ==
    ASSUME TypeOK, PositionMatchesFlag, ShownSoFar, StartUp \/ ShutDown \/ Main
    PROVE  ShownSoFar'
<1> USE DEF ShownSoFar, Shown
<1>1. CASE StartUp \/ ShutDown
  <2>1. /\ btc = "idle" /\ btc' = "idle" /\ UNCHANGED connected
        /\ owed \cup Undone \subseteq owed'
        /\ \/ UNCHANGED <<status, clobbered>>
           \/ connected => "status" \in owed'
      BY <1>1 DEF StartUp, ShutDown, Replace
  <2>2. main.pc = "raise" => "status" \in Undone
      BY GotoEffect DEF Undone, OtherSteps
  <2> QED BY <2>1, <2>2
<1>2. CASE Main
  <2>1. UNCHANGED <<loop, btc>> BY <1>2, MainFrame
  <2>2. CASE Flag \/ Unflag
      BY <2>1, <2>2, Moves, GotoEffect DEF Flag, Unflag, LeftOut
  <2>3. CASE Raise
      BY <2>3, BitEffect DEF Sets
  <2>4. CASE Lower
      BY <2>4, Moves DEF Lower, LowerTo, PositionMatchesFlag
  <2>5. CASE Sense \/ Add \/ Remove \/ Identify
    <3>1. /\ UNCHANGED <<connected, status, clobbered>>
          /\ "status" \in owed' <=> "status" \in owed
        BY <2>5 DEF Sense, Add, Remove, Identify
    <3> QED BY <2>1, <2>5, <3>1, Moves
  <2>6. CASE CopyCalibration \/ BlankPassthrough \/ ReportPlug
      BY <2>1, <2>6, Moves DEF CopyCalibration, BlankPassthrough, ReportPlug, Parts
  <2>7. CASE RaiseLoad \/ LowerLoad \/ ReportLoad
      BY <2>1, <2>7 DEF RaiseLoad, LowerLoad, ReportLoad
  <2> QED BY <1>2, <2>2, <2>3, <2>4, <2>5, <2>6, <2>7 DEF Main
<1> QED BY <1>1, <1>2

\* Steps of the BTC task.
LEMMA ShownBtc ==
    ASSUME TypeOK, ShownSoFar, Btc
    PROVE  ShownSoFar'
<1> USE DEF ShownSoFar
<1>1. UNCHANGED <<main, connected, owed>> BY BtcFrame
<1>2. CASE BtcLoad
    BY <1>1, <1>2 DEF BtcLoad, Shown
<1>3. CASE LedClear \/ LedSet \/ EnableSet
  <2>1. btc \notin {"ext_unplugged", "ext_on", "ext_raise"}
      BY <1>3, StepsAreNoEnables DEF LedClear, LedSet, EnableSet, Update
  <2> QED BY <1>1, <1>3, <2>1, BitEffect DEF Keeps
<1>4. CASE WmpRaise \/ ExtensionRaise
    BY <1>4, BitEffect DEF Sets
<1>5. CASE ExtensionLower
    BY <1>5 DEF ExtensionLower, Update
<1>6. CASE PlayerLeds \/ Enable \/ StatusRequest \/ ActivateWmp \/ ActivateExtension
  <2>1. btc = "idle" /\ UNCHANGED <<status, clobbered>>
      BY <1>6 DEF PlayerLeds, Enable, StatusRequest, ActivateWmp, ActivateExtension, Receive
  <2> QED BY <1>1, <2>1 DEF Shown
<1>7. CASE StatusReply \/ WmpStatus \/ ExtensionPlugged
  <2>1. /\ btc \in {"status", "wmp_status", "ext_status"}
        /\ UNCHANGED <<status, clobbered>>
      BY <1>7 DEF StatusReply, WmpStatus, ExtensionPlugged, Report
  <2> QED BY <1>1, <2>1 DEF Shown
<1>8. CASE ExtensionUnplugged
    BY <1>8 DEF ExtensionUnplugged, Report
<1>9. CASE ExtensionOn
    BY <1>9 DEF ExtensionOn
<1> QED
    BY <1>2, <1>3, <1>4, <1>5, <1>6, <1>7, <1>8, <1>9 DEF Btc

\* Every step keeps the invariant.
LEMMA ShownStep ==
    TypeOK /\ PositionMatchesFlag /\ ShownSoFar /\ [Next]_vars => ShownSoFar'
<1> SUFFICES ASSUME TypeOK, PositionMatchesFlag, ShownSoFar, [Next]_vars
             PROVE  ShownSoFar'
    OBVIOUS
<1>1. CASE UNCHANGED <<main, connected, owed, status, clobbered, btc>>
    BY <1>1 DEF ShownSoFar, Shown
<1>2. CASE Unplug \/ ReconnectRefused \/ UNCHANGED vars
    BY <1>1, <1>2 DEF Unplug, ReconnectRefused, vars
<1>3. CASE PlugIn
    BY <1>3, PlugInEffect DEF ShownSoFar, Shown
<1> QED BY <1>2, <1>3, ShownMain, ShownBtc DEF Next, World

\* Whenever nothing is under way and an extension is connected, the status byte
\* says so, but for a flag set outside the HID loop's complete sequence and for a
\* stale store.
THEOREM ConnectedKeptShown == Spec => []ConnectedIsShown
<1>1. ShownSoFar => ConnectedIsShown
    BY DEF ShownSoFar, ConnectedIsShown, AtRest
<1> QED BY <1>1, PositionsMatch, ShownInit, ShownStep, PTL DEF Spec

----------------------------------------------------------------------------
(***************************************************************************)
(* What the host has been told.                                            *)
(***************************************************************************)
\* While the bit is set and the last report said otherwise, the thread that set
\* it is on the way to a report, or the main task on the way to clear it.
TellsSoFar ==
    (/\ loop = "hid" /\ told = "out"
     /\ Shown /\ "EXTENSION" \notin clobbered)
    => \/ main.pc \in {"identify", "copy", "report", "remove", "unflag", "lower"}
       \/ btc \in {"wmp_status", "ext_status"}

\* A report that was not overtaken tells what the bit is.
LEMMA SendTells ==
    ASSUME NEW w, Send(w), UNCHANGED status
    PROVE  told' = "out" => ~Shown'
BY DEF Send, Told, Shown

\* Initially no report was sent.
LEMMA TellsInit == Init => TellsSoFar
BY DEF Init, TellsSoFar

\* Steps of the main task, and its replacement.
LEMMA TellsMain ==
    ASSUME TypeOK, TellsSoFar, StartUp \/ ShutDown \/ Main
    PROVE  TellsSoFar'
<1> USE DEF TellsSoFar
<1>1. CASE StartUp \/ ShutDown
    BY <1>1 DEF StartUp, ShutDown, Replace
<1>2. CASE Main
  <2>1. UNCHANGED <<loop, btc>> BY <1>2, MainFrame
  <2>2. CASE ReportPlug
      BY <2>2, SendTells DEF ReportPlug
  <2>3. CASE Raise
      BY <2>3, Moves
  <2>4. CASE Lower
      BY <2>4, BitEffect DEF Clears
  <2>5. CASE Flag \/ Unflag
      BY <2>1, <2>5, Moves DEF Flag, Unflag, Shown
  <2>6. CASE Sense \/ Add \/ Remove \/ Identify
      BY <2>1, <2>6, Moves DEF Sense, Add, Remove, Identify, Shown
  <2>7. CASE CopyCalibration \/ BlankPassthrough
      BY <2>1, <2>7, Moves DEF CopyCalibration, BlankPassthrough, Shown
  <2>8. CASE RaiseLoad \/ LowerLoad \/ ReportLoad
      BY <2>1, <2>8 DEF RaiseLoad, LowerLoad, ReportLoad, Shown
  <2> QED BY <1>2, <2>2, <2>3, <2>4, <2>5, <2>6, <2>7, <2>8 DEF Main
<1> QED BY <1>1, <1>2

\* Steps of the BTC task.
LEMMA TellsBtc ==
    ASSUME TypeOK, TellsSoFar, Btc
    PROVE  TellsSoFar'
<1> USE DEF TellsSoFar
<1>1. UNCHANGED <<loop, main>> BY BtcFrame
<1>2. CASE BtcLoad
    BY <1>1, <1>2 DEF BtcLoad, Shown
<1>3. CASE LedClear \/ LedSet \/ EnableSet
  <2>1. btc \notin {"wmp_status", "ext_status"} /\ UNCHANGED told
      BY <1>3, StepsAreNoEnables DEF LedClear, LedSet, EnableSet, Update
  <2> QED BY <1>1, <1>3, <2>1, BitEffect DEF Keeps
<1>4. CASE WmpRaise \/ ExtensionRaise
    BY <1>4 DEF WmpRaise, ExtensionRaise, Update
<1>5. CASE ExtensionLower
    BY <1>5, BitEffect DEF Clears
<1>6. CASE PlayerLeds \/ Enable \/ StatusRequest \/ ActivateWmp \/ ActivateExtension
  <2>1. btc = "idle" /\ UNCHANGED <<status, clobbered, told>>
      BY <1>6 DEF PlayerLeds, Enable, StatusRequest, ActivateWmp, ActivateExtension, Receive
  <2> QED BY <1>1, <2>1 DEF Shown
<1>7. CASE StatusReply \/ WmpStatus \/ ExtensionUnplugged \/ ExtensionPlugged
    BY <1>7, SendTells
    DEF StatusReply, WmpStatus, ExtensionUnplugged, ExtensionPlugged, Report
<1>8. CASE ExtensionOn
    BY <1>1, <1>8 DEF ExtensionOn, Shown
<1> QED
    BY <1>2, <1>3, <1>4, <1>5, <1>6, <1>7, <1>8 DEF Btc

\* Every step keeps the invariant.
LEMMA TellsStep == TypeOK /\ TellsSoFar /\ [Next]_vars => TellsSoFar'
<1> SUFFICES ASSUME TypeOK, TellsSoFar, [Next]_vars PROVE TellsSoFar'
    OBVIOUS
<1>1. CASE UNCHANGED <<loop, main, told, status, clobbered, btc>>
    BY <1>1 DEF TellsSoFar, Shown
<1>2. CASE Unplug \/ PlugIn \/ ReconnectRefused \/ UNCHANGED vars
    BY <1>1, <1>2 DEF Unplug, PlugIn, ReconnectRefused, vars
<1> QED BY <1>2, TellsMain, TellsBtc DEF Next, World

\* A host that has been sent a status report in this session is never left
\* believing that the port is empty when the bit is set, but for a report
\* overtaken by a change or a stale store.
THEOREM HostToldOfExtension == Spec => []HostNotUnaware
<1>1. TellsSoFar => HostNotUnaware
    BY DEF TellsSoFar, HostNotUnaware, AtRest
<1> QED BY <1>1, StatusTypeCorrect, TellsInit, TellsStep, PTL DEF Spec

=============================================================================
