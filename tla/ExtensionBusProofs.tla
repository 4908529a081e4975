------------------------ MODULE ExtensionBusProofs ------------------------
(***************************************************************************)
(* Proofs about ExtensionBus, for any set of registers.                    *)
(*                                                                         *)
(* ReadIsOwn is not inductive: that the bytes come from the right register *)
(* rests on the pointer standing there while the call is between its       *)
(* transfers (PointerStands), which another read could change if the mutex *)
(* did not keep it out (HolderIsInside).                                   *)
(***************************************************************************)
EXTENDS ExtensionBus, TLAPS

\* While an undisturbed read fetches, the pointer is where the read put it.
PointerStands ==
    \A t \in Threads :
        (Reads(t) /\ call[t].at \in {"fetch", "again"} /\ ~astray[t])
        => pointer = call[t].reg

\* The result is written when there is something to give back, not before.
ResultIsLast ==
    \A t \in Threads :
        call[t].at \in {"take", "select", "fetch", "again"} => result[t] = "none"

\* A call that runs on a removed handle is a disturbed one.
RemovedIsAstray ==
    \A t \in Threads : (handle = "removed" /\ ~Idle(t)) => astray[t]

\* A write is only ever about to transmit.
WriteHasOneStep ==
    \A t \in Threads : ~Reads(t) => call[t].at \in {"idle", "select"}

Inv ==
    /\ TypeOK
    /\ HolderIsInside
    /\ ReadIsOwn
    /\ PointerStands
    /\ ResultIsLast
    /\ RemovedIsAstray
    /\ WriteHasOneStep

\* The initial state satisfies the invariant.
LEMMA InitInv == Init => Inv
<1> USE BusAssumption DEF Init, NoCall, Idle, Reads
<1> SUFFICES ASSUME Init PROVE Inv
    OBVIOUS
<1>1. TypeOK BY DEF TypeOK, Threads, Ops, Points, Results
<1>2. \A t \in Threads : call[t].at = "idle" /\ Reads(t) /\ result[t] = "none"
    BY DEF Threads
<1>3. HolderIsInside BY <1>2 DEF HolderIsInside, Threads
<1>4. ReadIsOwn /\ PointerStands /\ ResultIsLast
    BY <1>2 DEF ReadIsOwn, PointerStands, ResultIsLast
<1>5. RemovedIsAstray /\ WriteHasOneStep
    BY <1>2 DEF RemovedIsAstray, WriteHasOneStep
<1> QED BY <1>1, <1>3, <1>4, <1>5 DEF Inv

\* Starting a call: nothing of an earlier one is left in it.
LEMMA BeginInv ==
    ASSUME Inv, NEW t \in Threads, NEW op \in Ops, NEW reg \in Regs, Begin(t, op, reg)
    PROVE  Inv'
<1> USE BusAssumption DEF Begin, Inv, port, Return, Idle, Reads
<1>1. TypeOK' BY DEF TypeOK, Threads, Ops, Points, Results
<1>2. HolderIsInside' BY DEF HolderIsInside, TypeOK, Threads, Ops
<1>3. ReadIsOwn' BY DEF ReadIsOwn, TypeOK, Threads, Ops
<1>4. PointerStands' BY DEF PointerStands, TypeOK, Threads, Ops
<1>5. ResultIsLast' BY DEF ResultIsLast, TypeOK, Threads, Ops
<1>6. RemovedIsAstray' BY DEF RemovedIsAstray, TypeOK, Threads, Ops
<1>7. WriteHasOneStep' BY DEF WriteHasOneStep, TypeOK, Threads, Ops
<1> QED BY <1>1, <1>2, <1>3, <1>4, <1>5, <1>6, <1>7

\* A refused call leaves an error and nothing under way.
LEMMA RefuseInv ==
    ASSUME Inv, NEW t \in Threads, NEW op \in Ops, Refuse(t, op)
    PROVE  Inv'
<1> USE BusAssumption DEF Refuse, Inv, port, Return, Idle, Reads
<1>1. TypeOK' BY DEF TypeOK, Threads, Ops, Points, Results
<1>2. HolderIsInside' BY DEF HolderIsInside, TypeOK, Threads, Ops
<1>3. ReadIsOwn' BY DEF ReadIsOwn, TypeOK, Threads, Ops
<1>4. PointerStands' BY DEF PointerStands, TypeOK, Threads, Ops
<1>5. ResultIsLast' BY DEF ResultIsLast, TypeOK, Threads, Ops
<1>6. RemovedIsAstray' BY DEF RemovedIsAstray, TypeOK, Threads, Ops
<1>7. WriteHasOneStep' BY DEF WriteHasOneStep, TypeOK, Threads, Ops
<1> QED BY <1>1, <1>2, <1>3, <1>4, <1>5, <1>6, <1>7

\* Taking the free mutex, or giving up on it.
LEMMA TakeInv ==
    ASSUME Inv, NEW t \in Threads, Take(t) \/ TakeTimesOut(t)
    PROVE  Inv'
<1> USE BusAssumption DEF Take, TakeTimesOut, Goto, Return, Inv, port, Idle, Reads
<1>1. TypeOK' BY DEF TypeOK, Threads, Ops, Points, Results
<1>2. HolderIsInside' BY DEF HolderIsInside, WriteHasOneStep, TypeOK, Threads, Ops
<1>3. ReadIsOwn' BY DEF ReadIsOwn, TypeOK, Threads, Ops
<1>4. PointerStands' BY DEF PointerStands, TypeOK, Threads, Ops
<1>5. ResultIsLast' BY DEF ResultIsLast, TypeOK, Threads, Ops
<1>6. RemovedIsAstray' BY DEF RemovedIsAstray, TypeOK, Threads, Ops
<1>7. WriteHasOneStep' BY DEF WriteHasOneStep, TypeOK, Threads, Ops
<1> QED BY <1>1, <1>2, <1>3, <1>4, <1>5, <1>6, <1>7

\* Waiting for the bus of the I2C driver ends in having it.
LEMMA GetBusInv ==
    ASSUME Inv, NEW t \in Threads, GetBus(t)
    PROVE  Inv'
<1> USE DEF GetBus, Inv, port, Idle, Reads
<1>1. TypeOK' BY DEF TypeOK
<1>2. HolderIsInside' /\ ReadIsOwn' /\ PointerStands'
    BY DEF HolderIsInside, ReadIsOwn, PointerStands
<1>3. ResultIsLast' /\ RemovedIsAstray' /\ WriteHasOneStep'
    BY DEF ResultIsLast, RemovedIsAstray, WriteHasOneStep
<1> QED BY <1>1, <1>2, <1>3

\* The first transfer: the mutex keeps the pointers of two reads apart, a write
\* leaves its mark on the read it disturbs.
LEMMA TransmitInv ==
    ASSUME Inv, NEW t \in Threads, Transmit(t)
    PROVE  Inv'
<1> USE BusAssumption DEF Inv, port, Idle, Reads
<1>1. CASE Reads(t)
  <2>1. /\ call' = [call EXCEPT ![t].at = "fetch"]
        /\ pointer' = call[t].reg /\ call[t].at = "select"
        /\ bus' = "free"
        /\ UNCHANGED <<port, mutex, data, result, astray>>
    BY <1>1 DEF Transmit, GiveBus, Goto
  <2>2. mutex = t
    BY <1>1, <2>1 DEF HolderIsInside
  <2>3. TypeOK' BY <2>1 DEF TypeOK, Threads, Ops, Points, Results
  <2>4. HolderIsInside' BY <1>1, <2>1 DEF HolderIsInside, TypeOK, Threads, Ops
  <2>5. ReadIsOwn' BY <2>1 DEF ReadIsOwn, TypeOK, Threads, Ops
  <2>6. PointerStands'
    BY <1>1, <2>1, <2>2 DEF PointerStands, HolderIsInside, TypeOK, Threads, Ops
  <2>7. ResultIsLast' BY <2>1 DEF ResultIsLast, TypeOK, Threads, Ops
  <2>8. RemovedIsAstray' BY <2>1 DEF RemovedIsAstray, TypeOK, Threads, Ops
  <2>9. WriteHasOneStep' BY <1>1, <2>1 DEF WriteHasOneStep, TypeOK, Threads, Ops
  <2> QED BY <2>3, <2>4, <2>5, <2>6, <2>7, <2>8, <2>9
<1>2. CASE ~Reads(t)
  <2>1. /\ call' = [call EXCEPT ![t].at = "idle"]
        /\ pointer' = call[t].reg
        /\ bus' = "free"
        /\ result' = [result EXCEPT ![t] = "ok"]
        /\ astray' = [u \in Threads |-> astray[u] \/ (u # t /\ ~Idle(u))]
        /\ UNCHANGED <<port, mutex, data>>
    BY <1>2 DEF Transmit, GiveBus, Goto, Return, Disturb
  <2>2. astray' \in [Threads -> BOOLEAN]
    BY <2>1 DEF TypeOK
  <2>3. TypeOK' BY <2>1, <2>2 DEF TypeOK, Threads, Ops, Points, Results
  <2>4. HolderIsInside' BY <1>2, <2>1 DEF HolderIsInside, TypeOK, Threads, Ops
  <2>5. ReadIsOwn' BY <1>2, <2>1 DEF ReadIsOwn, TypeOK, Threads, Ops
  <2>6. PointerStands' BY <1>2, <2>1 DEF PointerStands, TypeOK, Threads, Ops
  <2>7. ResultIsLast' BY <2>1 DEF ResultIsLast, TypeOK, Threads, Ops
  <2>8. RemovedIsAstray' BY <2>1 DEF RemovedIsAstray, TypeOK, Threads, Ops
  <2>9. WriteHasOneStep' BY <2>1 DEF WriteHasOneStep, TypeOK, Threads, Ops
  <2> QED BY <2>3, <2>4, <2>5, <2>6, <2>7, <2>8, <2>9
<1> QED BY <1>1, <1>2

\* A lost first transfer: each of the three calls has its own way on.
LEMMA TransmitFailsInv ==
    ASSUME Inv, NEW t \in Threads, TransmitFails(t)
    PROVE  Inv'
<1> USE BusAssumption DEF Inv, port, Idle, Reads
<1>1. CASE call[t].op = "read"
  <2>1. /\ call' = [call EXCEPT ![t].at = "give"] /\ call[t].at = "select"
        /\ result' = [result EXCEPT ![t] = "error"]
        /\ UNCHANGED astray
        /\ bus' = "free"
        /\ UNCHANGED <<port, pointer, mutex, data>>
    BY <1>1 DEF TransmitFails, GiveBus, Goto, Return, Disturb
  <2>2. astray' \in [Threads -> BOOLEAN]
    BY <2>1 DEF TypeOK
  <2>3. TypeOK' BY <2>1, <2>2 DEF TypeOK, Threads, Ops, Points, Results
  <2>4. HolderIsInside' BY <1>1, <2>1 DEF HolderIsInside, TypeOK, Threads, Ops
  <2>5. ReadIsOwn' BY <1>1, <2>1 DEF ReadIsOwn, ResultIsLast, TypeOK, Threads, Ops
  <2>6. PointerStands' BY <1>1, <2>1 DEF PointerStands, TypeOK, Threads, Ops
  <2>7. ResultIsLast' BY <1>1, <2>1 DEF ResultIsLast, TypeOK, Threads, Ops
  <2>8. RemovedIsAstray' BY <1>1, <2>1 DEF RemovedIsAstray, TypeOK, Threads, Ops
  <2>9. WriteHasOneStep' BY <1>1, <2>1 DEF WriteHasOneStep, TypeOK, Threads, Ops
  <2> QED BY <2>3, <2>4, <2>5, <2>6, <2>7, <2>8, <2>9
<1>2. CASE call[t].op = "raw"
  <2>1. /\ call' = [call EXCEPT ![t].at = "fetch"] /\ call[t].at = "select"
        /\ result' = result
        /\ astray' = [u \in Threads |-> astray[u] \/ (u = t /\ ~Idle(u))]
        /\ bus' = "free"
        /\ UNCHANGED <<port, pointer, mutex, data>>
    BY <1>2 DEF TransmitFails, GiveBus, Goto, Return, Disturb
  <2>2. astray' \in [Threads -> BOOLEAN]
    BY <2>1 DEF TypeOK
  <2>3. TypeOK' BY <2>1, <2>2 DEF TypeOK, Threads, Ops, Points, Results
  <2>4. HolderIsInside' BY <1>2, <2>1 DEF HolderIsInside, TypeOK, Threads, Ops
  <2>5. ReadIsOwn' BY <1>2, <2>1 DEF ReadIsOwn, ResultIsLast, TypeOK, Threads, Ops
  <2>6. PointerStands' BY <1>2, <2>1 DEF PointerStands, TypeOK, Threads, Ops
  <2>7. ResultIsLast' BY <1>2, <2>1 DEF ResultIsLast, TypeOK, Threads, Ops
  <2>8. RemovedIsAstray' BY <1>2, <2>1 DEF RemovedIsAstray, TypeOK, Threads, Ops
  <2>9. WriteHasOneStep' BY <1>2, <2>1 DEF WriteHasOneStep, TypeOK, Threads, Ops
  <2> QED BY <2>3, <2>4, <2>5, <2>6, <2>7, <2>8, <2>9
<1>3. CASE call[t].op = "write"
  <2>1. /\ call' = [call EXCEPT ![t].at = "idle"] /\ call[t].at = "select"
        /\ result' = [result EXCEPT ![t] = "error"]
        /\ UNCHANGED astray
        /\ bus' = "free"
        /\ UNCHANGED <<port, pointer, mutex, data>>
    BY <1>3 DEF TransmitFails, GiveBus, Goto, Return, Disturb
  <2>2. astray' \in [Threads -> BOOLEAN]
    BY <2>1 DEF TypeOK
  <2>3. TypeOK' BY <2>1, <2>2 DEF TypeOK, Threads, Ops, Points, Results
  <2>4. HolderIsInside' BY <1>3, <2>1 DEF HolderIsInside, TypeOK, Threads, Ops
  <2>5. ReadIsOwn' BY <1>3, <2>1 DEF ReadIsOwn, ResultIsLast, TypeOK, Threads, Ops
  <2>6. PointerStands' BY <1>3, <2>1 DEF PointerStands, TypeOK, Threads, Ops
  <2>7. ResultIsLast' BY <1>3, <2>1 DEF ResultIsLast, TypeOK, Threads, Ops
  <2>8. RemovedIsAstray' BY <1>3, <2>1 DEF RemovedIsAstray, TypeOK, Threads, Ops
  <2>9. WriteHasOneStep' BY <1>3, <2>1 DEF WriteHasOneStep, TypeOK, Threads, Ops
  <2> QED BY <2>3, <2>4, <2>5, <2>6, <2>7, <2>8, <2>9
<1>4. call[t].op \in Ops
    BY DEF TypeOK
<1> QED BY <1>1, <1>2, <1>3, <1>4 DEF Ops

\* The first transfer back.
LEMMA FetchInv ==
    ASSUME Inv, NEW t \in Threads, Fetch(t)
    PROVE  Inv'
<1> USE BusAssumption DEF Fetch, GiveBus, Goto, Return, Answers, Inv, port, Idle, Reads
<1>1. TypeOK' BY DEF TypeOK, Threads, Ops, Points, Results
<1>2. HolderIsInside' BY DEF HolderIsInside, TypeOK, Threads, Ops
<1>3. ReadIsOwn' BY DEF ReadIsOwn, PointerStands, RemovedIsAstray, TypeOK, Threads, Ops
<1>4. PointerStands' BY DEF PointerStands, TypeOK, Threads, Ops
<1>5. ResultIsLast' BY DEF ResultIsLast, TypeOK, Threads, Ops
<1>6. RemovedIsAstray' BY DEF RemovedIsAstray, TypeOK, Threads, Ops
<1>7. WriteHasOneStep' BY DEF WriteHasOneStep, TypeOK, Threads, Ops
<1> QED BY <1>1, <1>2, <1>3, <1>4, <1>5, <1>6, <1>7

\* The second transfer back.
LEMMA FetchAgainInv ==
    ASSUME Inv, NEW t \in Threads, FetchAgain(t)
    PROVE  Inv'
<1> USE BusAssumption DEF FetchAgain, GiveBus, Goto, Return, Answers, Inv, port, Idle, Reads
<1>1. TypeOK' BY DEF TypeOK, Threads, Ops, Points, Results
<1>2. HolderIsInside' BY DEF HolderIsInside, TypeOK, Threads, Ops
<1>3. ReadIsOwn' BY DEF ReadIsOwn, PointerStands, RemovedIsAstray, TypeOK, Threads, Ops
<1>4. PointerStands' BY DEF PointerStands, TypeOK, Threads, Ops
<1>5. ResultIsLast' BY DEF ResultIsLast, TypeOK, Threads, Ops
<1>6. RemovedIsAstray' BY DEF RemovedIsAstray, TypeOK, Threads, Ops
<1>7. WriteHasOneStep' BY DEF WriteHasOneStep, TypeOK, Threads, Ops
<1> QED BY <1>1, <1>2, <1>3, <1>4, <1>5, <1>6, <1>7

\* A limited wait for the bus that runs out.
LEMMA BusTimesOutInv ==
    ASSUME Inv, NEW t \in Threads, BusTimesOut(t)
    PROVE  Inv'
<1> USE BusAssumption DEF BusTimesOut, Goto, Return, Inv, port, Idle, Reads
<1>1. TypeOK' BY DEF TypeOK, Threads, Ops, Points, Results
<1>2. HolderIsInside' BY DEF HolderIsInside, TypeOK, Threads, Ops
<1>3. ReadIsOwn' BY DEF ReadIsOwn, TypeOK, Threads, Ops
<1>4. PointerStands' BY DEF PointerStands, TypeOK, Threads, Ops
<1>5. ResultIsLast' BY DEF ResultIsLast, TypeOK, Threads, Ops
<1>6. RemovedIsAstray' BY DEF RemovedIsAstray, TypeOK, Threads, Ops
<1>7. WriteHasOneStep' BY DEF WriteHasOneStep, TypeOK, Threads, Ops
<1> QED BY <1>1, <1>2, <1>3, <1>4, <1>5, <1>6, <1>7

\* Giving the mutex back.
LEMMA GiveInv ==
    ASSUME Inv, NEW t \in Threads, Give(t)
    PROVE  Inv'
<1> USE BusAssumption DEF Give, Goto, Inv, port, Idle, Reads
<1>1. TypeOK' BY DEF TypeOK, Threads, Ops, Points, Results
<1>2. HolderIsInside' BY DEF HolderIsInside, WriteHasOneStep, TypeOK, Threads, Ops
<1>3. ReadIsOwn' BY DEF ReadIsOwn, TypeOK, Threads, Ops
<1>4. PointerStands' BY DEF PointerStands, TypeOK, Threads, Ops
<1>5. ResultIsLast' BY DEF ResultIsLast, TypeOK, Threads, Ops
<1>6. RemovedIsAstray' BY DEF RemovedIsAstray, TypeOK, Threads, Ops
<1>7. WriteHasOneStep' BY DEF WriteHasOneStep, TypeOK, Threads, Ops
<1> QED BY <1>1, <1>2, <1>3, <1>4, <1>5, <1>6, <1>7

\* What the main loop does between its calls.
LEMMA LoopInv ==
    ASSUME Inv, Attach \/ Flag \/ Identified \/ Detach \/ Unflag
    PROVE  Inv'
<1> USE BusAssumption DEF Attach, Flag, Identified, Detach, Unflag, Disturb, Inv, port, Idle, Reads
<1>1. TypeOK' BY DEF TypeOK, Threads, Ops, Points, Results
<1>2. HolderIsInside' BY DEF HolderIsInside, TypeOK, Threads, Ops
<1>3. ReadIsOwn' BY DEF ReadIsOwn, TypeOK, Threads, Ops
<1>4. PointerStands' BY DEF PointerStands, TypeOK, Threads, Ops
<1>5. ResultIsLast' BY DEF ResultIsLast, TypeOK, Threads, Ops
<1>6. RemovedIsAstray' BY DEF RemovedIsAstray, TypeOK, Threads, Ops
<1>7. WriteHasOneStep' BY DEF WriteHasOneStep, TypeOK, Threads, Ops
<1> QED BY <1>1, <1>2, <1>3, <1>4, <1>5, <1>6, <1>7

\* A deleted main loop leaves no call behind, but the mutex if it had it.
LEMMA ReplaceInv ==
    ASSUME Inv, ReplaceLoop
    PROVE  Inv'
<1> USE BusAssumption DEF ReplaceLoop, NoCall, Return, Inv, port, Idle, Reads
<1>1. TypeOK' BY DEF TypeOK, Threads, Ops, Points, Results
<1>2. HolderIsInside' BY DEF HolderIsInside, TypeOK, Threads, Ops
<1>3. ReadIsOwn' BY DEF ReadIsOwn, TypeOK, Threads, Ops
<1>4. PointerStands' BY DEF PointerStands, TypeOK, Threads, Ops
<1>5. ResultIsLast' BY DEF ResultIsLast, TypeOK, Threads, Ops
<1>6. RemovedIsAstray' BY DEF RemovedIsAstray, TypeOK, Threads, Ops
<1>7. WriteHasOneStep' BY DEF WriteHasOneStep, TypeOK, Threads, Ops
<1> QED BY <1>1, <1>2, <1>3, <1>4, <1>5, <1>6, <1>7

\* Plugging and unplugging.
LEMMA PlugInv ==
    ASSUME Inv, Plug
    PROVE  Inv'
<1> USE BusAssumption DEF Plug, Disturb, Inv, port, Idle, Reads
<1>1. TypeOK' BY DEF TypeOK, Threads, Ops, Points, Results
<1>2. HolderIsInside' BY DEF HolderIsInside, TypeOK, Threads, Ops
<1>3. ReadIsOwn' BY DEF ReadIsOwn, TypeOK, Threads, Ops
<1>4. PointerStands' BY DEF PointerStands, TypeOK, Threads, Ops
<1>5. ResultIsLast' BY DEF ResultIsLast, TypeOK, Threads, Ops
<1>6. RemovedIsAstray' BY DEF RemovedIsAstray, TypeOK, Threads, Ops
<1>7. WriteHasOneStep' BY DEF WriteHasOneStep, TypeOK, Threads, Ops
<1> QED BY <1>1, <1>2, <1>3, <1>4, <1>5, <1>6, <1>7

\* Steps that change nothing.
LEMMA StutterInv == Inv /\ UNCHANGED vars => Inv'
BY DEF Inv, vars, TypeOK, HolderIsInside, ReadIsOwn, PointerStands, ResultIsLast,
       RemovedIsAstray, WriteHasOneStep, Idle, Reads

\* All steps together.
LEMMA NextInv == Inv /\ [Next]_vars => Inv'
<1> SUFFICES ASSUME Inv, [Next]_vars PROVE Inv'
    OBVIOUS
<1>1. ASSUME NEW t \in Threads, Step(t) \/ GetBus(t) PROVE Inv'
    BY <1>1, TakeInv, TransmitInv, TransmitFailsInv, FetchInv, FetchAgainInv, GiveInv,
       BusTimesOutInv, GetBusInv
    DEF Step
<1>2. ASSUME NEW op \in Ops, NEW reg \in Regs, HostCall(op, reg) \/ LoopIdentifies(op, reg)
      PROVE  Inv'
    BY <1>2, BeginInv DEF HostCall, LoopIdentifies, Threads
<1>3. ASSUME NEW op \in Ops, HostRefused(op) PROVE Inv'
    BY <1>3, RefuseInv DEF HostRefused, Threads
<1>4. CASE LoopSamples
    BY <1>4, BeginInv, BusAssumption DEF LoopSamples, Threads, Ops
<1>5. CASE Attach \/ Flag \/ Identified \/ Detach \/ Unflag
    BY <1>5, LoopInv
<1>6. CASE ReplaceLoop
    BY <1>6, ReplaceInv
<1>7. CASE Plug
    BY <1>7, PlugInv
<1>8. CASE UNCHANGED vars
    BY <1>8, StutterInv
<1> QED BY <1>1, <1>2, <1>3, <1>4, <1>5, <1>6, <1>7, <1>8 DEF Next

\* The invariant holds in every reachable state of extension_reg_read,
\* extension_reg_write and extension_get_raw_data_sync.
THEOREM BusInvariant == Spec => []Inv
<1>1. Init => Inv BY InitInv
<1>2. Inv /\ [Next]_vars => Inv' BY NextInv
<1> QED BY <1>1, <1>2, PTL DEF Spec

\* Every variable keeps its type.
THEOREM BusTypeCorrect == Spec => []TypeOK
<1>1. Inv => TypeOK BY DEF Inv
<1> QED BY <1>1, BusInvariant, PTL

\* A successful read that nothing disturbed holds the register it asked for:
\* xExtensionMutex is enough against the other thread's reads.
THEOREM ReadsAreOwn == Spec => []ReadIsOwn
<1>1. Inv => ReadIsOwn BY DEF Inv
<1> QED BY <1>1, BusInvariant, PTL

\* xExtensionMutex is held exactly between xSemaphoreTake and xSemaphoreGive.
THEOREM HoldersAreInside == Spec => []HolderIsInside
<1>1. Inv => HolderIsInside BY DEF Inv
<1> QED BY <1>1, BusInvariant, PTL

=============================================================================
