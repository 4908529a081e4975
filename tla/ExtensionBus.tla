--------------------------- MODULE ExtensionBus ---------------------------
(***************************************************************************)
(* The driver of the extension port (components/wiimote_extension) under   *)
(* its two users: the main loop ("main") and the BTC task ("btc").         *)
(*                                                                         *)
(* The device in the port has one register pointer. A read is two bus      *)
(* transfers: one that sets the pointer and one, or after a bad answer two, *)
(* that fetch what it points to. extension_reg_read and                    *)
(* extension_get_raw_data_sync hold xExtensionMutex over them;             *)
(* extension_reg_write, which moves the pointer too, takes no mutex.       *)
(* The BTC task may delete the main loop at any point of a call.           *)
(*                                                                         *)
(* The ESP-IDF driver serialises transfers with a lock of its own, which a  *)
(* thread has for the length of one. Only the first transfer back, and the *)
(* second one of extension_reg_read, stop waiting for it after a time; the *)
(* others wait for ever. Camera and motion sensor, on the same bus, are    *)
(* left out.                                                               *)
(*                                                                         *)
(* Bytes are named by the register they were fetched from. Time is left    *)
(* out: a vTaskDelay is a point where others may run, and a limited wait   *)
(* may run out whenever what it waits for is taken.                        *)
(***************************************************************************)
EXTENDS Naturals

CONSTANT Regs      \* register addresses that hosts and loops use

ASSUME BusAssumption == "00" \in Regs /\ "FF" \notin Regs /\ "stale" \notin Regs

Threads == {"main", "btc"}
Ops == {"read", "raw", "write"}  \* reg_read, get_raw_data_sync, reg_write
Points == {"idle", "take", "select", "fetch", "again", "give"}
Results == {"none", "ok", "error", "timeout"}

VARIABLES
    plugged,    \* a device is in the port
    pointer,    \* its register pointer
    connected,  \* extension_handle_connected
    handle,     \* extension_handle.i2c_handle: on the bus or removed
    session,    \* the main loop is mote_hid_main_task: a host is linked
    loop,       \* where the main loop is between its calls
    mutex,      \* xExtensionMutex: free, a thread, or the task that was deleted
    bus,        \* the lock of the I2C driver, likewise
    call,       \* the call each thread is in
    data,       \* the buffer of that call, by what it was filled from
    result,     \* what the call returns
    astray      \* history: the pointer may have left where the call put it

vars == <<plugged, pointer, connected, handle, session, loop, mutex, bus, call,
          data, result, astray>>
port == <<plugged, connected, handle, session, loop>>

NoCall == [op |-> "read", reg |-> "00", at |-> "idle"]
Idle(t) == call[t].at = "idle"
Reads(t) == call[t].op # "write"

TypeOK ==
    /\ plugged \in BOOLEAN
    /\ pointer \in Regs
    /\ connected \in BOOLEAN
    /\ handle \in {"live", "removed"}
    /\ session \in BOOLEAN
    /\ loop \in {"body", "flag", "identify", "unflag"}
    /\ mutex \in Threads \cup {"free", "deleted"}
    /\ bus \in Threads \cup {"free", "deleted"}
    /\ call \in [Threads -> [op : Ops, reg : Regs, at : Points]]
    /\ data \in [Threads -> Regs \cup {"stale", "FF"}]
    /\ result \in [Threads -> Results]
    /\ astray \in [Threads -> BOOLEAN]

Init ==
    /\ plugged \in BOOLEAN
    /\ pointer = "00"
    /\ connected = FALSE
    /\ handle = "removed"
    /\ session = FALSE
    /\ loop = "body"
    /\ mutex = "free"
    /\ bus = "free"
    /\ call = [t \in Threads |-> NoCall]
    /\ data = [t \in Threads |-> "stale"]
    /\ result = [t \in Threads |-> "none"]
    /\ astray = [t \in Threads |-> FALSE]

----------------------------------------------------------------------------
(***************************************************************************)
(* The calls                                                               *)
(***************************************************************************)
Goto(t, point) == call' = [call EXCEPT ![t].at = point]
Return(t, value) == result' = [result EXCEPT ![t] = value]

\* Whoever is in a call may find another pointer than the one it set.
Disturb(ts) == astray' = [t \in Threads |-> astray[t] \/ (t \in ts /\ ~Idle(t))]

\* A call passes the checks of its length. Only reads take the mutex.
Begin(t, op, reg) ==
    /\ Idle(t)
    /\ call' = [call EXCEPT ![t] = [op |-> op, reg |-> reg,
                                    at |-> IF op = "write" THEN "select" ELSE "take"]]
    /\ data' = [data EXCEPT ![t] = "stale"]
    /\ Return(t, "none")
    /\ astray' = [astray EXCEPT ![t] = handle = "removed"]
    /\ UNCHANGED <<port, pointer, mutex, bus>>

\* A read of length 0 or a write of 16 bytes fails at once.
Refuse(t, op) ==
    /\ Idle(t)
    /\ op # "raw"
    /\ call' = [call EXCEPT ![t].op = op]
    /\ data' = [data EXCEPT ![t] = "stale"]
    /\ Return(t, "error")
    /\ UNCHANGED <<port, pointer, mutex, bus, astray>>

\* Mutant of Take: the mutex is not waited for.
TakeAnyway(t) ==
    /\ call[t].at = "take"
    /\ mutex' = t
    /\ Goto(t, "select")
    /\ UNCHANGED <<port, pointer, bus, data, result, astray>>

\* xSemaphoreTake(xExtensionMutex, 10)
Take(t) ==
    /\ call[t].at = "take"
    /\ mutex = "free"
    /\ mutex' = t
    /\ Goto(t, "select")
    /\ UNCHANGED <<port, pointer, bus, data, result, astray>>

\* Mutant of TakeTimesOut: xSemaphoreTake(xExtensionMutex, portMAX_DELAY).
TakeWaits(t) == FALSE /\ UNCHANGED vars

TakeTimesOut(t) ==
    /\ call[t].at = "take"
    /\ mutex # "free"
    /\ Return(t, "timeout")
    /\ Goto(t, "idle")
    /\ UNCHANGED <<port, pointer, mutex, bus, data, astray>>

\* A transfer begins when its thread has the bus, and gives it back.
GetBus(t) ==
    /\ call[t].at \in {"select", "fetch", "again"}
    /\ bus = "free"
    /\ bus' = t
    /\ UNCHANGED <<port, pointer, mutex, call, data, result, astray>>

GiveBus(t) == bus = t /\ bus' = "free"

\* The transfer of the register address, with the bytes to write if any.
Transmit(t) ==
    /\ call[t].at = "select"
    /\ GiveBus(t)
    /\ plugged \/ handle = "removed"
    /\ pointer' = call[t].reg
    /\ IF Reads(t)
       THEN /\ Goto(t, "fetch")
            /\ UNCHANGED <<result, astray>>
       ELSE /\ Goto(t, "idle")
            /\ Return(t, "ok")
            /\ Disturb(Threads \ {t})
    /\ UNCHANGED <<port, mutex, data>>

\* Mutant of TransmitFails: extension_reg_read returns with the mutex.
TransmitFailsNoGive(t) ==
    /\ call[t].at = "select"
    /\ GiveBus(t)
    /\ call[t].op = "read"
    /\ Goto(t, "idle")
    /\ Return(t, "error")
    /\ UNCHANGED <<port, pointer, mutex, data, astray>>

\* extension_reg_read gives up, extension_get_raw_data_sync does not look.
TransmitFails(t) ==
    /\ call[t].at = "select"
    /\ GiveBus(t)
    /\ CASE call[t].op = "read"  -> /\ Goto(t, "give")
                                    /\ Return(t, "error")
                                    /\ UNCHANGED astray
         [] call[t].op = "raw"   -> /\ Goto(t, "fetch")
                                    /\ Disturb({t})
                                    /\ UNCHANGED result
         [] call[t].op = "write" -> /\ Goto(t, "idle")
                                    /\ Return(t, "error")
                                    /\ UNCHANGED astray
    /\ UNCHANGED <<port, pointer, mutex, data>>

\* What a transfer can bring: bytes from where the pointer stands; any bytes if
\* the handle has been freed, which is outside C.
Answers == IF handle = "removed" THEN Regs ELSE IF plugged THEN {pointer} ELSE {}

\* The first transfer back: a good answer, or an error or FF throughout.
Fetch(t) ==
    /\ call[t].at = "fetch"
    /\ GiveBus(t)
    /\ \/ /\ \E bytes \in Answers : data' = [data EXCEPT ![t] = bytes]
          /\ Goto(t, "give")
          /\ Return(t, "ok")
       \/ /\ data' \in {data, [data EXCEPT ![t] = "FF"]}
          /\ Goto(t, "again")
          /\ UNCHANGED result
    /\ UNCHANGED <<port, pointer, mutex, astray>>

\* Mutant of FetchAgain: an error leaves a buffer that is filled in part.
FetchAgainTorn(t) ==
    /\ call[t].at = "again"
    /\ GiveBus(t)
    /\ data' = [data EXCEPT ![t] = "torn"]
    /\ Return(t, "error")
    /\ Goto(t, "give")
    /\ UNCHANGED <<port, pointer, mutex, astray>>

\* The second one is believed, FF or not.
FetchAgain(t) ==
    /\ call[t].at = "again"
    /\ GiveBus(t)
    /\ \/ /\ \E bytes \in Answers \cup {"FF"} : data' = [data EXCEPT ![t] = bytes]
          /\ Return(t, "ok")
       \/ /\ Return(t, "error")
          /\ UNCHANGED data
    /\ Goto(t, "give")
    /\ UNCHANGED <<port, pointer, mutex, astray>>

\* The 6 ms of the first transfer back, or the 8 ms of the second one of
\* extension_reg_read, run out before it has the bus. The second one of
\* extension_get_raw_data_sync has no limit, and no transfer out has one.
BusTimesOut(t) ==
    /\ bus \notin {"free", t}
    /\ \/ /\ call[t].at = "fetch"
          /\ Goto(t, "again")
          /\ UNCHANGED result
       \/ /\ call[t].at = "again" /\ call[t].op = "read"
          /\ Goto(t, "give")
          /\ Return(t, "error")
    /\ UNCHANGED <<port, pointer, mutex, bus, data, astray>>

\* xSemaphoreGive(xExtensionMutex)
Give(t) ==
    /\ call[t].at = "give"
    /\ mutex' = "free"
    /\ Goto(t, "idle")
    /\ UNCHANGED <<port, pointer, bus, data, result, astray>>

Step(t) ==
    \/ Take(t) \/ TakeTimesOut(t)
    \/ Transmit(t) \/ TransmitFails(t)
    \/ Fetch(t) \/ FetchAgain(t) \/ BusTimesOut(t)
    \/ Give(t)

----------------------------------------------------------------------------
(***************************************************************************)
(* The users                                                               *)
(***************************************************************************)
\* Reports of a linked host: they test the flag and then call the driver.
HostCall(op, reg) ==
    /\ session /\ connected
    /\ Begin("btc", op, reg)

HostRefused(op) ==
    /\ session /\ connected
    /\ Refuse("btc", op)

\* A data report, or the display of the other loop.
LoopSamples ==
    /\ loop = "body" /\ connected
    /\ Begin("main", "raw", "00")

\* Enabling the extension, reading its identifier and its calibration.
LoopIdentifies(op, reg) ==
    /\ loop = "identify"
    /\ op # "raw"
    /\ Begin("main", op, reg)

\* extension_init of a plugged device, then the flag.
Attach ==
    /\ loop = "body" /\ Idle("main")
    /\ plugged /\ ~connected
    /\ handle' = "live"
    /\ loop' = "flag"
    /\ UNCHANGED <<plugged, pointer, connected, session, mutex, bus,
                   call, data, result, astray>>

Flag ==
    /\ loop = "flag"
    /\ connected' = TRUE
    /\ loop' = "identify"
    /\ UNCHANGED <<plugged, pointer, handle, session, mutex, bus,
                   call, data, result, astray>>

Identified ==
    /\ loop = "identify" /\ Idle("main")
    /\ loop' = "body"
    /\ UNCHANGED <<plugged, pointer, connected, handle, session, mutex, bus,
                   call, data, result, astray>>

\* extension_deinit, after an unplug or 50 failed tries of the HID loop, then the
\* flag. Calls of the other thread that are under way go on with the removed handle.
Detach ==
    /\ Idle("main")
    /\ \/ loop = "body" /\ connected /\ ~plugged
       \/ loop = "identify" /\ session
    /\ handle' = "removed"
    /\ loop' = "unflag"
    /\ Disturb(Threads)
    /\ UNCHANGED <<plugged, pointer, connected, session, mutex, bus, call,
                   data, result>>

Unflag ==
    /\ loop = "unflag"
    /\ connected' = FALSE
    /\ loop' = "body"
    /\ UNCHANGED <<plugged, pointer, handle, session, mutex, bus,
                   call, data, result, astray>>

\* vTaskDelete and xTaskCreate of a link that opens or closes, on the BTC task.
\* FreeRTOS does not release what a deleted task holds.
ReplaceLoop ==
    /\ Idle("btc")
    /\ session' \in BOOLEAN
    /\ loop' = "body"
    /\ mutex' = IF mutex = "main" THEN "deleted" ELSE mutex
    /\ bus' = IF bus = "main" THEN "deleted" ELSE bus
    /\ call' = [call EXCEPT !["main"] = NoCall]
    /\ data' = [data EXCEPT !["main"] = "stale"]
    /\ Return("main", "none")
    /\ astray' = [astray EXCEPT !["main"] = FALSE]
    /\ UNCHANGED <<plugged, pointer, connected, handle>>

\* The player; a device starts with some pointer of its own.
Plug ==
    /\ plugged' = ~plugged
    /\ pointer' \in Regs
    /\ Disturb(Threads)
    /\ UNCHANGED <<connected, handle, session, loop, mutex, bus, call, data, result>>

Next ==
    \/ \E t \in Threads : Step(t) \/ GetBus(t)
    \/ \E op \in Ops, reg \in Regs : HostCall(op, reg) \/ LoopIdentifies(op, reg)
    \/ \E op \in Ops : HostRefused(op)
    \/ LoopSamples
    \/ Attach \/ Flag \/ Identified \/ Detach \/ Unflag
    \/ ReplaceLoop
    \/ Plug

\* A thread that can go on does, a transfer that has the bus ends, and a thread
\* that waits for the bus gets it if it is given back again and again.
Spec ==
    /\ Init /\ [][Next]_vars
    /\ \A t \in Threads : WF_vars(Step(t)) /\ SF_vars(GetBus(t))

----------------------------------------------------------------------------
(***************************************************************************)
(* Properties                                                              *)
(***************************************************************************)
\* A read that reports success and that nothing got in the way of (no write of
\* the other thread, no unplug or removal, no lost first transfer) holds the
\* register that was asked for, whatever the other thread reads meanwhile.
ReadIsOwn ==
    \A t \in Threads :
        (Reads(t) /\ result[t] = "ok" /\ ~astray[t]) => data[t] \in {call[t].reg, "FF"}

\* The mutex is taken by exactly the thread that is between Take and Give: no
\* error path leaves with it, no path gives what it does not have.
HolderIsInside ==
    \A t \in Threads :
        mutex = t <=> (Reads(t) /\ call[t].at \in {"select", "fetch", "again", "give"})

\* A thread waits without a limit for the bus that a deleted main loop has taken
\* with it.
Hangs(t) ==
    /\ bus = "deleted"
    /\ \/ call[t].at = "select"
       \/ call[t].at = "again" /\ call[t].op = "raw"

\* Every call of the driver returns, also when the mutex is lost for good with a
\* deleted main loop. Exception: the loop was deleted inside a transfer, and the
\* call waits for the bus where the code sets no limit.
CallsReturn == \A t \in Threads : ~Idle(t) ~> Idle(t) \/ Hangs(t)

=============================================================================
