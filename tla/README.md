# A verification development for ESPmote

ESPmote is the firmware of an ESP32 that plays the part of a Wii Remote. This
directory holds TLA+ models of its core, the TLC runs that check them on small
instances and TLAPS proofs about them. Sources are quoted relative to `src/`;
`main.c` stands for `main/espmote_main.c`.

1. [Inventory](#1-inventory) - parts, state, operations, interactions
2. [Modules](#2-modules) - which module models what, and how it maps to the code
3. [Runs](#3-runs) - what each run asks and shows, bounds, fairness
4. [Disagreements](#4-disagreements-between-the-code-and-its-comments)
5. [Proofs](#5-proofs)
6. [What is not modelled](#6-what-is-not-modelled)
7. [Plan](#7-plan)

## 1. Inventory

### Threads

| Thread | Runs | Started |
|---|---|---|
| app_main | peripheral set-up, `esp_bt_hid_device_init`, then the first main task (`main.c:1955-2114`) | at reset |
| BTC task | `esp_bt_hidd_cb`, one stack event at a time, and `handle_output_reports` inside it | by Bluedroid, pinned to core 0 |
| esp_timer task | `reconnect_callback`, 2.5 s after a closed link | by ESP-IDF |
| main task | `mote_hid_main_task` while a console is connected, `mote_other_main_task` otherwise; created and deleted by the BTC task | by app_main, then by the BTC task |

The ESP32 has two cores and the main task is not pinned, so it really runs in
parallel with the BTC task. All state is in globals of `main.c`. The only lock in
the program is the mutex of the extension bus in `extension.c`.

### Components

| Component | State | Operations | What makes it correct |
|---|---|---|---|
| Connection life cycle | `s_bt_hid_param.task_hdl`, `attempt_to_reconnect`, `previous_connected_wii`, scan mode, reconnect timers | stack events, reconnect timer, SYNC / BOOT / A buttons | exactly one main loop, the right one for the link; the mote stays findable; drops are retried at the right console; its configuration survives them |
| Extension port, MotionPlus, status byte | `extension_handle(_connected)`, `status_byte`, `wii_motion_plus_enabled`, pass-through registers | plug and unplug in either loop, LED / speaker / camera / status reports, switches by register writes | status byte, reports, I2C device and registers all follow the plug and the host's commands |
| Memory and registers | `EEPROM_sim`, register blocks A2, A4, A6, B0 | `O_WRITE_MEMORY_REGISTERS`, `O_READ_MEMORY_REGISTERS`, replies 0x21, 0x22 | reads return what was written, complete and labelled; every request answered |
| Data input reports | `core_input_report`, `core_input_report_old`, `reportingMode`, sensor buffers | `mote_input_data_core` on every turn of the HID loop and on a change of mode | each byte comes from the sensor the layout names; nothing repeated, no change lost |
| Extension I2C driver | `xExtensionMutex`, the device handle, the register pointer in the device | register read, write, raw data, attach, detach | the mutex is held exactly inside a read; a read returns the register asked for; every call returns, but for those that wait for the lock of the I2C driver without a limit |
| IR camera driver | `IR_camera_settings`, `ir_raw_buffer`, register pointer in the camera | register reads and writes of the host, frame read, the two packings | a read brings the register it is for; a frame is sent in the format it was taken in |
| Accelerometer, gyroscope and Nunchuk encoding | the turn of the two MotionPlus frames | mg to 10 bits, mdps to 14 bits, bit scattering | a host reads back what was sensed; it can tell the frames apart |
| LSM6DS3 driver | registers of the sensor, `accel_mg`, `gyro_mdps`, `handle->calibration`, four NVS entries | set-up, reads, calibration, offsets, save, load | samples converted by their own scale; a sensor is corrected exactly when asked for, and by what was measured; offsets count only when set |
| Buttons, LEDs | `button_array` | ADC matrix scan, GPIO levels | - |
| Speaker, rumble | none that is read back | logged only | - |
| GAP and SDP callbacks | none | PIN reply, logging | PIN is the address of the right end |
| Tools, log parsers | offline | - | not firmware |

### How they interact

The BTC task is the hub. A link event makes it replace the main task
(`bt_hid_task_start_up`, `bt_hid_task_shut_down`); an output report makes it read
and write the same globals the main task uses. A change of the reporting mode
makes it call `mote_input_data_core` itself, over the buffers of the main task.
The reconnect timer and the buttons reach the stack through
`esp_bt_hid_device_connect` and `_disconnect`, whose outcomes come back as events
later. Both threads read the camera and the motion sensor, and the host reads and
writes the camera's registers through the BTC task. A plug seen by the main task changes `extension_handle_connected`, which
memory reports, data reports and the MotionPlus switch test.

### What is hard

- The main task is deleted between any two of its steps, plug handling included.
- Events, timer and button requests overtake each other; events carry the outcome
  of requests made long before.
- `status_byte`, the report buffers and the port flags are shared without a lock.
- Suppressed reports: a report that is equal to the remembered one is not sent, and one that
  could not be sent is remembered too.
- A read of the port is two transfers with a pointer in between that an unlocked
  write moves too; the thread inside may be deleted with the mutex, and inside a transfer with
  the lock of the I2C driver, for which most transfers wait without a limit.
- The camera has the same two-transfer read and no lock at all; most I2C results are
  ignored, so a mirror of its registers may lie.
- A calibration is saved as entries of their own, of which the third is always refused; power
  may go between any two.
- Loops over `uint8_t` lengths with limits at 16, 256 and 0x16FF.
- Sequences that undo themselves (MotionPlus identifier bytes changed for the
  length of a read; extension bit cleared and set around a switch).

`PROJECT.json` lists each of these as a hazard, at its line, with the properties
that guard it.

## 2. Modules

Every model keeps the control flow of the code - guards, early returns, error
paths and their order - and cuts a handler wherever another thread can get in
between. A `pc`-like field stands for the position inside a handler. Definitions
named "Mutant of ..." are plausible bugs; no specification uses them. They
document which slip each property would catch.

### LoopSwitch and MoteSession

`MoteSession` is the connection life cycle. `boot` is the progress of app_main,
`btc` the position of the BTC task inside `esp_bt_hidd_cb` with the event it
handles, `tmr` that of the timer task, `task[t]` the main tasks that exist with
their kind and position. `task_hdl` is `s_bt_hid_param.task_hdl`; it is separate
from `task` because nothing but the code keeps them in step. `ops` stands for the
operational variables (reporting mode, status byte, ...): whose reports set them,
or `NoHost` after a reset.

| Code | Actions |
|---|---|
| app_main | `InitPeripherals`, `FirstMainTask`, `Halted` (early return) |
| `ESP_HIDD_INIT_EVT`, `REGISTER_APP_EVT` | `OnInit`, `RegisterApp`, `OnRegister`, `RegisterConnect` |
| `ESP_HIDD_OPEN_EVT`, `bt_hid_task_start_up` | `OnOpen`, `Remember`, `ResetOperationals`, `StartDelete`, `StartCreate` |
| `ESP_HIDD_CLOSE_EVT`, `VC_UNPLUG_EVT`, `bt_hid_task_shut_down` | `OnClose`, `OnUnplug`, `ShutDelete`, `ShutCreate`, `ShutScan`, `ShutTimer` |
| `ESP_HIDD_INTR_DATA_EVT` | `OnReport` |
| `reconnect_callback` | `TimerFires`, `TimerConnect` |
| main loops, `check_sync` | `BootButton`, `CheckSync`, `OpenWindow`, `CloseWindow`, `ButtonA` |

The Bluetooth stack is not in the repository. It is modelled from the calls made
and the events handled: a request in the wrong state is answered by a failure
event, an accepted one by a "connecting" or "disconnecting" event and later by its
outcome; hosts page the mote when its scan mode allows, leave, and drop out.
Events are delivered in order.

`LoopSwitch` is the abstract specification of what start-up and shut-down promise:
after boot one loop exists, the HID loop only takes over from the other loop, and a
replacement once begun is finished. `MoteSession` implements it under the mapping
`Phase`.

### ExtensionStatus

The main task of either loop and the BTC task over `plugged` (level of the sense
pin), `connected`, `device`, `status` (the set of bits of `status_byte`), `wmp` and
the pass-through registers: for the identifier (`id`) and the calibration
(`calibration`) whether they hold data of the extension in the port (`now`), of an `earlier`
one, or FF (`nothing`). Every read of the extension may fail (`Answers`); the code ignores
the result of the calibration read. The replacement of the main task is one action here
(`Replace`), since MoteSession has its steps. Every update `status_byte |= x` and every
report of it is a load (`held`) and a store or send.

What the missing lock can spoil is recorded by history variables, so that the properties
can say that nothing else does: `clobbered` has the bits of another thread that a stale
store overwrote and that were not written since, `owed` what the last change of the flag
was not followed by because a loop was deleted or the other loop made the change, and the
registers that a swap of extensions between two polls left behind, `told`
the last status report of the session (`late` if the bit had changed by the time it was
sent). `commanded` is what the host has set.

| Code | Actions |
|---|---|
| HID loop, plug (`main.c:1264-1296`) | `Sense`, `Add`, `Flag`, `RaiseLoad`, `Raise`, `Identify`, `CopyCalibration`, `ReportLoad`, `ReportPlug` |
| HID loop, unplug or 50 failed tries | `Remove`, `Unflag`, `LowerLoad`, `Lower`, `BlankPassthrough`, `ReportLoad`, `ReportPlug` |
| the player | `Unplug`, `PlugIn` |
| other loop (`main.c:1344-1366`) | `Sense`, `Add`, `Flag`, `Remove`, `Unflag` |
| LED, speaker, camera, status reports | `PlayerLeds`, `LedClear`, `LedSet`, `Enable`, `EnableSet`, `StatusRequest`, `StatusReply`, each after a `BtcLoad` |
| write to A600FE | `ActivateWmp`, `WmpRaise`, `WmpStatus` |
| write of 55 to A400F0 | `ActivateExtension`, `ExtensionLower`, `ExtensionUnplugged`, `ExtensionOn`, `ExtensionRaise`, `ExtensionPlugged` |

### MemoryReports

One report at a time: `request` is the report being handled, `job` the loop of
`mote_input_data_read`, `out` the replies so far. Sizes go through a `uint8_t`
(`% Byte`), size nibbles through four bits (`% Chunk`). Of a register block only
the MotionPlus identifier bytes (`tag`) have contents: they are the ones a read
changes. `image` is history: the EEPROM as acknowledged writes left it.

Reads from the extension and the camera are limited to one chunk
(`size <= Chunk`): the code reads `size` bytes into a 16-byte array on the stack,
and what a longer one does is outside C.

### DataReports

`mote_input_data_core`, cut at sampling, `switch`, each load, compare, send and copy,
run by the threads `main` and `btc` over one buffer. A report is a row of cells, cut
at the offsets where any mode puts another source; a cell holds which sensor it was
loaded from and the reading. `Loads` is the table of the cases: source, offset and
length in the order of the code. Failed reads are modelled (`SampleFails`,
`LoadFails`): garbage in the accelerometer values, stale bytes or FF from the port. So are
failed sends (`SendFails`): the code remembers the report as if it were sent.
`view` is history: the last report of the session; `owed` says that nothing has
been sent since the remembered report was reset; `missed` that the remembered report
could not be sent.

### ExtensionBus

The three calls of the extension driver, cut at every transfer, made by the threads
`main` and `btc`. The device in the port has one register `pointer`; bytes are named
by the register they were fetched from (`data`), `stale` is what the buffer held
before. `handle` is the device handle of the I2C driver, `mutex` is
`xExtensionMutex`, `bus` the lock that the I2C driver of ESP-IDF holds for the length of a
transfer, and `astray` is history: something other than this call may have
moved the pointer.

| Code | Actions |
|---|---|
| `extension_reg_read`, `extension_get_raw_data_sync` | `Begin`, `Take` / `TakeTimesOut`, `GetBus`, `Transmit` / `TransmitFails`, `Fetch`, `FetchAgain`, `BusTimesOut`, `Give` |
| `extension_reg_write` | `Begin`, `GetBus`, `Transmit` / `TransmitFails`: no mutex |
| early returns on the length | `Refuse` |
| `extension_init`, `extension_deinit` with the flag of their callers | `Attach`, `Flag`, `Detach`, `Unflag` |
| reports of the host, sampling, identification | `HostCall`, `HostRefused`, `LoopSamples`, `LoopIdentifies`, `Identified` |
| `vTaskDelete` and `xTaskCreate` of the main task | `ReplaceLoop` |

A failed transfer may leave the buffer as it was or fill it with FF; one over a
removed handle, which is outside C, may bring the bytes of any register. A transfer waits for `bus`;
only those that the code gives a time (`extension.c:85`, `88`, `158`) stop waiting
(`BusTimesOut`), the others (`extension.c:58`, `77`, `155`, `162`) wait without a limit.

### ReportCodecs

How samples become the bytes of a report, one `Load` action per loader (`LoadCore`, and
`LoadExtension` with the gyroscope or the Nunchuk in pass-through), and operators named
`Host...` that decode those bytes as a console does. The layouts they decode are those of the
comments in the code (`main.c:497-500`) and of its Nunchuk decoder
(`extension_decompose_nunchuck`, `extension.c:172`). Samples are integers: milli-g, and
gyroscope counts of 70 mdps. Floating-point expressions are exact fractions, rounded where the
code converts to an integer. A negative float has no `uint16_t`: `Stored` offers the values
that compilers for this processor give it.

Reads may fail. The accelerometer values are then locals that were never set (`Unset`), and
the six bytes of gyroscope or Nunchuk stay as the report buffer has them: `frame` is what was
loaded there last, `KeepFrame` the report that carries it again, and `OtherLayout` stands for
the modes that put something else in its place. The packing of the camera's bytes is not in
this module (section 4).

### SensorBus

The camera (`camera`: registers and pointer) and the motion sensor (`imu`: full scales)
on the I2C bus, used by app_main for set-up and one reading each, and then by the threads
`main` and `btc` inside `mote_input_data_core`; the BTC task also passes the host's reads
and writes of block B0 on. One action is one transfer, which may fail; where the code
ignores the result the thread goes on. `mirror` is `IR_camera_settings`, `raw` is
`ir_raw_buffer` with the register it came from and the mode it was taken in, `loaded` what
a report got of it, `reading` the scale of the last sample and that of its factor.

`astray` (a thread whose pointer was not set or was moved, or whose format was changed,
since) and `unsure` (registers whose mirror may differ) are history.

| Code | Actions |
|---|---|
| set-up and first reading in app_main | `WhoAmI`, `AccelFs`, `GyroFs`, `BootAccel`, `BootScale`, `BootFrame`, `BootReceive` |
| `mote_input_data_core` | `Turn`, `ReadAccel`, `ScaleAccel`, `PointFrame`, `ReceiveFrame`, `FormatIr`, `CopyIr` / `SkipIr`, `ReadGyro`, `ScaleGyro` / `SkipGyro` |
| write to B0, read of B0 | `Write`, `WriteCamera`; `Read`, `PointRegister`, `ReceiveRegister` |
| camera clock and enable line | `Enable`: the camera's registers may be gone |
| `vTaskDelete` and `xTaskCreate` of the main task | `Replace` |

The threads begin when app_main has read its samples (`Booted`); what an earlier link does is
the subject of `session_boot_race`. Transfers of a deleted main task are taken as finished
or not begun.

### CalibrationStore

`handle` is `handle->calibration`: per sensor three offsets and a flag. `entries` is the
record in NVS, `flash` what a power loss would leave of it. `call` is the position in a save or
load, one entry at a time in the order of the code (`Order`). A sensor at rest shows `Level`
(gravity on one axis) plus its `bias`. `asked`, `fresh` and `unflagged` are history: the sensors
that a call since the power came wants corrected, those corrected by what a calibration has
measured, and those whose offsets were loaded while their flag was not set.

The key of the third entry, `accel_calibrated`, has 16 characters where NVS allows 15
(`Storable`). A save therefore ends there with an error, every time: it stores offsets at most,
never a flag, and its last write and its `nvs_commit` (`lsm6ds3.c:738-754`) are not reached, so
the model has no action for them. A read of any entry may fail (`UnreadEntry`): at offsets the
load gives up, flags are passed over.

| Code | Actions |
|---|---|
| `lsm6ds3_calibrate_*`, `lsm6ds3_set_*_offset`, `..._axis`, `lsm6ds3_clear_*` | `Calibrate`, `SetOffset`, `SetOffsetAxis`, `Clear` |
| `lsm6ds3_save_calibration_to_nvs` | `OpenSave`, `Write` |
| `lsm6ds3_load_calibration_from_nvs` | `OpenLoad`, `LoadEntry` / `UnreadEntry`, `EndLoad` |
| restart, `lsm6ds3_init` | `PowerLoss` |

Calls are made one at a time: nothing in `main.c` calls them yet, and the driver has no
lock. A power loss clears the handle as `lsm6ds3_init` does.

## 3. Runs

States are distinct states found by TLC.

| Run | Question | States |
|---|---|---|
| `session_safety` | one main loop, the right one; findable; the right console is retried | 827k |
| `session_liveness` | configuration kept, drops retried, `LoopSwitch` implemented with its liveness | 96k |
| `session_boot_race` | the same with links that may form during boot: violated | 4.9k |
| `extension_port` | status byte, reports, host's bits, registers and device follow the plug, with plugs, links and split updates at any time and reads that fail; the flag ends at the level of the plug | 1.6M |
| `extension_early_plug` | plug before the session: violated | 0.1k |
| `memory_reports` | reads return the image; identifier tags; every request answered to the end | 284k |
| `data_reports` | layout, no repetition, no lost change; one call at a time, reads and sends that fail | 309k |
| `data_race` | layout with both threads inside the function: violated | 0.2M |
| `extension_bus` | mutex held exactly inside reads, reads return their register, every call returns that does not wait for a lost bus | 268k |
| `report_codecs` | a host reads back buttons, accelerations, rates and Nunchuk; it can tell frames apart, also after failed reads | 755k |
| `sensor_bus` | camera reads bring their own register, frames go out in their format, samples have their scale | 2.1M |
| `calibration_store` | a sensor is corrected exactly when asked for, no dormant offsets but loaded ones, a calibrated sensor reads true | 144k |

### Bounds, and why they are enough

- **MoteSession**: two consoles, so that one can take over from the other;
  `MaxEvents = 2` bounds what hosts, radio and buttons add to the queue (requests
  by the program itself are never held back, the queue gets longer than two), so
  that a new event can be overtaken and a stale one be handled late; one armed timer
  (two in the liveness run, where an armed one meets the next drop); two task slots,
  so that a second, orphaned main task has a place to exist.
- **ExtensionStatus** has no counters: the runs are exhaustive. One bit `b` stands for the
  LED bits and for the enable bits: a bit is only compared with itself, and as both it is
  also written by two reports in turn. Section 5 removes the bound.
- **MemoryReports**: EEPROM of 6 bytes, chunks of 2, a byte of 5 values stand for
  0x1700, 16 and 256. Offsets and sizes reach one past every limit, so sizes of
  zero, one, a chunk, a multiple, one more, and one that overflows the byte occur. The
  proofs in section 5 remove these bounds.
- **DataReports**: two readings per sensor, every starting mode of port and camera,
  `MaxChanges = 2` changes of sensors, port, camera, mode, link or failing reads and sends
  between any two steps. One change against a call in progress and one against the
  next call are what the comparison with the remembered report can get wrong.
- **ExtensionBus**: two registers, the data that both loops sample and the identifier.
  Two calls interfere as soon as they want different registers; section 5 removes the
  bound.
- **ReportCodecs**: `Samples` moves one sensor at a time, as each part of a report
  is computed from one sensor. Accelerations and rates lie around every carry, sign,
  rounding step and limit, in all combinations of three axes; the last Nunchuk byte,
  which packs all the axes, takes all 256 values. Locals without a value are tried with
  all bits set and with every other one. The player moves only after a report of another layout, so
  that a kept frame is met at rest only: a frame of any sample is kept once, and what it
  is kept under does not depend on the sample. A slip in one bit of a mask or shift
  changes at least one of them.
- **SensorBus** has no counters: the run is exhaustive for one register of the camera,
  three modes of it (after a reset, and two that a report can be in) and three full scales
  (after a reset, wanted, and a code without a factor). A second register would only add
  reads that differ in their name; section 5 removes the bound.
- **CalibrationStore** has no counters: the run is exhaustive for two axes, one with gravity, one
  bias per axis and the offset zero set by hand, which all differ from what a calibration
  measures. Section 5 removes the bound.

### Fairness and why the code justifies it

`MoteSession`: weak fairness of app_main, of the BTC task and of the timer task.
FreeRTOS runs ready tasks, an armed esp_timer fires, none of the three waits for a
console. Hosts, radio and buttons are never assumed to act. `ExtensionStatus`: weak
fairness of the main task and of a report once begun. `DataReports`: weak fairness
of the two threads. The HID loop has no exit, and every call in it returns.
`SensorBus` and `CalibrationStore` state no fairness: their properties are invariants.
Both really may stop (app_main returns if the sensor does not answer; nobody need call).
`ExtensionBus`: weak fairness of the steps inside a call, not of making one, and strong fairness
of getting the bus (`GetBus`). A thread that has the bus is woken by the interrupt of the I2C
driver or by its error; the lock is a semaphore of FreeRTOS, which is handed to the task that
waits and so not taken by the other thread for ever. Both are properties of ESP-IDF, not of
this repository. No fairness says that a transfer without a limit ends when the bus is lost:
`CallsReturn` excepts it.

### Assumptions of single runs

- `ConfigurationKept` and `DropIsRetried` hold when `esp_bt_hid_device_connect` is
  never refused (`RequestMayFail = FALSE`): a refusal clears `attempt_to_reconnect`
  (`main.c:1767-1770`) and arms no new timer, so the next session starts from a reset.
- `extension_port`: the properties name what the missing lock spoils. `ConnectedIsShown`,
  `HostNotUnaware` and `HostBitsAsCommanded` except bits a stale store has overwritten
  (`clobbered`: `main.c:1447` against `1271`) until they are written again; no line of the
  repository claims otherwise. `ConnectedIsShown`, `PassthroughFresh` and `DeviceMatchesFlag`
  except what a deleted loop, the other loop, an I2C device that could not be added or a swap
  between two polls left undone (`owed`);
  `extension_early_plug` shows what that means for the host. `HostNotUnaware` excepts a
  report that was overtaken by a change.
- `RequestsAnswered` leaves out the speaker block, reads of blocks the mote lacks and sizes
  a `uint8_t` does not hold: the code does not answer them (section 4).
- `CameraReadIsOwn` excepts reads that the other thread's transfers, a toggled enable line or
  a failed first transfer got into, and `FormatIsFrames` frames that the host has changed the
  mode since or whose mode the camera may not have got; both do happen, and no line claims
  otherwise.
- `NothingDormant` excepts offsets that were loaded while the flag was not set (`unflagged`), as
  it is after every restart: the load returns ESP_OK with offsets that begin to count when one
  axis is set by hand.
- `NoChangeLost` and `SilentWhenUnchanged` except a report that could not be sent (`missed`):
  the change it carried is sent only when something changes or is set again.
- `CallsReturn` excepts a call that waits, where the code sets no limit, for a bus whose holder
  was deleted (`Hangs`).
- `HostTellsFrames` speaks of the six bytes that a frame was loaded into last, not of bytes of
  another layout that a failed read leaves there.
- `NoChangeLost` excludes mode 3d: there the FF bytes of an empty port equal the FF
  bytes that mean "nothing sent", so a host that sets mode 3d after an unplug gets no
  report. `SilentWhenUnchanged` excludes mode 33, which compares 21 bytes but
  remembers 17 (`main.c:1137-1139`) and so may send the same report on every turn.
- `ReadIsOwn` speaks of reads that no write of the other thread, unplug, removal or
  failed first transfer came between. With a write in between the register read may be
  another one: `extension_reg_write` takes no mutex (`extension.c:39-58`), and no line
  of the repository claims that it may be called during a read.
- `HostSeesRates` speaks of rates that fit 14 bits (`Fits`), `HostSeesCore` of
  accelerations up to 4 g, the range the sensor is set to. What lies outside is listed in section 4.
- `continuousReporting` (`main.c:1460`) is stored and never read: no report is repeated
  because a host asked for continuous reporting.

## 4. Disagreements between the code and its comments

| Run | What the code does | Line |
|---|---|---|
| `session_boot_race` | the first main task is created after the stack was started and overwrites the handle of a HID loop that an early link has created: both loops run | `main.c:2113` |
| `extension_early_plug` | a plug handled by the other loop is never shown in the status byte nor reported | `main.c:1349` |
| `data_race` | a change of mode during a turn of the HID loop: a report with the bytes of another layout, extension bytes as buttons | `main.c:1467` |

Seen while modelling, in the models as the code has it, without a run of their own:

- Writes to the speaker block are not acknowledged (`main.c:1541`); all others are
  (`main.c:1624`).
- Mode 36 puts the IR bytes at offset 5 (`main.c:1172`), where its comment puts them at 2
  (`main.c:1168`). `LayoutBut36` is the layout of all other modes.
- The IR bytes are cut out of `ir_raw_buffer` at offsets for a buffer that begins with the byte of
  register 0x36, as `pixart_ir.h:103-110` and `pixart_ir.c:95-102` document it. But
  `pixart_ir_get_raw_data` reads from 0x37 to skip this byte (`pixart_ir.c:122`), so that
  the buffer begins with X1: `load_IR_extended_buffer` (`raw + 1`, `main.c:816`) and
  `load_IR_basic_buffer` but for its first copy (`main.c:805-813`) are one byte off. The
  packing is therefore not modelled: no comment says which of the two is meant.
- A report that `esp_bt_hid_device_send_report` refuses is remembered as sent (`main.c:594`):
  its change is not sent again until something else changes (`SendFails`, `missed`).
- A failed read of the gyroscope leaves the six bytes of an earlier report (`main.c:874-878`),
  perhaps of another layout; a failed read of the accelerometer sends locals that were never set
  (`main.c:1082-1087`).
- The result of the calibration read at 0x20 is ignored (`main.c:1293`). With the registers at FF,
  as an unplug leaves them, the host then finds FF; it finds data of an earlier extension if
  extensions were swapped between two polls, or an unplug was handled by the other loop.
- Fast rotation is recognised in one direction only (`main.c:890-910`): below about
  -508 dps the value of the slow scale is negative before the conversion, above about
  2258 dps that of the fast scale needs more than 14 bits.
- A write of 16 bytes is refused by `extension_reg_write` (`extension.c:47`) and
  acknowledged as a success.
- `extension_get_raw_data_sync` ignores a failed first transfer (`extension.c:155`).
- A main task that is deleted inside a read takes the mutex with it: every later
  read of the port times out until the next reset (`ReplaceLoop`, `mutex = "deleted"`).
  `CallsReturn` shows that nobody waits for it for ever.
- One that is deleted inside a transfer takes the lock of the I2C driver with it
  (`bus = "deleted"`): the next transfer without a limit, on the BTC task too, waits for ever
  (`extension.c:58`, `77`, `155`, `162`).
- The extension bit is set by the switch to the extension even if an unplug was handled
  between the test of the flag and the store (`main.c:1552`, `1569`); it stays set with
  nothing in the port.
- Speaker and camera enable reports without bit 2 switch off but leave the status bit set
  (`main.c:1491`, `1730`).
- `pixart_ir_get_data` stores all four objects in the first; its result is only logged
  (`main.c:2110`).
- The NVS key `accel_calibrated` (`lsm6ds3.c:732`) has 16 characters, one more than ESP-IDF
  allows: a save ends at that entry with an error, every time. What a later load brings back
  are offsets without a flag, and it returns ESP_OK (`lsm6ds3.c:790-798`).

## 5. Proofs

TLAPS checks these for every value of the constants, without the bounds of section 3.

**MoteSessionProofs**

- `TypeCorrect`: `Spec => []TypeOK`, from `SessionAssumption` alone. `TypeOK` is not
  inductive: `Remember` stores the host of the event being handled and `LinkOpens`
  bonds the peer, so `Addressed` adds that every queued open event, the event being
  handled and the peer of a link carry the address of a console. The proof has a
  lemma per thread.
- `HandleNamesMainTask`: `Spec => []OneMainTask` if `ConnectDuringBoot = FALSE`, the
  assumption `session_boot_race` shows to be needed. `OneMainTask` says that the tasks
  that exist are those the handle names. It is not inductive: between
  delete and create the handle must be NULL (`NullBetween`), and before the end of
  app_main no event may be handled that creates a task (`BootIsQuiet`: no link is up
  and no queued event says so). `HandleIsTask` is the property itself, in the form
  each step preserves.

- `LoopsTakeTurns`, with the same assumption: `Spec => Abstract!Init /\ [][Abstract!Next]_Phase`, the safety part of
  `ImplementsLoopSwitch`. The hard step is the delete in `bt_hid_task_start_up`: it must
  find the other loop. `Alternates` says why: between two openings in the queue, and
  between the one being handled (`HidNext`) and the next, there is an end of a session,
  because a link opens again only after its end has been queued.
- `RightLoopRuns`, with the same assumption: `Spec => []LoopMatchesLink`. For this `Alternates` also says the
  converse: a link that is up was opened after every end in the queue (`OpensLast`).

- `MoteStaysFindable`, from `SessionAssumption` alone: `Spec => []Findable`. Without a link every event in the queue that
  closes the scan mode is followed by one that opens it (`ShownAfter`), and a mote that
  is hidden now has such an event ahead (`ShownNow`).
- `PresentHostIsRetried`: `Spec => []RetriesPresentHost`. The last opening in the queue
  is that of the present link, or it has been handled and `previous` is the peer or
  about to be (`PeerInv`).
- `ConfigurationSurvives`: `Spec => ConfigurationKept`, an action property, if
  `RequestMayFail = FALSE`. A report may only be taken once `attempt_to_reconnect` is set
  (`SetSince`); it is, because a report is queued behind an opening that has not been
  handled, or is being handled, or has set the flag (`ReportFollows`, `LinkFollows`).
- `RetryIsNotForgotten`: the steps `DropIsRetried` is made of, if `RequestMayFail = FALSE` and
  whenever links form. Until there is a link again, a reported drop is in the queue
  (`Dropped`), or in the callback, in an armed timer or in its request (`Pending`). The
  request leads to a link only if the mote is registered, and the invariant `OnceInv` says
  that it is: there is one INIT event, it is answered by one registration, and nothing is
  dropped before. What fairness adds, that the callback and the timer run, stays with TLC.

**MemoryReportsProofs**, from `MemoryAssumption` alone

- `MemoryTypeCorrect`: `Spec => []TypeOK`, which includes that a size nibble fits and
  that every byte read is a byte of the EEPROM. Needs `InBounds`: the range check was
  done before the loop started and the loop stays inside it.
- `ReadsReturnImage`: `Spec => []ReadReturnsImage`. The property speaks of the finished
  read; the invariant `ImageInv` says of the running one that the replies are the first
  `n` of those to come, where `n` chunks are what the loop index has passed
  (`SentSoFar`), and that EEPROM and `image` are equal.
- `TagsMatchBlocks`: `Spec => []TagMatchesBlock`. `TagInv`: the A4 tag is in the shared
  bytes only while an A4 read is being served from them.
- `EveryRequestAnswered`: `Spec => []RequestsAnswered`. Inside the loop the reports are as
  many as chunks lie below the index, whole but for the one that completes the size
  (`Loading`, `Filled`).

**ExtensionStatusProofs**, from `ExtensionAssumption` alone

- `StatusTypeCorrect`: `Spec => []TypeOK`.
- `HostBitsKept`: `Spec => []HostBitsAsCommanded`. Between reports the byte is what was
  commanded; inside one, `CommandedSoFar` says what the position in the sequence still owes,
  and that what a thread holds differs from the byte in bits that the store will mark.
- `DeviceKeptInLine`: `Spec => []DeviceMatchesFlag` (`PositionMatchesFlag`, `DeviceSoFar`: between
  device and flag the two differ the way the position says).
- `PassthroughKeptFresh`: `Spec => []PassthroughFresh` (`PartSoFar`: at each position of the plug
  handling each part of the registers is owed, or is what is allowed there).
- `ConnectedKeptShown`: `Spec => []ConnectedIsShown` (`ShownSoFar`: with an extension the bit is
  clear only before `Raise`, or inside the switch to the extension, which sets it again).
- `HostToldOfExtension`: `Spec => []HostNotUnaware` (`TellsSoFar`: whoever sets the bit has a
  report ahead until it is sent).

**SensorBusProofs**, from `SensorBusAssumption` alone

- `SensorTypeCorrect`: `Spec => []TypeOK`.
- `CameraReadsAreOwn`: `Spec => []CameraReadIsOwn`. Between its two transfers a thread owns the
  pointer or is marked (`PointerOwned`).
- `FormatsAreFrames`: `Spec => []FormatIsFrames`. A register that is not marked equals its mirror,
  the mode of the frame is the mirror's or unknown, and a thread about to copy holds the
  mirror's mode or is marked (`FormatSoFar`).
- `ScalesAreTrue`: `Spec => []ScaleIsTrue`. Full scales are set only while no other thread reads
  (`ScaleSoFar`).

**CalibrationStoreProofs**, from `CalibrationAssumption` alone

- `CalibrationTypeCorrect`: `Spec => []TypeOK`.
- `CorrectedAsAsked`: `Spec => []CorrectedOnRequest`. It rests on the record: no save gets past its
  third entry, so that neither the record nor the flash ever has a flag (`RecordIs`,
  `StorableIsOffset`), and a load has only offsets to bring.
- `NoneDormant`, `RestIsTrue`: `Spec => []NothingDormant`, `Spec => []RestReadsTrue`. `RecordIs` carries
  through the record and the flash which offsets were measured, `HandleIs` which of them count.

**ExtensionBusProofs**, from `BusAssumption` alone

- `BusTypeCorrect`: `Spec => []TypeOK`.
- `HoldersAreInside`: `Spec => []HolderIsInside`. A thread owns the mutex exactly between
  take and give, on the error paths too and with the main task deleted anywhere.
- `ReadsAreOwn`: `Spec => []ReadIsOwn`. It speaks of a finished read; the invariant says
  of the running one that the pointer stands at its register while it fetches
  (`PointerStands`), that only a finished transfer has a result (`ResultIsLast`), that
  a call on a removed handle is disturbed (`RemovedIsAstray`) and that a write is never
  at a point of a read (`WriteHasOneStep`). That no other read moves the pointer
  follows from `HolderIsInside`: two reads are never both past their take.

**DataReportsProofs**

- `DataTypeCorrect`: `Spec => []TypeOK`, with or without overlapping calls. It needs that a
  thread inside `switch` is in a case that exists (`InCase`).
- `ReportsAsDocumented`: `Spec => []LayoutBut36` if `Overlap = FALSE`, the assumption
  `data_race` shows to be needed: no change of mode falls into a turn of the HID loop.
  `LayoutSoFar` says of the report in the making that each byte that will be sent comes from
  the source its comment names or lies in a load still ahead; `Alone` that at most one thread
  is inside. `TablesAgree` compares the table of loads with that of the comments, once per
  mode.
- `NothingSentTwice`: `Spec => SilentWhenUnchanged`, an action property, under the same
  assumption. What is remembered equals the last report of the session wherever both count
  (`OldIsView`), and whoever is about to send has found a difference (`NewAtSend`). Two calls
  that are both past the comparison would send the same report.
- `OneTurnTells`: the steps `NoChangeLost` is made of, under the same assumption. A turn of the
  HID loop begins with `Telling`; steps of the threads keep it until a reading, a setting or
  the link changes or a read or the send fails; at the end of the turn it says that the last
  report shows what the sensors read (`UpToDate`), in every mode but 3d and 3e and unless the
  remembered report could not be sent. The case that matters is
  the report that is not sent: it equals the remembered one, which is the last one sent in
  this mode and session unless a report is owed (`Owing`), and then what is remembered is FF,
  which no button byte equals (`ButtonsShown`).
  `Fresh` says of the buffer in the making which cells are as the sensors read. What fairness
  adds, that a turn begins and ends, stays with TLC.

**ReportCodecsProofs**, from `CodecsAssumption` alone, for every sample (the run tries the
values around the carries)

- `CodecsInvariant` carries from the load to the host that the bytes on the wire are those of
  the sample the sensors still read (`OfSample`), and through any number of failed reads what
  mark and extension bit of the kept frame say (`FrameTold`); `CodecsTypeCorrect` that they are bytes.
- `CoreReachesHost`, `RatesReachHost`, `FramesAreTold`, `NunchukReachesHost`: the four properties
  of the run. Each rests on lemmas that say of one
  byte which bits and fields are found in it (`FirstByte`, `SecondByte`,
  `FrameByte`, `PassthroughByte`), and of a number that its parts give it back
  (`TenBitsSeen`, `ValueRead`). `RatesReachHost` also needs that division
  towards zero leaves less than the divisor (`QuotientIs`).

Every invariant and every action property that a passing run checks is a theorem here.
**Only model-checked**: liveness under fairness (`DropIsRetried`, `Converges`,
`NoChangeLost`, `CallsReturn`, the fairness part of
`ImplementsLoopSwitch`), which is out of the prover's reach. No module
uses a RECURSIVE operator and no result needs induction over data.

## 6. What is not modelled

- Rounding inside floating-point expressions: `ReportCodecs` computes with fractions,
  and its properties allow one unit of difference.
- In the LSM6DS3 driver: reset, block data update, data rates, offset and status registers,
  single register accesses that the firmware does not use or that change nothing a report
  shows. `lsm6ds3_fusion.c` is not called by the firmware: floating-point filters over reals.
- Reads of more than 16 bytes from block B0, which overrun an array on the stack.
- `xTaskCreate` that fails for want of memory (`main.c:1414`, `1424`, `2113`): the handle would
  then name no loop, and none would run until the next link event.
- The static `buttons_buffer` of `load_buttons_buffer` (`main.c:771`), which two calls at a time
  share: `data_reports` has one call at a time, and `data_race` stops at a worse mix of bytes.
- Writes of a host to the pass-through registers themselves (`main.c:1548`, `1579`): it may
  overwrite the identifier and the calibration that `PassthroughFresh` speaks of.
- The packing of the two IR formats (`main.c:805-817`), see section 4.
- ADC scan and LEDs: no state beyond the last sample; buttons are choices in
  `MoteSession` and a sensor in `DataReports`.
- Speaker data, mute and rumble are logged or stored and never read.
- GAP and SDP callbacks: the PIN reply depends on its event alone, SDP is logged.
- `tools/`, `kaitai/`, `logs/`, `potential/`: offline material, not firmware.
- In the models: contents of register blocks other than the identifier; the texts and
  timings of the LED animation; writes of more than 16 bytes and offsets beyond the
  register arrays, which the code does not check.

## 7. Plan

Done, in this order: MoteSession with LoopSwitch (it decides which thread may touch
what), ExtensionStatus, MemoryReports, DataReports, ExtensionBus, ReportCodecs, SensorBus,
CalibrationStore, and the proofs of section 5.

Next, most important first:

1. **Session with reports**: MoteSession composed with DataReports, so that the reset of
   the remembered report (`main.c:1835`) races the new HID loop step by step.
2. **Abstract bus**: a port on which each call is one step, implemented by ExtensionBus
   when no write overlaps a read.
3. Proofs: the steps that `Converges` is made of, as `OneTurnTells` and `RetryIsNotForgotten`
   have those of `NoChangeLost` and `DropIsRetried`: that a flag which is behind the plug is
   compared with it by a step still ahead of some loop.
