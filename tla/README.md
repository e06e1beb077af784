# TLA+ models of the msm8909w device tree

The repository is an Android device tree for a Snapdragon Wear (msm8909w) watch. Most of it is
configuration, policy, kernel headers and generated code. This project models the parts that are
programs with protocols of their own, checks them with TLC and proves the central invariants with
TLAPS. All paths below are relative to the repository (`src/`).

## 1. Inventory

| Component | State it keeps | Operations | Interacts with | What makes it correct |
|---|---|---|---|---|
| Safe boot update: `common/recovery/oem-recovery/gpt-utils.cpp`, `oem-updater.cpp`, `common/releasetools.py` | two GPT headers and entry arrays on eMMC, two copies of each boot partition | `prepare_boot_update(stage)`, image installers, the script | boot ROM (reads the same headers), kernel page cache, power | after a power loss at any instant the device boots a complete chain of one release; the update ends |
| Synchronous location requests: `loc_api_sync_req.c` | 8 slots, in-use flags, a mutex and a condition variable per slot | `loc_sync_send_req`, `loc_sync_process_ind` | caller threads, QMI indication thread | a caller gets its own answer or an error; no write through a dead buffer; nobody blocks for ever |
| QMI location client: `loc_api_v02_client.c` | callback data blocks, the QMI client | `locClientOpen`, `locClientClose`, indication and error callbacks, supported-message check | QMI library threads, the sync layer, LocApiV02 | a block is freed only with its client; failed opens leave nothing |
| Location adapter: `LocApiV02.cpp` | event masks, session flag, engine state, cached capabilities | `open`, `close`, `startFix`, `stopFix`, `updateRegistrationMask`, message handlers | MsgTask queue, modem | the modem sends what is wanted: all of it in a session, none of it afterwards |
| Data-call client: `ds_api/ds_client.c`, `LocApiV02.cpp` | QMI clients, session handle, profile answers | `openAndStartDataCall`, `closeDataCall` | QMI WDS, dsi library | the profile started supports emergency calls; what an open takes is given back |
| Power HAL: `common/power/*.c` | active hints, perf-lock handles, saved slack values | `power_hint`, `set_interactive` | perf library, sysfs, the cpufreq governor | every held lock belongs to a hint under way; saved values are restored |
| rmnet control: `librmnetctl.c` | netlink socket, transaction number | one request/response per command | kernel driver | a response is matched to its request |
| Bluetooth gateways: `sap/BluetoothSapService.java`, `dun/BluetoothDunService.java` | listening, RFCOMM and server sockets, three or four threads, authorisation, handler queue | intents, handler messages, accept/uplink/downlink/monitor loops | Bluetooth stack, user, sapd and dund | only an authorised client is forwarded, to its own server connection; the service listens again; no handler blocks |
| Bluetooth OBEX servers: `ftp/BluetoothFtpService.java`, `map/BluetoothMasService.java` | per instance a server socket, a connection, an OBEX session, an accept thread; one remote device | intents, handler messages, accept loop, session threads | Bluetooth stack, user, OBEX library | one authorised device at a time; everything is closed at the end; each instance listens again |
| Message notification client: `map/BluetoothMns.java`, `BluetoothMnsObexSession.java` | registered and waiting instances, the session, the event queue, wake locks | `MNS_*` messages, connect, disconnect and send threads | remote MNS server, content observers | registered is what the device asked for; every event's turn comes |
| Wireless power host: `wipower-host/a4wp/.../A4wpService.java`, `wipower_lib/.../WipowerManager.java` | the pad's connection, charging and output flags, wake lock, the chip's mode | GATT, chip, battery and advertising callbacks, start and destruction | charging pad, chip, battery monitor | the chip charges only as the pad told it; without a pad it looks for one in the right mode |
| Bluetooth proximity monitor | GATT connection state | GATT callbacks, intents | Bluetooth stack | alerts follow the link |
| Others: encrypted image installer, healthd, cryptfs_hw, soft AP SDK, datatop, dtbtool, init and shell scripts, display extensions, watch applications, test applications | little or none | sequential I/O, formatting, UI | - | - |

`PROJECT.json` lists every component with its status and the reason when it is not modelled, and
every hazard with the line where it bites. The hard behaviours are:

* **Power loss** between any two sector writes of the boot update, with a page cache that may
  write sectors back in another order, and a rerun of the script from its first line.
* **Indications against callers**: an answer before the wait, after the timeout, or twice for one
  ID; spurious wake-ups; more callers than slots.
* **Unlocked memory** shared by `locClientClose` and the callback thread, and steps that fail half
  way through `locClientOpen`.
* **Messages that are overtaken**: `stopFix` against queued engine-state messages; requests the
  modem obeys although the answer is lost; a service restart.
* **Threads that share static fields** in the Bluetooth services: accept, reader, session and
  connect threads against a main thread that closes sockets and joins them, with user answers,
  timeouts and close messages that name no connection.
* **Callbacks on four threads without a lock** in the wireless power host: each tests one field
  and writes another, and the calls of the chip in between take their time.
* **Pairs that come apart**: a hint begun under one governor and ended under another, an open of a
  data call that fails half way.

## 2. Modules

| Module | Models | Notes |
|---|---|---|
| `BootUpdate` | `prepare_boot_update`, its helpers, `BootUpdateFn` and the generated script | one action per sector write |
| `ABSlots` | abstract specification: two copies, one loaded, switch only to a complete one | |
| `BootUpdateRefinesAB` | the refinement mapping from `BootUpdate` to `ABSlots` | loaded copy = the one named by the table the ROM selects |
| `GptSwap` | the loops of `gpt_boot_chain_swap` and `gpt_pentry_seek` | checked against the meaning `BootUpdate` gives to the swap |
| `LocSyncReq` | `loc_api_sync_req.c` | one action per locked section |
| `LocClient` | open, close and callbacks of `loc_api_v02_client.c` | one action per read or write of shared memory |
| `LocSession` | masks, sessions and engine state of `LocApiV02.cpp` | MsgTask, callback thread and modem |
| `LocCapabilities` | `locClientSupportMsgCheck`, `checkQmiMsgsSupported`, the AON query of `open` | bit masks are sets of bit numbers |
| `BtGateway` | SAP and DUN, one program up to the differences `gwConfig` selects | one action per step of a thread; handlers are lists of steps the main thread works off |
| `BtObex` | FTP (one instance) and MAP (two instances) | as above |
| `BtMns` | the notification client | handler, connect, disconnect and send threads |
| `A4wp` | the wireless power host | handlers are lists of steps; a step is one access to a shared field or one call of the chip |
| `PowerHal` | hints, display state, the hint list and saved slack values | one action per HAL call |
| `DsClient` | `openAndStartDataCall` and `closeDataCall` | one action per library call, each may fail |
| `BootUpdateProofs`, `LocSyncReqProofs`, `LocClientProofs` | theorems and proofs | each about the module it is named after |
| `LocServicesProofs` | theorems about `DsClient`, `LocCapabilities` and `LocSession` | |
| `BoardProofs` | theorems about `GptSwap`, `PowerHal` and `A4wp` | |
| `BtMessageProofs` | theorems about `BtMns` | |
| `BtObexProofs` | theorems about `BtObex` | |
| `BtGatewayProofs` | theorems about `BtGateway` | |
| `MCBootUpdate`, `MCLocSyncReq`, `MCLocClient`, `MCLocSession` | instances for TLC | |
| `MCLocRequests` | one instance of `LocClient` and `LocSyncReq` | in a behaviour one of them runs |
| `MCDeviceServices` | one instance of the eight components that share no state: `BtGateway`, `BtObex`, `BtMns`, `A4wp`, `PowerHal`, `DsClient`, `GptSwap`, `LocCapabilities` | in a behaviour one of them runs and the others stay in an initial state |

Operators whose comment starts with "Mutant" are deliberately wrong variants of the definition
that follows; `PROJECT.json` names the property each of them must break. They are used by no
specification.

### BootUpdate

The device has two GPTs; the boot ROM takes the primary one when its header and entries check out
and the secondary one otherwise. The update stage is stored only in the two header signatures.
`dev` is what `read(2)` sees and `disk` what is on the eMMC: `Write` changes `dev`, and `disk` at
once when `Ordered`, otherwise when `WriteBack` or the fsync of `Exit` gets to it. A header is a
signature flag, a flag for its CRC and the entries its entries-CRC was taken of. An entries array is
a map from partition to the copy that carries the type GUID, and whether it is whole (it spans many
sectors, so its write has a beginning and an end). The control points of `prepare_boot_update` are
`call`, `chain_header`, `chain_entries`, `chain_entries_end`, `set_primary`, `set_secondary`,
`exit`; `flash` is the script installing the images of a stage. `IoFault` is any failing `blk_rw`;
`FailInstall` an installer whose result the script ignores; `PowerLoss` and `Restart` the crash and
the rerun; `Reapply` a second run of the same package. `Init` covers devices with any subset of the
backups, packages whose files map names a backup destination for any of the images (`destBak`; the
`radio/filesmap` of this repository names one for every image of the swap list), and one damaged
table. An image without a backup destination is installed into the main copy only, in stage main, so
`Complete` of `ABSlots` and `ChainUniform` are about the two groups of images, with (`paired`) and
without one; each group is all of one release. A block-device write is taken to store all of its sectors or to
fail, and fsync to succeed (see section 6).

### LocSyncReq

`loc_sync_call_mutex` is held by the indication thread for its whole loop (`ind.at # 0`), and by
callers to take and to free a slot (`Alloc`, `Free`). A call is named by caller and number; its
payload buffer has the same name and dies when it returns. An indication is matched on its key,
which stands for client handle and indication ID. `WakeSpuriously` and `TimeOut` are the two other
ways out of `pthread_cond_timedwait`.

### LocClient

A callback data block is the set of fields written so far. The callback thread reads it field by
field, and freed memory reads as anything. The QMI library is not in the repository, and nothing is
assumed about `qmi_client_release` and a callback that is already running: the release may return
under it, and clearing and freeing the block then race with its reads, which is what the comments at
`loc_api_v02_client.c:948-963` and `:1963-1966` speak of. `ReadsLiveData` is what remains true: only
a release can take the block away. `NotCalledAfterClose`, which the first comment claims, is false
(finding 4). A client whose release failed is `stuck`: it stays connected and keeps its block. `calloc`
may fail as `qmi_client_init` may. The retry limit (20 in the code) is `MaxTries`.

### LocSession

A mask is a set of bits, `convertMask` a union of events. `registered` is what the modem has been
told, and differs from the driver's belief when an answer is lost. `msgs` is the MsgTask queue and
`inds` what the QMI callback thread has not yet queued. `startFix` and `stopFix` are several
requests, so they are several actions (`task`); MsgTask runs nothing else meanwhile, the modem and
the callback thread do. Two history variables say under which conditions a property is claimed:
`trouble` (a request of the session was refused, or an answer was lost) and `env.haste` (an adapter
changed masks or stopped a fix before the engine state had settled). Position conversion, satellite
reports, NI and the other request wrappers are not modelled.

### LocCapabilities

The bitmap of supported messages has any of eight lengths around the bytes that matter. The static
cache is filled by the first request that is answered and survives closing the client. Between two
opens the service may come back on a modem with other answers (`CapModemRestart`); the cache is not
refreshed, and the property says so: what is saved is what the *first* modem answered. Bit `i` is
message `i` of `msgArray` (`LocApiV02.cpp:237-247`).

### BtGateway

A connection is numbered in the order of acceptance and stands for its socket and its device. The
main thread takes one handler at a time from intents and queued messages and works off its steps
(`gwTodo`), so that the other threads run between two of them; `synchronized` blocks are `gwLock`.
`gwPast.stale` records what came out of turn, and the properties name the entries they exclude:
`answer` (the user's answer to an earlier wait), `untimed` (the timeout of a new wait was removed
with the old ones, or by a bond change, which only DUN receives: `BondChanged`), `write` (a failed
write to dund), `unconnected` (a failed connect to the server has left its socket in the static
field; the next uplink thread skips the connect, finds it unconnected and returns), `carried`
(Bluetooth is switched on again while a thread of the closed service still runs). STATE_ON may fail
to bind the adapter service or to start the server (`TurnOnFails`); in SAP it throws when it comes
after a close and before `onDestroy`, because `mConnection` is null (`TurnOnWithoutConnection`).
Assumed of the stack: reading a closed link throws; listening succeeds while Bluetooth is on; links break once it is off; `isConnected` stays true until this side closes. The rejected
permission of a device is unreachable in DUN and so no action there.

### BtObex

The same for OBEX servers: the accept loop's tests and `accept()` are one step, as are storing the
accepted socket and raising the waiting flag with its notification. Devices are numbered by their
first connection, which is the symmetry of the instance. `obPast` records: `masked` (instance 0 let
in while instance 1 served another device), `swapped` (the one `mRemoteDevice` written by the other
accept thread), `missed`, `untimed`, `answer`, `timeout`, `stolen` (a close message stopped the next
session). What the environment may do besides connecting (switch Bluetooth off, drop the ACL link,
let the user give up) is chosen per configuration. FTP's bond change and `AUTH_*` intents remove the
timeouts of whatever waits (`ObTimeoutsDropped`, which is an `untimed`). An accept thread that cannot
create its server socket ends: the `closeService` it calls itself finds no connection and no session
yet, and its join of itself is ended by its own interrupt.

### BtMns

`mnsWanted` is what the device last asked for, `mns.registered` what the client has registered.
Connecting, disconnecting and sending run in threads of their own, and `canDisconnect` and `stop`
are two locked sections. A `stop()` between `mSession = new` and `mSession.connect()` makes the
latter throw, and the thread ends without registering (`MnsConnectThrows`, recorded as `thrown`); a
`register()` that throws has set the listener and posts MNS_DISCONNECT, which undoes what was
switched on meanwhile (`undone`). The OBEX exchanges are assumed to return. `MSG_SESSION_ERROR` is sent by
nobody and has no action.

### A4wp

`a4` holds the fields of the service object, `a4Static` the static flags, which survive it, and
`a4Chip` what the chip was last told. A handler is put into `a4Todo` of its thread as a list of
steps; a step whose name begins with "if" tests a field and may skip what depends on it, and `mode` is
the reading of `mChargeComplete` from which the mode applied afterwards is taken.
`initiateDisconnection` is the one synchronized method. A pad is any client: nothing ties a control
write to the client that read the static parameters. `a4Past` records: `late` (the output withdrawn
while charging was being started), `stale` (a mode applied that was read before it changed),
`overtaken` (power applied under a connected pad by a handler that does not ask), `crossed` (both
sides disconnected at once), `stranger` (a control write of a client that is not `mDevice`),
`stolen` (`mDevice` overwritten), `carried` (a static flag left by the last life of the service),
`leaked` (a wake lock taken after `onDestroy` released it: it belongs to the old object and nobody
releases it any more).
Assumed: `onCreate` is one step, and so are the test and the assignment of the wake lock; the chip
obeys (its JNI layer reports success in any case) and has lost its state when Bluetooth comes back;
the service starts again when the handlers of its last life have ended.

### PowerHal

A hint is a pair of hint id and lock handle in a list; the performance library holds a set of
handles. The slack nodes hold the power of ten by which they exceed their first value, which is what
`set_interactive` multiplies and restores. The governor may change between two calls. Launch hints
(a lock with a timeout of its own) and HAL calls in two threads at once are not modelled. When the
list node cannot be allocated the lock just taken is released at once; that release may fail too,
and the lock is then `stuck`. The performance library is taken to have its symbols.

### DsClient

Each profile of the modem supports emergency calls, does not, or leaves the flag out; all answers
are read into one buffer. Every library call may fail, with exactly the clean-up the code does then.
Stopping a call and the event callback change no state of the program and are no actions.

## 3. Runs

| Run | Expect | Shows | Bounds |
|---|---|---|---|
| `boot_update_safe` | pass | `Bootable`, `ChainUniform`, `LiveCopyNeverWritten`, `UpdateCompletes`, and `ImplementsAB` | 3 partitions, 2 in the package; 2 power losses, 1 rerun; ordered writes, no faults |
| `boot_update_writeback` | pass | `ZeroMeansPrepared` with any write-back order | no power loss, 2 I/O faults, 2 failing installers, 1 rerun |
| `boot_update_reordered_stage` | violation | a stage taken as set that is not | 1 power loss, unordered writes |
| `loc_sync_slots` | pass | `BufferAlive`, `OneOwner`, `InUseCoversSlots` | 3 callers of the same indication, 2 slots, one call each |
| `loc_sync_same_ind` | violation | one buffer written by two answers | 2 callers of the same indication |
| `loc_requests` | pass | of the client `ReadsLiveData`, `NothingLeft`, `OpenAndCloseReturn`; of the requests `SuccessMeansAnswered` (by the caller's own answer), `CallsReturn` | client: 4 blocks, that is two opens of two attempts, every step but the error callback may fail; requests: 2 callers, distinct requests, 2 calls each, 2 slots, no timeouts |
| `loc_client_late_callback` | violation | an indication callback called for a closed handle | 2 blocks |
| `loc_client_error_cb` | violation | a connected client without its data | 2 blocks |
| `loc_session` | pass | `MasksAgree`, `RegisteredIsWanted`, `SessionGetsEvents`, `SessionWindsUp` | 3 sessions, 2 engine toggles, 1 service restart, 2 mask changes, 4 bits |
| `loc_session_leftover` | violation | events of a finished session that stay registered | 2 sessions, 1 toggle, 1 open |
| `device_services_safe` | pass | `ServicesTypeOK` and the invariants in the next table | SAP: 2 connections, or 1 with Bluetooth switched on twice and a death of the server; DUN: 1 connection and a death, or Bluetooth switched on twice; FTP and MAP: 2 devices, 2 connections (MAP with all faults: 1); MNS: 3 requests, or 1 and 2 events; wireless power: 2 clients, any three threads, 4 handlers, or 5 with the chip's; power: 6 calls, 4 governors; data: 3 profiles, 2 opens; swap: every array of up to 4 entries; capabilities: 3 opens, 8 bitmap lengths, any modem after each open |
| `device_services_live` | pass | `Relistens`, `HandlersReturn`, `ObHandlersReturn`, `ObRelistens`, `SendingEnds` | SAP: 2 connections, or 1 and a death; DUN: 1 connection; FTP and MAP as above with one device; MNS: 1 request, 2 events |

| Component | Properties of `device_services_*` |
|---|---|
| SAP, DUN | `OnlyAllowedForwarded`: no byte of a client the user has not let in reaches the server. `NoCrossTalk`: no downlink thread writes one client's responses to the next. `DestroyedMeansClosed`: after destruction no thread runs and no socket is open. `DisconnectionTold`: with no thread left, nobody is reported as connected. `Relistens`, `HandlersReturn`. |
| FTP, MAP | `ObServesOne`: a session is only for a device let in, and both message instances serve the same one; it names the four ways in which the connection admitted is not the one the user was asked about. `ObClosed`: once closed, no thread is left, nothing listens and no session runs, unless a late answer, an old timeout or a CLOSE of an earlier session ("stolen") restarted a listener meanwhile. `ObHandlersReturn`, `ObRelistens`. |
| MNS | `MnsRegisteredIsWanted`, `SessionsSettle` (session, wake lock and transport agree when all is handled), `SendingEnds`. |
| Wireless power | `ChargesAsTold` (the chip charges only for the pad that switched the output on, and the charge port flag agrees), `PowerSettles` (when all is handled: the mode of the chip, the wake lock and the disconnection under way agree with the connection). |
| Power HAL | `HintsUndone` (locks, display hint and slack values are those of the hints in force). |
| Data call | `StartsEmergencyProfile`, `OpenIsUndone`. |
| GPT swap, capabilities | `SwapsExactlyTheTwins` (and its return value), `SavedIsFirstAnswer`. |

Where the code does not keep such a property in some order of events, the property excludes exactly
that order by name, and its comment says what goes wrong then; section 5 lists them.

The type invariants of the modules checked outside `MCDeviceServices` are theorems (`TypeCorrect`)
and no properties of a run; so is `NeverBothCorrupted`.

Why the bounds are enough. Boot update: partitions are treated alike, so what matters is one with an
image and a twin, one with an image and none, one without an image; a second power loss can hit the
recovery from the first. Sync requests: two slots let the indication loop pass a slot in use before
it finds its own, and three callers find the table full. Client: two opens of two attempts cover a
callback of a former block during the next open. Session: the leftover needs two sessions and one
toggle; the run allows one more of each and a restart anywhere. Gateways: two connections let the
threads, answers and timeouts of one meet the next; more than one on/off cycle or death only matters
with one connection. OBEX: two instances, two devices and two connections are the least in which a
second device meets a first. MNS: three requests allow on, off and on again against a slow thread,
two events a send behind a send. Wireless power: connecting, output on and charging take three handlers, and
the fourth is the one that interferes. Power: six calls let both hints and the display overlap with a
governor change inside each pair. Data: a failing open before or after a good one, and three
profiles put one without the flag between two with it.

Deadlock is checked except where the environment is simply out of moves at its bounds (`loc_requests`,
`loc_session`, `device_services_*` and the violation runs): those specifications have no end of their own.

### Fairness

* `BootUpdate!FairSpec`: weak fairness of the script (one running process) and of the restart
  (recovery runs again after a boot).
* `LocSyncReq!AnswerFairness`: weak fairness of a caller inside a call, of the indication loop, and
  of an answer under way, that is of an engine that answers. `loc_requests` has no timeouts, so a
  lost wake-up would show. The mutex needs no strong fairness there: finitely many indications come,
  and after them it stays free.
* `LocClient!LcFairness`: the service comes up and the client's thread runs; the callback thread runs,
  and the callbacks it calls return. The release does not wait for them.
* `LocSession!FairSpec`: MsgTask and the callback thread run, and the modem turns its engine off when
  no fix is running.
* `BtGateway!GwFairness`, `BtObex!ObFairness`, `BtMns!MnsFairness`: every running thread and the
  main looper take their steps (Java threads are scheduled), queued and delayed messages are
  handled, and a link of a Bluetooth adapter that is off breaks. The remote device, the user and
  the server are not fair: they may stay silent for ever.

## 4. Proofs

TLC checks small instances; the theorems hold for every value of the constants.

**`BootUpdateProofs`** (assumes `BootUpdateAssumption`). `GptInv` is `TypeOK` with four parts:
`SyncInv` (while the script flashes, or always when writes are ordered, the eMMC holds what was
written), `TablesInv` (one table is usable, what each table names), `ControlInv` (what each control
point knows about the headers) and `FlashInv` (when the script flashes a copy, the ROM loads the
other). `Bootable` alone is not inductive: that writing the secondary table is safe depends on the
primary one being usable at that control point. `GptInv` holds when writes are ordered or power is
never lost (`Synced`), and `ZeroAlwaysMeansPrepared` has exactly that assumption; without it the
property fails (finding 1). From `GptInv` follow also `GptAlwaysFound`, `HeadersNeverBothCorrupted`
and the action property `LiveCopySafe`, with `Ordered` and for any number of I/O faults, failing
installers and power losses. `CopiesInv` adds which copy is complete in each stage, for any
set of images the files map names a backup for; with
`MaxFaults = 0` and `MaxBadImages = 0` it gives `AlwaysBootable` and `ChainAlwaysUniform`. They need
that assumption: the script ignores a failed installer, so a partition may stay half written.

`UpdateImplementsAB` proves the refinement under the same assumptions: `RefinesInit` maps initial
states, `RefinesStep` every step. `LoadedIs` says which copy the mapping takes for the loaded one at
each control point, and `LoadedIsComplete` that a switch of the ROM's choice is one to a complete
copy. The steps that change the abstract state are the installers (a write of the copy that is not
loaded) and the one header write of a stage change with which the ROM's choice moves; every other
sector write, crash and restart is a stutter.

**`LocSyncReqProofs`** (assumes `LocSyncReqAssumption`). The invariant has four parts: `TypeInv`;
`OwnerInv` (a call past its allocation holds a slot that is marked, and nobody else does); `BufInv`
(a slot's buffer is that of the call that holds it; a free slot has none); `LoopInv` (the loop's
local flag covers the slots it has passed, so that clearing `in_use` after the loop is right).
`InUseCoversSlots` is not inductive without the last. They give `TypeCorrect`, `NoDeadBuffer`,
`SlotsOwned` and `InUseCorrect` for any number of callers, slots and calls.

`SuccessIsAnswered` adds `SlotInv` (a slot nobody holds is empty), `CallInv` (what the slot of a call
says of it, and that a call whose answer has reached its slot has that answer and no other) and
`AirInv` (an answer under way is the only one to a call that still waits for it, until the loop has
passed the call's slot). Its assumptions are those under which the code makes the promise: no more
callers than slots (`SomeSlotFree`, a pigeonhole, shows that the table is then never full when a
caller asks), different callers wait for different indications (finding 2 is the other case), and a
wait ends only by its signal (a time-out ends a call without success, but its late answer may meet
the next call; a spurious wake-up is reported as success).

**`LocClientProofs`** (assumes `LocClientAssumption`). Two properties are proved together.
`FreshInv`: a block that is still to be allocated has no QMI client. `BlockInv`: what the client's
thread knows about its block at each step (allocated, the state of its QMI client, which fields are
set, when the handle names it). `CallbackInv`: a running callback belongs to a client that was
connected, and that may have been released since. `NothingLeft` is not inductive without `BlockInv`,
and `ReadsLiveData` needs both: a client that still delivers has its block because it is either the
one the thread works on or one whose release failed. `FreedOnlyWhenReleased` and
`OpenAndCloseLeaveNothing` hold for any number of blocks and retries and whichever steps fail,
without an assumption on how `qmi_client_release` treats a running callback. They are about `LcSpec`,
in which the error callback can always be registered (finding 3 is the other case).

**`LocServicesProofs`** (assumes `DsAssumption`, `LocCapabilitiesAssumption` and
`LocSessionAssumption`). `DsInv` says of an
open at each of its steps which QMI clients it holds (`ClientInv`), that no profile before the
current one supports emergency calls (`LoopInv`, `FoundInv`) and that the handle it is about to
overwrite is of no live session (`DsSessionInv`). It gives `DsTypeCorrect`,
`StartsWithEmergencyProfile` and `OpenGivesBack`, for any list of profiles and number of opens.
`CapInv` says that what the statics and the list hold is what `checkQmiMsgsSupported` computes from
the first answer, of whatever modem; `CheckedIsSupported` is the lemma about that loop, and
`SupportedIsSaved` (which states `SavedIsFirstAnswer`) follows for any change of the modem.
Its assumptions are true of `msgArray` and of the masks in the code: the loop stops at the length of
the bitmap counted in messages, so a message must not lie in an earlier byte than its index (the
messages of the array lie in bytes 14, 16 and 18 and there are three of them); the array has at most
64 entries; and the batching bits are none of its indices. With an array that breaks the first one
the property is false.

For the sessions, `MaskInv` is `MasksAgree` extended to the
time without a client, when the masks survive for the re-initialisation; `QueueInv`: no
re-initialisation is queued while the service has never gone down; `SessionInv` strengthens
`SessionGetsEvents` by "a session has a client". With `TypeOK` and `RegisteredIsWanted` they are
inductive, and give `TypeCorrect`, `MasksCorrect`, `NothingUnwanted` and `SessionKeepsEvents` for any
set of bits, any conversion and any number of sessions, toggles, restarts and mask changes.

**`BoardProofs`** (assumes `GptSwapAssumption`, `PowerAssumption` and `A4Assumption`). `TwinsAreSwapped`: after the names
before `gptI` each of their entries has its twin's GUID and all others their own (`EntriesInv`), and
the result counts what was found (`CountInv`); `SeekFinds` and `MatchesAreTwins` say what the two
calls of `gpt_pentry_seek` return. It assumes that no name is listed twice, as in `PTN_SWAP_LIST`: a
second swap would undo the first. `HintsAreUndone` reasons about the list through the sets of handles
it keeps for each hint: `Pushed` and `Removed` are the effects of `add_list_node` and
`remove_list_node` on them. `PwInv` consists of `LockInv` (no lock is listed twice, none is newer than
the last call, those held are those listed), `DisplayInv`, `VideoInv` (a video under way is under a
governor whose branch took its lock) and `NodeInv` (a scaled node has its value saved, the display is
off and the governor is the one that restores it). `HintsUndone` alone is not inductive: whether an
end undoes its start depends on the governor in between. `ChargesAsTold` and `PowerSettles` of the
wireless power host speak of states in which no handler runs, so they are far from inductive: most of
the time a field is wrong and some thread is about to correct it. `A4Inv` therefore relates the fields
to the steps still in the lists (`A4Due`), of which a thread can have only the few of `A4GattLists`,
`A4ChipLists`, `A4WbcLists` and `A4MainLists`: `A4Unbound` (nothing reaches the chip before
`WipowerManager` is bound); `A4Charge` (output, charging and charge port are for a client that asked,
or the step that withdraws them is still to come); `A4Discing` and `A4Locked` (a disconnection under
way, or the wake lock, has an end to come); `A4Leaving`; `A4Serving` (with a pad nobody applies power
except to disconnect it); `A4Seeking` (a mode that was read is still the right one, and without a pad
the chip has it or a thread owes it). Each part holds until its own exception has happened. The
lemmas `A4GattMoves`, `A4ChipMoves`, `A4WbcMoves` and `A4MainMoves` say what a step makes of each list.
`A4Types`, `ChargesOnlyAsTold` and `PowerAlwaysSettles` follow, for any number of clients and handlers.

**`BtMessageProofs`** (assumes `MnsAssumption`: the two instances of `MAX_INSTANCES`). The queue is
reasoned about through what it says of an instance: `Asked` is what the last message about it asks
for, `Unasked` that there is none, and `Appended` and `Taken` are the effects of posting and handling
a message on both. `RegInv` has four parts: `AttemptInv` (an instance waits only while exactly one
attempt to connect is under way, and that one is the connecting thread, its message or the rest of its
handler); `OffInv`; `OnInv` and `DropInv` (what the device last asked of an instance is the last
message about it, or has been done, or a thread is about to do it). `CloseInv` says that a session
without an instance has a thread or a message that will end it, and that what is registered has a
session; `LockInv` who may hold a wake lock, an `mCs` and an open transport. None of it is stated of
quiet states only, which is why `MnsRegisteredIsWanted` and `SessionsSettle` are not inductive and
these are. `RegisteredAsAsked`, `SessionsAreSettled` and `MnsTypeCorrect` follow, for any number of
requests, events, sessions and threads and every order of their steps.

**`BtObexProofs`** (assumes `ObexAssumption`). The first part states the effect of every step on a
typed state field by field (the lemmas ending in `Effect`), and what the list of the main thread's
steps may hold in which order (`ObShape`). `ObInv` adds to them: `ObNamed` (what a field, message
or timeout names is an accepted connection of that instance); `ObClosing` (while the service closes,
whatever is still open has its closing step in the list, and the join of a thread comes before the
closing of the session that thread may still open); `ObStarts`; `ObFtp` (FTP closes a connection only
when its thread has ended); `ObCalmInv` (an instance is either with its accept thread or with its
session, a session that runs is the one `mServerSession` holds, and a listener is started again only
when both are closed); `ObOneDev` (connections past `isAllowedConnection` are of one device);
`ObOnlyAdmits` and `ObLet` (what is admitted, now or by a step still in the list, is of an allowed
device). `ObClosed` speaks of the closed service only and so needs `ObClosing` for the steps before;
`ObServesOne` needs `ObCalmInv`, because a session that outlives its connection would be taken for
that of the next. They give `ObTypes`, `ObClosedHolds` and `ObServesOneHolds` for any number of
devices and connections and any faults. The proof of `ObServesOne` failed at first for a good reason:
a CLOSE message of an earlier session stops the connection of the moment and leaves its `mWaiting`
set for the next one, which takes four connections, more than the runs explore; it is now the
exception "stolen".

**`BtGatewayProofs`** (assumes `GatewayAssumption`). The list of steps the main thread still has to
run is the difficult part of the state: `GwTodoOK` says which lists there are while Bluetooth is on
(`GwClosesFirst`, `GwRelists`, `GwReups`, `GwRests`), and that while the service closes the list is
what is left of `closeService`, counted from its end (`GwCloses`; `GwCloseList` and `GwCloseTail` say
that handlers begin and steps keep it so). `GwLocked` ties each lock to the join under way, of the
main, accept or uplink thread. `GwClosed` says what is closed for good at each place of
`closeService`: only from `turning_off` on can nobody open a listening socket, and only once the
service is closed for the second time, by `onDestroy`, no thread is left that can set
`mRfcommSocket` or start another one. `GwNamed`: `mRemoteDevice` is set before anybody is asked or served.
`GwRegular` holds as long as no answer was late and nothing was carried over: `GwOneAtATime` (the
accept thread, the wait for the user, the handler and the uplink thread exclude each other, and an
uplink thread that runs while Bluetooth is on is never interrupted, so its joins are complete),
`GwServesAllowed`, `GwOneOpen` (no connection is open but the one in the field) and `GwReports`.
`OnlyAllowedForwarded` and `NoCrossTalk` speak of one label of the uplink thread and need
`GwOneAtATime` for the hand-over; `DestroyedMeansClosed` needs every place of `closeService`. One
lemma per action shows that `GwInv` is kept; `GwTypes`, `GwForwardsAllowed`, `GwNoCrossTalk`,
`GwDestroyedClosed` and `GwDisconnectionTold` follow for any number of connections, of times
Bluetooth is switched on and of deaths of the server, for both profiles.

Only model-checked: all liveness properties, which are out of the prover's reach, and
`ENABLED`-based fairness with them; and `ServicesTypeOK` as one formula about the composition of the
services, whose parts are theorems about each of them.

## 5. Findings

Five runs show a disagreement between the code and what its comments say; `PROJECT.json` quotes both.

1. `boot_update_reordered_stage`: `prepare_boot_update` syncs once, at `EXIT`. If the broken primary
   header is stored before the secondary table and power is lost, the rerun takes the stage as set
   and the script overwrites the copy the ROM would load.
2. `loc_sync_same_ind`: two concurrent requests for the same indication; the second answer is
   matched to the slot of the first, whose caller has been signalled and has not run yet.
3. `loc_client_error_cb`: a failing `qmi_client_register_error_cb` frees the callback data of a
   client that stays connected.
4. `loc_client_late_callback`: `locClientIndCb` looks at the callback pointer a second time "to avoid
   calling the eventCallback after locClientClose is called", but the look and the call are two
   steps without a lock; `locClientClose` in between releases, clears and frees the block, and the
   callback is called for a closed handle with a cookie read from freed memory.
5. `loc_session_leftover`: `stopFix` before the engine-on message is processed leaves `mEngineOn`
   set; the next session that never sees the engine go on is not deregistered.

Met while modelling, visible in the definitions, without a run of their own: a full slot table and a
spurious wake-up are both reported as success without an answer (`BufferFull`, `WakeSpuriously` in
`LocSyncReq`); the cookie is set after the callbacks (`SetCallbacks` before `SetCookie` in
`LocClient`); `updateRegistrationMask` cannot switch a bit off, because `open` adds the old mask
(`NewMask` in `LocSession`); `aonCapability | MASK` (`LocApiV02.cpp:298`) is always true, so that the
three batching bits are added whatever the modem answered, where the comment at `:259-260` says
"check if" (`BatchingBits` in `LocCapabilities`; `SavedIsFirstAnswer` claims nothing of these bits); the
comment at `loc_api_v02_client.c:2108-2115` names the first two bits in the other order than
`msgArray` (`LocApiV02.cpp:237-247`), which is the order in use; the capability cache outlives a
restart of the modem service (`CapModemRestart`); where a files map names a backup for some images
only, re-applying a package boots the backup copy in between, with those images new and the others
old (`ChainUniform`); `locClientOpen` waits for the service without a timeout; one timed-out request
caches that measurements are unsupported for the life of the process; after a restart of the modem
service in a session `open` registers the mask for no session.

In the services, each an exception that a property names:

* SAP and DUN: the user's answer names no connection, so a late one authorises or restarts the wait
  of the moment; removing a timeout removes those of all waits; `BluetoothDunService.java:998` leaves
  the uplink loop after a failed write to dund without starting the listener again; an interrupted
  `join` leaves the static `mDownlinkThread` set; DUN reports the disconnection before it joins the
  downlink thread; `mListenSocket` is read twice around a null test (`BluetoothSapService.java:854`),
  which can fail only while the service closes; `mSapdSocket` and `mDundSocket` are assigned before
  the connect, so that after a failed one the next uplink thread finds an unconnected socket and
  returns, and nobody listens any more (`BluetoothSapService.java:664` and `:986`,
  `BluetoothDunService.java:671`); a bond change removes DUN's user timeout
  (`BluetoothDunService.java:521-542`); SAP sets `mConnection` to null when it closes (`:480`) and
  locks it at the next STATE_ON (`:408`).
* FTP and MAP: instance 0 of MAP lets in a device while instance 1 serves another; both accept
  threads use one `mRemoteDevice`; an instance that joins a notification at the moment it is answered
  waits for ever; `stopObexServerSession` handled late joins a thread that listens again, on the main
  thread; a close message names no session; a bond change and the `AUTH_*` intents remove the user
  timeout of a waiting connection (`BluetoothFtpService.java:345-386`), after which nothing listens
  again without an answer.
* MNS: after `MNS_SEND_TIMEOUT` `mSendingEvent` stays true and no event is sent again
  (`BluetoothMns.java:392`); the thread of an older disconnect undoes a newer connect; the wake lock
  stays held when `sendEvent` meets a session without connection or one just stopped; a refused
  session is replaced without being closed; `mSession` is read again after it was assigned
  (`BluetoothMns.java:643`), so that a `stop()` in between leaves a wanted instance unregistered.
* Wireless power: `onWipowerData` past its tests starts charging after the pad withdrew
  (`A4wpService.java:185`) and sets `isChargePortSet` for a chip that does not charge; a control
  write of another client than the pad takes the wake lock and switches the output on, and its
  disconnection undoes neither; the mode is read before it is applied; `onWipowerReady` and
  `onStartSuccess` apply power under a connected pad; `onDestroy` does not reset `mDiscInitiated`,
  which then keeps the next pad from being disconnected; `cancelConnection` reads `mDevice` again
  after the null test (:206); if the chip's service connects when Bluetooth has gone off again,
  nobody sets `mWipowerBoot` any more; a wake lock taken by a GATT handler after `onDestroy` released
  it (:1106) stays held, since the next object cannot release it (:1130).
* Power HAL: a hint that ends under another governor, or under `ondemand`, keeps its lock; a governor
  change while the display is off multiplies the slack values twice; a release that fails is
  forgotten, also the one after a failed allocation (`utils.c:244-257`). `rc` at `power.c:432` is not
  initialised on one path and only selects a log line.
* Data call: each early return of the profile search keeps the WDS client and the notifier; a second
  open loses the first handle (`ds_client.c:691`).

## 6. Not modelled, and why

* Short counts of `write(2)` and a failing final `fsync` in `gpt-utils.cpp` (both taken as success
  by the code): the models assume that a block device stores a write or reports an error.
* Time: a timeout may fire at any moment of a wait; the wall clock the deadline is taken from is not
  modelled.
* The request validation and size tables of `loc_api_v02_client.c`, and the conversions in
  `LocApiV02.cpp`: tables and arithmetic without state.
* A late answer to a timed-out synchronous request that is taken by the next call with the same
  request (`loc_api_sync_req.c:187`): answers carry no transaction number, so there is nothing to
  compare.
* `closeDataCall` freeing the caller data while an event callback runs (`ds_client.c:776`): whether
  the dsi library waits is not visible in this repository.
* The content of SAP, AT, OBEX and GATT messages, the message databases, the binder interfaces and
  the user interface of the Bluetooth services.
* A performance library without `perf_lock_rel`: the power HAL is modelled with all its symbols.
* Alerts of the wireless power host and the death of the chip's service (`onServiceDisconnected`).
* The QMI library, the modem, the Bluetooth stack, the performance library and the boot ROM are
  external; they are modelled by what the code relies on.
* Components listed as `not_modelled` in `PROJECT.json`: user interface, formatting, build tools,
  configuration, generated code.

## 7. Plan

Order: the boot update first (a failure bricks the device), then location from the bottom up
(request slots, client, session), then the services: done, apart from what section 6 leaves out.
Left, in this order:

1. The proximity monitor (`PxpMonitorService.java`): a state machine driven by GATT callbacks.
2. `RmnetCtl`: the netlink transaction number and response matching of `librmnetctl.c`.
3. A composition of `LocClient` and `LocSession`: re-initialisation by the error callback while the
   MsgTask thread is inside a request.
