# A verification development for the Edgehog ESP32 device

TLA+ modules, TLC runs and TLAPS proofs about the Edgehog device runtime for
ESP32: the library in `src/`, `include/` and `private/`, and the application of
`examples/edgehog_app` that shows how it is started. Every definition of a model
is translated from the C code; `PROJECT.json` names the lines of each.

## The system

One ESP32 runs FreeRTOS with five activities that matter here:

| activity | runs | priority |
|---|---|---|
| application task | `edgehog_device_new`, `edgehog_device_start` (with `edgehog_ota_init`, the initial publications and `edgehog_telemetry_start`), `edgehog_device_destroy`, the setters of serial and part number, battery, geolocation, modem and interface updates | the user's |
| MQTT task | `edgehog_device_astarte_event_handler` for each message of the server, one at a time | above the next ones |
| timer service task | the telemetry callbacks, which publish, and the timer commands other tasks have queued | 1 by default |
| OTA task, LED task | created on request, delete themselves | `tskIDLE_PRIORITY`, time slicing |
| event loop task | the Wi-Fi scan handler | system |

They share the flash (NVS namespaces, application slots) and the `edgehog_device_t`
structure, mostly without locks.

### Components

| component | state | operations | hard part |
|---|---|---|---|
| OTA update (`edgehog_ota.c`) | NVS `req_id`, `state`, `part_addr`; static `ota_task_data`; the task and its notification; boot partition | request (update, cancel), download with retries, deploy, restart, completion at boot | crashes between flash writes; cancellation racing the task; stale ids |
| telemetry (`edgehog_telemetry.c`) | mutex-protected list of entries with timers, NVS keys per type, configured defaults | load at start, server events `enable` and `periodSeconds`, timer callback, destroy | persistence against defaults; timer commands that are queued or dropped; mutex timeout; ticks that wrap |
| battery, geolocation | list of entries with a copy of the last update and an `updated` flag | update by the application, publication by the timer | flag protocol without lock |
| serial and part number (`edgehog_device.c`) | NVS string | set, publish | publish, then store: crash or failure in between |
| LED (`edgehog_led.c`) | manager with task handle, `terminated` flag and current configuration; the level of the pin | server request, blink task that ends by itself | task that ends, or is killed lit, while it is replaced |
| Wi-Fi scan (`edgehog_device.c`) | registered event handlers | scan, publication | registration and unregistration do not match |
| device life cycle, dispatch (`edgehog_device.c`, `edgehog_telemetry_new`) | handle and what it owns | new, start, destroy, event dispatch | an allocation that fails after others succeeded; early events; use after destroy |
| commands (`edgehog_command.c`) | none | restart on request | restart at any point of the others |
| OS info, base image, runtime info | fields at the server | publish at start | a field that fails, or a restart, ends the group |
| hardware info, system status, storage usage | fields at the server | publish at start and by timer | start and timer publish at once; failures nobody looks at |
| network interface, cellular connection | fields at the server | publish what the application gives | the given name is part of each path, in a buffer; only some paths are compared with it |

How they meet. `edgehog_device_start` calls the update's, the publishers' and the
telemetry's own starts one after the other, and `edgehog_device_astarte_event_handler`
hands each message to one component; a telemetry's timer calls one of the publishers in
the timer service task. Components do not call each other otherwise: what they share is
the restart that any of them may ask for (`esp_restart`, `ESP_ERROR_CHECK`, an assertion
of FreeRTOS), the timer service, and the handle's life.

## The modules

A definition is named after the function it translates where that reads well, and
every action is one step that another task can see: a write to the flash, a
publication, a call into FreeRTOS, or a read of something another task writes.

| module | models | state against code |
|---|---|---|
| `EdgehogOta` | `edgehog_ota.c` | `nvsReq`, `nvsState`, `nvsPart`: the NVS keys; `bootSlot`, `image`: the application slots; `appPc`: `edgehog_ota_init`; `mqttPc`: a Cancel between finding the task, reading the id and notifying; `taskPc`, `attempt`, `chunk`, `err`: `ota_task_code` with `perform_ota` and `perform_ota_attempt`; `taskData`: the static `ota_task_data`; `notified`: the task's notification; `fallback`: the slot the bootloader can still roll back to; `crossed`, `undone`: the requests that no promise is made of |
| `OtaService` | what the update promises the server | one request in hand, the images made bootable, a verdict for each request, or that the update has disowned it |
| `EdgehogTelemetry` | `edgehog_telemetry.c` | `nvsEnable`, `nvsPeriod`: the `ehte` and `ehtp` keys; `holder`: `load_tl_mutex`; `call`, `callPc`: `telemetry_schedule` and `save_telemetry_to_nvs`, run by the holder; `entry`: `timer_list`; `timer`, `queue`: the timer service and its commands; `freed`: entries given back to the heap; `lastWord`: what the server's last event made of each type, or that it came too early |
| `TelemetryService` | what the telemetry promises: one writer at a time changes what is sent, and stores each change before the next one; a load sends what is stored, or else configured | `sent`: from the list and the commands for its timers; `on`, `period`: the NVS keys; `saving`: the running call; `writer`: the mutex |
| `EdgehogStatus` | `edgehog_battery_status.c`, `edgehog_geolocation.c` | `list`, `updated`, `stored`: the entries; `toWrite`, `toRead`: the fields a task has yet to access; `doc`: what the timer service is about to publish; `early`, `torn`: whether it read a field before the application had written it. With `Level` the fields that are percentages it is the battery; a GPS receiver has none |
| `ReadingService` | what battery status and geolocation promise: room for one reading of each source, which waits only if it is news, and is published once, whole or torn | `waiting`: an entry whose flag is up; `published`: the last document; `torn`: where that mixes readings |
| `EdgehogLed` | `edgehog_led.c` | `current`, `handle`: the manager; `allocated`, `terminated`: the configurations; `taskPc`, `params`: the blink tasks; `handlerPc`: `set_led_behavior`; `lit`: the pin; `leftLit`: whether a failed request or a freed configuration left it so |
| `EdgehogSystemInfo` | the setters of serial and part number in `edgehog_device.c` | `nvs`, `server`: the number stored and the number published; `callPc`: each caller's place in the setter |
| `EdgehogWifiScan` | `scan_wifi_ap`, `edgehog_event_handler`, `publish_wifi_ap` | `scanPc`: of `scan_wifi_ap` in the starting task and in the timer service; `registered`: registrations of the handler; `radio`, `records`: the driver; `events`, `running`, `left`: the event loop |
| `EdgehogPublish` | `publish_device_hardware_info`, `publish_system_status`, storage usage, `edgehog_os_info.c`, `edgehog_base_image.c`, `edgehog_runtime_info.c`, `edgehog_cellular_connection.c`, `edgehog_network_interface.c` | `sending`: where each task is in its group of fields; `given`, `known`: the last values published, and those the server has; `nameLength`: of modem and interface; `oldest`: the first of a group's last publications that overlapped; `partial`: groups with a field that one of these did not send |
| `EdgehogLifecycle` | `edgehog_device_new` with `edgehog_telemetry_new`, `edgehog_device_start`, `edgehog_device_destroy` | `lifePc`: the place in them; `heap`: what is allocated; `publishes`: groups the start has published; `lives` |
| `EdgehogDevice` | composes the last four | a restart hits all at once; only a valid handle is used; the start publishes, scans and starts the telemetry in this order; the timer service does one thing at a time, before, beside and after the start |

`MCEdgehog*` extend these modules with the symmetry sets and values of the runs;
`Edgehog*Proofs` hold the theorems about them, and `ServiceProofs` what follows from the
abstract specifications `OtaService`, `TelemetryService` and `ReadingService` alone. Definitions whose name has an underscore in it
(`AttemptsLeft_oneMore`) are mutants: plausible bugs that the runs have to find.

Some points of the translation deserve a word.

- **NVS.** A write either takes effect or fails, one key at a time. `nvs_commit` is
  not a step: ESP-IDF writes at `nvs_set_*`.
- **The OTA task's life.** `xTaskGetHandle` finds a task until the idle task has freed
  it, so `TaskFound` includes `"deleted"`. A notification sent to a task that is gone
  by then is `CancelNotifyFreed`: the memory is somebody else's and the device may
  panic.
- **Rollback.** `Reset` boots the selected slot; or stays in the slot that ran, when the
  new image does not start; or, at a reset after the new image's first boot, goes back to
  the old one (`RollsBack`), which `fallback` remembers. The library never confirms an
  image, so the bootloader's application rollback may do this at the first reset that
  follows. An image made bootable and then canceled is one that such a reset starts.
- **Hand-over.** The example hands events to the device from the connection to Astarte
  on, before `edgehog_device_start`, and no handler looks whether that is done:
  `HandlerFree` and `EventArrives` are guarded by their own task alone, timers run before
  and beside the start, and every property of a passing run holds in these behaviours.
- **Publications of the update.** `pub_ota_event` may fail where calls fail at all
  (`Lost`, in `ota_faults`), and nothing looks at its result. The events posted to the
  application (`esp_event_post` with no time to wait) change nothing the library reads;
  they are not modelled, and no property says that they arrive.
- **Timer commands.** `Send` drops the command when the queue is full, as
  `xTimerStart(.., 0)` and its like do; only the first start looks at the result.
- **Ticks.** `Ticks(p)` is `pdMS_TO_TICKS(period_seconds * 1000)` in unsigned arithmetic
  of `TickModulus` values, 2^32 in the code. FreeRTOS asserts that a timer's period is
  not zero, when it creates the timer (`ScheduleAsserts`) and when it serves a change
  (`ServeAsserts`): both restart the device.
- **Groups.** Each function of `EdgehogPublish` is a record: how many fields, whether a
  failure ends it, and for paths that hold a name, their lengths, the buffer's and which
  of them the code compares with it.
- **`continue` in `load_telemetry_from_nvs`.** It returns to the loop's condition with
  the iterator where it was: `LoadNvsDefault` never leaves.
- **Unregistering the scan handler.** `esp_event_handler_instance_unregister` is given
  the function, not the instance that registering returns, and finds nothing to
  remove: `Unregister` changes nothing.
- **Reads of freed memory.** `Flags(c)` of a configuration that was freed is either
  value.

## The runs

Names are those of `PROJECT.json`; the configuration of run `ota_core` is
`MCOta_core.cfg`, and so on; the numbers of distinct states are rounded, and the
longest run takes about three minutes with two workers. Deadlock is not checked: every
system here stops when its environment has used up its bounds.

| run | question | bounds | states |
|---|---|---|---|
| `ota_core` | is `Success` only reported for an installed image, are verdicts final, does the flash hold what the next boot needs, does a timely Cancel win, is `OtaService` implemented, does the reported image run, is everything that was accepted or stored answered (liveness) | 2 requests at any time, 2 slots, 2 attempts, 1 Cancel, 1 restart beside those of the updates | 546 000 |
| `ota_faults` | does the task keep its data and report in order when a call of the NVS or partition API fails, and publications fail | 2 requests, 1 fault, any number of lost verdicts, 1 chunk, 1 Cancel, 1 restart | @FAULTS@ |
| `ota_wrongcancel` | *violated:* is only the update canceled that the server asked to cancel | 1 attempt, 1 Cancel | 14 000 |
| `ota_early` | *violated:* does a boot that finds no id leave no installed update without its outcome | 1 attempt, no restart but the update's | 900 |
| `telemetry_core` | is what runs what a restart would load, does the server's last word hold, is `TelemetryService` implemented | 2 types, every configuration, a period that fits, one that wraps and 0, 3 timers, 3 events at any time, 1 restart | @TCORE@ |
| `telemetry_service` | one timer for each type; does a start return, do timers follow the list (liveness) | 2 types, 1 period, 2 events at any time, 1 restart | @TSERVICE@ |
| `telemetry_lowqueue` | with too few timers, a queue of two, an NVS that fails and a period of no ticks: has every running timer an entry | 2 types, 2 periods, 2 timers, 2 events, 1 restart | @TLOW@ |
| `telemetry_zero` | *violated:* does a start return after the server sent a period of 0 | 1 type, 2 events, 1 restart | @TZERO@ |
| `status_battery` | is every publication one reading (by the refinement), is no stored reading passed over, is each published in the end (liveness), is `ReadingService` implemented | 2 sources, 2 fields, one of them a level, 3 readings, values on both sides of its limits, the tasks interleaved at every access | 383 000 |
| `led_core` | one blinker, with its configuration; no task is killed that has ended; a configuration is freed once; dark when nothing blinks | 3 tasks, 3 blocks, 5 requests, one core and two | 250 000 |
| `device_core` | numbers stored agree with the server; scans find their handler and are published once; fields arrive in order, whole and under their own paths; nothing is left of a device that failed or was destroyed, and nothing missing in one that may be used | 1 life, 3 inputs, 2 callers, 2 numbers, 2 scans, a queue of 2, 2 publications of each of 9 groups, 2 partitions, a modem's name of 25 characters and an interface's of 48, 1 restart | 3 069 000 |
| `device_foreign` | *violated:* are only the device's own scans published | 2 scans | few |

Why these bounds are enough. Two requests of an update are what it takes for one to
find what another left in the flash, or to be accepted while the boot settles another;
two slots are what the code alternates between; a second attempt is the only kind of
attempt that follows another. `ota_core` has no chunk to read, because its properties do
not look into an attempt: a notification arrives before, between and after the attempts,
and `ota_faults` has one chunk for those that arrive between the reads. A restart that
the updates did not ask for may fall into the recovery from one that they did, before or
after the new image's first boot. Two telemetry types tell an effect on one from an effect
on all, three timers let a type's new timer meet its old one while another runs, and
three events switch a type on, off and on again, each before, during or after the load.
Periods of 1 and 11 seconds with a `TickModulus` of 2^20 are one on each side of where
the ticks wrap, and 32768 is one whose ticks are none. A second number and a second
caller are needed for setters that cross, and a third call to see what was left. In
`device_core` the inputs (starts, calls, timers, scans of others, fields that fail) are
bounded together by `MaxInputs`: three are a start, a timer or call that overlaps it and
a failure, or three calls; a life and a restart give two starts. A second publication of
a group is the one that overlaps the first. The names' lengths lie on both sides of
what the compared paths have room for: 25 is the longest a modem may have, 48 is too
long for the technology of an interface but not for its address. Three blink tasks and blocks allow one in use, one ending
and one to be created. Symmetry is used by the safety runs, over model
values that no definition tells apart (the slots of the update are two, so the choice
of the one to write to is no choice); the runs that check liveness use none.

The bounds themselves (`MaxChunks`, `MaxCancels`, `MaxRestarts`, `MaxFaults`,
`MaxEvents`, `MaxUpdates`, `MaxRequests`, `MaxCalls`, `MaxScans`, `MaxPublications`,
`MaxLives`, `MaxInputs`) stand in the guards of the actions they bound and nowhere else.
`MaxOtaRetry`, `QueueLength`, `TickRate` and `TickModulus` are numbers of the code and
its configuration; the proofs leave all of them open.

### What the runs that fail show

- **`ota_wrongcancel`.** The failure path of `ota_task_code` leaves the request id in
  NVS. A Cancel for the failed request passes the comparison of `edgehog_ota.c:297`
  while the next update has not yet written its own id, and cancels that one.
- **`ota_early`.** A request that is accepted while `edgehog_ota_init` runs, as the
  example's order allows, stores its id and `edgehog_ota_init` erases it (line 193). The
  task goes on, makes its image bootable and restarts; the boot finds no id and takes it
  that "there is no need to continue as there is no pending OTA update" (lines 153-154).
  The server never hears of the update that now runs. When init reads the id before it
  erases it, the server is told that the running update has failed.
- **`telemetry_zero`.** A period of 0 is stored as `TELEMETRY_UPDATE_DEFAULT`; the next
  load `continue`s without advancing the iterator (`edgehog_telemetry.c:433`), so
  `edgehog_device_start` never returns and holds the mutex.
- **`device_foreign`.** The scan handler publishes whatever scan ends while it is
  registered, contrary to the comment at `edgehog_device.c:339`: it is registered
  before a scan that may fail to start, and never unregistered.

### What the passing runs exclude, and why

Where the code keeps a promise only sometimes, a history variable records when it does
not, and the properties except just what that variable names: the behaviours themselves
are all in the runs. Three constants (`MaxFaults`, `NvsFails`, `QueueLength`) separate
calls that work from calls that fail, whose results the code does not look at.

- `crossed` holds the requests that were accepted while `edgehog_ota_init` ran, and the
  one that was in NVS then. Init may settle such a request as failed and erase its id
  under the running task, which then deploys it; `ota_early` shows what becomes of it.
  `SuccessMeansInstalled`, `VerdictIsFinal`, `RestartIsRecorded`, `InFlightIsRecorded`,
  `SuccessRunsImage`, `ProgressOrder`, the two liveness properties and `OtaService`
  except these requests, and speak of all others in the same behaviours.
  `InTimeCancelWins` and `LiveDataKept` except nothing.
- `undone` holds a request whose `Success` a boot has published and not yet cleaned up
  (between lines 183 and 193) when a power cut lets the bootloader roll back. The next
  boot then publishes `Failure` for the same request, which is the truth by then; only
  `VerdictIsFinal` and `OtaService` except it.
- `lastWord` is `"early"` for a type that an event switched off before there was a timer
  to switch off: nothing is stored (`edgehog_telemetry.c:180-182`), and the load starts
  the stored telemetry. `LastWordHolds` excepts the type until its next event.
- `MaxFaults = 0` in `ota_core`: results of NVS writes are ignored, so a failing write
  breaks what the flash promises. `ota_faults` checks what survives.
- `SuccessRunsImage` speaks of restarts the update asked for: a power cut between the
  writes of the state and of the address, followed by a rollback, finds the address of
  an earlier update and reports `Success`.
- `VerdictIsFinal` allows a `Failure` to be repeated with another code: after a failed
  update the next boot finds the id in NVS and reports it once more.
- A Cancel after the image was made bootable is reported `Canceled`, and the image runs
  at the next restart: `InTimeCancelWins` only says it is not deployed by this task.
- `QueueLength = 10` in `telemetry_core` and `telemetry_service`: with a queue too
  short for a burst a deletion is lost and a type has two timers.
- `CallbackHasEntry` ends with `edgehog_telemetry_destroy`, which frees entries whose
  timers are only queued for deletion, or are dormant because their start is.
- `RunningIsStored` speaks of periods whose ticks do not wrap (`TicksFit`): at 100 ticks
  in a second a period of half a day or more runs a timer faster than it says, and one
  that wraps to no ticks ends in an assertion.
- `NvsFails = FALSE` in `telemetry_core`: an NVS that cannot be opened reads as switched
  off, and a failed write is not noticed. `telemetry_lowqueue` checks what survives.
- `torn` holds the sources of which the timer service read a field before the application
  had written it, after it had found the flag up: the application raises the flag first
  (`edgehog_battery_status.c:120-123`). What is published mixes two readings and the newer
  one is never sent. The example's application has idle priority and the chip two cores,
  so nothing keeps the timer service out; the run and the proofs let the tasks interleave
  at every access. A source leaves `torn` with its next publication that is not.
- `ConfigLives` speaks of frees while every task could be created: after a failed creation
  the next request frees the same block again.
- `KillsLiveTask` speaks of one core, and of tasks that could all be created: on two
  cores a blink task can end between the check of its flag and `vTaskDelete`; a failed
  creation leaves `current_config` pointing to freed memory.
- `DarkAtRest` excepts, by `leftLit`, a task killed while the LED was lit for a request
  that then found no memory, and a level read from a configuration already freed.
- `StoredIsPublished` is for the readings that were stored: one that arrives while
  another waits is dropped, as `edgehog_battery_status_update` does.
- `torn` records the keys whose publication was not stored, or crossed another: for
  those a later call with the old number returns `ESP_OK` while the server has the
  other one.
- `partial` records the groups with a field that one of the last publications did not
  send, because it failed or a restart cut it short: `WholeGroups` speaks of the others,
  `FieldsInOrder` of all that stop at a failure. Where the start and the timer service
  publish a group at once, each field is left with the value of either: `WholeGroups` then
  says that it is at least as new as the first of the publications that overlapped.
- `AllOrNothing` leaves out the manager of the LED, which
  `edgehog_device_new` does not look at and `edgehog_device_destroy` does not free.
- A second device is only made while no scan handler is registered, and no handler or
  timer of a destroyed device runs: they would use freed memory.

## Fairness

`ota_core` assumes `WF(BootStep) /\ WF(TaskStep)`, and `telemetry_service` and
`telemetry_zero` `WF(AppStep) /\ WF(CallStep) /\ WF(MqttStep) /\ WF(ServiceStep)`: a task of FreeRTOS that is ready eventually runs,
because every task of this system blocks on something between
bursts of work and those of idle priority share it by time slicing. It is weak fairness
on each activity as a whole, so nothing is assumed about which outcome a step has:
downloads may fail every time. No fairness makes the server send anything, a telemetry
start be called, a timer fire or the device restart. `TaskStep` includes `TaskRestart`:
the task does call `esp_restart` five seconds after it said so. The bounds help no
liveness property: those of the environment only end what the environment does, and
`chunk` is bounded by the size of an image.

`status_battery` assumes weak fairness of both tasks and of the timer, which is
periodic. As no reading is published over a network that is always down, it also assumes,
for each source by itself, strong fairness of a publication that succeeds: not every
attempt to publish this source finds no memory or no network. `StoredIsPublished` therefore
does not lean on `MaxUpdates`: a source is not starved by the readings of another.

## What is proved

For every value of the constants that meets the `ASSUME`s of the module, by TLAPS:

| module | theorem | says |
|---|---|---|
| `EdgehogOtaProofs` | `TypeCorrect` | `[]TypeOK` |
| | `CancelInTimeWins` | `[]InTimeCancelWins`, whatever fails |
| | `LiveDataIsKept` | the action property `LiveDataKept`, whatever fails |
| | `StepsAreOrdered` | the action property `ProgressOrder`, whatever fails |
| | `SuccessIsInstalled`, `RestartRecorded`, `InFlightRecorded`, `VerdictsAreFinal` | `[]SuccessMeansInstalled`, `[]RestartIsRecorded`, `[]InFlightIsRecorded`, `[]VerdictIsFinal`, assuming `Quiet` |
| | `SuccessRunsItsImage` | the action property `SuccessRunsImage`, assuming `Quiet` |
| | `UpdateImplementsService` | `Spec` implements `OtaService` under the refinement mapping of `EdgehogOta`, assuming `Quiet` |
| `EdgehogTelemetryProofs` | `TypeCorrect` | `[]TypeOK`, with one holder of the mutex at work on the list |
| | `TicksAreExact` | `Ticks(p) = p * TickRate` for every period that fits |
| | `RunningHasEntry` | `[]CallbackHasEntry`, for every queue and whatever fails |
| | `OneTimerWithRoom` | `[]OneTimerPerType`, while the queue has room (`[]Room`) |
| | `StoredRuns` | `[]RunningIsStored`, while queue and heap have room and `NvsFails = FALSE` |
| | `WordsHold` | `[]LastWordHolds`, likewise |
| `EdgehogTelemetryServiceProofs` | `TelemetryImplementsService` | `Spec` implements `TelemetryService` under the refinement mapping of `EdgehogTelemetry`, while queue and heap have room and `NvsFails = FALSE` |
| `EdgehogStatusProofs` | `TypeCorrect` | `[]TypeOK`: levels stay in their range, the walk within the list |
| | `PublishedIsAReading`, `NothingIsPassedOver` | `[]PublishedWasGiven`, `[]ClearedIsPublished`, for any interleaving |
| | `StatusImplementsService` | `Spec` implements `ReadingService` under the refinement mapping of `EdgehogStatus`, for any interleaving |
| `EdgehogLedProofs` | `TypeCorrect`, `NeverTwoBlinkers`, `ConfigIsKept`, `KilledWasAlive`, `DarkWhenOver` | the five invariants of `led_core` |
| `EdgehogDeviceProofs` | `TypeCorrect` | `[]TypeOK` of the composition |
| | `NothingStoredUnsent`, `StoredAgrees`, `KeptCallAgrees` | `[]StoredWasSent`, `[]StoredIsServers`, the action property `KeptIsServers` |
| | `HandlerWaits`, `NeverTwice` | `[]OwnScanHasHandler`, `[]PublishedOnce` |
| `ServiceProofs` | `VerdictsStand` | `OtaService` settles a request once, and as a success only when its image was made bootable, but for requests it disowns |
| | `SentStaysStored` | `TelemetryService` sends what is stored, between changes and after a load |
| | `OnlyNewsIsPublished` | `ReadingService` publishes each reading that waited once, and none the server has; a torn one is made of readings of its source |
| `EdgehogPublishProofs` | `HandleIsWhole` | `[]AllOrNothing`, of the composition |
| | `FieldsStayInOrder`, `PathsFit`, `GroupsAreWhole` | `[]FieldsInOrder`, `[]SentPathsFit`, `[]WholeGroups`, of the composition |

`Quiet` is `MaxFaults = 0`: the calls of NVS, partitions and publication work, as in
`ota_core`; nothing is assumed of when requests come, nor of restarts and rollbacks.
`Room` says that the timer queue has room for a command, `HeapRoom` that the heap has room
for a timer; the theorems that need them assume them of every state of the behaviour. The
timer service outranks the tasks that queue commands less often than it is outranked by
them, so the code has no reason for `Room` but the length of FreeRTOS's queue: when
commands are lost, what survives is `RunningHasEntry`, and is checked by
`telemetry_lowqueue`. In `telemetry_core` and `telemetry_service` the queue is longer than
what their events can put into it.

How the arguments go.

- **Update, the flash.** `SuccessMeansInstalled` is not inductive: a boot reports
  `Success` from what it reads in NVS. `IInv` adds that a task that works while the boot
  has not cleaned up is that of a crossed request (`BootAlone`), whose id, or the one
  before it, is all the NVS can hold then (`StrayId`); that what the boot has read is
  still in NVS, unless it is of such a request (`BootReadsFlash`); that the flash tells
  how far the task has come (`TaskWritesFlash`); and, the heart of it, that a state
  `"reboot"` with an id in NVS means that id's image was installed (`RebootInstalled`).
  The last one holds because the task writes `"inProgress"` before it replaces the id:
  the two are different writes, and a restart may fall between them. Cancellation needs
  only that a timely notification is still pending (`CancelIsPending`).
- **Update, the verdicts.** A boot that is restarted reports again, from the same flash.
  `VerdictInv` says of each request, but the crossed and undone ones, that a success
  stands where the next boot would repeat it (`SuccessStands`: the id is gone, or the
  boot goes on and still finds the address of another slot), and a failure where the next
  boot would not turn it into a success (`FailureStands`). That a later restart sees what
  an earlier one saw takes `BootKeepsSlot`: the slot selected does not change before the
  boot is done, except by a rollback, which puts the request into `undone` if it was
  settled; and that no other request's `"reboot"` is around takes `RebootIsComing`.
- **Update, the image.** `SuccessRunsImage` needs that a boot about to report a success
  runs the image of the request in NVS (`BootRunsImage`), rollbacks included: the task
  that restarts the device has nothing to roll back to, because its download
  has erased the slot that a rollback would need.
- **Update, the refinement.** `OtaService` has one request in hand. The mapping takes it
  from the task while it works and from the NVS otherwise (`PendingRequest`), and the
  verdicts from the history; the requests of `crossed` and `undone` leave the service by
  its step `Disown`. `ServiceInv` says that task and NVS agree where they meet: the
  id in NVS is the task's from the download on, and a settled one before. Each action
  then maps to one step of `OtaService` or to a stutter; a restart between the
  acknowledgement and the write of the id is its step `Lose`.
- **Update, the order of the statuses.** `OrderInv` ties each place of the task to what
  it last reported (`ProgressAt`), and says that nobody else reports of a request in
  progress and that only a crossed one can be settled under its task. It holds whatever
  fails.
- **Telemetry.** `TypeInv` splits `TypeOK` by who writes what. `TimerInv` says what the
  queue may hold for a timer: nothing after its deletion, nothing for one the service
  does not know, and no command that would start a timer whose entry is freed; no
  assumption about the queue's length is needed for `CallbackHasEntry`. That a type has
  one timer needs `OrderInv`: every timer that runs or is about to is listed, or doomed
  by a deletion in the queue that stands before the start of the listed one; this is
  where room in the queue comes in, as a dropped deletion dooms nobody. `StoreInv`
  compares each entry with its two keys, step by step through
  `save_telemetry_to_nvs`, and `WordInv` follows an event of the server through the
  restart and the load, in which a type waits in `todo` until its turn comes.
- **Telemetry, the refinement.** The mapping reads what is sent from the list and the
  queue: the period that the timer of an entry has once its commands are served. With
  `StoreInv` this is what the keys and the running call say (`SentIsStored`), so that the
  service's step is a stutter and no other step needs to look at the queue; `LoadInv`
  adds that the load asks for what is stored, or else configured, and leaves out
  nothing.
- **Battery and geolocation.** While the timer service is at an entry the entry's flag
  stands (`FlagStands`), so that the application stores no other reading there, and at
  most completes the one it has begun to. `DocIsEntry` says that the document read so far
  agrees with the entry as it will be, unless a field was read too early, and is then
  made of readings of the source (`FieldsWereGiven`); `WritesReading` that the fields
  written so far are those of the reading in hand; `UnflaggedIsPublished` that an unflagged
  entry is the last one published, if that was not torn. For the refinement a reading waits
  from the moment the application raises the flag to its publication, and the two tasks'
  steps on the fields are stutters: the entry stands for the reading it is about to hold.
- **LED.** Whoever blinks is the manager's task with the manager's configuration, whose
  flag is down, until the handler has killed it; no other task is in its loop. The
  only block in use is the manager's, because a task that ends does not get to free its
  own. A lit LED has a task that will darken it, a request under way, or `leftLit`.
- **Device.** The setter: what a caller is about to store was sent, and with only one
  such caller it is what the server has (`InfoInv`). The scan: registrations only grow,
  the driver's records are those of a scan that ended and was not published, and a scan
  that goes on or is about to start has a handler (`ScanInv`).
- **Publications and life.** `PublishInv` says that a publication of a group that stops at
  a failure is the last of its group, the only one under way, and has sent the fields it
  has passed (`Solo`), because these are published by one task each (`Own`). Of any group,
  a publication under way is no older than the first of those that overlap, and the fields
  it has passed are no older either, if none of them has missed one (`Recent`); what is
  left when the last of them is done is `WholeGroups`. Paths fit because `/imei`, which is
  sent first, is compared with the buffer and is no shorter than the two endpoints that
  are not. `LifeInv` gives the heap as a function of the place in `edgehog_device_new` and
  `edgehog_device_destroy`.

Only model-checked: the liveness properties (`AcceptedIsAnswered`,
`StoredIsAnswered`, `StartReturns`, `TimersFollowList`, `StoredIsPublished`), since
liveness under fairness is beyond the prover, and the four properties that are
violated. Every other property of a run is one of the theorems above; `PublishedWasGiven`,
which no run needs beside the refinement that implies it, is one too.

## What is not modelled

- The example application, which only shows how the library is started; that it hands
  over events before `edgehog_device_start` is in the models.
- The events posted to the application: `EDGEHOG_OTA_*_EVENT` carry no request, are
  dropped when the event loop's queue is full, and nothing in the library depends on them.
- The values of what is published, message texts, progress percentages, and the delays
  that tell the LED's patterns apart.
- What a handler or a timer of a destroyed device does, a second device that is made
  while a handler is registered: uses of freed memory, to which no outcome can be given.
- `edgehog_ota_init` called again by a start that is tried again, in `EdgehogOta`.
- A telemetry made without configurations: it is the configuration in which every type
  is `Default`, and the memory it does without is not told apart.
- The libraries: Astarte's connection and its own queueing, the HTTPS client, the
  bootloader. What the code sees of them (a call fails, an image is valid, a rollback
  happened) is a choice in the model, marked external in `PROJECT.json`.
- Memory and handles that leak: NVS handles of Cancel, entries of removed telemetries,
  registrations of the scan handler. The code sets no limit that a property could speak
  of; the hazards in `PROJECT.json` name the lines.

## Plan

Done: the modules, runs and theorems above; all components but the example application
are modelled, and the update, the telemetry and the readings have abstract specifications
that they are proved to implement. What could follow, in this order.

1. `EdgehogTelemetry` and `EdgehogStatus` under one timer service, to let a callback
   delay the commands of the others.
2. Readings of battery and geolocation that arrive from several tasks.
3. `ota_faults` with two faults, and with `edgehog_ota_init` called again by a start that
   is tried again.
