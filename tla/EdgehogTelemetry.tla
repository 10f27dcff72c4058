--------------------------- MODULE EdgehogTelemetry ---------------------------
(***************************************************************************)
(* The periodic telemetry of src/edgehog_telemetry.c.                      *)
(*                                                                         *)
(* The application task loads the telemetries at start, first from NVS,    *)
(* then from the configuration it was built with.  The MQTT task handles   *)
(* the server's "enable" and "periodSeconds" events.  Both hold            *)
(* load_tl_mutex while they work, and give up when they do not get it in   *)
(* time.  The timers belong to the timer service task: the others only     *)
(* queue commands for it, without waiting for room in the queue.           *)
(***************************************************************************)
EXTENDS Integers, Sequences, FiniteSets

CONSTANTS
    Type,           \* telemetry types
    Period,         \* periods in seconds
    TickRate,       \* ticks in a second
    TickModulus,    \* 2^32, where a count of ticks wraps
    TimerId,        \* the timers the heap has room for
    None,           \* an absent value
    QueueLength,    \* configTIMER_QUEUE_LENGTH
    MaxEvents,      \* bound: events of the server
    MaxRestarts,    \* bound: restarts
    ZeroPeriods,    \* does the server send a period of zero seconds?
    NvsFails        \* may the NVS fail to be opened or written?

ASSUME PeriodAssumption == Period \subseteq Nat \ {0}

ASSUME TickAssumption == TickRate \in Nat \ {0} /\ TickModulus \in Nat \ {0}

ASSUME TimerAssumption == IsFiniteSet(TimerId)

ASSUME LimitAssumption ==
    QueueLength \in Nat \ {0} /\ MaxEvents \in Nat /\ MaxRestarts \in Nat

ASSUME SwitchAssumption == {ZeroPeriods, NvsFails} \subseteq BOOLEAN

VARIABLES
    config,       \* the period each type is configured with, or Default
    nvsEnable,    \* the "ehte" key of each type
    nvsPeriod,    \* the "ehtp" key of each type, or Default
    holder,       \* of load_tl_mutex
    appPc, todo,  \* the loop of the load, and the types it has yet to visit
    mqttPc, event,
    call,         \* the running telemetry_schedule: its type and period
    callPc,
    entry,        \* timer_list: the timer of each type
    timer,        \* what the timer service knows of each timer
    freed,        \* timers whose entry was given back to the heap
    queue,        \* commands for the timer service
    events, restarts,
    lastWord      \* did the last event handled switch the type on, or off, or come too
                  \* early to switch it off?

nvs    == <<nvsEnable, nvsPeriod>>
app    == <<appPc, todo>>
mqtt   == <<mqttPc, event>>
timers == <<entry, timer, freed, queue>>
limits == <<events, restarts>>
vars   == <<config, nvs, holder, app, mqtt, call, callPc, timers, limits, lastWord>>

Default  == 0     \* TELEMETRY_UPDATE_DEFAULT
Disabled == -1    \* TELEMETRY_UPDATE_DISABLED

Periods == Period \cup {Default, Disabled}

\* The server's events: a value, 0 and 1 for false and true, or an unset property.
ServerPeriods == Period \cup {Disabled} \cup (IF ZeroPeriods THEN {0} ELSE {})
Events == [type : Type, endpoint : {"enable"}, set : {TRUE}, value : {0, 1}]
            \cup [type : Type, endpoint : {"periodSeconds"}, set : {TRUE},
                  value : ServerPeriods]
            \cup [type : Type, endpoint : {"enable", "periodSeconds"}, set : {FALSE},
                  value : {0}]

ASSUME SentinelAssumption ==
    None \notin Type \cup TimerId \cup {"app", "mqtt"} \cup Events
                    \cup [type : Type, period : Periods]

\* pdMS_TO_TICKS of a period in milliseconds, a TickType_t like all in it.
Ticks(p) == (((p * 1000 % TickModulus) * TickRate) % TickModulus) \div 1000

\* The period is that of the timer, in ticks.
Commands == [op : {"start", "change", "delete"}, id : TimerId, period : Nat]

TypeOK ==
    /\ config \in [Type -> Period \cup {Default}]
    /\ nvsEnable \in [Type -> {"absent", "default", "enabled", "disabled"}]
    /\ nvsPeriod \in [Type -> Period \cup {Default}]
    /\ holder \in {None, "app", "mqtt"}
    /\ appPc \in {"boot", "take", "nvs", "config", "spin", "started", "failed", "destroyed"}
    /\ todo \subseteq Type
    /\ mqttPc \in {"idle", "take", "handle"} /\ event \in Events \cup {None}
    /\ call \in [type : Type, period : Periods] \cup {None}
    /\ callPc \in {"none", "schedule", "saveEnable", "savePeriod"}
    /\ callPc # "none" => holder # None /\ call # None
    /\ (appPc \in {"nvs", "config", "spin"}) = (holder = "app")
    /\ (mqttPc = "handle") = (holder = "mqtt") /\ (mqttPc # "idle" => event # None)
    /\ entry \in [Type -> TimerId \cup {None}]
    /\ timer \in [TimerId -> [state : {"unused", "dormant", "active"},
                              type : Type \cup {None}, period : Nat]]
    /\ freed \subseteq TimerId
    /\ queue \in Seq(Commands) /\ Len(queue) <= QueueLength
    /\ events \in 0..MaxEvents /\ restarts \in 0..MaxRestarts
    /\ lastWord \in [Type -> {"none", "early", "on", "off"}]

NoTimer == [state |-> "unused", type |-> None, period |-> 0]

Init ==
    /\ config \in [Type -> Period \cup {Default}]
    /\ nvsEnable = [t \in Type |-> "absent"] /\ nvsPeriod = [t \in Type |-> Default]
    /\ holder = None /\ appPc = "boot" /\ todo = {}
    /\ mqttPc = "idle" /\ event = None /\ call = None /\ callPc = "none"
    /\ entry = [t \in Type |-> None] /\ timer = [i \in TimerId |-> NoTimer]
    /\ freed = {} /\ queue = <<>>
    /\ events = 0 /\ restarts = 0 /\ lastWord = [t \in Type |-> "none"]

\* The flash stays; tasks, timers and the queue of their commands are gone.
Rebooted ==
    /\ holder' = None /\ appPc' = "boot" /\ todo' = {}
    /\ mqttPc' = "idle" /\ event' = None /\ call' = None /\ callPc' = "none"
    /\ entry' = [t \in Type |-> None] /\ timer' = [i \in TimerId |-> NoTimer]
    /\ freed' = {} /\ queue' = <<>>
    /\ UNCHANGED <<config, nvs, events, lastWord>>

\* esp_restart or power loss.
Restart ==
    /\ restarts < MaxRestarts /\ restarts' = restarts + 1
    /\ Rebooted

-----------------------------------------------------------------------------
(* telemetry_schedule and save_telemetry_to_nvs, on behalf of the mutex holder. *)

\* get_timer_entry.
HasTimer(t) == entry[t] # None

Call(t, p) == call' = [type |-> t, period |-> p] /\ callPc' = "schedule"

Room == Len(queue) < QueueLength

\* A timer command with no time to wait: it is dropped when the queue is full.
Send(op, i, p) ==
    queue' = IF Room THEN Append(queue, [op |-> op, id |-> i, period |-> p]) ELSE queue

Saved(p) == callPc' = "saveEnable" /\ call' = [call EXCEPT !.period = p]

\* Nothing to do for a type without a timer.
ScheduleNothing ==
    /\ ~HasTimer(call.type) /\ call.period <= 0
    /\ callPc' = "none"
    /\ UNCHANGED <<call, timers>>

\* The entry is appended once its timer has been asked to start.  A full queue
\* leaves the timer dormant for ever: its deletion does not fit either.
ScheduleNew ==
    /\ ~HasTimer(call.type) /\ call.period > 0
    /\ \E i \in TimerId :
         /\ timer[i].state = "unused"
         /\ timer' = [timer EXCEPT ![i] = [state |-> "dormant", type |-> call.type,
                                           period |-> Ticks(call.period)]]
         /\ freed' = IF Room THEN freed \ {i} ELSE freed \cup {i}
         /\ Send("start", i, Ticks(call.period))
         /\ entry' = IF Room THEN [entry EXCEPT ![call.type] = i] ELSE entry
         /\ Saved(IF Room THEN call.period ELSE Disabled)

\* The heap has no room for an entry or a timer.
ScheduleNoMemory ==
    /\ ~HasTimer(call.type) /\ call.period > 0
    /\ \A i \in TimerId : timer[i].state # "unused"
    /\ callPc' = "none"
    /\ UNCHANGED <<call, timers>>

\* Mutant: the new period is not passed to the timer.
ScheduleChange_notSent ==
    /\ HasTimer(call.type) /\ call.period > 0
    /\ Saved(call.period)
    /\ UNCHANGED timers
ScheduleChange ==
    /\ HasTimer(call.type) /\ call.period > 0
    /\ Send("change", entry[call.type], Ticks(call.period))
    /\ Saved(call.period)
    /\ UNCHANGED <<entry, timer, freed>>

\* Mutant: the entry is freed while its timer still runs.
RemovedEntry_freed(i) == freed' = freed \cup {i}
\* The entry is taken off the list, and its memory is never given back.
RemovedEntry(i) == UNCHANGED freed

\* Mutant: the timer is forgotten without being deleted.
DeleteTimer_forgotten(i) == UNCHANGED queue
DeleteTimer(i) == Send("delete", i, timer[i].period)

ScheduleRemove ==
    /\ HasTimer(call.type) /\ call.period <= 0
    /\ DeleteTimer(entry[call.type])
    /\ RemovedEntry(entry[call.type])
    /\ entry' = [entry EXCEPT ![call.type] = None]
    /\ Saved(call.period)
    /\ UNCHANGED timer

\* FreeRTOS asserts that the period of a timer it creates is not zero.
CreateAsserts ==
    /\ ~HasTimer(call.type) /\ call.period > 0 /\ Ticks(call.period) = 0
    /\ \E i \in TimerId : timer[i].state = "unused"

Schedule ==
    /\ callPc = "schedule" /\ ~CreateAsserts
    /\ \/ ScheduleNothing \/ ScheduleNew \/ ScheduleNoMemory
       \/ ScheduleChange \/ ScheduleRemove
    /\ UNCHANGED <<config, nvs, holder, app, mqtt, limits, lastWord>>

ScheduleAsserts ==
    /\ callPc = "schedule" /\ CreateAsserts
    /\ Rebooted /\ UNCHANGED restarts

\* Mutant: a type that is switched off is only reset to its default.
StoredEnable_default(p) == IF p > 0 THEN "enabled" ELSE "default"
StoredEnable(p) ==
    IF p > 0 THEN "enabled" ELSE IF p < 0 THEN "disabled" ELSE "default"

\* A value written in NVS, whose error is not looked at.
Written(nvsKey, v) ==
    \/ nvsKey' = [nvsKey EXCEPT ![call.type] = v]
    \/ NvsFails /\ nvsKey' = nvsKey

SaveEnable ==
    /\ callPc = "saveEnable"
    /\ Written(nvsEnable, StoredEnable(call.period))
    /\ callPc' = IF call.period > 0 THEN "savePeriod" ELSE "none"
    /\ UNCHANGED <<config, nvsPeriod, holder, app, mqtt, call, timers, limits, lastWord>>

SavePeriod ==
    /\ callPc = "savePeriod"
    /\ Written(nvsPeriod, call.period)
    /\ callPc' = "none"
    /\ UNCHANGED <<config, nvsEnable, holder, app, mqtt, call, timers, limits, lastWord>>

-----------------------------------------------------------------------------
(* edgehog_telemetry_start, called by the application task. *)

\* The application may try again after a failure.
AppCalls ==
    /\ appPc \in {"boot", "failed"} /\ appPc' = "take"
    /\ UNCHANGED <<config, nvs, holder, todo, mqtt, call, callPc, timers, limits, lastWord>>

\* The mutex is free, and load_telemetry_from_nvs lists the types the NVS knows, if
\* it can be opened.
AppTakes ==
    /\ appPc = "take" /\ holder = None
    /\ holder' = "app" /\ appPc' = "nvs"
    /\ \/ todo' = {t \in Type : nvsEnable[t] # "absent"}
       \/ NvsFails /\ todo' = {}
    /\ UNCHANGED <<config, nvs, mqtt, call, callPc, timers, limits, lastWord>>

\* Mutant: the load goes on without the mutex.
AfterTimeout_load == "config"
AfterTimeout == "failed"

\* Ten ticks have passed: EDGEHOG_ERR_DEVICE_NOT_READY.
AppTimesOut ==
    /\ appPc = "take" /\ holder # None
    /\ appPc' = AfterTimeout
    /\ UNCHANGED <<config, nvs, holder, todo, mqtt, call, callPc, timers, limits, lastWord>>

\* Mutant: the period of a type that is switched off is loaded all the same.
LoadedPeriod_stored(t) == nvsPeriod[t]
LoadedPeriod(t) == IF nvsEnable[t] = "disabled" THEN Disabled ELSE nvsPeriod[t]

LoadNvs(t) ==
    /\ appPc = "nvs" /\ callPc = "none" /\ t \in todo /\ nvsEnable[t] # "default"
    /\ todo' = todo \ {t}
    /\ Call(t, LoadedPeriod(t))
    /\ UNCHANGED <<config, nvs, holder, appPc, mqtt, timers, limits, lastWord>>

\* `continue' goes back to the loop condition with the iterator where it was.
LoadNvsDefault(t) ==
    /\ appPc = "nvs" /\ callPc = "none" /\ t \in todo /\ nvsEnable[t] = "default"
    /\ appPc' = "spin"
    /\ UNCHANGED <<config, nvs, holder, todo, mqtt, call, callPc, timers, limits, lastWord>>

\* telemetry_type_is_present_in_config.
Configured(t) == config[t] # Default

LoadNvsDone ==
    /\ appPc = "nvs" /\ callPc = "none" /\ todo = {}
    /\ appPc' = "config" /\ todo' = {t \in Type : Configured(t)}
    /\ UNCHANGED <<config, nvs, holder, mqtt, call, callPc, timers, limits, lastWord>>

\* Mutant: a type that was loaded with its own period gets the configured one.
LoadConfig_overrides(t) ==
    /\ appPc = "config" /\ callPc = "none" /\ t \in todo
    /\ todo' = todo \ {t} /\ Call(t, config[t])
    /\ UNCHANGED <<config, nvs, holder, appPc, mqtt, timers, limits, lastWord>>
\* load_telemetry_from_config: a configured type without a timer gets one.
LoadConfig(t) ==
    /\ appPc = "config" /\ callPc = "none" /\ t \in todo
    /\ todo' = todo \ {t}
    /\ IF HasTimer(t) THEN UNCHANGED <<call, callPc>> ELSE Call(t, config[t])
    /\ UNCHANGED <<config, nvs, holder, appPc, mqtt, timers, limits, lastWord>>

AppGives ==
    /\ appPc = "config" /\ callPc = "none" /\ todo = {}
    /\ holder' = None /\ appPc' = "started"
    /\ UNCHANGED <<config, nvs, todo, mqtt, call, callPc, timers, limits, lastWord>>

-----------------------------------------------------------------------------
(* edgehog_telemetry_config_event, called by the MQTT task. *)

EventArrives(e) ==
    /\ mqttPc = "idle" /\ events < MaxEvents /\ appPc # "destroyed"
    /\ mqttPc' = "take" /\ event' = e /\ events' = events + 1
    /\ UNCHANGED <<config, nvs, holder, app, call, callPc, timers, restarts, lastWord>>

\* get_telemetry_period_from_config.
ConfigPeriod(t) == IF Configured(t) THEN config[t] ELSE Disabled

\* The period an event asks for, where stored is the one read from NVS.
EventPeriod(e, stored) ==
    CASE e.endpoint = "enable" ->
           LET on == IF e.set THEN e.value = 1 ELSE Configured(e.type)
           IN  IF on THEN stored ELSE Disabled
      [] e.endpoint = "periodSeconds" ->
           IF e.set THEN e.value ELSE ConfigPeriod(e.type)

\* get_telemetry_period_from_nvs: an NVS that cannot be opened reads as Disabled.
StoredPeriod(t) == {nvsPeriod[t]} \cup (IF NvsFails THEN {Disabled} ELSE {})

\* Nothing was loaded yet, so that an event that switches the type off finds no timer.
TooEarly(t) == appPc # "started" /\ ~HasTimer(t)

EventTakes ==
    /\ mqttPc = "take" /\ holder = None
    /\ holder' = "mqtt" /\ mqttPc' = "handle"
    /\ \E stored \in StoredPeriod(event.type) : Call(event.type, EventPeriod(event, stored))
    /\ lastWord' = [lastWord EXCEPT ![event.type] =
                      IF TooEarly(event.type) THEN "early" ELSE "none"]
    /\ UNCHANGED <<config, nvs, app, event, timers, limits>>

\* The event is dropped: EDGEHOG_ERR_DEVICE_NOT_READY.
EventTimesOut ==
    /\ mqttPc = "take" /\ holder # None
    /\ mqttPc' = "idle" /\ event' = None
    /\ UNCHANGED <<config, nvs, holder, app, call, callPc, timers, limits, lastWord>>

EventGives ==
    /\ mqttPc = "handle" /\ callPc = "none"
    /\ holder' = None /\ mqttPc' = "idle" /\ event' = None
    /\ lastWord' = [lastWord EXCEPT ![event.type] =
                      IF HasTimer(event.type) THEN "on"
                      ELSE IF @ = "early" THEN "early" ELSE "off"]
    /\ UNCHANGED <<config, nvs, app, call, callPc, timers, limits>>

-----------------------------------------------------------------------------
(* The timer service task, and edgehog_telemetry_destroy. *)

\* The service asserts that a changed period is not zero.
ServeAsserts ==
    /\ queue # <<>> /\ Head(queue).op = "change" /\ Head(queue).period = 0
    /\ Rebooted /\ UNCHANGED restarts

ServeCommand ==
    /\ queue # <<>> /\ ~(Head(queue).op = "change" /\ Head(queue).period = 0)
    /\ LET c == Head(queue) IN
         timer' = [timer EXCEPT ![c.id] =
                     IF c.op = "delete" THEN NoTimer
                     ELSE [@ EXCEPT !.state = "active", !.period = c.period]]
    /\ queue' = Tail(queue)
    /\ UNCHANGED <<config, nvs, holder, app, mqtt, call, callPc, entry, freed, limits,
                   lastWord>>

\* The deletion of every timer that is active is queued, in the order of the list,
\* and all entries are freed.  Called when neither task is within the telemetry.
Destroy ==
    /\ appPc \in {"started", "failed"} /\ holder = None /\ mqttPc = "idle"
    /\ appPc' = "destroyed"
    /\ LET listed == {entry[t] : t \in Type} \ {None}
           active == {i \in listed : timer[i].state = "active"}
           room   == QueueLength - Len(queue)
           sent   == IF Cardinality(active) < room THEN Cardinality(active) ELSE room
       IN  /\ \E s \in [1..sent -> active] :
                /\ \A m, n \in 1..sent : s[m] = s[n] => m = n
                /\ queue' = queue \o [n \in 1..sent |->
                                      [op |-> "delete", id |-> s[n],
                                       period |-> timer[s[n]].period]]
           /\ freed' = freed \cup listed
    /\ entry' = [t \in Type |-> None]
    /\ UNCHANGED <<config, nvs, holder, todo, mqtt, call, callPc, timer, limits, lastWord>>

-----------------------------------------------------------------------------
AppStep == \/ AppTakes \/ AppTimesOut \/ LoadNvsDone \/ AppGives
           \/ \E t \in Type : LoadNvs(t) \/ LoadNvsDefault(t) \/ LoadConfig(t)

CallStep == Schedule \/ ScheduleAsserts \/ SaveEnable \/ SavePeriod

MqttStep == EventTakes \/ EventTimesOut \/ EventGives

ServiceStep == ServeCommand \/ ServeAsserts

Next == \/ AppCalls \/ AppStep \/ CallStep
        \/ \E e \in Events : EventArrives(e)
        \/ MqttStep \/ ServiceStep \/ Destroy \/ Restart

Spec == Init /\ [][Next]_vars

\* A task that is not waiting for the application or the server goes on.
FairSpec == Spec /\ WF_vars(AppStep) /\ WF_vars(CallStep) /\ WF_vars(MqttStep)
                 /\ WF_vars(ServiceStep)

-----------------------------------------------------------------------------
Running(t) == {i \in TimerId : timer[i].state = "active" /\ timer[i].type = t}

\* Nobody is at work on the telemetries and all commands were served.
Settled == appPc = "started" /\ holder = None /\ queue = <<>>

\* README.md:81, "Each telemetry type will create a separate timer": a type that is
\* switched off and on again never has two, because the service takes the deletion
\* of the old timer before the start of the new one.
OneTimerPerType == \A t \in Type : Cardinality(Running(t)) <= 1

\* The period in ticks, which wraps when it is a TickType_t no more: it is half a day at
\* 100 ticks in a second.
TicksFit(p) == p * 1000 * TickRate < TickModulus

\* What runs is what a restart would load: every listed timer is active with the
\* stored period, unless that wraps, and nothing else is (edgehog_telemetry.c:167-225,
\* 312-344).
RunningIsStored ==
    Settled => \A t \in Type :
        IF entry[t] # None
        THEN /\ Running(t) = {entry[t]}
             /\ TicksFit(nvsPeriod[t]) =>
                    timer[entry[t]].period = nvsPeriod[t] * TickRate
             /\ nvsEnable[t] = "enabled"
        ELSE /\ Running(t) = {}
             /\ ~(nvsEnable[t] = "enabled" /\ nvsPeriod[t] > 0)

\* What the last event of the server made of a type outlives the load and restarts, unless
\* the configuration asks for a type that the server has switched off
\* (edgehog_telemetry.c:385-458).  An event that switched the type off before there was
\* anything to switch off has made nothing of it.
LastWordHolds ==
    Settled => \A t \in Type :
        /\ lastWord[t] = "on" => entry[t] # None
        /\ lastWord[t] = "off" /\ config[t] = Default => entry[t] = None

\* The callback of a timer that runs uses its entry (edgehog_telemetry.c:158-165): it
\* is not freed as long as the telemetry is not destroyed.
CallbackHasEntry ==
    appPc # "destroyed" => \A i \in TimerId : timer[i].state = "active" => i \notin freed

\* include/edgehog_device.h:158, "@return EDGEHOG_OK if the device was successfully
\* started, another edgehog_err_t otherwise": a start returns.
StartReturns ==
    appPc = "take" ~> appPc \in {"started", "failed", "boot", "destroyed"}

\* The timers follow the list: the timer of an entry comes to run, and one without an
\* entry comes to stop, with commands that wait in between (edgehog_telemetry.c:202-217).
TimersFollowList ==
    \A i \in TimerId :
        LET listed == \E t \in Type : entry[t] = i
            runs   == timer[i].state = "active"
        IN  /\ listed ~> runs \/ ~listed
            /\ (runs /\ ~listed) ~> (~runs \/ listed \/ appPc = "destroyed")

-----------------------------------------------------------------------------
(* The telemetry implements TelemetryService, with room in the queue and in the heap and *)
(* an NVS that works.                                                                    *)

\* Once the queue is served, timer i runs with a period of p ticks.
Pending(i, p) ==
    \/ /\ timer[i].state = "active" /\ timer[i].period = p
       /\ \A n \in 1..Len(queue) : queue[n].id # i
    \/ \E m \in 1..Len(queue) :
         /\ queue[m].id = i /\ queue[m].op # "delete" /\ queue[m].period = p
         /\ \A n \in 1..Len(queue) : queue[n].id = i => n <= m

InTicks == [p \in Period |-> Ticks(p)]

Enabled == {t \in Type : nvsEnable[t] = "enabled"}

Sent == [t \in Type |-> IF entry[t] = None THEN {}
                       ELSE {p \in {InTicks[q] : q \in Period} : Pending(entry[t], p)}]

Writer == IF holder = "app" THEN "load" ELSE IF holder = "mqtt" THEN "server" ELSE "none"

Change(key) == {[type |-> call.type, left |-> key,
                 period |-> IF call.period > 0 THEN call.period ELSE Default]}

Unsaved == IF callPc = "saveEnable" THEN Change("switch")
           ELSE IF callPc = "savePeriod" THEN Change("period") ELSE {}

Service == INSTANCE TelemetryService
             WITH default <- config, on <- Enabled, period <- nvsPeriod, sent <- Sent,
                  writer <- Writer, loaded <- (appPc = "started"), saving <- Unsaved

\* Timers, queue and NVS together behave as a copy of what is stored that runs ahead of it
\* by one change at most, and that a start restores (edgehog_telemetry.c:167-344, 385-458).
ImplementsService == Service!Spec
=============================================================================
