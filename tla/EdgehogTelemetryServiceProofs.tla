-------------------- MODULE EdgehogTelemetryServiceProofs --------------------
(***************************************************************************)
(* EdgehogTelemetry implements TelemetryService, for any types, periods,   *)
(* timers and number of events and restarts, as long as the queue and the  *)
(* heap have room and the NVS works.                                       *)
(*                                                                         *)
(* StoreInv says which period the timer of an entry will have once its     *)
(* commands are served: the one that is stored, or being stored.  What is  *)
(* sent is thus known from the list, the keys and the running call alone   *)
(* (SentIsStored), and no step needs to look at the queue again.  LoadInv  *)
(* says that the load asks for what is stored, or else configured, and     *)
(* that it has been through all of it when it ends.                        *)
(***************************************************************************)
EXTENDS EdgehogTelemetryProofs

USE DEF nvs, app, mqtt, timers, limits, Default, Disabled

-----------------------------------------------------------------------------
(* The load. *)

\* What the load schedules: the stored period of a type from NVS, the configured one of a
\* type that is not stored as one to be sent.
LoadCall ==
    holder = "app" /\ callPc = "schedule" =>
        /\ appPc = "nvs" => IF On(call.type) THEN call.period = nvsPeriod[call.type]
                            ELSE ~(call.period > 0)
        /\ appPc = "config" => /\ ~On(call.type) /\ Configured(call.type)
                               /\ call.period = config[call.type]
        /\ appPc # "spin"

\* No configured type is left out.
LoadComplete ==
    appPc = "config" => \A t \in Type : Configured(t) =>
        t \in todo \/ HasTimer(t) \/ (callPc = "schedule" /\ call.type = t)

LoadInv == LoadTodo /\ LoadCall /\ LoadComplete

\* A step while the load does not hold the mutex.
LEMMA LoadAway ==
    ASSUME TypeInv', holder' # "app" PROVE LoadInv'
BY DEF TypeInv, TaskType, LoadInv, LoadTodo, LoadCall, LoadComplete

LEMMA LoadInit == Init => LoadInv
BY DEF Init, LoadInv, LoadTodo, LoadCall, LoadComplete

\* A step that leaves the keys, the list, the load and the call alone.
LEMMA LoadKept ==
    ASSUME LoadInv,
           UNCHANGED <<config, nvs, holder, app, call, callPc, entry>>
    PROVE  LoadInv'
BY DEF LoadInv, LoadTodo, LoadCall, LoadComplete, Configured, HasTimer, On

LEMMA ConfiguredPeriod ==
    ASSUME TypeInv, NEW t \in Type, Configured(t)
    PROVE  config[t] \in Period /\ config[t] > 0
<1>1. config[t] \in Period
  BY DEF TypeInv, StoreType, Configured
<1> QED
  BY <1>1, PeriodsAreNat

LEMMA LoadApp ==
    ASSUME TypeInv, TypeInv', StoreInv, LoadInv, NvsFails = FALSE, AppCalls \/ AppStep
    PROVE  LoadInv'
<1>1. CASE AppCalls \/ AppTimesOut
  <2>1. appPc' \notin {"nvs", "config", "spin"} /\ holder' = holder /\ holder # "app"
    BY <1>1 DEF AppCalls, AppTimesOut, AfterTimeout, TypeInv, TaskType
  <2> QED
    BY <2>1, LoadAway
<1>2. CASE AppTakes
  <2>1. callPc = "none" /\ callPc' = "none" /\ appPc' = "nvs" /\ nvsEnable' = nvsEnable
           /\ \A t \in todo' : nvsEnable[t] # "absent"
    BY <1>2 DEF AppTakes, TypeInv, CallType
  <2> QED
    BY <2>1 DEF LoadInv, LoadTodo, LoadCall, LoadComplete
<1>3. CASE LoadNvsDone
  <2>1. callPc' = "none" /\ appPc' = "config" /\ todo' = {t \in Type : Configured(t)}
           /\ config' = config
    BY <1>3 DEF LoadNvsDone
  <2> QED
    BY <2>1 DEF LoadInv, LoadTodo, LoadCall, LoadComplete, Configured
<1>4. CASE AppGives
  BY <1>4, LoadAway, NoneIsNoTask DEF AppGives
<1>5. ASSUME NEW t \in Type, LoadNvs(t) PROVE LoadInv'
  <2>1. /\ appPc = "nvs" /\ appPc' = "nvs" /\ t \in todo /\ todo' = todo \ {t}
        /\ call'.type = t /\ call'.period = LoadedPeriod(t)
        /\ UNCHANGED nvs
    BY <1>5 DEF LoadNvs, Call
  <2>2. nvsEnable[t] \in {"enabled", "disabled"}
    BY <1>5, <2>1 DEF LoadNvs, LoadInv, LoadTodo, TypeInv, StoreType
  <2>3. IF On(t) THEN LoadedPeriod(t) = nvsPeriod[t] ELSE ~(LoadedPeriod(t) > 0)
    BY <2>2 DEF On, LoadedPeriod
  <2>4. LoadTodo' /\ LoadComplete'
    BY <2>1 DEF LoadInv, LoadTodo, LoadComplete
  <2>5. LoadCall'
    BY <2>1, <2>3 DEF LoadCall, On
  <2> QED
    BY <2>4, <2>5 DEF LoadInv
<1>6. ASSUME NEW t \in Type, LoadNvsDefault(t) PROVE LoadInv'
  BY <1>6 DEF LoadNvsDefault, LoadInv, LoadTodo, LoadCall, LoadComplete
<1>7. ASSUME NEW t \in Type, LoadConfig(t) PROVE LoadInv'
  <2>1. /\ appPc = "config" /\ appPc' = "config" /\ t \in todo /\ todo' = todo \ {t}
        /\ callPc = "none" /\ Configured(t)
        /\ UNCHANGED <<nvs, config, entry>>
    BY <1>7 DEF LoadConfig, LoadInv, LoadTodo
  <2>2. CASE HasTimer(t) /\ UNCHANGED <<call, callPc>>
    BY <2>1, <2>2 DEF LoadInv, LoadTodo, LoadCall, LoadComplete, Configured, HasTimer
  <2>3. CASE ~HasTimer(t) /\ Call(t, config[t])
    <3>1. ~On(t)
      BY <2>1, <2>3 DEF StoreInv, NoEntryStored, HasTimer, Saving, Unloaded
    <3>2. call'.type = t /\ call'.period = config[t] /\ callPc' = "schedule"
      BY <2>3 DEF Call
    <3> QED
      BY <2>1, <3>1, <3>2
         DEF LoadInv, LoadTodo, LoadCall, LoadComplete, Configured, HasTimer, On
  <2> QED
    BY <1>7, <2>2, <2>3 DEF LoadConfig
<1> QED
  BY <1>1, <1>2, <1>3, <1>4, <1>5, <1>6, <1>7 DEF AppStep

\* The calls of the load end with a timer for what is configured.
LEMMA LoadSchedule ==
    ASSUME TypeInv, TypeInv', StoreInv, LoadInv, Room, HeapRoom, Schedule
    PROVE  LoadInv'
<1>1. /\ UNCHANGED <<config, nvs, holder, app>> /\ callPc = "schedule"
      /\ callPc' \in {"none", "saveEnable"}
  BY DEF Schedule, ScheduleNothing, ScheduleNew, ScheduleNoMemory, ScheduleChange,
         ScheduleRemove, Saved
<1>2. CASE holder # "app"
  BY <1>1, <1>2, LoadAway
<1>3. CASE holder = "app"
  <2>1. LoadTodo' /\ LoadCall'
    BY <1>1 DEF LoadInv, LoadTodo, LoadCall, Configured
  <2>2. ASSUME appPc = "config"
        PROVE  /\ \A t \in Type : entry[t] # None => entry'[t] # None
               /\ entry'[call.type] # None
    <3>1. call.type \in Type /\ call.period > 0 /\ ~(call.period <= 0)
      <4>1. call.type \in Type /\ call.period \in Int
        BY <1>1, CallPeriod
      <4>2. call.period > 0
        BY <1>1, <1>3, <2>2, <4>1, ConfiguredPeriod DEF LoadInv, LoadCall
      <4> QED
        BY <4>1, <4>2
    <3>2. ~ScheduleNoMemory /\ ~ScheduleNothing /\ ~ScheduleRemove
      BY <3>1 DEF HeapRoom, ScheduleNoMemory, ScheduleNothing, ScheduleRemove
    <3>3. CASE ScheduleNew
      BY <3>1, <3>3, SentinelAssumption DEF ScheduleNew, TypeInv, TimerType
    <3>4. CASE ScheduleChange
      BY <3>4 DEF ScheduleChange, HasTimer
    <3> QED
      BY <3>2, <3>3, <3>4 DEF Schedule
  <2>3. LoadComplete'
    BY <1>1, <2>2 DEF LoadInv, LoadComplete, Configured, HasTimer
  <2> QED
    BY <2>1, <2>3 DEF LoadInv
<1> QED
  BY <1>2, <1>3

LEMMA NextLoad ==
    ASSUME TypeInv, TypeInv', StoreInv, LoadInv, Room, HeapRoom, NvsFails = FALSE,
           [Next]_vars
    PROVE  LoadInv'
<1>1. CASE Restart \/ ScheduleAsserts \/ ServeAsserts
  <2>1. holder' = None
    BY <1>1 DEF Restart, ScheduleAsserts, ServeAsserts, Rebooted
  <2> QED
    BY <2>1, LoadAway, NoneIsNoTask
<1>2. CASE Destroy
  BY <1>2, LoadAway, NoneIsNoTask DEF Destroy
<1>3. CASE SaveEnable \/ SavePeriod
  <2>1. /\ UNCHANGED <<config, holder, app, call, entry>> /\ callPc # "schedule"
        /\ callPc' # "schedule"
    BY <1>3 DEF SaveEnable, SavePeriod
  <2>2. \A t \in Type : nvsEnable[t] # "absent" => nvsEnable'[t] # "absent"
    BY <1>3 DEF SaveEnable, SavePeriod, Written, StoredEnable, TypeInv, StoreType
  <2>3. todo \subseteq Type
    BY DEF TypeInv, TaskType
  <2> QED
    BY <2>1, <2>2, <2>3
       DEF LoadInv, LoadTodo, LoadCall, LoadComplete, Configured, HasTimer
<1>4. CASE EventTakes \/ EventGives
  <2>1. holder' # "app"
    BY <1>4, NoneIsNoTask DEF EventTakes, EventGives
  <2> QED
    BY <2>1, LoadAway
<1>5. CASE EventTimesOut \/ ServeCommand \/ UNCHANGED vars \/ \E e \in Events : EventArrives(e)
  BY <1>5, LoadKept DEF EventTimesOut, ServeCommand, vars, EventArrives
<1> QED
  BY <1>1, <1>2, <1>3, <1>4, <1>5, LoadApp, LoadSchedule
     DEF Next, CallStep, ServiceStep, MqttStep

-----------------------------------------------------------------------------
(* What is sent. *)

\* The timer of an entry comes to have one period.
LEMMA PendingOnce ==
    ASSUME NEW i, NEW p, NEW q, Len(queue) \in Nat, Pending(i, p), Pending(i, q)
    PROVE  p = q
<1>1. CASE \E n \in 1..Len(queue) : queue[n].id = i
  <2>1. PICK m \in 1..Len(queue) : /\ queue[m].id = i /\ queue[m].period = p
                                   /\ \A n \in 1..Len(queue) : queue[n].id = i => n <= m
    BY <1>1 DEF Pending
  <2>2. PICK k \in 1..Len(queue) : /\ queue[k].id = i /\ queue[k].period = q
                                   /\ \A n \in 1..Len(queue) : queue[n].id = i => n <= k
    BY <1>1 DEF Pending
  <2>3. m = k
    BY <2>1, <2>2
  <2> QED
    BY <2>1, <2>2, <2>3
<1>2. CASE ~\E n \in 1..Len(queue) : queue[n].id = i
  BY <1>2 DEF Pending
<1> QED
  BY <1>1, <1>2

\* The period of an entry.
EntryPeriod(t) == IF Saving(t) THEN call.period ELSE nvsPeriod[t]

SentIsStored ==
    \A t \in Type : Sent[t] = IF entry[t] = None THEN {} ELSE {InTicks[EntryPeriod(t)]}

LEMMA SentFromStore == TypeInv /\ StoreInv => SentIsStored
<1> SUFFICES ASSUME TypeInv, StoreInv, NEW t \in Type, entry[t] # None
             PROVE  Sent[t] = {InTicks[EntryPeriod(t)]}
  BY DEF SentIsStored, Sent
<1>1. EntryPeriod(t) \in Period /\ Pending(entry[t], Ticks(EntryPeriod(t)))
  <2>1. CASE Saving(t)
    <3>1. call.period \in Periods /\ call.period > 0
      BY <2>1, CallPeriod DEF Saving, StoreInv, EntryStored
    <3>2. call.period \in Period
      BY <3>1, PositivePeriod
    <3> QED
      BY <2>1, <3>2 DEF StoreInv, EntryStored, EntryPeriod
  <2>2. CASE ~Saving(t)
    <3>1. nvsPeriod[t] \in Period \cup {0} /\ nvsPeriod[t] > 0
      BY <2>2 DEF TypeInv, StoreType, StoreInv, EntryStored, On
    <3>2. nvsPeriod[t] \in Period
      BY <3>1
    <3> QED
      BY <2>2, <3>2 DEF StoreInv, EntryStored, EntryPeriod
  <2> QED
    BY <2>1, <2>2
<1>2. PICK i, p : i = entry[t] /\ p = InTicks[EntryPeriod(t)]
  OBVIOUS
<1>3. Pending(i, p) /\ p \in {InTicks[q] : q \in Period} /\ p = Ticks(EntryPeriod(t))
  BY <1>1, <1>2 DEF InTicks
<1>4. Len(queue) \in Nat
  BY DEF TypeInv, TimerType
<1>5. \A q : Pending(i, q) => q = p
  BY <1>3, <1>4, PendingOnce
<1> QED
  BY <1>2, <1>3, <1>5 DEF Sent

\* What is sent of a type is the same if its entry and its period are.
LEMMA SentSame ==
    ASSUME SentIsStored, SentIsStored', NEW t \in Type, entry'[t] = entry[t],
           entry[t] # None => EntryPeriod(t)' = EntryPeriod(t)
    PROVE  Sent'[t] = Sent[t]
BY DEF SentIsStored, InTicks

\* What is sent is the same if the entries and their periods are.
LEMMA SentEqual ==
    ASSUME SentIsStored, SentIsStored', UNCHANGED entry,
           \A t \in Type : entry[t] # None => EntryPeriod(t)' = EntryPeriod(t)
    PROVE  Sent' = Sent
<1>1. \A t \in Type : Sent'[t] = Sent[t]
  BY DEF SentIsStored, InTicks
<1> QED
  BY <1>1 DEF Sent

\* A step that saves nothing leaves the periods of the entries alone.
LEMMA SentQuiet ==
    ASSUME SentIsStored, SentIsStored', UNCHANGED <<entry, nvs>>,
           callPc \in {"none", "schedule"}, callPc' \in {"none", "schedule"}
    PROVE  Sent' = Sent /\ Enabled' = Enabled /\ Unsaved = {} /\ Unsaved' = {}
<1>1. \A t \in Type : EntryPeriod(t)' = EntryPeriod(t)
  BY DEF EntryPeriod, Saving
<1> QED
  BY <1>1, SentEqual DEF Enabled, Unsaved

LEMMA StoredIsOn ==
    ASSUME TypeInv, NEW t \in Type PROVE On(t) <=> Service!Stored(t)
<1>1. nvsPeriod[t] \in Period \cup {0}
  BY DEF TypeInv, StoreType
<1>2. nvsPeriod[t] > 0 <=> nvsPeriod[t] # 0
  BY <1>1, PeriodsAreNat
<1> QED
  BY <1>2 DEF On, Service!Stored, Enabled

-----------------------------------------------------------------------------
(* The steps. *)

LEMMA ServiceStop ==
    ASSUME TypeInv, Rebooted \/ Destroy PROVE Service!Stop
<1>1. /\ callPc' = "none" /\ appPc' # "started" /\ holder' = None
      /\ entry' = [t \in Type |-> None] /\ UNCHANGED <<config, nvs>>
  BY DEF Rebooted, Destroy, TypeInv, CallType
<1>2. Sent' = [t \in Type |-> {}]
  BY <1>1 DEF Sent
<1>3. Writer' = "none" /\ Unsaved' = {} /\ Enabled' = Enabled
  BY <1>1, NoneIsNoTask DEF Writer, Unsaved, Enabled
<1> QED
  BY <1>1, <1>2, <1>3 DEF Service!Stop

LEMMA ServiceMutex ==
    ASSUME TypeInv, StoreInv, LoadInv, SentIsStored, SentIsStored',
           AppTakes \/ EventTakes \/ AppGives \/ EventGives
    PROVE  Service!Next
<1>1. /\ callPc = "none" /\ callPc' \in {"none", "schedule"}
      /\ UNCHANGED <<config, nvs, entry>>
  BY DEF AppTakes, EventTakes, AppGives, EventGives, TypeInv, CallType, Call
<1>2. Sent' = Sent /\ Enabled' = Enabled /\ Unsaved = {} /\ Unsaved' = {}
  BY <1>1, SentQuiet
<1>3. CASE AppTakes
  <2>1. Writer = "none" /\ Writer' = "load" /\ appPc # "started" /\ appPc' # "started"
    BY <1>3, NoneIsNoTask DEF AppTakes, Writer
  <2>2. Service!Take("load")
    BY <1>1, <1>2, <2>1 DEF Service!Take
  <2> QED
    BY <2>2 DEF Service!Next
<1>4. CASE EventTakes
  <2>1. Writer = "none" /\ Writer' = "server" /\ UNCHANGED appPc
    BY <1>4, NoneIsNoTask DEF EventTakes, Writer
  <2>2. Service!Take("server")
    BY <1>1, <1>2, <2>1 DEF Service!Take
  <2> QED
    BY <2>2 DEF Service!Next
<1>5. CASE AppGives
  <2>1. /\ Writer = "load" /\ Writer' = "none" /\ appPc = "config" /\ appPc' = "started"
        /\ todo = {}
    BY <1>5, NoneIsNoTask DEF AppGives, Writer, TypeInv, TaskType
  <2>2. \A t \in Type : Service!Stored(t) \/ Configured(t) => entry[t] # None
    BY <1>1, <2>1, StoredIsOn
       DEF StoreInv, NoEntryStored, Saving, Unloaded, LoadInv, LoadComplete, HasTimer
  <2>3. \A t \in Type : Service!Stored(t) \/ config[t] # Default => Sent[t] # {}
    BY <2>2 DEF SentIsStored, Configured
  <2>4. Service!Give
    BY <1>1, <1>2, <2>1, <2>3 DEF Service!Give
  <2> QED
    BY <2>4 DEF Service!Next
<1>6. CASE EventGives
  <2>1. Writer = "server" /\ Writer' = "none" /\ UNCHANGED appPc
    BY <1>6, NoneIsNoTask DEF EventGives, Writer, TypeInv, TaskType
  <2>2. Service!Give
    BY <1>1, <1>2, <2>1 DEF Service!Give
  <2> QED
    BY <2>2 DEF Service!Next
<1> QED
  BY <1>3, <1>4, <1>5, <1>6

\* The steps between a call and the next.
LEMMA ServiceIdle ==
    ASSUME TypeInv, SentIsStored, SentIsStored',
           \/ LoadNvsDone
           \/ \E t \in Type : LoadNvs(t) \/ LoadNvsDefault(t) \/ LoadConfig(t)
    PROVE  UNCHANGED Service!service
<1>1. /\ callPc = "none" /\ callPc' \in {"none", "schedule"}
      /\ UNCHANGED <<config, nvs, entry, holder>>
      /\ appPc # "started" /\ appPc' # "started"
  BY DEF LoadNvsDone, LoadNvs, LoadNvsDefault, LoadConfig, Call
<1>2. Sent' = Sent /\ Enabled' = Enabled /\ Unsaved = {} /\ Unsaved' = {}
  BY <1>1, SentQuiet
<1> QED
  BY <1>1, <1>2 DEF Writer, Service!service

\* The steps that change neither the call nor the list.
LEMMA ServiceAside ==
    ASSUME TypeInv, SentIsStored, SentIsStored',
           \/ AppCalls \/ AppTimesOut \/ EventTimesOut \/ ServeCommand
           \/ \E e \in Events : EventArrives(e)
           \/ UNCHANGED vars
    PROVE  UNCHANGED Service!service
<1>1. /\ UNCHANGED <<config, nvs, entry, holder, call, callPc>>
      /\ (appPc' = "started") = (appPc = "started")
  BY DEF AppCalls, AppTimesOut, AfterTimeout, EventTimesOut, ServeCommand, EventArrives, vars
<1>2. \A t \in Type : EntryPeriod(t)' = EntryPeriod(t)
  BY <1>1 DEF EntryPeriod, Saving
<1>3. Sent' = Sent
  BY <1>1, <1>2, SentEqual
<1> QED
  BY <1>1, <1>3 DEF Writer, Unsaved, Change, Enabled, Service!service

LEMMA ServiceSchedule ==
    ASSUME TypeInv, StoreInv, LoadInv, SentIsStored, SentIsStored', Room, HeapRoom, Schedule
    PROVE  [Service!Next]_(Service!service)
<1> DEFINE t == call.type
<1>1. /\ callPc = "schedule" /\ UNCHANGED <<config, nvs, holder, appPc>>
      /\ t \in Type /\ call.period \in Periods /\ call.period \in Int
      /\ call \in [type : Type, period : Periods]
  BY CallPeriod DEF Schedule, TypeInv, CallType
<1>2. /\ Unsaved = {} /\ Enabled' = Enabled /\ Writer' = Writer /\ Writer \in {"load", "server"}
      /\ entry \in [Type -> TimerId \cup {None}]
  BY <1>1 DEF Unsaved, Enabled, Writer, TypeInv, TaskType, CallType, TimerType, Mutex
<1>3. CASE ScheduleNothing
  <2>1. UNCHANGED entry /\ callPc' = "none"
    BY <1>3 DEF ScheduleNothing
  <2>2. Sent' = Sent /\ Unsaved' = {}
    BY <1>1, <2>1, SentQuiet
  <2> QED
    BY <1>1, <1>2, <2>2 DEF Service!service
<1>4. CASE ScheduleNew \/ ScheduleChange
  <2>1. /\ call.period > 0 /\ call' = call /\ callPc' = "saveEnable"
        /\ entry'[t] # None /\ \A q \in Type : q # t => entry'[q] = entry[q]
    <3>1. CASE ScheduleNew
      BY <1>1, <1>2, <3>1, SentinelAssumption DEF ScheduleNew, Saved
    <3>2. CASE ScheduleChange
      BY <1>1, <3>2 DEF ScheduleChange, Saved, HasTimer
    <3> QED
      BY <1>4, <3>1, <3>2
  <2>2. call.period \in Period /\ call.period # Default
    <3>1. call.period \in Period
      BY <1>1, <2>1, PositivePeriod
    <3> QED
      BY <2>1, <3>1
  <2>3. Sent'[t] = {InTicks[call.period]}
    BY <1>1, <2>1 DEF SentIsStored, EntryPeriod, Saving, InTicks
  <2>4. \A q \in Type : q # t => Sent'[q] = Sent[q]
    <3>1. \A q \in Type : q # t => EntryPeriod(q)' = EntryPeriod(q)
      BY <1>1, <2>1 DEF EntryPeriod, Saving
    <3> QED
      BY <2>1, <3>1, SentSame
  <2>5. Sent' = [Sent EXCEPT ![t] = {InTicks[call.period]}]
    BY <1>1, <2>3, <2>4 DEF Sent
  <2>6. Unsaved' = {[type |-> t, period |-> call.period, left |-> "switch"]}
    BY <2>1 DEF Unsaved, Change
  <2>7. Writer = "load" =>
          call.period = IF Service!Stored(t) THEN nvsPeriod[t] ELSE config[t]
    <3> SUFFICES ASSUME holder = "app"
                 PROVE  call.period = IF On(t) THEN nvsPeriod[t] ELSE config[t]
      BY <1>1, StoredIsOn DEF Writer
    <3>1. appPc \in {"nvs", "config"}
      BY <1>1 DEF TypeInv, TaskType, LoadInv, LoadCall
    <3> QED
      BY <1>1, <2>1, <3>1 DEF LoadInv, LoadCall
  <2>8. Service!SwitchOn(t, call.period)
    BY <1>1, <1>2, <2>5, <2>6, <2>7 DEF Service!SwitchOn
  <2> QED
    BY <1>1, <2>2, <2>8 DEF Service!Next
<1>5. CASE ScheduleRemove
  <2>1. /\ ~(call.period > 0) /\ call' = call /\ callPc' = "saveEnable" /\ entry[t] # None
        /\ entry' = [entry EXCEPT ![t] = None]
    BY <1>1, <1>5 DEF ScheduleRemove, Saved, HasTimer
  <2>2. entry'[t] = None /\ \A q \in Type : q # t => entry'[q] = entry[q]
    BY <1>1, <1>2, <2>1
  <2>3. Sent[t] # {} /\ Sent'[t] = {} /\ \A q \in Type : q # t => Sent'[q] = Sent[q]
    <3>1. \A q \in Type : q # t => EntryPeriod(q)' = EntryPeriod(q)
      BY <1>1, <2>1 DEF EntryPeriod, Saving
    <3>2. \A q \in Type : q # t => Sent'[q] = Sent[q]
      BY <2>2, <3>1, SentSame
    <3> QED
      BY <1>1, <2>1, <2>2, <3>2 DEF SentIsStored
  <2>4. Sent' = [Sent EXCEPT ![t] = {}]
    BY <1>1, <2>3 DEF Sent
  <2>5. Unsaved' = {[type |-> t, period |-> Default, left |-> "switch"]}
    BY <2>1 DEF Unsaved, Change
  <2>6. Writer = "server"
    <3>1. On(t)
      BY <1>1, <2>1 DEF StoreInv, EntryStored, Saving
    <3>2. holder # "app"
      <4>1. appPc = "nvs" => call.period = nvsPeriod[t] \/ holder # "app"
        BY <1>1, <3>1 DEF LoadInv, LoadCall
      <4> QED
        BY <1>1, <2>1, <3>1, <4>1 DEF TypeInv, TaskType, LoadInv, LoadCall, On
    <3> QED
      BY <1>2, <3>2 DEF Writer
  <2>7. Service!SwitchOff(t)
    BY <1>1, <1>2, <2>3, <2>4, <2>5, <2>6 DEF Service!SwitchOff
  <2> QED
    BY <1>1, <2>7 DEF Service!Next
<1>6. ~ScheduleNoMemory
  BY DEF HeapRoom, ScheduleNoMemory
<1> QED
  BY <1>3, <1>4, <1>5, <1>6 DEF Schedule

LEMMA ServiceSaveEnable ==
    ASSUME TypeInv, StoreInv, SentIsStored, SentIsStored', NvsFails = FALSE, SaveEnable
    PROVE  Service!Next
<1> DEFINE t == call.type
<1>1. /\ callPc = "saveEnable" /\ call' = call /\ t \in Type /\ call.period \in Int
      /\ UNCHANGED <<config, nvsPeriod, holder, appPc, entry>>
      /\ nvsEnable' = [nvsEnable EXCEPT ![t] = StoredEnable(call.period)]
      /\ callPc' = IF call.period > 0 THEN "savePeriod" ELSE "none"
  BY CallPeriod DEF SaveEnable, Written
<1>2. Enabled' = IF call.period > 0 THEN Enabled \cup {t} ELSE Enabled \ {t}
  <2>1. StoredEnable(call.period) = "enabled" <=> call.period > 0
    BY DEF StoredEnable
  <2> QED
    BY <1>1, <2>1 DEF Enabled, TypeInv, StoreType
<1>3. \A q \in Type : entry[q] # None => EntryPeriod(q)' = EntryPeriod(q)
  <2>1. entry[t] # None => call.period > 0
    BY <1>1 DEF StoreInv, EntryStored, Saving
  <2> QED
    BY <1>1, <2>1 DEF EntryPeriod, Saving
<1>4. Sent' = Sent
  BY <1>1, <1>3, SentEqual
<1> DEFINE s == [type |-> t, period |-> IF call.period > 0 THEN call.period ELSE Default,
                 left |-> "switch"]
<1>5. /\ Unsaved = {s} /\ s.left = "switch" /\ s.type = t
      /\ s.period # Default <=> call.period > 0
  BY <1>1 DEF Unsaved, Change
<1>6. Unsaved' = IF s.period = Default THEN {} ELSE {[s EXCEPT !.left = "period"]}
  BY <1>1, <1>5 DEF Unsaved, Change
<1>7. /\ Enabled' = IF s.period = Default THEN Enabled \ {s.type} ELSE Enabled \cup {s.type}
      /\ Writer' = Writer
  BY <1>1, <1>2, <1>5 DEF Writer
<1> HIDE DEF s
<1>8. Service!SaveSwitch
  BY <1>1, <1>4, <1>5, <1>6, <1>7 DEF Service!SaveSwitch
<1> QED
  BY <1>8 DEF Service!Next

LEMMA ServiceSavePeriod ==
    ASSUME TypeInv, StoreInv, SentIsStored, SentIsStored', NvsFails = FALSE, SavePeriod
    PROVE  Service!Next
<1> DEFINE t == call.type
<1>1. /\ callPc = "savePeriod" /\ callPc' = "none" /\ call' = call
      /\ t \in Type /\ call.period \in Int /\ call.period > 0
      /\ UNCHANGED <<config, nvsEnable, holder, appPc, entry>>
      /\ nvsPeriod' = [nvsPeriod EXCEPT ![t] = call.period]
  BY CallPeriod DEF SavePeriod, Written, TypeInv, CallType
<1>2. \A q \in Type : EntryPeriod(q)' = EntryPeriod(q)
  BY <1>1 DEF EntryPeriod, Saving, TypeInv, StoreType
<1>3. Sent' = Sent /\ Enabled' = Enabled /\ Writer' = Writer
  BY <1>1, <1>2, SentEqual DEF Enabled, Writer
<1>4. Unsaved = {[type |-> t, period |-> call.period, left |-> "period"]} /\ Unsaved' = {}
  BY <1>1 DEF Unsaved, Change
<1>5. Service!SavePeriod
  BY <1>1, <1>3, <1>4 DEF Service!SavePeriod
<1> QED
  BY <1>5 DEF Service!Next

\* With room in the queue and in the heap and an NVS that works, the timers, their commands
\* and the NVS keys together are a copy of what is stored that runs ahead of it by one
\* change at most, and that a start restores, whatever a restart interrupted before
\* (edgehog_telemetry.c:167-344, 385-458).
THEOREM TelemetryImplementsService ==
    ASSUME NvsFails = FALSE PROVE Spec /\ []Room /\ []HeapRoom => ImplementsService
<1> DEFINE Inv == TypeInv /\ TimerInv /\ StoreInv /\ LoadInv
<1>1. Init => Inv /\ Service!Init
  <2> SUFFICES ASSUME Init PROVE Inv /\ Service!Init
    OBVIOUS
  <2>1. Sent = [t \in Type |-> {}] /\ Enabled = {}
    BY DEF Init, Sent, Enabled
  <2>2. Writer = "none" /\ Unsaved = {}
    BY NoneIsNoTask DEF Init, Writer, Unsaved
  <2>3. Service!Init
    BY <2>1, <2>2 DEF Init, Service!Init
  <2> QED
    BY <2>3, InitType, TimerInit, StoreInit, LoadInit
<1>2. Inv /\ Room /\ HeapRoom /\ [Next]_vars => Inv'
  <2> SUFFICES ASSUME Inv, Room, HeapRoom, [Next]_vars PROVE Inv'
    OBVIOUS
  <2>1. TypeInv'
    BY NextType
  <2> QED
    BY <2>1, NextTimer, NextStore, NextLoad
<1>3. Inv => SentIsStored
  BY SentFromStore
<1>4. Inv /\ SentIsStored /\ SentIsStored' /\ Room /\ HeapRoom /\ [Next]_vars
        => [Service!Next]_(Service!service)
  <2> SUFFICES ASSUME Inv, SentIsStored, SentIsStored', Room, HeapRoom, [Next]_vars
               PROVE  [Service!Next]_(Service!service)
    OBVIOUS
  <2>1. CASE Restart \/ ScheduleAsserts \/ ServeAsserts \/ Destroy
    BY <2>1, ServiceStop DEF Restart, ScheduleAsserts, ServeAsserts, Service!Next
  <2>2. CASE Schedule \/ SaveEnable \/ SavePeriod
    BY <2>2, ServiceSchedule, ServiceSaveEnable, ServiceSavePeriod
  <2>3. CASE AppCalls \/ AppStep
    BY <2>3, ServiceMutex, ServiceIdle, ServiceAside DEF AppStep
  <2>4. CASE MqttStep \/ ServeCommand \/ UNCHANGED vars \/ \E e \in Events : EventArrives(e)
    BY <2>4, ServiceMutex, ServiceAside DEF MqttStep
  <2> QED
    BY <2>1, <2>2, <2>3, <2>4 DEF Next, CallStep, ServiceStep
<1> HIDE DEF Inv
<1> QED
  BY <1>1, <1>2, <1>3, <1>4, PTL DEF Spec, ImplementsService, Service!Spec

=============================================================================
