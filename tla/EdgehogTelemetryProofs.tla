----------------------- MODULE EdgehogTelemetryProofs -----------------------
(***************************************************************************)
(* Proofs about EdgehogTelemetry, for any types, periods, timers, length   *)
(* of the queue and number of events and restarts.                         *)
(*                                                                         *)
(* What the timers do is decided by the commands that wait in the queue.   *)
(* The invariant TimerInv says what the queue may hold: nothing for a      *)
(* timer after its deletion, nothing for one that does not exist, and no   *)
(* deletion of one that is in the list.                                    *)
(***************************************************************************)
EXTENDS EdgehogTelemetry, TLAPS, FiniteSetTheorems, SequenceTheorems

USE DEF nvs, app, mqtt, timers, limits, Default, Disabled

Mutex == {None, "app", "mqtt"}

TimerRecord == [state : {"unused", "dormant", "active"}, type : Type \cup {None},
                period : Nat]

\* The conjuncts of TypeOK that each kind of step disturbs.
StoreType == /\ config \in [Type -> Period \cup {Default}]
             /\ nvsEnable \in [Type -> {"absent", "default", "enabled", "disabled"}]
             /\ nvsPeriod \in [Type -> Period \cup {Default}]
TaskType  == /\ holder \in Mutex
             /\ appPc \in {"boot", "take", "nvs", "config", "spin", "started", "failed",
                           "destroyed"}
             /\ todo \subseteq Type
             /\ mqttPc \in {"idle", "take", "handle"} /\ event \in Events \cup {None}
             /\ (appPc \in {"nvs", "config", "spin"}) = (holder = "app")
             /\ (mqttPc = "handle") = (holder = "mqtt") /\ (mqttPc # "idle" => event # None)
CallType  == /\ call \in [type : Type, period : Periods] \cup {None}
             /\ callPc \in {"none", "schedule", "saveEnable", "savePeriod"}
             /\ callPc # "none" => holder # None /\ call # None
             /\ callPc = "savePeriod" => call.period > 0
TimerType == /\ entry \in [Type -> TimerId \cup {None}]
             /\ timer \in [TimerId -> TimerRecord]
             /\ freed \subseteq TimerId
             /\ queue \in Seq(Commands) /\ Len(queue) <= QueueLength
LimitType == /\ events \in 0..MaxEvents /\ restarts \in 0..MaxRestarts
             /\ lastWord \in [Type -> {"none", "early", "on", "off"}]

TypeInv == StoreType /\ TaskType /\ CallType /\ TimerType /\ LimitType

LEMMA TypeFromInv == TypeInv => TypeOK
BY DEF TypeInv, StoreType, TaskType, CallType, TimerType, LimitType, TypeOK, Mutex,
       TimerRecord

-----------------------------------------------------------------------------
(* Ticks, as edgehog_telemetry.c:194 computes them. *)

LEMMA TicksNat ==
    ASSUME NEW p \in Nat PROVE Ticks(p) \in Nat
<1>1. TickRate \in Nat \ {0} /\ TickModulus \in Nat \ {0}
  BY TickAssumption
<1> DEFINE ms == p * 1000 % TickModulus
           product == (ms * TickRate) % TickModulus
<1>2. ms \in Nat
  BY <1>1
<1> HIDE DEF ms
<1>3. ms * TickRate \in Nat
  BY <1>1, <1>2
<1>4. product \in Nat
  BY <1>1, <1>3
<1> HIDE DEF product
<1>5. product \div 1000 \in Nat
  BY <1>4
<1> QED
  BY <1>5 DEF Ticks, product, ms

\* A natural number times a factor that is not zero is not smaller.
LEMMA ProductGrows ==
    ASSUME NEW a \in Nat, NEW b \in Nat \ {0} PROVE a <= a * b /\ a * b \in Nat
OBVIOUS

\* A period that fits a count of ticks is one: no telemetry of less than half a day, at
\* 100 ticks in a second, has another period than the one that was asked for
\* (edgehog_telemetry.c:194, 212).
THEOREM TicksAreExact ==
    ASSUME NEW p \in Nat, TicksFit(p) PROVE Ticks(p) = p * TickRate
<1>1. TickRate \in Nat \ {0} /\ TickModulus \in Nat \ {0}
  BY TickAssumption
<1> DEFINE ms == p * 1000
<1>2. ms \in Nat
  OBVIOUS
<1>3. ms * TickRate < TickModulus
  BY DEF TicksFit
<1>4. p * TickRate \in Nat /\ ms * TickRate = (p * TickRate) * 1000
  BY <1>1
<1> HIDE DEF ms
<1>5. ms <= ms * TickRate /\ ms * TickRate \in Nat
  BY <1>1, <1>2, ProductGrows
<1>6. ms < TickModulus
  BY <1>1, <1>2, <1>3, <1>5
<1>7. ms % TickModulus = ms
  BY <1>1, <1>2, <1>6
<1> DEFINE product == ms * TickRate
<1>8. product \in Nat /\ product < TickModulus
  BY <1>3, <1>5
<1> HIDE DEF product
<1>9. product % TickModulus = product
  BY <1>1, <1>8
<1>10. product \div 1000 = p * TickRate
  <2> DEFINE ticks == p * TickRate
  <2>1. ticks \in Nat /\ product = ticks * 1000
    BY <1>4 DEF product
  <2> HIDE DEF ticks
  <2>2. product \div 1000 = ticks
    BY <2>1
  <2> QED
    BY <2>2 DEF ticks
<1> QED
  BY <1>7, <1>9, <1>10 DEF Ticks, ms, product

-----------------------------------------------------------------------------
(* Types. *)

\* The holder of the mutex, if any, is a task.
LEMMA NoneIsNoTask == None # "app" /\ None # "mqtt"
BY SentinelAssumption

LEMMA InitType == Init => TypeInv
<1> SUFFICES ASSUME Init PROVE TypeInv
  OBVIOUS
<1>1. <<>> \in Seq(Commands) /\ Len(<<>>) = 0
  OBVIOUS
<1>2. StoreType /\ TaskType /\ CallType
  BY NoneIsNoTask DEF Init, StoreType, TaskType, CallType, Mutex
<1>3. TimerType
  BY <1>1, LimitAssumption DEF Init, TimerType, TimerRecord, NoTimer
<1>4. LimitType
  BY LimitAssumption DEF Init, LimitType
<1> QED
  BY <1>2, <1>3, <1>4 DEF TypeInv

LEMMA RebootType ==
    ASSUME TypeInv, Rebooted, restarts' \in 0..MaxRestarts PROVE TypeInv'
<1>1. <<>> \in Seq(Commands) /\ Len(<<>>) = 0
  OBVIOUS
<1>2. StoreType' /\ TaskType' /\ CallType'
  BY NoneIsNoTask DEF TypeInv, Rebooted, StoreType, TaskType, CallType, Mutex
<1>3. TimerType'
  BY <1>1, LimitAssumption DEF Rebooted, TimerType, TimerRecord, NoTimer
<1>4. LimitType'
  BY DEF TypeInv, Rebooted, LimitType
<1> QED
  BY <1>2, <1>3, <1>4 DEF TypeInv

LEMMA PeriodsAreNat == 0 \in Nat /\ \A p \in Period : p \in Nat /\ p > 0
<1>1. 0 \in Nat /\ \A n \in Nat \ {0} : n \in Nat /\ n > 0
  OBVIOUS
<1> QED
  BY <1>1, PeriodAssumption

LEMMA PositivePeriod ==
    ASSUME NEW p \in Periods, p > 0 PROVE p \in Nat /\ p \in Period
BY PeriodAssumption DEF Periods

\* A command that is sent leaves a queue of commands within its length.
LEMMA SendType ==
    ASSUME TimerType, NEW op \in {"start", "change", "delete"}, NEW i \in TimerId,
           NEW p \in Nat, Send(op, i, p)
    PROVE  queue' \in Seq(Commands) /\ Len(queue') <= QueueLength
<1> DEFINE c == [op |-> op, id |-> i, period |-> p]
<1>1. c \in Commands
  BY DEF Commands
<1> HIDE DEF c
<1>2. queue \in Seq(Commands) /\ Len(queue) \in Nat /\ QueueLength \in Nat
  BY LimitAssumption DEF TimerType
<1>3. Append(queue, c) \in Seq(Commands) /\ Len(Append(queue, c)) = Len(queue) + 1
  BY <1>1, <1>2
<1>4. CASE Room
  <2>1. queue' = Append(queue, c)
    BY <1>4 DEF Send, c
  <2> QED
    BY <2>1, <1>2, <1>3, <1>4 DEF Room
<1>5. CASE ~Room
  BY <1>5, <1>2 DEF Send, TimerType
<1> QED
  BY <1>4, <1>5

LEMMA ScheduleType ==
    ASSUME TypeInv, Schedule PROVE TypeInv'
<1> USE DEF TypeInv
<1>1. call \in [type : Type, period : Periods] /\ holder # None
  BY DEF Schedule, CallType
<1>2. call.type \in Type /\ call.period \in Periods
  BY <1>1
<1>3. Disabled \in Periods /\ (call.period > 0 => call.period \in Nat)
  BY <1>2, PositivePeriod DEF Periods
<1>4. StoreType' /\ TaskType' /\ LimitType'
  BY DEF Schedule, StoreType, TaskType, LimitType
<1>5. holder' = holder
  BY DEF Schedule
<1>6. \A p \in Periods : Saved(p) => CallType'
  <2> SUFFICES ASSUME NEW p \in Periods, Saved(p) PROVE CallType'
    OBVIOUS
  <2>1. call' = [call EXCEPT !.period = p] /\ callPc' = "saveEnable"
    BY DEF Saved
  <2>2. call' \in [type : Type, period : Periods]
    BY <1>1, <2>1
  <2>3. call' # None
    BY <2>2, SentinelAssumption
  <2> QED
    BY <1>1, <1>5, <2>1, <2>2, <2>3 DEF CallType
<1>7. CASE ScheduleNothing \/ ScheduleNoMemory
  <2>1. callPc' = "none" /\ call' = call /\ UNCHANGED timers
    BY <1>7 DEF ScheduleNothing, ScheduleNoMemory
  <2>2. CallType' /\ TimerType'
    BY <2>1 DEF CallType, TimerType
  <2> QED
    BY <1>4, <2>2
<1>8. CASE ScheduleNew
  <2>1. call.period \in Nat /\ Disabled \in Periods
    BY <1>3, <1>8 DEF ScheduleNew
  <2>2. PICK i \in TimerId :
          /\ timer' = [timer EXCEPT ![i] = [state |-> "dormant", type |-> call.type,
                                            period |-> Ticks(call.period)]]
          /\ freed' = IF Room THEN freed \ {i} ELSE freed \cup {i}
          /\ Send("start", i, Ticks(call.period))
          /\ entry' = IF Room THEN [entry EXCEPT ![call.type] = i] ELSE entry
          /\ Saved(IF Room THEN call.period ELSE Disabled)
    BY <1>8 DEF ScheduleNew
  <2>3. Ticks(call.period) \in Nat
    BY <2>1, TicksNat
  <2>4. queue' \in Seq(Commands) /\ Len(queue') <= QueueLength
    BY <2>2, <2>3, SendType
  <2>5. timer' \in [TimerId -> TimerRecord]
    BY <2>2, <2>3, <1>2 DEF TimerType, TimerRecord
  <2>6. entry' \in [Type -> TimerId \cup {None}] /\ freed' \subseteq TimerId
    BY <2>2, <1>2 DEF TimerType
  <2>7. CallType'
    BY <1>2, <1>6, <2>1, <2>2
  <2> QED
    BY <1>4, <2>4, <2>5, <2>6, <2>7 DEF TimerType
<1>9. CASE ScheduleChange
  <2>1. call.period \in Nat
    BY <1>3, <1>9 DEF ScheduleChange
  <2>2. entry[call.type] \in TimerId
    BY <1>2, <1>9 DEF ScheduleChange, HasTimer, TimerType
  <2>3. queue' \in Seq(Commands) /\ Len(queue') <= QueueLength
    BY <1>9, <2>1, <2>2, TicksNat, SendType DEF ScheduleChange
  <2>4. CallType' /\ TimerType'
    BY <1>2, <1>6, <1>9, <2>3 DEF ScheduleChange, TimerType
  <2> QED
    BY <1>4, <2>4
<1>10. CASE ScheduleRemove
  <2>1. entry[call.type] \in TimerId
    BY <1>2, <1>10 DEF ScheduleRemove, HasTimer, TimerType
  <2>2. timer[entry[call.type]].period \in Nat
    BY <2>1 DEF TimerType, TimerRecord
  <2>3. queue' \in Seq(Commands) /\ Len(queue') <= QueueLength
    BY <1>10, <2>1, <2>2, SendType DEF ScheduleRemove, DeleteTimer
  <2>4. entry' \in [Type -> TimerId \cup {None}]
    BY <1>2, <1>10 DEF ScheduleRemove, TimerType
  <2>5. CallType' /\ TimerType'
    BY <1>2, <1>6, <1>10, <2>3, <2>4 DEF ScheduleRemove, RemovedEntry, TimerType
  <2> QED
    BY <1>4, <2>5
<1> QED
  BY <1>7, <1>8, <1>9, <1>10 DEF Schedule

LEMMA SaveType ==
    ASSUME TypeInv, SaveEnable \/ SavePeriod PROVE TypeInv'
<1> USE DEF TypeInv
<1>1. call \in [type : Type, period : Periods] /\ holder # None
  BY DEF SaveEnable, SavePeriod, CallType
<1>2. call.type \in Type /\ call.period \in Periods
  BY <1>1
<1>3. TaskType' /\ TimerType' /\ LimitType'
  BY DEF SaveEnable, SavePeriod, TaskType, TimerType, LimitType
<1>4. CASE SaveEnable
  <2>1. StoredEnable(call.period) \in {"default", "enabled", "disabled"}
    BY DEF StoredEnable
  <2>2. StoreType'
    BY <1>2, <1>4, <2>1 DEF SaveEnable, Written, StoreType
  <2>3. CallType'
    BY <1>4 DEF SaveEnable, CallType
  <2> QED
    BY <1>3, <2>2, <2>3
<1>5. CASE SavePeriod
  <2>1. call.period > 0 /\ call.period \in Period
    BY <1>2, <1>5 DEF SavePeriod, CallType, Periods
  <2>2. StoreType'
    BY <1>2, <1>5, <2>1 DEF SavePeriod, Written, StoreType
  <2>3. CallType'
    BY <1>5 DEF SavePeriod, CallType
  <2> QED
    BY <1>3, <2>2, <2>3
<1> QED
  BY <1>4, <1>5

LEMMA AppType ==
    ASSUME TypeInv, AppCalls \/ AppStep PROVE TypeInv'
<1> USE DEF TypeInv
<1>1. CASE AppCalls \/ AppTakes \/ AppTimesOut \/ LoadNvsDone \/ AppGives
  <2>1. StoreType' /\ TimerType' /\ LimitType'
    BY <1>1 DEF AppCalls, AppTakes, AppTimesOut, LoadNvsDone, AppGives, StoreType, TimerType,
                LimitType
  <2>2. TaskType'
    <3>1. CASE AppCalls \/ AppTimesOut
      BY <3>1 DEF AppCalls, AppTimesOut, AfterTimeout, TaskType
    <3>2. CASE AppTakes
      BY <3>2, NoneIsNoTask DEF AppTakes, TaskType, Mutex
    <3>3. CASE LoadNvsDone
      BY <3>3 DEF LoadNvsDone, TaskType
    <3>4. CASE AppGives
      BY <3>4, NoneIsNoTask DEF AppGives, TaskType, Mutex
    <3> QED
      BY <1>1, <3>1, <3>2, <3>3, <3>4
  <2>3. CallType'
    BY <1>1 DEF AppCalls, AppTakes, AppTimesOut, LoadNvsDone, AppGives, CallType
  <2> QED
    BY <2>1, <2>2, <2>3
<1>2. ASSUME NEW t \in Type, LoadNvs(t) \/ LoadNvsDefault(t) \/ LoadConfig(t)
      PROVE  TypeInv'
  <2>1. StoreType' /\ TimerType' /\ LimitType'
    BY <1>2 DEF LoadNvs, LoadNvsDefault, LoadConfig, StoreType, TimerType, LimitType
  <2>2. TaskType'
    BY <1>2 DEF LoadNvs, LoadNvsDefault, LoadConfig, TaskType
  <2>3. holder' = holder /\ holder = "app"
    BY <1>2 DEF LoadNvs, LoadNvsDefault, LoadConfig, TaskType
  <2>4. LoadedPeriod(t) \in Periods /\ config[t] \in Periods
    BY DEF LoadedPeriod, Periods, StoreType
  <2>5. \A p \in Periods : [type |-> t, period |-> p] # None /\ holder # None
    BY <2>3, SentinelAssumption
  <2>6. CallType'
    <3>1. CASE UNCHANGED <<call, callPc>>
      BY <2>3, <3>1 DEF CallType
    <3>2. CASE \E p \in Periods : Call(t, p)
      BY <2>3, <2>5, <3>2 DEF CallType, Call
    <3> QED
      BY <1>2, <2>4, <3>1, <3>2 DEF LoadNvs, LoadNvsDefault, LoadConfig
  <2> QED
    BY <2>1, <2>2, <2>6
<1> QED
  BY <1>1, <1>2 DEF AppStep

LEMMA EventPeriodType ==
    ASSUME TypeInv, NEW e \in Events, NEW stored \in StoredPeriod(e.type)
    PROVE  EventPeriod(e, stored) \in Periods /\ e.type \in Type
<1>1. e.type \in Type /\ e.endpoint \in {"enable", "periodSeconds"}
  BY DEF Events
<1>2. stored \in Periods
  BY <1>1 DEF StoredPeriod, Periods, TypeInv, StoreType
<1>3. e.endpoint = "periodSeconds" /\ e.set => e.value \in Periods
  BY DEF Events, ServerPeriods, Periods
<1>4. ConfigPeriod(e.type) \in Periods /\ Disabled \in Periods
  BY <1>1 DEF ConfigPeriod, Configured, Periods, TypeInv, StoreType
<1> QED
  BY <1>1, <1>2, <1>3, <1>4 DEF EventPeriod

LEMMA MqttType ==
    ASSUME TypeInv, MqttStep \/ (\E e \in Events : EventArrives(e)) PROVE TypeInv'
<1> USE DEF TypeInv
<1>1. StoreType' /\ TimerType'
  BY DEF MqttStep, EventTakes, EventTimesOut, EventGives, EventArrives, StoreType, TimerType
<1>2. ASSUME NEW e \in Events, EventArrives(e) PROVE TypeInv'
  <2>1. TaskType'
    BY <1>2, NoneIsNoTask, SentinelAssumption DEF EventArrives, TaskType
  <2>2. CallType' /\ LimitType'
    BY <1>2, LimitAssumption DEF EventArrives, CallType, LimitType
  <2> QED
    BY <1>1, <2>1, <2>2
<1>3. CASE EventTakes
  <2>1. event \in Events
    BY <1>3 DEF EventTakes, TaskType
  <2>2. PICK stored \in StoredPeriod(event.type) :
             Call(event.type, EventPeriod(event, stored))
    BY <1>3 DEF EventTakes
  <2>3. event.type \in Type /\ EventPeriod(event, stored) \in Periods
    BY <2>1, EventPeriodType
  <2>4. [type |-> event.type, period |-> EventPeriod(event, stored)]
            \in [type : Type, period : Periods]
    BY <2>3
  <2>5. CallType'
    BY <1>3, <2>2, <2>4, NoneIsNoTask, SentinelAssumption DEF EventTakes, Call, CallType
  <2>6. TaskType'
    BY <1>3, NoneIsNoTask DEF EventTakes, TaskType, Mutex
  <2>7. LimitType'
    BY <1>3, <2>3 DEF EventTakes, LimitType
  <2> QED
    BY <1>1, <2>5, <2>6, <2>7
<1>4. CASE EventTimesOut \/ EventGives
  <2>1. event \in Events
    BY <1>4, NoneIsNoTask DEF EventTimesOut, EventGives, TaskType
  <2>2. event.type \in Type
    BY <2>1 DEF Events
  <2>3. CallType'
    BY <1>4 DEF EventTimesOut, EventGives, CallType
  <2>4. TaskType'
    <3>1. CASE EventTimesOut
      BY <3>1, NoneIsNoTask DEF EventTimesOut, TaskType
    <3>2. CASE EventGives
      BY <3>2, NoneIsNoTask DEF EventGives, TaskType, Mutex
    <3> QED
      BY <1>4, <3>1, <3>2
  <2>5. LimitType'
    BY <1>4, <2>2 DEF EventTimesOut, EventGives, LimitType
  <2> QED
    BY <1>1, <2>3, <2>4, <2>5
<1> QED
  BY <1>2, <1>3, <1>4 DEF MqttStep

\* What is left of a queue of commands.
LEMMA TailType ==
    ASSUME TimerType, queue # <<>>
    PROVE  /\ Head(queue) \in Commands
           /\ Tail(queue) \in Seq(Commands) /\ Len(Tail(queue)) = Len(queue) - 1
           /\ Len(queue) \in Nat
BY DEF TimerType

LEMMA ServiceType ==
    ASSUME TypeInv, ServeCommand PROVE TypeInv'
<1> USE DEF TypeInv
<1>1. StoreType' /\ TaskType' /\ CallType' /\ LimitType'
  BY DEF ServeCommand, StoreType, TaskType, CallType, LimitType
<1>2. queue # <<>> /\ queue' = Tail(queue)
  BY DEF ServeCommand
<1>3. queue' \in Seq(Commands) /\ Len(queue') <= QueueLength
  BY <1>2, TailType, LimitAssumption DEF TimerType
<1>4. Head(queue).id \in TimerId /\ Head(queue).period \in Nat
  BY <1>2, TailType DEF Commands
<1>5. timer' \in [TimerId -> TimerRecord]
  BY <1>4 DEF ServeCommand, TimerType, TimerRecord, NoTimer
<1> QED
  BY <1>1, <1>3, <1>5 DEF ServeCommand, TimerType

\* What edgehog_telemetry_destroy queues: deletions of timers of the list, each of
\* another one (edgehog_telemetry.c:296-303).
Deletions(k, s) ==
    /\ k \in Nat /\ s \in [1..k -> TimerId]
    /\ \A n \in 1..k : \E t \in Type : s[n] = entry[t]
    /\ \A m, n \in 1..k : s[m] = s[n] => m = n
    /\ queue' \in Seq(Commands) /\ Len(queue') = Len(queue) + k /\ Len(queue') <= QueueLength
    /\ \A n \in 1..Len(queue) : queue'[n] = queue[n]
    /\ \A n \in 1..k : queue'[Len(queue) + n].op = "delete" /\ queue'[Len(queue) + n].id = s[n]

LEMMA Concatenation ==
    ASSUME NEW S, NEW q \in Seq(S), NEW r \in Seq(S)
    PROVE  /\ q \o r \in Seq(S) /\ Len(q \o r) = Len(q) + Len(r)
           /\ \A n \in 1..Len(q) : (q \o r)[n] = q[n]
           /\ \A n \in 1..Len(r) : (q \o r)[Len(q) + n] = r[n]
BY ConcatProperties

LEMMA DestroySends ==
    ASSUME TimerType, Destroy PROVE \E k, s : Deletions(k, s)
<1> DEFINE listed == {entry[t] : t \in Type} \ {None}
           active == {i \in listed : timer[i].state = "active"}
           room   == QueueLength - Len(queue)
           sent   == IF Cardinality(active) < room THEN Cardinality(active) ELSE room
           Command(s, n) == [op |-> "delete", id |-> s[n], period |-> timer[s[n]].period]
<1>1. active \subseteq TimerId
  BY DEF TimerType
<1>2. Cardinality(active) \in Nat
  BY <1>1, TimerAssumption, FS_Subset, FS_CardinalityType
<1>3. \A i \in active : \E t \in Type : i = entry[t]
  OBVIOUS
<1>4. PICK s \in [1..sent -> active] :
        /\ \A m, n \in 1..sent : s[m] = s[n] => m = n
        /\ queue' = queue \o [n \in 1..sent |-> Command(s, n)]
  BY DEF Destroy
<1> HIDE DEF active
<1>5. room \in Nat /\ Len(queue) \in Nat /\ queue \in Seq(Commands)
  BY LimitAssumption DEF TimerType
<1>6. sent \in Nat /\ Len(queue) + sent <= QueueLength
  BY <1>2, <1>5, LimitAssumption
<1> HIDE DEF sent
<1>7. s \in [1..sent -> TimerId] /\ \A n \in 1..sent : \E t \in Type : s[n] = entry[t]
  BY <1>1, <1>3, <1>4
<1>8. \A n \in 1..sent : Command(s, n) \in Commands
  <2> SUFFICES ASSUME NEW n \in 1..sent PROVE Command(s, n) \in Commands
    OBVIOUS
  <2>1. s[n] \in TimerId
    BY <1>7
  <2>2. timer[s[n]].period \in Nat
    BY <2>1 DEF TimerType, TimerRecord
  <2> QED
    BY <2>1, <2>2 DEF Commands
<1> DEFINE tail == [n \in 1..sent |-> Command(s, n)]
<1>9. tail \in Seq(Commands) /\ Len(tail) = sent
  <2> HIDE DEF Command
  <2> QED
    BY <1>6, <1>8
<1>10. \A n \in 1..sent : tail[n].op = "delete" /\ tail[n].id = s[n]
  OBVIOUS
<1> HIDE DEF tail
<1>11. /\ queue' \in Seq(Commands) /\ Len(queue') = Len(queue) + sent
       /\ \A n \in 1..Len(queue) : queue'[n] = queue[n]
       /\ \A n \in 1..sent : queue'[Len(queue) + n] = tail[n]
  <2>1. queue' = queue \o tail
    BY <1>4 DEF tail
  <2> QED
    BY <2>1, <1>5, <1>9, Concatenation
<1>12. Deletions(sent, s)
  BY <1>4, <1>6, <1>7, <1>10, <1>11 DEF Deletions
<1> QED
  BY <1>12

LEMMA DestroyType ==
    ASSUME TypeInv, Destroy PROVE TypeInv'
<1> USE DEF TypeInv
<1>1. StoreType' /\ LimitType' /\ CallType' /\ TaskType'
  BY DEF Destroy, StoreType, LimitType, CallType, TaskType
<1>2. queue' \in Seq(Commands) /\ Len(queue') <= QueueLength
  BY DestroySends DEF Deletions
<1>3. entry' \in [Type -> TimerId \cup {None}] /\ freed' \subseteq TimerId
  BY DEF Destroy, TimerType
<1> QED
  BY <1>1, <1>2, <1>3 DEF Destroy, TimerType

LEMMA NextType ==
    ASSUME TypeInv, [Next]_vars PROVE TypeInv'
<1>1. CASE Restart \/ ScheduleAsserts \/ ServeAsserts
  <2>1. Rebooted /\ restarts' \in 0..MaxRestarts
    BY <1>1, LimitAssumption DEF Restart, ScheduleAsserts, ServeAsserts, TypeInv, LimitType
  <2> QED
    BY <2>1, RebootType
<1>2. CASE UNCHANGED vars
  BY <1>2 DEF vars, TypeInv, StoreType, TaskType, CallType, TimerType, LimitType
<1> QED
  BY <1>1, <1>2, ScheduleType, SaveType, AppType, MqttType, ServiceType, DestroyType
     DEF Next, CallStep, ServiceStep

\* The types of the state, in which only the holder of the mutex is at work on the list
\* and a task that holds it comes back (edgehog_telemetry.c:146-155, 252-290).
THEOREM TypeCorrect == Spec => []TypeOK
<1>1. Init => TypeInv
  BY InitType
<1>2. TypeInv /\ [Next]_vars => TypeInv'
  BY NextType
<1>3. TypeInv => TypeOK
  BY TypeFromInv
<1> QED
  BY <1>1, <1>2, <1>3, PTL DEF Spec

-----------------------------------------------------------------------------
(* What the queue may hold. *)

\* Nothing is asked of a timer once its deletion was queued ...
NothingAfterDelete ==
    \A m, n \in 1..Len(queue) :
        m < n /\ queue[m].op = "delete" => queue[n].id # queue[m].id

\* ... nor of one that does not exist ...
NothingForUnused == \A n \in 1..Len(queue) : timer[queue[n].id].state # "unused"

\* ... nor, but its deletion, of one without an entry.
FreedIsQuiet ==
    appPc # "destroyed" =>
        \A i \in freed : /\ timer[i].state # "active"
                         /\ \A n \in 1..Len(queue) : queue[n].id = i => queue[n].op = "delete"

\* The timer of an entry exists, and is not about to be deleted.
ListedIsKept ==
    \A t \in Type : entry[t] # None =>
        /\ timer[entry[t]].state # "unused" /\ timer[entry[t]].type = t
        /\ entry[t] \notin freed
        /\ \A n \in 1..Len(queue) : queue[n].op = "delete" => queue[n].id # entry[t]

TimerInv == NothingAfterDelete /\ NothingForUnused /\ FreedIsQuiet /\ ListedIsKept

\* The queue after a command was sent to it, or dropped.
Longer(op, i) ==
    /\ Len(queue') \in Nat /\ Len(queue) <= Len(queue')
    /\ \A n \in 1..Len(queue') :
          \/ n \in 1..Len(queue) /\ queue'[n] = queue[n]
          \/ n = Len(queue) + 1 /\ queue'[n].op = op /\ queue'[n].id = i
    /\ \A n \in 1..Len(queue) : queue'[n] = queue[n]

LEMMA SentCommand ==
    ASSUME TimerType, NEW op \in {"start", "change", "delete"}, NEW i \in TimerId,
           NEW p \in Nat, Send(op, i, p)
    PROVE  /\ Longer(op, i)
           /\ Room => /\ Len(queue') = Len(queue) + 1
                      /\ queue'[Len(queue) + 1].op = op /\ queue'[Len(queue) + 1].id = i
                      /\ queue'[Len(queue) + 1].period = p
<1> DEFINE c == [op |-> op, id |-> i, period |-> p]
<1>1. c \in Commands /\ c.op = op /\ c.id = i /\ c.period = p
  BY DEF Commands
<1> HIDE DEF c
<1>2. queue \in Seq(Commands) /\ Len(queue) \in Nat
  BY DEF TimerType
<1> DEFINE longer == Append(queue, c)
<1>3. /\ Len(longer) = Len(queue) + 1
      /\ \A n \in 1..Len(queue) : longer[n] = queue[n]
      /\ longer[Len(queue) + 1] = c
  BY <1>1, <1>2
<1> HIDE DEF longer
<1>4. CASE Room
  <2>1. queue' = longer
    BY <1>4 DEF Send, c, longer
  <2> QED
    BY <2>1, <1>1, <1>2, <1>3 DEF Longer
<1>5. CASE ~Room
  <2>1. queue' = queue
    BY <1>5 DEF Send
  <2> QED
    BY <2>1, <1>2, <1>5 DEF Longer
<1> QED
  BY <1>4, <1>5

\* The queue after its first command was taken.
LEMMA TakenCommand ==
    ASSUME TimerType, queue # <<>>, queue' = Tail(queue)
    PROVE  /\ Head(queue) = queue[1] /\ 1 \in 1..Len(queue) /\ Len(queue') = Len(queue) - 1
           /\ Len(queue') \in Nat
           /\ \A n \in 1..Len(queue') : n + 1 \in 1..Len(queue) /\ queue'[n] = queue[n + 1]
BY DEF TimerType

\* The ids of commands are those of timers.
LEMMA CommandIds ==
    ASSUME TimerType, NEW n \in 1..Len(queue)
    PROVE  queue[n].id \in TimerId /\ queue[n].op \in {"start", "change", "delete"}
<1>1. queue[n] \in Commands
  BY DEF TimerType
<1> QED
  BY <1>1 DEF Commands

LEMMA TimerScheduleNew ==
    ASSUME TypeInv, TimerInv, Schedule, ScheduleNew PROVE TimerInv'
<1>1. call.type \in Type /\ call.period \in Periods /\ call.period > 0
  BY DEF TypeInv, CallType, Schedule, ScheduleNew
<1>2. TimerType /\ Ticks(call.period) \in Nat
  BY <1>1, PositivePeriod, TicksNat DEF TypeInv
<1>3. PICK i \in TimerId :
        /\ timer[i].state = "unused"
        /\ timer' = [timer EXCEPT ![i] = [state |-> "dormant", type |-> call.type,
                                          period |-> Ticks(call.period)]]
        /\ freed' = IF Room THEN freed \ {i} ELSE freed \cup {i}
        /\ Send("start", i, Ticks(call.period))
        /\ entry' = IF Room THEN [entry EXCEPT ![call.type] = i] ELSE entry
  BY DEF ScheduleNew
<1>4. /\ timer'[i].state = "dormant" /\ timer'[i].type = call.type
      /\ \A j \in TimerId : j # i => timer'[j] = timer[j]
  BY <1>3 DEF TypeInv, TimerType
<1>5. Longer("start", i)
  BY <1>2, <1>3, SentCommand
<1>6. \A n \in 1..Len(queue) : queue[n].id # i
  BY <1>3 DEF TimerInv, NothingForUnused
<1>7. \A n \in 1..Len(queue) : queue[n].id \in TimerId
  BY <1>2, CommandIds
<1>8. Len(queue) \in Nat
  BY <1>2 DEF TimerType
<1>9. NothingAfterDelete'
  BY <1>5, <1>6, <1>8 DEF Longer, TimerInv, NothingAfterDelete
<1>10. NothingForUnused'
  BY <1>3, <1>4, <1>5, <1>7 DEF Longer, TimerInv, NothingForUnused
<1>11. FreedIsQuiet'
  <2>1. ~Room => queue' = queue
    BY <1>3 DEF Send
  <2>2. freed' \subseteq TimerId
    BY <1>2, <1>3 DEF TimerType
  <2>3. appPc' = appPc
    BY DEF Schedule
  <2>4. CASE Room
    BY <2>2, <2>3, <2>4, <1>3, <1>4, <1>5 DEF Longer, TimerInv, FreedIsQuiet
  <2>5. CASE ~Room
    BY <2>1, <2>2, <2>3, <2>5, <1>3, <1>4, <1>6 DEF TimerInv, FreedIsQuiet
  <2> QED
    BY <2>4, <2>5
<1>12. ListedIsKept'
  <2> SUFFICES ASSUME NEW t \in Type, entry'[t] # None
               PROVE  /\ timer'[entry'[t]].state # "unused" /\ timer'[entry'[t]].type = t
                      /\ entry'[t] \notin freed'
                      /\ \A n \in 1..Len(queue') :
                            queue'[n].op = "delete" => queue'[n].id # entry'[t]
    BY DEF ListedIsKept
  <2>1. CASE Room /\ t = call.type
    <3>1. entry'[t] = i
      BY <1>1, <1>2, <1>3, <2>1 DEF TimerType
    <3>2. \A n \in 1..Len(queue') : queue'[n].op = "delete" => queue'[n].id # i
      BY <1>5, <1>6 DEF Longer
    <3> QED
      BY <1>3, <1>4, <2>1, <3>1, <3>2
  <2>2. CASE ~(Room /\ t = call.type)
    <3>1. entry'[t] = entry[t]
      BY <1>2, <1>3, <2>2 DEF TimerType
    <3>2. entry[t] \in TimerId /\ entry[t] # i
      BY <1>2, <1>3, <3>1 DEF TimerType, TimerInv, ListedIsKept
    <3>3. \A n \in 1..Len(queue') : queue'[n].op = "delete" => queue'[n].id # entry[t]
      BY <1>5, <3>1 DEF Longer, TimerInv, ListedIsKept
    <3> QED
      BY <1>3, <1>4, <3>1, <3>2, <3>3 DEF TimerInv, ListedIsKept
  <2> QED
    BY <2>1, <2>2
<1> QED
  BY <1>9, <1>10, <1>11, <1>12 DEF TimerInv

LEMMA TimerScheduleChange ==
    ASSUME TypeInv, TimerInv, Schedule, ScheduleChange PROVE TimerInv'
<1>1. call.type \in Type /\ call.period \in Periods /\ call.period > 0
  BY DEF TypeInv, CallType, Schedule, ScheduleChange
<1>2. TimerType /\ Ticks(call.period) \in Nat
  BY <1>1, PositivePeriod, TicksNat DEF TypeInv
<1>3. PICK i \in TimerId : i = entry[call.type]
  BY <1>1 DEF ScheduleChange, HasTimer, TypeInv, TimerType
<1>4. Longer("change", i)
  BY <1>2, <1>3, SentCommand DEF ScheduleChange
<1>5. /\ timer[i].state # "unused" /\ i \notin freed
      /\ \A n \in 1..Len(queue) : queue[n].op = "delete" => queue[n].id # i
  BY <1>1, <1>3 DEF ScheduleChange, HasTimer, TimerInv, ListedIsKept
<1>6. UNCHANGED <<entry, timer, freed, appPc>> /\ Len(queue) \in Nat
  BY <1>2 DEF ScheduleChange, Schedule, TimerType
<1>7. NothingAfterDelete'
  BY <1>4, <1>5, <1>6 DEF Longer, TimerInv, NothingAfterDelete
<1>8. NothingForUnused' /\ FreedIsQuiet' /\ ListedIsKept'
  BY <1>4, <1>5, <1>6
     DEF Longer, TimerInv, NothingForUnused, FreedIsQuiet, ListedIsKept
<1> QED
  BY <1>7, <1>8 DEF TimerInv

LEMMA TimerScheduleRemove ==
    ASSUME TypeInv, TimerInv, Schedule, ScheduleRemove PROVE TimerInv'
<1>1. call.type \in Type
  BY DEF TypeInv, CallType, Schedule, ScheduleRemove
<1>2. PICK i \in TimerId : i = entry[call.type]
  BY <1>1 DEF ScheduleRemove, HasTimer, TypeInv, TimerType
<1>3. TimerType /\ timer[i].period \in Nat
  BY DEF TypeInv, TimerType, TimerRecord
<1>4. Longer("delete", i)
  BY <1>2, <1>3, SentCommand DEF ScheduleRemove, DeleteTimer
<1>5. /\ timer[i].state # "unused" /\ timer[i].type = call.type
      /\ \A n \in 1..Len(queue) : queue[n].op = "delete" => queue[n].id # i
  BY <1>1, <1>2 DEF ScheduleRemove, HasTimer, TimerInv, ListedIsKept
<1>6. UNCHANGED <<timer, freed, appPc>> /\ Len(queue) \in Nat
  BY <1>3 DEF ScheduleRemove, RemovedEntry, Schedule, TimerType
<1>7. NothingAfterDelete'
  BY <1>4, <1>5, <1>6 DEF Longer, TimerInv, NothingAfterDelete
<1>8. NothingForUnused' /\ FreedIsQuiet'
  BY <1>4, <1>5, <1>6 DEF Longer, TimerInv, NothingForUnused, FreedIsQuiet
<1>9. ListedIsKept'
  <2>1. /\ entry'[call.type] = None
        /\ \A t \in Type : t # call.type => entry'[t] = entry[t]
    BY <1>1, <1>3 DEF ScheduleRemove, TimerType
  <2>2. \A t \in Type : entry'[t] # None => entry'[t] = entry[t] /\ entry[t] # i
    BY <2>1, <1>5 DEF TimerInv, ListedIsKept
  <2> QED
    BY <2>2, <1>4, <1>6 DEF Longer, TimerInv, ListedIsKept
<1> QED
  BY <1>7, <1>8, <1>9 DEF TimerInv

\* A command that is served is the last of its timer when it deletes it, and else finds
\* the timer's entry.
LEMMA TimerService ==
    ASSUME TypeInv, TimerInv, ServeCommand PROVE TimerInv'
<1>1. TimerType /\ Len(queue) \in Nat
  BY DEF TypeInv, TimerType
<1>2. queue # <<>> /\ queue' = Tail(queue) /\ UNCHANGED <<entry, freed, appPc>>
  BY DEF ServeCommand
<1>3. /\ Head(queue) = queue[1] /\ 1 \in 1..Len(queue) /\ Len(queue') = Len(queue) - 1
      /\ Len(queue') \in Nat
      /\ \A n \in 1..Len(queue') : n + 1 \in 1..Len(queue) /\ queue'[n] = queue[n + 1]
  BY <1>1, <1>2, TakenCommand
<1>4. PICK i \in TimerId : i = queue[1].id
  BY <1>1, <1>3, CommandIds
<1>5. /\ \A j \in TimerId : j # i => timer'[j] = timer[j]
      /\ queue[1].op = "delete" => timer'[i].state = "unused"
      /\ queue[1].op # "delete" => timer'[i].state = "active" /\ timer'[i].type = timer[i].type
  BY <1>1, <1>3, <1>4 DEF ServeCommand, TimerType, TimerRecord, NoTimer
<1>6. queue[1].op = "delete" => \A n \in 1..Len(queue') : queue'[n].id # i
  <2> SUFFICES ASSUME queue[1].op = "delete", NEW n \in 1..Len(queue')
               PROVE  queue'[n].id # i
    OBVIOUS
  <2>1. n + 1 \in 1..Len(queue) /\ queue'[n] = queue[n + 1] /\ 1 < n + 1
    BY <1>3
  <2> QED
    BY <1>3, <1>4, <2>1 DEF TimerInv, NothingAfterDelete
<1>7. NothingAfterDelete'
  <2> SUFFICES ASSUME NEW m \in 1..Len(queue'), NEW n \in 1..Len(queue'),
                      m < n, queue'[m].op = "delete"
               PROVE  queue'[n].id # queue'[m].id
    BY DEF NothingAfterDelete
  <2>1. m + 1 \in 1..Len(queue) /\ n + 1 \in 1..Len(queue) /\ m + 1 < n + 1
    BY <1>3
  <2>2. queue[m + 1].op = "delete" => queue[n + 1].id # queue[m + 1].id
    BY <2>1 DEF TimerInv, NothingAfterDelete
  <2> QED
    BY <1>3, <2>2
<1>8. NothingForUnused'
  <2> SUFFICES ASSUME NEW n \in 1..Len(queue')
               PROVE  timer'[queue'[n].id].state # "unused"
    BY DEF NothingForUnused
  <2>1. n + 1 \in 1..Len(queue) /\ queue'[n] = queue[n + 1]
    BY <1>3
  <2>2. queue[n + 1].id \in TimerId /\ timer[queue[n + 1].id].state # "unused"
    BY <1>1, <2>1, CommandIds DEF TimerInv, NothingForUnused
  <2> QED
    BY <1>5, <1>6, <2>1, <2>2
<1>9. FreedIsQuiet'
  <2> SUFFICES ASSUME appPc # "destroyed", NEW j \in freed
               PROVE  /\ timer'[j].state # "active"
                      /\ \A n \in 1..Len(queue') :
                            queue'[n].id = j => queue'[n].op = "delete"
    BY <1>2 DEF FreedIsQuiet
  <2>1. /\ timer[j].state # "active" /\ j \in TimerId
        /\ \A n \in 1..Len(queue) : queue[n].id = j => queue[n].op = "delete"
    BY <1>1 DEF TimerType, TimerInv, FreedIsQuiet
  <2>2. timer'[j].state # "active"
    BY <1>3, <1>4, <1>5, <2>1
  <2> QED
    BY <1>3, <2>1, <2>2
<1>10. ListedIsKept'
  <2> SUFFICES ASSUME NEW t \in Type, entry[t] # None
               PROVE  /\ timer'[entry[t]].state # "unused" /\ timer'[entry[t]].type = t
                      /\ entry[t] \notin freed
                      /\ \A n \in 1..Len(queue') :
                            queue'[n].op = "delete" => queue'[n].id # entry[t]
    BY <1>2 DEF ListedIsKept
  <2>1. /\ timer[entry[t]].state # "unused" /\ timer[entry[t]].type = t
        /\ entry[t] \notin freed /\ entry[t] \in TimerId
        /\ \A n \in 1..Len(queue) : queue[n].op = "delete" => queue[n].id # entry[t]
    BY <1>1 DEF TimerType, TimerInv, ListedIsKept
  <2>2. timer'[entry[t]].state # "unused" /\ timer'[entry[t]].type = t
    BY <1>3, <1>4, <1>5, <2>1
  <2> QED
    BY <1>3, <2>1, <2>2
<1> QED
  BY <1>7, <1>8, <1>9, <1>10 DEF TimerInv

LEMMA TimerDestroy ==
    ASSUME TypeInv, TimerInv, Destroy PROVE TimerInv'
<1>1. TimerType /\ Len(queue) \in Nat
  BY DEF TypeInv, TimerType
<1>2. PICK k, s : Deletions(k, s)
  BY <1>1, DestroySends
<1>3. /\ k \in Nat /\ s \in [1..k -> TimerId]
      /\ Len(queue') = Len(queue) + k
      /\ \A n \in 1..Len(queue) : queue'[n] = queue[n]
      /\ \A n \in 1..k : queue'[Len(queue) + n].op = "delete" /\ queue'[Len(queue) + n].id = s[n]
  BY <1>2 DEF Deletions
<1>4. \A n \in 1..Len(queue') :
         \/ n \in 1..Len(queue) /\ queue'[n] = queue[n]
         \/ /\ n - Len(queue) \in 1..k /\ n > Len(queue)
            /\ queue'[n].op = "delete" /\ queue'[n].id = s[n - Len(queue)]
  <2> SUFFICES ASSUME NEW n \in 1..Len(queue'), n \notin 1..Len(queue)
               PROVE  /\ n - Len(queue) \in 1..k /\ n > Len(queue)
                      /\ queue'[n].op = "delete" /\ queue'[n].id = s[n - Len(queue)]
    BY <1>3
  <2> DEFINE m == n - Len(queue)
  <2>1. m \in 1..k /\ n = Len(queue) + m /\ n > Len(queue)
    BY <1>1, <1>3
  <2> QED
    BY <1>3, <2>1
<1>5. \A n \in 1..k : /\ s[n] \in TimerId /\ timer[s[n]].state # "unused"
                      /\ \A m \in 1..Len(queue) :
                            queue[m].op = "delete" => queue[m].id # s[n]
  BY <1>2, <1>3, SentinelAssumption DEF Deletions, TimerInv, ListedIsKept
<1>6. NothingAfterDelete'
  <2> SUFFICES ASSUME NEW m \in 1..Len(queue'), NEW n \in 1..Len(queue'),
                      m < n, queue'[m].op = "delete"
               PROVE  queue'[n].id # queue'[m].id
    BY DEF NothingAfterDelete
  <2>1. CASE n \in 1..Len(queue)
    <3>1. m \in 1..Len(queue)
      BY <1>1, <1>3, <2>1
    <3> QED
      BY <1>3, <2>1, <3>1 DEF TimerInv, NothingAfterDelete
  <2>2. CASE n \notin 1..Len(queue) /\ m \in 1..Len(queue)
    BY <1>3, <1>4, <1>5, <2>2
  <2>3. CASE n \notin 1..Len(queue) /\ m \notin 1..Len(queue)
    <3>1. /\ n - Len(queue) \in 1..k /\ queue'[n].id = s[n - Len(queue)]
          /\ m - Len(queue) \in 1..k /\ queue'[m].id = s[m - Len(queue)]
      BY <1>4, <2>3
    <3>2. n - Len(queue) # m - Len(queue)
      BY <1>1, <1>3
    <3> QED
      BY <1>2, <3>1, <3>2 DEF Deletions
  <2> QED
    BY <2>1, <2>2, <2>3
<1>7. NothingForUnused'
  BY <1>4, <1>5 DEF Destroy, TimerInv, NothingForUnused
<1>8. FreedIsQuiet' /\ ListedIsKept'
  BY DEF Destroy, FreedIsQuiet, ListedIsKept
<1> QED
  BY <1>6, <1>7, <1>8 DEF TimerInv

LEMMA TimerReboot ==
    ASSUME Rebooted PROVE TimerInv'
<1>1. queue' = <<>> /\ Len(<<>>) = 0
  BY DEF Rebooted
<1>2. freed' = {} /\ entry' = [t \in Type |-> None]
  BY DEF Rebooted
<1> QED
  BY <1>1, <1>2 DEF TimerInv, NothingAfterDelete, NothingForUnused, FreedIsQuiet,
                    ListedIsKept

LEMMA TimerInit == Init => TimerInv
<1> SUFFICES ASSUME Init PROVE TimerInv
  OBVIOUS
<1>1. queue = <<>> /\ Len(<<>>) = 0
  BY DEF Init
<1>2. freed = {} /\ entry = [t \in Type |-> None]
  BY DEF Init
<1> QED
  BY <1>1, <1>2 DEF TimerInv, NothingAfterDelete, NothingForUnused, FreedIsQuiet,
                    ListedIsKept

\* The other steps leave the timers alone, and do not come back from the destruction.
LEMMA TimerOther ==
    ASSUME TimerInv, UNCHANGED timers, appPc' # "destroyed" => appPc # "destroyed"
    PROVE  TimerInv'
BY DEF TimerInv, NothingAfterDelete, NothingForUnused, FreedIsQuiet, ListedIsKept

LEMMA OtherSteps ==
    ASSUME \/ SaveEnable \/ SavePeriod \/ AppCalls \/ AppStep \/ MqttStep
           \/ \E e \in Events : EventArrives(e)
           \/ Schedule /\ (ScheduleNothing \/ ScheduleNoMemory)
           \/ UNCHANGED vars
    PROVE  UNCHANGED timers /\ (appPc' # "destroyed" => appPc # "destroyed")
<1>1. CASE AppCalls \/ AppStep
  BY <1>1 DEF AppCalls, AppStep, AppTakes, AppTimesOut, LoadNvsDone, AppGives, LoadNvs,
              LoadNvsDefault, LoadConfig
<1>2. CASE MqttStep \/ \E e \in Events : EventArrives(e)
  BY <1>2 DEF MqttStep, EventTakes, EventTimesOut, EventGives, EventArrives
<1>3. CASE SaveEnable \/ SavePeriod \/ UNCHANGED vars
  BY <1>3 DEF SaveEnable, SavePeriod, vars
<1>4. CASE Schedule /\ (ScheduleNothing \/ ScheduleNoMemory)
  BY <1>4 DEF Schedule, ScheduleNothing, ScheduleNoMemory
<1> QED
  BY <1>1, <1>2, <1>3, <1>4

\* The steps there are.
LEMMA Steps ==
    ASSUME [Next]_vars
    PROVE  \/ Rebooted
           \/ Schedule /\ ScheduleNew
           \/ Schedule /\ ScheduleChange
           \/ Schedule /\ ScheduleRemove
           \/ ServeCommand \/ Destroy
           \/ UNCHANGED timers /\ (appPc' # "destroyed" => appPc # "destroyed")
<1>1. CASE Restart \/ ScheduleAsserts \/ ServeAsserts
  BY <1>1 DEF Restart, ScheduleAsserts, ServeAsserts
<1>2. CASE Schedule
  BY <1>2, OtherSteps DEF Schedule
<1>3. CASE \/ SaveEnable \/ SavePeriod \/ AppCalls \/ AppStep \/ MqttStep
           \/ \E e \in Events : EventArrives(e)
           \/ UNCHANGED vars
  BY <1>3, OtherSteps
<1> QED
  BY <1>1, <1>2, <1>3 DEF Next, CallStep, ServiceStep

LEMMA NextTimer ==
    ASSUME TypeInv, TimerInv, [Next]_vars PROVE TimerInv'
BY Steps, TimerReboot, TimerScheduleNew, TimerScheduleChange, TimerScheduleRemove,
   TimerService, TimerDestroy, TimerOther

\* A timer that runs has its entry, which the callback reads, for every length of the
\* queue and whatever fails, until the telemetry is destroyed
\* (edgehog_telemetry.c:158-165, 202-217).
THEOREM RunningHasEntry == Spec => []CallbackHasEntry
<1>1. Init => TypeInv /\ TimerInv
  BY InitType, TimerInit
<1>2. TypeInv /\ TimerInv /\ [Next]_vars => (TypeInv /\ TimerInv)'
  BY NextType, NextTimer
<1>3. TypeInv /\ TimerInv => CallbackHasEntry
  BY DEF TimerInv, FreedIsQuiet, CallbackHasEntry
<1> QED
  BY <1>1, <1>2, <1>3, PTL DEF Spec

-----------------------------------------------------------------------------
(* One timer for each type, while the queue has room for the commands. *)

\* Nobody is at work on the telemetry after its destruction.
StaysDestroyed == appPc = "destroyed" => holder = None /\ mqttPc = "idle"

Doomed(i) == \E n \in 1..Len(queue) : queue[n].op = "delete" /\ queue[n].id = i

\* A timer that is not in the list is about to be deleted.
ListedOrDoomed ==
    appPc # "destroyed" =>
        \A i \in TimerId : timer[i].state # "unused" =>
            Doomed(i) \/ \E t \in Type : entry[t] = i

\* Timer i is deleted before timer j starts.
Before(i, j) ==
    /\ timer[j].state = "dormant"
    /\ \E m \in 1..Len(queue) :
         /\ queue[m].op = "delete" /\ queue[m].id = i
         /\ \A n \in 1..Len(queue) : queue[n].id = j /\ queue[n].op # "delete" => m < n

SameType(i, j) == /\ i # j /\ timer[i].state # "unused" /\ timer[j].state # "unused"
                  /\ timer[i].type = timer[j].type

InOrder == \A i, j \in TimerId : SameType(i, j) => Before(i, j) \/ Before(j, i)

OrderInv == StaysDestroyed /\ ListedOrDoomed /\ InOrder

\* Commands added to the queue change nothing for those before them.
Extended == /\ Len(queue) \in Nat /\ Len(queue') \in Nat /\ Len(queue) <= Len(queue')
            /\ \A n \in 1..Len(queue) : queue'[n] = queue[n]

LEMMA ExtendedBefore ==
    ASSUME Extended, NEW i \in TimerId, NEW j \in TimerId,
           timer'[j].state = timer[j].state, Before(i, j)
    PROVE  Before(i, j)'
<1>1. PICK m \in 1..Len(queue) :
         /\ queue[m].op = "delete" /\ queue[m].id = i
         /\ \A n \in 1..Len(queue) : queue[n].id = j /\ queue[n].op # "delete" => m < n
  BY DEF Before
<1>2. m \in 1..Len(queue') /\ queue'[m] = queue[m]
  BY DEF Extended
<1>3. ASSUME NEW n \in 1..Len(queue'), queue'[n].id = j, queue'[n].op # "delete"
      PROVE  m < n
  <2>1. CASE n \in 1..Len(queue)
    BY <1>1, <1>3, <2>1 DEF Extended
  <2>2. CASE n \notin 1..Len(queue)
    BY <2>2 DEF Extended
  <2> QED
    BY <2>1, <2>2
<1> QED
  BY <1>1, <1>2, <1>3 DEF Before

LEMMA ExtendedDoomed ==
    ASSUME Extended, NEW i \in TimerId, Doomed(i) PROVE Doomed(i)'
<1>1. PICK n \in 1..Len(queue) : queue[n].op = "delete" /\ queue[n].id = i
  BY DEF Doomed
<1>2. n \in 1..Len(queue') /\ queue'[n] = queue[n]
  BY DEF Extended
<1> QED
  BY <1>1, <1>2 DEF Doomed

LEMMA ExtendedOrder ==
    ASSUME Extended, InOrder, timer' = timer PROVE InOrder'
<1> SUFFICES ASSUME NEW i \in TimerId, NEW j \in TimerId, SameType(i, j)'
             PROVE  Before(i, j)' \/ Before(j, i)'
  BY DEF InOrder
<1>1. Before(i, j) \/ Before(j, i)
  BY DEF InOrder, SameType
<1> QED
  BY <1>1, ExtendedBefore

LEMMA SendExtends ==
    ASSUME TimerType, NEW op, NEW i, Longer(op, i) PROVE Extended
BY DEF TimerType, Longer, Extended

\* A step of the holder of the mutex finds the telemetry there.
LEMMA NotDestroyed ==
    ASSUME TypeInv, StaysDestroyed, Schedule PROVE appPc # "destroyed" /\ appPc' = appPc
BY DEF TypeInv, CallType, StaysDestroyed, Schedule

LEMMA OrderScheduleNew ==
    ASSUME TypeInv, TimerInv, OrderInv, Room, Schedule, ScheduleNew PROVE OrderInv'
<1>1. call.type \in Type /\ call.period \in Periods /\ call.period > 0
  BY DEF TypeInv, CallType, Schedule, ScheduleNew
<1>2. TimerType /\ Ticks(call.period) \in Nat
  BY <1>1, PositivePeriod, TicksNat DEF TypeInv
<1>3. PICK i \in TimerId :
        /\ timer[i].state = "unused"
        /\ timer' = [timer EXCEPT ![i] = [state |-> "dormant", type |-> call.type,
                                          period |-> Ticks(call.period)]]
        /\ Send("start", i, Ticks(call.period))
        /\ entry' = [entry EXCEPT ![call.type] = i]
  BY DEF ScheduleNew
<1>4. /\ timer'[i].state = "dormant" /\ timer'[i].type = call.type
      /\ \A j \in TimerId : j # i => timer'[j] = timer[j]
  BY <1>3 DEF TypeInv, TimerType
<1>5. Longer("start", i) /\ Extended
  BY <1>2, <1>3, SentCommand, SendExtends
<1>6. appPc # "destroyed" /\ appPc' = appPc
  BY NotDestroyed DEF OrderInv
<1>7. \A n \in 1..Len(queue) : queue[n].id # i
  BY <1>3 DEF TimerInv, NothingForUnused
<1>8. /\ entry'[call.type] = i /\ entry[call.type] = None
      /\ \A t \in Type : t # call.type => entry'[t] = entry[t]
  BY <1>1, <1>2, <1>3 DEF TimerType, ScheduleNew, HasTimer
<1>9. ASSUME NEW j \in TimerId, j # i, timer[j].state # "unused"
      PROVE  Doomed(j) \/ \E t \in Type : entry[t] = j /\ entry'[t] = j /\ t # call.type
  BY <1>6, <1>8, <1>9, SentinelAssumption DEF OrderInv, ListedOrDoomed
<1>10. ListedOrDoomed'
  BY <1>1, <1>4, <1>5, <1>8, <1>9, ExtendedDoomed DEF ListedOrDoomed
<1>11. ASSUME NEW j \in TimerId, j # i, timer[j].state # "unused", timer[j].type = call.type
       PROVE  Before(j, i)'
  <2>1. Doomed(j)
    BY <1>9, <1>11, SentinelAssumption DEF TimerInv, ListedIsKept
  <2>2. PICK m \in 1..Len(queue) : queue[m].op = "delete" /\ queue[m].id = j
    BY <2>1 DEF Doomed
  <2>3. m \in 1..Len(queue') /\ queue'[m] = queue[m]
    BY <1>5 DEF Extended
  <2>4. \A n \in 1..Len(queue') : queue'[n].id = i => m < n
    BY <1>5, <1>7 DEF Longer, Extended
  <2> QED
    BY <1>4, <2>2, <2>3, <2>4 DEF Before
<1>12. InOrder'
  <2> SUFFICES ASSUME NEW j \in TimerId, NEW k \in TimerId, SameType(j, k)'
               PROVE  Before(j, k)' \/ Before(k, j)'
    BY DEF InOrder
  <2>1. CASE j # i /\ k # i
    <3>1. Before(j, k) \/ Before(k, j)
      BY <1>4, <2>1 DEF OrderInv, InOrder, SameType
    <3> QED
      BY <1>4, <1>5, <2>1, <3>1, ExtendedBefore
  <2>2. CASE j = i
    BY <1>4, <1>11, <2>2 DEF SameType
  <2>3. CASE k = i
    BY <1>4, <1>11, <2>3 DEF SameType
  <2> QED
    BY <2>1, <2>2, <2>3
<1> QED
  BY <1>6, <1>10, <1>12 DEF OrderInv, StaysDestroyed

LEMMA OrderScheduleChange ==
    ASSUME TypeInv, TimerInv, OrderInv, Schedule, ScheduleChange PROVE OrderInv'
<1>1. call.type \in Type /\ call.period \in Periods /\ call.period > 0
  BY DEF TypeInv, CallType, Schedule, ScheduleChange
<1>2. TimerType /\ Ticks(call.period) \in Nat
  BY <1>1, PositivePeriod, TicksNat DEF TypeInv
<1>3. entry[call.type] \in TimerId
  BY <1>1 DEF ScheduleChange, HasTimer, TypeInv, TimerType
<1>4. Extended
  BY <1>2, <1>3, SentCommand, SendExtends DEF ScheduleChange
<1>5. UNCHANGED <<entry, timer>>
  BY DEF ScheduleChange
<1>6. appPc # "destroyed" /\ appPc' = appPc
  BY NotDestroyed DEF OrderInv
<1>7. ListedOrDoomed'
  BY <1>4, <1>5, <1>6, ExtendedDoomed DEF OrderInv, ListedOrDoomed
<1>8. InOrder'
  BY <1>4, <1>5, ExtendedOrder DEF OrderInv
<1> QED
  BY <1>6, <1>7, <1>8 DEF OrderInv, StaysDestroyed

LEMMA OrderScheduleRemove ==
    ASSUME TypeInv, TimerInv, OrderInv, Room, Schedule, ScheduleRemove PROVE OrderInv'
<1>1. call.type \in Type
  BY DEF TypeInv, CallType, Schedule, ScheduleRemove
<1>2. PICK i \in TimerId : i = entry[call.type]
  BY <1>1 DEF ScheduleRemove, HasTimer, TypeInv, TimerType
<1>3. TimerType /\ timer[i].period \in Nat
  BY DEF TypeInv, TimerType, TimerRecord
<1>4. /\ Extended /\ Len(queue') = Len(queue) + 1
      /\ queue'[Len(queue) + 1].op = "delete" /\ queue'[Len(queue) + 1].id = i
  BY <1>2, <1>3, SentCommand, SendExtends DEF ScheduleRemove, DeleteTimer
<1>5. timer' = timer /\ \A t \in Type : t # call.type => entry'[t] = entry[t]
  BY <1>1, <1>3 DEF ScheduleRemove, TimerType
<1>6. appPc # "destroyed" /\ appPc' = appPc
  BY NotDestroyed DEF OrderInv
<1>7. Doomed(i)'
  BY <1>4 DEF Doomed, Extended
<1>8. ListedOrDoomed'
  <2> SUFFICES ASSUME NEW j \in TimerId, timer[j].state # "unused"
               PROVE  Doomed(j)' \/ \E t \in Type : entry'[t] = j
    BY <1>5 DEF ListedOrDoomed
  <2>1. Doomed(j) \/ j = i \/ \E t \in Type : entry[t] = j /\ t # call.type
    BY <1>2, <1>6 DEF OrderInv, ListedOrDoomed
  <2> QED
    BY <1>4, <1>5, <1>7, <2>1, ExtendedDoomed
<1>9. InOrder'
  BY <1>4, <1>5, ExtendedOrder DEF OrderInv
<1> QED
  BY <1>6, <1>8, <1>9 DEF OrderInv, StaysDestroyed

LEMMA OrderService ==
    ASSUME TypeInv, TimerInv, OrderInv, ServeCommand PROVE OrderInv'
<1>1. TimerType /\ Len(queue) \in Nat
  BY DEF TypeInv, TimerType
<1>2. queue # <<>> /\ queue' = Tail(queue) /\ UNCHANGED <<entry, appPc, holder, mqttPc>>
  BY DEF ServeCommand
<1>3. /\ Head(queue) = queue[1] /\ 1 \in 1..Len(queue) /\ Len(queue') = Len(queue) - 1
      /\ Len(queue') \in Nat
      /\ \A n \in 1..Len(queue') : n + 1 \in 1..Len(queue) /\ queue'[n] = queue[n + 1]
  BY <1>1, <1>2, TakenCommand
<1>4. PICK i \in TimerId : i = queue[1].id
  BY <1>1, <1>3, CommandIds
<1>5. /\ \A j \in TimerId : j # i => timer'[j] = timer[j]
      /\ queue[1].op = "delete" => timer'[i].state = "unused"
      /\ queue[1].op # "delete" => timer'[i].type = timer[i].type
  BY <1>1, <1>3, <1>4 DEF ServeCommand, TimerType, TimerRecord, NoTimer
<1>6. \A j \in TimerId : timer'[j].state # "unused" =>
          /\ timer[j].state # "unused" /\ timer'[j].type = timer[j].type
          /\ ~(queue[1].op = "delete" /\ queue[1].id = j)
  BY <1>3, <1>4, <1>5 DEF TimerInv, NothingForUnused
\* A command that is not the first moves to the place before.
<1>7. \A m \in 1..Len(queue) :
          m # 1 => m - 1 \in 1..Len(queue') /\ queue'[m - 1] = queue[m]
  <2> SUFFICES ASSUME NEW m \in 1..Len(queue), m # 1
               PROVE  m - 1 \in 1..Len(queue') /\ queue'[m - 1] = queue[m]
    OBVIOUS
  <2>1. m - 1 \in 1..Len(queue') /\ (m - 1) + 1 = m
    BY <1>1, <1>3
  <2> QED
    BY <1>3, <2>1
<1>8. ListedOrDoomed'
  <2> SUFFICES ASSUME appPc # "destroyed", NEW j \in TimerId, timer'[j].state # "unused"
               PROVE  Doomed(j)' \/ \E t \in Type : entry[t] = j
    BY <1>2 DEF ListedOrDoomed
  <2>1. Doomed(j) \/ \E t \in Type : entry[t] = j
    BY <1>6 DEF OrderInv, ListedOrDoomed
  <2>2. Doomed(j) => Doomed(j)'
    BY <1>6, <1>7 DEF Doomed
  <2> QED
    BY <2>1, <2>2
<1>9. ASSUME NEW j \in TimerId, NEW k \in TimerId, Before(j, k),
             timer'[j].state # "unused", timer'[k].state # "unused"
      PROVE  Before(j, k)'
  <2>1. PICK m \in 1..Len(queue) :
           /\ queue[m].op = "delete" /\ queue[m].id = j
           /\ \A n \in 1..Len(queue) : queue[n].id = k /\ queue[n].op # "delete" => m < n
    BY <1>9 DEF Before
  <2>2. m # 1
    BY <1>6, <1>9, <2>1
  <2>3. k # i
    BY <1>1, <1>3, <1>4, <1>6, <1>9, <2>1, <2>2
  <2>4. timer'[k].state = "dormant"
    BY <1>5, <1>9, <2>3 DEF Before
  <2>5. \A n \in 1..Len(queue') : queue'[n].id = k /\ queue'[n].op # "delete" => m - 1 < n
    <3> SUFFICES ASSUME NEW n \in 1..Len(queue'), queue'[n].id = k, queue'[n].op # "delete"
                 PROVE  m - 1 < n
      OBVIOUS
    <3>1. n + 1 \in 1..Len(queue) /\ m < n + 1
      BY <1>3, <2>1
    <3> QED
      BY <3>1
  <2> QED
    BY <1>7, <2>1, <2>2, <2>4, <2>5 DEF Before
<1>10. InOrder'
  <2> SUFFICES ASSUME NEW j \in TimerId, NEW k \in TimerId, SameType(j, k)'
               PROVE  Before(j, k)' \/ Before(k, j)'
    BY DEF InOrder
  <2>1. Before(j, k) \/ Before(k, j)
    BY <1>6 DEF OrderInv, InOrder, SameType
  <2> QED
    BY <1>9, <2>1 DEF SameType
<1> QED
  BY <1>2, <1>8, <1>10 DEF OrderInv, StaysDestroyed

LEMMA OrderDestroy ==
    ASSUME TypeInv, OrderInv, Destroy PROVE OrderInv'
<1>1. PICK k, s : Deletions(k, s)
  BY DestroySends DEF TypeInv
<1>2. Extended
  BY <1>1 DEF Deletions, Extended, TypeInv, TimerType
<1>3. InOrder'
  BY <1>2, ExtendedOrder DEF OrderInv, Destroy
<1> QED
  BY <1>3 DEF Destroy, OrderInv, StaysDestroyed, ListedOrDoomed

LEMMA OrderReboot ==
    ASSUME Rebooted PROVE OrderInv'
BY DEF Rebooted, NoTimer, OrderInv, StaysDestroyed, ListedOrDoomed, InOrder, SameType

LEMMA OrderInit == Init => OrderInv
BY DEF Init, NoTimer, OrderInv, StaysDestroyed, ListedOrDoomed, InOrder, SameType

LEMMA OrderOther ==
    ASSUME TypeInv, OrderInv, UNCHANGED timers, StaysDestroyed',
           appPc' # "destroyed" => appPc # "destroyed"
    PROVE  OrderInv'
<1>1. ListedOrDoomed'
  BY DEF OrderInv, ListedOrDoomed, Doomed
<1>2. InOrder'
  BY DEF OrderInv, InOrder, SameType, Before
<1> QED
  BY <1>1, <1>2 DEF OrderInv

LEMMA DestroyedStays ==
    ASSUME TypeInv, StaysDestroyed, [Next]_vars PROVE StaysDestroyed'
<1>1. CASE Restart \/ ScheduleAsserts \/ ServeAsserts
  BY <1>1 DEF Restart, ScheduleAsserts, ServeAsserts, Rebooted, StaysDestroyed
<1>2. CASE AppCalls \/ AppStep
  BY <1>2 DEF AppCalls, AppStep, AppTakes, AppTimesOut, LoadNvsDone, AppGives, LoadNvs,
              LoadNvsDefault, LoadConfig, AfterTimeout, StaysDestroyed
<1>3. CASE MqttStep \/ \E e \in Events : EventArrives(e)
  BY <1>3 DEF MqttStep, EventTakes, EventTimesOut, EventGives, EventArrives, StaysDestroyed
<1>4. CASE Schedule \/ SaveEnable \/ SavePeriod \/ ServeCommand \/ UNCHANGED vars
  BY <1>4 DEF Schedule, SaveEnable, SavePeriod, ServeCommand, vars, StaysDestroyed
<1>5. CASE Destroy
  BY <1>5 DEF Destroy, StaysDestroyed
<1> QED
  BY <1>1, <1>2, <1>3, <1>4, <1>5 DEF Next, CallStep, ServiceStep

LEMMA NextOrder ==
    ASSUME TypeInv, TimerInv, OrderInv, Room, [Next]_vars PROVE OrderInv'
<1>1. StaysDestroyed'
  BY DestroyedStays DEF OrderInv
<1> QED
  BY <1>1, Steps, OrderReboot, OrderScheduleNew, OrderScheduleChange, OrderScheduleRemove,
     OrderService, OrderDestroy, OrderOther

LEMMA OrderMeansOne ==
    ASSUME InOrder, NEW t \in Type PROVE Cardinality(Running(t)) <= 1
<1>1. IsFiniteSet(Running(t))
  BY TimerAssumption, FS_Subset DEF Running
<1>2. \A i, j \in Running(t) : i = j
  BY DEF Running, InOrder, SameType, Before
<1>3. CASE Running(t) = {}
  <2>1. Cardinality(Running(t)) = 0
    BY <1>1, <1>3, FS_EmptySet
  <2> QED
    BY <2>1
<1>4. CASE Running(t) # {}
  <2>1. PICK i : Running(t) = {i}
    BY <1>2, <1>4
  <2>2. Cardinality(Running(t)) = 1
    BY <2>1, FS_Singleton
  <2> QED
    BY <2>2
<1> QED
  BY <1>3, <1>4

\* As long as the timer queue has room for a command, a type never has two timers that
\* run: the deletion of the old one is served before the start of the new one
\* (README.md:81, edgehog_telemetry.c:202-217).
THEOREM OneTimerWithRoom == Spec /\ []Room => []OneTimerPerType
<1> DEFINE Inv == TypeInv /\ TimerInv /\ OrderInv
<1>1. Init => Inv
  BY InitType, TimerInit, OrderInit
<1>2. Inv /\ Room /\ [Next]_vars => Inv'
  BY NextType, NextTimer, NextOrder
<1>3. Inv => OneTimerPerType
  BY OrderMeansOne DEF OrderInv, OneTimerPerType
<1> HIDE DEF Inv
<1> QED
  BY <1>1, <1>2, <1>3, PTL DEF Spec

-----------------------------------------------------------------------------
(* What runs is what is stored, and what the server last said, with an NVS that works *)
(* and room in the queue and in the heap.                                             *)

HeapRoom == \E i \in TimerId : timer[i].state = "unused"

\* The NVS says that a type is to be sent.
On(t) == nvsEnable[t] = "enabled" /\ nvsPeriod[t] > 0

\* The keys of a type are being written.
Saving(t) == callPc \in {"saveEnable", "savePeriod"} /\ call.type = t

\* A type with an entry comes to run with the stored period, or with the one that is
\* being stored.
EntryStored(t) ==
    entry[t] # None =>
        IF Saving(t)
        THEN /\ call.period > 0 /\ Pending(entry[t], Ticks(call.period))
             /\ callPc = "savePeriod" => nvsEnable[t] = "enabled"
        ELSE On(t) /\ Pending(entry[t], Ticks(nvsPeriod[t]))

\* The load has yet to look at a type.
Unloaded(t) ==
    \/ appPc \in {"boot", "take", "failed", "destroyed"}
    \/ /\ appPc \in {"nvs", "spin"}
       /\ t \in todo \/ (callPc = "schedule" /\ call.type = t /\ call.period > 0)

\* A type without an entry is not stored as one to be sent, or not for long.
NoEntryStored(t) ==
    entry[t] = None => /\ Saving(t) => call.period <= 0
                       /\ On(t) => Saving(t) \/ Unloaded(t)

StoreInv == \A t \in Type : EntryStored(t) /\ NoEntryStored(t)

\* The types that the load has yet to visit.
LoadTodo == /\ appPc = "nvs" => \A t \in todo : nvsEnable[t] # "absent"
            /\ appPc = "config" => \A t \in todo : Configured(t)

\* The calls of the load change nothing but configured types.
LoadKeeps ==
    holder = "app" /\ callPc # "none" =>
        IF call.period > 0 THEN On(call.type) \/ Configured(call.type)
        ELSE callPc = "schedule" /\ ~On(call.type)

\* The call of an event is about its type.
EventCall ==
    mqttPc = "handle" => /\ lastWord[event.type] \in {"none", "early"}
                         /\ callPc # "none" => call.type = event.type

\* An event that comes before the start is not too early for a type that has a timer: the
\* call finds it, and once the call is over the type is stored as it then is.
HeardInTime ==
    mqttPc = "handle" /\ lastWord[event.type] = "none" /\ appPc # "started" =>
        /\ callPc = "schedule" => HasTimer(event.type)
        /\ callPc = "none" => HasTimer(event.type) \/ ~On(event.type)

\* What the last event made of a type is stored.
WordStored(t) ==
    /\ lastWord[t] = "on" => On(t)
    /\ lastWord[t] = "off" /\ config[t] = Default => ~On(t)

WordInv == /\ LoadTodo /\ LoadKeeps /\ EventCall /\ HeardInTime
           /\ \A t \in Type : WordStored(t)

LEMMA PendingOther ==
    ASSUME TimerType, NEW op, NEW j, Longer(op, j), NEW i \in TimerId, i # j, NEW p,
           timer'[i] = timer[i], Pending(i, p)
    PROVE  Pending(i, p)'
<1>1. Len(queue) \in Nat
  BY DEF TimerType
<1>2. CASE timer[i].state = "active" /\ timer[i].period = p
           /\ \A n \in 1..Len(queue) : queue[n].id # i
  BY <1>1, <1>2 DEF Longer, Pending
<1>3. CASE \E m \in 1..Len(queue) :
             /\ queue[m].id = i /\ queue[m].op # "delete" /\ queue[m].period = p
             /\ \A n \in 1..Len(queue) : queue[n].id = i => n <= m
  <2>1. PICK m \in 1..Len(queue) :
             /\ queue[m].id = i /\ queue[m].op # "delete" /\ queue[m].period = p
             /\ \A n \in 1..Len(queue) : queue[n].id = i => n <= m
    BY <1>3
  <2>2. m \in 1..Len(queue') /\ queue'[m] = queue[m]
    BY <1>1 DEF Longer
  <2>3. \A n \in 1..Len(queue') : queue'[n].id = i => n <= m
    BY <2>1 DEF Longer
  <2> QED
    BY <2>1, <2>2, <2>3 DEF Pending
<1> QED
  BY <1>2, <1>3 DEF Pending

LEMMA PendingSent ==
    ASSUME TimerType, Room, NEW op \in {"start", "change"}, NEW i \in TimerId,
           NEW p \in Nat, Send(op, i, p)
    PROVE  Pending(i, p)'
<1>1. /\ Longer(op, i) /\ Len(queue') = Len(queue) + 1 /\ Len(queue) \in Nat
      /\ queue'[Len(queue) + 1].op = op /\ queue'[Len(queue) + 1].id = i
      /\ queue'[Len(queue) + 1].period = p
  BY SentCommand DEF TimerType
<1>2. \A n \in 1..Len(queue') : n <= Len(queue) + 1
  BY <1>1
<1>3. Len(queue) + 1 \in 1..Len(queue')
  BY <1>1
<1> QED
  BY <1>1, <1>2, <1>3 DEF Pending

LEMMA PendingServed ==
    ASSUME TimerType, ServeCommand, NEW i \in TimerId, NEW p, Pending(i, p),
           \A n \in 1..Len(queue) : queue[n].op = "delete" => queue[n].id # i
    PROVE  Pending(i, p)'
<1>1. Len(queue) \in Nat /\ queue # <<>> /\ queue' = Tail(queue)
  BY DEF TimerType, ServeCommand
<1>2. /\ Head(queue) = queue[1] /\ 1 \in 1..Len(queue) /\ Len(queue') = Len(queue) - 1
      /\ Len(queue') \in Nat
      /\ \A n \in 1..Len(queue') : n + 1 \in 1..Len(queue) /\ queue'[n] = queue[n + 1]
  BY <1>1, TakenCommand
<1>3. queue[1].id # i => timer'[i] = timer[i]
  BY <1>2 DEF ServeCommand, TimerType
<1>4. CASE timer[i].state = "active" /\ timer[i].period = p
           /\ \A n \in 1..Len(queue) : queue[n].id # i
  BY <1>2, <1>3, <1>4 DEF Pending
<1>5. ASSUME NEW m \in 1..Len(queue),
             queue[m].id = i, queue[m].op # "delete", queue[m].period = p,
             \A n \in 1..Len(queue) : queue[n].id = i => n <= m
      PROVE  Pending(i, p)'
  <2>1. CASE m = 1
    <3>1. timer'[i].state = "active" /\ timer'[i].period = p
      BY <1>2, <1>5, <2>1 DEF ServeCommand, TimerType, TimerRecord
    <3>2. \A n \in 1..Len(queue') : queue'[n].id # i
      <4> SUFFICES ASSUME NEW n \in 1..Len(queue') PROVE queue'[n].id # i
        OBVIOUS
      <4>1. n + 1 \in 1..Len(queue) /\ queue'[n] = queue[n + 1] /\ ~(n + 1 <= 1)
        BY <1>2
      <4> QED
        BY <1>5, <2>1, <4>1
    <3> QED
      BY <3>1, <3>2 DEF Pending
  <2>2. CASE m # 1
    <3>1. m - 1 \in 1..Len(queue') /\ (m - 1) + 1 = m
      BY <1>1, <1>2, <2>2
    <3>2. queue'[m - 1] = queue[m]
      BY <1>2, <3>1
    <3>3. \A n \in 1..Len(queue') : queue'[n].id = i => n <= m - 1
      <4> SUFFICES ASSUME NEW n \in 1..Len(queue'), queue'[n].id = i PROVE n <= m - 1
        OBVIOUS
      <4>1. n + 1 \in 1..Len(queue) /\ n + 1 <= m
        BY <1>2, <1>5
      <4> QED
        BY <4>1
    <3> QED
      BY <1>5, <3>1, <3>2, <3>3 DEF Pending
  <2> QED
    BY <2>1, <2>2
<1> QED
  BY <1>4, <1>5 DEF Pending

LEMMA PendingKept ==
    ASSUME NEW i, NEW p, Pending(i, p), UNCHANGED <<timer, queue>> PROVE Pending(i, p)'
BY DEF Pending

LEMMA StoreScheduleNew ==
    ASSUME TypeInv, TimerInv, StoreInv, Room, Schedule, ScheduleNew PROVE StoreInv'
<1>1. /\ call.type \in Type /\ call.period \in Periods /\ call.period > 0
      /\ callPc = "schedule" /\ call \in [type : Type, period : Periods]
  BY DEF TypeInv, CallType, Schedule, ScheduleNew
<1>2. TimerType /\ Ticks(call.period) \in Nat
  BY <1>1, PositivePeriod, TicksNat DEF TypeInv
<1>3. PICK i \in TimerId :
        /\ timer[i].state = "unused"
        /\ timer' = [timer EXCEPT ![i] = [state |-> "dormant", type |-> call.type,
                                          period |-> Ticks(call.period)]]
        /\ Send("start", i, Ticks(call.period))
        /\ entry' = [entry EXCEPT ![call.type] = i]
        /\ Saved(call.period)
  BY DEF ScheduleNew
<1>4. call'.type = call.type /\ call'.period = call.period /\ callPc' = "saveEnable"
  BY <1>1, <1>3 DEF Saved
<1>5. PICK p \in Nat : p = Ticks(call.period)
  BY <1>2
<1>6. Longer("start", i) /\ Pending(i, p)'
  BY <1>2, <1>3, <1>5, SentCommand, PendingSent
<1>7. UNCHANGED <<nvs, appPc, todo>>
  BY DEF Schedule
<1> SUFFICES ASSUME NEW t \in Type PROVE EntryStored(t)' /\ NoEntryStored(t)'
  BY DEF StoreInv
<1>8. CASE t = call.type
  <2>1. entry'[t] = i /\ i # None
    BY <1>2, <1>3, <1>8, SentinelAssumption DEF TimerType
  <2>2. Saving(t)' /\ call'.period > 0 /\ p = Ticks(call'.period)
    BY <1>1, <1>4, <1>5, <1>8 DEF Saving
  <2>3. Pending(entry[t], Ticks(call.period))'
    BY <1>6, <2>1, <2>2 DEF Pending
  <2> QED
    BY <1>4, <2>1, <2>2, <2>3 DEF EntryStored, NoEntryStored
<1>9. CASE t # call.type
  <2>1. entry'[t] = entry[t]
    BY <1>2, <1>3, <1>9 DEF TimerType
  <2>2. ~Saving(t) /\ ~Saving(t)'
    BY <1>1, <1>4, <1>9 DEF Saving
  <2>3. On(t)' = On(t) /\ nvsPeriod' = nvsPeriod /\ (Unloaded(t) => Unloaded(t)')
    BY <1>4, <1>7, <1>9 DEF On, Unloaded
  <2>4. ASSUME entry[t] # None PROVE Pending(entry[t], Ticks(nvsPeriod[t]))'
    <3>1. entry[t] \in TimerId /\ entry[t] # i
      BY <1>2, <1>3, <2>4 DEF TimerType, TimerInv, ListedIsKept
    <3>2. timer'[entry[t]] = timer[entry[t]]
      BY <1>2, <1>3, <3>1 DEF TimerType
    <3>3. Pending(entry[t], Ticks(nvsPeriod[t]))
      BY <2>2, <2>4 DEF StoreInv, EntryStored
    <3>4. PICK j, q : j = entry[t] /\ q = Ticks(nvsPeriod[t])
      OBVIOUS
    <3>5. Pending(j, q)'
      BY <1>2, <1>6, <3>1, <3>2, <3>3, <3>4, PendingOther
    <3> QED
      BY <2>1, <2>3, <3>4, <3>5 DEF Pending
  <2> QED
    BY <2>1, <2>2, <2>3, <2>4 DEF StoreInv, EntryStored, NoEntryStored
<1> QED
  BY <1>8, <1>9

LEMMA StoreScheduleChange ==
    ASSUME TypeInv, TimerInv, StoreInv, Room, Schedule, ScheduleChange PROVE StoreInv'
<1>1. /\ call.type \in Type /\ call.period \in Periods /\ call.period > 0
      /\ callPc = "schedule" /\ call \in [type : Type, period : Periods]
  BY DEF TypeInv, CallType, Schedule, ScheduleChange
<1>2. TimerType /\ Ticks(call.period) \in Nat
  BY <1>1, PositivePeriod, TicksNat DEF TypeInv
<1>3. PICK i \in TimerId, p \in Nat : i = entry[call.type] /\ p = Ticks(call.period)
  BY <1>1, <1>2 DEF ScheduleChange, HasTimer, TimerType
<1>4. call'.type = call.type /\ call'.period = call.period /\ callPc' = "saveEnable"
  BY <1>1 DEF ScheduleChange, Saved
<1>5. Longer("change", i) /\ Pending(i, p)'
  BY <1>2, <1>3, SentCommand, PendingSent DEF ScheduleChange
<1>6. UNCHANGED <<nvs, appPc, todo, entry, timer>>
  BY DEF Schedule, ScheduleChange
<1> SUFFICES ASSUME NEW t \in Type, entry[t] # None \/ t # call.type
             PROVE  EntryStored(t)' /\ NoEntryStored(t)'
  BY DEF StoreInv, ScheduleChange, HasTimer
<1>7. CASE t = call.type
  <2>1. Saving(t)' /\ call'.period > 0 /\ p = Ticks(call'.period) /\ entry'[t] = i /\ i # None
    BY <1>1, <1>3, <1>4, <1>6, <1>7, SentinelAssumption DEF Saving
  <2>2. Pending(entry[t], Ticks(call.period))'
    BY <1>5, <2>1 DEF Pending
  <2> QED
    BY <1>4, <2>1, <2>2 DEF EntryStored, NoEntryStored
<1>8. CASE t # call.type
  <2>1. ~Saving(t) /\ ~Saving(t)'
    BY <1>1, <1>4, <1>8 DEF Saving
  <2>2. On(t)' = On(t) /\ nvsPeriod' = nvsPeriod /\ (Unloaded(t) => Unloaded(t)')
    BY <1>4, <1>6, <1>8 DEF On, Unloaded
  <2>3. ASSUME entry[t] # None PROVE Pending(entry[t], Ticks(nvsPeriod[t]))'
    <3>1. entry[t] \in TimerId /\ entry[t] # i
      BY <1>1, <1>2, <1>3, <1>8, <2>3, SentinelAssumption
         DEF TimerType, TimerInv, ListedIsKept
    <3>2. Pending(entry[t], Ticks(nvsPeriod[t]))
      BY <2>1, <2>3 DEF StoreInv, EntryStored
    <3>3. PICK j, q : j = entry[t] /\ q = Ticks(nvsPeriod[t])
      OBVIOUS
    <3>4. Pending(j, q)'
      BY <1>2, <1>5, <1>6, <3>1, <3>2, <3>3, PendingOther
    <3> QED
      BY <1>6, <2>2, <3>3, <3>4 DEF Pending
  <2> QED
    BY <1>6, <2>1, <2>2, <2>3 DEF StoreInv, EntryStored, NoEntryStored
<1> QED
  BY <1>7, <1>8

LEMMA StoreScheduleRemove ==
    ASSUME TypeInv, TimerInv, StoreInv, Schedule, ScheduleRemove PROVE StoreInv'
<1>1. /\ call.type \in Type /\ call.period <= 0
      /\ callPc = "schedule" /\ call \in [type : Type, period : Periods]
  BY DEF TypeInv, CallType, Schedule, ScheduleRemove
<1>2. PICK i \in TimerId : i = entry[call.type]
  BY <1>1 DEF ScheduleRemove, HasTimer, TypeInv, TimerType
<1>3. TimerType /\ timer[i].period \in Nat
  BY DEF TypeInv, TimerType, TimerRecord
<1>4. Longer("delete", i)
  BY <1>2, <1>3, SentCommand DEF ScheduleRemove, DeleteTimer
<1>5. call'.type = call.type /\ call'.period = call.period /\ callPc' = "saveEnable"
  BY <1>1 DEF ScheduleRemove, Saved
<1>6. UNCHANGED <<nvs, appPc, todo, timer>>
  BY DEF Schedule, ScheduleRemove
<1> SUFFICES ASSUME NEW t \in Type PROVE EntryStored(t)' /\ NoEntryStored(t)'
  BY DEF StoreInv
<1>7. CASE t = call.type
  <2>1. entry'[t] = None /\ Saving(t)' /\ call'.period <= 0
    BY <1>1, <1>3, <1>5, <1>7 DEF ScheduleRemove, TimerType, Saving
  <2> QED
    BY <2>1 DEF EntryStored, NoEntryStored
<1>8. CASE t # call.type
  <2>1. entry'[t] = entry[t]
    BY <1>3, <1>8 DEF ScheduleRemove, TimerType
  <2>2. ~Saving(t) /\ ~Saving(t)'
    BY <1>1, <1>5, <1>8 DEF Saving
  <2>3. On(t)' = On(t) /\ nvsPeriod' = nvsPeriod /\ (Unloaded(t) => Unloaded(t)')
    BY <1>5, <1>6, <1>8 DEF On, Unloaded
  <2>4. ASSUME entry[t] # None PROVE Pending(entry[t], Ticks(nvsPeriod[t]))'
    <3>1. entry[t] \in TimerId /\ entry[t] # i
      BY <1>1, <1>2, <1>3, <1>8, <2>4, SentinelAssumption
         DEF TimerType, TimerInv, ListedIsKept
    <3>2. Pending(entry[t], Ticks(nvsPeriod[t]))
      BY <2>2, <2>4 DEF StoreInv, EntryStored
    <3>3. PICK j, q : j = entry[t] /\ q = Ticks(nvsPeriod[t])
      OBVIOUS
    <3>4. Pending(j, q)'
      BY <1>3, <1>4, <1>6, <3>1, <3>2, <3>3, PendingOther
    <3> QED
      BY <2>1, <2>3, <3>3, <3>4 DEF Pending
  <2> QED
    BY <2>1, <2>2, <2>3, <2>4 DEF StoreInv, EntryStored, NoEntryStored
<1> QED
  BY <1>7, <1>8

LEMMA CallPeriod ==
    ASSUME TypeInv, callPc # "none"
    PROVE  call.type \in Type /\ call.period \in Periods /\ call.period \in Int
<1>1. call.type \in Type /\ call.period \in Periods
  BY DEF TypeInv, CallType
<1>2. Periods \subseteq Int
  BY PeriodAssumption DEF Periods
<1> QED
  BY <1>1, <1>2

LEMMA StoreScheduleNothing ==
    ASSUME TypeInv, StoreInv, Schedule, ScheduleNothing PROVE StoreInv'
<1>1. callPc = "schedule" /\ call.period <= 0 /\ callPc' = "none" /\ call' = call
  BY DEF Schedule, ScheduleNothing
<1>2. ~(call.period > 0)
  <2>1. call.period \in Int
    BY <1>1, CallPeriod
  <2> QED
    BY <1>1, <2>1
<1>3. UNCHANGED <<nvs, appPc, todo, entry, timer, queue>>
  BY DEF Schedule, ScheduleNothing
<1> SUFFICES ASSUME NEW t \in Type PROVE EntryStored(t)' /\ NoEntryStored(t)'
  BY DEF StoreInv
<1>4. ~Saving(t) /\ ~Saving(t)' /\ On(t)' = On(t) /\ (Unloaded(t) => Unloaded(t)')
  BY <1>1, <1>2, <1>3 DEF Saving, On, Unloaded
<1>5. EntryStored(t)'
  BY <1>3, <1>4 DEF StoreInv, EntryStored, Pending
<1> QED
  BY <1>3, <1>4, <1>5 DEF StoreInv, NoEntryStored

LEMMA StoreSave ==
    ASSUME TypeInv, StoreInv, NvsFails = FALSE, SaveEnable \/ SavePeriod PROVE StoreInv'
<1>1. /\ call.type \in Type /\ call.period \in Periods /\ call.period \in Int
      /\ callPc \in {"saveEnable", "savePeriod"} /\ call' = call
  BY CallPeriod DEF SaveEnable, SavePeriod
<1>2. UNCHANGED <<appPc, todo, entry, timer, queue>>
  BY DEF SaveEnable, SavePeriod
<1>3. callPc' \in {"none", "savePeriod"}
  BY DEF SaveEnable, SavePeriod
<1> SUFFICES ASSUME NEW t \in Type PROVE EntryStored(t)' /\ NoEntryStored(t)'
  BY DEF StoreInv
<1>4. CASE t # call.type
  <2>1. ~Saving(t) /\ ~Saving(t)'
    BY <1>1, <1>4 DEF Saving
  <2>2. nvsEnable'[t] = nvsEnable[t] /\ nvsPeriod'[t] = nvsPeriod[t]
    BY <1>4 DEF SaveEnable, SavePeriod, Written, TypeInv, StoreType
  <2>3. On(t)' = On(t) /\ (Unloaded(t) => Unloaded(t)')
    BY <1>1, <1>2, <1>4, <2>2 DEF On, Unloaded
  <2>4. EntryStored(t)'
    BY <1>2, <2>1, <2>2, <2>3 DEF StoreInv, EntryStored, Pending
  <2> QED
    BY <1>2, <2>1, <2>3, <2>4 DEF StoreInv, NoEntryStored
<1>5. CASE t = call.type /\ SaveEnable
  <2>1. nvsEnable'[t] = StoredEnable(call.period) /\ nvsPeriod' = nvsPeriod /\ Saving(t)
    BY <1>1, <1>5 DEF SaveEnable, Written, TypeInv, StoreType, Saving
  <2>2. CASE call.period > 0
    <3>1. nvsEnable'[t] = "enabled" /\ Saving(t)' /\ entry[t] # None
      BY <1>1, <1>5, <2>1, <2>2 DEF SaveEnable, StoredEnable, Saving, StoreInv, NoEntryStored
    <3>2. EntryStored(t)'
      BY <1>1, <1>2, <2>1, <2>2, <3>1 DEF StoreInv, EntryStored, Pending
    <3> QED
      BY <1>2, <3>1, <3>2 DEF NoEntryStored
  <2>3. CASE ~(call.period > 0)
    <3>1. nvsEnable'[t] # "enabled" /\ ~Saving(t)' /\ entry[t] = None
      BY <1>1, <1>5, <2>1, <2>3 DEF SaveEnable, StoredEnable, Saving, StoreInv, EntryStored
    <3> QED
      BY <1>2, <3>1 DEF EntryStored, NoEntryStored, On
  <2> QED
    BY <2>2, <2>3
<1>6. CASE t = call.type /\ SavePeriod
  <2>1. call.period > 0 /\ Saving(t) /\ ~Saving(t)'
    BY <1>1, <1>6 DEF SavePeriod, Saving, TypeInv, CallType
  <2>2. nvsPeriod'[t] = call.period /\ nvsEnable' = nvsEnable
    BY <1>1, <1>6 DEF SavePeriod, Written, TypeInv, StoreType
  <2>3. /\ entry[t] # None /\ Pending(entry[t], Ticks(call.period))
        /\ nvsEnable[t] = "enabled"
    BY <1>1, <1>6, <2>1 DEF SavePeriod, StoreInv, EntryStored, NoEntryStored
  <2>4. Pending(entry[t], Ticks(nvsPeriod[t]))'
    BY <1>2, <2>2, <2>3 DEF Pending
  <2> QED
    BY <1>2, <2>1, <2>2, <2>3, <2>4 DEF EntryStored, NoEntryStored, On
<1> QED
  BY <1>4, <1>5, <1>6

\* A step that leaves the timers, the keys and the entries alone, and saves nothing.
LEMMA StoreKept ==
    ASSUME StoreInv, UNCHANGED <<nvs, entry, timer, queue>>, callPc \in {"none", "schedule"},
           callPc' \in {"none", "schedule"},
           \A t \in Type : On(t) /\ Unloaded(t) => Unloaded(t)'
    PROVE  StoreInv'
<1> SUFFICES ASSUME NEW t \in Type PROVE EntryStored(t)' /\ NoEntryStored(t)'
  BY DEF StoreInv
<1>1. ~Saving(t) /\ ~Saving(t)' /\ On(t)' = On(t)
  BY DEF Saving, On
<1>2. EntryStored(t)'
  BY <1>1 DEF StoreInv, EntryStored, Pending
<1> QED
  BY <1>1, <1>2 DEF StoreInv, NoEntryStored

\* The same for a step of the other task while a call runs.
LEMMA StoreIdle ==
    ASSUME StoreInv,
           UNCHANGED <<nvs, entry, timer, queue, call, callPc>>,
           \A t \in Type : On(t) /\ Unloaded(t) => Unloaded(t)'
    PROVE  StoreInv'
<1> SUFFICES ASSUME NEW t \in Type PROVE EntryStored(t)' /\ NoEntryStored(t)'
  BY DEF StoreInv
<1>1. Saving(t)' = Saving(t) /\ On(t)' = On(t)
  BY DEF Saving, On
<1>2. EntryStored(t)'
  BY <1>1 DEF StoreInv, EntryStored, Pending
<1> QED
  BY <1>1, <1>2 DEF StoreInv, NoEntryStored

LEMMA StoreApp ==
    ASSUME TypeInv, StoreInv, NvsFails = FALSE, AppCalls \/ AppStep PROVE StoreInv'
<1>1. CASE AppCalls \/ AppTimesOut
  <2>1. \A t \in Type : Unloaded(t)'
    BY <1>1 DEF AppCalls, AppTimesOut, AfterTimeout, Unloaded
  <2> QED
    BY <1>1, <2>1, StoreIdle DEF AppCalls, AppTimesOut
<1>2. CASE AppTakes
  <2>1. callPc = "none" /\ callPc' = "none"
    BY <1>2 DEF AppTakes, TypeInv, CallType
  <2>2. \A t \in Type : On(t) => Unloaded(t)'
    BY <1>2 DEF AppTakes, On, Unloaded
  <2> QED
    BY <1>2, <2>1, <2>2, StoreKept DEF AppTakes
<1>3. CASE LoadNvsDone \/ AppGives
  <2>1. callPc = "none" /\ callPc' = "none" /\ \A t \in Type : ~Unloaded(t)
    BY <1>3 DEF LoadNvsDone, AppGives, Unloaded
  <2> QED
    BY <1>3, <2>1, StoreKept DEF LoadNvsDone, AppGives
<1>4. ASSUME NEW u \in Type, LoadNvs(u) PROVE StoreInv'
  <2>1. /\ appPc = "nvs" /\ appPc' = "nvs" /\ callPc = "none" /\ callPc' = "schedule"
        /\ todo' = todo \ {u} /\ call'.type = u /\ call'.period = LoadedPeriod(u)
    BY <1>4 DEF LoadNvs, Call
  <2>2. On(u) => call'.period > 0
    BY <2>1 DEF On, LoadedPeriod
  <2>3. \A t \in Type : On(t) /\ Unloaded(t) => Unloaded(t)'
    BY <2>1, <2>2 DEF Unloaded
  <2> QED
    BY <1>4, <2>1, <2>3, StoreKept DEF LoadNvs
<1>5. ASSUME NEW u \in Type, LoadNvsDefault(u) PROVE StoreInv'
  <2>1. \A t \in Type : Unloaded(t) => Unloaded(t)'
    BY <1>5 DEF LoadNvsDefault, Unloaded
  <2> QED
    BY <1>5, <2>1, StoreIdle DEF LoadNvsDefault
<1>6. ASSUME NEW u \in Type, LoadConfig(u) PROVE StoreInv'
  <2>1. /\ callPc = "none" /\ callPc' \in {"none", "schedule"}
        /\ \A t \in Type : ~Unloaded(t)
    BY <1>6 DEF LoadConfig, Call, Unloaded
  <2> QED
    BY <1>6, <2>1, StoreKept DEF LoadConfig
<1> QED
  BY <1>1, <1>2, <1>3, <1>4, <1>5, <1>6 DEF AppStep

LEMMA StoreMqtt ==
    ASSUME TypeInv, StoreInv, MqttStep \/ (\E e \in Events : EventArrives(e))
    PROVE  StoreInv'
<1>1. CASE EventTakes
  <2>1. callPc = "none" /\ callPc' = "schedule"
    BY <1>1 DEF EventTakes, TypeInv, CallType, Call
  <2>2. \A t \in Type : Unloaded(t) => Unloaded(t)'
    BY <1>1, <2>1, NoneIsNoTask DEF EventTakes, TypeInv, TaskType, Unloaded
  <2> QED
    BY <1>1, <2>1, <2>2, StoreKept DEF EventTakes
<1>2. CASE EventTimesOut \/ EventGives \/ \E e \in Events : EventArrives(e)
  <2>1. UNCHANGED <<nvs, entry, timer, queue, call, callPc, appPc, todo>>
    BY <1>2 DEF EventTimesOut, EventGives, EventArrives
  <2>2. \A t \in Type : Unloaded(t) => Unloaded(t)'
    BY <2>1 DEF Unloaded
  <2> QED
    BY <2>1, <2>2, StoreIdle
<1> QED
  BY <1>1, <1>2 DEF MqttStep

LEMMA StoreService ==
    ASSUME TypeInv, TimerInv, StoreInv, ServeCommand PROVE StoreInv'
<1> SUFFICES ASSUME NEW t \in Type PROVE EntryStored(t)' /\ NoEntryStored(t)'
  BY DEF StoreInv
<1>1. UNCHANGED <<nvs, entry, call, callPc, appPc, todo>>
  BY DEF ServeCommand
<1>2. Saving(t)' = Saving(t) /\ On(t)' = On(t) /\ Unloaded(t)' = Unloaded(t)
  BY <1>1 DEF Saving, On, Unloaded
<1>3. ASSUME NEW p, entry[t] # None, Pending(entry[t], p)
      PROVE  \E i \in TimerId : i = entry[t] /\ Pending(i, p)'
  <2>1. PICK i \in TimerId : i = entry[t]
    BY <1>3 DEF TypeInv, TimerType
  <2>2. \A n \in 1..Len(queue) : queue[n].op = "delete" => queue[n].id # i
    BY <1>3, <2>1 DEF TimerInv, ListedIsKept
  <2>3. Pending(i, p)'
    BY <1>3, <2>1, <2>2, PendingServed DEF TypeInv
  <2> QED
    BY <2>1, <2>3
<1>4. EntryStored(t)'
  <2>1. ASSUME entry[t] # None, Saving(t) PROVE Pending(entry[t], Ticks(call.period))'
    <3>1. PICK p : p = Ticks(call.period)
      OBVIOUS
    <3>2. PICK i \in TimerId : i = entry[t] /\ Pending(i, p)'
      BY <1>3, <2>1, <3>1 DEF StoreInv, EntryStored
    <3> QED
      BY <1>1, <3>1, <3>2 DEF Pending
  <2>2. ASSUME entry[t] # None, ~Saving(t) PROVE Pending(entry[t], Ticks(nvsPeriod[t]))'
    <3>1. PICK p : p = Ticks(nvsPeriod[t])
      OBVIOUS
    <3>2. PICK i \in TimerId : i = entry[t] /\ Pending(i, p)'
      BY <1>3, <2>2, <3>1 DEF StoreInv, EntryStored
    <3> QED
      BY <1>1, <3>1, <3>2 DEF Pending
  <2> QED
    BY <1>1, <1>2, <2>1, <2>2 DEF StoreInv, EntryStored
<1> QED
  BY <1>1, <1>2, <1>4 DEF StoreInv, NoEntryStored

LEMMA StoreEmpty ==
    ASSUME TypeInv, Rebooted \/ Destroy PROVE StoreInv'
<1>1. /\ callPc' = "none" /\ appPc' \in {"boot", "destroyed"}
      /\ entry' = [t \in Type |-> None]
  BY DEF Rebooted, Destroy, TypeInv, CallType
<1> QED
  BY <1>1 DEF StoreInv, EntryStored, NoEntryStored, Saving, Unloaded

LEMMA StoreInit == Init => StoreInv
BY DEF Init, StoreInv, EntryStored, NoEntryStored, Saving, Unloaded

LEMMA NextStore ==
    ASSUME TypeInv, TimerInv, StoreInv, Room, HeapRoom, NvsFails = FALSE, [Next]_vars
    PROVE  StoreInv'
<1>1. CASE Restart \/ ScheduleAsserts \/ ServeAsserts \/ Destroy
  BY <1>1, StoreEmpty DEF Restart, ScheduleAsserts, ServeAsserts
<1>2. CASE Schedule
  <2>1. ~ScheduleNoMemory
    BY DEF HeapRoom, ScheduleNoMemory
  <2> QED
    BY <1>2, <2>1, StoreScheduleNew, StoreScheduleChange, StoreScheduleRemove,
       StoreScheduleNothing DEF Schedule
<1>3. CASE UNCHANGED vars
  <2>1. \A t \in Type : Unloaded(t) => Unloaded(t)'
    BY <1>3 DEF vars, Unloaded
  <2> QED
    BY <1>3, <2>1, StoreIdle DEF vars
<1>4. CASE SaveEnable \/ SavePeriod
  BY <1>4, StoreSave
<1>5. CASE AppCalls \/ AppStep
  BY <1>5, StoreApp
<1>6. CASE MqttStep \/ \E e \in Events : EventArrives(e)
  BY <1>6, StoreMqtt
<1>7. CASE ServeCommand
  BY <1>7, StoreService
<1> QED
  BY <1>1, <1>2, <1>3, <1>4, <1>5, <1>6, <1>7 DEF Next, CallStep, ServiceStep

LEMMA SettledStored ==
    ASSUME TypeInv, TimerInv, OrderInv, StoreInv PROVE RunningIsStored
<1> SUFFICES ASSUME Settled, NEW t \in Type
             PROVE  IF entry[t] # None
                    THEN /\ Running(t) = {entry[t]}
                         /\ TicksFit(nvsPeriod[t]) =>
                                timer[entry[t]].period = nvsPeriod[t] * TickRate
                         /\ nvsEnable[t] = "enabled"
                    ELSE /\ Running(t) = {}
                         /\ ~(nvsEnable[t] = "enabled" /\ nvsPeriod[t] > 0)
  BY DEF RunningIsStored
<1>1. appPc = "started" /\ callPc = "none" /\ queue = <<>> /\ Len(<<>>) = 0
  BY DEF Settled, TypeInv, CallType
<1>2. ~Saving(t) /\ ~Unloaded(t)
  BY <1>1 DEF Saving, Unloaded
<1>3. Running(t) \subseteq {entry[t]}
  BY <1>1, SentinelAssumption
     DEF Running, OrderInv, ListedOrDoomed, Doomed, TimerInv, ListedIsKept
<1>4. CASE entry[t] # None
  <2>1. entry[t] \in TimerId /\ timer[entry[t]].type = t
    BY <1>4 DEF TypeInv, TimerType, TimerInv, ListedIsKept
  <2>2. On(t) /\ Pending(entry[t], Ticks(nvsPeriod[t]))
    BY <1>2, <1>4 DEF StoreInv, EntryStored
  <2>3. timer[entry[t]].state = "active" /\ timer[entry[t]].period = Ticks(nvsPeriod[t])
    BY <1>1, <2>2 DEF Pending
  <2>4. nvsPeriod[t] \in Nat
    <3>1. nvsPeriod[t] \in Period \cup {0}
      BY DEF TypeInv, StoreType
    <3> QED
      BY ONLY <3>1, PeriodsAreNat
  <2>5. TicksFit(nvsPeriod[t]) => Ticks(nvsPeriod[t]) = nvsPeriod[t] * TickRate
    BY <2>4, TicksAreExact
  <2> QED
    BY <1>3, <1>4, <2>1, <2>2, <2>3, <2>5 DEF Running, On
<1>5. CASE entry[t] = None
  BY <1>2, <1>3, <1>5, SentinelAssumption DEF StoreInv, NoEntryStored, On, Running
<1> QED
  BY <1>4, <1>5

\* With an NVS that works and room for the commands and the timers, what runs is what a
\* restart would load, whenever nobody is at work, whatever was interrupted before
\* (edgehog_telemetry.c:167-225, 312-344, 385-458).
THEOREM StoredRuns ==
    ASSUME NvsFails = FALSE PROVE Spec /\ []Room /\ []HeapRoom => []RunningIsStored
<1> DEFINE Inv == TypeInv /\ TimerInv /\ OrderInv /\ StoreInv
<1>1. Init => Inv
  BY InitType, TimerInit, OrderInit, StoreInit
<1>2. Inv /\ Room /\ HeapRoom /\ [Next]_vars => Inv'
  BY NextType, NextTimer, NextOrder, NextStore
<1>3. Inv => RunningIsStored
  BY SettledStored
<1> HIDE DEF Inv
<1> QED
  BY <1>1, <1>2, <1>3, PTL DEF Spec

\* Steps that leave the keys and the last words alone.
LEMMA WordKept ==
    ASSUME UNCHANGED <<nvs, config, lastWord>>, \A t \in Type : WordStored(t)
    PROVE  \A t \in Type : WordStored(t)'
BY DEF WordStored, On

LEMMA WordApp ==
    ASSUME TypeInv, WordInv, NvsFails = FALSE, AppCalls \/ AppStep PROVE WordInv'
<1>1. UNCHANGED <<nvs, config, lastWord, mqtt>>
  BY DEF AppCalls, AppStep, AppTakes, AppTimesOut, LoadNvsDone, AppGives, LoadNvs,
         LoadNvsDefault, LoadConfig
<1>2. \A t \in Type : WordStored(t)'
  BY <1>1, WordKept DEF WordInv
<1>3. /\ mqttPc = "handle" => holder = "mqtt"
      /\ appPc \in {"nvs", "config"} => holder = "app"
  BY DEF TypeInv, TaskType, Mutex
<1>4. mqttPc = "handle" => /\ UNCHANGED <<entry, call, callPc>>
                           /\ appPc = "started" => appPc' = "started"
  BY <1>3, NoneIsNoTask DEF AppCalls, AppStep, AppTakes, AppTimesOut, LoadNvsDone, AppGives,
         LoadNvs, LoadNvsDefault, LoadConfig, AfterTimeout
<1>5. EventCall' /\ HeardInTime'
  BY <1>1, <1>4 DEF WordInv, EventCall, HeardInTime, HasTimer, On
<1>6. LoadTodo'
  BY <1>1 DEF AppCalls, AppStep, AppTakes, AppTimesOut, LoadNvsDone, AppGives, LoadNvs,
         LoadNvsDefault, LoadConfig, WordInv, LoadTodo, Configured, AfterTimeout
<1>7. LoadKeeps'
  <2>1. CASE AppCalls \/ AppTimesOut \/ AppTakes \/ LoadNvsDone \/ AppGives
             \/ \E t \in Type : LoadNvsDefault(t)
    BY <1>1, <2>1, NoneIsNoTask DEF AppCalls, AppTimesOut, AppTakes, LoadNvsDone, AppGives,
         LoadNvsDefault, TypeInv, CallType, WordInv, LoadKeeps, On, Configured
  <2>2. ASSUME NEW t \in Type, LoadNvs(t) PROVE LoadKeeps'
    <3>1. /\ nvsEnable[t] # "absent" /\ nvsEnable[t] # "default"
          /\ call'.type = t /\ call'.period = LoadedPeriod(t) /\ callPc' = "schedule"
      BY <2>2 DEF LoadNvs, Call, WordInv, LoadTodo
    <3>2. nvsEnable[t] \in {"enabled", "disabled"} /\ ~(Disabled > 0)
      BY <3>1 DEF TypeInv, StoreType
    <3> QED
      BY <1>1, <3>1, <3>2 DEF LoadKeeps, On, LoadedPeriod
  <2>3. ASSUME NEW t \in Type, LoadConfig(t) PROVE LoadKeeps'
    <3>1. Configured(t) /\ config[t] > 0
      <4>1. Configured(t) /\ config[t] \in Period
        BY <2>3 DEF LoadConfig, WordInv, LoadTodo, Configured, TypeInv, StoreType
      <4> QED
        BY <4>1, PeriodsAreNat
    <3> QED
      BY <1>1, <2>3, <3>1 DEF LoadConfig, Call, LoadKeeps, Configured
  <2> QED
    BY <2>1, <2>2, <2>3 DEF AppStep
<1> QED
  BY <1>2, <1>5, <1>6, <1>7 DEF WordInv

LEMMA WordMqtt ==
    ASSUME TypeInv, StoreInv, WordInv,
           MqttStep \/ (\E e \in Events : EventArrives(e))
    PROVE  WordInv'
<1>1. UNCHANGED <<nvs, config, app>>
  BY DEF MqttStep, EventTakes, EventTimesOut, EventGives, EventArrives
<1>2. LoadTodo'
  BY <1>1 DEF WordInv, LoadTodo, Configured
<1>3. CASE EventTakes
  <2>1. /\ holder' = "mqtt" /\ mqttPc' = "handle" /\ event' = event
        /\ event.type \in Type /\ UNCHANGED entry
        /\ lastWord' = [lastWord EXCEPT ![event.type] =
                          IF TooEarly(event.type) THEN "early" ELSE "none"]
    BY <1>3 DEF EventTakes, TypeInv, TaskType, Events
  <2>2. /\ lastWord'[event.type] = IF TooEarly(event.type) THEN "early" ELSE "none"
        /\ call'.type = event.type /\ callPc' = "schedule"
    BY <1>3, <2>1 DEF EventTakes, Call, TypeInv, LimitType
  <2>3. \A t \in Type : lastWord'[t] \in {"none", "early", lastWord[t]}
    BY <2>1 DEF TypeInv, LimitType
  <2>4. \A t \in Type : WordStored(t)'
    BY <1>1, <2>3 DEF WordInv, WordStored, On
  <2>5. EventCall' /\ LoadKeeps' /\ HeardInTime'
    BY <1>1, <2>1, <2>2 DEF EventCall, LoadKeeps, HeardInTime, TooEarly, HasTimer
  <2> QED
    BY <1>2, <2>4, <2>5 DEF WordInv
<1>4. CASE EventTimesOut \/ \E e \in Events : EventArrives(e)
  <2>1. UNCHANGED <<lastWord, holder, call, callPc>> /\ mqttPc' # "handle"
    BY <1>4 DEF EventTimesOut, EventArrives
  <2>2. EventCall' /\ LoadKeeps' /\ HeardInTime'
    BY <1>1, <2>1 DEF EventCall, LoadKeeps, HeardInTime, WordInv, On, Configured
  <2> QED
    BY <1>1, <1>2, <2>1, <2>2, WordKept DEF WordInv
<1>5. CASE EventGives
  <2>1. /\ event \in Events /\ callPc = "none" /\ callPc' = "none" /\ mqttPc = "handle"
        /\ lastWord' = [lastWord EXCEPT ![event.type] =
                          IF HasTimer(event.type) THEN "on"
                          ELSE IF @ = "early" THEN "early" ELSE "off"]
        /\ holder = "mqtt" /\ holder' = None /\ mqttPc' = "idle"
    BY <1>5, NoneIsNoTask DEF EventGives, TypeInv, TaskType
  <2>2. PICK u \in Type : u = event.type
    BY <2>1 DEF Events
  <2>3. ~Saving(u) /\ (appPc = "started" => ~Unloaded(u))
    BY <2>1 DEF Saving, Unloaded
  <2>4. /\ HasTimer(u) => On(u)
        /\ lastWord[u] = "none" => (HasTimer(u) <=> On(u))
    BY <2>1, <2>2, <2>3
       DEF StoreInv, EntryStored, NoEntryStored, HasTimer, WordInv, HeardInTime
  <2>5. /\ lastWord'[u] \in {"early", IF On(u) THEN "on" ELSE "off"}
        /\ \A t \in Type : t # u => lastWord'[t] = lastWord[t]
    BY <2>1, <2>2, <2>4 DEF TypeInv, LimitType, WordInv, EventCall
  <2>6. \A t \in Type : WordStored(t)'
    BY <1>1, <2>5 DEF WordInv, WordStored, On
  <2>7. EventCall' /\ LoadKeeps' /\ HeardInTime'
    BY <2>1 DEF EventCall, LoadKeeps, HeardInTime
  <2> QED
    BY <1>2, <2>6, <2>7 DEF WordInv
<1> QED
  BY <1>3, <1>4, <1>5 DEF MqttStep

LEMMA WordSave ==
    ASSUME TypeInv, StoreInv, WordInv, NvsFails = FALSE, SaveEnable \/ SavePeriod
    PROVE  WordInv'
<1>1. UNCHANGED <<config, app, mqtt, lastWord, holder, call, entry>> /\ callPc # "none"
  BY DEF SaveEnable, SavePeriod
<1>2. PICK u \in Type : u = call.type
  BY <1>1, CallPeriod
<1>3. /\ \A t \in Type : t # u => nvsEnable'[t] = nvsEnable[t] /\ nvsPeriod'[t] = nvsPeriod[t]
      /\ SaveEnable => nvsEnable'[u] = StoredEnable(call.period) /\ nvsPeriod' = nvsPeriod
      /\ SavePeriod => nvsEnable' = nvsEnable /\ nvsPeriod'[u] = call.period
  BY <1>2 DEF SaveEnable, SavePeriod, Written, TypeInv, StoreType
<1>4. holder \in {"app", "mqtt"} /\ (holder = "mqtt" => mqttPc = "handle")
  BY <1>1 DEF TypeInv, CallType, TaskType, Mutex
<1>5. SavePeriod => call.period > 0
  BY DEF SavePeriod, TypeInv, CallType
<1>6. holder = "app" => call.period > 0 /\ (On(u) \/ Configured(u))
  BY <1>1, <1>2 DEF WordInv, LoadKeeps, SaveEnable, SavePeriod
<1>7. holder = "app" => (On(u) => On(u)')
  BY <1>3, <1>5, <1>6 DEF On, SaveEnable, SavePeriod, StoredEnable
<1>8. holder = "mqtt" => u = event.type /\ lastWord[u] \in {"none", "early"}
  BY <1>1, <1>2, <1>4 DEF WordInv, EventCall
<1>9. \A t \in Type : WordStored(t)'
  <2> SUFFICES ASSUME NEW t \in Type PROVE WordStored(t)'
    OBVIOUS
  <2>1. CASE t # u
    BY <1>1, <1>3, <2>1 DEF WordInv, WordStored, On
  <2>2. CASE t = u /\ holder = "mqtt"
    BY <1>1, <1>8, <2>2 DEF WordStored
  <2>3. CASE t = u /\ holder = "app"
    BY <1>1, <1>6, <1>7, <2>3 DEF WordInv, WordStored, Configured
  <2> QED
    BY <1>4, <2>1, <2>2, <2>3
<1>10. EventCall' /\ HeardInTime'
  <2>1. EventCall'
    <3>1. callPc' # "none" => callPc # "none"
      BY <1>1
    <3> QED
      BY <1>1, <3>1 DEF WordInv, EventCall
  <2>2. ASSUME mqttPc = "handle", callPc' = "none" PROVE HasTimer(u) \/ ~On(u)'
    <3>1. CASE SaveEnable
      BY <1>3, <2>2, <3>1 DEF SaveEnable, StoredEnable, On
    <3>2. CASE SavePeriod
      <4>1. Saving(u) /\ call.period > 0 /\ call.period \in Int
        BY <1>1, <1>2, <1>5, <3>2, CallPeriod DEF SavePeriod, Saving
      <4> QED
        BY <4>1 DEF StoreInv, NoEntryStored, HasTimer
    <3> QED
      BY <3>1, <3>2
  <2>3. mqttPc = "handle" => u = event.type
    BY <1>1, <1>2 DEF WordInv, EventCall
  <2>4. callPc' # "schedule"
    BY DEF SaveEnable, SavePeriod
  <2> QED
    BY <1>1, <2>1, <2>2, <2>3, <2>4 DEF HeardInTime, HasTimer
<1>11. LoadTodo'
  <2>1. nvsEnable'[u] # "absent" \/ nvsEnable' = nvsEnable
    BY <1>3 DEF StoredEnable
  <2> QED
    BY <1>1, <1>3, <2>1 DEF WordInv, LoadTodo, Configured, TypeInv, TaskType
<1>12. LoadKeeps'
  BY <1>1, <1>2, <1>6, <1>7 DEF LoadKeeps, Configured
<1> QED
  BY <1>9, <1>10, <1>11, <1>12 DEF WordInv

LEMMA WordSchedule ==
    ASSUME TypeInv, StoreInv, WordInv, Room, Schedule PROVE WordInv'
<1>1. UNCHANGED <<config, nvs, holder, app, mqtt, lastWord>> /\ callPc = "schedule"
  BY DEF Schedule
<1>2. call.type \in Type /\ call.period \in Int
  BY <1>1, CallPeriod
<1>3. callPc' = "none" \/ (call'.type = call.type /\ call'.period = call.period)
  <2>1. call \in [type : Type, period : Periods]
    BY <1>1 DEF TypeInv, CallType
  <2> QED
    BY <2>1 DEF Schedule, ScheduleNothing, ScheduleNew, ScheduleNoMemory, ScheduleChange,
                ScheduleRemove, Saved
<1>4. holder = "app" /\ callPc' # "none" => call.period > 0
  <2> SUFFICES ASSUME holder = "app", callPc' # "none", ~(call.period > 0) PROVE FALSE
    OBVIOUS
  <2>1. ~On(call.type) /\ ~Saving(call.type)
    BY <1>1 DEF WordInv, LoadKeeps, Saving
  <2>2. ~HasTimer(call.type)
    BY <1>2, <2>1 DEF StoreInv, EntryStored, HasTimer
  <2> QED
    BY <1>2, <2>2 DEF Schedule, ScheduleNothing, ScheduleNew, ScheduleNoMemory,
                      ScheduleChange, ScheduleRemove
<1>5. LoadKeeps'
  BY <1>1, <1>3, <1>4 DEF WordInv, LoadKeeps, On, Configured
<1>6. LoadTodo' /\ EventCall'
  BY <1>1, <1>3 DEF WordInv, LoadTodo, EventCall, Configured
<1>7. HeardInTime'
  <2>1. ASSUME mqttPc = "handle", HasTimer(call.type) PROVE callPc' = "saveEnable"
    BY <2>1 DEF Schedule, ScheduleNothing, ScheduleNew, ScheduleNoMemory, ScheduleChange,
                ScheduleRemove, Saved
  <2> QED
    BY <1>1, <2>1 DEF WordInv, EventCall, HeardInTime
<1> QED
  BY <1>1, <1>5, <1>6, <1>7, WordKept DEF WordInv

LEMMA WordReboot ==
    ASSUME WordInv, Rebooted PROVE WordInv'
<1>1. UNCHANGED <<nvs, config, lastWord>>
  BY DEF Rebooted
<1>2. LoadTodo' /\ EventCall' /\ HeardInTime' /\ LoadKeeps'
  BY NoneIsNoTask DEF Rebooted, LoadTodo, EventCall, HeardInTime, LoadKeeps
<1> QED
  BY <1>1, <1>2, WordKept DEF WordInv

LEMMA WordOther ==
    ASSUME TypeInv, WordInv, ServeCommand \/ Destroy \/ UNCHANGED vars PROVE WordInv'
<1>1. UNCHANGED <<nvs, config, lastWord, holder, todo, mqtt, call, callPc>>
  BY DEF ServeCommand, Destroy, vars
<1>2. appPc' = appPc \/ (appPc' = "destroyed" /\ mqttPc = "idle")
  BY DEF ServeCommand, Destroy, vars
<1>3. mqttPc = "idle" \/ UNCHANGED <<entry, appPc>>
  BY DEF ServeCommand, Destroy, vars
<1>4. LoadTodo' /\ EventCall' /\ LoadKeeps'
  BY <1>1, <1>2 DEF WordInv, LoadTodo, EventCall, LoadKeeps, On, Configured
<1>5. HeardInTime'
  BY <1>1, <1>3 DEF WordInv, HeardInTime, HasTimer, On
<1> QED
  BY <1>1, <1>4, <1>5, WordKept DEF WordInv

LEMMA WordInit == Init => WordInv
BY NoneIsNoTask DEF Init, WordInv, LoadTodo, EventCall, HeardInTime, LoadKeeps, WordStored

LEMMA NextWord ==
    ASSUME TypeInv, StoreInv, WordInv, Room, NvsFails = FALSE, [Next]_vars
    PROVE  WordInv'
<1>1. CASE Restart \/ ScheduleAsserts \/ ServeAsserts
  BY <1>1, WordReboot DEF Restart, ScheduleAsserts, ServeAsserts
<1> QED
  BY <1>1, WordApp, WordMqtt, WordSave, WordSchedule, WordOther
     DEF Next, CallStep, ServiceStep

LEMMA SettledWords ==
    ASSUME TypeInv, StoreInv, WordInv PROVE LastWordHolds
<1> SUFFICES ASSUME Settled, NEW t \in Type
             PROVE  /\ lastWord[t] = "on" => entry[t] # None
                    /\ lastWord[t] = "off" /\ config[t] = Default => entry[t] = None
  BY DEF LastWordHolds
<1>1. ~Saving(t) /\ ~Unloaded(t)
  BY DEF Settled, TypeInv, CallType, Saving, Unloaded
<1> QED
  BY <1>1 DEF StoreInv, EntryStored, NoEntryStored, WordInv, WordStored

\* Under the same conditions, what the last event of the server made of a type outlives
\* the load, a start that failed and was tried again, and any restart, at any point,
\* whether the event came before, during or after the load.  Only one that switched a type
\* off before the load made its timer has made nothing of it
\* (edgehog_telemetry.c:180-182, 258-288, 385-458).
THEOREM WordsHold ==
    ASSUME NvsFails = FALSE
    PROVE  Spec /\ []Room /\ []HeapRoom => []LastWordHolds
<1> DEFINE Inv == TypeInv /\ TimerInv /\ StoreInv /\ WordInv
<1>1. Init => Inv
  BY InitType, TimerInit, StoreInit, WordInit
<1>2. Inv /\ Room /\ HeapRoom /\ [Next]_vars => Inv'
  BY NextType, NextTimer, NextStore, NextWord
<1>3. Inv => LastWordHolds
  BY SettledWords
<1> HIDE DEF Inv
<1> QED
  BY <1>1, <1>2, <1>3, PTL DEF Spec

=============================================================================
