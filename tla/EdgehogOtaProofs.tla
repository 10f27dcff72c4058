--------------------------- MODULE EdgehogOtaProofs ---------------------------
(* Theorems about EdgehogOta, for every value of its constants. *)
EXTENDS EdgehogOta, TLAPS

\* The tuples that group variables within an activity are only abbreviations.
USE DEF slots, job, work, inputs, rest, marks, astray, told

-----------------------------------------------------------------------------
(* Type correctness. *)

\* The slot an update is written to is another one than the slot that runs
\* (esp_ota_get_next_update_partition).
LEMMA UpdateSlotIsOther ==
    ASSUME running \in Slot
    PROVE  UpdateSlot \in Slot /\ UpdateSlot # running
BY SlotAssumption DEF UpdateSlot

\* A group of variables that a step leaves alone keeps its type.
LEMMA Kept ==
    /\ FlashType /\ UNCHANGED flash => FlashType'
    /\ AppType /\ UNCHANGED app => AppType'
    /\ MqttType /\ UNCHANGED mqtt => MqttType'
    /\ TaskType /\ UNCHANGED <<taskPc, taskReq, taskData>> => TaskType'
    /\ TaskType /\ UNCHANGED task => TaskType'
    /\ AttemptType /\ UNCHANGED <<attempt, chunk, err, notified>> => AttemptType'
    /\ AttemptType /\ UNCHANGED task => AttemptType'
    /\ EnvType /\ UNCHANGED env => EnvType'
    /\ HistoryType /\ UNCHANGED history => HistoryType'
<1>1. FlashType /\ UNCHANGED flash => FlashType' BY DEF FlashType, flash
<1>2. AppType /\ UNCHANGED app => AppType' BY DEF AppType, app
<1>3. MqttType /\ UNCHANGED mqtt => MqttType' BY DEF MqttType, mqtt
<1>4. TaskType /\ UNCHANGED <<taskPc, taskReq, taskData>> => TaskType' BY DEF TaskType
<1>5. TaskType /\ UNCHANGED task => TaskType' BY DEF TaskType, task
<1>6. AttemptType /\ UNCHANGED <<attempt, chunk, err, notified>> => AttemptType'
  BY DEF AttemptType
<1>7. AttemptType /\ UNCHANGED task => AttemptType' BY DEF AttemptType, task
<1>8. EnvType /\ UNCHANGED env => EnvType' BY DEF EnvType, env
<1>9. HistoryType /\ UNCHANGED history => HistoryType' BY DEF HistoryType, history
<1> QED BY <1>1, <1>2, <1>3, <1>4, <1>5, <1>6, <1>7, <1>8, <1>9

\* A published verdict keeps the type of the answers (pub_ota_event).
LEMMA AnswerType ==
    ASSUME HistoryType, NEW u \in Uuid, NEW status \in {"Success", "Failure"},
           NEW code \in Codes, NEW by \in {"task", "boot"},
           Answer(u, status, code, by)
    PROVE  answers' \in [Uuid -> SUBSET Answers]
<1>1. [status |-> status, code |-> code, by |-> by] \in Answers BY DEF Answers
<1> QED BY <1>1 DEF Answer, Answered, Lost, HistoryType

\* A counter that is reset, kept, or raised below its bound stays within it.
LEMMA CounterType ==
    ASSUME NEW n \in Nat, NEW old \in 0..n, NEW new,
           new = 0 \/ new = old \/ (old < n /\ new = old + 1)
    PROVE  new \in 0..n
OBVIOUS

\* The bounds are naturals, and so is the number of the last attempt.
LEMMA BoundType ==
    /\ MaxOtaRetry - 1 \in Nat /\ 0 \in 0..(MaxOtaRetry - 1)
    /\ MaxChunks \in Nat /\ 0 \in 0..MaxChunks
    /\ 0 \in 0..MaxCancels /\ 0 \in 0..MaxRestarts /\ 0 \in 0..MaxFaults
BY BoundAssumption

\* There is another attempt only before the last one (MAX_OTA_RETRY).
LEMMA LastAttempt ==
    ASSUME NEW a \in 0..(MaxOtaRetry - 1), a + 1 < MaxOtaRetry
    PROVE  a < MaxOtaRetry - 1
BY BoundAssumption

\* The attempt and chunk counters of perform_ota and perform_ota_attempt stay in
\* range in a step that resets, keeps or raises them.
LEMMA AttemptStep ==
    ASSUME AttemptType,
           attempt' = 0 \/ attempt' = attempt \/ (AttemptsLeft /\ attempt' = attempt + 1),
           chunk' = 0 \/ chunk' = chunk \/ (chunk < MaxChunks /\ chunk' = chunk + 1),
           err' \in {err, "", "AttemptFailed", "IOError", "Canceled"},
           notified' \in BOOLEAN
    PROVE  AttemptType'
<1>1. err' \in Errors BY DEF AttemptType, Errors
<1>2. attempt \in 0..(MaxOtaRetry - 1) /\ chunk \in 0..MaxChunks BY DEF AttemptType
<1>3. AttemptsLeft => attempt < MaxOtaRetry - 1 BY <1>2, LastAttempt DEF AttemptsLeft
<1>4. attempt' \in 0..(MaxOtaRetry - 1)
  BY <1>2, <1>3, CounterType, BoundType
<1>5. chunk' \in 0..MaxChunks BY <1>2, CounterType, BoundType
<1> QED BY <1>1, <1>4, <1>5 DEF AttemptType

\* A call that fails or not leaves the environment's counters in range.
LEMMA FaultType ==
    ASSUME EnvType, Fault \/ NoFault,
           UNCHANGED inputs
    PROVE  EnvType'
BY BoundAssumption DEF EnvType, Fault, NoFault

\* Whatever slot the bootloader selects, a reset starts from initial values.
LEMMA ResetType ==
    ASSUME TypeOK, Reset, restarts' \in 0..MaxRestarts
    PROVE  TypeOK'
<1> USE DEF TypeOK
<1>1. FlashType' BY DEF Reset, RollsBack, FlashType, AppType
<1>2. AppType' BY DEF Reset, RollsBack, FlashType, AppType
<1>3. MqttType' BY DEF Reset, MqttType
<1>4. TaskType' BY DEF Reset, TaskType, TaskPcs
<1>5. AttemptType' BY AttemptStep DEF Reset
<1>6. EnvType' BY DEF Reset, EnvType
<1>7. HistoryType' BY DEF Reset, NoReports, HistoryType, Steps
<1> QED BY <1>1, <1>2, <1>3, <1>4, <1>5, <1>6, <1>7

\* TypeOK is kept by the steps of edgehog_ota_init (edgehog_ota.c).
LEMMA BootStepType ==
    ASSUME TypeOK, BootStep
    PROVE  TypeOK'
<1> USE DEF TypeOK
<1>1. CASE InitReadUuid
  <2>1. AppType' BY <1>1 DEF InitReadUuid, AppType, app, FlashType
  <2>2. EnvType' BY <1>1, FaultType DEF InitReadUuid
  <2> QED BY <1>1, <2>1, <2>2, Kept DEF InitReadUuid
<1>2. CASE InitReadState
  <2>1. AppType'
    BY <1>2 DEF InitReadState, InitReport, RebootPending, Unfinished, AppType
  <2>2. EnvType'
    BY <1>2, FaultType DEF InitReadState, InitReport, RebootPending, Unfinished
  <2>3. HistoryType'
    BY <1>2, AnswerType DEF InitReadState, InitReport, RebootPending, Unfinished,
         HistoryType, history, Codes, Errors, AppType
  <2> QED BY <1>2, <2>1, <2>2, <2>3, Kept DEF InitReadState
<1>3. CASE InitReadPart
  <2>1. AppType' BY <1>3 DEF InitReadPart, InitReport, AppType
  <2>2. EnvType' BY <1>3, FaultType DEF InitReadPart, InitReport
  <2>3. HistoryType'
    BY <1>3, AnswerType DEF InitReadPart, InitReport, HistoryType, history, Codes, Errors,
         AppType
  <2> QED BY <1>3, <2>1, <2>2, <2>3, Kept DEF InitReadPart
<1>4. CASE InitErase
  <2>1. FlashType' BY <1>4 DEF InitErase, FlashType, flash
  <2>2. AppType' BY <1>4 DEF InitErase, AppType, app, FlashType
  <2>3. EnvType' BY <1>4, FaultType DEF InitErase
  <2> QED BY <1>4, <2>1, <2>2, <2>3, Kept DEF InitErase
<1>5. CASE InitIdle
  <2>1. FlashType' BY <1>5 DEF InitIdle, SetState, FlashType, flash
  <2>2. AppType' BY <1>5 DEF InitIdle, SetState, AppType, app, FlashType
  <2>3. EnvType' BY <1>5, FaultType DEF InitIdle, SetState
  <2> QED BY <1>5, <2>1, <2>2, <2>3, Kept DEF InitIdle
<1> QED BY <1>1, <1>2, <1>3, <1>4, <1>5 DEF BootStep

\* TypeOK is kept by the requests of the server (edgehog_ota.c).
LEMMA RequestType ==
    ASSUME TypeOK, NEW u \in Uuid, Request(u)
    PROVE  TypeOK'
<1> USE DEF TypeOK
<1>1. CASE MalformedRequest(u)
  <2>1. EnvType' BY <1>1 DEF MalformedRequest, NewRequest, EnvType
  <2> QED BY <1>1, <2>1, Kept DEF MalformedRequest
<1>2. CASE UpdateRefused(u)
  <2>1. EnvType' BY <1>2 DEF UpdateRefused, NewRequest, EnvType
  <2> QED BY <1>2, <2>1, Kept DEF UpdateRefused
<1>3. CASE UpdateAccepted(u)
  <2>1. TaskType'
    BY <1>3, SentinelAssumption DEF UpdateAccepted, NewRequest, TaskType, TaskPcs, task,
         Goto
  <2>2. notified \in BOOLEAN BY DEF AttemptType
  <2>3. AttemptType' BY <1>3, <2>2, AttemptStep DEF UpdateAccepted, Goto
  <2>4. EnvType' BY <1>3 DEF UpdateAccepted, NewRequest, EnvType, env
  <2>5. HistoryType' BY <1>3 DEF UpdateAccepted, HistoryType, FlashType
  <2> QED BY <1>3, <2>1, <2>3, <2>4, <2>5, Kept DEF UpdateAccepted, NewRequest
<1>4. CASE UpdateNotSpawned(u)
  <2>1. TaskType'
    BY <1>4, SentinelAssumption DEF UpdateNotSpawned, TaskFound, TaskType, TaskPcs
  <2>2. EnvType' BY <1>4 DEF UpdateNotSpawned, NewRequest, EnvType
  <2> QED BY <1>4, <2>1, <2>2, Kept DEF UpdateNotSpawned
<1>5. CASE CancelRequest(u)
  <2>1. MqttType' BY <1>5, SentinelAssumption DEF CancelRequest, MqttType, mqtt
  <2>2. EnvType' BY <1>5, BoundAssumption DEF CancelRequest, EnvType
  <2> QED BY <1>5, <2>1, <2>2, Kept DEF CancelRequest
<1> QED BY <1>1, <1>2, <1>3, <1>4, <1>5 DEF Request

\* TypeOK is kept by the later steps of Cancel (edgehog_ota.c).
LEMMA CancelStepType ==
    ASSUME TypeOK, CancelStep
    PROVE  TypeOK'
<1> USE DEF TypeOK
<1>1. CASE CancelRead
  <2>1. MqttType' BY <1>1 DEF CancelRead, CancelRefused, MqttType
  <2>2. EnvType' BY <1>1, FaultType DEF CancelRead
  <2> QED BY <1>1, <2>1, <2>2, Kept DEF CancelRead
<1>2. CASE CancelNotify
  <2>1. MqttType' BY <1>2 DEF CancelNotify, MqttType, mqtt
  <2>2. TaskType' BY <1>2 DEF CancelNotify, TaskType, TaskPcs, task, Goto
  <2>3. notified \in BOOLEAN BY DEF AttemptType
  <2>4. AttemptType' BY <1>2, <2>3, AttemptStep DEF CancelNotify, Goto
  <2>5. HistoryType' BY <1>2 DEF CancelNotify, HistoryType, history, MqttType
  <2> QED BY <1>2, <2>1, <2>2, <2>4, <2>5, Kept DEF CancelNotify
<1> QED BY <1>1, <1>2 DEF CancelStep

\* TypeOK is kept by the steps of the OTA task (edgehog_ota.c).
LEMMA TaskStepType ==
    ASSUME TypeOK, TaskStep
    PROVE  TypeOK'
<1> USE DEF TypeOK
<1>1. CASE TaskAck
  <2>1. TaskType' BY <1>1 DEF TaskAck, TaskType, TaskPcs, task, Goto
  <2>2. HistoryType'
    BY <1>1 DEF TaskAck, HistoryType, history, Goto, Report, Steps, TaskType,
         AttemptType
  <2> QED BY <1>1, <2>1, <2>2, Kept DEF TaskAck
<1>2. CASE TaskOpen
  <2>1. TaskType'
    BY <1>2 DEF TaskOpen, OpenFailed, TaskType, TaskPcs, task, Goto
  <2>2. EnvType' BY <1>2, FaultType DEF TaskOpen, OpenFailed
  <2>3. HistoryType'
    BY <1>2, AnswerType DEF TaskOpen, OpenFailed, HistoryType, history, Codes, Errors,
         Goto, Report, Steps, TaskType, AttemptType
  <2> QED BY <1>2, <2>1, <2>2, <2>3, Kept DEF TaskOpen
<1>3. CASE TaskMark
  <2>1. FlashType'
    BY <1>3 DEF TaskMark, SetState, FlashType, flash, AppType, TaskType, Goto
  <2>2. TaskType' BY <1>3 DEF TaskMark, SetState, TaskType, TaskPcs, task, Goto
  <2>3. EnvType' BY <1>3, FaultType DEF TaskMark, SetState
  <2> QED BY <1>3, <2>1, <2>2, <2>3, Kept DEF TaskMark
<1>4. CASE TaskStore
  <2>1. FlashType'
    BY <1>4 DEF TaskStore, StoreId, FlashType, flash, AppType, TaskType, Goto
  <2>2. TaskType' BY <1>4 DEF TaskStore, TaskType, TaskPcs, task, Goto
  <2>3. notified \in BOOLEAN BY DEF AttemptType
  <2>4. AttemptType' BY <1>4, <2>3, AttemptStep DEF TaskStore, Goto
  <2>5. EnvType' BY <1>4, FaultType DEF TaskStore
  <2> QED BY <1>4, <2>1, <2>2, <2>4, <2>5, Kept DEF TaskStore
<1>5. CASE TaskBegin
  <2>1. TaskType' BY <1>5 DEF TaskBegin, AttemptFails, TaskType, TaskPcs, task, Goto
  <2>2. notified \in BOOLEAN BY DEF AttemptType
  <2>3. AttemptType' BY <1>5, <2>2, AttemptStep DEF TaskBegin, AttemptFails, Goto
  <2>4. HistoryType'
    BY <1>5 DEF TaskBegin, AttemptFails, HistoryType, history, Goto, Report, Steps,
         TaskType, AttemptType
  <2> QED BY <1>5, <2>1, <2>3, <2>4, Kept DEF TaskBegin
<1>6. CASE TaskPerform
  <2>1. FlashType'
    BY <1>6, UpdateSlotIsOther DEF TaskPerform, AttemptFails, FlashType, flash, AppType,
         TaskType, Goto
  <2>2. TaskType' BY <1>6 DEF TaskPerform, AttemptFails, TaskType, TaskPcs, task, Goto
  <2>3. notified \in BOOLEAN BY DEF AttemptType
  <2>4. AttemptType'
    BY <1>6, <2>3, AttemptStep DEF TaskPerform, AttemptFails, Goto
  <2>5. HistoryType'
    BY <1>6 DEF TaskPerform, AttemptFails, HistoryType, history, Goto, Report, Steps,
         TaskType, AttemptType
  <2> QED BY <1>6, <2>1, <2>2, <2>4, <2>5, Kept DEF TaskPerform
<1>7. CASE TaskAbort
  <2>1. TaskType' BY <1>7 DEF TaskAbort, Canceled, TaskType, TaskPcs, task, Goto
  <2>2. notified \in BOOLEAN BY DEF AttemptType
  <2>3. AttemptType'
    BY <1>7, <2>2, AttemptStep DEF TaskAbort, Canceled, Goto
  <2> QED BY <1>7, <2>1, <2>3, Kept DEF TaskAbort
<1>8. CASE TaskFinish
  <2>1. FlashType'
    BY <1>8, UpdateSlotIsOther DEF TaskFinish, AttemptFails, FlashType, flash, AppType,
         TaskType, Goto
  <2>2. TaskType' BY <1>8 DEF TaskFinish, AttemptFails, TaskType, TaskPcs, task, Goto
  <2>3. notified \in BOOLEAN BY DEF AttemptType
  <2>4. AttemptType'
    BY <1>8, <2>3, AttemptStep DEF TaskFinish, AttemptFails, Goto
  <2>5. HistoryType'
    BY <1>8 DEF TaskFinish, AttemptFails, HistoryType, history, Goto, Report, Steps,
         TaskType, AttemptType
  <2> QED BY <1>8, <2>1, <2>2, <2>4, <2>5, Kept DEF TaskFinish
<1>9. CASE TaskRetry
  <2>1. TaskType' BY <1>9 DEF TaskRetry, AttemptsLeft, TaskType, TaskPcs, task, Goto
  <2>2. notified \in BOOLEAN BY DEF AttemptType
  <2>3. AttemptType' BY <1>9, <2>2, AttemptStep DEF TaskRetry, Goto
  <2>4. HistoryType'
    BY <1>9 DEF TaskRetry, AttemptsLeft, HistoryType, history, Goto, Report, Steps,
         TaskType, AttemptType
  <2> QED BY <1>9, <2>1, <2>3, <2>4, Kept DEF TaskRetry
<1>10. CASE TaskLastCheck
  <2>1. TaskType'
    BY <1>10 DEF TaskLastCheck, Canceled, Uncanceled, TaskType, TaskPcs, task, Goto
  <2>2. notified \in BOOLEAN BY DEF AttemptType
  <2>3. AttemptType'
    BY <1>10, <2>2, AttemptStep DEF TaskLastCheck, Canceled, Uncanceled, Goto
  <2> QED BY <1>10, <2>1, <2>3, Kept DEF TaskLastCheck
<1>11. CASE TaskDeploy
  <2>1. FlashType'
    BY <1>11 DEF TaskDeploy, SetState, FlashType, flash, AppType, TaskType, Goto
  <2>2. TaskType' BY <1>11 DEF TaskDeploy, SetState, TaskType, TaskPcs, task, Goto
  <2>3. EnvType' BY <1>11, FaultType DEF TaskDeploy, SetState
  <2>4. HistoryType'
    BY <1>11 DEF TaskDeploy, SetState, HistoryType, history, Goto, Report, Steps,
         TaskType, AttemptType
  <2> QED BY <1>11, <2>1, <2>2, <2>3, <2>4, Kept DEF TaskDeploy
<1>12. CASE TaskPart
  <2>1. FlashType'
    BY <1>12 DEF TaskPart, RecordedSlot, FlashType, flash, AppType, TaskType,
         Goto
  <2>2. TaskType'
    BY <1>12 DEF TaskPart, RecordedSlot, TaskType, TaskPcs, task, Goto
  <2>3. EnvType' BY <1>12, FaultType DEF TaskPart
  <2>4. HistoryType'
    BY <1>12, AnswerType DEF TaskPart, RecordedSlot, HistoryType, history, Codes, Errors,
         Goto, Report, Steps, TaskType, AttemptType
  <2> QED BY <1>12, <2>1, <2>2, <2>3, <2>4, Kept DEF TaskPart
<1>13. CASE TaskAnnounce
  <2>1. TaskType' BY <1>13 DEF TaskAnnounce, TaskType, TaskPcs, task, Goto
  <2>2. HistoryType'
    BY <1>13 DEF TaskAnnounce, HistoryType, history, Goto, Report, Steps, TaskType,
         AttemptType
  <2> QED BY <1>13, <2>1, <2>2, Kept DEF TaskAnnounce
<1>14. CASE TaskRestart
  <2>1. restarts' \in 0..MaxRestarts BY <1>14 DEF TaskRestart, EnvType
  <2> QED BY <1>14, <2>1, ResetType DEF TaskRestart
<1>15. CASE TaskFail
  <2>1. TaskType' BY <1>15 DEF TaskFail, TaskType, TaskPcs, task, Goto
  <2>2. HistoryType'
    BY <1>15, AnswerType DEF TaskFail, HistoryType, history, Codes, Errors, Goto,
         Report, Steps, TaskType, AttemptType
  <2> QED BY <1>15, <2>1, <2>2, Kept DEF TaskFail
<1>16. CASE TaskIdle
  <2>1. FlashType'
    BY <1>16 DEF TaskIdle, SetState, FlashType, flash, AppType, TaskType, Goto
  <2>2. TaskType' BY <1>16 DEF TaskIdle, SetState, TaskType, TaskPcs, task, Goto
  <2>3. EnvType' BY <1>16, FaultType DEF TaskIdle, SetState
  <2> QED BY <1>16, <2>1, <2>2, <2>3, Kept DEF TaskIdle
<1>17. CASE TaskFree
  <2>1. TaskType' BY <1>17 DEF TaskFree, TaskType, TaskPcs, Goto
  <2>2. AttemptType' BY <1>17, AttemptStep DEF TaskFree
  <2>3. HistoryType' BY <1>17 DEF TaskFree, NoReports, HistoryType, Steps
  <2> QED BY <1>17, <2>1, <2>2, <2>3, Kept DEF TaskFree
<1> QED BY <1>1, <1>2, <1>3, <1>4, <1>5, <1>6, <1>7, <1>8, <1>9, <1>10, <1>11, <1>12,
     <1>13, <1>14, <1>15, <1>16, <1>17 DEF TaskStep

\* Each group of variables keeps its values, and no activity uses an id it has not
\* read: the types of edgehog_ota.c's data, restarts and failures included.
THEOREM TypeCorrect == Spec => []TypeOK
<1>1. Init => TypeOK
  <2> SUFFICES ASSUME Init PROVE TypeOK
    OBVIOUS
  <2> USE DEF Init
  <2>1. FlashType BY SlotAssumption DEF FlashType
  <2>2. AppType /\ MqttType BY SlotAssumption DEF AppType, MqttType
  <2>3. TaskType BY DEF TaskType, TaskPcs
  <2>4. AttemptType BY BoundType DEF AttemptType, Errors
  <2>5. EnvType BY BoundType DEF EnvType
  <2>6. HistoryType BY DEF HistoryType, Steps
  <2> QED BY <2>1, <2>2, <2>3, <2>4, <2>5, <2>6 DEF TypeOK
<1>2. TypeOK /\ [Next]_vars => TypeOK'
  <2> SUFFICES ASSUME TypeOK, [Next]_vars PROVE TypeOK'
    OBVIOUS
  <2>1. ASSUME Restart PROVE TypeOK'
    <3>1. restarts' \in 0..MaxRestarts
      BY <2>1, BoundAssumption DEF Restart, TypeOK, EnvType
    <3> QED BY <2>1, <3>1, ResetType DEF Restart
  <2>2. CASE CancelNotifyFreed BY <2>2, <2>1 DEF CancelNotifyFreed
  <2>3. CASE IdleReap
    <3> USE DEF TypeOK
    <3>1. TaskType' BY <2>3 DEF IdleReap, TaskType, TaskPcs, Goto
    <3> QED BY <2>3, <3>1, Kept DEF IdleReap
  <2>4. CASE UNCHANGED vars BY <2>4, Kept DEF vars, TypeOK
  <2> QED
    BY <2>1, <2>2, <2>3, <2>4, BootStepType, RequestType, CancelStepType, TaskStepType
       DEF Next
<1> QED BY <1>1, <1>2, PTL DEF Spec

-----------------------------------------------------------------------------
(* The flash tells edgehog_ota_init the truth. *)

\* No call of the NVS or partition API fails: under this condition the invariant is
\* inductive.
Quiet == MaxFaults = 0

LEMMA NoFaults == ASSUME Quiet, EnvType PROVE ~Fault
BY DEF Quiet, Fault, EnvType

\* pub_ota_event only adds a verdict: a success is new only when it is published.
LEMMA AnswerEffect ==
    ASSUME HistoryType, NEW u \in Uuid, NEW status, NEW code, NEW by,
           Answer(u, status, code, by), NEW v \in Uuid, Succeeded(v)'
    PROVE  Succeeded(v) \/ (v = u /\ status = "Success")
BY DEF Answer, Answered, Lost, Succeeded, HistoryType

\* A step that publishes no success leaves the successes as they are.
LEMMA NoSuccess ==
    ASSUME SuccessMeansInstalled, HistoryType,
           installed \subseteq installed', crossed \subseteq crossed',
           \/ UNCHANGED answers
           \/ \E u \in Uuid, code \in Codes, by \in {"task", "boot"} :
                 Answer(u, "Failure", code, by)
    PROVE  SuccessMeansInstalled'
<1> SUFFICES ASSUME NEW v \in Uuid, Succeeded(v)' PROVE v \in installed \cup crossed
  BY DEF SuccessMeansInstalled
<1>1. CASE UNCHANGED answers BY <1>1 DEF Succeeded, SuccessMeansInstalled
<1>2. CASE \E u \in Uuid, code \in Codes, by \in {"task", "boot"} :
             Answer(u, "Failure", code, by)
  <2>1. PICK u \in Uuid, code \in Codes, by \in {"task", "boot"} :
          Answer(u, "Failure", code, by)
    BY <1>2
  <2>2. Succeeded(v) BY <2>1, AnswerEffect
  <2> QED BY <2>2 DEF SuccessMeansInstalled
<1> QED BY <1>1, <1>2

\* A reset keeps the invariant: the tasks are gone, the flash is as it was.
LEMMA ResetInv ==
    ASSUME TypeOK, IInv, Reset
    PROVE  IInv'
<1>1. SuccessMeansInstalled'
  BY DEF Reset, IInv, SuccessMeansInstalled, Succeeded
<1> QED BY <1>1, SentinelAssumption DEF Reset, IInv, BootAlone, StrayId, BootReadsFlash,
     TaskWritesFlash, InFlightIsRecorded, RebootInstalled, CrossedFirst, TaskOn

\* IInv is kept by the steps of edgehog_ota_init (edgehog_ota.c).
LEMMA BootStepInv ==
    ASSUME Quiet, TypeOK, IInv, BootStep
    PROVE  IInv'
<1> USE SentinelAssumption
        DEF IInv, BootAlone, StrayId, BootReadsFlash, TaskWritesFlash, InFlightIsRecorded,
            RebootInstalled, CrossedFirst, TaskOn, Goto, NoFault, flash, app, mqtt, task,
            env, history
<1>a. ~Fault BY NoFaults DEF TypeOK
<1>b. SuccessMeansInstalled /\ HistoryType BY DEF IInv, TypeOK
<1>1. CASE InitReadUuid
  <2>1. SuccessMeansInstalled' BY <1>1, <1>a, <1>b, NoSuccess DEF InitReadUuid
  <2> QED BY <1>1, <1>a, <2>1 DEF InitReadUuid
<1>2. CASE InitReadState
  <2>1. SuccessMeansInstalled'
    BY <1>2, <1>a, <1>b, NoSuccess, SentinelAssumption DEF InitReadState, InitReport,
         RebootPending, Unfinished, TypeOK, AppType, MqttType, TaskType, AttemptType,
         Codes
  <2> QED BY <1>2, <1>a, <2>1 DEF InitReadState, InitReport, RebootPending, Unfinished
<1>3. CASE InitReadPart
  <2>1. initUuid \in Uuid /\ initUuid \in installed \cup crossed
    BY <1>3, SentinelAssumption DEF InitReadPart, TypeOK, AppType
  <2>2. \E status \in {"Success", "Failure"}, code \in Codes :
          Answer(initUuid, status, code, "boot")
    BY <1>3, <1>a DEF InitReadPart, InitReport, Codes, Errors
  <2>3. \A v \in Uuid : Succeeded(v)' => Succeeded(v) \/ v = initUuid
    BY <2>1, <2>2, <1>b, AnswerEffect
  <2>4. SuccessMeansInstalled'
    BY <2>1, <2>3, <1>b, <1>3 DEF InitReadPart, SuccessMeansInstalled
  <2> QED BY <1>3, <1>a, <2>4 DEF InitReadPart, InitReport
<1>4. CASE InitErase
  <2>1. SuccessMeansInstalled' BY <1>4, <1>a, <1>b, NoSuccess DEF InitErase
  <2> QED BY <1>4, <1>a, <2>1 DEF InitErase
<1>5. CASE InitIdle
  <2>1. SuccessMeansInstalled' BY <1>5, <1>a, <1>b, NoSuccess DEF InitIdle, SetState
  <2> QED BY <1>5, <1>a, <2>1 DEF InitIdle, SetState
<1> QED BY <1>1, <1>2, <1>3, <1>4, <1>5 DEF BootStep

\* IInv is kept by the requests of the server (edgehog_ota.c).
LEMMA RequestInv ==
    ASSUME Quiet, TypeOK, IInv, NEW u \in Uuid, Request(u)
    PROVE  IInv'
<1> USE SentinelAssumption
        DEF IInv, BootAlone, StrayId, BootReadsFlash, TaskWritesFlash, InFlightIsRecorded,
            RebootInstalled, CrossedFirst, TaskOn, Goto, NoFault, flash, app, mqtt, task,
            env, history
<1>a. ~Fault BY NoFaults DEF TypeOK
<1>b. SuccessMeansInstalled /\ HistoryType BY DEF IInv, TypeOK
<1>1. CASE MalformedRequest(u)
  <2>1. SuccessMeansInstalled' BY <1>1, <1>b, NoSuccess DEF MalformedRequest
  <2> QED BY <1>1, <2>1 DEF MalformedRequest, NewRequest
<1>2. CASE UpdateRefused(u)
  <2>1. SuccessMeansInstalled' BY <1>2, <1>b, NoSuccess DEF UpdateRefused
  <2> QED BY <1>2, <2>1 DEF UpdateRefused, NewRequest
<1>3. CASE UpdateAccepted(u)
  <2>1. SuccessMeansInstalled' BY <1>3, <1>b, NoSuccess DEF UpdateAccepted
  <2> QED BY <1>3, <2>1 DEF UpdateAccepted, NewRequest, TypeOK, AppType, FlashType
<1>4. CASE UpdateNotSpawned(u)
  <2>1. SuccessMeansInstalled' BY <1>4, <1>b, NoSuccess DEF UpdateNotSpawned
  <2> QED BY <1>4, <2>1 DEF UpdateNotSpawned, NewRequest, TaskFound
<1>5. CASE CancelRequest(u)
  <2>1. SuccessMeansInstalled' BY <1>5, <1>b, NoSuccess DEF CancelRequest
  <2> QED BY <1>5, <2>1 DEF CancelRequest
<1> QED BY <1>1, <1>2, <1>3, <1>4, <1>5 DEF Request

\* IInv is kept by the later steps of Cancel (edgehog_ota.c).
LEMMA CancelStepInv ==
    ASSUME Quiet, TypeOK, IInv, CancelStep
    PROVE  IInv'
<1> USE SentinelAssumption
        DEF IInv, BootAlone, StrayId, BootReadsFlash, TaskWritesFlash, InFlightIsRecorded,
            RebootInstalled, CrossedFirst, TaskOn, Goto, NoFault, flash, app, mqtt, task,
            env, history
<1>a. ~Fault BY NoFaults DEF TypeOK
<1>b. SuccessMeansInstalled /\ HistoryType BY DEF IInv, TypeOK
<1>1. CASE CancelRead
  <2>1. SuccessMeansInstalled' BY <1>1, <1>b, NoSuccess DEF CancelRead
  <2> QED BY <1>1, <2>1 DEF CancelRead
<1>2. CASE CancelNotify
  <2>1. SuccessMeansInstalled' BY <1>2, <1>a, <1>b, NoSuccess DEF CancelNotify
  <2> QED BY <1>2, <1>a, <2>1 DEF CancelNotify
<1> QED BY <1>1, <1>2 DEF CancelStep

\* IInv is kept by the steps of the OTA task (edgehog_ota.c).
LEMMA TaskStepInv ==
    ASSUME Quiet, TypeOK, IInv, TaskStep
    PROVE  IInv'
<1> USE SentinelAssumption
        DEF IInv, BootAlone, StrayId, BootReadsFlash, TaskWritesFlash, InFlightIsRecorded,
            RebootInstalled, CrossedFirst, TaskOn, Goto, NoFault, flash, app, mqtt, task,
            env, history
<1>a. ~Fault BY NoFaults DEF TypeOK
<1>b. SuccessMeansInstalled /\ HistoryType BY DEF IInv, TypeOK
<1>1. CASE TaskAck
  <2>1. SuccessMeansInstalled' BY <1>1, <1>a, <1>b, NoSuccess DEF TaskAck
  <2> QED BY <1>1, <1>a, <2>1 DEF TaskAck
<1>2. CASE TaskOpen
  <2>1. SuccessMeansInstalled'
    BY <1>2, <1>a, <1>b, NoSuccess, SentinelAssumption DEF TaskOpen, OpenFailed, TypeOK,
         AppType, MqttType, TaskType, AttemptType, Codes, Errors
  <2> QED BY <1>2, <1>a, <2>1 DEF TaskOpen, OpenFailed
<1>3. CASE TaskMark
  <2>1. SuccessMeansInstalled' BY <1>3, <1>a, <1>b, NoSuccess DEF TaskMark, SetState
  <2> QED BY <1>3, <1>a, <2>1 DEF TaskMark, SetState
<1>4. CASE TaskStore
  <2>1. SuccessMeansInstalled' BY <1>4, <1>a, <1>b, NoSuccess DEF TaskStore
  <2> QED BY <1>4, <1>a, <2>1 DEF TaskStore, StoreId
<1>5. CASE TaskBegin
  <2>1. SuccessMeansInstalled' BY <1>5, <1>a, <1>b, NoSuccess DEF TaskBegin, AttemptFails
  <2> QED BY <1>5, <1>a, <2>1 DEF TaskBegin, AttemptFails
<1>6. CASE TaskPerform
  <2>1. SuccessMeansInstalled'
    BY <1>6, <1>a, <1>b, NoSuccess DEF TaskPerform, AttemptFails
  <2> QED
    BY <1>6, <1>a, <2>1, UpdateSlotIsOther DEF TaskPerform, AttemptFails, TypeOK,
         FlashType, AppType
<1>7. CASE TaskAbort
  <2>1. SuccessMeansInstalled' BY <1>7, <1>a, <1>b, NoSuccess DEF TaskAbort, Canceled
  <2> QED BY <1>7, <1>a, <2>1 DEF TaskAbort, Canceled
<1>8. CASE TaskFinish
  <2>1. SuccessMeansInstalled'
    BY <1>8, <1>a, <1>b, NoSuccess DEF TaskFinish, AttemptFails
  <2> QED
    BY <1>8, <1>a, <2>1, UpdateSlotIsOther DEF TaskFinish, AttemptFails, TypeOK,
         FlashType, AppType
<1>9. CASE TaskRetry
  <2>1. SuccessMeansInstalled'
    BY <1>9, <1>a, <1>b, NoSuccess DEF TaskRetry, AttemptsLeft
  <2> QED BY <1>9, <1>a, <2>1 DEF TaskRetry, AttemptsLeft
<1>10. CASE TaskLastCheck
  <2>1. SuccessMeansInstalled'
    BY <1>10, <1>a, <1>b, NoSuccess DEF TaskLastCheck, Canceled, Uncanceled
  <2> QED BY <1>10, <1>a, <2>1 DEF TaskLastCheck, Canceled, Uncanceled
<1>11. CASE TaskDeploy
  <2>1. SuccessMeansInstalled' BY <1>11, <1>a, <1>b, NoSuccess DEF TaskDeploy, SetState
  <2> QED BY <1>11, <1>a, <2>1 DEF TaskDeploy, SetState
<1>12. CASE TaskPart
  <2>1. SuccessMeansInstalled'
    BY <1>12, <1>a, <1>b, NoSuccess, SentinelAssumption DEF TaskPart, RecordedSlot,
         TypeOK, AppType, MqttType, TaskType, AttemptType, Codes, Errors
  <2> QED BY <1>12, <1>a, <2>1 DEF TaskPart, RecordedSlot
<1>13. CASE TaskAnnounce
  <2>1. SuccessMeansInstalled' BY <1>13, <1>a, <1>b, NoSuccess DEF TaskAnnounce
  <2> QED BY <1>13, <1>a, <2>1 DEF TaskAnnounce
<1>14. CASE TaskRestart
  BY <1>14, ResetInv DEF TaskRestart
<1>15. CASE TaskFail
  <2>1. SuccessMeansInstalled'
    BY <1>15, <1>a, <1>b, NoSuccess, SentinelAssumption DEF TaskFail, TypeOK, AppType,
         MqttType, TaskType, AttemptType, Codes, Errors
  <2> QED BY <1>15, <1>a, <2>1 DEF TaskFail
<1>16. CASE TaskIdle
  <2>1. SuccessMeansInstalled' BY <1>16, <1>a, <1>b, NoSuccess DEF TaskIdle, SetState
  <2> QED BY <1>16, <1>a, <2>1 DEF TaskIdle, SetState
<1>17. CASE TaskFree
  <2>1. SuccessMeansInstalled' BY <1>17, <1>a, <1>b, NoSuccess DEF TaskFree
  <2> QED BY <1>17, <1>a, <2>1 DEF TaskFree
<1> QED BY <1>1, <1>2, <1>3, <1>4, <1>5, <1>6, <1>7, <1>8, <1>9, <1>10, <1>11, <1>12,
     <1>13, <1>14, <1>15, <1>16, <1>17 DEF TaskStep

\* The invariant holds of the update, whatever restarts and rollbacks happen.
LEMMA Invariance == ASSUME Quiet PROVE Spec => []IInv
<1>1. Init => IInv
  BY DEF Init, IInv, BootAlone, StrayId, BootReadsFlash, TaskWritesFlash,
       InFlightIsRecorded, RebootInstalled, CrossedFirst, TaskOn, SuccessMeansInstalled,
       Succeeded
<1>2. TypeOK /\ IInv /\ [Next]_vars => IInv'
  <2> SUFFICES ASSUME TypeOK, IInv, [Next]_vars PROVE IInv'
    OBVIOUS
  <2>1. CASE Restart BY <2>1, ResetInv DEF Restart
  <2>2. CASE CancelNotifyFreed BY <2>2, ResetInv DEF CancelNotifyFreed, Restart
  <2>3. CASE IdleReap
    <3>1. SuccessMeansInstalled'
      BY <2>3, NoSuccess DEF IdleReap, history, IInv, TypeOK
    <3> QED
      BY <2>3, <3>1 DEF IdleReap, Goto, flash, app, mqtt, env, history, IInv, BootAlone,
         StrayId, BootReadsFlash, TaskWritesFlash, InFlightIsRecorded, RebootInstalled,
         CrossedFirst, TaskOn
  <2>4. CASE UNCHANGED vars
    <3>1. SuccessMeansInstalled'
      BY <2>4, NoSuccess DEF vars, history, IInv, TypeOK
    <3> QED
      BY <2>4, <3>1 DEF vars, flash, app, mqtt, task, env, history, IInv, BootAlone,
         StrayId, BootReadsFlash, TaskWritesFlash, InFlightIsRecorded, RebootInstalled,
         CrossedFirst, TaskOn
  <2> QED
    BY <2>1, <2>2, <2>3, <2>4, BootStepInv, RequestInv, CancelStepInv, TaskStepInv
       DEF Next
<1> QED BY <1>1, <1>2, TypeCorrect, PTL DEF Spec

\* Success is only reported for a request whose image was made bootable.
THEOREM SuccessIsInstalled == ASSUME Quiet PROVE Spec => []SuccessMeansInstalled
<1>1. IInv => SuccessMeansInstalled BY DEF IInv
<1> QED BY <1>1, Invariance, PTL

\* When the task restarts the device, the flash holds the request, the state, the
\* slot to leave and the image to boot, but for a request that crossed the boot.
THEOREM RestartRecorded == ASSUME Quiet PROVE Spec => []RestartIsRecorded
<1>1. IInv => RestartIsRecorded
  BY DEF IInv, TaskWritesFlash, TaskOn, InFlightIsRecorded, RestartIsRecorded
<1> QED BY <1>1, Invariance, PTL

\* From the start of the download the NVS holds the id of the running update.
THEOREM InFlightRecorded == ASSUME Quiet PROVE Spec => []InFlightIsRecorded
<1>1. IInv => InFlightIsRecorded BY DEF IInv, TaskWritesFlash
<1> QED BY <1>1, Invariance, PTL

-----------------------------------------------------------------------------
(* A verdict is never revised. *)

\* A step that publishes no verdict leaves them as they are.
LEMMA VerdictsKept ==
    ASSUME UNCHANGED answers, NEW v \in Uuid
    PROVE  (Succeeded(v)' <=> Succeeded(v)) /\ (Failed(v)' <=> Failed(v))
BY DEF Succeeded, Failed

\* Where no call fails, every verdict is published (pub_ota_event).
LEMMA NoneLost ==
    ASSUME Quiet, NEW u, NEW status, NEW code, NEW by, Answer(u, status, code, by)
    PROVE  Answered(u, status, code, by)
BY DEF Quiet, Answer, Lost

\* A verdict of task or boot is added to those of its request, and to no other's.
LEMMA VerdictEffect ==
    ASSUME HistoryType, NEW u \in Uuid, NEW status \in {"Success", "Failure"},
           NEW code \in Codes, NEW by \in {"task", "boot"},
           Answered(u, status, code, by), NEW v \in Uuid
    PROVE  /\ Succeeded(v)' <=> Succeeded(v) \/ (v = u /\ status = "Success")
           /\ Failed(v)' <=> Failed(v) \/ (v = u /\ status = "Failure")
<1>1. CASE v = u
  <2> DEFINE r == [status |-> status, code |-> code, by |-> by]
  <2>1. answers'[v] = answers[v] \cup {r} BY <1>1 DEF Answered, HistoryType
  <2>2. r.status = status OBVIOUS
  <2> HIDE DEF r
  <2>3. (\E a \in answers'[v] : a.status = "Success")
        <=> (\E a \in answers[v] : a.status = "Success") \/ status = "Success"
    BY <2>1, <2>2
  <2>4. (\E a \in answers'[v] : a.status = "Failure")
        <=> (\E a \in answers[v] : a.status = "Failure") \/ status = "Failure"
    BY <2>1, <2>2
  <2> QED BY <1>1, <2>3, <2>4 DEF Succeeded, Failed
<1>2. CASE v # u
  <2>1. answers'[v] = answers[v] BY <1>2 DEF Answered, HistoryType
  <2> QED BY <1>2, <2>1 DEF Succeeded, Failed
<1> QED BY <1>1, <1>2

\* A reset keeps what stands: no task is left, and the flash is as it was.  While
\* edgehog_ota_init is not done the slot that runs stays, but for a rollback: that one
\* takes the request in NVS out when it has a verdict.
LEMMA ResetVerdict ==
    ASSUME TypeOK, IInv, VerdictInv, Reset
    PROVE  VerdictInv'
<1> USE DEF Reset, BootKeepsSlot, RebootIsComing, BootSucceeds
<1>1. BootKeepsSlot' /\ RebootIsComing' OBVIOUS
<1>2. \A v \in Uuid : (Succeeded(v)' <=> Succeeded(v)) /\ (Failed(v)' <=> Failed(v))
  BY VerdictsKept
<1>3. \A v \in Uuid : AskedFirst(v)'
  BY <1>2, SentinelAssumption DEF AskedFirst, VerdictInv
<1>4. ASSUME NEW v \in Uuid, v \notin crossed' \cup undone'
      PROVE  SuccessStands(v)' /\ FailureStands(v)'
  <2>1. SuccessStands(v) /\ FailureStands(v) /\ v \notin crossed \cup undone
    BY <1>4 DEF VerdictInv
  <2>2. Succeeded(v) \/ Failed(v) => Settled(v) BY DEF Succeeded, Failed, Settled
  <2>3. (Succeeded(v) \/ Failed(v)) /\ nvsReq = v /\ appPc # "ready" => ~RollsBack
    BY <1>4, <2>2
  <2>4. (Succeeded(v) \/ Failed(v)) /\ nvsReq = v /\ appPc # "ready"
          => running' = running
    BY <2>1, <2>3, SentinelAssumption DEF VerdictInv
  <2>5. nvsReq = v /\ appPc = "ready" /\ nvsState = "reboot" => ~Failed(v)
    BY <2>1, SentinelAssumption DEF FailureStands, WorkedOn, TaskOn, VerdictInv, IInv,
         StrayId, TaskWritesFlash, InFlightIsRecorded
  <2>6. ~WorkedOn(v)' BY DEF WorkedOn, TaskOn
  <2>7. SuccessStands(v)' BY <1>2, <2>1, <2>4, <2>6 DEF SuccessStands
  <2>8. FailureStands(v)' BY <1>2, <2>1, <2>4, <2>5, <2>6 DEF FailureStands
  <2> QED BY <2>7, <2>8
<1> QED BY <1>1, <1>3, <1>4 DEF VerdictInv

\* VerdictInv is kept by the steps of edgehog_ota_init, which settle the request in NVS.
LEMMA BootStepVerdict ==
    ASSUME Quiet, TypeOK, IInv, VerdictInv, BootStep
    PROVE  VerdictInv'
<1> USE DEF flash, app, mqtt, task, env, history, NoFault, BootKeepsSlot,
            RebootIsComing, BootSucceeds, AskedFirst, SuccessStands, FailureStands,
            WorkedOn, TaskOn
<1>a. ~Fault BY NoFaults DEF TypeOK
<1>b. HistoryType BY DEF TypeOK
<1>c. appPc # "ready" BY DEF BootStep, InitReadUuid, InitReadState, InitReadPart,
        InitErase, InitIdle
<1>d. /\ \A v \in Uuid : AskedFirst(v)
      /\ \A v \in Uuid \ (crossed \cup undone) : SuccessStands(v) /\ FailureStands(v)
  BY DEF VerdictInv
<1>e. TaskOn => taskData \in crossed BY <1>c DEF IInv, BootAlone
<1>1. CASE InitReadUuid
  <2>1. \A v \in Uuid : (Succeeded(v)' <=> Succeeded(v)) /\ (Failed(v)' <=> Failed(v))
    BY <1>1, VerdictsKept DEF InitReadUuid
  <2>2. BootKeepsSlot' /\ RebootIsComing'
    BY <1>1, <1>a, <1>c DEF InitReadUuid, VerdictInv
  <2> QED BY <1>1, <1>a, <1>c, <1>d, <2>1, <2>2, SentinelAssumption
          DEF InitReadUuid, VerdictInv, IInv, CrossedFirst
<1>2. CASE InitReadState
  <2>1. BootKeepsSlot' /\ RebootIsComing'
    BY <1>2, <1>a, <1>c DEF InitReadState, Unfinished, InitReport, VerdictInv
  <2>2. CASE RebootPending
    <3>1. \A v \in Uuid : (Succeeded(v)' <=> Succeeded(v)) /\ (Failed(v)' <=> Failed(v))
      BY <1>2, <2>2, <1>a, VerdictsKept DEF InitReadState
    <3> QED BY <1>2, <2>2, <1>a, <1>c, <1>d, <2>1, <3>1
            DEF InitReadState, VerdictInv
  <2>3. CASE ~RebootPending
    <3>1. initUuid \in Uuid /\ (initUuid \in crossed \/ initUuid = nvsReq)
      BY <1>2 DEF InitReadState, TypeOK, AppType, IInv, BootReadsFlash
    <3>2. Answered(initUuid, "Failure", "InternalError", "boot") /\ appPc' = "erase"
      BY <1>2, <2>3, <1>a, NoneLost DEF InitReadState, Unfinished, InitReport
    <3>3. \A v \in Uuid : /\ Succeeded(v)' <=> Succeeded(v)
                          /\ Failed(v)' <=> Failed(v) \/ v = initUuid
      BY <3>1, <3>2, <1>b, VerdictEffect DEF Codes
    <3>4. UNCHANGED <<flash, running, initUuid, task, requested, astray>>
          /\ ~BootSucceeds
      BY <1>2, <2>3 DEF InitReadState, RebootPending
    <3>5. \A v \in Uuid : AskedFirst(v)' BY <3>3, <3>4, <1>d
    <3>6. ASSUME NEW v \in Uuid \ (crossed \cup undone)
          PROVE  SuccessStands(v)' /\ FailureStands(v)'
      BY <3>1, <3>2, <3>3, <3>4, <3>6, <1>c, <1>d, <1>e
    <3> QED BY <3>4, <3>5, <3>6, <2>1 DEF VerdictInv
  <2> QED BY <2>2, <2>3
<1>3. CASE InitReadPart
  <2>1. BootKeepsSlot' /\ RebootIsComing'
    BY <1>3, <1>a, <1>c DEF InitReadPart, InitReport, VerdictInv
  <2>2. /\ initUuid \in Uuid
        /\ initUuid \in crossed \/ (initUuid = nvsReq /\ nvsState = "reboot")
    BY <1>3 DEF InitReadPart, TypeOK, AppType, IInv, BootReadsFlash
  <2>3. UNCHANGED <<flash, running, initUuid, task, requested, astray>>
        /\ appPc' = "erase"
    BY <1>3 DEF InitReadPart, InitReport
  <2>4. CASE nvsPart \notin {None, running}
    <3>1. Answered(initUuid, "Success", "", "boot")
      BY <1>3, <1>a, <2>4, NoneLost DEF InitReadPart, InitReport
    <3>2. \A v \in Uuid : /\ Succeeded(v)' <=> Succeeded(v) \/ v = initUuid
                          /\ Failed(v)' <=> Failed(v)
      BY <2>2, <3>1, <1>b, VerdictEffect DEF Codes, Errors
    <3>3. \A v \in Uuid : AskedFirst(v)' BY <3>2, <2>3, <1>d
    <3>4. ASSUME NEW v \in Uuid \ (crossed \cup undone)
          PROVE  SuccessStands(v)' /\ FailureStands(v)'
      BY <2>2, <2>3, <2>4, <3>2, <3>4, <1>c, <1>d, <1>e
    <3> QED BY <2>3, <3>3, <3>4, <2>1 DEF VerdictInv
  <2>5. CASE nvsPart \in {None, running}
    <3>1. Answered(initUuid, "Failure", "SystemRollback", "boot")
      BY <1>3, <1>a, <2>5, NoneLost DEF InitReadPart, InitReport
    <3>2. \A v \in Uuid : /\ Succeeded(v)' <=> Succeeded(v)
                          /\ Failed(v)' <=> Failed(v) \/ v = initUuid
      BY <2>2, <3>1, <1>b, VerdictEffect DEF Codes
    <3>3. \A v \in Uuid : AskedFirst(v)' BY <3>2, <2>3, <1>d
    <3>4. ASSUME NEW v \in Uuid \ (crossed \cup undone)
          PROVE  SuccessStands(v)' /\ FailureStands(v)'
      BY <2>2, <2>3, <2>5, <3>2, <3>4, <1>c, <1>d, <1>e
    <3> QED BY <2>3, <3>3, <3>4, <2>1 DEF VerdictInv
  <2> QED BY <2>4, <2>5
<1>4. CASE InitErase
  <2>1. \A v \in Uuid : (Succeeded(v)' <=> Succeeded(v)) /\ (Failed(v)' <=> Failed(v))
    BY <1>4, VerdictsKept DEF InitErase
  <2> QED BY <1>4, <1>a, <1>c, <1>d, <2>1, SentinelAssumption
          DEF InitErase, VerdictInv
<1>5. CASE InitIdle
  <2>1. \A v \in Uuid : (Succeeded(v)' <=> Succeeded(v)) /\ (Failed(v)' <=> Failed(v))
    BY <1>5, VerdictsKept DEF InitIdle
  <2> QED BY <1>5, <1>a, <1>c, <1>d, <2>1, SentinelAssumption
          DEF InitIdle, SetState, VerdictInv
<1> QED BY <1>1, <1>2, <1>3, <1>4, <1>5 DEF BootStep

\* VerdictInv is kept by the requests of the server: edgehog_ota_event starts an update
\* only for a new request, and its refusals are no verdicts.
LEMMA RequestVerdict ==
    ASSUME Quiet, TypeOK, IInv, VerdictInv, NEW u \in Uuid, Request(u)
    PROVE  VerdictInv'
<1> USE DEF flash, app, mqtt, task, env, history, BootKeepsSlot, RebootIsComing,
            BootSucceeds, AskedFirst, SuccessStands, FailureStands, WorkedOn,
            TaskOn
<1>b. /\ \A v \in Uuid : AskedFirst(v)
      /\ \A v \in Uuid \ (crossed \cup undone) : SuccessStands(v) /\ FailureStands(v)
  BY DEF VerdictInv
<1>1. CASE MalformedRequest(u)
  <2>1. \A v \in Uuid : (Succeeded(v)' <=> Succeeded(v)) /\ (Failed(v)' <=> Failed(v))
    BY <1>1, VerdictsKept DEF MalformedRequest
  <2> QED BY <1>1, <1>b, <2>1 DEF MalformedRequest, NewRequest, VerdictInv
<1>2. CASE UpdateRefused(u)
  <2>1. \A v \in Uuid : (Succeeded(v)' <=> Succeeded(v)) /\ (Failed(v)' <=> Failed(v))
    BY <1>2, VerdictsKept DEF UpdateRefused
  <2> QED BY <1>2, <1>b, <2>1 DEF UpdateRefused, NewRequest, VerdictInv
<1>3. CASE UpdateAccepted(u)
  <2>1. \A v \in Uuid : (Succeeded(v)' <=> Succeeded(v)) /\ (Failed(v)' <=> Failed(v))
    BY <1>3, VerdictsKept DEF UpdateAccepted
  <2>2. appPc = "ready" => nvsState # "reboot"
    BY <1>3 DEF UpdateAccepted, TaskFound, VerdictInv
  <2>3. \A v \in Uuid \ (crossed' \cup undone') : v # u \/ appPc = "ready"
    BY <1>3, SentinelAssumption DEF UpdateAccepted
  <2>4. crossed \subseteq crossed' /\ undone' = undone BY <1>3 DEF UpdateAccepted
  <2>5. BootKeepsSlot' /\ RebootIsComing'
    BY <1>3, <2>2, <2>4 DEF UpdateAccepted, VerdictInv
  <2>6. \A v \in Uuid : AskedFirst(v)'
    BY <1>3, <1>b, <2>1 DEF UpdateAccepted, NewRequest
  <2>7. ASSUME NEW v \in Uuid \ (crossed' \cup undone')
        PROVE  SuccessStands(v)' /\ FailureStands(v)'
    <3>1. SuccessStands(v) /\ FailureStands(v) BY <2>4, <2>7, <1>b
    <3>2. v = u => ~Succeeded(v) /\ ~Failed(v)
      BY <1>3, <1>b DEF UpdateAccepted, NewRequest
    <3> QED BY <1>3, <2>1, <3>1, <3>2 DEF UpdateAccepted
  <2> QED BY <2>5, <2>6, <2>7 DEF VerdictInv
<1>4. CASE UpdateNotSpawned(u)
  <2>1. \A v \in Uuid : (Succeeded(v)' <=> Succeeded(v)) /\ (Failed(v)' <=> Failed(v))
    BY <1>4, VerdictsKept DEF UpdateNotSpawned
  <2> QED BY <1>4, <1>b, <2>1 DEF UpdateNotSpawned, TaskFound, NewRequest, VerdictInv
<1>5. CASE CancelRequest(u)
  <2>1. \A v \in Uuid : (Succeeded(v)' <=> Succeeded(v)) /\ (Failed(v)' <=> Failed(v))
    BY <1>5, VerdictsKept DEF CancelRequest
  <2> QED BY <1>5, <1>b, <2>1 DEF CancelRequest, VerdictInv
<1> QED BY <1>1, <1>2, <1>3, <1>4, <1>5 DEF Request

\* VerdictInv is kept by the later steps of Cancel.
LEMMA CancelStepVerdict ==
    ASSUME TypeOK, VerdictInv, CancelStep
    PROVE  VerdictInv'
<1> USE DEF flash, app, mqtt, task, env, history, BootKeepsSlot, RebootIsComing,
            BootSucceeds, AskedFirst, SuccessStands, FailureStands, WorkedOn,
            TaskOn
<1>b. /\ \A v \in Uuid : AskedFirst(v)
      /\ \A v \in Uuid \ (crossed \cup undone) : SuccessStands(v) /\ FailureStands(v)
  BY DEF VerdictInv
<1>1. CASE CancelRead
  <2>1. \A v \in Uuid : (Succeeded(v)' <=> Succeeded(v)) /\ (Failed(v)' <=> Failed(v))
    BY <1>1, VerdictsKept DEF CancelRead
  <2> QED BY <1>1, <1>b, <2>1 DEF CancelRead, CancelRefused, VerdictInv
<1>2. CASE CancelNotify
  <2>1. \A v \in Uuid : (Succeeded(v)' <=> Succeeded(v)) /\ (Failed(v)' <=> Failed(v))
    BY <1>2, VerdictsKept DEF CancelNotify
  <2> QED BY <1>2, <1>b, <2>1 DEF CancelNotify, VerdictInv
<1> QED BY <1>1, <1>2 DEF CancelStep

\* VerdictInv is kept by the steps of ota_task_code, which settles its own request.
LEMMA TaskStepVerdict ==
    ASSUME Quiet, TypeOK, IInv, VerdictInv, TaskStep
    PROVE  VerdictInv'
<1> USE DEF flash, app, mqtt, task, env, history, NoFault, Goto, BootKeepsSlot,
            RebootIsComing, BootSucceeds, AskedFirst, SuccessStands, FailureStands,
            WorkedOn, TaskOn
<1>a. HistoryType /\ ~Fault BY NoFaults DEF TypeOK
<1>b. /\ \A v \in Uuid : AskedFirst(v)
      /\ \A v \in Uuid \ (crossed \cup undone) : SuccessStands(v) /\ FailureStands(v)
  BY DEF VerdictInv
<1>c. TaskOn
  BY DEF TaskStep, TaskAck, TaskOpen, TaskMark, TaskStore, TaskBegin, TaskPerform,
         TaskAbort, TaskFinish, TaskRetry, TaskLastCheck, TaskDeploy, TaskPart,
         TaskAnnounce, TaskRestart, TaskFail, TaskIdle, TaskFree, Canceled, AttemptFails
<1>d. /\ appPc # "ready" => taskData \in crossed
      /\ taskData \in crossed => nvsReq \in crossed \cup {None}
  BY <1>c DEF IInv, BootAlone, StrayId
<1>1. CASE TaskAck
  <2>1. \A v \in Uuid : (Succeeded(v)' <=> Succeeded(v)) /\ (Failed(v)' <=> Failed(v))
    BY <1>1, VerdictsKept DEF TaskAck
  <2> QED BY <1>1, <1>a, <1>b, <1>c, <1>d, <2>1, SentinelAssumption DEF TaskAck,
       VerdictInv
<1>2. CASE TaskMark
  <2>1. \A v \in Uuid : (Succeeded(v)' <=> Succeeded(v)) /\ (Failed(v)' <=> Failed(v))
    BY <1>2, VerdictsKept DEF TaskMark, SetState
  <2> QED BY <1>2, <1>a, <1>b, <1>c, <1>d, <2>1, SentinelAssumption DEF TaskMark,
       SetState, VerdictInv
<1>3. CASE TaskStore
  <2>1. \A v \in Uuid : (Succeeded(v)' <=> Succeeded(v)) /\ (Failed(v)' <=> Failed(v))
    BY <1>3, VerdictsKept DEF TaskStore
  <2> QED BY <1>3, <1>a, <1>b, <1>c, <1>d, <2>1, SentinelAssumption DEF TaskStore,
       StoreId, VerdictInv
<1>4. CASE TaskBegin
  <2>1. \A v \in Uuid : (Succeeded(v)' <=> Succeeded(v)) /\ (Failed(v)' <=> Failed(v))
    BY <1>4, VerdictsKept DEF TaskBegin
  <2> QED BY <1>4, <1>a, <1>b, <1>c, <1>d, <2>1, SentinelAssumption
          DEF TaskBegin, AttemptFails, VerdictInv
<1>5. CASE TaskPerform
  <2>1. \A v \in Uuid : (Succeeded(v)' <=> Succeeded(v)) /\ (Failed(v)' <=> Failed(v))
    BY <1>5, VerdictsKept DEF TaskPerform, AttemptFails
  <2> QED BY <1>5, <1>a, <1>b, <1>c, <1>d, <2>1, SentinelAssumption DEF TaskPerform,
       AttemptFails, VerdictInv
<1>6. CASE TaskAbort
  <2>1. \A v \in Uuid : (Succeeded(v)' <=> Succeeded(v)) /\ (Failed(v)' <=> Failed(v))
    BY <1>6, VerdictsKept DEF TaskAbort, Canceled
  <2> QED BY <1>6, <1>a, <1>b, <1>c, <1>d, <2>1, SentinelAssumption DEF TaskAbort,
       Canceled, VerdictInv
<1>7. CASE TaskFinish
  <2>1. \A v \in Uuid : (Succeeded(v)' <=> Succeeded(v)) /\ (Failed(v)' <=> Failed(v))
    BY <1>7, VerdictsKept DEF TaskFinish, AttemptFails
  <2> QED BY <1>7, <1>a, <1>b, <1>c, <1>d, <2>1, SentinelAssumption DEF TaskFinish,
       AttemptFails, VerdictInv
<1>8. CASE TaskRetry
  <2>1. \A v \in Uuid : (Succeeded(v)' <=> Succeeded(v)) /\ (Failed(v)' <=> Failed(v))
    BY <1>8, VerdictsKept DEF TaskRetry
  <2> QED BY <1>8, <1>a, <1>b, <1>c, <1>d, <2>1, SentinelAssumption DEF TaskRetry,
       VerdictInv
<1>9. CASE TaskLastCheck
  <2>1. \A v \in Uuid : (Succeeded(v)' <=> Succeeded(v)) /\ (Failed(v)' <=> Failed(v))
    BY <1>9, VerdictsKept DEF TaskLastCheck, Canceled, Uncanceled
  <2> QED
    BY <1>9, <1>a, <1>b, <1>c, <1>d, <2>1, SentinelAssumption DEF TaskLastCheck, Canceled,
         Uncanceled, VerdictInv
<1>10. CASE TaskDeploy
  <2>1. \A v \in Uuid : (Succeeded(v)' <=> Succeeded(v)) /\ (Failed(v)' <=> Failed(v))
    BY <1>10, VerdictsKept DEF TaskDeploy, SetState
  <2> QED BY <1>10, <1>a, <1>b, <1>c, <1>d, <2>1, SentinelAssumption DEF TaskDeploy,
       SetState, VerdictInv
<1>11. CASE TaskAnnounce
  <2>1. \A v \in Uuid : (Succeeded(v)' <=> Succeeded(v)) /\ (Failed(v)' <=> Failed(v))
    BY <1>11, VerdictsKept DEF TaskAnnounce
  <2> QED BY <1>11, <1>a, <1>b, <1>c, <1>d, <2>1, SentinelAssumption DEF TaskAnnounce,
       VerdictInv
<1>12. CASE TaskIdle
  <2>1. \A v \in Uuid : (Succeeded(v)' <=> Succeeded(v)) /\ (Failed(v)' <=> Failed(v))
    BY <1>12, VerdictsKept DEF TaskIdle, SetState
  <2> QED BY <1>12, <1>a, <1>b, <1>c, <1>d, <2>1, SentinelAssumption DEF TaskIdle,
       SetState, VerdictInv
<1>13. CASE TaskFree
  <2>1. \A v \in Uuid : (Succeeded(v)' <=> Succeeded(v)) /\ (Failed(v)' <=> Failed(v))
    BY <1>13, VerdictsKept DEF TaskFree
  <2> QED BY <1>13, <1>a, <1>b, <1>c, <1>d, <2>1, SentinelAssumption DEF TaskFree,
       VerdictInv
<1>14. CASE TaskOpen
  <2>1. \A v \in Uuid : (Succeeded(v)' <=> Succeeded(v)) /\ (Failed(v)' <=> Failed(v))
    BY <1>14, <1>a, VerdictsKept DEF TaskOpen
  <2> QED BY <1>14, <1>a, <1>b, <1>c, <1>d, <2>1, SentinelAssumption DEF TaskOpen,
       VerdictInv
<1>15. CASE TaskPart
  <2>1. \A v \in Uuid : (Succeeded(v)' <=> Succeeded(v)) /\ (Failed(v)' <=> Failed(v))
    BY <1>15, <1>a, VerdictsKept DEF TaskPart
  <2> QED BY <1>15, <1>a, <1>b, <1>c, <1>d, <2>1, SentinelAssumption DEF TaskPart,
       VerdictInv
<1>16. CASE TaskFail
  <2>1. taskReq = taskData /\ taskData \in Uuid /\ err \in Codes /\ taskData \in requested
    BY <1>16, <1>c, SentinelAssumption DEF TaskFail, TypeOK, TaskType, AttemptType, IInv,
       TaskWritesFlash, CrossedFirst, Codes
  <2>2. Answered(taskData, "Failure", err, "task") BY <1>16, <2>1, NoneLost DEF TaskFail
  <2>3. \A v \in Uuid : /\ Succeeded(v)' <=> Succeeded(v)
                        /\ Failed(v)' <=> Failed(v) \/ v = taskData
    BY <1>a, <2>1, <2>2, VerdictEffect
  <2>4. /\ taskPc = "fail" /\ taskPc' = "idle"
        /\ UNCHANGED <<flash, app, taskData, requested, astray>>
    BY <1>16 DEF TaskFail
  <2>5. \A v \in Uuid : AskedFirst(v)' BY <2>1, <2>3, <2>4, <1>b
  <2>6. ASSUME NEW v \in Uuid \ (crossed \cup undone)
        PROVE  SuccessStands(v)' /\ FailureStands(v)'
    BY <2>3, <2>4, <2>6, <1>b, <1>d
  <2>7. BootKeepsSlot' /\ RebootIsComing' BY <2>4, <1>d DEF VerdictInv
  <2> QED BY <2>4, <2>5, <2>6, <2>7 DEF VerdictInv
<1>17. CASE TaskRestart BY <1>17, ResetVerdict DEF TaskRestart
<1> QED
  BY <1>1, <1>2, <1>3, <1>4, <1>5, <1>6, <1>7, <1>8, <1>9, <1>10, <1>11, <1>12, <1>13,
     <1>14, <1>15, <1>16, <1>17 DEF TaskStep

\* The invariant about verdicts holds of the update, under the same conditions.
LEMMA VerdictInvariance == ASSUME Quiet PROVE Spec => []VerdictInv
<1>1. Init => VerdictInv
  BY SentinelAssumption
     DEF Init, VerdictInv, BootKeepsSlot, RebootIsComing, AskedFirst, SuccessStands,
         FailureStands, WorkedOn, TaskOn, Succeeded, Failed
<1>2. TypeOK /\ IInv /\ VerdictInv /\ [Next]_vars => VerdictInv'
  <2> SUFFICES ASSUME TypeOK, IInv, VerdictInv, [Next]_vars PROVE VerdictInv'
    OBVIOUS
  <2>1. CASE Restart \/ CancelNotifyFreed
    BY <2>1, ResetVerdict DEF Restart, CancelNotifyFreed
  <2>2. CASE IdleReap \/ UNCHANGED vars
    <3>1. /\ taskPc' = taskPc \/ (taskPc = "deleted" /\ taskPc' = "none")
          /\ UNCHANGED <<flash, app, taskData, requested, answers, astray>>
      BY <2>2 DEF IdleReap, Goto, vars, task, env, history
    <3>2. \A v \in Uuid : (Succeeded(v)' <=> Succeeded(v)) /\ (Failed(v)' <=> Failed(v))
      BY <3>1, VerdictsKept
    <3> QED
      BY <3>1, <3>2 DEF VerdictInv, BootKeepsSlot, RebootIsComing, BootSucceeds,
         AskedFirst, SuccessStands, FailureStands, WorkedOn, TaskOn, flash, app
  <2> QED
    BY <2>1, <2>2, BootStepVerdict, RequestVerdict, CancelStepVerdict, TaskStepVerdict
       DEF Next
<1> QED BY <1>1, <1>2, TypeCorrect, Invariance, PTL DEF Spec

\* What task and boots have said of a request they never take back, unless it crossed a
\* boot, or a rollback undid the image by which it was said.
THEOREM VerdictsAreFinal == ASSUME Quiet PROVE Spec => []VerdictIsFinal
<1>1. TypeOK /\ VerdictInv => VerdictIsFinal
  <2> SUFFICES ASSUME HistoryType, VerdictInv, NEW u \in Uuid \ (crossed \cup undone),
                      Succeeded(u), NEW a \in answers[u]
               PROVE  a.status = "Success"
    BY DEF TypeOK, VerdictIsFinal
  <2>1. ~Failed(u) BY DEF VerdictInv, SuccessStands
  <2>2. a \in Answers BY DEF HistoryType
  <2> QED BY <2>1, <2>2 DEF Failed, Answers
<1> QED BY <1>1, TypeCorrect, VerdictInvariance, PTL

-----------------------------------------------------------------------------
(* The update implements OtaService. *)

\* Without a verdict the requests that are settled stay the same.
LEMMA DoneKept ==
    ASSUME UNCHANGED answers
    PROVE  UNCHANGED <<Done, Successes>>
BY DEF Done, Successes, Settled, Succeeded

\* A verdict of task or boot settles its request.
LEMMA DoneGrows ==
    ASSUME HistoryType, NEW u \in Uuid, NEW status \in {"Success", "Failure"},
           NEW code \in Codes, NEW by \in {"task", "boot"},
           Answered(u, status, code, by)
    PROVE  /\ Done' = Done \cup {u}
           /\ Successes' = IF status = "Success" THEN Successes \cup {u} ELSE Successes
<1>1. ASSUME NEW v \in Uuid PROVE Settled(v)' <=> Settled(v) \/ v = u
  BY DEF Answered, HistoryType, Settled
<1>2. \A v \in Uuid : Succeeded(v)' <=> Succeeded(v) \/ (v = u /\ status = "Success")
  BY VerdictEffect
<1>3. Done' = Done \cup {u} BY <1>1 DEF Done
<1>4. CASE status = "Success"
  <2>1. Successes' = Successes \cup {u} BY <1>2, <1>4 DEF Successes
  <2> QED BY <1>3, <1>4, <2>1
<1>5. CASE status = "Failure"
  <2>1. Successes' = Successes BY <1>2, <1>5 DEF Successes
  <2> QED BY <1>3, <1>5, <2>1
<1> QED BY <1>4, <1>5

\* What the invariants say of the requests that are settled.
LEMMA WhatStands ==
    ASSUME TypeOK, IInv, VerdictInv
    PROVE  /\ Done \subseteq requested /\ Successes \subseteq Done
           /\ TaskOn => taskData \in requested
           /\ TaskOn /\ taskPc \notin {"idle", "free"} /\ taskData \in Done
                 => taskData \in Disowned
           /\ appPc # "ready" /\ nvsReq \in Done \ Disowned
                 => (nvsReq \in Successes <=> BootSucceeds)
<1> USE DEF VerdictInv, AskedFirst, SuccessStands, FailureStands, WorkedOn
<1>1. ASSUME NEW u \in Done PROVE u \in Uuid /\ (Succeeded(u) \/ Failed(u))
  <2>1. u \in Uuid /\ answers[u] \subseteq Answers BY DEF Done, TypeOK, HistoryType
  <2>2. PICK a \in answers[u] : TRUE BY DEF Done, Settled
  <2>3. a.status \in {"Success", "Failure"} BY <2>1, <2>2 DEF Answers
  <2> QED BY <2>1, <2>2, <2>3 DEF Succeeded, Failed
<1>2. \A u \in Done : u \in Successes <=> Succeeded(u) BY <1>1 DEF Successes
<1>3. Successes \subseteq Done BY DEF Successes, Done, Succeeded, Settled
<1>4. Done \subseteq requested BY <1>1
<1>5. TaskOn => taskData \in requested
  BY SentinelAssumption DEF TaskOn, TypeOK, TaskType, IInv, CrossedFirst
<1>6. TaskOn /\ taskPc \notin {"idle", "free"} /\ taskData \in Done
      => taskData \in Disowned
  BY <1>1 DEF Disowned
<1>7. appPc # "ready" /\ nvsReq \in Done \ Disowned
      => (nvsReq \in Successes <=> BootSucceeds)
  BY <1>1, <1>2 DEF Disowned
<1> QED BY <1>3, <1>4, <1>5, <1>6, <1>7

\* A step that changes no more than what it has said of a request the service has disowned
\* is a stutter of the service.
LEMMA Stutter ==
    ASSUME UNCHANGED <<PendingRequest, Bootable, Disowned>>,
           Done' \ Disowned = Done \ Disowned,
           Successes' \ Disowned = Successes \ Disowned
    PROVE  UNCHANGED Service!service
<1>1. Verdict' = Verdict BY DEF Verdict
<1> QED BY <1>1 DEF Service!service

\* A step that settles nothing, installs nothing and leaves the same request in hand.
LEMMA Silent ==
    ASSUME UNCHANGED <<answers, installed, astray, PendingRequest>>
    PROVE  UNCHANGED Service!service
BY DoneKept, Stutter DEF Bootable, Disowned

\* A verdict for an open request settles it.
LEMMA Settling ==
    ASSUME NEW u \in Uuid \ (Done \cup Disowned), NEW outcome \in {"success", "failed"},
           Successes \subseteq Done, PendingRequest = u, PendingRequest' = None,
           UNCHANGED <<Bootable, Disowned>>, outcome = "success" => u \in Bootable,
           Done' = Done \cup {u},
           Successes' = IF outcome = "success" THEN Successes \cup {u} ELSE Successes
    PROVE  Service!Settle(outcome)
<1>1. u # None BY SentinelAssumption
<1>2. Verdict' = [Verdict EXCEPT ![u] = outcome]
  <2> SUFFICES ASSUME NEW v \in Uuid
               PROVE  Verdict'[v] = IF v = u THEN outcome ELSE Verdict[v]
    BY DEF Verdict
  <2> QED BY DEF Verdict
<1> QED BY <1>1, <1>2 DEF Service!Settle

\* Requests that cross the boot, or whose image was undone, leave the service.
LEMMA Disowning ==
    ASSUME NEW us \in SUBSET Uuid, Disowned' = Disowned \cup us,
           UNCHANGED <<answers, installed>>,
           PendingRequest' = IF PendingRequest \in us THEN None ELSE PendingRequest
    PROVE  Service!Disown(us)
<1>1. UNCHANGED <<Done, Successes>> BY DoneKept
<1>2. Bootable' = Bootable \ us BY DEF Bootable
<1>3. Verdict' = [u \in Uuid |-> IF u \in us THEN "disowned" ELSE Verdict[u]]
  <2> SUFFICES ASSUME NEW v \in Uuid
               PROVE  Verdict'[v] = IF v \in us THEN "disowned" ELSE Verdict[v]
    BY DEF Verdict
  <2> QED BY <1>1 DEF Verdict
<1> QED BY <1>2, <1>3 DEF Service!Disown

\* A reset loses the request of a task that has not written its id, and else leaves the
\* request in hand to edgehog_ota_init; a rollback may undo a settled one.
LEMMA ResetService ==
    ASSUME TypeOK, IInv, VerdictInv, ServiceInv, Reset
    PROVE  ServiceInv' /\ [Service!Next]_(Service!service)
<1> DEFINE us == undone' \ undone
<1>1. HistoryType /\ None \notin Uuid /\ nvsReq \in Uuid \cup {None}
      /\ (TaskOn => taskData \in Uuid)
  BY SentinelAssumption DEF TypeOK, TaskType, FlashType, TaskOn
<1>2. UNCHANGED <<Done, Successes>> BY DoneKept DEF Reset
<1>3. /\ us \in SUBSET Uuid /\ us \subseteq Done /\ undone' = undone \cup us
      /\ us # {} => appPc # "ready"
  BY DEF Reset, Done
<1> HIDE DEF us
<1>4. Disowned' = Disowned \cup us BY <1>3 DEF Disowned, Reset
<1>5. ServiceInv'
  BY <1>1, <1>2, <1>3, WhatStands DEF Reset, ServiceInv, TaskOn
<1>6. PendingRequest' = IF nvsReq \in Uuid \ (Done \cup Disowned) THEN nvsReq ELSE None
  BY <1>2, <1>3, <1>4 DEF Reset, PendingRequest, TaskOn
<1>7. UNCHANGED <<answers, installed>> BY DEF Reset
<1>8. CASE taskPc \in {"ack", "open", "mark", "store"} /\ taskData \notin Disowned
  <2>1. appPc = "ready" BY <1>8 DEF IInv, BootAlone, Disowned, TaskOn
  <2>2. taskData \notin Done BY <1>8, WhatStands DEF TaskOn
  <2>3. /\ PendingRequest = taskData /\ PendingRequest' = None
        /\ taskData \notin installed
    BY <1>1, <1>6, <1>8, <2>1, <2>2 DEF PendingRequest, ServiceInv, TaskOn, Disowned
  <2>4. us = {} BY <1>3, <2>1
  <2>5. UNCHANGED <<Disowned, Bootable, Verdict>>
    BY <1>2, <1>4, <1>7, <2>4 DEF Verdict, Bootable
  <2>6. Service!Lose BY <1>1, <1>8, <2>3, <2>5 DEF Service!Lose, Bootable, TaskOn
  <2> QED BY <1>5, <2>6 DEF Service!Next
<1>9. CASE ~(taskPc \in {"ack", "open", "mark", "store"} /\ taskData \notin Disowned)
  <2>1. PendingRequest' = PendingRequest
    BY <1>6, <1>9 DEF PendingRequest, ServiceInv, TaskOn, Disowned
  <2>2. PendingRequest \notin us
    BY <1>1, <1>3, <2>1, <1>6
  <2>3. Service!Disown(us) BY <1>3, <1>4, <1>7, <2>1, <2>2, Disowning
  <2> QED BY <1>3, <1>5, <2>3 DEF Service!Next
<1> QED BY <1>8, <1>9

\* edgehog_ota_init settles the request it has read, or repeats its verdict.
LEMMA BootStepService ==
    ASSUME Quiet, TypeOK, IInv, VerdictInv, ServiceInv, BootStep
    PROVE  ServiceInv' /\ [Service!Next]_(Service!service)
<1> USE DEF flash, app, mqtt, task, env, history, NoFault
<1>a. ~Fault /\ HistoryType BY NoFaults DEF TypeOK
<1>b. None \notin Uuid /\ nvsReq \in Uuid \cup {None}
  BY SentinelAssumption DEF TypeOK, FlashType
<1>c. appPc # "ready" /\ (TaskOn => taskData \in crossed)
  BY DEF IInv, BootAlone, BootStep, InitReadUuid, InitReadState, InitReadPart,
     InitErase, InitIdle
<1>d. TaskOn => nvsReq \in crossed \cup {None} BY <1>c DEF IInv, StrayId
<1>e. PendingRequest = IF nvsReq \in Uuid \ (Done \cup Disowned) THEN nvsReq ELSE None
  BY <1>c DEF PendingRequest, Disowned
<1>f. /\ Successes \subseteq Done
      /\ nvsReq \in Done \ Disowned => (nvsReq \in Successes <=> BootSucceeds)
  BY <1>c, WhatStands
<1>1. CASE InitReadUuid
  <2>1. UNCHANGED <<answers, marks, astray, PendingRequest>>
    BY <1>1, DoneKept DEF InitReadUuid, PendingRequest, TaskOn, Disowned
  <2>2. ServiceInv'
    BY <1>1, <1>a, <1>b, <1>c, <2>1, DoneKept DEF InitReadUuid, ServiceInv, TaskOn
  <2> QED BY <2>1, <2>2, Silent
<1>2. CASE InitErase
  <2>1. nvsReq \notin Uuid \ (Done \cup Disowned)
    BY <1>2, <1>b, <1>d DEF InitErase, ServiceInv, TaskOn, Disowned
  <2>2. UNCHANGED <<answers, marks, astray, Done, Disowned>>
    BY <1>2, DoneKept DEF InitErase, Disowned
  <2>3. PendingRequest' = PendingRequest
    BY <1>2, <1>a, <1>b, <1>c, <1>e, <2>1, <2>2
       DEF InitErase, PendingRequest, TaskOn, Disowned
  <2>4. ServiceInv'
    BY <1>2, <1>a, <1>b, <1>c, <2>2 DEF InitErase, ServiceInv, TaskOn
  <2> QED BY <2>2, <2>3, <2>4, Silent
<1>3. CASE InitIdle
  <2>1. UNCHANGED <<answers, marks, astray, PendingRequest>>
    BY <1>3, DoneKept DEF InitIdle, PendingRequest, TaskOn, Disowned
  <2>2. ServiceInv'
    BY <1>3, <1>c, <2>1, DoneKept DEF InitIdle, ServiceInv, TaskOn
  <2> QED BY <2>1, <2>2, Silent
<1>4. CASE RebootPending /\ InitReadState
  <2>1. UNCHANGED <<answers, marks, astray, PendingRequest>>
    BY <1>4, <1>a, DoneKept DEF InitReadState, PendingRequest, TaskOn, Disowned
  <2>2. ServiceInv'
    BY <1>4, <1>a, <2>1, DoneKept DEF InitReadState, ServiceInv, TaskOn
  <2> QED BY <2>1, <2>2, Silent
<1>5. ASSUME NEW outcome \in {"success", "failed"}, initUuid \in Uuid,
             appPc \in {"readState", "readPart"}, appPc' = "erase",
             UNCHANGED <<flash, initUuid, task, requested, marks, astray>>,
             initUuid \notin crossed => initUuid = nvsReq
                    /\ (outcome = "success" <=> BootSucceeds),
             Done' = Done \cup {initUuid},
             Successes' = IF outcome = "success" THEN Successes \cup {initUuid}
                                                 ELSE Successes
      PROVE  ServiceInv' /\ [Service!Next]_(Service!service)
  <2>1. ServiceInv' BY <1>5, <1>b DEF ServiceInv, TaskOn
  <2>2. UNCHANGED <<Bootable, Disowned>> BY <1>5 DEF Bootable, Disowned
  <2>3. CASE initUuid \in Done \cup Disowned
    <3>1. nvsReq \in Uuid \ (Done' \cup Disowned)
          <=> nvsReq \in Uuid \ (Done \cup Disowned)
      BY <1>5, <2>3 DEF ServiceInv, Disowned
    <3>2. UNCHANGED PendingRequest
      BY <1>5, <1>c, <1>e, <2>2, <3>1 DEF PendingRequest, TaskOn, Disowned
    <3>3. Successes' \ Disowned = Successes \ Disowned
      BY <1>5, <1>f, <2>3 DEF Disowned
    <3> QED BY <1>5, <2>1, <2>2, <2>3, <3>2, <3>3, Stutter
  <2>4. CASE initUuid \notin Done \cup Disowned
    <3>1. initUuid = nvsReq /\ (outcome = "success" <=> BootSucceeds)
      BY <1>5, <2>4 DEF Disowned
    <3>2. PendingRequest = initUuid /\ PendingRequest' = None
      BY <1>5, <1>c, <1>e, <2>2, <2>4, <3>1 DEF PendingRequest, TaskOn, Disowned
    <3>3. outcome = "success" => initUuid \in Bootable
      BY <1>b, <1>5, <2>4, <3>1
         DEF IInv, RebootInstalled, BootSucceeds, Bootable, Disowned
    <3>4. Service!Settle(outcome) BY <1>5, <1>f, <2>2, <2>4, <3>2, <3>3, Settling
    <3> QED BY <2>1, <3>4 DEF Service!Next
  <2> QED BY <2>3, <2>4
<1>6. CASE InitReadState /\ ~RebootPending
  <2>1. initUuid \in Uuid /\ (initUuid \notin crossed => initUuid = nvsReq)
    BY <1>6 DEF InitReadState, TypeOK, AppType, IInv, BootReadsFlash
  <2>2. Answered(initUuid, "Failure", "InternalError", "boot") /\ appPc' = "erase"
    BY <1>6, <1>a, NoneLost DEF InitReadState, Unfinished, InitReport
  <2>3. Done' = Done \cup {initUuid} /\ Successes' = Successes
    BY <2>1, <2>2, <1>a, DoneGrows DEF Codes
  <2>4. ~BootSucceeds BY <1>6 DEF RebootPending, BootSucceeds
  <2>5. appPc = "readState"
        /\ UNCHANGED <<flash, initUuid, task, requested, marks, astray>>
    BY <1>6 DEF InitReadState
  <2> QED BY <1>5, <2>1, <2>2, <2>3, <2>4, <2>5
<1>7. CASE InitReadPart
  <2>1. /\ initUuid \in Uuid
        /\ initUuid \notin crossed => initUuid = nvsReq /\ nvsState = "reboot"
    BY <1>7 DEF InitReadPart, TypeOK, AppType, IInv, BootReadsFlash
  <2>2. appPc = "readPart" /\ appPc' = "erase"
        /\ UNCHANGED <<flash, initUuid, task, requested, marks, astray>>
    BY <1>7 DEF InitReadPart, InitReport
  <2>3. CASE nvsPart \notin {None, running}
    <3>1. Answered(initUuid, "Success", "", "boot")
      BY <1>7, <1>a, <2>3, NoneLost DEF InitReadPart, InitReport
    <3>2. Done' = Done \cup {initUuid} /\ Successes' = Successes \cup {initUuid}
      BY <2>1, <3>1, <1>a, DoneGrows DEF Codes, Errors
    <3>3. initUuid \notin crossed => BootSucceeds BY <2>1, <2>3 DEF BootSucceeds
    <3> QED BY <1>5, <2>1, <2>2, <3>2, <3>3
  <2>4. CASE nvsPart \in {None, running}
    <3>1. Answered(initUuid, "Failure", "SystemRollback", "boot")
      BY <1>7, <1>a, <2>4, NoneLost DEF InitReadPart, InitReport
    <3>2. Done' = Done \cup {initUuid} /\ Successes' = Successes
      BY <2>1, <3>1, <1>a, DoneGrows DEF Codes
    <3>3. ~BootSucceeds BY <2>4 DEF BootSucceeds
    <3> QED BY <1>5, <2>1, <2>2, <3>2, <3>3
  <2> QED BY <2>3, <2>4
<1> QED BY <1>1, <1>2, <1>3, <1>4, <1>6, <1>7 DEF BootStep

\* Of the requests of the server only one that starts an update is taken in hand; one
\* that starts it while edgehog_ota_init runs leaves the service at once.
LEMMA RequestService ==
    ASSUME TypeOK, IInv, VerdictInv, ServiceInv, NEW u \in Uuid, Request(u)
    PROVE  ServiceInv' /\ [Service!Next]_(Service!service)
<1> USE DEF flash, app, mqtt, task, env, history
<1>a. None \notin Uuid /\ nvsReq \in Uuid \cup {None}
  BY SentinelAssumption DEF TypeOK, FlashType
<1>b. Done \subseteq requested /\ Successes \subseteq Done /\ UNCHANGED <<Done, Successes>>
  BY WhatStands, DoneKept
     DEF Request, MalformedRequest, UpdateRefused, UpdateAccepted, UpdateNotSpawned,
         CancelRequest
<1>1. CASE MalformedRequest(u) \/ UpdateRefused(u) \/ CancelRequest(u)
  <2>1. /\ UNCHANGED <<flash, app, task, history>>
        /\ requested \subseteq requested'
    BY <1>1 DEF MalformedRequest, UpdateRefused, CancelRequest, NewRequest
  <2>2. ServiceInv' BY <2>1, <1>b DEF ServiceInv, TaskOn
  <2>3. UNCHANGED PendingRequest
    BY <2>1, <1>b DEF PendingRequest, TaskOn, Disowned
  <2> QED BY <2>1, <2>2, <2>3, Silent
<1>2. CASE UpdateNotSpawned(u)
  <2>1. /\ taskPc = "none" /\ UNCHANGED <<flash, app, taskPc, history>>
        /\ requested \subseteq requested'
    BY <1>2 DEF UpdateNotSpawned, TaskFound, NewRequest
  <2>2. ServiceInv' BY <2>1, <1>b DEF ServiceInv, TaskOn
  <2>3. UNCHANGED PendingRequest
    BY <2>1, <1>b DEF PendingRequest, TaskOn, Disowned
  <2> QED BY <2>1, <2>2, <2>3, Silent
<1>3. CASE UpdateAccepted(u)
  <2>1. /\ taskPc = "none" /\ taskPc' = "ack" /\ taskData' = u /\ u \notin requested
        /\ requested' = requested \cup {u}
        /\ crossed' = IF appPc = "ready" THEN crossed
                      ELSE crossed \cup ({u, nvsReq} \ {None})
        /\ UNCHANGED <<flash, app, answers, installed, undone>>
    BY <1>3 DEF UpdateAccepted, TaskFound, NewRequest
  <2>2. u \notin Done /\ u \notin installed /\ u \notin undone
    BY <1>b, <2>1 DEF ServiceInv
  <2>3. u \notin crossed
    BY <1>a, <2>1 DEF IInv, CrossedFirst
  <2>4. initUuid # u
    BY <2>1 DEF VerdictInv, AskedFirst
  <2>5. ServiceInv' BY <1>a, <1>b, <2>1, <2>2, <2>4 DEF ServiceInv, TaskOn
  <2>6. PendingRequest = IF nvsReq \in Uuid \ (Done \cup Disowned) THEN nvsReq ELSE None
    BY <2>1 DEF PendingRequest, TaskOn
  <2>7. CASE appPc = "ready"
    <3>1. UNCHANGED <<Disowned, Bootable, Verdict>>
      BY <2>1, <2>7, <1>b DEF Disowned, Bootable, Verdict
    <3>2. PendingRequest = None /\ PendingRequest' = u
      BY <1>b, <2>1, <2>2, <2>3, <2>6, <2>7, <3>1
         DEF PendingRequest, ServiceInv, TaskOn, Disowned
    <3>3. Verdict[u] = "open"
      BY <1>b, <2>2, <2>3 DEF Verdict, Disowned
    <3>4. Service!Accept(u)
      BY <2>2, <3>1, <3>2, <3>3 DEF Service!Accept, Bootable
    <3> QED BY <2>5, <3>4 DEF Service!Next
  <2>8. CASE appPc # "ready"
    <3> DEFINE us == {u, nvsReq} \ {None}
    <3>1. us \in SUBSET Uuid /\ Disowned' = Disowned \cup us
      BY <1>a, <2>1, <2>8 DEF Disowned
    <3>2. PendingRequest' = None
      BY <1>a, <2>1, <3>1 DEF PendingRequest, TaskOn
    <3>3. PendingRequest \in us \cup {None} BY <1>a, <2>6
    <3> HIDE DEF us
    <3>4. Service!Disown(us) BY <2>1, <3>1, <3>2, <3>3, Disowning
    <3> QED BY <2>5, <3>1, <3>4 DEF Service!Next
  <2> QED BY <2>7, <2>8
<1> QED BY <1>1, <1>2, <1>3 DEF Request

\* The task moves on to a step that the service does not tell from the one before.
LEMMA TaskMoves ==
    ASSUME ServiceInv, TaskOn, TaskOn',
           UNCHANGED <<nvsReq, appPc, initUuid, taskData, requested, answers, installed,
                       astray>>,
           taskPc \in {"ack", "open", "mark", "store"}
              <=> taskPc' \in {"ack", "open", "mark", "store"},
           taskPc' \in {"ack", "open", "mark", "store", "begin", "download", "finish",
                        "retry"}
              => taskPc \in {"ack", "open", "mark", "store", "begin", "download",
                             "finish", "retry"},
           taskPc' \in {"idle", "free"} => taskPc \in {"idle", "free"}
    PROVE  ServiceInv' /\ UNCHANGED Service!service
<1>1. UNCHANGED Done BY DoneKept
<1>2. ServiceInv' BY <1>1 DEF ServiceInv, TaskOn
<1>3. UNCHANGED PendingRequest BY <1>1 DEF PendingRequest, TaskOn, Disowned
<1> QED BY <1>2, <1>3, Silent

\* The later steps of Cancel touch neither the request in hand nor the verdicts.
LEMMA CancelStepService ==
    ASSUME ServiceInv, CancelStep
    PROVE  ServiceInv' /\ [Service!Next]_(Service!service)
<1>1. UNCHANGED <<nvsReq, appPc, initUuid, taskPc, taskData, requested, answers,
                  installed, astray>>
  BY DEF CancelStep, CancelRead, CancelRefused, CancelNotify, flash, app, task, env,
         history
<1>2. UNCHANGED Done BY <1>1, DoneKept
<1>3. ServiceInv' BY <1>1, <1>2 DEF ServiceInv, TaskOn
<1>4. UNCHANGED PendingRequest BY <1>1, <1>2 DEF PendingRequest, TaskOn, Disowned
<1> QED BY <1>1, <1>3, <1>4, Silent

\* The task installs the image of the request in hand, and settles it when it fails; of a
\* request that crossed the boot it changes nothing the service knows.
LEMMA TaskStepService ==
    ASSUME Quiet, TypeOK, IInv, VerdictInv, ServiceInv, TaskStep
    PROVE  ServiceInv' /\ [Service!Next]_(Service!service)
<1> USE DEF flash, app, mqtt, task, env, history, NoFault, Goto
<1>a. ~Fault /\ HistoryType BY NoFaults DEF TypeOK
<1>b. TaskOn
  BY DEF TaskOn, TaskStep, TaskAck, TaskOpen, TaskMark, TaskStore, TaskBegin,
         TaskPerform, TaskAbort, TaskFinish, TaskRetry, TaskLastCheck, TaskDeploy,
         TaskPart, TaskAnnounce, TaskRestart, TaskFail, TaskIdle, TaskFree, Canceled,
         AttemptFails
<1>c. /\ None \notin Uuid /\ taskData \in Uuid
      /\ taskData \in requested /\ Done \subseteq requested /\ Successes \subseteq Done
      /\ taskPc \notin {"idle", "free"} /\ taskData \in Done => taskData \in Disowned
  BY <1>b, SentinelAssumption, WhatStands DEF TypeOK, TaskType, TaskOn
<1>d. /\ appPc # "ready" => taskData \in crossed
      /\ taskData \in crossed => nvsReq \in crossed \cup {None}
      /\ taskData \in crossed <=> taskData \in Disowned
  BY <1>b DEF IInv, BootAlone, StrayId, ServiceInv, Disowned
<1>1. CASE TaskAck BY <1>1, <1>b, TaskMoves DEF TaskAck, TaskOn
<1>2. CASE TaskOpen BY <1>2, <1>a, <1>b, TaskMoves DEF TaskOpen, TaskOn
<1>3. CASE TaskMark BY <1>3, <1>b, TaskMoves DEF TaskMark, SetState, TaskOn
<1>4. CASE TaskStore
  <2>1. /\ nvsReq' = taskData /\ taskPc = "store" /\ taskPc' = "begin"
        /\ UNCHANGED <<app, taskData, requested, answers, marks, astray>>
    BY <1>4, <1>a DEF TaskStore, StoreId
  <2>2. UNCHANGED <<Done, Disowned>> BY <2>1, DoneKept DEF Disowned
  <2>3. ServiceInv' BY <2>1, <2>2, <1>c, <1>d DEF ServiceInv, TaskOn
  <2>4. UNCHANGED PendingRequest
    BY <2>1, <2>2, <1>b, <1>c, <1>d DEF PendingRequest, TaskOn, Disowned
  <2> QED BY <2>1, <2>3, <2>4, Silent
<1>5. CASE TaskBegin BY <1>5, <1>b, TaskMoves DEF TaskBegin, AttemptFails, TaskOn
<1>6. CASE TaskPerform BY <1>6, <1>b, TaskMoves DEF TaskPerform, AttemptFails, TaskOn
<1>7. CASE TaskAbort BY <1>7, <1>b, TaskMoves DEF TaskAbort, Canceled, TaskOn
<1>8. CASE TaskRetry BY <1>8, <1>b, TaskMoves DEF TaskRetry, TaskOn
<1>9. CASE TaskLastCheck
  BY <1>9, <1>b, TaskMoves DEF TaskLastCheck, Canceled, Uncanceled, TaskOn
<1>10. CASE TaskDeploy BY <1>10, <1>b, TaskMoves DEF TaskDeploy, SetState, TaskOn
<1>11. CASE TaskPart BY <1>11, <1>a, <1>b, TaskMoves DEF TaskPart, TaskOn
<1>12. CASE TaskAnnounce BY <1>12, <1>b, TaskMoves DEF TaskAnnounce, TaskOn
<1>13. CASE TaskIdle BY <1>13, <1>b, TaskMoves DEF TaskIdle, SetState, TaskOn
<1>14. CASE TaskFree
  <2>1. /\ taskPc = "free" /\ taskPc' = "deleted" /\ taskData \in Done
        /\ UNCHANGED <<flash, app, requested, answers, installed, astray>>
    BY <1>14 DEF TaskFree, ServiceInv
  <2>2. UNCHANGED <<Done, Disowned>> BY <2>1, DoneKept DEF Disowned
  <2>3. ServiceInv' BY <2>1, <2>2, <1>c, <1>d DEF ServiceInv, TaskOn
  <2>4. UNCHANGED PendingRequest BY <2>1, <2>2 DEF PendingRequest, TaskOn, Disowned
  <2> QED BY <2>1, <2>3, <2>4, Silent
<1>15. CASE TaskFinish
  <2>1. /\ taskPc = "finish" /\ taskPc' \in {"lastCheck", "retry"}
        /\ UNCHANGED <<nvsReq, app, taskData, requested, answers, astray>>
        /\ \/ UNCHANGED installed /\ taskPc' = "retry"
           \/ installed' = installed \cup {taskData} /\ taskPc' = "lastCheck"
    BY <1>15 DEF TaskFinish, AttemptFails
  <2>2. UNCHANGED <<Done, Disowned, Successes>> BY <2>1, DoneKept DEF Disowned
  <2>3. ServiceInv' BY <1>c, <2>1, <2>2 DEF ServiceInv, TaskOn
  <2>4. UNCHANGED PendingRequest BY <2>1, <2>2 DEF PendingRequest, TaskOn, Disowned
  <2>5. CASE Bootable' = Bootable BY <2>2, <2>3, <2>4, <2>5, Stutter
  <2>6. CASE installed' = installed \cup {taskData} /\ taskData \notin Disowned
    <3>1. taskData \notin installed /\ taskData # None /\ PendingRequest = taskData
      BY <1>b, <1>c, <2>1, <2>6 DEF ServiceInv, PendingRequest
    <3>2. Verdict' = Verdict BY <2>2 DEF Verdict
    <3>3. Bootable' = Bootable \cup {taskData} /\ taskData \notin Bootable
      BY <2>2, <2>6, <3>1 DEF Bootable
    <3>4. Service!Install BY <2>4, <3>1, <3>2, <3>3 DEF Service!Install
    <3> QED BY <2>3, <3>4 DEF Service!Next
  <2> QED BY <2>1, <2>2, <2>5, <2>6 DEF Bootable
<1>16. CASE TaskFail
  <2>1. taskReq = taskData /\ err \in Codes
    BY <1>16, <1>b DEF TaskFail, TaskOn, TypeOK, AttemptType, IInv, TaskWritesFlash, Codes
  <2>2. Done' = Done \cup {taskData} /\ Successes' = Successes
    BY <1>16, <1>a, <1>c, <2>1, NoneLost, DoneGrows DEF TaskFail
  <2>3. /\ taskPc = "fail" /\ taskPc' = "idle"
        /\ UNCHANGED <<nvsReq, app, taskData, requested, marks, astray>>
    BY <1>16 DEF TaskFail
  <2>4. UNCHANGED <<Disowned, Bootable>> BY <2>3 DEF Disowned, Bootable
  <2>5. ServiceInv' BY <1>c, <1>d, <2>2, <2>3 DEF ServiceInv, TaskOn
  <2>6. CASE taskData \in Disowned
    <3>1. UNCHANGED PendingRequest
      BY <1>d, <2>2, <2>3, <2>4, <2>6 DEF PendingRequest, TaskOn, Disowned
    <3> QED BY <2>2, <2>4, <2>5, <2>6, <3>1, Stutter
  <2>7. CASE taskData \notin Disowned
    <3>1. PendingRequest = taskData /\ PendingRequest' = None
      BY <1>b, <1>c, <2>2, <2>3, <2>4, <2>7 DEF PendingRequest, ServiceInv, Disowned
    <3>2. taskData \in Uuid \ (Done \cup Disowned) BY <1>c, <2>3, <2>7
    <3>3. Service!Settle("failed") BY <1>c, <2>2, <2>4, <3>1, <3>2, Settling
    <3> QED BY <2>5, <3>3 DEF Service!Next
  <2> QED BY <2>6, <2>7
<1>17. CASE TaskRestart BY <1>17, ResetService DEF TaskRestart
<1> QED
  BY <1>1, <1>2, <1>3, <1>4, <1>5, <1>6, <1>7, <1>8, <1>9, <1>10, <1>11, <1>12, <1>13,
     <1>14, <1>15, <1>16, <1>17 DEF TaskStep

\* Each step of the update is a step of the service or a stutter, and the update starts as
\* the service does.
THEOREM UpdateImplementsService == ASSUME Quiet PROVE Spec => ImplementsService
<1>1. Init => Service!Init /\ ServiceInv
  <2> SUFFICES ASSUME Init PROVE Service!Init /\ ServiceInv
    OBVIOUS
  <2>1. Done = {} /\ Successes = {} /\ Disowned = {}
    BY DEF Init, Done, Successes, Settled, Succeeded, Disowned
  <2>2. /\ PendingRequest = None /\ Bootable = {}
        /\ Verdict = [u \in Uuid |-> "open"]
    BY <2>1, SentinelAssumption DEF Init, PendingRequest, Bootable, Verdict, TaskOn
  <2>3. ServiceInv BY <2>1, SentinelAssumption DEF Init, ServiceInv, TaskOn
  <2> QED BY <2>2, <2>3 DEF Service!Init
<1>2. TypeOK /\ IInv /\ VerdictInv /\ ServiceInv /\ [Next]_vars
      => ServiceInv' /\ [Service!Next]_(Service!service)
  <2> SUFFICES ASSUME TypeOK, IInv, VerdictInv, ServiceInv, [Next]_vars
               PROVE  ServiceInv' /\ [Service!Next]_(Service!service)
    OBVIOUS
  <2>1. CASE Restart \/ CancelNotifyFreed
    BY <2>1, ResetService DEF Restart, CancelNotifyFreed
  <2>2. CASE IdleReap \/ UNCHANGED vars
    <3>1. /\ taskPc' = taskPc \/ (taskPc = "deleted" /\ taskPc' = "none")
          /\ UNCHANGED <<flash, app, taskData, requested, answers, marks, astray>>
      BY <2>2 DEF IdleReap, Goto, vars, task, env, history
    <3>2. UNCHANGED Done BY <3>1, DoneKept
    <3>3. ServiceInv' BY <3>1, <3>2 DEF ServiceInv, flash, app, TaskOn
    <3>4. UNCHANGED PendingRequest
      BY <3>1, <3>2 DEF PendingRequest, flash, TaskOn, Disowned
    <3> QED BY <3>1, <3>3, <3>4, Silent
  <2> QED
    BY <2>1, <2>2, BootStepService, RequestService, CancelStepService, TaskStepService
       DEF Next
<1>3. Spec => []VerdictInv BY VerdictInvariance
<1> QED BY <1>1, <1>2, <1>3, TypeCorrect, Invariance, PTL
        DEF Spec, ImplementsService, Service!Spec

-----------------------------------------------------------------------------
(* A success is reported by the image it is reported for. *)

\* pub_ota_event with a failure makes no request succeed.
LEMMA FailureIsNoSuccess ==
    ASSUME HistoryType, NEW v \in Uuid, Succeeded(v)',
           \/ UNCHANGED answers
           \/ \E u \in Uuid : \E code, by : Answer(u, "Failure", code, by)
    PROVE  Succeeded(v)
<1>1. CASE UNCHANGED answers BY <1>1 DEF Succeeded
<1>2. CASE \E u \in Uuid : \E code, by : Answer(u, "Failure", code, by)
  <2>1. PICK u \in Uuid : \E code, by : Answer(u, "Failure", code, by) BY <1>2
  <2>2. PICK code, by : Answer(u, "Failure", code, by) BY <2>1
  <2> QED BY <2>2, AnswerEffect
<1> QED BY <1>1, <1>2

\* Only edgehog_ota_init reports a success, when it finds that it runs from another slot
\* than the one the update left.
LEMMA OnlyBootSucceeds ==
    ASSUME TypeOK, IInv, [Next]_vars,
           NEW v \in Uuid \ crossed, Succeeded(v)', ~Succeeded(v)
    PROVE  appPc = "readPart" /\ BootSucceeds /\ nvsReq = v
<1> USE DEF history, vars
<1>a. HistoryType BY DEF TypeOK
<1>b. /\ appPc \in {"readState", "readPart"} => initUuid \in Uuid
      /\ taskPc \notin {"none", "deleted", "ack"} => taskReq \in Uuid
  BY SentinelAssumption DEF TypeOK, AppType, TaskType
<1>1. \/ UNCHANGED answers
      \/ \E u \in Uuid : \E code, by : Answer(u, "Failure", code, by)
      \/ /\ InitReadPart /\ nvsPart \notin {None, running}
         /\ Answer(initUuid, "Success", "", "boot")
  <2>1. CASE BootStep
    <3>1. CASE InitReadState
      BY <3>1, <1>b DEF InitReadState, Unfinished, InitReport
    <3>2. CASE InitReadPart
      BY <3>2, <1>b DEF InitReadPart, InitReport
    <3>3. CASE InitReadUuid \/ InitErase \/ InitIdle
      BY <3>3 DEF InitReadUuid, InitErase, InitIdle
    <3> QED BY <2>1, <3>1, <3>2, <3>3 DEF BootStep
  <2>2. CASE \E u \in Uuid : Request(u)
    BY <2>2 DEF Request, MalformedRequest, UpdateRefused, UpdateAccepted,
       UpdateNotSpawned, CancelRequest
  <2>3. CASE CancelStep BY <2>3 DEF CancelStep, CancelRead, CancelNotify
  <2>4. CASE TaskStep
    <3>1. CASE TaskOpen BY <3>1, <1>b DEF TaskOpen, Goto
    <3>2. CASE TaskPart BY <3>2, <1>b DEF TaskPart, Goto
    <3>3. CASE TaskFail BY <3>3, <1>b DEF TaskFail, Goto
    <3>4. CASE UNCHANGED answers BY <3>4
    <3> QED
      BY <2>4, <3>1, <3>2, <3>3, <3>4
         DEF TaskStep, TaskAck, TaskMark, TaskStore, TaskBegin, TaskPerform, TaskAbort,
             TaskFinish, TaskRetry, TaskLastCheck, TaskDeploy, TaskAnnounce, TaskIdle,
             TaskFree, TaskRestart, Reset
  <2>5. CASE Restart \/ CancelNotifyFreed BY <2>5 DEF Restart, CancelNotifyFreed, Reset
  <2>6. CASE IdleReap \/ UNCHANGED vars BY <2>6 DEF IdleReap
  <2> QED BY <2>1, <2>2, <2>3, <2>4, <2>5, <2>6 DEF Next
<1>2. /\ InitReadPart /\ nvsPart \notin {None, running}
      /\ Answer(initUuid, "Success", "", "boot")
  BY <1>1, <1>a, FailureIsNoSuccess
<1>3. appPc = "readPart" BY <1>2 DEF InitReadPart
<1>4. initUuid = v BY <1>2, <1>3, <1>a, <1>b, AnswerEffect
<1> QED BY <1>2, <1>3, <1>4 DEF IInv, BootReadsFlash, BootSucceeds

\* A boot that would report success runs the image of the request: the restart of the task
\* left the address of the slot it ran from, the image in the other one, and nothing to
\* roll back to.
LEMMA BootRunsInvariance == ASSUME Quiet PROVE Spec => []BootRunsImage
<1>1. Init => BootRunsImage BY DEF Init, BootRunsImage, BootSucceeds
<1>2. TypeOK /\ IInv /\ BootRunsImage /\ [Next]_vars => BootRunsImage'
  <2> SUFFICES ASSUME TypeOK, IInv, BootRunsImage, [Next]_vars PROVE BootRunsImage'
    OBVIOUS
  <2> USE DEF flash, app, mqtt, task, env, history, BootRunsImage, BootSucceeds
  <2>1. CASE BootStep
    BY <2>1 DEF BootStep, InitReadUuid, InitReadState, InitReadPart, InitErase,
       InitIdle, Unfinished, InitReport, SetState
  <2>2. CASE \E u \in Uuid : Request(u)
    <3> PICK u \in Uuid : Request(u) BY <2>2
    <3>1. CASE UpdateAccepted(u) BY <3>1 DEF UpdateAccepted
    <3>2. CASE ~UpdateAccepted(u)
      BY <3>2 DEF Request, MalformedRequest, UpdateRefused, UpdateNotSpawned,
         CancelRequest, TaskFound
    <3> QED BY <3>1, <3>2
  <2>3. CASE CancelStep
    BY <2>3 DEF CancelStep, CancelRead, CancelNotify, CancelRefused
  <2>4. CASE TaskStep /\ ~TaskRestart
    <3>1. TaskOn /\ UNCHANGED <<appPc, running, crossed, restarts>>
      BY <2>4 DEF TaskStep, TaskAck, TaskOpen, TaskMark, TaskStore, TaskBegin,
         TaskPerform, TaskAbort, TaskFinish, TaskRetry, TaskLastCheck, TaskDeploy,
         TaskPart, TaskAnnounce, TaskFail, TaskIdle, TaskFree, TaskOn, Goto, Canceled,
         AttemptFails
    <3>2. nvsReq' \in {nvsReq, taskData}
      BY <2>4 DEF TaskStep, TaskAck, TaskOpen, TaskMark, TaskStore,
         TaskBegin, TaskPerform, TaskAbort, TaskFinish, TaskRetry, TaskLastCheck,
         TaskDeploy, TaskPart, TaskAnnounce, TaskFail, TaskIdle, TaskFree, StoreId
    <3>3. appPc # "ready" => nvsReq' \in crossed \cup {None}
      BY <3>1, <3>2 DEF IInv, BootAlone, StrayId
    <3>4. taskPc' \in {"finish", "lastCheck", "deploy", "part", "announce", "restart"}
          => fallback' = None
      BY <2>4 DEF TaskStep, TaskAck, TaskOpen, TaskMark, TaskStore, TaskBegin,
         TaskPerform, TaskAbort, TaskFinish, TaskRetry, TaskLastCheck, TaskDeploy,
         TaskPart, TaskAnnounce, TaskFail, TaskIdle, TaskFree, Goto, Canceled,
         AttemptFails, OpenFailed
    <3> QED BY <3>1, <3>3, <3>4
  <2>5. CASE TaskRestart
    <3>1. /\ fallback = None /\ nvsPart = running /\ image[bootSlot] = taskReq
          /\ nvsReq \in crossed \cup {None, taskReq}
      BY <2>5 DEF TaskRestart, IInv, TaskWritesFlash, InFlightIsRecorded, StrayId, TaskOn
    <3> QED BY <2>5, <3>1 DEF TaskRestart, Reset, RollsBack
  <2>6. CASE Restart \/ CancelNotifyFreed
    <3>1. restarts' = restarts + 1 /\ taskPc' = "none"
      BY <2>6 DEF Restart, CancelNotifyFreed, Reset
    <3>2. restarts \in Nat BY BoundAssumption DEF TypeOK, EnvType
    <3> QED BY <3>1, <3>2
  <2>7. CASE IdleReap \/ UNCHANGED vars
    BY <2>7 DEF IdleReap, Goto, vars
  <2> QED BY <2>1, <2>2, <2>3, <2>4, <2>5, <2>6, <2>7 DEF Next
<1> QED BY <1>1, <1>2, TypeCorrect, Invariance, PTL DEF Spec

\* While only the update restarts the device, rollbacks included, a success is reported by
\* the image it is reported for.
THEOREM SuccessRunsItsImage == ASSUME Quiet PROVE Spec => SuccessRunsImage
<1>1. TypeOK /\ IInv /\ BootRunsImage /\ [Next]_vars => SuccessRuns
  <2> SUFFICES ASSUME TypeOK, IInv, BootRunsImage, [Next]_vars, restarts = 0,
                      NEW v \in Uuid \ crossed, Succeeded(v)', ~Succeeded(v)
               PROVE  image[running] = v
    BY DEF SuccessRuns
  <2>1. appPc = "readPart" /\ BootSucceeds /\ nvsReq = v BY OnlyBootSucceeds
  <2>2. v # None BY SentinelAssumption
  <2> QED BY <2>1, <2>2 DEF BootRunsImage
<1>2. UNCHANGED vars => SuccessRuns BY DEF SuccessRuns, vars, history, Succeeded
<1> QED BY <1>1, <1>2, TypeCorrect, Invariance, BootRunsInvariance, PTL
        DEF Spec, SuccessRunsImage

-----------------------------------------------------------------------------
(* The statuses of a request follow each other; faults may happen. *)

\* pub_ota_event with a status changes what was reported of one request.
LEMMA ReportEffect ==
    ASSUME HistoryType, NEW u \in Uuid, NEW status, Report(u, status), NEW v \in Uuid
    PROVE  progress'[v] = IF v = u THEN status ELSE progress[v]
BY DEF Report, HistoryType

\* A verdict, published or lost, settles no other request.
LEMMA AnswerSettles ==
    ASSUME HistoryType, NEW u \in Uuid, NEW status, NEW code, NEW by,
           Answer(u, status, code, by)
    PROVE  Done \subseteq Done' /\ Done' \subseteq Done \cup {u}
<1>1. ASSUME NEW v \in Uuid
      PROVE  (Settled(v) => Settled(v)') /\ (Settled(v)' => Settled(v) \/ v = u)
  BY DEF Answer, Answered, Lost, HistoryType, Settled
<1> QED BY <1>1 DEF Done

\* A step that reports nothing and leaves the task where it is.
LEMMA TaskStays ==
    ASSUME OrderInv, UNCHANGED <<taskPc, taskReq, taskData, requested, crossed, progress>>,
           appPc' # "ready" => appPc # "ready",
           {nvsReq, initUuid}' \subseteq {nvsReq, initUuid, None},
           Done \subseteq Done',
           \A v \in Done' \ Done : v \in requested /\ (TaskOn /\ v = taskData => v \in crossed)
    PROVE  OrderInv' /\ StepsInOrder
BY DEF OrderInv, TaskOn, ProgressAt, StepsInOrder

\* The task moves on without a report: what it has reported is what the next step expects.
LEMMA TaskSilent ==
    ASSUME OrderInv, TaskOn, TaskOn', taskPc # "ack",
           UNCHANGED <<appPc, initUuid, taskReq, taskData, requested, crossed, progress>>,
           nvsReq' \in {nvsReq, taskData},
           Done \subseteq Done', Done' \subseteq Done \cup {taskData},
           taskPc' \in DOMAIN ProgressAt
              => /\ Done' = Done /\ taskPc \in DOMAIN ProgressAt
                 /\ ProgressAt[taskPc] \subseteq ProgressAt[taskPc']
    PROVE  OrderInv' /\ StepsInOrder
BY DEF OrderInv, TaskOn, StepsInOrder

\* The task moves on with a report that may follow the one before.
LEMMA TaskReports ==
    ASSUME HistoryType, OrderInv, TaskOn, TaskOn', taskData \in Uuid,
           taskPc \in DOMAIN ProgressAt,
           UNCHANGED <<nvsReq, appPc, initUuid, taskData, requested, crossed, answers>>,
           taskReq' = taskData,
           NEW status \in Steps, Report(taskData, status),
           taskPc' \in DOMAIN ProgressAt => status \in ProgressAt[taskPc'],
           \A p \in ProgressAt[taskPc] : status \in StepOrder[p] \cup {p}
    PROVE  OrderInv' /\ StepsInOrder
<1>1. \A v \in Uuid : progress'[v] = IF v = taskData THEN status ELSE progress[v]
  BY ReportEffect
<1>2. UNCHANGED Done BY DoneKept
<1>3. taskData \in requested /\ (Settled(taskData) => taskData \in crossed)
  BY DEF OrderInv, TaskOn, Done
<1>4. OrderInv' BY <1>1, <1>2, <1>3 DEF OrderInv, TaskOn
<1>5. StepsInOrder BY <1>1, <1>3 DEF OrderInv, StepsInOrder
<1> QED BY <1>4, <1>5

\* OrderInv is kept by the steps of edgehog_ota_init: a request that it settles under its
\* task has crossed the boot.
LEMMA BootStepOrder ==
    ASSUME TypeOK, OrderInv, BootStep
    PROVE  OrderInv' /\ StepsInOrder
<1> USE DEF flash, app, mqtt, task, env, history
<1>a. /\ HistoryType
      /\ appPc \in {"readState", "readPart"} => initUuid \in Uuid /\ initUuid \in requested
  BY SentinelAssumption DEF TypeOK, AppType, OrderInv
<1>b. appPc # "ready" /\ (TaskOn => taskData \in crossed)
  BY DEF OrderInv, BootStep, InitReadUuid, InitReadState, InitReadPart, InitErase,
     InitIdle
<1>1. CASE InitReadUuid \/ InitErase \/ InitIdle
  BY <1>1, <1>b, DoneKept, TaskStays DEF InitReadUuid, InitErase, InitIdle, SetState
<1>2. CASE InitReadState \/ InitReadPart
  <2>1. appPc \in {"readState", "readPart"} BY <1>2 DEF InitReadState, InitReadPart
  <2>2. \/ UNCHANGED answers
        \/ \E status, code : Answer(initUuid, status, code, "boot")
    BY <1>2 DEF InitReadState, InitReadPart, Unfinished, InitReport
  <2>3. Done \subseteq Done' /\ Done' \subseteq Done \cup {initUuid}
    BY <1>a, <2>1, <2>2, DoneKept, AnswerSettles
  <2>4. UNCHANGED <<nvsReq, initUuid, taskPc, taskReq, taskData, requested, crossed,
                    progress>>
    BY <1>2 DEF InitReadState, InitReadPart
  <2> QED BY <1>a, <1>b, <2>1, <2>3, <2>4, TaskStays
<1> QED BY <1>1, <1>2 DEF BootStep

\* OrderInv is kept by the requests of the server: a new one has no status yet.
LEMMA RequestOrder ==
    ASSUME TypeOK, OrderInv, NEW u \in Uuid, Request(u)
    PROVE  OrderInv' /\ StepsInOrder
<1> USE DEF flash, app, mqtt, task, env, history
<1>1. UNCHANGED <<Done, progress>>
  BY DoneKept DEF Request, MalformedRequest, UpdateRefused, UpdateAccepted,
     UpdateNotSpawned, CancelRequest
<1>2. StepsInOrder BY <1>1 DEF StepsInOrder
<1>3. CASE MalformedRequest(u) \/ UpdateRefused(u) \/ CancelRequest(u)
  <2>1. /\ UNCHANGED <<nvsReq, appPc, initUuid, taskPc, taskReq, taskData, crossed>>
        /\ requested \subseteq requested'
    BY <1>3 DEF MalformedRequest, UpdateRefused, CancelRequest, NewRequest
  <2> QED BY <1>1, <1>2, <2>1 DEF OrderInv, TaskOn, ProgressAt
<1>4. CASE UpdateNotSpawned(u)
  BY <1>1, <1>2, <1>4
     DEF UpdateNotSpawned, TaskFound, NewRequest, OrderInv, TaskOn, ProgressAt
<1>5. CASE UpdateAccepted(u)
  <2>1. None \notin Uuid BY SentinelAssumption
  <2>2. /\ taskPc' = "ack" /\ taskData' = u /\ u \notin requested
        /\ requested' = requested \cup {u} /\ UNCHANGED <<nvsReq, appPc, initUuid>>
        /\ appPc # "ready" => u \in crossed'
    BY <1>5, <2>1 DEF UpdateAccepted, NewRequest
  <2>3. OrderInv' BY <1>1, <2>2 DEF OrderInv, TaskOn, ProgressAt
  <2> QED BY <1>2, <2>3
<1> QED BY <1>3, <1>4, <1>5 DEF Request

\* OrderInv is kept by the later steps of Cancel.
LEMMA CancelStepOrder ==
    ASSUME OrderInv, CancelStep
    PROVE  OrderInv' /\ StepsInOrder
<1>1. UNCHANGED <<nvsReq, appPc, initUuid, taskPc, taskReq, taskData, requested, crossed,
                  progress, answers>>
  BY DEF CancelStep, CancelRead, CancelRefused, CancelNotify, flash, app, task, job, env,
         history
<1> QED BY <1>1, DoneKept, TaskStays

\* OrderInv is kept by the steps of ota_task_code, which report what they do in order.
LEMMA TaskStepOrder ==
    ASSUME TypeOK, OrderInv, TaskStep, ~Reset
    PROVE  OrderInv' /\ StepsInOrder
<1> USE DEF flash, app, mqtt, task, env, history, Goto, TaskOn
<1>a. HistoryType BY DEF TypeOK
<1>b. TaskOn
  BY DEF TaskStep, TaskAck, TaskOpen, TaskMark, TaskStore, TaskBegin, TaskPerform,
         TaskAbort, TaskFinish, TaskRetry, TaskLastCheck, TaskDeploy, TaskPart,
         TaskAnnounce, TaskRestart, TaskFail, TaskIdle, TaskFree, Canceled, AttemptFails
<1>c. taskData \in Uuid /\ (taskPc # "ack" => taskReq = taskData)
  BY <1>b, SentinelAssumption DEF TypeOK, TaskType, OrderInv
<1> USE DEF ProgressAt, StepOrder, Steps
<1>1. CASE TaskAck BY <1>1, <1>a, <1>b, <1>c, TaskReports DEF TaskAck
<1>2. CASE TaskOpen
  <2>1. Done \subseteq Done' /\ Done' \subseteq Done \cup {taskData}
        /\ (taskPc' = "mark" => Done' = Done)
    BY <1>2, <1>a, <1>c, DoneKept, AnswerSettles DEF TaskOpen, OpenFailed
  <2> QED BY <1>2, <1>b, <2>1, TaskSilent DEF TaskOpen, OpenFailed
<1>3. CASE TaskMark BY <1>3, <1>b, DoneKept, TaskSilent DEF TaskMark
<1>4. CASE TaskStore BY <1>4, <1>b, DoneKept, TaskSilent DEF TaskStore, StoreId
<1>5. CASE TaskBegin
  BY <1>5, <1>a, <1>b, <1>c, TaskReports DEF TaskBegin, AttemptFails
<1>6. CASE TaskPerform
  <2>1. CASE UNCHANGED progress
    BY <1>6, <2>1, <1>b, DoneKept, TaskSilent DEF TaskPerform, AttemptFails
  <2>2. CASE Report(taskData, "Downloading")
    BY <1>6, <2>2, <1>a, <1>b, <1>c, TaskReports DEF TaskPerform, AttemptFails
  <2> QED BY <1>6, <2>1, <2>2 DEF TaskPerform
<1>7. CASE TaskAbort BY <1>7, <1>b, DoneKept, TaskSilent DEF TaskAbort, Canceled
<1>8. CASE TaskFinish BY <1>8, <1>b, DoneKept, TaskSilent DEF TaskFinish, AttemptFails
<1>9. CASE TaskRetry BY <1>9, <1>a, <1>b, <1>c, TaskReports DEF TaskRetry
<1>10. CASE TaskLastCheck
  BY <1>10, <1>b, DoneKept, TaskSilent DEF TaskLastCheck, Canceled, Uncanceled
<1>11. CASE TaskDeploy BY <1>11, <1>a, <1>b, <1>c, TaskReports DEF TaskDeploy
<1>12. CASE TaskPart
  <2>1. CASE taskPc' = "announce"
    BY <1>12, <2>1, <1>a, <1>b, <1>c, TaskReports DEF TaskPart
  <2>2. CASE taskPc' = "free"
    <3>1. Done \subseteq Done' /\ Done' \subseteq Done \cup {taskData}
      BY <1>12, <2>2, <1>a, <1>c, AnswerSettles DEF TaskPart
    <3> QED BY <1>12, <2>2, <1>b, <3>1, TaskSilent DEF TaskPart
  <2> QED BY <1>12, <2>1, <2>2 DEF TaskPart
<1>13. CASE TaskAnnounce BY <1>13, <1>a, <1>b, <1>c, TaskReports DEF TaskAnnounce
<1>14. CASE TaskFail
  <2>1. Done \subseteq Done' /\ Done' \subseteq Done \cup {taskData}
    BY <1>14, <1>a, <1>c, AnswerSettles DEF TaskFail
  <2> QED BY <1>14, <1>b, <2>1, TaskSilent DEF TaskFail
<1>15. CASE TaskIdle BY <1>15, <1>b, DoneKept, TaskSilent DEF TaskIdle
<1>16. CASE TaskFree
  <2>1. UNCHANGED Done BY <1>16, DoneKept DEF TaskFree
  <2>2. \A v \in Uuid : progress'[v] = "none" BY <1>16 DEF TaskFree, NoReports
  <2>3. OrderInv' BY <1>16, <2>1, <2>2 DEF TaskFree, OrderInv
  <2> QED BY <2>2, <2>3 DEF StepsInOrder
<1>17. CASE TaskRestart BY <1>17 DEF TaskRestart
<1> QED
  BY <1>1, <1>2, <1>3, <1>4, <1>5, <1>6, <1>7, <1>8, <1>9, <1>10, <1>11, <1>12, <1>13,
     <1>14, <1>15, <1>16, <1>17 DEF TaskStep

\* The statuses follow each other as the procedure does, and none follows the verdict but
\* of a request that crossed the boot, whatever calls of the NVS or partition API fail.
THEOREM StepsAreOrdered == Spec => ProgressOrder
<1>1. Init => OrderInv
  <2> SUFFICES ASSUME Init PROVE OrderInv
    OBVIOUS
  <2>1. Done = {} BY DEF Init, Done, Settled
  <2> QED BY <2>1 DEF Init, OrderInv, TaskOn, ProgressAt
<1>2. TypeOK /\ OrderInv /\ [Next]_vars => OrderInv' /\ StepsInOrder
  <2> SUFFICES ASSUME TypeOK, OrderInv, [Next]_vars PROVE OrderInv' /\ StepsInOrder
    OBVIOUS
  <2>1. CASE Reset
    <3>1. UNCHANGED Done BY <2>1, DoneKept DEF Reset
    <3>2. \A v \in Uuid : progress'[v] = "none" BY <2>1 DEF Reset, NoReports
    <3> QED BY <2>1, <3>1, <3>2 DEF Reset, OrderInv, TaskOn, ProgressAt, StepsInOrder
  <2>2. CASE IdleReap \/ UNCHANGED vars
    <3>1. /\ taskPc' = taskPc \/ (taskPc = "deleted" /\ taskPc' = "none")
          /\ UNCHANGED <<nvsReq, appPc, initUuid, taskData, taskReq, requested, crossed,
                         answers, progress>>
      BY <2>2 DEF IdleReap, Goto, vars, flash, app, task, env, history
    <3>2. UNCHANGED Done BY <3>1, DoneKept
    <3>3. OrderInv' BY <3>1, <3>2 DEF OrderInv, TaskOn, ProgressAt
    <3> QED BY <3>1, <3>3 DEF StepsInOrder
  <2>3. CASE Restart \/ CancelNotifyFreed BY <2>1, <2>3 DEF Restart, CancelNotifyFreed
  <2> QED
    BY <2>1, <2>2, <2>3, BootStepOrder, RequestOrder, CancelStepOrder, TaskStepOrder
       DEF Next
<1>3. UNCHANGED vars => StepsInOrder BY DEF StepsInOrder, vars, history
<1> QED BY <1>1, <1>2, <1>3, TypeCorrect, PTL DEF Spec, ProgressOrder

-----------------------------------------------------------------------------
(* A notification in time is never lost; the task owns its data.  Neither needs
   the conditions above. *)

\* While the task has checks ahead of it, a notification that came in time is still
\* pending; once it deploys, none came.
THEOREM CancelInTimeWins == Spec => []InTimeCancelWins
<1>1. Init => CancelIsPending
  BY DEF Init, CancelIsPending, InTimeCancelWins
<1>2. CancelIsPending /\ [Next]_vars => CancelIsPending'
  <2> SUFFICES ASSUME CancelIsPending, [Next]_vars PROVE CancelIsPending'
    OBVIOUS
  <2> USE DEF CancelIsPending, InTimeCancelWins, Cancellable
  <2>1. CASE BootStep
    <3>1. CASE InitReadUuid BY <3>1 DEF InitReadUuid, history, task, Goto
    <3>2. CASE InitReadState BY <3>2 DEF InitReadState, history, task, Goto
    <3>3. CASE InitReadPart BY <3>3 DEF InitReadPart, history, task, Goto
    <3>4. CASE InitErase BY <3>4 DEF InitErase, history, task, Goto
    <3>5. CASE InitIdle BY <3>5 DEF InitIdle, history, task, Goto
    <3> QED BY <2>1, <3>1, <3>2, <3>3, <3>4, <3>5 DEF BootStep
  <2>2. CASE \E u \in Uuid : Request(u)
    <3> PICK u \in Uuid : Request(u) BY <2>2
    <3>1. CASE MalformedRequest(u) BY <3>1 DEF MalformedRequest, history, task, Goto
    <3>2. CASE UpdateRefused(u) BY <3>2 DEF UpdateRefused, history, task, Goto
    <3>3. CASE UpdateAccepted(u) BY <3>3 DEF UpdateAccepted, history, task, Goto
    <3>4. CASE UpdateNotSpawned(u) BY <3>4 DEF UpdateNotSpawned, history, task, Goto
    <3>5. CASE CancelRequest(u) BY <3>5 DEF CancelRequest, history, task, Goto
    <3> QED BY <3>1, <3>2, <3>3, <3>4, <3>5 DEF Request
  <2>3. CASE CancelStep
    <3>1. CASE CancelRead BY <3>1 DEF CancelRead, history, task, Goto
    <3>2. CASE CancelNotify BY <3>2 DEF CancelNotify, history, task, Goto
    <3> QED BY <2>3, <3>1, <3>2 DEF CancelStep
  <2>4. CASE TaskStep
    <3>1. CASE TaskAck BY <3>1 DEF TaskAck, history, task, Goto
    <3>2. CASE TaskOpen BY <3>2 DEF TaskOpen, history, task, Goto, OpenFailed
    <3>3. CASE TaskMark BY <3>3 DEF TaskMark, history, task, Goto
    <3>4. CASE TaskStore BY <3>4 DEF TaskStore, history, task, Goto
    <3>5. CASE TaskBegin BY <3>5 DEF TaskBegin, history, task, Goto, AttemptFails
    <3>6. CASE TaskPerform BY <3>6 DEF TaskPerform, history, task, Goto, AttemptFails
    <3>7. CASE TaskAbort
      BY <3>7 DEF TaskAbort, history, task, Goto, Canceled, Uncanceled
    <3>8. CASE TaskFinish BY <3>8 DEF TaskFinish, history, task, Goto, AttemptFails
    <3>9. CASE TaskRetry BY <3>9 DEF TaskRetry, history, task, Goto
    <3>10. CASE TaskLastCheck
      BY <3>10 DEF TaskLastCheck, history, task, Goto, Canceled, Uncanceled
    <3>11. CASE TaskDeploy BY <3>11 DEF TaskDeploy, history, task, Goto
    <3>12. CASE TaskPart BY <3>12 DEF TaskPart, history, task, Goto
    <3>13. CASE TaskAnnounce BY <3>13 DEF TaskAnnounce, history, task, Goto
    <3>14. CASE TaskRestart BY <3>14 DEF TaskRestart, Reset
    <3>15. CASE TaskFail BY <3>15 DEF TaskFail, history, task, Goto
    <3>16. CASE TaskIdle BY <3>16 DEF TaskIdle, history, task, Goto
    <3>17. CASE TaskFree BY <3>17 DEF TaskFree, history, task, Goto
    <3> QED BY <2>4, <3>1, <3>2, <3>3, <3>4, <3>5, <3>6, <3>7, <3>8, <3>9, <3>10, <3>11,
         <3>12, <3>13, <3>14, <3>15, <3>16, <3>17 DEF TaskStep
  <2>5. CASE Restart BY <2>5 DEF Restart, Reset
  <2>6. CASE CancelNotifyFreed BY <2>6 DEF CancelNotifyFreed, Restart, Reset
  <2>7. CASE IdleReap BY <2>7 DEF IdleReap, Goto, history
  <2>8. CASE UNCHANGED vars BY <2>8 DEF vars, task, history
  <2> QED BY <2>1, <2>2, <2>3, <2>4, <2>5, <2>6, <2>7, <2>8 DEF Next
<1>3. CancelIsPending => InTimeCancelWins BY DEF CancelIsPending
<1> QED BY <1>1, <1>2, <1>3, PTL DEF Spec

\* No request, cancellation or step of another activity replaces or frees the data
\* of a task that lives.
THEOREM LiveDataIsKept == Spec => LiveDataKept
<1>1. ASSUME [Next]_vars, taskPc \notin {"none", "free", "deleted"},
             taskPc' \notin {"none", "deleted"}
      PROVE  taskData' = taskData
  <2>1. CASE BootStep
    BY <2>1 DEF BootStep, InitReadUuid, InitReadState, InitReadPart, InitErase,
       InitIdle, task
  <2>2. CASE \E u \in Uuid : Request(u)
    BY <2>2, <1>1 DEF Request, MalformedRequest, UpdateRefused, UpdateAccepted,
       UpdateNotSpawned, CancelRequest, TaskFound, task
  <2>3. CASE CancelStep BY <2>3 DEF CancelStep, CancelRead, CancelNotify, task
  <2>4. CASE TaskStep
    <3>1. ~Reset BY <1>1 DEF Reset
    <3> QED
      BY <2>4, <3>1, <1>1
         DEF TaskStep, TaskAck, TaskOpen, TaskMark, TaskStore, TaskBegin, TaskPerform,
             TaskAbort, TaskFinish, TaskRetry, TaskLastCheck, TaskDeploy, TaskPart,
             TaskAnnounce, TaskRestart, TaskFail, TaskIdle, TaskFree, Goto
  <2>5. CASE Restart \/ CancelNotifyFreed
    BY <2>5, <1>1 DEF Restart, CancelNotifyFreed, Reset
  <2>6. CASE IdleReap BY <2>6, <1>1 DEF IdleReap, Goto
  <2>7. CASE UNCHANGED vars BY <2>7 DEF vars, task
  <2> QED BY <1>1, <2>1, <2>2, <2>3, <2>4, <2>5, <2>6, <2>7 DEF Next
<1> QED BY <1>1, PTL DEF Spec, LiveDataKept

=============================================================================
