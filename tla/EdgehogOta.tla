------------------------------ MODULE EdgehogOta ------------------------------
(***************************************************************************)
(* The over-the-air update of src/edgehog_ota.c.                           *)
(*                                                                         *)
(* Three activities of one device share the flash and the RAM:             *)
(*   - the application task, which runs edgehog_ota_init once per boot;    *)
(*   - the MQTT task, which runs edgehog_ota_event for every OTARequest;   *)
(*   - the "OTA UPDATE TASK", which runs ota_task_code.                    *)
(* The flash survives a restart: the request id, the state and the         *)
(* partition address the code keeps in NVS, the application slots and what *)
(* the bootloader knows of them.  A step of a model action ends at each    *)
(* write to the flash and at each point where another activity can see or  *)
(* change what the next step uses.                                         *)
(*                                                                         *)
(* Nothing keeps the MQTT task from handing requests over while            *)
(* edgehog_ota_init runs, and nothing keeps the bootloader from rolling    *)
(* back an image that has run.  Both take requests out of what the update  *)
(* can promise: crossed and undone are those requests.                     *)
(***************************************************************************)
EXTENDS Naturals

CONSTANTS
    Uuid,           \* the UUIDs of the requests the server sends
    Slot,           \* the application partitions
    FactorySlot,    \* the partition the device starts from first
    Factory,        \* the image the device was shipped with
    None,           \* an absent value
    MaxOtaRetry,    \* MAX_OTA_RETRY
    MaxChunks,      \* bound: chunks of an image that one attempt reads
    MaxCancels,     \* bound: Cancel requests of the server
    MaxRestarts,    \* bound: restarts the update did not ask for
    MaxFaults       \* bound: failing calls of the NVS or partition API

ASSUME SentinelAssumption ==
    None \notin Uuid \cup Slot /\ Factory \notin Uuid /\ Factory # None

ASSUME SlotAssumption ==
    FactorySlot \in Slot /\ \A s \in Slot : \E t \in Slot : s # t

ASSUME BoundAssumption ==
    /\ MaxOtaRetry \in Nat \ {0}
    /\ MaxChunks \in Nat /\ MaxCancels \in Nat
    /\ MaxRestarts \in Nat /\ MaxFaults \in Nat

VARIABLES
    \* Flash.
    nvsReq,       \* OTA_REQUEST_ID_KEY
    nvsState,     \* OTA_STATE_KEY
    nvsPart,      \* OTA_PARTITION_ADDR_KEY
    bootSlot,     \* the slot the bootloader starts
    fallback,     \* the slot a reset can still roll back to, or None
    image,        \* what each slot holds: a request's image, Factory or None
    \* RAM of the application task, in edgehog_ota_init.
    running,      \* esp_ota_get_running_partition()
    appPc, initUuid,
    \* RAM of the MQTT task, in edgehog_ota_event.
    mqttPc, mqttReq,
    \* RAM of the OTA task.
    taskPc,
    taskReq,      \* the local req_uuid of ota_task_code
    taskData,     \* the static ota_task_data.req_uuid; None once freed
    attempt, chunk, err,
    notified,     \* the task's pending notification
    \* What the environment did.
    requested, cancelAsked, cancels, restarts, faults,
    \* History: what was observed, and what the properties except.
    answers,      \* final OTAEvents of each request
    progress,     \* the last other OTAEvent of each request, until its task is gone
    installed,    \* requests whose image was completed and made bootable
    inTime,       \* was the update notified before its last check?
    crossed,      \* requests accepted while edgehog_ota_init ran, and those
                  \* that were in NVS then
    undone        \* requests a boot had settled, and not yet forgotten, when the
                  \* image that ran was rolled back

slots   == <<bootSlot, fallback, image>>
flash   == <<nvsReq, nvsState, nvsPart, slots>>
app     == <<running, appPc, initUuid>>
mqtt    == <<mqttPc, mqttReq>>
job     == <<taskReq, attempt, chunk, err>>
work    == <<job, taskData, notified>>
task    == <<taskPc, work>>
inputs  == <<requested, cancelAsked, cancels, restarts>>
rest    == <<cancelAsked, cancels, restarts, faults>>
env     == <<inputs, faults>>
marks   == <<installed, inTime>>
astray  == <<crossed, undone>>
told    == <<answers, marks, astray>>
history == <<progress, told>>
vars    == <<flash, app, mqtt, task, env, history>>

-----------------------------------------------------------------------------
(* Values. *)

\* AttemptFailed stands for the errors an attempt ends with, EDGEHOG_ERR_NETWORK,
\* EDGEHOG_ERR_OTA_INVALID_IMAGE and EDGEHOG_ERR_OTA_INTERNAL: nothing tells them apart.
Errors == {"", "AttemptFailed", "IOError", "Canceled"}
Codes == Errors \cup {"InternalError", "SystemRollback"}

\* A Failure the handler sends itself, to refuse a request or a Cancel, is no verdict on
\* an update and not kept.
Answers == [status : {"Success", "Failure"}, code : Codes, by : {"task", "boot"}]

\* OTAEvents that leave the request open, in the order the task sends them.
Steps == {"none", "Acknowledged", "Downloading", "Error",
          "Deploying", "Deployed", "Rebooting"}

\* Control points of ota_task_code and the functions it calls; "none": no such
\* task, "deleted": vTaskDelete was called, the idle task has yet to free it.
TaskPcs == {"none", "ack", "open", "mark", "store", "begin", "download",
            "finish", "retry", "lastCheck", "deploy", "part", "announce",
            "restart", "fail", "idle", "free", "deleted"}

FlashType ==
    /\ nvsReq \in Uuid \cup {None}
    /\ nvsState \in {"unset", "idle", "inProgress", "reboot"}
    /\ nvsPart \in Slot \cup {None}
    /\ bootSlot \in Slot /\ fallback \in Slot \cup {None}
    /\ image \in [Slot -> Uuid \cup {Factory, None}]

AppType ==
    /\ running \in Slot
    /\ appPc \in {"readUuid", "readState", "readPart", "erase", "idle", "ready"}
    /\ initUuid \in Uuid \cup {None}
    /\ appPc \in {"readState", "readPart"} => initUuid # None

MqttType ==
    /\ mqttPc \in {"idle", "cancelRead", "cancelNotify"}
    /\ mqttReq \in Uuid \cup {None}
    /\ mqttPc # "idle" => mqttReq # None

TaskType ==
    /\ taskPc \in TaskPcs
    /\ taskReq \in Uuid \cup {None} /\ taskData \in Uuid \cup {None}
    /\ taskPc \notin {"none", "deleted"} => taskData # None
    /\ taskPc \notin {"none", "deleted", "ack"} => taskReq # None

AttemptType ==
    /\ attempt \in 0..(MaxOtaRetry - 1) /\ chunk \in 0..MaxChunks
    /\ err \in Errors
    /\ notified \in BOOLEAN

EnvType ==
    /\ requested \subseteq Uuid /\ cancelAsked \subseteq Uuid
    /\ cancels \in 0..MaxCancels /\ restarts \in 0..MaxRestarts
    /\ faults \in 0..MaxFaults

HistoryType ==
    /\ answers \in [Uuid -> SUBSET Answers]
    /\ progress \in [Uuid -> Steps]
    /\ installed \subseteq Uuid /\ inTime \in BOOLEAN
    /\ crossed \subseteq Uuid /\ undone \subseteq Uuid

\* The values of each group of variables, and what each activity has read before it
\* uses it.
TypeOK == FlashType /\ AppType /\ MqttType /\ TaskType /\ AttemptType
          /\ EnvType /\ HistoryType

Init ==
    /\ nvsReq = None /\ nvsState = "unset" /\ nvsPart = None
    /\ bootSlot = FactorySlot /\ running = FactorySlot /\ fallback = None
    /\ image = [s \in Slot |-> IF s = FactorySlot THEN Factory ELSE None]
    /\ appPc = "readUuid" /\ initUuid = None
    /\ mqttPc = "idle" /\ mqttReq = None
    /\ taskPc = "none" /\ taskReq = None /\ taskData = None
    /\ attempt = 0 /\ chunk = 0 /\ err = "" /\ notified = FALSE
    /\ requested = {} /\ cancelAsked = {}
    /\ cancels = 0 /\ restarts = 0 /\ faults = 0
    /\ answers = [u \in Uuid |-> {}] /\ progress = [u \in Uuid |-> "none"]
    /\ installed = {} /\ inTime = FALSE /\ crossed = {} /\ undone = {}

-----------------------------------------------------------------------------
(* Calls the three activities make. *)

\* pub_ota_event with a status that settles the request.  Where calls fail at all, the
\* publication may fail too: nothing looks at its result.
Answered(u, status, code, by) ==
    answers' = [answers EXCEPT
                  ![u] = @ \cup {[status |-> status, code |-> code, by |-> by]}]
Lost == MaxFaults > 0 /\ UNCHANGED answers
Answer(u, status, code, by) == Answered(u, status, code, by) \/ Lost

\* Task or boot have settled request u.
Settled(u) == answers[u] # {}

\* pub_ota_event with any other status, as it is handed over.
Report(u, status) == progress' = [progress EXCEPT ![u] = status]
NoReports == progress' = [u \in Uuid |-> "none"]

\* A call of the NVS or partition API fails.
Fault == faults < MaxFaults /\ faults' = faults + 1
NoFault == UNCHANGED faults

\* nvs_set_u8(.., OTA_STATE_KEY, ..): its result is not looked at.
SetState(s) == (nvsState' = s /\ NoFault) \/ (UNCHANGED nvsState /\ Fault)

\* esp_ota_get_next_update_partition(NULL).
UpdateSlot == CHOOSE s \in Slot : s # running

\* A reset starts the image of the slot the bootloader selects.  When that image does
\* not start, the one that ran before runs on; when it did and was not confirmed, the
\* next reset may still roll back to it.  Everything in RAM is lost.
RollsBack == fallback # None /\ running' = fallback
Reset ==
    /\ \/ running' = bootSlot /\ image[bootSlot] # None
       \/ running' = running /\ bootSlot # running
       \/ RollsBack
    /\ bootSlot' = running'
    /\ fallback' = IF running' = bootSlot /\ bootSlot # running THEN running ELSE None
    /\ undone' = IF RollsBack /\ appPc # "ready"
                    THEN undone \cup {u \in Uuid : u = nvsReq /\ Settled(u)}
                    ELSE undone
    /\ appPc' = "readUuid" /\ initUuid' = None
    /\ mqttPc' = "idle" /\ mqttReq' = None
    /\ taskPc' = "none" /\ taskReq' = None /\ taskData' = None
    /\ attempt' = 0 /\ chunk' = 0 /\ err' = "" /\ notified' = FALSE
    /\ inTime' = FALSE /\ NoReports
    /\ UNCHANGED <<nvsReq, nvsState, nvsPart, image, requested, cancelAsked, cancels,
                   faults, answers, installed, crossed>>

\* A panic, a power cut or a Reboot command (src/edgehog_command.c).
Restart ==
    /\ restarts < MaxRestarts /\ restarts' = restarts + 1
    /\ Reset

-----------------------------------------------------------------------------
(* edgehog_ota_init. *)

\* Step 2: look for the id of a pending request.  A failing open returns at once,
\* a failing read leads to the clean-up at `end'.
InitReadUuid ==
    /\ appPc = "readUuid"
    /\ \/ /\ NoFault
          /\ initUuid' = nvsReq
          /\ appPc' = IF nvsReq = None THEN "erase" ELSE "readState"
       \/ /\ Fault
          /\ appPc' \in {"erase", "ready"}
          /\ UNCHANGED initUuid
    /\ UNCHANGED <<flash, running, mqtt, task, inputs, history>>

\* Publish the outcome of the pending request.
InitReport(status, code) ==
    /\ Answer(initUuid, status, code, "boot")
    /\ appPc' = "erase"

\* Mutant: only an idle update is taken for one that did not reach its restart.
RebootPending_notIdle == nvsState # "idle"
RebootPending == nvsState = "reboot"

\* Mutant: only an update that reached its restart is reported.
Unfinished_ignored == appPc' = "erase" /\ UNCHANGED answers
Unfinished == InitReport("Failure", "InternalError")

\* Step 3: a request that was not waiting for the restart has failed.
InitReadState ==
    /\ appPc = "readState"
    /\ \/ /\ RebootPending /\ NoFault
          /\ appPc' = "readPart"
          /\ UNCHANGED answers
       \/ /\ (~RebootPending /\ NoFault) \/ Fault
          /\ Unfinished
    /\ UNCHANGED <<flash, running, initUuid, mqtt, task, inputs, progress, marks, astray>>

\* Step 4: the restart must have changed the running partition.
InitReadPart ==
    /\ appPc = "readPart"
    /\ \/ /\ nvsPart # None /\ nvsPart # running /\ NoFault
          /\ InitReport("Success", "")
       \/ /\ (nvsPart \in {None, running} /\ NoFault) \/ Fault
          /\ InitReport("Failure", "SystemRollback")
    /\ UNCHANGED <<flash, running, initUuid, mqtt, task, inputs, progress, marks, astray>>

\* end: forget the request.
InitErase ==
    /\ appPc = "erase"
    /\ (nvsReq' = None /\ NoFault) \/ (UNCHANGED nvsReq /\ Fault)
    /\ appPc' = "idle"
    /\ UNCHANGED <<nvsState, nvsPart, slots, running, initUuid, mqtt, task, inputs,
                   history>>

InitIdle ==
    /\ appPc = "idle"
    /\ SetState("idle")
    /\ appPc' = "ready" /\ initUuid' = None
    /\ UNCHANGED <<nvsReq, nvsPart, slots, running, mqtt, task, inputs, history>>

-----------------------------------------------------------------------------
(* edgehog_ota_event.  The MQTT task handles one request at a time. *)

\* Whether edgehog_ota_init is done is not looked at.
HandlerFree == mqttPc = "idle"

\* The server gives every request an id of its own.
NewRequest(u) == u \notin requested /\ requested' = requested \cup {u}

\* Mutant: the state in NVS decides whether an update runs, not the task.
TaskFound_inNvs == nvsState \in {"inProgress", "reboot"}
\* xTaskGetHandle(OTA_UPDATE_TASK_NAME) # NULL: it also finds a deleted task.
TaskFound == taskPc # "none"

\* A request without a url or an operation, or with an unknown operation, is answered
\* with InvalidRequest.
MalformedRequest(u) ==
    /\ HandlerFree /\ NewRequest(u)
    /\ UNCHANGED <<flash, app, mqtt, task, rest, history>>

\* An update meets another one: UpdateAlreadyInProgress.
UpdateRefused(u) ==
    /\ HandlerFree /\ NewRequest(u) /\ TaskFound
    /\ UNCHANGED <<flash, app, mqtt, task, rest, history>>

\* The task data is static: the task finds it when it first runs.
UpdateAccepted(u) ==
    /\ HandlerFree /\ NewRequest(u) /\ ~TaskFound
    /\ taskData' = u /\ taskPc' = "ack" /\ taskReq' = None
    /\ attempt' = 0 /\ chunk' = 0 /\ err' = ""
    /\ notified' = FALSE /\ inTime' = FALSE
    /\ crossed' = IF appPc = "ready" THEN crossed ELSE crossed \cup ({u, nvsReq} \ {None})
    /\ UNCHANGED <<flash, app, mqtt, rest, answers, progress, installed, undone>>

\* xTaskCreate fails, InternalError: the task data stay allocated until the next request.
UpdateNotSpawned(u) ==
    /\ HandlerFree /\ NewRequest(u) /\ ~TaskFound
    /\ taskData' = u
    /\ UNCHANGED <<flash, app, mqtt, taskPc, job, notified, rest, history>>

\* Cancel takes three steps: find the task, read the id of the update, notify.  Without
\* a task, or an id in NVS, or with another one, it is refused.
CancelRequest(u) ==
    /\ HandlerFree /\ u \in requested
    /\ cancels < MaxCancels /\ cancels' = cancels + 1
    /\ cancelAsked' = cancelAsked \cup {u}
    /\ \/ TaskFound /\ mqttPc' = "cancelRead" /\ mqttReq' = u
       \/ ~TaskFound /\ UNCHANGED mqtt
    /\ UNCHANGED <<flash, app, task, requested, restarts, faults, history>>

CancelRefused == mqttPc' = "idle" /\ mqttReq' = None

CancelRead ==
    /\ mqttPc = "cancelRead"
    /\ \/ nvsReq = mqttReq /\ NoFault /\ mqttPc' = "cancelNotify" /\ UNCHANGED mqttReq
       \/ ((nvsReq # mqttReq /\ NoFault) \/ Fault) /\ CancelRefused
    /\ UNCHANGED <<flash, app, task, inputs, history>>

\* The points at which the task has yet to look for a notification.
Cancellable == {"ack", "open", "mark", "store", "begin", "download", "finish",
                "retry", "lastCheck"}

\* xTaskNotify, on a task that may have ended since it was found.
CancelNotify ==
    /\ mqttPc = "cancelNotify"
    /\ mqttPc' = "idle" /\ mqttReq' = None
    /\ notified' = (notified \/ taskPc \notin {"none", "deleted"})
    /\ inTime' = (inTime \/ taskPc \in Cancellable)
    /\ UNCHANGED <<flash, app, taskPc, job, taskData, env, answers, progress,
                   installed, astray>>

\* The memory of a task that is gone is written: the outcome may be a panic.
CancelNotifyFreed == mqttPc = "cancelNotify" /\ taskPc = "none" /\ Restart

-----------------------------------------------------------------------------
(* ota_task_code, perform_ota and perform_ota_attempt. *)

Goto(from, to) == taskPc = from /\ taskPc' = to

TaskAck ==
    /\ Goto("ack", "open")
    /\ taskReq' = taskData /\ Report(taskData, "Acknowledged")
    /\ UNCHANGED <<flash, app, mqtt, taskData, attempt, chunk, err, notified, env,
                   told>>

\* Mutant: the `goto selfdestruct' is missing.
OpenFailed_goesOn == "mark"
OpenFailed == "free"

\* Step 2: open the NVS.
TaskOpen ==
    /\ \/ /\ Goto("open", "mark") /\ NoFault
          /\ UNCHANGED answers
       \/ /\ Goto("open", OpenFailed) /\ Fault
          /\ Answer(taskReq, "Failure", "IOError", "task")
    /\ UNCHANGED <<flash, app, mqtt, work, inputs, progress, marks, astray>>

TaskMark ==
    /\ Goto("mark", "store") /\ SetState("inProgress")
    /\ UNCHANGED <<nvsReq, nvsPart, slots, app, mqtt, work, inputs, history>>

\* Mutant: an id that is in NVS is left there.
StoreId_ifNone == nvsReq' = IF nvsReq = None THEN taskData ELSE nvsReq
StoreId == nvsReq' = taskData

\* perform_ota step 1; on an error it closes the caller's handle.
TaskStore ==
    /\ \/ /\ Goto("store", "begin") /\ NoFault
          /\ StoreId /\ UNCHANGED err
       \/ /\ Goto("store", "fail") /\ Fault
          /\ err' = "IOError" /\ UNCHANGED nvsReq
    /\ UNCHANGED <<nvsState, nvsPart, slots, app, mqtt, taskReq, attempt, chunk,
                   taskData, notified, inputs, history>>

AttemptFails(from) == Goto(from, "retry") /\ err' = "AttemptFailed"

\* Every attempt announces itself, then opens the connection.
TaskBegin ==
    /\ \/ Goto("begin", "download") /\ UNCHANGED err
       \/ AttemptFails("begin")
    /\ chunk' = 0 /\ Report(taskData, "Downloading")
    /\ UNCHANGED <<flash, app, mqtt, taskReq, attempt, taskData, notified, env, told>>

\* The first esp_https_ota_perform that gets so far erases the slot, which ESP-IDF
\* refuses while the image that runs can be rolled back; the last one returns OK or an
\* error.  An error, or a connection closed too early, ends the attempt.
TaskPerform ==
    /\ taskPc = "download" /\ ~notified
    /\ \/ image' = [image EXCEPT ![UpdateSlot] = None] /\ fallback' = None
       \/ UNCHANGED <<image, fallback>> /\ taskPc' = "retry"
    /\ \/ /\ chunk < MaxChunks /\ chunk' = chunk + 1
          /\ Report(taskData, "Downloading") /\ UNCHANGED <<taskPc, err>>
       \/ Goto("download", "finish") /\ UNCHANGED <<chunk, err, progress>>
       \/ AttemptFails("download") /\ UNCHANGED <<chunk, progress>>
    /\ UNCHANGED <<nvsReq, nvsState, nvsPart, bootSlot, app, mqtt, taskReq, attempt,
                   taskData, notified, env, told>>

\* Mutant: the task ends silently when the download is canceled.
Canceled_silently(from) ==
    /\ Goto(from, "idle") /\ notified
    /\ notified' = FALSE /\ err' = "Canceled"
\* The notification is taken; the loop and the last check both return Canceled.
Canceled(from) ==
    /\ Goto(from, "fail") /\ notified
    /\ notified' = FALSE /\ err' = "Canceled"

TaskAbort ==
    /\ Canceled("download")
    /\ UNCHANGED <<flash, app, mqtt, taskReq, attempt, chunk, taskData, env, history>>

\* esp_https_ota_finish validates the image and makes it the one to boot.
TaskFinish ==
    /\ \/ /\ Goto("finish", "lastCheck") /\ UNCHANGED err
          /\ image' = [image EXCEPT ![UpdateSlot] = taskData]
          /\ bootSlot' = UpdateSlot
          /\ installed' = installed \cup {taskData}
       \/ AttemptFails("finish") /\ UNCHANGED <<image, bootSlot, installed>>
    /\ UNCHANGED <<nvsReq, nvsState, nvsPart, fallback, app, mqtt, taskReq, attempt,
                   chunk, taskData, notified, env, answers, progress, inTime, astray>>

\* Mutant: one attempt too many.
AttemptsLeft_oneMore == attempt < MaxOtaRetry
AttemptsLeft == attempt + 1 < MaxOtaRetry

TaskRetry ==
    /\ \/ Goto("retry", "begin") /\ AttemptsLeft /\ attempt' = attempt + 1
       \/ Goto("retry", "fail") /\ ~AttemptsLeft /\ UNCHANGED attempt
    /\ Report(taskData, "Error")
    /\ UNCHANGED <<flash, app, mqtt, taskReq, chunk, err, taskData, notified, env,
                   told>>

\* Mutant: no last look for a notification.
Uncanceled_unchecked == UNCHANGED <<notified, err>>
Uncanceled == ~notified /\ UNCHANGED <<notified, err>>

TaskLastCheck ==
    /\ \/ Canceled("lastCheck")
       \/ Goto("lastCheck", "deploy") /\ Uncanceled
    /\ UNCHANGED <<flash, app, mqtt, taskReq, attempt, chunk, taskData, env, history>>

TaskDeploy ==
    /\ Goto("deploy", "part")
    /\ Report(taskReq, "Deploying") /\ SetState("reboot")
    /\ UNCHANGED <<nvsReq, nvsPart, slots, app, mqtt, work, inputs, told>>

\* Mutant: the slot to boot is recorded instead of the one that runs.
RecordedSlot_boot == bootSlot
RecordedSlot == running

\* Remember the slot to leave; without a running partition the update fails and
\* the state in NVS stays at "reboot".
TaskPart ==
    /\ \/ /\ Goto("part", "announce") /\ Report(taskReq, "Deployed")
          /\ \/ nvsPart' = RecordedSlot /\ NoFault
             \/ UNCHANGED nvsPart /\ Fault
          /\ UNCHANGED answers
       \/ /\ Goto("part", "free") /\ Fault
          /\ Answer(taskReq, "Failure", "InternalError", "task")
          /\ UNCHANGED <<nvsPart, progress>>
    /\ UNCHANGED <<nvsReq, nvsState, slots, app, mqtt, work, inputs, marks, astray>>

TaskAnnounce ==
    /\ Goto("announce", "restart") /\ Report(taskReq, "Rebooting")
    /\ UNCHANGED <<flash, app, mqtt, work, env, told>>

\* esp_restart, five seconds later.
TaskRestart == taskPc = "restart" /\ Reset /\ UNCHANGED restarts

TaskFail ==
    /\ Goto("fail", "idle")
    /\ Answer(taskReq, "Failure", err, "task")
    /\ UNCHANGED <<flash, app, mqtt, work, env, progress, marks, astray>>

\* The request id is left in NVS.  After an IOError the handle is already closed.
TaskIdle ==
    /\ Goto("idle", "free")
    /\ IF err = "IOError" THEN UNCHANGED nvsState /\ NoFault ELSE SetState("idle")
    /\ UNCHANGED <<nvsReq, nvsPart, slots, app, mqtt, work, inputs, history>>

\* The task's locals end with it, and so does a notification nobody took.
TaskFree ==
    /\ Goto("free", "deleted") /\ taskData' = None
    /\ taskReq' = None /\ attempt' = 0 /\ chunk' = 0 /\ err' = ""
    /\ notified' = FALSE /\ inTime' = FALSE /\ NoReports
    /\ UNCHANGED <<flash, app, mqtt, env, answers, installed, astray>>

\* The idle task frees the memory of the deleted task.
IdleReap ==
    /\ Goto("deleted", "none")
    /\ UNCHANGED <<flash, app, mqtt, work, env, history>>

-----------------------------------------------------------------------------
BootStep == InitReadUuid \/ InitReadState \/ InitReadPart \/ InitErase \/ InitIdle

Request(u) == \/ MalformedRequest(u) \/ UpdateRefused(u) \/ UpdateAccepted(u)
              \/ UpdateNotSpawned(u) \/ CancelRequest(u)

CancelStep == CancelRead \/ CancelNotify

TaskStep ==
    \/ TaskAck \/ TaskOpen \/ TaskMark \/ TaskStore \/ TaskBegin \/ TaskPerform
    \/ TaskAbort \/ TaskFinish \/ TaskRetry \/ TaskLastCheck \/ TaskDeploy \/ TaskPart
    \/ TaskAnnounce \/ TaskRestart \/ TaskFail \/ TaskIdle \/ TaskFree

Next ==
    \/ BootStep
    \/ \E u \in Uuid : Request(u)
    \/ CancelStep \/ CancelNotifyFreed
    \/ TaskStep \/ IdleReap
    \/ Restart

Spec == Init /\ [][Next]_vars

\* The application task in edgehog_ota_init and the OTA task go on running when they can.
\* Nothing makes the server send a request, nor the device restart by itself, and no
\* verdict waits for the MQTT task or the idle task.
FairSpec == Spec /\ WF_vars(BootStep) /\ WF_vars(TaskStep)

-----------------------------------------------------------------------------
(* What the update promises.  A request that was accepted, or still in NVS, while
   edgehog_ota_init ran is in crossed: init may settle it and erase its id while the
   task goes on, so little can be promised of it, and the run ota_early shows what
   goes wrong.  All the other requests are promised the same whether or not there
   are such requests before, between or after them. *)

Succeeded(u) == \E a \in answers[u] : a.status = "Success"

\* The task owns the static request data from its first step to the step that
\* frees it: no request handled meanwhile replaces or frees them
\* (edgehog_ota.c:248-261 against 315-387).
LiveDataKept ==
    [][/\ taskPc \notin {"none", "free", "deleted"}
       /\ taskPc' \notin {"none", "deleted"}
       => taskData' = taskData]_vars

\* Success is only reported for a request whose image was completely received,
\* validated and made the one to boot (edgehog_ota.c:165-190), whatever restarts
\* came between and whatever earlier updates left in NVS.
SuccessMeansInstalled == \A u \in Uuid : Succeeded(u) => u \in installed \cup crossed

\* The task and later boots never contradict each other about a request: boot may
\* repeat a verdict that was published but not yet cleaned up, not revise it
\* (edgehog_ota.c:168-196 against 374-381).  The exception is the request whose
\* verdict is repeated after a rollback of the image it was first given by.
VerdictIsFinal ==
    \A u \in Uuid \ (crossed \cup undone) : Succeeded(u) =>
        \A a \in answers[u] : a.status = "Success"

\* When the task restarts the device, the flash holds all that edgehog_ota_init
\* needs to tell an update from a rollback (edgehog_ota.c:351-373).
RestartIsRecorded ==
    taskPc = "restart" =>
        /\ taskReq \in crossed \/ (nvsReq = taskReq /\ nvsState = "reboot")
        /\ nvsPart = running /\ bootSlot # running
        /\ image[bootSlot] = taskReq

\* A success that is new is that of the image that runs.
SuccessRuns ==
    restarts = 0 => \A u \in Uuid \ crossed :
        Succeeded(u)' /\ ~Succeeded(u) => image[running] = u

\* As long as only the update restarts the device, Success is reported by a boot of the
\* image it is reported for, rollbacks included (edgehog_ota.c:176-183).
SuccessRunsImage == [][SuccessRuns]_vars

\* From the moment the download starts until the task leaves, the id in NVS is
\* the id of the running update, which is what Cancel compares with
\* (edgehog_ota.c:280-298 against 397).
InFlightIsRecorded ==
    taskPc \in {"begin", "download", "finish", "retry", "lastCheck", "deploy", "part",
                "announce", "restart"} => nvsReq = taskReq \/ taskReq \in crossed

\* The statuses that may follow each status.
StepOrder ==
    [none         |-> {"Acknowledged"},
     Acknowledged |-> {"Downloading"},
     Downloading  |-> {"Downloading", "Error", "Deploying"},
     Error        |-> {"Downloading"},
     Deploying    |-> {"Deployed"},
     Deployed     |-> {"Rebooting"},
     Rebooting    |-> {}]

StepsInOrder ==
    \A u \in Uuid : progress'[u] \notin {progress[u], "none"} =>
        progress'[u] \in StepOrder[progress[u]] /\ (Settled(u) => u \in crossed)

\* Statuses follow each other as the procedure does, and none follows the
\* Failure that ends it, but for a request that edgehog_ota_init has failed under
\* its task (edgehog_ota.c:317-388 against 170).
ProgressOrder == [][StepsInOrder]_vars

\* An update notified before its last check is not deployed, whichever step and
\* attempt the notification arrived in (edgehog_ota.c:304 against 459, 422).
InTimeCancelWins ==
    taskPc \in {"deploy", "part", "announce", "restart"} => ~inTime

\* An update accepted after edgehog_ota_init is eventually settled with a Success or a
\* Failure, unless the device is restarted meanwhile (edgehog_ota.c:317-388).
AcceptedIsAnswered ==
    \A u \in Uuid :
        taskPc = "ack" /\ taskData = u ~> Settled(u) \/ restarts > 0 \/ u \in crossed

\* A request that reached the NVS is settled, across restarts (edgehog_ota.c:390-403 and
\* 140-197).
StoredIsAnswered == \A u \in Uuid : nvsReq = u ~> Settled(u) \/ u \in crossed

-----------------------------------------------------------------------------
(* Why these hold: the parts of an inductive invariant, when the NVS does not fail. *)

TaskOn == taskPc \notin {"none", "deleted"}

\* The task of a request that was not accepted early has the flash for itself.
BootAlone ==
    /\ TaskOn /\ appPc # "ready" => taskData \in crossed
    /\ TaskOn /\ appPc \in {"readState", "readPart"} => initUuid \in crossed

\* The id of a task that was started early is its own, the one that was there before, or
\* erased.
StrayId == TaskOn /\ taskData \in crossed => nvsReq \in crossed \cup {None}

\* What edgehog_ota_init has read is what the NVS still holds, unless a request that it
\* does not know of has written it.
BootReadsFlash ==
    appPc \in {"readState", "readPart"} /\ initUuid \notin crossed =>
        /\ initUuid = nvsReq
        /\ appPc = "readPart" => nvsState = "reboot"

\* The flash tells how far the task has come.
TaskWritesFlash ==
    /\ TaskOn /\ taskPc # "ack" => taskReq = taskData
    /\ taskPc \in {"lastCheck", "deploy", "part", "announce", "restart"} =>
          taskReq \in installed /\ bootSlot # running /\ image[bootSlot] = taskReq
    /\ taskPc \in {"announce", "restart"} => nvsPart = running
    /\ taskPc = "store" /\ taskData \notin crossed => nvsState = "inProgress"
    /\ taskPc \in {"part", "announce", "restart"} /\ taskData \notin crossed
          => nvsState = "reboot"
    /\ InFlightIsRecorded

\* A request that waits for the restart has its image installed.
RebootInstalled ==
    nvsState = "reboot" => nvsReq \in installed \cup crossed \cup {None}

\* Only requests that were made cross the boot.
CrossedFirst == crossed \cup {taskData, nvsReq} \subseteq requested \cup {None}

IInv == BootAlone /\ StrayId /\ BootReadsFlash /\ TaskWritesFlash /\ RebootInstalled
        /\ CrossedFirst /\ SuccessMeansInstalled

\* The verdict that a restart now would give the request in NVS.
BootSucceeds == nvsState = "reboot" /\ nvsPart \notin {None, running}

\* Task or boot have reported that request u failed.
Failed(u) == \E a \in answers[u] : a.status = "Failure"

\* Until edgehog_ota_init has forgotten the request, the bootloader's choice is the slot
\* that runs: a later restart of this boot sees another one only by a rollback.
BootKeepsSlot ==
    appPc # "ready" => bootSlot = running \/ nvsReq \in crossed \cup {None}

\* "reboot" is in NVS only for the boot to come: that of the task at its end, or the one
\* that goes on.
RebootIsComing ==
    /\ appPc = "ready" /\ nvsState = "reboot"
          => taskPc \in {"part", "announce", "restart"}
    /\ appPc = "idle" => nvsReq \in crossed \cup {None}

WorkedOn(u) == TaskOn /\ taskData = u

\* Only a request that was made is worked on or settled.
AskedFirst(u) ==
    u \notin requested => ~Succeeded(u) /\ ~Failed(u) /\ initUuid # u

\* A success stands where the next boot would repeat it, a failure where the next boot
\* would not turn it into a success.
SuccessStands(u) ==
    Succeeded(u) => ~Failed(u) /\ ~WorkedOn(u)
                    /\ (nvsReq = u => appPc # "ready" /\ BootSucceeds)

FailureStands(u) ==
    Failed(u) => /\ WorkedOn(u) => taskPc \in {"idle", "free"}
                 /\ nvsReq = u /\ appPc # "ready" => ~BootSucceeds

VerdictInv ==
    /\ BootKeepsSlot /\ RebootIsComing
    /\ \A u \in Uuid : AskedFirst(u)
    /\ \A u \in Uuid \ (crossed \cup undone) : SuccessStands(u) /\ FailureStands(u)

\* While only the update restarts the device, a boot about to report a success runs the
\* image of the request in NVS; the task that restarts it has left nothing to roll back.
BootRunsImage ==
    /\ taskPc \in {"finish", "lastCheck", "deploy", "part", "announce", "restart"}
          => fallback = None
    /\ restarts = 0 /\ appPc \in {"readUuid", "readState", "readPart"} /\ BootSucceeds
          => nvsReq \in crossed \cup {None, image[running]}

\* The requests that task or boot have settled, and those with a success.
Done == {u \in Uuid : Settled(u)}
Successes == {u \in Uuid : Succeeded(u)}

\* What the task has last reported of its request.
ProgressAt ==
    [ack |-> {"none"}, open |-> {"Acknowledged"}, mark |-> {"Acknowledged"},
     store |-> {"Acknowledged"}, begin |-> {"Acknowledged", "Error"},
     download |-> {"Downloading"}, finish |-> {"Downloading"},
     retry |-> {"Downloading"}, lastCheck |-> {"Downloading"},
     deploy |-> {"Downloading"}, part |-> {"Deploying"}, announce |-> {"Deployed"},
     restart |-> {"Rebooting"}]

\* Only the task reports, of a request that is its own, that was made, and that nobody has
\* settled unless it was early; this holds whatever fails.
OrderInv ==
    /\ TaskOn /\ appPc # "ready" => taskData \in crossed
    /\ TaskOn /\ taskPc # "ack" => taskReq = taskData
    /\ taskPc \in DOMAIN ProgressAt
          => /\ taskData \in Done => taskData \in crossed
             /\ progress[taskData] \in ProgressAt[taskPc]
    /\ TaskOn => taskData \in requested
    /\ {nvsReq, initUuid} \subseteq requested \cup {None}
    /\ Done \subseteq requested
    /\ \A u \in Uuid \ requested : progress[u] = "none"

\* A notification that came in time is still to be found, whoever looks for it.
CancelIsPending ==
    /\ taskPc \in Cancellable /\ inTime => notified
    /\ InTimeCancelWins

-----------------------------------------------------------------------------
(* The update implements OtaService, which has disowned the requests of crossed and
   undone. *)

Disowned == crossed \cup undone

\* The request in hand is the one of a task that has not settled it, else the one
\* that edgehog_ota_init will find in NVS.
PendingRequest ==
    IF TaskOn /\ taskData \in Uuid \ (Done \cup Disowned) THEN taskData
    ELSE IF nvsReq \in Uuid \ (Done \cup Disowned) THEN nvsReq ELSE None

Bootable == installed \ Disowned

Verdict == [u \in Uuid |-> IF u \in Disowned THEN "disowned"
                           ELSE IF u \in Successes THEN "success"
                           ELSE IF u \in Done THEN "failed" ELSE "open"]

\* Which request is in hand: while the task works it is the task's, which no one has
\* settled; the id in NVS is the task's from the download on, and else of a request that
\* is settled, unless edgehog_ota_init has yet to settle it.
ServiceInv ==
    /\ installed \cup undone \subseteq requested
    /\ taskPc \in {"ack", "open", "mark", "store", "begin", "download", "finish",
                    "retry"} => taskData \notin installed
    /\ taskPc \notin {"none", "deleted", "ack", "open", "mark", "store"}
          => nvsReq = taskData \/ taskData \in crossed
    /\ taskPc \in {"none", "deleted", "ack", "open", "mark", "store"}
       /\ appPc \in {"erase", "idle", "ready"} => nvsReq \notin Uuid \ (Done \cup crossed)
    /\ taskPc \in {"idle", "free"} => taskData \in Done
    /\ appPc \in {"readState", "readPart"} /\ initUuid \in crossed
          => nvsReq \in crossed \cup {None}
    /\ undone \subseteq Done /\ (TaskOn => taskData \notin undone)

Service == INSTANCE OtaService
             WITH pending <- PendingRequest, bootable <- Bootable, verdict <- Verdict

\* Through downloads, retries, cancellations, restarts and rollbacks the device
\* has one request in hand, and gives it one verdict (edgehog_ota.c:140-388).
ImplementsService == Service!Spec

-----------------------------------------------------------------------------
(* What comments of the code say, and the code does not do. *)

\* edgehog_ota.c:297: "Verify that the request UUID matches the in progress ota
\* update UUID": an update is canceled only when its own id was canceled.
CanceledOnlyIfAsked ==
    \A u \in Uuid : \A a \in answers[u] :
        a.by = "task" /\ a.code = "Canceled" => u \in cancelAsked

\* edgehog_ota.c:153-154: "If not there is no need to continue as there is no pending OTA
\* update": a boot that finds no id leaves no installed update without its outcome.
NoneWaits == appPc = "readUuid" /\ appPc' = "erase" => \A u \in installed : Settled(u)
NoIdNoUpdate == [][NoneWaits]_vars
=============================================================================
