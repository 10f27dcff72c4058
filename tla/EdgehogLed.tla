------------------------------ MODULE EdgehogLed ------------------------------
(***************************************************************************)
(* The LED indicator of src/edgehog_led.c.                                 *)
(*                                                                         *)
(* A request of the server makes the MQTT task replace the blink task and  *)
(* its configuration.  A blink task ends by itself when its time is over:  *)
(* it sets `terminated' in its configuration, switches the LED to the      *)
(* default, and deletes itself; the configuration stays for the next       *)
(* request to free.  The blink tasks have the idle priority and no core of *)
(* their own: on two cores they run beside the MQTT task, on one core only *)
(* while it waits.                                                         *)
(***************************************************************************)
EXTENDS Integers, FiniteSets

CONSTANTS
    Config,        \* blocks of memory for configurations
    Task,          \* task control blocks
    None,          \* an absent value
    MaxRequests    \* bound: requests of the server

ASSUME SentinelAssumption == None \notin Config \cup Task

ASSUME BoundAssumption == MaxRequests \in Nat

VARIABLES
    cores,         \* of the device: 1 or 2
    allocated,     \* the blocks in use
    terminated,    \* the flag in each block
    current,       \* current_config, which may point to a block that was freed
    handle,        \* task_handle, which may be that of a task that is gone
    taskPc, params,
    handlerPc,     \* of set_led_behavior
    lit,           \* the level of the LED
    leftLit,       \* was it lit when a request failed, or by what was in a freed block?
    killed,        \* the task of the last vTaskDelete, and was it there?
    createFailed,  \* was there a task that could not be created?
    requests

manager == <<current, handle>>
tasks   == <<taskPc, params>>
led     == <<lit, leftLit>>
history == <<killed, createFailed>>
memory  == <<allocated, terminated>>
vars    == <<cores, memory, manager, tasks, handlerPc, led, history, requests>>

\* A task that has not ended or been killed.
Alive(t) == taskPc[t] \in {"loop", "on", "ending", "reset", "delete"}

\* A task within its loop, or about to leave it.
Blinks(t) == taskPc[t] \in {"loop", "on", "ending"}

TypeOK ==
    /\ cores \in {1, 2} /\ allocated \subseteq Config /\ terminated \in [Config -> BOOLEAN]
    /\ current \in Config \cup {None} /\ handle \in Task \cup {None}
    /\ taskPc \in [Task -> {"none", "loop", "on", "ending", "reset", "delete", "ended"}]
    /\ params \in [Task -> Config \cup {None}]
    /\ \A t \in Task : Alive(t) => params[t] # None
    /\ handlerPc \in {"idle", "check", "kill", "free", "alloc", "create"}
    /\ handlerPc = "kill" => handle # None
    /\ handlerPc = "create" => current \in allocated
    /\ lit \in BOOLEAN /\ leftLit \in BOOLEAN
    /\ killed \in {"none", "alive", "gone"} /\ createFailed \in BOOLEAN
    /\ requests \in 0..MaxRequests

Init ==
    /\ cores \in {1, 2} /\ allocated = {} /\ terminated = [c \in Config |-> FALSE]
    /\ current = None /\ handle = None
    /\ taskPc = [t \in Task |-> "none"] /\ params = [t \in Task |-> None]
    /\ handlerPc = "idle" /\ killed = "none" /\ createFailed = FALSE
    /\ lit = FALSE /\ leftLit = FALSE
    /\ requests = 0

-----------------------------------------------------------------------------
(* edgehog_led_behavior_event and set_led_behavior, in the MQTT task. *)

Request ==
    /\ handlerPc = "idle" /\ requests < MaxRequests
    /\ requests' = requests + 1
    /\ handlerPc' = IF current = None THEN "alloc" ELSE "check"
    /\ UNCHANGED <<cores, memory, manager, tasks, led, history>>

\* The flag of a block, or of one that was freed: whatever the memory holds.
Flags(c) == IF c \in allocated THEN {terminated[c]} ELSE BOOLEAN

\* Mutant: the handle is not looked at.
MustKill_anyHandle(flag) == ~flag
MustKill(flag) == ~flag /\ handle # None

Check ==
    /\ handlerPc = "check"
    /\ \E flag \in Flags(current) : handlerPc' = IF MustKill(flag) THEN "kill" ELSE "free"
    /\ UNCHANGED <<cores, memory, manager, tasks, led, history, requests>>

\* Mutant: the previous task is left alone.
Deleted_not(t) == UNCHANGED taskPc
\* vTaskDelete of another task takes effect at once.
Deleted(t) == taskPc' = [taskPc EXCEPT ![t] = "none"]

Kill ==
    /\ handlerPc = "kill"
    /\ killed' = IF Alive(handle) THEN "alive" ELSE "gone"
    /\ Deleted(handle)
    /\ handlerPc' = "free"
    /\ UNCHANGED <<cores, memory, manager, params, led, createFailed, requests>>

Free ==
    /\ handlerPc = "free"
    /\ allocated' = allocated \ {current} /\ current' = None
    /\ handlerPc' = "alloc"
    /\ UNCHANGED <<cores, terminated, handle, tasks, led, history, requests>>

\* malloc may fail.
Allocate ==
    /\ handlerPc = "alloc"
    /\ \/ \E c \in Config \ allocated :
            /\ allocated' = allocated \cup {c} /\ current' = c
            /\ terminated' = [terminated EXCEPT ![c] = FALSE]
            /\ handlerPc' = "create" /\ UNCHANGED leftLit
       \/ handlerPc' = "idle" /\ leftLit' = lit /\ UNCHANGED <<memory, current>>
    /\ UNCHANGED <<cores, handle, tasks, lit, history, requests>>

\* A task that cannot be created leaves current_config pointing to the freed block.
Create ==
    /\ handlerPc = "create" /\ handlerPc' = "idle"
    /\ \/ \E t \in Task :
            /\ taskPc[t] = "none"
            /\ taskPc' = [taskPc EXCEPT ![t] = "loop"]
            /\ params' = [params EXCEPT ![t] = current]
            /\ handle' = t /\ UNCHANGED <<allocated, createFailed, leftLit>>
       \/ /\ allocated' = allocated \ {current} /\ createFailed' = TRUE /\ leftLit' = lit
          /\ UNCHANGED <<handle, tasks>>
    /\ UNCHANGED <<cores, terminated, current, lit, killed, requests>>

-----------------------------------------------------------------------------
(* blinkTaskCode, and the idle task that frees the tasks which deleted themselves. *)

Runs(t) == Alive(t) /\ (cores = 2 \/ handlerPc = "idle")

Goes(t, from, to) == Runs(t) /\ taskPc[t] = from /\ taskPc' = [taskPc EXCEPT ![t] = to]

\* The patterns differ in their delays.
TurnOn(t) ==
    /\ Goes(t, "loop", "on") /\ lit' = TRUE
    /\ UNCHANGED <<cores, memory, manager, params, handlerPc, leftLit, history, requests>>

TurnOff(t) ==
    /\ Goes(t, "on", "loop") /\ lit' = FALSE
    /\ UNCHANGED <<cores, memory, manager, params, handlerPc, leftLit, history, requests>>

TimeIsOver(t) ==
    /\ Goes(t, "loop", "ending")
    /\ UNCHANGED <<cores, memory, manager, params, handlerPc, led, history, requests>>

\* Mutant: the flag is never set.
Terminate_not(t) == UNCHANGED terminated
Terminate(t) == terminated' = [terminated EXCEPT ![params[t]] = TRUE]

End(t) ==
    /\ Goes(t, "ending", "reset") /\ Terminate(t)
    /\ UNCHANGED <<cores, allocated, manager, params, handlerPc, led, history, requests>>

\* edgehog_led_behavior_manager_new makes OFF the default; a block that was freed holds
\* anything.
Default(c) == IF c \in allocated THEN {FALSE} ELSE BOOLEAN

\* Mutant: the LED stays as it is.
SetDefault_not(c) == UNCHANGED lit
SetDefault(c) == lit' \in Default(c)

\* The default is read from the configuration even if a request has freed it since.
Reset(t) ==
    /\ Goes(t, "reset", "delete")
    /\ SetDefault(params[t])
    /\ leftLit' = (params[t] \notin allocated /\ lit')
    /\ UNCHANGED <<cores, memory, manager, params, handlerPc, history, requests>>

\* Mutant: the configuration is freed before the task deletes itself.
FreeOwn_first(c) == allocated' = allocated \ {c}
\* The free comes after vTaskDelete, which does not return.
FreeOwn(c) == UNCHANGED allocated

DeleteSelf(t) ==
    /\ Goes(t, "delete", "ended") /\ FreeOwn(params[t])
    /\ UNCHANGED <<cores, terminated, manager, params, handlerPc, led, history, requests>>

IdleReap(t) ==
    /\ taskPc[t] = "ended" /\ taskPc' = [taskPc EXCEPT ![t] = "none"]
    /\ UNCHANGED <<cores, memory, manager, params, handlerPc, led, history, requests>>

-----------------------------------------------------------------------------
Handler == Check \/ Kill \/ Free \/ Allocate \/ Create

Next == \/ Request \/ Handler
        \/ \E t \in Task : TurnOn(t) \/ TurnOff(t) \/ TimeIsOver(t) \/ End(t)
                              \/ Reset(t) \/ DeleteSelf(t) \/ IdleReap(t)

Spec == Init /\ [][Next]_vars

-----------------------------------------------------------------------------
\* A request replaces the behaviour before it: two tasks never blink at once, however the
\* end of the first and the start of the second fall (edgehog_led.c:134-164).
OneBlinker == \A s, t \in Task : Blinks(s) /\ Blinks(t) => s = t

\* A task that blinks has its own configuration, neither freed nor marked as ended
\* (edgehog_led.c:91-124).
BlinkerHasConfig ==
    \A t \in Task : Blinks(t) => params[t] \in allocated /\ ~terminated[params[t]]

\* However a behaviour ends, its configuration is freed once: none is left behind by a
\* request, a task's end or a failure, and what a request frees was not freed before,
\* unless a task could not be created (edgehog_led.c:126-144, 160-163).
FreedOnce ==
    /\ allocated \subseteq {current}
    /\ handlerPc = "free" /\ ~createFailed => current \in allocated

\* A configuration lives as long as its behaviour, and until the next request at most
\* (edgehog_led.c:91-166).
ConfigLives == BlinkerHasConfig /\ FreedOnce

\* edgehog_led.c:139, "New behavior received before previous ended. Previous Task killed":
\* on one core, the task that is killed is one that had not ended, unless a task that
\* could not be created has left the manager with a configuration that was freed.
KillsLiveTask == cores = 1 /\ ~createFailed => killed # "gone"

\* Between requests the LED is dark once no task is left to switch it, although a task
\* may be killed while it is lit, and another one may switch it off in between; what is
\* left lit was so when a request failed, or by a task whose configuration was freed
\* before it read the default (edgehog_led.c:126-129, 146-162).
DarkAtRest ==
    handlerPc = "idle" /\ (\A t \in Task : ~Alive(t)) /\ lit => leftLit
=============================================================================
