---------------------------- MODULE EdgehogDevice ----------------------------
(***************************************************************************)
(* The device of src/edgehog_device.c: its life, what it publishes of      *)
(* itself, the serial and part number, and the Wi-Fi scan.  They share the *)
(* restarts.  The handle is used only while it is valid; a start publishes *)
(* the groups one after the other and then scans; the timer service        *)
(* publishes and scans too, one thing at a time, also while the device     *)
(* starts: a configuration that came earlier has started its timers.       *)
(***************************************************************************)
EXTENDS EdgehogSystemInfo, EdgehogWifiScan, EdgehogPublish, EdgehogLifecycle

CONSTANTS
    MaxRestarts,    \* bound: restarts
    MaxInputs       \* bound: calls, timers, scans of others, and fields that fail

ASSUME InputsAssumption == MaxRestarts \in Nat /\ MaxInputs \in Nat

VARIABLES restarts, inputs

limits == <<restarts, inputs>>
vars   == <<infoVars, scanVars, publishVars, lifeVars, limits>>

TypeOK ==
    /\ InfoTypeOK /\ ScanTypeOK /\ PublishTypeOK /\ LifeTypeOK
    /\ restarts \in 0..MaxRestarts /\ inputs \in 0..MaxInputs

Init ==
    /\ InfoInit /\ ScanInit /\ PublishInit /\ LifeInit
    /\ restarts = 0 /\ inputs = 0

-----------------------------------------------------------------------------
(* The application's task that makes, starts and destroys the device. *)

\* A handler that was registered for a device since destroyed would use it: what follows
\* is not modelled.
NewCalled == New /\ registered = 0

StartPublishes ==
    /\ Published /\ publishes < Len(InitialGroups)
    /\ Publish("start", InitialGroups[publishes + 1])

StartScans ==
    /\ Scanning /\ publishes = Len(InitialGroups) /\ sending["start"] = Idle
    /\ Register("start")

ScanReturns == Scanned /\ scanPc["start"] = "idle"

\* The application does not destroy a device that is used.
DestroyCalled ==
    /\ Destroy /\ running = <<>>
    /\ \A t \in Scanner : scanPc[t] = "idle"
    /\ \A c \in Caller : callPc[c] = "idle"
    /\ \A p \in Publisher : sending[p] = Idle

MainStep ==
    \/ LifeStep /\ UNCHANGED <<infoVars, scanVars, publishVars>>
    \/ (NewCalled \/ ScanReturns \/ DestroyCalled)
         /\ UNCHANGED <<infoVars, scanVars, publishVars>>
    \/ StartPublishes /\ UNCHANGED <<infoVars, scanVars>>
    \/ StartScans /\ UNCHANGED <<infoVars, publishVars>>

-----------------------------------------------------------------------------
(* The other tasks. *)

\* edgehog_device_get_telemetry_periodic.  A timer may run before the start (an event of
\* the server makes it), beside it, and after one that has to be tried again.
TimerFires ==
    /\ Usable /\ scanPc["timer"] = "idle" /\ sending["timer"] = Idle
    /\ \/ \E g \in PeriodicGroups : Publish("timer", g) /\ UNCHANGED scanVars
       \/ Register("timer") /\ UNCHANGED publishVars
    /\ UNCHANGED <<infoVars, lifeVars>>

\* The application gives a number, a modem or a network interface.
AppCalls ==
    /\ Usable
    /\ \/ InfoCall /\ UNCHANGED publishVars
       \/ (\E g \in AppGroups : Publish("app", g)) /\ UNCHANGED infoVars
    /\ UNCHANGED <<scanVars, lifeVars>>

InputStep ==
    /\ inputs < MaxInputs /\ inputs' = inputs + 1
    /\ \/ Start /\ UNCHANGED <<infoVars, scanVars, publishVars>>
       \/ TimerFires \/ AppCalls
       \/ OtherScan /\ UNCHANGED <<infoVars, publishVars, lifeVars>>
       \/ (\E p \in Publisher : SendFails(p)) /\ UNCHANGED <<infoVars, scanVars, lifeVars>>

TaskStep ==
    \/ InfoStep /\ UNCHANGED <<scanVars, publishVars>>
    \/ PublishStep /\ UNCHANGED <<infoVars, scanVars>>
    \/ (Usable \/ registered = 0) /\ ScanStep /\ UNCHANGED <<infoVars, publishVars>>

\* edgehog_command_event, the end of an update, ESP_ERROR_CHECK, or power loss.
Restart ==
    /\ restarts < MaxRestarts /\ restarts' = restarts + 1
    /\ InfoRestart /\ ScanRestart /\ PublishRestart /\ LifeRestart /\ UNCHANGED inputs

Next == \/ MainStep /\ UNCHANGED limits
        \/ InputStep /\ UNCHANGED restarts
        \/ TaskStep /\ UNCHANGED <<lifeVars, limits>>
        \/ Restart

Spec == Init /\ [][Next]_vars

-----------------------------------------------------------------------------
\* A call that finds its number in the NVS finds the one the server has.
KeptAgrees ==
    \A c \in Caller :
        /\ callPc[c] = "read" /\ callPc'[c] = "idle" /\ restarts' = restarts
        /\ key[c] \notin torn /\ Storing(key[c]) = {}
        => server[key[c]] = number[c]

\* include/edgehog_device.h:125, "@return ESP_OK if the data was successfully stored and
\* sent": a call that finds its number in the NVS, and sends nothing, returns ESP_OK for
\* the number the server has, with the exceptions of StoredIsServers.
KeptIsServers == [][KeptAgrees]_vars
=============================================================================
