--------------------------- MODULE EdgehogLifecycle ---------------------------
(***************************************************************************)
(* The life of a device: edgehog_device_new, edgehog_device_start and      *)
(* edgehog_device_destroy of src/edgehog_device.c, and what they allocate. *)
(*                                                                         *)
(* A task of the application makes an Astarte device, then the Edgehog     *)
(* device, starts it, and may destroy it.  Any allocation may fail on the  *)
(* way; an interface that cannot be added aborts the program.              *)
(***************************************************************************)
EXTENDS Integers, Sequences

CONSTANT MaxLives    \* bound: calls of edgehog_device_new between two restarts

ASSUME LivesAssumption == MaxLives \in Nat

VARIABLES
    lifePc,
    heap,        \* what is allocated
    publishes,   \* how many groups edgehog_initial_publish has published
    lives

lifeVars == <<lifePc, heap, publishes, lives>>

\* "config" is the telemetry's copy of a configuration that is not empty.
\* The manager of the LED is none of them: nobody looks whether there is one when the
\* device is made, and nobody frees it.
Resource == {"astarte", "device", "telemetry", "mutex", "config"}

\* The handle may be used: after edgehog_device_new, until edgehog_device_destroy.
Usable == lifePc \in {"created", "publish", "scan", "telemetryStart", "started"}

LifeTypeOK ==
    /\ lifePc \in {"absent", "interfaces", "led", "telemetry", "mutex", "config",
                   "created", "publish", "scan", "telemetryStart", "started",
                   "destroy", "destroyTelemetry", "free"}
    /\ heap \subseteq Resource
    /\ publishes \in Nat /\ lives \in 0..MaxLives

LifeInit ==
    /\ lifePc = "absent" /\ heap = {}
    /\ publishes = 0 /\ lives = 0

Moves(from, to) == lifePc = from /\ lifePc' = to

-----------------------------------------------------------------------------
(* edgehog_device_new and edgehog_telemetry_new. *)

AstarteInit ==
    /\ lifePc = "absent" /\ "astarte" \notin heap
    /\ heap' = heap \cup {"astarte"}
    /\ UNCHANGED <<lifePc, publishes, lives>>

\* Without memory nothing is done.
New ==
    /\ "astarte" \in heap /\ lives < MaxLives /\ lives' = lives + 1
    /\ \/ Moves("absent", "interfaces") /\ heap' = heap \cup {"device"}
       \/ Moves("absent", "absent") /\ UNCHANGED heap
    /\ UNCHANGED publishes

\* One that cannot be added fails ESP_ERROR_CHECK: a restart.
AddInterfaces == Moves("interfaces", "led") /\ UNCHANGED <<heap, publishes, lives>>

\* Whether there is a manager is not looked at.
LedNew == Moves("led", "telemetry") /\ UNCHANGED <<heap, publishes, lives>>

TelemetryNew ==
    /\ \/ Moves("telemetry", "mutex") /\ heap' = heap \cup {"telemetry"}
       \/ Moves("telemetry", "destroy") /\ UNCHANGED heap
    /\ UNCHANGED <<publishes, lives>>

NoMutex == Moves("mutex", "destroy") /\ heap' = heap \ {"telemetry"}

MutexNew ==
    /\ \/ Moves("mutex", "config") /\ heap' = heap \cup {"mutex"}
       \/ NoMutex
    /\ UNCHANGED <<publishes, lives>>

\* Mutant: the mutex is forgotten.
TelemetryUndone_mutexLeft == heap' = heap \ {"telemetry"}
TelemetryUndone == heap' = heap \ {"mutex", "telemetry"}

ConfigNew ==
    /\ \/ Moves("config", "created") /\ heap' = heap \cup {"config"}
       \/ Moves("config", "destroy") /\ TelemetryUndone
    /\ UNCHANGED <<publishes, lives>>

-----------------------------------------------------------------------------
(* edgehog_device_start, but for what it calls. *)

Start ==
    /\ Moves("created", "publish") /\ publishes' = 0
    /\ UNCHANGED <<heap, lives>>

Published ==
    /\ lifePc = "publish" /\ publishes' = publishes + 1
    /\ UNCHANGED <<lifePc, heap, lives>>

Scanning == Moves("publish", "scan") /\ UNCHANGED <<heap, publishes, lives>>

Scanned == Moves("scan", "telemetryStart") /\ UNCHANGED <<heap, publishes, lives>>

\* A start that finds the mutex held may be tried again.
TelemetryStarted ==
    /\ Moves("telemetryStart", "started") \/ Moves("telemetryStart", "created")
    /\ UNCHANGED <<heap, publishes, lives>>

-----------------------------------------------------------------------------
(* edgehog_device_destroy, for the application and for the errors above. *)

Destroy ==
    /\ Moves("created", "destroy") \/ Moves("started", "destroy")
    /\ UNCHANGED <<heap, publishes, lives>>

DestroyAstarte ==
    /\ Moves("destroy", "destroyTelemetry") /\ heap' = heap \ {"astarte"}
    /\ UNCHANGED <<publishes, lives>>

\* Nothing, if edgehog_telemetry_new failed.
TelemetryDestroy ==
    /\ Moves("destroyTelemetry", "free")
    /\ \/ "telemetry" \in heap /\ heap' = heap \ {"config", "mutex", "telemetry"}
       \/ "telemetry" \notin heap /\ UNCHANGED heap
    /\ UNCHANGED <<publishes, lives>>

Free ==
    /\ Moves("free", "absent") /\ heap' = heap \ {"device"}
    /\ UNCHANGED <<publishes, lives>>

LifeStep ==
    \/ AstarteInit \/ AddInterfaces \/ LedNew \/ TelemetryNew \/ MutexNew \/ ConfigNew
    \/ TelemetryStarted
    \/ DestroyAstarte \/ TelemetryDestroy \/ Free

LifeRestart == lifePc' = "absent" /\ heap' = {} /\ publishes' = 0 /\ lives' = 0

-----------------------------------------------------------------------------
\* include/edgehog_device.h:113, "This function destroys the device, freeing all its
\* resources", and edgehog_device_new when it fails: but for the manager of the LED,
\* nothing of the device is left, whichever allocation failed.
NothingIsLeft == lifePc = "absent" => heap \subseteq {"astarte"}

\* include/edgehog_device.h:105, "@return The handle to the device, NULL if an error
\* occurred": a device that may be used has all the parts that its functions use without
\* looking whether they are there, but for the manager of the LED.
HandleIsComplete == Usable => heap = Resource

\* A device is there as a whole or not at all, whichever step of its making failed and
\* however often it is made and destroyed (edgehog_device.c:146-193, 511-521).
AllOrNothing == NothingIsLeft /\ HandleIsComplete
=============================================================================
