--------------------------- MODULE EdgehogWifiScan ---------------------------
(***************************************************************************)
(* The Wi-Fi scan of src/edgehog_device.c.                                 *)
(*                                                                         *)
(* scan_wifi_ap registers a handler and starts a scan: in the application  *)
(* task as the device starts, then in the timer service task.  The Wi-Fi   *)
(* driver scans for the application's own components too.  It posts an     *)
(* event at the end of every scan, for which the event loop task runs each *)
(* registered handler, and keeps the records of one scan until they are    *)
(* taken.  The two tasks may be in scan_wifi_ap at the same time.           *)
(***************************************************************************)
EXTENDS Integers, Sequences, FiniteSets

CONSTANTS
    MaxScans,      \* bound: scans asked for, by the device and by others
    QueueLength    \* events that wait for the event loop task

ASSUME ScansAssumption == MaxScans \in Nat /\ QueueLength \in Nat \ {0}

VARIABLES
    scanPc,       \* of scan_wifi_ap, in each task that calls it
    registered,   \* the registrations of edgehog_event_handler
    radio,        \* the scan that goes on, or 0
    records,      \* the scan of the records the driver keeps, or 0
    events,       \* the events that wait: did the scan succeed?
    running,      \* the event whose handlers run, <<>> or a sequence of one
    left,         \* the handlers that have yet to run for it
    own,          \* which of the scans so far were asked for by the device
    published     \* how often each scan was published

loop == <<running, left>>
scanVars == <<scanPc, registered, radio, records, events, loop, own, published>>

Scan == 1..MaxScans

\* The task that starts the device, and the timer service.
Scanner == {"start", "timer"}

ScanTypeOK ==
    /\ scanPc \in [Scanner -> {"idle", "start"}] /\ registered \in 0..MaxScans
    /\ own \in Seq(BOOLEAN) /\ Len(own) <= MaxScans
    /\ radio \in 0..Len(own) /\ records \in 0..Len(own)
    /\ events \in Seq(BOOLEAN) /\ Len(events) <= QueueLength
    /\ running \in Seq(BOOLEAN) /\ Len(running) <= 1
    /\ left \in 0..registered /\ (running = <<>> => left = 0)
    /\ published \in [Scan -> 0..MaxScans]

ScanInit ==
    /\ scanPc = [t \in Scanner |-> "idle"] /\ registered = 0 /\ radio = 0 /\ records = 0
    /\ events = <<>> /\ running = <<>> /\ left = 0
    /\ own = <<>> /\ published = [s \in Scan |-> 0]

-----------------------------------------------------------------------------
(* scan_wifi_ap, and the scans of others. *)

\* Mutant: without memory for the registration the scan is started all the same.
NotRegistered_scans(t) == scanPc' = [scanPc EXCEPT ![t] = "start"]
NotRegistered(t) == UNCHANGED scanPc

\* A registration waits until the loop has run the handlers of an event.
Register(t) ==
    /\ scanPc[t] = "idle" /\ running = <<>> /\ Len(own) < MaxScans
    /\ \/ /\ registered < MaxScans /\ registered' = registered + 1
          /\ scanPc' = [scanPc EXCEPT ![t] = "start"]
       \/ NotRegistered(t) /\ UNCHANGED registered
    /\ UNCHANGED <<radio, records, events, loop, own, published>>

\* A scan begins; the driver may free the records of the one before.
Begins(mine) ==
    /\ radio = 0 /\ Len(own) < MaxScans
    /\ own' = Append(own, mine) /\ radio' = Len(own) + 1
    /\ records' \in {records, 0}

\* The result of esp_wifi_scan_start is not looked at: it may fail, and does while
\* another scan goes on.
StartScan(t) ==
    /\ scanPc[t] = "start" /\ scanPc' = [scanPc EXCEPT ![t] = "idle"]
    /\ Begins(TRUE) \/ UNCHANGED <<own, radio, records>>
    /\ UNCHANGED <<registered, events, loop, published>>

OtherScan == Begins(FALSE) /\ UNCHANGED <<scanPc, registered, events, loop, published>>

-----------------------------------------------------------------------------
(* The driver and the event loop task. *)

\* The event is lost if the loop's queue is full.
ScanDone ==
    /\ radio # 0 /\ radio' = 0
    /\ \E success \in BOOLEAN :
          /\ records' = IF success THEN radio ELSE 0
          /\ events' = IF Len(events) < QueueLength THEN Append(events, success) ELSE events
    /\ UNCHANGED <<scanPc, registered, loop, own, published>>

Dispatch ==
    /\ running = <<>> /\ events # <<>>
    /\ running' = <<Head(events)>> /\ left' = registered
    /\ events' = Tail(events)
    /\ UNCHANGED <<scanPc, registered, radio, records, own, published>>

DispatchDone ==
    /\ running # <<>> /\ left = 0 /\ running' = <<>>
    /\ UNCHANGED <<scanPc, registered, radio, records, events, left, own, published>>

\* Mutant: the records stay with the driver.
Taken_not == UNCHANGED records
\* esp_wifi_scan_get_ap_records hands the records over and frees them.
Taken == records' = 0

\* Mutant: all registrations are removed.
Unregister_all == registered' = 0
\* edgehog_event_handler is no instance of a registration, so none is removed.
Unregister == UNCHANGED registered

\* edgehog_event_handler, with publish_wifi_ap: without records, or without memory for
\* them, it publishes nothing.
Handle ==
    /\ left > 0 /\ left' = left - 1
    /\ \/ running = <<FALSE>> /\ UNCHANGED <<registered, records, published>>
       \/ running = <<TRUE>> /\ Unregister /\ UNCHANGED <<records, published>>
       \/ /\ running = <<TRUE>> /\ Unregister
          /\ records # 0 /\ published[records] < MaxScans
          /\ published' = [published EXCEPT ![records] = @ + 1] /\ Taken
    /\ UNCHANGED <<scanPc, radio, events, running, own>>

ScanStep ==
    \/ \E t \in Scanner : StartScan(t)
    \/ ScanDone \/ Dispatch \/ DispatchDone \/ Handle

ScanRestart ==
    /\ scanPc' = [t \in Scanner |-> "idle"] /\ registered' = 0 /\ radio' = 0 /\ records' = 0
    /\ events' = <<>> /\ running' = <<>> /\ left' = 0
    /\ UNCHANGED <<own, published>>

-----------------------------------------------------------------------------
\* A scan the device has started finds a handler at its end, whatever handlers of earlier
\* scans did in the meantime (edgehog_device.c:103-105, 337-356).
OwnScanHasHandler == radio # 0 /\ own[radio] => registered > 0

\* The results of a scan are published once, though every handler that was ever
\* registered runs for it (edgehog_device.c:358-401).
PublishedOnce == \A s \in Scan : published[s] <= 1

\* edgehog_device.c:339, "Register the event at every scan and unregister it at every
\* publish to avoid catching event generated by third party scan".
OnlyOwnScans == \A s \in DOMAIN own : published[s] > 0 => own[s]
=============================================================================
