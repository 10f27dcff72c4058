--------------------------- MODULE TelemetryService ---------------------------
(***************************************************************************)
(* What the periodic telemetry promises, without the timers, the commands  *)
(* for them, the mutex and the loops of the load: one writer at a time     *)
(* changes what is sent, each change is stored before the next one, and    *)
(* the load of a start sends exactly what is stored, or else configured.   *)
(* A restart loses what is sent and at most the change being stored.  A    *)
(* change that the server asks for may be dropped.                         *)
(***************************************************************************)
CONSTANTS
    Type, Period,
    Default,     \* no period of one's own
    InTicks      \* a period as the timers count it

VARIABLES
    default,     \* the periods of the configuration
    on, period,  \* what is stored: the types switched on, and the period of each
    sent,        \* of each type: {} or the period with which it comes to be sent
    writer,      \* "none", "load" or "server"
    loaded,      \* has the load of this start ended?
    saving       \* {} or the change that is being stored

service == <<default, on, period, sent, writer, loaded, saving>>

Stored(t) == t \in on /\ period[t] # Default

Init ==
    /\ default \in [Type -> Period \cup {Default}]
    /\ on = {} /\ period = [t \in Type |-> Default]
    /\ sent = [t \in Type |-> {}]
    /\ writer = "none" /\ loaded = FALSE /\ saving = {}

Take(w) ==
    /\ writer = "none" /\ (w = "load" => ~loaded)
    /\ writer' = w
    /\ UNCHANGED <<default, on, period, sent, loaded, saving>>

\* The server may ask for any period, the load only for the one it finds.
SwitchOn(t, p) ==
    /\ writer # "none" /\ saving = {}
    /\ writer = "load" => p = IF Stored(t) THEN period[t] ELSE default[t]
    /\ sent' = [sent EXCEPT ![t] = {InTicks[p]}]
    /\ saving' = {[type |-> t, period |-> p, left |-> "switch"]}
    /\ UNCHANGED <<default, on, period, writer, loaded>>

SwitchOff(t) ==
    /\ writer = "server" /\ saving = {} /\ sent[t] # {}
    /\ sent' = [sent EXCEPT ![t] = {}]
    /\ saving' = {[type |-> t, period |-> Default, left |-> "switch"]}
    /\ UNCHANGED <<default, on, period, writer, loaded>>

\* The period of a type that is switched off stays, for when it is switched on again.
SaveSwitch ==
    \E s \in saving :
        /\ s.left = "switch"
        /\ on' = IF s.period = Default THEN on \ {s.type} ELSE on \cup {s.type}
        /\ saving' = IF s.period = Default THEN {} ELSE {[s EXCEPT !.left = "period"]}
        /\ UNCHANGED <<default, period, sent, writer, loaded>>

SavePeriod ==
    \E s \in saving :
        /\ s.left = "period"
        /\ period' = [period EXCEPT ![s.type] = s.period]
        /\ saving' = {}
        /\ UNCHANGED <<default, on, sent, writer, loaded>>

\* The load ends once everything that is stored or configured is sent.
Give ==
    /\ writer # "none" /\ saving = {}
    /\ writer = "load" => \A t \in Type : Stored(t) \/ default[t] # Default => sent[t] # {}
    /\ writer' = "none" /\ loaded' = (loaded \/ writer = "load")
    /\ UNCHANGED <<default, on, period, sent, saving>>

\* A restart, or the end of the telemetry.
Stop ==
    /\ sent' = [t \in Type |-> {}]
    /\ writer' = "none" /\ loaded' = FALSE /\ saving' = {}
    /\ UNCHANGED <<default, on, period>>

Next == \/ \E w \in {"load", "server"} : Take(w)
        \/ \E t \in Type : SwitchOff(t) \/ \E p \in Period : SwitchOn(t, p)
        \/ SaveSwitch \/ SavePeriod \/ Give \/ Stop

Spec == Init /\ [][Next]_service
=============================================================================
