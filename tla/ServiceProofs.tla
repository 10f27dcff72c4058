---------------------------- MODULE ServiceProofs ----------------------------
(***************************************************************************)
(* What follows from the abstract specifications alone: that they say what *)
(* a user of the update, of the telemetry and of the readings counts on.   *)
(***************************************************************************)
EXTENDS TLAPS

CONSTANTS Uuid, None, Type, Period, Default, InTicks, Source, Field, Reading,
          Zero

VARIABLES pending, bootable, verdict,                            \* OtaService
          default, on, period, sent, writer, loaded, saving,     \* TelemetryService
          given, waiting, published, torn                        \* ReadingService

Ota == INSTANCE OtaService
Telemetry == INSTANCE TelemetryService
Readings == INSTANCE ReadingService

-----------------------------------------------------------------------------
(* The update. *)

\* A request is settled once; later it can only be disowned (edgehog_ota.c:164-225,
\* 389-400).
SettledOnce ==
    [][\A u \in Uuid : verdict[u] # "open"
                          => verdict'[u] \in {verdict[u], "disowned"}]_(Ota!service)

\* A request is reported as a success only once its image was made bootable
\* (edgehog_ota.c:164-225, 422-427).
SuccessIsBootable == \A u \in Uuid : verdict[u] = "success" => u \in bootable

OtaInv ==
    /\ verdict \in [Uuid -> {"open", "success", "failed", "disowned"}]
    /\ pending \in Uuid \cup {None}
    /\ pending # None => verdict[pending] = "open"
    /\ SuccessIsBootable

LEMMA OtaStep == OtaInv /\ [Ota!Next]_(Ota!service) => OtaInv'
<1> SUFFICES ASSUME OtaInv, [Ota!Next]_(Ota!service) PROVE OtaInv'
  OBVIOUS
<1> USE DEF OtaInv, SuccessIsBootable
<1>1. ASSUME NEW u \in Uuid, Ota!Accept(u) PROVE OtaInv'
  BY <1>1 DEF Ota!Accept
<1>2. CASE Ota!Install
  BY <1>2 DEF Ota!Install
<1>3. ASSUME NEW outcome \in {"success", "failed"}, Ota!Settle(outcome) PROVE OtaInv'
  BY <1>3 DEF Ota!Settle
<1>4. CASE Ota!Lose
  BY <1>4 DEF Ota!Lose
<1>5. ASSUME NEW us \in SUBSET Uuid, Ota!Disown(us) PROVE OtaInv'
  BY <1>5 DEF Ota!Disown
<1>6. CASE UNCHANGED Ota!service
  BY <1>6 DEF Ota!service
<1> QED
  BY <1>1, <1>2, <1>3, <1>4, <1>5, <1>6 DEF Ota!Next

LEMMA OtaInvariance == Ota!Spec => []OtaInv
<1>1. Ota!Init => OtaInv
  BY DEF Ota!Init, OtaInv, SuccessIsBootable
<1> QED
  BY <1>1, OtaStep, PTL DEF Ota!Spec

\* The verdicts of an update that implements OtaService are final and true
\* (edgehog_ota.c:140-197, 317-388).
THEOREM VerdictsStand == Ota!Spec => SettledOnce /\ []SuccessIsBootable
<1>1. OtaInv /\ [Ota!Next]_(Ota!service)
        => [\A u \in Uuid : verdict[u] # "open"
                => verdict'[u] \in {verdict[u], "disowned"}]_(Ota!service)
  <2> SUFFICES ASSUME OtaInv, Ota!Next, NEW u \in Uuid, verdict[u] # "open"
               PROVE  verdict'[u] \in {verdict[u], "disowned"}
    BY DEF Ota!service
  <2> QED
    BY DEF OtaInv, Ota!Next, Ota!Accept, Ota!Install, Ota!Settle, Ota!Lose, Ota!Disown
<1>2. OtaInv => SuccessIsBootable
  BY DEF OtaInv
<1> QED
  BY <1>1, <1>2, OtaInvariance, PTL DEF Ota!Spec, SettledOnce

-----------------------------------------------------------------------------
(* The telemetry. *)

\* Once a start has loaded the telemetries, and no change is being stored, what is sent is
\* what is stored (edgehog_telemetry.c:167-225, 312-344).
SentIsStored ==
    loaded /\ saving = {} => \A t \in Type :
        sent[t] = IF Telemetry!Stored(t) THEN {InTicks[period[t]]} ELSE {}

Changes == [type : Type, period : Period \cup {Default}, left : {"switch", "period"}]

TelemetryType ==
    /\ default \in [Type -> Period \cup {Default}]
    /\ on \subseteq Type /\ period \in [Type -> Period \cup {Default}]
    /\ sent \in [Type -> {{}} \cup {{InTicks[p]} : p \in Period}] /\ loaded \in BOOLEAN
    /\ saving = {} \/ \E s \in Changes : saving = {s}
    /\ writer = "load" => ~loaded

\* The change that is being stored is in force already.
ChangeInForce == \A s \in saving :
    /\ sent[s.type] = IF s.period = Default THEN {} ELSE {InTicks[s.period]}
    /\ s.left = "period" => s.period # Default /\ s.type \in on

\* Nothing else is sent but what is stored, and once loaded, all of it.
RestAgrees == \A t \in Type : (\A s \in saving : s.type # t) =>
    /\ sent[t] # {} => Telemetry!Stored(t) /\ sent[t] = {InTicks[period[t]]}
    /\ loaded /\ Telemetry!Stored(t) => sent[t] # {}

TelemetryInv == TelemetryType /\ ChangeInForce /\ RestAgrees

LEMMA TelemetryStep ==
    ASSUME Default \notin Period, TelemetryInv, [Telemetry!Next]_(Telemetry!service)
    PROVE  TelemetryInv'
<1> USE DEF TelemetryInv, TelemetryType, ChangeInForce, RestAgrees, Telemetry!Stored, Changes
<1>1. ASSUME NEW w \in {"load", "server"}, Telemetry!Take(w) PROVE TelemetryInv'
  BY <1>1 DEF Telemetry!Take
<1>2. ASSUME NEW t \in Type, NEW p \in Period, Telemetry!SwitchOn(t, p) PROVE TelemetryInv'
  <2> DEFINE c == [type |-> t, period |-> p, left |-> "switch"]
  <2>1. /\ saving = {} /\ saving' = {c} /\ c \in Changes
        /\ sent' = [sent EXCEPT ![t] = {InTicks[p]}]
        /\ UNCHANGED <<default, on, period, writer, loaded>>
    BY <1>2 DEF Telemetry!SwitchOn
  <2>2. TelemetryType'
    BY <2>1
  <2>3. ChangeInForce'
    <3>1. sent'[t] = {InTicks[p]} /\ p # Default
      BY <2>1
    <3>2. c.type = t /\ c.period = p /\ c.left = "switch"
      OBVIOUS
    <3> HIDE DEF c
    <3> QED
      BY <2>1, <3>1, <3>2
  <2>4. RestAgrees'
    BY <2>1
  <2> QED
    BY <2>2, <2>3, <2>4
<1>3. ASSUME NEW t \in Type, Telemetry!SwitchOff(t) PROVE TelemetryInv'
  <2> DEFINE c == [type |-> t, period |-> Default, left |-> "switch"]
  <2>1. /\ saving = {} /\ saving' = {c} /\ c \in Changes
        /\ sent' = [sent EXCEPT ![t] = {}]
        /\ UNCHANGED <<default, on, period, writer, loaded>>
    BY <1>3 DEF Telemetry!SwitchOff
  <2>2. TelemetryType'
    BY <2>1
  <2>3. ChangeInForce'
    BY <2>1
  <2>4. RestAgrees'
    BY <2>1
  <2> QED
    BY <2>2, <2>3, <2>4
<1>4. CASE Telemetry!SaveSwitch
  <2>1. PICK s \in Changes : saving = {s}
    BY <1>4 DEF Telemetry!SaveSwitch
  <2>2. /\ s.left = "switch" /\ UNCHANGED <<default, period, sent, writer, loaded>>
        /\ on' = IF s.period = Default THEN on \ {s.type} ELSE on \cup {s.type}
        /\ saving' = IF s.period = Default THEN {} ELSE {[s EXCEPT !.left = "period"]}
    BY <1>4, <2>1 DEF Telemetry!SaveSwitch
  <2>3. CASE s.period = Default
    BY <2>1, <2>2, <2>3
  <2>4. CASE s.period # Default
    <3>1. [s EXCEPT !.left = "period"] =
             [type |-> s.type, period |-> s.period, left |-> "period"]
      BY <2>1
    <3> QED
      BY <2>1, <2>2, <2>4, <3>1
  <2> QED
    BY <2>3, <2>4
<1>5. CASE Telemetry!SavePeriod
  <2>1. PICK s \in Changes : saving = {s}
    BY <1>5 DEF Telemetry!SavePeriod
  <2>2. /\ s.left = "period" /\ UNCHANGED <<default, on, sent, writer, loaded>>
        /\ period' = [period EXCEPT ![s.type] = s.period] /\ saving' = {}
    BY <1>5, <2>1 DEF Telemetry!SavePeriod
  <2>3. TelemetryType' /\ ChangeInForce'
    BY <2>1, <2>2
  <2>4. RestAgrees'
    BY <2>1, <2>2
  <2> QED
    BY <2>3, <2>4
<1>6. CASE Telemetry!Give
  BY <1>6 DEF Telemetry!Give
<1>7. CASE Telemetry!Stop
  BY <1>7 DEF Telemetry!Stop
<1>8. CASE UNCHANGED Telemetry!service
  BY <1>8 DEF Telemetry!service
<1> QED
  BY <1>1, <1>2, <1>3, <1>4, <1>5, <1>6, <1>7, <1>8 DEF Telemetry!Next

\* A telemetry that implements TelemetryService sends what a restart would restore, for
\* any order of loads, changes and restarts (edgehog_telemetry.c:167-225, 312-344).
THEOREM SentStaysStored ==
    ASSUME Default \notin Period PROVE Telemetry!Spec => []SentIsStored
<1>1. Telemetry!Init => TelemetryInv
  BY DEF Telemetry!Init, TelemetryInv, TelemetryType, ChangeInForce, RestAgrees
<1>2. TelemetryInv /\ [Telemetry!Next]_(Telemetry!service) => TelemetryInv'
  BY TelemetryStep
<1>3. TelemetryInv => SentIsStored
  BY DEF TelemetryInv, RestAgrees, SentIsStored
<1> QED
  BY <1>1, <1>2, <1>3, PTL DEF Telemetry!Spec

-----------------------------------------------------------------------------
(* The readings. *)

\* A reading that waits was given and is not the one the server has, unless that is torn
\* (edgehog_battery_status.c:116-119; edgehog_geolocation.c:120-128).
WaitsToBeNews ==
    \A s \in Source, r \in Reading :
        r \in waiting[s] => r \in given[s] /\ (s \in torn \/ r # published[s])

\* Nothing is published again that the server has, and what it gets was given, whole or,
\* if the publication is torn, field by field
\* (edgehog_battery_status.c:127-164; edgehog_geolocation.c:131-169).
PublishesNews ==
    [][\A s \in Source :
         published'[s] # published[s] =>
             /\ waiting'[s] = {}
             /\ IF s \in torn' THEN waiting[s] # {} /\ Readings!Mixture(s, published'[s])
                ELSE published'[s] \in given[s] /\ waiting[s] = {published'[s]}]_(Readings!service)

ReadingsInv ==
    /\ given \in [Source -> SUBSET Reading] /\ published \in [Source -> Reading \cup {Zero}]
    /\ waiting \in [Source -> {{}} \cup {{r} : r \in Reading}] /\ torn \subseteq Source
    /\ WaitsToBeNews

LEMMA ReadingsStep == ReadingsInv /\ [Readings!Next]_(Readings!service) => ReadingsInv'
<1> SUFFICES ASSUME ReadingsInv, [Readings!Next]_(Readings!service) PROVE ReadingsInv'
  OBVIOUS
<1> USE DEF ReadingsInv, WaitsToBeNews
<1>1. ASSUME NEW s \in Source, NEW r \in Reading, Readings!Give(s, r) PROVE ReadingsInv'
  BY <1>1 DEF Readings!Give
<1>2. ASSUME NEW s \in Source, NEW r \in Reading, Readings!Keep(s, r) PROVE ReadingsInv'
  BY <1>2 DEF Readings!Keep
<1>3. ASSUME NEW s \in Source, NEW r \in Reading, Readings!Publish(s, r) PROVE ReadingsInv'
  BY <1>3 DEF Readings!Publish
<1>4. ASSUME NEW s \in Source, NEW r \in Reading, Readings!Tear(s, r) PROVE ReadingsInv'
  BY <1>4 DEF Readings!Tear
<1>5. CASE UNCHANGED Readings!service
  BY <1>5 DEF Readings!service
<1> QED
  BY <1>1, <1>2, <1>3, <1>4, <1>5 DEF Readings!Next

\* Whatever implements ReadingService publishes each reading that waited once, and only
\* what the application gave: a reading that is news to the server, or, where it is torn,
\* a mixture of readings of the same source
\* (edgehog_battery_status.c:106-164; edgehog_geolocation.c:115-169).
THEOREM OnlyNewsIsPublished == Readings!Spec => PublishesNews /\ []WaitsToBeNews
<1>1. Readings!Init => ReadingsInv
  BY DEF Readings!Init, ReadingsInv, WaitsToBeNews
<1>2. ReadingsInv /\ [Readings!Next]_(Readings!service)
        => [\A s \in Source :
              published'[s] # published[s] =>
                  /\ waiting'[s] = {}
                  /\ IF s \in torn' THEN waiting[s] # {} /\ Readings!Mixture(s, published'[s])
                     ELSE published'[s] \in given[s] /\ waiting[s] = {published'[s]}]_(Readings!service)
  <2> SUFFICES ASSUME ReadingsInv, Readings!Next, NEW s \in Source,
                      published'[s] # published[s]
               PROVE  /\ waiting'[s] = {}
                      /\ IF s \in torn' THEN waiting[s] # {} /\ Readings!Mixture(s, published'[s])
                         ELSE published'[s] \in given[s] /\ waiting[s] = {published'[s]}
    BY DEF Readings!service
  <2>1. PICK r \in Reading : Readings!Publish(s, r) \/ Readings!Tear(s, r)
    BY DEF ReadingsInv, Readings!Next, Readings!Give, Readings!Keep, Readings!Publish,
           Readings!Tear
  <2>2. CASE Readings!Publish(s, r)
    BY <2>1, <2>2 DEF ReadingsInv, WaitsToBeNews, Readings!Publish
  <2>3. CASE Readings!Tear(s, r)
    BY <2>1, <2>3 DEF ReadingsInv, Readings!Tear
  <2> QED
    BY <2>1, <2>2, <2>3
<1>3. ReadingsInv => WaitsToBeNews
  BY DEF ReadingsInv
<1> QED
  BY <1>1, <1>2, <1>3, ReadingsStep, PTL DEF Readings!Spec, PublishesNews
=============================================================================
