---------------------------- MODULE EdgehogPublish ----------------------------
(***************************************************************************)
(* What the device publishes of itself field by field.                     *)
(*                                                                         *)
(* Each function sends the fields of one group, one after the other, and   *)
(* either stops at the first that fails or goes on.  The task that starts  *)
(* the device publishes the groups of edgehog_initial_publish, the timer   *)
(* service publishes some of them again, and a task of the application     *)
(* publishes modems and network interfaces, whose names are part of the    *)
(* paths.  The server keeps the last value of each field.                  *)
(***************************************************************************)
EXTENDS Integers, Sequences

CONSTANTS
    NameLengths,       \* lengths of the names, for each of the groups in Named
    Partitions,        \* number of the NVS partitions
    MaxPublications    \* bound: publications of a group

ASSUME PublicationsAssumption == Partitions \in Nat /\ MaxPublications \in Nat

VARIABLES
    nameLength,    \* of the modem and of the network interface
    sending,       \* the publication of each task, or Idle
    given,         \* how often each group was published: the number of the last values
    known,         \* the number of the value the server has of each field, or 0
    oldest,        \* of each group, the first of the last publications that overlapped
    partial        \* groups with a field that one of these did not send

publishVars == <<nameLength, sending, given, known, oldest, partial>>

-----------------------------------------------------------------------------
(* The groups: how many fields, whether a field that fails ends the publication, *)
(* and the lengths of the endpoints that follow a name.                          *)

\* publish_device_hardware_info: /cpu/architecture, model, modelName, vendor, /mem/totalBytes.
HardwareInfo == [fields |-> 5, stops |-> FALSE]

\* publish_system_status, one aggregate.
SystemStatus == [fields |-> 1, stops |-> FALSE]

\* One aggregate for each partition.
StorageUsage == [fields |-> Partitions, stops |-> FALSE]

\* /osName and /osVersion.
OsInfo == [fields |-> 2, stops |-> TRUE]

\* /name, /version, /buildId and /fingerprint.
BaseImage == [fields |-> 4, stops |-> TRUE]

\* /name, /url, /version and /environment.
RuntimeInfo == [fields |-> 4, stops |-> TRUE]

\* edgehog_connection_status_publish, one aggregate.
CellularStatus == [fields |-> 1, stops |-> FALSE]

\* imei, imsi and apn: only the first path is compared with its buffer.
CellularProperties ==
    [fields |-> 3, stops |-> TRUE, endpoint |-> <<5, 5, 4>>, room |-> 32, compared |-> {1}]

\* Mutant: only the first path is compared with its buffer.
NetifProperties_first ==
    [fields |-> 2, stops |-> TRUE, endpoint |-> <<11, 15>>, room |-> 64, compared |-> {1}]
\* macAddress and technologyType.
NetifProperties ==
    [fields |-> 2, stops |-> TRUE, endpoint |-> <<11, 15>>, room |-> 64, compared |-> {1, 2}]

Group ==
    [hardwareInfo |-> HardwareInfo, systemStatus |-> SystemStatus,
     storageUsage |-> StorageUsage, osInfo |-> OsInfo, baseImage |-> BaseImage,
     runtimeInfo |-> RuntimeInfo, cellularStatus |-> CellularStatus,
     cellularProperties |-> CellularProperties, netifProperties |-> NetifProperties]

\* The groups whose paths begin with the name of a modem or of a network interface.
Named == {"cellularProperties", "netifProperties"}

ASSUME LengthAssumption == NameLengths \subseteq [Named -> Nat]

\* edgehog_initial_publish, without the update's start and the Wi-Fi scan.
InitialGroups == <<"hardwareInfo", "systemStatus", "storageUsage", "osInfo", "baseImage",
                   "runtimeInfo">>

\* edgehog_device_get_telemetry_periodic, of the groups of this module.
PeriodicGroups == {"hardwareInfo", "systemStatus", "storageUsage"}

AppGroups == {"cellularStatus", "cellularProperties", "netifProperties"}

Publisher == {"start", "timer", "app"}

Idle == [group |-> "none", field |-> 0, number |-> 0]

Field(g) == 1..Group[g].fields

PublishTypeOK ==
    /\ nameLength \in NameLengths
    /\ sending \in [Publisher -> [group : DOMAIN Group \cup {"none"}, field : Nat, number : Nat]]
    /\ \A p \in Publisher : sending[p] # Idle =>
          LET g == sending[p].group
          IN  g # "none" /\ sending[p].field \in Field(g) /\ sending[p].number \in 1..given[g]
    /\ given \in [DOMAIN Group -> 0..MaxPublications]
    /\ DOMAIN known = DOMAIN Group
    /\ \A g \in DOMAIN Group : known[g] \in [Field(g) -> 0..given[g]]
    /\ oldest \in [DOMAIN Group -> 0..MaxPublications]
    /\ partial \subseteq DOMAIN Group

PublishInit ==
    /\ nameLength \in NameLengths
    /\ sending = [p \in Publisher |-> Idle]
    /\ given = [g \in DOMAIN Group |-> 0]
    /\ known = [g \in DOMAIN Group |-> [f \in Field(g) |-> 0]]
    /\ oldest = [g \in DOMAIN Group |-> 0]
    /\ partial = {}

-----------------------------------------------------------------------------
Publishing(g) == {p \in Publisher : sending[p].group = g}

\* One of the functions is called.  Publications of one group may overlap, and leave the
\* server with fields of each.
Publish(p, g) ==
    /\ sending[p] = Idle /\ given[g] < MaxPublications
    /\ given' = [given EXCEPT ![g] = @ + 1]
    /\ sending' = [sending EXCEPT ![p] =
                     IF Field(g) = {} THEN Idle
                     ELSE [group |-> g, field |-> 1, number |-> given[g] + 1]]
    /\ \/ /\ Publishing(g) = {} /\ partial' = partial \ {g}
          /\ oldest' = [oldest EXCEPT ![g] = given[g] + 1]
       \/ Publishing(g) # {} /\ UNCHANGED <<oldest, partial>>
    /\ UNCHANGED <<nameLength, known>>

\* The path "/<name>/<endpoint>" and its terminator.
PathSize(g, f) == 1 + nameLength[g] + Group[g].endpoint[f] + 1

Refused(g, f) == g \in Named /\ f \in Group[g].compared /\ PathSize(g, f) > Group[g].room

\* Mutant: the last field is left out.
NextField_early(s) ==
    IF s.field + 1 < Group[s.group].fields THEN [s EXCEPT !.field = @ + 1] ELSE Idle
NextField(s) == IF s.field < Group[s.group].fields THEN [s EXCEPT !.field = @ + 1] ELSE Idle

Send(p) ==
    LET s == sending[p] IN
    /\ s # Idle /\ ~Refused(s.group, s.field)
    /\ known' = [known EXCEPT ![s.group][s.field] = s.number]
    /\ sending' = [sending EXCEPT ![p] = NextField(s)]
    /\ UNCHANGED <<nameLength, given, oldest, partial>>

\* Mutant: no failure ends a publication.
AfterFailure_next(s) == NextField(s)
AfterFailure(s) == IF Group[s.group].stops THEN Idle ELSE NextField(s)

\* The library does not take the field, or there is no memory for its path or value.
SendFails(p) ==
    LET s == sending[p] IN
    /\ s # Idle /\ ~Refused(s.group, s.field)
    /\ sending' = [sending EXCEPT ![p] = AfterFailure(s)]
    /\ partial' = partial \cup {s.group}
    /\ UNCHANGED <<nameLength, given, known, oldest>>

\* snprintf would have needed more room.
PathRefused(p) ==
    LET s == sending[p] IN
    /\ s # Idle /\ Refused(s.group, s.field)
    /\ sending' = [sending EXCEPT ![p] = Idle]
    /\ partial' = partial \cup {s.group}
    /\ UNCHANGED <<nameLength, given, known, oldest>>

PublishStep == \E p \in Publisher : Send(p) \/ PathRefused(p)

\* esp_restart or power loss.
PublishRestart ==
    /\ sending' = [p \in Publisher |-> Idle]
    /\ partial' = partial \cup {g \in DOMAIN Group : Publishing(g) # {}}
    /\ UNCHANGED <<nameLength, given, known, oldest>>

-----------------------------------------------------------------------------
\* A group that stops at the first failure never has a field newer than one before it,
\* whatever failed or was cut short by a restart: the server can tell by the first field
\* how new the group may be at most (edgehog_base_image.c:42-81,
\* edgehog_cellular_connection.c:89-115).
FieldsInOrder ==
    \A g \in DOMAIN Group : Group[g].stops =>
        \A e, f \in Field(g) : e < f => known[g][e] >= known[g][f]

\* No path is cut by its buffer, though two of the five are not compared with it: a
\* cut path would be another field (edgehog_cellular_connection.c:92-110,
\* edgehog_network_interface.c:41-55).
SentPathsFit ==
    \A g \in Named : \A f \in Field(g) :
        known[g][f] > 0 => PathSize(g, f) <= Group[g].room

\* When the tasks that published a group are done with it, and no field failed or was cut
\* short by a restart, the server has every field of it at least from the first of the
\* publications that overlapped, and of the last one where it ran alone
\* (edgehog_device.c:195-207, 551-569).
WholeGroups ==
    \A g \in DOMAIN Group : Publishing(g) = {} /\ g \notin partial =>
        \A f \in Field(g) : known[g][f] >= oldest[g]
=============================================================================
