------------------------- MODULE EdgehogPublishProofs -------------------------
(***************************************************************************)
(* Proofs about the parts of EdgehogDevice that EdgehogPublish and         *)
(* EdgehogLifecycle define, for any lengths of names, partitions and       *)
(* bounds.                                                                 *)
(*                                                                         *)
(* The order of a group's fields rests on the running publication: what it *)
(* has sent so far is what the server has, for no other task publishes a   *)
(* group that stops at a failure.  The other groups rest on what the tasks *)
(* that publish one at the same time leave behind them: nothing older than *)
(* the first of their publications.                                        *)
(***************************************************************************)
EXTENDS EdgehogDevice, TLAPS

-----------------------------------------------------------------------------
(* The life of the device. *)

LifeNext ==
    \/ LifeStep \/ New \/ Start \/ Published \/ Scanning \/ Scanned \/ Destroy \/ LifeRestart

\* What the device's steps are to its life.
LEMMA LifeView == [Next]_vars => [LifeNext]_lifeVars
BY DEF Next, vars, LifeNext, Restart, MainStep, NewCalled, StartPublishes, StartScans,
       ScanReturns, DestroyCalled, InputStep, TimerFires, AppCalls, TaskStep

\* What is allocated at each place of the life.
HeapFollows ==
    /\ lifePc = "absent" => heap \subseteq {"astarte"}
    /\ lifePc \in {"interfaces", "led", "telemetry"} => heap = {"astarte", "device"}
    /\ lifePc = "mutex" => heap = {"astarte", "device", "telemetry"}
    /\ lifePc = "config" => heap = {"astarte", "device", "telemetry", "mutex"}
    /\ Usable => heap = {"astarte", "device", "telemetry", "mutex", "config"}
    /\ lifePc \in {"destroy", "destroyTelemetry"} =>
          "telemetry" \in heap \/ heap \subseteq {"astarte", "device"}
    /\ lifePc = "destroyTelemetry" => "astarte" \notin heap
    /\ lifePc = "free" => heap \subseteq {"device"}

LifeInv == LifeTypeOK /\ HeapFollows

\* A step of the life moves between the places LifeTypeOK lists.
LEMMA LifeInvStep == LifeInv /\ [LifeNext]_lifeVars => LifeInv'
<1> SUFFICES ASSUME LifeInv, [LifeNext]_lifeVars PROVE LifeInv'
  OBVIOUS
<1> USE LivesAssumption DEF LifeInv, LifeTypeOK, HeapFollows, Usable, Resource, Moves
<1>1. CASE AstarteInit
  BY <1>1 DEF AstarteInit
<1>2. CASE New
  <2>1. lives' \in 0..MaxLives /\ UNCHANGED publishes
    BY <1>2 DEF New
  <2>2. CASE Moves("absent", "interfaces") /\ heap' = heap \cup {"device"}
    <3>1. heap = {"astarte"}
      BY <1>2, <2>2 DEF New
    <3>2. heap' = {"astarte", "device"}
      BY <2>2, <3>1
    <3> QED
      BY <2>1, <2>2, <3>2
  <2>3. CASE Moves("absent", "absent") /\ UNCHANGED heap
    BY <2>1, <2>3
  <2> QED
    BY <1>2, <2>2, <2>3 DEF New
<1>3. CASE AddInterfaces \/ LedNew
  BY <1>3 DEF AddInterfaces, LedNew
<1>4. CASE TelemetryNew \/ MutexNew
  BY <1>4 DEF TelemetryNew, MutexNew, NoMutex
<1>5. CASE ConfigNew
  BY <1>5 DEF ConfigNew, TelemetryUndone
<1>6. CASE Start \/ Published \/ Scanning \/ Scanned \/ TelemetryStarted
  BY <1>6 DEF Start, Published, Scanning, Scanned, TelemetryStarted
<1>7. CASE Destroy \/ DestroyAstarte
  BY <1>7 DEF Destroy, DestroyAstarte
<1>8. CASE TelemetryDestroy
  BY <1>8 DEF TelemetryDestroy
<1>9. CASE Free
  BY <1>9 DEF Free
<1>10. CASE LifeRestart
  BY <1>10 DEF LifeRestart
<1>11. CASE UNCHANGED lifeVars
  BY <1>11 DEF lifeVars
<1> QED
  BY <1>1, <1>2, <1>3, <1>4, <1>5, <1>6, <1>7, <1>8, <1>9, <1>10, <1>11
     DEF LifeNext, LifeStep

LEMMA LifeInvariance == Spec => []LifeInv
<1>1. Init => LifeInv
  BY LivesAssumption
     DEF Init, LifeInit, LifeInv, LifeTypeOK, HeapFollows, Usable, Resource
<1> QED
  BY <1>1, LifeInvStep, LifeView, PTL DEF Spec

LEMMA LifeTypeCorrect == Spec => []LifeTypeOK
<1>1. LifeInv => LifeTypeOK
  BY DEF LifeInv
<1> QED
  BY <1>1, LifeInvariance, PTL

\* Whichever allocation failed, and after every destruction, nothing but the manager of the
\* LED is left, and a handle that may be used has all its parts but that manager
\* (edgehog_device.c:146-193, 511-521, edgehog_telemetry.c:96-136, 292-310).
THEOREM HandleIsWhole == Spec => []AllOrNothing
<1>1. LifeInv => NothingIsLeft
  BY DEF LifeInv, HeapFollows, NothingIsLeft
<1>2. LifeInv => HandleIsComplete
  BY DEF LifeInv, LifeTypeOK, HeapFollows, HandleIsComplete, Resource
<1> QED
  BY <1>1, <1>2, LifeInvariance, PTL DEF AllOrNothing

-----------------------------------------------------------------------------
(* The publications. *)

GroupsOf(p) ==
    CASE p = "start" -> {InitialGroups[n] : n \in 1..6}
      [] p = "timer" -> PeriodicGroups
      [] p = "app"   -> AppGroups

PublishNext ==
    \/ \E p \in Publisher : \E g \in GroupsOf(p) : Publish(p, g)
    \/ PublishStep \/ (\E p \in Publisher : SendFails(p)) \/ PublishRestart

\* What the device's steps are to the publications.
LEMMA PublishView == LifeTypeOK /\ [Next]_vars => [PublishNext]_publishVars
<1> SUFFICES ASSUME LifeTypeOK, [Next]_vars PROVE [PublishNext]_publishVars
  OBVIOUS
<1>1. ASSUME StartPublishes PROVE PublishNext
  <2>1. publishes + 1 \in 1..6
    BY <1>1 DEF StartPublishes, LifeTypeOK, InitialGroups
  <2>2. InitialGroups[publishes + 1] \in GroupsOf("start") /\ "start" \in Publisher
    BY <2>1 DEF GroupsOf, Publisher
  <2> QED
    BY <1>1, <2>2 DEF StartPublishes, PublishNext
<1>2. ASSUME TimerFires PROVE [PublishNext]_publishVars
  BY <1>2 DEF TimerFires, PublishNext, GroupsOf, Publisher
<1>3. ASSUME AppCalls PROVE [PublishNext]_publishVars
  BY <1>3 DEF AppCalls, PublishNext, GroupsOf, Publisher
<1> QED
  BY <1>1, <1>2, <1>3
     DEF Next, vars, MainStep, StartScans, InputStep, TaskStep, Restart, PublishNext

GroupName == {"hardwareInfo", "systemStatus", "storageUsage", "osInfo", "baseImage",
              "runtimeInfo", "cellularStatus", "cellularProperties", "netifProperties"}

Stopping == {"osInfo", "baseImage", "runtimeInfo", "cellularProperties", "netifProperties"}

\* The groups have a number of fields each, and five of them stop at a failure.
LEMMA GroupFacts ==
    /\ DOMAIN Group = GroupName /\ "none" \notin GroupName
    /\ \A g \in GroupName : Group[g].fields \in Nat
    /\ \A g \in GroupName : Group[g].stops <=> g \in Stopping
<1>1. DOMAIN Group = GroupName /\ "none" \notin GroupName
  BY DEF Group, GroupName
<1>2. \A g \in GroupName : Group[g].fields \in Nat
  BY PublicationsAssumption
     DEF Group, GroupName, HardwareInfo, SystemStatus, StorageUsage, OsInfo, BaseImage,
         RuntimeInfo, CellularStatus, CellularProperties, NetifProperties
<1>3. /\ Group["osInfo"].stops /\ Group["baseImage"].stops /\ Group["runtimeInfo"].stops
      /\ Group["cellularProperties"].stops /\ Group["netifProperties"].stops
  BY DEF Group, OsInfo, BaseImage, RuntimeInfo, CellularProperties, NetifProperties
<1>4. /\ ~Group["hardwareInfo"].stops /\ ~Group["systemStatus"].stops
      /\ ~Group["storageUsage"].stops /\ ~Group["cellularStatus"].stops
  BY DEF Group, HardwareInfo, SystemStatus, StorageUsage, CellularStatus
<1>5. \A g \in GroupName : Group[g].stops <=> g \in Stopping
  BY <1>3, <1>4 DEF GroupName, Stopping
<1> QED
  BY <1>1, <1>2, <1>5

\* The groups that stop are published by one task each.
LEMMA OneTask ==
    /\ \A p \in Publisher : GroupsOf(p) \subseteq GroupName
    /\ \A p, q \in Publisher, g \in Stopping : g \in GroupsOf(p) /\ g \in GroupsOf(q) => p = q
<1>1. {InitialGroups[n] : n \in 1..6} =
        {"hardwareInfo", "systemStatus", "storageUsage", "osInfo", "baseImage", "runtimeInfo"}
  <2>1. \A n \in 1..6 : n = 1 \/ n = 2 \/ n = 3 \/ n = 4 \/ n = 5 \/ n = 6
    OBVIOUS
  <2>2. /\ InitialGroups[1] = "hardwareInfo" /\ InitialGroups[2] = "systemStatus"
        /\ InitialGroups[3] = "storageUsage" /\ InitialGroups[4] = "osInfo"
        /\ InitialGroups[5] = "baseImage" /\ InitialGroups[6] = "runtimeInfo"
    BY DEF InitialGroups
  <2> QED
    BY <2>1, <2>2
<1> QED
  BY <1>1 DEF GroupsOf, Publisher, PeriodicGroups, AppGroups, GroupName, Stopping

Message == [group : DOMAIN Group \cup {"none"}, field : Nat, number : Nat]

\* What a publication of g may be sending after the first m of them were called.
Sending(s, g, m) == s \in Message /\ s.group = g /\ s.field \in Field(g) /\ s.number \in 1..m

\* After a field, a publication sends the one that follows, or is over.
LEMMA NextSent ==
    ASSUME NEW g \in GroupName, NEW s, NEW m \in Nat, Sending(s, g, m)
    PROVE  /\ s # Idle
           /\ \/ NextField(s) = Idle /\ s.field = Group[g].fields
              \/ /\ Sending(NextField(s), g, m) /\ NextField(s) # Idle
                 /\ NextField(s).field = s.field + 1 /\ NextField(s).number = s.number
<1>1. s.group # "none" /\ Group[g].fields \in Nat /\ g \in DOMAIN Group
  BY GroupFacts DEF Sending
<1>2. s # Idle
  BY <1>1 DEF Idle
<1>3. CASE s.field < Group[g].fields
  <2>1. NextField(s) = [s EXCEPT !.field = s.field + 1]
    BY <1>3 DEF NextField, Sending
  <2>2. /\ NextField(s) \in Message /\ NextField(s).group = g
        /\ NextField(s).number = s.number /\ NextField(s).field = s.field + 1
    BY <2>1, <1>1 DEF Sending, Message, Field
  <2>3. NextField(s).field \in Field(g)
    BY <2>2, <1>1, <1>3 DEF Sending, Field
  <2>4. NextField(s) # Idle
    BY <2>2, <1>1 DEF Idle, Sending
  <2> QED
    BY <1>2, <2>2, <2>3, <2>4 DEF Sending
<1>4. CASE ~(s.field < Group[g].fields)
  BY <1>1, <1>2, <1>4 DEF NextField, Sending, Field
<1> QED
  BY <1>3, <1>4

\* PublishTypeOK, said with Sending.
PublishType ==
    /\ nameLength \in NameLengths
    /\ sending \in [Publisher -> Message]
    /\ \A p \in Publisher : sending[p] = Idle \/ \E g \in GroupName : Sending(sending[p], g, given[g])
    /\ given \in [GroupName -> 0..MaxPublications]
    /\ DOMAIN known = GroupName
    /\ \A g \in GroupName : known[g] \in [Field(g) -> 0..given[g]]
    /\ oldest \in [GroupName -> 0..MaxPublications]
    /\ partial \subseteq GroupName

LEMMA TypeParts == PublishTypeOK <=> PublishType
<1>1. DOMAIN Group = GroupName /\ "none" \notin GroupName
  BY GroupFacts
<1>2. ASSUME sending \in [Publisher -> Message], NEW p \in Publisher
      PROVE  (sending[p] # Idle =>
                LET g == sending[p].group
                IN  g # "none" /\ sending[p].field \in Field(g) /\ sending[p].number \in 1..given[g])
             <=> (sending[p] = Idle \/ \E g \in GroupName : Sending(sending[p], g, given[g]))
  <2>1. sending[p] \in Message /\ sending[p].group \in GroupName \cup {"none"}
    BY <1>1, <1>2 DEF Message
  <2> QED
    BY <1>1, <2>1 DEF Sending
<1> QED
  BY <1>1, <1>2 DEF PublishTypeOK, PublishType, Message

\* Every step keeps the types of the publications.
LEMMA PublishTypeStep == PublishType /\ [PublishNext]_publishVars => PublishType'
<1> SUFFICES ASSUME PublishType, [PublishNext]_publishVars PROVE PublishType'
  OBVIOUS
<1> USE PublicationsAssumption, GroupFacts DEF PublishType
<1>1. Idle \in Message
  BY DEF Idle, Message
<1>2. ASSUME NEW p \in Publisher, NEW g \in GroupsOf(p), Publish(p, g) PROVE PublishType'
  <2>1. g \in GroupName /\ given[g] \in Nat /\ given[g] < MaxPublications
    BY <1>2, OneTask DEF Publish
  <2>2. /\ given' = [given EXCEPT ![g] = given[g] + 1]
        /\ given' \in [GroupName -> 0..MaxPublications]
        /\ given'[g] = given[g] + 1 /\ 1 <= given'[g]
        /\ \A h \in GroupName : given[h] <= given'[h] /\ given'[h] \in Nat /\ given[h] \in Nat
    BY <1>2, <2>1 DEF Publish
  <2>3. \A h \in GroupName : known'[h] \in [Field(h) -> 0..given'[h]]
    BY <1>2, <2>2 DEF Publish
  <2>4. \A t : \A h \in GroupName : Sending(t, h, given[h]) => Sending(t, h, given'[h])
    BY <2>2 DEF Sending, Field
  <2> DEFINE s == [group |-> g, field |-> 1, number |-> given[g] + 1]
  <2>5. ASSUME Field(g) # {} PROVE Sending(s, g, given'[g])
    <3>1. 1 \in Field(g)
      BY <2>1, <2>5 DEF Field
    <3>2. s \in Message /\ s.group = g /\ s.field = 1 /\ s.number = given'[g]
      BY <2>1, <2>2 DEF Message
    <3>3. s.number \in 1..given'[g]
      BY <2>1, <2>2, <3>2
    <3> HIDE DEF s
    <3> QED
      BY <3>1, <3>2, <3>3 DEF Sending, Field
  <2>6. sending' = [sending EXCEPT ![p] = IF Field(g) = {} THEN Idle ELSE s]
    BY <1>2 DEF Publish
  <2> HIDE DEF s
  <2>7. sending' \in [Publisher -> Message]
    <3>1. Field(g) # {} => s \in Message
      BY <2>5 DEF Sending
    <3> QED
      BY <1>1, <2>6, <3>1
  <2>8. ASSUME NEW q \in Publisher
        PROVE  sending'[q] = Idle \/ \E h \in GroupName : Sending(sending'[q], h, given'[h])
    <3>1. CASE q = p
      BY <2>1, <2>5, <2>6, <3>1
    <3>2. CASE q # p
      <4>1. sending'[q] = sending[q]
        BY <2>6, <3>2
      <4> QED
        BY <2>4, <4>1
    <3> QED
      BY <3>1, <3>2
  <2>9. /\ partial' \subseteq GroupName /\ nameLength' = nameLength /\ known' = known
        /\ oldest' \in [GroupName -> 0..MaxPublications]
    BY <1>2, <2>1 DEF Publish
  <2> QED
    BY <2>2, <2>3, <2>7, <2>8, <2>9
<1>3. ASSUME NEW p \in Publisher, NEW g \in GroupName, Sending(sending[p], g, given[g]),
             UNCHANGED <<nameLength, given, oldest>>,
             sending' \in {[sending EXCEPT ![p] = Idle],
                           [sending EXCEPT ![p] = NextField(sending[p])]},
             DOMAIN known' = GroupName,
             \A h \in GroupName : known'[h] \in [Field(h) -> 0..given[h]],
             partial' \subseteq GroupName
      PROVE  PublishType'
  <2> DEFINE t == NextField(sending[p])
  <2>1. t = Idle \/ Sending(t, g, given[g])
    BY <1>3, NextSent
  <2> HIDE DEF t
  <2>2. PICK u : sending' = [sending EXCEPT ![p] = u] /\ (u = Idle \/ Sending(u, g, given[g]))
    BY <1>3, <2>1 DEF t
  <2>3. sending' \in [Publisher -> Message]
    BY <1>1, <2>2 DEF Sending
  <2>4. ASSUME NEW q \in Publisher
        PROVE  sending'[q] = Idle \/ \E h \in GroupName : Sending(sending'[q], h, given'[h])
    BY <1>3, <2>2
  <2> QED
    BY <1>3, <2>3, <2>4
<1>4. ASSUME NEW p \in Publisher, sending[p] # Idle
      PROVE  \E g \in GroupName : Sending(sending[p], g, given[g]) /\ sending[p].group = g
  BY <1>4 DEF Sending
<1>5. ASSUME NEW p \in Publisher, Send(p) PROVE PublishType'
  <2>1. PICK g \in GroupName : Sending(sending[p], g, given[g])
    BY <1>4, <1>5 DEF Send
  <2>2. /\ sending[p].group = g /\ sending[p].field \in Field(g)
        /\ sending[p].number \in 0..given[g] /\ given[g] \in Nat
    BY <2>1 DEF Sending
  <2>3. known' = [known EXCEPT ![g] = [known[g] EXCEPT ![sending[p].field] = sending[p].number]]
    BY <1>5, <2>2 DEF Send
  <2>4. \A h \in GroupName : known'[h] \in [Field(h) -> 0..given[h]]
    BY <2>2, <2>3
  <2>5. DOMAIN known' = GroupName
    BY <2>3
  <2> QED
    BY <1>3, <1>5, <2>1, <2>4, <2>5 DEF Send
<1>6. ASSUME NEW p \in Publisher, SendFails(p) \/ PathRefused(p) PROVE PublishType'
  <2>1. PICK g \in GroupName : Sending(sending[p], g, given[g]) /\ sending[p].group = g
    BY <1>4, <1>6 DEF SendFails, PathRefused
  <2>2. partial' \subseteq GroupName
    BY <1>6, <2>1 DEF SendFails, PathRefused
  <2> QED
    BY <1>3, <1>6, <2>1, <2>2 DEF SendFails, PathRefused, AfterFailure
<1>7. CASE PublishRestart
  <2>1. \A p \in Publisher : sending'[p] = Idle
    BY <1>7 DEF PublishRestart
  <2>2. partial' \subseteq GroupName /\ sending' \in [Publisher -> Message]
    BY <1>1, <1>7 DEF PublishRestart
  <2> QED
    BY <1>7, <2>1, <2>2 DEF PublishRestart, Field
<1>8. CASE UNCHANGED publishVars
  BY <1>8 DEF publishVars, Sending, Field
<1> QED
  BY <1>2, <1>5, <1>6, <1>7, <1>8 DEF PublishNext, PublishStep

LEMMA PublishStart == Init => PublishType
<1> SUFFICES ASSUME Init PROVE PublishType
  OBVIOUS
<1>1. sending \in [Publisher -> Message] /\ \A p \in Publisher : sending[p] = Idle
  BY DEF Init, PublishInit, Idle, Message
<1>2. given \in [GroupName -> 0..MaxPublications] /\ \A g \in GroupName : given[g] = 0
  BY GroupFacts, PublicationsAssumption DEF Init, PublishInit
<1>3. /\ DOMAIN known = GroupName
      /\ \A g \in GroupName : known[g] \in [Field(g) -> 0..given[g]]
  BY <1>2, GroupFacts DEF Init, PublishInit
<1>4. oldest \in [GroupName -> 0..MaxPublications]
  BY GroupFacts, PublicationsAssumption DEF Init, PublishInit
<1> QED
  BY <1>1, <1>2, <1>3, <1>4 DEF Init, PublishInit, PublishType

\* The publications keep their types.
LEMMA PublishTypeCorrect == Spec => []PublishTypeOK
  BY PublishStart, PublishTypeStep, TypeParts, PublishView, LifeTypeCorrect, PTL DEF Spec

-----------------------------------------------------------------------------
(* What the server has of a group.  A publication of a group that stops at a failure  *)
(* is the last of its group and the only one, and has sent all the fields it has       *)
(* passed.  Publications that overlap are none of them older than the oldest, and each *)
(* leaves behind it fields at least as new.                                            *)

Own == \A p \in Publisher, g \in GroupName : sending[p].group = g => g \in GroupsOf(p)

Solo ==
    \A p \in Publisher, g \in Stopping : sending[p].group = g =>
        /\ sending[p].number = given[g]
        /\ \A e \in Field(g) : e < sending[p].field => known[g][e] = given[g]
        /\ \A q \in Publisher : sending[q].group = g => q = p

Recent ==
    \A p \in Publisher, g \in GroupName : sending[p].group = g =>
        /\ sending[p].number >= oldest[g]
        /\ g \notin partial =>
              \A e \in Field(g) : e < sending[p].field => known[g][e] >= oldest[g]

Order == \A g \in Stopping : \A e, f \in Field(g) : e < f => known[g][e] >= known[g][f]

Whole ==
    \A g \in GroupName : (\A p \in Publisher : sending[p].group # g) /\ g \notin partial =>
        \A f \in Field(g) : known[g][f] >= oldest[g]

Claims == Own /\ Solo /\ Recent /\ Order /\ Whole /\ SentPathsFit

\* The paths of the named groups: one that is not compared follows a longer one.
LEMMA PathFacts ==
    nameLength \in [Named -> Nat] =>
        \A g \in Named : \A f \in Field(g) :
            /\ g \in Stopping /\ g \in GroupName /\ 1 \in Field(g) /\ Group[g].room \in Nat
            /\ PathSize(g, f) \in Nat /\ PathSize(g, 1) \in Nat
            /\ f \in Group[g].compared \/ (1 < f /\ PathSize(g, f) <= PathSize(g, 1))
<1> SUFFICES ASSUME nameLength \in [Named -> Nat], NEW g \in Named, NEW f \in Field(g)
             PROVE  /\ g \in Stopping /\ g \in GroupName /\ 1 \in Field(g) /\ Group[g].room \in Nat
                    /\ PathSize(g, f) \in Nat /\ PathSize(g, 1) \in Nat
                    /\ f \in Group[g].compared \/ (1 < f /\ PathSize(g, f) <= PathSize(g, 1))
  OBVIOUS
<1>1. CASE g = "cellularProperties"
  <2>1. Group[g] = CellularProperties
    BY <1>1 DEF Group
  <2>2. f = 1 \/ f = 2 \/ f = 3
    BY <2>1 DEF Field, CellularProperties
  <2>3. nameLength[g] \in Nat
    OBVIOUS
  <2> QED
    BY <1>1, <2>1, <2>2, <2>3 DEF Field, CellularProperties, PathSize, Stopping, GroupName
<1>2. CASE g = "netifProperties"
  <2>1. Group[g] = NetifProperties
    BY <1>2 DEF Group
  <2>2. f = 1 \/ f = 2
    BY <2>1 DEF Field, NetifProperties
  <2>3. nameLength[g] \in Nat
    OBVIOUS
  <2> QED
    BY <1>2, <2>1, <2>2, <2>3 DEF Field, NetifProperties, PathSize, Stopping, GroupName
<1> QED
  BY <1>1, <1>2 DEF Named

\* A publication starts.
LEMMA ClaimsPublish ==
    ASSUME PublishType, Claims, NEW p \in Publisher, NEW g \in GroupsOf(p), Publish(p, g)
    PROVE  Claims'
<1> USE GroupFacts DEF PublishType, Claims
<1>1. g \in GroupName /\ given[g] \in Nat /\ oldest[g] \in Nat
  BY OneTask, PublicationsAssumption
<1> DEFINE new == [group |-> g, field |-> 1, number |-> given[g] + 1]
<1>2. /\ sending[p] = Idle /\ sending[p].group = "none"
      /\ given' = [given EXCEPT ![g] = given[g] + 1]
      /\ sending' = [sending EXCEPT ![p] = IF Field(g) = {} THEN Idle ELSE new]
      /\ \/ /\ Publishing(g) = {} /\ partial' = partial \ {g}
            /\ oldest' = [oldest EXCEPT ![g] = given[g] + 1]
         \/ Publishing(g) # {} /\ UNCHANGED <<oldest, partial>>
      /\ UNCHANGED <<nameLength, known>>
  BY DEF Publish, Idle
<1>3. /\ \A q \in Publisher : q # p => sending'[q] = sending[q]
      /\ Field(g) # {} => sending'[p].group = g /\ sending'[p].field = 1
                          /\ sending'[p].number = given'[g]
      /\ Field(g) = {} => sending'[p].group = "none"
  BY <1>1, <1>2 DEF Idle
<1>4. \A h \in GroupName : h # g => /\ given'[h] = given[h] /\ oldest'[h] = oldest[h]
                                  /\ h \in partial' <=> h \in partial
  BY <1>1, <1>2
<1>5. Own'
  BY <1>3 DEF Own
<1>6. \A e \in Field(g) : ~(e < 1)
  BY DEF Field
<1>7. Solo'
  <2> SUFFICES ASSUME NEW q \in Publisher, NEW h \in Stopping, sending'[q].group = h
               PROVE  /\ sending'[q].number = given'[h]
                      /\ \A e \in Field(h) : e < sending'[q].field => known'[h][e] = given'[h]
                      /\ \A r \in Publisher : sending'[r].group = h => r = q
    BY DEF Solo
  <2>1. h \in GroupName
    BY DEF Stopping, GroupName
  <2>2. CASE h # g
    <3>1. q # p /\ sending'[q] = sending[q] /\ \A r \in Publisher : sending'[r].group = h => r # p
      BY <1>3, <2>1, <2>2
    <3> QED
      BY <1>2, <1>3, <1>4, <2>1, <2>2, <3>1 DEF Solo
  <2>3. CASE h = g
    <3>1. \A r \in Publisher : r # p => sending[r].group # g
      BY <1>1, <2>3, OneTask DEF Own
    <3>2. q = p /\ Field(g) # {}
      BY <1>3, <2>1, <2>3, <3>1
    <3> QED
      BY <1>3, <1>6, <2>3, <3>1, <3>2
  <2> QED
    BY <2>2, <2>3
<1>8. Recent'
  <2> SUFFICES ASSUME NEW q \in Publisher, NEW h \in GroupName, sending'[q].group = h
               PROVE  /\ sending'[q].number >= oldest'[h]
                      /\ h \notin partial' =>
                            \A e \in Field(h) : e < sending'[q].field => known'[h][e] >= oldest'[h]
    BY DEF Recent
  <2>1. CASE h # g
    <3>1. q # p /\ sending'[q] = sending[q]
      BY <1>3, <2>1
    <3> QED
      BY <1>2, <1>4, <2>1, <3>1 DEF Recent
  <2>2. CASE h = g /\ q = p
    <3>1. /\ sending'[p].field = 1 /\ sending'[p].number = given[g] + 1
      BY <1>1, <1>2, <1>3, <2>2
    <3>2. oldest'[g] <= given[g] + 1
      <4>1. CASE Publishing(g) = {}
        BY <1>1, <1>2, <4>1
      <4>2. CASE Publishing(g) # {}
        <5>1. PICK r \in Publisher : sending[r].group = g
          BY <4>2 DEF Publishing
        <5>2. sending[r].number \in 1..given[g] /\ sending[r].number >= oldest[g]
          BY <1>1, <5>1 DEF Recent, Sending, Idle
        <5> QED
          BY <1>1, <1>2, <4>2, <5>2
      <4> QED
        BY <4>1, <4>2
    <3> QED
      BY <1>1, <1>2, <1>6, <2>2, <3>1, <3>2
  <2>3. CASE h = g /\ q # p
    <3>1. sending'[q] = sending[q] /\ Publishing(g) # {}
      BY <1>3, <2>3 DEF Publishing
    <3> QED
      BY <1>2, <2>3, <3>1 DEF Recent
  <2> QED
    BY <2>1, <2>2, <2>3
<1>9. Order'
  BY <1>2 DEF Order
<1>10. Whole'
  <2> SUFFICES ASSUME NEW h \in GroupName, \A q \in Publisher : sending'[q].group # h,
                      h \notin partial', NEW f \in Field(h)
               PROVE  known'[h][f] >= oldest'[h]
    BY DEF Whole
  <2>1. h # g
    BY <1>3
  <2>2. \A q \in Publisher : sending[q].group # h
    BY <1>2, <1>3
  <2> QED
    BY <1>2, <1>4, <2>1, <2>2 DEF Whole
<1>11. SentPathsFit'
  BY <1>2 DEF SentPathsFit, PathSize
<1> QED
  BY <1>5, <1>7, <1>8, <1>9, <1>10, <1>11

\* A field is passed without being sent: the group becomes partial.
LEMMA ClaimsSkip ==
    ASSUME PublishType, Claims, NEW p \in Publisher, sending[p] # Idle,
           UNCHANGED <<nameLength, given, known, oldest>>,
           partial' = partial \cup {sending[p].group},
           \/ sending' = [sending EXCEPT ![p] = Idle]
           \/ /\ ~Group[sending[p].group].stops
              /\ sending' = [sending EXCEPT ![p] = NextField(sending[p])]
    PROVE  Claims'
<1> USE GroupFacts DEF PublishType, Claims
<1>1. PICK g \in GroupName : Sending(sending[p], g, given[g])
  OBVIOUS
<1>2. sending[p].group = g
  BY <1>1 DEF Sending
<1>3. \A q \in Publisher : q # p => sending'[q] = sending[q]
  OBVIOUS
<1>4. /\ sending'[p].group \in {"none", g}
      /\ g \in Stopping => sending'[p].group = "none"
  <2>1. CASE sending'[p] = Idle
    BY <2>1 DEF Idle
  <2>2. CASE ~Group[g].stops /\ sending'[p] = NextField(sending[p])
    <3>1. NextField(sending[p]) = Idle \/ Sending(NextField(sending[p]), g, given[g])
      BY <1>1, NextSent
    <3> QED
      BY <2>2, <3>1 DEF Sending, Idle
  <2> QED
    BY <1>2, <2>1, <2>2
<1>5. Own'
  BY <1>2, <1>3, <1>4 DEF Own
<1>6. Solo'
  <2> SUFFICES ASSUME NEW q \in Publisher, NEW h \in Stopping, sending'[q].group = h
               PROVE  /\ sending'[q].number = given'[h]
                      /\ \A e \in Field(h) : e < sending'[q].field => known'[h][e] = given'[h]
                      /\ \A r \in Publisher : sending'[r].group = h => r = q
    BY DEF Solo
  <2>1. "none" \notin Stopping
    BY DEF Stopping
  <2>2. q # p /\ sending'[q] = sending[q]
    BY <1>2, <1>3, <1>4, <2>1
  <2>3. \A r \in Publisher : sending'[r].group = h => sending[r].group = h
    BY <1>2, <1>3, <1>4, <2>1
  <2> QED
    BY <2>2, <2>3 DEF Solo
<1>9. Recent'
  <2> SUFFICES ASSUME NEW q \in Publisher, NEW h \in GroupName, sending'[q].group = h
               PROVE  /\ sending'[q].number >= oldest'[h]
                      /\ h \notin partial' =>
                            \A e \in Field(h) : e < sending'[q].field => known'[h][e] >= oldest'[h]
    BY DEF Recent
  <2>1. CASE q = p
    <3>1. h = g /\ g \in partial'
      BY <1>2, <1>4, <2>1
    <3>2. sending'[p].number = sending[p].number
      <4>1. sending'[p] = NextField(sending[p]) /\ sending'[p] # Idle
        BY <2>1, <3>1 DEF Idle
      <4>2. given[g] \in Nat
        BY PublicationsAssumption
      <4> QED
        BY <1>1, <4>1, <4>2, NextSent
    <3> QED
      BY <1>2, <2>1, <3>1, <3>2 DEF Recent
  <2>2. CASE q # p
    BY <1>3, <2>2 DEF Recent
  <2> QED
    BY <2>1, <2>2
<1>7. Order' /\ SentPathsFit'
  BY DEF Order, SentPathsFit, PathSize
<1>8. Whole'
  BY <1>2, <1>3 DEF Whole
<1> QED
  BY <1>5, <1>6, <1>7, <1>8, <1>9

LEMMA Passed ==
    ASSUME NEW e \in Nat, NEW i \in Nat
    PROVE  (e < i + 1 <=> e = i \/ e < i) /\ (e <= i <=> e = i \/ e < i) /\ (e < i => e # i)
  OBVIOUS

\* A field is sent.
LEMMA ClaimsSend ==
    ASSUME PublishType, Claims, NEW p \in Publisher, Send(p)
    PROVE  Claims'
<1> USE GroupFacts DEF PublishType, Claims
<1>1. PICK g \in GroupName : Sending(sending[p], g, given[g])
  BY DEF Send
<1> DEFINE s == sending[p]
           n == NextField(s)
<1>2. /\ s.group = g /\ s.field \in Field(g) /\ s.number \in 1..given[g] /\ given[g] \in Nat
      /\ s.field \in Nat
  BY <1>1 DEF Sending, Field
<1>3. /\ known' = [known EXCEPT ![g] = [known[g] EXCEPT ![s.field] = s.number]]
      /\ sending' = [sending EXCEPT ![p] = n] /\ ~Refused(g, s.field)
      /\ UNCHANGED <<nameLength, given, oldest, partial>>
  BY <1>2 DEF Send
<1>4. \/ n = Idle /\ s.field = Group[g].fields
      \/ n.group = g /\ n.field = s.field + 1 /\ n.number = s.number
  BY <1>1, NextSent DEF Sending
<1>5. n.group = g => n.field = s.field + 1 /\ n.number = s.number
  BY <1>4 DEF Idle
<1>6. n.group \in {"none", g} /\ (n.group # g => s.field = Group[g].fields)
  BY <1>4 DEF Idle
<1> HIDE DEF n
<1>7. /\ \A h \in GroupName : h # g => known'[h] = known[h]
      /\ known'[g][s.field] = s.number
      /\ \A e \in Field(g) : e # s.field => known'[g][e] = known[g][e]
      /\ \A q \in Publisher : q # p => sending'[q] = sending[q]
      /\ sending'[p] = n
  <2>1. known[g] \in [Field(g) -> 0..given[g]]
    OBVIOUS
  <2> QED
    BY <1>2, <1>3, <2>1
<1>8. \A e \in Field(g) : e \in Nat
  BY DEF Field
<1> HIDE DEF s
<1>9. ASSUME g \in Stopping
      PROVE  /\ s.number = given[g]
             /\ \A e \in Field(g) : e < s.field => known[g][e] = given[g]
             /\ \A q \in Publisher : sending[q].group = g => q = p
  BY <1>2, <1>9 DEF Solo, s
<1>10. Own'
  BY <1>2, <1>6, <1>7 DEF Own, s
<1>11. Solo'
  <2> SUFFICES ASSUME NEW q \in Publisher, NEW h \in Stopping, sending'[q].group = h
               PROVE  /\ sending'[q].number = given[h]
                      /\ \A e \in Field(h) : e < sending'[q].field => known'[h][e] = given[h]
                      /\ \A r \in Publisher : sending'[r].group = h => r = q
    BY <1>3 DEF Solo
  <2> h \in GroupName
    BY DEF Stopping, GroupName
  <2>1. \A r \in Publisher : sending'[r].group = h => sending[r].group = h
    BY <1>2, <1>6, <1>7 DEF s
  <2>2. \A r \in Publisher : sending'[r].group = h => r = q
    BY <2>1 DEF Solo
  <2>3. CASE h # g
    BY <1>2, <1>6, <1>7, <2>2, <2>3 DEF Solo, s
  <2>4. CASE h = g
    <3>1. q = p /\ n.group = g
      BY <1>7, <1>9, <2>1, <2>4
    <3>2. n.number = given[g] /\ n.field = s.field + 1
      BY <1>5, <1>9, <2>4, <3>1
    <3>3. \A e \in Field(g) : e < n.field => known'[g][e] = given[g]
      <4> TAKE e \in Field(g)
      <4>1. e < n.field => e = s.field \/ (e # s.field /\ e < s.field)
        <5>1. e \in Nat /\ s.field \in Nat
          BY <1>2, <1>8
        <5>2. e < s.field + 1 => e = s.field \/ (e # s.field /\ e < s.field)
          BY ONLY <5>1, Passed
        <5> QED
          BY <3>2, <5>2
      <4> QED
        BY <1>7, <1>9, <1>2, <2>4, <4>1
    <3>4. sending'[q] = n
      BY <1>7, <3>1
    <3>5. sending'[q].number = given[h]
      BY <2>4, <3>2, <3>4
    <3>6. \A e \in Field(h) : e < sending'[q].field => known'[h][e] = given[h]
      BY <2>4, <3>3, <3>4
    <3> QED
      BY <2>2, <3>5, <3>6
  <2> QED
    BY <2>3, <2>4
<1>12. Order'
  <2> SUFFICES ASSUME NEW h \in Stopping, NEW e \in Field(h), NEW f \in Field(h), e < f
               PROVE  known'[h][e] >= known'[h][f]
    BY DEF Order
  <2>1. CASE h # g
    <3>1. h \in GroupName
      BY DEF Stopping, GroupName
    <3> QED
      BY <1>7, <2>1, <3>1 DEF Order
  <2>2. CASE h = g
    <3>1. /\ s.number = given[g] /\ known'[g][s.field] = given[g]
          /\ \A d \in Field(g) : d < s.field => known[g][d] = given[g]
      BY <1>7, <1>9, <2>2
    <3>2. \A d \in Field(g) : known[g][d] \in 0..given[g]
      OBVIOUS
    <3>3. known'[g][f] \in Int /\ known'[g][f] <= given[g]
      <4>1. known'[g][f] = given[g] \/ known'[g][f] = known[g][f]
        BY <1>7, <2>2, <3>1
      <4>2. known[g][f] \in 0..given[g]
        BY <2>2, <3>2
      <4> QED
        BY <1>2, <4>1, <4>2
    <3>4. CASE e <= s.field
      <4>1. known'[g][e] = given[g]
        <5>1. e \in Field(g) /\ (e = s.field \/ (e # s.field /\ e < s.field))
          BY <1>2, <1>8, <2>2, <3>4, Passed
        <5> QED
          BY <1>7, <3>1, <5>1
      <4> QED
        BY <1>2, <2>2, <3>3, <4>1
    <3>5. CASE e > s.field
      <4>1. known'[g][e] = known[g][e] /\ known'[g][f] = known[g][f]
        BY <1>2, <1>7, <1>8, <2>2, <3>5
      <4> QED
        BY <2>2, <4>1 DEF Order
    <3> QED
      BY <1>2, <1>8, <2>2, <3>4, <3>5
  <2> QED
    BY <2>1, <2>2
<1>15. /\ s.number >= oldest[g] /\ oldest[g] \in Nat /\ s.number \in Nat
       /\ g \notin partial => \A e \in Field(g) : e < s.field => known[g][e] >= oldest[g]
  BY <1>2, PublicationsAssumption DEF Recent, s
<1>16. Recent'
  <2> SUFFICES ASSUME NEW q \in Publisher, NEW h \in GroupName, sending'[q].group = h
               PROVE  /\ sending'[q].number >= oldest[h]
                      /\ h \notin partial =>
                            \A e \in Field(h) : e < sending'[q].field => known'[h][e] >= oldest[h]
    BY <1>3 DEF Recent
  <2>1. CASE h # g
    <3>1. sending'[q] = sending[q] /\ known'[h] = known[h]
      BY <1>6, <1>7, <2>1
    <3> QED
      BY <2>1, <3>1 DEF Recent
  <2>2. CASE h = g /\ q # p
    <3>1. sending'[q] = sending[q]
      BY <1>7, <2>2
    <3>2. ASSUME g \notin partial, NEW e \in Field(g), e < sending'[q].field
          PROVE  known'[g][e] >= oldest[g]
      <4>1. CASE e = s.field
        BY <1>7, <1>15, <4>1
      <4>2. CASE e # s.field
        BY <1>7, <2>2, <3>1, <3>2, <4>2 DEF Recent
      <4> QED
        BY <4>1, <4>2
    <3> QED
      BY <2>2, <3>1, <3>2 DEF Recent
  <2>3. CASE h = g /\ q = p
    <3>1. sending'[q] = n /\ n.field = s.field + 1 /\ n.number = s.number
      BY <1>5, <1>7, <2>3
    <3>2. ASSUME g \notin partial, NEW e \in Field(g), e < n.field
          PROVE  known'[g][e] >= oldest[g]
      <4>1. e = s.field \/ (e # s.field /\ e < s.field)
        <5>1. e \in Nat /\ s.field \in Nat
          BY <1>2, <1>8
        <5>2. e < s.field + 1 => e = s.field \/ (e # s.field /\ e < s.field)
          BY ONLY <5>1, Passed
        <5> QED
          BY <3>1, <3>2, <5>2
      <4> QED
        BY <1>7, <1>15, <3>2, <4>1
    <3> QED
      BY <1>15, <2>3, <3>1, <3>2
  <2> QED
    BY <2>1, <2>2, <2>3
<1>13. Whole'
  <2> SUFFICES ASSUME NEW h \in GroupName, \A q \in Publisher : sending'[q].group # h,
                      h \notin partial, NEW f \in Field(h)
               PROVE  known'[h][f] >= oldest[h]
    BY <1>3 DEF Whole
  <2>1. CASE h # g
    BY <1>2, <1>7, <2>1 DEF Whole, s
  <2>2. CASE h = g
    <3>1. s.field = Group[g].fields
      BY <1>6, <1>7, <2>2
    <3>2. f = s.field \/ (f # s.field /\ f < s.field)
      BY <2>2, <3>1 DEF Field
    <3> QED
      BY <1>7, <1>15, <2>2, <3>2
  <2> QED
    BY <2>1, <2>2
<1>14. SentPathsFit'
  <2> SUFFICES ASSUME NEW h \in Named, NEW f \in Field(h), known'[h][f] > 0
               PROVE  PathSize(h, f) <= Group[h].room
    BY <1>3 DEF SentPathsFit, PathSize
  <2>1. nameLength \in [Named -> Nat]
    BY LengthAssumption
  <2>2. h \in GroupName /\ h \in Stopping
    BY <2>1, PathFacts
  <2>3. CASE h # g \/ f # s.field
    BY <1>7, <2>2, <2>3 DEF SentPathsFit
  <2>4. CASE h = g /\ f = s.field
    <3>1. CASE f \in Group[g].compared
      BY <1>3, <2>1, <2>4, <3>1, PathFacts DEF Refused
    <3>2. CASE f \notin Group[g].compared
      <4>1. 1 \in Field(g) /\ 1 < f /\ PathSize(g, f) <= PathSize(g, 1)
        BY <2>1, <2>4, <3>2, PathFacts
      <4>2. known[g][1] > 0
        BY <1>2, <1>9, <2>2, <2>4, <4>1
      <4>3. PathSize(g, 1) <= Group[g].room
        BY <2>4, <4>1, <4>2 DEF SentPathsFit
      <4> QED
        BY <2>1, <2>4, <4>1, <4>3, PathFacts
    <3> QED
      BY <3>1, <3>2
  <2> QED
    BY <2>3, <2>4
<1> QED
  BY <1>10, <1>11, <1>12, <1>13, <1>14, <1>16

LEMMA ClaimsRestart == PublishType /\ Claims /\ PublishRestart => Claims'
<1> SUFFICES ASSUME PublishType, Claims, PublishRestart PROVE Claims'
  OBVIOUS
<1> USE GroupFacts DEF Claims
<1>1. /\ \A q \in Publisher : sending'[q] = Idle /\ sending'[q].group = "none"
      /\ UNCHANGED <<nameLength, given, known, oldest>>
  BY DEF PublishRestart, Idle
<1>2. Own' /\ Solo' /\ Recent'
  <2>1. "none" \notin Stopping
    BY DEF Stopping
  <2> QED
    BY <1>1, <2>1 DEF Own, Solo, Recent
<1>3. Order' /\ SentPathsFit'
  BY <1>1 DEF Order, SentPathsFit, PathSize
<1>4. ASSUME NEW g \in GroupName, g \notin partial'
      PROVE  g \notin partial /\ \A p \in Publisher : sending[p].group # g
  BY <1>4 DEF PublishRestart, Publishing
<1>5. Whole'
  BY <1>1, <1>4 DEF Whole
<1> QED
  BY <1>2, <1>3, <1>5

PublishInv == PublishType /\ Claims

LEMMA PublishInvStep == PublishInv /\ [PublishNext]_publishVars => PublishInv'
<1> SUFFICES ASSUME PublishType, Claims, [PublishNext]_publishVars PROVE Claims'
  BY PublishTypeStep DEF PublishInv
<1>1. ASSUME NEW p \in Publisher, SendFails(p) PROVE Claims'
  BY <1>1, ClaimsSkip DEF SendFails, AfterFailure
<1>2. ASSUME NEW p \in Publisher, PathRefused(p) PROVE Claims'
  BY <1>2, ClaimsSkip DEF PathRefused
<1>3. CASE UNCHANGED publishVars
  BY <1>3 DEF publishVars, Claims, Own, Solo, Recent, Order, Whole, SentPathsFit, PathSize
<1> QED
  BY <1>1, <1>2, <1>3, ClaimsPublish, ClaimsSend, ClaimsRestart DEF PublishNext, PublishStep

LEMMA PublishInvariance == Spec => []PublishInv
<1>1. Init => PublishType
  BY PublishStart
<1>2. Init => Claims
  <2> SUFFICES ASSUME Init PROVE Claims
    OBVIOUS
  <2>1. \A p \in Publisher : sending[p].group = "none"
    BY DEF Init, PublishInit, Idle
  <2>2. \A g \in GroupName : given[g] = 0 /\ \A f \in Field(g) : known[g][f] = 0
    BY GroupFacts DEF Init, PublishInit
  <2>3. \A g \in GroupName : known[g] = [f \in Field(g) |-> 0]
    BY GroupFacts DEF Init, PublishInit
  <2>5. \A g \in GroupName : oldest[g] = 0
    BY GroupFacts DEF Init, PublishInit
  <2>4. Stopping \subseteq GroupName /\ Named \subseteq GroupName
    BY DEF Stopping, GroupName, Named
  <2> QED
    BY <2>1, <2>2, <2>4, <2>5, GroupFacts
       DEF Claims, Own, Solo, Recent, Order, Whole, SentPathsFit
<1> QED
  BY <1>1, <1>2, PublishInvStep, PublishView, LifeTypeCorrect, PTL DEF Spec, PublishInv

\* A group that stops at a failure has no field newer than one before it: the fields a
\* publication has passed are all its own, and no other task publishes the group.
THEOREM FieldsStayInOrder == Spec => []FieldsInOrder
<1>1. PublishInv => FieldsInOrder
  BY GroupFacts DEF PublishInv, Claims, Order, FieldsInOrder
<1> QED
  BY <1>1, PublishInvariance, PTL

\* No path that was sent is cut by its buffer, for names of any length.
THEOREM PathsFit == Spec => []SentPathsFit
<1>1. PublishInv => SentPathsFit
  BY DEF PublishInv, Claims
<1> QED
  BY <1>1, PublishInvariance, PTL

\* Publications that overlapped leave every field at least from the first of them, unless
\* a field failed or was cut short, for any number of publications by any of the tasks.
THEOREM GroupsAreWhole == Spec => []WholeGroups
<1>1. PublishInv => WholeGroups
  BY GroupFacts DEF PublishInv, Claims, Whole, WholeGroups, Publishing
<1> QED
  BY <1>1, PublishInvariance, PTL
=============================================================================
