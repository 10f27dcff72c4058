---------------------------- MODULE EdgehogStatus ----------------------------
(***************************************************************************)
(* The battery status of src/edgehog_battery_status.c and the geolocation  *)
(* of src/edgehog_geolocation.c, which work alike.                         *)
(*                                                                         *)
(* The application gives readings, of battery slots or of GPS receivers.   *)
(* An entry of the device's list keeps one for each source, with a flag    *)
(* `updated' that stands until the reading is published.  The timer        *)
(* service task walks the list and publishes.  No lock protects the list:  *)
(* the tasks interleave at every access, and the compiler may order the    *)
(* accesses to the fields as it likes.                                     *)
(***************************************************************************)
EXTENDS Integers, Sequences, FiniteSets

CONSTANTS
    Source,       \* battery slots or GPS receivers
    Field,        \* the fields of a reading
    Level,        \* the fields kept within 0..MaxLevel; none of a GPS receiver's are
    MaxLevel,
    Value,        \* the values the application gives
    None,         \* an absent value
    MaxUpdates    \* bound: readings given

ASSUME FieldAssumption == Level \subseteq Field /\ Field # {}

ASSUME ValueAssumption == MaxLevel \in Nat /\ Value \subseteq Int

ASSUME SentinelAssumption == None \notin Source

ASSUME BoundAssumption == MaxUpdates \in Nat

VARIABLES
    list,       \* battery_list or geolocation_list: the sources, in the order they came
    updated,    \* the flag of each entry
    stored,     \* the fields of each entry
    appPc, appSource, appReading,
    toWrite,    \* the fields the application has yet to write
    timerPc, position, doc,
    toRead,     \* the fields the timer service has yet to read
    early,      \* did it read a field that the application had yet to write?
    last,       \* what was last published of each source
    torn,       \* the sources of which that was read too early
    given,      \* the readings of each source given so far
    updates

app   == <<appPc, appSource, appReading, toWrite>>
timer == <<timerPc, position, doc, toRead, early>>
past  == <<last, torn>>
vars  == <<list, updated, stored, app, timer, past, given, updates>>

Reading == [Field -> Value \cup 0..MaxLevel]

\* Mutant: the value is limited from above only.
Normalized_negative(v) == IF v > MaxLevel THEN MaxLevel ELSE v
\* normalize_error_level
Normalized(v) == IF v > MaxLevel THEN MaxLevel ELSE IF v < 0 THEN 0 ELSE v

Kept(r) == [f \in Field |-> IF f \in Level THEN Normalized(r[f]) ELSE r[f]]

\* The fields of a new entry.
Zero == [f \in Field |-> 0]

TypeOK ==
    /\ list \in Seq(Source) /\ \A m, n \in DOMAIN list : list[m] = list[n] => m = n
    /\ updated \in [Source -> BOOLEAN] /\ stored \in [Source -> Reading]
    /\ \A s \in Source, f \in Level : stored[s][f] \in 0..MaxLevel
    /\ appPc \in {"idle", "check", "write"} /\ appSource \in Source \cup {None}
    /\ appReading \in Reading /\ toWrite \subseteq Field
    /\ timerPc \in {"idle", "walk", "read", "publish", "clear"}
    /\ position \in 1..Len(list) + 1 /\ doc \in Reading /\ toRead \subseteq Field
    /\ early \in BOOLEAN /\ torn \subseteq Source
    /\ last \in [Source -> Reading] /\ given \in [Source -> SUBSET Reading]
    /\ updates \in 0..MaxUpdates

Init ==
    /\ list = <<>> /\ updated = [s \in Source |-> FALSE] /\ stored = [s \in Source |-> Zero]
    /\ appPc = "idle" /\ appSource = None /\ appReading = Zero /\ toWrite = {}
    /\ timerPc = "idle" /\ position = 1 /\ doc = Zero /\ toRead = {}
    /\ early = FALSE /\ torn = {}
    /\ last = [s \in Source |-> Zero] /\ given = [s \in Source |-> {}] /\ updates = 0

Listed(s) == \E n \in DOMAIN list : list[n] = s

-----------------------------------------------------------------------------
(* edgehog_battery_status_update, edgehog_geolocation_update. *)

\* The entry is found or appended, unless there is no memory for a new one.
UpdateCalled(s, r) ==
    /\ appPc = "idle" /\ updates < MaxUpdates
    /\ \/ /\ updates' = updates + 1
          /\ list' = IF Listed(s) THEN list ELSE Append(list, s)
          /\ appPc' = "check" /\ appSource' = s /\ appReading' = Kept(r)
          /\ given' = [given EXCEPT ![s] = @ \cup {Kept(r)}]
       \/ ~Listed(s) /\ UNCHANGED <<list, appPc, appSource, appReading, given, updates>>
    /\ UNCHANGED <<updated, stored, toWrite, timer, past>>

\* Mutant: a reading that the server has is stored again.
MayStore_repeat(s) == ~updated[s]
\* Only a reading that differs is stored, and only once the one before is published.
MayStore(s) == ~updated[s] /\ stored[s] # appReading

UpdateReturns == appPc' = "idle" /\ appSource' = None /\ appReading' = Zero

UpdateChecked ==
    /\ appPc = "check"
    /\ IF MayStore(appSource)
       THEN /\ updated' = [updated EXCEPT ![appSource] = TRUE]
            /\ appPc' = "write" /\ toWrite' = Field /\ UNCHANGED <<appSource, appReading>>
       ELSE UpdateReturns /\ UNCHANGED <<updated, toWrite>>
    /\ UNCHANGED <<list, stored, timer, past, given, updates>>

UpdateWrites(f) ==
    /\ appPc = "write" /\ f \in toWrite
    /\ stored' = [stored EXCEPT ![appSource][f] = appReading[f]]
    /\ toWrite' = toWrite \ {f}
    /\ IF toWrite = {f} THEN UpdateReturns ELSE UNCHANGED <<appPc, appSource, appReading>>
    /\ UNCHANGED <<list, updated, timer, past, given, updates>>

-----------------------------------------------------------------------------
(* edgehog_battery_status_publish, edgehog_geolocation_publish. *)

\* The application writes the fields of the source's entry.
Writing(s) == appPc = "write" /\ appSource = s

TimerFires ==
    /\ timerPc = "idle"
    /\ timerPc' = "walk" /\ position' = 1
    /\ UNCHANGED <<list, updated, stored, app, doc, toRead, early, past, given, updates>>

\* Mutant: the last entry is not visited.
AtEnd_early == position >= Len(list)
AtEnd == position > Len(list)

PublishWalks ==
    /\ timerPc = "walk"
    /\ IF AtEnd
       THEN timerPc' = "idle" /\ position' = 1 /\ UNCHANGED toRead
       ELSE IF updated[list[position]]
       THEN timerPc' = "read" /\ toRead' = Field /\ UNCHANGED position
       ELSE position' = position + 1 /\ UNCHANGED <<timerPc, toRead>>
    /\ UNCHANGED <<list, updated, stored, app, doc, early, past, given, updates>>

PublishReads(f) ==
    /\ timerPc = "read" /\ f \in toRead
    /\ doc' = [doc EXCEPT ![f] = stored[list[position]][f]]
    /\ early' = (early \/ (Writing(list[position]) /\ f \in toWrite))
    /\ toRead' = toRead \ {f}
    /\ timerPc' = IF toRead = {f} THEN "publish" ELSE "read"
    /\ UNCHANGED <<list, updated, stored, app, position, past, given, updates>>

\* No memory for the path: the sources that follow are left for the next period.
PublishNoMemory ==
    /\ timerPc = "publish"
    /\ timerPc' = "idle" /\ position' = 1 /\ doc' = Zero /\ early' = FALSE
    /\ UNCHANGED <<list, updated, stored, app, toRead, past, given, updates>>

\* Mutant: the flag is cleared whatever became of the publication.
AfterFailure_clear == timerPc' = "clear" /\ UNCHANGED position
AfterFailure == timerPc' = "walk" /\ position' = position + 1

PublishSends ==
    /\ timerPc = "publish"
    /\ \/ /\ last' = [last EXCEPT ![list[position]] = doc]
          /\ torn' = IF early THEN torn \cup {list[position]} ELSE torn \ {list[position]}
          /\ timerPc' = "clear" /\ UNCHANGED position
       \/ AfterFailure /\ UNCHANGED past
    /\ doc' = Zero /\ early' = FALSE
    /\ UNCHANGED <<list, updated, stored, app, toRead, given, updates>>

PublishClears ==
    /\ timerPc = "clear"
    /\ updated' = [updated EXCEPT ![list[position]] = FALSE]
    /\ timerPc' = "walk" /\ position' = position + 1
    /\ UNCHANGED <<list, stored, app, doc, toRead, early, past, given, updates>>

-----------------------------------------------------------------------------
AppStep == UpdateChecked \/ \E f \in Field : UpdateWrites(f)

TimerStep == PublishWalks \/ PublishNoMemory \/ PublishSends \/ PublishClears
                \/ \E f \in Field : PublishReads(f)

Next == \/ \E s \in Source, r \in [Field -> Value] : UpdateCalled(s, r)
        \/ AppStep \/ TimerFires \/ TimerStep

Spec == Init /\ [][Next]_vars

\* The tasks get to run, the timer fires again and again, and neither the memory nor the
\* network is missing at every attempt to publish a source.
Fairness ==
    /\ WF_vars(AppStep) /\ WF_vars(TimerStep) /\ WF_vars(TimerFires)
    /\ \A s \in Source :
         SF_vars(PublishSends /\ timerPc' = "clear" /\ list[position] = s)

FairSpec == Spec /\ Fairness

-----------------------------------------------------------------------------
\* include/edgehog_battery_status.h, "publishes to Astarte all available battery status
\* updates": what is published is a reading the application gave, not a mixture of two,
\* unless the timer service came to a field before the application.
PublishedWasGiven == \A s \in Source \ torn : last[s] \in given[s] \cup {Zero}

\* A reading whose flag is cleared was published: no stored reading is passed over, by a
\* failed publication or by a newer reading, unless it was read too early
\* (edgehog_battery_status.c:116-124, 134-161).
ClearedIsPublished ==
    \A s \in Source \ torn : ~updated[s] /\ ~Writing(s) => stored[s] = last[s]

\* A reading that was stored is published in the end, whatever failed on the way and
\* however often the application gives others meanwhile, and stands until then, unless it
\* was read too early (edgehog_battery_status.c:134, 149, 160; edgehog_geolocation.c:138,
\* 153, 166).
StoredIsPublished ==
    \A s \in Source : updated[s] ~> ~updated[s] /\ (stored[s] = last[s] \/ s \in torn)

-----------------------------------------------------------------------------
(* The two tasks implement ReadingService. *)

\* A reading waits from the moment its flag is set, while its fields are yet to be
\* written, until it is sent, while its flag is yet to be cleared.
Sent(s) == timerPc = "clear" /\ list[position] = s

Entry(s) == IF Writing(s) THEN appReading ELSE stored[s]

Waiting == [s \in Source |-> IF ~updated[s] \/ Sent(s) THEN {} ELSE {Entry(s)}]

Service == INSTANCE ReadingService WITH waiting <- Waiting, published <- last

\* The flag protocol behaves like a box for one reading, taken whole and published once,
\* although fields and flag are accessed one by one.  A publication that reads a field too
\* early loses the reading and mixes it with older ones, of the same source, and a later
\* one makes up for it (edgehog_battery_status.c:106-164, edgehog_geolocation.c:115-169).
ImplementsService == Service!Spec
=============================================================================
