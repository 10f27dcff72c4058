------------------------- MODULE EdgehogStatusProofs -------------------------
(***************************************************************************)
(* Proofs about EdgehogStatus, for any sources, fields, values and number  *)
(* of readings.                                                            *)
(*                                                                         *)
(* Nothing is assumed of the tasks' priorities and cores.  The inductive   *)
(* invariant IInv rests on the flags `updated': while the timer service is *)
(* at an entry its flag stands, so that the application stores no other    *)
(* reading there, and at most completes the one it has begun to store.     *)
(***************************************************************************)
EXTENDS EdgehogStatus, TLAPS

USE DEF app, timer, past

AppPc   == {"idle", "check", "write"}
TimerPc == {"idle", "walk", "read", "publish", "clear"}

\* The conjuncts of TypeOK that each task's steps disturb.
ListType  == /\ list \in Seq(Source) /\ \A m, n \in DOMAIN list : list[m] = list[n] => m = n
EntryType == /\ updated \in [Source -> BOOLEAN] /\ stored \in [Source -> Reading]
             /\ \A s \in Source, f \in Level : stored[s][f] \in 0..MaxLevel
AppType   == /\ appPc \in AppPc /\ appSource \in Source \cup {None}
             /\ appReading \in Reading /\ toWrite \subseteq Field
DocType   == /\ timerPc \in TimerPc /\ doc \in Reading /\ toRead \subseteq Field
             /\ early \in BOOLEAN
PastType  == torn \subseteq Source /\ last \in [Source -> Reading] /\ given \in [Source -> SUBSET Reading]

\* What the type correctness of the entries rests on: the reading that is being stored
\* has been normalized, and is one of a source.
AppLevels == appPc # "idle" => /\ appSource \in Source
                               /\ \A f \in Level : appReading[f] \in 0..MaxLevel

\* A step of the timer service within an entry is within the list.
InList == timerPc \in {"read", "publish", "clear"} => position \in DOMAIN list

LEMMA TypeParts ==
    TypeOK <=> /\ ListType /\ EntryType /\ AppType /\ DocType /\ PastType
               /\ position \in 1..Len(list) + 1 /\ updates \in 0..MaxUpdates
BY DEF TypeOK, ListType, EntryType, AppType, DocType, PastType, AppPc, TimerPc

LEMMA TypeFromParts ==
    ASSUME ListType', EntryType', AppType', DocType', PastType',
           position' \in 1..Len(list') + 1, updates' \in 0..MaxUpdates
    PROVE  TypeOK'
BY DEF TypeOK, ListType, EntryType, AppType, DocType, PastType, AppPc, TimerPc

\* A level is limited to 0..MaxLevel (edgehog_battery_status.c:188-196).
LEMMA NormalizedBound ==
    ASSUME NEW v \in Int PROVE Normalized(v) \in 0..MaxLevel
BY ValueAssumption DEF Normalized

LEMMA KeptReading ==
    ASSUME NEW r \in [Field -> Value]
    PROVE  Kept(r) \in Reading /\ \A f \in Level : Kept(r)[f] \in 0..MaxLevel
<1>1. \A f \in Field : Normalized(r[f]) \in 0..MaxLevel
  BY NormalizedBound, ValueAssumption
<1> QED
  BY <1>1, FieldAssumption DEF Kept, Reading

LEMMA ZeroReading == Zero \in Reading /\ \A f \in Level : Zero[f] \in 0..MaxLevel
<1>1. 0 \in 0..MaxLevel
  BY ValueAssumption
<1> QED
  BY <1>1, FieldAssumption DEF Zero, Reading

\* A list with a new source at its end still has each source once.
LEMMA AppendType ==
    ASSUME ListType, NEW s \in Source, ~Listed(s)
    PROVE  /\ Append(list, s) \in Seq(Source)
           /\ Len(Append(list, s)) = Len(list) + 1
           /\ \A n \in DOMAIN list : n \in DOMAIN Append(list, s) /\ Append(list, s)[n] = list[n]
           /\ \A m, n \in DOMAIN Append(list, s) :
                  Append(list, s)[m] = Append(list, s)[n] => m = n
<1> DEFINE longer == Append(list, s)
<1>1. longer \in Seq(Source) /\ Len(longer) = Len(list) + 1 /\ Len(list) \in Nat
  BY DEF ListType
<1>2. DOMAIN list = 1..Len(list) /\ DOMAIN longer = 1..Len(list) + 1
  BY <1>1 DEF ListType
<1>3. \A n \in 1..Len(list) : longer[n] = list[n]
  BY DEF ListType
<1>4. longer[Len(list) + 1] = s
  BY DEF ListType
<1>5. \A n \in 1..Len(list) : list[n] # s
  BY <1>2 DEF Listed
<1>6. \A n \in 1..Len(list) + 1 : n \in 1..Len(list) \/ n = Len(list) + 1
  BY <1>1
<1>7. \A m, n \in 1..Len(list) + 1 : longer[m] = longer[n] => m = n
  BY <1>2, <1>3, <1>4, <1>5, <1>6 DEF ListType
<1>8. \A n \in 1..Len(list) : n \in 1..Len(list) + 1
  BY <1>1
<1> QED
  BY <1>1, <1>2, <1>3, <1>7, <1>8

-----------------------------------------------------------------------------
TypeInv == TypeOK /\ AppLevels /\ InList

LEMMA TypeAppStep ==
    ASSUME TypeInv, AppStep PROVE TypeInv'
<1> USE DEF TypeInv, AppLevels, InList
<1>1. CASE UpdateChecked
  <2>1. ListType' /\ PastType' /\ DocType'
    BY <1>1, TypeParts DEF UpdateChecked, ListType, PastType, DocType
  <2>2. EntryType' /\ AppType'
    BY <1>1, ZeroReading, TypeParts
       DEF UpdateChecked, UpdateReturns, EntryType, AppType, AppPc
  <2>3. (position \in 1..Len(list) + 1)' /\ (updates \in 0..MaxUpdates)'
    BY <1>1, TypeParts DEF UpdateChecked
  <2>4. AppLevels' /\ InList'
    BY <1>1 DEF UpdateChecked, UpdateReturns
  <2> QED
    BY <2>1, <2>2, <2>3, <2>4, TypeFromParts
<1>2. ASSUME NEW f \in Field, UpdateWrites(f) PROVE TypeInv'
  <2>1. ListType' /\ PastType' /\ DocType'
    BY <1>2, TypeParts DEF UpdateWrites, ListType, PastType, DocType
  <2>2. AppType'
    BY <1>2, ZeroReading, TypeParts DEF UpdateWrites, UpdateReturns, AppType, AppPc
  <2>3. EntryType'
    BY <1>2, TypeParts DEF UpdateWrites, EntryType, AppType, Reading
  <2>4. (position \in 1..Len(list) + 1)' /\ (updates \in 0..MaxUpdates)'
    BY <1>2, TypeParts DEF UpdateWrites
  <2>5. AppLevels' /\ InList'
    BY <1>2 DEF UpdateWrites, UpdateReturns
  <2> QED
    BY <2>1, <2>2, <2>3, <2>4, <2>5, TypeFromParts
<1> QED
  BY <1>1, <1>2 DEF AppStep

LEMMA TypeUpdateCalled ==
    ASSUME TypeInv, NEW s \in Source, NEW r \in [Field -> Value], UpdateCalled(s, r)
    PROVE  TypeInv'
<1> USE DEF TypeInv, AppLevels, InList
<1>1. updates' \in 0..MaxUpdates
  BY TypeParts, BoundAssumption DEF UpdateCalled
<1>2. /\ ListType' /\ Len(list') \in Nat /\ Len(list') >= Len(list)
      /\ \A n \in DOMAIN list : n \in DOMAIN list'
  <2>1. Len(list) \in Nat
    BY TypeParts DEF ListType, UpdateCalled
  <2>2. CASE list' = list
    BY <2>1, <2>2, TypeParts DEF ListType
  <2>3. CASE ~Listed(s) /\ list' = Append(list, s)
    <3>1. Len(list') = Len(list) + 1 /\ ListType'
      BY <2>1, <2>3, AppendType, TypeParts DEF ListType
    <3>2. \A n \in DOMAIN list : n \in DOMAIN list'
      BY <2>3, AppendType, TypeParts
    <3> QED
      BY <2>1, <3>1, <3>2
  <2> QED
    BY <2>2, <2>3 DEF UpdateCalled
<1>3. position' \in 1..Len(list') + 1
  <2>1. Len(list) \in Nat
    BY TypeParts DEF ListType
  <2> QED
    BY <1>2, <2>1, TypeParts DEF UpdateCalled
<1>4. EntryType' /\ DocType'
  BY TypeParts DEF UpdateCalled, EntryType, DocType
<1>5. AppType' /\ PastType' /\ AppLevels'
  BY KeptReading, TypeParts DEF UpdateCalled, AppType, PastType, AppPc
<1>6. InList'
  BY <1>2 DEF UpdateCalled
<1> QED
  BY <1>1, <1>2, <1>3, <1>4, <1>5, <1>6, TypeFromParts

LEMMA NextPosition ==
    ASSUME TypeOK, position \in DOMAIN list
    PROVE  position + 1 \in 1..Len(list) + 1 /\ list[position] \in Source
BY TypeParts DEF ListType

LEMMA TypeTimerStep ==
    ASSUME TypeInv, TimerFires \/ TimerStep PROVE TypeInv'
<1> USE DEF TypeInv, AppLevels, InList
<1>1. ListType' /\ AppType' /\ AppLevels' /\ updates' \in 0..MaxUpdates /\ list' = list
  BY TypeParts
     DEF TimerFires, TimerStep, PublishWalks, PublishReads, PublishNoMemory, PublishSends,
         PublishClears, ListType, AppType
<1>2. 1 \in 1..Len(list) + 1
  BY TypeParts DEF ListType
<1>3. CASE TimerFires
  BY <1>1, <1>2, <1>3, TypeParts, TypeFromParts
     DEF TimerFires, EntryType, DocType, PastType, TimerPc
<1>4. CASE PublishWalks
  <2>1. EntryType' /\ DocType' /\ PastType'
    BY <1>4, TypeParts DEF PublishWalks, EntryType, DocType, PastType, TimerPc
  <2>2. ~AtEnd => position \in DOMAIN list
    BY TypeParts DEF ListType, AtEnd
  <2>3. position' \in 1..Len(list) + 1 /\ InList'
    BY <1>2, <1>4, <2>2, NextPosition, TypeParts DEF PublishWalks, AtEnd
  <2> QED
    BY <1>1, <2>1, <2>3, TypeFromParts
<1>5. ASSUME NEW f \in Field, PublishReads(f) PROVE TypeInv'
  <2>1. position \in DOMAIN list /\ list[position] \in Source
    BY <1>5, NextPosition DEF PublishReads
  <2>2. DocType'
    BY <1>5, <2>1, TypeParts DEF PublishReads, EntryType, DocType, Reading, TimerPc
  <2>3. EntryType' /\ PastType' /\ position' = position
    BY <1>5, TypeParts DEF PublishReads, EntryType, PastType
  <2> QED
    BY <1>1, <2>1, <2>2, <2>3, TypeFromParts DEF PublishReads
<1>6. CASE PublishNoMemory
  BY <1>1, <1>2, <1>6, ZeroReading, TypeParts, TypeFromParts
     DEF PublishNoMemory, EntryType, DocType, PastType, TimerPc
<1>7. CASE PublishSends
  <2>1. position \in DOMAIN list /\ list[position] \in Source
           /\ position + 1 \in 1..Len(list) + 1
    BY <1>7, NextPosition DEF PublishSends
  <2>2. EntryType' /\ DocType' /\ PastType'
    BY <1>7, <2>1, ZeroReading, TypeParts
       DEF PublishSends, AfterFailure, EntryType, DocType, PastType, TimerPc
  <2>3. position' \in 1..Len(list) + 1 /\ InList'
    BY <1>1, <1>7, <2>1, TypeParts DEF PublishSends, AfterFailure
  <2> QED
    BY <1>1, <2>2, <2>3, TypeFromParts
<1>8. CASE PublishClears
  <2>1. position \in DOMAIN list /\ list[position] \in Source
           /\ position + 1 \in 1..Len(list) + 1
    BY <1>8, NextPosition DEF PublishClears
  <2>2. EntryType' /\ DocType' /\ PastType'
    BY <1>8, <2>1, TypeParts DEF PublishClears, EntryType, DocType, PastType, TimerPc
  <2> QED
    BY <1>1, <1>8, <2>1, <2>2, TypeParts, TypeFromParts DEF PublishClears
<1> QED
  BY <1>3, <1>4, <1>5, <1>6, <1>7, <1>8 DEF TimerStep

LEMMA TypeInvariance == Spec => []TypeInv
<1>1. Init => TypeInv
  <2> SUFFICES ASSUME Init PROVE TypeInv
    OBVIOUS
  <2>1. ListType /\ position \in 1..Len(list) + 1 /\ updates \in 0..MaxUpdates
    BY BoundAssumption DEF Init, ListType
  <2>2. EntryType /\ AppType /\ DocType /\ PastType
    BY ZeroReading DEF Init, EntryType, AppType, DocType, PastType, AppPc, TimerPc
  <2> QED
    BY <2>1, <2>2, TypeParts DEF Init, TypeInv, AppLevels, InList
<1>2. TypeInv /\ [Next]_vars => TypeInv'
  <2> SUFFICES ASSUME TypeInv, [Next]_vars PROVE TypeInv'
    OBVIOUS
  <2>1. CASE UNCHANGED vars
    BY <2>1, TypeParts, TypeFromParts
       DEF vars, TypeInv, AppLevels, InList, ListType, EntryType, AppType, DocType, PastType
  <2> QED
    BY <2>1, TypeAppStep, TypeUpdateCalled, TypeTimerStep DEF Next
<1> QED
  BY <1>1, <1>2, PTL DEF Spec

\* TypeOK holds of every behaviour, whatever the tasks' priorities: among others, a level
\* outside of 0..MaxLevel never gets into the list, and no step of the timer service
\* looks beyond the list's end.
THEOREM TypeCorrect == Spec => []TypeOK
BY TypeInvariance, PTL DEF TypeInv

-----------------------------------------------------------------------------
(* The two tasks at one entry. *)

\* The entry the timer service is at, if it is at one.
Here == list[position]

AtEntry == timerPc \in {"read", "publish", "clear"}

FlagStands == AtEntry => updated[Here]

\* What was read of the entry in time is the reading it holds, or the one the application
\* has yet to complete, and becomes what was published.
DocIsEntry ==
    /\ timerPc \in {"read", "publish"} /\ ~early =>
           \A f \in Field \ toRead : doc[f] = Entry(Here)[f]
    /\ timerPc = "publish" => toRead = {}
    /\ timerPc = "clear" /\ Here \notin torn => last[Here] = Entry(Here)

WritesReading ==
    /\ appPc # "idle" => appReading \in given[appSource]
    /\ appPc = "write" => \A f \in Field \ toWrite : stored[appSource][f] = appReading[f]

EntryWasGiven == \A s \in Source : Entry(s) \in given[s] \cup {Zero}

\* Every field, of what is stored and of what was read, is one of a reading given.
FieldGiven(s, f, v) == \E q \in given[s] \cup {Zero} : v = q[f]

FieldsWereGiven ==
    /\ \A s \in Source, f \in Field : FieldGiven(s, f, stored[s][f])
    /\ timerPc \in {"read", "publish"} =>
           \A f \in Field \ toRead : FieldGiven(Here, f, doc[f])

\* What is held without a flag was published, at every moment.
UnflaggedIsPublished == \A s \in Source \ torn : ~updated[s] => last[s] = Entry(s)

IInv == /\ FlagStands /\ DocIsEntry /\ WritesReading /\ EntryWasGiven
        /\ FieldsWereGiven /\ UnflaggedIsPublished /\ PublishedWasGiven

LEMMA ReadingsEqual ==
    ASSUME NEW r \in Reading, NEW q \in Reading, \A f \in Field : r[f] = q[f]
    PROVE  r = q
BY DEF Reading

LEMMA HereIsSource == ASSUME TypeInv, AtEntry PROVE position \in DOMAIN list /\ Here \in Source
BY NextPosition DEF TypeInv, InList, Here, AtEntry

\* The reading an entry holds changes where the flag is set, and while its fields are
\* written it does not.
LEMMA EntryMoves ==
    ASSUME TypeInv, WritesReading, AppStep, NEW s \in Source
    PROVE  Entry(s)' = IF UpdateChecked /\ MayStore(appSource) /\ s = appSource
                       THEN appReading ELSE Entry(s)
<1> USE DEF TypeInv
<1>1. CASE UpdateChecked
  BY <1>1 DEF UpdateChecked, UpdateReturns, Entry, Writing
<1>2. ASSUME NEW f \in Field, UpdateWrites(f) PROVE Entry(s)' = Entry(s) /\ ~UpdateChecked
  <2>1. /\ ~UpdateChecked /\ appPc = "write" /\ appSource \in Source
        /\ appReading \in Reading /\ stored \in [Source -> Reading]
    BY <1>2, TypeParts DEF UpdateWrites, UpdateChecked, AppLevels, AppType, EntryType
  <2>2. stored' = [stored EXCEPT ![appSource] = [@ EXCEPT ![f] = appReading[f]]]
    BY <1>2 DEF UpdateWrites
  <2>3. CASE s # appSource
    BY <1>2, <2>1, <2>2, <2>3 DEF UpdateWrites, UpdateReturns, Entry, Writing
  <2>4. CASE s = appSource /\ toWrite # {f}
    BY <1>2, <2>1, <2>4 DEF UpdateWrites, Entry, Writing
  <2>5. CASE s = appSource /\ toWrite = {f}
    <3>1. \A g \in Field : stored'[s][g] = appReading[g]
      <4>1. stored'[s] = [stored[s] EXCEPT ![f] = appReading[f]] /\ stored[s] \in Reading
        BY <2>1, <2>2, <2>5
      <4>2. \A g \in Field \ {f} : stored[s][g] = appReading[g]
        BY <2>1, <2>5 DEF WritesReading
      <4> QED
        BY <4>1, <4>2 DEF Reading
    <3>2. stored'[s] \in Reading
      BY <2>1, <2>2, <2>5 DEF Reading
    <3>3. stored'[s] = appReading
      BY <2>1, <3>1, <3>2, ReadingsEqual
    <3>4. appPc' = "idle"
      BY <1>2, <2>5 DEF UpdateWrites, UpdateReturns
    <3> QED
      BY <2>1, <2>5, <3>3, <3>4 DEF Entry, Writing
  <2> QED
    BY <2>1, <2>3, <2>4, <2>5
<1> QED
  BY <1>1, <1>2 DEF AppStep

LEMMA InvUpdateCalled ==
    ASSUME TypeInv, IInv, NEW s \in Source, NEW r \in [Field -> Value], UpdateCalled(s, r)
    PROVE  IInv'
<1> USE DEF TypeInv, IInv, UpdateCalled
<1>1. AtEntry' = AtEntry /\ (AtEntry => Here' = Here /\ Here \in Source)
  BY AppendType, TypeParts, HereIsSource DEF AtEntry, Here, InList
<1>2. appPc = "idle" /\ appPc' \in {"idle", "check"} /\ given[s] \subseteq given'[s]
         /\ \A q \in Source : given[q] \subseteq given'[q]
  BY TypeParts DEF PastType
<1>3. \A q : Entry(q)' = Entry(q)
  BY <1>2 DEF Entry, Writing
<1>4. FlagStands' /\ DocIsEntry' /\ UnflaggedIsPublished'
  BY <1>1, <1>2, <1>3 DEF FlagStands, DocIsEntry, UnflaggedIsPublished, AtEntry
<1>5. WritesReading'
  BY TypeParts DEF WritesReading, PastType
<1>6. \A q \in Source : \A f, v : FieldGiven(q, f, v) => FieldGiven(q, f, v)'
  BY <1>2 DEF FieldGiven
<1>7. EntryWasGiven' /\ FieldsWereGiven' /\ PublishedWasGiven'
  BY <1>1, <1>2, <1>3, <1>6
     DEF EntryWasGiven, FieldsWereGiven, PublishedWasGiven, AtEntry
<1> QED
  BY <1>4, <1>5, <1>7

LEMMA InvAppStep ==
    ASSUME TypeInv, IInv, AppStep PROVE IInv'
<1> USE DEF TypeInv, IInv
<1>1. /\ UNCHANGED <<list, timer, past, given>>
      /\ appPc \in {"check", "write"} /\ appSource \in Source
      /\ appReading \in given[appSource]
  BY DEF AppStep, UpdateChecked, UpdateWrites, AppLevels, WritesReading
<1>2. /\ Here' = Here /\ AtEntry' = AtEntry
      /\ \A q, f, v : FieldGiven(q, f, v)' <=> FieldGiven(q, f, v)
  BY <1>1 DEF Here, AtEntry, FieldGiven
<1>3. \A s \in Source : updated[s] => updated'[s] /\ Entry(s)' = Entry(s)
  BY EntryMoves, TypeParts DEF AppStep, UpdateChecked, UpdateWrites, EntryType, MayStore
<1>4. FlagStands' /\ DocIsEntry'
  BY <1>1, <1>2, <1>3, HereIsSource DEF FlagStands, DocIsEntry, AtEntry
<1>5. EntryWasGiven' /\ PublishedWasGiven'
  BY <1>1, EntryMoves DEF EntryWasGiven, PublishedWasGiven
<1>6. \A s \in Source : ~updated'[s] => ~updated[s] /\ Entry(s)' = Entry(s)
  BY <1>1, EntryMoves, TypeParts DEF AppStep, UpdateChecked, UpdateWrites, EntryType
<1>7. UnflaggedIsPublished'
  BY <1>1, <1>6 DEF UnflaggedIsPublished
<1>8. CASE UpdateChecked
  <2>1. WritesReading'
    BY <1>1, <1>8 DEF UpdateChecked, UpdateReturns, WritesReading
  <2>2. FieldsWereGiven'
    BY <1>1, <1>2, <1>8 DEF UpdateChecked, FieldsWereGiven
  <2> QED
    BY <1>4, <1>5, <1>7, <2>1, <2>2
<1>9. ASSUME NEW f \in Field, UpdateWrites(f) PROVE IInv'
  <2>1. /\ appPc = "write" /\ stored \in [Source -> Reading] /\ toWrite' = toWrite \ {f}
        /\ stored' = [stored EXCEPT ![appSource] = [@ EXCEPT ![f] = appReading[f]]]
    BY <1>9, TypeParts DEF UpdateWrites, EntryType
  <2>2. /\ stored'[appSource][f] = appReading[f]
        /\ \A g \in Field : g # f => stored'[appSource][g] = stored[appSource][g]
        /\ \A s \in Source : s # appSource => stored'[s] = stored[s]
    BY <1>1, <2>1 DEF Reading
  <2>3. WritesReading'
    BY <1>1, <1>9, <2>1, <2>2 DEF UpdateWrites, UpdateReturns, WritesReading
  <2>4. FieldsWereGiven'
    <3>1. \A g \in Field : FieldGiven(appSource, g, stored'[appSource][g])
      BY <1>1, <2>2 DEF FieldsWereGiven, FieldGiven
    <3>2. \A s \in Source, g \in Field : FieldGiven(s, g, stored'[s][g])
      BY <2>2, <3>1 DEF FieldsWereGiven
    <3> QED
      BY <1>1, <1>2, <3>2 DEF FieldsWereGiven
  <2> QED
    BY <1>4, <1>5, <1>7, <2>3, <2>4
<1> QED
  BY <1>8, <1>9 DEF AppStep

LEMMA InvTimerStep ==
    ASSUME TypeInv, IInv, TimerFires \/ TimerStep PROVE IInv'
<1> USE DEF TypeInv, IInv
<1>1. UNCHANGED <<list, stored, app, given>>
  BY DEF TimerFires, TimerStep, PublishWalks, PublishReads, PublishNoMemory,
         PublishSends, PublishClears
<1>2. /\ WritesReading' /\ EntryWasGiven'
      /\ \A q : Entry(q)' = Entry(q)
      /\ \A q, f, v : FieldGiven(q, f, v)' <=> FieldGiven(q, f, v)
  BY <1>1 DEF WritesReading, EntryWasGiven, Entry, Writing, FieldGiven
<1>3. AtEntry => Here \in Source
  BY HereIsSource
<1>4. CASE TimerFires \/ PublishNoMemory
  BY <1>1, <1>2, <1>4
     DEF TimerFires, PublishNoMemory, FlagStands, AtEntry, DocIsEntry, FieldsWereGiven,
         UnflaggedIsPublished, PublishedWasGiven
<1>5. CASE PublishWalks
  <2>1. UnflaggedIsPublished' /\ PublishedWasGiven'
    BY <1>1, <1>2, <1>5 DEF PublishWalks, UnflaggedIsPublished, PublishedWasGiven
  <2>2. FlagStands' /\ DocIsEntry' /\ FieldsWereGiven'
    BY <1>1, <1>2, <1>5
       DEF PublishWalks, FlagStands, AtEntry, DocIsEntry, FieldsWereGiven, Here
  <2> QED
    BY <1>2, <2>1, <2>2
<1>6. ASSUME NEW f \in Field, PublishReads(f) PROVE IInv'
  <2>1. /\ AtEntry /\ AtEntry' /\ Here' = Here /\ doc'[f] = stored[Here][f]
        /\ \A g \in Field : g # f => doc'[g] = doc[g]
    BY <1>1, <1>6, TypeParts DEF PublishReads, DocType, Reading, Here, AtEntry
  <2>2. FlagStands' /\ UnflaggedIsPublished' /\ PublishedWasGiven'
    BY <1>1, <1>2, <1>6, <2>1
       DEF PublishReads, FlagStands, AtEntry, Here, UnflaggedIsPublished, PublishedWasGiven
  <2>3. ~early' => ~early /\ doc'[f] = Entry(Here)[f]
    BY <1>3, <1>6, <2>1 DEF PublishReads, Writing, WritesReading, Entry, Here
  <2>4. DocIsEntry'
    BY <1>2, <1>6, <2>1, <2>3 DEF PublishReads, DocIsEntry
  <2>5. FieldsWereGiven'
    BY <1>1, <1>2, <1>3, <1>6, <2>1 DEF PublishReads, FieldsWereGiven
  <2> QED
    BY <1>2, <2>2, <2>4, <2>5
<1>7. CASE PublishSends
  <2>1. AtEntry /\ Here \in Source /\ updated[Here] /\ updated' = updated
    BY <1>3, <1>7 DEF PublishSends, AtEntry, FlagStands
  <2>2. CASE AfterFailure /\ UNCHANGED past
    BY <1>1, <1>2, <1>7, <2>2
       DEF PublishSends, AfterFailure, FlagStands, AtEntry, DocIsEntry, FieldsWereGiven,
           UnflaggedIsPublished, PublishedWasGiven
  <2>3. CASE /\ last' = [last EXCEPT ![Here] = doc]
             /\ torn' = IF early THEN torn \cup {Here} ELSE torn \ {Here}
             /\ timerPc' = "clear" /\ UNCHANGED position
    <3>1. /\ last'[Here] = doc /\ \A s \in Source : s # Here => last'[s] = last[s]
          /\ \A s \in Source : s # Here => (s \in torn' <=> s \in torn)
          /\ Here \notin torn' => ~early
      BY <2>1, <2>3, TypeParts DEF PastType
    <3>2. ~early => doc = Entry(Here)
      <4>1. Entry(Here) \in Reading /\ doc \in Reading
        BY <2>1, TypeParts DEF Entry, EntryType, AppType, DocType
      <4>2. ~early => \A f \in Field : doc[f] = Entry(Here)[f]
        BY <1>7 DEF PublishSends, DocIsEntry
      <4> QED
        BY <4>1, <4>2, ReadingsEqual
    <3>3. Here' = Here
      BY <1>1, <2>3 DEF Here
    <3>4. FlagStands' /\ DocIsEntry' /\ FieldsWereGiven'
      BY <1>1, <1>2, <2>1, <2>3, <3>1, <3>2, <3>3
         DEF FlagStands, AtEntry, DocIsEntry, FieldsWereGiven
    <3>5. UnflaggedIsPublished' /\ PublishedWasGiven'
      BY <1>1, <1>2, <2>1, <3>1, <3>2
         DEF UnflaggedIsPublished, PublishedWasGiven, EntryWasGiven
    <3> QED
      BY <1>2, <3>4, <3>5
  <2> QED
    BY <1>7, <2>2, <2>3 DEF PublishSends, Here
<1>8. CASE PublishClears
  <2>1. Here \in Source /\ (Here \notin torn => last[Here] = Entry(Here))
    BY <1>3, <1>8 DEF PublishClears, AtEntry, DocIsEntry
  <2>2. UnflaggedIsPublished' /\ PublishedWasGiven'
    BY <1>1, <1>2, <1>8, <2>1, TypeParts
       DEF PublishClears, UnflaggedIsPublished, PublishedWasGiven, EntryType, Here
  <2>3. FlagStands' /\ DocIsEntry' /\ FieldsWereGiven'
    BY <1>1, <1>2, <1>8 DEF PublishClears, FlagStands, AtEntry, DocIsEntry, FieldsWereGiven
  <2> QED
    BY <1>2, <2>2, <2>3
<1> QED
  BY <1>4, <1>5, <1>6, <1>7, <1>8 DEF TimerStep

LEMMA Invariance == Spec => []IInv
<1>1. Init => IInv
  BY DEF Init, IInv, FlagStands, AtEntry, DocIsEntry, WritesReading, EntryWasGiven,
         Entry, Writing, FieldsWereGiven, FieldGiven, UnflaggedIsPublished,
         PublishedWasGiven
<1>2. TypeInv /\ IInv /\ [Next]_vars => IInv'
  <2> SUFFICES ASSUME TypeInv, IInv, [Next]_vars PROVE IInv'
    OBVIOUS
  <2>1. CASE UNCHANGED vars
    BY <2>1
       DEF vars, IInv, FlagStands, AtEntry, DocIsEntry, WritesReading, EntryWasGiven,
           Entry, Writing, FieldsWereGiven, FieldGiven, Here, UnflaggedIsPublished,
           PublishedWasGiven
  <2> QED
    BY <2>1, InvUpdateCalled, InvAppStep, InvTimerStep DEF Next
<1> QED
  BY <1>1, <1>2, TypeInvariance, PTL DEF Spec

\* However the two tasks interleave, a publication that read each field after the
\* application had written it is a reading the application gave
\* (edgehog_battery_status.c:106-125, 138-163; edgehog_geolocation.c:115-128, 141-168).
THEOREM PublishedIsAReading == Spec => []PublishedWasGiven
<1>1. IInv => PublishedWasGiven
  BY DEF IInv
<1> QED
  BY <1>1, Invariance, PTL

\* A flag is cleared only for the reading that was published: the application never stores
\* one between the publication and the clearing of the flag, and what it had yet to write
\* was written or makes the publication torn (edgehog_battery_status.c:116-124, 134-161).
THEOREM NothingIsPassedOver == Spec => []ClearedIsPublished
<1>1. IInv => ClearedIsPublished
  BY DEF IInv, UnflaggedIsPublished, ClearedIsPublished, Entry
<1> QED
  BY <1>1, Invariance, PTL

-----------------------------------------------------------------------------
(* The refinement of ReadingService: the flag is set where a reading is    *)
(* kept, and the reading leaves the box where it is sent.                  *)

\* Two boxes are the same if they hold the same of each source.
LEMMA WaitingEqual ==
    ASSUME \A s \in Source : Waiting'[s] = Waiting[s] PROVE Waiting' = Waiting
BY DEF Waiting

LEMMA ServiceUpdateCalled ==
    ASSUME TypeInv, NEW s \in Source, NEW r \in [Field -> Value], UpdateCalled(s, r)
    PROVE  [Service!Next]_(Service!service)
<1> USE DEF TypeInv, UpdateCalled
<1>1. \A q \in Source : Sent(q)' <=> Sent(q)
  BY AppendType, TypeParts DEF Sent, InList
<1>2. UNCHANGED Waiting
  BY <1>1 DEF Waiting, Entry, Writing
<1>3. CASE UNCHANGED given
  BY <1>2, <1>3 DEF Service!service
<1>4. CASE given' = [given EXCEPT ![s] = @ \cup {Kept(r)}]
  <2>1. Service!Give(s, Kept(r))
    BY <1>2, <1>4 DEF Service!Give
  <2> QED
    BY <2>1, KeptReading DEF Service!Next
<1> QED
  BY <1>3, <1>4

LEMMA ServiceAppStep ==
    ASSUME TypeInv, IInv, AppStep PROVE [Service!Next]_(Service!service)
<1> USE DEF TypeInv, IInv
<1>1. /\ UNCHANGED <<list, timer, past, given>> /\ appSource \in Source
      /\ appReading \in given[appSource] /\ appReading \in Reading
  BY TypeParts DEF AppStep, UpdateChecked, UpdateWrites, AppLevels, WritesReading, AppType
<1>2. \A q \in Source : Sent(q)' <=> Sent(q)
  BY <1>1 DEF Sent
<1>3. CASE UpdateChecked /\ MayStore(appSource)
  <2>1. /\ ~updated[appSource] /\ updated'[appSource]
        /\ \A q \in Source : q # appSource => updated'[q] = updated[q]
        /\ stored[appSource] # appReading /\ ~Writing(appSource)
    BY <1>1, <1>3, TypeParts DEF UpdateChecked, MayStore, EntryType, Writing
  <2>2. ~Sent(appSource)
    BY <1>1, <2>1 DEF Sent, FlagStands, AtEntry, Here
  <2>3. Waiting[appSource] = {} /\ Waiting'[appSource] = {appReading}
    BY <1>1, <1>2, <1>3, <2>1, <2>2, EntryMoves DEF Waiting
  <2>4. appReading # last[appSource] \/ appSource \in torn
    BY <1>1, <2>1 DEF UnflaggedIsPublished, Entry
  <2>5. \A q \in Source : q # appSource => Waiting'[q] = Waiting[q]
    BY <1>2, <2>1, EntryMoves DEF Waiting
  <2>6. Waiting' = [Waiting EXCEPT ![appSource] = {appReading}]
    BY <2>3, <2>5 DEF Waiting
  <2>7. Service!Keep(appSource, appReading)
    BY <1>1, <2>3, <2>4, <2>6 DEF Service!Keep
  <2> QED
    BY <1>1, <2>7 DEF Service!Next
<1>4. CASE ~(UpdateChecked /\ MayStore(appSource))
  <2>1. updated' = updated
    BY <1>4 DEF AppStep, UpdateChecked, UpdateWrites
  <2>2. \A q \in Source : Waiting'[q] = Waiting[q]
    BY <1>2, <1>4, <2>1, EntryMoves DEF Waiting
  <2>3. UNCHANGED Waiting
    BY <2>2, WaitingEqual
  <2> QED
    BY <1>1, <2>3 DEF Service!service
<1> QED
  BY <1>3, <1>4

LEMMA ServiceTimerStep ==
    ASSUME TypeInv, IInv, TimerFires \/ TimerStep
    PROVE  [Service!Next]_(Service!service)
<1> USE DEF TypeInv, IInv
<1>1. UNCHANGED <<list, stored, app, given>> /\ \A q : Entry(q)' = Entry(q)
  BY DEF TimerFires, TimerStep, PublishWalks, PublishReads, PublishNoMemory,
         PublishSends, PublishClears, Entry, Writing
<1>2. CASE UNCHANGED <<updated, past>> /\ timerPc # "clear" /\ timerPc' # "clear"
  <2>1. UNCHANGED Waiting
    BY <1>1, <1>2 DEF Waiting, Sent
  <2> QED
    BY <1>1, <1>2, <2>1 DEF Service!service
<1>3. CASE TimerFires \/ PublishNoMemory \/ PublishWalks \/ \E f \in Field : PublishReads(f)
  BY <1>2, <1>3 DEF TimerFires, PublishNoMemory, PublishWalks, PublishReads
<1>4. CASE PublishSends
  <2>1. Here \in Source /\ updated[Here] /\ timerPc = "publish" /\ updated' = updated
    BY <1>4, HereIsSource DEF PublishSends, AtEntry, FlagStands
  <2>2. CASE AfterFailure /\ UNCHANGED past
    BY <1>2, <2>1, <2>2 DEF AfterFailure
  <2>3. CASE /\ last' = [last EXCEPT ![Here] = doc]
             /\ torn' = IF early THEN torn \cup {Here} ELSE torn \ {Here}
             /\ timerPc' = "clear" /\ UNCHANGED position
    <3>1. Waiting[Here] = {Entry(Here)} /\ Waiting'[Here] = {}
      BY <1>1, <2>1, <2>3 DEF Waiting, Sent, Here
    <3>2. \A s \in Source : s # Here => Waiting'[s] = Waiting[s]
      BY <1>1, <2>1, <2>3 DEF Waiting, Sent, Here
    <3>3. Waiting' = [Waiting EXCEPT ![Here] = {}]
      BY <3>1, <3>2 DEF Waiting
    <3>4. doc \in Reading /\ Entry(Here) \in Reading
      BY <2>1, TypeParts DEF Entry, EntryType, AppType, DocType
    <3>5. CASE early
      <4>1. Service!Mixture(Here, doc)
        BY <1>4, <2>1
           DEF PublishSends, DocIsEntry, FieldsWereGiven, FieldGiven, Service!Mixture
      <4>2. Service!Tear(Here, doc)
        BY <1>1, <2>3, <3>1, <3>3, <3>5, <4>1 DEF Service!Tear
      <4> QED
        BY <2>1, <3>4, <4>2 DEF Service!Next
    <3>6. CASE ~early
      <4>1. \A f \in Field : doc[f] = Entry(Here)[f]
        BY <1>4, <3>6 DEF PublishSends, DocIsEntry
      <4>2. doc = Entry(Here)
        BY <3>4, <4>1, ReadingsEqual
      <4>3. Service!Publish(Here, doc)
        BY <1>1, <2>3, <3>1, <3>3, <3>6, <4>2 DEF Service!Publish
      <4> QED
        BY <2>1, <3>4, <4>3 DEF Service!Next
    <3> QED
      BY <3>5, <3>6
  <2> QED
    BY <1>4, <2>2, <2>3 DEF PublishSends, Here
<1>5. CASE PublishClears
  <2>1. Here \in Source /\ Sent(Here) /\ timerPc = "clear" /\ timerPc' = "walk"
           /\ UNCHANGED past
    BY <1>5, HereIsSource DEF PublishClears, AtEntry, Here, Sent
  <2>2. ~updated'[Here] /\ \A s \in Source : s # Here => updated'[s] = updated[s]
    BY <1>5, <2>1, TypeParts DEF PublishClears, Here, EntryType
  <2>3. \A s \in Source : Waiting'[s] = Waiting[s]
    BY <1>1, <2>1, <2>2 DEF Waiting, Sent, Here
  <2> QED
    BY <1>1, <2>1, <2>3, WaitingEqual DEF Service!service
<1> QED
  BY <1>3, <1>4, <1>5 DEF TimerStep

\* However the two tasks interleave, list, flags and fields together behave as a box for
\* one reading of each source, which is published once and whole before the next may
\* wait, or else, where a field was read too early, is lost in a mixture of readings of
\* its own source (edgehog_battery_status.c:106-164, edgehog_geolocation.c:115-169).
THEOREM StatusImplementsService == Spec => ImplementsService
<1>1. Init => Service!Init
  BY DEF Init, Waiting, Service!Init
<1>2. TypeInv /\ IInv /\ [Next]_vars => [Service!Next]_(Service!service)
  <2> SUFFICES ASSUME TypeInv, IInv, [Next]_vars
               PROVE  [Service!Next]_(Service!service)
    OBVIOUS
  <2>1. CASE UNCHANGED vars
    BY <2>1 DEF vars, Waiting, Sent, Entry, Writing, Service!service
  <2> QED
    BY <2>1, ServiceUpdateCalled, ServiceAppStep, ServiceTimerStep DEF Next
<1> QED
  BY <1>1, <1>2, TypeInvariance, Invariance, PTL
     DEF Spec, ImplementsService, Service!Spec
=============================================================================
