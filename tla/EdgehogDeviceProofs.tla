------------------------- MODULE EdgehogDeviceProofs -------------------------
(***************************************************************************)
(* Proofs about EdgehogDevice, for any callers, keys, numbers, calls,      *)
(* scans and restarts.                                                     *)
(*                                                                         *)
(* Each of the two parts has an invariant of its own, kept by its steps,   *)
(* by the restarts, and by every other step, which leaves its variables    *)
(* alone.  InfoInv adds what a call between the publication and the store  *)
(* relies on: its number has been published, and is still the server's     *)
(* unless the key is torn.                                                 *)
(***************************************************************************)
EXTENDS EdgehogPublishProofs

InfoNext == InfoCall \/ InfoStep \/ InfoRestart

\* What the device's steps are to the serial and part number.
LEMMA InfoView == [Next]_vars => [InfoNext]_infoVars
BY DEF Next, vars, InfoNext, Restart, MainStep, InputStep, TimerFires, AppCalls, TaskStep

StoringIsSent ==
    \A c \in Caller : callPc[c] = "store" =>
        /\ number[c] \in sent[key[c]]
        /\ key[c] \notin torn => /\ server[key[c]] = number[c]
                                 /\ Storing(key[c]) = {c}

InfoInv == StoringIsSent /\ StoredWasSent /\ StoredIsServers

\* Every step keeps the types.
LEMMA InfoTypeStep == InfoTypeOK /\ [InfoNext]_infoVars => InfoTypeOK'
<1> SUFFICES ASSUME InfoTypeOK, [InfoNext]_infoVars PROVE InfoTypeOK'
  OBVIOUS
<1>1. ASSUME NEW c \in Caller, NEW k \in Key, NEW n \in Number, SetCalled(c, k, n)
      PROVE  InfoTypeOK'
  <2>1. calls' \in 0..MaxCalls
    BY <1>1, CallsAssumption DEF InfoTypeOK, SetCalled
  <2>2. /\ callPc' \in [Caller -> {"idle", "read", "send", "store"}]
        /\ key' \in [Caller -> Key \cup {None}] /\ number' \in [Caller -> Number \cup {None}]
    BY <1>1 DEF InfoTypeOK, SetCalled, Goto
  <2>3. \A d \in Caller : callPc'[d] # "idle" => key'[d] # None /\ number'[d] # None
    BY <1>1, NumberAssumption DEF InfoTypeOK, SetCalled, Goto
  <2> QED
    BY <1>1, <2>1, <2>2, <2>3 DEF InfoTypeOK, SetCalled
<1>2. ASSUME NEW c \in Caller, SetReads(c) \/ SetNotSent(c) \/ SetNotStored(c)
      PROVE  InfoTypeOK'
  <2>1. /\ callPc' \in [Caller -> {"idle", "read", "send", "store"}]
        /\ callPc[c] # "idle" /\ \A d \in Caller : callPc'[d] # "idle" => callPc[d] # "idle"
    BY <1>2 DEF InfoTypeOK, SetReads, SetNotSent, AfterNotSent, SetNotStored, Goto
  <2>2. torn' \subseteq Key
    BY <1>2, <2>1 DEF InfoTypeOK, SetReads, SetNotSent, SetNotStored
  <2> QED
    BY <1>2, <2>1, <2>2 DEF InfoTypeOK, SetReads, SetNotSent, SetNotStored
<1>3. ASSUME NEW c \in Caller, SetSends(c) \/ SetStores(c) PROVE InfoTypeOK'
  <2>1. key[c] \in Key /\ number[c] \in Number
    BY <1>3 DEF InfoTypeOK, SetSends, SetStores
  <2> QED
    BY <1>3, <2>1 DEF InfoTypeOK, SetSends, SetStores, Goto
<1>4. CASE InfoRestart
  BY <1>4 DEF InfoTypeOK, InfoRestart
<1>5. CASE UNCHANGED infoVars
  BY <1>5 DEF InfoTypeOK, infoVars
<1> QED
  BY <1>1, <1>2, <1>3, <1>4, <1>5 DEF InfoNext, InfoCall, InfoStep

LEMMA InfoTypeCorrect == Spec => []InfoTypeOK
<1>1. Init => InfoTypeOK
  BY CallsAssumption DEF Init, InfoInit, InfoTypeOK
<1> QED
  BY <1>1, InfoTypeStep, InfoView, PTL DEF Spec

-----------------------------------------------------------------------------
LEMMA InfoInvStep == InfoTypeOK /\ InfoInv /\ [InfoNext]_infoVars => InfoInv'
<1> SUFFICES ASSUME InfoTypeOK, InfoInv, [InfoNext]_infoVars PROVE InfoInv'
  OBVIOUS
<1> USE DEF InfoInv, StoringIsSent, StoredWasSent, StoredIsServers, Storing
<1>1. ASSUME NEW c \in Caller, NEW k \in Key, NEW n \in Number, SetCalled(c, k, n)
      PROVE  InfoInv'
  BY <1>1 DEF InfoTypeOK, SetCalled, Goto
<1>2. ASSUME NEW c \in Caller, SetReads(c) \/ SetNotSent(c) PROVE InfoInv'
  BY <1>2 DEF InfoTypeOK, SetReads, SetNotSent, AfterNotSent, Goto
<1>3. ASSUME NEW c \in Caller, SetSends(c) PROVE InfoInv'
  <2>1. key[c] \in Key /\ number[c] \in Number
    BY <1>3 DEF InfoTypeOK, SetSends
  <2>2. StoringIsSent' /\ StoredWasSent'
    BY <1>3, <2>1 DEF InfoTypeOK, SetSends, Goto
  <2>3. StoredIsServers'
    BY <1>3, <2>1 DEF InfoTypeOK, SetSends, Goto
  <2> QED
    BY <2>2, <2>3
<1>4. ASSUME NEW c \in Caller, SetStores(c) PROVE InfoInv'
  <2>1. key[c] \in Key /\ number[c] \in Number /\ number[c] \in sent[key[c]]
    BY <1>4 DEF InfoTypeOK, SetStores
  <2>2. StoringIsSent' /\ StoredWasSent'
    BY <1>4, <2>1 DEF InfoTypeOK, SetStores, Goto
  <2>3. StoredIsServers'
    BY <1>4, <2>1 DEF InfoTypeOK, SetStores, Goto
  <2> QED
    BY <2>2, <2>3
<1>5. ASSUME NEW c \in Caller, SetNotStored(c) PROVE InfoInv'
  BY <1>5 DEF InfoTypeOK, SetNotStored, Goto
<1>6. CASE InfoRestart
  BY <1>6 DEF InfoTypeOK, InfoRestart
<1>7. CASE UNCHANGED infoVars
  BY <1>7 DEF infoVars
<1> QED
  BY <1>1, <1>2, <1>3, <1>4, <1>5, <1>6, <1>7 DEF InfoNext, InfoCall, InfoStep

LEMMA InfoInvariance == Spec => []InfoInv
<1>1. Init => InfoInv
  BY DEF Init, InfoInit, InfoInv, StoringIsSent, StoredWasSent, StoredIsServers, Storing
<1> QED
  BY <1>1, InfoInvStep, InfoTypeCorrect, InfoView, PTL DEF Spec

\* The NVS never holds a number that was not published (edgehog_device.c:461-473).
THEOREM NothingStoredUnsent == Spec => []StoredWasSent
<1>1. InfoInv => StoredWasSent
  BY DEF InfoInv
<1> QED
  BY <1>1, InfoInvariance, PTL

\* A key that was never torn holds the server's number (edgehog_device.c:454-473): the one
\* cause of a stale ESP_OK is a publication whose store failed, was cut short, or
\* overlapped another's.
THEOREM StoredAgrees == Spec => []StoredIsServers
<1>1. InfoInv => StoredIsServers
  BY DEF InfoInv
<1> QED
  BY <1>1, InfoInvariance, PTL

\* A call that returns ESP_OK at once does so for the number the server has, unless the
\* key is torn or another call is about to store (edgehog_device.c:454-459).
THEOREM KeptCallAgrees == Spec => KeptIsServers
<1>1. ASSUME InfoTypeOK, InfoInv, restarts \in Nat, [Next]_vars,
             NEW c \in Caller, callPc[c] = "read", callPc'[c] = "idle",
             restarts' = restarts, key[c] \notin torn, Storing(key[c]) = {}
      PROVE  server[key[c]] = number[c]
  <2>1. ~Restart
    BY <1>1 DEF Restart
  <2>2. InfoCall \/ InfoStep
    BY <1>1, <2>1
       DEF Next, vars, infoVars, MainStep, InputStep, TimerFires, AppCalls, TaskStep
  <2>3. SetReads(c)
    BY <1>1, <2>2
       DEF InfoCall, InfoStep, SetReads, SetSends, SetNotSent, AfterNotSent, SetStores, SetNotStored,
           SetCalled, Goto, InfoTypeOK
  <2>4. key[c] \in Key /\ number[c] # None
    BY <1>1, NumberAssumption DEF InfoTypeOK
  <2>5. nvs[key[c]] = number[c]
    BY <1>1, <2>3, <2>4 DEF SetReads, Goto, IsKept, Previous, InfoTypeOK
  <2> QED
    BY <1>1, <2>4, <2>5 DEF InfoInv, StoredIsServers
<1> DEFINE Counted == restarts \in Nat
<1>2. Init => Counted
  BY DEF Init
<1>3. Counted /\ [Next]_vars => Counted'
  BY DEF Next, Restart, vars, limits
<1>4. InfoTypeOK /\ InfoInv /\ Counted /\ [Next]_vars => KeptAgrees
  BY <1>1 DEF KeptAgrees
<1> QED
  BY <1>2, <1>3, <1>4, InfoTypeCorrect, InfoInvariance, PTL DEF Spec, KeptIsServers

-----------------------------------------------------------------------------
(* The Wi-Fi scan. *)

USE DEF loop

ScanNext == (\E t \in Scanner : Register(t)) \/ OtherScan \/ ScanStep \/ ScanRestart

\* What the device's steps are to the Wi-Fi scan.
LEMMA ScanView == [Next]_vars => [ScanNext]_scanVars
BY DEF Next, vars, ScanNext, Scanner, Restart, MainStep, StartPublishes, StartScans,
       InputStep, TimerFires, AppCalls, TaskStep

\* The event loop's part of ScanTypeOK, and the driver's.
LoopType ==
    /\ events \in Seq(BOOLEAN) /\ Len(events) <= QueueLength
    /\ running \in Seq(BOOLEAN) /\ Len(running) <= 1

HandlerType ==
    /\ scanPc \in [Scanner -> {"idle", "start"}] /\ registered \in 0..MaxScans
    /\ left \in 0..registered /\ (running = <<>> => left = 0)

DriverType ==
    /\ own \in Seq(BOOLEAN) /\ Len(own) <= MaxScans
    /\ radio \in 0..Len(own) /\ records \in 0..Len(own)
    /\ published \in [Scan -> 0..MaxScans]

LEMMA ScanParts == ScanTypeOK <=> LoopType /\ HandlerType /\ DriverType
BY DEF ScanTypeOK, LoopType, HandlerType, DriverType

LEMMA EventAppended ==
    ASSUME NEW q \in Seq(BOOLEAN), NEW b \in BOOLEAN
    PROVE  /\ Append(q, b) \in Seq(BOOLEAN) /\ Len(Append(q, b)) = Len(q) + 1
           /\ Append(q, b)[Len(q) + 1] = b
           /\ \A n \in 1..Len(q) : Append(q, b)[n] = q[n]
OBVIOUS

LEMMA LoopTypeStep == LoopType /\ [ScanNext]_scanVars => LoopType'
<1> SUFFICES ASSUME LoopType, [ScanNext]_scanVars PROVE LoopType'
  OBVIOUS
<1>1. CASE ScanDone
  <2>1. CASE events' = events /\ running' = running
    BY <2>1 DEF LoopType
  <2>2. ASSUME NEW b \in BOOLEAN, events' = Append(events, b), running' = running,
               Len(events) < QueueLength
        PROVE  LoopType'
    <3>1. events' \in Seq(BOOLEAN) /\ Len(events') = Len(events) + 1
      BY <2>2, EventAppended DEF LoopType
    <3>2. Len(events) \in Nat
      BY DEF LoopType
    <3> QED
      BY <2>2, <3>1, <3>2, ScansAssumption DEF LoopType
  <2> QED
    BY <1>1, <2>1, <2>2 DEF ScanDone
<1>2. CASE Dispatch
  <2>1. Head(events) \in BOOLEAN /\ Tail(events) \in Seq(BOOLEAN)
           /\ Len(Tail(events)) = Len(events) - 1 /\ Len(events) \in Nat
    BY <1>2 DEF LoopType, Dispatch
  <2>2. Len(events') <= QueueLength
    BY <1>2, <2>1, ScansAssumption DEF LoopType, Dispatch
  <2> QED
    BY <1>2, <2>1, <2>2 DEF LoopType, Dispatch
<1>3. CASE ~ScanDone /\ ~Dispatch
  <2>1. events' = events \/ events' = <<>>
    BY <1>3
       DEF ScanNext, ScanStep, ScanRestart, Register, StartScan, OtherScan, DispatchDone,
           Handle, scanVars
  <2>2. running' = running \/ running' = <<>>
    BY <1>3
       DEF ScanNext, ScanStep, ScanRestart, Register, StartScan, OtherScan, DispatchDone,
           Handle, scanVars
  <2>3. <<>> \in Seq(BOOLEAN) /\ Len(<<>>) = 0
    OBVIOUS
  <2>4. 0 <= QueueLength
    BY ScansAssumption
  <2>5. events' \in Seq(BOOLEAN) /\ Len(events') <= QueueLength
    BY <2>1, <2>3, <2>4 DEF LoopType
  <2>6. running' \in Seq(BOOLEAN) /\ Len(running') <= 1
    <3>1. 0 <= 1
      OBVIOUS
    <3> QED
      BY <2>2, <2>3, <3>1 DEF LoopType
  <2> QED
    BY <2>5, <2>6 DEF LoopType
<1> QED
  BY <1>1, <1>2, <1>3

LEMMA HandlerTypeStep == HandlerType /\ [ScanNext]_scanVars => HandlerType'
<1> SUFFICES ASSUME HandlerType, [ScanNext]_scanVars PROVE HandlerType'
  OBVIOUS
<1> USE ScansAssumption DEF HandlerType
<1>1. ASSUME NEW t \in Scanner, Register(t) PROVE HandlerType'
  BY <1>1 DEF Register, NotRegistered
<1>2. ASSUME NEW t \in Scanner, StartScan(t) PROVE HandlerType'
  BY <1>2 DEF StartScan
<1>3. CASE Dispatch
  BY <1>3 DEF Dispatch
<1>4. CASE DispatchDone
  BY <1>4 DEF DispatchDone
<1>5. CASE Handle
  <2>1. left > 0 /\ left' = left - 1 /\ UNCHANGED <<registered, scanPc, running>>
    BY <1>5 DEF Handle, Unregister
  <2> QED
    BY <2>1
<1>6. CASE OtherScan \/ ScanDone \/ UNCHANGED scanVars
  BY <1>6 DEF OtherScan, ScanDone, scanVars
<1>7. CASE ScanRestart
  BY <1>7 DEF ScanRestart
<1> QED
  BY <1>1, <1>2, <1>3, <1>4, <1>5, <1>6, <1>7 DEF ScanNext, ScanStep

\* The scan that goes on is the newest; the one whose records are kept is older.
DriverOrder ==
    /\ radio # 0 => radio = Len(own)
    /\ radio # 0 /\ records # 0 => records < radio

\* Neither of them has been published, nor one that is yet to come.
Unpublished ==
    \A s \in Scan : s = radio \/ s = records \/ s > Len(own) => published[s] = 0

\* What the handler's registration leads to.
HandlerReady == \A t \in Scanner : scanPc[t] = "start" => registered > 0

ScanInv == DriverOrder /\ Unpublished /\ PublishedOnce /\ HandlerReady /\ OwnScanHasHandler

LEMMA Begun ==
    ASSUME DriverType, NEW mine \in BOOLEAN, Begins(mine)
    PROVE  /\ Len(own) \in Nat /\ own' = Append(own, mine) /\ own' \in Seq(BOOLEAN)
           /\ Len(own') = Len(own) + 1 /\ Len(own') <= MaxScans
           /\ own'[radio'] = mine /\ radio' = Len(own') /\ radio = 0
           /\ records' \in {records, 0}
<1>1. Len(own) \in Nat /\ Len(own) < MaxScans
  BY DEF DriverType, Begins
<1>2. /\ own' = Append(own, mine) /\ radio' = Len(own) + 1 /\ radio = 0
      /\ records' \in {records, 0}
  BY DEF Begins
<1>3. /\ own' \in Seq(BOOLEAN) /\ Len(own') = Len(own) + 1
      /\ own'[Len(own) + 1] = mine
  BY <1>2, EventAppended DEF DriverType
<1>4. Len(own') <= MaxScans
  BY <1>1, <1>3, ScansAssumption
<1> QED
  BY <1>1, <1>2, <1>3, <1>4

LEMMA DriverTypeStep == DriverType /\ [ScanNext]_scanVars => DriverType'
<1> SUFFICES ASSUME DriverType, [ScanNext]_scanVars PROVE DriverType'
  OBVIOUS
<1>1. ASSUME NEW mine \in BOOLEAN, Begins(mine), published' = published PROVE DriverType'
  <2>1. radio' \in 0..Len(own') /\ records' \in 0..Len(own')
    BY <1>1, Begun DEF DriverType
  <2> QED
    BY <1>1, <2>1, Begun DEF DriverType
<1>2. CASE (\E t \in Scanner : StartScan(t)) \/ OtherScan
  <2>1. CASE UNCHANGED <<own, radio, records, published>>
    BY <2>1 DEF DriverType
  <2> QED
    BY <1>1, <1>2, <2>1 DEF StartScan, OtherScan
<1>3. CASE ScanDone \/ ScanRestart
  <2>1. own' = own /\ published' = published /\ radio' = 0 /\ records' \in {radio, 0}
    BY <1>3 DEF ScanDone, ScanRestart
  <2>2. radio' \in 0..Len(own) /\ records' \in 0..Len(own)
    BY <2>1 DEF DriverType
  <2> QED
    BY <2>1, <2>2 DEF DriverType
<1>4. CASE \/ \E t \in Scanner : Register(t)
           \/ Dispatch \/ DispatchDone \/ UNCHANGED scanVars
  <2>1. UNCHANGED <<own, radio, records, published>>
    BY <1>4 DEF Register, Dispatch, DispatchDone, scanVars
  <2> QED
    BY <2>1 DEF DriverType
<1>5. CASE Handle
  <2>1. own' = own /\ radio' = radio /\ records' \in {records, 0}
    BY <1>5 DEF Handle, Taken
  <2>2. \/ published' = published
        \/ /\ records # 0 /\ published[records] < MaxScans
           /\ published' = [published EXCEPT ![records] = @ + 1]
    BY <1>5 DEF Handle
  <2>3. published' \in [Scan -> 0..MaxScans]
    BY <2>2, ScansAssumption DEF DriverType, Scan
  <2>4. records' \in 0..Len(own)
    BY <2>1 DEF DriverType
  <2> QED
    BY <2>1, <2>3, <2>4 DEF DriverType
<1> QED
  BY <1>2, <1>3, <1>4, <1>5 DEF ScanNext, ScanStep

\* TypeOK holds of every behaviour of the device: among others, no more handlers have yet
\* to run for an event than are registered.
THEOREM TypeCorrect == Spec => []TypeOK
<1> DEFINE Counted == restarts \in 0..MaxRestarts /\ inputs \in 0..MaxInputs
<1>1. Init => LoopType /\ HandlerType /\ DriverType /\ Counted
  <2> SUFFICES ASSUME Init PROVE LoopType /\ HandlerType /\ DriverType /\ Counted
    OBVIOUS
  <2>1. <<>> \in Seq(BOOLEAN) /\ Len(<<>>) = 0
    OBVIOUS
  <2>2. 0 \in 0..MaxScans /\ 0 <= QueueLength /\ 0 <= MaxScans /\ 0 \in 0..0
           /\ 0 \in 0..MaxRestarts /\ 0 \in 0..MaxInputs
    BY ScansAssumption, InputsAssumption
  <2> QED
    BY <2>1, <2>2 DEF Init, ScanInit, LoopType, HandlerType, DriverType
<1>2. Counted /\ [Next]_vars => Counted'
  BY InputsAssumption DEF Next, InputStep, Restart, vars, limits
<1>3. /\ InfoTypeOK /\ LoopType /\ HandlerType /\ DriverType /\ Counted
      /\ PublishTypeOK /\ LifeTypeOK
      => TypeOK
  BY ScanParts DEF TypeOK
<1> QED
  BY <1>1, <1>2, <1>3, InfoTypeCorrect, LoopTypeStep, HandlerTypeStep, DriverTypeStep,
     ScanView, PublishTypeCorrect, LifeTypeCorrect, PTL DEF Spec

-----------------------------------------------------------------------------
LEMMA ScanInvStep ==
    LoopType /\ HandlerType /\ DriverType /\ ScanInv /\ [ScanNext]_scanVars => ScanInv'
<1> SUFFICES ASSUME LoopType, HandlerType, DriverType, ScanInv, [ScanNext]_scanVars
             PROVE  ScanInv'
  OBVIOUS
<1> USE DEF ScanInv
<1>1. ASSUME NEW t \in Scanner, Register(t) PROVE ScanInv'
  <2>1. HandlerReady'
    BY <1>1 DEF Register, NotRegistered, HandlerType, HandlerReady
  <2>2. registered > 0 => registered' > 0
    BY <1>1 DEF Register, HandlerType
  <2>3. UNCHANGED <<radio, records, own, published>>
    BY <1>1 DEF Register
  <2> QED
    BY <2>1, <2>2, <2>3
       DEF DriverOrder, Unpublished, PublishedOnce, OwnScanHasHandler
<1>2. ASSUME NEW mine \in BOOLEAN, Begins(mine), mine => registered > 0,
             UNCHANGED <<registered, published>>, HandlerReady'
      PROVE  ScanInv'
  <2>1. DriverOrder'
    <3>1. records \in 0..Len(own)
      BY DEF DriverType
    <3> QED
      BY <1>2, <3>1, Begun DEF DriverOrder
  <2>2. Unpublished'
    <3>1. ASSUME NEW s \in Scan, s = radio' \/ s = records' \/ s > Len(own')
          PROVE  s = records \/ s > Len(own)
      BY <1>2, <3>1, Begun DEF Scan
    <3> QED
      BY <1>2, <3>1 DEF Unpublished
  <2>3. PublishedOnce' /\ HandlerReady'
    BY <1>2 DEF PublishedOnce
  <2>4. OwnScanHasHandler'
    BY <1>2, Begun DEF OwnScanHasHandler
  <2> QED
    BY <2>1, <2>2, <2>3, <2>4
<1>3. CASE (\E t \in Scanner : StartScan(t)) \/ OtherScan
  <2>1. UNCHANGED registered /\ HandlerReady'
    BY <1>3 DEF StartScan, OtherScan, HandlerReady, HandlerType
  <2>2. CASE UNCHANGED <<own, radio, records, published>>
    BY <2>1, <2>2 DEF DriverOrder, Unpublished, PublishedOnce, OwnScanHasHandler
  <2>3. (\E t \in Scanner : StartScan(t)) => registered > 0
    BY DEF StartScan, HandlerReady
  <2> QED
    BY <1>2, <1>3, <2>1, <2>2, <2>3 DEF StartScan, OtherScan
<1>4. CASE ScanDone \/ ScanRestart
  <2>1. /\ own' = own /\ published' = published /\ radio' = 0 /\ records' \in {radio, 0}
        /\ HandlerReady'
    BY <1>4 DEF ScanDone, ScanRestart, HandlerReady
  <2>2. DriverOrder' /\ OwnScanHasHandler' /\ PublishedOnce' /\ HandlerReady'
    BY <2>1 DEF DriverOrder, OwnScanHasHandler, PublishedOnce
  <2>3. Unpublished'
    <3>1. \A s \in Scan : s # 0
      BY DEF Scan
    <3> QED
      BY <2>1, <3>1 DEF Unpublished
  <2> QED
    BY <2>2, <2>3
<1>5. CASE Dispatch \/ DispatchDone \/ UNCHANGED scanVars
  <2>1. UNCHANGED <<own, radio, records, published, registered, scanPc>>
    BY <1>5 DEF Dispatch, DispatchDone, scanVars
  <2> QED
    BY <2>1 DEF DriverOrder, Unpublished, PublishedOnce, HandlerReady, OwnScanHasHandler
<1>6. CASE Handle
  <2>1. UNCHANGED <<own, radio, registered, scanPc>>
    BY <1>6 DEF Handle, Unregister
  <2>2. CASE UNCHANGED <<records, published>>
    BY <2>1, <2>2
       DEF DriverOrder, Unpublished, PublishedOnce, HandlerReady, OwnScanHasHandler
  <2>3. CASE /\ records # 0 /\ records' = 0
             /\ published' = [published EXCEPT ![records] = @ + 1]
    <3>1. /\ records \in Scan /\ records <= Len(own) /\ records # radio
          /\ Len(own) \in Nat /\ radio \in Nat
      BY <2>3, ScansAssumption DEF DriverType, DriverOrder, Scan
    <3>2. /\ published'[records] = 1
          /\ \A s \in Scan : s # records => published'[s] = published[s]
      BY <2>3, <3>1 DEF DriverType, Unpublished
    <3>3. Unpublished' /\ PublishedOnce'
      <4>1. \A s \in Scan : s # 0 /\ (s > Len(own) => s # records)
        BY <3>1 DEF Scan
      <4> QED
        BY <2>1, <2>3, <3>1, <3>2, <4>1 DEF Unpublished, PublishedOnce
    <3>4. DriverOrder' /\ HandlerReady' /\ OwnScanHasHandler'
      BY <2>1, <2>3 DEF DriverOrder, HandlerReady, OwnScanHasHandler
    <3> QED
      BY <3>3, <3>4
  <2> QED
    BY <1>6, <2>2, <2>3 DEF Handle, Taken
<1> QED
  BY <1>1, <1>3, <1>4, <1>5, <1>6 DEF ScanNext, ScanStep

LEMMA ScanInvariance == Spec => [](LoopType /\ HandlerType /\ DriverType /\ ScanInv)
<1>1. Init => ScanInv
  <2> SUFFICES ASSUME Init PROVE ScanInv
    OBVIOUS
  <2>1. \A s \in Scan : published[s] = 0
    BY DEF Init, ScanInit
  <2>2. 0 <= 1
    OBVIOUS
  <2> QED
    BY <2>1, <2>2
       DEF Init, ScanInit, ScanInv, DriverOrder, Unpublished, PublishedOnce, HandlerReady,
           OwnScanHasHandler
<1>2. TypeOK => LoopType /\ HandlerType /\ DriverType
  BY ScanParts DEF TypeOK
<1> QED
  BY <1>1, <1>2, TypeCorrect, ScanInvStep, ScanView, PTL DEF Spec

\* A scan of the device finds a handler at its end (edgehog_device.c:103-105, 337-356).
THEOREM HandlerWaits == Spec => []OwnScanHasHandler
<1>1. ScanInv => OwnScanHasHandler
  BY DEF ScanInv
<1> QED
  BY <1>1, ScanInvariance, PTL

\* However many registrations have piled up, a scan is published once
\* (edgehog_device.c:358-401).
THEOREM NeverTwice == Spec => []PublishedOnce
<1>1. ScanInv => PublishedOnce
  BY DEF ScanInv
<1> QED
  BY <1>1, ScanInvariance, PTL
=============================================================================
