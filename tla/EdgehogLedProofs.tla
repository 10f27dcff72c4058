--------------------------- MODULE EdgehogLedProofs ---------------------------
(***************************************************************************)
(* Proofs about EdgehogLed, for any number of requests, tasks and blocks.  *)
(*                                                                         *)
(* The inductive invariant IInv says that a blink task is the one of the   *)
(* manager's handle, runs with the manager's configuration, and only while *)
(* the handler has not yet got to free that configuration: the check of    *)
(* `terminated' cannot miss it, since a blink task's flag is not set.      *)
(***************************************************************************)
EXTENDS EdgehogLed, TLAPS

USE DEF memory, manager, tasks, led, history

\* The handler's steps, and those of task t, that Next is made of.
TaskStep(t) == TurnOn(t) \/ TurnOff(t) \/ TimeIsOver(t) \/ End(t) \/ Reset(t) \/ DeleteSelf(t) \/ IdleReap(t)

\* Every step keeps the types (edgehog_led.c:91-166).
LEMMA TypeStep == TypeOK /\ [Next]_vars => TypeOK'
<1> SUFFICES ASSUME TypeOK, [Next]_vars PROVE TypeOK'
  OBVIOUS
<1>1. CASE Request
  <2>1. requests' \in 0..MaxRequests
    BY <1>1, BoundAssumption DEF TypeOK, Request
  <2> QED
    BY <1>1, <2>1 DEF TypeOK, Request, Alive
<1>2. CASE Check
  BY <1>2 DEF TypeOK, Check, MustKill, Alive
<1>3. CASE Kill
  BY <1>3 DEF TypeOK, Kill, Deleted, Alive
<1>4. CASE Free
  BY <1>4 DEF TypeOK, Free, Alive
<1>5. CASE Allocate
  BY <1>5 DEF TypeOK, Allocate, Alive
<1>6. CASE Create
  <2>1. ASSUME NEW t \in Task, taskPc' = [taskPc EXCEPT ![t] = "loop"],
               params' = [params EXCEPT ![t] = current], handle' = t,
               UNCHANGED <<allocated, createFailed, leftLit>>
        PROVE  TypeOK'
    <3>1. current \in Config /\ current # None
      BY <1>6, SentinelAssumption DEF TypeOK, Create
    <3>2. taskPc' \in [Task -> {"none", "loop", "on", "ending", "reset", "delete", "ended"}]
      BY <2>1 DEF TypeOK
    <3>3. params' \in [Task -> Config \cup {None}]
      BY <2>1, <3>1 DEF TypeOK
    <3>4. \A u \in Task : Alive(u)' => params'[u] # None
      BY <2>1, <3>1 DEF TypeOK, Alive
    <3> QED
      BY <1>6, <2>1, <3>2, <3>3, <3>4 DEF TypeOK, Create
  <2>2. CASE allocated' = allocated \ {current} /\ createFailed' = TRUE
               /\ leftLit' = lit /\ UNCHANGED <<handle, tasks>>
    BY <1>6, <2>2 DEF TypeOK, Create, Alive
  <2> QED
    BY <1>6, <2>1, <2>2 DEF Create
<1>7. ASSUME NEW t \in Task, TaskStep(t) PROVE TypeOK'
  <2>1. CASE End(t)
    BY <2>1 DEF TypeOK, End, Terminate, Goes, Alive
  <2>2. CASE TimeIsOver(t) \/ DeleteSelf(t) \/ IdleReap(t)
    BY <2>2 DEF TypeOK, TimeIsOver, DeleteSelf, FreeOwn, IdleReap, Goes, Alive
  <2>4. CASE TurnOn(t)
    BY <2>4 DEF TypeOK, TurnOn, Goes, Alive
  <2>5. CASE TurnOff(t)
    BY <2>5 DEF TypeOK, TurnOff, Goes, Alive
  <2>3. CASE Reset(t)
    <3>1. lit' \in BOOLEAN /\ leftLit' \in BOOLEAN
      BY <2>3 DEF Reset, SetDefault, Default
    <3> QED
      BY <2>3, <3>1 DEF TypeOK, Reset, Goes, Alive
  <2> QED
    BY <1>7, <2>1, <2>2, <2>3, <2>4, <2>5 DEF TaskStep
<1>8. CASE UNCHANGED vars
  BY <1>8 DEF TypeOK, vars, Alive
<1> QED
  BY <1>1, <1>2, <1>3, <1>4, <1>5, <1>6, <1>7, <1>8 DEF Next, Handler, TaskStep

\* TypeOK holds of every behaviour: among others, the handler never asks to delete a task
\* it has no handle of, which would delete the caller.
THEOREM TypeCorrect == Spec => []TypeOK
<1>1. Init => TypeOK
  <2>1. 0 \in 0..MaxRequests
    BY BoundAssumption
  <2> QED
    BY <2>1 DEF Init, TypeOK, Alive
<1> QED
  BY <1>1, TypeStep, PTL DEF Spec

-----------------------------------------------------------------------------
\* A blink task is the manager's, until the handler has killed it.
BlinkerIsManaged ==
    \A t \in Task : Blinks(t) =>
        handle = t /\ params[t] = current /\ handlerPc \in {"idle", "check", "kill"}

\* A new configuration is not marked as ended.
NewConfig == handlerPc = "create" => ~terminated[current]

\* A configuration that was not marked is that of a task that blinks, as long as every
\* task could be created.
CurrentBlinks ==
    /\ handlerPc = "alloc" => current = None
    /\ handlerPc = "check" => current # None
    /\ ~createFailed /\ handlerPc \in {"idle", "check", "kill"} /\ current # None =>
          current \in allocated /\ handle \in Task /\ (terminated[current] \/ Blinks(handle))
    /\ ~createFailed /\ handlerPc = "kill" /\ cores = 1 => Blinks(handle)

\* What lights the LED between requests is there to switch it off.
LitIsOwned ==
    handlerPc = "idle" /\ lit /\ ~leftLit => \E t \in Task : Blinks(t) \/ taskPc[t] = "reset"

\* What the handler is about to kill for, or to free, it has.
CurrentIsThere ==
    /\ handlerPc \in {"kill", "free"} => current # None
    /\ handlerPc = "free" /\ ~createFailed => current \in allocated

IInv == /\ BlinkerHasConfig /\ BlinkerIsManaged /\ NewConfig /\ CurrentBlinks /\ KillsLiveTask
        /\ CurrentIsThere /\ FreedOnce

LEMMA LitStep == TypeOK /\ LitIsOwned /\ [Next]_vars => LitIsOwned'
<1> SUFFICES ASSUME TypeOK, LitIsOwned, [Next]_vars PROVE LitIsOwned'
  OBVIOUS
<1> USE DEF TypeOK, LitIsOwned, Blinks
<1>1. CASE Request \/ Check \/ Kill \/ Free
  BY <1>1 DEF Request, Check, Kill, Free, MustKill
<1>2. CASE Allocate
  BY <1>2 DEF Allocate
<1>3. CASE Create
  BY <1>3 DEF Create
<1>4. ASSUME NEW t \in Task, TaskStep(t) PROVE LitIsOwned'
  <2>1. CASE TurnOn(t) \/ TurnOff(t) \/ TimeIsOver(t) \/ End(t)
    BY <2>1 DEF TurnOn, TurnOff, TimeIsOver, End, Goes
  <2>2. CASE Reset(t)
    BY <2>2 DEF Reset, SetDefault, Default
  <2>3. CASE DeleteSelf(t) \/ IdleReap(t)
    BY <2>3 DEF DeleteSelf, FreeOwn, IdleReap, Goes
  <2> QED
    BY <1>4, <2>1, <2>2, <2>3 DEF TaskStep
<1>5. CASE UNCHANGED vars
  BY <1>5 DEF vars
<1> QED
  BY <1>1, <1>2, <1>3, <1>4, <1>5 DEF Next, Handler, TaskStep

LEMMA InvStep == TypeOK /\ IInv /\ [Next]_vars => IInv'
<1> SUFFICES ASSUME TypeOK, IInv, [Next]_vars PROVE IInv'
  OBVIOUS
<1> USE DEF IInv, BlinkerHasConfig, BlinkerIsManaged, NewConfig, CurrentBlinks, KillsLiveTask,
            CurrentIsThere, FreedOnce, Blinks, Alive, TypeOK
<1>1. CASE Request
  BY <1>1 DEF Request
<1>2. CASE Check
  <2>1. PICK flag \in Flags(current) :
               handlerPc' = IF MustKill(flag) THEN "kill" ELSE "free"
    BY <1>2 DEF Check
  <2>2. ASSUME NEW t \in Task, Blinks(t) PROVE handlerPc' = "kill"
    BY <1>2, <2>1, <2>2, SentinelAssumption DEF Check, MustKill, Flags
  <2>3. ASSUME ~createFailed, cores = 1, handlerPc' = "kill" PROVE Blinks(handle)
    <3>1. current # None /\ current \in allocated /\ ~flag
      BY <1>2, <2>1, <2>3 DEF Check, MustKill
    <3> QED
      BY <1>2, <2>1, <2>3, <3>1 DEF Check, Flags
  <2> QED
    BY <1>2, <2>1, <2>2, <2>3 DEF Check
<1>3. CASE Kill
  BY <1>3 DEF Kill, Deleted
<1>4. CASE Free
  BY <1>4 DEF Free
<1>5. CASE Allocate
  <2>1. allocated = {} /\ \A t \in Task : ~Blinks(t)
    BY <1>5, SentinelAssumption DEF Allocate
  <2>2. FreedOnce'
    BY <1>5, <2>1 DEF Allocate
  <2>3. (BlinkerHasConfig /\ BlinkerIsManaged)'
    BY <1>5, <2>1 DEF Allocate
  <2>4. (NewConfig /\ CurrentBlinks /\ KillsLiveTask /\ CurrentIsThere)'
    BY <1>5, <2>1 DEF Allocate
  <2> QED
    BY <2>2, <2>3, <2>4
<1>6. CASE Create
  BY <1>6 DEF Create
<1>7. ASSUME NEW t \in Task, TaskStep(t) PROVE IInv'
  <2>1. CASE End(t)
    BY <2>1 DEF End, Terminate, Goes, Runs
  <2>2. CASE TurnOn(t) \/ TurnOff(t) \/ TimeIsOver(t)
    BY <2>2 DEF TurnOn, TurnOff, TimeIsOver, Goes, Runs
  <2>3. CASE Reset(t) \/ DeleteSelf(t) \/ IdleReap(t)
    BY <2>3 DEF Reset, DeleteSelf, FreeOwn, IdleReap, Goes, Runs
  <2> QED
    BY <1>7, <2>1, <2>2, <2>3 DEF TaskStep
<1>8. CASE UNCHANGED vars
  BY <1>8 DEF vars
<1> QED
  BY <1>1, <1>2, <1>3, <1>4, <1>5, <1>6, <1>7, <1>8 DEF Next, Handler, TaskStep

THEOREM Invariance == Spec => []IInv
<1>1. Init => IInv
  BY DEF Init, IInv, BlinkerHasConfig, BlinkerIsManaged, NewConfig, CurrentBlinks,
         KillsLiveTask, CurrentIsThere, FreedOnce, Blinks
<1> QED
  BY <1>1, InvStep, TypeCorrect, PTL DEF Spec

\* Two tasks never blink at once (edgehog_led.c:134-164).
THEOREM NeverTwoBlinkers == Spec => []OneBlinker
<1>1. IInv => OneBlinker
  BY DEF IInv, BlinkerIsManaged, OneBlinker
<1> QED
  BY <1>1, Invariance, PTL

\* No request frees the configuration of a task that blinks, and each is freed once,
\* however many behaviours end in whatever way (edgehog_led.c:91-166).
THEOREM ConfigIsKept == Spec => []ConfigLives
<1>1. IInv => ConfigLives
  BY DEF IInv, ConfigLives
<1> QED
  BY <1>1, Invariance, PTL

\* On one core, and while every task could be created, the task that a request kills has
\* not ended (edgehog_led.c:138-140).
THEOREM KilledWasAlive == Spec => []KillsLiveTask
<1>1. IInv => KillsLiveTask
  BY DEF IInv
<1> QED
  BY <1>1, Invariance, PTL

\* Between requests the LED is only lit when no task is left if a request that failed, or
\* a configuration that was freed, has left it so (edgehog_led.c:126-129, 146-162).
THEOREM DarkWhenOver == Spec => []DarkAtRest
<1>1. Init => LitIsOwned
  BY DEF Init, LitIsOwned
<1>2. TypeOK /\ LitIsOwned => DarkAtRest
  BY DEF TypeOK, LitIsOwned, DarkAtRest, Blinks, Alive
<1> QED
  BY <1>1, <1>2, LitStep, TypeCorrect, PTL DEF Spec
=============================================================================
