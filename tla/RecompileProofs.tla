-------------------------- MODULE RecompileProofs --------------------------
(***************************************************************************)
(* Proofs about the debouncer and about its composition with the build     *)
(* runner, for any number of triggers and builds.  Each step of Recompile  *)
(* is a step or a stutter of either part, so what is proved of the parts   *)
(* carries over; RecompileInv adds what ties them together: no function is *)
(* pending only once the newest one called Go.                             *)
(***************************************************************************)
EXTENDS Recompile, CtxRunProofs

-----------------------------------------------------------------------------
(* The debouncer.  The mutex is what RunsNewest rests on and the stopped   *)
(* ticker what RunsInOrder rests on: both follow from DebounceInv, which   *)
(* says that a tick under way finds a function nobody has executed.        *)

\* No step of a caller, of the goroutine or of the ticker breaks DebounceInv.
LEMMA StepKeepsInv ==
  ASSUME DebounceInv, [DebounceNext]_debounceVars
  PROVE  DebounceInv'
<1> USE MaxTriggersAssumption DEF DebounceInv, DebounceTypeOK, PendingArmed, PendingUnrun, NoFn
<1>1. CASE Trigger
  BY <1>1 DEF Trigger
<1>2. CASE TriggerNow
  BY <1>2 DEF TriggerNow
<1>3. CASE Tick
  BY <1>3 DEF Tick
<1>4. CASE Receive
  BY <1>4 DEF Receive
<1>5. CASE Lock
  BY <1>5 DEF Lock
<1>6. CASE Unlock
  <2>0. enabled' \in BOOLEAN /\ held' \in BOOLEAN /\ done' \in BOOLEAN
    BY <1>6, Zenon DEF Unlock
  <2>1. DebounceTypeOK' /\ PendingArmed' /\ PendingUnrun'
    BY <1>6, <2>0 DEF Unlock
  <2>2. held' = FALSE /\ pc' = "select"
    BY <1>6 DEF Unlock
  <2>3. ~enabled' => pc' = "exited" /\ ticker' = "stopped"
    BY <1>6 DEF Unlock
  <2>4. QED
    BY <2>1, <2>2, <2>3
<1>7. CASE Cancel
  BY <1>7 DEF Cancel
<1>8. CASE Exit
  BY <1>8 DEF Exit
<1>9. CASE UNCHANGED debounceVars
  BY <1>9 DEF debounceVars
<1>10. QED
  BY <1>1, <1>2, <1>3, <1>4, <1>5, <1>6, <1>7, <1>8, <1>9 DEF DebounceNext

LEMMA InitHasInv ==
  ASSUME DebounceInit
  PROVE  DebounceInv
<1>1. enabled \in BOOLEAN /\ held \in BOOLEAN /\ done \in BOOLEAN
  BY Zenon DEF DebounceInit
<1>2. DebounceTypeOK /\ PendingArmed /\ PendingUnrun
  BY <1>1, MaxTriggersAssumption DEF DebounceInit, DebounceTypeOK, PendingArmed, PendingUnrun, NoFn
<1>3. (held <=> pc = "running") /\ (~enabled => pc = "exited" /\ ticker = "stopped")
  BY DEF DebounceInit
<1>4. QED
  BY <1>2, <1>3 DEF DebounceInv

(***************************************************************************)
(* DebounceInv holds in every reachable state: a pending function always   *)
(* has a tick ahead of it, and a tick always a function nobody executed.   *)
(***************************************************************************)
THEOREM DebounceInvariance == DebounceSpec => []DebounceInv
  BY InitHasInv, StepKeepsInv, PTL DEF DebounceSpec

LEMMA StepKeepsNewest ==
  ASSUME DebounceInv, RunsNewest, [DebounceNext]_debounceVars
  PROVE  RunsNewest'
<1>1. CASE Lock
  BY <1>1 DEF Lock, RunsNewest, DebounceInv, DebounceTypeOK, PendingArmed
<1>2. CASE Trigger \/ TriggerNow
  BY <1>2 DEF Trigger, TriggerNow, RunsNewest, DebounceInv
<1>3. CASE Tick \/ Receive \/ Unlock \/ Cancel \/ Exit \/ UNCHANGED debounceVars
  BY <1>3 DEF Tick, Receive, Unlock, Cancel, Exit, debounceVars, RunsNewest
<1>4. QED
  BY <1>1, <1>2, <1>3 DEF DebounceNext

(***************************************************************************)
(* While a function runs it is the one the last trigger handed over: the   *)
(* debouncer never calls the nil left by an earlier execution, and no      *)
(* trigger slips in before the mutex is released.                          *)
(***************************************************************************)
THEOREM NewestRuns == DebounceSpec => []RunsNewest
<1>1. DebounceInit => RunsNewest
  BY DEF DebounceInit, RunsNewest
<1>2. QED
  BY <1>1, StepKeepsNewest, DebounceInvariance, PTL DEF DebounceSpec

(***************************************************************************)
(* Functions run in the order of the triggers and none runs twice, in a    *)
(* row or later, though a tick may be received before, and the mutex taken *)
(* after, another trigger replaced the function: whenever an execution     *)
(* starts, its function is newer than the one executed before.             *)
(***************************************************************************)
THEOREM RunInOrder == DebounceSpec => RunsInOrder
<1>1. DebounceInv /\ [DebounceNext]_debounceVars => [Starts => lastRun' > lastRun]_debounceVars
  <2> SUFFICES ASSUME DebounceInv, DebounceNext, Starts
               PROVE  lastRun' > lastRun
    BY DEF debounceVars
  <2>1. CASE Lock
    BY <2>1, MaxTriggersAssumption
       DEF Lock, DebounceInv, DebounceTypeOK, PendingArmed, PendingUnrun
  <2>2. CASE TriggerNow
    BY <2>2, MaxTriggersAssumption DEF TriggerNow, DebounceInv, DebounceTypeOK, PendingUnrun
  <2>3. QED
    BY <2>1, <2>2 DEF DebounceNext, Starts, Trigger, Tick, Receive, Unlock, Cancel, Exit
<1>2. QED
  BY <1>1, DebounceInvariance, PTL DEF DebounceSpec, RunsInOrder

-----------------------------------------------------------------------------
(* The composition of debouncer and runner. *)

(***************************************************************************)
(* Seen through the variables of the runner, the composition is a runner.  *)
(***************************************************************************)
THEOREM RecompileImplementsRunner == RecompileSpec => Spec
<1>1. RecompileInit => Init
  BY DEF RecompileInit
<1>2. [RecompileNext]_vars => [Next]_runnerVars
  <2> SUFFICES ASSUME [RecompileNext]_vars PROVE [Next]_runnerVars
    OBVIOUS
  <2>1. CASE DebouncerStep
    BY <2>1 DEF DebouncerStep
  <2>2. CASE Build \/ BuildNow
    BY <2>2 DEF Build, BuildNow, Next
  <2>3. CASE Built
    BY <2>3 DEF Built
  <2>4. CASE Shutdown
    BY <2>4 DEF Shutdown, Next
  <2>5. ASSUME NEW id \in Runs, TaskStep(id) PROVE [Next]_runnerVars
    BY <2>5 DEF TaskStep, Next
  <2>6. CASE UNCHANGED vars
    BY <2>6 DEF vars
  <2>7. QED
    BY <2>1, <2>2, <2>3, <2>4, <2>5, <2>6 DEF RecompileNext
<1>3. QED
  BY <1>1, <1>2, PTL DEF RecompileSpec, Spec

(***************************************************************************)
(* At no time do two builds run with an uncancelled context, whatever the  *)
(* order of triggers, ticks, returns and clean-ups.                        *)
(***************************************************************************)
THEOREM OneLiveBuild == RecompileSpec => []AtMostOneLive
  BY RecompileImplementsRunner, OneLiveTask, PTL

\* Seen through the variables of the debouncer, a step is one of the debouncer.
LEMMA StepOfDebouncer ==
  ASSUME [RecompileNext]_vars
  PROVE  [DebounceNext]_debounceVars
<1>1. CASE DebouncerStep
  BY <1>1 DEF DebouncerStep, DebounceNext
<1>2. CASE Build
  BY <1>2 DEF Build
<1>3. CASE BuildNow
  BY <1>3 DEF BuildNow, DebounceNext
<1>4. CASE Built
  BY <1>4 DEF Built, DebounceNext
<1>5. CASE Shutdown
  BY <1>5 DEF Shutdown, DebounceNext
<1>6. ASSUME NEW id \in Runs, TaskStep(id) PROVE [DebounceNext]_debounceVars
  BY <1>6 DEF TaskStep
<1>7. CASE UNCHANGED vars
  BY <1>7 DEF vars
<1>8. QED
  BY <1>1, <1>2, <1>3, <1>4, <1>5, <1>6, <1>7 DEF RecompileNext

(***************************************************************************)
(* Seen through the variables of the debouncer, the composition is a       *)
(* debouncer, so its functions run once and in the order of the triggers.  *)
(***************************************************************************)
THEOREM RecompileImplementsDebouncer == RecompileSpec => DebounceSpec
  BY StepOfDebouncer, PTL DEF RecompileSpec, RecompileInit, DebounceSpec

(***************************************************************************)
(* No recompile is asked for twice and none after a later one.             *)
(***************************************************************************)
THEOREM RecompilesInOrder == RecompileSpec => RunsInOrder
  BY RecompileImplementsDebouncer, RunInOrder

\* The debouncer's invariant and what ties it to the runner.
RecompileInv == DebounceInv /\ RunsNewest /\ (fn = NoFn => asked = triggered)

LEMMA StepKeepsRecompileInv ==
  ASSUME RecompileInv, [RecompileNext]_vars
  PROVE  RecompileInv'
<1> USE DEF RecompileInv
<1>1. DebounceInv'
  BY StepOfDebouncer, StepKeepsInv
<1>2. fn' = NoFn => asked' = triggered'
  <2> USE MaxTriggersAssumption
  <2>1. CASE DebouncerStep
    BY <2>1 DEF DebouncerStep, Trigger, Tick, Receive, Lock, Exit, DebounceInv, DebounceTypeOK, NoFn
  <2>2. CASE Build
    BY <2>2 DEF Build, debounceVars, RunsNewest
  <2>3. CASE BuildNow
    BY <2>3 DEF BuildNow
  <2>4. CASE Built
    BY <2>4 DEF Built, Unlock, DebounceInv, PendingUnrun, RunsNewest
  <2>5. CASE Shutdown
    BY <2>5 DEF Shutdown, Cancel
  <2>6. ASSUME NEW id \in Runs, TaskStep(id) PROVE fn' = NoFn => asked' = triggered'
    BY <2>6 DEF TaskStep, debounceVars
  <2>7. CASE UNCHANGED vars
    BY <2>7 DEF vars, debounceVars
  <2>8. QED
    BY <2>1, <2>2, <2>3, <2>4, <2>5, <2>6, <2>7 DEF RecompileNext
<1>3. RunsNewest'
  BY StepOfDebouncer, StepKeepsNewest
<1>4. QED
  BY <1>1, <1>2, <1>3

(***************************************************************************)
(* While nothing is pending, the build started last is the one the last    *)
(* trigger asked for and no later call of Go has cancelled it.             *)
(***************************************************************************)
THEOREM LastTriggerIsBuilt == RecompileSpec => []LastTriggerBuilds
<1>1. RecompileInit => RecompileInv
  <2> SUFFICES ASSUME RecompileInit PROVE RecompileInv
    OBVIOUS
  <2>1. DebounceInv
    BY InitHasInv DEF RecompileInit
  <2>2. RunsNewest /\ asked = triggered
    BY DEF RecompileInit, DebounceInit, RunsNewest, NoFn
  <2>3. QED
    BY <2>1, <2>2 DEF RecompileInv
<1>2. RecompileInv /\ [RecompileNext]_vars => RecompileInv'
  BY StepKeepsRecompileInv
<1>3. RecompileInv /\ NewestUncancelled => LastTriggerBuilds
  BY DEF RecompileInv, NewestUncancelled, LastTriggerBuilds
<1>4. QED
  BY <1>1, <1>2, <1>3, RecompileImplementsRunner, NewestKeepsItsContext, PTL DEF RecompileSpec
=============================================================================
