------------------------ MODULE ChangeHandlerProofs ------------------------
(***************************************************************************)
(* Proofs about ChangeHandler for every set of watchers, every action they *)
(* require and every number of events and lines.                           *)
(***************************************************************************)
EXTENDS ChangeHandler, TLAPS

USE HandlerAssumption

\* The watchers and the place in handle agree: a function is pending or runs only
\* for a watcher that was triggered for this event and did not call wg.Done, and
\* the handler is past wg.Wait only when nobody is left.
WaitInv ==
    /\ todo \subseteq wg
    /\ hpc = "trigger" => matched # {}
    /\ hpc # "trigger" => todo = {}
    /\ hpc \in {"idle", "decide", "sendRerun"} => wg = {}
    /\ \A w \in Watchers : debouncer[w] \in {"pending", "running"} => w \in wg \ todo

\* The status is the maximum of what the watchers that succeeded require.
StatusInv ==
    /\ \A w \in succeeded : Requires[w] <= act
    /\ act # ActionNone => \E w \in succeeded : Requires[w] = act

HandlerInv == TypeOK /\ WaitInv /\ StatusInv

LEMMA InitHasHandlerInv == Init => HandlerInv
<1> SUFFICES ASSUME Init PROVE HandlerInv
  OBVIOUS
<1> USE DEF Init
<1>1. templChange \in Seq({"restart", "reload"}) /\ Len(templChange) <= ChangeCap
  OBVIOUS
<1>2. TypeOK
  <2>1. debouncer \in [Watchers -> {"idle", "pending", "running", "exited"}]
    OBVIOUS
  <2>2. file \in Files /\ act \in 0..3 /\ events \in 0..MaxEvents /\ lines \in 0..MaxTemplLines
    BY DEF Files, ActionNone
  <2>3. QED
    BY <1>1, <2>1, <2>2 DEF TypeOK
<1>3. WaitInv /\ StatusInv
  BY DEF WaitInv, StatusInv
<1>4. QED
  BY <1>2, <1>3 DEF HandlerInv

-----------------------------------------------------------------------------
(* One lemma for each part of the system. *)

LEMMA EventKeepsInv ==
  ASSUME HandlerInv, NEW f \in Files, NEW ws \in SUBSET Watchers, Handle(f, ws)
  PROVE  HandlerInv'
<1> USE DEF HandlerInv, Handle
<1>1. TypeOK'
  BY DEF TypeOK, ActionNone, templVars
<1>2. WaitInv'
  BY DEF WaitInv
<1>3. StatusInv'
  BY DEF StatusInv
<1>4. QED
  BY <1>1, <1>2, <1>3

LEMMA HandlerStepKeepsInv ==
  ASSUME HandlerInv, HandlerStep
  PROVE  HandlerInv'
<1> USE DEF HandlerInv, eventVars, outVars, templVars
<1>1. ASSUME NEW w \in Watchers, Trigger(w) PROVE HandlerInv'
  <2>1. TypeOK'
    BY <1>1 DEF Trigger, TypeOK
  <2>2. WaitInv'
    BY <1>1 DEF Trigger, WaitInv, TypeOK
  <2>3. StatusInv'
    BY <1>1 DEF Trigger, StatusInv
  <2>4. QED
    BY <2>1, <2>2, <2>3
<1>2. CASE Wait
  BY <1>2 DEF Wait, TypeOK, WaitInv, StatusInv
<1>3. CASE Decide
  <2>1. TypeOK'
    BY <1>3 DEF Decide, TypeOK
  <2>2. WaitInv' /\ StatusInv'
    BY <1>3 DEF Decide, WaitInv, StatusInv
  <2>3. QED
    BY <2>1, <2>2
<1>4. CASE SendRerun
  BY <1>4 DEF SendRerun, TypeOK, WaitInv, StatusInv
<1>5. QED
  BY <1>1, <1>2, <1>3, <1>4 DEF HandlerStep

LEMMA WatcherStepKeepsInv ==
  ASSUME HandlerInv, NEW w \in Watchers, RunDebounced(w) \/ DebouncerExits(w)
  PROVE  HandlerInv'
<1> USE DEF HandlerInv, eventVars, outVars, templVars
<1>1. CASE RunDebounced(w)
  BY <1>1 DEF RunDebounced, TypeOK, WaitInv, StatusInv
<1>2. CASE DebouncerExits(w)
  BY <1>2 DEF DebouncerExits, TypeOK, WaitInv, StatusInv
<1>3. QED
  BY <1>1, <1>2

LEMMA CommandKeepsInv ==
  ASSUME HandlerInv, NEW w \in Watchers, NEW outcome \in Outcomes, FinishCommand(w, outcome)
  PROVE  HandlerInv'
<1> USE DEF HandlerInv, FinishCommand, Require, outVars, templVars
<1>1. w \in wg /\ w \in matched /\ Requires[w] \in 0..3
  BY DEF TypeOK, WaitInv
<1>2. TypeOK'
  <2>1. act' \in 0..3 /\ succeeded' \subseteq matched'
    BY <1>1 DEF TypeOK
  <2>2. errWatcher' \subseteq FailOnErr
    BY DEF TypeOK
  <2>3. QED
    BY <1>1, <2>1, <2>2 DEF TypeOK
<1>3. WaitInv'
  BY DEF WaitInv, TypeOK
<1>4. StatusInv'
  <2>1. CASE outcome \in {"exit1", "silent1"}
    BY <2>1 DEF StatusInv
  <2>2. CASE outcome \notin {"exit1", "silent1"}
    <3>1. succeeded' = succeeded \cup {w} /\ act' = IF Requires[w] > act THEN Requires[w] ELSE act
      BY <2>2
    <3>2. ASSUME NEW v \in succeeded' PROVE Requires[v] <= act'
      <4>1. v \in Watchers /\ Requires[v] \in 0..3 /\ act \in 0..3
        BY <1>1, <3>1 DEF TypeOK
      <4>2. QED
        BY <1>1, <3>1, <4>1 DEF StatusInv
    <3>3. ASSUME act' # ActionNone PROVE \E v \in succeeded' : Requires[v] = act'
      <4>1. CASE act' = Requires[w]
        BY <3>1, <4>1
      <4>2. CASE act' = act
        BY <3>1, <3>3, <4>2 DEF StatusInv
      <4>3. QED
        BY <3>1, <4>1, <4>2
    <3>4. QED
      BY <3>2, <3>3 DEF StatusInv
  <2>3. QED
    BY <2>1, <2>2
<1>5. QED
  BY <1>2, <1>3, <1>4

LEMMA TemplKeepsInv ==
  ASSUME HandlerInv, TemplStep \/ Notify
  PROVE  HandlerInv'
<1> USE DEF HandlerInv, eventVars, outVars
<1>1. UNCHANGED <<hpc, eventVars, debouncer>> => WaitInv' /\ StatusInv'
  BY DEF WaitInv, StatusInv
<1>2. CASE TemplError \/ TemplErrorCleared
  <2>1. UNCHANGED <<hpc, eventVars, debouncer, errWatcher, templChange, outVars,
                    launcherGone, done, events>>
    BY <1>2 DEF TemplError, TemplErrorCleared
  <2>2. errTempl' \in BOOLEAN /\ lines' \in 0..MaxTemplLines
    <3>1. errTempl' \in BOOLEAN
      BY <1>2 DEF TemplError, TemplErrorCleared
    <3>2. lines < MaxTemplLines /\ lines' = lines + 1 /\ lines \in 0..MaxTemplLines
      BY <1>2 DEF TemplError, TemplErrorCleared, TypeOK
    <3>3. QED
      BY <3>1, <3>2
  <2>3. TypeOK'
    BY <2>1, <2>2 DEF TypeOK
  <2>4. QED
    BY <1>1, <2>1, <2>3
<1>3. ASSUME NEW change \in {"restart", "reload"}, TemplPostGen(change) PROVE HandlerInv'
  BY <1>1, <1>3 DEF TemplPostGen, TypeOK
<1>4. CASE Notify
  <2>1. templChange' \in Seq({"restart", "reload"}) /\ Len(templChange') <= ChangeCap
    BY <1>4 DEF Notify, TypeOK
  <2>2. QED
    BY <1>1, <1>4, <2>1 DEF Notify, TypeOK
<1>5. QED
  BY <1>2, <1>3, <1>4 DEF TemplStep

LEMMA EnvironmentKeepsInv ==
  ASSUME HandlerInv, TakeRerun \/ LauncherReturns \/ StartBuild \/ Cancel \/ UNCHANGED vars
  PROVE  HandlerInv'
<1> USE DEF HandlerInv, eventVars, outVars, templVars
<1>1. UNCHANGED <<hpc, eventVars, debouncer>>
  BY DEF TakeRerun, LauncherReturns, StartBuild, Cancel, vars
<1>2. WaitInv' /\ StatusInv'
  BY <1>1 DEF WaitInv, StatusInv
<1>3. TypeOK'
  BY DEF TypeOK, TakeRerun, LauncherReturns, StartBuild, Cancel, vars
<1>4. QED
  BY <1>2, <1>3

(***************************************************************************)
(* HandlerInv is inductive.                                                *)
(***************************************************************************)
THEOREM HandlerInvariance == Spec => []HandlerInv
<1>1. HandlerInv /\ [Next]_vars => HandlerInv'
  BY EventKeepsInv, HandlerStepKeepsInv, WatcherStepKeepsInv, CommandKeepsInv,
     TemplKeepsInv, EnvironmentKeepsInv DEF Next
<1>2. QED
  BY <1>1, InitHasHandlerInv, PTL DEF Spec

(***************************************************************************)
(* Type correctness: the status stays an action, the signals of templ stay *)
(* within the capacity of their channel.                                   *)
(***************************************************************************)
THEOREM TypeCorrect == Spec => []TypeOK
  BY HandlerInvariance, PTL DEF HandlerInv

(***************************************************************************)
(* The handler decides on the strongest action that the watchers which     *)
(* succeeded for this event require, in whatever order they were run.      *)
(***************************************************************************)
THEOREM StrongestIsChosen == Spec => []StrongestActionChosen
<1>1. HandlerInv => StrongestActionChosen
  BY DEF HandlerInv, StatusInv, StrongestActionChosen
<1>2. QED
  BY <1>1, HandlerInvariance, PTL

(***************************************************************************)
(* No function of an event is pending or running once the event is decided *)
(* or the handler waits for the next one.                                  *)
(***************************************************************************)
THEOREM NothingLeftOver == Spec => []NoLeftoverCommand
<1>1. HandlerInv => NoLeftoverCommand
  BY DEF HandlerInv, TypeOK, WaitInv, NoLeftoverCommand
<1>2. QED
  BY <1>1, HandlerInvariance, PTL
=============================================================================
