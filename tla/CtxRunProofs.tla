---------------------------- MODULE CtxRunProofs ----------------------------
(***************************************************************************)
(* Proofs about CtxRun for every number of tasks.                          *)
(***************************************************************************)
EXTENDS CtxRun, TLAPS

USE MaxRunsAssumption

(***************************************************************************)
(* RunnerInv is inductive: the cancel function kept by Runner.Go belongs   *)
(* to the newest task until that task ran its deferred clean-up.           *)
(***************************************************************************)
THEOREM RunnerInvariance == Spec => []RunnerInv
<1>1. Init => RunnerInv
  <2> SUFFICES ASSUME Init PROVE RunnerInv
    OBVIOUS
  <2> USE DEF Init
  <2>1. TypeOK
    <3>1. counter \in 0..MaxRuns /\ cancel \in 0..MaxRuns
      BY DEF NoRun
    <3>2. phase \in [Runs -> Phases]
      BY DEF Phases
    <3>3. parentDone \in BOOLEAN
      OBVIOUS
    <3>4. QED
      BY <3>1, <3>2, <3>3 DEF TypeOK
  <2>2. CancelNamesNewest
    BY DEF CancelNamesNewest, NoRun
  <2>3. \A id \in Runs : id > counter /\ phase[id] = "new" /\ ~(id < counter)
    BY DEF Runs
  <2>4. QED
    BY <2>1, <2>2, <2>3 DEF RunnerInv
<1>2. RunnerInv /\ [Next]_runnerVars => RunnerInv'
  <2> SUFFICES ASSUME RunnerInv, [Next]_runnerVars PROVE RunnerInv'
    OBVIOUS
  <2> USE DEF RunnerInv, TypeOK, CancelNamesNewest, Runs, NoRun, Phases
  <2>1. CASE Go
    <3>1. TypeOK'
      BY <2>1 DEF Go
    <3>2. CancelNamesNewest'
      BY <2>1 DEF Go
    <3>3. \A id \in cancelled' : id < counter'
      BY <2>1 DEF Go
    <3>4. \A id \in Runs : id > counter' <=> phase'[id] = "new"
      BY <2>1 DEF Go
    <3>5. ASSUME NEW id \in Runs, id < counter'
          PROVE  phase'[id] = "done" \/ phase'[id] = "returned" \/ id \in cancelled'
      BY <2>1, <3>5 DEF Go
    <3>6. QED
      BY <3>1, <3>2, <3>3, <3>4, <3>5
  <2>2. ASSUME NEW i \in Runs, Return(i) PROVE RunnerInv'
    BY <2>2 DEF Return
  <2>3. ASSUME NEW i \in Runs, Cleanup(i) PROVE RunnerInv'
    BY <2>3 DEF Cleanup
  <2>4. CASE CancelParent
    BY <2>4 DEF CancelParent
  <2>5. CASE UNCHANGED runnerVars
    BY <2>5 DEF runnerVars
  <2>6. QED
    BY <2>1, <2>2, <2>3, <2>4, <2>5 DEF Next
<1>3. QED
  BY <1>1, <1>2, PTL DEF Spec

(***************************************************************************)
(* No two tasks of a runner are ever running with an uncancelled context:  *)
(* the promise Runner.Go makes to the build runner and the app launcher.   *)
(***************************************************************************)
THEOREM OneLiveTask == Spec => []AtMostOneLive
<1>1. RunnerInv => AtMostOneLive
  <2> SUFFICES ASSUME RunnerInv, NEW i \in Runs, NEW j \in Runs, Live(i), Live(j)
               PROVE  i = j
    BY DEF AtMostOneLive
  <2> USE DEF RunnerInv, TypeOK, Runs, Phases, Live
  <2>1. i = counter
    OBVIOUS
  <2>2. j = counter
    OBVIOUS
  <2>3. QED
    BY <2>1, <2>2
<1>2. QED
  BY <1>1, RunnerInvariance, PTL

(***************************************************************************)
(* The runner cancels no task before its successor was started.            *)
(***************************************************************************)
THEOREM NewestKeepsItsContext == Spec => []NewestUncancelled
<1>1. RunnerInv => NewestUncancelled
  BY DEF RunnerInv, TypeOK, NewestUncancelled, Runs
<1>2. QED
  BY <1>1, RunnerInvariance, PTL
=============================================================================
