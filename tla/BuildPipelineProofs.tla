------------------------ MODULE BuildPipelineProofs ------------------------
(***************************************************************************)
(* Proofs about BuildPipeline for every number of edits and builds, and    *)
(* for all schedules, late reports, failing tools and other errors         *)
(* included.  That reports and the served binary are current is proved at  *)
(* the end, for every state in which the newest build was not outrun.      *)
(***************************************************************************)
EXTENDS BuildPipeline, TLAPS

RunnerFacts == INSTANCE CtxRunProofs WITH MaxRuns <- MaxBuilds

USE BuildAssumption

-----------------------------------------------------------------------------
(* The runner's part of each step. *)

LEMMA EndIsOfTheRunner ==
  ASSUME NEW b \in Builds, NEW from \in Pcs, End(b, from)
  PROVE  UNCHANGED runnerVars \/ (b \in Runs /\ Runner!Return(b))
BY DEF End, Builds, Runs, Initial

LEMMA StepsOfTheRunner ==
  ASSUME [Next]_vars
  PROVE  [Runner!Next]_(Runner!runnerVars)
<1>1. ASSUME NEW b \in Builds, TaskStep(b)
      PROVE  UNCHANGED runnerVars \/ (b \in Runs /\ Runner!Return(b))
  <2>1. CASE Begin(b)
    BY <2>1, EndIsOfTheRunner DEF Begin, Pcs
  <2>2. CASE Join(b)
    BY <2>2, EndIsOfTheRunner DEF Join, Pcs
  <2>3. CASE Check(b)
    BY <2>3, EndIsOfTheRunner DEF Check, Pcs
  <2>4. CASE Send(b)
    BY <2>4, EndIsOfTheRunner DEF Send, Pcs
  <2>5. QED
    BY <1>1, <2>1, <2>2, <2>3, <2>4 DEF TaskStep
<1>2. ASSUME NEW b \in Builds, GoStep(b) \/ LintStep(b) PROVE UNCHANGED runnerVars
  BY <1>2 DEF GoStep, LintStep, GoReads, GoEnds, StoreGo, LintReads, LintEnds, StoreLint
<1>3. ASSUME NEW b \in Runs, CleanupBuild(b) PROVE Runner!Cleanup(b)
  BY <1>3 DEF CleanupBuild
<1>4. StartBuild => Runner!Go
  BY DEF StartBuild
<1>5. CancelContext => Runner!CancelParent
  BY DEF CancelContext
<1>6. ASSUME (\E q \in Qualities : Edit(q)) \/ TakeBinary \/ OtherErrorChanges \/ UNCHANGED vars
      PROVE  UNCHANGED runnerVars
  BY <1>6 DEF Edit, TakeBinary, OtherErrorChanges, vars
<1>7. QED
  BY <1>1, <1>2, <1>3, <1>4, <1>5, <1>6 DEF Next, Runner!Next, Runs, Runner!Runs,
     runnerVars, Runner!runnerVars

(***************************************************************************)
(* Seen through its runner the pipeline is a CtxRun.                       *)
(***************************************************************************)
THEOREM PipelineImplementsRunner == Spec => ImplementsRunner
<1>1. Init => Runner!Init
  BY DEF Init
<1>2. QED
  BY <1>1, StepsOfTheRunner, PTL DEF Spec, ImplementsRunner, Runner!Spec

(***************************************************************************)
(* Hence at most one build runs with a context its runner did not cancel,  *)
(* however edits, builds and clean-ups interleave, and the invariant of    *)
(* CtxRun is one of the pipeline.                                          *)
(***************************************************************************)
THEOREM OneUncancelledBuild == Spec => [](Runner!RunnerInv /\ Runner!AtMostOneLive)
<1>1. Spec => Runner!Spec
  BY PipelineImplementsRunner DEF ImplementsRunner
<1>2. RunnerFacts!Spec => []RunnerFacts!AtMostOneLive /\ []RunnerFacts!RunnerInv
  BY RunnerFacts!OneLiveTask, RunnerFacts!RunnerInvariance
<1>3. Runner!Init => RunnerFacts!Init
  BY DEF Runner!Init, RunnerFacts!Init, Runner!Runs, RunnerFacts!Runs, Runner!NoRun,
     RunnerFacts!NoRun
<1>4. [Runner!Next]_(Runner!runnerVars) => [RunnerFacts!Next]_(RunnerFacts!runnerVars)
  BY DEF Runner!Next, RunnerFacts!Next, Runner!runnerVars, RunnerFacts!runnerVars,
     Runner!Go, RunnerFacts!Go, Runner!Return, RunnerFacts!Return, Runner!Cleanup,
     RunnerFacts!Cleanup, Runner!CancelParent, RunnerFacts!CancelParent,
     Runner!Runs, RunnerFacts!Runs, Runner!NoRun, RunnerFacts!NoRun
<1>5. RunnerFacts!AtMostOneLive => Runner!AtMostOneLive
  BY DEF Runner!AtMostOneLive, RunnerFacts!AtMostOneLive, Runner!Live, RunnerFacts!Live,
     Runner!Runs, RunnerFacts!Runs
<1>6. RunnerFacts!RunnerInv => Runner!RunnerInv
  BY DEF Runner!RunnerInv, RunnerFacts!RunnerInv, Runner!TypeOK, RunnerFacts!TypeOK,
     Runner!CancelNamesNewest, RunnerFacts!CancelNamesNewest, Runner!Phases,
     RunnerFacts!Phases, Runner!Runs, RunnerFacts!Runs, Runner!NoRun, RunnerFacts!NoRun
<1>7. QED
  BY <1>1, <1>2, <1>3, <1>4, <1>5, <1>6, PTL DEF Runner!Spec, RunnerFacts!Spec

-----------------------------------------------------------------------------
(* Types and the progress of a build. *)

\* TypeOK without the runner, whose variables have an invariant of their own.
SourceTypes == src \in Versions /\ pending \in BOOLEAN /\ confLint \in BOOLEAN
BuildTypes ==
    /\ pc \in [Builds -> Pcs]
    /\ go \in [Builds -> CmdPcs] /\ goVer \in [Builds -> 0..MaxVersions]
    /\ lint \in [Builds -> IF confLint THEN CmdPcs ELSE {"none", "done"}]
    /\ lintVer \in [Builds -> 0..MaxVersions]
    /\ binary \subseteq Builds
ResultTypes ==
    /\ quality \in [Versions -> Qualities]
    /\ {errTempl, errLint, errGo, errExit, errWatcher} \subseteq BOOLEAN
    /\ chRunNewServer \in 0..MaxVersions /\ served \in 0..MaxVersions
    /\ disturbed \in BOOLEAN /\ outrun \in BOOLEAN

\* The compiler runs only while its build waits for it; a build that was not
\* started has no results; the task of the runner runs until its build ended.
ProgressInv ==
    /\ \A b \in Builds :
        /\ go[b] \in {"start", "run", "store"} => pc[b] = "join"
        /\ go[b] \in {"none", "start"} => goVer[b] = NoVersion
        /\ pc[b] \in {"none", "begin"} => go[b] = "none"
    /\ \A b \in Runs :
        /\ phase[b] = "new" => pc[b] = "none"
        /\ pc[b] \in {"begin", "join", "check", "send"} => phase[b] = "running"

\* While no recompile is pending the newest build saw the newest source, will see
\* it, or does not compile.
NewestInv == "early" \notin Hazards /\ ~pending => goVer[counter] \in {src, NoVersion}

PipelineInv == SourceTypes /\ BuildTypes /\ ResultTypes /\ ProgressInv /\ NewestInv

LEMMA CounterIsBuild ==
  ASSUME Runner!RunnerInv
  PROVE  /\ counter \in Builds
         /\ phase \in [Runs -> Runner!Phases]
         /\ \A b \in Runs : b > counter => phase[b] = "new"
         /\ \A b \in Runs : phase[b] = "running" /\ b \notin cancelled => b = counter
<1> USE DEF Runner!RunnerInv, Runner!TypeOK, Runner!Runs, Runs, Builds
<1>1. counter \in Builds /\ phase \in [Runs -> Runner!Phases]
  OBVIOUS
<1>2. ASSUME NEW b \in Runs, phase[b] = "running", b \notin cancelled PROVE b = counter
  <2>1. ~(b < counter)
    BY <1>2
  <2>2. ~(b > counter)
    BY <1>2
  <2>3. QED
    BY <1>1, <2>1, <2>2
<1>3. QED
  BY <1>1, <1>2

LEMMA InitHasPipelineInv == Init => PipelineInv
<1> SUFFICES ASSUME Init PROVE PipelineInv
  OBVIOUS
<1> USE DEF Init, Versions, Builds, Runs, NoVersion
<1>1. SourceTypes /\ ResultTypes
  <2>1. src \in Versions /\ chRunNewServer \in 0..MaxVersions /\ served \in 0..MaxVersions
    OBVIOUS
  <2>2. {errTempl, errLint, errGo, errExit, errWatcher} \subseteq BOOLEAN
    OBVIOUS
  <2>3. QED
    BY <2>1, <2>2 DEF SourceTypes, ResultTypes
<1>2. BuildTypes
  <2>1. pc \in [Builds -> Pcs] /\ go \in [Builds -> CmdPcs]
    BY DEF Pcs, CmdPcs
  <2>2. lint \in [Builds -> IF confLint THEN CmdPcs ELSE {"none", "done"}]
    BY DEF CmdPcs
  <2>3. QED
    BY <2>1, <2>2 DEF BuildTypes
<1>3. ProgressInv
  <2>1. ASSUME NEW b \in Runs PROVE b \in Builds /\ pc[b] = "none" /\ phase[b] = "new"
    BY DEF Initial, Runner!Init, Runner!Runs
  <2>2. ASSUME NEW b \in Builds PROVE go[b] = "none" /\ goVer[b] = NoVersion
    OBVIOUS
  <2>3. QED
    BY <2>1, <2>2 DEF ProgressInv
<1>4. NewestInv
  BY DEF NewestInv, Runner!Init
<1>5. QED
  BY <1>1, <1>2, <1>3, <1>4 DEF PipelineInv

\* A step of the task: from one place to the next, the compiler set going on the
\* way to "join" and finished when that is left, the runner told at the end.
Moves(b, to) ==
    /\ pc[b] \in {"begin", "join", "check", "send"} /\ pc' = [pc EXCEPT ![b] = to]
    /\ IF to = "end" /\ b \in Runs THEN phase' = [phase EXCEPT ![b] = "returned"]
                                   ELSE phase' = phase
    /\ \/ to \in {"check", "send", "end"} /\ go' = go /\ go[b] \in {"none", "done"}
       \/ to = "join" /\ pc[b] = "begin" /\ go' = [go EXCEPT ![b] = "start"]
    /\ UNCHANGED <<counter, cancelled, src, pending, goVer>>

LEMMA TaskMoves ==
  ASSUME BuildTypes, ProgressInv, NEW b \in Builds, TaskStep(b)
  PROVE  \E to \in {"join", "check", "send", "end"} : Moves(b, to)
<1> USE DEF Goto, runnerVars, srcVars, goVars
<1>1. go[b] \in CmdPcs /\ (b = Initial \/ b \in Runs) /\ Initial \notin Runs
  BY DEF BuildTypes, Builds, Runs, Initial
<1>2. ASSUME NEW from \in {"begin", "join", "check", "send"}, End(b, from),
             go[b] \in {"none", "done"}, UNCHANGED <<src, pending, go, goVer>>
      PROVE  Moves(b, "end")
  BY <1>1, <1>2 DEF End, Moves, Runner!Return
<1>3. ASSUME NEW from \in {"begin", "join", "check", "send"}, NEW to \in {"check", "send"},
             Goto(b, from, to), go[b] \in {"none", "done"},
             UNCHANGED <<runnerVars, src, pending, go, goVer>>
      PROVE  Moves(b, to)
  BY <1>3 DEF Moves
<1>4. CASE Begin(b)
  <2>1. pc[b] = "begin" /\ go[b] = "none"
    BY <1>4 DEF Begin, ProgressInv
  <2>2. CASE errTempl /\ b = Initial
    BY <1>2, <1>4, <2>1, <2>2 DEF Begin
  <2>3. CASE errTempl /\ b # Initial
    BY <1>3, <1>4, <2>1, <2>3 DEF Begin
  <2>4. CASE ~errTempl
    <3>1. Moves(b, "join")
      BY <1>4, <2>1, <2>4 DEF Begin, Moves
    <3>2. QED
      BY <3>1
  <2>5. QED
    BY <2>2, <2>3, <2>4
<1>5. CASE Join(b)
  BY <1>2, <1>3, <1>5 DEF Join
<1>6. CASE Check(b)
  <2>1. pc[b] = "check" /\ UNCHANGED <<src, pending, go, goVer>>
    BY <1>6 DEF Check, End
  <2>2. go[b] \in {"none", "done"}
    BY <1>1, <2>1 DEF ProgressInv, CmdPcs
  <2>3. QED
    BY <1>2, <1>3, <1>6, <2>1, <2>2 DEF Check
<1>7. CASE Send(b)
  <2>1. pc[b] = "send" /\ UNCHANGED <<src, pending, go, goVer>>
    BY <1>7 DEF Send, End
  <2>2. go[b] \in {"none", "done"}
    BY <1>1, <2>1 DEF ProgressInv, CmdPcs
  <2>3. QED
    BY <1>2, <1>7, <2>1, <2>2 DEF Send
<1>8. QED
  BY <1>4, <1>5, <1>6, <1>7 DEF TaskStep

LEMMA TaskKeepsProgress ==
  ASSUME Runner!RunnerInv, BuildTypes, ProgressInv, NEW b \in Builds, TaskStep(b)
  PROVE  ProgressInv' /\ UNCHANGED <<counter, src, pending, goVer>>
<1>1. PICK to \in {"join", "check", "send", "end"} : Moves(b, to)
  BY TaskMoves
<1>2. phase \in [Runs -> Runner!Phases] /\ pc \in [Builds -> Pcs] /\ go \in [Builds -> CmdPcs]
  BY CounterIsBuild DEF BuildTypes
<1>3. ASSUME NEW c \in Builds
      PROVE  /\ go'[c] \in {"start", "run", "store"} => pc'[c] = "join"
             /\ go'[c] \in {"none", "start"} => goVer'[c] = NoVersion
             /\ pc'[c] \in {"none", "begin"} => go'[c] = "none"
  BY <1>1, <1>2 DEF Moves, ProgressInv
<1>4. ASSUME NEW c \in Runs
      PROVE  /\ phase'[c] = "new" => pc'[c] = "none"
             /\ pc'[c] \in {"begin", "join", "check", "send"} => phase'[c] = "running"
  <2>1. c \in Builds
    BY DEF Runs, Builds
  <2>2. QED
    BY <1>1, <1>2, <2>1 DEF Moves, ProgressInv
<1>5. QED
  BY <1>1, <1>3, <1>4 DEF ProgressInv, Moves

-----------------------------------------------------------------------------
(* Every step keeps the invariant, one lemma for each part of the pipeline. *)

LEMMA TaskKeepsInv ==
  ASSUME Runner!RunnerInv, PipelineInv, NEW b \in Builds, TaskStep(b)
  PROVE  PipelineInv'
<1> USE DEF PipelineInv
<1>1. ProgressInv' /\ UNCHANGED <<counter, src, pending, goVer>>
  BY TaskKeepsProgress
<1>2. PICK to \in {"join", "check", "send", "end"} : Moves(b, to)
  BY TaskMoves
<1>3. UNCHANGED <<confLint, quality, lintVer, binary, errVars, served, history>>
  BY DEF TaskStep, Begin, Join, Check, Send, srcVars, goVars, lintVars, outVars
<1>4. pc' \in [Builds -> Pcs] /\ go' \in [Builds -> CmdPcs]
  BY <1>2 DEF Moves, BuildTypes, Pcs, CmdPcs
<1>5. lint' \in [Builds -> IF confLint THEN CmdPcs ELSE {"none", "done"}]
  BY DEF TaskStep, Begin, Join, Check, Send, BuildTypes, lintVars, CmdPcs
<1>6. chRunNewServer' \in 0..MaxVersions
  BY DEF TaskStep, Begin, Join, Check, Send, BuildTypes, ResultTypes, outVars
<1>7. SourceTypes' /\ BuildTypes'
  BY <1>1, <1>3, <1>4, <1>5 DEF SourceTypes, BuildTypes
<1>8. ResultTypes'
  BY <1>3, <1>6 DEF ResultTypes, errVars, history
<1>9. NewestInv'
  BY <1>1 DEF NewestInv
<1>10. QED
  BY <1>1, <1>7, <1>8, <1>9

LEMMA GoKeepsInv ==
  ASSUME Runner!RunnerInv, PipelineInv, NEW b \in Builds, GoStep(b)
  PROVE  PipelineInv'
<1> USE DEF PipelineInv, GoStep
<1>1. UNCHANGED <<srcVars, runnerVars, pc, lintVars, errTempl, errLint, errWatcher, outVars,
                  disturbed>>
  BY DEF GoReads, GoEnds, StoreGo, errVars, history
<1>2. go[b] \in {"start", "run", "store"}
  BY DEF GoReads, GoEnds, StoreGo
<1>3. \E to \in {"run", "store", "done"} : go' = [go EXCEPT ![b] = to]
  BY DEF GoReads, GoEnds, StoreGo
<1>4. goVer' = goVer \/ goVer' = [goVer EXCEPT ![b] = src]
  BY DEF GoReads, GoEnds, StoreGo
<1>5. goVer' \in [Builds -> 0..MaxVersions]
  BY <1>4 DEF BuildTypes, SourceTypes, Versions
<1>6. binary' \subseteq Builds
  BY DEF GoReads, GoEnds, StoreGo, BuildTypes
<1>7. errGo' \in BOOLEAN /\ errExit' \in BOOLEAN
  BY DEF GoReads, GoEnds, StoreGo, ResultTypes, errVars
<1>8. SourceTypes' /\ BuildTypes'
  BY <1>1, <1>3, <1>5, <1>6 DEF SourceTypes, BuildTypes, srcVars, lintVars, CmdPcs
<1>9. ResultTypes'
  <2>1. outrun' \in BOOLEAN
    BY DEF GoReads, GoEnds, StoreGo, Outruns, ToolFails, ResultTypes, history
  <2>2. QED
    BY <1>1, <1>7, <2>1 DEF ResultTypes, srcVars, outVars
<1>10. ProgressInv'
  BY <1>1, <1>2, <1>3, <1>4 DEF ProgressInv, BuildTypes, runnerVars
<1>11. NewestInv'
  <2>1. counter \in Builds
    BY CounterIsBuild
  <2>2. QED
    BY <1>1, <1>4, <2>1 DEF NewestInv, srcVars, runnerVars, BuildTypes
<1>12. QED
  BY <1>8, <1>9, <1>10, <1>11

LEMMA LintKeepsInv ==
  ASSUME Runner!RunnerInv, PipelineInv, NEW b \in Builds, LintStep(b)
  PROVE  PipelineInv'
<1> USE DEF PipelineInv, LintStep
<1>1. UNCHANGED <<srcVars, runnerVars, pc, goVars, errTempl, errGo, errExit, errWatcher, outVars,
                  disturbed>>
  BY DEF LintReads, LintEnds, StoreLint, errVars, history
<1>2. lint' \in [Builds -> IF confLint THEN CmdPcs ELSE {"none", "done"}]
  <2>1. lint[b] \in {"start", "run", "store"}
    BY DEF LintReads, LintEnds, StoreLint
  <2>2. confLint
    BY <2>1 DEF BuildTypes
  <2>3. QED
    BY <2>2 DEF LintReads, LintEnds, StoreLint, BuildTypes, CmdPcs
<1>3. lintVer' \in [Builds -> 0..MaxVersions]
  BY DEF LintReads, LintEnds, StoreLint, BuildTypes, SourceTypes, Versions
<1>4. errLint' \in BOOLEAN
  BY DEF LintReads, LintEnds, StoreLint, ResultTypes, errVars
<1>5. SourceTypes' /\ BuildTypes'
  BY <1>1, <1>2, <1>3 DEF SourceTypes, BuildTypes, srcVars, goVars
<1>6. ResultTypes'
  <2>1. outrun' \in BOOLEAN
    BY DEF LintReads, LintEnds, StoreLint, Outruns, ToolFails, ResultTypes, history
  <2>2. QED
    BY <1>1, <1>4, <2>1 DEF ResultTypes, srcVars, outVars
<1>7. ProgressInv' /\ NewestInv'
  BY <1>1 DEF ProgressInv, NewestInv, srcVars, goVars, runnerVars
<1>8. QED
  BY <1>5, <1>6, <1>7

LEMMA StartKeepsInv ==
  ASSUME Runner!RunnerInv, PipelineInv, StartBuild
  PROVE  PipelineInv'
<1> USE DEF PipelineInv, StartBuild, Runner!Go
<1>1. counter' = counter + 1 /\ counter' \in Runs /\ counter' \in Builds /\ phase[counter'] = "new"
  <2>1. counter \in Builds /\ counter < MaxBuilds
    BY CounterIsBuild
  <2>2. counter' = counter + 1 /\ counter' \in Runs /\ counter' \in Builds /\ counter' > counter
    BY <2>1 DEF Builds, Runs
  <2>3. QED
    BY <2>2, CounterIsBuild
<1>2. pc[counter'] = "none" /\ go[counter'] = "none" /\ goVer[counter'] = NoVersion
  BY <1>1 DEF ProgressInv
<1>3. SourceTypes'
  BY DEF SourceTypes
<1>4. BuildTypes'
  BY <1>1 DEF BuildTypes, Pcs, goVars, lintVars
<1>5. ResultTypes'
  BY DEF ResultTypes, errVars, outVars
<1>6. ProgressInv'
  <2>1. phase \in [Runs -> Runner!Phases] /\ pc \in [Builds -> Pcs]
    BY CounterIsBuild DEF BuildTypes
  <2>2. \A c \in Runs : c \in Builds
    BY DEF Runs, Builds
  <2>3. QED
    BY <1>1, <1>2, <2>1, <2>2 DEF ProgressInv, goVars
<1>7. NewestInv'
  BY <1>2 DEF NewestInv, goVars
<1>8. QED
  BY <1>3, <1>4, <1>5, <1>6, <1>7

LEMMA CleanupKeepsInv ==
  ASSUME Runner!RunnerInv, PipelineInv, NEW b \in Runs, CleanupBuild(b)
  PROVE  PipelineInv'
<1> USE DEF PipelineInv, CleanupBuild, Runner!Cleanup, srcVars, goVars, lintVars, errVars, outVars,
       history
<1>1. phase' = [phase EXCEPT ![b] = "done"] /\ phase[b] = "returned"
  OBVIOUS
<1>2. SourceTypes' /\ BuildTypes' /\ ResultTypes' /\ NewestInv'
  BY DEF SourceTypes, BuildTypes, ResultTypes, NewestInv
<1>3. ProgressInv'
  BY <1>1, CounterIsBuild DEF ProgressInv
<1>4. QED
  BY <1>2, <1>3

LEMMA EnvironmentKeepsInv ==
  ASSUME Runner!RunnerInv, PipelineInv,
         \/ \E q \in Qualities : Edit(q)
         \/ TakeBinary \/ OtherErrorChanges \/ CancelContext \/ UNCHANGED vars
  PROVE  PipelineInv'
<1> USE DEF PipelineInv
<1>1. UNCHANGED <<confLint, counter, phase, pc, goVars, lintVars, errLint, errGo>>
  BY DEF Edit, TakeBinary, OtherErrorChanges, CancelContext, Runner!CancelParent, vars,
     srcVars, runnerVars, errVars
<1>2. BuildTypes' /\ ProgressInv'
  BY <1>1 DEF BuildTypes, ProgressInv, goVars, lintVars
<1>3. ASSUME NEW q \in Qualities, Edit(q) PROVE SourceTypes' /\ ResultTypes' /\ NewestInv'
  <2>1. src' \in Versions
    BY <1>3 DEF Edit, SourceTypes, Versions
  <2>2. pending' \in BOOLEAN
    BY <1>3 DEF Edit, SourceTypes, Watching
  <2>3. quality' \in [Versions -> Qualities]
    BY <1>3, <2>1 DEF Edit, ResultTypes
  <2>4. NewestInv'
    BY <1>3 DEF Edit, NewestInv
  <2>5. outrun' \in BOOLEAN
    BY <1>3 DEF Edit, ResultTypes, Watching
  <2>6. QED
    BY <1>3, <2>1, <2>2, <2>3, <2>4, <2>5 DEF Edit, SourceTypes, ResultTypes, errVars, outVars
<1>4. ASSUME TakeBinary \/ OtherErrorChanges \/ CancelContext \/ UNCHANGED vars
      PROVE  SourceTypes' /\ ResultTypes' /\ NewestInv'
  <2>1. UNCHANGED srcVars
    BY <1>4 DEF TakeBinary, OtherErrorChanges, CancelContext, vars
  <2>2. SourceTypes' /\ NewestInv'
    BY <1>1, <2>1 DEF SourceTypes, NewestInv, srcVars, goVars
  <2>3. chRunNewServer' \in 0..MaxVersions /\ served' \in 0..MaxVersions
    <3>1. CASE TakeBinary
      BY <3>1 DEF ResultTypes, TakeBinary, NoVersion
    <3>2. CASE UNCHANGED outVars
      BY <3>2 DEF ResultTypes, outVars
    <3>3. QED
      BY <1>4, <3>1, <3>2 DEF OtherErrorChanges, CancelContext, vars
  <2>4. {errTempl', errExit', errWatcher', disturbed', outrun'} \subseteq BOOLEAN
    BY <1>4 DEF ResultTypes, TakeBinary, OtherErrorChanges, CancelContext, vars, errVars,
       history
  <2>5. QED
    BY <1>1, <2>1, <2>2, <2>3, <2>4 DEF ResultTypes, srcVars
<1>5. QED
  BY <1>2, <1>3, <1>4

LEMMA StepKeepsPipelineInv ==
  ASSUME Runner!RunnerInv, PipelineInv, [Next]_vars
  PROVE  PipelineInv'
BY TaskKeepsInv, GoKeepsInv, LintKeepsInv, StartKeepsInv, CleanupKeepsInv, EnvironmentKeepsInv
   DEF Next

(***************************************************************************)
(* The invariant of the pipeline beside that of its runner.                *)
(***************************************************************************)
THEOREM PipelineInvariance == Spec => []PipelineInv
  BY InitHasPipelineInv, StepKeepsPipelineInv, OneUncancelledBuild, PTL DEF Spec

(***************************************************************************)
(* Type correctness.                                                       *)
(***************************************************************************)
THEOREM TypeCorrect == Spec => []TypeOK
<1>1. Runner!RunnerInv /\ PipelineInv => TypeOK
  BY DEF Runner!RunnerInv, PipelineInv, SourceTypes, BuildTypes, ResultTypes, TypeOK
<1>2. QED
  BY <1>1, PipelineInvariance, OneUncancelledBuild, PTL

(***************************************************************************)
(* Unless there are edits while the initial build runs, the newest build   *)
(* compiled the newest source once builds have settled, however triggers,  *)
(* late builds and failing tools interleave.                               *)
(***************************************************************************)
THEOREM LastEditIsCompiled ==
  ASSUME "early" \notin Hazards
  PROVE  Spec => []LastEditCompiled
<1>1. PipelineInv => LastEditCompiled
  BY DEF PipelineInv, NewestInv, LastEditCompiled, Settled
<1>2. QED
  BY <1>1, PipelineInvariance, PTL

\* buildServer goes on to report only if its context was not cancelled when the
\* command ended.  At that moment no newer build was started.
PassedByNewest ==
    [][\A b \in Runs : go[b] = "run" /\ go'[b] = "store" => b = counter]_vars

(***************************************************************************)
(* The build that passes the check of its context is the newest one; it    *)
(* can be superseded only between that check and its report.               *)
(***************************************************************************)
THEOREM NewestPasses == Spec => PassedByNewest
<1>1. ASSUME Runner!RunnerInv, PipelineInv, [Next]_vars, NEW b \in Runs,
             go[b] = "run", go'[b] = "store"
      PROVE  b = counter
  <2>1. b \in Builds /\ go \in [Builds -> CmdPcs]
    BY <1>1 DEF Runs, Builds, PipelineInv, BuildTypes
  <2>2. GoEnds(b)
    <3>1. ASSUME NEW c \in Builds, TaskStep(c) PROVE FALSE
      BY <1>1, <2>1, <3>1, TaskMoves DEF PipelineInv, Moves
    <3>2. ASSUME NEW c \in Builds, GoStep(c) PROVE GoEnds(b)
      BY <1>1, <2>1, <3>2 DEF GoStep, GoReads, GoEnds, StoreGo
    <3>3. ~(UNCHANGED go)
      BY <1>1
    <3>4. ASSUME NEW c \in Builds, LintStep(c) PROVE FALSE
      BY <3>3, <3>4 DEF LintStep, LintReads, LintEnds, StoreLint, goVars
    <3>5. QED
      BY <1>1, <3>1, <3>2, <3>3, <3>4 DEF Next, Edit, StartBuild, CleanupBuild, TakeBinary,
         OtherErrorChanges, CancelContext, vars, goVars
  <2>3. b \notin cancelled
    BY <1>1, <2>1, <2>2 DEF GoEnds, CtxDone
  <2>4. phase[b] = "running"
    BY <1>1, <2>1 DEF PipelineInv, ProgressInv
  <2>5. QED
    BY <1>1, <2>3, <2>4, CounterIsBuild
<1>2. QED
  <2>1. Runner!RunnerInv /\ PipelineInv /\ [Next]_vars
          => [\A b \in Runs : go[b] = "run" /\ go'[b] = "store" => b = counter]_vars
    BY <1>1
  <2>2. QED
    BY <2>1, PipelineInvariance, OneUncancelledBuild, PTL DEF Spec, PassedByNewest

-----------------------------------------------------------------------------
(***************************************************************************)
(* While the newest build is not outrun its reports stand: superseded      *)
(* builds may report at any time before its own commands end, but when     *)
(* one of those ended the superseded builds were over.  This is so in all  *)
(* schedules and again from every new build on, whatever happened before.  *)
(***************************************************************************)

\* The linter keeps step with the compiler.
LintInv ==
    \A b \in Builds :
        /\ lint[b] \in {"start", "run", "store"} => pc[b] = "join"
        /\ lint[b] = "none" <=> go[b] = "none"
        /\ lint[b] \in {"none", "start"} => lintVer[b] = NoVersion
        /\ confLint /\ lint[b] \in {"run", "store", "done"} => lintVer[b] \in 1..src

CompileInv ==
    /\ \A b \in Builds :
        /\ go[b] \in {"run", "store", "done"} => goVer[b] \in 1..src
        /\ pc[b] = "join" => go[b] # "none"
        /\ b \in binary => go[b] = "done"
    /\ pc[counter] # "none"

\* What the newest build saw is the newest source, unless an edit went unnoticed.
SeenInv ==
    ~pending /\ ~outrun =>
        goVer[counter] \in {src, NoVersion} /\ lintVer[counter] \in {src, NoVersion}

\* The error of the compiler is that of the newest build once that reported, and so is
\* the linter's; older builds are over by then.
GoReported == go[counter] = "done" /\ ~parentDone
LintReported == confLint /\ lint[counter] = "done" /\ ~parentDone

ReportInv == ~outrun =>
    /\ go[counter] = "store" \/ GoReported => Superseded(counter)
    /\ (confLint /\ lint[counter] = "store") \/ LintReported => Superseded(counter)
    /\ GoReported => /\ errGo <=> quality[goVer[counter]] = "broken"
                     /\ errGo <=> counter \notin binary
    /\ LintReported => (errLint <=> quality[lintVer[counter]] # "good")

\* While no other error came up only an error of its own keeps the binary of the
\* newest build from being sent.
UndisturbedInv ==
    ~disturbed =>
        /\ ~errTempl /\ ~errWatcher
        /\ pc[counter] # "begin" => go[counter] # "none"
        /\ counter \in binary => ~errExit

SentInv ==
    pc[counter] = "end" /\ GoReported /\ ~disturbed /\ ~outrun /\ NoError =>
        \/ chRunNewServer = goVer[counter]
        \/ chRunNewServer = NoVersion /\ served = goVer[counter]

CurrentInv ==
    LintInv /\ CompileInv /\ SeenInv /\ ReportInv /\ UndisturbedInv /\ SentInv

LEMMA CurrentFacts ==
  ASSUME Runner!RunnerInv, PipelineInv
  PROVE  /\ Builds \subseteq Nat /\ counter \in Builds /\ counter \notin cancelled
         /\ \A b \in Builds : b > counter => pc[b] = "none"
         /\ pc \in [Builds -> Pcs] /\ go \in [Builds -> CmdPcs]
         /\ lint \in [Builds -> IF confLint THEN CmdPcs ELSE {"none", "done"}]
         /\ goVer \in [Builds -> 0..MaxVersions] /\ lintVer \in [Builds -> 0..MaxVersions]
         /\ src \in Versions /\ quality \in [Versions -> Qualities] /\ binary \subseteq Builds
<1>1. Builds \subseteq Nat /\ counter \in Builds
  BY CounterIsBuild DEF Builds
<1>2. counter \notin cancelled
  BY <1>1 DEF Runner!RunnerInv
<1>3. ASSUME NEW b \in Builds, b > counter PROVE pc[b] = "none"
  <2>1. b \in Runs
    BY <1>1, <1>3 DEF Builds, Runs
  <2>2. QED
    BY <1>3, <2>1, CounterIsBuild DEF PipelineInv, ProgressInv
<1>4. QED
  BY <1>1, <1>2, <1>3 DEF PipelineInv, BuildTypes, SourceTypes, ResultTypes

\* When the newest build reported, or is about to, no other command runs.
LEMMA NobodyElse ==
  ASSUME Runner!RunnerInv, PipelineInv, Superseded(counter),
         NEW b \in Builds, pc[b] \in {"begin", "join", "check", "send"}
  PROVE  b = counter
<1>1. ~(b < counter)
  BY DEF Superseded
<1>2. ~(b > counter)
  BY CurrentFacts
<1>3. b \in Nat /\ counter \in Nat
  BY CurrentFacts
<1>4. QED
  BY <1>1, <1>2, <1>3

-----------------------------------------------------------------------------
(* The steps of a build: Begin, Join, Check, Send. *)

\* What Begin, Join, Check and Send do to the linter.
LEMMA TaskLeavesLint ==
  ASSUME LintInv, ProgressInv, BuildTypes, NEW b \in Builds, TaskStep(b)
  PROVE  \/ lint' = lint /\ go' = go /\ lint[b] \in {"none", "done"}
         \/ /\ pc[b] = "begin" /\ lint[b] = "none" /\ pc'[b] = "join" /\ go'[b] = "start"
            /\ lint' = [lint EXCEPT ![b] = IF confLint THEN "start" ELSE "done"]
<1> USE DEF goVars, lintVars
<1>1. CASE Begin(b)
  <2>1. pc[b] = "begin" /\ lint[b] = "none"
    BY <1>1 DEF Begin, LintInv, ProgressInv
  <2>2. CASE errTempl
    BY <1>1, <2>1, <2>2 DEF Begin
  <2>3. CASE ~errTempl
    BY <1>1, <2>1, <2>3 DEF Begin, Goto, BuildTypes
  <2>4. QED
    BY <2>2, <2>3
<1>2. CASE Join(b)
  BY <1>2 DEF Join
<1>3. CASE Check(b) \/ Send(b)
  <2>1. pc[b] \in {"check", "send"} /\ lint' = lint /\ go' = go
    BY <1>3 DEF Check, Send, End, Goto
  <2>2. lint[b] \in CmdPcs
    BY DEF BuildTypes, CmdPcs
  <2>3. QED
    BY <2>1, <2>2 DEF LintInv, CmdPcs
<1>4. QED
  BY <1>1, <1>2, <1>3 DEF TaskStep

LEMMA TaskKeepsCurrent ==
  ASSUME Runner!RunnerInv, PipelineInv, CurrentInv, NEW b \in Builds, TaskStep(b)
  PROVE  CurrentInv'
<1> USE DEF CurrentInv, PipelineInv
<1>1. PICK to \in {"join", "check", "send", "end"} : Moves(b, to)
  BY TaskMoves
<1>2. UNCHANGED <<confLint, quality, lintVer, binary, errTempl, errLint, errGo, errExit,
                  errWatcher, served, history, parentDone>>
  BY DEF TaskStep, Begin, Join, Check, Send, End, Runner!Return, srcVars, goVars, lintVars,
     outVars, errVars, runnerVars, history
<1>3. /\ pc[b] \in {"begin", "join", "check", "send"} /\ pc' = [pc EXCEPT ![b] = to]
      /\ UNCHANGED <<counter, cancelled, src, pending, goVer>>
      /\ go' = go \/ go' = [go EXCEPT ![b] = "start"]
      /\ to \in {"check", "send", "end"} => go[b] \in {"none", "done"} /\ go' = go
  BY <1>1 DEF Moves
<1>4. \/ lint' = lint /\ go' = go /\ lint[b] \in {"none", "done"}
      \/ /\ pc[b] = "begin" /\ lint[b] = "none" /\ pc'[b] = "join" /\ go'[b] = "start"
         /\ lint' = [lint EXCEPT ![b] = IF confLint THEN "start" ELSE "done"]
  BY TaskLeavesLint
<1>5. LintInv'
  BY <1>2, <1>3, <1>4, CurrentFacts DEF LintInv
<1>6. CompileInv'
  <2>1. \A c \in Builds : pc'[c] = "join" => go'[c] # "none"
    BY <1>1, <1>3, CurrentFacts DEF Moves, CompileInv
  <2>2. \A c \in Builds : go'[c] \in {"run", "store", "done"} => go[c] = go'[c]
    BY <1>3, CurrentFacts
  <2>3. \A c \in binary : go'[c] = "done"
    BY <1>1, <1>3, CurrentFacts DEF Moves, CompileInv, ProgressInv
  <2>4. QED
    BY <1>2, <1>3, <2>1, <2>2, <2>3, CurrentFacts DEF CompileInv
<1>7. SeenInv'
  BY <1>2, <1>3 DEF SeenInv, history
<1>8. Superseded(counter) => Superseded(counter)'
  BY <1>3, CurrentFacts DEF Superseded
<1>9. GoReported' => GoReported
  BY <1>2, <1>3, CurrentFacts DEF GoReported
<1>10. ReportInv'
  <2>1. go'[counter] = "store" => go[counter] = "store"
    BY <1>3, CurrentFacts
  <2>2. confLint /\ lint'[counter] \in {"store", "done"} => lint[counter] = lint'[counter]
    BY <1>4, CurrentFacts
  <2>3. QED
    BY <1>2, <1>3, <1>8, <1>9, <2>1, <2>2 DEF ReportInv, LintReported, GoReported, history
<1>11. UndisturbedInv'
  <2>1. ASSUME ~disturbed, b = counter, pc[b] = "begin" PROVE go'[b] # "none"
    <3>1. Begin(b) /\ ~errTempl
      BY <2>1 DEF TaskStep, Join, Check, Send, End, Goto, UndisturbedInv
    <3>2. QED
      BY <3>1, CurrentFacts DEF Begin
  <2>2. QED
    BY <1>2, <1>3, <2>1, CurrentFacts DEF UndisturbedInv, history
<1>12. SentInv'
  <2> SUFFICES ASSUME pc'[counter] = "end", GoReported', ~disturbed, ~outrun, NoError
               PROVE  \/ chRunNewServer' = goVer[counter]
                      \/ chRunNewServer' = NoVersion /\ served = goVer[counter]
    BY <1>2, <1>3 DEF SentInv, NoError, history
  <2>1. counter \in binary
    BY <1>9 DEF ReportInv, NoError
  <2>2. CASE b # counter
    <3>1. ~(Superseded(counter))
      BY <1>3, <2>2, NobodyElse
    <3>2. QED
      BY <1>9, <3>1 DEF ReportInv
  <2>3. CASE b = counter
    <3>1. ~Join(b) /\ ~Check(b)
      <4>1. ASSUME Join(b) PROVE FALSE
        BY <2>1, <2>3, <4>1, CurrentFacts DEF Join, Goto
      <4>2. ASSUME Check(b) PROVE FALSE
        BY <2>1, <2>3, <4>2, CurrentFacts DEF Check, Goto
      <4>3. QED
        BY <4>1, <4>2
    <3>2. ~Begin(b)
      <4>1. ASSUME Begin(b) PROVE FALSE
        <5>1. pc[b] = "begin" /\ ~errTempl
          BY <4>1 DEF Begin, UndisturbedInv
        <5>2. pc'[b] = "join"
          BY <4>1, <5>1, CurrentFacts DEF Begin, Goto
        <5>3. QED
          BY <2>3, <5>2
      <4>2. QED
        BY <4>1
    <3>3. Send(b)
      BY <3>1, <3>2 DEF TaskStep
    <3>4. QED
      BY <2>3, <3>3 DEF Send
  <2>4. QED
    BY <2>2, <2>3
<1>13. QED
  BY <1>5, <1>6, <1>7, <1>10, <1>11, <1>12

-----------------------------------------------------------------------------
(* The compiler and the linter. *)

LEMMA GoKeepsCurrent ==
  ASSUME Runner!RunnerInv, PipelineInv, CurrentInv, NEW b \in Builds, GoStep(b)
  PROVE  CurrentInv'
<1> USE DEF CurrentInv, PipelineInv
<1>1. UNCHANGED <<confLint, src, quality, pending, counter, cancelled, parentDone, pc, lint,
                  lintVer, errTempl, errLint, errWatcher, chRunNewServer, served, disturbed>>
  BY DEF GoStep, GoReads, GoEnds, StoreGo, errVars, srcVars, runnerVars, lintVars, outVars,
     Outruns, ToolFails, history
<1>2. ~outrun' => ~outrun
  BY DEF GoStep, GoReads, GoEnds, StoreGo, Outruns, ToolFails, history
<1>3. go[b] \in {"start", "run", "store"} /\ pc[b] = "join" /\ b \notin binary
  BY DEF GoStep, GoReads, GoEnds, StoreGo, ProgressInv, CompileInv
<1>4. PICK to \in {"run", "store", "done"} : go' = [go EXCEPT ![b] = to]
  BY DEF GoStep, GoReads, GoEnds, StoreGo
<1>5. /\ goVer' = IF to = "run" THEN [goVer EXCEPT ![b] = src] ELSE goVer
      /\ binary' = binary \/ (to = "done" /\ binary' = binary \cup {b})
      /\ to # "run" => goVer[b] \in 1..src
  BY <1>4, CurrentFacts DEF GoStep, GoReads, GoEnds, StoreGo, CompileInv
<1>6. errExit' = errExit \/ errExit' = FALSE
  BY DEF GoStep, GoReads, GoEnds, StoreGo, errVars
<1>7. b # counter => ~Superseded(counter)
  BY <1>3, NobodyElse
<1>8. LintInv'
  BY <1>1, <1>3, <1>4, CurrentFacts DEF LintInv
<1>9. CompileInv'
  <2>1. src \in 1..src
    BY CurrentFacts DEF Versions
  <2>2. QED
    BY <1>1, <1>3, <1>4, <1>5, <2>1, CurrentFacts DEF CompileInv
<1>10. SeenInv'
  BY <1>1, <1>2, <1>5, CurrentFacts DEF SeenInv
<1>11. ~outrun' =>
      /\ go'[counter] = "store" \/ GoReported' => Superseded(counter)'
      /\ GoReported' => /\ errGo' <=> quality[goVer[counter]] = "broken"
                        /\ errGo' <=> counter \notin binary'
  <2> SUFFICES ASSUME ~outrun'
               PROVE  /\ go'[counter] = "store" \/ GoReported' => Superseded(counter)'
                      /\ GoReported' => /\ errGo' <=> quality[goVer[counter]] = "broken"
                                        /\ errGo' <=> counter \notin binary'
    OBVIOUS
  <2>1. Superseded(counter)' <=> Superseded(counter)
    BY <1>1 DEF Superseded
  <2>2. CASE b # counter
    BY <1>1, <1>2, <1>4, <1>7, <2>1, <2>2, CurrentFacts DEF GoReported, ReportInv
  <2>3. CASE b = counter
    <3>1. CASE GoReads(b)
      BY <1>1, <2>3, <3>1, CurrentFacts DEF GoReads, GoReported
    <3>2. CASE GoEnds(b)
      <4>1. Superseded(counter)
        BY <2>3, <3>2 DEF GoEnds, Outruns, Superseded
      <4>2. go'[counter] = "done" => parentDone
        BY <2>3, <3>2, CurrentFacts DEF GoEnds, CtxDone
      <4>3. QED
        BY <1>1, <2>1, <4>1, <4>2 DEF GoReported
    <3>3. CASE StoreGo(b)
      <4>1. Superseded(counter)
        BY <1>2, <2>3, <3>3 DEF StoreGo, ReportInv
      <4>2. /\ errGo' <=> quality[goVer[counter]] = "broken"
            /\ errGo' <=> counter \notin binary'
        BY <1>3, <2>3, <3>3 DEF StoreGo, ToolFails
      <4>3. QED
        BY <2>1, <4>1, <4>2
    <3>4. QED
      BY <3>1, <3>2, <3>3 DEF GoStep
  <2>4. QED
    BY <2>2, <2>3
<1>12. ReportInv'
  <2>1. GoReported' => goVer'[counter] = goVer[counter]
    BY <1>1, <1>4, <1>5, CurrentFacts DEF GoReported
  <2>2. Superseded(counter)' <=> Superseded(counter)
    BY <1>1 DEF Superseded
  <2>3. QED
    BY <1>1, <1>2, <1>11, <2>1, <2>2 DEF ReportInv, LintReported
<1>13. UndisturbedInv'
  <2>1. counter \in binary' /\ counter \notin binary => ~errExit'
    BY <1>3, <1>5, CurrentFacts DEF GoStep, GoReads, GoEnds, StoreGo
  <2>2. QED
    BY <1>1, <1>4, <1>6, <2>1, CurrentFacts DEF UndisturbedInv
<1>14. SentInv'
  <2>1. pc[counter] = "end" => b # counter
    BY <1>3
  <2>2. b # counter /\ ~outrun' => ~GoReported'
    BY <1>1, <1>2, <1>4, <1>7, CurrentFacts DEF ReportInv, GoReported
  <2>3. QED
    BY <1>1, <1>2, <2>1, <2>2 DEF SentInv
<1>15. QED
  BY <1>8, <1>9, <1>10, <1>12, <1>13, <1>14

LEMMA LintKeepsCurrent ==
  ASSUME Runner!RunnerInv, PipelineInv, CurrentInv, NEW b \in Builds, LintStep(b)
  PROVE  CurrentInv'
<1> USE DEF CurrentInv, PipelineInv
<1>1. UNCHANGED <<confLint, src, quality, pending, counter, cancelled, parentDone, pc, go, goVer,
                  binary, errTempl, errGo, errExit, errWatcher, chRunNewServer, served,
                  disturbed>>
  BY DEF LintStep, LintReads, LintEnds, StoreLint, errVars, srcVars, runnerVars, goVars, outVars,
     Outruns, ToolFails, history
<1>2. ~outrun' => ~outrun
  BY DEF LintStep, LintReads, LintEnds, StoreLint, Outruns, ToolFails, history
<1>3. lint[b] \in {"start", "run", "store"} /\ pc[b] = "join" /\ confLint
  <2>1. lint[b] \in {"start", "run", "store"}
    BY DEF LintStep, LintReads, LintEnds, StoreLint
  <2>2. QED
    BY <2>1, CurrentFacts DEF LintInv
<1>4. PICK to \in {"run", "store", "done"} : lint' = [lint EXCEPT ![b] = to]
  BY DEF LintStep, LintReads, LintEnds, StoreLint
<1>5. /\ lintVer' = IF to = "run" THEN [lintVer EXCEPT ![b] = src] ELSE lintVer
      /\ to # "run" => lintVer[b] \in 1..src
  BY <1>3, <1>4, CurrentFacts DEF LintStep, LintReads, LintEnds, StoreLint, LintInv
<1>6. b # counter => ~Superseded(counter)
  BY <1>3, NobodyElse
<1>7. src \in 1..src
  BY CurrentFacts DEF Versions
<1>8. LintInv'
  BY <1>1, <1>3, <1>4, <1>5, <1>7, CurrentFacts DEF LintInv
<1>9. CompileInv'
  BY <1>1, <1>5, <1>7, CurrentFacts DEF CompileInv
<1>10. Superseded(counter)' <=> Superseded(counter)
  BY <1>1 DEF Superseded
<1>11. SeenInv'
  BY <1>1, <1>2, <1>5, CurrentFacts DEF SeenInv
<1>12. ~outrun' =>
       /\ lint'[counter] = "store" \/ LintReported' => Superseded(counter)
       /\ LintReported' => (errLint' <=> quality[lintVer[counter]] # "good")
  <2> SUFFICES ASSUME ~outrun'
               PROVE  /\ lint'[counter] = "store" \/ LintReported' => Superseded(counter)
                      /\ LintReported' => (errLint' <=> quality[lintVer[counter]] # "good")
    OBVIOUS
  <2>1. CASE b # counter
    BY <1>1, <1>2, <1>3, <1>4, <1>6, <2>1, CurrentFacts DEF LintReported, ReportInv
  <2>2. CASE b = counter
    <3>1. CASE LintReads(b)
      BY <1>1, <2>2, <3>1, CurrentFacts DEF LintReads, LintReported
    <3>2. CASE LintEnds(b)
      <4>1. Superseded(counter)
        BY <2>2, <3>2 DEF LintEnds, Outruns, Superseded
      <4>2. lint'[counter] = "done" => parentDone
        BY <2>2, <3>2, CurrentFacts DEF LintEnds, CtxDone
      <4>3. QED
        BY <1>1, <4>1, <4>2 DEF LintReported
    <3>3. CASE StoreLint(b)
      BY <1>2, <1>3, <2>2, <3>3 DEF StoreLint, ToolFails, ReportInv
    <3>4. QED
      BY <3>1, <3>2, <3>3 DEF LintStep
  <2>3. QED
    BY <2>1, <2>2
<1>13. ReportInv'
  <2>1. LintReported' => lintVer'[counter] = lintVer[counter]
    BY <1>1, <1>4, <1>5, CurrentFacts DEF LintReported
  <2>2. QED
    BY <1>1, <1>2, <1>3, <1>10, <1>12, <2>1 DEF ReportInv, GoReported
<1>14. UndisturbedInv'
  BY <1>1 DEF UndisturbedInv
<1>15. SentInv'
  <2>1. CASE b # counter
    BY <1>1, <1>2, <1>6, <2>1 DEF SentInv, ReportInv, GoReported
  <2>2. CASE b = counter
    BY <1>1, <1>2, <1>3, <2>2 DEF SentInv
  <2>3. QED
    BY <2>1, <2>2
<1>16. QED
  BY <1>8, <1>9, <1>11, <1>13, <1>14, <1>15

-----------------------------------------------------------------------------
(* The runner and the environment. *)

LEMMA StartKeepsCurrent ==
  ASSUME Runner!RunnerInv, PipelineInv, CurrentInv, StartBuild
  PROVE  CurrentInv'
<1> USE DEF CurrentInv, PipelineInv, StartBuild
<1>1. counter' = counter + 1 /\ counter' \in Builds /\ counter' > counter
  BY CounterIsBuild DEF Builds, Runner!Go
<1>2. pc[counter'] = "none" /\ pc' = [pc EXCEPT ![counter'] = "begin"]
  BY <1>1, CurrentFacts
<1>3. UNCHANGED <<confLint, src, quality, go, goVer, binary, lint, lintVer, errTempl, errLint,
                  errGo, errExit, errWatcher, parentDone>>
  BY DEF Runner!Go, goVars, lintVars, errVars
<1>4. go[counter'] = "none" /\ counter' \notin binary
  BY <1>1, <1>2 DEF ProgressInv, CompileInv
<1>5. lint[counter'] = "none" /\ lintVer[counter'] = NoVersion
  BY <1>1, <1>4 DEF LintInv
<1>6. goVer[counter'] = NoVersion
  BY <1>1, <1>4 DEF ProgressInv
<1>7. LintInv'
  BY <1>1, <1>2, <1>3, <1>5, CurrentFacts DEF LintInv
<1>8. CompileInv'
  BY <1>1, <1>2, <1>3, <1>5, CurrentFacts DEF CompileInv
<1>9. pc'[counter'] = "begin" /\ go'[counter'] = "none" /\ lint'[counter'] = "none"
  BY <1>1, <1>2, <1>3, <1>4, <1>5, CurrentFacts
<1>10. ReportInv' /\ SentInv'
  BY <1>3, <1>9 DEF ReportInv, SentInv, GoReported, LintReported
<1>11. SeenInv'
  BY <1>3, <1>5, <1>6 DEF SeenInv
<1>12. UndisturbedInv'
  BY <1>3, <1>4, <1>9 DEF UndisturbedInv, ResultTypes
<1>13. QED
  BY <1>7, <1>8, <1>10, <1>11, <1>12

LEMMA QuietStepKeepsCurrent ==
  ASSUME PipelineInv, CurrentInv, \/ \E b \in Runs : CleanupBuild(b)
                               \/ TakeBinary \/ OtherErrorChanges \/ CancelContext
                               \/ UNCHANGED vars
  PROVE  CurrentInv'
<1> USE DEF CurrentInv
<1>1. UNCHANGED <<srcVars, counter, pc, goVars, lintVars, errLint, errGo, outrun>>
  BY DEF TakeBinary, OtherErrorChanges, CancelContext, CleanupBuild, Runner!Cleanup,
     Runner!CancelParent, vars, runnerVars, errVars, history
<1>2. parentDone' = parentDone \/ parentDone' = TRUE
  BY DEF TakeBinary, OtherErrorChanges, CancelContext, CleanupBuild, Runner!Cleanup,
     Runner!CancelParent, vars, runnerVars
<1>3. LintInv' /\ CompileInv' /\ SeenInv'
  BY <1>1 DEF LintInv, CompileInv, SeenInv, srcVars, goVars, lintVars
<1>4. (GoReported' => GoReported) /\ (LintReported' => LintReported)
  BY <1>1, <1>2 DEF GoReported, LintReported, goVars, lintVars, srcVars
<1>5. Superseded(counter)' <=> Superseded(counter)
  BY <1>1 DEF Superseded
<1>6. ReportInv'
  BY <1>1, <1>4, <1>5 DEF ReportInv, srcVars, goVars, lintVars
<1>7. UndisturbedInv' /\ SentInv'
  <2>1. CASE OtherErrorChanges
    BY <2>1 DEF OtherErrorChanges, UndisturbedInv, SentInv
  <2>2. CASE TakeBinary
    BY <1>1, <1>4, <2>2 DEF TakeBinary, UndisturbedInv, SentInv, errVars, goVars, NoError, history,
       GoReported, runnerVars, CompileInv
  <2>3. CASE UNCHANGED <<errVars, outVars, disturbed>>
    BY <1>1, <1>4, <2>3 DEF UndisturbedInv, SentInv, errVars, outVars, goVars, NoError
  <2>4. QED
    BY <2>1, <2>2, <2>3 DEF CancelContext, CleanupBuild, vars, history
<1>8. QED
  BY <1>3, <1>6, <1>7

LEMMA EditKeepsCurrent ==
  ASSUME Runner!RunnerInv, PipelineInv, CurrentInv, NEW q \in Qualities, Edit(q)
  PROVE  CurrentInv'
<1> USE DEF CurrentInv, PipelineInv
<1>1. UNCHANGED <<confLint, counter, parentDone, pc, go, goVer, binary, lint, lintVer, errTempl,
                  errLint, errGo, errExit, errWatcher, chRunNewServer, served, disturbed>>
  BY DEF Edit, runnerVars, goVars, lintVars, errVars, outVars
<1>2. ~outrun' => ~outrun /\ pending'
  BY DEF Edit
<1>3. src' = src + 1 /\ 1..src \subseteq 1..src'
  BY CurrentFacts DEF Edit, Versions
<1>4. \A v \in 1..src : quality'[v] = quality[v]
  BY CurrentFacts DEF Edit, Versions
<1>5. LintInv'
  BY <1>1, <1>3 DEF LintInv
<1>6. CompileInv' /\ SeenInv'
  BY <1>1, <1>2, <1>3 DEF CompileInv, SeenInv
<1>7. ReportInv'
  <2>1. GoReported => goVer[counter] \in 1..src
    BY CurrentFacts DEF CompileInv, GoReported
  <2>2. LintReported => lintVer[counter] \in 1..src
    BY CurrentFacts DEF LintInv, LintReported
  <2>3. Superseded(counter)' <=> Superseded(counter)
    BY <1>1 DEF Superseded
  <2>4. QED
    BY <1>1, <1>2, <1>4, <2>1, <2>2, <2>3 DEF ReportInv, GoReported, LintReported, LintReported
<1>8. UndisturbedInv' /\ SentInv'
  BY <1>1, <1>2 DEF UndisturbedInv, SentInv, GoReported, NoError
<1>9. QED
  BY <1>5, <1>6, <1>7, <1>8

LEMMA InitIsCurrent ==
  ASSUME Init PROVE CurrentInv
<1> USE DEF Init, Runner!Init, Runner!NoRun
<1>1. counter \in Builds /\ counter = Initial
  BY DEF Builds, Initial
<1>2. \A b \in Builds : go[b] = "none" /\ lint[b] = "none" /\ lintVer[b] = NoVersion
  OBVIOUS
<1>3. pc[counter] = "begin" /\ \A b \in Builds : pc[b] # "join"
  BY <1>1
<1>4. LintInv /\ CompileInv /\ SeenInv
  BY <1>1, <1>2, <1>3 DEF LintInv, CompileInv, SeenInv
<1>5. ReportInv /\ UndisturbedInv /\ SentInv
  BY <1>1, <1>2, <1>3 DEF ReportInv, UndisturbedInv, SentInv, GoReported, LintReported
<1>6. QED
  BY <1>4, <1>5 DEF CurrentInv

(***************************************************************************)
(* The reports that stand are those of the newest build unless it was      *)
(* outrun.                                                                 *)
(***************************************************************************)
THEOREM CurrentInvariance == Spec => []CurrentInv
<1>1. Runner!RunnerInv /\ PipelineInv /\ CurrentInv /\ [Next]_vars => CurrentInv'
  <2> SUFFICES ASSUME Runner!RunnerInv, PipelineInv, CurrentInv, [Next]_vars PROVE CurrentInv'
    OBVIOUS
  <2>1. ASSUME NEW b \in Builds, TaskStep(b) \/ GoStep(b) \/ LintStep(b) PROVE CurrentInv'
    BY <2>1, TaskKeepsCurrent, GoKeepsCurrent, LintKeepsCurrent
  <2>2. ASSUME NEW q \in Qualities, Edit(q) PROVE CurrentInv'
    BY <2>2, EditKeepsCurrent
  <2>3. QED
    BY <2>1, <2>2, StartKeepsCurrent, QuietStepKeepsCurrent DEF Next
<1>2. Init => CurrentInv
  BY InitIsCurrent
<1>3. QED
  BY <1>1, <1>2, PipelineInvariance, OneUncancelledBuild, PTL DEF Spec

\* A settled pipeline has the reports of its newest build.
LEMMA SettledReports ==
  ASSUME Runner!RunnerInv, PipelineInv, CurrentInv, Settled, ~outrun,
         go[counter] # "none"
  PROVE  /\ GoReported /\ pc[counter] = "end"
         /\ goVer[counter] \in 1..src
         /\ confLint => LintReported /\ lintVer[counter] = src
<1> USE DEF CurrentInv, PipelineInv, Settled
<1>1. pc[counter] = "end"
  BY CurrentFacts DEF CompileInv
<1>2. go[counter] = "done" /\ GoReported
  BY <1>1, CurrentFacts DEF ProgressInv, GoReported, CmdPcs
<1>3. goVer[counter] \in 1..src
  BY <1>2, CurrentFacts DEF CompileInv
<1>4. ASSUME confLint PROVE LintReported /\ lintVer[counter] = src
  <2>1. lint[counter] = "done"
    BY <1>1, <1>2, <1>4, CurrentFacts DEF LintInv, CmdPcs
  <2>2. lintVer[counter] \in 1..src
    BY <1>4, <2>1, CurrentFacts DEF LintInv
  <2>3. QED
    BY <1>4, <2>1, <2>2 DEF LintReported, SeenInv, NoVersion
<1>5. QED
  BY <1>1, <1>2, <1>3, <1>4

(***************************************************************************)
(* In all schedules the errors of the compiler and the linter are those of *)
(* the newest source once builds have settled and it was compiled, unless  *)
(* the newest build was outrun.                                            *)
(***************************************************************************)
THEOREM ErrorsCurrent == Spec => []ErrorsAreCurrentUnlessOutrun
<1>1. Runner!RunnerInv /\ PipelineInv /\ CurrentInv => ErrorsAreCurrentUnlessOutrun
  <2> SUFFICES ASSUME Runner!RunnerInv, PipelineInv, CurrentInv, ~outrun, Settled,
                      goVer[counter] = src
               PROVE  /\ errGo <=> quality[src] = "broken"
                      /\ confLint => (errLint <=> quality[src] # "good")
    BY DEF ErrorsAreCurrentUnlessOutrun, ErrorsAreCurrent
  <2>1. go[counter] # "none"
    BY CurrentFacts DEF PipelineInv, ProgressInv, Versions, NoVersion
  <2>2. QED
    BY <2>1, SettledReports DEF CurrentInv, ReportInv
<1>2. QED
  BY <1>1, CurrentInvariance, PipelineInvariance, OneUncancelledBuild, PTL

(***************************************************************************)
(* In all schedules the server runs the newest source once builds have     *)
(* settled without an error, unless the newest build was outrun or another *)
(* error got in its way.                                                   *)
(***************************************************************************)
THEOREM ServedCurrent == Spec => []ServedIsCurrentUnlessOutrun
<1>1. Runner!RunnerInv /\ PipelineInv /\ CurrentInv => ServedIsCurrentUnlessOutrun
  <2> SUFFICES ASSUME Runner!RunnerInv, PipelineInv, CurrentInv, ~outrun, Settled,
                      NoError, ~disturbed
               PROVE  served = src
    BY DEF ServedIsCurrentUnlessOutrun, ServedIsCurrent
  <2>1. pc[counter] = "end"
    BY CurrentFacts DEF CurrentInv, CompileInv, Settled
  <2>2. go[counter] # "none"
    BY <2>1 DEF CurrentInv, UndisturbedInv
  <2>3. GoReported /\ goVer[counter] \in 1..src
    BY <2>2, SettledReports
  <2>4. goVer[counter] = src
    BY <2>3 DEF CurrentInv, SeenInv, Settled, NoVersion
  <2>5. QED
    BY <2>1, <2>3, <2>4 DEF CurrentInv, SentInv, Settled, NoVersion
<1>2. QED
  BY <1>1, CurrentInvariance, PipelineInvariance, OneUncancelledBuild, PTL
=============================================================================
