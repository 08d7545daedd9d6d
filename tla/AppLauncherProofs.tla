------------------------- MODULE AppLauncherProofs -------------------------
(***************************************************************************)
(* Proofs about AppLauncher for every number of requests and binaries and  *)
(* for all schedules of overlapping tasks: first what holds in all of      *)
(* them, then what holds until a task is overtaken in a certain window.    *)
(***************************************************************************)
EXTENDS AppLauncher, TLAPS

RunnerFacts == INSTANCE CtxRunProofs

USE LauncherAssumption

-----------------------------------------------------------------------------
(* Type correctness, one group of variables at a time. *)

\* The runner's variables change by the runner's own actions only.
LEMMA StepsOfTheRunner ==
  ASSUME [Next]_vars
  PROVE  [Runner!Next]_(Runner!runnerVars)
<1>1. ASSUME NEW a \in Actors, StopStep(a) PROVE UNCHANGED runnerVars
  BY <1>1 DEF StopStep, StopServer, Signal, AwaitTimeout, Kill
<1>2. ASSUME NEW r \in Runs, TaskStep(r)
      PROVE  UNCHANGED runnerVars \/ Runner!Return(r) \/ Runner!Cleanup(r)
  BY <1>2 DEF TaskStep, ReadPrevious, WriteLatest, Activate, CheckErrors,
     CheckContext, Prepare, Start, Register, HealthStep, HealthOK, HealthExited,
     HealthAbandoned, Broadcast, Deactivate, RemovePrevious, CleanupTask
<1>3. ASSUME NEW r \in Runs, Reap(r) PROVE UNCHANGED runnerVars
  BY <1>3 DEF Reap
<1>4. LoopStep => UNCHANGED runnerVars \/ Runner!Go
  BY DEF LoopStep, TakeRerun, TakeNewServer, TakeDone
<1>5. EnvStep => UNCHANGED runnerVars \/ Runner!CancelParent
  BY DEF EnvStep, BuildSucceeds, OtherErrorChanges, RequestRerun, CancelContext, Exit
<1>6. UNCHANGED vars => UNCHANGED runnerVars
  BY DEF vars
<1>7. QED
  BY <1>1, <1>2, <1>3, <1>4, <1>5, <1>6 DEF Next, Runner!Next, Runs, Runner!Runs, runnerVars,
     Runner!runnerVars

\* The variables of the ctxrun.Runner keep their types.
LEMMA RunnerTypes ==
  ASSUME Runner!TypeOK, [Next]_vars
  PROVE  Runner!TypeOK'
<1> USE DEF Runner!TypeOK, Runner!Runs, Runner!Phases, Runner!NoRun
<1>1. [Runner!Next]_(Runner!runnerVars)
  BY StepsOfTheRunner
<1>2. CASE UNCHANGED Runner!runnerVars
  BY <1>2 DEF Runner!runnerVars
<1>3. CASE Runner!Go
  BY <1>3 DEF Runner!Go
<1>4. CASE Runner!CancelParent
  BY <1>4 DEF Runner!CancelParent
<1>5. ASSUME NEW r \in Runner!Runs, Runner!Return(r) \/ Runner!Cleanup(r)
       PROVE  Runner!TypeOK'
  <2>1. counter' \in 0..MaxRuns /\ cancelled' \subseteq Runner!Runs
    BY <1>5 DEF Runner!Return, Runner!Cleanup
  <2>2. cancel' \in 0..MaxRuns
    BY <1>5 DEF Runner!Return, Runner!Cleanup
  <2>3. phase' \in [Runner!Runs -> Runner!Phases]
    BY <1>5 DEF Runner!Return, Runner!Cleanup
  <2>4. parentDone' \in BOOLEAN
    BY <1>5 DEF Runner!Return, Runner!Cleanup
  <2>5. QED
    BY <2>1, <2>2, <2>3, <2>4
<1>6. QED
  BY <1>1, <1>2, <1>3, <1>4, <1>5 DEF Runner!Next

\* The rerunActive flag and the shutdown and health fields keep their types.
LEMMA FlagTypes ==
  ASSUME TypeOK, [Next]_vars
  PROVE  TypeOfFlags'
<1> USE DEF TypeOK, TypeOfFlags
<1>1. ASSUME NEW a \in Actors, StopStep(a) PROVE TypeOfFlags'
  BY <1>1 DEF StopStep, StopServer, Signal, AwaitTimeout, Kill, sharedVars, buildVars
<1>2. ASSUME NEW r \in Runs, TaskStep(r)
      PROVE  TypeOfFlags'
  BY <1>2 DEF TaskStep, ReadPrevious, WriteLatest, Activate, CheckErrors,
     CheckContext, Prepare, Start, Register, HealthStep, HealthOK, HealthExited,
     HealthAbandoned, Broadcast, Deactivate, RemovePrevious, CleanupTask, sharedVars, buildVars
<1>3. ASSUME NEW r \in Runs, Reap(r) PROVE TypeOfFlags'
  BY <1>3 DEF Reap, buildVars
<1>4. CASE LoopStep
  BY <1>4 DEF LoopStep, TakeRerun, TakeNewServer, TakeDone, sharedVars, buildVars
<1>5. CASE EnvStep
  BY <1>5 DEF EnvStep, BuildSucceeds, OtherErrorChanges, RequestRerun, CancelContext, Exit, sharedVars, buildVars
<1>6. CASE UNCHANGED vars
  BY <1>6 DEF vars, sharedVars, buildVars
<1>7. QED
  BY <1>1, <1>2, <1>3, <1>4, <1>5, <1>6 DEF Next

\* The stages of the run loop and of the tasks keep their types.
LEMMA ActorTypes ==
  ASSUME TypeOK, [Next]_vars
  PROVE  TypeOfActors'
<1> USE DEF TypeOK, TypeOfActors, MainPcs, RunPcs, BodyPcs, Actors, Runs, Main, Goto
<1>1. ASSUME NEW a \in Actors, StopStep(a) PROVE TypeOfActors'
  BY <1>1 DEF StopStep, StopServer, Signal, AwaitTimeout, Kill, AwaitPc, AfterStop
<1>2. ASSUME NEW r \in Runs, TaskStep(r) PROVE TypeOfActors'
  <2>1. \E to \in RunPcs : Goto(r, pc[r], to) \/ pc' = pc
    <3>1. CASE ReadPrevious(r) \/ WriteLatest(r) \/ Activate(r)
      BY <3>1 DEF ReadPrevious, WriteLatest, Activate
    <3>2. CASE CheckErrors(r) \/ CheckContext(r)
      BY <3>2 DEF CheckErrors, CheckContext
    <3>3. CASE Prepare(r) \/ Start(r) \/ Register(r)
      BY <3>3 DEF Prepare, Start, Register
    <3>4. CASE HealthStep(r) \/ Broadcast(r)
      BY <3>4 DEF HealthStep, HealthOK, HealthExited, HealthAbandoned, Broadcast
    <3>5. CASE Deactivate(r) \/ RemovePrevious(r) \/ CleanupTask(r)
      BY <3>5 DEF Deactivate, RemovePrevious, CleanupTask
    <3>6. QED
      BY <1>2, <3>1, <3>2, <3>3, <3>4, <3>5 DEF TaskStep
  <2>2. QED
    BY <2>1
<1>3. ASSUME NEW r \in Runs, Reap(r) PROVE TypeOfActors'
  BY <1>3 DEF Reap, AfterStop
<1>4. CASE LoopStep
  <2>1. CASE TakeDone
    BY <2>1 DEF TakeDone
  <2>2. CASE TakeRerun \/ TakeNewServer
    <3>1. counter' \in Runs
      BY <2>2 DEF TakeRerun, TakeNewServer, Runner!Go, Runner!TypeOK
    <3>2. QED
      BY <2>2, <3>1 DEF TakeRerun, TakeNewServer
  <2>3. QED
    BY <1>4, <2>1, <2>2 DEF LoopStep
<1>5. CASE EnvStep
  BY <1>5 DEF EnvStep, BuildSucceeds, OtherErrorChanges, RequestRerun, CancelContext, Exit
<1>6. CASE UNCHANGED vars
  BY <1>6 DEF vars
<1>7. QED
  BY <1>1, <1>2, <1>3, <1>4, <1>5, <1>6 DEF Next

\* The binary paths, the two channels and the files on disk keep their types.
LEMMA BinaryTypes ==
  ASSUME TypeOK, [Next]_vars
  PROVE  TypeOfBinaries'
<1> USE DEF TypeOK, TypeOfBinaries, Bins, Runs, NoBin, sharedVars, buildVars, taskVars, procVars
<1>1. ASSUME NEW a \in Actors, StopStep(a) PROVE TypeOfBinaries'
  BY <1>1 DEF StopStep, StopServer, Signal, AwaitTimeout, Kill, AwaitPc, AfterStop
<1>2. ASSUME NEW r \in Runs, TaskStep(r) PROVE TypeOfBinaries'
  BY <1>2 DEF TaskStep, ReadPrevious, WriteLatest, Activate, CheckErrors,
     CheckContext, Prepare, Start, Register, HealthStep, HealthOK, HealthExited,
     HealthAbandoned, Broadcast, Deactivate, RemovePrevious, CleanupTask
<1>3. ASSUME NEW r \in Runs, Reap(r) PROVE TypeOfBinaries'
  BY <1>3 DEF Reap, AfterStop
<1>4. CASE LoopStep
  <2>1. CASE TakeDone
    BY <2>1 DEF TakeDone
  <2>2. CASE TakeRerun
    BY <2>2 DEF TakeRerun
  <2>3. CASE TakeNewServer
    <3>1. bin' \in [Runs -> 0..MaxBins]
      BY <2>3 DEF TakeNewServer
    <3>2. chRunNewServer' \in 0..MaxBins
      BY <2>3 DEF TakeNewServer
    <3>3. QED
      BY <2>3, <3>1, <3>2 DEF TakeNewServer
  <2>4. QED
    BY <1>4, <2>1, <2>2, <2>3 DEF LoopStep
<1>5. CASE EnvStep
  <2>1. CASE BuildSucceeds
    <3>1. built' \in 1..MaxBins /\ built' \in 0..MaxBins
      BY <2>1 DEF BuildSucceeds
    <3>2. files' \subseteq Bins
      BY <2>1, <3>1 DEF BuildSucceeds
    <3>3. chRunNewServer' \in 0..MaxBins
      BY <2>1, <3>1 DEF BuildSucceeds
    <3>4. QED
      BY <2>1, <3>1, <3>2, <3>3 DEF BuildSucceeds
  <2>2. CASE OtherErrorChanges \/ RequestRerun \/ CancelContext \/ \E p \in Runs : Exit(p)
    BY <2>2 DEF OtherErrorChanges, RequestRerun, CancelContext, Exit
  <2>3. QED
    BY <1>5, <2>1, <2>2 DEF EnvStep
<1>6. CASE UNCHANGED vars
  BY <1>6 DEF vars
<1>7. QED
  BY <1>1, <1>2, <1>3, <1>4, <1>5, <1>6 DEF Next

\* The records of the server processes keep their types.
LEMMA ProcessTypes ==
  ASSUME TypeOK, [Next]_vars
  PROVE  TypeOfProcesses'
<1> USE DEF TypeOK, TypeOfProcesses, ProcStates, Runs, NoRun, sharedVars, buildVars, taskVars, procVars, HasProcess
<1>1. ASSUME NEW a \in Actors, StopStep(a) PROVE TypeOfProcesses'
  BY <1>1 DEF StopStep, StopServer, Signal, AwaitTimeout, Kill, AwaitPc, AfterStop
<1>2. ASSUME NEW r \in Runs, TaskStep(r) PROVE TypeOfProcesses'
  <2>1. CASE Prepare(r)
    BY <2>1 DEF Prepare
  <2>2. CASE Start(r)
    BY <2>2 DEF Start
  <2>3. CASE Register(r)
    BY <2>3 DEF Register
  <2>4. UNCHANGED <<latestSrvCmd, waitExit, exitCode, proc, asked>>
        \/ Prepare(r) \/ Start(r) \/ Register(r)
    BY <1>2 DEF TaskStep, ReadPrevious, WriteLatest, Activate, CheckErrors,
       CheckContext, HealthStep, HealthOK, HealthExited,
       HealthAbandoned, Broadcast, Deactivate, RemovePrevious, CleanupTask
  <2>5. QED
    BY <2>1, <2>2, <2>3, <2>4
<1>3. ASSUME NEW r \in Runs, Reap(r) PROVE TypeOfProcesses'
  BY <1>3 DEF Reap, AfterStop
<1>4. CASE LoopStep
  BY <1>4 DEF LoopStep, TakeRerun, TakeNewServer, TakeDone, Runner!Go
<1>5. CASE EnvStep
  BY <1>5 DEF EnvStep, BuildSucceeds, OtherErrorChanges, RequestRerun, CancelContext, Exit
<1>6. CASE UNCHANGED vars
  BY <1>6 DEF vars
<1>7. QED
  BY <1>1, <1>2, <1>3, <1>4, <1>5, <1>6 DEF Next

\* The loop adds windows to the history, nobody else touches it.
LEMMA OvertakenGrows ==
  ASSUME [Next]_vars
  PROVE  \/ UNCHANGED overtaken
         \/ LoopStep /\ overtaken' = overtaken \cup
                            {w \in Windows : \E r \in Runs : pc[r] \in Window[w]}
<1>1. ASSUME NEW a \in Actors, StopStep(a) PROVE UNCHANGED overtaken
  BY <1>1 DEF StopStep, StopServer, Signal, AwaitTimeout, Kill
<1>2. ASSUME NEW r \in Runs, TaskStep(r) PROVE UNCHANGED overtaken
  BY <1>2 DEF TaskStep, ReadPrevious, WriteLatest, Activate, CheckErrors,
     CheckContext, Prepare, Start, Register, HealthStep, HealthOK, HealthExited,
     HealthAbandoned, Broadcast, Deactivate, RemovePrevious, CleanupTask
<1>3. ASSUME NEW r \in Runs, Reap(r) PROVE UNCHANGED overtaken
  BY <1>3 DEF Reap
<1>4. ASSUME LoopStep
      PROVE  overtaken' = overtaken \cup {w \in Windows : \E r \in Runs : pc[r] \in Window[w]}
  BY <1>4 DEF LoopStep, TakeRerun, TakeNewServer, TakeDone, TakeEvent
<1>5. EnvStep => UNCHANGED overtaken
  BY DEF EnvStep, BuildSucceeds, OtherErrorChanges, RequestRerun, CancelContext, Exit
<1>6. UNCHANGED vars => UNCHANGED overtaken
  BY DEF vars
<1>7. QED
  BY <1>1, <1>2, <1>3, <1>4, <1>5, <1>6 DEF Next

(***************************************************************************)
(* Every variable keeps its type, whatever the tasks and the environment   *)
(* do.                                                                     *)
(***************************************************************************)
THEOREM TypeCorrect == Spec => []TypeOK
<1>1. Init => TypeOK
  <2> SUFFICES ASSUME Init PROVE TypeOK
    OBVIOUS
  <2> USE DEF Init
  <2>1. Runner!TypeOK
    <3>1. counter \in 0..MaxRuns /\ cancel \in 0..MaxRuns
      BY DEF Runner!Init, Runner!NoRun
    <3>2. phase \in [Runner!Runs -> Runner!Phases]
      BY DEF Runner!Init, Runner!Phases
    <3>3. cancelled \subseteq Runner!Runs /\ parentDone \in BOOLEAN
      BY DEF Runner!Init
    <3>4. QED
      BY <3>1, <3>2, <3>3 DEF Runner!TypeOK
  <2>2. TypeOfFlags
    BY DEF TypeOfFlags
  <2>3. TypeOfActors
    <3>1. pc \in [Actors -> MainPcs \cup RunPcs]
      BY DEF MainPcs, RunPcs
    <3>2. pc[Main] \in MainPcs
      BY DEF MainPcs, Actors, Main
    <3>3. \A r \in Runs : pc[r] \in RunPcs
      BY DEF RunPcs, Actors, Runs, Main
    <3>4. QED
      BY <3>1, <3>2, <3>3 DEF TypeOfActors
  <2>4. TypeOfBinaries
    BY DEF TypeOfBinaries, NoBin, Bins
  <2>5. TypeOfProcesses
    BY DEF TypeOfProcesses, ProcStates, NoRun
  <2>6. overtaken \subseteq Windows
    OBVIOUS
  <2>7. QED
    BY <2>1, <2>2, <2>3, <2>4, <2>5, <2>6 DEF TypeOK
<1>2. TypeOK /\ [Next]_vars => TypeOK'
  BY RunnerTypes, FlagTypes, ActorTypes, BinaryTypes, ProcessTypes, OvertakenGrows DEF TypeOK
<1>3. QED
  BY <1>1, <1>2, PTL DEF Spec

-----------------------------------------------------------------------------
(***************************************************************************)
(* The executable at latestBinaryPath is never removed.  The argument is   *)
(* about three sets of binaries that stay apart: those not written to      *)
(* latestBinaryPath yet, the one written last, and those some task         *)
(* remembers as previous and removes.  A path is written once, so it never *)
(* returns from the third set.                                             *)
(***************************************************************************)
binaryVars == <<built, files, chRunNewServer, latestBinaryPath, bin, prev>>

\* A step that leaves the binaries alone and takes no task past one of the
\* stages "none", "read or write", "later" keeps the invariant.
LEMMA OtherStepsKeepBinaries ==
  ASSUME BinaryInv, TypeOK, UNCHANGED <<binaryVars, counter>>,
         \A r \in Runs : Unwritten(r)' <=> Unwritten(r),
         \A r \in Runs : pc'[r] = "none" <=> pc[r] = "none"
  PROVE  BinaryInv'
<1> USE DEF BinaryInv, binaryVars
<1>1. LatestBinaryExists'
  BY DEF LatestBinaryExists
<1>2. BinariesBuilt'
  BY DEF BinariesBuilt
<1>3. TasksInOrder'
  BY DEF TasksInOrder
<1>4. ChannelFresh'
  BY DEF ChannelFresh
<1>5. UnwrittenFresh'
  BY DEF UnwrittenFresh
<1>6. PreviousRetired'
  BY DEF PreviousRetired
<1>7. QED
  BY <1>1, <1>2, <1>3, <1>4, <1>5, <1>6

\* A step of a task keeps the invariant: it reads the path before it, writes
\* its own, and the one it removes later is never the one written last.
LEMMA TaskKeepsBinaries ==
  ASSUME BinaryInv, TypeOK, NEW r \in Runs, TaskStep(r)
  PROVE  BinaryInv'
<1> USE DEF BinaryInv, Goto, Unwritten
<1>0. Runs \subseteq Actors /\ pc \in [Actors -> MainPcs \cup RunPcs]
  BY DEF Runs, Actors, TypeOK, TypeOfActors
<1>p. /\ prev \in [Runs -> 0..MaxBins] /\ bin \in [Runs -> 0..MaxBins]
      /\ built \in Nat /\ latestBinaryPath \in Nat /\ chRunNewServer \in Nat
  BY DEF TypeOK, TypeOfBinaries
<1>1. CASE ReadPrevious(r)
  <2> USE <1>0, <1>p, <1>1 DEF ReadPrevious, buildVars, sharedVars, runnerVars
  <2>1. LatestBinaryExists'
    BY DEF LatestBinaryExists
  <2>2. BinariesBuilt'
    BY DEF BinariesBuilt
  <2>3. TasksInOrder'
    BY DEF TasksInOrder
  <2>4. ChannelFresh'
    BY DEF ChannelFresh
  <2>5. UnwrittenFresh'
    BY DEF UnwrittenFresh
  <2>6. PreviousRetired'
    BY DEF PreviousRetired
  <2>7. QED
    BY <2>1, <2>2, <2>3, <2>4, <2>5, <2>6
<1>2. CASE WriteLatest(r)
  <2> USE <1>0, <1>p, <1>2 DEF WriteLatest, buildVars, taskVars, runnerVars
  <2>1. LatestBinaryExists'
    BY DEF LatestBinaryExists, UnwrittenFresh
  <2>2. BinariesBuilt'
    BY DEF BinariesBuilt
  <2>3. TasksInOrder'
    BY DEF TasksInOrder
  <2>4. ChannelFresh'
    BY DEF ChannelFresh
  <2>5. UnwrittenFresh'
    BY DEF UnwrittenFresh
  <2>6. PreviousRetired'
    BY DEF PreviousRetired, UnwrittenFresh
  <2>7. QED
    BY <2>1, <2>2, <2>3, <2>4, <2>5, <2>6
<1>3. CASE RemovePrevious(r)
  <2> USE <1>0, <1>p, <1>3 DEF RemovePrevious, taskVars, sharedVars, Runner!Return
  <2>1. LatestBinaryExists'
    BY DEF LatestBinaryExists, PreviousRetired, NoBin
  <2>2. BinariesBuilt'
    BY DEF BinariesBuilt
  <2>3. TasksInOrder'
    BY DEF TasksInOrder
  <2>4. ChannelFresh'
    BY DEF ChannelFresh
  <2>5. UnwrittenFresh'
    BY DEF UnwrittenFresh
  <2>6. PreviousRetired'
    BY DEF PreviousRetired
  <2>7. QED
    BY <2>1, <2>2, <2>3, <2>4, <2>5, <2>6
<1>4. CASE ~(ReadPrevious(r) \/ WriteLatest(r) \/ RemovePrevious(r))
  <2>1. CASE Activate(r) \/ CheckErrors(r) \/ CheckContext(r)
    BY <1>0, <2>1, OtherStepsKeepBinaries
    DEF Activate, CheckErrors, CheckContext, binaryVars, buildVars, taskVars, sharedVars, runnerVars
  <2>2. CASE Prepare(r) \/ Start(r) \/ Register(r)
    BY <1>0, <2>2, OtherStepsKeepBinaries
    DEF Prepare, Start, Register, binaryVars, buildVars, taskVars, sharedVars, runnerVars
  <2>3. CASE HealthStep(r) \/ Broadcast(r)
    BY <1>0, <2>3, OtherStepsKeepBinaries
    DEF HealthStep, HealthOK, HealthExited, HealthAbandoned, Broadcast,
        binaryVars, buildVars, taskVars, sharedVars, runnerVars
  <2>4. CASE Deactivate(r) \/ CleanupTask(r)
    BY <1>0, <2>4, OtherStepsKeepBinaries
    DEF Deactivate, CleanupTask, Runner!Return, Runner!Cleanup,
        binaryVars, buildVars, taskVars, sharedVars, runnerVars
  <2>5. QED
    BY <1>4, <2>1, <2>2, <2>3, <2>4 DEF TaskStep
<1>5. QED
  BY <1>1, <1>2, <1>3, <1>4

\* Stopping a server and waiting for its exit touch no binary.
LEMMA StoppingKeepsBinaries ==
  ASSUME BinaryInv, TypeOK,
         (\E a \in Actors : StopStep(a)) \/ (\E p \in Runs : Reap(p))
  PROVE  BinaryInv'
<1> USE DEF Goto, Unwritten, AwaitPc, AfterStop
<1>0. Runs \subseteq Actors /\ pc \in [Actors -> MainPcs \cup RunPcs]
  BY DEF Runs, Actors, TypeOK, TypeOfActors
<1>1. ASSUME NEW a \in Actors, StopStep(a) PROVE BinaryInv'
  <2>1. UNCHANGED <<binaryVars, counter>>
    BY <1>1 DEF StopStep, StopServer, Signal, AwaitTimeout, Kill,
       binaryVars, buildVars, taskVars, sharedVars, runnerVars
  <2>2. \A r \in Runs : (Unwritten(r)' <=> Unwritten(r)) /\ (pc'[r] = "none" <=> pc[r] = "none")
    BY <1>0, <1>1 DEF StopStep, StopServer, Signal, AwaitTimeout, Kill
  <2>3. QED
    BY <2>1, <2>2, OtherStepsKeepBinaries
<1>2. ASSUME NEW p \in Runs, Reap(p) PROVE BinaryInv'
  <2>1. UNCHANGED <<binaryVars, counter>>
    BY <1>2 DEF Reap, binaryVars, buildVars, taskVars, runnerVars
  <2>2. \A r \in Runs : (Unwritten(r)' <=> Unwritten(r)) /\ (pc'[r] = "none" <=> pc[r] = "none")
    BY <1>0, <1>2 DEF Reap
  <2>3. QED
    BY <2>1, <2>2, OtherStepsKeepBinaries
<1>3. QED
  BY <1>1, <1>2

\* The loop starts the next task, the channel's binary becomes a task's.
LEMMA LoopKeepsBinaries ==
  ASSUME BinaryInv, TypeOK, LoopStep
  PROVE  BinaryInv'
<1>0. /\ Runs \subseteq Actors /\ pc \in [Actors -> MainPcs \cup RunPcs]
      /\ Main \in Actors /\ Main \notin Runs /\ counter \in Nat
      /\ bin \in [Runs -> 0..MaxBins] /\ prev \in [Runs -> 0..MaxBins]
      /\ built \in Nat /\ latestBinaryPath \in Nat /\ chRunNewServer \in Nat
  BY DEF Runs, Actors, Main, TypeOK, TypeOfActors, TypeOfBinaries, Runner!TypeOK
<1>1. CASE TakeDone
  <2>1. UNCHANGED <<binaryVars, counter>>
    BY <1>1 DEF TakeDone, binaryVars, buildVars, taskVars, sharedVars, runnerVars
  <2>2. \A r \in Runs : pc'[r] = pc[r]
    BY <1>0, <1>1 DEF TakeDone
  <2>3. QED
    BY <2>1, <2>2, OtherStepsKeepBinaries DEF Unwritten
<1>2. ASSUME Runner!Go
      PROVE  counter' \in Runs /\ counter' > counter /\ pc[counter'] = "none"
             /\ bin[counter'] = NoBin /\ prev[counter'] = NoBin /\ counter' = counter + 1
  BY <1>0, <1>2 DEF Runner!Go, BinaryInv, TasksInOrder, Runs
<1>3. CASE TakeRerun
  <2> USE <1>0, <1>2, <1>3 DEF TakeRerun, buildVars, taskVars, sharedVars, BinaryInv, Unwritten, NoBin
  <2>1. LatestBinaryExists'
    BY DEF LatestBinaryExists
  <2>2. BinariesBuilt'
    BY DEF BinariesBuilt
  <2>3. TasksInOrder'
    BY DEF TasksInOrder, Runs
  <2>4. ChannelFresh'
    BY DEF ChannelFresh
  <2>5. UnwrittenFresh'
    BY DEF UnwrittenFresh
  <2>6. PreviousRetired'
    BY DEF PreviousRetired
  <2>7. QED
    BY <2>1, <2>2, <2>3, <2>4, <2>5, <2>6
<1>4. CASE TakeNewServer
  <2> USE <1>0, <1>2, <1>4 DEF TakeNewServer, sharedVars, BinaryInv, Unwritten, NoBin
  <2>1. LatestBinaryExists'
    BY DEF LatestBinaryExists
  <2>2. BinariesBuilt'
    BY DEF BinariesBuilt
  <2>3. TasksInOrder'
    BY DEF TasksInOrder, Runs
  <2>4. ChannelFresh'
    BY DEF ChannelFresh
  <2>5. UnwrittenFresh'
    BY DEF UnwrittenFresh, ChannelFresh
  <2>6. PreviousRetired'
    BY DEF PreviousRetired
  <2>7. QED
    BY <2>1, <2>2, <2>3, <2>4, <2>5, <2>6
<1>5. QED
  BY <1>1, <1>3, <1>4 DEF LoopStep

\* A finished build that stores and sends its binary, and the steps outside
\* the launcher, keep the invariant.
LEMMA EnvironmentKeepsBinaries ==
  ASSUME BinaryInv, TypeOK, EnvStep
  PROVE  BinaryInv'
<1>0. /\ bin \in [Runs -> 0..MaxBins] /\ prev \in [Runs -> 0..MaxBins]
      /\ built \in Nat /\ latestBinaryPath \in Nat /\ chRunNewServer \in Nat
  BY DEF TypeOK, TypeOfBinaries
<1>1. CASE BuildSucceeds
  <2> USE <1>0, <1>1 DEF BuildSucceeds, sharedVars, taskVars, runnerVars, BinaryInv, Unwritten, NoBin
  <2>1. LatestBinaryExists'
    BY DEF LatestBinaryExists
  <2>2. BinariesBuilt'
    BY DEF BinariesBuilt
  <2>3. TasksInOrder'
    BY DEF TasksInOrder
  <2>4. ChannelFresh'
    BY DEF ChannelFresh, BinariesBuilt
  <2>5. UnwrittenFresh'
    BY DEF UnwrittenFresh
  <2>6. PreviousRetired'
    BY DEF PreviousRetired
  <2>7. QED
    BY <2>1, <2>2, <2>3, <2>4, <2>5, <2>6
<1>2. CASE OtherErrorChanges \/ RequestRerun \/ CancelContext \/ \E p \in Runs : Exit(p)
  <2>1. UNCHANGED <<binaryVars, counter, pc>>
    BY <1>2 DEF OtherErrorChanges, RequestRerun, CancelContext, Exit, Runner!CancelParent,
       binaryVars, buildVars, taskVars, sharedVars, runnerVars
  <2>2. QED
    BY <2>1, OtherStepsKeepBinaries DEF Unwritten
<1>3. QED
  BY <1>1, <1>2 DEF EnvStep

\* BinaryInv is an invariant: the latest binary is on disk, the binary in the
\* channel or of a task that has not written its path yet is on disk and is no
\* other task's, and a task past its write remembers as previous a path that
\* is not the latest any more (rerun, latestBinaryPath).
THEOREM BinaryInvariance == Spec => []BinaryInv
<1>1. Init => BinaryInv
  <2> SUFFICES ASSUME Init PROVE BinaryInv
    OBVIOUS
  <2>1. \A r \in Runs : pc[r] = "none" /\ bin[r] = NoBin /\ prev[r] = NoBin
    BY DEF Init, Actors, Runs, Main
  <2>2. /\ latestBinaryPath = NoBin /\ chRunNewServer = NoBin
        /\ built = 0 /\ files = {} /\ NoBin = 0
    BY DEF Init, NoBin
  <2>3. BinariesBuilt
    BY <2>1, <2>2 DEF BinariesBuilt
  <2>4. TasksInOrder /\ UnwrittenFresh /\ PreviousRetired
    BY <2>1 DEF TasksInOrder, UnwrittenFresh, PreviousRetired, Unwritten
  <2>5. LatestBinaryExists /\ ChannelFresh
    BY <2>2 DEF LatestBinaryExists, ChannelFresh
  <2>6. QED
    BY <2>3, <2>4, <2>5 DEF BinaryInv
<1>2. TypeOK /\ BinaryInv /\ [Next]_vars => BinaryInv'
  <2> SUFFICES ASSUME TypeOK, BinaryInv, [Next]_vars PROVE BinaryInv'
    OBVIOUS
  <2>1. CASE Next
    BY <2>1, TaskKeepsBinaries, StoppingKeepsBinaries, LoopKeepsBinaries,
       EnvironmentKeepsBinaries DEF Next
  <2>2. CASE UNCHANGED vars
    BY <2>2, OtherStepsKeepBinaries
    DEF vars, binaryVars, buildVars, taskVars, sharedVars, runnerVars, Unwritten
  <2>3. QED
    BY <2>1, <2>2
<1>3. QED
  BY <1>1, <1>2, TypeCorrect, PTL DEF Spec

(***************************************************************************)
(* The executable of the next restart exists in every reachable state:     *)
(* RemovePrevious never takes away what latestBinaryPath names, although   *)
(* tasks that overlap exchange the path without a lock.                    *)
(***************************************************************************)
THEOREM LatestBinaryIsKept == Spec => []LatestBinaryExists
<1>1. BinaryInv => LatestBinaryExists
  BY DEF BinaryInv
<1>2. QED
  BY <1>1, BinaryInvariance, PTL

-----------------------------------------------------------------------------
\* Only the deferred statement of a task takes it out of rerun.
LEMMA BodyLeftByDeactivate ==
  ASSUME TypeOK, BinaryInv, [Next]_vars, NEW r \in Runs, InBody(r), ~InBody(r)'
  PROVE  Deactivate(r)
<1> USE DEF InBody, BodyPcs, Goto
<1>0. Runs \subseteq Actors /\ pc \in [Actors -> MainPcs \cup RunPcs] /\ r # Main
  BY DEF Runs, Actors, Main, TypeOK, TypeOfActors
<1>1. ASSUME NEW a \in Actors, StopStep(a) PROVE FALSE
  BY <1>0, <1>1 DEF StopStep, StopServer, Signal, AwaitTimeout, Kill, AwaitPc, AfterStop
<1>2. ASSUME NEW s \in Runs, TaskStep(s) PROVE Deactivate(r)
  <2>1. CASE ReadPrevious(s) \/ WriteLatest(s) \/ Activate(s) \/ CheckErrors(s) \/ CheckContext(s)
    BY <1>0, <2>1 DEF ReadPrevious, WriteLatest, Activate, CheckErrors, CheckContext
  <2>2. CASE Prepare(s) \/ Start(s) \/ Register(s) \/ HealthStep(s) \/ Broadcast(s)
    BY <1>0, <2>2 DEF Prepare, Start, Register, HealthStep, HealthOK, HealthExited,
       HealthAbandoned, Broadcast
  <2>3. CASE Deactivate(s)
    BY <1>0, <2>3 DEF Deactivate
  <2>4. CASE RemovePrevious(s) \/ CleanupTask(s)
    BY <1>0, <2>4 DEF RemovePrevious, CleanupTask
  <2>5. QED
    BY <1>2, <2>1, <2>2, <2>3, <2>4 DEF TaskStep
<1>3. ASSUME NEW p \in Runs, Reap(p) PROVE FALSE
  BY <1>0, <1>3 DEF Reap, AfterStop
<1>4. CASE LoopStep
  <2>1. CASE TakeDone
    BY <1>0, <2>1 DEF TakeDone
  <2>2. CASE TakeRerun \/ TakeNewServer
    <3>1. counter' \in Runs /\ pc[counter'] = "none"
      BY <2>2 DEF TakeRerun, TakeNewServer, Runner!Go, TypeOK, Runner!TypeOK, BinaryInv,
         TasksInOrder, Runs
    <3>2. QED
      BY <1>0, <2>2, <3>1 DEF TakeRerun, TakeNewServer
  <2>3. QED
    BY <1>4, <2>1, <2>2 DEF LoopStep
<1>5. CASE EnvStep
  BY <1>5 DEF EnvStep, BuildSucceeds, OtherErrorChanges, RequestRerun, CancelContext, Exit
<1>6. CASE UNCHANGED vars
  BY <1>6 DEF vars
<1>7. QED
  BY <1>1, <1>2, <1>3, <1>4, <1>5, <1>6 DEF Next

(***************************************************************************)
(* rerunActive is raised only while some task is still going to lower it,  *)
(* although tasks that overlap raise and lower it for each other: templ's  *)
(* reloads are never suppressed for good.                                  *)
(***************************************************************************)
THEOREM FlagNeverStuck == Spec => []FlagIsLowered
<1>1. Init => FlagIsLowered
  BY DEF Init, FlagIsLowered
<1>2. TypeOK /\ BinaryInv /\ FlagIsLowered /\ [Next]_vars => FlagIsLowered'
  <2> SUFFICES ASSUME TypeOK, BinaryInv, FlagIsLowered, [Next]_vars, rerunActive'
               PROVE  \E r \in Runs : InBody(r)'
    BY DEF FlagIsLowered
  <2>1. ~\E r \in Runs : Deactivate(r)
    BY DEF Deactivate
  <2>2. CASE rerunActive
    BY <2>1, <2>2, BodyLeftByDeactivate DEF FlagIsLowered
  <2>3. CASE ~rerunActive
    <3>1. \E r \in Runs : Activate(r)
      <4>1. ASSUME NEW a \in Actors, StopStep(a) PROVE FALSE
        BY <2>3, <4>1 DEF StopStep, StopServer, Signal, AwaitTimeout, Kill, sharedVars
      <4>2. ASSUME NEW r \in Runs, TaskStep(r), ~Activate(r) PROVE FALSE
        BY <2>1, <2>3, <4>2 DEF TaskStep, ReadPrevious, WriteLatest, CheckErrors,
           CheckContext, Prepare, Start, Register, HealthStep, HealthOK, HealthExited,
           HealthAbandoned, Broadcast, RemovePrevious, CleanupTask, sharedVars
      <4>3. ASSUME NEW r \in Runs, Reap(r) PROVE FALSE
        BY <2>3, <4>3 DEF Reap
      <4>4. ~LoopStep
        BY <2>3 DEF LoopStep, TakeRerun, TakeNewServer, TakeDone, sharedVars
      <4>5. ~EnvStep
        BY <2>3 DEF EnvStep, BuildSucceeds, OtherErrorChanges, RequestRerun, CancelContext,
           Exit, sharedVars
      <4>6. ~UNCHANGED vars
        BY <2>3 DEF vars, sharedVars
      <4>7. QED
        BY <4>1, <4>2, <4>3, <4>4, <4>5, <4>6 DEF Next
    <3>2. QED
      BY <3>1 DEF Activate, Goto, InBody, BodyPcs, TypeOK, TypeOfActors, Actors, Runs
  <2>4. QED
    BY <2>2, <2>3
<1>3. QED
  BY <1>1, <1>2, TypeCorrect, BinaryInvariance, PTL DEF Spec

(***************************************************************************)
(* No process escapes the wait group: a process that runs is counted by    *)
(* waitExit unless its task is between c.Start() and waitExit.Go.          *)
(***************************************************************************)
THEOREM ProcessesAwaited == Spec => []RunningIsAwaited
<1>1. Init => RunningIsAwaited
  BY DEF Init, RunningIsAwaited
<1>2. TypeOK /\ BinaryInv /\ RunningIsAwaited /\ [Next]_vars => RunningIsAwaited'
  <2> SUFFICES ASSUME TypeOK, BinaryInv, RunningIsAwaited, [Next]_vars,
                      NEW p \in Runs, proc'[p] = "running"
               PROVE  p \in waitExit' \/ pc'[p] = "register"
    BY DEF RunningIsAwaited
  <2> USE DEF RunningIsAwaited, Goto
  <2>0. /\ Runs \subseteq Actors /\ pc \in [Actors -> MainPcs \cup RunPcs]
        /\ proc \in [Runs -> ProcStates] /\ Main \notin Runs
    BY DEF Runs, Actors, Main, TypeOK, TypeOfActors, TypeOfProcesses
  <2>1. ASSUME NEW a \in Actors, StopStep(a) PROVE p \in waitExit' \/ pc'[p] = "register"
    BY <2>0, <2>1 DEF StopStep, StopServer, Signal, AwaitTimeout, Kill, sharedVars, procVars
  <2>2. ASSUME NEW r \in Runs, TaskStep(r) PROVE p \in waitExit' \/ pc'[p] = "register"
    <3>1. CASE Prepare(r)
      BY <2>0, <3>1 DEF Prepare
    <3>2. CASE Start(r)
      BY <2>0, <3>2 DEF Start, sharedVars
    <3>3. CASE Register(r)
      BY <2>0, <3>3 DEF Register, procVars
    <3>4. CASE ReadPrevious(r) \/ WriteLatest(r) \/ Activate(r) \/ CheckErrors(r) \/ CheckContext(r)
      BY <2>0, <3>4 DEF ReadPrevious, WriteLatest, Activate, CheckErrors, CheckContext,
         sharedVars, procVars
    <3>5. CASE HealthStep(r) \/ Broadcast(r)
      BY <2>0, <3>5 DEF HealthStep, HealthOK, HealthExited, HealthAbandoned, Broadcast,
         sharedVars, procVars
    <3>6. CASE Deactivate(r) \/ RemovePrevious(r) \/ CleanupTask(r)
      BY <2>0, <3>6 DEF Deactivate, RemovePrevious, CleanupTask, sharedVars, procVars
    <3>7. QED
      BY <2>2, <3>1, <3>2, <3>3, <3>4, <3>5, <3>6 DEF TaskStep
  <2>3. ASSUME NEW r \in Runs, Reap(r) PROVE p \in waitExit' \/ pc'[p] = "register"
    BY <2>0, <2>3 DEF Reap, AfterStop
  <2>4. CASE LoopStep
    <3>1. CASE TakeDone
      BY <2>0, <3>1 DEF TakeDone, sharedVars, procVars
    <3>2. CASE TakeRerun \/ TakeNewServer
      <4>1. counter' \in Runs /\ pc[counter'] = "none"
        BY <3>2 DEF TakeRerun, TakeNewServer, Runner!Go, TypeOK, Runner!TypeOK, BinaryInv,
           TasksInOrder, Runs
      <4>2. QED
        BY <2>0, <3>2, <4>1 DEF TakeRerun, TakeNewServer, sharedVars, procVars
    <3>3. QED
      BY <2>4, <3>1, <3>2 DEF LoopStep
  <2>5. CASE EnvStep
    <3>1. CASE \E q \in Runs : Exit(q)
      BY <2>0, <3>1 DEF Exit, sharedVars
    <3>2. CASE BuildSucceeds \/ OtherErrorChanges \/ RequestRerun \/ CancelContext
      BY <3>2 DEF BuildSucceeds, OtherErrorChanges, RequestRerun, CancelContext,
         sharedVars, procVars
    <3>3. QED
      BY <2>5, <3>1, <3>2 DEF EnvStep
  <2>6. CASE UNCHANGED vars
    BY <2>6 DEF vars, sharedVars, procVars
  <2>7. QED
    BY <2>1, <2>2, <2>3, <2>4, <2>5, <2>6 DEF Next
<1>3. QED
  BY <1>1, <1>2, TypeCorrect, BinaryInvariance, PTL DEF Spec

-----------------------------------------------------------------------------
(***************************************************************************)
(* The launcher implements CtxRun: every step is a step of its runner or   *)
(* leaves the runner alone.                                                *)
(***************************************************************************)
THEOREM LauncherImplementsRunner == Spec => ImplementsRunner
<1>1. Init => Runner!Init
  BY DEF Init
<1>2. [Next]_vars => [Runner!Next]_(Runner!runnerVars)
  BY StepsOfTheRunner
<1>3. QED
  BY <1>1, <1>2, PTL DEF Spec, ImplementsRunner, Runner!Spec

(***************************************************************************)
(* Hence at most one task of the launcher runs with an uncancelled         *)
(* context, whatever requests arrive.                                      *)
(***************************************************************************)
THEOREM OneUncancelledTask == Spec => []Runner!AtMostOneLive
<1>1. Spec => Runner!Spec
  BY LauncherImplementsRunner DEF ImplementsRunner
<1>2. RunnerFacts!Spec => []RunnerFacts!AtMostOneLive
  BY RunnerFacts!OneLiveTask
<1>3. Runner!Init => RunnerFacts!Init
  BY DEF Runner!Init, RunnerFacts!Init, Runner!Runs, RunnerFacts!Runs, Runner!NoRun,
     RunnerFacts!NoRun
<1>4. [Runner!Next]_(Runner!runnerVars) => [RunnerFacts!Next]_(RunnerFacts!runnerVars)
  BY DEF Runner!Next, RunnerFacts!Next, Runner!runnerVars, RunnerFacts!runnerVars,
     Runner!Go, RunnerFacts!Go, Runner!Return, RunnerFacts!Return, Runner!Cleanup,
     RunnerFacts!Cleanup, Runner!CancelParent, RunnerFacts!CancelParent,
     Runner!Runs, RunnerFacts!Runs, Runner!NoRun, RunnerFacts!NoRun
<1>5. RunnerFacts!AtMostOneLive => Runner!AtMostOneLive
  BY DEF Runner!AtMostOneLive, RunnerFacts!AtMostOneLive, Runner!Live, RunnerFacts!Live,
     Runner!Runs, RunnerFacts!Runs
<1>6. QED
  BY <1>1, <1>2, <1>3, <1>4, <1>5, PTL DEF Runner!Spec, RunnerFacts!Spec

-----------------------------------------------------------------------------
(***************************************************************************)
(* What overlapping tasks cannot break.  A task that was overtaken goes on *)
(* beside its successor, but its context is cancelled: it does not get     *)
(* past CheckContext any more.  So only the newest task is in a window in  *)
(* which no task was ever overtaken, and the loop still waits for events.  *)
(***************************************************************************)
Newest(r) == r = counter /\ pc[Main] = "select"

OnlyNewestIn(stages) == \A r \in Runs : pc[r] \in stages => Newest(r)

WindowsOfNewest ==
    /\ "paths" \notin overtaken => OnlyNewestIn(Window["paths"])
    /\ overtaken \cap {"paths", "stopping"} = {} => OnlyNewestIn(Window["stopping"])
    /\ overtaken \cap {"paths", "stopping", "awaiting"} = {} => OnlyNewestIn(Awaiting)
    /\ "starting" \notin overtaken => OnlyNewestIn(Window["starting"])

\* The loop leaves its select for good when the context is cancelled, and a
\* task is a running goroutine of the runner.
TurnInv ==
    /\ pc[Main] # "select" => parentDone
    /\ \A r \in Runs : Active(r) => phase[r] = "running"
    /\ WindowsOfNewest

\* The types that the steps need.
LEMMA TypesOfSteps ==
  ASSUME TypeOK
  PROVE  /\ Actors = Runs \cup {Main} /\ Main \notin Runs /\ Main \in Actors
         /\ pc \in [Actors -> MainPcs \cup RunPcs] /\ pc[Main] \in MainPcs
         /\ \A r \in Runs : pc[r] \in RunPcs
         /\ proc \in [Runs -> ProcStates] /\ waitExit \subseteq Runs
         /\ exe \in [Runs -> 0..MaxBins] /\ latestSrvCmd \in 0..MaxRuns
         /\ phase \in [Runs -> Runner!Phases] /\ counter \in 0..MaxRuns
         /\ asked \in [Runs -> {"no", "interrupt", "kill"}]
BY DEF TypeOK, TypeOfActors, TypeOfProcesses, TypeOfBinaries, Actors, Runs, Main,
   Runner!TypeOK, Runner!Runs

\* The launcher's runner keeps the invariant of CtxRun.
LEMMA RunnerInvHolds == Spec => []Runner!RunnerInv
<1>1. Spec => Runner!Spec
  BY LauncherImplementsRunner DEF ImplementsRunner
<1>2. RunnerFacts!Spec => []RunnerFacts!RunnerInv
  BY RunnerFacts!RunnerInvariance
<1>3. Runner!Init => RunnerFacts!Init
  BY DEF Runner!Init, RunnerFacts!Init, Runner!Runs, RunnerFacts!Runs, Runner!NoRun,
     RunnerFacts!NoRun
<1>4. [Runner!Next]_(Runner!runnerVars) => [RunnerFacts!Next]_(RunnerFacts!runnerVars)
  BY DEF Runner!Next, RunnerFacts!Next, Runner!runnerVars, RunnerFacts!runnerVars,
     Runner!Go, RunnerFacts!Go, Runner!Return, RunnerFacts!Return, Runner!Cleanup,
     RunnerFacts!Cleanup, Runner!CancelParent, RunnerFacts!CancelParent,
     Runner!Runs, RunnerFacts!Runs, Runner!NoRun, RunnerFacts!NoRun
<1>5. RunnerFacts!RunnerInv => Runner!RunnerInv
  BY DEF Runner!RunnerInv, RunnerFacts!RunnerInv, Runner!TypeOK, RunnerFacts!TypeOK,
     Runner!CancelNamesNewest, RunnerFacts!CancelNamesNewest, Runner!Phases,
     RunnerFacts!Phases, Runner!Runs, RunnerFacts!Runs, Runner!NoRun, RunnerFacts!NoRun
<1>6. QED
  BY <1>1, <1>2, <1>3, <1>4, <1>5, PTL DEF Runner!Spec, RunnerFacts!Spec

\* A task that is not the newest has a cancelled context.
LEMMA SupersededIsCancelled ==
  ASSUME TypeOK, BinaryInv, TurnInv, Runner!RunnerInv, NEW r \in Runs, Active(r), ~CtxDone(r)
  PROVE  Newest(r)
<1>1. pc[Main] = "select" /\ r \notin cancelled
  BY DEF TurnInv, CtxDone
<1>2. phase[r] = "running"
  BY DEF TurnInv
<1>3. r = counter
  <2>1. ~(r > counter)
    BY DEF BinaryInv, TasksInOrder, Active
  <2>2. ~(r < counter)
    BY <1>1, <1>2 DEF Runner!RunnerInv, Runs, Runner!Runs
  <2>3. QED
    BY <2>1, <2>2, TypesOfSteps DEF Runs
<1>4. QED
  BY <1>1, <1>3 DEF Newest

\* Where a task can get without the loop: it enters its windows in their order,
\* and the last of them only with a context that is not cancelled.
LEMMA MovesOfTasks ==
  ASSUME TypeOK, [Next]_vars, ~LoopStep, NEW r \in Runs
  PROVE  /\ pc'[r] \in Window["paths"] => pc[r] \in Window["paths"]
         /\ pc'[r] \in Window["stopping"] => pc[r] \in Window["stopping"] \cup Window["paths"]
         /\ pc'[r] \in Awaiting => pc[r] \in Awaiting \cup Window["stopping"]
         /\ pc'[r] \in Window["starting"] =>
                pc[r] \in Window["starting"] \/ (Active(r) /\ ~CtxDone(r))
         /\ Active(r)' => Active(r)
<1> USE DEF Goto, Window, Awaiting, Active
<1>0. /\ r \in Actors /\ Main \in Actors /\ Main \notin Runs /\ pc \in [Actors -> MainPcs \cup RunPcs]
      /\ pc[r] \in RunPcs
  BY TypesOfSteps
<1>1. ASSUME NEW a \in Actors, StopStep(a) PROVE 
         /\ pc'[r] \in Window["paths"] => pc[r] \in Window["paths"]
         /\ pc'[r] \in Window["stopping"] => pc[r] \in Window["stopping"] \cup Window["paths"]
         /\ pc'[r] \in Awaiting => pc[r] \in Awaiting \cup Window["stopping"]
         /\ pc'[r] \in Window["starting"] => pc[r] \in Window["starting"]
         /\ Active(r)' => Active(r)
  BY <1>0, <1>1 DEF StopStep, StopServer, Signal, AwaitTimeout, Kill, AwaitPc, AfterStop
<1>2. ASSUME NEW s \in Runs, TaskStep(s) PROVE
         /\ pc'[r] \in Window["paths"] => pc[r] \in Window["paths"]
         /\ pc'[r] \in Window["stopping"] => pc[r] \in Window["stopping"] \cup Window["paths"]
         /\ pc'[r] \in Awaiting => pc[r] \in Awaiting \cup Window["stopping"]
         /\ pc'[r] \in Window["starting"] =>
                pc[r] \in Window["starting"] \/ (Active(r) /\ ~CtxDone(r))
         /\ Active(r)' => Active(r)
  <2>1. CASE ReadPrevious(s) \/ WriteLatest(s) \/ Activate(s) \/ CheckErrors(s)
    BY <1>0, <2>1 DEF ReadPrevious, WriteLatest, Activate, CheckErrors
  <2>2. CASE CheckContext(s)
    BY <1>0, <2>2 DEF CheckContext
  <2>3. CASE Prepare(s) \/ Start(s) \/ Register(s)
    BY <1>0, <2>3 DEF Prepare, Start, Register
  <2>4. CASE HealthStep(s) \/ Broadcast(s)
    BY <1>0, <2>4 DEF HealthStep, HealthOK, HealthExited, HealthAbandoned, Broadcast
  <2>5. CASE Deactivate(s) \/ RemovePrevious(s) \/ CleanupTask(s)
    BY <1>0, <2>5 DEF Deactivate, RemovePrevious, CleanupTask
  <2>6. QED
    BY <1>2, <2>1, <2>2, <2>3, <2>4, <2>5 DEF TaskStep
<1>3. ASSUME NEW p \in Runs, Reap(p)
      PROVE  pc'[r] = pc[r] \/ (pc[r] \in Awaiting /\ pc'[r] = "check")
  BY <1>0, <1>3 DEF Reap, AfterStop
<1>4. CASE EnvStep
  BY <1>4 DEF EnvStep, BuildSucceeds, OtherErrorChanges, RequestRerun, CancelContext, Exit
<1>5. CASE UNCHANGED vars
  BY <1>5 DEF vars
<1>6. QED
  BY <1>1, <1>2, <1>3, <1>4, <1>5 DEF Next

\* Without the loop the runner starts nothing, and a goroutine of the runner
\* ends only with its task.
LEMMA RunnerWithoutLoop ==
  ASSUME TypeOK, [Next]_vars, ~LoopStep
  PROVE  /\ counter' = counter /\ (parentDone => parentDone')
         /\ \A r \in Runs : phase[r] = "running" /\ phase'[r] # "running" => ~Active(r)'
<1>0. phase \in [Runs -> Runner!Phases] /\ pc \in [Actors -> MainPcs \cup RunPcs] /\ Runs \subseteq Actors
  BY TypesOfSteps
<1>1. ASSUME NEW a \in Actors, StopStep(a) PROVE UNCHANGED runnerVars
  BY <1>1 DEF StopStep, StopServer, Signal, AwaitTimeout, Kill
<1>2. ASSUME NEW s \in Runs, TaskStep(s)
      PROVE  \/ UNCHANGED runnerVars
             \/ Runner!Return(s) /\ pc'[s] = "end"
             \/ Runner!Cleanup(s)
  <2>1. CASE Deactivate(s) \/ RemovePrevious(s) \/ CleanupTask(s)
    BY <1>0, <2>1 DEF Deactivate, RemovePrevious, CleanupTask, Goto
  <2>2. CASE ~(Deactivate(s) \/ RemovePrevious(s) \/ CleanupTask(s))
    BY <1>2, <2>2 DEF TaskStep, ReadPrevious, WriteLatest, Activate, CheckErrors,
       CheckContext, Prepare, Start, Register, HealthStep, HealthOK, HealthExited,
       HealthAbandoned, Broadcast
  <2>3. QED
    BY <2>1, <2>2
<1>3. ASSUME NEW r \in Runs, Reap(r) PROVE UNCHANGED runnerVars
  BY <1>3 DEF Reap
<1>4. EnvStep => UNCHANGED runnerVars \/ Runner!CancelParent
  BY DEF EnvStep, BuildSucceeds, OtherErrorChanges, RequestRerun, CancelContext, Exit
<1>5. UNCHANGED vars => UNCHANGED runnerVars
  BY DEF vars
<1>6. CASE UNCHANGED runnerVars
  BY <1>6 DEF runnerVars
<1>7. CASE Runner!CancelParent
  BY <1>7 DEF Runner!CancelParent
<1>8. ASSUME NEW s \in Runs, Runner!Return(s) /\ pc'[s] = "end"
      PROVE  /\ counter' = counter /\ (parentDone => parentDone')
             /\ \A r \in Runs : phase[r] = "running" /\ phase'[r] # "running" => ~Active(r)'
  BY <1>0, <1>8 DEF Runner!Return, Active
<1>9. ASSUME NEW s \in Runs, Runner!Cleanup(s)
      PROVE  /\ counter' = counter /\ (parentDone => parentDone')
             /\ \A r \in Runs : phase[r] = "running" /\ phase'[r] # "running" => ~Active(r)'
  BY <1>0, <1>9 DEF Runner!Cleanup
<1>10. QED
  BY <1>1, <1>2, <1>3, <1>4, <1>5, <1>6, <1>7, <1>8, <1>9 DEF Next

\* What the loop does: it starts the next task or begins its own stop, and it
\* notes the windows of the tasks it overtakes.
LEMMA MovesOfTheLoop ==
  ASSUME TypeOK, BinaryInv, LoopStep
  PROVE  /\ pc[Main] = "select" /\ overtaken \subseteq overtaken'
         /\ \A r \in Runs, w \in Windows : pc[r] \in Window[w] => w \in overtaken'
         /\ \/ /\ parentDone /\ UNCHANGED <<counter, phase, parentDone>>
               /\ pc' = [pc EXCEPT ![Main] = "stop"]
            \/ /\ counter' = counter + 1 /\ counter' \in Runs /\ UNCHANGED parentDone
               /\ phase' = [phase EXCEPT ![counter'] = "running"]
               /\ pc[counter'] = "none"
               /\ \E to \in {"read", "activate"} : pc' = [pc EXCEPT ![counter'] = to]
<1>1. pc[Main] = "select"
  BY DEF LoopStep, TakeRerun, TakeNewServer, TakeDone, TakeEvent
<1>2. overtaken' = overtaken \cup {w \in Windows : \E r \in Runs : pc[r] \in Window[w]}
  BY DEF LoopStep, TakeRerun, TakeNewServer, TakeDone, TakeEvent
<1>3. CASE TakeDone
  BY <1>1, <1>2, <1>3 DEF TakeDone, runnerVars
<1>4. CASE TakeRerun \/ TakeNewServer
  <2>1. Runner!Go /\ \E to \in {"read", "activate"} : pc' = [pc EXCEPT ![counter'] = to]
    BY <1>4 DEF TakeRerun, TakeNewServer
  <2>2. counter' = counter + 1 /\ counter' \in Runs
    BY <2>1, TypesOfSteps DEF Runner!Go, Runs
  <2>3. pc[counter'] = "none"
    BY <2>2, TypesOfSteps DEF BinaryInv, TasksInOrder
  <2>4. UNCHANGED parentDone /\ phase' = [phase EXCEPT ![counter'] = "running"]
    BY <2>1 DEF Runner!Go
  <2>5. QED
    BY <1>1, <1>2, <2>1, <2>2, <2>3, <2>4
<1>5. QED
  BY <1>3, <1>4 DEF LoopStep

\* The loop alone takes itself out of its select.
LEMMA MainWaits ==
  ASSUME TypeOK, [Next]_vars, ~LoopStep
  PROVE  pc[Main] = "select" <=> pc'[Main] = "select"
<1> USE DEF Goto
<1>0. Main \in Actors /\ Main \notin Runs /\ pc \in [Actors -> MainPcs \cup RunPcs]
  BY TypesOfSteps
<1>1. ASSUME NEW a \in Actors, StopStep(a) PROVE pc[Main] = "select" <=> pc'[Main] = "select"
  BY <1>0, <1>1 DEF StopStep, StopServer, Signal, AwaitTimeout, Kill, AwaitPc, AfterStop
<1>2. ASSUME NEW s \in Runs, TaskStep(s) PROVE pc'[Main] = pc[Main]
  BY <1>0, <1>2 DEF TaskStep, ReadPrevious, WriteLatest, Activate, CheckErrors,
     CheckContext, Prepare, Start, Register, HealthStep, HealthOK, HealthExited,
     HealthAbandoned, Broadcast, Deactivate, RemovePrevious, CleanupTask
<1>3. ASSUME NEW p \in Runs, Reap(p) PROVE pc[Main] = "select" <=> pc'[Main] = "select"
  BY <1>0, <1>3 DEF Reap, AfterStop
<1>4. CASE EnvStep
  BY <1>4 DEF EnvStep, BuildSucceeds, OtherErrorChanges, RequestRerun, CancelContext, Exit
<1>5. CASE UNCHANGED vars
  BY <1>5 DEF vars
<1>6. QED
  BY <1>1, <1>2, <1>3, <1>4, <1>5 DEF Next

(***************************************************************************)
(* TurnInv is an invariant of all schedules.  That a superseded task does  *)
(* not come back into a window is the work of Runner.Go, which cancels its *)
(* context before it starts the next one, and of the look at the context.  *)
(***************************************************************************)
THEOREM WindowsInvariance == Spec => []TurnInv
<1>1. Init => TurnInv
  <2> SUFFICES ASSUME Init PROVE TurnInv
    OBVIOUS
  <2>1. pc[Main] = "select" /\ \A r \in Runs : pc[r] = "none"
    <3>1. Main \in Actors /\ \A r \in Runs : r \in Actors /\ r # Main
      BY DEF Actors, Runs, Main
    <3>2. pc = [a \in Actors |-> IF a = Main THEN "select" ELSE "none"]
      BY DEF Init
    <3>3. QED
      BY <3>1, <3>2
  <2>2. QED
    BY <2>1 DEF TurnInv, Active, WindowsOfNewest, OnlyNewestIn, Window, Awaiting
<1>2. TypeOK /\ BinaryInv /\ Runner!RunnerInv /\ TurnInv /\ [Next]_vars => TurnInv'
  <2> SUFFICES ASSUME TypeOK, BinaryInv, Runner!RunnerInv, TurnInv, [Next]_vars
               PROVE  TurnInv'
    OBVIOUS
  <2>1. CASE ~LoopStep
    <3>1. UNCHANGED overtaken
      BY <2>1, OvertakenGrows
    <3>2. \A r \in Runs : Newest(r) => Newest(r)'
      BY <2>1, MainWaits, RunnerWithoutLoop DEF Newest
    <3>3. (pc[Main] # "select" => parentDone)'
      BY <2>1, MainWaits, RunnerWithoutLoop DEF TurnInv
    <3>4. (\A r \in Runs : Active(r) => phase[r] = "running")'
      BY <2>1, MovesOfTasks, RunnerWithoutLoop DEF TurnInv
    <3>5. \A r \in Runs : Active(r) /\ ~CtxDone(r) => Newest(r)
      BY SupersededIsCancelled
    <3>6. WindowsOfNewest'
      BY <2>1, <3>1, <3>2, <3>5, MovesOfTasks DEF TurnInv, WindowsOfNewest, OnlyNewestIn
    <3>7. QED
      BY <3>3, <3>4, <3>6 DEF TurnInv
  <2>2. CASE LoopStep
    <3> USE TypesOfSteps
    <3>1. CASE UNCHANGED <<counter, phase, parentDone>> /\ pc' = [pc EXCEPT ![Main] = "stop"]
               /\ parentDone
      <4>1. \A r \in Runs : pc'[r] = pc[r]
        BY <3>1
      <4>2. \A r \in Runs, w \in Windows : w \notin overtaken' => pc'[r] \notin Window[w]
        BY <2>2, <4>1, MovesOfTheLoop
      <4>3. WindowsOfNewest'
        BY <4>2 DEF WindowsOfNewest, OnlyNewestIn, Windows, Window
      <4>4. QED
        BY <3>1, <4>1, <4>3 DEF TurnInv, Active
    <3>2. ASSUME counter' \in Runs, UNCHANGED parentDone, pc[counter'] = "none",
                 phase' = [phase EXCEPT ![counter'] = "running"],
                 NEW to \in {"read", "activate"}, pc' = [pc EXCEPT ![counter'] = to]
          PROVE  TurnInv'
      <4>1. \A r \in Runs : r # counter' => pc'[r] = pc[r] /\ phase'[r] = phase[r]
        BY <3>2
      <4>2. pc'[Main] = "select"
        BY <2>2, <3>2, MovesOfTheLoop
      <4>3. \A r \in Runs, w \in Windows :
                r # counter' /\ w \notin overtaken' => pc'[r] \notin Window[w]
        BY <2>2, <4>1, MovesOfTheLoop
      <4>4. WindowsOfNewest'
        BY <4>2, <4>3 DEF WindowsOfNewest, OnlyNewestIn, Newest, Windows, Window
      <4>5. phase'[counter'] = "running"
        BY <3>2
      <4>6. QED
        BY <4>1, <4>2, <4>4, <4>5 DEF TurnInv, Active
    <3>3. QED
      BY <2>2, <3>1, <3>2, MovesOfTheLoop
  <2>3. QED
    BY <2>1, <2>2
<1>3. QED
  BY <1>1, <1>2, TypeCorrect, BinaryInvariance, RunnerInvHolds, PTL DEF Spec

-----------------------------------------------------------------------------
(***************************************************************************)
(* The servers.  As long as no task was overtaken past its look at the     *)
(* context, a process is started by the newest task only, after its stop   *)
(* found the wait group empty; nobody registers another one in between.    *)
(***************************************************************************)
Stopping == {"stop", "signal", "await", "kill", "join"}
PastStop == {"check", "context", "prepare", "start", "register"}

NewestIsAlone ==
    /\ \A r \in Runs : r = counter /\ pc[r] \in PastStop => waitExit = {}
    /\ pc[Main] = "returned" => waitExit = {}

LatestRuns ==
    /\ \A p \in Runs : p \in waitExit \/ proc[p] = "running" => p = latestSrvCmd
    /\ \A r \in Runs : pc[r] \in {"start", "register"} => latestSrvCmd = r

ServerInv == "starting" \notin overtaken => NewestIsAlone /\ LatestRuns

\* stopServer and awaitServerExit change no process and come to their end only
\* when the wait group is empty; the group loses only processes that ended.
LEMMA StepsOfStopping ==
  ASSUME TypeOK, (\E a \in Actors : StopStep(a)) \/ (\E q \in Runs : Reap(q))
  PROVE  /\ UNCHANGED <<proc, exe, files, latestSrvCmd, latestBinaryPath, prev, counter,
                        overtaken>>
         /\ waitExit' \subseteq waitExit
         /\ \A p \in waitExit \ waitExit' : proc[p] # "running"
         /\ \A b \in Actors :
                \/ pc'[b] = pc[b]
                \/ /\ pc[b] \in Stopping
                   /\ \/ pc'[b] \in {"signal", "await", "kill", "join"}
                      \/ pc'[b] = AfterStop(b) /\ waitExit' = {}
<1> USE DEF Stopping
<1>0. pc \in [Actors -> MainPcs \cup RunPcs]
  BY TypesOfSteps
<1>1. ASSUME NEW a \in Actors, StopStep(a)
      PROVE  /\ UNCHANGED <<proc, exe, files, latestSrvCmd, latestBinaryPath, prev, counter,
                            overtaken, waitExit>>
             /\ \A b \in Actors :
                    \/ pc'[b] = pc[b]
                    \/ /\ pc[b] \in Stopping
                       /\ \/ pc'[b] \in {"signal", "await", "kill", "join"}
                          \/ pc'[b] = AfterStop(b) /\ waitExit = {}
  <2>1. UNCHANGED <<proc, exe, files, latestSrvCmd, latestBinaryPath, prev, counter,
                    overtaken, waitExit>>
    BY <1>1 DEF StopStep, StopServer, Signal, AwaitTimeout, Kill, sharedVars, procVars,
       buildVars, taskVars, runnerVars
  <2>2. ASSUME NEW b \in Actors
        PROVE  \/ pc'[b] = pc[b]
               \/ /\ pc[b] \in Stopping
                  /\ \/ pc'[b] \in {"signal", "await", "kill", "join"}
                     \/ pc'[b] = AfterStop(b) /\ waitExit = {}
    <3>1. CASE StopServer(a)
      BY <1>0, <3>1 DEF StopServer, Goto, AwaitPc
    <3>2. CASE Signal(a)
      BY <1>0, <3>2 DEF Signal, Goto, AwaitPc
    <3>3. CASE AwaitTimeout(a) \/ Kill(a)
      BY <1>0, <3>3 DEF AwaitTimeout, Kill, Goto
    <3>4. QED
      BY <1>1, <3>1, <3>2, <3>3 DEF StopStep
  <2>3. QED
    BY <2>1, <2>2
<1>2. ASSUME NEW q \in Runs, Reap(q)
      PROVE  /\ UNCHANGED <<proc, exe, files, latestSrvCmd, latestBinaryPath, prev, counter,
                            overtaken>>
             /\ waitExit' = waitExit \ {q} /\ proc[q] # "running"
             /\ \A b \in Actors :
                    \/ pc'[b] = pc[b]
                    \/ pc[b] \in Stopping /\ pc'[b] = AfterStop(b) /\ waitExit' = {}
  BY <1>2 DEF Reap, buildVars, taskVars, runnerVars
<1>3. QED
  BY <1>1, <1>2

LEMMA StoppingKeepsServers ==
  ASSUME TypeOK, ServerInv,
         (\E a \in Actors : StopStep(a)) \/ (\E q \in Runs : Reap(q))
  PROVE  ServerInv'
<1> SUFFICES ASSUME "starting" \notin overtaken' PROVE (NewestIsAlone /\ LatestRuns)'
  BY DEF ServerInv
<1>1. NewestIsAlone /\ LatestRuns
  BY StepsOfStopping DEF ServerInv
<1>2. NewestIsAlone'
  BY <1>1, StepsOfStopping, TypesOfSteps DEF NewestIsAlone, PastStop, Stopping, AfterStop
<1>3. LatestRuns'
  BY <1>1, StepsOfStopping, TypesOfSteps DEF LatestRuns, Stopping, AfterStop
<1>4. QED
  BY <1>2, <1>3

\* A step of a task that changes no process, and neither enters nor leaves the
\* part of rerun in which the invariants say something about it.
PlainStep(r) ==
    \/ ReadPrevious(r) \/ WriteLatest(r) \/ Activate(r) \/ CheckErrors(r)
    \/ CheckContext(r) \/ HealthStep(r) \/ Broadcast(r) \/ Deactivate(r)
    \/ RemovePrevious(r)

LEMMA StepsOfPlainTasks ==
  ASSUME TypeOK, NEW r \in Runs, PlainStep(r)
  PROVE  /\ UNCHANGED <<proc, exe, asked, latestSrvCmd, waitExit, panicked, counter, overtaken>>
         /\ \A b \in Actors : b # r => pc'[b] = pc[b]
         /\ pc'[r] \notin Stopping \ {"stop"} /\ pc'[r] \notin {"start", "register", "returned"}
         /\ pc'[r] \in PastStop => pc[r] \in PastStop
<1> USE DEF Goto, Stopping, PastStop
<1>0. pc \in [Actors -> MainPcs \cup RunPcs] /\ r \in Actors /\ pc[r] \in RunPcs
      /\ phase \in [Runs -> Runner!Phases]
  BY TypesOfSteps
<1>1. CASE ReadPrevious(r) \/ WriteLatest(r) \/ Activate(r) \/ CheckErrors(r) \/ CheckContext(r)
  BY <1>0, <1>1 DEF ReadPrevious, WriteLatest, Activate, CheckErrors, CheckContext,
     procVars, sharedVars, runnerVars
<1>2. CASE HealthStep(r) \/ Broadcast(r)
  BY <1>0, <1>2 DEF HealthStep, HealthOK, HealthExited, HealthAbandoned, Broadcast,
     procVars, sharedVars, runnerVars
<1>3. CASE Deactivate(r) \/ RemovePrevious(r)
  BY <1>0, <1>3 DEF Deactivate, RemovePrevious, Runner!Return, procVars, sharedVars, runnerVars
<1>4. QED
  BY <1>1, <1>2, <1>3 DEF PlainStep

\* The three steps in which a task starts its server: it is the newest, and no
\* other process runs or is waited for.
LEMMA StartingKeepsServers ==
  ASSUME TypeOK, TurnInv, ServerInv, RunningIsAwaited, NEW r \in Runs,
         Prepare(r) \/ Start(r) \/ Register(r)
  PROVE  ServerInv'
<1> SUFFICES ASSUME "starting" \notin overtaken' PROVE (NewestIsAlone /\ LatestRuns)'
  BY DEF ServerInv
<1> USE DEF Goto
<1>1. UNCHANGED <<overtaken, counter>>
  BY DEF Prepare, Start, Register, runnerVars
<1>2. NewestIsAlone /\ LatestRuns
  BY <1>1 DEF ServerInv
<1>3. /\ pc[r] \in {"prepare", "start", "register"}
      /\ \A b \in Actors : b # r => pc'[b] = pc[b]
      /\ pc'[r] \in {"start", "register", "health"}
      /\ pc'[r] = "start" <=> pc[r] = "prepare"
      /\ pc'[r] = "register" <=> pc[r] = "start"
  BY TypesOfSteps DEF Prepare, Start, Register
<1>4. \A s \in Runs : pc[s] \in {"prepare", "start", "register"} => s = counter
  BY <1>1 DEF TurnInv, WindowsOfNewest, OnlyNewestIn, Window, Newest
<1>5. r = counter /\ pc[Main] = "select" /\ waitExit = {}
  BY <1>1, <1>2, <1>3 DEF TurnInv, WindowsOfNewest, OnlyNewestIn, Window, Newest,
     NewestIsAlone, PastStop
<1>6. pc[r] # "register" => \A p \in Runs : proc[p] # "running"
  BY <1>3, <1>4, <1>5 DEF RunningIsAwaited
<1>7. \A s \in Runs : s # r => pc'[s] \notin {"start", "register"}
  BY <1>3, <1>4, <1>5, TypesOfSteps
<1>8. NewestIsAlone'
  <2>1. pc'[Main] = "select"
    BY <1>3, <1>5, TypesOfSteps
  <2>2. pc'[r] \in PastStop => waitExit' = {}
    BY <1>3, <1>5 DEF Prepare, Start, Register, PastStop, sharedVars
  <2>3. QED
    BY <1>1, <1>5, <2>1, <2>2 DEF NewestIsAlone
<1>9. LatestRuns'
  <2>1. CASE Prepare(r)
    <3>1. latestSrvCmd' = r /\ UNCHANGED waitExit /\ \A p \in Runs : proc'[p] # "running"
      BY <2>1, <1>3, <1>6, TypesOfSteps DEF Prepare
    <3>2. QED
      BY <3>1, <1>5, <1>7 DEF LatestRuns
  <2>2. CASE Start(r)
    <3>1. UNCHANGED <<latestSrvCmd, waitExit>> /\ \A p \in Runs : p # r => proc'[p] # "running"
      BY <2>2, <1>3, <1>6, TypesOfSteps DEF Start, sharedVars
    <3>2. latestSrvCmd = r
      BY <2>2, <1>2 DEF Start, LatestRuns
    <3>3. QED
      BY <3>1, <3>2, <1>5, <1>7 DEF LatestRuns
  <2>3. CASE Register(r)
    <3>1. UNCHANGED <<latestSrvCmd, proc>> /\ waitExit' = {r}
      BY <2>3, <1>5 DEF Register, procVars
    <3>2. latestSrvCmd = r
      BY <2>3, <1>2 DEF Register, LatestRuns
    <3>3. QED
      BY <3>1, <3>2, <1>2, <1>7 DEF LatestRuns
  <2>4. QED
    BY <2>1, <2>2, <2>3
<1>10. QED
  BY <1>8, <1>9

LEMMA PlainStepKeepsServers ==
  ASSUME TypeOK, ServerInv, NEW r \in Runs, PlainStep(r)
  PROVE  ServerInv'
<1> SUFFICES ASSUME "starting" \notin overtaken' PROVE (NewestIsAlone /\ LatestRuns)'
  BY DEF ServerInv
<1>1. NewestIsAlone /\ LatestRuns
  BY StepsOfPlainTasks DEF ServerInv
<1>2. NewestIsAlone' /\ LatestRuns'
  BY <1>1, StepsOfPlainTasks, TypesOfSteps DEF NewestIsAlone, LatestRuns
<1>3. QED
  BY <1>2

\* The loop's next task is the newest, and has not stopped anything yet.
LEMMA LoopKeepsServers ==
  ASSUME TypeOK, BinaryInv, ServerInv, LoopStep
  PROVE  ServerInv'
<1> SUFFICES ASSUME "starting" \notin overtaken' PROVE (NewestIsAlone /\ LatestRuns)'
  BY DEF ServerInv
<1>1. UNCHANGED <<proc, waitExit, latestSrvCmd>>
  BY DEF LoopStep, TakeRerun, TakeNewServer, TakeDone, procVars, sharedVars
<1>2. NewestIsAlone /\ LatestRuns
  BY MovesOfTheLoop DEF ServerInv
<1>3. pc'[Main] # "returned"
  BY MovesOfTheLoop, TypesOfSteps
<1>4. \A r \in Runs : r = counter' /\ pc'[r] \in PastStop => r = counter /\ pc[r] \in PastStop
  BY MovesOfTheLoop, TypesOfSteps DEF PastStop
<1>5. \A r \in Runs : pc'[r] \in {"start", "register"} => pc[r] = pc'[r]
  BY MovesOfTheLoop, TypesOfSteps
<1>6. QED
  BY <1>1, <1>2, <1>3, <1>4, <1>5 DEF NewestIsAlone, LatestRuns

\* The environment, a clean-up of the runner and a stuttering step: at most a
\* process ends.
OtherStep == EnvStep \/ (\E r \in Runs : CleanupTask(r)) \/ UNCHANGED vars

LEMMA OtherSteps ==
  ASSUME TypeOK, OtherStep
  PROVE  /\ UNCHANGED <<pc, exe, asked, latestSrvCmd, latestBinaryPath, prev, waitExit, panicked,
                        counter, overtaken>>
         /\ files \subseteq files'
         /\ \A p \in Runs : proc'[p] = "running" => proc[p] = "running"
         /\ HasProcess(latestSrvCmd) => HasProcess(latestSrvCmd)'
<1>0. proc \in [Runs -> ProcStates] /\ latestSrvCmd \in 0..MaxRuns
  BY TypesOfSteps
<1>1. CASE EnvStep
  <2>1. CASE \E p \in Runs : Exit(p)
    BY <1>0, <2>1 DEF Exit, sharedVars, taskVars, buildVars, runnerVars, HasProcess, NoRun, Runs
  <2>2. CASE CancelContext
    BY <2>2 DEF CancelContext, Runner!CancelParent, procVars, sharedVars, taskVars, buildVars,
       HasProcess
  <2>3. CASE BuildSucceeds \/ OtherErrorChanges \/ RequestRerun
    BY <2>3 DEF BuildSucceeds, OtherErrorChanges, RequestRerun, procVars, sharedVars, taskVars,
       buildVars, runnerVars, HasProcess
  <2>4. QED
    BY <1>1, <2>1, <2>2, <2>3 DEF EnvStep
<1>2. ASSUME NEW r \in Runs, CleanupTask(r) PROVE UNCHANGED <<pc, exe, asked, latestSrvCmd,
          latestBinaryPath, prev, waitExit, panicked, counter, overtaken, files, proc>>
  BY <1>2 DEF CleanupTask, Runner!Cleanup, procVars, sharedVars, taskVars, buildVars
<1>3. CASE UNCHANGED vars
  BY <1>3 DEF vars, procVars, sharedVars, taskVars, buildVars, runnerVars, HasProcess
<1>4. QED
  BY <1>1, <1>2, <1>3 DEF OtherStep, HasProcess

LEMMA OtherStepKeepsServers ==
  ASSUME TypeOK, ServerInv, OtherStep
  PROVE  ServerInv'
BY OtherSteps DEF ServerInv, NewestIsAlone, LatestRuns

\* Every step is one of these.
LEMMA KindsOfSteps ==
  ASSUME [Next]_vars
  PROVE  \/ (\E a \in Actors : StopStep(a)) \/ (\E q \in Runs : Reap(q))
         \/ \E r \in Runs : PlainStep(r) \/ Prepare(r) \/ Start(r) \/ Register(r)
         \/ LoopStep
         \/ OtherStep
BY DEF Next, TaskStep, PlainStep, OtherStep

\* ServerInv is an invariant: while no starting task was overtaken, the newest
\* task passes its stop only with an empty wait group, so that whatever runs or
\* is counted in the group is the latest command (rerun, latestSrvCmd).
THEOREM ServerInvariance == Spec => []ServerInv
<1>1. Init => ServerInv
  <2> SUFFICES ASSUME Init PROVE ServerInv
    OBVIOUS
  <2>1. waitExit = {} /\ proc = [r \in Runs |-> "none"]
    BY DEF Init
  <2>2. \A r \in Runs : pc[r] = "none"
    BY DEF Init, Actors, Runs, Main
  <2>3. QED
    BY <2>1, <2>2 DEF ServerInv, NewestIsAlone, LatestRuns
<1>2. TypeOK /\ BinaryInv /\ RunningIsAwaited /\ TurnInv /\ ServerInv /\ [Next]_vars => ServerInv'
  BY KindsOfSteps, StoppingKeepsServers, StartingKeepsServers, PlainStepKeepsServers,
     LoopKeepsServers, OtherStepKeepsServers
<1>3. QED
  BY <1>1, <1>2, TypeCorrect, BinaryInvariance, ProcessesAwaited, WindowsInvariance, PTL DEF Spec

(***************************************************************************)
(* There are never two servers, whatever tasks overlap and whatever they   *)
(* are doing, unless a task was overtaken after its look at the context.   *)
(***************************************************************************)
THEOREM OneServer == Spec => []SingleServerUnlessOvertaken
<1>1. ServerInv => SingleServerUnlessOvertaken
  BY DEF ServerInv, LatestRuns, SingleServer, SingleServerUnlessOvertaken
<1>2. QED
  BY <1>1, ServerInvariance, PTL

(***************************************************************************)
(* No server is left behind, or started later, when the launcher returned, *)
(* though tasks may still be under way, unless the shutdown or a request   *)
(* overtook one of them after its look at the context.                     *)
(***************************************************************************)
THEOREM NothingRunsAfterReturn == Spec => []NoServerAfterReturnUnlessOvertaken
<1>1. TypeOK /\ RunningIsAwaited /\ TurnInv /\ ServerInv => NoServerAfterReturnUnlessOvertaken
  <2> SUFFICES ASSUME TypeOK, RunningIsAwaited, TurnInv, ServerInv, "starting" \notin overtaken,
                      pc[Main] = "returned"
               PROVE  \A p \in Runs : proc[p] # "running"
    BY DEF NoServerAfterReturn, NoServerAfterReturnUnlessOvertaken
  <2>1. waitExit = {}
    BY DEF ServerInv, NewestIsAlone
  <2>2. \A p \in Runs : pc[p] # "register"
    BY DEF TurnInv, WindowsOfNewest, OnlyNewestIn, Window, Newest
  <2>3. QED
    BY <2>1, <2>2 DEF RunningIsAwaited
<1>2. QED
  BY <1>1, ServerInvariance, TypeCorrect, ProcessesAwaited, WindowsInvariance, PTL

-----------------------------------------------------------------------------
(***************************************************************************)
(* The binaries.  As long as no task was overtaken while it replaced the   *)
(* path or started its server, a process that runs executes the latest     *)
(* binary or is about to be stopped by the newest task; and a task that is *)
(* through with its stop removes nothing that is executed, however late it *)
(* does so and whatever its successors started in the meantime.            *)
(***************************************************************************)
Replacing == {"read", "write", "activate"} \cup Stopping
Checked == PastStop \cup {"health", "reload", "deactivate", "remove"}

StartsLatest == \A r \in Runs : pc[r] = "start" => exe[r] = latestBinaryPath

RunsLatest ==
    \A p \in Runs : proc[p] = "running" =>
        \/ exe[p] = latestBinaryPath
        \/ \E r \in Runs : r = counter /\ pc[r] \in Replacing

PreviousNotExecuted ==
    \A r, p \in Runs :
        pc[r] \in Checked /\ prev[r] # NoBin /\ proc[p] = "running" => exe[p] # prev[r]

ExecutedInv ==
    overtaken \cap {"paths", "starting"} = {} =>
        StartsLatest /\ RunsLatest /\ PreviousNotExecuted /\ RemovedAfterStop

\* The newest task alone replaces the path or starts a server.
LEMMA NewestReplacesAndStarts ==
  ASSUME TurnInv, overtaken \cap {"paths", "starting"} = {}
  PROVE  \A r \in Runs :
             pc[r] \in {"read", "write", "prepare", "start", "register"} => r = counter
BY DEF TurnInv, WindowsOfNewest, OnlyNewestIn, Window, Newest

\* A stop that comes to its end leaves no process running but one that the
\* newest task just started.
LEMMA StoppingKeepsExecuted ==
  ASSUME TypeOK, BinaryInv, RunningIsAwaited, TurnInv, ExecutedInv,
         (\E a \in Actors : StopStep(a)) \/ (\E q \in Runs : Reap(q))
  PROVE  ExecutedInv'
<1> SUFFICES ASSUME overtaken' \cap {"paths", "starting"} = {}
             PROVE  (StartsLatest /\ RunsLatest /\ PreviousNotExecuted /\ RemovedAfterStop)'
  BY DEF ExecutedInv
<1>0. UNCHANGED <<proc, exe, files, latestBinaryPath, prev, counter, overtaken>>
  BY StepsOfStopping
<1>1. StartsLatest /\ RunsLatest /\ PreviousNotExecuted /\ RemovedAfterStop
  BY <1>0 DEF ExecutedInv
<1>2. \A p \in Runs : proc[p] = "running" /\ waitExit' = {} => pc[p] = "register" /\ p = counter
  BY <1>0, StepsOfStopping, NewestReplacesAndStarts DEF RunningIsAwaited
<1>3. \A r \in Runs :
          \/ pc'[r] = pc[r]
          \/ pc[r] \in Stopping /\ pc'[r] \in {"signal", "await", "kill", "join"}
          \/ pc[r] \in Stopping /\ pc'[r] = "check" /\ waitExit' = {}
  BY StepsOfStopping, TypesOfSteps DEF AfterStop
<1>4. StartsLatest'
  BY <1>0, <1>1, <1>3 DEF StartsLatest
<1>5. RunsLatest'
  <2> SUFFICES ASSUME NEW p \in Runs, proc[p] = "running", exe[p] # latestBinaryPath
               PROVE  \E r \in Runs : r = counter /\ pc'[r] \in Replacing
    BY <1>0 DEF RunsLatest
  <2>1. PICK r \in Runs : r = counter /\ pc[r] \in Replacing
    BY <1>1 DEF RunsLatest
  <2>2. waitExit' # {}
    BY <1>2, <2>1 DEF Replacing, Stopping
  <2>3. pc'[r] \in Replacing
    BY <1>3, <2>1, <2>2 DEF Replacing, Stopping
  <2>4. QED
    BY <2>1, <2>3
<1>6. PreviousNotExecuted'
  <2> SUFFICES ASSUME NEW r \in Runs, NEW p \in Runs, pc'[r] \in Checked, prev[r] # NoBin,
                      proc[p] = "running"
               PROVE  exe[p] # prev[r]
    BY <1>0 DEF PreviousNotExecuted
  <2>1. CASE pc'[r] = pc[r]
    BY <1>1, <2>1 DEF PreviousNotExecuted
  <2>2. CASE pc[r] \in Stopping /\ pc'[r] = "check" /\ waitExit' = {}
    <3>1. exe[p] = latestBinaryPath
      BY <1>1, <1>2, <2>2 DEF RunsLatest, Replacing, Stopping
    <3>2. prev[r] # latestBinaryPath
      BY <2>2 DEF BinaryInv, PreviousRetired, Unwritten, Stopping
    <3>3. QED
      BY <3>1, <3>2
  <2>3. QED
    BY <1>3, <2>1, <2>2 DEF Checked, PastStop
<1>7. QED
  BY <1>0, <1>1, <1>4, <1>5, <1>6 DEF RemovedAfterStop

\* What the steps that start no process do to the paths and the files.
LEMMA PathsOfPlainTasks ==
  ASSUME TypeOK, NEW r \in Runs, PlainStep(r)
  PROVE  /\ latestBinaryPath' = latestBinaryPath \/ (pc[r] = "write" /\ pc'[r] = "activate")
         /\ \A s \in Runs : pc'[s] # "write" => prev'[s] = prev[s]
         /\ \/ files' = files
            \/ pc[r] = "remove" /\ files' = files \ {prev[r]}
         /\ pc'[r] \in Checked => pc[r] \in Checked
         /\ pc[r] \in Replacing => pc'[r] \in Replacing
<1> USE DEF Goto, Stopping, PastStop, Checked, Replacing
<1>0. /\ pc \in [Actors -> MainPcs \cup RunPcs] /\ r \in Actors /\ pc[r] \in RunPcs
      /\ prev \in [Runs -> 0..MaxBins] /\ Runs \subseteq Actors
  BY TypesOfSteps DEF TypeOK, TypeOfBinaries
<1>1. CASE ReadPrevious(r) \/ WriteLatest(r) \/ Activate(r)
  BY <1>0, <1>1 DEF ReadPrevious, WriteLatest, Activate, buildVars, sharedVars, taskVars
<1>2. CASE CheckErrors(r) \/ CheckContext(r)
  BY <1>0, <1>2 DEF CheckErrors, CheckContext, buildVars, sharedVars, taskVars
<1>3. CASE HealthStep(r) \/ Broadcast(r)
  BY <1>0, <1>3 DEF HealthStep, HealthOK, HealthExited, HealthAbandoned, Broadcast,
     buildVars, sharedVars, taskVars
<1>4. CASE Deactivate(r) \/ RemovePrevious(r)
  BY <1>0, <1>4 DEF Deactivate, RemovePrevious, buildVars, sharedVars, taskVars
<1>5. QED
  BY <1>1, <1>2, <1>3, <1>4 DEF PlainStep

LEMMA PlainStepKeepsExecuted ==
  ASSUME TypeOK, TurnInv, ExecutedInv, NEW r \in Runs, PlainStep(r)
  PROVE  ExecutedInv'
<1> SUFFICES ASSUME overtaken' \cap {"paths", "starting"} = {}
             PROVE  (StartsLatest /\ RunsLatest /\ PreviousNotExecuted /\ RemovedAfterStop)'
  BY DEF ExecutedInv
<1>0. /\ UNCHANGED <<proc, exe, counter, overtaken>>
      /\ \A s \in Runs : s # r => pc'[s] = pc[s]
      /\ pc'[r] \notin {"start"}
  BY StepsOfPlainTasks, TypesOfSteps
<1>1. StartsLatest /\ RunsLatest /\ PreviousNotExecuted /\ RemovedAfterStop
  BY <1>0 DEF ExecutedInv
<1>2. StartsLatest'
  BY <1>0, <1>1, PathsOfPlainTasks, NewestReplacesAndStarts DEF StartsLatest
<1>3. RunsLatest'
  <2>1. CASE latestBinaryPath' = latestBinaryPath
    BY <1>0, <1>1, <2>1, PathsOfPlainTasks DEF RunsLatest
  <2>2. CASE pc[r] = "write" /\ pc'[r] = "activate"
    BY <1>0, <2>2, NewestReplacesAndStarts DEF RunsLatest, Replacing
  <2>3. QED
    BY <2>1, <2>2, PathsOfPlainTasks
<1>4. PreviousNotExecuted'
  <2>1. \A s \in Runs : pc'[s] \in Checked => pc[s] \in Checked /\ prev'[s] = prev[s]
    BY <1>0, PathsOfPlainTasks DEF Checked, PastStop
  <2>2. QED
    BY <1>0, <1>1, <2>1 DEF PreviousNotExecuted
<1>5. RemovedAfterStop'
  <2>1. files \subseteq Bins /\ NoBin \notin Bins
    BY DEF TypeOK, TypeOfBinaries, Bins, NoBin
  <2>2. CASE files' = files
    BY <1>0, <1>1, <2>2 DEF RemovedAfterStop
  <2>3. CASE pc[r] = "remove" /\ files' = files \ {prev[r]}
    BY <1>0, <1>1, <2>1, <2>3 DEF RemovedAfterStop, PreviousNotExecuted, Checked
  <2>4. QED
    BY <2>2, <2>3, PathsOfPlainTasks
<1>6. QED
  BY <1>2, <1>3, <1>4, <1>5

LEMMA StartingKeepsExecuted ==
  ASSUME TypeOK, BinaryInv, TurnInv, ExecutedInv, NEW r \in Runs,
         Prepare(r) \/ Start(r) \/ Register(r)
  PROVE  ExecutedInv'
<1> SUFFICES ASSUME overtaken' \cap {"paths", "starting"} = {}
             PROVE  (StartsLatest /\ RunsLatest /\ PreviousNotExecuted /\ RemovedAfterStop)'
  BY DEF ExecutedInv
<1> USE DEF Goto
<1>0. UNCHANGED <<overtaken, counter, latestBinaryPath, prev, files>>
  BY DEF Prepare, Start, Register, runnerVars, taskVars, buildVars, sharedVars
<1>1. StartsLatest /\ RunsLatest /\ PreviousNotExecuted /\ RemovedAfterStop
  BY <1>0 DEF ExecutedInv
<1>2. /\ pc[r] \in {"prepare", "start", "register"}
      /\ \A s \in Runs : s # r => pc'[s] = pc[s]
      /\ pc'[r] \in {"start", "register", "health"}
      /\ pc'[r] = "start" <=> pc[r] = "prepare"
  BY TypesOfSteps DEF Prepare, Start, Register
<1>3. r = counter /\ \A p \in Runs : proc[p] = "running" => exe[p] = latestBinaryPath
  BY <1>0, <1>1, <1>2, NewestReplacesAndStarts DEF RunsLatest, Replacing, Stopping
<1>4. StartsLatest'
  <2>1. \A s \in Runs : s # r => pc'[s] # "start"
    BY <1>0, <1>2, <1>3, NewestReplacesAndStarts
  <2>2. pc'[r] = "start" => exe'[r] = latestBinaryPath
    BY <1>2, TypesOfSteps DEF Prepare, Start, Register
  <2>3. QED
    BY <1>0, <2>1, <2>2 DEF StartsLatest
<1>5. \A p \in Runs : proc'[p] = "running" => exe'[p] = latestBinaryPath /\ exe'[p] \in files
  <2>1. CASE Prepare(r)
    BY <1>1, <1>3, <2>1, TypesOfSteps DEF Prepare, RemovedAfterStop
  <2>2. CASE Start(r)
    <3>1. pc[r] = "start" /\ exe' = exe
      BY <2>2 DEF Start
    <3>2. proc'[r] = "running" => exe[r] \in files
      BY <2>2, TypesOfSteps DEF Start
    <3>3. \A p \in Runs : p # r => proc'[p] = proc[p]
      BY <2>2, TypesOfSteps DEF Start
    <3>4. QED
      BY <1>1, <1>3, <3>1, <3>2, <3>3 DEF StartsLatest, RemovedAfterStop
  <2>3. CASE Register(r)
    BY <1>1, <1>3, <2>3 DEF Register, procVars, RemovedAfterStop
  <2>4. QED
    BY <2>1, <2>2, <2>3
<1>6. PreviousNotExecuted'
  <2>1. \A s \in Runs : pc'[s] \in Checked => pc[s] \in Checked
    BY <1>2 DEF Checked, PastStop
  <2>2. \A s \in Runs : pc[s] \in Checked /\ prev[s] # NoBin => prev[s] # latestBinaryPath
    BY DEF BinaryInv, PreviousRetired, Unwritten, Checked, PastStop
  <2>3. QED
    BY <1>0, <1>5, <2>1, <2>2 DEF PreviousNotExecuted
<1>7. QED
  BY <1>0, <1>4, <1>5, <1>6 DEF RunsLatest, RemovedAfterStop

LEMMA LoopKeepsExecuted ==
  ASSUME TypeOK, BinaryInv, ExecutedInv, LoopStep
  PROVE  ExecutedInv'
<1> SUFFICES ASSUME overtaken' \cap {"paths", "starting"} = {}
             PROVE  (StartsLatest /\ RunsLatest /\ PreviousNotExecuted /\ RemovedAfterStop)'
  BY DEF ExecutedInv
<1>0. UNCHANGED <<proc, exe, files, latestBinaryPath, prev>>
  BY DEF LoopStep, TakeRerun, TakeNewServer, TakeDone, procVars, sharedVars, taskVars, buildVars
<1>1. StartsLatest /\ RunsLatest /\ PreviousNotExecuted /\ RemovedAfterStop
  BY MovesOfTheLoop DEF ExecutedInv
<1>2. \A r \in Runs :
          \/ pc'[r] = pc[r]
          \/ r = counter' /\ pc'[r] \in {"read", "activate"}
  BY MovesOfTheLoop, TypesOfSteps
<1>3. \/ counter' = counter /\ \A r \in Runs : pc'[r] = pc[r]
      \/ counter' \in Runs /\ pc'[counter'] \in {"read", "activate"}
  BY MovesOfTheLoop, TypesOfSteps
<1>4. StartsLatest'
  BY <1>0, <1>1, <1>2 DEF StartsLatest
<1>5. RunsLatest'
  BY <1>0, <1>1, <1>3 DEF RunsLatest, Replacing
<1>6. PreviousNotExecuted'
  BY <1>0, <1>1, <1>2 DEF PreviousNotExecuted, Checked, PastStop
<1>7. QED
  BY <1>0, <1>1, <1>4, <1>5, <1>6 DEF RemovedAfterStop

LEMMA OtherStepKeepsExecuted ==
  ASSUME TypeOK, ExecutedInv, OtherStep
  PROVE  ExecutedInv'
BY OtherSteps DEF ExecutedInv, StartsLatest, RunsLatest, PreviousNotExecuted, RemovedAfterStop

\* ExecutedInv is an invariant: what a running process executes is no path that
\* some task still has to remove (the end of the task of line 620).
THEOREM ExecutedInvariance == Spec => []ExecutedInv
<1>1. Init => ExecutedInv
  <2> SUFFICES ASSUME Init PROVE ExecutedInv
    OBVIOUS
  <2>1. proc = [r \in Runs |-> "none"]
    BY DEF Init
  <2>2. \A r \in Runs : pc[r] = "none"
    BY DEF Init, Actors, Runs, Main
  <2>3. QED
    BY <2>1, <2>2 DEF ExecutedInv, StartsLatest, RunsLatest, PreviousNotExecuted,
       RemovedAfterStop
<1>2. TypeOK /\ BinaryInv /\ RunningIsAwaited /\ TurnInv /\ ExecutedInv /\ [Next]_vars
          => ExecutedInv'
  BY KindsOfSteps, StoppingKeepsExecuted, StartingKeepsExecuted, PlainStepKeepsExecuted,
     LoopKeepsExecuted, OtherStepKeepsExecuted
<1>3. QED
  BY <1>1, <1>2, TypeCorrect, BinaryInvariance, ProcessesAwaited, WindowsInvariance, PTL DEF Spec

(***************************************************************************)
(* A process that runs executes a binary that exists, though superseded    *)
(* tasks remove binaries late, unless a task was overtaken while it        *)
(* replaced the path or started its server.                                *)
(***************************************************************************)
THEOREM BinaryOutlivesProcess == Spec => []RemovedAfterStopUnlessOvertaken
<1>1. ExecutedInv => RemovedAfterStopUnlessOvertaken
  BY DEF ExecutedInv, RemovedAfterStopUnlessOvertaken
<1>2. QED
  BY <1>1, ExecutedInvariance, PTL

(***************************************************************************)
(* When no task is under way the process that runs executes the latest     *)
(* binary, whatever tasks were superseded during their stop, their look at *)
(* the context or their health check.                                      *)
(***************************************************************************)
THEOREM LatestBinaryRuns == Spec => []SettledServerIsLatestUnlessOvertaken
<1>1. ExecutedInv => SettledServerIsLatestUnlessOvertaken
  BY DEF ExecutedInv, RunsLatest, SettledServerIsLatestUnlessOvertaken, SettledServerIsLatest,
     Active, Replacing, Stopping
<1>2. QED
  BY <1>1, ExecutedInvariance, PTL

-----------------------------------------------------------------------------
(***************************************************************************)
(* The commands.  latestSrvCmd is given to the newest task's command; an   *)
(* actor between the two reads of stopServer is the newest task or the     *)
(* loop, so nobody replaces the command in between.  A task gets to its    *)
(* own command only after its stop, so a stop never asks the command of    *)
(* the task that stops.                                                    *)
(***************************************************************************)
BeforePrepare == {"none", "read", "write", "activate", "check", "context", "prepare"}
                 \cup Stopping

SignalInv ==
    overtaken \cap {"paths", "stopping", "starting"} = {} =>
        /\ ~panicked
        /\ \A a \in Actors : pc[a] = "signal" => HasProcess(latestSrvCmd)

NotAskedYet ==
    \A r \in Runs : pc[r] \in BeforePrepare => latestSrvCmd # r /\ asked[r] = "no"

AskedInv == NotAskedYet /\ NewestServerKeptUnlessOvertaken

\* The steps that give latestSrvCmd another command or another state.
LEMMA StartingKeepsSignals ==
  ASSUME TypeOK, TurnInv, SignalInv, NEW r \in Runs, Prepare(r) \/ Start(r) \/ Register(r)
  PROVE  SignalInv'
<1> SUFFICES ASSUME overtaken' \cap {"paths", "stopping", "starting"} = {}
             PROVE  ~panicked' /\ \A a \in Actors : pc'[a] # "signal"
  BY DEF SignalInv
<1> USE DEF Goto
<1>1. UNCHANGED <<overtaken, panicked>>
  BY DEF Prepare, Start, Register
<1>2. /\ pc[r] \in {"prepare", "start", "register"}
      /\ \A a \in Actors : a # r => pc'[a] = pc[a]
      /\ pc'[r] # "signal"
  BY TypesOfSteps DEF Prepare, Start, Register
<1>3. r = counter /\ pc[Main] = "select"
  BY <1>1, <1>2 DEF TurnInv, WindowsOfNewest, OnlyNewestIn, Newest, Window
<1>4. \A s \in Runs : pc[s] = "signal" => s = counter
  BY <1>1 DEF TurnInv, WindowsOfNewest, OnlyNewestIn, Newest, Window
<1>5. \A a \in Actors : pc'[a] # "signal"
  BY <1>2, <1>3, <1>4, TypesOfSteps
<1>6. QED
  BY <1>1, <1>5 DEF SignalInv

LEMMA StoppingKeepsSignals ==
  ASSUME TypeOK, SignalInv, NEW a \in Actors, StopStep(a)
  PROVE  SignalInv'
<1> SUFFICES ASSUME overtaken' \cap {"paths", "stopping", "starting"} = {}
             PROVE  ~panicked' /\ \A b \in Actors : pc'[b] = "signal" => HasProcess(latestSrvCmd)'
  BY DEF SignalInv
<1> USE DEF Goto
<1>0. pc \in [Actors -> MainPcs \cup RunPcs]
  BY TypesOfSteps
<1>1. UNCHANGED <<overtaken, latestSrvCmd, proc>>
  BY DEF StopStep, StopServer, Signal, AwaitTimeout, Kill, sharedVars, procVars
<1>2. ~panicked /\ \A b \in Actors : pc[b] = "signal" => HasProcess(latestSrvCmd)
  BY <1>1 DEF SignalInv
<1>3. HasProcess(latestSrvCmd)' <=> HasProcess(latestSrvCmd)
  BY <1>1 DEF HasProcess
<1>4. CASE StopServer(a)
  BY <1>0, <1>2, <1>3, <1>4 DEF StopServer, AwaitPc, AfterStop
<1>5. CASE Signal(a)
  BY <1>0, <1>2, <1>3, <1>5 DEF Signal, AwaitPc, AfterStop
<1>6. CASE AwaitTimeout(a) \/ Kill(a)
  BY <1>0, <1>2, <1>3, <1>6 DEF AwaitTimeout, Kill, AfterStop
<1>7. QED
  BY <1>4, <1>5, <1>6 DEF StopStep

LEMMA ReapKeepsSignals ==
  ASSUME TypeOK, SignalInv, NEW q \in Runs, Reap(q)
  PROVE  SignalInv'
<1>1. pc \in [Actors -> MainPcs \cup RunPcs]
  BY TypesOfSteps
<1>2. UNCHANGED <<overtaken, panicked, latestSrvCmd, proc>>
  BY DEF Reap
<1>3. \A b \in Actors : pc'[b] = "signal" => pc[b] = "signal"
  BY <1>1 DEF Reap, AfterStop
<1>4. QED
  BY <1>2, <1>3 DEF SignalInv, HasProcess

LEMMA OtherStepsKeepSignals ==
  ASSUME TypeOK, BinaryInv, SignalInv,
         LoopStep \/ OtherStep \/ \E r \in Runs : PlainStep(r)
  PROVE  SignalInv'
<1>1. CASE LoopStep
  <2>1. UNCHANGED <<proc, latestSrvCmd, panicked>>
    BY <1>1 DEF LoopStep, TakeRerun, TakeNewServer, TakeDone, procVars, sharedVars
  <2>2. overtaken \subseteq overtaken' /\ \A a \in Actors : pc'[a] = "signal" => pc[a] = "signal"
    BY <1>1, MovesOfTheLoop, TypesOfSteps
  <2>3. QED
    BY <2>1, <2>2 DEF SignalInv, HasProcess
<1>2. CASE OtherStep
  BY <1>2, OtherSteps DEF SignalInv
<1>3. ASSUME NEW r \in Runs, PlainStep(r) PROVE SignalInv'
  <2>1. UNCHANGED <<proc, latestSrvCmd, panicked, overtaken>>
    BY <1>3, StepsOfPlainTasks
  <2>2. \A a \in Actors : pc'[a] = "signal" => pc[a] = "signal"
    BY <1>3, StepsOfPlainTasks DEF Stopping
  <2>3. QED
    BY <2>1, <2>2 DEF SignalInv, HasProcess
<1>4. QED
  BY <1>1, <1>2, <1>3

\* SignalInv is an invariant: an actor between the two reads of latestSrvCmd in
\* stopServer finds a command with a process there.
THEOREM SignalInvariance == Spec => []SignalInv
<1>1. Init => SignalInv
  BY DEF Init, SignalInv, Actors, Runs, Main
<1>2. TypeOK /\ BinaryInv /\ TurnInv /\ SignalInv /\ [Next]_vars => SignalInv'
  BY KindsOfSteps, StoppingKeepsSignals, ReapKeepsSignals, StartingKeepsSignals,
     OtherStepsKeepSignals
<1>3. QED
  BY <1>1, <1>2, TypeCorrect, BinaryInvariance, WindowsInvariance, PTL DEF Spec

(***************************************************************************)
(* No nil process is signalled, unless a task was overtaken before it had  *)
(* signalled its predecessor's server or as it started its own.            *)
(***************************************************************************)
THEOREM NoNilProcess == Spec => []NoPanicUnlessOvertaken
<1>1. SignalInv => NoPanicUnlessOvertaken
  BY DEF SignalInv, NoPanicUnlessOvertaken, NoPanic
<1>2. QED
  BY <1>1, SignalInvariance, PTL

\* Only Signal and Kill ask a process to stop: the one of latestSrvCmd.
LEMMA StoppingAsksTheLatest ==
  ASSUME TypeOK, NEW a \in Actors, StopStep(a)
  PROVE  /\ UNCHANGED latestSrvCmd
         /\ \A r \in Runs : asked'[r] = asked[r] \/ r = latestSrvCmd
         /\ pc[a] \in Stopping
<1>0. asked \in [Runs -> {"no", "interrupt", "kill"}]
  BY TypesOfSteps
<1>1. CASE StopServer(a) \/ AwaitTimeout(a)
  BY <1>1 DEF StopServer, AwaitTimeout, Goto, Stopping, procVars, sharedVars
<1>2. CASE Signal(a)
  BY <1>0, <1>2 DEF Signal, Goto, Stopping, sharedVars
<1>3. CASE Kill(a)
  BY <1>0, <1>3 DEF Kill, Goto, Stopping, sharedVars
<1>4. QED
  BY <1>1, <1>2, <1>3 DEF StopStep

LEMMA StoppingKeepsAsked ==
  ASSUME TypeOK, TurnInv, AskedInv, NEW a \in Actors, StopStep(a), [Next]_vars
  PROVE  AskedInv'
<1>1. /\ UNCHANGED <<counter, overtaken>>
      /\ \A r \in Runs : pc'[r] \in BeforePrepare => pc[r] \in BeforePrepare
  BY StepsOfStopping, TypesOfSteps DEF BeforePrepare, Stopping, AfterStop
<1>2. NotAskedYet'
  BY <1>1, StoppingAsksTheLatest DEF AskedInv, NotAskedYet
<1>3. NewestServerKeptUnlessOvertaken'
  <2> SUFFICES ASSUME overtaken \cap {"paths", "stopping", "awaiting"} = {},
                      pc'[Main] = "select", counter > 0
               PROVE  asked'[counter] = "no"
    BY <1>1 DEF NewestServerKeptUnlessOvertaken, NewestServerKept
  <2>1. pc[Main] = "select" /\ counter \in Runs
    BY StepsOfStopping, TypesOfSteps DEF Runs, AfterStop
  <2>2. asked[counter] = "no"
    BY <2>1 DEF AskedInv, NewestServerKeptUnlessOvertaken, NewestServerKept
  <2>3. a = counter
    <3>1. a \in Runs
      BY <2>1, StoppingAsksTheLatest, TypesOfSteps DEF Stopping
    <3>2. QED
      BY <3>1, StoppingAsksTheLatest DEF TurnInv, WindowsOfNewest, OnlyNewestIn, Newest, Window,
         Awaiting, Stopping
  <2>4. latestSrvCmd # counter
    BY <2>1, <2>3, StoppingAsksTheLatest DEF AskedInv, NotAskedYet, BeforePrepare
  <2>5. QED
    BY <2>1, <2>2, <2>4, StoppingAsksTheLatest
<1>4. QED
  BY <1>2, <1>3 DEF AskedInv

LEMMA TaskKeepsAsked ==
  ASSUME TypeOK, AskedInv, NEW r \in Runs,
         PlainStep(r) \/ Prepare(r) \/ Start(r) \/ Register(r) \/ Reap(r)
  PROVE  AskedInv'
<1> USE DEF Goto
<1>0. pc \in [Actors -> MainPcs \cup RunPcs] /\ r \in Actors /\ pc[r] \in RunPcs
      /\ Main \notin Runs /\ Main \in Actors /\ Runs \subseteq Actors
  BY TypesOfSteps
<1>1. CASE PlainStep(r)
  <2>1. \A s \in Runs : pc'[s] \in BeforePrepare => pc[s] \in BeforePrepare
    <3>1. CASE ReadPrevious(r) \/ WriteLatest(r) \/ Activate(r) \/ CheckErrors(r) \/ CheckContext(r)
      BY <1>0, <3>1 DEF ReadPrevious, WriteLatest, Activate, CheckErrors, CheckContext,
         BeforePrepare, Stopping
    <3>2. CASE HealthStep(r) \/ Broadcast(r) \/ Deactivate(r) \/ RemovePrevious(r)
      BY <1>0, <3>2 DEF HealthStep, HealthOK, HealthExited, HealthAbandoned, Broadcast,
         Deactivate, RemovePrevious, BeforePrepare, Stopping
    <3>3. QED
      BY <1>1, <3>1, <3>2 DEF PlainStep
  <2>2. UNCHANGED <<asked, latestSrvCmd, counter, overtaken>> /\ pc'[Main] = pc[Main]
    BY <1>0, <1>1, StepsOfPlainTasks
  <2>3. QED
    BY <2>1, <2>2 DEF AskedInv, NotAskedYet, NewestServerKeptUnlessOvertaken, NewestServerKept
<1>2. CASE Prepare(r) \/ Start(r) \/ Register(r)
  <2>1. /\ UNCHANGED <<asked, counter, overtaken>> /\ pc'[Main] = pc[Main]
        /\ latestSrvCmd' = latestSrvCmd \/ latestSrvCmd' = r
        /\ pc'[r] \notin BeforePrepare
        /\ \A s \in Runs : s # r => pc'[s] = pc[s]
    BY <1>0, <1>2 DEF Prepare, Start, Register, procVars, sharedVars, runnerVars, BeforePrepare,
       Stopping
  <2>2. QED
    BY <2>1 DEF AskedInv, NotAskedYet, NewestServerKeptUnlessOvertaken, NewestServerKept
<1>3. CASE Reap(r)
  <2>1. /\ UNCHANGED <<asked, latestSrvCmd, counter, overtaken>>
        /\ pc'[Main] = "select" => pc[Main] = "select"
        /\ \A s \in Runs : pc'[s] \in BeforePrepare => pc[s] \in BeforePrepare
    BY <1>0, <1>3 DEF Reap, AfterStop, runnerVars, BeforePrepare, Stopping
  <2>2. QED
    BY <2>1 DEF AskedInv, NotAskedYet, NewestServerKeptUnlessOvertaken, NewestServerKept
<1>4. QED
  BY <1>1, <1>2, <1>3

LEMMA OthersKeepAsked ==
  ASSUME TypeOK, BinaryInv, AskedInv, LoopStep \/ OtherStep
  PROVE  AskedInv'
<1>1. CASE LoopStep
  <2>1. UNCHANGED <<asked, latestSrvCmd>>
    BY <1>1 DEF LoopStep, TakeRerun, TakeNewServer, TakeDone, procVars, sharedVars
  <2>2. overtaken \subseteq overtaken'
        /\ \A r \in Runs : pc'[r] \in BeforePrepare => pc[r] \in BeforePrepare
    BY <1>1, MovesOfTheLoop, TypesOfSteps DEF BeforePrepare
  <2>3. NotAskedYet'
    BY <2>1, <2>2 DEF AskedInv, NotAskedYet
  <2>4. \/ pc'[Main] = "stop"
        \/ counter' \in Runs /\ pc[counter'] = "none"
    BY <1>1, MovesOfTheLoop, TypesOfSteps
  <2>5. pc'[Main] = "select" => asked'[counter'] = "no"
    BY <2>1, <2>4 DEF AskedInv, NotAskedYet, BeforePrepare
  <2>6. QED
    BY <2>3, <2>5 DEF AskedInv, NewestServerKeptUnlessOvertaken, NewestServerKept
<1>2. CASE OtherStep
  BY <1>2, OtherSteps DEF AskedInv, NotAskedYet, NewestServerKeptUnlessOvertaken, NewestServerKept
<1>3. QED
  BY <1>1, <1>2

\* AskedInv is an invariant: no command is asked to stop before its task prepared
\* it, and afterwards only by a later task or the loop (stopServer,
\* awaitServerExit).
THEOREM AskedInvariance == Spec => []AskedInv
<1>1. Init => AskedInv
  <2> SUFFICES ASSUME Init PROVE AskedInv
    OBVIOUS
  <2>1. counter = 0 /\ latestSrvCmd = NoRun /\ asked = [r \in Runs |-> "no"]
    BY DEF Init, Runner!Init
  <2>2. QED
    BY <2>1 DEF AskedInv, NotAskedYet, NewestServerKeptUnlessOvertaken, NewestServerKept,
       NoRun, Runs
<1>2. TypeOK /\ BinaryInv /\ TurnInv /\ AskedInv /\ [Next]_vars => AskedInv'
  BY KindsOfSteps, StoppingKeepsAsked, TaskKeepsAsked, OthersKeepAsked
<1>3. QED
  BY <1>1, <1>2, TypeCorrect, BinaryInvariance, WindowsInvariance, PTL DEF Spec

(***************************************************************************)
(* The server of the newest task is stopped by the loop's shutdown only,   *)
(* unless a task was overtaken before it was through with its own stop.    *)
(***************************************************************************)
THEOREM NewestServerIsKept == Spec => []NewestServerKeptUnlessOvertaken
<1>1. AskedInv => NewestServerKeptUnlessOvertaken
  BY DEF AskedInv
<1>2. QED
  BY <1>1, AskedInvariance, PTL

=============================================================================
