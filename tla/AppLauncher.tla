---------------------------- MODULE AppLauncher ----------------------------
(***************************************************************************)
(* The app launcher, Engine.runAppLauncher: a loop that takes requests to  *)
(* restart the app server or to run a new binary and hands each to a task  *)
(* of a CtxRun runner, which stops the server that runs, starts the next   *)
(* and waits until it is healthy.  Starting a task cancels the context of  *)
(* its predecessor but does not wait for it, so tasks overlap and share    *)
(* the variables that runAppLauncher's closures capture.                   *)
(*                                                                         *)
(* Every step of a task, and of the loop when it shuts down, is an action  *)
(* of an actor.  A task starts at most one process, which has its number.  *)
(* The builds, the processes and the other users of the error tracker are  *)
(* the environment.                                                        *)
(***************************************************************************)
EXTENDS Naturals

CONSTANTS
    MaxRuns,            \* bound on the requests the launcher takes
    MaxBins,            \* bound on the binaries the builds produce
    OtherErrors         \* FALSE: only the schedules without an error of templ,
                        \* the linter, the compiler or a custom watcher
ASSUME LauncherAssumption ==
    MaxRuns \in Nat /\ MaxBins \in Nat /\ OtherErrors \in BOOLEAN

VARIABLES
    counter, cancel, phase, cancelled,  \* the runner of line 608: see CtxRun
    parentDone,         \* ctx of runAppLauncher is cancelled
    built, files,       \* binaries built so far, binaries that exist
    chRunNewServer,     \* the channel of capacity 1, NoBin when empty
    chRerunServer,      \* the other channel holds a request
    errExit, errOther,  \* the tracker has an error at IndexExit, elsewhere
    latestSrvCmd, latestBinaryPath, srvExited, rerunActive,
    waitExit,           \* processes that count in the wait group
    pc,                 \* progress of every actor
    bin, prev,          \* newBinaryPath and previousBinaryPath of a task
    proc,               \* state of every process
    exe, asked,         \* its executable, and how it was asked to stop
    exitCode,           \* processes whose exit code was seen to be > 0
    panicked,           \* a nil *os.Process was dereferenced
    overtaken           \* history: the windows of a task in which the loop's
                        \* next event overtook it

runnerVars == <<counter, cancel, phase, cancelled, parentDone>>
buildVars == <<built, files, chRunNewServer, errOther>>
taskVars == <<bin, prev>>
procVars == <<proc, exe, asked, exitCode>>
sharedVars == <<latestSrvCmd, latestBinaryPath, srvExited, rerunActive, waitExit>>
vars == <<runnerVars, buildVars, chRerunServer, errExit, taskVars, procVars,
          sharedVars, pc, panicked, overtaken>>

Runner == INSTANCE CtxRun

Runs == 1..MaxRuns
Bins == 1..MaxBins
NoRun == 0
NoBin == 0
Main == 0               \* the launcher's loop as an actor
Actors == 0..MaxRuns

MainPcs == {"select", "stop", "signal", "await", "kill", "join", "returned"}
Awaiting == {"await", "kill", "join"}
\* A task is inside rerun from its first statement to its deferred one.
BodyPcs == {"stop", "signal", "await", "kill", "join", "check", "context",
            "prepare", "start", "register", "health", "reload", "deactivate"}
RunPcs == BodyPcs \cup {"none", "read", "write", "activate", "remove", "end"}

\* Windows of a task before its server is registered: it replaces
\* latestBinaryPath, signals the running server, waits for it and, once it has
\* looked at the context, starts its own.
Window == [paths |-> {"read", "write"},
           stopping |-> {"activate", "stop", "signal"},
           awaiting |-> Awaiting,
           starting |-> {"prepare", "start", "register"}]
Windows == DOMAIN Window

\* "created": exec.Command without a process; "failed": Start failed.
ProcStates == {"none", "created", "failed", "running", "exited", "crashed"}

TypeOfFlags ==
    /\ chRerunServer \in BOOLEAN /\ errExit \in BOOLEAN /\ errOther \in BOOLEAN
    /\ srvExited \in BOOLEAN /\ rerunActive \in BOOLEAN /\ panicked \in BOOLEAN

TypeOfActors ==
    /\ pc \in [Actors -> MainPcs \cup RunPcs]
    /\ pc[Main] \in MainPcs
    /\ \A r \in Runs : pc[r] \in RunPcs

TypeOfBinaries ==
    /\ built \in 0..MaxBins /\ files \subseteq Bins
    /\ chRunNewServer \in 0..MaxBins /\ latestBinaryPath \in 0..MaxBins
    /\ bin \in [Runs -> 0..MaxBins] /\ prev \in [Runs -> 0..MaxBins]
    /\ exe \in [Runs -> 0..MaxBins]

TypeOfProcesses ==
    /\ latestSrvCmd \in 0..MaxRuns
    /\ waitExit \subseteq Runs /\ exitCode \subseteq Runs
    /\ proc \in [Runs -> ProcStates]
    /\ asked \in [Runs -> {"no", "interrupt", "kill"}]

TypeOK ==
    /\ Runner!TypeOK
    /\ TypeOfFlags /\ TypeOfActors /\ TypeOfBinaries /\ TypeOfProcesses
    /\ overtaken \subseteq Windows

Init ==
    /\ Runner!Init
    /\ built = 0 /\ files = {}
    /\ chRunNewServer = NoBin /\ chRerunServer = FALSE
    /\ errExit = FALSE /\ errOther = FALSE
    /\ latestSrvCmd = NoRun /\ latestBinaryPath = NoBin
    /\ srvExited = TRUE /\ rerunActive = FALSE /\ waitExit = {}
    /\ pc = [a \in Actors |-> IF a = Main THEN "select" ELSE "none"]
    /\ bin = [r \in Runs |-> NoBin] /\ prev = [r \in Runs |-> NoBin]
    /\ proc = [r \in Runs |-> "none"] /\ exe = [r \in Runs |-> NoBin]
    /\ asked = [r \in Runs |-> "no"] /\ exitCode = {}
    /\ panicked = FALSE /\ overtaken = {}

CtxDone(r) == parentDone \/ r \in cancelled
NoError == ~errExit /\ ~errOther
HasProcess(p) == p # NoRun /\ proc[p] \in {"running", "exited", "crashed"}
Active(r) == pc[r] \notin {"none", "end"}
InBody(r) == pc[r] \in BodyPcs

\* The loop takes an event, whatever the tasks before are doing.
TakeEvent ==
    /\ ~panicked /\ pc[Main] = "select"
    /\ overtaken' = overtaken \cup
                       {w \in Windows : \E r \in Runs : pc[r] \in Window[w]}

\* Actor a goes from one step to the next.  A panic ends the whole program.
Goto(a, from, to) == ~panicked /\ pc[a] = from /\ pc' = [pc EXCEPT ![a] = to]

-----------------------------------------------------------------------------
(* Environment: builds, watchers, the operating system. *)

\* A build succeeds: IndexExit is reset and the binary is sent.  It is dropped
\* if an error stands by then, which may have come up after the reset; only the
\* binary of the initial build is sent in any case.
BuildSucceeds ==
    /\ ~panicked /\ built < MaxBins
    /\ built' = built + 1
    /\ files' = files \cup {built'}
    /\ errExit' = FALSE
    /\ \/ chRunNewServer = NoBin /\ (~errOther \/ built = 0) /\ chRunNewServer' = built'
       \/ built > 0 /\ UNCHANGED chRunNewServer
    /\ UNCHANGED <<overtaken, runnerVars, errOther, chRerunServer, taskVars, procVars,
                   sharedVars, pc, panicked>>

\* A templ, lint, compiler or custom watcher error appears or goes away.
OtherErrorChanges ==
    /\ ~panicked /\ OtherErrors
    /\ errOther' = ~errOther
    /\ UNCHANGED <<overtaken, runnerVars, built, files, chRunNewServer, chRerunServer, errExit,
                   taskVars, procVars, sharedVars, pc, panicked>>

\* A custom watcher requires a restart.
RequestRerun ==
    /\ ~panicked /\ ~chRerunServer
    /\ chRerunServer' = TRUE
    /\ UNCHANGED <<overtaken, runnerVars, buildVars, errExit, taskVars, procVars, sharedVars,
                   pc, panicked>>

CancelContext ==
    /\ ~panicked
    /\ Runner!CancelParent
    /\ UNCHANGED <<overtaken, buildVars, chRerunServer, errExit, taskVars, procVars, sharedVars,
                   pc, panicked>>

\* A process exits on its own or because it was asked to: cleanly (code 0 or
\* by a signal, which both leave exitCode without an error) or with a code > 0.
Exit(p) ==
    /\ proc[p] = "running"
    /\ \E s \in {"exited", "crashed"} : proc' = [proc EXCEPT ![p] = s]
    /\ UNCHANGED <<overtaken, runnerVars, buildVars, chRerunServer, errExit, taskVars, exe, asked,
                   exitCode, sharedVars, pc, panicked>>

-----------------------------------------------------------------------------
(* stopServer and awaitServerExit, called by the tasks and by the loop. *)

AfterStop(a) == IF a = Main THEN "returned" ELSE "check"
\* awaitServerExit returns at once when the wait group is at zero.
AwaitPc(a) == IF waitExit = {} THEN AfterStop(a) ELSE "await"

\* Mutant: the wait for the process to exit is forgotten.
StopServerNoAwait(a) ==
    /\ IF HasProcess(latestSrvCmd) /\ ~srvExited
         THEN /\ Goto(a, "stop", AfterStop(a))
              /\ asked' = [asked EXCEPT ![latestSrvCmd] = "interrupt"]
         ELSE Goto(a, "stop", AfterStop(a)) /\ UNCHANGED asked
    /\ UNCHANGED <<overtaken, runnerVars, buildVars, chRerunServer, errExit, taskVars, proc, exe,
                   exitCode, sharedVars, panicked>>

\* Mutant: it is not looked at whether there is a server to stop.
StopServerUnchecked(a) ==
    /\ Goto(a, "stop", "signal")
    /\ UNCHANGED <<overtaken, runnerVars, buildVars, chRerunServer, errExit, taskVars, procVars,
                   sharedVars, panicked>>

\* The condition at the top of stopServer.
StopServer(a) ==
    /\ Goto(a, "stop", IF HasProcess(latestSrvCmd) /\ ~srvExited
                         THEN "signal" ELSE AwaitPc(a))
    /\ UNCHANGED <<overtaken, runnerVars, buildVars, chRerunServer, errExit, taskVars, procVars,
                   sharedVars, panicked>>

\* latestSrvCmd is read again for cmdrun.StopProcess: another task may have
\* replaced it by a command that has no process yet.  Signalling a process that
\* exited fails and changes nothing.
Signal(a) ==
    /\ IF HasProcess(latestSrvCmd)
         THEN /\ Goto(a, "signal", AwaitPc(a))
              /\ asked' = IF proc[latestSrvCmd] = "running" /\ asked[latestSrvCmd] = "no"
                            THEN [asked EXCEPT ![latestSrvCmd] = "interrupt"]
                            ELSE asked
              /\ UNCHANGED panicked
         ELSE /\ ~panicked /\ pc[a] = "signal"
              /\ panicked' = TRUE
              /\ UNCHANGED <<pc, asked>>
    /\ UNCHANGED <<overtaken, runnerVars, buildVars, chRerunServer, errExit, taskVars, proc, exe,
                   exitCode, sharedVars>>

\* serverShutdownTimeout passes before the wait group reaches zero.
AwaitTimeout(a) ==
    /\ waitExit # {}
    /\ Goto(a, "await", "kill")
    /\ UNCHANGED <<overtaken, runnerVars, buildVars, chRerunServer, errExit, taskVars, procVars,
                   sharedVars, panicked>>

\* Mutant: a server that ignores the interrupt is waited for, never killed.
KillNothing(a) ==
    /\ Goto(a, "kill", IF waitExit = {} THEN AfterStop(a) ELSE "join")
    /\ UNCHANGED <<overtaken, runnerVars, buildVars, chRerunServer, errExit, taskVars, procVars,
                   sharedVars, panicked>>

\* Process.Kill of the latest command, then waitExit.Wait().
Kill(a) ==
    /\ Goto(a, "kill", IF waitExit = {} THEN AfterStop(a) ELSE "join")
    /\ asked' = IF HasProcess(latestSrvCmd) /\ proc[latestSrvCmd] = "running"
                  THEN [asked EXCEPT ![latestSrvCmd] = "kill"]
                  ELSE asked
    /\ UNCHANGED <<overtaken, runnerVars, buildVars, chRerunServer, errExit, taskVars, proc, exe,
                   exitCode, sharedVars, panicked>>

\* The goroutine of waitExit.Go sees the end of p: it stores the exit code and
\* srvExited and leaves the wait group, which releases its waiters at zero.
Reap(p) ==
    /\ ~panicked /\ p \in waitExit /\ proc[p] \in {"failed", "exited", "crashed"}
    /\ exitCode' = IF proc[p] = "crashed" THEN exitCode \cup {p} ELSE exitCode
    /\ srvExited' = TRUE
    /\ waitExit' = waitExit \ {p}
    /\ pc' = [a \in Actors |-> IF waitExit' = {} /\ pc[a] \in {"await", "join"}
                                 THEN AfterStop(a) ELSE pc[a]]
    /\ UNCHANGED <<overtaken, runnerVars, buildVars, chRerunServer, errExit, taskVars, proc, exe,
                   asked, latestSrvCmd, latestBinaryPath, rerunActive, panicked>>

-----------------------------------------------------------------------------
(* A task: the function of line 612 or 620 around rerun. *)

ReadPrevious(r) ==
    /\ Goto(r, "read", "write")
    /\ prev' = [prev EXCEPT ![r] = latestBinaryPath]
    /\ UNCHANGED <<overtaken, runnerVars, buildVars, chRerunServer, errExit, bin, procVars,
                   sharedVars, panicked>>

\* Mutant: the path is replaced before the previous one is remembered.
WriteLatestFirst(r) ==
    /\ Goto(r, "write", "activate")
    /\ latestBinaryPath' = bin[r]
    /\ prev' = [prev EXCEPT ![r] = bin[r]]
    /\ UNCHANGED <<overtaken, runnerVars, buildVars, chRerunServer, errExit, bin, procVars,
                   latestSrvCmd, srvExited, rerunActive, waitExit, panicked>>

WriteLatest(r) ==
    /\ Goto(r, "write", "activate")
    /\ latestBinaryPath' = bin[r]
    /\ UNCHANGED <<overtaken, runnerVars, buildVars, chRerunServer, errExit, taskVars, procVars,
                   latestSrvCmd, srvExited, rerunActive, waitExit, panicked>>

Activate(r) ==
    /\ Goto(r, "activate", "stop")
    /\ rerunActive' = TRUE
    /\ UNCHANGED <<overtaken, runnerVars, buildVars, chRerunServer, errExit, taskVars, procVars,
                   latestSrvCmd, latestBinaryPath, srvExited, waitExit, panicked>>

\* Mutant: an error leaves rerun without lowering the flag.
CheckErrorsNoDefer(r) ==
    /\ IF NoError
         THEN Goto(r, "check", "context") /\ UNCHANGED runnerVars
         ELSE Goto(r, "check", "end") /\ Runner!Return(r)
    /\ UNCHANGED <<overtaken, buildVars, chRerunServer, errExit, taskVars, procVars, sharedVars,
                   panicked>>

\* Any error, an old exit included, refuses the restart: the server is stopped
\* by now.
CheckErrors(r) ==
    /\ Goto(r, "check", IF NoError THEN "context" ELSE "deactivate")
    /\ UNCHANGED <<overtaken, runnerVars, buildVars, chRerunServer, errExit, taskVars, procVars,
                   sharedVars, panicked>>

\* Mutant: rerun goes on with a cancelled context.
CheckContextNever(r) ==
    /\ Goto(r, "context", "prepare")
    /\ UNCHANGED <<overtaken, runnerVars, buildVars, chRerunServer, errExit, taskVars, procVars,
                   sharedVars, panicked>>

CheckContext(r) ==
    /\ Goto(r, "context", IF CtxDone(r) THEN "deactivate" ELSE "prepare")
    /\ UNCHANGED <<overtaken, runnerVars, buildVars, chRerunServer, errExit, taskVars, procVars,
                   sharedVars, panicked>>

\* exec.Command(latestBinaryPath) up to latestSrvCmd = c.
Prepare(r) ==
    /\ Goto(r, "prepare", "start")
    /\ exe' = [exe EXCEPT ![r] = latestBinaryPath]
    /\ proc' = [proc EXCEPT ![r] = "created"]
    /\ latestSrvCmd' = r
    /\ UNCHANGED <<overtaken, runnerVars, buildVars, chRerunServer, errExit, taskVars, asked,
                   exitCode, latestBinaryPath, srvExited, rerunActive, waitExit, panicked>>

\* c.Start() fails for a missing executable and may fail for any other reason.
Start(r) ==
    /\ Goto(r, "start", "register")
    /\ \E s \in {"failed"} \cup (IF exe[r] \in files THEN {"running"} ELSE {}) :
           proc' = [proc EXCEPT ![r] = s]
    /\ UNCHANGED <<overtaken, runnerVars, buildVars, chRerunServer, errExit, taskVars, exe, asked,
                   exitCode, sharedVars, panicked>>

\* srvExited is reset if there is a process, waitExit.Go is called in any case.
Register(r) ==
    /\ Goto(r, "register", "health")
    /\ srvExited' = IF HasProcess(r) THEN FALSE ELSE srvExited
    /\ waitExit' = waitExit \cup {r}
    /\ UNCHANGED <<overtaken, runnerVars, buildVars, chRerunServer, errExit, taskVars, procVars,
                   latestSrvCmd, latestBinaryPath, rerunActive, panicked>>

\* The health check gets an answer, from whatever server listens on the host.
HealthOK(r) ==
    /\ \E p \in Runs : proc[p] = "running"
    /\ Goto(r, "health", "reload")
    /\ UNCHANGED <<overtaken, runnerVars, buildVars, chRerunServer, errExit, taskVars, procVars,
                   sharedVars, panicked>>

\* The request fails and the process is known to have exited with an error.
HealthExited(r) ==
    /\ r \in exitCode
    /\ Goto(r, "health", "deactivate")
    /\ errExit' = TRUE
    /\ UNCHANGED <<overtaken, runnerVars, buildVars, chRerunServer, taskVars, procVars,
                   sharedVars, panicked>>

\* Mutant: a server that does not answer is stopped.
HealthAbandonedStops(r) ==
    /\ Goto(r, "health", "stop")
    /\ UNCHANGED <<overtaken, runnerVars, buildVars, chRerunServer, errExit, taskVars, procVars,
                   sharedVars, panicked>>

\* The context is found cancelled, or maxRetries requests failed.  This may
\* happen at any time and need not happen while a server runs: see Unhindered.
HealthAbandoned(r) ==
    /\ Goto(r, "health", "deactivate")
    /\ UNCHANGED <<overtaken, runnerVars, buildVars, chRerunServer, errExit, taskVars, procVars,
                   sharedVars, panicked>>

\* reload.BroadcastNonblock(): what the listeners make of it is modelled apart.
Broadcast(r) ==
    /\ Goto(r, "reload", "deactivate")
    /\ UNCHANGED <<overtaken, runnerVars, buildVars, chRerunServer, errExit, taskVars, procVars,
                   sharedVars, panicked>>

\* The deferred rerunActive.Store(false); the task of a restart request and the
\* first task with a binary have nothing left to do.
Deactivate(r) ==
    /\ rerunActive' = FALSE
    /\ IF bin[r] # NoBin /\ prev[r] # NoBin
         THEN Goto(r, "deactivate", "remove") /\ UNCHANGED runnerVars
         ELSE Goto(r, "deactivate", "end") /\ Runner!Return(r)
    /\ UNCHANGED <<overtaken, buildVars, chRerunServer, errExit, taskVars, procVars,
                   latestSrvCmd, latestBinaryPath, srvExited, waitExit, panicked>>

\* os.Remove(previousBinaryPath); removing a file twice only logs an error.
RemovePrevious(r) ==
    /\ Goto(r, "remove", "end")
    /\ files' = files \ {prev[r]}
    /\ Runner!Return(r)
    /\ UNCHANGED <<overtaken, built, chRunNewServer, errOther, chRerunServer, errExit, taskVars,
                   procVars, sharedVars, panicked>>

\* The runner's deferred clean-up.
CleanupTask(r) ==
    /\ ~panicked
    /\ Runner!Cleanup(r)
    /\ UNCHANGED <<overtaken, buildVars, chRerunServer, errExit, taskVars, procVars, sharedVars,
                   pc, panicked>>

-----------------------------------------------------------------------------
(* The loop. *)

\* Mutant: the next task is started beside the runner, its predecessor goes on.
TakeRerunBeside ==
    /\ TakeEvent /\ chRerunServer /\ counter < MaxRuns
    /\ chRerunServer' = FALSE
    /\ counter' = counter + 1 /\ cancel' = counter'
    /\ phase' = [phase EXCEPT ![counter'] = "running"]
    /\ pc' = [pc EXCEPT ![counter'] = "activate"]
    /\ UNCHANGED <<cancelled, parentDone, buildVars, errExit, taskVars, procVars, sharedVars,
                   panicked>>

\* case <-e.chRerunServer
TakeRerun ==
    /\ TakeEvent /\ chRerunServer
    /\ chRerunServer' = FALSE
    /\ Runner!Go
    /\ pc' = [pc EXCEPT ![counter'] = "activate"]
    /\ UNCHANGED <<buildVars, errExit, taskVars, procVars, sharedVars, panicked>>

\* case newBinaryPath := <-e.chRunNewServer; no sender sends an empty path.
TakeNewServer ==
    /\ TakeEvent /\ chRunNewServer # NoBin
    /\ chRunNewServer' = NoBin
    /\ Runner!Go
    /\ bin' = [bin EXCEPT ![counter'] = chRunNewServer]
    /\ pc' = [pc EXCEPT ![counter'] = "read"]
    /\ UNCHANGED <<built, files, errOther, chRerunServer, errExit, prev, procVars,
                   sharedVars, panicked>>

\* case <-ctx.Done()
TakeDone ==
    /\ TakeEvent /\ parentDone
    /\ pc' = [pc EXCEPT ![Main] = "stop"]
    /\ UNCHANGED <<runnerVars, buildVars, chRerunServer, errExit, taskVars, procVars,
                   sharedVars, panicked>>

-----------------------------------------------------------------------------
StopStep(a) == StopServer(a) \/ Signal(a) \/ AwaitTimeout(a) \/ Kill(a)

HealthStep(r) == HealthOK(r) \/ HealthExited(r) \/ HealthAbandoned(r)

TaskStep(r) ==
    \/ ReadPrevious(r) \/ WriteLatest(r) \/ Activate(r)
    \/ CheckErrors(r) \/ CheckContext(r)
    \/ Prepare(r) \/ Start(r) \/ Register(r)
    \/ HealthStep(r) \/ Broadcast(r)
    \/ Deactivate(r) \/ RemovePrevious(r) \/ CleanupTask(r)

LoopStep == TakeRerun \/ TakeNewServer \/ TakeDone

EnvStep ==
    \/ BuildSucceeds \/ OtherErrorChanges \/ RequestRerun \/ CancelContext
    \/ \E p \in Runs : Exit(p)

Next ==
    \/ \E a \in Actors : StopStep(a)
    \/ \E r \in Runs : TaskStep(r) \/ Reap(r)
    \/ LoopStep
    \/ EnvStep

\* A request to a running server may never be answered; without a server it is
\* refused, and it returns when its context ends.
Unhindered(r) ==
    pc[r] = "health" => CtxDone(r) \/ \A p \in Runs : proc[p] # "running"

\* Goroutines are scheduled, timers fire, the health check ends if nothing keeps
\* it, the loop takes what is ready, and a killed process exits.  Nothing makes
\* a process exit that was only interrupted.
Fairness ==
    /\ WF_vars(StopStep(Main) \/ TakeDone)
    /\ \A r \in Runs :
        /\ WF_vars(StopStep(r) \/ (Unhindered(r) /\ TaskStep(r)))
        /\ WF_vars(Reap(r) \/ (asked[r] = "kill" /\ Exit(r)))

Spec == Init /\ [][Next]_vars
FairSpec == Spec /\ Fairness

-----------------------------------------------------------------------------
(* Properties that hold for all schedules. *)

\* The executable of the next restart is never removed, whatever tasks overlap:
\* every task removes only the path it replaced, and a path is written once.
LatestBinaryExists == latestBinaryPath # NoBin => latestBinaryPath \in files

\* rerunActive is never left raised: while it is, some task is still going to
\* lower it, so reloads requested by templ are not suppressed for good.
FlagIsLowered == rerunActive => \E r \in Runs : InBody(r)

\* A process that runs and was not registered yet belongs to a task that is
\* about to register it; every other one is waited for by the wait group.
RunningIsAwaited ==
    \A p \in Runs : proc[p] = "running" => p \in waitExit \/ pc[p] = "register"

\* Seen through its runner alone the launcher is a CtxRun: it starts its tasks by
\* Runner.Go, and a task that ends runs the runner's clean-up, so the guarantees
\* of CtxRun (one uncancelled task, the newest one) hold for the launcher.
ImplementsRunner == Runner!Spec

\* The strengthening of LatestBinaryExists.  Unwritten binaries (in the channel,
\* or of a task that did not store its path yet) are nobody's previous binary;
\* what a task is going to remove is not the latest binary, and never again is.
Unwritten(r) == pc[r] \in {"read", "write"}

BinariesBuilt ==
    /\ files \subseteq 1..built /\ chRunNewServer <= built /\ latestBinaryPath <= built
    /\ \A r \in Runs : bin[r] <= built /\ prev[r] <= built

TasksInOrder ==
    \A r \in Runs :
        /\ r > counter => pc[r] = "none"
        /\ pc[r] = "none" => bin[r] = NoBin /\ prev[r] = NoBin

ChannelFresh ==
    chRunNewServer # NoBin =>
        /\ chRunNewServer \in files /\ chRunNewServer # latestBinaryPath
        /\ \A r \in Runs : bin[r] # chRunNewServer /\ prev[r] # chRunNewServer

UnwrittenFresh ==
    \A r \in Runs : Unwritten(r) =>
        /\ bin[r] \in files /\ bin[r] # latestBinaryPath
        /\ \A s \in Runs : prev[s] # bin[r] /\ (s # r => bin[s] # bin[r])

PreviousRetired ==
    \A r \in Runs : ~Unwritten(r) /\ prev[r] # NoBin => prev[r] # latestBinaryPath

BinaryInv ==
    /\ LatestBinaryExists /\ BinariesBuilt /\ TasksInOrder
    /\ ChannelFresh /\ UnwrittenFresh /\ PreviousRetired

-----------------------------------------------------------------------------
(* Properties that a task which is overtaken at the wrong moment can break.  *)
(* The next event does not wait for the task before: each property is stated *)
(* first as the code's comments mean it, then for the schedules in which no  *)
(* event overtook a task in the window that breaks it.  A task overtaken     *)
(* anywhere else, during its health check or before its look at the context, *)
(* is covered.                                                               *)

\* There is at most one server process: the next one starts after the one
\* before exited.
SingleServer ==
    \A p, q \in Runs : proc[p] = "running" /\ proc[q] = "running" => p = q

\* A superseded task whose stop is still under way does no harm: only one that
\* was already past its look at the context starts a second server.
SingleServerUnlessOvertaken == "starting" \notin overtaken => SingleServer

\* A binary is removed only after the process executing it was stopped.
RemovedAfterStop == \A p \in Runs : proc[p] = "running" => exe[p] \in files

\* A superseded task may remove its previous binary late, while its successor's
\* server runs: that server never executes the binary, unless tasks were
\* overtaken while they replaced the path or started their server.
RemovedAfterStopUnlessOvertaken ==
    overtaken \cap {"paths", "starting"} = {} => RemovedAfterStop

\* When the launcher returned no server process is left behind, and none is
\* started later.
NoServerAfterReturn ==
    pc[Main] = "returned" => \A p \in Runs : proc[p] # "running"

\* A task the shutdown overtook before its look at the context starts nothing.
NoServerAfterReturnUnlessOvertaken == "starting" \notin overtaken => NoServerAfterReturn

\* Only a later task or the launcher's shutdown stops the server that the
\* newest task started.
NewestServerKept ==
    pc[Main] = "select" /\ counter > 0 => asked[counter] = "no"

\* A superseded task stops its successor's server only if it was overtaken
\* before it was through with its own stop.
NewestServerKeptUnlessOvertaken ==
    overtaken \cap {"paths", "stopping", "awaiting"} = {} => NewestServerKept

\* Between two events the process that runs, if any, executes the latest binary.
SettledServerIsLatest ==
    (\A r \in Runs : ~Active(r)) =>
        \A p \in Runs : proc[p] = "running" => exe[p] = latestBinaryPath

\* Tasks that overlap elsewhere leave the server of the latest binary behind.
SettledServerIsLatestUnlessOvertaken ==
    overtaken \cap {"paths", "starting"} = {} => SettledServerIsLatest

\* stopServer looks at latestSrvCmd.Process and reads latestSrvCmd again for
\* cmdrun.StopProcess.  In between another task may put a command without a
\* process there; that takes a task that was overtaken before it signalled its
\* predecessor's server, or one overtaken as it was about to start its own.
NoPanic == ~panicked
NoPanicUnlessOvertaken ==
    overtaken \cap {"paths", "stopping", "starting"} = {} => NoPanic

\* Engine.Run relays templ's reloads unless rerunActive is raised: it would have
\* to be raised as long as a task is inside rerun.
ReloadsSuppressed == \A r \in Runs : InBody(r) => rerunActive

\* The OPTIONS request of the health check has no timeout of its own: a server
\* that accepts it and never answers keeps the task.
MayHang(r) == pc[r] = "health" /\ \E p \in Runs : proc[p] = "running"

\* A task comes to its end, or to a health check that a running server does not
\* answer; once it is superseded, or the engine shuts down, it ends in any case,
\* also if the server it is stopping ignores the interrupt.
TasksEnd ==
    \A r \in Runs :
        /\ Active(r) ~> (~Active(r) \/ MayHang(r))
        /\ (Active(r) /\ CtxDone(r)) ~> ~Active(r)

\* Two servers that run at once, or a panic, are the only obstacle.
TasksEndUnlessOvertaken ==
    \A r \in Runs :
        /\ Active(r) ~> (~Active(r) \/ MayHang(r) \/ panicked \/ "starting" \in overtaken)
        /\ (Active(r) /\ CtxDone(r)) ~> (~Active(r) \/ panicked \/ "starting" \in overtaken)

\* When the context is cancelled the launcher returns.
LauncherReturns == parentDone ~> (pc[Main] = "returned" \/ panicked)

\* Only a second server, which is never killed, can keep the launcher.
LauncherReturnsUnlessOvertaken ==
    parentDone ~> (pc[Main] = "returned" \/ panicked \/ "starting" \in overtaken)

\* A restart is refused because of an error that has to be repaired first, not
\* because the server it is to replace exited.
RefusedForStandingError ==
    [][\A r \in Runs : pc[r] = "check" /\ pc'[r] = "deactivate" => errOther]_vars
=============================================================================
