------------------------------ MODULE EngineRun ------------------------------
(***************************************************************************)
(* The life of Engine.Run: the goroutines that it starts in an error group, *)
(* how the failure of one or the cancellation of the context ends them all, *)
(* what it returns and what is left.  In detail: the templ process that     *)
(* RunTemplWatch starts, reads and stops, and the nested error group of the *)
(* HTTP server.  The launcher, the notifier and the file watcher are here   *)
(* what the other modules show of them: they end after the cancellation,    *)
(* but for the launcher when two processes run and only one of them is      *)
(* killed (AppLauncher, LauncherReturns), and for the file watcher whose    *)
(* handler may wait for ever (ChangeHandler, HandlerReturns).  What Run     *)
(* starts outside of the group, and never waits for, is not here: the       *)
(* debouncers, the tasks of the two runners and the handlers of requests.   *)
(***************************************************************************)
EXTENDS Naturals

CONSTANT Graceful   \* what StopProcess may report: always TRUE on Unix
ASSUME GracefulAssumption == Graceful \subseteq BOOLEAN /\ Graceful # {}

Goroutines == {"templ", "server", "launcher", "notifier", "watcher"}
Outcomes == {"nil", "canceled"} \cup Goroutines     \* the goroutine whose error it is

VARIABLES
    main, tempDir, result,      \* Engine.Run, its directory and its result
    ctxDone,                    \* the caller cancelled the context
    group,                      \* the first error of the error group, or "nil"
    status,                     \* of the goroutines
    fatal,                      \* history: an error ended the group, not the caller
    proc, asked, reader, done,  \* templ: the process, an interrupt sent to it, the
                                \* goroutine that reads its output, what Wait returned
    watch,                      \* progress of RunTemplWatch
    production,                 \* the generated files are production output
    listener, closer, srvErr    \* the goroutines of runTemplierServer, their error

mainVars == <<main, tempDir, result, ctxDone>>
groupVars == <<group, status, fatal>>
templVars == <<proc, asked, reader, done, watch, production>>
serverVars == <<listener, closer, srvErr>>
vars == <<mainVars, groupVars, templVars, serverVars>>

Cancelled == ctxDone \/ group # "nil"
Alive == {g \in Goroutines : status[g] \in {"running", "stuck"}}

MainTypeOK ==
    /\ main \in {"start", "build", "setup", "wait", "returned"}
    /\ tempDir \in BOOLEAN /\ result \in {"none", "nil", "failed", "early"}
    /\ ctxDone \in BOOLEAN /\ fatal \in BOOLEAN /\ group \in Outcomes
    /\ status \in [Goroutines -> {"none", "running", "stuck", "ended"}]

TemplTypeOK ==
    /\ proc \in {"none", "running", "stuck", "clean", "dirty"}
    /\ asked \in BOOLEAN /\ production \in BOOLEAN
    /\ reader \in {"none", "reading", "waiting"} /\ done \in {"none", "clean", "dirty"}
    /\ watch \in {"none", "start", "select", "graceful", "forced", "generate",
                 "ended", "failed"}

ServerTypeOK ==
    /\ listener \in {"none", "starting", "serving", "ended"}
    /\ closer \in {"none", "waiting", "ended"} /\ srvErr \in {"nil", "failed"}

TypeOK == MainTypeOK /\ TemplTypeOK /\ ServerTypeOK

Init ==
    /\ main = "start" /\ tempDir = FALSE /\ result = "none" /\ ctxDone = FALSE
    /\ group = "nil" /\ status = [g \in Goroutines |-> "none"] /\ fatal = FALSE
    /\ proc = "none" /\ asked = FALSE /\ reader = "none" /\ done = "none"
    /\ watch = "none" /\ production = TRUE
    /\ listener = "none" /\ closer = "none" /\ srvErr = "nil"

-----------------------------------------------------------------------------
(* The error group *)

\* A goroutine returns; the first error cancels the context of the group.
End(g, error) ==
    /\ status' = [status EXCEPT ![g] = "ended"]
    /\ group' = IF group # "nil" THEN group ELSE IF error = "failed" THEN g ELSE error
    /\ fatal' = (fatal \/ (error = "failed" /\ ~Cancelled))

StartAll(gs) == status' = [g \in Goroutines |-> IF g \in gs THEN "running" ELSE status[g]]

-----------------------------------------------------------------------------
(* Engine.Run *)

\* The version of templ or the temporary directory cannot be had.
StartFails ==
    /\ main = "start"
    /\ main' = "returned" /\ result' = "early"
    /\ UNCHANGED <<tempDir, ctxDone, groupVars, templVars, serverVars>>

\* The first goroutines run while Run goes on to the initial build.
Start ==
    /\ main = "start"
    /\ main' = "build" /\ tempDir' = TRUE
    /\ StartAll({"templ", "server", "launcher"})
    /\ watch' = "start" /\ listener' = "starting" /\ closer' = "waiting"
    /\ UNCHANGED <<result, ctxDone, group, fatal, proc, asked, reader, done, production, srvErr>>

\* The initial commands and build end, also because they are cancelled.
InitialBuild ==
    /\ main = "build"
    /\ main' = "setup"
    /\ UNCHANGED <<tempDir, result, ctxDone, groupVars, templVars, serverVars>>

SetUp ==
    /\ main = "setup"
    /\ main' = "wait"
    /\ StartAll({"notifier", "watcher"})
    /\ UNCHANGED <<tempDir, result, ctxDone, group, fatal, templVars, serverVars>>

\* No absolute path, no file watcher, or once the notifier runs, a pattern or the source
\* directory that the watcher refuses: Run returns at once.
SetUpFails ==
    /\ main = "setup"
    /\ main' = "returned" /\ result' = "early" /\ tempDir' = FALSE
    /\ StartAll({}) \/ StartAll({"notifier"})
    /\ UNCHANGED <<ctxDone, group, fatal, templVars, serverVars>>

\* Mutant: the error of the group is only logged.
WaitSwallows ==
    /\ main = "wait" /\ Alive = {}
    /\ main' = "returned" /\ tempDir' = FALSE /\ result' = "nil"
    /\ UNCHANGED <<ctxDone, groupVars, templVars, serverVars>>

Wait ==
    /\ main = "wait" /\ Alive = {}
    /\ main' = "returned" /\ tempDir' = FALSE
    /\ result' = IF group \in {"nil", "canceled"} THEN "nil" ELSE "failed"
    /\ UNCHANGED <<ctxDone, groupVars, templVars, serverVars>>

\* The caller cancels; an interrupt from the console reaches the templ process as well.
Cancel ==
    /\ ~ctxDone /\ main # "returned"
    /\ ctxDone' = TRUE
    /\ asked' \in {asked, asked \/ proc \in {"running", "stuck"}}
    /\ UNCHANGED <<main, tempDir, result, groupVars, proc, reader, done, watch, production,
                   serverVars>>

LauncherEnds ==
    /\ status["launcher"] = "running" /\ Cancelled
    /\ End("launcher", "nil")
    /\ UNCHANGED <<mainVars, templVars, serverVars>>

\* awaitServerExit killed the process it knows and waits for another one.
LauncherBlocks ==
    /\ status["launcher"] = "running" /\ Cancelled
    /\ status' = [status EXCEPT !["launcher"] = "stuck"]
    /\ UNCHANGED <<mainVars, group, fatal, templVars, serverVars>>

NotifierEnds ==
    /\ status["notifier"] = "running" /\ Cancelled
    /\ End("notifier", "nil")
    /\ UNCHANGED <<mainVars, templVars, serverVars>>

WatcherEnds ==
    /\ status["watcher"] = "running" /\ Cancelled
    /\ End("watcher", "canceled")
    /\ UNCHANGED <<mainVars, templVars, serverVars>>

WatcherFails ==
    /\ status["watcher"] = "running"
    /\ End("watcher", "failed")
    /\ UNCHANGED <<mainVars, templVars, serverVars>>

\* The handler waits for a debouncer that left.
WatcherBlocks ==
    /\ status["watcher"] = "running" /\ Cancelled
    /\ status' = [status EXCEPT !["watcher"] = "stuck"]
    /\ UNCHANGED <<mainVars, group, fatal, templVars, serverVars>>

MainStep == Start \/ InitialBuild \/ SetUp \/ SetUpFails \/ Wait

-----------------------------------------------------------------------------
(* The templ process, and the goroutine that reads its output *)

TemplUnchanged(others) == UNCHANGED <<mainVars, groupVars, serverVars, others>>

\* It exits on an interrupt, after it wrote production output unless it failed to.
Exit ==
    /\ proc = "running" /\ asked
    /\ \/ proc' = "clean" /\ production' = TRUE
       \/ proc' = "dirty" /\ UNCHANGED production
    /\ TemplUnchanged(<<asked, reader, done, watch>>)

Crash ==
    /\ proc = "running"
    /\ proc' = "dirty"
    /\ TemplUnchanged(<<asked, reader, done, watch, production>>)

\* bufio.Scanner gives up on a line that is too long.
LongLine ==
    /\ proc = "running" /\ reader = "reading"
    /\ reader' = "waiting"
    /\ TemplUnchanged(<<proc, asked, done, watch, production>>)

\* Nobody reads what it writes: it blocks on a full pipe, for good.
Block ==
    /\ proc = "running" /\ reader = "waiting"
    /\ proc' = "stuck"
    /\ TemplUnchanged(<<asked, reader, done, watch, production>>)

\* The output ends with the process; cmd.Wait.
Reap ==
    /\ proc \in {"clean", "dirty"} /\ done = "none"
    /\ done' = proc /\ reader' = "waiting"
    /\ TemplUnchanged(<<proc, asked, watch, production>>)

-----------------------------------------------------------------------------
(* RunTemplWatch *)

EndTempl(error) ==
    /\ watch' = IF error = "nil" THEN "ended" ELSE error
    /\ End("templ", error)
    /\ UNCHANGED <<mainVars, serverVars>>

StartTempl ==
    /\ watch = "start"
    /\ \/ /\ watch' = "select" /\ proc' = "running" /\ reader' = "reading" /\ production' = FALSE
          /\ UNCHANGED <<mainVars, groupVars, serverVars>>
       \/ EndTempl("failed") /\ UNCHANGED <<proc, reader, production>>
    /\ UNCHANGED <<asked, done>>

\* The process ended on its own.
TemplDone ==
    /\ watch = "select" /\ done # "none"
    /\ EndTempl(IF done = "clean" THEN "nil" ELSE "failed")
    /\ UNCHANGED <<proc, asked, reader, done, production>>

\* StopProcess on Unix, and on Windows if the console event can be sent.
Interrupt ==
    /\ TRUE \in Graceful
    /\ watch' = "graceful" /\ asked' = TRUE /\ UNCHANGED proc

\* StopProcess on Windows otherwise: the process is killed.
Terminate ==
    /\ FALSE \in Graceful
    /\ watch' = "forced" /\ UNCHANGED asked
    /\ proc' = IF proc \in {"running", "stuck"} THEN "dirty" ELSE proc

StopTempl ==
    /\ watch = "select" /\ Cancelled /\ done = "none"
    /\ Interrupt \/ Terminate
    /\ UNCHANGED <<mainVars, groupVars, serverVars, reader, done, production>>

\* A process that was waited for cannot be stopped: an error, though all is well.
StopTemplFails ==
    /\ watch = "select" /\ Cancelled /\ done # "none"
    /\ EndTempl("failed")
    /\ UNCHANGED <<proc, asked, reader, done, production>>

\* Mutant: the exit is not awaited.
StoppedAtOnce ==
    /\ watch = "graceful"
    /\ EndTempl("nil")
    /\ UNCHANGED <<proc, asked, reader, done, production>>

Stopped ==
    /\ watch = "graceful" /\ done # "none"
    /\ EndTempl(IF done = "clean" THEN "nil" ELSE "failed")
    /\ UNCHANGED <<proc, asked, reader, done, production>>

\* Mutant: whatever was terminated counts as stopped.
TerminatedIsDone ==
    /\ watch = "forced" /\ done # "none"
    /\ EndTempl("nil")
    /\ UNCHANGED <<proc, asked, reader, done, production>>

Terminated ==
    /\ watch = "forced" /\ done # "none"
    /\ \/ done = "clean" /\ EndTempl("nil")
       \/ /\ done = "dirty" /\ watch' = "generate"
          /\ UNCHANGED <<mainVars, groupVars, serverVars>>
    /\ UNCHANGED <<proc, asked, reader, done, production>>

\* RunTemplGenerate
Generate ==
    /\ watch = "generate"
    /\ \/ EndTempl("nil") /\ production' = TRUE
       \/ EndTempl("failed") /\ UNCHANGED production
    /\ UNCHANGED <<proc, asked, reader, done>>

TemplStep ==
    StartTempl \/ TemplDone \/ StopTempl \/ StopTemplFails \/ Stopped \/ Terminated \/ Generate

-----------------------------------------------------------------------------
(* runTemplierServer *)

\* Mutant: the closer waits for the context of Run only.
OuterDone == Cancelled

\* The context of the nested group.
SrvDone == Cancelled \/ srvErr # "nil"

ServerUnchanged == UNCHANGED <<mainVars, groupVars, templVars>>

Listen ==
    /\ listener = "starting" /\ closer = "waiting"
    /\ listener' = "serving"
    /\ UNCHANGED <<closer, srvErr>> /\ ServerUnchanged

\* The address is in use, or accepting connections fails.
ListenFails ==
    /\ listener \in {"starting", "serving"}
    /\ listener' = "ended" /\ srvErr' = "failed"
    /\ UNCHANGED closer /\ ServerUnchanged

CloseServer ==
    /\ closer = "waiting" /\ SrvDone
    /\ closer' = "ended"
    /\ UNCHANGED <<listener, srvErr>> /\ ServerUnchanged

\* ErrServerClosed, also if it was closed before it began to listen.
ListenerEnds ==
    /\ listener \in {"starting", "serving"} /\ closer = "ended"
    /\ listener' = "ended"
    /\ UNCHANGED <<closer, srvErr>> /\ ServerUnchanged

ServerEnds ==
    /\ status["server"] = "running" /\ listener = "ended" /\ closer = "ended"
    /\ End("server", srvErr)
    /\ UNCHANGED <<mainVars, templVars, serverVars>>

ServerStep == Listen \/ CloseServer \/ ListenerEnds \/ ServerEnds

Failures == StartFails \/ ListenFails \/ WatcherFails \/ Crash \/ LongLine \/ Block
Blocking == LauncherBlocks \/ WatcherBlocks
Ending == LauncherEnds \/ NotifierEnds \/ WatcherEnds

Next == Cancel \/ Failures \/ Blocking \/ MainStep \/ Ending \/ Exit \/ Reap \/ TemplStep \/ ServerStep

\* Goroutines are scheduled; the initial build ends; templ exits once interrupted.
Fairness ==
    /\ WF_vars(MainStep) /\ WF_vars(LauncherEnds) /\ WF_vars(NotifierEnds) /\ WF_vars(WatcherEnds)
    /\ WF_vars(Exit) /\ WF_vars(Reap) /\ WF_vars(TemplStep) /\ WF_vars(ServerStep)

Spec == Init /\ [][Next]_vars
FairSpec == Spec /\ Fairness

-----------------------------------------------------------------------------
(* Properties *)

Returned == main = "returned" /\ result # "early"

\* Comment in Run: a fatal error, such as a port in use, is returned and not swallowed,
\* whatever the other goroutines return while they shut down.
FatalErrorReturned == Returned /\ fatal => result = "failed"

\* Once Run returned from its wait, templ has exited and was waited for, nobody reads its
\* output any more, and the port of Templier is closed, whichever goroutine failed
\* first and however templ was stopped: the group waits for its goroutines only, and
\* these have to wait for what they started.  (Nothing is said of the debouncers, the
\* tasks of the runners and the web sockets, which nobody waits for: AppLauncher,
\* NoServerAfterReturn.)
TemplAndPortReleased ==
    Returned => /\ listener = "ended" /\ closer = "ended"
                /\ proc # "none" => done = proc
                /\ proc \notin {"running", "stuck"} /\ reader # "reading"

\* Comment of RunTemplWatch: once it returned without an error the generated files are
\* production output, whether templ was interrupted, terminated, or exited on its own
\* at any moment of that.
ProductionOutput == Returned /\ watch = "ended" => production

\* Comment of Run: it returns once the context is cancelled or a fatal error occurs,
\* unless templ hangs on a pipe nobody reads, the launcher on a second process or the
\* file watcher on its handler.
EngineReturns ==
    (Cancelled \/ srvErr = "failed") ~>
        \/ main = "returned" \/ proc = "stuck"
        \/ "stuck" \in {status["launcher"], status["watcher"]}

\* The inductive strengthening of the three invariants.  Run: what it started and the
\* error it will return.
MainInv ==
    /\ MainTypeOK
    /\ (main = "returned" <=> result # "none") /\ (tempDir <=> main \in {"build", "setup", "wait"})
    /\ main = "start" => \A g \in Goroutines : status[g] = "none"
    /\ main \in {"build", "setup"} =>
           \A g \in {"templ", "server", "launcher"} : status[g] # "none"
    /\ main = "wait" => \A g \in Goroutines : status[g] # "none"
    /\ Returned => /\ \A g \in Goroutines : status[g] = "ended"
                   /\ result = IF group \in {"nil", "canceled"} THEN "nil" ELSE "failed"
    /\ fatal => group \in Goroutines

\* RunTemplWatch: it does not leave before its process was waited for, and what the
\* process or the generation left.
TemplInv ==
    /\ TemplTypeOK
    /\ status["templ"] # "stuck" /\ (status["templ"] = "none" <=> watch = "none")
    /\ status["templ"] = "ended" <=> watch \in {"ended", "failed"}
    /\ proc = "none" <=> watch \in {"none", "start"} \/ (watch = "failed" /\ reader = "none")
    /\ reader = "none" <=> proc = "none"
    /\ done # "none" => proc = done /\ reader = "waiting"
    /\ watch = "generate" => done = "dirty"
    /\ watch \in {"ended", "failed"} /\ proc # "none" => done # "none"
    /\ proc = "clean" \/ watch = "ended" => production

\* runTemplierServer returns after its two goroutines.
ServerInv ==
    /\ ServerTypeOK
    /\ status["server"] = "ended" => listener = "ended" /\ closer = "ended"

RunInv == MainInv /\ TemplInv /\ ServerInv

\* Comment in Run: a caller can tell a normal shutdown from a fatal failure; templ's
\* clean exit is no failure.
CleanShutdown == Returned /\ group = "templ" => done # "clean"

\* An error of templ's last run is returned, so a caller knows what it left.
ErrorOrProduction == Returned /\ result = "nil" => production

\* Every way to return leaves nothing behind.
NothingEverLeft == main = "returned" => Alive = {}

\* templ is heard as long as it runs.
TemplHeard == proc = "running" => reader # "waiting"
=============================================================================
