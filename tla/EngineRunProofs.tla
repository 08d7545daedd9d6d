-------------------------- MODULE EngineRunProofs --------------------------
(***************************************************************************)
(* Proofs about the life of Engine.Run, whatever StopProcess may report.   *)
(* RunInv is inductive.  Its three parts speak of the variables of Run,    *)
(* of templ and of the server; an action of one part leaves the others     *)
(* alone but for the end of its own goroutine in the error group.          *)
(***************************************************************************)
EXTENDS EngineRun, TLAPS

\* Each part depends on its own variables and on the status of its goroutine.
LEMMA MainKept ==
  ASSUME MainInv, UNCHANGED <<mainVars, groupVars>>
  PROVE  MainInv'
BY DEF MainInv, MainTypeOK, mainVars, groupVars, Returned

LEMMA TemplKept ==
  ASSUME TemplInv, UNCHANGED templVars, status'["templ"] = status["templ"]
  PROVE  TemplInv'
BY Zenon DEF TemplInv, TemplTypeOK, templVars

LEMMA ServerKept ==
  ASSUME ServerInv, UNCHANGED serverVars, status'["server"] = status["server"]
  PROVE  ServerInv'
BY DEF ServerInv, ServerTypeOK, serverVars

\* A goroutine that ends leaves Run's part intact: the first error stays.
LEMMA EndKeepsMain ==
  ASSUME MainInv, NEW g \in Goroutines, status[g] = "running",
         NEW error \in {"nil", "canceled", "failed"},
         End(g, error), UNCHANGED mainVars
  PROVE  MainInv' /\ status' = [status EXCEPT ![g] = "ended"]
<1>1. status' = [status EXCEPT ![g] = "ended"]
  BY DEF End
<1>2. main # "start" /\ ~Returned /\ (Returned' <=> Returned)
  BY Zenon DEF MainInv, Returned, mainVars
<1>3. group' \in Outcomes
  BY DEF End, Outcomes, MainInv, MainTypeOK
<1>4. fatal' \in BOOLEAN
  BY Zenon DEF End, MainInv, MainTypeOK
<1>5. fatal' => group' \in Goroutines
  <2>1. CASE fatal
    BY <2>1 DEF End, MainInv, Goroutines
  <2>2. CASE ~fatal
    BY <2>2 DEF End, Cancelled, Goroutines
  <2>3. QED
    BY <2>1, <2>2
<1>6. status' \in [Goroutines -> {"none", "running", "stuck", "ended"}]
      /\ \A h \in Goroutines : status[h] # "none" => status'[h] # "none"
  BY <1>1 DEF MainInv, MainTypeOK
<1>7. MainTypeOK'
  BY <1>3, <1>4, <1>6, Zenon DEF MainInv, MainTypeOK, mainVars
<1>8. (main' = "returned" <=> result' # "none")
      /\ (tempDir' <=> main' \in {"build", "setup", "wait"})
  BY Zenon DEF MainInv, mainVars
<1>9. main' = main /\ ~Returned'
  BY <1>2, Zenon DEF mainVars
<1>10. main' \in {"build", "setup"} =>
           \A h \in {"templ", "server", "launcher"} : status'[h] # "none"
  BY <1>6, <1>9 DEF MainInv, Goroutines
<1>11. main' = "wait" => \A h \in Goroutines : status'[h] # "none"
  BY <1>6, <1>9 DEF MainInv
<1>12. QED
  BY <1>1, <1>2, <1>5, <1>7, <1>8, <1>9, <1>10, <1>11, Zenon DEF MainInv

\* A step of Run, or its caller's.
LEMMA RunKeepsInv ==
  ASSUME RunInv, StartFails \/ MainStep \/ Cancel
  PROVE  RunInv'
<1> USE DEF RunInv
<1>1. CASE StartFails
  <2>1. MainInv'
    BY <1>1 DEF StartFails, MainInv, MainTypeOK, groupVars, Returned
  <2>2. TemplInv' /\ ServerInv'
    BY <1>1, TemplKept, ServerKept DEF StartFails, groupVars
  <2>3. QED
    BY <2>1, <2>2
<1>2. CASE Start
  <2>1. MainInv'
    BY <1>2 DEF Start, StartAll, MainInv, MainTypeOK, Returned, Goroutines
  <2>2. TemplInv'
    BY <1>2 DEF Start, StartAll, MainInv, TemplInv, TemplTypeOK, Goroutines
  <2>3. ServerInv'
    BY <1>2 DEF Start, StartAll, ServerInv, ServerTypeOK, Goroutines
  <2>4. QED
    BY <2>1, <2>2, <2>3
<1>3. CASE InitialBuild
  <2>1. MainInv'
    BY <1>3 DEF InitialBuild, MainInv, MainTypeOK, groupVars, Returned
  <2>2. TemplInv' /\ ServerInv'
    BY <1>3, TemplKept, ServerKept DEF InitialBuild, groupVars
  <2>3. QED
    BY <2>1, <2>2
<1>4. CASE SetUp
  <2>1. MainInv'
    BY <1>4 DEF SetUp, StartAll, MainInv, MainTypeOK, Returned, Goroutines
  <2>2. status'["templ"] = status["templ"] /\ status'["server"] = status["server"]
    BY <1>4 DEF SetUp, StartAll, Goroutines
  <2>3. TemplInv' /\ ServerInv'
    BY <1>4, <2>2, TemplKept, ServerKept DEF SetUp
  <2>4. QED
    BY <2>1, <2>3
<1>5. CASE SetUpFails
  <2>1. PICK gs \in {{}, {"notifier"}} : StartAll(gs)
    BY <1>5 DEF SetUpFails
  <2>2. MainInv'
    BY <1>5, <2>1 DEF SetUpFails, StartAll, MainInv, MainTypeOK, Returned, Goroutines
  <2>3. status'["templ"] = status["templ"] /\ status'["server"] = status["server"]
    BY <2>1 DEF StartAll, Goroutines
  <2>4. TemplInv' /\ ServerInv'
    BY <1>5, <2>3, TemplKept, ServerKept DEF SetUpFails
  <2>5. QED
    BY <2>2, <2>4
<1>6. CASE Wait
  <2>1. \A g \in Goroutines : status[g] = "ended"
    BY <1>6 DEF Wait, Alive, MainInv, MainTypeOK
  <2>2. MainInv'
    BY <1>6, <2>1 DEF Wait, MainInv, MainTypeOK, groupVars, Returned
  <2>3. TemplInv' /\ ServerInv'
    BY <1>6, TemplKept, ServerKept DEF Wait, groupVars
  <2>4. QED
    BY <2>2, <2>3
<1>7. CASE Cancel
  <2>1. MainInv'
    BY <1>7 DEF Cancel, MainInv, MainTypeOK, groupVars, Returned
  <2>2. status' = status
    BY <1>7 DEF Cancel, groupVars
  <2>3. asked' \in BOOLEAN
    BY <1>7, Zenon DEF Cancel, TemplInv, TemplTypeOK
  <2>4. TemplInv'
    BY <1>7, <2>2, <2>3, Zenon DEF Cancel, TemplInv, TemplTypeOK
  <2>5. ServerInv'
    BY <1>7, <2>2, ServerKept DEF Cancel
  <2>6. QED
    BY <2>1, <2>4, <2>5
<1>8. QED
  BY <1>1, <1>2, <1>3, <1>4, <1>5, <1>6, <1>7 DEF MainStep

\* A step of the launcher, the notifier or the file watcher.
LEMMA OthersKeepInv ==
  ASSUME RunInv, Ending \/ WatcherFails \/ Blocking
  PROVE  RunInv'
<1> USE DEF RunInv
<1>1. CASE Ending \/ WatcherFails
  <2>1. PICK g \in {"launcher", "notifier", "watcher"}, error \in {"nil", "canceled", "failed"} :
            /\ status[g] = "running" /\ End(g, error)
            /\ UNCHANGED <<mainVars, templVars, serverVars>>
    BY <1>1 DEF Ending, LauncherEnds, NotifierEnds, WatcherEnds, WatcherFails
  <2>2. MainInv' /\ status' = [status EXCEPT ![g] = "ended"]
    BY <2>1, EndKeepsMain DEF Goroutines
  <2>3. status'["templ"] = status["templ"] /\ status'["server"] = status["server"]
    BY <2>2 DEF MainInv, MainTypeOK, Goroutines
  <2>4. QED
    BY <2>1, <2>2, <2>3, TemplKept, ServerKept
<1>2. CASE Blocking
  <2>1. PICK g \in {"launcher", "watcher"} :
            /\ status[g] = "running" /\ status' = [status EXCEPT ![g] = "stuck"]
            /\ UNCHANGED <<mainVars, group, fatal, templVars, serverVars>>
    BY <1>2 DEF Blocking, LauncherBlocks, WatcherBlocks
  <2>2. MainInv'
    BY <2>1 DEF MainInv, MainTypeOK, mainVars, Returned, Goroutines
  <2>3. status'["templ"] = status["templ"] /\ status'["server"] = status["server"]
    BY <2>1 DEF MainInv, MainTypeOK, Goroutines
  <2>4. QED
    BY <2>1, <2>2, <2>3, TemplKept, ServerKept
<1>3. QED
  BY <1>1, <1>2

\* A step of the templ process or of the goroutine that reads its output.
LEMMA ProcessKeepsInv ==
  ASSUME RunInv, Exit \/ Crash \/ LongLine \/ Block \/ Reap
  PROVE  RunInv'
<1>1. UNCHANGED <<mainVars, groupVars, serverVars, watch>>
  BY DEF Exit, Crash, LongLine, Block, Reap, TemplUnchanged
<1>2. status' = status /\ watch' = watch
  BY <1>1 DEF groupVars
<1>3. MainInv' /\ ServerInv'
  BY <1>1, <1>2, MainKept, ServerKept DEF RunInv
<1>4. TemplInv'
  <2> USE DEF RunInv, TemplInv, TemplTypeOK, TemplUnchanged
  <2>1. CASE Exit
    BY <1>2, <2>1, Zenon DEF Exit
  <2>2. CASE Crash
    BY <1>2, <2>2, Zenon DEF Crash
  <2>3. CASE LongLine
    BY <1>2, <2>3, Zenon DEF LongLine
  <2>4. CASE Block
    BY <1>2, <2>4, Zenon DEF Block
  <2>5. CASE Reap
    BY <1>2, <2>5, Zenon DEF Reap
  <2>6. QED
    BY <2>1, <2>2, <2>3, <2>4, <2>5
<1>5. QED
  BY <1>3, <1>4 DEF RunInv

\* RunTemplWatch leaves, with the process waited for and its output as it should be.
LEMMA EndTemplKeepsInv ==
  ASSUME RunInv, NEW error \in {"nil", "failed"}, EndTempl(error),
         watch \in {"start", "select", "graceful", "forced", "generate"},
         UNCHANGED <<proc, asked, reader, done>>,
         watch = "start" => error = "failed",
         watch # "start" => done # "none",
         production' \in BOOLEAN, production => production',
         error = "nil" => production'
  PROVE  RunInv'
<1> USE DEF RunInv
<1>1. status["templ"] = "running"
  BY DEF TemplInv, MainInv, MainTypeOK, Goroutines
<1>2. End("templ", error) /\ UNCHANGED <<mainVars, serverVars>>
  BY DEF EndTempl
<1>3. MainInv' /\ status' = [status EXCEPT !["templ"] = "ended"]
  BY <1>1, <1>2, EndKeepsMain DEF Goroutines
<1>4. status'["templ"] = "ended" /\ status'["server"] = status["server"]
  BY <1>3 DEF MainInv, MainTypeOK, Goroutines
<1>5. watch' = IF error = "nil" THEN "ended" ELSE "failed"
  BY DEF EndTempl
<1>6. TemplInv'
  BY <1>4, <1>5 DEF TemplInv, TemplTypeOK
<1>7. QED
  BY <1>2, <1>3, <1>4, <1>6, ServerKept

\* A step of RunTemplWatch.
LEMMA TemplKeepsInv ==
  ASSUME RunInv, TemplStep
  PROVE  RunInv'
<1> USE DEF RunInv
<1>0. /\ production \in BOOLEAN /\ TemplTypeOK
      /\ done = "clean" => production
      /\ watch = "start" => proc = "none" /\ reader = "none" /\ done = "none"
  BY DEF TemplInv, TemplTypeOK
<1>1. CASE StartTempl
  <2>1. CASE watch' = "select"
    <3>1. UNCHANGED <<mainVars, groupVars, serverVars, asked, done>> /\ watch = "start"
          /\ proc' = "running" /\ reader' = "reading" /\ production' = FALSE
      BY <1>1, <2>1 DEF StartTempl, EndTempl
    <3>2. status' = status
      BY <3>1 DEF groupVars
    <3>3. MainInv' /\ ServerInv'
      BY <3>1, <3>2, MainKept, ServerKept
    <3>4. done = "none"
      BY <1>0, <3>1
    <3>5. TemplInv'
      BY <2>1, <3>1, <3>2, <3>4, Zenon DEF TemplInv, TemplTypeOK
    <3>6. QED
      BY <3>3, <3>5
  <2>2. CASE watch' # "select"
    BY <1>0, <1>1, <2>2, EndTemplKeepsInv DEF StartTempl
  <2>3. QED
    BY <2>1, <2>2
<1>2. CASE TemplDone \/ StopTemplFails \/ Stopped
  <2>1. PICK error \in {"nil", "failed"} :
            /\ watch \in {"select", "graceful"} /\ done # "none" /\ EndTempl(error)
            /\ error = "nil" => done = "clean"
            /\ UNCHANGED <<proc, asked, reader, done, production>>
    BY <1>2 DEF TemplDone, StopTemplFails, Stopped
  <2>2. QED
    BY <1>0, <2>1, EndTemplKeepsInv
<1>3. CASE StopTempl
  <2>1. UNCHANGED <<mainVars, groupVars, serverVars, reader, done, production>>
        /\ watch = "select" /\ watch' \in {"graceful", "forced"} /\ done = "none"
    BY <1>3 DEF StopTempl, Interrupt, Terminate
  <2>2. status' = status
    BY <2>1 DEF groupVars
  <2>3. MainInv' /\ ServerInv'
    BY <2>1, <2>2, MainKept, ServerKept
  <2>4. proc' = proc \/ (proc' = "dirty" /\ proc \in {"running", "stuck"})
    BY <1>3 DEF StopTempl, Interrupt, Terminate
  <2>5. asked' \in BOOLEAN
    BY <1>3, Zenon DEF StopTempl, Interrupt, Terminate, TemplInv, TemplTypeOK
  <2>6. TemplTypeOK'
    BY <2>1, <2>4, <2>5 DEF TemplInv, TemplTypeOK
  <2>7. TemplInv'
    BY <2>1, <2>2, <2>4, <2>6 DEF TemplInv, TemplTypeOK
  <2>8. QED
    BY <2>3, <2>7
<1>4. CASE Terminated
  <2>1. UNCHANGED <<proc, asked, reader, done, production>> /\ watch = "forced" /\ done # "none"
    BY <1>4 DEF Terminated
  <2>2. CASE done = "clean"
    BY <1>0, <1>4, <2>1, <2>2, EndTemplKeepsInv DEF Terminated
  <2>3. CASE done = "dirty"
    <3>1. UNCHANGED <<mainVars, groupVars, serverVars>> /\ watch' = "generate"
      BY <1>4, <2>3 DEF Terminated
    <3>2. status' = status
      BY <3>1 DEF groupVars
    <3>3. MainInv' /\ ServerInv'
      BY <3>1, <3>2, MainKept, ServerKept
    <3>4. TemplInv'
      BY <2>1, <2>3, <3>1, <3>2, Zenon DEF TemplInv, TemplTypeOK
    <3>5. QED
      BY <3>3, <3>4
  <2>4. QED
    BY <2>1, <2>2, <2>3 DEF TemplInv, TemplTypeOK
<1>5. CASE Generate
  <2>1. PICK error \in {"nil", "failed"} :
            /\ watch = "generate" /\ EndTempl(error)
            /\ UNCHANGED <<proc, asked, reader, done>>
            /\ production' = TRUE \/ (error # "nil" /\ UNCHANGED production)
    BY <1>5 DEF Generate
  <2>2. done = "dirty"
    BY <2>1 DEF TemplInv
  <2>3. CASE production' = TRUE
    BY <2>1, <2>2, <2>3, EndTemplKeepsInv
  <2>4. CASE error # "nil" /\ UNCHANGED production
    BY <1>0, <2>1, <2>2, <2>4, EndTemplKeepsInv
  <2>5. QED
    BY <2>1, <2>3, <2>4
<1>6. QED
  BY <1>1, <1>2, <1>3, <1>4, <1>5 DEF TemplStep

\* A step of runTemplierServer.
LEMMA ServerKeepsInv ==
  ASSUME RunInv, ServerStep \/ ListenFails
  PROVE  RunInv'
<1> USE DEF RunInv
<1>1. CASE Listen \/ ListenFails \/ CloseServer \/ ListenerEnds
  <2>1. UNCHANGED <<mainVars, groupVars, templVars>>
    BY <1>1 DEF Listen, ListenFails, CloseServer, ListenerEnds, ServerUnchanged
  <2>2. status' = status
    BY <2>1 DEF groupVars
  <2>3. ServerInv'
    BY <1>1, <2>2 DEF Listen, ListenFails, CloseServer, ListenerEnds, ServerInv, ServerTypeOK
  <2>4. QED
    BY <2>1, <2>2, <2>3, MainKept, TemplKept
<1>2. CASE ServerEnds
  <2>1. srvErr \in {"nil", "canceled", "failed"} /\ "server" \in Goroutines
    BY DEF ServerInv, ServerTypeOK, Goroutines
  <2>2. MainInv' /\ status' = [status EXCEPT !["server"] = "ended"]
    BY <1>2, <2>1, EndKeepsMain DEF ServerEnds
  <2>3. status'["templ"] = status["templ"]
    BY <2>2 DEF MainInv, MainTypeOK, Goroutines
  <2>4. TemplInv'
    BY <1>2, <2>3, TemplKept DEF ServerEnds
  <2>5. ServerInv'
    BY <1>2 DEF ServerEnds, serverVars, ServerInv, ServerTypeOK
  <2>6. QED
    BY <2>2, <2>4, <2>5
<1>3. QED
  BY <1>1, <1>2 DEF ServerStep

(***************************************************************************)
(* The strengthening holds in every reachable state: a goroutine of the    *)
(* error group ends only after what it started, and Run after all of them. *)
(***************************************************************************)
THEOREM RunInvariance == Spec => []RunInv
<1>1. Init => RunInv
  <2> SUFFICES ASSUME Init PROVE RunInv
    OBVIOUS
  <2>1. MainInv
    BY DEF Init, MainInv, MainTypeOK, Outcomes, Goroutines, Returned
  <2>2. TemplInv
    BY DEF Init, TemplInv, TemplTypeOK, Goroutines
  <2>3. ServerInv
    BY DEF Init, ServerInv, ServerTypeOK, Goroutines
  <2>4. QED
    BY <2>1, <2>2, <2>3 DEF RunInv
<1>2. RunInv /\ [Next]_vars => RunInv'
  <2> SUFFICES ASSUME RunInv, [Next]_vars PROVE RunInv'
    OBVIOUS
  <2>1. CASE StartFails \/ MainStep \/ Cancel
    BY <2>1, RunKeepsInv
  <2>2. CASE Ending \/ WatcherFails \/ Blocking
    BY <2>2, OthersKeepInv
  <2>3. CASE Exit \/ Crash \/ LongLine \/ Block \/ Reap
    BY <2>3, ProcessKeepsInv
  <2>4. CASE TemplStep
    BY <2>4, TemplKeepsInv
  <2>5. CASE ServerStep \/ ListenFails
    BY <2>5, ServerKeepsInv
  <2>6. CASE UNCHANGED vars
    <3>1. UNCHANGED <<mainVars, groupVars, templVars, serverVars>> /\ status' = status
      BY <2>6 DEF vars, groupVars
    <3>2. QED
      BY <3>1, MainKept, TemplKept, ServerKept DEF RunInv
  <2>7. QED
    BY <2>1, <2>2, <2>3, <2>4, <2>5, <2>6 DEF Next, Failures
<1>3. QED
  BY <1>1, <1>2, PTL DEF Spec

(***************************************************************************)
(* Every variable keeps its type.                                          *)
(***************************************************************************)
THEOREM TypeCorrect == Spec => []TypeOK
<1>1. RunInv => TypeOK
  BY DEF RunInv, MainInv, TemplInv, ServerInv, TypeOK
<1>2. QED
  BY <1>1, RunInvariance, PTL

(***************************************************************************)
(* A port in use, a failed watcher or a failed templ that ends the engine  *)
(* is what Run returns, whatever the other goroutines return afterwards.   *)
(***************************************************************************)
THEOREM FatalErrorIsReturned == Spec => []FatalErrorReturned
<1>1. RunInv => FatalErrorReturned
  BY DEF RunInv, MainInv, FatalErrorReturned, Goroutines
<1>2. QED
  BY <1>1, RunInvariance, PTL

(***************************************************************************)
(* Once Run returned from its wait, no templ process runs, the one there   *)
(* was has been waited for, and the port of Templier is closed.            *)
(***************************************************************************)
THEOREM TemplAndPortAreReleased == Spec => []TemplAndPortReleased
<1>1. RunInv => TemplAndPortReleased
  <2> SUFFICES ASSUME RunInv, Returned PROVE TemplAndPortReleased
    BY DEF TemplAndPortReleased
  <2>1. status["templ"] = "ended" /\ status["server"] = "ended"
    BY DEF RunInv, MainInv, Goroutines
  <2>2. watch \in {"ended", "failed"} /\ (proc # "none" => done # "none" /\ proc = done)
    BY <2>1 DEF RunInv, TemplInv
  <2>3. proc \notin {"running", "stuck"} /\ reader # "reading"
    BY <2>1, <2>2 DEF RunInv, TemplInv, TemplTypeOK
  <2>4. QED
    BY <2>1, <2>2, <2>3 DEF RunInv, ServerInv, TemplAndPortReleased
<1>2. QED
  BY <1>1, RunInvariance, PTL

(***************************************************************************)
(* A run of templ that ended without an error left production output: it   *)
(* exited cleanly itself, or templ generate was run in its place.          *)
(***************************************************************************)
THEOREM OutputIsProduction == Spec => []ProductionOutput
<1>1. RunInv => ProductionOutput
  BY DEF RunInv, TemplInv, ProductionOutput
<1>2. QED
  BY <1>1, RunInvariance, PTL
=============================================================================
