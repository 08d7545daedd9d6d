--------------------------- MODULE ChangeHandler ---------------------------
(***************************************************************************)
(* What Templier does with a file system event and with templ's output:    *)
(* fileChangeHandler.handle, which the file watcher calls for one event    *)
(* after the other, the debouncers of the custom watchers, the lines of    *)
(* `templ generate --watch' and the goroutine of Engine.Run that relays    *)
(* templ's change signals.                                                 *)
(*                                                                         *)
(* A custom watcher's debouncer is reduced to what module Debounce shows   *)
(* of it: the function triggered last runs, unless the context is done     *)
(* first.  The builds and the app launcher take what the handler hands     *)
(* over; they belong to modules BuildPipeline and AppLauncher.             *)
(***************************************************************************)
EXTENDS Naturals, Sequences, FiniteSets

CONSTANTS
    Watchers,           \* the custom watchers
    Requires,           \* action.Type a watcher requires: 0..3
    FailOnErr,          \* watchers with fail-on-error
    ChangeCap,          \* capacity of templChange (64 in the code)
    MaxEvents,          \* bound on the file events
    MaxTemplLines       \* bound on the lines of templ's output

ASSUME HandlerAssumption ==
    /\ Requires \in [Watchers -> 0..3]
    /\ FailOnErr \subseteq Watchers
    /\ ChangeCap \in Nat \ {0} /\ MaxEvents \in Nat /\ MaxTemplLines \in Nat

\* action.Type
ActionNone == 0
ActionReload == 1
ActionRestart == 2
ActionRebuild == 3

\* The names of files as far as handle tells them apart: *.templ, *_templ.go,
\* those that match app.exclude, and all others.
Files == {"templ", "templgo", "excluded", "source"}

\* Outcome of a watcher's command: success (or no command), exit code 1 with or
\* without output, any other failure, for which cmdrun.Run returns no output.
Outcomes == {"ok", "exit1", "silent1", "other"}

VARIABLES
    hpc,                \* handle: "idle", "trigger", "wait", "decide", "sendRerun"
    file,               \* the file of the event being handled
    matched,            \* the watchers that include it
    todo,               \* those still to be triggered
    wg,                 \* those that did not call wg.Done yet
    act,                \* action.SyncStatus of this event
    succeeded,          \* history: the watchers that succeeded for this event
    debouncer,          \* "idle", "pending", "running" or "exited", per watcher
    errWatcher,         \* the watchers with an error in the tracker
    errTempl,           \* the tracker has an error at IndexTempl
    templChange,        \* the channel from templ's output to the notifier
    chRerunServer,      \* the channel to the launcher holds a request
    recompile,          \* a recompile was requested and did not begin yet
    owed,               \* history: a source edit waits for its recompile
    launcherGone,       \* the app launcher returned
    done,               \* ctx is cancelled
    events, lines       \* counters for MaxEvents and MaxTemplLines

eventVars == <<file, matched, todo, wg, act, succeeded>>
outVars == <<chRerunServer, recompile, owed>>
templVars == <<errTempl, templChange, lines>>
vars == <<hpc, eventVars, debouncer, errWatcher, templVars, outVars, launcherGone,
          done, events>>

TypeOK ==
    /\ hpc \in {"idle", "trigger", "wait", "decide", "sendRerun"}
    /\ file \in Files /\ matched \subseteq Watchers
    /\ todo \subseteq matched /\ wg \subseteq matched /\ succeeded \subseteq matched
    /\ act \in 0..3
    /\ debouncer \in [Watchers -> {"idle", "pending", "running", "exited"}]
    /\ errWatcher \subseteq FailOnErr
    /\ templChange \in Seq({"restart", "reload"}) /\ Len(templChange) <= ChangeCap
    /\ {errTempl, chRerunServer, recompile, owed, launcherGone, done} \subseteq BOOLEAN
    /\ events \in 0..MaxEvents /\ lines \in 0..MaxTemplLines

Init ==
    /\ hpc = "idle"
    /\ file = "source" /\ matched = {} /\ todo = {} /\ wg = {} /\ succeeded = {}
    /\ act = ActionNone
    /\ debouncer = [w \in Watchers |-> "idle"]
    /\ errWatcher \in SUBSET FailOnErr      \* left by the initial run of the commands
    /\ errTempl = FALSE /\ templChange = <<>>
    /\ chRerunServer = FALSE /\ recompile = FALSE /\ owed = FALSE
    /\ launcherGone = FALSE /\ done = FALSE
    /\ events = 0 /\ lines = 0

-----------------------------------------------------------------------------
(* fileChangeHandler.handle *)

\* An event other than chmod arrives for a file that the watchers ws include.
Handle(f, ws) ==
    /\ hpc = "idle" /\ events < MaxEvents
    /\ events' = events + 1
    /\ file' = f /\ matched' = ws
    /\ todo' = ws /\ wg' = ws
    /\ act' = ActionNone /\ succeeded' = {}
    /\ hpc' = IF ws = {} THEN "decide" ELSE "trigger"
    \* README: such a file is to be recompiled.
    /\ owed' = (owed \/ (ws = {} /\ f = "source"))
    /\ UNCHANGED <<debouncer, errWatcher, templVars, chRerunServer, recompile,
                   launcherGone, done>>

\* Mutant: the handler does not wait for the watchers it triggered.
TriggerAndGo(w) ==
    /\ hpc = "trigger" /\ w \in todo /\ debouncer[w] # "running"
    /\ debouncer' = [debouncer EXCEPT ![w] = IF @ = "exited" THEN @ ELSE "pending"]
    /\ todo' = todo \ {w}
    /\ hpc' = IF todo' = {} THEN "decide" ELSE "trigger"
    /\ UNCHANGED <<file, matched, wg, act, succeeded, errWatcher, templVars, outVars,
                   launcherGone, done, events>>

\* w.debounced(fn): blocks while the debouncer runs; after the debouncer left,
\* fn is stored for nobody.
Trigger(w) ==
    /\ hpc = "trigger" /\ w \in todo /\ debouncer[w] # "running"
    /\ debouncer' = [debouncer EXCEPT ![w] = IF @ = "exited" THEN @ ELSE "pending"]
    /\ todo' = todo \ {w}
    /\ hpc' = IF todo' = {} THEN "wait" ELSE "trigger"
    /\ UNCHANGED <<file, matched, wg, act, succeeded, errWatcher, templVars, outVars,
                   launcherGone, done, events>>

\* wg.Wait()
Wait ==
    /\ hpc = "wait" /\ wg = {}
    /\ hpc' = "decide"
    /\ UNCHANGED <<eventVars, debouncer, errWatcher, templVars, outVars, launcherGone,
                   done, events>>

\* Mutant: templ's files are ignored before it is looked at what a watcher requires.
RebuildsNoTempl ==
    /\ IF matched # {} THEN act = ActionRebuild ELSE ~errTempl
    /\ file \notin {"templ", "templgo", "excluded"}

\* What is left for the default behaviour: watchers that require a rebuild, and
\* files no watcher includes, unless they are templ's business or templ's error
\* stands.
Rebuilds ==
    /\ IF matched # {} THEN act = ActionRebuild
                       ELSE file # "templ" /\ ~errTempl
    /\ file \notin {"templgo", "excluded"}

\* The switch over act.Load() and the checks behind it, up to h.recompile.
Decide ==
    /\ hpc = "decide"
    /\ hpc' = IF matched # {} /\ act = ActionRestart THEN "sendRerun" ELSE "idle"
    /\ IF Rebuilds THEN recompile' = TRUE /\ owed' = FALSE
                   ELSE UNCHANGED <<recompile, owed>>
    /\ UNCHANGED <<eventVars, debouncer, errWatcher, templVars, chRerunServer,
                   launcherGone, done, events>>

\* e.chRerunServer <- struct{}{} on a channel of capacity 1.
SendRerun ==
    /\ hpc = "sendRerun" /\ ~chRerunServer
    /\ chRerunServer' = TRUE
    /\ hpc' = "idle"
    /\ UNCHANGED <<eventVars, debouncer, errWatcher, templVars, recompile, owed,
                   launcherGone, done, events>>

-----------------------------------------------------------------------------
(* The debouncers of the watchers and the function they run. *)

\* The debouncer's tick: the command starts.
RunDebounced(w) ==
    /\ debouncer[w] = "pending"
    /\ debouncer' = [debouncer EXCEPT ![w] = "running"]
    /\ UNCHANGED <<hpc, eventVars, errWatcher, templVars, outVars, launcherGone, done,
                   events>>

\* The debouncer sees ctx.Done(); a pending function is never run.
DebouncerExits(w) ==
    /\ done /\ debouncer[w] \in {"idle", "pending"}
    /\ debouncer' = [debouncer EXCEPT ![w] = "exited"]
    /\ UNCHANGED <<hpc, eventVars, errWatcher, templVars, outVars, launcherGone, done,
                   events>>

\* Mutant: the last watcher's requirement wins.
RequireLast(t) == act' = t

\* action.SyncStatus.Require
Require(t) == act' = IF t > act THEN t ELSE act

\* Mutant: a command that exits with 1 returns before wg.Done.
FinishWithoutDone(w, outcome) ==
    /\ debouncer[w] = "running"
    /\ debouncer' = [debouncer EXCEPT ![w] = "idle"]
    /\ IF outcome = "exit1"
         THEN UNCHANGED <<wg, act, succeeded>>
         ELSE wg' = wg \ {w} /\ Require(Requires[w]) /\ succeeded' = succeeded \cup {w}
    /\ UNCHANGED <<hpc, file, matched, todo, errWatcher, templVars, outVars, launcherGone,
                   done, events>>

\* The function returns and calls wg.Done.  Only exit code 1 ends it early; of
\* any other failure no output is left, so the tracker's error is cleared and
\* the action required as if the command had succeeded.
FinishCommand(w, outcome) ==
    /\ debouncer[w] = "running"
    /\ debouncer' = [debouncer EXCEPT ![w] = "idle"]
    /\ wg' = wg \ {w}
    /\ IF outcome \in {"exit1", "silent1"}
         THEN UNCHANGED <<act, succeeded>>
         ELSE Require(Requires[w]) /\ succeeded' = succeeded \cup {w}
    /\ errWatcher' =
         IF outcome = "exit1" /\ w \in FailOnErr THEN errWatcher \cup {w}
         ELSE IF outcome \in {"exit1", "silent1"} /\ w \notin FailOnErr THEN errWatcher
         ELSE errWatcher \ {w}
    /\ UNCHANGED <<hpc, file, matched, todo, templVars, outVars, launcherGone, done,
                   events>>

-----------------------------------------------------------------------------
(* templ's output and the notifier. *)

\* handleTemplWatchLine for an error line.
TemplError ==
    /\ lines < MaxTemplLines
    /\ lines' = lines + 1
    /\ errTempl' = TRUE
    /\ UNCHANGED <<hpc, eventVars, debouncer, errWatcher, templChange, outVars,
                   launcherGone, done, events>>

\* ... for the line "Error cleared".
TemplErrorCleared ==
    /\ lines < MaxTemplLines /\ errTempl
    /\ lines' = lines + 1
    /\ errTempl' = FALSE
    /\ UNCHANGED <<hpc, eventVars, debouncer, errWatcher, templChange, outVars,
                   launcherGone, done, events>>

\* ... for a post-generation event: the signal is dropped when the channel is full.
TemplPostGen(change) ==
    /\ lines < MaxTemplLines
    /\ lines' = lines + 1
    /\ templChange' = IF Len(templChange) < ChangeCap THEN Append(templChange, change)
                                                      ELSE templChange
    /\ UNCHANGED <<hpc, eventVars, debouncer, errWatcher, errTempl, outVars,
                   launcherGone, done, events>>

\* The notifier goroutine of Engine.Run, until ctx is done.  Its reload
\* broadcast is not modelled here.
Notify ==
    /\ templChange # <<>>
    /\ templChange' = Tail(templChange)
    /\ IF Head(templChange) = "restart" THEN recompile' = TRUE /\ owed' = FALSE
                                        ELSE UNCHANGED <<recompile, owed>>
    /\ UNCHANGED <<hpc, eventVars, debouncer, errWatcher, errTempl, lines, chRerunServer,
                   launcherGone, done, events>>

-----------------------------------------------------------------------------
(* Environment *)

\* The launcher takes a restart request; it returns once ctx is done.
TakeRerun ==
    /\ chRerunServer /\ ~launcherGone
    /\ chRerunServer' = FALSE
    /\ UNCHANGED <<hpc, eventVars, debouncer, errWatcher, templVars, recompile, owed,
                   launcherGone, done, events>>

LauncherReturns ==
    /\ done /\ ~launcherGone
    /\ launcherGone' = TRUE
    /\ UNCHANGED <<hpc, eventVars, debouncer, errWatcher, templVars, outVars, done, events>>

\* The debouncer of Engine.Run starts a build.
StartBuild ==
    /\ recompile
    /\ recompile' = FALSE
    /\ UNCHANGED <<hpc, eventVars, debouncer, errWatcher, templVars, chRerunServer, owed,
                   launcherGone, done, events>>

Cancel ==
    /\ ~done
    /\ done' = TRUE
    /\ UNCHANGED <<hpc, eventVars, debouncer, errWatcher, templVars, outVars,
                   launcherGone, events>>

-----------------------------------------------------------------------------
HandlerStep ==
    \/ \E w \in Watchers : Trigger(w)
    \/ Wait \/ Decide \/ SendRerun

TemplStep ==
    \/ TemplError \/ TemplErrorCleared
    \/ \E change \in {"restart", "reload"} : TemplPostGen(change)

Next ==
    \/ \E f \in Files, ws \in SUBSET Watchers : Handle(f, ws)
    \/ HandlerStep
    \/ \E w \in Watchers : RunDebounced(w) \/ DebouncerExits(w)
    \/ \E w \in Watchers, outcome \in Outcomes : FinishCommand(w, outcome)
    \/ TemplStep \/ Notify
    \/ TakeRerun \/ LauncherReturns \/ StartBuild \/ Cancel

\* Goroutines are scheduled, ticks come, commands end; templ, the user and the
\* cancellation are under no obligation.
Fairness ==
    /\ WF_vars(HandlerStep)
    /\ \A w \in Watchers :
        /\ WF_vars(RunDebounced(w) \/ DebouncerExits(w))
        /\ WF_vars(\E outcome \in Outcomes : FinishCommand(w, outcome))
    /\ WF_vars(~done /\ Notify) /\ WF_vars(TakeRerun) /\ WF_vars(StartBuild)

Spec == Init /\ [][Next]_vars
FairSpec == Spec /\ Fairness

-----------------------------------------------------------------------------
(* Properties *)

\* README: if one watcher requires a reload and another a rebuild, the rebuild is
\* chosen once all have finished: the handler decides on the strongest action of
\* the watchers that succeeded, in whatever order their debouncers ran them.
StrongestActionChosen ==
    hpc = "decide" /\ matched # {} =>
        /\ \A w \in succeeded : Requires[w] <= act
        /\ act # ActionNone => \E w \in succeeded : Requires[w] = act

\* No watcher function of an earlier event is left over when the next event
\* comes: it would require its action of an event that was decided already.
NoLeftoverCommand ==
    hpc \in {"idle", "decide", "sendRerun"} =>
        wg = {} /\ \A w \in Watchers : debouncer[w] \in {"idle", "exited"}

\* Every event is handled in finite time while the engine is not shut down.
EventsHandled == (hpc # "idle") ~> (hpc = "idle" \/ done)

\* Another watcher requires a rebuild for a file that is not to be recompiled.
Overruled ==
    /\ file \in {"templgo", "excluded"}
    /\ \E v \in succeeded : Requires[v] = ActionRebuild

\* A watcher whose command succeeded gets a restart or a rebuild, as it requires,
\* whatever the other watchers of the event do and while templ reports an error:
\* the launcher or the build's debouncer still have a request after that, unless
\* the engine shuts down or a rebuild was required of a file that is never
\* recompiled, which loses the weaker restart, too.
RequiredActionTaken ==
    \A w \in Watchers :
        (Requires[w] >= ActionRestart /\ w \in succeeded /\ hpc # "idle")
            ~> (chRerunServer \/ recompile \/ Overruled \/ done)

\* Engine.Run waits for the file watcher, hence for this handler, when ctx is
\* cancelled: every event is handled in finite time.
HandlerReturns == (hpc # "idle") ~> (hpc = "idle")

\* An edit made while templ reports an error is recompiled once that is repaired.
EditRecompiledAfterRepair == <>[](~errTempl) => [](owed => <>(~owed \/ done))
=============================================================================
