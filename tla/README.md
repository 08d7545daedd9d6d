# A TLA+ model of Templiér

Templiér is a development server for [templ](https://github.com/a-h/templ)
projects: it watches the source, runs `templ generate --watch`, linters, builds
and custom commands, keeps one app server process running the newest binary, and
proxies it with a script that reloads browser tabs or shows errors. Nearly all of
its difficulty is concurrency: goroutines that cancel but do not await each
other, shared variables without locks, channels with small buffers, processes
that may refuse to stop, and a shutdown at any moment.

This directory holds TLA+ modules of it, TLC configurations that check
them on small instances, and theorems about them that TLAPS has checked.

```
tlc -config MCLauncherReplace.cfg MCAppLauncher.tla     # model checking
tlapm AppLauncherProofs.tla                            # proofs
```

`PROJECT.json` lists the components, the runs, the mutants every property was
tried on, the lines of source each definition stands for, the findings and the
hazards. Paths below are relative to the repository, `engine.go` is
`engine/engine.go`.

## Inventory

| Part | State | Operations | What makes it correct |
|---|---|---|---|
| `internal/ctxrun` | mutex, counter, cancel function | `Go`, deferred clean-up of a task | at most one task runs uncancelled, the newest; superseded tasks leave |
| `internal/debounce` | mutex, pending function, ticker | `trigger`, `runDebouncer` | the newest function runs, in order, at most once, none is lost |
| app launcher, `engine.go` 429-644 | latest command and binary, `srvExited`, `rerunActive`, wait group, runner | restart, run a new binary, shut down | one server, the newest binary, no binary removed too early, no process left |
| change handler, `engine.go` 658-777 | wait group, action status per event | `handle`, watchers' functions | strongest action chosen after all watchers, no edit forgotten, the handler returns |
| build pipeline, `engine.go` 225-255, 791-900 | build runner, tracker entries, channel | initial build, `recompile`, lint, build | errors and binary of the newest source win |
| `internal/action` | status with a mutex | `Require`, `Load` | maximum of what was required |
| `internal/statetrack` | one message per error source | `Set`, `Get`, `ErrIndex`, listeners | a changed entry is announced |
| `internal/broadcaster` | set of channels | add, remove, broadcast without blocking | a listener learns of the last change |
| `internal/server` | listeners per connection | proxy or error page, web socket, retries, injection | a tab ends up showing the current state |
| browser script | tab, connection | reload, reconnect | the same, across restarts of Templiér |
| `internal/watcher`, `filereg`, `fswalk` | watched directories, checksums, globs, life cycle | `Add`, `Remove`, `Ignore`, `Run`, `Close` | every change below the root is reported once |
| `internal/cmdrun` | the templ process | `Run`, `Sh`, `RunTemplWatch`, `handleTemplWatchLine` | output is translated to errors and signals; templ is stopped and awaited |
| `Engine.Run` | errgroup, wait group, context | start and shut down everything | returns once everything ended, with the first error |
| `engine/config.go`, `internal/config`, `main.go` | configuration | parse, validate, defaults | - |
| `internal/log`, `internal/ansihtml` | - | formatting | - |

How they interact: templ's output goes through `handleTemplWatchLine` to the
tracker and, over a channel of capacity 64, to the notifier goroutine, which asks
for a recompile or a reload. The file watcher calls `handle` for one event after
the other; `handle` runs the custom watchers through their debouncers, waits for
them, and asks for a reload, a restart (channel `chRerunServer`, capacity 1) or a
recompile. `recompile` goes through the engine's debouncer to the build runner,
whose tasks report to the tracker and send binaries to the launcher (channel
`chRunNewServer`, capacity 1). The launcher's tasks restart the server, report
its exit to the tracker and broadcast reloads. The proxy consults the tracker for
each request, and its web socket connections listen to tracker and broadcasts.

The hard behaviours, each with its line, are the "hazards" of `PROJECT.json`.

## Modules

| Module | Models | Composes |
|---|---|---|
| `CtxRun` | the runner | |
| `Debounce` | the debouncer and its ticker | |
| `Recompile` | how a recompile is asked for | `Debounce` and `CtxRun` |
| `AppLauncher` | the launcher's loop, its tasks, the server processes | `CtxRun` as `Runner` |
| `ChangeHandler` | `handle`, watchers, templ's lines, the notifier | (debouncers reduced) |
| `BuildPipeline` | from an edit to the errors and the binary | `CtxRun` as `Runner` |
| `Proxy` | the request path: tracker, error page, attempts, injection | |
| `Tabs` | broadcasters, web socket handlers, the browser and its script | `Proxy` |
| `Watcher` | the file watcher, its registry, its API, against a file system | |
| `EngineRun` | `Engine.Run`, its error group, templ's process, the HTTP server | |
| `*Proofs` | theorems about the module they are named after | its module; `AppLauncherProofs`, `BuildPipelineProofs` and `RecompileProofs` also `CtxRunProofs` |
| `MC*` | instances for TLC, bounds in the `.cfg` files | |

The abstract specification that recurs is `CtxRun`: `Recompile`, `AppLauncher` and
`BuildPipeline` each are shown to implement it, and `Recompile` implements
`Debounce` as well. So what is proved about the runner and the debouncer once is
carried over by refinement.

### CtxRun

Tasks are numbered by `Runner.counter`; `cancel` names the task it cancels. The
mutex makes `Go` and the clean-up one action each. `phase` separates the return
of the function (`Return`) from the clean-up (`Cleanup`): calls of `Go` in between
are what the check `r.counter == id` is for. Child contexts are the set
`cancelled`; the parent's context is `parentDone`.

### Debounce

Functions are named by the number of the trigger that handed them over. Receiving
the tick (`Receive`), taking the mutex and starting the function (`Lock`), and
clearing it (`Unlock`) are steps of their own, so triggers fall between any two.
The ticker is external and behaves as since Go 1.23 (the module requires a newer
Go): no stale tick is received after `Stop` or `Reset`. `Exit` leaves a pending
function behind, as the code does.

### Recompile

`fileChangeHandler.recompile` hands a function to the debouncer, and the function
calls `Go` of the build runner (`engine.go` 791-811). `Build` is that call, made
under the debouncer's mutex, `Built` the return, `BuildNow` the case without a
debouncer. `asked` names the trigger whose function called `Go` last: it links the
numbers of the debouncer's functions to those of the runner's tasks. What a build
does is in `BuildPipeline`.

### AppLauncher

An actor is the loop (`Main`) or a task; `pc` is its place in the code:

- the loop: `TakeRerun`, `TakeNewServer`, `TakeDone`, then the stop steps;
- a task with a binary: `ReadPrevious`, `WriteLatest`, the body, `RemovePrevious`;
- the body, `rerun`: `Activate`, the stop steps, `CheckErrors`, `CheckContext`,
  `Prepare` (up to `latestSrvCmd = c`), `Start`, `Register` (`srvExited` and
  `waitExit.Go`), the health check, `Broadcast`, and the deferred `Deactivate`;
- the stop steps, `stopServer` and `awaitServerExit`: `StopServer` (the condition),
  `Signal` (the second read of `latestSrvCmd`), `AwaitTimeout`, `Kill`;
- `Reap`, the goroutine that waits for a process; it releases waiters at zero.

Shared variables are read and written in the steps where the code does, without a
lock. The environment builds binaries (each a number; `files` are those that
exist), asks for restarts, raises and clears errors, ends processes (cleanly or
with a code above 0) and cancels the context. A process need not react to the
interrupt; a killed one exits.

`CtxRun` does not wait for a superseded task, so tasks overlap whenever an event
arrives while the server is being restarted. The module has all those schedules. Some
of what the code's comments promise fails in them, but only if a task is overtaken at
certain places. The history variable `overtaken` collects these windows (`Window`):
a task had not replaced `latestBinaryPath` yet (`paths`), was on its way to signal the
running server (`stopping`), was waiting for that to exit (`awaiting`), or was between
its look at the context and the registration of its server (`starting`), when the loop
took its next event. A property is stated as the comments mean it (`SingleServer`) and,
for all schedules, with the windows that break it (`SingleServerUnlessOvertaken`: two
servers need a task overtaken while `starting`). A task overtaken anywhere else, in its
look at the errors or the context, in its health check or while it removes a binary, is
covered. The `MCFind*.cfg` files show schedules inside the windows. That reloads are
suppressed while the server restarts fails as soon as tasks overlap anywhere
(`MCFindReload`), and is not claimed.
`OtherErrors` adds errors of other sources.

Abstractions: the retries and pauses of the health check are one choice between
answered, exited and abandoned; "answered" only needs some server to listen. The
request has no timeout of its own (`engine.go` 481-483), so under fairness it only ends
when there is no server that could keep it, or the context of the task ends
(`Unhindered`).
`Reap` joins storing the exit code, storing `srvExited` and leaving the wait group.
Torn reads of the unsynchronised variables (a data race by Go's memory model) are
not modelled, nor is the panic of a wait group that is reused before a released
waiter returned.

### ChangeHandler

`hpc` is the place in `handle`. File names are reduced to the four kinds that
`handle` tells apart. A watcher's debouncer is `idle`, `pending`, `running` or
`exited`, which is what `Debounce` shows of it. A command ends with success, with
code 1 with or without output, or otherwise; in the last case `cmdrun.Run` returns
no output, so the code clears the watcher's error and requires its action
(`engine.go` 720-733), and so does the model. `owed` is a history variable: a
source edit that no watcher includes waits to be recompiled; it is for
`MCFindTemplEdit`. `succeeded` are the watchers of the event whose command succeeded.
What they require must become a request, whatever else happens (`RequiredActionTaken`),
with one exception of the code's own: a rebuild that another watcher requires for a
file which is never recompiled (a `_templ.go` file or an excluded one) overrules a
restart, and nothing happens (`Overruled`; `engine.go` 748-766).

### BuildPipeline

The source is a sequence of versions, each good, not lint-clean, or broken. A
command sees the version that is newest at some moment while it runs. `GoEnds`
and `LintEnds` are the checks of the context behind the commands, `StoreGo` and
`StoreLint` the reports to the tracker; a build may be superseded in between.
Superseded builds may report and send at any time, and tools may fail with another
exit code than 1, in every schedule; `Hazards` adds edits during the initial build
(`early`) and errors of templ, watchers and the app (`other`). Resetting `IndexGo` and
`IndexExit` is one step.

Two history variables start anew with every build. `disturbed`: an error of templ, of a
watcher or of the app stood or came up since. `outrun`: a command of the newest build
ended while an older build was not over, go or the linter of the newest build failed as
a tool, or an edit was not noticed. What superseded builds report before that, and what
their tools do, is no exception: the report of the newest build must make up for it.

### Proxy and Tabs

`Proxy` has `statetrack.Tracker` as `errMsgBuffer` and the path of a request as
`rpc`: the decision (`ServeHTTP`), the entries of the error page read one after the
other, the attempts of `RoundTrip`, and `modifyResponse` for every kind of response
that the code tells apart (a record `Shape`). `Tabs` adds the listeners, one
handler per connection (`h` is its place in `handleProxyEvents`, each deferred
function a step), and tabs: `page` is what a tab shows, `ws` and `conn` its
socket, `overlay` the "reconnecting" message of the script. The broadcast skips
every listener that is not in its `select`. The launcher appears as `StartApp` and
`Announce`; `Stop` and `Start` are a restart of Templier.

`SpareCapacity` says whether the array of the rendered script has room for a
closing tag, which requests then share. `fresh` is a history variable: the tab
showed the current state when its handler began to wait; `stood` and `lasted`
remember which errors stood at some time and all the time since a request was
found to need the error page.

A request has no timeout: `RoundTrip` uses the default transport (`server.go` 379), and
`ProxyTimeout` bounds none of its attempts. An app that runs may therefore keep a request
for ever (`AwaitsApp`); one that went down makes the attempt fail. `Stop` is the end of
Templier's process: messages that are on their way to a tab arrive or are lost with it.

Abstractions: loads are requests without a body, so that the reading of a body before
the first attempt and its error (`server.go` 357-366) are left out. Contents are
versions of the app or sets of error entries; bytes are
reduced to the closing tag and whether the script is there. Several tabs would
share nothing but the sets of listeners. The delays between attempts, and of the
script before it connects again, are left out.

### Watcher

Paths are sequences of names, patterns sets of paths. `rpc` is the place in `Run`
and `handleEvent`, `walker` the holder of the lock for `filepath.Walk`, with `todo`,
`cur` and `names` as the state of the walk: a directory's names are read (`Visit`),
then it is watched (`Watch`), then the names are visited. File operations fall
between any two steps. `Register` walks the files for `Run`, `Handle*` are the cases
of `handleEvent`, `Add`, `Remove`, `Ignore`, `Unignore`, `Close` the API, under the
lock. The file system and `fsnotify` are external: events of watched directories are
queued in order, a removed directory loses its watch, `fsnotify` may report an error
at any time.

`onChange` may wait for ever once the context is cancelled, as `MCFindHandler` shows of
the handler (`CallbackBlocks`: `rpc` becomes `stuck`).

History variables:

- `announced`: directories whose creation `fsnotify` saw. One is taken out again only
  when it is removed, when it is created again where `fsnotify` does not see it, when it
  is excluded as a walk or its event comes to it, and by `Remove` and `Ignore`. What walks
  do, in particular those that break off, takes nothing out.
- `seen`: directories that a walk came across while no removal of them, or of one above
  them, waited to be handled. A walk that breaks off, at a path that is gone, a watch that
  fails or a directory that is recorded, takes back what it did not get to
  (`EndWalk`): the code promises nothing of it, and `MCFindUnwatched` and `MCFindAdd` show
  that it may stay unwatched.
- `told`: the files whose last change `fsnotify` saw. `reported`: the content last
  reported. `forgotten`: the files whose checksum was dropped on purpose.
- `lost`: directories that are recorded although they could not be watched, and whose
  record no removal that waits takes away: `watchedDirs` is written before `fsnotify`
  is asked (`watcher.go` 361), and stays so when that fails. A directory is lost only
  as long as that record stays.

Abstractions: one queue stands for those of the kernel, of `fsnotify` and of the
watcher. Events of changed permissions are left out, and so are symbolic links. Only files are
renamed, and only empty directories removed (`Rmdir`): `handleEvent` treats the rename of
a directory (252-258) as its removal, but a tree that is moved as a whole, its watches
with it, is not modelled. A
checksum is the content. `NamePrefixes` gives names that are string prefixes of each
other, which the registry compares (`filereg.go`).

### EngineRun

`main` is the place in `Run`; `status` the state of the five goroutines of its error
group, `group` the group's first error. In detail: the process of `templ`
(`proc`, the goroutine that scans its output `reader`, what `Wait` returned `done`),
`RunTemplWatch` (`watch`) with `StopProcess` on Unix and on Windows (`Graceful`) and the
generation afterwards, and the nested error group of `runTemplierServer`
(`listener`, `closer`). The launcher, the notifier and the file watcher are what
their own modules show of them: they end after the cancellation, but the file
watcher may be `stuck` in a handler whose debouncer left (`MCFindHandler`), and the
launcher in waiting for a second server (`LauncherBlocks`, `MCFindBlocked`). `Run` waits
for the goroutines of its group only. The debouncers (`engine.go` 194, 228), the tasks
of the two runners and the handlers of web sockets outlive it, and no property of this
module is about them; what a task that outlives it may do is in `AppLauncher`. A console
interrupt may reach `templ` as well. `fatal` is a history variable: an error, and not
the caller, ended the group.

## Runs

| Run | Shows | Bounds |
|---|---|---|
| `MCRecompile` | `AtMostOneLive`, `LastTriggerBuilds`, `RunsInOrder`, `LastTriggerRuns`, `SupersededLeaves` | 5 triggers and builds: before and after a tick, between tick and lock, while the function runs; a stale clean-up needs three builds to matter |
| `MCLauncherReplace` | `SingleServerUnlessOvertaken`, `RemovedAfterStopUnlessOvertaken`, `NewestServerKeptUnlessOvertaken`, `SettledServerIsLatestUnlessOvertaken`, `NoPanicUnlessOvertaken` | 3 requests, 2 binaries: the first task starts a server and is over (`FirstAlone`), the other two replace it and overlap in every way; an error of another source may refuse the second (`ErrorsRepaired`); no shutdown. The theorems cover every number, without this restriction |
| `MCLauncherOverlap` | `LatestBinaryExists`, `FlagIsLowered`, `NoServerAfterReturnUnlessOvertaken`, `ImplementsRunner` | 2 tasks that overlap in every way, 2 binaries, shutdown at any moment |
| `MCLauncherLive` | `TasksEndUnlessOvertaken`, `LauncherReturnsUnlessOvertaken` | 2 overlapping requests, so that a task has a server to stop, 1 binary. States with `starting` in `overtaken` or after a panic are cut off: both properties are fulfilled there |
| `MCHandler` | `StrongestActionChosen`, `NoLeftoverCommand`, `EventsHandled`, `RequiredActionTaken` | 2 watchers, 2 events, 2 lines of templ, channel of 1 so that it overflows |
| `MCBuild` | `ServedIsCurrentUnlessOutrun`, `ErrorsAreCurrentUnlessOutrun` | 2 edits after the initial build, each superseding a build that may report at any time; failing tools; errors of templ, of watchers and of the app. It stops at the cancellation, after which nothing is settled |
| `MCBuildLate` | `LastEditCompiled`, `EditSettles`, `ImplementsRunner` | the same without foreign errors, with the cancellation |
| `MCTabs` | `ErrorPageTruthful`, `BadGatewayExplained`, `ConnectedTabCurrent`, `LoadsEnd`, `LostTabReloads`, `ListenersLeave` | 1 tab and 1 connection, 2 changes of the tracker, 2 starts of the app, 1 restart of Templier; responses of every kind, those to `HEAD` included; 2 attempts stand for the 20 of the code, one that is repeated and one that is the last; the theorems cover any number of all of them |
| `MCWatcher` | `NoticedDirsWatched`, `WatchesAgree`, `ChangesReported`, `NoRepeat`, `RunReturns` | root, `p`, `p/q`, the file `p/f`, two contents; 3 file operations (remove a directory, create it again, write into it) and 2 calls. The invariants were also checked with 4 and with 5 operations; the theorems cover every tree and number |
| `MCEngineRun` | `FatalErrorReturned`, `TemplAndPortReleased`, `ProductionOutput`, `EngineReturns` | none: the module is finite; both values of `Graceful` |

The bounds on tasks, binaries, versions, events, operations and lines only end the
environment's supply: no property depends on a counter being used up. Deadlock is
not checked where the system stops when it returned or the supply is used up; where
something must go on, a liveness property says so. `MCTabs` checks deadlock: a user
can always load a page.

Every property of a passing run has a mutant of the code in `PROJECT.json` that
violates it.

### Fairness

Goroutines are scheduled, timers and tickers fire, commands end and channels that
have a receiver are received from: weak fairness of each actor's steps. Nothing
obliges a process to react to the interrupt (only to `Kill`), users to edit or to load
pages, templ to print, errors to go away or the context to be cancelled. Beyond that:

- `BuildPipeline`: edits come to an end, as the bound has it; endless edits would
  supersede builds for ever, which is intended.
- `AppLauncher`: the health check has to end only if no server runs that could keep its
  request, or if the context of the task ended (`Unhindered`). So `TasksEnd...` says that a
  task ends or hangs there (`MayHang`), and that it ends in any case once it is superseded
  or the engine shuts down. A server that ignores the interrupt is killed after a timeout.
- `Tabs`: a launcher that started the app announces it, handlers and tabs go on. The
  app need not start, Templier need not come back, and a running app need not answer:
  `LoadsEnd` and `LostTabReloads` except an app that runs for ever and never does.
- `Watcher`: walks, `Run` and a `Close` that was called go on. `onChange` returns, which
  is what `MCHandler` shows of it (`EventsHandled`), or hangs after the cancellation; so
  `RunReturns` except `stuck`. `fsnotify` need not fail.
- `EngineRun`: the initial build ends, the goroutines are scheduled, and templ exits
  once it was interrupted and its output is read. The launcher and the file watcher
  end after the cancellation or are `stuck`, which `EngineReturns` excepts. No failure,
  crash or long line has to happen.

## Findings

Two runs show a disagreement between the code and what its documentation says:

- `MCFindShutdown`: the launcher returns while a task is about to start the server,
  which nobody stops (`engine.go` 500-536 and the comment at 637-639).
- `MCFindHandler`: a shutdown between a watcher's trigger and its tick leaves `handle`
  waiting for a function that never runs, and `Engine.Run` with it (`engine.go` 738
  and the comment at 141-142; `debounce.go` 32-33).

More can be replayed with the other `MCFind*.cfg` files; each violates what it
checks, in the module named here:

| Configuration | Module | What the trace shows |
|---|---|---|
| `MCFindRefused` | `MCAppLauncher` | after the server crashed a `restart` watcher stops nothing and starts nothing: the error of the crash refuses every restart until the next successful build (`README.md` 92, 181-183; `engine.go` 497, 864) |
| `MCFindReload` | `MCAppLauncher` | a superseded task lowers `rerunActive` while its successor restarts the server (`engine.go` 487, comment at 290) |
| `MCFindStopped` | `MCAppLauncher` | a superseded task stops the server its successor started (`engine.go` 490 comes before the check at 500) |
| `MCFindRemoved` | `MCAppLauncher` | the binary of a running server is removed (`engine.go` 624, comment at 625-627) |
| `MCFindBlocked` | `MCAppLauncher` | two processes run, one is killed, the wait group waits for both (`engine.go` 473-478, comment at 464-466) |
| `MCFindTemplEdit` | `MCChangeHandler` | a source edit under an error of templ is forgotten (`engine.go` 761) |
| `MCFindDropped` | `MCBuildPipeline` | a binary that was built while another error stood is dropped and not run when that error goes away without a build (`engine.go` 802; `README.md` 67-69) |
| `MCFindStaleError` | `MCBuildPipeline` | a superseded build brings a repaired compiler error back (`engine.go` 851-859; `README.md` 65) |
| `MCFindOldBinary` | `MCBuildPipeline` | a superseded build hands its binary over last (`engine.go` 801-808) |
| `MCFindToolFailure` | `MCBuildPipeline` | `go` fails with another code than 1 and no error is shown (`engine.go` 856-859, `cmdrun.go` 45-49; `README.md` 73-74) |
| `MCFindEarlyEdit` | `MCBuildPipeline` | an edit during the initial build is not noticed (`engine.go` 251-277) |
| `MCFindInjection` | `MCTabs` | two requests share the spare capacity of the script's array and one document gets the closing tag of the other (`server.go` 403) |
| `MCFindHead` | `MCTabs` | the answer to `HEAD` is said to be packed and has no body: a 502 (`server.go` 175) |
| `MCFindTab` | `MCTabs` | a change between the load of a page and its handler's first wait is not shown |
| `MCFindUnwatched` | `MCWatcher` | a directory created after the names were read and before the watch was set is never watched; so is what follows a sibling that vanished |
| `MCFindLateRemoval` | `MCWatcher` | a directory is removed and created again, and a walk that another event started watches it before its removal is handled; that then unwatches it, and no create notification is left that would "readd it" (`watcher.go` 252-255) |
| `MCFindAdd` | `MCWatcher` | a walk that meets a watched directory ends and leaves out the rest (`watcher.go` 339, 359) |
| `MCFindFsnotify` | `MCWatcher` | `Run` ended by its context never closes the `fsnotify` watcher (`watcher.go` 198-208) |
| `MCFindPrefix` | `MCWatcher` | removing `a` forgets the checksums of `ab`, whose content is reported again (`filereg.go`) |
| `MCFindCleanExit` | `EngineRun` | templ exited cleanly before it is stopped: `StopProcess` fails and a plain shutdown returns an error (`engine.go` 354-356). With `-continue` also that the error group keeps the first error and templ's last one is lost (`ErrorOrProduction`) |
| `MCFindEarlyReturn` | `EngineRun` | an early return of `Run` leaves goroutines behind (`engine.go` 267-323) |
| `MCFindLongLine` | `EngineRun` | the scanner gives up on a long line and nobody reads templ's output (`cmdrun.go` 163-172) |

## Proofs

All theorems hold for every value of the constants; where one assumes something of a
constant, it is said here and in its statement.

`CtxRunProofs`: `RunnerInv` is inductive. `AtMostOneLive` alone is not: a `Go` would
have to know that `cancel` cancels the only live task. The strengthening says that
`cancel` names the newest task until that task cleaned up (`CancelNamesNewest`), and
that older tasks are cancelled or returned.

`RecompileProofs`: its first part is about the debouncer. `DebounceInv` says that a
tick under way always finds a pending function nobody executed (`PendingArmed`,
`PendingUnrun`); that needs the ticker to be stopped while a function runs and the
mutex to be held for the whole run. `NewestRuns` and `RunInOrder` follow from it. `RunsInOrder` looks at every execution that
starts (`Starts`), not only at changes of `lastRun`, so it excludes a second execution
of the same function as well. The
composition refines both of its parts (`RecompileImplementsRunner`,
`RecompileImplementsDebouncer`), so `OneLiveBuild` and `RecompilesInOrder` are carried
over. `LastTriggerIsBuilt` is about both: it needs that the function called last, the
counter of the runner and `asked` move together.

`AppLauncherProofs`, for every schedule and any `OtherErrors`:

- `TypeCorrect`: types, action by action.
- `BinaryInvariance`: `LatestBinaryExists` needs to know that the path a task
  removes is neither the latest binary now nor will be one later. `BinaryInv` splits
  binaries into unwritten ones (in the channel or held by a task that did not store
  it yet), which exist and are nobody's previous one, the latest, and retired ones;
  each belongs to one task only.
- `FlagNeverStuck`: `rerunActive` is raised only inside `rerun`, and the step that
  leaves it lowers the flag.
- `ProcessesAwaited`: a process runs only between `Start` and `Reap`, and enters the
  wait group in the step after `Start`.
- `LauncherImplementsRunner`: each step is a `Go`, `Return`, `Cleanup`,
  `CancelParent` or a stutter of `CtxRun`; with `OneLiveTask` it gives
  `OneUncancelledTask`.

- `WindowsInvariance`: `TurnInv` ties the windows to the tasks. As long as
  `starting` is not in `overtaken`, only the newest task is between its look at the context
  and the registration of its server, and likewise for the other windows. It is
  inductive because a superseded task fails the check of its context, and because an
  earlier window that was not overtaken keeps old tasks out of a later one.
- `OneServer` and `NothingRunsAfterReturn`, unless overtaken while `starting`:
  `ServerInvariance`. Between the end of a stop and the registration the wait group is
  empty (`NewestIsAlone`), and only the latest command can be awaited or run
  (`LatestRuns`). Any number of superseded tasks may stop servers meanwhile.
- `BinaryOutlivesProcess` and `LatestBinaryRuns`, unless overtaken in `paths` or `starting`:
  `ExecutedInvariance`. A server that runs executes the latest binary or the newest task
  is replacing it, and the path a task removes is not executed.
- `NoNilProcess`, unless overtaken in `paths`, `stopping` or `starting`: by
  `SignalInvariance` a command that is about to be signalled has a process. The check of
  `stopServer` and the use after it (`engine.go` 444, 448) are two steps, and only a newer
  task could put its command in between.
- `NewestServerIsKept`: by `AskedInvariance` no stop asks the command of the
  newest task, unless overtaken in `paths`, `stopping` or `awaiting`.

`ChangeHandlerProofs`: `HandlerInv` relates the wait group to the watchers that are
scheduled and not done (`WaitInv`) and the status to what the watchers that are done
required (`StatusInv`). With it `StrongestIsChosen` and `NothingLeftOver`.

`BuildPipelineProofs`: `PipelineImplementsRunner`, hence `OneUncancelledBuild`.
`PipelineInv` says how far the compiler of a build may be where the build is
(`ProgressInv`) and that the newest build saw the newest source, will see it or does not
compile (`NewestInv`); `LastEditIsCompiled` follows if edits do not fall into the initial
build (`"early" \notin Hazards`, which is needed: `MCFindEarlyEdit`). `NewestPasses`:
whatever gets past a check of its context is the newest build.

Its second half is `CurrentInvariance`, for all schedules: edits in the initial build,
late reports, failing tools, errors from elsewhere. The properties speak of settled
builds only, so the invariant says what a report leaves behind: unless it was outrun, when
the newest build is about to report, or reported, every older one is over
(`ReportInv`), so that nothing overwrites its error; its error is that of the version
it saw, which is the newest (`SeenInv`), and it has a binary exactly if there is no error
of the compiler. While nothing disturbed it either, the binary was sent and is
waiting or served (`UndisturbedInv`, `SentInv`). `LintInv` and `CompileInv` say which
versions linter and compiler may have seen. `ErrorsCurrent` and `ServedCurrent` follow.
That `outrun` is needed: `MCFindStaleError`, `MCFindOldBinary`, `MCFindToolFailure` and
`MCFindEarlyEdit`, one for each way to set it.

`TabsProofs`, about `Proxy` and `Tabs` together, for any number of tabs, connections,
custom watchers, attempts and versions. `RequestInv` follows a request: while the error
page is put together, entry by entry, what it shows stood at some time since
(`stood`), and of the entries passed it has all that stood all the time (`lasted`);
`ErrorPagesAreTruthful` is that at the end. `NoErrorFromResponse` says, of
any set of response shapes, that a client sees 502 exactly if the last attempt failed or
the response has headers only and names an encoding (`HeadersOnly`, which `MCFindHead`
shows). `TabsStayCurrent` needs `FreshInv`: a tab whose handler waits
is current, or the broadcast is still to come, or it has been told and loads its page
again; and `ConnInv`, that no two tabs share a connection, so that what one handler owes
is not taken for another's.

`WatcherProofs`, for every tree of directories and files. A path is a sequence of names,
and `WatcherAssumption` says that the tree has all parents of its paths; that the
directories above a path are its parent and those above that, and that nothing lies below
a directory without children, are lemmas.

- `TypeInvariance` and `TypeCorrect`, and `WatchesAreRecorded`: what `fsnotify` watches
  exists and is recorded.
- `SumInvariance`: a registered checksum is that of the content reported last.
  `RegistryInvariance` adds that one which is missing was dropped on purpose; with it
  `ContentIsNotRepeated`, an action property. These two assume that no name is a string
  prefix of another (`NamePrefixes = {}`, needed: `MCFindPrefix`).
- `RecordsInvariance`: a directory that is recorded is watched, unless its removal waits
  (`Pending`) or its watch failed (`lost`). It gives `RecordsAgree`. It needs to know that
  nothing recorded is excluded, since the event of an excluded path is dropped.
- `NoticedInvariance`: `AnnouncedInv` says that behind every removal that waits, of a
  directory or of one above it, there waits the creation of the directory, if it exists
  and is in `announced` or `seen`; `NoticedInv` that such a directory is watched, or its
  creation waits, or the walk that its creation started is about to watch it, or, if a
  walk alone saw it, that walk will visit it. So `NoticedAreWatched`: whatever late
  removals and broken-off walks do to a directory that was announced, a later event makes
  good. It is essential that a walk adds nothing to `seen` whose removal waits
  (`MCFindLateRemoval`). What is `lost` is excepted: its watch failed.
- `EventInvariance`: `EventInv` says that the last event about a file that waits tells
  whether the file exists, and that without any the content was reported. So
  `ChangesAreReported`, although a file is read when its event is handled, not when it was
  sent. It holds with any `NamePrefixes`.

`EngineRunProofs`: `RunInvariance`, of `RunInv`: `RunTemplWatch` does not leave before its
process was waited for, and `runTemplierServer` not before its goroutines, and what
the group holds is what `Run` returns. With it `FatalErrorIsReturned`,
`TemplAndPortAreReleased` and `OutputIsProduction`.

Proved but not repeated in a run, since TLC found them to hold earlier and the
properties that rest on them are run: the type invariants, `BinaryInv`,
`RunningIsAwaited`, `RunnerInv`, `NewestUncancelled`, `DebounceInv`, `RunsNewest`,
`TurnInv`, `ServerInv`, `ExecutedInv`, `SignalInv`, `AskedInv`, `HandlerInv`,
`PipelineInv`, `CurrentInv`, `RunInv`, `Inv` of `TabsProofs` and
the invariants of `WatcherProofs`.

Every invariant, refinement and action property of the runs is proved, under the
assumptions given above. Only model-checked are the liveness properties, among them
`RequiredActionTaken` (the prover handles neither fairness nor `ENABLED`).

## Plan

Done: the launcher, the handler, the pipeline, the composition of debouncer and
runner, proxy and tabs, the watcher, the engine's life, and their proofs as listed.
Left:

1. The handler with real debouncers instead of reduced ones, that is `ChangeHandler`
   over several instances of `Debounce`, and the proof that it refines them.
2. Action properties of the launcher and of the pipeline from their invariants.

## Not modelled

- `engine/config.go`, `internal/config`, `main.go`: sequential parsing, defaults and
  validation of options. They keep no state while the engine runs; what they
  guarantee (a watcher has a name, an action or a command, and patterns that compile)
  is what the constants of the modules assume.
- `internal/log`: formatting, one mutex around each line.
- `internal/ansihtml`, the markup of the templates: how a report looks. Which reports
  a page shows is in `Proxy`.
- TLS, HTTP/2 and the text of headers: done by the standard library.
- Symbolic links in the watched tree, permissions, the syntax of glob patterns.
- Process groups and the shell of `cmdrun`: a command ends, with one of the outcomes
  that its callers tell apart.
- `statetrack.Tracker.Reset`, which only a test calls, and
  `Watcher.RangeWatchedDirs`, which only reads.
- Data races on the launcher's shared variables beyond the interleaving of whole
  reads and writes, and the panic of a wait group that is reused early.
