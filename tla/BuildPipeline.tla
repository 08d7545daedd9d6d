--------------------------- MODULE BuildPipeline ---------------------------
(***************************************************************************)
(* From an edit of the source to a new binary and the errors shown in the  *)
(* browser: the debounced recompile, the CtxRun runner that supersedes a   *)
(* build by the next one, the linter and the compiler that a build runs    *)
(* side by side, the error tracker they report to and the channel to the   *)
(* app launcher.  Starting a build cancels the context of its predecessor  *)
(* and does not wait for it.                                               *)
(*                                                                         *)
(* The source is a sequence of versions; an edit adds one.  A command sees *)
(* the version that is newest at some moment while it runs, and its result *)
(* depends on that version.  A binary is named by the version it was       *)
(* compiled from.                                                          *)
(***************************************************************************)
EXTENDS Naturals

CONSTANTS
    MaxVersions,        \* bound on the versions of the source
    MaxBuilds,          \* bound on the builds after the initial one
    Hazards             \* what the schedules may contain: see HazardKinds

\* "early": edits while the initial build runs, which nobody notices; "other":
\* errors of templ, of custom watchers and of the app.
HazardKinds == {"early", "other"}

ASSUME BuildAssumption ==
    /\ MaxVersions \in Nat \ {0} /\ MaxBuilds \in Nat
    /\ Hazards \subseteq HazardKinds

Versions == 1..MaxVersions
NoVersion == 0
Builds == 0..MaxBuilds
Initial == 0            \* the build that Engine.Run performs itself
Runs == 1..MaxBuilds

Qualities == {"good", "unlinted", "broken"}

VARIABLES
    confLint,           \* conf.Lint
    src, quality,       \* the newest version, what every version is like
    pending,            \* the debouncer holds a function of recompile
    counter, cancel, phase, cancelled, parentDone,      \* buildRunner: see CtxRun
    pc,                 \* progress of every build
    go, goVer,          \* its go build: progress, and the version it sees
    lint, lintVer,      \* its golangci-lint
    binary,             \* builds whose go build returned a path
    errTempl, errLint, errGo, errExit, errWatcher,      \* the error tracker
    chRunNewServer,     \* the binary in the channel of capacity 1
    served,             \* the binary the launcher took last
    disturbed,          \* history: an error of templ, a watcher or the app stood or
                        \* came up since the newest build was started
    outrun              \* history: since then an older build was not over when a command
                        \* of the newest ended, go or the linter of the newest failed
                        \* with another exit code than 1, or an edit went unnoticed

srcVars == <<confLint, src, quality, pending>>
runnerVars == <<counter, cancel, phase, cancelled, parentDone>>
goVars == <<go, goVer, binary>>
lintVars == <<lint, lintVer>>
errVars == <<errTempl, errLint, errGo, errExit, errWatcher>>
outVars == <<chRunNewServer, served>>
history == <<disturbed, outrun>>
vars == <<srcVars, runnerVars, pc, goVars, lintVars, errVars, outVars, history>>

Runner == INSTANCE CtxRun WITH MaxRuns <- MaxBuilds

Pcs == {"none", "begin", "join", "check", "send", "end"}
CmdPcs == {"none", "start", "run", "store", "done"}

TypeOK ==
    /\ Runner!TypeOK
    /\ src \in Versions /\ quality \in [Versions -> Qualities] /\ pending \in BOOLEAN
    /\ pc \in [Builds -> Pcs]
    /\ go \in [Builds -> CmdPcs] /\ goVer \in [Builds -> 0..MaxVersions]
    /\ lint \in [Builds -> IF confLint THEN CmdPcs ELSE {"none", "done"}]
    /\ lintVer \in [Builds -> 0..MaxVersions]
    /\ binary \subseteq Builds
    /\ {errTempl, errLint, errGo, errExit, errWatcher} \subseteq BOOLEAN
    /\ chRunNewServer \in 0..MaxVersions /\ served \in 0..MaxVersions
    /\ {confLint, disturbed, outrun} \subseteq BOOLEAN

\* The initial build is about to begin; the versions to come are not known yet.
Init ==
    /\ Runner!Init
    /\ src = 1 /\ quality \in [Versions -> Qualities] /\ pending = FALSE
    /\ \A v \in Versions \ {src} : quality[v] = "good"
    /\ pc = [b \in Builds |-> IF b = Initial THEN "begin" ELSE "none"]
    /\ go = [b \in Builds |-> "none"] /\ goVer = [b \in Builds |-> NoVersion]
    /\ lint = [b \in Builds |-> "none"] /\ lintVer = [b \in Builds |-> NoVersion]
    /\ binary = {}
    /\ errTempl = FALSE /\ errLint = FALSE /\ errGo = FALSE
    /\ errExit = FALSE /\ errWatcher = FALSE
    /\ chRunNewServer = NoVersion /\ served = NoVersion
    /\ confLint \in BOOLEAN /\ disturbed = FALSE /\ outrun = FALSE

CtxDone(b) == parentDone \/ b \in cancelled
NoError == ~(errTempl \/ errLint \/ errGo \/ errExit \/ errWatcher)
\* The watcher is started when the initial build is over.
Watching == pc[Initial] = "end"

\* All the builds that b superseded are over.
Superseded(b) == \A c \in Builds : c < b => pc[c] = "end"

\* What the history keeps of a command of b that ends, and of one that fails.
Outruns(b) == outrun' = (outrun \/ (b = counter /\ ~Superseded(b)))
ToolFails(b) == outrun' = (outrun \/ b = counter)

Goto(b, from, to) == pc[b] = from /\ pc' = [pc EXCEPT ![b] = to]

\* The task of the runner returns; the initial build is none.
End(b, from) ==
    /\ Goto(b, from, "end")
    /\ IF b = Initial THEN UNCHANGED runnerVars ELSE Runner!Return(b)

-----------------------------------------------------------------------------
(* The source, the debouncer, the app launcher and the sources of other errors. *)

\* Mutant: an edit is ignored while a build runs.
EditWhenIdle(q) ==
    /\ src < MaxVersions
    /\ Watching \/ "early" \in Hazards
    /\ src' = src + 1
    /\ quality' = [quality EXCEPT ![src'] = q]
    /\ pending' = (pending \/ \A b \in Builds : pc[b] \in {"none", "end"})
    /\ outrun' = (outrun \/ ~Watching)
    /\ UNCHANGED <<confLint, runnerVars, pc, goVars, lintVars, errVars, outVars,
                   disturbed>>

\* A file changes; the file watcher reports it and its handler calls recompile.
\* Before the watcher was started nobody notices.
Edit(q) ==
    /\ src < MaxVersions
    /\ Watching \/ "early" \in Hazards
    /\ src' = src + 1
    /\ quality' = [quality EXCEPT ![src'] = q]
    /\ pending' = (pending \/ Watching)
    /\ outrun' = (outrun \/ ~Watching)
    /\ UNCHANGED <<confLint, runnerVars, pc, goVars, lintVars, errVars, outVars,
                   disturbed>>

\* The launcher receives the path.
TakeBinary ==
    /\ chRunNewServer # NoVersion
    /\ served' = chRunNewServer
    /\ chRunNewServer' = NoVersion
    /\ UNCHANGED <<srcVars, runnerVars, pc, goVars, lintVars, errVars, history>>

\* An error of templ or of a custom watcher appears or goes away; the app exits
\* with an error.
OtherErrorChanges ==
    /\ "other" \in Hazards
    /\ \/ errTempl' = ~errTempl /\ UNCHANGED <<errWatcher, errExit>>
       \/ errWatcher' = ~errWatcher /\ UNCHANGED <<errTempl, errExit>>
       \/ served # NoVersion /\ errExit' = TRUE /\ UNCHANGED <<errTempl, errWatcher>>
    /\ disturbed' = TRUE
    /\ UNCHANGED <<srcVars, runnerVars, pc, goVars, lintVars, errLint, errGo, outVars,
                   outrun>>

CancelContext ==
    /\ Runner!CancelParent
    /\ UNCHANGED <<srcVars, pc, goVars, lintVars, errVars, outVars, history>>

-----------------------------------------------------------------------------
(* recompile and lintAndBuildServer *)

\* Mutant: the build is started beside the runner, its predecessor goes on.
StartBuildBeside ==
    /\ pending /\ counter < MaxBuilds
    /\ pending' = FALSE
    /\ disturbed' = (errTempl \/ errWatcher) /\ outrun' = FALSE
    /\ counter' = counter + 1 /\ cancel' = counter'
    /\ phase' = [phase EXCEPT ![counter'] = "running"]
    /\ pc' = [pc EXCEPT ![counter'] = "begin"]
    /\ UNCHANGED <<confLint, src, quality, cancelled, parentDone, goVars, lintVars,
                   errVars, outVars>>

\* The debouncer runs the function that recompile handed over.
StartBuild ==
    /\ pending
    /\ pending' = FALSE
    /\ disturbed' = (errTempl \/ errWatcher) /\ outrun' = FALSE
    /\ Runner!Go
    /\ pc' = [pc EXCEPT ![counter'] = "begin"]
    /\ UNCHANGED <<confLint, src, quality, goVars, lintVars, errVars, outVars>>

\* lintAndBuildServer is left without a build while templ's error stands.
Begin(b) ==
    /\ pc[b] = "begin"
    /\ IF errTempl
         THEN /\ IF b = Initial THEN End(b, "begin")
                                ELSE Goto(b, "begin", "check") /\ UNCHANGED runnerVars
              /\ UNCHANGED <<go, lint>>
         ELSE /\ Goto(b, "begin", "join")
              /\ go' = [go EXCEPT ![b] = "start"]
              /\ lint' = [lint EXCEPT ![b] = IF confLint THEN "start" ELSE "done"]
              /\ UNCHANGED runnerVars
    /\ UNCHANGED <<srcVars, goVer, lintVer, binary, errVars, outVars, history>>

\* Mutant: the compiler is not waited for.
JoinLintOnly(b) ==
    /\ lint[b] = "done"
    /\ \/ b # Initial /\ Goto(b, "join", "check") /\ UNCHANGED runnerVars
       \/ b = Initial /\ b \in binary /\ Goto(b, "join", "send") /\ UNCHANGED runnerVars
       \/ b = Initial /\ b \notin binary /\ End(b, "join")
    /\ UNCHANGED <<srcVars, goVars, lintVars, errVars, outVars, history>>

\* wg.Wait().  The initial build sends its binary whatever error stands.
Join(b) ==
    /\ go[b] = "done" /\ lint[b] = "done"
    /\ \/ b # Initial /\ Goto(b, "join", "check") /\ UNCHANGED runnerVars
       \/ b = Initial /\ b \in binary /\ Goto(b, "join", "send") /\ UNCHANGED runnerVars
       \/ b = Initial /\ b \notin binary /\ End(b, "join")
    /\ UNCHANGED <<srcVars, goVars, lintVars, errVars, outVars, history>>

\* Any error at all keeps a new binary from being run; so does a missing binary.
Check(b) ==
    /\ IF NoError /\ b \in binary
         THEN Goto(b, "check", "send") /\ UNCHANGED runnerVars
         ELSE End(b, "check")
    /\ UNCHANGED <<srcVars, goVars, lintVars, errVars, outVars, history>>

\* e.chRunNewServer <- newBinaryPath blocks while the channel is full.
Send(b) ==
    /\ chRunNewServer = NoVersion
    /\ End(b, "send")
    /\ chRunNewServer' = goVer[b]
    /\ UNCHANGED <<srcVars, goVars, lintVars, errVars, served, history>>

CleanupBuild(b) ==
    /\ Runner!Cleanup(b)
    /\ UNCHANGED <<srcVars, pc, goVars, lintVars, errVars, outVars, history>>

-----------------------------------------------------------------------------
(* buildServer *)

GoReads(b) ==
    /\ go[b] = "start"
    /\ go' = [go EXCEPT ![b] = "run"]
    /\ goVer' = [goVer EXCEPT ![b] = src]
    /\ UNCHANGED <<srcVars, runnerVars, pc, binary, lintVars, errVars, outVars, history>>

\* Mutant: a command whose context is cancelled is waited for in vain.
GoEndsUncancelled(b) ==
    /\ go[b] = "run" /\ ~CtxDone(b)
    /\ go' = [go EXCEPT ![b] = "store"]
    /\ Outruns(b)
    /\ UNCHANGED <<srcVars, runnerVars, pc, goVer, binary, lintVars, errVars, outVars, disturbed>>

\* cmdrun.Run returns and the context is checked: from here on nothing keeps the
\* build from reporting, even if it is superseded.
GoEnds(b) ==
    /\ go[b] = "run"
    /\ go' = [go EXCEPT ![b] = IF CtxDone(b) THEN "done" ELSE "store"]
    /\ Outruns(b)
    /\ UNCHANGED <<srcVars, runnerVars, pc, goVer, binary, lintVars, errVars, outVars, disturbed>>

\* Mutant: success does not reset the compiler's error.
StoreGoKeepsError(b) ==
    /\ go[b] = "store"
    /\ go' = [go EXCEPT ![b] = "done"]
    /\ IF quality[goVer[b]] = "broken"
         THEN errGo' = TRUE /\ UNCHANGED <<errExit, binary>>
         ELSE errExit' = FALSE /\ binary' = binary \cup {b} /\ UNCHANGED errGo
    /\ UNCHANGED <<srcVars, runnerVars, pc, goVer, lintVars, errTempl, errLint,
                   errWatcher, outVars, history>>

\* Exit code 1 leaves the compiler's output; other failures leave none, which
\* resets the error; success resets the error of the app's exit as well.
StoreGo(b) ==
    /\ go[b] = "store"
    /\ go' = [go EXCEPT ![b] = "done"]
    /\ \/ /\ quality[goVer[b]] = "broken"
          /\ errGo' = TRUE /\ UNCHANGED <<errExit, binary, outrun>>
       \/ /\ quality[goVer[b]] # "broken"
          /\ errGo' = FALSE /\ errExit' = FALSE
          /\ binary' = binary \cup {b} /\ UNCHANGED outrun
       \/ errGo' = FALSE /\ ToolFails(b) /\ UNCHANGED <<errExit, binary>>
    /\ UNCHANGED <<srcVars, runnerVars, pc, goVer, lintVars, errTempl, errLint,
                   errWatcher, outVars, disturbed>>

-----------------------------------------------------------------------------
(* runGolangCILint *)

LintReads(b) ==
    /\ lint[b] = "start"
    /\ lint' = [lint EXCEPT ![b] = "run"]
    /\ lintVer' = [lintVer EXCEPT ![b] = src]
    /\ UNCHANGED <<srcVars, runnerVars, pc, goVars, errVars, outVars, history>>

LintEnds(b) ==
    /\ lint[b] = "run"
    /\ lint' = [lint EXCEPT ![b] = IF CtxDone(b) THEN "done" ELSE "store"]
    /\ Outruns(b)
    /\ UNCHANGED <<srcVars, runnerVars, pc, goVars, lintVer, errVars, outVars, disturbed>>

\* Code that does not compile does not lint either.  A failure other than exit
\* code 1 leaves the tracker as it is.
StoreLint(b) ==
    /\ lint[b] = "store"
    /\ lint' = [lint EXCEPT ![b] = "done"]
    /\ \/ errLint' = (quality[lintVer[b]] # "good") /\ UNCHANGED outrun
       \/ ToolFails(b) /\ UNCHANGED errLint
    /\ UNCHANGED <<srcVars, runnerVars, pc, goVars, lintVer, errTempl, errGo, errExit,
                   errWatcher, outVars, disturbed>>

-----------------------------------------------------------------------------
GoStep(b) == GoReads(b) \/ GoEnds(b) \/ StoreGo(b)
LintStep(b) == LintReads(b) \/ LintEnds(b) \/ StoreLint(b)
TaskStep(b) == Begin(b) \/ Join(b) \/ Check(b) \/ Send(b)

Next ==
    \/ \E q \in Qualities : Edit(q)
    \/ StartBuild
    \/ \E b \in Builds : TaskStep(b) \/ GoStep(b) \/ LintStep(b)
    \/ \E b \in Runs : CleanupBuild(b)
    \/ TakeBinary \/ OtherErrorChanges \/ CancelContext

\* Goroutines are scheduled, ticks come, commands end and the launcher receives.
Fairness ==
    /\ WF_vars(StartBuild) /\ WF_vars(TakeBinary)
    /\ \A b \in Builds : WF_vars(TaskStep(b)) /\ WF_vars(GoStep(b)) /\ WF_vars(LintStep(b))
    /\ \A b \in Runs : WF_vars(CleanupBuild(b))

Spec == Init /\ [][Next]_vars
FairSpec == Spec /\ Fairness

-----------------------------------------------------------------------------
(* Properties *)

Settled ==
    /\ Watching /\ ~pending /\ chRunNewServer = NoVersion /\ ~parentDone
    /\ \A b \in Builds : pc[b] \in {"none", "end"}

\* Once builds have settled, the newest one compiled the newest source, unless
\* templ's error kept it from compiling at all: no edit slips in between the
\* trigger, the debouncer and the start of a build.
LastEditCompiled ==
    Settled => goVer[counter] \in {src, NoVersion}

\* The errors shown are those of the newest source, if the newest build compiled it.
ErrorsAreCurrent ==
    Settled /\ goVer[counter] = src =>
        /\ errGo <=> quality[src] = "broken"
        /\ confLint => (errLint <=> quality[src] # "good")

\* Once builds have settled, the errors of the compiler and the linter are those
\* of the newest source if the newest build compiled it: a repaired error is
\* gone and a new one is not missing, whatever superseded builds reported before
\* the newest did and whichever of their tools failed.
ErrorsAreCurrentUnlessOutrun == ~outrun => ErrorsAreCurrent

\* The error of the compiler is gone once the newest build produced a binary.
RepairedErrorIsGone == Settled /\ counter \in binary => ~errGo

\* The launcher never receives a binary older than the one it received before.
ServedInOrder == [][served' >= served]_vars

\* The server runs the newest source if no error is shown, unless an error that
\* is none of the build's got in its way.
ServedIsCurrent == Settled /\ NoError /\ ~disturbed => served = src

\* Once builds have settled and no error is shown, the server runs the newest
\* source and no binary that a superseded build sent late, unless an error that
\* is none of the build's got in its way.
ServedIsCurrentUnlessOutrun == ~outrun => ServedIsCurrent

\* Whatever error got in its way: once builds have settled and no error is left
\* the binary that was compiled from the newest source is the one that runs.
CompiledIsServed ==
    Settled /\ NoError /\ ~outrun /\ counter \in binary /\ goVer[counter] = src => served = src

\* Every edit the watcher noticed is settled in finite time, however builds
\* supersede each other.
EditSettles == pending ~> (Settled \/ parentDone)

\* Seen through its runner alone the pipeline is a CtxRun: of any two builds at
\* most one, the newest, has a context that the runner did not cancel.
ImplementsRunner == Runner!Spec
=============================================================================
