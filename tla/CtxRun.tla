------------------------------- MODULE CtxRun -------------------------------
(***************************************************************************)
(* The context-cancelling goroutine runner of internal/ctxrun: Runner.Go   *)
(* cancels the context of the task started last (if it still runs) and     *)
(* starts the next one without waiting for its predecessor to return.      *)
(* Tasks are numbered by the runner's counter.  The mutex makes Runner.Go  *)
(* and the deferred clean-up of a task atomic.                             *)
(***************************************************************************)
EXTENDS Naturals

CONSTANT MaxRuns        \* bound on the calls of Runner.Go (counter is a uint64)
ASSUME MaxRunsAssumption == MaxRuns \in Nat

Runs == 1..MaxRuns
NoRun == 0              \* Runner.cancel = nil

VARIABLES
    counter,            \* Runner.counter, the number of the newest task
    cancel,             \* Runner.cancel, named by the task it cancels
    phase,              \* progress of every task: see Phases
    cancelled,          \* tasks whose own context the runner cancelled
    parentDone          \* the context the callers pass to Go is cancelled

runnerVars == <<counter, cancel, phase, cancelled, parentDone>>

\* "new": Go was not called yet; "running": fn runs; "returned": fn returned but
\* the deferred clean-up did not run; "done": the goroutine is gone.
Phases == {"new", "running", "returned", "done"}

TypeOK ==
    /\ counter \in 0..MaxRuns
    /\ cancel \in 0..MaxRuns
    /\ phase \in [Runs -> Phases]
    /\ cancelled \subseteq Runs
    /\ parentDone \in BOOLEAN

Init ==
    /\ counter = 0
    /\ cancel = NoRun
    /\ phase = [id \in Runs |-> "new"]
    /\ cancelled = {}
    /\ parentDone = FALSE

\* What fn observes through ctx.Err().
CtxDone(id) == parentDone \/ id \in cancelled

Live(id) == phase[id] = "running" /\ id \notin cancelled

-----------------------------------------------------------------------------
\* Mutant: r.cancel is replaced before the previous task is cancelled.
GoCancelsItself ==
    /\ counter < MaxRuns
    /\ counter' = counter + 1
    /\ cancel' = counter'
    /\ cancelled' = IF cancel # NoRun THEN cancelled \cup {cancel'} ELSE cancelled
    /\ phase' = [phase EXCEPT ![counter'] = "running"]
    /\ UNCHANGED parentDone

Go ==
    /\ counter < MaxRuns
    /\ counter' = counter + 1
    /\ cancelled' = IF cancel # NoRun THEN cancelled \cup {cancel} ELSE cancelled
    /\ cancel' = counter'
    /\ phase' = [phase EXCEPT ![counter'] = "running"]
    /\ UNCHANGED parentDone

\* fn returns; nothing of the runner changes before the deferred clean-up.
Return(id) ==
    /\ phase[id] = "running"
    /\ phase' = [phase EXCEPT ![id] = "returned"]
    /\ UNCHANGED <<counter, cancel, cancelled, parentDone>>

\* Mutant: the clean-up forgets that a newer task may have been started.
CleanupUnguarded(id) ==
    /\ phase[id] = "returned"
    /\ phase' = [phase EXCEPT ![id] = "done"]
    /\ cancel' = NoRun
    /\ UNCHANGED <<counter, cancelled, parentDone>>

\* The deferred function: cancel is cleared only if no newer task was started.
Cleanup(id) ==
    /\ phase[id] = "returned"
    /\ phase' = [phase EXCEPT ![id] = "done"]
    /\ cancel' = IF counter = id THEN NoRun ELSE cancel
    /\ UNCHANGED <<counter, cancelled, parentDone>>

\* The caller's context is cancelled.
CancelParent ==
    /\ ~parentDone
    /\ parentDone' = TRUE
    /\ UNCHANGED <<counter, cancel, phase, cancelled>>

Next ==
    \/ Go
    \/ \E id \in Runs : Return(id) \/ Cleanup(id)
    \/ CancelParent

Spec == Init /\ [][Next]_runnerVars

-----------------------------------------------------------------------------
(* Properties *)

\* Go cancels "the currently running goroutine (if any)": however the clean-ups
\* of older tasks interleave with calls of Go, no two tasks run uncancelled.
AtMostOneLive ==
    \A i, j \in Runs : Live(i) /\ Live(j) => i = j

\* The newest task is never cancelled by the runner itself, only by its parent
\* or by a later call of Go.
NewestUncancelled == counter \notin cancelled

\* Every superseded task that observes its context eventually leaves for good.
SupersededLeaves ==
    \A id \in Runs : (phase[id] = "running" /\ id < counter) ~> (phase[id] = "done")

\* The inductive strengthening of the two invariants: cancel always names the
\* newest task until that task cleaned up after itself.
CancelNamesNewest ==
    /\ cancel # NoRun => cancel = counter
    /\ cancel = NoRun /\ counter > 0 => phase[counter] = "done"

RunnerInv ==
    /\ TypeOK
    /\ CancelNamesNewest
    /\ \A id \in cancelled : id < counter
    /\ \A id \in Runs :
        /\ id > counter <=> phase[id] = "new"
        /\ id < counter => phase[id] = "done" \/ phase[id] = "returned" \/ id \in cancelled
=============================================================================
