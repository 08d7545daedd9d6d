------------------------------ MODULE Debounce ------------------------------
(***************************************************************************)
(* The debouncer of internal/debounce: trigger replaces the pending        *)
(* function and restarts the ticker; the runDebouncer goroutine runs the   *)
(* function when the ticker ticks, and leaves when its context is done.    *)
(*                                                                         *)
(* Functions are named by the number of the trigger call that handed them  *)
(* over.  The ticker is external: after Stop or Reset no tick of an        *)
(* earlier period is received (Go 1.23 and later), an armed ticker ticks   *)
(* again and again, and a tick nobody received yet is kept.                *)
(***************************************************************************)
EXTENDS Naturals

CONSTANT MaxTriggers    \* bound on the calls of trigger
ASSUME MaxTriggersAssumption == MaxTriggers \in Nat

NoFn == 0

VARIABLES
    enabled,            \* FALSE: NewSync was called with duration 0
    fn,                 \* the pending function
    ticker,             \* "stopped", "armed", or "ticked" (a tick waits in C)
    pc,                 \* runDebouncer: "select", "locking", "running", "exited"
    held,               \* the mutex is held by runDebouncer
    triggered,          \* number of trigger calls that returned
    lastRun,            \* the function executed last
    done                \* ctx is cancelled

debounceVars == <<enabled, fn, ticker, pc, held, triggered, lastRun, done>>

DebounceTypeOK ==
    /\ fn \in 0..MaxTriggers /\ triggered \in 0..MaxTriggers /\ lastRun \in 0..MaxTriggers
    /\ ticker \in {"stopped", "armed", "ticked"}
    /\ pc \in {"select", "locking", "running", "exited"}
    /\ enabled \in BOOLEAN /\ held \in BOOLEAN /\ done \in BOOLEAN

\* With duration 0 the returned runDebouncer does nothing.
DebounceInit ==
    /\ enabled \in BOOLEAN
    /\ fn = NoFn
    /\ ticker = "stopped"
    /\ pc = IF enabled THEN "select" ELSE "exited"
    /\ held = FALSE
    /\ triggered = 0
    /\ lastRun = NoFn
    /\ done = FALSE

-----------------------------------------------------------------------------
\* Mutant: the pending function is kept when another trigger arrives.
TriggerKeepsFirst ==
    /\ enabled /\ ~held /\ triggered < MaxTriggers
    /\ triggered' = triggered + 1
    /\ ticker' = "armed"
    /\ fn' = IF fn = NoFn THEN triggered' ELSE fn
    /\ UNCHANGED <<enabled, pc, held, lastRun, done>>

\* trigger, which blocks while runDebouncer holds the mutex.
Trigger ==
    /\ enabled /\ ~held /\ triggered < MaxTriggers
    /\ triggered' = triggered + 1
    /\ ticker' = "armed"
    /\ fn' = triggered'
    /\ UNCHANGED <<enabled, pc, held, lastRun, done>>

\* trigger of a disabled debouncer: the caller executes the function itself.
TriggerNow ==
    /\ ~enabled /\ triggered < MaxTriggers
    /\ triggered' = triggered + 1
    /\ lastRun' = triggered'
    /\ UNCHANGED <<enabled, fn, ticker, pc, held, done>>

\* External: a period of the ticker ends.
Tick ==
    /\ ticker = "armed"
    /\ ticker' = "ticked"
    /\ UNCHANGED <<enabled, fn, pc, held, triggered, lastRun, done>>

\* case <-ticker.C: the ticker goes on; the mutex is still to be taken.
Receive ==
    /\ pc = "select" /\ ticker = "ticked"
    /\ ticker' = "armed"
    /\ pc' = "locking"
    /\ UNCHANGED <<enabled, fn, held, triggered, lastRun, done>>

\* Mutant: the ticker keeps ticking after the function ran.
LockWithoutStop ==
    /\ pc = "locking"
    /\ held' = TRUE
    /\ lastRun' = fn
    /\ pc' = "running"
    /\ UNCHANGED <<enabled, fn, ticker, triggered, done>>

\* lock.Lock(), ticker.Stop() and the call of fn begins.
Lock ==
    /\ pc = "locking"
    /\ held' = TRUE
    /\ ticker' = "stopped"
    /\ lastRun' = fn
    /\ pc' = "running"
    /\ UNCHANGED <<enabled, fn, triggered, done>>

\* fn returned: fn = nil, lock.Unlock().
Unlock ==
    /\ pc = "running"
    /\ fn' = NoFn
    /\ held' = FALSE
    /\ pc' = "select"
    /\ UNCHANGED <<enabled, ticker, triggered, lastRun, done>>

Cancel ==
    /\ ~done
    /\ done' = TRUE
    /\ UNCHANGED <<enabled, fn, ticker, pc, held, triggered, lastRun>>

\* case <-ctx.Done(): a pending function is left behind.
Exit ==
    /\ pc = "select" /\ done
    /\ pc' = "exited"
    /\ UNCHANGED <<enabled, fn, ticker, held, triggered, lastRun, done>>

DebounceNext == Trigger \/ TriggerNow \/ Tick \/ Receive \/ Lock \/ Unlock \/ Cancel \/ Exit

DebounceSpec == DebounceInit /\ [][DebounceNext]_debounceVars

-----------------------------------------------------------------------------
(* Properties *)

\* A function runs only if it is the one the last trigger handed over: it is
\* never the nil of an earlier execution (a tick that raced the reset of fn),
\* and no trigger slips in while it runs.
RunsNewest == pc = "running" => fn # NoFn /\ lastRun = triggered

\* An execution starts: runDebouncer calls fn, or the caller of a disabled
\* debouncer's trigger does.
Starts == (pc # "running" /\ pc' = "running") \/ lastRun' # lastRun

\* Every function runs at most once, and functions run in the order in which
\* they were triggered: an execution that starts is of a newer function than
\* the execution before it, so it is neither that function again nor nil.
RunsInOrder == [][Starts => lastRun' > lastRun]_debounceVars

\* Unless the context is cancelled the last function triggered is executed,
\* whatever trigger races the tick, the lock or the running function.
LastTriggerRuns == <>[](lastRun = triggered \/ done)

\* A pending function always has a tick ahead of it.
PendingArmed ==
    /\ fn # NoFn => \/ ticker # "stopped"
                    \/ pc = "running" /\ lastRun = fn
    /\ ticker # "stopped" => fn # NoFn /\ fn = triggered
    /\ pc = "locking" => fn # NoFn /\ fn = triggered /\ ticker # "stopped"
    /\ pc = "running" => ticker = "stopped"

\* A pending function is newer than the one executed last.
PendingUnrun ==
    /\ lastRun <= triggered
    /\ fn # NoFn /\ pc # "running" => lastRun < fn

\* The mutex is held while a function runs; a disabled debouncer has no goroutine.
DebounceInv ==
    /\ DebounceTypeOK /\ PendingArmed /\ PendingUnrun
    /\ held <=> pc = "running"
    /\ ~enabled => pc = "exited" /\ ticker = "stopped"
=============================================================================
