------------------------------ MODULE Recompile ------------------------------
(***************************************************************************)
(* How a recompile is asked for: the function that recompile hands to the  *)
(* debouncer calls Go of the build runner.  The module composes Debounce   *)
(* and CtxRun; the context of the debouncer and that of the builds is the  *)
(* engine's.                                                               *)
(***************************************************************************)
EXTENDS Debounce, CtxRun

VARIABLE asked          \* the trigger whose function called Go last

vars == <<debounceVars, runnerVars, asked>>

RecompileInit == DebounceInit /\ Init /\ asked = NoFn

\* The function of recompile, called by runDebouncer under its mutex.
Build ==
    /\ pc = "running" /\ asked # lastRun
    /\ Go
    /\ asked' = lastRun
    /\ UNCHANGED debounceVars

\* Without a debouncer the caller of trigger executes it.
BuildNow ==
    /\ TriggerNow /\ Go
    /\ asked' = triggered'

\* The function returned.
Built ==
    /\ asked = lastRun
    /\ Unlock
    /\ UNCHANGED <<runnerVars, asked>>

DebouncerStep ==
    /\ Trigger \/ Tick \/ Receive \/ Lock \/ Exit
    /\ UNCHANGED <<runnerVars, asked>>

TaskStep(id) ==
    /\ Return(id) \/ Cleanup(id)
    /\ UNCHANGED <<debounceVars, asked>>

\* Engine.Run's context ends.
Shutdown == Cancel /\ CancelParent /\ UNCHANGED asked

RecompileNext ==
    \/ DebouncerStep \/ Build \/ BuildNow \/ Built \/ Shutdown
    \/ \E id \in Runs : TaskStep(id)

\* Time passes, goroutines are scheduled, the debounced function returns; a build is only
\* known to return once its context is done.
RecompileFairness ==
    /\ WF_vars(Tick /\ UNCHANGED <<runnerVars, asked>>)
    /\ WF_vars(Receive /\ UNCHANGED <<runnerVars, asked>>)
    /\ WF_vars(Lock /\ UNCHANGED <<runnerVars, asked>>)
    /\ WF_vars(Exit /\ UNCHANGED <<runnerVars, asked>>)
    /\ WF_vars(Build) /\ WF_vars(Built)
    /\ \A id \in Runs :
        /\ WF_vars(CtxDone(id) /\ Return(id) /\ UNCHANGED <<debounceVars, asked>>)
        /\ WF_vars(Cleanup(id) /\ UNCHANGED <<debounceVars, asked>>)

RecompileSpec == RecompileInit /\ [][RecompileNext]_vars /\ RecompileFairness

-----------------------------------------------------------------------------
(* Properties *)

\* While nothing is pending, the build started last is the one the last trigger
\* asked for, and only the shutdown ends it: builds neither overtake nor cancel
\* each other out of order on the way through the debouncer and the runner.
LastTriggerBuilds ==
    pc \in {"select", "exited"} /\ fn = NoFn =>
        /\ asked = triggered
        /\ counter \notin cancelled
=============================================================================
