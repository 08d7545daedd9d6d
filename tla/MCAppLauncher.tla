---------------------------- MODULE MCAppLauncher ----------------------------
(* Model-checking instance of AppLauncher: the bounds are in the MCLauncher*.cfg *)
(* files.                                                                        *)
EXTENDS AppLauncher

\* Bound of the run with three tasks: the engine is not shut down, and the first
\* task, which starts the first server, has ended before the others overlap.
FirstAlone == ~parentDone /\ (counter > 1 => pc[1] = "end" /\ phase[1] = "done")

\* Bound of the same run: an error of another source may refuse the second task, and is
\* repaired before the third request is taken.
ErrorsRepaired == errOther => counter = 2

\* The liveness properties are fulfilled where this fails, and it never becomes
\* true again, so that nothing is lost by leaving these states out.
NotFulfilled == "starting" \notin overtaken /\ ~panicked
=============================================================================
