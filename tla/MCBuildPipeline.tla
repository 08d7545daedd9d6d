---------------------------- MODULE MCBuildPipeline ----------------------------
(* Model-checking instance of BuildPipeline: the bounds are in MCBuild*.cfg.     *)
EXTENDS BuildPipeline

\* A pipeline whose context was cancelled is Settled in no later state.
NotCancelled == ~parentDone
=============================================================================
