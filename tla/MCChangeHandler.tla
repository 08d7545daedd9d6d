--------------------------- MODULE MCChangeHandler ---------------------------
(* Model-checking instance of ChangeHandler: the watchers and what they require. *)
EXTENDS ChangeHandler
CONSTANTS restarter, rebuilder

MCRequires == [w \in Watchers |-> IF w = restarter THEN ActionRestart ELSE ActionRebuild]
=============================================================================
