----------------------------- MODULE MCRecompile -----------------------------
(* Model-checking instance of Recompile: see MCRecompile.cfg for the bounds. *)
EXTENDS Recompile
=============================================================================
