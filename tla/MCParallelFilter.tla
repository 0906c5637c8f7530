-------------------------- MODULE MCParallelFilter --------------------------
(***************************************************************************)
(* Model checking of ParallelFilter: small pools and rows, every set of    *)
(* matching rows, every order in which the threads may run.                *)
(***************************************************************************)
EXTENDS ParallelFilter

ZeroOrOne == {0, 1}
OnlyZero == {0}
=============================================================================
