------------------------------- MODULE MCView -------------------------------
(* Small instances of View for TLC. *)
EXTENDS View
=============================================================================
