---------------------------- MODULE MCDmenuReader ----------------------------
(* Small instances of DmenuReader for TLC. *)
EXTENDS DmenuReader
=============================================================================
