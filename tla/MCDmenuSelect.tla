---------------------------- MODULE MCDmenuSelect ----------------------------
(* Small instances of DmenuSelect for TLC. *)
EXTENDS DmenuSelect
=============================================================================
