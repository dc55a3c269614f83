--------------------------- MODULE MCPlayHandlers ---------------------------
(***************************************************************************)
(* PlayHandlers for TLC: each setting may change once, one reboot.         *)
(***************************************************************************)
EXTENDS PlayHandlers
=============================================================================
