--------------------------- MODULE MCCommandOutput ---------------------------
(* Small instances of CommandOutput for TLC. *)
EXTENDS CommandOutput
=============================================================================
