---------------------------- MODULE MCWorkbench ----------------------------
(***************************************************************************)
(* The review workbench with two contents of the archive, tables of two    *)
(* pages, and one restart of the server.                                   *)
(***************************************************************************)
EXTENDS Workbench
=============================================================================
