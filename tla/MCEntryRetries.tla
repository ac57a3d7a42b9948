--------------------------- MODULE MCEntryRetries ---------------------------
(***************************************************************************)
(* Small instances of EntryRetries for TLC.                                *)
(***************************************************************************)
EXTENDS EntryRetries
=============================================================================
