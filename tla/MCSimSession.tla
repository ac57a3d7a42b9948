---------------------------- MODULE MCSimSession ----------------------------
(* One position that is entered and exited, and two resets that may overlap. *)
EXTENDS SimSession
=============================================================================
