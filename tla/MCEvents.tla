------------------------------- MODULE MCEvents -------------------------------
(* Small instances of Events for TLC; the bounds are in the .cfg files. *)
EXTENDS Events, TLC
=============================================================================
