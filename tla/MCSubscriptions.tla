--------------------------- MODULE MCSubscriptions ---------------------------
(* Small instances of Subscriptions for TLC; the bounds are in the .cfg files. *)
EXTENDS Subscriptions, TLC

\* Requests differ in nothing but their names: sound for the safety runs.
RequestSymmetry == Permutations(Requests)
=============================================================================
