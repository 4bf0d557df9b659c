-------------------------------- MODULE MCSpin --------------------------------
(* A small instance of Spin for TLC: one intervention of three concerns      *)
(* nobody; the other bounds are in the .cfg file.                            *)
EXTENDS Spin, TLC

CONSTANTS g1, g2, g3, o1

MostConcerns == {<<g1, o1>>, <<g3, o1>>}
=============================================================================
