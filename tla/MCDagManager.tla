---------------------------- MODULE MCDagManager ----------------------------
(***************************************************************************)
(* Instances of DagManager for TLC.                                        *)
(***************************************************************************)
EXTENDS DagManagerProps, TLC

CONSTANTS d1, d2, c1, c2

DagSymmetry == Permutations(Dag)
=============================================================================
