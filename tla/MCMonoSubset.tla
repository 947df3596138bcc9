---------------------------- MODULE MCMonoSubset ----------------------------
(***************************************************************************)
(* All data sets of three rows over two features of three values, and of   *)
(* four rows over two Boolean features.                                    *)
(***************************************************************************)
EXTENDS MonoSubset

RowsOver(V) == [fs : [1..2 -> V], prd : {0, 1}]

SmallDataSets == [1..3 -> RowsOver(0..2)] \cup [1..4 -> RowsOver(0..1)]
=============================================================================
