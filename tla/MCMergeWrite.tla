----------------------------- MODULE MCMergeWrite -----------------------------
(***************************************************************************)
(* Instances of MergeWrite for TLC.                                        *)
(***************************************************************************)
EXTENDS MergeWrite, TLC

CONSTANTS a, b

TwoSeries == {1, 2}
OneSeries == {1}
TwoVals   == {a, b}
ValPerms  == Permutations(TwoVals)
=============================================================================
