---------------------------- MODULE MCStatcanLane ----------------------------
(* Small instances of StatcanLane for TLC.                                 *)
EXTENDS StatcanLane, TLC

CONSTANTS c1, c2

OneCube  == {c1}
TwoCubes == {c1, c2}

CubeSymmetry == Permutations(TwoCubes)
=============================================================================
