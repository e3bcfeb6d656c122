-------------------------- MODULE MCStatcanNewCubes --------------------------
(* Small instances of StatcanNewCubes for TLC.                             *)
EXTENDS StatcanNewCubes, TLC

CONSTANTS c1, c2

OneCube  == {c1}
TwoCubes == {c1, c2}

CubeSymmetry == Permutations(TwoCubes)
=============================================================================
