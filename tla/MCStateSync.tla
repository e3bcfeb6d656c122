---------------------------- MODULE MCStateSync ----------------------------
(* Small instances of StateSync for TLC: a desktop and a CI runner.    *)
EXTENDS StateSync, TLC

CONSTANTS desktop, runner, r1, r2

TwoMachines == {desktop, runner}
CiRunner    == {runner}
NoRunner    == {}
TwoRuns     == {r1, r2}
OneRun      == {r1}

RunSymmetry == Permutations(TwoRuns)
=============================================================================
