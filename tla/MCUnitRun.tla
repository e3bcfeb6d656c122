------------------------------ MODULE MCUnitRun ------------------------------
(* Small instances of UnitRun for TLC.                                     *)
EXTENDS UnitRun, TLC

CONSTANTS s1, s2, r1, r2

TwoSeries  == {s1, s2}
OneSeries  == {s1}
OneRunner  == {r1}
TwoRunners == {r1, r2}

SeriesSymmetry == Permutations(TwoSeries)
UnitSymmetry   == SeriesSymmetry \cup Permutations(TwoRunners)

(* States that differ only in the status on record: no action reads it.    *)
NoStatus == <<data, debts, lease, pc, local, unit.vintage, unit.last>>
=============================================================================
