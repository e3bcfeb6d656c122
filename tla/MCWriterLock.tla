---------------------------- MODULE MCWriterLock ----------------------------
(* Small instances of WriterLock for TLC: three pids, each reused once.    *)
EXTENDS WriterLock, TLC

CONSTANTS p1, p2, p3

Pids2 == {p1, p2}
Pids3 == {p1, p2, p3}
NoSteady == {}
Lane == {p1}

PidSymmetry == Permutations(Pids3)
=============================================================================
