-------------------------------- MODULE MCSwap --------------------------------
(* Two targets; the other constants are in the cfg.                        *)
EXTENDS Swap, TLC

CONSTANTS blue, green, w1, w2, r1, r2

BlueGreen == {blue, green}
OneWork   == {w1}
TwoWorks  == {w1, w2}
OneReq    == {r1}
TwoReqs   == {r1, r2}

Perms == Permutations({w1, w2}) \cup Permutations({r1, r2})
=============================================================================
