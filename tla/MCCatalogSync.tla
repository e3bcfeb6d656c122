---------------------------- MODULE MCCatalogSync ----------------------------
(* Small instances of CatalogSync for TLC.                                 *)
EXTENDS CatalogSync, TLC

CONSTANTS a, b, g

TwoIds == {a, b}
AllIds == {a, b, g}
OnlyG  == {g}

(* A revision changes the title of b, and leaves that of a and g.          *)
Titled == [i \in {a, b, g} |-> IF i = b THEN 1 :> 1 @@ 2 :> 2 ELSE 1 :> 1 @@ 2 :> 1]
TwoTitled == [i \in {a, b} |-> Titled[i]]
OneTitle  == [i \in {a, b, g} |-> 1 :> 1]
=============================================================================
