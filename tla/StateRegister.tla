---------------------------- MODULE StateRegister ----------------------------
(***************************************************************************)
(* What the round trip of state.db promises its users (updater/run.py):    *)
(* one shared store that only ever gains runs, and a push that reported    *)
(* success whose runs stay in it.                                          *)
(***************************************************************************)
CONSTANT Runs   \* the runs that ever get recorded

VARIABLES
    stored,     \* the runs recorded in the authoritative store
    promised    \* the runs some push reported as saved (exit 0)

Init == stored = {} /\ promised = {}

(* A push adds the runs it carries to whatever the store holds.            *)
Save == \E S \in SUBSET Runs : /\ stored \subseteq S
                               /\ stored' = S
                               /\ UNCHANGED promised

(* A push reports success for runs that are stored.                        *)
Report == \E S \in SUBSET stored : /\ promised' = promised \cup S
                                   /\ UNCHANGED stored

Next == Save \/ Report

Spec == Init /\ [][Next]_<<stored, promised>>
=============================================================================
