----------------------------- MODULE MergeContract -----------------------------
(***************************************************************************)
(* What updater/merge.py promises to its callers ("the extension           *)
(* invariant"): a merge of new rows into a published table serves, for     *)
(* each key, the new value where there is one and the old value elsewhere; *)
(* it tells the caller exactly which series serve something else now; or   *)
(* it raises, and what is served is what was served before.                *)
(***************************************************************************)
EXTENDS Integers

CONSTANTS
    Series,   \* the series of one table
    Dates,    \* observation dates; 0 is the null date
    Vals,     \* observed values
    None,     \* no row
    Unheard   \* TRUE: a publish may land although its caller sees an error

Keys   == Series \X Dates
Tables == [Keys -> Vals \cup {None}]
Absent == -1

VARIABLES
    served,  \* served[k]: the value the published table gives for key k
    given,   \* the new rows of the call in progress
    busy,    \* a call is in progress
    raised,  \* the call that ended last raised
    report   \* the report: the newest changed date of each series, or Absent

vars == <<served, given, busy, raised, report>>

Nothing == [s \in Series |-> Absent]

Newest(D) == IF D = {} THEN Absent ELSE CHOOSE d \in D : \A e \in D : e <= d

Changes(old, new) ==
    [s \in Series |-> Newest({d \in Dates : old[<<s, d>>] # new[<<s, d>>]})]

Overlay == [k \in Keys |-> IF given[k] = None THEN served[k] ELSE given[k]]

Empty == [k \in Keys |-> None]

Init == /\ served \in Tables /\ given = Empty
        /\ busy = FALSE /\ raised = FALSE /\ report = Nothing

Call == /\ ~busy /\ busy' = TRUE /\ given' \in Tables
        /\ raised' = FALSE /\ report' = Nothing
        /\ UNCHANGED served

Publish == /\ busy /\ busy' = FALSE /\ given' = Empty
           /\ served' = Overlay
           /\ \/ raised' = FALSE /\ report' = Changes(served, Overlay)
              \/ Unheard /\ raised' = TRUE /\ report' = Nothing

Refuse == /\ busy /\ busy' = FALSE /\ given' = Empty
          /\ raised' = TRUE /\ report' = Nothing
          /\ UNCHANGED served

Next == Call \/ Publish \/ Refuse

Spec == Init /\ [][Next]_vars
=============================================================================
