------------------------------ MODULE MergeWrite ------------------------------
(***************************************************************************)
(* updater/merge.py: merge_and_write and merge_and_write_bounded, the merge *)
(* of new rows into a published table, and the report of what it changed.  *)
(*                                                                         *)
(* Both sort the stored rows and the new ones by key and then by position  *)
(* (stored rows first), keep the last row of each run of one key, and      *)
(* compare it with the last stored row of the run.  The small merge does   *)
(* so on the whole table.  The bounded one streams the sorted rows in      *)
(* batches: of what it holds it processes all but the last run, which the  *)
(* next batch may continue, and carries that over.                         *)
(*                                                                         *)
(* A stored table may hold several rows of one key, in any order: other    *)
(* writers made it.  An error before the publish, a refusal or an          *)
(* interruption leaves the store alone.  The publish replaces it.          *)
(*                                                                         *)
(* Left out: columns and their types and sizes (a schema that does not fit *)
(* is one of the refusals, like the entry guards of the report); the mode  *)
(* "overwrite", which no fetcher uses; the count of impossible dates and   *)
(* the returned row count and date; the temporary files, whose names are   *)
(* unique; allow_empty, which only tells whether an empty table that stays *)
(* empty is a refusal.  One writer of a table at a time.                   *)
(***************************************************************************)
EXTENDS Integers, Sequences, FiniteSets

CONSTANTS
    Series,    \* the series of one table, numbered
    MaxDate,   \* bound: dates 1 to MaxDate; 0 is the null date
    Vals,      \* observed values
    None,      \* no row
    MaxStored, \* bound: rows of the first table
    MaxNew,    \* bound: new rows of a call
    MaxBatch,  \* bound: rows of a batch of the stream
    Small,     \* at most this many rows on each side are merged in memory
    MinRatio,  \* min_ratio, in percent
    Unheard    \* TRUE: a publish may land although its caller sees an error

ASSUME MergeAssumption ==
    /\ Series \subseteq Nat /\ MaxDate \in Nat /\ None \notin Vals
    /\ MaxStored \in Nat /\ MaxNew \in Nat /\ MaxBatch \in Nat /\ Small \in Nat
    /\ MinRatio \in 0..100 /\ Unheard \in BOOLEAN

Dates  == 0..MaxDate
Keys   == Series \X Dates
Rows   == [s : Series, d : Dates, v : Vals]
Absent == -1

(* The tables of at most m rows.                                           *)
TablesUpTo(m) == UNION {[1..n -> Rows] : n \in 0..m}

VARIABLES
    store,    \* the published rows
    new,      \* the new rows of the call in progress
    phase,    \* where the call is
    stream,   \* the sorted rows, each with its position before the sort
    read,     \* how many of them were streamed
    cut,      \* how many of those were processed; the others are carried
    kept,     \* the places in the stream of the rows that were written
    changed,  \* those of them whose value is not the stored one
    raised,   \* the call that ended last raised
    report    \* its report: the newest changed date of each series

streaming == <<stream, read, cut, kept, changed>>
vars == <<store, new, phase, streaming, raised, report>>

Nothing == [s \in Series |-> Absent]

Init == /\ store \in TablesUpTo(MaxStored) /\ new = <<>>
        /\ phase = "idle" /\ stream = <<>> /\ read = 0 /\ cut = 0
        /\ kept = {} /\ changed = {}
        /\ raised = FALSE /\ report = Nothing

-----------------------------------------------------------------------------
(* The n elements that lower maps to the elements below them, in order.    *)
InOrder(n, lower) ==
    [p \in 1..n |-> CHOOSE x \in DOMAIN lower : Cardinality(lower[x]) = p - 1]

DateBefore(d, e) == d # e /\ d # 0 /\ (e = 0 \/ d < e)

(* ORDER BY the keys, nulls last, then __i.                                *)
Before(x, y) ==
    \/ x.s < y.s
    \/ x.s = y.s /\ DateBefore(x.d, y.d)
    \/ x.s = y.s /\ x.d = y.d /\ x.i < y.i

Placed(row, i) == [s |-> row.s, d |-> row.d, v |-> row.v, i |-> i]

Sorted ==
    LET all == {Placed(store[i], i) : i \in 1..Len(store)}
                   \cup {Placed(new[i], Len(store) + i) : i \in 1..Len(new)}
    IN  InOrder(Len(store) + Len(new), [x \in all |-> {y \in all : Before(y, x)}])

-----------------------------------------------------------------------------
(* Row p of t and the next one have the same key; null is equal to null.   *)
Same(t, p) == t[p].s = t[p + 1].s /\ t[p].d = t[p + 1].d

(* The last row of each run among the rows a to b.                         *)
Kept(t, a, b) == {p \in a..b : p = b \/ ~Same(t, p)}

(* The run of p among the rows from a on, by its first row.                *)
RunOf(t, a, p) == {q \in a..p : /\ q = a \/ ~Same(t, q - 1)
                                /\ \A i \in q..(p - 1) : Same(t, i)}

(* Variant: a run with a stored row is compared with its first row.        *)
ChangedFromFirst(t, a, b, old) ==
    {p \in Kept(t, a, b) : \E q \in RunOf(t, a, p) :
        \/ t[q].i > old
        \/ t[q].i <= old /\ t[p].i > old /\ t[q].v # t[p].v}

(* _collect_changed: a run of new rows only, or a kept row that is not     *)
(* the value of the last stored row of its run.                            *)
Changed(t, a, b, old) ==
    {p \in Kept(t, a, b) : \E q \in RunOf(t, a, p) :
        \/ t[q].i > old
        \/ \E i \in q..(p - 1) : t[i].i <= old /\ t[i + 1].i > old /\ t[i].v # t[p].v}

Newest(D) == IF D = {} THEN Absent ELSE CHOOSE d \in D : \A e \in D : e <= d

(* The report of the changed rows of t, the newest date per series.        *)
Reported(t, C) == [s \in Series |-> Newest({t[p].d : p \in {q \in C : t[q].s = s}})]

Plain(row) == [s |-> row.s, d |-> row.d, v |-> row.v]

Written(t, K) == LET at == InOrder(Cardinality(K), [p \in K |-> {q \in K : q < p}])
                 IN  [n \in 1..Cardinality(K) |-> Plain(t[at[n]])]

-----------------------------------------------------------------------------
Call(t) == /\ phase = "idle" /\ phase' = "called" /\ new' = t
           /\ raised' = FALSE /\ report' = Nothing
           /\ UNCHANGED <<store, streaming>>

(* The call returns or raises; its variables are gone.                     *)
End == /\ phase' = "idle" /\ new' = <<>>
       /\ stream' = <<>> /\ read' = 0 /\ cut' = 0 /\ kept' = {} /\ changed' = {}

(* Both refusals on the number of rows.                                    *)
Shrinks(n) == 100 * n < MinRatio * Len(store)

(* The rows K of t replace the table; an answer that is lost raises.       *)
Publish(t, K, C) ==
    /\ ~Shrinks(Cardinality(K))
    /\ End /\ store' = Written(t, K)
    /\ \/ raised' = FALSE /\ report' = Reported(t, C)
       \/ Unheard /\ raised' = TRUE /\ report' = Nothing

InMemory == Len(store) <= Small /\ Len(new) <= Small

(* merge_and_write.                                                        *)
MergeWhole == LET t == Sorted  n == Len(t) IN
    /\ phase = "called" /\ InMemory
    /\ Publish(t, Kept(t, 1, n), Changed(t, 1, n, Len(store)))

(* merge_and_write_bounded, up to the reader of the sorted rows.           *)
Open == /\ phase = "called" /\ ~InMemory /\ phase' = "stream"
        /\ stream' = Sorted /\ read' = 0 /\ cut' = 0 /\ kept' = {} /\ changed' = {}
        /\ UNCHANGED <<store, new, raised, report>>

(* Variant: what was processed is carried along again.                     *)
EmitAgain(b) == /\ cut' = cut
                /\ kept' = kept \cup Kept(stream, cut + 1, b)
                /\ changed' = changed \cup Changed(stream, cut + 1, b, Len(store))

(* emit(): the rows up to b.                                               *)
Emit(b) == /\ cut' = b
           /\ kept' = kept \cup Kept(stream, cut + 1, b)
           /\ changed' = changed \cup Changed(stream, cut + 1, b, Len(store))

(* The rows from cut + 1 to r, but for their last run, end at this row.    *)
BeforeTrailingRun(r) == {c \in cut..(r - 1) : /\ c = cut \/ ~Same(stream, c)
                                              /\ \A i \in (c + 1)..(r - 1) : Same(stream, i)}

(* Variant: all that was read is processed, its last run too.              *)
NextBatchWhole(r) ==
    /\ phase = "stream" /\ r \in (read + 1)..(read + MaxBatch) /\ r <= Len(stream)
    /\ read' = r /\ Emit(r)
    /\ UNCHANGED <<store, new, phase, stream, raised, report>>

(* A batch up to row r; its trailing run is carried.                       *)
NextBatch(r) ==
    /\ phase = "stream" /\ r \in (read + 1)..(read + MaxBatch) /\ r <= Len(stream)
    /\ read' = r
    /\ \E c \in BeforeTrailingRun(r) : Emit(c)
    /\ UNCHANGED <<store, new, phase, stream, raised, report>>

(* The stream has ended: what is carried is processed as it is.            *)
LastRun == /\ phase = "stream" /\ read = Len(stream) /\ phase' = "written"
           /\ Emit(read)
           /\ UNCHANGED <<store, new, stream, read, raised, report>>

Commit == phase = "written" /\ Publish(stream, kept, changed)

(* A refusal, an error or an interruption before the publish.              *)
Fail == /\ phase # "idle" /\ End
        /\ raised' = TRUE /\ report' = Nothing
        /\ UNCHANGED store

Next == \/ \E t \in TablesUpTo(MaxNew) : Call(t)
        \/ MergeWhole \/ Open
        \/ \E r \in 1..Len(stream) : NextBatch(r)
        \/ LastRun \/ Commit \/ Fail

Spec == Init /\ [][Next]_vars

-----------------------------------------------------------------------------
(* Each variable keeps its type.                                           *)
TypeOK == /\ store \in Seq(Rows) /\ new \in Seq(Rows)
          /\ phase \in {"idle", "called", "stream", "written"}
          /\ stream \in Seq([s : Series, d : Dates, v : Vals, i : Nat])
          /\ cut \in 0..read /\ read \in 0..Len(stream)
          /\ kept \subseteq 1..cut /\ changed \subseteq kept
          /\ raised \in BOOLEAN /\ report \in [Series -> Dates \cup {Absent}]

(* "The same rows in the same order with the same keep-last winner and the *)
(* same changed-key report": whatever the batches were, what was written   *)
(* and what is reported is what the merge in memory keeps and reports.     *)
ChunksDoNotMatter ==
    phase = "written" => /\ kept = Kept(stream, 1, Len(stream))
                         /\ changed = Changed(stream, 1, Len(stream), Len(store))

(* The value a table gives for a key: that of its last row.                *)
Served(table) ==
    [k \in Keys |->
        LET at == {i \in 1..Len(table) : table[i].s = k[1] /\ table[i].d = k[2]}
        IN  IF at = {} THEN None
            ELSE table[CHOOSE i \in at : \A j \in at : j <= i].v]

(* Both merges, batches, failures and all, do what merge.py promises: the  *)
(* new values over the old ones and an exact report, or nothing.           *)
Contract == INSTANCE MergeContract WITH
    served <- Served(store), given <- Served(new), busy <- phase # "idle"

ImplementsContract == Contract!Spec

(* "Nothing was published, so this is the same outcome as a refusal - the  *)
(* stored object is untouched": a call that raised changed nothing.        *)
RaisedChangedNothing == [][phase # "idle" /\ phase' = "idle" /\ raised' => store' = store]_vars
=============================================================================
