-------------------------- MODULE CatalogSyncProofs --------------------------
(***************************************************************************)
(* What the catalogue sync leaves in the serving database, for any series, *)
(* any revisions and any order of files, failures and stops: the index     *)
(* holds a series once, the manifest vouches only for what is there, and   *)
(* nothing that is missing is forgotten.                                   *)
(***************************************************************************)
EXTENDS CatalogSync, TLAPS

Taken == {i \in Ids : job.take[i] # 0}

(* What a sync has decided, and where it stands.                           *)
JobInv ==
    /\ phase = "idle" => todo = {} /\ job = NoJob
    /\ phase = "nothing" => Taken = {}
    /\ phase = "forget" => todo = Taken
    /\ phase = "rows" => todo \subseteq Taken
    /\ phase = "wipe" => job.whole
    /\ phase = "index" => todo \subseteq job.fts
    /\ phase = "clear" => job.clears
    /\ phase \in {"forget", "rows", "index"} => todo # {}
    /\ Taken \cap Gated = {} /\ job.fts \subseteq Taken
    /\ \A i \in Taken : catalog[i] # 0
    /\ job.whole => /\ job.fts = Taken /\ Taken # {} /\ ~job.clears
                    /\ Taken \subseteq Source /\ Source \cap Gated = {}

(* A bare INSERT meets no row of its series.                               *)
BareInv == /\ IndexOnce
           /\ phase = "index" /\ job.whole => \A i \in todo : index[i].n = 0

(* The index rows the manifest vouches for, and those a sync has written.  *)
FtsInv ==
    /\ \A i \in Ids : ftsSent[i] # 0 => /\ index[i] = [n |-> 1, t |-> ftsSent[i]]
                                        /\ catalog[i] # 0
    /\ phase \notin {"idle", "nothing", "forget"} => \A i \in job.fts : ftsSent[i] = 0
    /\ job.whole => \A i \in Source \ Taken : ftsSent[i] = 0
    /\ \A i \in Taken \ job.fts : ftsSent[i] = TitleOf[i][job.take[i]]
    /\ phase = "index" => \A i \in job.fts \ todo : index[i] = Entry(i, job.take[i])
    /\ phase \in {"count", "clear", "record"} =>
          \A i \in job.fts : index[i] = Entry(i, job.take[i])

(* What is recorded is no newer than what D1 holds, and that no newer than *)
(* the catalogue.                                                          *)
RowInv ==
    /\ \A i \in Ids \ Gated : sent[i] <= series[i] /\ series[i] <= catalog[i]
    /\ \A i \in Taken : series[i] <= job.take[i] /\ job.take[i] <= catalog[i]
    /\ phase = "rows" => \A i \in Taken \ todo : series[i] = job.take[i]
    /\ phase \notin {"idle", "nothing", "forget", "rows"} =>
          \A i \in Taken : series[i] = job.take[i]

(* What is recorded as it is now is indexed and counted, unless a seed     *)
(* vouched for it, and its index may be torn.                              *)
SentIndexed == \A i \in Catalogued \ Gated :
    sent[i] = catalog[i] => \/ index[i] = Entry(i, catalog[i]) \/ i \in vouched
                            \/ torn /\ i \in Source

SentCounted == \A i \in Catalogued \ Gated :
    sent[i] = catalog[i] => i \in counted \cup vouched

(* The parts of NothingForgotten.                                          *)
Overlooked == (Catalogued \ Gated) \ (pending \cup unread)

RowHeld == \A i \in Overlooked : series[i] = catalog[i]

IndexHeld == \A i \in Overlooked :
    index[i] = Entry(i, catalog[i]) \/ i \in vouched \/ (torn /\ i \in Source)

CountHeld == \A i \in Overlooked : i \in Listed => i \in counted \cup vouched

(* What the running sync took is up to date, or was queued again; the sync *)
(* that is to empty the queue took all of it that is not recorded but for  *)
(* what it missed, and a whole source is taken but for what was queued     *)
(* since.                                                                  *)
Fresh ==
    /\ \A i \in Taken : job.take[i] = catalog[i] \/ i \in pending \cup unread
    /\ job.clears /\ phase # "record" =>
          /\ \A i \in Taken : job.take[i] = catalog[i] \/ i \in unread
          /\ \A i \in (pending \cap Catalogued) \ Gated :
                i \in Taken \/ sent[i] = catalog[i] \/ i \in unread
    /\ job.whole => /\ \A i \in Source \cap Catalogued : i \in Taken \/ i \in pending
                    /\ \A i \in Source \ Taken : sent[i] = 0
    /\ phase \in {"clear", "record"} => counted = Listed

OweInv == /\ RowHeld /\ IndexHeld /\ CountHeld
          /\ SentIndexed /\ SentCounted /\ Fresh

-----------------------------------------------------------------------------
(* The types alone; the rest of TypeOK is in JobInv.                       *)
Types == /\ catalog \in [Ids -> Revs] /\ pending \subseteq Ids
         /\ series \in [Ids -> Revs]
         /\ index \in [Ids -> [n : Nat, t : Revs]]
         /\ counted \subseteq Ids /\ torn \in BOOLEAN
         /\ sent \in [Ids -> Revs] /\ ftsSent \in [Ids -> Revs]
         /\ phase \in Phases /\ todo \subseteq Ids /\ job \in Jobs

(* The history variables name series.                                      *)
HistoryType == unread \subseteq Ids /\ vouched \subseteq Ids

LEMMA NoJobFacts == /\ NoJob \in Jobs /\ NoJob.fts = {} /\ NoJob.whole = FALSE
                    /\ NoJob.clears = FALSE /\ \A i \in Ids : NoJob.take[i] = 0
BY CSAssumption DEF NoJob, Jobs, Revs

LEMMA EntryFacts ==
    ASSUME NEW i \in Ids, NEW r \in Revs
    PROVE  /\ Entry(i, r) \in [n : Nat, t : Revs]
           /\ r # 0 => /\ TitleOf[i][r] \in Revs \ {0}
                       /\ Entry(i, r) = [n |-> 1, t |-> TitleOf[i][r]]
<1>1. CASE r = 0
  BY <1>1, CSAssumption DEF Entry, Unindexed, Revs
<1>2. CASE r # 0
  <2>1. r \in Titles /\ Titles \subseteq Revs \ {0}
    BY <1>2, CSAssumption DEF Titles, Revs
  <2>2. TitleOf[i][r] \in Titles
    BY <2>1, CSAssumption
  <2>3. QED
    BY <1>2, <2>1, <2>2 DEF Entry
<1>3. QED
  BY <1>1, <1>2

(* What a plan takes: rows of the catalogue that are not withheld, and of  *)
(* the whole source, all of it.                                            *)
LEMMA PlanFacts ==
    ASSUME Types, NEW ids \in SUBSET Ids, NEW source \in BOOLEAN, NEW noDiff \in BOOLEAN,
           NEW clears \in BOOLEAN, Plan(ids, source, noDiff, clears),
           source => ids = Source /\ Source \cap Gated = {} /\ ~clears
    PROVE  /\ job' \in Jobs /\ todo' = Taken'
           /\ phase' = IF Taken' = {} THEN "nothing" ELSE "forget"
           /\ job'.fts \subseteq Taken' /\ job'.clears = clears
           /\ Taken' \subseteq (ids \cap Catalogued) \ Gated
           /\ \A i \in Taken' : job'.take[i] = catalog[i]
           /\ \A i \in (ids \cap Catalogued) \ Gated :
                 i \in Taken' \/ sent[i] = catalog[i]
           /\ \A i \in Taken' \ job'.fts : ftsSent[i] = TitleOf[i][catalog[i]]
           /\ job'.whole => /\ job'.fts = Taken' /\ Taken' # {} /\ ~clears
                            /\ Taken' = Source \cap Catalogued
                            /\ Source \cap Gated = {}
<1> DEFINE rows    == (ids \cap Catalogued) \ Gated
           skipped == IF noDiff THEN {} ELSE Unchanged(rows)
           send    == rows \ skipped
           whole   == Whole(source, send, skipped)
           keep    == IF noDiff \/ whole THEN {} ELSE FtsCurrent(send)
<1>1. /\ phase' = IF send = {} THEN "nothing" ELSE "forget"
      /\ todo' = send
      /\ job' = [take |-> [i \in Ids |-> IF i \in send THEN catalog[i] ELSE 0],
                 fts |-> send \ keep, whole |-> whole,
                 clears |-> clears, restarted |-> FALSE]
  BY DEF Plan
<1>2. send \subseteq rows /\ rows \subseteq Ids
  BY DEF Catalogued
<1>3. whole \in BOOLEAN
  BY DEF Whole
<1>4. [i \in Ids |-> IF i \in send THEN catalog[i] ELSE 0] \in [Ids -> Revs]
  BY CSAssumption DEF Types, Revs
<1>5. job' \in Jobs
  <2> HIDE DEF send, whole, keep, rows
  <2>1. send \ keep \in SUBSET Ids
    BY <1>2
  <2>2. QED
    BY <1>1, <1>3, <1>4, <2>1 DEF Jobs
<1>6. \A i \in Ids : job'.take[i] = IF i \in send THEN catalog[i] ELSE 0
  BY <1>1
<1>7. \A i \in send : catalog[i] # 0
  BY <1>2 DEF Catalogued
<1>8. Taken' = send
  <2> HIDE DEF send
  <2>1. send \subseteq Ids
    BY <1>2
  <2>2. QED
    BY <1>6, <1>7, <2>1 DEF Taken
<1>9. \A i \in rows : i \in send \/ sent[i] = catalog[i]
  BY DEF Unchanged
<1>10. keep \subseteq {i \in send : ftsSent[i] = TitleOf[i][catalog[i]]}
  BY DEF FtsCurrent
<1>11. whole => source /\ send # {} /\ skipped = {} /\ keep = {}
  BY DEF Whole
<1>12. source => rows = Source \cap Catalogued /\ Source \cap Gated = {} /\ ~clears
  OBVIOUS
<1>13. skipped = {} => send = rows
  OBVIOUS
<1> HIDE DEF send, rows, skipped, whole, keep
<1>14. job'.fts = send \ keep /\ job'.whole = whole /\ job'.clears = clears
  BY <1>1
<1>15. rows = (ids \cap Catalogued) \ Gated
  BY DEF rows
<1>16. QED
  BY <1>1, <1>2, <1>5, <1>6, <1>8, <1>9, <1>10, <1>11, <1>12, <1>13, <1>14, <1>15

LEMMA TypesInit == Init => Types /\ JobInv
<1> SUFFICES ASSUME Init PROVE Types /\ JobInv
  OBVIOUS
<1>1. /\ job = NoJob /\ phase = "idle" /\ todo = {} /\ pending = {} /\ counted = {}
      /\ torn = FALSE
      /\ catalog = [i \in Ids |-> 0] /\ series = [i \in Ids |-> 0]
      /\ sent = [i \in Ids |-> 0] /\ ftsSent = [i \in Ids |-> 0]
      /\ index = [i \in Ids |-> Unindexed]
  BY DEF Init
<1>2. 0 \in Revs /\ Unindexed \in [n : Nat, t : Revs]
  BY CSAssumption DEF Revs, Unindexed
<1>3. Types
  BY <1>1, <1>2, NoJobFacts DEF Types, Phases
<1>4. JobInv
  BY <1>1, NoJobFacts DEF JobInv, Taken
<1>5. QED
  BY <1>3, <1>4

(* Steps that touch neither the job nor its stage, and grow the catalogue. *)
LEMMA JobKept ==
    ASSUME JobInv, UNCHANGED <<phase, todo, job>>,
           \A i \in Ids : catalog[i] # 0 => catalog'[i] # 0
    PROVE  JobInv'
<1>1. Taken' = Taken /\ Taken \subseteq Ids
  BY DEF Taken
<1>2. QED
  BY <1>1 DEF JobInv

(* The end of a sync.                                                      *)
LEMMA JobIdle == ASSUME Idle PROVE JobInv' /\ Taken' = {} /\ job' \in Jobs
<1>1. phase' = "idle" /\ todo' = {} /\ job' = NoJob
  BY DEF Idle
<1>2. Taken' = {}
  BY <1>1, NoJobFacts DEF Taken
<1>3. QED
  BY <1>1, <1>2, NoJobFacts DEF JobInv

LEMMA JobPlanned ==
    ASSUME Types, NEW ids \in SUBSET Ids, NEW source \in BOOLEAN, NEW noDiff \in BOOLEAN,
           NEW clears \in BOOLEAN, Plan(ids, source, noDiff, clears),
           source => ids = Source /\ Source \cap Gated = {} /\ ~clears
    PROVE  Types' /\ JobInv'
<1>1. /\ UNCHANGED <<catalog, pending, series, index, counted, torn, sent, ftsSent>>
  BY DEF Plan, remote, record
<1>2. /\ job' \in Jobs /\ todo' = Taken'
      /\ phase' = IF Taken' = {} THEN "nothing" ELSE "forget"
      /\ job'.fts \subseteq Taken' /\ job'.clears = clears
      /\ Taken' \subseteq (ids \cap Catalogued) \ Gated
      /\ job'.whole => /\ job'.fts = Taken' /\ Taken' # {} /\ ~clears
                       /\ Taken' = Source \cap Catalogued /\ Source \cap Gated = {}
  BY PlanFacts, ZenonT(60)
<1>3. Taken' \subseteq Ids
  BY DEF Taken
<1>4. Types'
  BY <1>1, <1>2, <1>3 DEF Types, Phases
<1>5. JobInv'
  BY <1>1, <1>2 DEF JobInv, Catalogued
<1>6. QED
  BY <1>4, <1>5

(* Every step keeps the types and the job's invariant.                     *)
LEMMA JobNext == Types /\ JobInv /\ [Next]_vars => Types' /\ JobInv'
<1> SUFFICES ASSUME Types, JobInv, [Next]_vars PROVE Types' /\ JobInv'
  OBVIOUS
<1> USE DEF remote, record, history
<1>1. CASE UNCHANGED vars
  <2>1. Types'
    BY <1>1 DEF Types, vars
  <2>2. JobInv'
    BY <1>1, JobKept DEF vars
  <2>3. QED
    BY <2>1, <2>2
<1>2. ASSUME NEW i \in Ids, NEW r \in Revs, Queue(i, r) PROVE Types' /\ JobInv'
  <2>1. /\ catalog' = [catalog EXCEPT ![i] = r] /\ (r # 0 \/ catalog[i] = 0)
        /\ pending' = pending \cup {i}
        /\ UNCHANGED <<series, index, counted, torn, sent, ftsSent, phase, todo, job>>
    BY <1>2 DEF Queue
  <2>2. Types'
    BY <2>1 DEF Types
  <2>3. \A j \in Ids : catalog[j] # 0 => catalog'[j] # 0
    BY <2>1 DEF Types
  <2>4. QED
    BY <2>1, <2>2, <2>3, JobKept
<1>3. ASSUME Seed PROVE Types' /\ JobInv'
  <2>1. /\ sent' = catalog /\ ftsSent' = [i \in Ids |-> 0]
        /\ UNCHANGED <<catalog, pending, series, index, counted, torn, phase, todo, job>>
    BY <1>3 DEF Seed
  <2>2. 0 \in Revs
    BY CSAssumption DEF Revs
  <2>3. QED
    BY <2>1, <2>2, JobKept DEF Types
<1>4. ASSUME RefreshCounts PROVE Types' /\ JobInv'
  <2>1. /\ counted' = Listed
        /\ UNCHANGED <<catalog, pending, series, index, torn, sent, ftsSent, phase, todo, job>>
    BY <1>4 DEF RefreshCounts
  <2>2. QED
    BY <2>1, JobKept DEF Types, Listed
<1>5. ASSUME NEW noDiff \in BOOLEAN, NEW keepPending \in BOOLEAN,
             SyncQueue(noDiff, keepPending)
      PROVE  Types' /\ JobInv'
  <2>1. Plan(pending, FALSE, noDiff, ~keepPending) /\ pending \in SUBSET Ids
    BY <1>5 DEF SyncQueue, Types
  <2>2. QED
    BY <2>1, JobPlanned
<1>6. ASSUME NEW noDiff \in BOOLEAN, SyncSource(noDiff) PROVE Types' /\ JobInv'
  <2>1. /\ Plan(Source, TRUE, noDiff, FALSE) /\ Source \in SUBSET Ids
        /\ Source \cap Gated = {}
    BY <1>6, CSAssumption DEF SyncSource
  <2>2. QED
    BY <2>1, JobPlanned
<1>7. ASSUME NothingToSend PROVE Types' /\ JobInv'
  <2>1. /\ pending' = (IF job.clears THEN {} ELSE pending) /\ Idle
        /\ UNCHANGED <<catalog, series, index, counted, torn, sent, ftsSent>>
    BY <1>7 DEF NothingToSend
  <2>2. QED
    BY <2>1, JobIdle DEF Types, Phases, Idle
<1>8. ASSUME ForgetFts PROVE Types' /\ JobInv'
  <2>1. /\ phase = "forget" /\ phase' = "rows"
        /\ ftsSent' = [i \in Ids |-> IF i \in job.fts THEN 0 ELSE ftsSent[i]]
        /\ UNCHANGED <<catalog, pending, series, index, counted, torn, sent, todo, job>>
    BY <1>8 DEF ForgetFts
  <2>2. ftsSent' \in [Ids -> Revs]
    BY <2>1, CSAssumption DEF Types, Revs
  <2>3. Types'
    BY <2>1, <2>2 DEF Types, Phases
  <2>4. QED
    BY <2>1, <2>3 DEF JobInv, Taken
<1>9. ASSUME NEW i \in Ids, SendRow(i) PROVE Types' /\ JobInv'
  <2>1. /\ phase = "rows" /\ i \in todo
        /\ series' = [series EXCEPT ![i] = job.take[i]]
        /\ UNCHANGED <<catalog, pending, index, counted, torn, sent, ftsSent, job>>
        /\ \/ Done(i, AfterRows, IF job.whole THEN {} ELSE job.fts)
           \/ UNCHANGED <<phase, todo>>
    BY <1>9 DEF SendRow, AnswerLost
  <2>2. job.take[i] \in Revs
    BY DEF Types, Jobs
  <2>3. series' \in [Ids -> Revs]
    BY <2>1, <2>2 DEF Types
  <2>4. CASE UNCHANGED <<phase, todo>>
    BY <2>1, <2>3, <2>4, JobKept DEF Types
  <2>5. CASE Done(i, AfterRows, IF job.whole THEN {} ELSE job.fts)
    <3>1. CASE todo = {i}
      <4>1. /\ phase' = IF job.whole THEN "wipe" ELSE IF job.fts = {} THEN "count" ELSE "index"
            /\ todo' = IF job.whole THEN {} ELSE job.fts
        BY <2>5, <3>1 DEF Done, AfterRows
      <4>2. job.fts \subseteq Ids
        BY DEF Types, Jobs
      <4>3. QED
        BY <2>1, <2>3, <4>1, <4>2 DEF Types, Phases, JobInv, Taken
    <3>2. CASE todo # {i}
      <4>1. phase' = phase /\ todo' = todo \ {i}
        BY <2>5, <3>2 DEF Done
      <4>2. QED
        BY <2>1, <2>3, <3>2, <4>1 DEF Types, JobInv, Taken
    <3>3. QED
      BY <3>1, <3>2
  <2>6. QED
    BY <2>1, <2>4, <2>5
<1>10. ASSUME NEW i \in Ids, SendBlock(i) PROVE Types' /\ JobInv'
  <2>1. /\ phase = "index" /\ ~job.whole /\ i \in todo
        /\ index' = [index EXCEPT ![i] = Entry(i, job.take[i])]
        /\ UNCHANGED <<catalog, pending, series, counted, torn, sent, ftsSent, job>>
        /\ Done(i, "count", {}) \/ UNCHANGED <<phase, todo>>
    BY <1>10 DEF SendBlock, AnswerLost
  <2>2. job.take[i] \in Revs
    BY DEF Types, Jobs
  <2>3. index' \in [Ids -> [n : Nat, t : Revs]]
    BY <2>1, <2>2, EntryFacts DEF Types
  <2>4. CASE UNCHANGED <<phase, todo>>
    BY <2>1, <2>3, <2>4, JobKept DEF Types
  <2>5. CASE Done(i, "count", {})
    <3>1. CASE todo = {i}
      BY <2>1, <2>3, <2>5, <3>1 DEF Done, Types, Phases, JobInv, Taken
    <3>2. CASE todo # {i}
      BY <2>1, <2>3, <2>5, <3>2 DEF Done, Types, JobInv, Taken
    <3>3. QED
      BY <3>1, <3>2
  <2>6. QED
    BY <2>1, <2>4, <2>5
<1>11. ASSUME Restart, job.whole, phase = "index",
              UNCHANGED <<catalog, pending, series, counted, torn, sent, ftsSent>>,
              index' \in [Ids -> [n : Nat, t : Revs]]
       PROVE  Types' /\ JobInv'
  <2>1. CASE Idle
    BY <2>1, <1>11, JobIdle DEF Types, Phases, Idle
  <2>2. CASE phase' = "wipe" /\ todo' = {} /\ job' = [job EXCEPT !.restarted = TRUE]
    <3>1. /\ job' \in Jobs /\ job'.take = job.take /\ job'.fts = job.fts
          /\ job'.whole = job.whole /\ job'.clears = job.clears
      BY <2>2 DEF Types, Jobs
    <3>2. QED
      BY <1>11, <2>2, <3>1 DEF Types, Phases, JobInv, Taken
  <2>3. QED
    BY <1>11, <2>1, <2>2 DEF Restart
<1>12. ASSUME NEW i \in Ids, SendBare(i) PROVE Types' /\ JobInv'
  <2>1. /\ phase = "index" /\ job.whole /\ i \in todo
        /\ index' = [index EXCEPT ![i] = [n |-> index[i].n + 1, t |-> TitleOf[i][job.take[i]]]]
        /\ UNCHANGED <<catalog, pending, series, counted, sent, ftsSent>>
        /\ \/ Done(i, "count", {}) /\ torn' = (todo # {i}) /\ UNCHANGED job
           \/ Restart /\ UNCHANGED torn
    BY <1>12 DEF SendBare, InsertBare
  <2>2. i \in Taken
    BY <2>1 DEF JobInv
  <2>3. TitleOf[i][job.take[i]] \in Revs
    BY <2>2, EntryFacts DEF Taken, Types, Jobs
  <2>4. index' \in [Ids -> [n : Nat, t : Revs]]
    BY <2>1, <2>3 DEF Types
  <2>5. CASE Restart /\ UNCHANGED torn
    BY <2>1, <2>4, <2>5, <1>11
  <2>6. CASE Done(i, "count", {}) /\ torn' = (todo # {i}) /\ UNCHANGED job
    <3>1. CASE todo = {i}
      BY <2>1, <2>4, <2>6, <3>1 DEF Done, Types, Phases, JobInv, Taken
    <3>2. CASE todo # {i}
      BY <2>1, <2>4, <2>6, <3>2 DEF Done, Types, JobInv, Taken
    <3>3. QED
      BY <3>1, <3>2
  <2>7. QED
    BY <2>1, <2>5, <2>6
<1>13. ASSUME BareFails PROVE Types' /\ JobInv'
  BY <1>13, <1>11 DEF BareFails, Types
<1>14. ASSUME SendWipe PROVE Types' /\ JobInv'
  <2>1. /\ phase = "wipe" /\ torn' = TRUE
        /\ index' = [i \in Ids |-> IF i \in Source THEN Unindexed ELSE index[i]]
        /\ UNCHANGED <<catalog, pending, series, counted, sent, ftsSent, job>>
        /\ \/ phase' = "index" /\ todo' = job.fts
           \/ UNCHANGED <<phase, todo>>
    BY <1>14 DEF SendWipe, AnswerLost
  <2>2. Unindexed \in [n : Nat, t : Revs]
    BY CSAssumption DEF Unindexed, Revs
  <2>3. index' \in [Ids -> [n : Nat, t : Revs]]
    BY <2>1, <2>2 DEF Types
  <2>4. CASE UNCHANGED <<phase, todo>>
    BY <2>1, <2>3, <2>4, JobKept DEF Types
  <2>5. CASE phase' = "index" /\ todo' = job.fts
    <3>1. job.fts \subseteq Ids
      BY DEF Types, Jobs
    <3>2. QED
      BY <2>1, <2>3, <2>5, <3>1 DEF Types, Phases, JobInv, Taken
  <2>6. QED
    BY <2>1, <2>4, <2>5
<1>15. ASSUME SendCount PROVE Types' /\ JobInv'
  <2>1. /\ phase = "count" /\ counted' = Listed
        /\ UNCHANGED <<catalog, pending, series, index, torn, sent, ftsSent, todo, job>>
        /\ \/ phase' = IF job.clears THEN "clear" ELSE "record"
           \/ UNCHANGED phase
    BY <1>15 DEF SendCount, AnswerLost
  <2>2. Types'
    BY <2>1 DEF Types, Phases, Listed
  <2>3. JobInv'
    BY <2>1 DEF JobInv, Taken
  <2>4. QED
    BY <2>2, <2>3
<1>16. ASSUME ClearPending PROVE Types' /\ JobInv'
  <2>1. /\ phase = "clear" /\ phase' = "record" /\ pending' = {}
        /\ UNCHANGED <<catalog, series, index, counted, torn, sent, ftsSent, todo, job>>
    BY <1>16 DEF ClearPending
  <2>2. Types'
    BY <2>1 DEF Types, Phases
  <2>3. JobInv'
    BY <2>1 DEF JobInv, Taken
  <2>4. QED
    BY <2>2, <2>3
<1>17. ASSUME Record PROVE Types' /\ JobInv'
  <2>1. /\ sent' = [i \in Ids |-> IF job.take[i] # 0 THEN job.take[i] ELSE sent[i]]
        /\ ftsSent' = [i \in Ids |-> IF job.take[i] # 0 THEN TitleOf[i][job.take[i]]
                                     ELSE ftsSent[i]]
        /\ Idle
        /\ UNCHANGED <<catalog, pending, series, index, counted, torn>>
    BY <1>17 DEF Record
  <2>2. sent' \in [Ids -> Revs]
    BY <2>1 DEF Types, Jobs
  <2>3. \A i \in Ids : job.take[i] # 0 => TitleOf[i][job.take[i]] \in Revs
    BY EntryFacts DEF Types, Jobs
  <2>4. ftsSent' \in [Ids -> Revs]
    BY <2>1, <2>3 DEF Types
  <2>5. QED
    BY <2>1, <2>2, <2>4, JobIdle DEF Types, Phases, Idle
<1>18. ASSUME Stop PROVE Types' /\ JobInv'
  BY <1>18, JobIdle DEF Stop, Types, Phases, Idle
<1>19. QED
  BY <1>1, <1>2, <1>3, <1>4, <1>5, <1>6, <1>7, <1>8, <1>9, <1>10, <1>12, <1>13,
     <1>14, <1>15, <1>16, <1>17, <1>18
  DEF Next, SyncStep

-----------------------------------------------------------------------------
(* The files that write the index.                                         *)
IndexStep == \/ \E i \in Ids : SendBlock(i) \/ SendBare(i)
             \/ SendWipe

(* Every other step leaves the index and what D1 holds of a withheld       *)
(* source as they are.                                                     *)
LEMMA OtherSteps ==
    ASSUME Types, JobInv, [Next]_vars, ~IndexStep
    PROVE  /\ index' = index /\ torn' = torn
           /\ \A i \in Gated : series'[i] = series[i]
           /\ phase' = "index" => phase = "index" \/ ~job'.whole
           /\ phase' = "index" /\ phase = "index" => todo' = todo /\ job' = job
<1> USE DEF remote, record, history
<1>1. CASE UNCHANGED vars
  BY <1>1 DEF vars
<1>2. CASE \E i \in Ids, r \in Revs : Queue(i, r)
  BY <1>2 DEF Queue
<1>3. CASE Seed \/ RefreshCounts
  BY <1>3 DEF Seed, RefreshCounts
<1>4. CASE \/ \E noDiff, keepPending \in BOOLEAN : SyncQueue(noDiff, keepPending)
           \/ \E noDiff \in BOOLEAN : SyncSource(noDiff)
  BY <1>4 DEF SyncQueue, SyncSource, Plan
<1>5. CASE NothingToSend \/ ForgetFts \/ SendCount \/ ClearPending \/ Record \/ Stop
  BY <1>5 DEF NothingToSend, ForgetFts, SendCount, AnswerLost, ClearPending, Record, Stop, Idle
<1>6. CASE \E i \in Ids : SendRow(i)
  <2>1. PICK i \in Ids : SendRow(i)
    BY <1>6
  <2>2. i \in todo /\ phase = "rows" /\ i \notin Gated
    BY <2>1 DEF SendRow, JobInv, Taken
  <2>3. series' = [series EXCEPT ![i] = job.take[i]] /\ UNCHANGED <<index, torn>>
    BY <2>1 DEF SendRow
  <2>4. \A j \in Gated : series'[j] = series[j]
    BY <2>2, <2>3, CSAssumption DEF Types
  <2>5. phase' = "index" => ~job'.whole
    BY <2>1, <2>2 DEF SendRow, Done, AfterRows, AnswerLost
  <2>6. QED
    BY <2>2, <2>3, <2>4, <2>5
<1>7. CASE BareFails
  BY <1>7 DEF BareFails, Restart, Idle
<1>8. QED
  BY <1>1, <1>2, <1>3, <1>4, <1>5, <1>6, <1>7 DEF Next, SyncStep, IndexStep

LEMMA BareNext == Types /\ JobInv /\ BareInv /\ [Next]_vars => BareInv'
<1> SUFFICES ASSUME Types, JobInv, BareInv, [Next]_vars PROVE BareInv'
  OBVIOUS
<1> USE DEF remote, record, history
<1>1. CASE ~IndexStep
  <2>1. /\ index' = index /\ \A i \in Gated : series'[i] = series[i]
        /\ phase' = "index" /\ job'.whole => phase = "index" /\ job.whole /\ todo' = todo
    BY <1>1, OtherSteps
  <2>2. QED
    BY <2>1 DEF BareInv, IndexOnce
<1>2. ASSUME NEW i \in Ids, SendBlock(i) PROVE BareInv'
  <2>1. /\ i \in todo /\ ~job.whole /\ phase = "index" /\ UNCHANGED <<series, job>>
        /\ index' = [index EXCEPT ![i] = Entry(i, job.take[i])]
    BY <1>2 DEF SendBlock, AnswerLost
  <2>2. i \notin Gated /\ job.take[i] \in Revs
    BY <2>1 DEF JobInv, Types, Jobs
  <2>3. Entry(i, job.take[i]).n <= 1
    BY DEF Entry, Unindexed
  <2>4. QED
    BY <2>1, <2>2, <2>3 DEF BareInv, IndexOnce, Types
<1>3. ASSUME NEW i \in Ids, SendBare(i) PROVE BareInv'
  <2>1. /\ i \in todo /\ job.whole /\ phase = "index" /\ UNCHANGED series
        /\ index' = [index EXCEPT ![i] = [n |-> index[i].n + 1, t |-> TitleOf[i][job.take[i]]]]
    BY <1>3 DEF SendBare, InsertBare
  <2>2. i \notin Gated /\ index[i].n = 0
    BY <2>1 DEF JobInv, BareInv
  <2>3. IndexOnce'
    BY <2>1, <2>2 DEF BareInv, IndexOnce, Types
  <2>4. phase' = "index" => todo' = todo \ {i}
    BY <1>3, <2>1 DEF SendBare, Done, Restart, Idle
  <2>5. QED
    BY <2>1, <2>3, <2>4 DEF BareInv, Types
<1>4. ASSUME SendWipe PROVE BareInv'
  <2>1. /\ index' = [i \in Ids |-> IF i \in Source THEN Unindexed ELSE index[i]]
        /\ phase = "wipe" /\ job.whole /\ UNCHANGED series
    BY <1>4 DEF SendWipe, JobInv
  <2>2. phase' = "index" => todo' \subseteq Source /\ Source \subseteq Ids
    BY <1>4, <2>1, CSAssumption DEF SendWipe, AnswerLost, JobInv
  <2>3. QED
    BY <2>1, <2>2 DEF BareInv, IndexOnce, Unindexed
<1>5. QED
  BY <1>1, <1>2, <1>3, <1>4 DEF IndexStep

-----------------------------------------------------------------------------
(* Where no sync runs, only the first part of FtsInv says anything.        *)
LEMMA FtsIdle ==
    ASSUME Idle,
           \A i \in Ids : ftsSent'[i] # 0 => /\ index'[i] = [n |-> 1, t |-> ftsSent'[i]]
                                             /\ catalog'[i] # 0
    PROVE  FtsInv'
<1>1. phase' = "idle" /\ job' = NoJob /\ Taken' = {}
  BY JobIdle DEF Idle
<1>2. QED
  BY <1>1, NoJobFacts DEF FtsInv

LEMMA FtsNext == Types /\ JobInv /\ BareInv /\ FtsInv /\ [Next]_vars => FtsInv'
<1> SUFFICES ASSUME Types, JobInv, BareInv, FtsInv, [Next]_vars PROVE FtsInv'
  OBVIOUS
<1> USE DEF remote, record, history
<1>1. CASE UNCHANGED vars
  BY <1>1 DEF FtsInv, Taken, vars
<1>2. ASSUME NEW i \in Ids, NEW r \in Revs, Queue(i, r) PROVE FtsInv'
  <2>1. /\ catalog' = [catalog EXCEPT ![i] = r] /\ (r # 0 \/ catalog[i] = 0)
        /\ UNCHANGED <<index, ftsSent, phase, todo, job>>
    BY <1>2 DEF Queue
  <2>2. \A j \in Ids : catalog[j] # 0 => catalog'[j] # 0
    BY <2>1 DEF Types
  <2>3. QED
    BY <2>1, <2>2 DEF FtsInv, Taken
<1>3. ASSUME Seed PROVE FtsInv'
  <2>1. /\ ftsSent' = [i \in Ids |-> 0] /\ phase' = "idle" /\ job' = NoJob
    BY <1>3 DEF Seed, JobInv
  <2>2. Taken' = {}
    BY <2>1, NoJobFacts DEF Taken
  <2>3. QED
    BY <2>1, <2>2, NoJobFacts DEF FtsInv
<1>4. ASSUME RefreshCounts PROVE FtsInv'
  BY <1>4 DEF RefreshCounts, FtsInv, Taken
<1>5. ASSUME NEW ids \in SUBSET Ids, NEW source \in BOOLEAN, NEW noDiff \in BOOLEAN,
             NEW clears \in BOOLEAN, Plan(ids, source, noDiff, clears),
             source => ids = Source /\ Source \cap Gated = {} /\ ~clears
      PROVE  FtsInv'
  <2>1. UNCHANGED <<catalog, index, ftsSent>>
    BY <1>5 DEF Plan
  <2>2. /\ phase' \in {"nothing", "forget"} /\ job'.fts \subseteq Taken'
        /\ \A i \in Taken' : job'.take[i] = catalog[i]
        /\ \A i \in Taken' \ job'.fts : ftsSent[i] = TitleOf[i][catalog[i]]
        /\ job'.whole => Taken' = Source \cap Catalogued
    BY <1>5, PlanFacts
  <2>3. \A i \in Source \ Catalogued : ftsSent[i] = 0
    BY CSAssumption DEF FtsInv, Catalogued
  <2>4. QED
    BY <2>1, <2>2, <2>3 DEF FtsInv
<1>6. ASSUME NEW noDiff \in BOOLEAN, NEW keepPending \in BOOLEAN,
             SyncQueue(noDiff, keepPending)
      PROVE  FtsInv'
  <2>1. Plan(pending, FALSE, noDiff, ~keepPending) /\ pending \in SUBSET Ids
    BY <1>6 DEF SyncQueue, Types
  <2>2. QED
    BY <2>1, <1>5
<1>7. ASSUME NEW noDiff \in BOOLEAN, SyncSource(noDiff) PROVE FtsInv'
  <2>1. /\ Plan(Source, TRUE, noDiff, FALSE) /\ Source \in SUBSET Ids
        /\ Source \cap Gated = {}
    BY <1>7, CSAssumption DEF SyncSource
  <2>2. QED
    BY <2>1, <1>5
<1>8. ASSUME NothingToSend \/ Stop PROVE FtsInv'
  <2>1. Idle /\ UNCHANGED <<catalog, index, ftsSent>>
    BY <1>8 DEF NothingToSend, Stop
  <2>2. QED
    BY <2>1, FtsIdle DEF FtsInv
<1>9. ASSUME ForgetFts PROVE FtsInv'
  <2>1. /\ phase = "forget" /\ phase' = "rows"
        /\ ftsSent' = [i \in Ids |-> IF i \in job.fts THEN 0 ELSE ftsSent[i]]
        /\ UNCHANGED <<catalog, index, todo, job>>
    BY <1>9 DEF ForgetFts
  <2>2. Taken' = Taken /\ Taken \subseteq Ids /\ job.fts \subseteq Ids /\ Source \subseteq Ids
    BY <2>1, CSAssumption DEF Taken, JobInv
  <2>3. QED
    BY <2>1, <2>2 DEF FtsInv
<1>10. ASSUME NEW i \in Ids, SendRow(i) PROVE FtsInv'
  <2>1. /\ phase = "rows" /\ UNCHANGED <<catalog, index, ftsSent, job>> /\ Taken' = Taken
    BY <1>10 DEF SendRow, AnswerLost, Taken
  <2>2. phase' = "index" => todo' = job.fts
    BY <1>10 DEF SendRow, AnswerLost, Done, AfterRows
  <2>3. phase' \in {"rows", "wipe", "index"} \/ (phase' = "count" /\ job.fts = {})
    BY <1>10 DEF SendRow, AnswerLost, Done, AfterRows
  <2>4. QED
    BY <2>1, <2>2, <2>3 DEF FtsInv
<1>11. ASSUME NEW i \in Ids, SendBlock(i) PROVE FtsInv'
  <2>1. /\ phase = "index" /\ i \in todo /\ UNCHANGED <<catalog, ftsSent, job>> /\ Taken' = Taken
        /\ index' = [index EXCEPT ![i] = Entry(i, job.take[i])]
        /\ \/ phase' = "index" /\ (todo' = todo \/ todo' = todo \ {i})
           \/ phase' = "count" /\ todo = {i}
    BY <1>11 DEF SendBlock, AnswerLost, Done, Taken
  <2>2. i \in job.fts /\ ftsSent[i] = 0
    BY <2>1 DEF JobInv, FtsInv
  <2>3. \A j \in Ids : index'[j] = IF j = i THEN Entry(i, job.take[i]) ELSE index[j]
    BY <2>1 DEF Types
  <2>4. job.fts \subseteq Ids
    BY DEF JobInv, Taken
  <2>5. QED
    BY <2>1, <2>2, <2>3, <2>4 DEF FtsInv
<1>12. ASSUME SendWipe PROVE FtsInv'
  <2>1. /\ phase = "wipe" /\ UNCHANGED <<catalog, ftsSent, job>> /\ Taken' = Taken
        /\ index' = [j \in Ids |-> IF j \in Source THEN Unindexed ELSE index[j]]
        /\ phase' = "wipe" \/ (phase' = "index" /\ todo' = job.fts)
    BY <1>12 DEF SendWipe, AnswerLost, Taken
  <2>2. job.whole /\ job.fts = Taken
    BY <2>1 DEF JobInv
  <2>3. \A j \in Source : ftsSent[j] = 0
    BY <2>1, <2>2 DEF FtsInv
  <2>4. QED
    BY <2>1, <2>2, <2>3 DEF FtsInv
<1>13. ASSUME NEW i \in Ids, SendBare(i) PROVE FtsInv'
  <2>1. /\ phase = "index" /\ i \in todo /\ job.whole /\ UNCHANGED <<catalog, ftsSent>>
        /\ index' = [index EXCEPT ![i] = [n |-> index[i].n + 1, t |-> TitleOf[i][job.take[i]]]]
    BY <1>13 DEF SendBare, InsertBare
  <2>2. i \in job.fts /\ ftsSent[i] = 0 /\ index[i].n = 0 /\ i \in Taken
    BY <2>1 DEF JobInv, FtsInv, BareInv
  <2>3. \A j \in Ids : index'[j] = IF j = i THEN Entry(i, job.take[i]) ELSE index[j]
    BY <2>1, <2>2 DEF Types, Entry, Taken
  <2>4. \A j \in Ids : ftsSent'[j] # 0 => /\ index'[j] = [n |-> 1, t |-> ftsSent'[j]]
                                          /\ catalog'[j] # 0
    BY <2>1, <2>2, <2>3 DEF FtsInv
  <2>5. CASE Idle
    BY <2>4, <2>5, FtsIdle
  <2>6. CASE phase' = "wipe" /\ job' = [job EXCEPT !.restarted = TRUE]
    <3>1. job'.take = job.take /\ job'.fts = job.fts /\ job'.whole = job.whole /\ Taken' = Taken
      BY <2>6 DEF Types, Jobs, Taken
    <3>2. QED
      BY <2>1, <2>4, <2>6, <3>1 DEF FtsInv
  <2>7. CASE /\ UNCHANGED job
             /\ \/ phase' = "index" /\ todo' = todo \ {i}
                \/ phase' = "count" /\ todo = {i}
    <3>1. Taken' = Taken /\ job.fts \subseteq Ids
      BY <2>7 DEF JobInv, Taken
    <3>2. QED
      BY <2>1, <2>2, <2>3, <2>4, <2>7, <3>1 DEF FtsInv
  <2>8. QED
    BY <1>13, <2>1, <2>5, <2>6, <2>7 DEF SendBare, Done, Restart
<1>14. ASSUME BareFails PROVE FtsInv'
  <2>1. phase = "index" /\ UNCHANGED <<catalog, index, ftsSent>>
    BY <1>14 DEF BareFails
  <2>2. CASE Idle
    BY <2>1, <2>2, FtsIdle DEF FtsInv
  <2>3. CASE phase' = "wipe" /\ job' = [job EXCEPT !.restarted = TRUE]
    <3>1. job'.take = job.take /\ job'.fts = job.fts /\ job'.whole = job.whole /\ Taken' = Taken
      BY <2>3 DEF Types, Jobs, Taken
    <3>2. QED
      BY <2>1, <2>3, <3>1 DEF FtsInv
  <2>4. QED
    BY <1>14, <2>2, <2>3 DEF BareFails, Restart
<1>15. ASSUME SendCount \/ ClearPending PROVE FtsInv'
  <2>1. /\ phase \in {"count", "clear"} /\ phase' \in {"count", "clear", "record"}
        /\ UNCHANGED <<catalog, index, ftsSent, job>> /\ Taken' = Taken
    BY <1>15 DEF SendCount, AnswerLost, ClearPending, Taken
  <2>2. QED
    BY <2>1 DEF FtsInv
<1>16. ASSUME Record PROVE FtsInv'
  <2>1. /\ phase = "record" /\ Idle /\ UNCHANGED <<catalog, index>>
        /\ ftsSent' = [i \in Ids |-> IF job.take[i] # 0 THEN TitleOf[i][job.take[i]]
                                     ELSE ftsSent[i]]
    BY <1>16 DEF Record
  <2>2. ASSUME NEW i \in Taken
        PROVE  /\ index[i] = [n |-> 1, t |-> TitleOf[i][job.take[i]]]
               /\ catalog[i] # 0
    <3>1. i \in Ids /\ job.take[i] \in Revs /\ job.take[i] # 0
      BY DEF Taken, Types, Jobs
    <3>2. /\ Entry(i, job.take[i]) = [n |-> 1, t |-> TitleOf[i][job.take[i]]]
          /\ TitleOf[i][job.take[i]] # 0
      BY <3>1, EntryFacts
    <3>3. QED
      BY <2>1, <3>1, <3>2 DEF FtsInv, JobInv
  <2>3. \A i \in Ids : ftsSent'[i] # 0 => /\ index'[i] = [n |-> 1, t |-> ftsSent'[i]]
                                          /\ catalog'[i] # 0
    BY <2>1, <2>2 DEF FtsInv, Taken
  <2>4. QED
    BY <2>1, <2>3, FtsIdle
<1>17. QED
  BY <1>1, <1>2, <1>3, <1>4, <1>6, <1>7, <1>8, <1>9, <1>10, <1>11, <1>12, <1>13,
     <1>14, <1>15, <1>16
  DEF Next, SyncStep

-----------------------------------------------------------------------------
(* Where no row is taken, only the first part of RowInv says anything.     *)
LEMMA RowIdle ==
    ASSUME Taken' = {},
           \A i \in Ids \ Gated : sent'[i] <= series'[i] /\ series'[i] <= catalog'[i]
    PROVE  RowInv'
BY DEF RowInv

LEMMA RowNext ==
    ASSUME ~Reverts PROVE Types /\ JobInv /\ RowInv /\ [Next]_vars => RowInv'
<1> SUFFICES ASSUME Types, JobInv, RowInv, [Next]_vars PROVE RowInv'
  OBVIOUS
<1> USE DEF remote, record, history
<1>0. /\ Taken \subseteq Ids
      /\ \A i \in Ids : catalog[i] \in Nat /\ series[i] \in Nat /\ sent[i] \in Nat
                        /\ job.take[i] \in Nat
  BY CSAssumption DEF Types, Jobs, Revs, Taken
<1>1. CASE UNCHANGED vars
  BY <1>1 DEF RowInv, Taken, vars
<1>2. ASSUME NEW i \in Ids, NEW r \in Revs, Queue(i, r) PROVE RowInv'
  <2>1. /\ catalog' = [catalog EXCEPT ![i] = r] /\ r >= catalog[i] /\ r \in Nat
        /\ UNCHANGED <<series, sent, phase, todo, job>> /\ Taken' = Taken
    BY <1>2, CSAssumption DEF Queue, Revs, Taken
  <2>2. \A j \in Ids : catalog[j] <= catalog'[j] /\ catalog'[j] \in Nat
    BY <2>1, <1>0 DEF Types
  <2>3. \A j \in Ids \ Gated : sent'[j] <= series'[j] /\ series'[j] <= catalog'[j]
    BY <2>1, <2>2, <1>0 DEF RowInv
  <2>4. \A j \in Taken : series'[j] <= job'.take[j] /\ job'.take[j] <= catalog'[j]
    BY <2>1, <2>2, <1>0 DEF RowInv
  <2>5. QED
    BY <2>1, <2>3, <2>4 DEF RowInv
<1>3. ASSUME Seed PROVE RowInv'
  <2>1. /\ sent' = catalog /\ UNCHANGED <<catalog, series, phase, todo, job>>
        /\ \A i \in Catalogued \ Gated : series[i] = catalog[i]
        /\ Taken' = {}
    BY <1>3, JobIdle, NoJobFacts DEF Seed, JobInv, Taken
  <2>2. \A i \in Ids \ Gated : series[i] = catalog[i]
    BY <2>1, <1>0 DEF RowInv, Catalogued
  <2>3. QED
    BY <2>1, <2>2, <1>0, RowIdle
<1>4. ASSUME RefreshCounts \/ ForgetFts PROVE RowInv'
  <2>1. /\ UNCHANGED <<catalog, series, sent, todo, job>> /\ Taken' = Taken
        /\ \/ phase' = phase
           \/ phase = "forget" /\ phase' = "rows" /\ Taken \ todo = {}
    BY <1>4 DEF RefreshCounts, ForgetFts, Taken, JobInv
  <2>2. QED
    BY <2>1 DEF RowInv
<1>5. ASSUME NEW ids \in SUBSET Ids, NEW source \in BOOLEAN, NEW noDiff \in BOOLEAN,
             NEW clears \in BOOLEAN, Plan(ids, source, noDiff, clears),
             source => ids = Source /\ Source \cap Gated = {} /\ ~clears
      PROVE  RowInv'
  <2>1. UNCHANGED <<catalog, series, sent>>
    BY <1>5 DEF Plan
  <2>2. /\ phase' = IF Taken' = {} THEN "nothing" ELSE "forget"
        /\ Taken' \subseteq Ids \ Gated
        /\ \A i \in Taken' : job'.take[i] = catalog[i]
    BY <1>5, PlanFacts DEF Catalogued
  <2>3. \A i \in Taken' : series'[i] <= job'.take[i] /\ job'.take[i] <= catalog'[i]
    BY <2>1, <2>2, <1>0 DEF RowInv
  <2>4. QED
    BY <2>1, <2>2, <2>3 DEF RowInv
<1>6. ASSUME NEW noDiff \in BOOLEAN, NEW keepPending \in BOOLEAN,
             SyncQueue(noDiff, keepPending)
      PROVE  RowInv'
  <2>1. Plan(pending, FALSE, noDiff, ~keepPending) /\ pending \in SUBSET Ids
    BY <1>6 DEF SyncQueue, Types
  <2>2. QED
    BY <2>1, <1>5
<1>7. ASSUME NEW noDiff \in BOOLEAN, SyncSource(noDiff) PROVE RowInv'
  <2>1. /\ Plan(Source, TRUE, noDiff, FALSE) /\ Source \in SUBSET Ids
        /\ Source \cap Gated = {}
    BY <1>7, CSAssumption DEF SyncSource
  <2>2. QED
    BY <2>1, <1>5
<1>8. ASSUME Idle, UNCHANGED <<catalog, series, sent>> PROVE RowInv'
  BY <1>8, JobIdle, RowIdle DEF RowInv
<1>9. ASSUME NothingToSend \/ Stop PROVE RowInv'
  BY <1>9, <1>8 DEF NothingToSend, Stop
<1>10. ASSUME NEW i \in Ids, SendRow(i) PROVE RowInv'
  <2>1. /\ phase = "rows" /\ i \in todo /\ UNCHANGED <<catalog, sent, job>> /\ Taken' = Taken
        /\ series' = [series EXCEPT ![i] = job.take[i]]
        /\ \/ phase' = "rows" /\ (todo' = todo \/ todo' = todo \ {i})
           \/ phase' # "rows" /\ todo = {i}
    BY <1>10 DEF SendRow, AnswerLost, Done, AfterRows, Taken
  <2>2. i \in Taken /\ i \notin Gated
    BY <2>1 DEF JobInv
  <2>3. \A j \in Ids : series'[j] = IF j = i THEN job.take[i] ELSE series[j]
    BY <2>1 DEF Types
  <2>4. sent[i] <= job.take[i] /\ job.take[i] <= catalog[i]
    BY <2>2, <1>0 DEF RowInv
  <2>5. \A j \in Ids \ Gated : sent'[j] <= series'[j] /\ series'[j] <= catalog'[j]
    BY <2>1, <2>3, <2>4, <1>0 DEF RowInv
  <2>6. \A j \in Taken : series'[j] <= job'.take[j] /\ job'.take[j] <= catalog'[j]
    BY <2>1, <2>3, <1>0 DEF RowInv
  <2>7. \A j \in Taken \ todo : series'[j] = job.take[j]
    BY <2>1, <2>3, <1>0 DEF RowInv
  <2>8. series'[i] = job.take[i]
    BY <2>3
  <2>9. QED
    BY <2>1, <2>5, <2>6, <2>7, <2>8 DEF RowInv
<1>11. ASSUME UNCHANGED <<catalog, series, sent>>, job'.take = job.take,
              phase \notin {"idle", "nothing", "forget", "rows"},
              phase' \notin {"idle", "nothing", "forget", "rows"}
       PROVE  RowInv'
  <2>1. Taken' = Taken
    BY <1>11 DEF Taken
  <2>2. QED
    BY <1>11, <2>1 DEF RowInv
<1>12. ASSUME NEW i \in Ids, SendBlock(i) PROVE RowInv'
  BY <1>12, <1>11 DEF SendBlock, AnswerLost, Done
<1>13. ASSUME SendWipe \/ SendCount \/ ClearPending PROVE RowInv'
  BY <1>13, <1>11 DEF SendWipe, SendCount, AnswerLost, ClearPending
<1>14. ASSUME Restart, phase = "index", UNCHANGED <<catalog, series, sent>> PROVE RowInv'
  <2>1. CASE Idle
    BY <2>1, <1>14, <1>8
  <2>2. CASE phase' = "wipe" /\ job' = [job EXCEPT !.restarted = TRUE]
    <3>1. job'.take = job.take
      BY <2>2 DEF Types, Jobs
    <3>2. QED
      BY <1>14, <2>2, <3>1, <1>11
  <2>3. QED
    BY <1>14, <2>1, <2>2 DEF Restart
<1>15. ASSUME NEW i \in Ids, SendBare(i) PROVE RowInv'
  BY <1>15, <1>11, <1>14 DEF SendBare, Done
<1>16. ASSUME BareFails PROVE RowInv'
  BY <1>16, <1>14 DEF BareFails
<1>17. ASSUME Record PROVE RowInv'
  <2>1. /\ phase = "record" /\ Idle /\ UNCHANGED <<catalog, series>>
        /\ sent' = [i \in Ids |-> IF job.take[i] # 0 THEN job.take[i] ELSE sent[i]]
    BY <1>17 DEF Record
  <2>2. \A i \in Taken : series[i] = job.take[i]
    BY <2>1 DEF RowInv
  <2>3. \A i \in Ids \ Gated : sent'[i] <= series'[i] /\ series'[i] <= catalog'[i]
    BY <2>1, <2>2, <1>0 DEF RowInv, Taken
  <2>4. QED
    BY <2>1, <2>3, JobIdle, RowIdle
<1>18. QED
  BY <1>1, <1>2, <1>3, <1>4, <1>6, <1>7, <1>9, <1>10, <1>12, <1>13, <1>15, <1>16, <1>17
  DEF Next, SyncStep

-----------------------------------------------------------------------------
(* Once its index stage is over, a sync has left every row it took in the  *)
(* index, those it had no need to write included.                          *)
LEMMA TakenIndexed ==
    ASSUME Types, JobInv, FtsInv, phase \in {"count", "clear", "record"}, NEW i \in Taken
    PROVE  index[i] = Entry(i, job.take[i])
<1>1. i \in Ids /\ job.take[i] \in Revs /\ job.take[i] # 0
  BY DEF Taken, Types, Jobs
<1>2. /\ Entry(i, job.take[i]) = [n |-> 1, t |-> TitleOf[i][job.take[i]]]
      /\ TitleOf[i][job.take[i]] # 0
  BY <1>1, EntryFacts
<1>3. QED
  BY <1>1, <1>2 DEF FtsInv

(* What is recorded as it is now has been taken as it is now.              *)
LEMMA SentFacts ==
    ASSUME Types, RowInv, NEW i \in Catalogued \ Gated, sent[i] = catalog[i]
    PROVE  /\ series[i] = catalog[i] /\ catalog[i] # 0
           /\ i \in Taken => job.take[i] = catalog[i]
<1>1. i \in Ids /\ catalog[i] \in Nat /\ series[i] \in Nat /\ job.take[i] \in Nat
  BY CSAssumption DEF Types, Jobs, Revs, Catalogued
<1>2. QED
  BY <1>1 DEF RowInv, Catalogued

LEMMA FreshIdle == ASSUME Idle PROVE Fresh'
<1>1. phase' = "idle" /\ job' = NoJob /\ Taken' = {}
  BY JobIdle DEF Idle
<1>2. QED
  BY <1>1, NoJobFacts DEF Fresh

LEMMA FreshKept ==
    ASSUME Fresh, UNCHANGED <<catalog, pending, series, sent, counted, unread>>,
           job'.take = job.take, job'.clears = job.clears, job'.whole = job.whole,
           phase # "record", phase' \notin {"clear", "record"}
    PROVE  Fresh'
<1>1. Taken' = Taken /\ Catalogued' = Catalogued
  BY DEF Taken, Catalogued
<1>2. QED
  BY <1>1 DEF Fresh

(* A step that changes nothing these parts speak of.                       *)
LEMMA HeldKept ==
    ASSUME UNCHANGED <<catalog, pending, series, index, counted, torn, sent, history>>
    PROVE  /\ RowHeld => RowHeld'
           /\ IndexHeld => IndexHeld'
           /\ CountHeld => CountHeld'
           /\ SentIndexed => SentIndexed'
           /\ SentCounted => SentCounted'
BY DEF RowHeld, IndexHeld, CountHeld, SentIndexed, SentCounted, Overlooked, Catalogued,
       Listed, history

(* The queue is emptied by a sync that took of it all that is not recorded *)
(* but for what it missed, and has left what it took in D1.                *)
LEMMA QueueEmptied ==
    ASSUME Types, JobInv, FtsInv, RowInv, OweInv,
           job.clears, Taken = {} \/ phase = "clear", phase # "record",
           pending' = {},
           UNCHANGED <<catalog, series, index, counted, torn, sent, history>>
    PROVE  RowHeld' /\ IndexHeld' /\ CountHeld' /\ SentIndexed' /\ SentCounted'
<1>h. RowHeld /\ IndexHeld /\ CountHeld /\ SentIndexed /\ SentCounted /\ Fresh
  BY DEF OweInv
<1> USE DEF history
<1>1. /\ Overlooked' = (Catalogued \ Gated) \ unread
      /\ Listed' = Listed /\ Catalogued' = Catalogued
  BY DEF Overlooked, Catalogued, Listed
<1>2. \A i \in Taken : i \in unread \/ /\ job.take[i] = catalog[i] /\ series[i] = catalog[i]
                                       /\ index[i] = Entry(i, catalog[i])
                                       /\ counted = Listed
  <2>1. CASE Taken = {}
    BY <2>1
  <2>2. CASE phase = "clear"
    BY <2>2, <1>h, TakenIndexed DEF Fresh, RowInv
  <2>3. QED
    BY <2>1, <2>2
<1>3. \A i \in (Catalogued \ Gated) \ unread :
         i \notin pending \/ i \in Taken \/ sent[i] = catalog[i]
  BY <1>h DEF Fresh
<1>4. ASSUME NEW i \in (Catalogued \ Gated) \ unread, i \notin pending
      PROVE  i \in Overlooked
  BY <1>4 DEF Overlooked
<1>5. RowHeld'
  BY <1>1, <1>2, <1>3, <1>4, <1>h, SentFacts DEF RowHeld
<1>6. IndexHeld'
  BY <1>1, <1>2, <1>3, <1>4, <1>h DEF IndexHeld, SentIndexed
<1>7. CountHeld'
  BY <1>1, <1>2, <1>3, <1>4, <1>h DEF CountHeld, SentCounted
<1>8. SentIndexed' /\ SentCounted'
  BY <1>1, <1>h DEF SentIndexed, SentCounted
<1>9. QED
  BY <1>5, <1>6, <1>7, <1>8

LEMMA OweNext ==
    ASSUME ~Reverts
    PROVE  Types /\ JobInv /\ BareInv /\ FtsInv /\ RowInv /\ OweInv /\ [Next]_vars => OweInv'
<1> SUFFICES ASSUME Types, JobInv, BareInv, FtsInv, RowInv, OweInv, [Next]_vars
             PROVE  OweInv'
  OBVIOUS
<1> USE DEF remote, record, history
<1>0. /\ Taken \subseteq Ids
      /\ \A i \in Ids : catalog[i] \in Nat /\ series[i] \in Nat /\ sent[i] \in Nat
                        /\ job.take[i] \in Nat
  BY CSAssumption DEF Types, Jobs, Revs, Taken
<1>h. RowHeld /\ IndexHeld /\ CountHeld /\ SentIndexed /\ SentCounted /\ Fresh
  BY DEF OweInv
<1>1. CASE UNCHANGED vars
  <2>1. Fresh'
    BY <1>1, <1>h DEF Fresh, Taken, Catalogued, Listed, vars
  <2>2. QED
    BY <1>1, <1>h, <2>1, HeldKept DEF OweInv, vars
<1>2. ASSUME NEW i \in Ids, NEW r \in Revs, Queue(i, r) PROVE OweInv'
  <2>1. /\ catalog' = [catalog EXCEPT ![i] = r] /\ r >= catalog[i] /\ r \in Nat
        /\ r # 0 \/ catalog[i] = 0
        /\ pending' = pending \cup {i}
        /\ unread' = IF Missed(i, r) THEN unread \cup {i}
                     ELSE IF job.clears THEN unread ELSE unread \ {i}
        /\ UNCHANGED <<series, index, counted, torn, sent, phase, todo, job, vouched>>
        /\ Taken' = Taken /\ Listed' = Listed
    BY <1>2, CSAssumption DEF Queue, Revs, Taken, Listed
  <2>2. \A j \in Ids : catalog'[j] = IF j = i THEN r ELSE catalog[j]
    BY <2>1 DEF Types
  <2>3. \A j \in Ids : j # i => /\ j \in Catalogued' <=> j \in Catalogued
                                /\ j \in pending' <=> j \in pending
                                /\ j \in unread' <=> j \in unread
    BY <2>1, <2>2 DEF Catalogued
  <2>4. \A j \in Overlooked' : j # i /\ j \in Overlooked /\ j \in Ids
    BY <2>1, <2>3 DEF Overlooked, Catalogued
  <2>5. RowHeld' /\ IndexHeld' /\ CountHeld'
    BY <2>1, <2>2, <2>4, <1>h DEF RowHeld, IndexHeld, CountHeld
  <2>6. ASSUME i \notin Gated, sent[i] = r PROVE catalog[i] = r
    BY <2>1, <2>6, <1>0 DEF RowInv
  <2>7. ASSUME NEW j \in Catalogued' \ Gated, sent'[j] = catalog'[j]
        PROVE  j \in Catalogued /\ catalog'[j] = catalog[j]
    BY <2>1, <2>2, <2>6, <2>7 DEF Catalogued
  <2>8. SentIndexed' /\ SentCounted'
    BY <2>1, <2>7, <1>h DEF SentIndexed, SentCounted
  <2>9. \A j \in Taken : job.take[j] = catalog'[j] \/ j \in pending' \cup unread'
    BY <2>1, <2>2, <2>3, <1>0, <1>h DEF Fresh
  <2>10. ASSUME job.clears, phase # "record"
         PROVE  /\ \A j \in Taken : job.take[j] = catalog'[j] \/ j \in unread'
                /\ \A j \in (pending' \cap Catalogued') \ Gated :
                      j \in Taken \/ sent[j] = catalog'[j] \/ j \in unread'
    <3>1. /\ \A j \in Taken : job.take[j] = catalog[j] \/ j \in unread
          /\ \A j \in (pending \cap Catalogued) \ Gated :
                j \in Taken \/ sent[j] = catalog[j] \/ j \in unread
      BY <2>10, <1>h DEF Fresh
    <3>2. unread \subseteq unread'
      BY <2>1, <2>10
    <3>3. r = 0 \/ i \in unread' \/ (i \in pending /\ r = catalog[i])
      BY <2>1, <2>10 DEF Missed
    <3>4. i \in Catalogued' => r # 0
      BY <2>2 DEF Catalogued
    <3>5. ASSUME NEW j \in Taken PROVE job.take[j] = catalog'[j] \/ j \in unread'
      <4>1. catalog[j] # 0
        BY DEF JobInv
      <4>2. QED
        BY <2>1, <2>2, <3>1, <3>2, <3>3, <4>1, <1>0
    <3>6. ASSUME NEW j \in (pending' \cap Catalogued') \ Gated
          PROVE  j \in Taken \/ sent[j] = catalog'[j] \/ j \in unread'
      <4>1. CASE j = i
        <5>1. i \in unread' \/ (i \in pending /\ r = catalog[i] /\ catalog[i] # 0)
          BY <3>3, <3>4, <3>6, <4>1
        <5>2. QED
          BY <2>2, <3>1, <3>2, <3>6, <4>1, <5>1 DEF Catalogued
      <4>2. CASE j # i
        BY <2>2, <2>3, <3>1, <3>2, <3>6, <4>2 DEF Catalogued
      <4>3. QED
        BY <4>1, <4>2
    <3>7. QED
      BY <3>5, <3>6
  <2>11. job.whole => /\ \A j \in Source \cap Catalogued' : j \in Taken \/ j \in pending'
                      /\ \A j \in Source \ Taken : sent'[j] = 0
    BY <2>1, <2>3, <1>h DEF Fresh, Catalogued
  <2>12. phase \in {"clear", "record"} => counted' = Listed'
    BY <2>1, <1>h DEF Fresh
  <2>13. Fresh'
    BY <2>1, <2>9, <2>10, <2>11, <2>12 DEF Fresh
  <2>14. QED
    BY <2>5, <2>8, <2>13 DEF OweInv
<1>3. ASSUME Seed PROVE OweInv'
  <2>1. /\ sent' = catalog /\ phase' = "idle" /\ job' = NoJob /\ todo' = {}
        /\ UNCHANGED <<catalog, pending, series, index, counted, torn, unread>>
        /\ vouched' = {i \in Catalogued \ Gated : \/ i \notin counted
                                                  \/ index[i] # Entry(i, catalog[i])}
        /\ Catalogued' = Catalogued /\ Listed' = Listed
    BY <1>3 DEF Seed, JobInv, Catalogued, Listed
  <2>2. Fresh'
    BY <2>1, FreshIdle DEF Idle
  <2>3. Overlooked' = Overlooked /\ Overlooked \subseteq Catalogued \ Gated
    BY <2>1 DEF Overlooked
  <2>4. \A i \in Catalogued \ Gated : /\ index[i] = Entry(i, catalog[i]) \/ i \in vouched'
                                      /\ i \in counted \/ i \in vouched'
    BY <2>1
  <2>5. RowHeld'
    BY <2>1, <2>3, <1>h DEF RowHeld
  <2>6. IndexHeld' /\ CountHeld' /\ SentIndexed' /\ SentCounted'
    BY <2>1, <2>3, <2>4 DEF IndexHeld, CountHeld, SentIndexed, SentCounted
  <2>7. QED
    BY <2>2, <2>5, <2>6 DEF OweInv
<1>4. ASSUME RefreshCounts \/ SendCount PROVE OweInv'
  <2>1. /\ counted' = Listed /\ Listed' = Listed /\ Catalogued' = Catalogued /\ Taken' = Taken
        /\ Overlooked' = Overlooked /\ Overlooked \subseteq Catalogued \ Gated
        /\ UNCHANGED <<catalog, pending, series, index, torn, sent, job, unread, vouched>>
        /\ phase # "record" /\ (phase' = "record" => ~job.clears)
    BY <1>4 DEF RefreshCounts, SendCount, AnswerLost, Listed, Catalogued, Taken, Overlooked
  <2>2. RowHeld' /\ IndexHeld' /\ CountHeld' /\ SentIndexed'
    BY <2>1, <1>h DEF RowHeld, IndexHeld, CountHeld, SentIndexed
  <2>3. SentCounted'
    BY <2>1, SentFacts DEF SentCounted, Listed, Catalogued
  <2>4. Fresh'
    BY <2>1, <1>h DEF Fresh
  <2>5. QED
    BY <2>2, <2>3, <2>4 DEF OweInv
<1>5. ASSUME NEW ids \in SUBSET Ids, NEW source \in BOOLEAN, NEW noDiff \in BOOLEAN,
             NEW clears \in BOOLEAN, Plan(ids, source, noDiff, clears),
             source => ids = Source /\ Source \cap Gated = {} /\ ~clears,
             clears => ids = pending
      PROVE  OweInv'
  <2>1. /\ UNCHANGED <<catalog, pending, series, index, counted, torn, sent, unread, vouched>>
        /\ Catalogued' = Catalogued
    BY <1>5 DEF Plan, Catalogued
  <2>2. /\ phase' \in {"nothing", "forget"} /\ job'.clears = clears
        /\ \A i \in Taken' : job'.take[i] = catalog[i]
        /\ \A i \in (ids \cap Catalogued) \ Gated : i \in Taken' \/ sent[i] = catalog[i]
        /\ job'.whole => Taken' = Source \cap Catalogued /\ Source \cap Gated = {}
    BY <1>5, PlanFacts
  <2>3. ASSUME NEW i \in Source \ Catalogued, i \notin Gated PROVE sent[i] = 0
    BY <2>3, <1>0, CSAssumption DEF RowInv, Catalogued
  <2>4. Fresh'
    BY <1>5, <2>1, <2>2, <2>3 DEF Fresh
  <2>5. QED
    BY <2>1, <2>4, <1>h, HeldKept DEF OweInv
<1>6. ASSUME NEW noDiff \in BOOLEAN, NEW keepPending \in BOOLEAN,
             SyncQueue(noDiff, keepPending)
      PROVE  OweInv'
  <2>1. Plan(pending, FALSE, noDiff, ~keepPending) /\ pending \in SUBSET Ids
    BY <1>6 DEF SyncQueue, Types
  <2>2. QED
    BY <2>1, <1>5
<1>7. ASSUME NEW noDiff \in BOOLEAN, SyncSource(noDiff) PROVE OweInv'
  <2>1. /\ Plan(Source, TRUE, noDiff, FALSE) /\ Source \in SUBSET Ids
        /\ Source \cap Gated = {}
    BY <1>7, CSAssumption DEF SyncSource
  <2>2. QED
    BY <2>1, <1>5
<1>8. ASSUME NothingToSend PROVE OweInv'
  <2>1. /\ phase = "nothing" /\ Taken = {} /\ Idle
        /\ pending' = IF job.clears THEN {} ELSE pending
        /\ UNCHANGED <<catalog, series, index, counted, torn, sent, unread, vouched>>
    BY <1>8 DEF NothingToSend, JobInv
  <2>2. CASE ~job.clears
    BY <2>1, <2>2, <1>h, HeldKept, FreshIdle DEF OweInv
  <2>3. CASE job.clears
    BY <2>1, <2>3, QueueEmptied, FreshIdle DEF OweInv
  <2>4. QED
    BY <2>2, <2>3
<1>9. ASSUME ForgetFts PROVE OweInv'
  <2>1. /\ phase = "forget" /\ phase' = "rows"
        /\ UNCHANGED <<catalog, pending, series, index, counted, torn, sent, job, unread, vouched>>
    BY <1>9 DEF ForgetFts
  <2>2. QED
    BY <2>1, <1>h, HeldKept, FreshKept DEF OweInv
<1>10. ASSUME NEW i \in Ids, SendRow(i) PROVE OweInv'
  <2>1. /\ phase = "rows" /\ i \in todo /\ phase' \notin {"clear", "record"}
        /\ UNCHANGED <<catalog, pending, index, counted, torn, sent, job, unread, vouched>>
        /\ Taken' = Taken /\ Catalogued' = Catalogued /\ Overlooked' = Overlooked
        /\ series' = [series EXCEPT ![i] = job.take[i]]
    BY <1>10 DEF SendRow, AnswerLost, Done, AfterRows, Taken, Catalogued, Overlooked
  <2>2. i \in Taken /\ i \notin Gated /\ i \in Catalogued /\ job.take[i] # 0
    BY <2>1 DEF JobInv, Taken, Catalogued
  <2>3. \A j \in Ids : series'[j] = IF j = i THEN job.take[i] ELSE series[j]
    BY <2>1 DEF Types
  <2>4. i \in Overlooked => job.take[i] = catalog[i] /\ series[i] = catalog[i] /\ catalog[i] # 0
    BY <2>2, <1>h DEF Overlooked, RowHeld, Fresh, Catalogued
  <2>5. Overlooked \subseteq Ids
    BY DEF Overlooked, Catalogued
  <2>6. RowHeld' /\ CountHeld'
    BY <2>1, <2>3, <2>4, <2>5, <1>h DEF RowHeld, CountHeld, Listed
  <2>7. IndexHeld' /\ SentIndexed' /\ SentCounted'
    BY <2>1, <1>h DEF IndexHeld, SentIndexed, SentCounted
  <2>8. Fresh'
    BY <2>1, <1>h DEF Fresh
  <2>9. QED
    BY <2>6, <2>7, <2>8 DEF OweInv
<1>11. ASSUME NEW i \in Ids, SendBlock(i) PROVE OweInv'
  <2>1. /\ phase = "index" /\ i \in todo /\ phase' \notin {"clear", "record"}
        /\ UNCHANGED <<catalog, pending, series, counted, torn, sent, job, unread, vouched>>
        /\ Catalogued' = Catalogued /\ Listed' = Listed /\ Overlooked' = Overlooked
        /\ index' = [index EXCEPT ![i] = Entry(i, job.take[i])]
    BY <1>11 DEF SendBlock, AnswerLost, Done, Catalogued, Listed, Overlooked
  <2>2. i \in Taken /\ i \notin Gated
    BY <2>1 DEF JobInv
  <2>3. \A j \in Ids : index'[j] = IF j = i THEN Entry(i, job.take[i]) ELSE index[j]
    BY <2>1 DEF Types
  <2>4. IndexHeld'
    BY <2>1, <2>2, <2>3, <1>h DEF IndexHeld, Fresh, Overlooked, Catalogued
  <2>5. SentIndexed'
    <3> SUFFICES ASSUME NEW j \in Catalogued \ Gated, sent[j] = catalog[j]
                 PROVE  \/ index'[j] = Entry(j, catalog[j]) \/ j \in vouched
                        \/ torn /\ j \in Source
      BY <2>1 DEF SentIndexed
    <3>1. j \in Ids
      BY DEF Catalogued
    <3>2. QED
      BY <2>2, <2>3, <3>1, <1>h, SentFacts DEF SentIndexed
  <2>6. RowHeld' /\ CountHeld' /\ SentCounted' /\ Fresh'
    BY <2>1, <1>h, FreshKept DEF RowHeld, CountHeld, SentCounted
  <2>7. QED
    BY <2>4, <2>5, <2>6 DEF OweInv
<1>12. ASSUME SendWipe PROVE OweInv'
  <2>1. /\ phase = "wipe" /\ phase' \notin {"clear", "record"} /\ torn' = TRUE
        /\ UNCHANGED <<catalog, pending, series, counted, sent, job, unread, vouched>>
        /\ Catalogued' = Catalogued /\ Listed' = Listed /\ Overlooked' = Overlooked
        /\ \A j \in Ids : j \notin Source => index'[j] = index[j]
    BY <1>12 DEF SendWipe, AnswerLost, Catalogued, Listed, Overlooked
  <2>2. IndexHeld' /\ SentIndexed'
    BY <2>1, <1>h DEF IndexHeld, SentIndexed, Overlooked, Catalogued
  <2>3. RowHeld' /\ CountHeld' /\ SentCounted' /\ Fresh'
    BY <2>1, <1>h, FreshKept DEF RowHeld, CountHeld, SentCounted
  <2>4. QED
    BY <2>2, <2>3 DEF OweInv
<1>13. ASSUME Restart, phase = "index",
              UNCHANGED <<catalog, pending, series, counted, sent, unread>>
       PROVE  Fresh'
  <2>1. CASE Idle
    BY <2>1, FreshIdle
  <2>2. CASE phase' = "wipe" /\ job' = [job EXCEPT !.restarted = TRUE]
    <3>1. job'.take = job.take /\ job'.clears = job.clears /\ job'.whole = job.whole
      BY <2>2 DEF Types, Jobs
    <3>2. QED
      BY <1>13, <2>2, <3>1, <1>h, FreshKept
  <2>3. QED
    BY <1>13, <2>1, <2>2 DEF Restart
<1>14. ASSUME NEW i \in Ids, SendBare(i) PROVE OweInv'
  <2>1. /\ phase = "index" /\ i \in todo /\ job.whole
        /\ UNCHANGED <<catalog, pending, series, counted, sent, unread, vouched>>
        /\ Catalogued' = Catalogued /\ Listed' = Listed /\ Overlooked' = Overlooked
        /\ index' = [index EXCEPT ![i] = [n |-> index[i].n + 1, t |-> TitleOf[i][job.take[i]]]]
    BY <1>14 DEF SendBare, InsertBare, Catalogued, Listed, Overlooked
  <2>2. i \in Taken /\ index[i].n = 0 /\ job.fts = Taken
    BY <2>1 DEF JobInv, BareInv
  <2>3. \A j \in Ids : index'[j] = IF j = i THEN Entry(i, job.take[i]) ELSE index[j]
    BY <2>1, <2>2 DEF Types, Entry, Taken
  <2>4. RowHeld' /\ CountHeld' /\ SentCounted'
    BY <2>1, <1>h DEF RowHeld, CountHeld, SentCounted
  <2>5. Fresh'
    <3>1. CASE Restart
      BY <3>1, <2>1, <1>13
    <3>2. CASE Done(i, "count", {}) /\ UNCHANGED job
      BY <3>2, <2>1, <1>h, FreshKept DEF Done
    <3>3. QED
      BY <3>1, <3>2, <1>14 DEF SendBare
  <2>6. ASSUME torn => torn' PROVE IndexHeld' /\ SentIndexed'
    <3>1. IndexHeld'
      BY <2>1, <2>2, <2>3, <2>6, <1>h DEF IndexHeld, Fresh, Overlooked, Catalogued
    <3>2. ASSUME NEW j \in Catalogued \ Gated, sent[j] = catalog[j]
          PROVE  index'[j] = Entry(j, catalog[j]) \/ j \in vouched \/ (torn' /\ j \in Source)
      <4>1. j \in Ids
        BY DEF Catalogued
      <4>2. QED
        BY <2>2, <2>3, <2>6, <3>2, <4>1, <1>h, SentFacts DEF SentIndexed
    <3>3. SentIndexed'
      BY <2>1, <3>2 DEF SentIndexed
    <3>4. QED
      BY <3>1, <3>3
  <2>7. ASSUME todo = {i} PROVE IndexHeld' /\ SentIndexed'
    <3>1. \A j \in Taken : index'[j] = Entry(j, job.take[j])
      BY <2>1, <2>2, <2>3, <2>7, <1>0 DEF FtsInv
    <3>2. \A j \in Source \cap Catalogued : j \in Taken \/ (j \in pending /\ sent[j] # catalog[j])
      BY <2>1, <1>h DEF Fresh, Catalogued
    <3>3. \A j \in Ids : j \notin Source => j \notin Taken /\ index'[j] = index[j]
      BY <2>1, <2>2, <2>3 DEF JobInv
    <3>4. IndexHeld'
      BY <2>1, <3>1, <3>2, <3>3, <1>h DEF IndexHeld, Fresh, Overlooked, Catalogued
    <3>5. ASSUME NEW j \in Catalogued \ Gated, sent[j] = catalog[j]
          PROVE  index'[j] = Entry(j, catalog[j]) \/ j \in vouched
      <4>1. j \in Ids /\ (j \in Taken => job.take[j] = catalog[j])
        BY <3>5, SentFacts DEF Catalogued
      <4>2. CASE j \in Source
        BY <3>1, <3>2, <3>5, <4>1, <4>2
      <4>3. CASE j \notin Source
        BY <3>3, <3>5, <4>1, <4>3, <1>h DEF SentIndexed
      <4>4. QED
        BY <4>2, <4>3
    <3>6. SentIndexed'
      BY <2>1, <3>5 DEF SentIndexed
    <3>7. QED
      BY <3>4, <3>6
  <2>8. todo = {i} \/ (torn => torn')
    BY <1>14 DEF SendBare
  <2>9. QED
    BY <2>4, <2>5, <2>6, <2>7, <2>8 DEF OweInv
<1>15. ASSUME BareFails PROVE OweInv'
  <2>1. phase = "index" /\ Restart
        /\ UNCHANGED <<catalog, pending, series, index, counted, torn, sent, unread, vouched>>
    BY <1>15 DEF BareFails
  <2>2. QED
    BY <2>1, <1>13, <1>h, HeldKept DEF OweInv
<1>16. ASSUME ClearPending PROVE OweInv'
  <2>1. /\ phase = "clear" /\ phase' = "record" /\ pending' = {} /\ job.clears
        /\ UNCHANGED <<catalog, series, index, counted, torn, sent, job, unread, vouched>>
        /\ Taken' = Taken /\ Catalogued' = Catalogued /\ Listed' = Listed
    BY <1>16 DEF ClearPending, JobInv, Taken, Catalogued, Listed
  <2>2. RowHeld' /\ IndexHeld' /\ CountHeld' /\ SentIndexed' /\ SentCounted'
    BY <2>1, QueueEmptied
  <2>3. \A i \in Taken : job.take[i] = catalog[i] \/ i \in unread
    BY <2>1, <1>h DEF Fresh
  <2>4. counted = Listed /\ ~job.whole
    BY <2>1, <1>h DEF Fresh, JobInv
  <2>5. Fresh'
    BY <2>1, <2>3, <2>4 DEF Fresh
  <2>6. QED
    BY <2>2, <2>5 DEF OweInv
<1>17. ASSUME Record PROVE OweInv'
  <2>1. /\ phase = "record" /\ Idle
        /\ UNCHANGED <<catalog, pending, series, index, counted, torn>>
        /\ Catalogued' = Catalogued /\ Listed' = Listed
        /\ sent' = [i \in Ids |-> IF job.take[i] # 0 THEN job.take[i] ELSE sent[i]]
        /\ unread' = {i \in unread \ pending : job.take[i] # catalog[i]}
        /\ vouched' = {i \in vouched : job.take[i] = 0}
    BY <1>17 DEF Record, Catalogued, Listed
  <2>2. /\ \A i \in Taken : /\ sent'[i] = job.take[i] /\ index[i] = Entry(i, job.take[i])
                            /\ series[i] = job.take[i]
        /\ \A i \in Ids \ Taken : sent'[i] = sent[i] /\ (i \in vouched => i \in vouched')
        /\ counted = Listed
    BY <2>1, <1>0, <1>h, TakenIndexed DEF Taken, RowInv, Fresh
  <2>3. ASSUME NEW i \in Overlooked'
        PROVE  /\ i \in Catalogued \ Gated /\ i \in Ids
               /\ i \in Taken => job.take[i] = catalog[i]
               /\ i \notin Taken => i \in Overlooked
    <3>1. i \in Catalogued \ Gated /\ i \notin pending /\ i \notin unread' /\ i \in Ids
      BY <2>1 DEF Overlooked, Catalogued
    <3>2. i \in unread => job.take[i] = catalog[i]
      BY <2>1, <3>1
    <3>3. i \in Taken => job.take[i] = catalog[i]
      BY <3>1, <3>2, <1>h DEF Fresh
    <3>4. i \notin Taken => i \notin unread
      BY <3>1, <3>2 DEF Taken, Catalogued
    <3>5. QED
      BY <3>1, <3>3, <3>4 DEF Overlooked
  <2>4. RowHeld'
    BY <2>1, <2>2, <2>3, <1>h DEF RowHeld
  <2>5. IndexHeld'
    BY <2>1, <2>2, <2>3, <1>h DEF IndexHeld
  <2>6. CountHeld'
    BY <2>1, <2>2 DEF CountHeld
  <2>7. ASSUME NEW i \in Catalogued \ Gated, sent'[i] = catalog[i]
        PROVE  \/ index[i] = Entry(i, catalog[i]) \/ i \in vouched' \/ (torn /\ i \in Source)
    <3>1. i \in Ids
      BY DEF Catalogued
    <3>2. CASE i \in Taken
      BY <2>2, <2>7, <3>2
    <3>3. CASE i \notin Taken
      BY <2>2, <2>7, <3>1, <3>3, <1>h DEF SentIndexed
    <3>4. QED
      BY <3>2, <3>3
  <2>8. ASSUME NEW i \in Catalogued \ Gated, sent'[i] = catalog[i]
        PROVE  i \in counted
    <3>1. i \in Ids /\ catalog[i] # 0
      BY DEF Catalogued
    <3>2. series[i] # 0
      BY <2>2, <2>8, <3>1, SentFacts
    <3>3. QED
      BY <2>2, <3>1, <3>2 DEF Listed
  <2>9. SentIndexed' /\ SentCounted'
    BY <2>1, <2>7, <2>8 DEF SentIndexed, SentCounted
  <2>10. QED
    BY <2>1, <2>4, <2>5, <2>6, <2>9, FreshIdle DEF OweInv
<1>18. ASSUME Stop PROVE OweInv'
  <2>1. /\ Idle /\ UNCHANGED <<catalog, pending, series, index, counted, torn, sent, vouched>>
        /\ unread' = unread \ pending
    BY <1>18 DEF Stop
  <2>2. Overlooked' = Overlooked /\ Catalogued' = Catalogued /\ Listed' = Listed
    BY <2>1 DEF Overlooked, Catalogued, Listed
  <2>3. RowHeld' /\ IndexHeld' /\ CountHeld' /\ SentIndexed' /\ SentCounted'
    BY <2>1, <2>2, <1>h DEF RowHeld, IndexHeld, CountHeld, SentIndexed, SentCounted
  <2>4. QED
    BY <2>1, <2>3, FreshIdle DEF OweInv
<1>19. QED
  BY <1>1, <1>2, <1>3, <1>4, <1>6, <1>7, <1>8, <1>9, <1>10, <1>11, <1>12, <1>14,
     <1>15, <1>16, <1>17, <1>18
  DEF Next, SyncStep

-----------------------------------------------------------------------------
LEMMA HistoryNext == Types /\ HistoryType /\ [Next]_vars => HistoryType'
<1> SUFFICES ASSUME Types, HistoryType, [Next]_vars PROVE HistoryType'
  OBVIOUS
<1>1. CASE UNCHANGED history
  BY <1>1 DEF HistoryType, history
<1>2. CASE \/ \E i \in Ids, r \in Revs : Queue(i, r)
           \/ Seed \/ Record \/ Stop
  BY <1>2 DEF HistoryType, Queue, Seed, Record, Stop, Catalogued
<1>3. CASE \/ \E i \in Ids : SendRow(i) \/ SendBlock(i) \/ SendBare(i)
           \/ NothingToSend \/ ForgetFts \/ SendWipe \/ SendCount \/ ClearPending \/ BareFails
  BY <1>1, <1>3 DEF NothingToSend, ForgetFts, SendRow, SendBlock, SendBare, SendWipe, SendCount,
                    ClearPending, BareFails
<1>4. CASE \/ \E noDiff, keepPending \in BOOLEAN : SyncQueue(noDiff, keepPending)
           \/ \E noDiff \in BOOLEAN : SyncSource(noDiff)
           \/ RefreshCounts
  BY <1>1, <1>4 DEF SyncQueue, SyncSource, Plan, RefreshCounts
<1>5. CASE UNCHANGED vars
  BY <1>1, <1>5 DEF vars
<1>6. QED
  BY <1>2, <1>3, <1>4, <1>5 DEF Next, SyncStep

LEMMA SyncInit == Init => BareInv /\ FtsInv /\ RowInv /\ OweInv
<1> SUFFICES ASSUME Init PROVE BareInv /\ FtsInv /\ RowInv /\ OweInv
  OBVIOUS
<1>1. /\ phase = "idle" /\ job = NoJob /\ Taken = {} /\ counted = {} /\ pending = {}
      /\ \A i \in Ids : /\ catalog[i] = 0 /\ series[i] = 0 /\ sent[i] = 0 /\ ftsSent[i] = 0
                        /\ index[i] = Unindexed
  BY NoJobFacts DEF Init, Taken
<1>2. Catalogued = {} /\ Listed = {}
  BY <1>1 DEF Catalogued, Listed
<1>3. BareInv
  BY <1>1, CSAssumption DEF BareInv, IndexOnce, Unindexed
<1>4. FtsInv
  BY <1>1, NoJobFacts, CSAssumption DEF FtsInv
<1>5. RowInv
  BY <1>1 DEF RowInv
<1>6. OweInv
  BY <1>1, <1>2, NoJobFacts DEF OweInv, RowHeld, IndexHeld, CountHeld, SentIndexed, SentCounted,
                                Overlooked, Fresh
<1>7. QED
  BY <1>3, <1>4, <1>5, <1>6

(* Each variable keeps its type, and a stage that sends has something to   *)
(* send.                                                                   *)
THEOREM SyncTypeCorrect == Spec => []TypeOK
<1>1. Types /\ JobInv /\ HistoryType => TypeOK
  BY DEF Types, JobInv, HistoryType, TypeOK, Taken
<1>2. Init => HistoryType
  BY DEF Init, HistoryType
<1>3. QED
  BY <1>1, <1>2, TypesInit, JobNext, HistoryNext, PTL DEF Spec

(* No series is in D1's search index twice, and no withheld one is in D1,  *)
(* whatever files were applied twice and wherever a sync ended.            *)
THEOREM SyncIndexOnce == Spec => []IndexOnce
<1>1. BareInv => IndexOnce
  BY DEF BareInv
<1>2. QED
  BY <1>1, TypesInit, SyncInit, JobNext, BareNext, PTL DEF Spec

(* The manifest vouches only for rows and index rows that D1 holds, as     *)
(* long as no row returns to an earlier content.                           *)
THEOREM SyncManifestIsHonest == ASSUME ~Reverts PROVE Spec => []ManifestIsHonest
<1>1. ASSUME Types, FtsInv, RowInv PROVE ManifestIsHonest
  <2>1. ASSUME NEW i \in Catalogued \ Gated, sent[i] = catalog[i] PROVE series[i] = catalog[i]
    BY <1>1, <2>1, SentFacts
  <2>2. QED
    BY <1>1, <2>1 DEF ManifestIsHonest, FtsInv, Catalogued
<1>2. QED
  BY <1>1, TypesInit, SyncInit, JobNext, BareNext, FtsNext, RowNext, PTL DEF Spec

(* Nothing that D1 lacks is forgotten, as long as no row returns to an     *)
(* earlier content: not queued after the read of a queue that was emptied, *)
(* and not vouched for by a seed while D1 lacked it, it is on its way.     *)
THEOREM SyncForgetsNothing == ASSUME ~Reverts PROVE Spec => []NothingForgotten
<1>1. OweInv => NothingForgotten
  BY DEF OweInv, RowHeld, IndexHeld, CountHeld, Overlooked, NothingForgotten, ForgottenOnly
<1>2. QED
  BY <1>1, TypesInit, SyncInit, JobNext, BareNext, FtsNext, RowNext, OweNext, PTL DEF Spec
=============================================================================
