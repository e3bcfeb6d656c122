----------------------------- MODULE CatalogSync -----------------------------
(***************************************************************************)
(* core/sync_catalog_d1.py: catalogue rows on their way to the serving     *)
(* database, Cloudflare D1.                                                *)
(*                                                                         *)
(* The updater appends the id of every CSV it derives to a pending file.   *)
(* The sync reads the file, looks the rows up in the local catalogue,      *)
(* drops those a local manifest says D1 already holds, and sends the rest  *)
(* as SQL files: rows, search-index rows, and the source's row count.      *)
(* Then it empties the pending file and records what it sent.  A whole     *)
(* source may be sent instead (--source); its index is then rebuilt by one *)
(* range DELETE followed by files of bare INSERTs.                         *)
(*                                                                         *)
(* A file is one transaction in D1.  It may commit although the client is  *)
(* told that it failed, and it is then sent again when that is safe.       *)
(*                                                                         *)
(* A row is the number of its revision, 0 where there is none; TitleOf     *)
(* names the title (and geography) of a revision, all the index holds.     *)
(* A file holds one id here: files of more ids only do several such steps  *)
(* at once.                                                                *)
(*                                                                         *)
(* Left out: the emitted text and its replay in memory, which checks it;   *)
(* dry runs, which change nothing; the second database of CATALOG_SHARD_FOR *)
(* and manifests written before they held index hashes; rows that leave    *)
(* the catalogue.                                                          *)
(***************************************************************************)
EXTENDS Naturals, FiniteSets

CONSTANTS
    Ids,       \* the series
    Source,    \* those of the source that --source names
    Gated,     \* those of sources the worker's denylist withholds
    MaxRev,    \* bound: revisions of a catalogue row
    TitleOf,   \* TitleOf[i]: the title of each revision of i
    Reverts    \* TRUE: a row may return to an earlier content

Revs   == 0..MaxRev
Titles == 1..MaxRev

ASSUME CSAssumption ==
    /\ Source \subseteq Ids /\ Gated \subseteq Ids
    /\ MaxRev \in Nat /\ TitleOf \in [Ids -> [Titles -> Titles]]
    /\ Reverts \in BOOLEAN

VARIABLES
    catalog,  \* catalog[i]: the revision of the local row
    pending,  \* the ids in pending_catalog_sync.txt
    series,   \* series[i]: the revision of the row in D1
    index,    \* index[i]: how many search-index rows D1 holds, and their title
    counted,  \* the ids D1's count of the source was taken over
    sent,     \* manifest: the revision recorded as sent
    ftsSent,  \* manifest: the title recorded as indexed, 0 for unknown
    torn,     \* a range DELETE committed, and no rebuild has ended since
    phase,    \* where the sync is
    todo,     \* the ids of the stage that are still to be sent
    job,      \* what the sync read and decided
    unread,   \* history: ids queued after a sync read the queue that it has
              \* emptied, or will empty, and neither queued nor sent since
    vouched   \* history: ids seeded while D1 lacked their index row or their
              \* count, and not sent since

remote  == <<series, index, counted, torn>>
record  == <<sent, ftsSent>>
history == <<unread, vouched>>
vars    == <<catalog, pending, remote, record, phase, todo, job, history>>

Phases == {"idle", "nothing", "forget", "rows", "wipe", "index", "count",
           "clear", "record"}
Jobs   == [take : [Ids -> Revs], fts : SUBSET Ids, whole : BOOLEAN,
           clears : BOOLEAN, restarted : BOOLEAN]
NoJob  == [take |-> [i \in Ids |-> 0], fts |-> {}, whole |-> FALSE,
           clears |-> FALSE, restarted |-> FALSE]

Unindexed   == [n |-> 0, t |-> 0]
Entry(i, r) == IF r = 0 THEN Unindexed ELSE [n |-> 1, t |-> TitleOf[i][r]]
Catalogued  == {i \in Ids : catalog[i] # 0}
Listed      == {i \in Ids : series[i] # 0}

Init == /\ catalog = [i \in Ids |-> 0] /\ pending = {}
        /\ series = [i \in Ids |-> 0] /\ index = [i \in Ids |-> Unindexed]
        /\ counted = {} /\ torn = FALSE
        /\ sent = [i \in Ids |-> 0] /\ ftsSent = [i \in Ids |-> 0]
        /\ phase = "idle" /\ todo = {} /\ job = NoJob
        /\ unread = {} /\ vouched = {}

Idle == phase' = "idle" /\ todo' = {} /\ job' = NoJob

-----------------------------------------------------------------------------
(* The updater derived i's CSV and appends i; its catalogue row is new,    *)
(* changed, unchanged, or not there.  No lock keeps it from a queue that a *)
(* running sync has read and will empty: then the sync has missed it,      *)
(* unless it had read i with that row.                                     *)
Missed(i, r) == /\ job.clears /\ phase # "record"
                /\ r # 0 /\ (i \notin pending \/ r # catalog[i])

Queue(i, r) == /\ Reverts \/ r >= catalog[i]
               /\ r # 0 \/ catalog[i] = 0
               /\ catalog' = [catalog EXCEPT ![i] = r]
               /\ pending' = pending \cup {i}
               /\ unread' = IF Missed(i, r) THEN unread \cup {i}
                            ELSE IF job.clears THEN unread ELSE unread \ {i}
               /\ UNCHANGED <<remote, record, phase, todo, job, vouched>>

(* --seed-manifest: every local row is recorded as sent.  "Correct exactly *)
(* when D1 already holds them": the rows were measured, the index and the  *)
(* counts were not.                                                        *)
Seed == /\ phase = "idle"
        /\ \A i \in Catalogued \ Gated : series[i] = catalog[i]
        /\ sent' = catalog /\ ftsSent' = [i \in Ids |-> 0]
        /\ vouched' = {i \in Catalogued \ Gated : i \notin counted \/ index[i] # Entry(i, catalog[i])}
        /\ UNCHANGED <<catalog, pending, remote, phase, todo, job, unread>>

(* --refresh-counts: the count of a source is taken again.                 *)
RefreshCounts == /\ phase = "idle" /\ Source \cap Gated = {}
                 /\ counted' = Listed
                 /\ UNCHANGED <<catalog, pending, series, index, torn, record,
                                phase, todo, job, history>>

-----------------------------------------------------------------------------
(* Manifest.split: the rows recorded as they are now.                      *)
Unchanged(rows) == {i \in rows : sent[i] = catalog[i]}

(* Manifest.fts_current: the index rows recorded as they would be written. *)
FtsCurrent(rows) == {i \in rows : ftsSent[i] = TitleOf[i][catalog[i]]}

(* Variant: a range DELETE for any --source run.                           *)
WholeIfSource(source, rows, skipped) == source /\ rows # {}

(* A range DELETE is safe only when every row of the source follows it.    *)
Whole(source, rows, skipped) == source /\ rows # {} /\ skipped = {}

(* main(), up to the send: the rows of ids, without the gated ones, then   *)
(* the diff.                                                               *)
Plan(ids, source, noDiff, clears) ==
    LET rows    == (ids \cap Catalogued) \ Gated
        skipped == IF noDiff THEN {} ELSE Unchanged(rows)
        send    == rows \ skipped
        whole   == Whole(source, send, skipped)
        keep    == IF noDiff \/ whole THEN {} ELSE FtsCurrent(send)
    IN  /\ phase = "idle" /\ rows # {}
        /\ phase' = IF send = {} THEN "nothing" ELSE "forget"
        /\ todo'  = send
        /\ job'   = [take      |-> [i \in Ids |-> IF i \in send THEN catalog[i] ELSE 0],
                     fts       |-> send \ keep, whole |-> whole,
                     clears    |-> clears, restarted |-> FALSE]
        /\ UNCHANGED <<catalog, pending, remote, record, history>>

SyncQueue(noDiff, keepPending) == Plan(pending, FALSE, noDiff, ~keepPending)

SyncSource(noDiff) == /\ Source \cap Gated = {}
                      /\ Plan(Source, TRUE, noDiff, FALSE)

(* All rows are unchanged: the queue is emptied, and nothing is sent.      *)
NothingToSend == /\ phase = "nothing"
                 /\ pending' = IF job.clears THEN {} ELSE pending
                 /\ Idle
                 /\ UNCHANGED <<catalog, remote, record, history>>

(* Variant: the queue is emptied before the send.                          *)
ForgetAndClear == /\ phase = "forget" /\ phase' = "rows"
                  /\ ftsSent' = [i \in Ids |-> IF i \in job.fts THEN 0 ELSE ftsSent[i]]
                  /\ pending' = IF job.clears THEN {} ELSE pending
                  /\ UNCHANGED <<catalog, remote, sent, todo, job, history>>

(* Manifest.forget_fts, before the first file is sent.                     *)
ForgetFts == /\ phase = "forget" /\ phase' = "rows"
             /\ ftsSent' = [i \in Ids |-> IF i \in job.fts THEN 0 ELSE ftsSent[i]]
             /\ UNCHANGED <<catalog, pending, remote, sent, todo, job, history>>

-----------------------------------------------------------------------------
(* execute_plans.  The file of i is done: the next one, or the next stage. *)
Done(i, stage, ids) == IF todo = {i} THEN phase' = stage /\ todo' = ids
                                     ELSE phase' = phase /\ todo' = todo \ {i}

(* The file committed but the client is told that it failed; it is safe to *)
(* apply twice, so it is sent again.                                       *)
AnswerLost == UNCHANGED <<phase, todo, job>>

(* Variant: the index stage is entered whatever is left to write.          *)
AlwaysIndex == IF job.whole THEN "wipe" ELSE "index"

(* Where a sync goes after the last row: an index that is current already  *)
(* is left alone.                                                          *)
AfterRows == IF job.whole THEN "wipe" ELSE IF job.fts = {} THEN "count" ELSE "index"

SendRow(i) ==
    /\ phase = "rows" /\ i \in todo
    /\ series' = [series EXCEPT ![i] = job.take[i]]
    /\ \/ Done(i, AfterRows, IF job.whole THEN {} ELSE job.fts) /\ UNCHANGED job
       \/ AnswerLost
    /\ UNCHANGED <<catalog, pending, index, counted, torn, record, history>>

(* The file with the range DELETE.                                         *)
SendWipe ==
    /\ phase = "wipe"
    /\ index' = [i \in Ids |-> IF i \in Source THEN Unindexed ELSE index[i]]
    /\ torn' = TRUE
    /\ \/ phase' = "index" /\ todo' = job.fts /\ UNCHANGED job
       \/ AnswerLost
    /\ UNCHANGED <<catalog, pending, series, counted, record, history>>

(* A block: the DELETE of its ids and their INSERTs, in one file.          *)
SendBlock(i) ==
    /\ phase = "index" /\ ~job.whole /\ i \in todo
    /\ index' = [index EXCEPT ![i] = Entry(i, job.take[i])]
    /\ \/ Done(i, "count", {}) /\ UNCHANGED job
       \/ AnswerLost
    /\ UNCHANGED <<catalog, pending, series, counted, torn, record, history>>

(* A file of bare INSERTs after the range DELETE is sent once.  If it      *)
(* fails, the rebuild starts once more from the DELETE, then gives up.     *)
Restart == IF job.restarted THEN Idle
           ELSE /\ phase' = "wipe" /\ todo' = {}
                /\ job' = [job EXCEPT !.restarted = TRUE]

InsertBare(i) == index' = [index EXCEPT
                     ![i] = [n |-> @.n + 1, t |-> TitleOf[i][job.take[i]]]]

(* Variant: such a file is sent again like any other.                      *)
SendBareRetried(i) ==
    /\ phase = "index" /\ job.whole /\ i \in todo
    /\ index[i].n < 2 /\ InsertBare(i)
    /\ \/ Done(i, "count", {}) /\ torn' = (todo # {i}) /\ UNCHANGED job
       \/ AnswerLost /\ UNCHANGED torn
    /\ UNCHANGED <<catalog, pending, series, counted, record, history>>

SendBare(i) ==
    /\ phase = "index" /\ job.whole /\ i \in todo
    /\ InsertBare(i)
    /\ \/ Done(i, "count", {}) /\ torn' = (todo # {i}) /\ UNCHANGED job
       \/ Restart /\ UNCHANGED torn
    /\ UNCHANGED <<catalog, pending, series, counted, record, history>>

BareFails == /\ phase = "index" /\ job.whole
             /\ Restart
             /\ UNCHANGED <<catalog, pending, remote, record, history>>

(* The last statement: the source's row count.                             *)
SendCount == /\ phase = "count"
             /\ counted' = Listed
             /\ \/ /\ phase' = IF job.clears THEN "clear" ELSE "record"
                   /\ UNCHANGED <<todo, job>>
                \/ AnswerLost
             /\ UNCHANGED <<catalog, pending, series, index, torn, record, history>>

(* The pending file is truncated, with all that it holds by now.           *)
ClearPending == /\ phase = "clear" /\ phase' = "record"
                /\ pending' = {}
                /\ UNCHANGED <<catalog, remote, record, todo, job, history>>

(* Variant: what the catalogue holds now is recorded, not what was sent.   *)
RecordCurrent ==
    /\ phase = "record"
    /\ sent'    = [i \in Ids |-> IF job.take[i] # 0 THEN catalog[i] ELSE sent[i]]
    /\ ftsSent' = [i \in Ids |-> IF job.take[i] # 0 THEN TitleOf[i][catalog[i]]
                                 ELSE ftsSent[i]]
    /\ unread' = {i \in unread \ pending : job.take[i] # catalog[i]}
    /\ vouched' = {i \in vouched : job.take[i] = 0}
    /\ Idle
    /\ UNCHANGED <<catalog, pending, remote>>

(* Manifest.record, after everything is sent.                              *)
Record ==
    /\ phase = "record"
    /\ sent'    = [i \in Ids |-> IF job.take[i] # 0 THEN job.take[i] ELSE sent[i]]
    /\ ftsSent' = [i \in Ids |-> IF job.take[i] # 0 THEN TitleOf[i][job.take[i]]
                                 ELSE ftsSent[i]]
    /\ unread' = {i \in unread \ pending : job.take[i] # catalog[i]}
    /\ vouched' = {i \in vouched : job.take[i] = 0}
    /\ Idle
    /\ UNCHANGED <<catalog, pending, remote>>

(* The sync ends here: a file fails for good, or the process dies.  A      *)
(* queue that was not emptied keeps what was queued meanwhile.             *)
Stop == /\ phase # "idle"
        /\ Idle
        /\ unread' = unread \ pending
        /\ UNCHANGED <<catalog, pending, remote, record, vouched>>

-----------------------------------------------------------------------------
SyncStep == \/ NothingToSend \/ ForgetFts
            \/ \E i \in Ids : SendRow(i) \/ SendBlock(i) \/ SendBare(i)
            \/ SendWipe \/ SendCount \/ ClearPending \/ Record

Next == \/ \E i \in Ids, r \in Revs : Queue(i, r)
        \/ Seed
        \/ RefreshCounts
        \/ \E noDiff, keepPending \in BOOLEAN : SyncQueue(noDiff, keepPending)
        \/ \E noDiff \in BOOLEAN : SyncSource(noDiff)
        \/ SyncStep
        \/ BareFails
        \/ Stop

Spec == Init /\ [][Next]_vars

(* A sync takes steps until it ends, the queue is synced again and again,  *)
(* and the outages and kills that end a sync early are over one day.       *)
FairSpec == /\ Spec
            /\ WF_vars(SyncStep) /\ SF_vars(SyncQueue(FALSE, FALSE))
            /\ <>[][~Stop]_vars

-----------------------------------------------------------------------------
(* Each variable keeps its type, and a stage that sends has something left *)
(* to send, of what the sync took.                                         *)
TypeOK == /\ catalog \in [Ids -> Revs] /\ pending \subseteq Ids
          /\ series \in [Ids -> Revs]
          /\ index \in [Ids -> [n : Nat, t : Revs]]
          /\ counted \subseteq Ids /\ torn \in BOOLEAN
          /\ sent \in [Ids -> Revs] /\ ftsSent \in [Ids -> Revs]
          /\ phase \in Phases /\ todo \subseteq Ids /\ job \in Jobs
          /\ unread \subseteq Ids /\ vouched \subseteq Ids
          /\ phase \in {"forget", "rows", "index"} =>
                todo # {} /\ \A i \in todo : job.take[i] # 0

(* No series ever has two rows in the search index, whichever files were   *)
(* sent twice and wherever a sync ended; a withheld source has none.       *)
IndexOnce == \A i \in Ids : /\ index[i].n <= 1
                            /\ i \in Gated => series[i] = 0 /\ index[i].n = 0

(* "A re-send costs money, a false 'already sent' costs correctness": a    *)
(* row the sync would leave out is in D1 as it is, and an index row it     *)
(* would leave alone is there, once, with that title.                      *)
ManifestIsHonest == \A i \in Catalogued \ Gated :
    /\ sent[i] = catalog[i] => series[i] = catalog[i]
    /\ ftsSent[i] # 0 => index[i] = [n |-> 1, t |-> ftsSent[i]]

(* What D1 lacks is on its way, but for the ids of late, which no sync has *)
(* read, and the index rows and counts of seeded, which nobody measured: a *)
(* row's id is queued, an index row's id is queued or the source's rebuild *)
(* is to be run again, as the sync said when it failed, and a row that is  *)
(* not counted is queued.                                                  *)
ForgottenOnly(late, seeded) == \A i \in (Catalogued \ Gated) \ (pending \cup late) :
    /\ series[i] = catalog[i]
    /\ index[i] = Entry(i, catalog[i]) \/ i \in seeded \/ (torn /\ i \in Source)
    /\ i \in Listed => i \in counted \cup seeded

(* The sync loses track of nothing else: a missing row was queued after    *)
(* the read of the queue that was then emptied; a missing index row or     *)
(* count is of such a row, or of one that a seed vouched for unmeasured.   *)
NothingForgotten == ForgottenOnly(unread, vouched)

(* An id queued while the sync runs is not lost when the queue is emptied. *)
AppendsAreKept == ForgottenOnly({}, vouched)

(* A seeded manifest leaves nothing out that D1 lacks.                     *)
SeedIsComplete == ForgottenOnly(unread, {})

(* What was queued is shown: a catalogued id that is in the queue reaches  *)
(* D1, its row and its index row, whatever is queued or synced meanwhile,  *)
(* unless it is queued again under a sync that empties the queue; a torn   *)
(* index waits for its rebuild, a seeded one for the row's next revision.  *)
QueuedIsShown == \A i \in Ids \ Gated :
    i \in pending /\ i \in Catalogued
        ~> \/ i \in unread
           \/ /\ series[i] = catalog[i]
              /\ index[i] = Entry(i, catalog[i]) \/ torn \/ i \in vouched
=============================================================================
