------------------------------ MODULE StateSync ------------------------------
(***************************************************************************)
(* updater/run.py: the round trip of the updater's state.db through R2.    *)
(* Every machine (a CI runner, the desktop) pulls the store, runs units    *)
(* against its local copy, and pushes it back by compare-and-swap on the   *)
(* ETag it recorded at the pull; a push also leaves a dated backup and     *)
(* prunes old ones.                                                        *)
(*                                                                         *)
(* A database is abstracted to the set of runs recorded in it.  R2's ETag  *)
(* of a single-part object is the MD5 of its bytes, so an object stands    *)
(* for its own ETag: equal content, equal ETag.                            *)
(* Kept: every remote call and every local file operation is a step; a     *)
(* process can die between any two; a request can fail, and botocore can   *)
(* re-send a PUT that had already landed.  SQLite's write-ahead log is     *)
(* kept beside the database file, because pull_state must not mix them.    *)
(* Left out: compression, log texts, the AQUEDUCT_ALLOW_SHRINK override    *)
(* (taken as unset) and the state after T0, when both steps are refused.   *)
(***************************************************************************)
EXTENDS Integers, FiniteSets

CONSTANTS
    Machines,   \* the machines that write the store
    Ephemeral,  \* the machines that are replaced by a fresh one: CI runners
    Runs,       \* the runs that ever get recorded; each is recorded once
    Floor,      \* a database with fewer runs is implausibly small (R407)
    MayLose,    \* TRUE: a state.db may be lost or moved away
    MayStopHalf \* TRUE: a pull may end between its set-aside and its replace

ASSUME SSAssumption == /\ Ephemeral \subseteq Machines
                       /\ Floor \in Nat
                       /\ MayLose \in BOOLEAN /\ MayStopHalf \in BOOLEAN

VARIABLES
    remote,     \* the object _aqueduct/state.db.zst: NoObject or [runs]
    etag,       \* etag[m]: the content of m's .state_etag, NoObject if none
    db,         \* db[m]: m's state.db: NoObject if there is no file
    wal,        \* wal[m]: the runs that are only in m's write-ahead log
    walOf,      \* walOf[m]: the database file that log was written against
    open,       \* open[m]: does an updater process hold m's state.db open?
    pc,         \* pc[m]: where m's pull_state or push_state stands
    seen,       \* seen[m]: the remote ETag that step read first
    body,       \* body[m]: the bytes it fetched, or the snapshot it sends
    landed,     \* landed[m]: has a PUT of m's current push committed?
    unvouched,  \* history: the pushes whose snapshot is not of the database,
                \* or not against the store, that their shrink guard measured
    promised    \* history: the runs of every push that exited 0

remoteVars == <<remote, promised>>
localVars  == <<etag, db, wal, walOf, open>>
stepVars   == <<pc, seen, body, landed, unvouched>>
vars == <<remoteVars, localVars, stepVars>>

NoObject == [there |-> FALSE, runs |-> {}]
Object(S) == [there |-> TRUE, runs |-> S]
Objects == [there : BOOLEAN, runs : SUBSET Runs]

(* What a connection to m's state.db reads: the file and its log.  Without *)
(* a file it creates an empty one and deletes a log that was left behind.  *)
Local(m) == IF db[m].there THEN db[m].runs \cup wal[m] ELSE {}

(* Substantial, as the shrink guard takes it (R407).                       *)
Ample(S) == Cardinality(S) >= Floor

PullPCs == {"get", "head", "stage", "aside", "replace", "pulled"}
PushPCs == {"guard", "vacuum", "put", "resend", "refused", "ask",
            "landed", "tail"}
PCs == {"idle"} \cup PullPCs \cup PushPCs

Init == /\ remote = NoObject
        /\ etag = [m \in Machines |-> NoObject]
        /\ db = [m \in Machines |-> NoObject]
        /\ wal = [m \in Machines |-> {}]
        /\ walOf = [m \in Machines |-> NoObject]
        /\ open = [m \in Machines |-> FALSE]
        /\ pc = [m \in Machines |-> "idle"]
        /\ seen = [m \in Machines |-> NoObject]
        /\ body = [m \in Machines |-> NoObject]
        /\ landed = [m \in Machines |-> FALSE]
        /\ unvouched = {}
        /\ promised = {}

DropLog(m) == /\ wal' = [wal EXCEPT ![m] = {}]
              /\ walOf' = [walOf EXCEPT ![m] = NoObject]

(* The step goes on with what it holds, or ends and forgets it.            *)
Goto(m, where) == /\ pc' = [pc EXCEPT ![m] = where]
                  /\ UNCHANGED <<seen, body, landed, unvouched>>

Exit(m) == /\ pc' = [pc EXCEPT ![m] = "idle"]
           /\ seen' = [seen EXCEPT ![m] = NoObject]
           /\ body' = [body EXCEPT ![m] = NoObject]
           /\ landed' = [landed EXCEPT ![m] = FALSE]
           /\ unvouched' = unvouched \ {m}

-----------------------------------------------------------------------------
(* The updater process between the two steps.                              *)

(* Opening creates a missing state.db; SQLite deletes a log left beside a  *)
(* database file that does not exist.                                      *)
OpenDb(m) == /\ ~open[m] /\ pc[m] \notin {"aside", "replace"}
             /\ open' = [open EXCEPT ![m] = TRUE]
             /\ db' = [db EXCEPT ![m] = Object(@.runs)]
             /\ \/ db[m].there /\ UNCHANGED <<wal, walOf>>
                \/ ~db[m].there /\ DropLog(m)
             /\ UNCHANGED <<etag, remoteVars, stepVars>>

(* One unit's run is committed: it is in the log until a checkpoint.       *)
CommitRun(m) == /\ open[m]
                /\ \E r \in Runs \ (remote.runs \cup promised) :
                     /\ \A n \in Machines : r \notin Local(n) \cup body[n].runs
                     /\ wal' = [wal EXCEPT ![m] = @ \cup {r}]
                /\ walOf' = [walOf EXCEPT ![m] = db[m]]
                /\ UNCHANGED <<etag, db, open, remoteVars, stepVars>>

(* The last connection closes: SQLite checkpoints the log and removes it.  *)
Checkpoint(m) == /\ db' = [db EXCEPT ![m] = Object(Local(m))]
                 /\ DropLog(m)

CloseDb(m) == /\ open[m]
              /\ open' = [open EXCEPT ![m] = FALSE]
              /\ Checkpoint(m)
              /\ UNCHANGED <<etag, remoteVars, stepVars>>

(* The updater is killed: the log stays beside the database.               *)
KillRun(m) == /\ open[m]
              /\ open' = [open EXCEPT ![m] = FALSE]
              /\ UNCHANGED <<etag, db, wal, walOf, remoteVars, stepVars>>

(* Variant of KillStep: the step is never taken up again.                  *)
KillStepForGood(m) == /\ pc[m] # "idle"
                      /\ Goto(m, "dead")
                      /\ UNCHANGED <<remoteVars, localVars>>

(* pull_state or push_state dies, or a call it makes raises: what it held  *)
(* in memory is gone, every file stays.  A pull that ends here between its *)
(* set-aside and its replace leaves the machine without a state.db.        *)
KillStep(m) == /\ pc[m] # "idle"
               /\ pc[m] \in {"aside", "replace"} => MayStopHalf
               /\ Exit(m)
               /\ UNCHANGED <<remoteVars, localVars>>

(* A CI job starts on a fresh runner: nothing local survives.              *)
FreshRunner(m) == /\ m \in Ephemeral /\ pc[m] = "idle" /\ ~open[m]
                  /\ etag' = [etag EXCEPT ![m] = NoObject]
                  /\ db' = [db EXCEPT ![m] = NoObject]
                  /\ DropLog(m)
                  /\ UNCHANGED <<open, remoteVars, stepVars>>

(* state.db is lost or moved away (the R407 accident), also in the middle  *)
(* of a pull or a push; its log may stay behind.  An updater that has the  *)
(* file open keeps it there.                                               *)
LoseDb(m) == /\ MayLose /\ ~open[m] /\ db[m].there
             /\ db' = [db EXCEPT ![m] = NoObject]
             /\ unvouched' = IF pc[m] = "vacuum" THEN unvouched \cup {m} ELSE unvouched
             /\ UNCHANGED <<etag, wal, walOf, open, remoteVars, pc, seen, body, landed>>

-----------------------------------------------------------------------------
(* pull_state() *)

(* etag_before *)
PullStart(m) == /\ pc[m] = "idle"
                /\ pc' = [pc EXCEPT ![m] = "get"]
                /\ seen' = [seen EXCEPT ![m] = remote]
                /\ UNCHANGED <<body, landed, unvouched, remoteVars, localVars>>

(* The GET; a missing object ends the step.                                *)
PullGet(m) == /\ pc[m] = "get"
              /\ \/ /\ remote.there
                    /\ pc' = [pc EXCEPT ![m] = "head"]
                    /\ body' = [body EXCEPT ![m] = remote]
                    /\ UNCHANGED <<seen, landed, unvouched>>
                 \/ ~remote.there /\ Exit(m)
              /\ UNCHANGED <<remoteVars, localVars>>

(* etag_after: an object that moved during the download ends the step.     *)
PullHead(m) == /\ pc[m] = "head"
               /\ \/ remote = seen[m] /\ Goto(m, "stage")
                  \/ remote # seen[m] /\ Exit(m)
               /\ UNCHANGED <<remoteVars, localVars>>

(* Variant of PullStage: no set-aside, the log stays beside the new file.  *)
PullStageInPlace(m) == /\ pc[m] = "stage"
                       /\ \/ open[m] /\ Exit(m)
                          \/ ~open[m] /\ Goto(m, "replace")
                       /\ UNCHANGED <<remoteVars, localVars>>

(* With a log beside state.db the database is set aside first.  A state.db *)
(* that another process holds open cannot be moved: the step ends.         *)
PullStage(m) ==
    /\ pc[m] = "stage"
    /\ \/ open[m] /\ Exit(m) /\ UNCHANGED db
       \/ /\ ~open[m] /\ wal[m] = {}
          /\ Goto(m, "replace")
          /\ UNCHANGED db
       \/ /\ ~open[m] /\ wal[m] # {}
          /\ db' = [db EXCEPT ![m] = NoObject]
          /\ Goto(m, "aside")
    /\ UNCHANGED <<etag, wal, walOf, open, remoteVars>>

(* Then its log.                                                           *)
PullAsideLog(m) == /\ pc[m] = "aside"
                   /\ DropLog(m)
                   /\ Goto(m, "replace")
                   /\ UNCHANGED <<etag, db, open, remoteVars>>

(* os.replace(tmp, state.db)                                               *)
PullReplace(m) == /\ pc[m] = "replace"
                  /\ db' = [db EXCEPT ![m] = body[m]]
                  /\ Goto(m, "pulled")
                  /\ UNCHANGED <<etag, wal, walOf, open, remoteVars>>

(* Variant of PullRecord: the remote's ETag of the moment is recorded.     *)
PullRecordLatest(m) == /\ pc[m] = "pulled"
                       /\ etag' = [etag EXCEPT ![m] = remote]
                       /\ Exit(m)
                       /\ UNCHANGED <<db, wal, walOf, open, remoteVars>>

(* _record_etag(etag_after)                                                *)
PullRecord(m) == /\ pc[m] = "pulled"
                 /\ etag' = [etag EXCEPT ![m] = seen[m]]
                 /\ Exit(m)
                 /\ UNCHANGED <<db, wal, walOf, open, remoteVars>>

-----------------------------------------------------------------------------
(* push_state() *)

(* The early compare; on a mismatch the step ends without a change.        *)
PushStart(m) == /\ pc[m] = "idle" /\ db[m].there
                /\ remote = etag[m]
                /\ pc' = [pc EXCEPT ![m] = "guard"]
                /\ seen' = [seen EXCEPT ![m] = remote]
                /\ UNCHANGED <<body, landed, unvouched, remoteVars, localVars>>

(* Variant of Shrinks: no shrink guard.                                    *)
NeverShrinks(m) == FALSE

(* The R407 shrink guard asks the remote and the local copy again; for a   *)
(* substantial remote a local copy that cannot be read is refused as well. *)
Shrinks(m) == Ample(remote.runs) /\ ~(db[m].there /\ Ample(Local(m)))

PushGuard(m) == /\ pc[m] = "guard"
                /\ \/ Shrinks(m) /\ Exit(m)
                   \/ /\ ~Shrinks(m)
                      /\ pc' = [pc EXCEPT ![m] = "vacuum"]
                      /\ unvouched' = unvouched \cup {n \in {m} : remote # seen[n]}
                      /\ UNCHANGED <<seen, body, landed>>
                /\ UNCHANGED <<remoteVars, localVars>>

(* VACUUM INTO: a consistent snapshot of what there is by then, which need *)
(* not be what the guard measured.  Closing that connection checkpoints    *)
(* the log unless an updater is connected too.                             *)
PushVacuum(m) == /\ pc[m] = "vacuum"
                 /\ pc' = [pc EXCEPT ![m] = "put"]
                 /\ body' = [body EXCEPT ![m] = Object(Local(m))]
                 /\ \/ open[m] /\ UNCHANGED <<db, wal, walOf>>
                    \/ ~open[m] /\ Checkpoint(m)
                 /\ UNCHANGED <<etag, open, seen, landed, unvouched, remoteVars>>

(* Variant of PutLands: an unconditional put_atomic.                       *)
PutAnyway(m) == /\ pc[m] \in {"put", "resend"}
                /\ remote' = body[m]
                /\ landed' = [landed EXCEPT ![m] = TRUE]
                /\ \E where \in {"landed", "ask", "resend"} : pc' = [pc EXCEPT ![m] = where]
                /\ UNCHANGED <<promised, seen, body, unvouched, localVars>>

(* The conditional PUT commits.  Its answer carries the ETag, or none, or  *)
(* is lost, and then botocore sends the same request again.                *)
PutLands(m) == /\ pc[m] \in {"put", "resend"}
               /\ remote = seen[m]
               /\ remote' = body[m]
               /\ landed' = [landed EXCEPT ![m] = TRUE]
               /\ \E where \in {"landed", "ask", "resend"} : pc' = [pc EXCEPT ![m] = where]
               /\ UNCHANGED <<promised, seen, body, unvouched, localVars>>

(* 412: the remote is no longer the object the condition names.            *)
PutRefused(m) == /\ pc[m] \in {"put", "resend"}
                 /\ remote # seen[m]
                 /\ Goto(m, "refused")
                 /\ UNCHANGED <<remoteVars, localVars>>

(* After the 412: our own bytes there mean an earlier attempt had landed.  *)
PushOurs(m) == /\ pc[m] = "refused"
               /\ remote = body[m]
               /\ Goto(m, "landed")
               /\ UNCHANGED <<remoteVars, localVars>>

(* Variant of PushRefused: the 412 is taken for our own PUT, exit 0.       *)
RefusedIsSaved(m) == /\ pc[m] = "refused"
                     /\ promised' = promised \cup body[m].runs
                     /\ Exit(m)
                     /\ UNCHANGED <<remote, localVars>>

(* Anything else, or no answer to the HEAD: another writer won, exit 2.    *)
PushRefused(m) == /\ pc[m] = "refused"
                  /\ Exit(m)
                  /\ UNCHANGED <<remoteVars, localVars>>

(* The PUT answered without an ETag: ask, and refuse another writer's.     *)
PushAsk(m) == /\ pc[m] = "ask"
              /\ \/ remote = body[m] /\ Goto(m, "landed")
                 \/ remote # body[m] /\ Exit(m)
              /\ UNCHANGED <<remoteVars, localVars>>

(* _record_etag(new_etag)                                                  *)
PushRecord(m) == /\ pc[m] = "landed"
                 /\ etag' = [etag EXCEPT ![m] = body[m]]
                 /\ Goto(m, "tail")
                 /\ UNCHANGED <<db, wal, walOf, open, remoteVars>>

(* The dated backup and its retention (module BackupRetention), exit 0.    *)
PushDone(m) == /\ pc[m] = "tail"
               /\ promised' = promised \cup body[m].runs
               /\ Exit(m)
               /\ UNCHANGED <<remote, localVars>>

-----------------------------------------------------------------------------
Updater(m) == OpenDb(m) \/ CommitRun(m) \/ CloseDb(m) \/ KillRun(m)

Pull(m) == \/ PullStart(m) \/ PullGet(m) \/ PullHead(m) \/ PullStage(m)
           \/ PullAsideLog(m) \/ PullReplace(m) \/ PullRecord(m)

Push(m) == \/ PushStart(m) \/ PushGuard(m) \/ PushVacuum(m)
           \/ PutLands(m) \/ PutRefused(m) \/ PushOurs(m) \/ PushRefused(m)
           \/ PushAsk(m) \/ PushRecord(m) \/ PushDone(m)

Next == \E m \in Machines : \/ Updater(m) \/ Pull(m) \/ Push(m)
                            \/ KillStep(m) \/ FreshRunner(m) \/ LoseDb(m)

Spec == Init /\ [][Next]_vars

-----------------------------------------------------------------------------
(* Each variable keeps its type.                                           *)
TypeOK == /\ remote \in Objects
          /\ etag \in [Machines -> Objects]
          /\ db \in [Machines -> Objects]
          /\ wal \in [Machines -> SUBSET Runs]
          /\ walOf \in [Machines -> Objects]
          /\ open \in [Machines -> BOOLEAN]
          /\ pc \in [Machines -> PCs]
          /\ seen \in [Machines -> Objects]
          /\ body \in [Machines -> Objects]
          /\ landed \in [Machines -> BOOLEAN]
          /\ unvouched \subseteq Machines
          /\ promised \subseteq Runs

(* The recorded ETag never names an object newer than the local copy:      *)
(* every run in the object it names is in state.db or its log, so a push   *)
(* that passes the compare-and-swap cannot drop one.                       *)
EtagIsCovered == \A m \in Machines :
    pc[m] \notin {"aside", "replace"} => etag[m].runs \subseteq Local(m)

(* A log is only ever beside the database it was written against, never    *)
(* beside a freshly pulled one (the "Rowid out of order" corruption R407). *)
NoForeignLog == \A m \in Machines :
    wal[m] # {} /\ db[m].there => walOf[m] = db[m]

(* No push replaces the shared store by one that lacks a run it held.      *)
NoLostUpdate == [][remote.runs \subseteq remote'.runs]_vars

(* Whatever happens to a local state.db, and whenever: the only push that  *)
(* can turn a substantial store into an implausibly small one is a push    *)
(* whose state.db vanished between its shrink guard and its snapshot, or   *)
(* whose guard looked at another object than the one its PUT replaces.     *)
NoWipe == [][Ample(remote.runs) =>
               Ample(remote'.runs) \/ \E m \in unvouched : PutLands(m)]_vars

(* What run.py:366-370 says of the guard: a push of a state.db that is     *)
(* lost or moved does not wipe the store.                                  *)
NoWipeAtAll == [][Ample(remote.runs) => Ample(remote'.runs)]_vars

(* Exit 2 means that this push wrote nothing.                              *)
RefusalWroteNothing == [][\A m \in Machines : PushRefused(m) => ~landed[m]]_vars

(* The runs in a log leave it only for the database file, for _superseded  *)
(* with the pull that puts them there, or with the runner they were on.    *)
LogIsKept == [][\A m \in Machines :
    wal[m] \subseteq wal'[m] \cup db'[m].runs \/ PullAsideLog(m) \/ FreshRunner(m)]_vars

(* The round trip implements the register its users rely on.               *)
Register == INSTANCE StateRegister WITH stored <- remote.runs
ImplementsRegister == Register!Spec
=============================================================================
