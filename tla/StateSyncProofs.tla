--------------------------- MODULE StateSyncProofs ---------------------------
(***************************************************************************)
(* Proofs about StateSync for any machines, any runs and any floor: types, *)
(* no log beside a foreign database, no wipe of the shared store, and,     *)
(* while no state.db goes missing, no lost update and the refinement of    *)
(* StateRegister.                                                          *)
(***************************************************************************)
EXTENDS StateSync, FiniteSetTheorems, TLAPS

USE DEF DropLog, Checkpoint, remoteVars, localVars, stepVars

(* What the proofs need to know about objects.                             *)
LEMMA ObjectFacts ==
  /\ NoObject \in Objects /\ NoObject.runs = {}
  /\ \A S \in SUBSET Runs : Object(S) \in Objects /\ Object(S).runs = S /\ Object(S).there
  /\ \A o \in Objects : o.runs \in SUBSET Runs
BY DEF NoObject, Object, Objects

(* The initial state satisfies the types.                                  *)
LEMMA TypeInit == Init => TypeOK
BY ObjectFacts DEF Init, TypeOK, PCs

(* Going on or ending keeps the types of what a step holds in memory.      *)
StepTypeOK == /\ pc \in [Machines -> PCs]
              /\ seen \in [Machines -> Objects]
              /\ body \in [Machines -> Objects]
              /\ landed \in [Machines -> BOOLEAN]
              /\ unvouched \subseteq Machines

LEMMA StepTypes ==
  ASSUME StepTypeOK, NEW m \in Machines
  PROVE  /\ Exit(m) => StepTypeOK'
         /\ \A where \in PCs : Goto(m, where) => StepTypeOK'
<1>1. "idle" \in PCs
  BY DEF PCs
<1>2. Exit(m) => StepTypeOK'
  BY <1>1, ObjectFacts DEF StepTypeOK, Exit
<1>3. ASSUME NEW where \in PCs, Goto(m, where) PROVE StepTypeOK'
  BY <1>3 DEF StepTypeOK, Goto
<1>4. QED
  BY <1>2, <1>3

(* Every step keeps the types.                                             *)
LEMMA TypeNext == TypeOK /\ [Next]_vars => TypeOK'
<1> SUFFICES ASSUME TypeOK, [Next]_vars PROVE TypeOK'
  OBVIOUS
<1>0. {"idle", "get", "head", "stage", "aside", "replace", "pulled", "guard", "vacuum",
       "put", "resend", "refused", "ask", "landed", "tail"} \subseteq PCs
  BY DEF PCs, PullPCs, PushPCs
<1> USE <1>0, ObjectFacts DEF TypeOK
<1>1. CASE UNCHANGED vars
  BY <1>1 DEF vars
<1>2. ASSUME NEW m \in Machines, Updater(m) PROVE TypeOK'
  <2>1. CASE OpenDb(m)
    BY <2>1 DEF OpenDb
  <2>2. CASE CommitRun(m)
    BY <2>2 DEF CommitRun
  <2>3. CASE CloseDb(m)
    BY <2>3 DEF CloseDb, Local
  <2>4. CASE KillRun(m)
    BY <2>4 DEF KillRun
  <2>5. QED
    BY <1>2, <2>1, <2>2, <2>3, <2>4 DEF Updater
<1>3. ASSUME NEW m \in Machines, Pull(m) PROVE TypeOK'
  <2>1. CASE PullStart(m)
    BY <2>1 DEF PullStart
  <2>2. CASE PullGet(m)
    BY <2>2, StepTypes DEF PullGet, StepTypeOK
  <2>3. CASE PullHead(m)
    BY <2>3, StepTypes DEF PullHead, StepTypeOK
  <2>4. CASE PullStage(m)
    BY <2>4, StepTypes DEF PullStage, StepTypeOK
  <2>5. CASE PullAsideLog(m)
    BY <2>5, StepTypes DEF PullAsideLog, StepTypeOK
  <2>6. CASE PullReplace(m)
    BY <2>6, StepTypes DEF PullReplace, StepTypeOK
  <2>7. CASE PullRecord(m)
    BY <2>7, StepTypes DEF PullRecord, StepTypeOK
  <2>8. QED
    BY <1>3, <2>1, <2>2, <2>3, <2>4, <2>5, <2>6, <2>7 DEF Pull
<1>4. ASSUME NEW m \in Machines, Push(m) PROVE TypeOK'
  <2>1. CASE PushStart(m)
    BY <2>1 DEF PushStart
  <2>2. CASE PushGuard(m)
    BY <2>2, StepTypes DEF PushGuard, StepTypeOK
  <2>3. CASE PushVacuum(m)
    BY <2>3 DEF PushVacuum, Local
  <2>4. CASE PutLands(m)
    BY <2>4 DEF PutLands
  <2>5. CASE PutRefused(m)
    BY <2>5, StepTypes DEF PutRefused, StepTypeOK
  <2>6. CASE PushOurs(m)
    BY <2>6, StepTypes DEF PushOurs, StepTypeOK
  <2>7. CASE PushRefused(m)
    BY <2>7, StepTypes DEF PushRefused, StepTypeOK
  <2>8. CASE PushAsk(m)
    BY <2>8, StepTypes DEF PushAsk, StepTypeOK
  <2>9. CASE PushRecord(m)
    BY <2>9, StepTypes DEF PushRecord, StepTypeOK
  <2>10. CASE PushDone(m)
    BY <2>10, StepTypes DEF PushDone, StepTypeOK
  <2>11. QED
    BY <1>4, <2>1, <2>2, <2>3, <2>4, <2>5, <2>6, <2>7, <2>8, <2>9, <2>10 DEF Push
<1>5. ASSUME NEW m \in Machines, KillStep(m) \/ FreshRunner(m) \/ LoseDb(m)
      PROVE  TypeOK'
  <2>1. CASE KillStep(m)
    BY <2>1, StepTypes DEF KillStep, StepTypeOK
  <2>2. CASE FreshRunner(m)
    BY <2>2 DEF FreshRunner
  <2>3. CASE LoseDb(m)
    BY <2>3 DEF LoseDb
  <2>4. QED
    BY <1>5, <2>1, <2>2, <2>3
<1>6. QED
  BY <1>1, <1>2, <1>3, <1>4, <1>5 DEF Next

(* Every variable keeps its type in every reachable state.                 *)
THEOREM TypeCorrect == Spec => []TypeOK
BY TypeInit, TypeNext, PTL DEF Spec

-----------------------------------------------------------------------------
(* Between a set-aside and the replace nobody has the database open, and   *)
(* at the replace there is no log left for the new file to inherit.        *)
ReplaceIsClean == \A m \in Machines :
    /\ pc[m] \in {"aside", "replace"} => ~open[m]
    /\ pc[m] = "replace" => wal[m] = {}

(* The inductive invariant behind NoForeignLog.                            *)
LogInv == TypeOK /\ ReplaceIsClean /\ NoForeignLog

(* A step of m that leaves every file alone may only stop, or move between *)
(* places where the log does not matter.                                   *)
LEMMA LogQuiet ==
  ASSUME LogInv, NEW m \in Machines, NEW where \in PCs, pc' = [pc EXCEPT ![m] = where],
         UNCHANGED <<db, wal, walOf, open>>,
         where \notin {"aside", "replace"} \/ (where = "replace" /\ ~open[m] /\ wal[m] = {})
  PROVE  ReplaceIsClean' /\ NoForeignLog'
BY DEF LogInv, TypeOK, ReplaceIsClean, NoForeignLog

(* The steps of the updater keep the log beside its own database.          *)
LEMMA LogUpdater ==
  ASSUME LogInv, NEW m \in Machines, Updater(m)
  PROVE  ReplaceIsClean' /\ NoForeignLog'
<1> USE ObjectFacts DEF LogInv, TypeOK, ReplaceIsClean, NoForeignLog
<1>1. CASE OpenDb(m)
  <2>1. ~open[m] /\ pc[m] \notin {"aside", "replace"} /\ UNCHANGED pc
    BY <1>1 DEF OpenDb
  <2>2. db' = [db EXCEPT ![m] = Object(db[m].runs)] /\ open' = [open EXCEPT ![m] = TRUE]
    BY <1>1 DEF OpenDb
  <2>3. CASE db[m].there
    <3>1. Object(db[m].runs) = db[m]
      BY <2>3 DEF Object, Objects
    <3>2. UNCHANGED <<wal, walOf>> /\ db' = db
      BY <1>1, <2>2, <2>3, <3>1 DEF OpenDb
    <3>3. QED
      BY <2>1, <2>2, <3>2
  <2>4. CASE ~db[m].there
    BY <1>1, <2>1, <2>2, <2>4 DEF OpenDb
  <2>5. QED
    BY <2>3, <2>4
<1>2. CASE CommitRun(m)
  BY <1>2 DEF CommitRun
<1>3. CASE CloseDb(m)
  BY <1>3 DEF CloseDb
<1>4. CASE KillRun(m)
  BY <1>4 DEF KillRun
<1>5. QED
  BY <1>1, <1>2, <1>3, <1>4 DEF Updater

(* So do those of a pull, which takes the log away before it replaces.     *)
LEMMA LogPull ==
  ASSUME LogInv, NEW m \in Machines, Pull(m)
  PROVE  ReplaceIsClean' /\ NoForeignLog'
<1>0. {"idle", "get", "head", "stage", "replace"} \subseteq PCs
  BY DEF PCs, PullPCs
<1>1. CASE PullStart(m) \/ PullGet(m) \/ PullHead(m) \/ PullRecord(m)
  <2>1. \E where \in {"idle", "get", "head", "stage"} : pc' = [pc EXCEPT ![m] = where]
    BY <1>1 DEF PullStart, PullGet, PullHead, PullRecord, Goto, Exit
  <2>2. UNCHANGED <<db, wal, walOf, open>>
    BY <1>1 DEF PullStart, PullGet, PullHead, PullRecord
  <2>3. QED
    BY <1>0, <2>1, <2>2, LogQuiet
<1>2. CASE PullStage(m)
  <2>1. CASE open[m]
    BY <1>0, <1>2, <2>1, LogQuiet DEF PullStage, Exit
  <2>2. CASE ~open[m] /\ wal[m] = {}
    BY <1>0, <1>2, <2>2, LogQuiet DEF PullStage, Goto
  <2>3. CASE ~open[m] /\ wal[m] # {}
    BY <1>2, <2>3, ObjectFacts DEF PullStage, Goto, LogInv, TypeOK, ReplaceIsClean,
       NoForeignLog, NoObject
  <2>4. QED
    BY <2>1, <2>2, <2>3
<1>3. CASE PullAsideLog(m)
  BY <1>3 DEF PullAsideLog, Goto, LogInv, TypeOK, ReplaceIsClean, NoForeignLog
<1>4. CASE PullReplace(m)
  BY <1>4 DEF PullReplace, Goto, LogInv, TypeOK, ReplaceIsClean, NoForeignLog
<1>5. QED
  BY <1>1, <1>2, <1>3, <1>4 DEF Pull

(* Those of a push touch the files only where the snapshot's connection    *)
(* checkpoints the log.                                                    *)
LEMMA LogPush ==
  ASSUME LogInv, NEW m \in Machines, Push(m)
  PROVE  ReplaceIsClean' /\ NoForeignLog'
<1>0. {"idle", "guard", "vacuum", "put", "resend", "refused", "ask", "landed", "tail"}
         \subseteq PCs
  BY DEF PCs, PushPCs
<1>1. CASE PushVacuum(m)
  <2>1. CASE open[m]
    BY <1>0, <1>1, <2>1, LogQuiet DEF PushVacuum
  <2>2. CASE ~open[m]
    BY <1>1, <2>2 DEF PushVacuum, LogInv, TypeOK, ReplaceIsClean, NoForeignLog
  <2>3. QED
    BY <2>1, <2>2
<1>2. CASE ~PushVacuum(m)
  <2>1. \E where \in {"idle", "guard", "vacuum", "resend", "refused", "ask", "landed", "tail"} :
           pc' = [pc EXCEPT ![m] = where]
    BY <1>2 DEF Push, PushStart, PushGuard, PutLands, PutRefused, PushOurs, PushRefused,
       PushAsk, PushRecord, PushDone, Goto, Exit
  <2>2. UNCHANGED <<db, wal, walOf, open>>
    BY <1>2 DEF Push, PushStart, PushGuard, PutLands, PutRefused, PushOurs, PushRefused,
       PushAsk, PushRecord, PushDone
  <2>3. QED
    BY <1>0, <2>1, <2>2, LogQuiet
<1>3. QED
  BY <1>1, <1>2

(* Every step keeps the invariant, also those that lose a file.            *)
LEMMA LogNext == LogInv /\ [Next]_vars => LogInv'
<1> SUFFICES ASSUME LogInv, [Next]_vars PROVE LogInv'
  OBVIOUS
<1>1. TypeOK'
  BY TypeNext DEF LogInv
<1>2. CASE UNCHANGED vars
  BY <1>1, <1>2 DEF LogInv, ReplaceIsClean, NoForeignLog, vars
<1>3. ASSUME NEW m \in Machines, Updater(m) \/ Pull(m) \/ Push(m) PROVE LogInv'
  BY <1>1, <1>3, LogUpdater, LogPull, LogPush DEF LogInv
<1>4. ASSUME NEW m \in Machines, KillStep(m) PROVE LogInv'
  <2>1. "idle" \in PCs
    BY DEF PCs
  <2>2. QED
    BY <1>1, <1>4, <2>1, LogQuiet DEF KillStep, Exit, LogInv
<1>5. ASSUME NEW m \in Machines, FreshRunner(m) PROVE LogInv'
  BY <1>1, <1>5 DEF FreshRunner, LogInv, TypeOK, ReplaceIsClean, NoForeignLog
<1>6. ASSUME NEW m \in Machines, LoseDb(m) PROVE LogInv'
  BY <1>1, <1>6, ObjectFacts DEF LoseDb, LogInv, TypeOK, ReplaceIsClean, NoForeignLog, NoObject
<1>7. QED
  BY <1>2, <1>3, <1>4, <1>5, <1>6 DEF Next

(* No database is ever beside the log of another one, also when files go   *)
(* missing and pulls stop half way.                                        *)
THEOREM NoForeignLogHolds == Spec => []NoForeignLog
<1>1. Init => LogInv
  BY TypeInit DEF Init, LogInv, ReplaceIsClean, NoForeignLog
<1>2. LogInv => NoForeignLog
  BY DEF LogInv
<1>3. QED
  BY <1>1, <1>2, LogNext, PTL DEF Spec

-----------------------------------------------------------------------------
(* Where a log may be: never beside a missing database, except in the      *)
(* middle of a set-aside, and never beside one that is about to be         *)
(* replaced; nothing opens the database in between.                        *)
LogFacts == \A m \in Machines :
    /\ ~db[m].there /\ pc[m] # "aside" => wal[m] = {}
    /\ ~db[m].there => db[m].runs = {}
    /\ pc[m] \in {"guard", "vacuum"} => db[m].there
    /\ open[m] => db[m].there
    /\ pc[m] \in {"aside", "replace"} => ~open[m]
    /\ pc[m] = "replace" => wal[m] = {}

(* What a machine recorded or read of the remote is still in it.           *)
RemoteFacts == \A m \in Machines : /\ etag[m].runs \subseteq remote.runs
                                   /\ seen[m].runs \subseteq remote.runs

(* A download holds everything the recorded ETag and etag_before name, and *)
(* after the replace it is what is on disk.                                *)
PullFacts == \A m \in Machines :
    /\ pc[m] \in {"head", "stage", "aside", "replace", "pulled"} =>
         /\ body[m].there
         /\ etag[m].runs \subseteq body[m].runs /\ seen[m].runs \subseteq body[m].runs
    /\ pc[m] = "pulled" => body[m].runs \subseteq Local(m)

(* A push holds everything the object it will replace names.               *)
PushFacts == \A m \in Machines :
    /\ pc[m] \in {"guard", "vacuum"} => seen[m].runs \subseteq Local(m)
    /\ pc[m] \in {"put", "resend", "refused", "ask", "landed", "tail"} =>
         seen[m].runs \subseteq body[m].runs /\ body[m].runs \subseteq Local(m)
    /\ pc[m] \in {"landed", "tail"} => body[m].runs \subseteq remote.runs

(* The inductive invariant: the local copy covers whatever the next        *)
(* compare-and-swap will be allowed to overwrite.                          *)
SyncInv == /\ TypeOK
           /\ LogFacts
           /\ RemoteFacts
           /\ EtagIsCovered
           /\ PullFacts
           /\ PushFacts
           /\ promised \subseteq remote.runs

(* The initial state satisfies the inductive invariant.                    *)
LEMMA SyncInit == Init => SyncInv
BY TypeInit, ObjectFacts DEF Init, SyncInv, LogFacts, RemoteFacts, EtagIsCovered,
   PullFacts, PushFacts, Local

(* While no state.db goes missing, every step keeps it.                    *)
LEMMA SyncNext ==
  ASSUME ~MayLose, ~MayStopHalf, SyncInv, [Next]_vars
  PROVE  SyncInv'
<1> DEFINE Rest == /\ LogFacts /\ RemoteFacts /\ EtagIsCovered /\ PullFacts /\ PushFacts
                   /\ promised \subseteq remote.runs
<1>1. TypeOK /\ TypeOK'
  BY TypeNext DEF SyncInv
<1> SUFFICES Rest'
  BY <1>1 DEF SyncInv
<1> USE <1>1, ObjectFacts DEF SyncInv, LogFacts, RemoteFacts, EtagIsCovered, PullFacts,
        PushFacts, Local, TypeOK, Goto, Exit
<1>2. CASE UNCHANGED vars
  BY <1>2 DEF vars
<1>3. ASSUME NEW m \in Machines, Updater(m) PROVE Rest'
  <2>1. CASE OpenDb(m)
    <3>1. \A n \in Machines : wal'[n] = wal[n]
      <4>1. db[m].there \/ wal[m] = {}
        BY <2>1 DEF OpenDb
      <4>2. wal' = wal \/ (wal[m] = {} /\ wal' = [wal EXCEPT ![m] = {}])
        BY <2>1, <4>1 DEF OpenDb
      <4>3. QED
        BY <4>2
    <3>2. \A n \in Machines : db'[n].runs = db[n].runs /\ (db[n].there => db'[n].there)
      BY <2>1 DEF OpenDb
    <3>3. db'[m].there /\ pc[m] \notin {"aside", "replace"}
      BY <2>1 DEF OpenDb
    <3>4. \A n \in Machines : n # m => open'[n] = open[n]
      BY <2>1 DEF OpenDb
    <3>5. UNCHANGED <<etag, remoteVars, stepVars>>
      BY <2>1 DEF OpenDb
    <3>6. \A n \in Machines : Local(n)' = Local(n)
      <4>1. ASSUME NEW n \in Machines, n # m PROVE Local(n)' = Local(n)
        <5>1. db'[n] = db[n] /\ wal'[n] = wal[n]
          BY <2>1, <3>1, <4>1 DEF OpenDb
        <5>2. QED
          BY <5>1
      <4>2. Local(m)' = db'[m].runs \cup wal'[m]
        BY <3>3
      <4>3. db[m].runs \cup wal[m] = Local(m)
        <5>1. ~db[m].there => db[m].runs = {} /\ wal[m] = {}
          BY <3>3
        <5>2. QED
          BY <5>1
      <4>4. Local(m)' = Local(m)
        <5>1. db'[m].runs = db[m].runs /\ wal'[m] = wal[m]
          BY <3>1, <3>2
        <5> HIDE DEF Local
        <5>2. QED
          BY <4>2, <4>3, <5>1
      <4>5. QED
        <5> HIDE DEF Local
        <5>1. QED
          BY <4>1, <4>4
    <3>7. LogFacts'
      BY <3>1, <3>2, <3>3, <3>4, <3>5
    <3>8. /\ LogFacts /\ RemoteFacts /\ EtagIsCovered /\ PullFacts /\ PushFacts
          /\ promised \subseteq remote.runs
      OBVIOUS
    <3>9. QED
      <4> HIDE DEF Local, LogFacts
      <4>1. RemoteFacts' /\ promised' \subseteq remote'.runs
        BY <3>5, <3>8
      <4>2. EtagIsCovered'
        BY <3>5, <3>6, <3>8
      <4>3. PullFacts'
        BY <3>5, <3>6, <3>8
      <4>4. PushFacts'
        BY <3>5, <3>6, <3>8
      <4>5. QED
        BY <3>7, <4>1, <4>2, <4>3, <4>4
  <2>2. CASE CommitRun(m)
    BY <2>2 DEF CommitRun
  <2>3. CASE CloseDb(m)
    BY <2>3 DEF CloseDb
  <2>4. CASE KillRun(m)
    BY <2>4 DEF KillRun
  <2>5. QED
    BY <1>3, <2>1, <2>2, <2>3, <2>4 DEF Updater
<1>4. ASSUME NEW m \in Machines, Pull(m) PROVE Rest'
  <2>1. CASE PullStart(m)
    BY <2>1 DEF PullStart
  <2>2. CASE PullGet(m)
    <3>1. CASE remote.there
      BY <2>2, <3>1 DEF PullGet
    <3>2. CASE ~(remote.there)
      <4>1. pc[m] = "get" /\ Exit(m) /\ UNCHANGED <<remoteVars, localVars>>
        BY <2>2, <3>2 DEF PullGet
      <4>2. QED
        BY <4>1
    <3>3. QED
      BY <3>1, <3>2
  <2>3. CASE PullHead(m)
    <3>1. CASE remote = seen[m]
      BY <2>3, <3>1 DEF PullHead
    <3>2. CASE ~(remote = seen[m])
      <4>1. pc[m] = "head" /\ Exit(m) /\ UNCHANGED <<remoteVars, localVars>>
        BY <2>3, <3>2 DEF PullHead
      <4>2. QED
        BY <4>1
    <3>3. QED
      BY <3>1, <3>2
  <2>4. CASE PullStage(m)
    <3>1. /\ pc[m] = "stage" /\ UNCHANGED <<etag, wal, walOf, open, remoteVars>>
      BY <2>4 DEF PullStage
    <3>2. CASE open[m]
      <4>1. Exit(m) /\ UNCHANGED db
        BY <2>4, <3>2 DEF PullStage
      <4>2. QED
        BY <3>1, <4>1
    <3>3. CASE ~open[m] /\ wal[m] = {}
      <4>1. Goto(m, "replace") /\ UNCHANGED db
        BY <2>4, <3>3 DEF PullStage
      <4>2. QED
        BY <3>1, <3>3, <4>1
    <3>4. CASE ~open[m] /\ wal[m] # {}
      <4>1. Goto(m, "aside") /\ db' = [db EXCEPT ![m] = NoObject]
        BY <2>4, <3>4 DEF PullStage
      <4>2. \A n \in Machines : n # m => Local(n)' = Local(n)
        BY <3>1, <4>1
      <4>3. QED
        BY <3>1, <3>4, <4>1, <4>2
    <3>5. QED
      BY <3>2, <3>3, <3>4
  <2>5. CASE PullAsideLog(m)
    BY <2>5 DEF PullAsideLog
  <2>6. CASE PullReplace(m)
    <3>1. /\ pc[m] = "replace" /\ Goto(m, "pulled") /\ db' = [db EXCEPT ![m] = body[m]]
          /\ UNCHANGED <<etag, wal, walOf, open, remoteVars>>
      BY <2>6 DEF PullReplace
    <3>2. body[m].there
      BY <3>1
    <3>3. QED
      BY <3>1, <3>2
  <2>7. CASE PullRecord(m)
    BY <2>7 DEF PullRecord
  <2>8. QED
    BY <1>4, <2>1, <2>2, <2>3, <2>4, <2>5, <2>6, <2>7 DEF Pull
<1>5. ASSUME NEW m \in Machines, Push(m) PROVE Rest'
  <2>1. CASE PushStart(m)
    BY <2>1 DEF PushStart
  <2>2. CASE PushGuard(m)
    <3>1. CASE Shrinks(m)
      <4>1. pc[m] = "guard" /\ Exit(m) /\ UNCHANGED <<remoteVars, localVars>>
        BY <2>2, <3>1 DEF PushGuard
      <4>2. QED
        BY <4>1
    <3>2. CASE ~(Shrinks(m))
      BY <2>2, <3>2, SMTT(30) DEF PushGuard
    <3>3. QED
      BY <3>1, <3>2
  <2>3. CASE PushVacuum(m)
    BY <2>3 DEF PushVacuum
  <2>4. CASE PutLands(m)
    BY <2>4 DEF PutLands
  <2>5. CASE PutRefused(m)
    BY <2>5 DEF PutRefused
  <2>6. CASE PushOurs(m)
    BY <2>6 DEF PushOurs
  <2>7. CASE PushRefused(m)
    BY <2>7 DEF PushRefused
  <2>8. CASE PushAsk(m)
    <3>1. CASE remote = body[m]
      BY <2>8, <3>1 DEF PushAsk
    <3>2. CASE ~(remote = body[m])
      <4>1. pc[m] = "ask" /\ Exit(m) /\ UNCHANGED <<remoteVars, localVars>>
        BY <2>8, <3>2 DEF PushAsk
      <4>2. QED
        BY <4>1
    <3>3. QED
      BY <3>1, <3>2
  <2>9. CASE PushRecord(m)
    BY <2>9 DEF PushRecord
  <2>10. CASE PushDone(m)
    BY <2>10 DEF PushDone
  <2>11. QED
    BY <1>5, <2>1, <2>2, <2>3, <2>4, <2>5, <2>6, <2>7, <2>8, <2>9, <2>10 DEF Push
<1>6. ASSUME NEW m \in Machines, KillStep(m) \/ FreshRunner(m) \/ LoseDb(m)
      PROVE  Rest'
  <2>1. CASE KillStep(m)
    BY <2>1 DEF KillStep
  <2>2. CASE FreshRunner(m)
    BY <2>2 DEF FreshRunner
  <2>3. CASE LoseDb(m)
    BY <2>3 DEF LoseDb
  <2>4. QED
    BY <1>6, <2>1, <2>2, <2>3
<1>7. QED
  BY <1>2, <1>3, <1>4, <1>5, <1>6 DEF Next

(* The inductive invariant holds in every reachable state.                 *)
LEMMA SyncInvariant ==
  ASSUME ~MayLose, ~MayStopHalf
  PROVE  Spec => []SyncInv
<1>1. SyncInv /\ [Next]_vars => SyncInv'
  BY SyncNext
<1>2. QED
  BY SyncInit, <1>1, PTL DEF Spec

(* While no state.db goes missing, the local copy of every machine always  *)
(* covers the object its recorded ETag names.                              *)
THEOREM EtagIsCoveredHolds ==
  ASSUME ~MayLose, ~MayStopHalf
  PROVE  Spec => []EtagIsCovered
<1>1. SyncInv => EtagIsCovered
  BY DEF SyncInv
<1>2. QED
  BY SyncInvariant, <1>1, PTL

(* Only a PUT that lands changes the store, and it keeps every run.        *)
LEMMA StoreGrows ==
  ASSUME SyncInv, [Next]_vars
  PROVE  remote.runs \subseteq remote'.runs
<1>1. ASSUME NEW m \in Machines, PutLands(m) PROVE remote.runs \subseteq remote'.runs
  BY <1>1 DEF PutLands, SyncInv, PushFacts
<1>2. ASSUME NEW m \in Machines, ~PutLands(m), Updater(m) \/ Pull(m) \/ Push(m)
      PROVE  UNCHANGED remote
  BY <1>2 DEF Updater, OpenDb, CommitRun, CloseDb, KillRun,
     Pull, PullStart, PullGet, PullHead, PullStage, PullAsideLog, PullReplace, PullRecord,
     Push, PushStart, PushGuard, PushVacuum, PutRefused, PushOurs, PushRefused, PushAsk,
     PushRecord, PushDone
<1>3. ASSUME NEW m \in Machines, KillStep(m) \/ FreshRunner(m) \/ LoseDb(m)
      PROVE  UNCHANGED remote
  BY <1>3 DEF KillStep, FreshRunner, LoseDb
<1>4. QED
  BY <1>1, <1>2, <1>3 DEF Next, vars

(* No push loses an update: the store never loses a run, for any number of *)
(* machines, crashes, re-sent requests and fresh runners.                  *)
THEOREM NoLostUpdateHolds ==
  ASSUME ~MayLose, ~MayStopHalf
  PROVE  Spec => NoLostUpdate
<1>1. SyncInv /\ [Next]_vars => [remote.runs \subseteq remote'.runs]_vars
  BY StoreGrows
<1>2. QED
  BY SyncInvariant, <1>1, PTL DEF Spec, NoLostUpdate

(* Every step of the round trip is a step of the register, or a stutter.   *)
LEMMA RegisterStep ==
  ASSUME SyncInv, SyncInv', [Next]_vars
  PROVE  [Register!Next]_<<remote.runs, promised>>
<1>1. CASE promised' = promised
  <2>1. remote'.runs \in SUBSET Runs
    BY ObjectFacts DEF SyncInv, TypeOK
  <2>2. QED
    BY <1>1, <2>1, StoreGrows DEF Register!Next, Register!Save
<1>2. CASE promised' # promised
  <2>1. PICK m \in Machines : PushDone(m)
    BY <1>2 DEF Next, vars, Updater, OpenDb, CommitRun, CloseDb, KillRun,
       Pull, PullStart, PullGet, PullHead, PullStage, PullAsideLog, PullReplace, PullRecord,
       Push, PushStart, PushGuard, PushVacuum, PutLands, PutRefused, PushOurs, PushRefused,
       PushAsk, PushRecord, KillStep, FreshRunner, LoseDb
  <2>2. body[m].runs \subseteq remote.runs /\ remote' = remote
    BY <2>1 DEF PushDone, SyncInv, PushFacts
  <2>3. promised' = promised \cup body[m].runs
    BY <2>1 DEF PushDone
  <2>4. QED
    BY <2>2, <2>3 DEF Register!Next, Register!Report
<1>3. QED
  BY <1>1, <1>2

(* The round trip of state.db implements the register: a store that only   *)
(* gains runs, and successful pushes whose runs stay in it.                *)
THEOREM RoundTripImplementsRegister ==
  ASSUME ~MayLose, ~MayStopHalf
  PROVE  Spec => ImplementsRegister
<1>1. Init => Register!Init
  BY DEF Init, NoObject, Register!Init
<1>2. SyncInv /\ SyncInv' /\ [Next]_vars => [Register!Next]_<<remote.runs, promised>>
  BY RegisterStep
<1>3. QED
  BY SyncInvariant, <1>1, <1>2, PTL DEF Spec, ImplementsRegister, Register!Spec

-----------------------------------------------------------------------------
(* No push wipes the store but one that the shrink guard does not vouch for *)

LEMMA AmpleGrows ==
    ASSUME NEW S, NEW T, IsFiniteSet(T), S \subseteq T, Ample(S)
    PROVE  Ample(T)
<1>1. IsFiniteSet(S) /\ Cardinality(S) <= Cardinality(T)
  BY FS_Subset
<1>2. Cardinality(S) \in Nat /\ Cardinality(T) \in Nat
  BY <1>1, FS_CardinalityType
<1>3. QED
  BY <1>1, <1>2, SSAssumption DEF Ample

(* Only finitely many runs have been recorded anywhere.                    *)
FiniteRuns == /\ IsFiniteSet(remote.runs)
              /\ \A m \in Machines : /\ IsFiniteSet(db[m].runs) /\ IsFiniteSet(wal[m])
                                     /\ IsFiniteSet(body[m].runs)

(* The inductive invariant: a push that the guard vouches for, and whose   *)
(* PUT names a substantial object, has a substantial database to snapshot, *)
(* and then sends a substantial snapshot.                                  *)
WipeAt(m) == m \notin unvouched /\ Ample(seen[m].runs) =>
    /\ pc[m] = "vacuum" => db[m].there /\ Ample(Local(m))
    /\ pc[m] \in {"put", "resend"} => Ample(body[m].runs)

WipeInv == \A m \in Machines : WipeAt(m)

LEMMA FiniteNext ==
    ASSUME TypeOK, FiniteRuns, [Next]_vars
    PROVE  FiniteRuns'
<1> USE FS_EmptySet, ObjectFacts DEF FiniteRuns, TypeOK
<1>1. CASE UNCHANGED vars
  BY <1>1 DEF vars
<1>2. ASSUME NEW m \in Machines PROVE IsFiniteSet(Local(m)) /\ Object(Local(m)).runs = Local(m)
  BY FS_Union DEF Local
<1>3. ASSUME NEW m \in Machines, Updater(m) PROVE FiniteRuns'
  <2>1. CASE OpenDb(m)
    <3>1. \A n \in Machines : db'[n].runs = db[n].runs
      BY <2>1 DEF OpenDb
    <3>2. \A n \in Machines : wal'[n] = wal[n] \/ wal'[n] = {}
      BY <2>1 DEF OpenDb
    <3>3. QED
      BY <2>1, <3>1, <3>2 DEF OpenDb
  <2>2. CASE CommitRun(m)
    <3>1. PICK r : wal' = [wal EXCEPT ![m] = @ \cup {r}]
      BY <2>2 DEF CommitRun
    <3>2. IsFiniteSet(wal[m] \cup {r})
      BY FS_AddElement
    <3>3. QED
      BY <2>2, <3>1, <3>2 DEF CommitRun
  <2>3. CASE CloseDb(m)
    BY <1>2, <2>3 DEF CloseDb
  <2>4. CASE KillRun(m)
    BY <2>4 DEF KillRun
  <2>5. QED
    BY <1>3, <2>1, <2>2, <2>3, <2>4 DEF Updater
<1>4. ASSUME NEW m \in Machines, Pull(m) PROVE FiniteRuns'
  <2>1. CASE PullStage(m)
    BY <2>1 DEF PullStage, Goto, Exit
  <2>2. CASE PullAsideLog(m)
    BY <2>2 DEF PullAsideLog, Goto
  <2>3. CASE PullReplace(m)
    BY <2>3 DEF PullReplace, Goto
  <2>4. CASE PullStart(m) \/ PullGet(m) \/ PullHead(m) \/ PullRecord(m)
    BY <2>4 DEF PullStart, PullGet, PullHead, PullRecord, Goto, Exit
  <2>5. QED
    BY <1>4, <2>1, <2>2, <2>3, <2>4 DEF Pull
<1>5. ASSUME NEW m \in Machines, Push(m) PROVE FiniteRuns'
  <2>1. CASE PushVacuum(m)
    <3>1. /\ body' = [body EXCEPT ![m] = Object(Local(m))]
          /\ UNCHANGED <<db, wal>> \/ Checkpoint(m)
      BY <2>1 DEF PushVacuum
    <3>2. \A n \in Machines : IsFiniteSet(body'[n].runs)
      BY <1>2, <3>1
    <3>3. \A n \in Machines : IsFiniteSet(db'[n].runs) /\ IsFiniteSet(wal'[n])
      <4>1. CASE UNCHANGED <<db, wal>>
        BY <4>1
      <4>2. CASE Checkpoint(m)
        <5>1. \A n \in Machines : db'[n].runs = IF n = m THEN Local(m) ELSE db[n].runs
          BY <1>2, <4>2
        <5>2. \A n \in Machines : wal'[n] = wal[n] \/ wal'[n] = {}
          BY <4>2
        <5>3. QED
          BY <1>2, <5>1, <5>2
      <4>3. QED
        BY <3>1, <4>1, <4>2
    <3>4. QED
      BY <2>1, <3>2, <3>3 DEF PushVacuum
  <2>2. CASE PutLands(m)
    BY <2>2 DEF PutLands
  <2>3. CASE ~PushVacuum(m) /\ ~PutLands(m)
    <3>1. UNCHANGED <<remote, db, wal>>
      BY <1>5, <2>3 DEF Push, PushStart, PushGuard, PutRefused, PushOurs, PushRefused,
                        PushAsk, PushRecord, PushDone
    <3>2. UNCHANGED body \/ Exit(m)
      BY <1>5, <2>3 DEF Push, PushStart, PushGuard, PutRefused, PushOurs, PushRefused,
                        PushAsk, PushRecord, PushDone, Goto
    <3>3. QED
      BY <3>1, <3>2 DEF Exit
  <2>4. QED
    BY <2>1, <2>2, <2>3
<1>6. ASSUME NEW m \in Machines, KillStep(m) \/ FreshRunner(m) \/ LoseDb(m)
      PROVE  FiniteRuns'
  <2>1. CASE KillStep(m)
    BY <2>1 DEF KillStep, Exit
  <2>2. CASE FreshRunner(m)
    BY <2>2 DEF FreshRunner
  <2>3. CASE LoseDb(m)
    BY <2>3 DEF LoseDb
  <2>4. QED
    BY <1>6, <2>1, <2>2, <2>3
<1>7. QED
  BY <1>1, <1>3, <1>4, <1>5, <1>6 DEF Next

(* Only a PUT changes the store, and one the guard vouches for does not    *)
(* wipe it.                                                                *)
LEMMA WipeStep ==
    ASSUME WipeInv, [Next]_vars, Ample(remote.runs)
    PROVE  Ample(remote'.runs) \/ \E m \in unvouched : PutLands(m)
<1>1. CASE remote' = remote
  BY <1>1
<1>2. ASSUME NEW m \in Machines, PutLands(m), m \notin unvouched
      PROVE  Ample(remote'.runs)
  BY <1>2 DEF PutLands, WipeInv, WipeAt
<1>3. ASSUME NEW m \in Machines, remote' # remote,
             \/ Updater(m) \/ Pull(m) \/ Push(m)
             \/ KillStep(m) \/ FreshRunner(m) \/ LoseDb(m)
      PROVE  PutLands(m)
  BY <1>3 DEF Updater, OpenDb, CommitRun, CloseDb, KillRun, Pull, PullStart, PullGet, PullHead,
              PullStage, PullAsideLog, PullReplace, PullRecord, Push, PushStart, PushGuard,
              PushVacuum, PutRefused, PushOurs, PushRefused, PushAsk, PushRecord, PushDone,
              KillStep, FreshRunner, LoseDb
<1>4. QED
  BY <1>1, <1>2, <1>3 DEF Next, vars

(* A step leaves what the push of m stands on alone.                       *)
LEMMA WipeKept ==
    ASSUME WipeInv, NEW m \in Machines,
           pc'[m] = pc[m], seen'[m] = seen[m], body'[m] = body[m],
           m \in unvouched => m \in unvouched',
           pc[m] = "vacuum" /\ m \notin unvouched' /\ db[m].there =>
             /\ db'[m].there
             /\ Ample(Local(m)) => Ample(Local(m)')
    PROVE  WipeAt(m)'
<1>1. WipeAt(m)
  BY DEF WipeInv
<1>2. QED
  BY <1>1 DEF WipeAt

(* A step of n does not touch what another machine has.                    *)
LEMMA OthersAlone ==
    ASSUME TypeOK, NEW n \in Machines, NEW m \in Machines, m # n,
           \/ Updater(n) \/ Pull(n) \/ Push(n)
           \/ KillStep(n) \/ FreshRunner(n) \/ LoseDb(n)
    PROVE  /\ db'[m] = db[m] /\ wal'[m] = wal[m]
           /\ pc'[m] = pc[m] /\ seen'[m] = seen[m] /\ body'[m] = body[m]
           /\ m \in unvouched => m \in unvouched'
<1> USE DEF TypeOK, Goto, Exit
<1>1. CASE Updater(n)
  BY <1>1 DEF Updater, OpenDb, CommitRun, CloseDb, KillRun
<1>2. CASE Pull(n)
  BY <1>2 DEF Pull, PullStart, PullGet, PullHead, PullStage, PullAsideLog, PullReplace,
              PullRecord
<1>3. CASE Push(n)
  BY <1>3 DEF Push, PushStart, PushGuard, PushVacuum, PutLands, PutRefused, PushOurs,
              PushRefused, PushAsk, PushRecord, PushDone
<1>4. CASE KillStep(n) \/ FreshRunner(n) \/ LoseDb(n)
  BY <1>4 DEF KillStep, FreshRunner, LoseDb
<1>5. QED
  BY <1>1, <1>2, <1>3, <1>4

(* The updater does not take away from the database a push is about to     *)
(* snapshot.                                                               *)
LEMMA WipeUpdater ==
    ASSUME TypeOK, FiniteRuns, NEW n \in Machines, Updater(n), db[n].there
    PROVE  /\ UNCHANGED <<pc, seen, body, unvouched>>
           /\ db'[n].there
           /\ Ample(Local(n)) => Ample(Local(n)')
<1> USE ObjectFacts DEF TypeOK
<1>0. Local(n) = db[n].runs \cup wal[n]
  BY DEF Local
<1>1. CASE OpenDb(n)
  <2>1. db'[n] = Object(db[n].runs) /\ wal' = wal
    BY <1>1 DEF OpenDb
  <2>2. db'[n].there /\ db'[n].runs = db[n].runs
    BY <2>1
  <2>3. QED
    BY <1>1, <2>1, <2>2 DEF OpenDb, Local
<1>2. CASE CommitRun(n)
  <2>1. PICK r : wal' = [wal EXCEPT ![n] = @ \cup {r}]
    BY <1>2 DEF CommitRun
  <2>2. UNCHANGED <<db, pc, seen, body, unvouched>>
    BY <1>2 DEF CommitRun
  <2>3. IsFiniteSet(db[n].runs \cup wal'[n])
    <3>1. wal'[n] = wal[n] \cup {r}
      BY <2>1
    <3>2. IsFiniteSet(wal[n])
      BY DEF FiniteRuns
    <3>3. IsFiniteSet(wal'[n])
      BY <3>1, <3>2, FS_AddElement
    <3>4. QED
      BY <3>3, FS_Union DEF FiniteRuns
  <2>4. Local(n)' = db[n].runs \cup wal'[n] /\ db'[n].there
    BY <2>2 DEF Local
  <2>5. Local(n) \subseteq db[n].runs \cup wal'[n]
    BY <1>0, <2>1
  <2>6. QED
    BY <2>2, <2>3, <2>4, <2>5, AmpleGrows
<1>3. CASE CloseDb(n)
  <2>1. db'[n] = Object(Local(n)) /\ wal'[n] = {}
    BY <1>3 DEF CloseDb
  <2>2. Local(n) \in SUBSET Runs
    BY <1>0
  <2>3. db'[n].there /\ db'[n].runs \cup wal'[n] = Local(n)
    BY <2>1, <2>2
  <2>4. Local(n)' = Local(n)
    BY <2>3 DEF Local
  <2>5. QED
    BY <1>3, <2>3, <2>4 DEF CloseDb
<1>4. CASE KillRun(n)
  BY <1>4 DEF KillRun, Local
<1>5. QED
  BY <1>1, <1>2, <1>3, <1>4 DEF Updater

LEMMA WipeNext ==
    ASSUME TypeOK, FiniteRuns, WipeInv, [Next]_vars
    PROVE  WipeInv'
<1> USE ObjectFacts
<1>1. CASE UNCHANGED vars
  BY <1>1 DEF vars, WipeInv, WipeAt, Local
<1>2. ASSUME NEW n \in Machines,
             \/ Updater(n) \/ Pull(n) \/ Push(n)
             \/ KillStep(n) \/ FreshRunner(n) \/ LoseDb(n)
      PROVE  WipeInv'
  <2>1. ASSUME NEW m \in Machines, m # n PROVE WipeAt(m)'
    BY <1>2, <2>1, OthersAlone, WipeKept DEF Local
  <2>2. WipeAt(n)'
    <3> USE DEF TypeOK
    <3>1. CASE Updater(n)
      <4>1. UNCHANGED <<pc, seen, body, unvouched>>
        BY <3>1 DEF Updater, OpenDb, CommitRun, CloseDb, KillRun
      <4>2. QED
        BY <3>1, <4>1, WipeUpdater, WipeKept
    <3>2. CASE \/ Pull(n) \/ PutRefused(n) \/ PushOurs(n) \/ PushRefused(n) \/ PushAsk(n)
               \/ PushRecord(n) \/ PushDone(n) \/ KillStep(n) \/ PushStart(n)
      <4>1. pc'[n] \notin {"vacuum", "put", "resend"}
        BY <3>2 DEF Pull, PullStart, PullGet, PullHead, PullStage, PullAsideLog, PullReplace,
                    PullRecord, PutRefused, PushOurs, PushRefused, PushAsk, PushRecord,
                    PushDone, KillStep, PushStart, Goto, Exit
      <4>2. QED
        BY <4>1 DEF WipeAt
    <3>3. CASE FreshRunner(n)
      BY <3>3 DEF FreshRunner, WipeAt
    <3>4. CASE LoseDb(n)
      <4>1. UNCHANGED <<pc, seen, body>> /\ unvouched \subseteq unvouched'
        BY <3>4 DEF LoseDb
      <4>2. pc[n] = "vacuum" => n \in unvouched'
        BY <3>4 DEF LoseDb
      <4>3. QED
        BY <4>1, <4>2, WipeKept
    <3>5. CASE PushGuard(n)
      <4>1. UNCHANGED <<remote, db, wal>> /\ pc[n] = "guard"
        BY <3>5 DEF PushGuard
      <4>2. CASE Shrinks(n) /\ Exit(n)
        BY <4>2 DEF Exit, WipeAt
      <4>3. CASE ~Shrinks(n) /\ ~Exit(n)
        <5>1. /\ pc'[n] = "vacuum" /\ seen' = seen
              /\ remote # seen[n] => n \in unvouched'
          BY <3>5, <4>3 DEF PushGuard
        <5>2. Ample(remote.runs) => db[n].there /\ Ample(Local(n))
          BY <4>3 DEF Shrinks
        <5>3. QED
          BY <4>1, <5>1, <5>2 DEF WipeAt, Local
      <4>4. QED
        BY <3>5, <4>2, <4>3 DEF PushGuard, Exit
    <3>6. CASE PushVacuum(n)
      <4>1. /\ pc[n] = "vacuum" /\ pc'[n] = "put" /\ UNCHANGED <<remote, seen, unvouched>>
            /\ body'[n] = Object(Local(n))
        BY <3>6 DEF PushVacuum
      <4>2. body'[n].runs = Local(n)
        BY <4>1 DEF Local
      <4>3. WipeAt(n)
        BY DEF WipeInv
      <4>4. QED
        BY <4>1, <4>2, <4>3 DEF WipeAt
    <3>7. CASE PutLands(n)
      <4>1. /\ pc[n] \in {"put", "resend"}
            /\ pc'[n] \in {"landed", "ask", "resend"} /\ UNCHANGED <<seen, body, unvouched>>
        BY <3>7 DEF PutLands
      <4>2. WipeAt(n)
        BY DEF WipeInv
      <4>3. QED
        BY <4>1, <4>2 DEF WipeAt
    <3>8. QED
      BY <1>2, <3>1, <3>2, <3>3, <3>4, <3>5, <3>6, <3>7 DEF Push
  <2>3. QED
    BY <2>1, <2>2 DEF WipeInv
<1>3. QED
  BY <1>1, <1>2 DEF Next

(* No push turns a substantial store into an implausibly small one, for    *)
(* any machines, runs and floor, whenever state.db files go missing and    *)
(* pulls stop half way, but a push whose state.db went missing between its *)
(* shrink guard and its snapshot, or whose guard looked at another object  *)
(* than the one its PUT replaces.                                          *)
THEOREM NoWipeHolds == Spec => NoWipe
<1>1. Init => FiniteRuns /\ WipeInv
  <2>1. Init => FiniteRuns
    <3>1. IsFiniteSet({}) /\ IsFiniteSet(NoObject.runs)
      BY ObjectFacts, FS_EmptySet, Zenon
    <3>2. QED
      BY <3>1 DEF Init, FiniteRuns
  <2>2. Init => WipeInv
    BY DEF Init, WipeInv, WipeAt
  <2>3. QED
    BY <2>1, <2>2
<1>2. TypeOK /\ FiniteRuns /\ [Next]_vars => FiniteRuns'
  BY FiniteNext
<1>3. TypeOK /\ FiniteRuns /\ WipeInv /\ [Next]_vars => WipeInv'
  BY WipeNext
<1>4. WipeInv /\ [Next]_vars =>
        [Ample(remote.runs) =>
           Ample(remote'.runs) \/ \E m \in unvouched : PutLands(m)]_vars
  BY WipeStep
<1>5. QED
  BY <1>1, <1>2, <1>3, <1>4, TypeCorrect, PTL DEF Spec, NoWipe
=============================================================================
