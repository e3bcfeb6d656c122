-------------------------- MODULE WriterLockProofs --------------------------
(***************************************************************************)
(* Proofs about WriterLock for any set of pids and any number of restarts. *)
(* Mutual exclusion needs the two timing assumptions (the run              *)
(* writer_lock_race shows that it is lost without NoLateReplace); the      *)
(* inductive invariant makes explicit where each of them is used.          *)
(***************************************************************************)
EXTENDS WriterLock, TLAPS

(* Only a live process is inside acquire() or release().                   *)
BusyIsAlive == \A p \in Pids : pc[p] # "idle" => alive[p]

(* A live process has a start time.                                        *)
Started == \A p \in Pids : alive[p] => gen[p] \in 1..MaxGen

(* Between its O_EXCL create and its body a file is empty, so only the one *)
(* process that created it is there.                                       *)
WriterIsEmpty == \A p \in Pids : pc[p] = "write" =>
                    file = Empty /\ \A q \in Pids : pc[q] = "write" => q = p

(* While somebody is about to replace, nobody owns the lock.               *)
RacerMeansFree == Racers # {} => \A p \in Pids : pc[p] \notin {"write", "hold", "remove"}

(* The part of the invariant that needs no assumption on time.             *)
BaseInv == TypeOK /\ BusyIsAlive /\ Started

(* The inductive invariant behind mutual exclusion: the file is the lock,  *)
(* and no acquirer is about to overwrite a lock somebody holds.            *)
LockInv == /\ BaseInv
           /\ WriterIsEmpty
           /\ HolderIsNamed
           /\ RacerMeansFree

USE DEF Me, Goto, NoFile, Empty, Record, Racers, Holders

(* The initial state satisfies the inductive invariant.                    *)
LEMMA LockInit == Init => LockInv
BY WLAssumption DEF Init, LockInv, BaseInv, TypeOK, BusyIsAlive, Started, WriterIsEmpty,
   HolderIsNamed, RacerMeansFree, PCs

(* Two holders would both be named by the one file.                        *)
LEMMA NamedIsExclusive == HolderIsNamed => MutualExclusion
BY DEF HolderIsNamed, MutualExclusion

(* Every step keeps the types, the liveness of whoever is busy and the     *)
(* start times, whatever the timing.                                       *)
LEMMA BaseNext == BaseInv /\ [Next]_vars => BaseInv'
<1> SUFFICES ASSUME BaseInv, [Next]_vars PROVE BaseInv'
  OBVIOUS
<1> USE WLAssumption DEF BaseInv, TypeOK, BusyIsAlive, Started, PCs
<1>1. CASE UNCHANGED vars
  BY <1>1 DEF vars
<1>2. ASSUME NEW p \in Pids, Step(p)
      PROVE  BaseInv'
  BY <1>2 DEF Step, Create, WriteBody, CreateRefused, Judge, Replace, Reread, ReleaseRead, ReleaseRemove
<1>3. ASSUME NEW p \in Pids, ReplaceFails(p) \/ Spawn(p) \/ Kill(p)
      PROVE  BaseInv'
  <2>1. CASE ReplaceFails(p)
    BY <2>1 DEF ReplaceFails
  <2>2. CASE Spawn(p)
    BY <2>2 DEF Spawn
  <2>3. CASE Kill(p)
    BY <2>3 DEF Kill
  <2>4. QED
    BY <1>3, <2>1, <2>2, <2>3
<1>4. CASE OperatorClear
  BY <1>4 DEF OperatorClear
<1>5. QED
  BY <1>1, <1>2, <1>3, <1>4 DEF Next

(* The lock file, the process table and the program counters keep their    *)
(* types in every reachable state, whatever the timing.                    *)
THEOREM TypeCorrect == Spec => []TypeOK
<1>1. Init => BaseInv
  BY LockInit DEF LockInv
<1>2. BaseInv => TypeOK
  BY DEF BaseInv
<1>3. QED
  BY <1>1, <1>2, BaseNext, PTL DEF Spec

(* Every step of the lock protocol keeps the inductive invariant, provided *)
(* no lock is created under a racer and the pause outlasts every racer.    *)
LEMMA LockNext ==
  ASSUME PauseCovers, NoLateReplace, LockInv, [Next]_vars
  PROVE  LockInv'
<1> USE WLAssumption DEF LockInv, BaseInv, TypeOK, PCs
<1>1. CASE UNCHANGED vars
  BY <1>1 DEF vars, BusyIsAlive, Started, WriterIsEmpty, HolderIsNamed, RacerMeansFree, OwnerAlive
<1>2. ASSUME NEW p \in Pids, Spawn(p)
      PROVE  LockInv'
  BY <1>2 DEF Spawn, BusyIsAlive, Started, WriterIsEmpty, HolderIsNamed, RacerMeansFree
<1>3. ASSUME NEW p \in Pids, Kill(p)
      PROVE  LockInv'
  BY <1>3 DEF Kill, BusyIsAlive, Started, WriterIsEmpty, HolderIsNamed, RacerMeansFree
<1>4. ASSUME NEW p \in Pids, Create(p)
      PROVE  LockInv'
  BY <1>4 DEF Create, BusyIsAlive, Started, WriterIsEmpty, HolderIsNamed, RacerMeansFree
<1>5. ASSUME NEW p \in Pids, WriteBody(p)
      PROVE  LockInv'
  BY <1>5 DEF WriteBody, BusyIsAlive, Started, WriterIsEmpty, HolderIsNamed, RacerMeansFree
<1>6. ASSUME NEW p \in Pids, CreateRefused(p)
      PROVE  LockInv'
  BY <1>6 DEF CreateRefused, BusyIsAlive, Started, WriterIsEmpty, HolderIsNamed, RacerMeansFree
<1>7. ASSUME NEW p \in Pids, Judge(p)
      PROVE  LockInv'
  BY <1>7 DEF Judge, OwnerNone, OwnerAlive, BusyIsAlive, Started, WriterIsEmpty, HolderIsNamed, RacerMeansFree
<1>8. ASSUME NEW p \in Pids, Replace(p)
      PROVE  LockInv'
  BY <1>8 DEF Replace, BusyIsAlive, Started, WriterIsEmpty, HolderIsNamed, RacerMeansFree
<1>9. ASSUME NEW p \in Pids, ReplaceFails(p)
      PROVE  LockInv'
  BY <1>9 DEF ReplaceFails, BusyIsAlive, Started, WriterIsEmpty, HolderIsNamed, RacerMeansFree
<1>10. ASSUME NEW p \in Pids, Reread(p)
       PROVE  LockInv'
  BY <1>10 DEF Reread, BusyIsAlive, Started, WriterIsEmpty, HolderIsNamed, RacerMeansFree
<1>11. ASSUME NEW p \in Pids, ReleaseRead(p)
       PROVE  LockInv'
  BY <1>11 DEF ReleaseRead, BusyIsAlive, Started, WriterIsEmpty, HolderIsNamed, RacerMeansFree
<1>12. ASSUME NEW p \in Pids, ReleaseRemove(p)
       PROVE  LockInv'
  BY <1>12 DEF ReleaseRemove, BusyIsAlive, Started, WriterIsEmpty, HolderIsNamed, RacerMeansFree
<1>13. ASSUME OperatorClear
       PROVE  LockInv'
  BY <1>13 DEF OperatorClear, BusyIsAlive, Started, WriterIsEmpty, HolderIsNamed, RacerMeansFree
<1>14. QED
  BY <1>1, <1>2, <1>3, <1>4, <1>5, <1>6, <1>7, <1>8, <1>9, <1>10, <1>11, <1>12, <1>13
  DEF Next, Step

(* The inductive invariant holds in every reachable state.                 *)
THEOREM LockInvariant ==
  ASSUME PauseCovers, NoLateReplace
  PROVE  Spec => []LockInv
<1>1. LockInv /\ [Next]_vars => LockInv'
  BY LockNext
<1>2. QED
  BY LockInit, <1>1, PTL DEF Spec

(* One writer per region: with the two timing assumptions, acquire() never *)
(* returns True to a second process before the first one releases.         *)
THEOREM MutualExclusionHolds ==
  ASSUME PauseCovers, NoLateReplace
  PROVE  Spec => []MutualExclusion
<1>1. LockInv => MutualExclusion
  BY NamedIsExclusive DEF LockInv
<1>2. QED
  BY LockInvariant, <1>1, PTL

(* The file names whoever holds the region, under the same assumptions.    *)
THEOREM HolderIsNamedHolds ==
  ASSUME PauseCovers, NoLateReplace
  PROVE  Spec => []HolderIsNamed
<1>1. LockInv => HolderIsNamed
  BY DEF LockInv
<1>2. QED
  BY LockInvariant, <1>1, PTL

(* release() never removes a lock file that names another process, under   *)
(* the same assumptions.                                                   *)
THEOREM ReleaseOnlyOwnHolds ==
  ASSUME PauseCovers, NoLateReplace
  PROVE  Spec => ReleaseOnlyOwn
<1>1. LockInv /\ [Next]_vars => [\A p \in Pids : ReleaseRemove(p) => file = Me(p)]_vars
  BY DEF LockInv, HolderIsNamed, ReleaseRemove
<1>2. QED
  BY LockInvariant, <1>1, PTL DEF Spec, ReleaseOnlyOwn
=============================================================================
