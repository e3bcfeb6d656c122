------------------------- MODULE StatcanLaneProofs -------------------------
(***************************************************************************)
(* Proofs about StatcanLane, and about the new-cubes tool beside it, for   *)
(* any set of cubes, any number of releases and any quarantine threshold,  *)
(* whatever fails and whenever StatCan releases.                           *)
(*                                                                         *)
(* Each operator on a cube's record has a lemma that gives the fields of   *)
(* its result; the proofs of the steps use these facts and never expand a  *)
(* record.                                                                 *)
(***************************************************************************)
EXTENDS StatcanNewCubes, TLAPS

(* t differs from s at most in what is served, in flight or waiting.       *)
Same(s, t) == /\ t \in CubeState
              /\ t.release = s.release /\ t.merged = s.merged /\ t.notHeld = s.notHeld
              /\ t.fails = s.fails /\ t.failRel = s.failRel
              /\ t.quarantined = s.quarantined

MergePCs == {"ask", "fetch", "publish", "record"}

(* The cube at work left the list, and neither it nor a listed one is      *)
(* quarantined; the merge works on a cube that owes one.                   *)
OneAtWork == /\ pc \notin {"idle", "next"} =>
                   cur \in Cubes \ todo /\ ~cubes[cur].quarantined
             /\ \A c \in todo : ~cubes[c].quarantined
             /\ pc \in MergePCs => MergeOwed(cubes[cur])

(* The threshold quarantines at the latest.                                *)
FewFails == \A c \in Cubes : ~cubes[c].quarantined => cubes[c].fails < QuarantineAfter

(* A quarantine is for the release enumerated last.                        *)
QuarantineNamed == \A c \in Cubes : cubes[c].quarantined => cubes[c].failRel = cubes[c].release

(* The inductive invariant behind the types and the quarantine; the tool   *)
(* beside the lane keeps it too.                                           *)
LaneInv == TypeOK /\ OneAtWork /\ FewFails /\ QuarantineNamed

(* A record is never ahead of StatCan, and a later table is a later        *)
(* revision.                                                               *)
Behind == \A c \in Cubes : cubes[c].merged <= cubes[c].release /\ cubes[c].release <= rel[c]

TablesGrow == \A c \in Cubes : \A i \in 0..rel[c] :
    table[c][i] <= i /\ \A j \in 0..rel[c] : i <= j => table[c][i] <= table[c][j]

(* What the merge carries is at least the release it works for.            *)
Carries == /\ pc \in {"fetch", "publish", "record"} => cur \in held
           /\ pc = "publish" => table[cur][cubes[cur].release] <= job.got
           /\ pc = "record" => table[cur][cubes[cur].release] <= store[cur]

(* The inductive invariant behind MergedIsInStore, on top of LaneInv.      *)
StoreInv == Behind /\ TablesGrow /\ Carries /\ MergedIsInStore

-----------------------------------------------------------------------------
(* What the operators on a cube's record do *)

LEMMA NoRecordFacts == /\ NoRecord \in CubeState
                       /\ NoRecord.release = 0 /\ NoRecord.merged = 0
                       /\ NoRecord.fails = 0 /\ ~NoRecord.quarantined /\ ~NoRecord.notHeld
BY SLAssumption DEF NoRecord, CubeState, Releases

LEMMA BackoffFacts == \A s \in CubeState : Same(s, Backoff(s))
BY DEF Backoff, Same, CubeState

LEMMA AwakeFacts == \A s \in CubeState : Same(s, [s EXCEPT !.waits = FALSE])
BY DEF Same, CubeState

LEMMA InFlightFacts == \A s \in CubeState : Same(s, [s EXCEPT !.inflight = s.release])
BY DEF Same, CubeState

LEMMA ServedFacts == \A s \in CubeState : Same(s, Served(s))
BY DEF Served, Same, CubeState

LEMMA AbsentFacts ==
    ASSUME NEW s \in CubeState
    PROVE  /\ Absent(s) \in CubeState
           /\ Absent(s).release = s.release /\ Absent(s).merged = s.release
           /\ Absent(s).fails = s.fails /\ Absent(s).failRel = s.failRel
           /\ Absent(s).quarantined = s.quarantined /\ Absent(s).notHeld
BY DEF Absent, CubeState

LEMMA MergedFacts ==
    ASSUME NEW s \in CubeState, NEW serve \in BOOLEAN
    PROVE  /\ Merged(s, serve) \in CubeState
           /\ Merged(s, serve).release = s.release /\ Merged(s, serve).merged = s.release
           /\ Merged(s, serve).fails = 0
           /\ Merged(s, serve).quarantined = s.quarantined /\ ~Merged(s, serve).notHeld
<1>1. 0 \in Releases /\ 0 \in 0..QuarantineAfter
  BY SLAssumption DEF Releases
<1>2. (IF serve THEN s.served ELSE s.release) \in Releases
  BY DEF CubeState
<1>3. QED
  BY <1>1, <1>2 DEF Merged, CubeState

(* A cube that is not quarantined has failed fewer times than the          *)
(* threshold, and one more failure quarantines it at the latest then.      *)
LEMMA DeterministicFacts ==
    ASSUME NEW s \in CubeState, s.fails < QuarantineAfter
    PROVE  LET t == Deterministic(s)
           IN  /\ t \in CubeState
               /\ t.release = s.release /\ t.merged = s.merged
               /\ t.failRel = s.release /\ t.notHeld = s.notHeld
               /\ t.quarantined <=> t.fails >= QuarantineAfter
<1> DEFINE n == IF s.failRel = s.release THEN s.fails + 1 ELSE 1
<1>1. n \in 0..QuarantineAfter
  BY SLAssumption DEF CubeState
<1>2. (n >= QuarantineAfter) \in BOOLEAN
  OBVIOUS
<1>3. Deterministic(s) = [s EXCEPT !.fails = n, !.failRel = s.release,
                                   !.quarantined = (n >= QuarantineAfter)]
  BY DEF Deterministic
<1> HIDE DEF n
<1>4. QED
  BY <1>1, <1>2, <1>3 DEF CubeState

(* An enumeration keeps a quarantine only while the release is the same.   *)
LEMMA EnumeratedFacts ==
    ASSUME NEW s \in CubeState, NEW r \in Releases,
           s.quarantined => s.failRel = s.release,
           ~s.quarantined => s.fails < QuarantineAfter
    PROVE  LET t == Enumerated(s, r)
           IN  /\ t \in CubeState
               /\ t.release = r /\ t.merged = s.merged /\ t.notHeld = s.notHeld
               /\ t.quarantined => t = s
               /\ ~t.quarantined => t.fails < QuarantineAfter
<1>1. CASE s.release = r
  BY <1>1 DEF Enumerated
<1>2. CASE s.release # r /\ s.quarantined /\ s.failRel # r
  <2>1. Enumerated(s, r) = [s EXCEPT !.release = r, !.quarantined = FALSE, !.fails = 0]
    BY <1>2 DEF Enumerated
  <2>2. 0 \in 0..QuarantineAfter /\ 0 < QuarantineAfter
    BY SLAssumption
  <2>3. QED
    BY <2>1, <2>2 DEF CubeState
<1>3. CASE s.release # r /\ ~s.quarantined
  <2>1. Enumerated(s, r) = [s EXCEPT !.release = r, !.quarantined = FALSE, !.fails = s.fails]
    BY <1>3 DEF Enumerated, CubeState
  <2>2. QED
    BY <2>1, <1>3 DEF CubeState
<1>4. QED
  BY <1>1, <1>2, <1>3

-----------------------------------------------------------------------------
(* Saving the record of the cube at work *)

LEMMA SaveFacts ==
    ASSUME TypeOK, NEW s \in CubeState, Save(s)
    PROVE  /\ cubes' \in [Cubes -> CubeState]
           /\ cur \in Cubes => cubes'[cur] = s
           /\ \A c \in Cubes : c # cur => cubes'[c] = cubes[c]
BY DEF Save, TypeOK

LEMMA SameSelf == \A s \in CubeState : Same(s, s)
BY DEF Same

(* A step that saves the same debts changes no record's debts.             *)
LEMMA SaveSame ==
    ASSUME TypeOK, NEW s, cur \in Cubes, Same(cubes[cur], s), Save(s)
    PROVE  /\ cubes' \in [Cubes -> CubeState]
           /\ \A c \in Cubes : Same(cubes[c], cubes'[c])
<1>1. s \in CubeState
  BY DEF Same
<1>2. \A c \in Cubes : cubes[c] \in CubeState
  BY DEF TypeOK
<1>3. QED
  BY <1>1, <1>2, SaveFacts, SameSelf

(* What every step that changes no debt keeps.                             *)
LEMMA SameKeeps ==
    ASSUME LaneInv, TypeOK', \A c \in Cubes : Same(cubes[c], cubes'[c]),
           todo' \subseteq todo,
           \/ pc' \in {"idle", "next"}
           \/ /\ cur' = cur /\ pc \notin {"idle", "next"}
              /\ pc' \in MergePCs => pc \in MergePCs
    PROVE  LaneInv'
<1> USE DEF LaneInv, TypeOK
<1>1. \A c \in Cubes : MergeOwed(cubes[c])' <=> MergeOwed(cubes[c])
  BY DEF Same, MergeOwed
<1>2. OneAtWork'
  BY <1>1 DEF OneAtWork, Same, MergePCs
<1>3. FewFails'
  BY DEF FewFails, Same
<1>4. QuarantineNamed'
  BY DEF QuarantineNamed, Same
<1>5. QED
  BY <1>2, <1>3, <1>4

-----------------------------------------------------------------------------
(* Types, and the quarantine *)

LEMMA LaneInit == Init => LaneInv
<1> SUFFICES ASSUME Init PROVE LaneInv
  OBVIOUS
<1>1. 0 \in Releases /\ 0 \in 0..QuarantineAfter /\ 0 < QuarantineAfter
  BY SLAssumption DEF Releases
<1>2. NoJob \in Jobs
  BY <1>1 DEF NoJob, Jobs
<1>3. cubes \in [Cubes -> CubeState] /\ \A c \in Cubes : cubes[c] = NoRecord
  BY NoRecordFacts DEF Init
<1>4. TypeOK
  BY <1>1, <1>2, <1>3 DEF Init, TypeOK, PCs
<1>5. OneAtWork
  BY DEF Init, OneAtWork, MergePCs
<1>6. FewFails /\ QuarantineNamed
  BY <1>1, <1>3, NoRecordFacts DEF FewFails, QuarantineNamed
<1>7. QED
  BY <1>4, <1>5, <1>6 DEF LaneInv

(* The cube at work has a record.                                          *)
LEMMA AtWork ==
    ASSUME LaneInv, pc \notin {"idle", "next"}
    PROVE  /\ cur \in Cubes /\ cubes[cur] \in CubeState
           /\ ~cubes[cur].quarantined /\ cubes[cur].fails < QuarantineAfter
BY DEF LaneInv, OneAtWork, FewFails, TypeOK

LEMMA LaneRelease ==
    ASSUME LaneInv, NEW c \in Cubes, Release(c) \/ TimePasses(c)
    PROVE  LaneInv'
<1>1. CASE Release(c)
  <2>1. PICK v \in {rel[c] + 1, table[c][rel[c]]} :
          table' = [table EXCEPT ![c][rel[c] + 1] = v]
    BY <1>1 DEF Release
  <2>2. /\ rel \in [Cubes -> Releases] /\ rel[c] + 1 \in Releases
        /\ rel' = [rel EXCEPT ![c] = rel[c] + 1]
        /\ table \in [Cubes -> [Releases -> Releases]]
    <3>1. rel[c] < MaxRel /\ rel' = [rel EXCEPT ![c] = rel[c] + 1]
      BY <1>1 DEF Release
    <3>2. rel \in [Cubes -> Releases] /\ table \in [Cubes -> [Releases -> Releases]]
      BY DEF LaneInv, TypeOK
    <3>3. rel[c] \in 0..MaxRel
      BY <3>2 DEF Releases
    <3>4. rel[c] + 1 \in 0..MaxRel
      BY <3>1, <3>3, SLAssumption
    <3>5. QED
      BY <3>1, <3>2, <3>4 DEF Releases
  <2>3. v \in Releases
    BY <2>2
  <2>4. rel' \in [Cubes -> Releases] /\ table' \in [Cubes -> [Releases -> Releases]]
    BY <2>1, <2>2, <2>3
  <2>5. TypeOK'
    BY <1>1, <2>4 DEF Release, region, state, lane, LaneInv, TypeOK
  <2>6. UNCHANGED <<cubes, pc, todo, cur>>
    BY <1>1 DEF Release, state, lane
  <2>7. \A d \in Cubes : Same(cubes[d], cubes'[d])
    BY <2>6, SameSelf DEF LaneInv, TypeOK
  <2>8. QED
    BY <2>5, <2>6, <2>7, SameKeeps
<1>2. CASE TimePasses(c)
  <2> DEFINE s == [cubes[c] EXCEPT !.waits = FALSE]
  <2>1. cubes \in [Cubes -> CubeState] /\ Same(cubes[c], s) /\ s \in CubeState
    BY AwakeFacts DEF LaneInv, TypeOK, Same
  <2>2. cubes' = [cubes EXCEPT ![c] = s]
    BY <1>2 DEF TimePasses
  <2> HIDE DEF s
  <2>3. /\ cubes' \in [Cubes -> CubeState]
        /\ \A d \in Cubes : Same(cubes[d], cubes'[d])
    BY <2>1, <2>2, SameSelf
  <2>4. UNCHANGED <<upstream, region, newCubes, lane, assumed>>
    BY <1>2 DEF TimePasses
  <2>5. TypeOK'
    BY <2>3, <2>4 DEF upstream, region, lane, LaneInv, TypeOK
  <2>6. QED
    BY <2>3, <2>4, <2>5, SameKeeps DEF lane
<1>3. QED
  BY <1>1, <1>2

(* The listed cubes are due, and so not quarantined.                       *)
LEMMA LaneEnumerate ==
    ASSUME LaneInv, Enumerate
    PROVE  /\ LaneInv'
           /\ \A c \in Cubes : /\ cubes'[c].release = rel[c]
                               /\ cubes'[c].merged = cubes[c].merged
                               /\ cubes'[c].notHeld = cubes[c].notHeld
                               /\ cubes'[c].quarantined => cubes'[c] = cubes[c]
<1>1. /\ cubes \in [Cubes -> CubeState] /\ rel \in [Cubes -> Releases]
      /\ cubes' = [c \in Cubes |-> Enumerated(cubes[c], rel[c])]
  BY DEF LaneInv, TypeOK, Enumerate
<1>2. ASSUME NEW c \in Cubes
      PROVE  LET t == Enumerated(cubes[c], rel[c])
             IN  /\ t \in CubeState
                 /\ t.release = rel[c] /\ t.merged = cubes[c].merged /\ t.notHeld = cubes[c].notHeld
                 /\ t.quarantined => t = cubes[c]
                 /\ ~t.quarantined => t.fails < QuarantineAfter
  <2>1. /\ cubes[c].quarantined => cubes[c].failRel = cubes[c].release
        /\ ~cubes[c].quarantined => cubes[c].fails < QuarantineAfter
    BY DEF LaneInv, QuarantineNamed, FewFails
  <2>2. QED
    BY <1>1, <2>1, EnumeratedFacts
<1>3. \A c \in Cubes :
        /\ cubes'[c] \in CubeState
        /\ cubes'[c].release = rel[c]
        /\ cubes'[c].merged = cubes[c].merged /\ cubes'[c].notHeld = cubes[c].notHeld
        /\ cubes'[c].quarantined => cubes'[c] = cubes[c]
        /\ ~cubes'[c].quarantined => cubes'[c].fails < QuarantineAfter
  BY <1>1, <1>2
<1>4. cubes' \in [Cubes -> CubeState]
  BY <1>1, <1>3
<1>5. /\ todo' = {c \in Cubes : Due(cubes'[c])} /\ pc' = "next"
      /\ UNCHANGED <<upstream, region, newCubes, cur, job, assumed>>
  BY DEF Enumerate, Goto
<1>6. TypeOK'
  BY <1>4, <1>5 DEF upstream, region, LaneInv, TypeOK, PCs
<1>7. OneAtWork'
  BY <1>5 DEF OneAtWork, MergePCs, Due
<1>8. FewFails'
  BY <1>3 DEF FewFails
<1>9. QuarantineNamed'
  BY <1>3 DEF LaneInv, QuarantineNamed
<1>10. QED
  BY <1>3, <1>6, <1>7, <1>8, <1>9 DEF LaneInv

LEMMA LanePick ==
    ASSUME LaneInv, NEW c \in Cubes, Pick(c)
    PROVE  LaneInv' /\ UNCHANGED <<upstream, region, state, job, assumed>>
<1>1. /\ c \in todo /\ todo' = todo \ {c} /\ cur' = c
      /\ pc' = (IF MergeOwed(cubes[c]) THEN "ask" ELSE "serve")
      /\ UNCHANGED <<upstream, region, state, job, assumed>>
  BY DEF Pick, Goto
<1>2. TypeOK'
  BY <1>1 DEF upstream, region, state, LaneInv, TypeOK, PCs
<1>3. cubes' = cubes
  BY <1>1 DEF state
<1>4. OneAtWork'
  BY <1>1, <1>3 DEF LaneInv, OneAtWork, MergePCs, MergeOwed
<1>5. FewFails' /\ QuarantineNamed'
  BY <1>3 DEF LaneInv, FewFails, QuarantineNamed
<1>6. QED
  BY <1>1, <1>2, <1>4, <1>5 DEF LaneInv

(* Every way to leave a cube whose debts are unchanged.                    *)
LEMMA LeaveSame ==
    ASSUME LaneInv, pc \notin {"idle", "next"}, NEW s, Same(cubes[cur], s), Leave(s),
           rel' = rel, table' = table, held' = held, done' = done,
           catalogued' = catalogued, newCubes' = newCubes, assumed' \subseteq Cubes,
           store' \in [Cubes -> Releases], csv' \in [Cubes -> SUBSET (Releases \cup {Older})]
    PROVE  /\ LaneInv'
           /\ \A c \in Cubes : Same(cubes[c], cubes'[c])
           /\ pc' = "next" /\ cur' = cur
<1>1. /\ Save(s) /\ pc' = "next" /\ job' = NoJob
      /\ UNCHANGED <<todo, cur>>
  BY DEF Leave, Goto
<1>2. cur \in Cubes /\ TypeOK
  BY AtWork DEF LaneInv
<1>3. /\ cubes' \in [Cubes -> CubeState]
      /\ \A c \in Cubes : Same(cubes[c], cubes'[c])
  BY <1>1, <1>2, SaveSame
<1>4. NoJob \in Jobs
  BY SLAssumption DEF NoJob, Jobs, Releases
<1>5. TypeOK'
  BY <1>1, <1>2, <1>3, <1>4 DEF TypeOK, PCs
<1>6. QED
  BY <1>1, <1>3, <1>5, SameKeeps

(* No record changes its debts.                                            *)
Debts == \A c \in Cubes : Same(cubes[c], cubes'[c])

(* Steps of the lane that leave the cubes alone.                           *)
LEMMA LaneIdle ==
    ASSUME LaneInv, LaneDies \/ IterationEnds
    PROVE  LaneInv' /\ Debts
<1>1. Debts
  BY SameSelf DEF LaneDies, IterationEnds, state, Debts, LaneInv, TypeOK
<1>2. NoJob \in Jobs
  BY SLAssumption DEF NoJob, Jobs, Releases
<1>3. TypeOK'
  BY <1>2 DEF LaneDies, IterationEnds, Goto, upstream, region, state, LaneInv, TypeOK, PCs
<1>4. todo' \subseteq todo /\ pc' = "idle"
  BY DEF LaneDies, IterationEnds, Goto
<1>5. QED
  BY <1>1, <1>3, <1>4, SameKeeps DEF Debts

(* Steps of merge_cube that change no debt.                                *)
LEMMA LaneMergeQuiet ==
    ASSUME LaneInv,
           AskFault \/ AskHeld \/ FetchOk \/ Publish \/ MergeTransient \/ PublishUnsure
    PROVE  LaneInv' /\ Debts
<1>1. TypeOK /\ job \in Jobs
  BY DEF LaneInv, TypeOK
<1>2. pc \in {"ask", "fetch", "publish"} /\ pc \notin {"idle", "next"}
  BY DEF AskFault, AskHeld, FetchOk, Publish, MergeTransient, PublishUnsure
<1>3. /\ cur \in Cubes /\ cubes[cur] \in CubeState
      /\ Same(cubes[cur], Backoff(cubes[cur]))
  BY <1>2, AtWork, BackoffFacts
<1>4. CASE AskFault
  BY <1>2, <1>3, <1>4, <1>1, LeaveSame DEF AskFault, upstream, region, TypeOK, Debts
<1>5. CASE MergeTransient
  BY <1>2, <1>3, <1>5, <1>1, LeaveSame DEF MergeTransient, upstream, region, TypeOK, Debts
<1>6. CASE PublishUnsure
  <2>1. store' \in [Cubes -> Releases]
    BY <1>1, <1>6 DEF PublishUnsure, TypeOK, Jobs
  <2>2. QED
    BY <1>2, <1>3, <1>6, <1>1, <2>1, LeaveSame DEF PublishUnsure, upstream, TypeOK, Debts
<1>7. CASE AskHeld
  <2> DEFINE s == [cubes[cur] EXCEPT !.inflight = cubes[cur].release]
  <2>1. Same(cubes[cur], s) /\ Save(s)
    BY <1>3, <1>7, InFlightFacts DEF AskHeld
  <2> HIDE DEF s
  <2>2. cubes' \in [Cubes -> CubeState] /\ Debts
    BY <1>1, <1>3, <2>1, SaveSame DEF Debts
  <2>3. cubes[cur].inflight \in Releases
    BY <1>3 DEF CubeState
  <2>4. job' \in Jobs
    BY <1>1, <1>7, <2>3 DEF AskHeld, Jobs
  <2>5. /\ pc = "ask" /\ pc' = "fetch"
        /\ UNCHANGED <<upstream, region, newCubes, todo, cur, assumed>>
    BY <1>7 DEF AskHeld, Goto
  <2>6. TypeOK'
    BY <1>1, <2>2, <2>4, <2>5 DEF upstream, region, TypeOK, PCs
  <2>7. QED
    BY <2>2, <2>5, <2>6, SameKeeps DEF Debts, MergePCs
<1>8. CASE FetchOk
  <2>1. /\ pc = "fetch" /\ pc' = "publish"
        /\ job' = [job EXCEPT !.got = table[cur][rel[cur]]]
        /\ UNCHANGED <<upstream, region, state, todo, cur, assumed>>
    BY <1>8 DEF FetchOk, Goto
  <2>2. table[cur][rel[cur]] \in Releases
    BY <1>1, <1>3 DEF TypeOK
  <2>3. job' \in Jobs
    BY <1>1, <2>1, <2>2 DEF Jobs
  <2>4. Debts
    BY <1>1, <2>1, SameSelf DEF Debts, TypeOK, state
  <2>5. TypeOK'
    BY <1>1, <2>1, <2>3 DEF upstream, region, state, TypeOK, PCs
  <2>6. QED
    BY <2>1, <2>4, <2>5, SameKeeps DEF Debts, MergePCs
<1>9. CASE Publish
  <2>1. /\ pc = "publish" /\ pc' = "record"
        /\ store' = [store EXCEPT ![cur] = job.got]
        /\ UNCHANGED <<upstream, held, csv, done, catalogued, state, todo, cur, assumed>>
    BY <1>9 DEF Publish, Goto
  <2>2. PICK changed \in {store[cur] # job.got, TRUE} : job' = [job EXCEPT !.changed = changed]
    BY <1>9 DEF Publish
  <2>3. job' \in Jobs
    BY <1>1, <2>2 DEF Jobs
  <2>4. store' \in [Cubes -> Releases]
    BY <1>1, <2>1 DEF TypeOK, Jobs
  <2>5. Debts
    BY <1>1, <2>1, SameSelf DEF Debts, TypeOK, state
  <2>6. TypeOK'
    BY <1>1, <2>1, <2>3, <2>4 DEF upstream, state, TypeOK, PCs
  <2>7. QED
    BY <2>1, <2>5, <2>6, SameKeeps DEF Debts, MergePCs
<1>10. QED
  BY <1>4, <1>5, <1>6, <1>7, <1>8, <1>9

(* A step that saves another record of the cube at work, and goes on to    *)
(* the next cube or to its serve.                                          *)
LEMMA SaveKeeps ==
    ASSUME LaneInv, TypeOK', pc \notin {"idle", "next"}, NEW s \in CubeState, Save(s),
           pc' \in {"next", "serve"}, UNCHANGED <<todo, cur>>,
           pc' = "serve" => ~s.quarantined,
           ~s.quarantined => s.fails < QuarantineAfter,
           s.quarantined => s.failRel = s.release
    PROVE  LaneInv'
<1>1. cur \in Cubes \ todo /\ TypeOK
  BY DEF LaneInv, OneAtWork
<1>2. cubes'[cur] = s /\ \A c \in Cubes : c # cur => cubes'[c] = cubes[c]
  BY <1>1, SaveFacts
<1>3. OneAtWork'
  BY <1>1, <1>2 DEF LaneInv, OneAtWork, MergePCs, TypeOK
<1>4. FewFails'
  BY <1>2 DEF LaneInv, FewFails
<1>5. QuarantineNamed'
  BY <1>2 DEF LaneInv, QuarantineNamed
<1>6. QED
  BY <1>3, <1>4, <1>5 DEF LaneInv

LEMMA LaneAbsent == LaneInv /\ AskAbsent => LaneInv'
<1> SUFFICES ASSUME LaneInv, AskAbsent PROVE LaneInv'
  OBVIOUS
<1> DEFINE s == Absent(cubes[cur])
<1>1. /\ pc = "ask" /\ newCubes' = newCubes \cup {cur} /\ Leave(s)
      /\ UNCHANGED <<upstream, region, assumed>>
  BY DEF AskAbsent
<1>2. /\ cur \in Cubes /\ cubes[cur] \in CubeState
      /\ ~cubes[cur].quarantined /\ cubes[cur].fails < QuarantineAfter
  BY <1>1, AtWork
<1>3. s \in CubeState /\ ~s.quarantined /\ s.fails < QuarantineAfter
  BY <1>2, AbsentFacts
<1> HIDE DEF s
<1>4. Save(s) /\ pc' = "next" /\ job' = NoJob /\ UNCHANGED <<todo, cur>>
  BY <1>1 DEF Leave, Goto
<1>5. NoJob \in Jobs
  BY SLAssumption DEF NoJob, Jobs, Releases
<1>6. TypeOK'
  BY <1>1, <1>2, <1>3, <1>4, <1>5, SaveFacts DEF LaneInv, upstream, region, TypeOK, PCs
<1>7. QED
  BY <1>1, <1>3, <1>4, <1>6, SaveKeeps

LEMMA LaneRefused == LaneInv /\ MergeRefused => LaneInv'
<1> SUFFICES ASSUME LaneInv, MergeRefused PROVE LaneInv'
  OBVIOUS
<1> DEFINE s == Deterministic(cubes[cur])
<1>1. /\ pc \in {"fetch", "publish"} /\ Leave(s)
      /\ UNCHANGED <<upstream, region, newCubes, assumed>>
  BY DEF MergeRefused
<1>2. /\ cur \in Cubes /\ cubes[cur] \in CubeState
      /\ cubes[cur].fails < QuarantineAfter
  BY <1>1, AtWork
<1>3. /\ s \in CubeState /\ s.failRel = s.release
      /\ s.quarantined <=> s.fails >= QuarantineAfter
  BY <1>2, DeterministicFacts
<1> HIDE DEF s
<1>4. ~s.quarantined => s.fails < QuarantineAfter
  BY <1>3, SLAssumption DEF CubeState
<1>5. Save(s) /\ pc' = "next" /\ job' = NoJob /\ UNCHANGED <<todo, cur>>
  BY <1>1 DEF Leave, Goto
<1>6. NoJob \in Jobs
  BY SLAssumption DEF NoJob, Jobs, Releases
<1>7. TypeOK'
  BY <1>1, <1>3, <1>5, <1>6, SaveFacts DEF LaneInv, upstream, region, TypeOK, PCs
<1>8. QED
  BY <1>1, <1>3, <1>4, <1>5, <1>7, SaveKeeps

LEMMA LaneRecord == LaneInv /\ RecordMerge => LaneInv'
<1> SUFFICES ASSUME LaneInv, RecordMerge PROVE LaneInv'
  OBVIOUS
<1>1. /\ pc = "record" /\ job' = NoJob
      /\ UNCHANGED <<upstream, region, newCubes, todo, cur>>
      /\ assumed' \subseteq assumed \cup {cur}
  BY DEF RecordMerge
<1>2. /\ cur \in Cubes /\ cubes[cur] \in CubeState /\ ~cubes[cur].quarantined
  BY <1>1, AtWork
<1>3. PICK serve \in BOOLEAN :
        /\ Save(Merged(cubes[cur], serve))
        /\ pc' \in {"serve", "next"}
  BY DEF RecordMerge, Goto, MustServe
<1> DEFINE s == Merged(cubes[cur], serve)
<1>4. s \in CubeState /\ ~s.quarantined /\ s.fails < QuarantineAfter
  BY <1>2, MergedFacts, SLAssumption
<1>5. Save(s)
  BY <1>3
<1> HIDE DEF s
<1>6. NoJob \in Jobs
  BY SLAssumption DEF NoJob, Jobs, Releases
<1>7. TypeOK'
  <2>1. assumed' \subseteq Cubes
    BY <1>1, <1>2 DEF LaneInv, TypeOK
  <2>2. QED
    BY <1>1, <1>3, <1>4, <1>5, <1>6, <2>1, SaveFacts DEF LaneInv, upstream, region, TypeOK, PCs
<1>8. QED
  BY <1>1, <1>3, <1>4, <1>5, <1>7, SaveKeeps

(* Serving changes no debt but the served release.                         *)
LEMMA LaneServe ==
    ASSUME LaneInv, ServeCube
    PROVE  LaneInv' /\ Debts
<1>1. TypeOK
  BY DEF LaneInv
<1>2. pc = "serve"
  BY DEF ServeCube, ServeFails, ServePuts, ServeRefused, ServeOk
<1>3. /\ cur \in Cubes /\ cubes[cur] \in CubeState
      /\ Same(cubes[cur], Backoff(cubes[cur]))
      /\ Same(cubes[cur], Served(cubes[cur]))
  BY <1>2, AtWork, BackoffFacts, ServedFacts
<1>4. store[cur] \in Releases
  BY <1>1, <1>3 DEF TypeOK
<1>5. ServeSome => csv' \in [Cubes -> SUBSET (Releases \cup {Older})]
  BY <1>1, <1>3, <1>4 DEF ServeSome, TypeOK
<1>6. CASE ServeFails
  BY <1>1, <1>2, <1>3, <1>5, <1>6, LeaveSame DEF ServeFails, upstream, TypeOK, Debts
<1>7. CASE ServeRefused
  BY <1>1, <1>2, <1>3, <1>7, LeaveSame DEF ServeRefused, upstream, region, TypeOK, Debts
<1>8. CASE ServeOk
  <2>1. csv' \in [Cubes -> SUBSET (Releases \cup {Older})]
    BY <1>1, <1>4, <1>8 DEF ServeOk, TypeOK
  <2>2. QED
    BY <1>1, <1>2, <1>3, <1>8, <2>1, LeaveSame DEF ServeOk, upstream, TypeOK, Debts
<1>9. CASE ServePuts
  <2>1. UNCHANGED <<upstream, held, store, done, catalogued, state, lane, assumed>>
    BY <1>9 DEF ServePuts
  <2>2. csv' \in [Cubes -> SUBSET (Releases \cup {Older})]
    BY <1>5, <1>9 DEF ServePuts
  <2>3. Debts
    BY <1>1, <2>1, SameSelf DEF Debts, state, TypeOK
  <2>4. TypeOK'
    BY <1>1, <2>1, <2>2 DEF upstream, state, lane, TypeOK
  <2>5. QED
    BY <1>2, <2>1, <2>3, <2>4, SameKeeps DEF Debts, MergePCs, lane
<1>10. QED
  BY <1>6, <1>7, <1>8, <1>9 DEF ServeCube

LEMMA LaneNext == LaneInv /\ [Next]_vars => LaneInv'
<1> SUFFICES ASSUME LaneInv, [Next]_vars PROVE LaneInv'
  OBVIOUS
<1>1. CASE UNCHANGED vars
  <2>1. \A c \in Cubes : Same(cubes[c], cubes'[c])
    BY <1>1, SameSelf DEF vars, state, LaneInv, TypeOK
  <2>2. TypeOK'
    BY <1>1 DEF vars, upstream, region, state, lane, LaneInv, TypeOK
  <2>3. QED
    BY <1>1, <2>1, <2>2, SameKeeps DEF vars, lane
<1>2. CASE LaneStep
  BY <1>2, LaneIdle, LaneEnumerate, LanePick, LaneMergeQuiet, LaneAbsent, LaneRefused,
     LaneRecord, LaneServe DEF LaneStep, MergeCube, Ask
<1>3. CASE StatCan
  BY <1>3, LaneRelease DEF StatCan
<1>4. QED
  BY <1>1, <1>2, <1>3 DEF Next

(* Every variable of the lane keeps its type, whatever fails and whenever  *)
(* StatCan releases.                                                       *)
THEOREM TypeCorrect == Spec => []TypeOK
<1>1. LaneInv => TypeOK
  BY DEF LaneInv
<1>2. QED
  BY <1>1, LaneInit, LaneNext, PTL DEF Spec

(* A quarantined cube owes the merge that failed.                          *)
LEMMA QuarantineNext == LaneInv /\ QuarantineIsCurrent /\ [Next]_vars => QuarantineIsCurrent'
<1> SUFFICES ASSUME LaneInv, QuarantineIsCurrent, [Next]_vars PROVE QuarantineIsCurrent'
  OBVIOUS
<1> USE DEF QuarantineIsCurrent
<1>1. ASSUME Debts PROVE QuarantineIsCurrent'
  BY <1>1 DEF Debts, Same, MergeOwed
<1>2. CASE UNCHANGED cubes
  BY <1>2 DEF MergeOwed
<1>3. ASSUME pc \notin {"idle", "next"}, NEW s \in CubeState, Save(s),
             s.quarantined => /\ s.failRel = s.release /\ s.fails >= QuarantineAfter
                              /\ MergeOwed(s)
      PROVE  QuarantineIsCurrent'
  <2>1. /\ cubes'[cur] = s
        /\ \A c \in Cubes : c # cur => cubes'[c] = cubes[c]
    BY <1>3, AtWork, SaveFacts DEF LaneInv
  <2>2. QED
    BY <1>3, <2>1 DEF MergeOwed
<1>4. CASE Enumerate
  BY <1>4, LaneEnumerate DEF MergeOwed
<1>5. CASE AskAbsent
  <2>1. pc = "ask" /\ Save(Absent(cubes[cur]))
    BY <1>5 DEF AskAbsent, Leave
  <2>2. QED
    BY <1>3, <2>1, AtWork, AbsentFacts
<1>6. CASE RecordMerge
  <2>1. /\ pc = "record"
        /\ \E serve \in BOOLEAN : Save(Merged(cubes[cur], serve))
    BY <1>6 DEF RecordMerge, MustServe
  <2>2. QED
    BY <1>3, <2>1, AtWork, MergedFacts
<1>7. CASE MergeRefused
  <2> DEFINE s == Deterministic(cubes[cur])
  <2>1. pc \in {"fetch", "publish"} /\ Save(s)
    BY <1>7 DEF MergeRefused, Leave
  <2>2. cubes[cur] \in CubeState /\ cubes[cur].fails < QuarantineAfter /\ MergeOwed(cubes[cur])
    BY <2>1, AtWork DEF LaneInv, OneAtWork, MergePCs
  <2>3. /\ s \in CubeState /\ s.failRel = s.release
        /\ s.quarantined <=> s.fails >= QuarantineAfter
        /\ MergeOwed(s)
    BY <2>2, DeterministicFacts DEF MergeOwed
  <2> HIDE DEF s
  <2>4. QED
    BY <1>3, <2>1, <2>3
<1>8. CASE StatCan
  <2>1. \A c \in Cubes : TimePasses(c) => Debts
    BY AwakeFacts, SameSelf DEF TimePasses, LaneInv, TypeOK, Debts
  <2>2. \A c \in Cubes : Release(c) => UNCHANGED cubes
    BY DEF Release, state
  <2>3. QED
    BY <1>1, <1>2, <1>8, <2>1, <2>2 DEF StatCan
<1>9. CASE UNCHANGED vars
  BY <1>2, <1>9 DEF vars, state
<1>10. CASE \E c \in Cubes : Pick(c)
  BY <1>2, <1>10 DEF Pick, state
<1>11. QED
  BY <1>1, <1>4, <1>5, <1>6, <1>7, <1>8, <1>9, <1>10, LaneIdle, LaneMergeQuiet, LaneServe
  DEF Next, LaneStep, MergeCube, Ask

(* A quarantine is always for the current release, and that one is not     *)
(* merged: _deterministic and the enumeration keep it so in every          *)
(* interleaving.                                                           *)
THEOREM QuarantineIsCurrentHolds == Spec => []QuarantineIsCurrent
<1>1. Init => QuarantineIsCurrent
  BY NoRecordFacts DEF Init, QuarantineIsCurrent
<1>2. QED
  BY <1>1, LaneInit, LaneNext, QuarantineNext, PTL DEF Spec

-----------------------------------------------------------------------------
(* What is recorded as merged is in the store *)

LEMMA StoreInit == Init => StoreInv
<1> SUFFICES ASSUME Init PROVE StoreInv
  OBVIOUS
<1>1. \A c \in Cubes : cubes[c] = NoRecord /\ rel[c] = 0 /\ table[c] = [r \in Releases |-> 0]
  BY DEF Init
<1>2. 0 \in Releases
  BY SLAssumption DEF Releases
<1>3. Behind /\ MergedIsInStore
  BY <1>1, NoRecordFacts DEF Behind, MergedIsInStore
<1>4. TablesGrow
  BY <1>1, <1>2 DEF TablesGrow
<1>5. Carries
  BY DEF Init, Carries
<1>6. QED
  BY <1>3, <1>4, <1>5 DEF StoreInv

(* The numbers that the arguments below compare.                           *)
LEMMA Numbers ==
    ASSUME TypeOK, NEW c \in Cubes
    PROVE  /\ rel[c] \in Nat /\ rel[c] \in Releases /\ store[c] \in Nat /\ job.got \in Nat
           /\ cubes[c].release \in Nat /\ cubes[c].merged \in Nat
           /\ cubes[c].release \in Releases /\ cubes[c].merged \in Releases
           /\ table[c] \in [Releases -> Releases]
           /\ \A r \in Releases : r \in Nat /\ table[c][r] \in Nat
<1>1. \A r \in Releases : r \in Nat
  BY SLAssumption DEF Releases
<1>2. cubes[c] \in CubeState /\ job \in Jobs
  BY DEF TypeOK
<1>3. QED
  BY <1>1, <1>2 DEF TypeOK, CubeState, Jobs

(* A table a record knows of is no later revision than a newer release's.  *)
LEMMA TableOrder ==
    ASSUME TypeOK, Behind, TablesGrow, NEW c \in Cubes
    PROVE  /\ table[c][cubes[c].merged] <= table[c][cubes[c].release]
           /\ table[c][cubes[c].release] <= table[c][rel[c]]
<1>1. /\ cubes[c].merged \in 0..rel[c] /\ cubes[c].release \in 0..rel[c] /\ rel[c] \in 0..rel[c]
      /\ cubes[c].merged <= cubes[c].release /\ cubes[c].release <= rel[c]
  BY Numbers DEF Behind
<1>2. QED
  BY <1>1 DEF TablesGrow

(* A step that changes no debt, publishes nothing and does not go to a     *)
(* state that carries a table.                                             *)
LEMMA StoreQuiet ==
    ASSUME TypeOK, StoreInv, Debts, UNCHANGED <<upstream, held, store>>,
           pc' \notin {"fetch", "publish", "record"} \/ UNCHANGED <<pc, cur, job>>
    PROVE  StoreInv'
<1>1. Behind'
  BY DEF StoreInv, Behind, Debts, Same, upstream
<1>2. TablesGrow'
  BY DEF StoreInv, TablesGrow, upstream
<1>3. MergedIsInStore'
  BY DEF StoreInv, MergedIsInStore, Debts, Same, upstream
<1>4. Carries'
  <2>1. CASE pc' \notin {"fetch", "publish", "record"}
    BY <2>1 DEF Carries
  <2>2. CASE UNCHANGED <<pc, cur, job>>
    <3>1. pc \in {"publish", "record"} => cubes'[cur].release = cubes[cur].release
      BY DEF StoreInv, Carries, Debts, Same, TypeOK
    <3>2. table' = table /\ store' = store /\ held' = held
      BY DEF upstream
    <3>3. QED
      BY <2>2, <3>1, <3>2 DEF StoreInv, Carries
  <2>3. QED
    BY <2>1, <2>2
<1>5. QED
  BY <1>1, <1>2, <1>3, <1>4 DEF StoreInv

(* A release adds a table behind every record.                             *)
LEMMA StoreRelease ==
    ASSUME TypeOK, StoreInv, NEW c \in Cubes, Release(c)
    PROVE  StoreInv'
<1> DEFINE n == rel[c] + 1
<1>1. PICK v \in {n, table[c][rel[c]]} : table' = [table EXCEPT ![c][n] = v]
  BY DEF Release
<1>2. /\ rel[c] < MaxRel /\ rel' = [rel EXCEPT ![c] = n]
      /\ UNCHANGED <<held, store, cubes, pc, cur, job>>
  BY DEF Release, region, state, lane
<1>3. /\ rel \in [Cubes -> Releases] /\ table \in [Cubes -> [Releases -> Releases]]
      /\ rel[c] \in Nat /\ rel[c] \in 0..rel[c]
  BY Numbers DEF TypeOK
<1>4. /\ rel'[c] = n /\ \A d \in Cubes : d # c => rel'[d] = rel[d] /\ table'[d] = table[d]
      /\ \A i \in Releases : i # n => table'[c][i] = table[c][i]
      /\ n \in Releases => table'[c][n] = v
  BY <1>1, <1>2, <1>3
<1>5. n \in Releases /\ n \in Nat
  <2>1. rel[c] \in Nat /\ rel[c] < MaxRel /\ MaxRel \in Nat
    BY <1>2, <1>3, SLAssumption
  <2>2. QED
    BY <2>1 DEF Releases
<1>6. \A i \in 0..rel[c] : i \in Releases /\ i # n /\ i \in Nat
  <2>1. rel[c] \in Nat /\ rel[c] < MaxRel /\ MaxRel \in Nat
    BY <1>2, <1>3, SLAssumption
  <2>2. SUFFICES ASSUME NEW x \in Nat, x < MaxRel, NEW i \in 0..x
                 PROVE  i \in 0..MaxRel /\ i # x + 1 /\ i \in Nat
    BY <2>1 DEF Releases
  <2>3. QED
    BY SLAssumption, <2>2
<1>7. v \in Nat /\ v <= n /\ \A i \in 0..rel[c] : table[c][i] <= v /\ table[c][i] \in Nat
  <2>1. \A i \in 0..rel[c] : /\ table[c][i] \in Nat /\ table[c][i] <= i
                             /\ table[c][i] <= table[c][rel[c]]
    BY <1>3, <1>6, Numbers DEF StoreInv, TablesGrow
  <2>2. table[c][rel[c]] <= rel[c] /\ table[c][rel[c]] \in Nat
    BY <1>3, <2>1
  <2>3. v = n \/ v = table[c][rel[c]]
    OBVIOUS
  <2>4. QED
    BY <1>3, <2>1, <2>2, <2>3
<1> HIDE DEF n
<1>8. n = rel[c] + 1
  BY DEF n
<1>9. TablesGrow'
  <2>1. ASSUME NEW d \in Cubes, NEW i \in 0..rel'[d], NEW j \in 0..rel'[d], i <= j
        PROVE  table'[d][i] <= i /\ table'[d][i] <= table'[d][j]
    <3>1. CASE d # c
      BY <1>4, <2>1, <3>1 DEF StoreInv, TablesGrow
    <3>2. CASE d = c /\ j # n
      <4>1. i \in 0..rel[c] /\ j \in 0..rel[c]
        BY <1>3, <1>4, <1>8, <2>1, <3>2
      <4>2. QED
        BY <1>4, <1>6, <2>1, <3>2, <4>1 DEF StoreInv, TablesGrow
    <3>3. CASE d = c /\ j = n /\ i # n
      <4>1. i \in 0..rel[c]
        BY <1>3, <1>4, <1>8, <2>1, <3>3
      <4>2. table'[c][i] = table[c][i] /\ table'[c][j] = v
        BY <1>4, <1>5, <1>6, <3>3, <4>1
      <4>3. QED
        BY <1>7, <3>3, <4>1, <4>2 DEF StoreInv, TablesGrow
    <3>4. CASE d = c /\ i = n /\ j = n
      BY <1>4, <1>5, <1>7, <3>4
    <3>5. QED
      BY <3>1, <3>2, <3>3, <3>4
  <2>2. \A d \in Cubes : \A i \in 0..rel'[d] : i <= i
    BY <1>3, <1>4, <1>5, <1>2
  <2>3. QED
    BY <2>1, <2>2 DEF TablesGrow
<1>10. Behind'
  <2>1. ASSUME NEW d \in Cubes
        PROVE  rel[d] <= rel'[d] /\ rel[d] \in Nat /\ rel'[d] \in Nat /\ cubes[d].release \in Nat
    <3>1. rel[d] \in Nat /\ cubes[d].release \in Nat
      BY Numbers
    <3>2. rel'[d] = rel[d] \/ rel'[d] = rel[d] + 1
      BY <1>4, <1>8
    <3>3. QED
      BY <3>1, <3>2
  <2>2. QED
    BY <1>2, <2>1 DEF StoreInv, Behind
<1>11. \A d \in Cubes : /\ table'[d][cubes[d].merged] = table[d][cubes[d].merged]
                        /\ table'[d][cubes[d].release] = table[d][cubes[d].release]
  <2>1. \A d \in Cubes : cubes[d].merged \in 0..rel[d] /\ cubes[d].release \in 0..rel[d]
    BY Numbers DEF StoreInv, Behind
  <2>2. QED
    BY <1>4, <1>6, <2>1
<1>12. MergedIsInStore'
  BY <1>2, <1>11 DEF StoreInv, MergedIsInStore
<1>13. Carries'
  BY <1>2, <1>11 DEF StoreInv, Carries, TypeOK
<1>14. QED
  BY <1>9, <1>10, <1>12, <1>13 DEF StoreInv

(* A step that saves a record with the same debts.                         *)
LEMMA TimeDebts ==
    ASSUME TypeOK, NEW c \in Cubes, TimePasses(c)
    PROVE  Debts
<1> DEFINE s == [cubes[c] EXCEPT !.waits = FALSE]
<1>1. Same(cubes[c], s) /\ cubes' = [cubes EXCEPT ![c] = s]
  BY AwakeFacts DEF TypeOK, TimePasses
<1> HIDE DEF s
<1>2. QED
  BY <1>1, SameSelf DEF Debts, TypeOK

LEMMA StoreEnumerate == LaneInv /\ StoreInv /\ Enumerate => StoreInv'
<1> SUFFICES ASSUME LaneInv, StoreInv, Enumerate PROVE StoreInv'
  OBVIOUS
<1>1. /\ pc' = "next" /\ UNCHANGED <<upstream, held, store>> /\ TypeOK
  BY DEF Enumerate, Goto, region, LaneInv
<1>2. \A c \in Cubes : /\ cubes'[c].release = rel[c]
                       /\ cubes'[c].merged = cubes[c].merged
                       /\ cubes'[c].notHeld = cubes[c].notHeld
  BY LaneEnumerate
<1>3. Behind'
  <2>1. \A c \in Cubes : cubes[c].merged <= rel[c] /\ rel[c] <= rel[c]
    BY <1>1, Numbers DEF StoreInv, Behind
  <2>2. QED
    BY <1>1, <1>2, <2>1 DEF Behind, upstream
<1>4. TablesGrow' /\ Carries'
  BY <1>1 DEF StoreInv, TablesGrow, Carries, upstream
<1>5. MergedIsInStore'
  BY <1>1, <1>2 DEF StoreInv, MergedIsInStore, upstream
<1>6. QED
  BY <1>3, <1>4, <1>5 DEF StoreInv

(* The cube at work and its numbers.                                       *)
LEMMA AtWorkNumbers ==
    ASSUME LaneInv, StoreInv, pc \notin {"idle", "next"}
    PROVE  /\ cur \in Cubes /\ TypeOK /\ cubes[cur] \in CubeState
           /\ cubes[cur].release \in Nat /\ rel[cur] \in Nat /\ store[cur] \in Nat
           /\ cubes[cur].merged <= cubes[cur].release /\ cubes[cur].release <= rel[cur]
           /\ table[cur][cubes[cur].merged] \in Nat /\ table[cur][cubes[cur].release] \in Nat
           /\ table[cur][cubes[cur].merged] <= table[cur][cubes[cur].release]
           /\ table[cur][cubes[cur].release] <= table[cur][rel[cur]]
           /\ job.got \in Nat
<1>1. cur \in Cubes /\ TypeOK /\ cubes[cur] \in CubeState
  BY AtWork DEF LaneInv
<1>2. QED
  BY <1>1, Numbers, TableOrder DEF StoreInv, Behind

(* The table fetched after the enumeration is the enumerated one or newer, *)
(* and the store never gets an older one than the record says.             *)
LEMMA StoreMerge ==
    ASSUME LaneInv, StoreInv, AskHeld \/ FetchOk \/ Publish \/ PublishUnsure
    PROVE  StoreInv'
<1>1. pc \notin {"idle", "next"}
  BY DEF AskHeld, FetchOk, Publish, PublishUnsure
<1>2. cur \in Cubes /\ TypeOK
  BY <1>1, AtWorkNumbers
<1>3. Debts
  BY LaneMergeQuiet
<1>4. UNCHANGED <<upstream, held>>
  BY DEF AskHeld, FetchOk, Publish, PublishUnsure, region
<1>5. Behind' /\ TablesGrow'
  BY <1>3, <1>4 DEF StoreInv, Behind, TablesGrow, Debts, Same, upstream
<1>6. cubes'[cur].release = cubes[cur].release
  BY <1>2, <1>3 DEF Debts, Same
<1>7. CASE AskHeld
  <2>1. pc' = "fetch" /\ cur \in held /\ UNCHANGED <<store, cur>>
    BY <1>7 DEF AskHeld, Goto, region
  <2>2. MergedIsInStore'
    BY <1>3, <1>4, <2>1 DEF StoreInv, MergedIsInStore, Debts, Same, upstream
  <2>3. Carries'
    BY <1>4, <2>1 DEF Carries
  <2>4. QED
    BY <1>5, <2>2, <2>3 DEF StoreInv
<1>8. CASE FetchOk
  <2>1. /\ pc = "fetch" /\ pc' = "publish" /\ UNCHANGED <<store, cur>>
        /\ job' = [job EXCEPT !.got = table[cur][rel[cur]]]
    BY <1>8 DEF FetchOk, Goto, region
  <2>2. job'.got = table[cur][rel[cur]]
    BY <1>2, <2>1 DEF TypeOK, Jobs
  <2>3. MergedIsInStore'
    BY <1>3, <1>4, <2>1 DEF StoreInv, MergedIsInStore, Debts, Same, upstream
  <2>4. table' = table /\ held' = held
    BY <1>4 DEF upstream
  <2>5. Carries'
    BY <1>1, <1>6, <2>1, <2>2, <2>4, AtWorkNumbers DEF StoreInv, Carries
  <2>6. QED
    BY <1>5, <2>3, <2>5 DEF StoreInv
<1>9. CASE Publish \/ PublishUnsure
  <2>1. /\ pc = "publish" /\ pc' \in {"record", "next"} /\ cur' = cur
        /\ store' = [store EXCEPT ![cur] = job.got]
    BY <1>9 DEF Publish, PublishUnsure, Leave, Goto
  <2>2. /\ store'[cur] = job.got /\ \A c \in Cubes : c # cur => store'[c] = store[c]
        /\ table' = table /\ held' = held
    BY <1>2, <1>4, <2>1 DEF TypeOK, upstream
  <2>3. table[cur][cubes[cur].release] <= job.got /\ cur \in held
    BY <2>1 DEF StoreInv, Carries
  <2>4. table[cur][cubes[cur].merged] <= job.got
    BY <1>1, <2>3, AtWorkNumbers
  <2>5. MergedIsInStore'
    <3>1. ASSUME NEW c \in Cubes, cubes[c].merged > 0, ~cubes[c].notHeld
          PROVE  c \in held /\ store'[c] >= table[c][cubes[c].merged]
      <4>1. CASE c = cur
        BY <1>1, <2>2, <2>3, <2>4, <4>1, AtWorkNumbers
      <4>2. CASE c # cur
        BY <2>2, <3>1, <4>2 DEF StoreInv, MergedIsInStore
      <4>3. QED
        BY <4>1, <4>2
    <3>2. QED
      BY <1>3, <2>2, <3>1 DEF MergedIsInStore, Debts, Same
  <2>6. Carries'
    BY <1>6, <2>1, <2>2, <2>3 DEF Carries
  <2>7. QED
    BY <1>5, <2>5, <2>6 DEF StoreInv
<1>10. QED
  BY <1>7, <1>8, <1>9

(* A step that saves a record of the cube at work which either keeps what  *)
(* is merged, or books the enumerated release while the store holds it, or *)
(* books it for a cube that is not held.                                   *)
LEMMA StoreSave ==
    ASSUME LaneInv, StoreInv, pc \notin {"idle", "next"}, NEW s \in CubeState, Save(s),
           UNCHANGED <<upstream, held, store>>, pc' \in {"next", "serve"},
           s.release = cubes[cur].release,
           \/ s.merged = cubes[cur].merged /\ s.notHeld = cubes[cur].notHeld
           \/ s.merged = s.release /\ pc = "record"
           \/ s.merged = s.release /\ s.notHeld
    PROVE  StoreInv'
<1>1. /\ cur \in Cubes /\ TypeOK
      /\ cubes[cur].merged <= cubes[cur].release /\ cubes[cur].release <= rel[cur]
      /\ cubes[cur].release \in Nat /\ rel[cur] \in Nat
  BY AtWorkNumbers
<1>2. cubes'[cur] = s /\ \A c \in Cubes : c # cur => cubes'[c] = cubes[c]
  BY <1>1, SaveFacts
<1>3. Behind'
  BY <1>1, <1>2 DEF StoreInv, Behind, upstream
<1>4. TablesGrow' /\ Carries'
  BY DEF StoreInv, TablesGrow, Carries, upstream
<1>5. ASSUME s.merged > 0, ~s.notHeld
      PROVE  cur \in held /\ store[cur] >= table[cur][s.merged]
  <2>1. CASE s.merged = cubes[cur].merged /\ s.notHeld = cubes[cur].notHeld
    BY <1>1, <1>5, <2>1 DEF StoreInv, MergedIsInStore
  <2>2. CASE s.merged = s.release /\ pc = "record"
    <3>1. cur \in held /\ table[cur][cubes[cur].release] <= store[cur]
      BY <2>2 DEF StoreInv, Carries
    <3>2. QED
      BY <2>2, <3>1, AtWorkNumbers
  <2>3. QED
    BY <1>5, <2>1, <2>2
<1>6. MergedIsInStore'
  BY <1>2, <1>5 DEF StoreInv, MergedIsInStore, upstream
<1>7. QED
  BY <1>3, <1>4, <1>6 DEF StoreInv

LEMMA StoreMergeCube ==
    ASSUME LaneInv, StoreInv, MergeCube
    PROVE  StoreInv'
<1>1. CASE AskFault \/ MergeTransient
  <2>1. Debts
    BY <1>1, LaneMergeQuiet
  <2>2. pc' = "next" /\ UNCHANGED <<upstream, held, store>> /\ TypeOK
    BY <1>1 DEF AskFault, MergeTransient, Leave, Goto, region, LaneInv
  <2>3. QED
    BY <2>1, <2>2, StoreQuiet
<1>2. CASE AskAbsent
  <2>1. /\ pc = "ask" /\ Save(Absent(cubes[cur])) /\ pc' = "next"
        /\ UNCHANGED <<upstream, held, store>>
    BY <1>2 DEF AskAbsent, Leave, Goto, region
  <2>2. cubes[cur] \in CubeState
    BY <2>1, AtWork
  <2>3. QED
    BY <2>1, <2>2, AbsentFacts, StoreSave
<1>3. CASE MergeRefused
  <2>1. /\ pc \in {"fetch", "publish"} /\ Save(Deterministic(cubes[cur])) /\ pc' = "next"
        /\ UNCHANGED <<upstream, held, store>>
    BY <1>3 DEF MergeRefused, Leave, Goto, region
  <2>2. cubes[cur] \in CubeState /\ cubes[cur].fails < QuarantineAfter
    BY <2>1, AtWork
  <2> DEFINE s == Deterministic(cubes[cur])
  <2>3. /\ s \in CubeState /\ s.release = cubes[cur].release
        /\ s.merged = cubes[cur].merged /\ s.notHeld = cubes[cur].notHeld
    BY <2>2, DeterministicFacts
  <2>4. QED
    BY <2>1, <2>3, StoreSave
<1>4. CASE RecordMerge
  <2>1. PICK serve \in BOOLEAN :
          /\ Save(Merged(cubes[cur], serve))
          /\ pc' \in {"serve", "next"}
    BY <1>4 DEF RecordMerge, Goto, MustServe
  <2>2. pc = "record" /\ UNCHANGED <<upstream, held, store>>
    BY <1>4 DEF RecordMerge, region
  <2>3. cubes[cur] \in CubeState
    BY <2>2, AtWork
  <2> DEFINE s == Merged(cubes[cur], serve)
  <2>4. s \in CubeState /\ s.release = cubes[cur].release /\ s.merged = s.release
    BY <2>3, MergedFacts
  <2>5. QED
    BY <2>1, <2>2, <2>4, StoreSave
<1>5. QED
  BY <1>1, <1>2, <1>3, <1>4, StoreMerge DEF MergeCube, Ask

LEMMA StoreNext == LaneInv /\ StoreInv /\ [Next]_vars => StoreInv'
<1> SUFFICES ASSUME LaneInv, StoreInv, [Next]_vars PROVE StoreInv'
  OBVIOUS
<1> USE DEF LaneInv
<1>1. CASE UNCHANGED vars
  <2>1. /\ UNCHANGED <<upstream, held, store>> /\ UNCHANGED <<pc, cur, job>>
        /\ cubes' = cubes
    BY <1>1 DEF vars, region, state, lane
  <2>2. Debts
    BY <2>1, SameSelf DEF Debts, TypeOK
  <2>3. QED
    BY <2>1, <2>2, StoreQuiet
<1>2. CASE StatCan
  <2>1. PICK c \in Cubes : Release(c) \/ TimePasses(c)
    BY <1>2 DEF StatCan
  <2>2. CASE Release(c)
    BY <2>2, StoreRelease
  <2>3. CASE TimePasses(c)
    <3>1. UNCHANGED <<upstream, held, store>> /\ UNCHANGED <<pc, cur, job>>
      BY <2>3 DEF TimePasses, region, lane
    <3>2. QED
      BY <2>3, <3>1, TimeDebts, StoreQuiet
  <2>4. QED
    BY <2>1, <2>2, <2>3
<1>3. CASE LaneDies \/ IterationEnds
  <2>1. pc' = "idle" /\ UNCHANGED <<upstream, held, store>>
    BY <1>3 DEF LaneDies, IterationEnds, Goto, region
  <2>2. QED
    BY <1>3, <2>1, LaneIdle, StoreQuiet
<1>4. ASSUME NEW c \in Cubes, Pick(c)
      PROVE  StoreInv'
  <2>1. /\ UNCHANGED <<upstream, held, store>> /\ cubes' = cubes
        /\ pc' \in {"ask", "serve"}
    BY <1>4 DEF Pick, Goto, region, state
  <2>2. Debts
    BY <2>1, SameSelf DEF Debts, TypeOK
  <2>3. QED
    BY <2>1, <2>2, StoreQuiet
<1>5. CASE ServeCube
  <2>1. pc' \in {"next", "serve"} /\ UNCHANGED <<upstream, held, store>>
    BY <1>5 DEF ServeCube, ServeFails, ServePuts, ServeRefused, ServeOk, Leave, Goto, region, lane
  <2>2. QED
    BY <1>5, <2>1, LaneServe, StoreQuiet
<1>6. QED
  BY <1>1, <1>2, <1>3, <1>4, <1>5, StoreEnumerate, StoreMergeCube DEF Next, LaneStep

(* A release recorded as merged is in the store, at that revision or a     *)
(* newer one: for any number of cubes and releases, whatever dies between  *)
(* the publish and the record, and whenever StatCan releases.              *)
THEOREM MergedIsInStoreHolds == Spec => []MergedIsInStore
<1> DEFINE Inv == LaneInv /\ StoreInv
<1>1. Init => Inv
  BY LaneInit, StoreInit
<1>2. Inv /\ [Next]_vars => Inv'
  BY LaneNext, StoreNext
<1>3. Inv => MergedIsInStore
  BY DEF StoreInv
<1>4. QED
  BY <1>1, <1>2, <1>3, PTL DEF Spec

-----------------------------------------------------------------------------
(* The tool beside the lane: no catalogue row without its object *)

(* The revisions that the tool and the lane write are revisions.           *)
Revisions == /\ rel \in [Cubes -> Releases]
             /\ table \in [Cubes -> [Releases -> Releases]]
             /\ store \in [Cubes -> Releases]
             /\ csv \in [Cubes -> SUBSET (Releases \cup {Older})]
             /\ receipt \in [Cubes -> Receipts]
             /\ job = [prior |-> job.prior, got |-> job.got, changed |-> job.changed]
             /\ job.got \in Releases
             /\ tool \in Cubes \cup {"none"}

(* From the receipt "served" on, every part has a CSV of the store's.      *)
ReceiptInv == \A c \in Cubes :
    /\ receipt[c].stage \in {"committed", "served", "catalogued", "done"} => c \in held
    /\ receipt[c].stage \in {"served", "catalogued", "done"} => Older \notin csv[c]

Listed == catalogued \subseteq Cubes /\ CatalogueBacked

(* A cube is being worked.                                                 *)
Working == pc \notin {"idle", "next"} => cur \in Cubes

BackedInv == Revisions /\ ReceiptInv /\ Listed

LEMMA WorkingHolds == SpecNew => []Working
<1>1. InitNew => Working
  BY DEF InitNew, Init, Working
<1>2. Working /\ [NextNew]_allVars => Working'
  <2> SUFFICES ASSUME Working, [NextNew]_allVars PROVE Working'
    OBVIOUS
  <2>1. CASE LaneStep
    BY <2>1 DEF Working, LaneStep, MergeCube, Ask, ServeCube, Enumerate, IterationEnds, LaneDies, Pick,
       Goto, Leave, AskAbsent, AskFault, AskHeld, FetchOk, Publish, RecordMerge, MergeTransient,
       PublishUnsure, MergeRefused, ServeFails, ServePuts, ServeRefused, ServeOk, lane
  <2>2. CASE UNCHANGED lane
    BY <2>2 DEF Working, lane
  <2>3. CASE StatCan
    BY <2>2, <2>3 DEF StatCan, Release, TimePasses
  <2>4. CASE ToolStep
    BY <2>2, <2>4 DEF ToolStep, Stop, Refuse, Commit, PublishNew, Restart, FinishCommit, PutSome,
       ServeNew, Catalogue, CatalogueReceipt, HandOver, TakenOver, Finish, Take, LaneOnly, vars
  <2>5. QED
    BY <2>1, <2>2, <2>3, <2>4 DEF NextNew, allVars, vars
<1>3. QED
  BY <1>1, <1>2, PTL DEF SpecNew

LEMMA OlderFacts == Older \notin Releases
BY SLAssumption DEF Older, Releases

LEMMA BackedInit == InitNew => BackedInv
<1> SUFFICES ASSUME InitNew PROVE BackedInv
  OBVIOUS
<1>1. 0 \in Releases /\ NoJob.got = 0
  BY SLAssumption DEF Releases, NoJob
<1>2. QED
  BY <1>1 DEF InitNew, Init, BackedInv, Revisions, ReceiptInv, Listed, CatalogueBacked,
              Receipts, Stages, NoJob

(* CSVs change to what the store holds.                                    *)
LEMMA CsvBacked ==
    ASSUME BackedInv, NEW c, csv' = [csv EXCEPT ![c] = csv'[c]],
           c \in Cubes => \E kept \in SUBSET csv[c] : csv'[c] = kept \cup {store[c]}
    PROVE  /\ csv' \in [Cubes -> SUBSET (Releases \cup {Older})]
           /\ \A d \in Cubes : Older \notin csv[d] => Older \notin csv'[d]
<1>1. CASE c \in Cubes
  BY <1>1, OlderFacts DEF BackedInv, Revisions
<1>2. CASE c \notin Cubes
  BY <1>2 DEF BackedInv, Revisions
<1>3. QED
  BY <1>1, <1>2

LEMMA BackedLane ==
    Working /\ BackedInv /\ (LaneStep \/ StatCan) /\ UNCHANGED toolVars => BackedInv'
<1> SUFFICES ASSUME Working, BackedInv, LaneStep \/ StatCan, UNCHANGED toolVars PROVE BackedInv'
  OBVIOUS
<1> USE DEF toolVars
<1>1. ASSUME UNCHANGED <<held, store, csv, catalogued, upstream>>,
             job' = NoJob \/ \E p \in {job.prior, cubes[cur].inflight}, b \in {job.changed, TRUE, FALSE} :
                                job' = [prior |-> p, got |-> job.got, changed |-> b]
      PROVE  BackedInv'
  <2>1. NoJob = [prior |-> 0, got |-> 0, changed |-> FALSE] /\ 0 \in Releases
    BY SLAssumption DEF NoJob, Releases
  <2>2. /\ job'.got \in Releases
        /\ job' = [prior |-> job'.prior, got |-> job'.got, changed |-> job'.changed]
    BY <1>1, <2>1 DEF BackedInv, Revisions
  <2>3. QED
    BY <1>1, <2>2 DEF BackedInv, Revisions, ReceiptInv, Listed, CatalogueBacked, upstream
<1>2. ASSUME UNCHANGED job PROVE job' = [prior |-> job.prior, got |-> job.got, changed |-> job.changed]
  BY <1>2 DEF BackedInv, Revisions
<1>3. CASE Enumerate \/ IterationEnds \/ \E c \in Cubes : Pick(c) \/ TimePasses(c)
  BY <1>1, <1>2, <1>3 DEF Enumerate, IterationEnds, Pick, TimePasses, region, lane
<1>4. CASE LaneDies \/ AskAbsent \/ AskFault \/ MergeTransient \/ MergeRefused \/ ServeRefused
           \/ RecordMerge
  BY <1>1, <1>4 DEF LaneDies, AskAbsent, AskFault, MergeTransient, MergeRefused, ServeRefused,
                    RecordMerge, Leave, region
<1>5. CASE AskHeld
  <2>1. job' = [prior |-> cubes[cur].inflight, got |-> job.got, changed |-> job.changed]
    BY <1>5 DEF AskHeld, BackedInv, Revisions
  <2>2. QED
    BY <1>1, <1>5, <2>1 DEF AskHeld, region
<1>6. ASSUME NEW c \in Cubes, Release(c) PROVE BackedInv'
  <2>1. /\ UNCHANGED <<held, store, csv, catalogued, job>>
        /\ rel[c] + 1 \in Releases /\ rel' = [rel EXCEPT ![c] = rel[c] + 1]
    BY <1>6, SLAssumption DEF Release, region, lane, BackedInv, Revisions, Releases
  <2>2. PICK v \in {rel[c] + 1, table[c][rel[c]]} : table' = [table EXCEPT ![c][rel[c] + 1] = v]
    BY <1>6 DEF Release
  <2>3. v \in Releases
    BY <2>1, <2>2 DEF BackedInv, Revisions
  <2>4. table' \in [Cubes -> [Releases -> Releases]] /\ rel' \in [Cubes -> Releases]
    BY <2>1, <2>2, <2>3 DEF BackedInv, Revisions
  <2>5. QED
    BY <2>1, <2>4 DEF BackedInv, Revisions, ReceiptInv, Listed, CatalogueBacked
<1>7. CASE FetchOk
  <2>1. /\ UNCHANGED <<held, store, csv, catalogued, upstream>>
        /\ job' = [prior |-> job.prior, got |-> table[cur][rel[cur]], changed |-> job.changed]
    BY <1>7 DEF FetchOk, region, BackedInv, Revisions
  <2>2. cur \in Cubes
    BY <1>7 DEF FetchOk, Working
  <2>3. table[cur][rel[cur]] \in Releases
    BY <2>2 DEF BackedInv, Revisions
  <2>4. QED
    BY <2>1, <2>3 DEF BackedInv, Revisions, ReceiptInv, Listed, CatalogueBacked, upstream
<1>8. CASE Publish \/ PublishUnsure
  <2>1. /\ UNCHANGED <<held, csv, catalogued, upstream>> /\ store' = [store EXCEPT ![cur] = job.got]
        /\ job' = NoJob \/ \E b : job' = [prior |-> job.prior, got |-> job.got, changed |-> b]
    BY <1>8 DEF Publish, PublishUnsure, Leave, BackedInv, Revisions
  <2>2. /\ job'.got \in Releases
        /\ job' = [prior |-> job'.prior, got |-> job'.got, changed |-> job'.changed]
    BY <2>1, SLAssumption DEF NoJob, Releases, BackedInv, Revisions
  <2>3. QED
    BY <2>1, <2>2 DEF BackedInv, Revisions, ReceiptInv, Listed, CatalogueBacked, upstream
<1>9. CASE ServeFails \/ ServePuts \/ ServeOk
  <2>1. /\ UNCHANGED <<held, store, catalogued, upstream>> /\ job' \in {job, NoJob}
    BY <1>9 DEF ServeFails, ServePuts, ServeOk, Leave, lane
  <2>2. /\ job'.got \in Releases
        /\ job' = [prior |-> job'.prior, got |-> job'.got, changed |-> job'.changed]
    BY <2>1, SLAssumption DEF NoJob, Releases, BackedInv, Revisions
  <2>3. csv' = csv \/ \E kept \in SUBSET csv[cur] : csv' = [csv EXCEPT ![cur] = kept \cup {store[cur]}]
    <3>1. CASE ServeFails \/ ServePuts
      BY <3>1 DEF ServeFails, ServePuts, ServeSome
    <3>2. CASE ServeOk
      <4>1. {} \in SUBSET csv[cur] /\ {store[cur]} = {} \cup {store[cur]}
        OBVIOUS
      <4>2. csv' = csv \/ csv' = [csv EXCEPT ![cur] = {} \cup {store[cur]}]
        BY <3>2, <4>1 DEF ServeOk
      <4>3. QED
        BY <4>1, <4>2
    <3>3. QED
      BY <1>9, <3>1, <3>2
  <2>4. /\ csv' \in [Cubes -> SUBSET (Releases \cup {Older})]
        /\ \A d \in Cubes : Older \notin csv[d] => Older \notin csv'[d]
    <3>1. CASE csv' = csv
      BY <3>1 DEF BackedInv, Revisions
    <3>2. ASSUME NEW kept \in SUBSET csv[cur], csv' = [csv EXCEPT ![cur] = kept \cup {store[cur]}]
          PROVE  /\ csv' = [csv EXCEPT ![cur] = csv'[cur]]
                 /\ cur \in Cubes => csv'[cur] = kept \cup {store[cur]}
      BY <3>2 DEF BackedInv, Revisions
    <3>3. QED
      BY <2>3, <3>1, <3>2, CsvBacked
  <2>5. QED
    BY <2>1, <2>2, <2>4 DEF BackedInv, Revisions, ReceiptInv, Listed, CatalogueBacked, upstream
<1>10. QED
  BY <1>3, <1>4, <1>5, <1>6, <1>7, <1>8, <1>9 DEF LaneStep, StatCan, MergeCube, Ask, ServeCube

(* A receipt that is saved with a new stage.                               *)
LEMMA StageFacts ==
    ASSUME Revisions, tool \in Cubes, NEW stage \in Stages, Stage(stage)
    PROVE  /\ receipt' \in [Cubes -> Receipts]
           /\ receipt'[tool].stage = stage
           /\ \A c \in Cubes : c # tool => receipt'[c] = receipt[c]
BY DEF Revisions, Stage, Receipts

LEMMA BackedTool == BackedInv /\ ToolStep => BackedInv'
<1> SUFFICES ASSUME BackedInv, ToolStep PROVE BackedInv'
  OBVIOUS
<1> USE DEF toolVars
<1>0. Revisions /\ ReceiptInv /\ Listed /\ (tool = "none" \/ tool \in Cubes)
  BY DEF BackedInv, Revisions
<1>1. ASSUME UNCHANGED <<upstream, held, store, csv, catalogued, job, receipt>>,
             tool' \in Cubes \cup {"none"}
      PROVE  BackedInv'
  BY <1>0, <1>1 DEF BackedInv, Revisions, ReceiptInv, Listed, CatalogueBacked, upstream
<1>2. CASE Stop \/ \E c \in Cubes : Take(c)
  BY <1>1, <1>2 DEF Stop, Take, vars, region, lane
<1>3. CASE HandOver \/ TakenOver
  BY <1>0, <1>1, <1>3 DEF HandOver, TakenOver, LaneOnly, lane, Revisions
(* A step that saves a stage, and changes nothing but the .done records.   *)
<1>4. ASSUME NEW stage \in Stages, Stage(stage), tool \in Cubes, tool' \in Cubes \cup {"none"},
             UNCHANGED <<upstream, held, store, csv, catalogued, job>>,
             stage \in {"committed", "served", "catalogued", "done"} => tool \in held,
             stage \in {"served", "catalogued", "done"} => Older \notin csv[tool]
      PROVE  BackedInv'
  BY <1>0, <1>4, StageFacts
  DEF BackedInv, Revisions, ReceiptInv, Listed, CatalogueBacked, upstream
<1>5. CASE Refuse
  BY <1>0, <1>4, <1>5 DEF Refuse, At, Stages, vars, region, lane
<1>6. CASE Restart
  BY <1>0, <1>4, <1>6 DEF Restart, At, Stages, vars, region, lane
<1>7. CASE FinishCommit
  BY <1>0, <1>4, <1>7 DEF FinishCommit, At, Stages, lane
<1>8. CASE CatalogueReceipt
  BY <1>0, <1>4, <1>8 DEF CatalogueReceipt, At, Stages, vars, region, lane, ReceiptInv
<1>9. CASE Finish
  BY <1>0, <1>4, <1>9 DEF Finish, At, Stages, vars, region, lane, ReceiptInv
<1>10. CASE Commit
  <2>1. tool \in Cubes /\ tool \notin held /\ UNCHANGED <<vars, tool>>
    BY <1>0, <1>10 DEF Commit, At
  <2>2. receipt' = [receipt EXCEPT ![tool] = [stage |-> "committing", table |-> table[tool][rel[tool]]]]
    BY <1>10 DEF Commit
  <2>3. table[tool][rel[tool]] \in Releases
    BY <1>0, <2>1 DEF Revisions
  <2>4. [stage |-> "committing", table |-> table[tool][rel[tool]]] \in Receipts
    BY <2>3 DEF Receipts, Stages
  <2>5. receipt' \in [Cubes -> Receipts]
    BY <1>0, <2>2, <2>4 DEF Revisions
  <2>6. \A c \in Cubes : receipt'[c] = receipt[c] \/ receipt'[c].stage = "committing"
    BY <1>0, <2>2 DEF Revisions
  <2>7. QED
    BY <1>0, <2>1, <2>5, <2>6 DEF BackedInv, Revisions, ReceiptInv, Listed, CatalogueBacked,
       vars, upstream, region, lane
<1>11. CASE PublishNew
  <2>1. /\ tool \in Cubes /\ held' = held \cup {tool}
        /\ store' = [store EXCEPT ![tool] = receipt[tool].table]
        /\ UNCHANGED <<upstream, csv, catalogued, job, receipt, tool>>
    BY <1>0, <1>11 DEF PublishNew, At, lane
  <2>2. receipt[tool].table \in Releases
    BY <1>0, <2>1 DEF Revisions, Receipts
  <2>3. QED
    BY <1>0, <2>1, <2>2 DEF BackedInv, Revisions, ReceiptInv, Listed, CatalogueBacked, upstream
<1>12. CASE PutSome
  <2>1. /\ tool \in Cubes
        /\ UNCHANGED <<upstream, held, store, catalogued, job, receipt, tool>>
    BY <1>0, <1>12 DEF PutSome, At, lane
  <2>2. PICK kept \in SUBSET csv[tool] : csv' = [csv EXCEPT ![tool] = kept \cup {store[tool]}]
    BY <1>12 DEF PutSome
  <2>3. csv' = [csv EXCEPT ![tool] = csv'[tool]] /\ csv'[tool] = kept \cup {store[tool]}
    BY <1>0, <2>1, <2>2 DEF Revisions
  <2>4. /\ csv' \in [Cubes -> SUBSET (Releases \cup {Older})]
        /\ \A d \in Cubes : Older \notin csv[d] => Older \notin csv'[d]
    BY <2>3, CsvBacked
  <2>5. QED
    BY <1>0, <2>1, <2>4 DEF BackedInv, Revisions, ReceiptInv, Listed, CatalogueBacked, upstream
<1>13. CASE ServeNew
  <2>1. /\ tool \in Cubes /\ Stage("served") /\ tool \in held
        /\ csv' = [csv EXCEPT ![tool] = {store[tool]}]
        /\ UNCHANGED <<upstream, held, store, catalogued, job, tool>>
    BY <1>0, <1>13 DEF ServeNew, At, lane, ReceiptInv
  <2>2. store[tool] \in Releases /\ store[tool] # Older
    BY <1>0, <2>1, OlderFacts DEF Revisions
  <2>3. /\ csv' \in [Cubes -> SUBSET (Releases \cup {Older})]
        /\ Older \notin csv'[tool]
        /\ \A d \in Cubes : d # tool => csv'[d] = csv[d]
    BY <1>0, <2>1, <2>2 DEF Revisions
  <2>4. /\ receipt' \in [Cubes -> Receipts]
        /\ \A c \in Cubes : c # tool => receipt'[c] = receipt[c]
    BY <1>0, <2>1, StageFacts DEF Stages
  <2>5. ReceiptInv'
    BY <1>0, <2>1, <2>3, <2>4 DEF ReceiptInv
  <2>6. QED
    BY <1>0, <2>1, <2>3, <2>4, <2>5 DEF BackedInv, Revisions, Listed, CatalogueBacked, upstream
<1>14. CASE Catalogue
  <2>1. /\ tool \in Cubes /\ catalogued' = catalogued \cup {tool}
        /\ tool \in held /\ Older \notin csv[tool]
        /\ UNCHANGED <<upstream, held, store, csv, job, receipt, tool>>
    BY <1>0, <1>14 DEF Catalogue, At, lane, ReceiptInv
  <2>2. QED
    BY <1>0, <2>1 DEF BackedInv, Revisions, ReceiptInv, Listed, CatalogueBacked, upstream
<1>15. QED
  BY <1>2, <1>3, <1>5, <1>6, <1>7, <1>8, <1>9, <1>10, <1>11, <1>12, <1>13, <1>14 DEF ToolStep

(* Objects before catalogue rows, wherever the tool and the lane stop.     *)
THEOREM CatalogueBackedHolds == SpecNew => []CatalogueBacked
<1>1. BackedInv /\ UNCHANGED allVars => BackedInv'
  BY DEF allVars, vars, upstream, region, lane, toolVars, BackedInv, Revisions, ReceiptInv,
         Listed, CatalogueBacked
<1>2. Working /\ BackedInv /\ [NextNew]_allVars => BackedInv'
  BY <1>1, BackedLane, BackedTool DEF NextNew
<1>3. BackedInv => CatalogueBacked
  BY DEF BackedInv, Listed
<1>4. QED
  BY WorkingHolds, BackedInit, <1>2, <1>3, PTL DEF SpecNew

-----------------------------------------------------------------------------
(* The tool beside the lane: types, and no new cube is forgotten *)

(* The tool works on a cube only while the lane waits.                     *)
LaneWaits == tool # "none" => pc = "idle"

ToolTypes == receipt \in [Cubes -> Receipts] /\ tool \in Cubes \cup {"none"}

NewInv == LaneInv /\ ToolTypes /\ LaneWaits /\ NewCubeIsListed

LEMMA NewInit == InitNew => NewInv
<1> SUFFICES ASSUME InitNew PROVE NewInv
  OBVIOUS
<1>1. Init /\ 0 \in Releases
  BY SLAssumption DEF InitNew, Releases
<1>2. NewCubeIsListed
  BY <1>1, NoRecordFacts DEF Init, NewCubeIsListed
<1>3. QED
  BY <1>1, <1>2, LaneInit DEF InitNew, NewInv, ToolTypes, LaneWaits, Receipts, Stages

(* The lane drops a cube from its new ones only when it holds it.          *)
LEMMA ListedLane ==
    LaneInv /\ NewCubeIsListed /\ (LaneStep \/ StatCan) => NewCubeIsListed'
<1> SUFFICES ASSUME LaneInv, NewCubeIsListed, LaneStep \/ StatCan PROVE NewCubeIsListed'
  OBVIOUS
<1> USE DEF NewCubeIsListed
<1>1. ASSUME Debts, newCubes' = newCubes PROVE NewCubeIsListed'
  BY <1>1 DEF Debts, Same
<1>2. CASE UNCHANGED state
  BY <1>2 DEF state
<1>3. ASSUME pc \notin {"idle", "next"}, NEW s \in CubeState, Save(s),
             newCubes \subseteq newCubes', s.notHeld => cur \in newCubes'
      PROVE  NewCubeIsListed'
  <2>1. /\ cubes'[cur] = s
        /\ \A c \in Cubes : c # cur => cubes'[c] = cubes[c]
    BY <1>3, AtWork, SaveFacts DEF LaneInv
  <2>2. QED
    BY <1>3, <2>1
<1>4. CASE Enumerate
  BY <1>4, LaneEnumerate DEF Enumerate
<1>5. CASE AskAbsent
  <2>1. pc = "ask" /\ Save(Absent(cubes[cur])) /\ newCubes' = newCubes \cup {cur}
    BY <1>5 DEF AskAbsent, Leave
  <2>2. QED
    BY <1>3, <2>1, AtWork, AbsentFacts
<1>6. CASE RecordMerge
  <2>1. /\ pc = "record" /\ newCubes' = newCubes
        /\ \E serve \in BOOLEAN : Save(Merged(cubes[cur], serve))
    BY <1>6 DEF RecordMerge, MustServe
  <2>2. QED
    BY <1>3, <2>1, AtWork, MergedFacts
<1>7. CASE MergeRefused
  <2> DEFINE s == Deterministic(cubes[cur])
  <2>1. pc \in {"fetch", "publish"} /\ Save(s) /\ newCubes' = newCubes
    BY <1>7 DEF MergeRefused, Leave
  <2>2. cur \in Cubes /\ cubes[cur] \in CubeState /\ cubes[cur].fails < QuarantineAfter
    BY <2>1, AtWork
  <2>3. s \in CubeState /\ s.notHeld = cubes[cur].notHeld
    BY <2>2, DeterministicFacts
  <2> HIDE DEF s
  <2>4. QED
    BY <1>3, <2>1, <2>2, <2>3
<1>8. CASE StatCan
  <2>1. \A c \in Cubes : TimePasses(c) => Debts /\ newCubes' = newCubes
    BY AwakeFacts, SameSelf DEF TimePasses, LaneInv, TypeOK, Debts
  <2>2. \A c \in Cubes : Release(c) => UNCHANGED state
    BY DEF Release
  <2>3. QED
    BY <1>1, <1>2, <1>8, <2>1, <2>2 DEF StatCan
<1>9. CASE \E c \in Cubes : Pick(c)
  BY <1>2, <1>9 DEF Pick
<1>10. CASE LaneDies \/ IterationEnds
  BY <1>2, <1>10 DEF LaneDies, IterationEnds
<1>11. CASE AskFault \/ AskHeld \/ FetchOk \/ Publish \/ MergeTransient \/ PublishUnsure
  <2>1. newCubes' = newCubes
    BY <1>11 DEF AskFault, AskHeld, FetchOk, Publish, MergeTransient, PublishUnsure, state
  <2>2. QED
    BY <1>1, <1>11, <2>1, LaneMergeQuiet
<1>12. CASE ServeCube
  <2>1. newCubes' = newCubes
    BY <1>12 DEF ServeCube, ServeFails, ServePuts, ServeRefused, ServeOk, state
  <2>2. QED
    BY <1>1, <1>12, <2>1, LaneServe
<1>13. QED
  BY <1>4, <1>5, <1>6, <1>7, <1>8, <1>9, <1>10, <1>11, <1>12 DEF LaneStep, MergeCube, Ask

(* The records stay what the lane may find, whatever of its region the     *)
(* tool writes.                                                            *)
LEMMA ToolKeeps ==
    ASSUME LaneInv, UNCHANGED <<upstream, lane>>, assumed' \subseteq Cubes,
           held' \subseteq Cubes, done' \subseteq Cubes, catalogued' \subseteq Cubes,
           newCubes' \subseteq Cubes, store' \in [Cubes -> Releases],
           csv' \in [Cubes -> SUBSET (Releases \cup {Older})],
           cubes' \in [Cubes -> CubeState], pc = "idle" \/ cubes' = cubes,
           \A c \in Cubes : /\ cubes'[c].quarantined = cubes[c].quarantined
                            /\ cubes'[c].failRel = cubes[c].failRel
                            /\ cubes'[c].release = cubes[c].release
                            /\ cubes'[c].fails \in {cubes[c].fails, 0}
    PROVE  LaneInv'
<1>1. TypeOK'
  BY DEF upstream, lane, LaneInv, TypeOK
<1>2. OneAtWork'
  BY DEF lane, LaneInv, OneAtWork, MergeOwed, MergePCs, TypeOK
<1>3. FewFails' /\ QuarantineNamed'
  BY SLAssumption DEF LaneInv, FewFails, QuarantineNamed
<1>4. QED
  BY <1>1, <1>2, <1>3 DEF LaneInv

(* The records that the tool saves.                                        *)
LEMMA HandedFacts ==
    ASSUME NEW s \in CubeState
    PROVE  LET t == [s EXCEPT !.merged = s.release, !.served = s.release, !.fails = 0,
                              !.waits = FALSE, !.notHeld = FALSE]
               u == [s EXCEPT !.served = 0]
           IN  /\ t \in CubeState /\ u \in CubeState
               /\ t.quarantined = s.quarantined /\ u.quarantined = s.quarantined
               /\ t.failRel = s.failRel /\ u.failRel = s.failRel
               /\ t.release = s.release /\ u.release = s.release
               /\ t.fails = 0 /\ u.fails = s.fails
               /\ ~t.notHeld /\ u.notHeld = s.notHeld
<1>1. 0 \in Releases /\ 0 \in 0..QuarantineAfter
  BY SLAssumption DEF Releases
<1>2. QED
  BY <1>1 DEF CubeState

LEMMA NewTool == NewInv /\ ToolStep => NewInv'
<1> SUFFICES ASSUME NewInv, ToolStep PROVE NewInv'
  OBVIOUS
<1> USE DEF toolVars
<1>0. /\ LaneInv /\ ToolTypes /\ LaneWaits /\ NewCubeIsListed
      /\ TypeOK /\ (tool = "none" \/ tool \in Cubes)
  BY DEF NewInv, ToolTypes, LaneInv
<1>1. ASSUME NEW stage \in Stages, tool \in Cubes, Stage(stage)
      PROVE  receipt' \in [Cubes -> Receipts]
  BY <1>0, <1>1 DEF Stage, ToolTypes, Receipts
(* A step that changes no record of the lane.                              *)
<1>2. ASSUME UNCHANGED <<upstream, state, lane>>, ToolTypes',
             pc = "idle", assumed' \subseteq assumed,
             held' \subseteq Cubes, done' \subseteq Cubes, catalogued' \subseteq Cubes,
             store' \in [Cubes -> Releases],
             csv' \in [Cubes -> SUBSET (Releases \cup {Older})]
      PROVE  NewInv'
  <2>1. LaneInv'
    BY <1>0, <1>2, ToolKeeps DEF state, TypeOK
  <2>2. LaneWaits' /\ NewCubeIsListed'
    BY <1>0, <1>2 DEF lane, state, LaneWaits, NewCubeIsListed
  <2>3. QED
    BY <1>2, <2>1, <2>2 DEF NewInv
<1>3. ASSUME UNCHANGED vars, ToolTypes', pc = "idle" PROVE NewInv'
  BY <1>0, <1>2, <1>3 DEF vars, region, TypeOK
<1>4. CASE Stop \/ \E c \in Cubes : Take(c)
  <2>1. UNCHANGED vars /\ receipt' = receipt /\ tool' \in Cubes \cup {"none"} /\ pc = "idle"
    BY <1>0, <1>4 DEF Stop, Take, LaneWaits
  <2>2. QED
    BY <1>0, <1>3, <2>1 DEF ToolTypes
<1>5. ASSUME tool # "none" PROVE tool \in Cubes /\ pc = "idle"
  BY <1>0, <1>5 DEF LaneWaits
<1>6. CASE Refuse \/ Restart \/ CatalogueReceipt \/ Finish
  <2>1. /\ UNCHANGED vars /\ tool' \in {tool, "none"} /\ tool # "none"
        /\ \E stage \in Stages : Stage(stage)
    BY <1>6 DEF Refuse, Restart, CatalogueReceipt, Finish, At, Stages
  <2>2. QED
    BY <1>1, <1>3, <1>5, <2>1 DEF ToolTypes
<1>7. CASE Commit
  <2>1. /\ UNCHANGED vars /\ tool' = tool /\ tool # "none"
        /\ receipt' = [receipt EXCEPT ![tool] =
                          [stage |-> "committing", table |-> table[tool][rel[tool]]]]
    BY <1>7 DEF Commit, At
  <2>2. tool \in Cubes /\ table[tool][rel[tool]] \in Releases
    BY <1>0, <1>5, <2>1 DEF TypeOK
  <2>3. [stage |-> "committing", table |-> table[tool][rel[tool]]] \in Receipts
    BY <2>2 DEF Receipts, Stages
  <2>4. receipt' \in [Cubes -> Receipts]
    BY <1>0, <2>1, <2>2, <2>3 DEF ToolTypes
  <2>5. QED
    BY <1>3, <1>5, <2>1, <2>4 DEF ToolTypes
<1>8. CASE PublishNew
  <2>1. /\ tool # "none" /\ held' = held \cup {tool}
        /\ store' = [store EXCEPT ![tool] = receipt[tool].table]
        /\ UNCHANGED <<upstream, csv, done, catalogued, state, lane, receipt, tool, assumed>>
    BY <1>8 DEF PublishNew, At
  <2>2. tool \in Cubes /\ receipt[tool].table \in Releases
    BY <1>0, <1>5, <2>1 DEF ToolTypes, Receipts
  <2>3. QED
    BY <1>0, <1>2, <1>5, <2>1, <2>2 DEF ToolTypes, TypeOK
<1>9. CASE FinishCommit
  <2>1. /\ tool # "none" /\ done' = done \cup {tool} /\ Stage("committed")
        /\ UNCHANGED <<upstream, held, store, csv, catalogued, state, lane, tool, assumed>>
    BY <1>9 DEF FinishCommit, At
  <2>2. QED
    BY <1>0, <1>1, <1>2, <1>5, <2>1 DEF ToolTypes, TypeOK, Stages
<1>10. CASE PutSome \/ ServeNew
  <2>1. /\ tool # "none" /\ (receipt' = receipt \/ Stage("served"))
        /\ UNCHANGED <<upstream, held, store, done, catalogued, state, lane, tool>>
        /\ assumed' \subseteq assumed
    BY <1>10 DEF PutSome, ServeNew, At
  <2>2. tool \in Cubes /\ store[tool] \in Releases
    BY <1>0, <1>5, <2>1 DEF TypeOK
  <2>3. \E parts \in SUBSET (Releases \cup {Older}) : csv' = [csv EXCEPT ![tool] = parts]
    <3>1. CASE PutSome
      <4>1. PICK kept \in SUBSET csv[tool] : csv' = [csv EXCEPT ![tool] = kept \cup {store[tool]}]
        BY <3>1 DEF PutSome
      <4>2. kept \cup {store[tool]} \in SUBSET (Releases \cup {Older})
        BY <1>0, <2>2, <4>1 DEF TypeOK
      <4>3. QED
        BY <4>1, <4>2
    <3>2. CASE ServeNew
      BY <2>2, <3>2 DEF ServeNew
    <3>3. QED
      BY <1>10, <3>1, <3>2
  <2>4. csv' \in [Cubes -> SUBSET (Releases \cup {Older})]
    BY <1>0, <2>3 DEF TypeOK
  <2>5. ToolTypes'
    BY <1>0, <1>1, <1>5, <2>1 DEF ToolTypes, Stages
  <2>6. QED
    BY <1>0, <1>2, <1>5, <2>1, <2>4, <2>5 DEF TypeOK
<1>11. CASE Catalogue
  <2>1. /\ tool # "none" /\ catalogued' = catalogued \cup {tool}
        /\ UNCHANGED <<upstream, held, store, csv, done, state, lane, receipt, tool, assumed>>
    BY <1>11 DEF Catalogue, At
  <2>2. QED
    BY <1>0, <1>2, <1>5, <2>1 DEF ToolTypes, TypeOK
<1>12. CASE HandOver \/ TakenOver
  <2> DEFINE s == cubes[tool]
             t == [s EXCEPT !.merged = s.release, !.served = s.release, !.fails = 0,
                            !.waits = FALSE, !.notHeld = FALSE]
             u == [s EXCEPT !.served = 0]
  <2>1. /\ tool # "none" /\ newCubes' = newCubes \ {tool}
        /\ assumed' \subseteq assumed \cup {tool}
        /\ UNCHANGED <<upstream, held, store, csv, done, catalogued, lane, receipt, tool>>
    BY <1>12 DEF HandOver, TakenOver, At, LaneOnly
  <2>2. \/ cubes' = [cubes EXCEPT ![tool] = t]
        \/ cubes' = [cubes EXCEPT ![tool] = u] /\ ~s.notHeld
    BY <1>12 DEF HandOver, TakenOver
  <2>3. tool \in Cubes /\ pc = "idle" /\ s \in CubeState /\ cubes \in [Cubes -> CubeState]
    BY <1>0, <1>5, <2>1 DEF TypeOK
  <2>4. PICK r \in CubeState :
           /\ cubes' = [cubes EXCEPT ![tool] = r]
           /\ r.quarantined = s.quarantined /\ r.failRel = s.failRel /\ r.release = s.release
           /\ r.fails \in {s.fails, 0} /\ ~r.notHeld
    <3>1. /\ t \in CubeState /\ u \in CubeState
          /\ t.quarantined = s.quarantined /\ u.quarantined = s.quarantined
          /\ t.failRel = s.failRel /\ u.failRel = s.failRel
          /\ t.release = s.release /\ u.release = s.release
          /\ t.fails = 0 /\ u.fails = s.fails
          /\ ~t.notHeld /\ u.notHeld = s.notHeld
      BY <2>3, HandedFacts
    <3> HIDE DEF t, u, s
    <3>2. QED
      BY <2>2, <3>1
  <2>5. /\ cubes' \in [Cubes -> CubeState] /\ cubes'[tool] = r
        /\ \A c \in Cubes : c # tool => cubes'[c] = cubes[c]
    BY <2>3, <2>4
  <2>6. LaneInv'
    <3>1. assumed' \subseteq Cubes
      BY <1>0, <2>1, <2>3 DEF TypeOK
    <3>2. QED
      BY <1>0, <2>1, <2>3, <2>4, <2>5, <3>1, ToolKeeps DEF TypeOK
  <2>7. ToolTypes' /\ LaneWaits' /\ NewCubeIsListed'
    BY <1>0, <2>1, <2>4, <2>5 DEF lane, ToolTypes, LaneWaits, NewCubeIsListed
  <2>8. QED
    BY <2>6, <2>7 DEF NewInv
<1>13. QED
  BY <1>4, <1>6, <1>7, <1>8, <1>9, <1>10, <1>11, <1>12 DEF ToolStep

LEMMA NewNext == NewInv /\ [NextNew]_allVars => NewInv'
<1> SUFFICES ASSUME NewInv, [NextNew]_allVars PROVE NewInv'
  OBVIOUS
<1>1. CASE ToolStep
  BY <1>1, NewTool
<1>2. CASE tool = "none" /\ LaneStep /\ UNCHANGED toolVars
  BY <1>2, LaneNext, ListedLane DEF Next, NewInv, ToolTypes, LaneWaits, toolVars
<1>3. CASE StatCan /\ UNCHANGED toolVars
  <2>1. UNCHANGED lane
    BY <1>3 DEF StatCan, Release, TimePasses
  <2>2. QED
    BY <1>3, <2>1, LaneNext, ListedLane DEF Next, NewInv, ToolTypes, LaneWaits, toolVars, lane
<1>4. CASE UNCHANGED allVars
  <2>1. UNCHANGED vars /\ UNCHANGED <<pc, cubes, newCubes, receipt, tool>>
    BY <1>4 DEF allVars, vars, toolVars, state, lane
  <2>2. QED
    BY <2>1, LaneNext DEF NewInv, ToolTypes, LaneWaits, NewCubeIsListed
<1>5. QED
  BY <1>1, <1>2, <1>3, <1>4 DEF NextNew

(* The lane and the tool keep their types side by side.                    *)
THEOREM TypeCorrectNew == SpecNew => []TypeOKNew
<1>1. NewInv => TypeOKNew
  BY DEF NewInv, LaneInv, ToolTypes, TypeOKNew
<1>2. QED
  BY <1>1, NewInit, NewNext, PTL DEF SpecNew

(* No new cube is forgotten: what the lane settled without holding it is   *)
(* listed until the tool has handed it over, wherever either stops.        *)
THEOREM NewCubeIsListedHolds == SpecNew => []NewCubeIsListed
<1>1. NewInv => NewCubeIsListed
  BY DEF NewInv
<1>2. QED
  BY <1>1, NewInit, NewNext, PTL DEF SpecNew
-----------------------------------------------------------------------------
(* What looks served is served, or was assumed to be *)

(* t differs from s at most in failures, quarantine and waiting.           *)
Keeps(s, t) == /\ t.release = s.release /\ t.merged = s.merged /\ t.served = s.served
               /\ t.inflight = s.inflight /\ t.notHeld = s.notHeld

(* A merge of c that changes no value leaves nothing to serve, or assumes  *)
(* that it does.                                                           *)
Settled(c) == \/ csv[c] = {store[c]} \/ c \in assumed
              \/ ServeOwed(cubes[c]) \/ cubes[c].served = 0
              \/ c \notin catalogued \ newCubes

(* The record of a cube is in order.  Without a merge in flight the cube   *)
(* is settled; with one that no merge is owed for, it was handed over.     *)
Fine(c) ==
    /\ cubes[c].served <= cubes[c].merged /\ cubes[c].merged <= cubes[c].release
    /\ cubes[c].release <= rel[c]
    /\ cubes[c].merged > 0 /\ ~cubes[c].notHeld => c \in held
    /\ c \in newCubes => cubes[c].merged > 0
    /\ cubes[c].inflight = 0 /\ ~cubes[c].notHeld => Settled(c)
    /\ cubes[c].inflight # 0 /\ ~MergeOwed(cubes[c]) /\ ~cubes[c].notHeld =>
          c \in assumed /\ ~ServeOwed(cubes[c]) /\ c \notin newCubes

(* Where the lane stands, and why it is there.                             *)
Stand ==
    /\ pc = "idle" => todo = {}
    /\ \A c \in todo : MergeOwed(cubes[c]) \/ ServeOwed(cubes[c])
    /\ pc \in {"fetch", "publish", "record"} => cur \in held /\ cubes[cur].inflight # 0
    /\ pc \in {"fetch", "publish"} /\ job.prior = 0 /\ ~cubes[cur].notHeld => Settled(cur)
    /\ pc = "record" /\ job.prior = 0 /\ ~cubes[cur].notHeld => job.changed \/ Settled(cur)
    /\ pc = "serve" => ServeOwed(cubes[cur]) /\ ~MergeOwed(cubes[cur])

(* The inductive invariant behind LooksServedIsServed, on top of LaneInv.  *)
ServedInv == (\A c \in Cubes : Fine(c)) /\ Stand

(* A cube the tool has served may be handed over as it is.                 *)
Handable(c) == cubes[c].notHeld /\ cubes[c].inflight = 0 => csv[c] = {store[c]}

Hands == \A c \in Cubes : c \in held /\ Handable(c) => Handable(c)'

LEMMA KeepsFacts ==
    \A s \in CubeState : /\ Keeps(s, s) /\ Keeps(s, Backoff(s)) /\ Keeps(s, Deterministic(s))
                         /\ Keeps(s, [s EXCEPT !.waits = FALSE])
BY DEF Keeps, Backoff, Deterministic, CubeState

LEMMA ServeFields ==
    ASSUME NEW s \in CubeState
    PROVE  /\ Served(s).release = s.release /\ Served(s).merged = s.merged
           /\ Served(s).served = s.merged /\ Served(s).inflight = s.inflight
           /\ Served(s).notHeld = s.notHeld
           /\ Absent(s).release = s.release /\ Absent(s).merged = s.release
           /\ Absent(s).served = s.release /\ Absent(s).notHeld
BY DEF Served, Absent, CubeState

LEMMA MergedFields ==
    ASSUME NEW s \in CubeState, NEW serve \in BOOLEAN
    PROVE  /\ Merged(s, serve).release = s.release /\ Merged(s, serve).merged = s.release
           /\ Merged(s, serve).served = IF serve THEN s.served ELSE s.release
           /\ Merged(s, serve).inflight = 0 /\ ~Merged(s, serve).notHeld
BY DEF Merged, CubeState

LEMMA EnumeratedFields ==
    ASSUME NEW s \in CubeState, NEW r \in Releases
    PROVE  LET t == Enumerated(s, r)
           IN  /\ t.release = r /\ t.merged = s.merged /\ t.served = s.served
               /\ t.inflight = s.inflight /\ t.notHeld = s.notHeld
BY DEF Enumerated, CubeState

(* The releases a record names are numbers.                                *)
LEMMA RecordNumbers ==
    ASSUME TypeOK, NEW c \in Cubes
    PROVE  /\ cubes[c] \in CubeState
           /\ cubes[c].release \in Nat /\ cubes[c].merged \in Nat /\ cubes[c].served \in Nat
           /\ cubes[c].inflight \in Nat /\ rel[c] \in Nat /\ store[c] \in Nat
<1>1. \A n \in Releases : n \in Nat
  BY SLAssumption DEF Releases
<1>2. cubes[c] \in CubeState /\ rel[c] \in Releases /\ store[c] \in Releases
  BY DEF TypeOK
<1>3. /\ cubes[c].release \in Releases /\ cubes[c].merged \in Releases
      /\ cubes[c].served \in Releases /\ cubes[c].inflight \in Releases
  BY <1>2 DEF CubeState
<1>4. /\ cubes[c].release \in Nat /\ cubes[c].merged \in Nat
      /\ cubes[c].served \in Nat /\ cubes[c].inflight \in Nat
  BY <1>1, <1>3
<1>5. QED
  BY <1>1, <1>2, <1>4

(* A step that leaves c alone.                                             *)
LEMMA FineKept ==
    ASSUME NEW c \in Cubes, Fine(c), Keeps(cubes[c], cubes'[c]),
           rel'[c] = rel[c], table'[c] = table[c], store'[c] = store[c], csv'[c] = csv[c],
           c \in held => c \in held', c \in catalogued' => c \in catalogued,
           c \in newCubes <=> c \in newCubes', c \in assumed => c \in assumed'
    PROVE  Fine(c)' /\ (Handable(c) => Handable(c)')
BY DEF Fine, Keeps, Settled, MergeOwed, ServeOwed, Handable

(* The cubes other than the one at work.                                   *)
LEMMA FineOthers ==
    ASSUME LaneInv, ServedInv, NEW k \in Cubes, k = cur, NEW s, Save(s),
           UNCHANGED <<upstream, held, catalogued>>, newCubes' \in {newCubes, newCubes \cup {k}},
           \A c \in Cubes : c # k => /\ store'[c] = store[c] /\ csv'[c] = csv[c]
                                     /\ c \in assumed => c \in assumed',
           Fine(k)', k \in held /\ Handable(k) => Handable(k)'
    PROVE  (\A c \in Cubes : Fine(c)') /\ Hands
<1>1. ASSUME NEW c \in Cubes, c # k PROVE Fine(c)' /\ (Handable(c) => Handable(c)')
  <2>1. cubes'[c] = cubes[c]
    BY <1>1 DEF Save, LaneInv, TypeOK
  <2>2. Keeps(cubes[c], cubes'[c])
    BY <2>1 DEF Keeps
  <2>3. QED
    BY <1>1, <2>2, FineKept DEF upstream, ServedInv
<1>2. ASSUME NEW c \in Cubes, c = k PROVE Fine(c)' /\ (c \in held /\ Handable(c) => Handable(c)')
  BY <1>2
<1>3. QED
  BY <1>1, <1>2 DEF Hands

(* Steps that change nothing but failures, quarantine and waiting.         *)
LEMMA ServedQuiet ==
    ASSUME LaneInv, ServedInv, UNCHANGED <<upstream, region, newCubes, assumed>>,
           \A c \in Cubes : Keeps(cubes[c], cubes'[c])
    PROVE  (\A c \in Cubes : Fine(c)') /\ Hands
BY FineKept DEF upstream, region, ServedInv, Hands

(* The lane goes on to the next cube, or to none.                          *)
LEMMA StandNext ==
    ASSUME LaneInv, Stand, pc' \in {"next", "idle"}, todo' \subseteq todo,
           pc' = "idle" => todo' = {}, rel' = rel,
           \A c \in Cubes : c \in todo => Keeps(cubes[c], cubes'[c])
    PROVE  Stand'
BY DEF Stand, Keeps, MergeOwed, ServeOwed, LaneInv, TypeOK

LEMMA SaveSelf ==
    ASSUME LaneInv, cur \in Cubes, NEW s, Save(s)
    PROVE  /\ cubes'[cur] = s
           /\ \A c \in Cubes : c # cur => Keeps(cubes[c], cubes'[c])
BY KeepsFacts DEF Save, LaneInv, TypeOK

LEMMA ServedIdle ==
    ASSUME LaneInv, ServedInv, LaneDies \/ IterationEnds
    PROVE  ServedInv' /\ Hands
<1>1. \A c \in Cubes : Keeps(cubes[c], cubes'[c])
  BY KeepsFacts DEF LaneDies, IterationEnds, state, LaneInv, TypeOK
<1>2. UNCHANGED <<upstream, region, newCubes, assumed>> /\ pc' = "idle" /\ todo' = {}
  BY DEF LaneDies, IterationEnds, Goto, state
<1>3. Stand'
  BY <1>1, <1>2, StandNext DEF ServedInv, upstream
<1>4. QED
  BY <1>1, <1>2, <1>3, ServedQuiet DEF ServedInv

LEMMA ServedFailures ==
    ASSUME LaneInv, ServedInv, AskFault \/ MergeTransient \/ MergeRefused \/ ServeRefused
    PROVE  ServedInv' /\ Hands
<1>1. /\ pc \notin {"idle", "next"} /\ UNCHANGED <<upstream, region, newCubes, assumed>>
      /\ Leave(Backoff(cubes[cur])) \/ Leave(Deterministic(cubes[cur]))
  BY DEF AskFault, MergeTransient, MergeRefused, ServeRefused
<1>2. cur \in Cubes /\ cubes[cur] \in CubeState
  BY <1>1, AtWork
<1>3. PICK s : Save(s) /\ Keeps(cubes[cur], s)
  BY <1>1, <1>2, KeepsFacts DEF Leave
<1>4. \A c \in Cubes : Keeps(cubes[c], cubes'[c])
  BY <1>2, <1>3, SaveSelf
<1>5. pc' = "next" /\ todo' = todo
  BY <1>1 DEF Leave, Goto
<1>6. Stand'
  BY <1>1, <1>4, <1>5, StandNext DEF ServedInv, upstream
<1>7. QED
  BY <1>1, <1>4, <1>6, ServedQuiet DEF ServedInv

LEMMA ServedPick ==
    ASSUME LaneInv, ServedInv, NEW c \in Cubes, Pick(c)
    PROVE  ServedInv' /\ Hands
<1>1. /\ pc = "next" /\ c \in todo /\ todo' = todo \ {c} /\ cur' = c
      /\ pc' = (IF MergeOwed(cubes[c]) THEN "ask" ELSE "serve")
      /\ UNCHANGED <<upstream, region, state, job, assumed>>
  BY DEF Pick, Goto
<1>2. \A d \in Cubes : Keeps(cubes[d], cubes'[d])
  BY <1>1, KeepsFacts DEF state, LaneInv, TypeOK
<1>3. Stand'
  BY <1>1 DEF ServedInv, Stand, state, upstream, MergeOwed, ServeOwed
<1>4. QED
  BY <1>1, <1>2, <1>3, ServedQuiet DEF ServedInv, state

LEMMA ServedEnumerate ==
    ASSUME LaneInv, ServedInv, Enumerate
    PROVE  ServedInv' /\ Hands
<1>1. /\ cubes' = [c \in Cubes |-> Enumerated(cubes[c], rel[c])]
      /\ todo' = {c \in Cubes : Due(cubes'[c])} /\ pc' = "next"
      /\ UNCHANGED <<upstream, region, newCubes, cur, job, assumed>>
  BY DEF Enumerate, Goto
<1>2. ASSUME NEW c \in Cubes
      PROVE  /\ cubes'[c].release = rel[c] /\ cubes'[c].merged = cubes[c].merged
             /\ cubes'[c].served = cubes[c].served /\ cubes'[c].inflight = cubes[c].inflight
             /\ cubes'[c].notHeld = cubes[c].notHeld
  <2>1. cubes[c] \in CubeState /\ rel[c] \in Releases
    BY DEF LaneInv, TypeOK
  <2>2. QED
    BY <1>1, <2>1, EnumeratedFields
<1>3. ASSUME NEW c \in Cubes PROVE Fine(c)' /\ (Handable(c) => Handable(c)')
  <2>1. Fine(c)
    BY DEF ServedInv
  <2>2. cubes[c].merged \in Nat /\ cubes[c].release \in Nat /\ rel[c] \in Nat
    BY RecordNumbers DEF LaneInv
  <2>3. Settled(c) => Settled(c)'
    BY <1>1, <1>2 DEF Settled, ServeOwed, region
  <2>4. QED
    BY <1>1, <1>2, <2>1, <2>2, <2>3 DEF Fine, MergeOwed, ServeOwed, Handable, upstream, region
<1>4. Stand'
  BY <1>1, <1>2 DEF Stand, Due, upstream
<1>5. QED
  BY <1>3, <1>4 DEF ServedInv, Hands

LEMMA ServedStatCan ==
    ASSUME LaneInv, ServedInv, NEW c \in Cubes, Release(c) \/ TimePasses(c)
    PROVE  ServedInv' /\ Hands
<1>1. CASE Release(c)
  <2>1. /\ rel' = [rel EXCEPT ![c] = rel[c] + 1]
        /\ UNCHANGED <<region, state, lane, assumed>>
    BY <1>1 DEF Release
  <2>2. rel \in [Cubes -> Releases] /\ UNCHANGED <<held, store, csv, done, catalogued, cubes,
                                                   newCubes, pc, todo, cur, job, assumed>>
    BY <2>1 DEF LaneInv, TypeOK, region, state, lane
  <2>3. ASSUME NEW d \in Cubes PROVE Fine(d)' /\ (Handable(d) => Handable(d)')
    <3>1. Fine(d) /\ cubes[d].release \in Nat /\ rel[d] \in Nat
      BY RecordNumbers DEF ServedInv, LaneInv
    <3>3. cubes[d].release <= rel'[d]
      <4>1. rel'[d] = rel[d] \/ rel'[d] = rel[d] + 1
        BY <2>1, <2>2
      <4>2. cubes[d].release <= rel[d]
        BY <3>1 DEF Fine
      <4>3. QED
        BY <3>1, <4>1, <4>2
    <3>4. QED
      BY <2>2, <3>1, <3>3 DEF Fine, Settled, Handable
  <2>4. Stand'
    BY <2>2 DEF ServedInv, Stand, Settled
  <2>5. QED
    BY <2>3, <2>4 DEF ServedInv, Hands
<1>2. CASE TimePasses(c)
  <2>1. UNCHANGED <<upstream, region, newCubes, lane, assumed>>
        /\ cubes' = [cubes EXCEPT ![c] = [cubes[c] EXCEPT !.waits = FALSE]]
    BY <1>2 DEF TimePasses
  <2>2. \A d \in Cubes : Keeps(cubes[d], cubes'[d])
    <3>1. cubes \in [Cubes -> CubeState] /\ Keeps(cubes[c], [cubes[c] EXCEPT !.waits = FALSE])
      BY KeepsFacts DEF LaneInv, TypeOK
    <3>2. QED
      BY <2>1, <3>1, KeepsFacts
  <2>3. Stand'
    <3>1. pc \notin {"idle", "next"} => cur \in Cubes
      BY AtWork
    <3>2. todo \subseteq Cubes
      BY DEF LaneInv, TypeOK
    <3>3. QED
      BY <2>1, <2>2, <3>1, <3>2
      DEF ServedInv, Stand, upstream, region, lane, Keeps, MergeOwed, ServeOwed, Settled
  <2>4. QED
    BY <2>1, <2>2, <2>3, ServedQuiet DEF ServedInv
<1>3. QED
  BY <1>1, <1>2

(* Steps of merge_cube that save no record.                                *)
LEMMA ServedFetch ==
    ASSUME LaneInv, ServedInv, FetchOk
    PROVE  ServedInv' /\ Hands
<1>1. /\ pc = "fetch" /\ pc' = "publish"
      /\ job' = [job EXCEPT !.got = table[cur][rel[cur]]]
      /\ UNCHANGED <<upstream, region, state, todo, cur, assumed>>
  BY DEF FetchOk, Goto
<1>2. cur \in Cubes /\ job \in Jobs
  BY <1>1, AtWork DEF LaneInv, TypeOK
<1>3. job'.prior = job.prior
  BY <1>1, <1>2 DEF Jobs
<1>5. Stand'
  BY <1>1, <1>3 DEF ServedInv, Stand, Settled, MergeOwed, ServeOwed, upstream, region, state
<1>6. \A c \in Cubes : Keeps(cubes[c], cubes'[c])
  BY <1>1, KeepsFacts DEF state, LaneInv, TypeOK
<1>7. QED
  BY <1>1, <1>5, <1>6, ServedQuiet DEF ServedInv, state

(* The cube whose table is published is in flight.                         *)
LEMMA ServedPublish ==
    ASSUME LaneInv, ServedInv, Publish \/ PublishUnsure
    PROVE  ServedInv' /\ Hands
<1>1. /\ pc = "publish" /\ store' = [store EXCEPT ![cur] = job.got]
      /\ UNCHANGED <<upstream, held, csv, done, catalogued, newCubes, todo, cur, assumed>>
  BY DEF Publish, PublishUnsure, Leave, state
<1>2. /\ cur \in Cubes /\ cubes[cur] \in CubeState /\ MergeOwed(cubes[cur])
      /\ store \in [Cubes -> Releases] /\ job \in Jobs /\ cur \notin todo
  BY <1>1, AtWork DEF LaneInv, OneAtWork, MergePCs, TypeOK
<1>3. PICK s \in CubeState : Save(s) /\ Keeps(cubes[cur], s)
  <2>1. CASE Publish
    <3>1. Save(cubes[cur])
      BY <2>1 DEF Publish, state, Save, LaneInv, TypeOK
    <3>2. QED
      BY <1>2, <3>1, KeepsFacts
  <2>2. CASE PublishUnsure
    BY <1>2, <2>2, KeepsFacts, BackoffFacts DEF PublishUnsure, Leave, Same
  <2>3. QED
    BY <2>1, <2>2
<1>4. /\ cubes'[cur] = s /\ \A c \in Cubes : c # cur => Keeps(cubes[c], cubes'[c])
      /\ \A c \in Cubes : Keeps(cubes[c], cubes'[c])
  BY <1>2, <1>3, SaveSelf
<1>5. PICK k \in Cubes : k = cur
  BY <1>2
<1>6. cubes[k].inflight # 0 /\ Fine(k) /\ MergeOwed(cubes[k])
  BY <1>1, <1>2, <1>5 DEF ServedInv, Stand
<1>7. Fine(k)' /\ (Handable(k) => Handable(k)')
  BY <1>1, <1>4, <1>5, <1>6 DEF Fine, Keeps, MergeOwed, ServeOwed, Handable, upstream
<1>8. (\A c \in Cubes : Fine(c)') /\ Hands
  BY <1>1, <1>2, <1>3, <1>5, <1>7, FineOthers
<1>9. CASE PublishUnsure
  <2>1. pc' = "next"
    BY <1>9 DEF PublishUnsure, Leave, Goto
  <2>2. Stand'
    BY <1>1, <1>4, <2>1, StandNext DEF ServedInv, upstream
  <2>3. QED
    BY <1>8, <2>2 DEF ServedInv
<1>10. CASE Publish
  <2>1. pc' = "record" /\ UNCHANGED state
    BY <1>10 DEF Publish, Goto
  <2>2. PICK changed \in {store[cur] # job.got, TRUE} : job' = [job EXCEPT !.changed = changed]
    BY <1>10 DEF Publish
  <2>3. job'.prior = job.prior /\ job'.changed = changed
    BY <1>2, <2>2 DEF Jobs
  <2>4. store'[k] = job.got
    BY <1>1, <1>2, <1>5
  <2>5. job'.changed \/ store[k] = job.got
    BY <1>5, <2>2, <2>3
  <2>6. job'.prior = 0 /\ ~cubes[k].notHeld => job'.changed \/ Settled(k)'
    <3> SUFFICES ASSUME job'.prior = 0, ~cubes[k].notHeld, ~job'.changed
                 PROVE  Settled(k)'
      OBVIOUS
    <3>1. Settled(k)
      BY <1>1, <1>5, <2>3 DEF ServedInv, Stand
    <3>2. store'[k] = store[k]
      BY <2>4, <2>5
    <3>3. QED
      BY <1>1, <2>1, <3>1, <3>2 DEF Settled, state
  <2>7. cubes' = cubes
    BY <2>1 DEF state
  <2>8. Stand'
    BY <1>1, <1>5, <1>6, <2>1, <2>6, <2>7 DEF ServedInv, Stand
  <2>9. QED
    BY <1>8, <2>8 DEF ServedInv
<1>11. QED
  BY <1>9, <1>10

LEMMA ServedAskHeld ==
    ASSUME LaneInv, ServedInv, AskHeld
    PROVE  ServedInv' /\ Hands
<1> DEFINE s == [cubes[cur] EXCEPT !.inflight = cubes[cur].release]
<1>1. /\ pc = "ask" /\ cur \in held /\ Save(s) /\ pc' = "fetch"
      /\ job' = [job EXCEPT !.prior = cubes[cur].inflight]
      /\ UNCHANGED <<upstream, region, newCubes, todo, cur, assumed>>
  BY DEF AskHeld, Goto
<1>2. /\ cur \in Cubes /\ cubes[cur] \in CubeState /\ MergeOwed(cubes[cur])
      /\ job \in Jobs /\ cur \notin todo
  BY <1>1, AtWork DEF LaneInv, OneAtWork, MergePCs, TypeOK
<1>3. /\ s.release = cubes[cur].release /\ s.merged = cubes[cur].merged
      /\ s.served = cubes[cur].served /\ s.notHeld = cubes[cur].notHeld
      /\ s.inflight = cubes[cur].release /\ cubes[cur].release > 0 /\ cubes[cur].release # 0
  BY <1>2, RecordNumbers DEF CubeState, MergeOwed, LaneInv
<1> HIDE DEF s
<1>4. cubes'[cur] = s /\ \A c \in Cubes : c # cur => Keeps(cubes[c], cubes'[c])
  BY <1>1, <1>2, SaveSelf
<1>5. PICK k \in Cubes : k = cur
  BY <1>2
<1>6. Fine(k)
  BY DEF ServedInv
<1>7. Fine(k)' /\ (Handable(k) => Handable(k)')
  BY <1>1, <1>2, <1>3, <1>4, <1>5, <1>6 DEF Fine, MergeOwed, ServeOwed, Handable, upstream, region
<1>8. (\A c \in Cubes : Fine(c)') /\ Hands
  BY <1>1, <1>5, <1>7, FineOthers DEF region
<1>9. job'.prior = cubes[cur].inflight
  BY <1>1, <1>2 DEF Jobs
<1>10. job'.prior = 0 /\ ~cubes'[k].notHeld => Settled(k)'
  BY <1>1, <1>3, <1>4, <1>5, <1>6, <1>9 DEF Fine, Settled, ServeOwed, region
<1>11. \A c \in todo : c \in Cubes /\ c # cur
  BY <1>2 DEF LaneInv, TypeOK
<1>12. Stand'
  BY <1>1, <1>3, <1>4, <1>5, <1>10, <1>11
  DEF ServedInv, Stand, Keeps, MergeOwed, ServeOwed, Settled, upstream, region
<1>13. QED
  BY <1>8, <1>12 DEF ServedInv

LEMMA ServedAbsent ==
    ASSUME LaneInv, ServedInv, AskAbsent
    PROVE  ServedInv' /\ Hands
<1> DEFINE s == Absent(cubes[cur])
<1>1. /\ pc = "ask" /\ cur \notin held /\ Save(s) /\ pc' = "next"
      /\ newCubes' = newCubes \cup {cur}
      /\ UNCHANGED <<upstream, region, todo, cur, assumed>>
  BY DEF AskAbsent, Leave, Goto
<1>2. cur \in Cubes /\ cubes[cur] \in CubeState /\ cur \notin todo
  BY <1>1, AtWork DEF LaneInv, OneAtWork
<1>3. /\ s.release = cubes[cur].release /\ s.merged = cubes[cur].release
      /\ s.served = cubes[cur].release /\ s.notHeld
  BY <1>2, ServeFields
<1> HIDE DEF s
<1>4. cubes'[cur] = s /\ \A c \in Cubes : c # cur => Keeps(cubes[c], cubes'[c])
  BY <1>1, <1>2, SaveSelf
<1>5. PICK k \in Cubes : k = cur
  BY <1>2
<1>6. Fine(k) /\ cubes[k].release \in Nat /\ cubes[k].release > 0
  BY <1>1, <1>5, AtWork, RecordNumbers DEF ServedInv, LaneInv, OneAtWork, MergePCs, MergeOwed
<1>7. Fine(k)'
  BY <1>1, <1>3, <1>4, <1>5, <1>6 DEF Fine, upstream, region
<1>8. (\A c \in Cubes : Fine(c)') /\ Hands
  BY <1>1, <1>5, <1>7, FineOthers DEF region
<1>9. \A c \in Cubes : c \in todo => Keeps(cubes[c], cubes'[c])
  BY <1>2, <1>4
<1>10. Stand'
  BY <1>1, <1>9, StandNext DEF ServedInv, upstream
<1>11. QED
  BY <1>8, <1>10 DEF ServedInv

(* A merge that leaves no serve owed found the cube settled.               *)
LEMMA ServedRecord ==
    ASSUME LaneInv, ServedInv, RecordMerge
    PROVE  ServedInv' /\ Hands
<1> DEFINE serve == MustServe(cubes[cur], job)
           s == Merged(cubes[cur], serve)
<1>1. /\ pc = "record" /\ Save(s)
      /\ pc' = (IF serve /\ ServeOwed(s) THEN "serve" ELSE "next")
      /\ assumed' = assumed \cup {c \in {cur} : Assumes(cubes[c], job)}
      /\ UNCHANGED <<upstream, region, newCubes, todo, cur>>
  BY DEF RecordMerge, Goto
<1>2. /\ cur \in Cubes /\ cubes[cur] \in CubeState /\ MergeOwed(cubes[cur]) /\ cur \notin todo
      /\ job \in Jobs
  BY <1>1, AtWork DEF LaneInv, OneAtWork, MergePCs, TypeOK
<1>3. serve \in BOOLEAN
  BY <1>2 DEF MustServe, Jobs, CubeState
<1>4. /\ s.release = cubes[cur].release /\ s.merged = cubes[cur].release
      /\ s.served = (IF serve THEN cubes[cur].served ELSE cubes[cur].release)
      /\ s.inflight = 0 /\ ~s.notHeld
  BY <1>2, <1>3, MergedFields
<1>5. PICK k \in Cubes : k = cur
  BY <1>2
<1>6. ~serve => Settled(k) /\ cubes[k].served # 0
  BY <1>1, <1>5 DEF MustServe, ServedInv, Stand
<1>7. ~serve /\ ServeOwed(cubes[k]) => k \in assumed'
  BY <1>1, <1>5 DEF Assumes
<1> HIDE DEF s, serve
<1>8. cubes'[cur] = s /\ \A c \in Cubes : c # cur => Keeps(cubes[c], cubes'[c])
  BY <1>1, <1>2, SaveSelf
<1>9. /\ Fine(k) /\ k \in held
      /\ cubes[k].merged < cubes[k].release
      /\ cubes[k].release \in Nat /\ cubes[k].merged \in Nat /\ cubes[k].served \in Nat
  BY <1>1, <1>2, <1>5, RecordNumbers DEF ServedInv, Stand, MergeOwed, LaneInv
<1>10. s.served <= s.merged /\ (serve => ServeOwed(s)) /\ ~MergeOwed(s)
  BY <1>4, <1>5, <1>9 DEF Fine, ServeOwed, MergeOwed
<1>11. Settled(k)'
  <2>1. CASE serve
    BY <1>5, <1>8, <1>10, <2>1 DEF Settled
  <2>2. CASE ~serve
    BY <1>1, <1>6, <1>7, <2>2 DEF Settled, region
  <2>3. QED
    BY <2>1, <2>2
<1>12. Fine(k)'
  BY <1>1, <1>4, <1>5, <1>8, <1>9, <1>10, <1>11 DEF Fine, upstream, region
<1>13. Handable(k)'
  BY <1>1, <1>4, <1>5, <1>8 DEF Handable
<1>14. (\A c \in Cubes : Fine(c)') /\ Hands
  <2>1. \A c \in Cubes : c \in assumed => c \in assumed'
    BY <1>1
  <2>2. QED
    BY <1>1, <1>5, <1>12, <1>13, <2>1, FineOthers DEF region
<1>15. Stand'
  <2>1. CASE pc' = "next"
    BY <1>1, <1>2, <1>8, <2>1, StandNext DEF ServedInv, upstream
  <2>2. CASE pc' = "serve"
    <3>1. \A c \in todo : c \in Cubes /\ c # cur
      BY <1>2 DEF LaneInv, TypeOK
    <3>2. ServeOwed(s)
      BY <1>1, <2>2
    <3>3. QED
      BY <1>1, <1>8, <1>10, <2>2, <3>1, <3>2
      DEF ServedInv, Stand, Keeps, MergeOwed, ServeOwed, upstream
  <2>3. QED
    BY <1>1, <2>1, <2>2
<1>16. QED
  BY <1>14, <1>15 DEF ServedInv

(* A serve that is owed, and does not look served before it is.            *)
LEMMA ServedServe ==
    ASSUME LaneInv, ServedInv, ServeFails \/ ServePuts \/ ServeOk
    PROVE  ServedInv' /\ Hands
<1>1. /\ pc = "serve" /\ UNCHANGED <<upstream, held, store, done, catalogued, newCubes, todo, cur>>
      /\ pc' \in {"serve", "next"}
      /\ \A c \in Cubes : c # cur => (c \in assumed => c \in assumed')
  BY DEF ServeFails, ServePuts, ServeOk, Leave, Goto, state, lane
<1>2. /\ cur \in Cubes /\ cubes[cur] \in CubeState /\ cur \notin todo
      /\ csv \in [Cubes -> SUBSET (Releases \cup {Older})]
  BY <1>1, AtWork DEF LaneInv, OneAtWork, TypeOK
<1>3. PICK k \in Cubes : k = cur
  BY <1>2
<1>4. /\ Fine(k) /\ ServeOwed(cubes[k]) /\ ~MergeOwed(cubes[k])
      /\ cubes[k].release \in Nat /\ cubes[k].merged \in Nat /\ cubes[k].served \in Nat
  BY <1>1, <1>3, RecordNumbers DEF ServedInv, Stand, LaneInv
<1>5. \/ csv' = csv
      \/ \E kept \in SUBSET csv[k] : csv' = [csv EXCEPT ![k] = kept \cup {store[k]}]
  <2>1. {} \in SUBSET csv[k] /\ {store[k]} = {} \cup {store[k]}
    OBVIOUS
  <2>2. QED
    BY <1>3, <2>1 DEF ServeFails, ServePuts, ServeOk, ServeSome
<1>6. /\ csv[k] = {store[k]} => csv'[k] = {store[k]}
      /\ \A c \in Cubes : c # k => csv'[c] = csv[c]
  BY <1>2, <1>5
<1>7. CASE ServeFails \/ ServePuts
  <2>1. PICK s : Save(s) /\ Keeps(cubes[cur], s)
    <3>1. CASE ServeFails
      BY <1>2, <3>1, KeepsFacts DEF ServeFails, Leave
    <3>2. CASE ServePuts
      <4>1. Save(cubes[cur])
        BY <3>2 DEF ServePuts, state, Save, LaneInv, TypeOK
      <4>2. QED
        BY <1>2, <4>1, KeepsFacts
    <3>3. QED
      BY <1>7, <3>1, <3>2
  <2>2. /\ cubes'[cur] = s /\ \A c \in Cubes : Keeps(cubes[c], cubes'[c])
    BY <1>2, <2>1, SaveSelf
  <2>3. Fine(k)' /\ (Handable(k) => Handable(k)')
    BY <1>1, <1>3, <1>4, <1>6, <1>7, <2>1, <2>2
    DEF Fine, Keeps, Settled, MergeOwed, ServeOwed, Handable, upstream, ServeFails, ServePuts
  <2>4. (\A c \in Cubes : Fine(c)') /\ Hands
    BY <1>1, <1>3, <1>6, <2>1, <2>3, FineOthers
  <2>5. Stand'
    <3>1. \A c \in todo : c \in Cubes
      BY DEF LaneInv, TypeOK
    <3>2. QED
      BY <1>1, <1>2, <2>2, <3>1 DEF ServedInv, Stand, Keeps, MergeOwed, ServeOwed, upstream
  <2>6. QED
    BY <2>4, <2>5 DEF ServedInv
<1>8. CASE ServeOk
  <2> DEFINE s == Served(cubes[cur])
  <2>1. Save(s) /\ pc' = "next"
    BY <1>8 DEF ServeOk, Leave, Goto
  <2>2. /\ s.release = cubes[cur].release /\ s.merged = cubes[cur].merged
        /\ s.served = cubes[cur].merged /\ s.inflight = cubes[cur].inflight
        /\ s.notHeld = cubes[cur].notHeld
    BY <1>2, ServeFields
  <2> HIDE DEF s
  <2>3. cubes'[cur] = s /\ \A c \in Cubes : c # cur => Keeps(cubes[c], cubes'[c])
    BY <1>2, <2>1, SaveSelf
  <2>4. k \in catalogued => csv'[k] = {store[k]}
    BY <1>2, <1>3, <1>8 DEF ServeOk
  <2>5. Settled(k)'
    BY <1>1, <2>4 DEF Settled
  <2>6. Fine(k)' /\ (Handable(k) => Handable(k)')
    BY <1>1, <1>3, <1>4, <1>6, <2>2, <2>3, <2>5
    DEF Fine, MergeOwed, ServeOwed, Handable, upstream
  <2>7. (\A c \in Cubes : Fine(c)') /\ Hands
    BY <1>1, <1>3, <1>6, <2>1, <2>6, FineOthers
  <2>8. Stand'
    BY <1>1, <1>2, <2>1, <2>3, StandNext DEF ServedInv, upstream
  <2>9. QED
    BY <2>7, <2>8 DEF ServedInv
<1>9. QED
  BY <1>7, <1>8

LEMMA ServedInit == Init => ServedInv
<1> SUFFICES ASSUME Init PROVE ServedInv
  OBVIOUS
<1>1. \A c \in Cubes : /\ cubes[c].release = 0 /\ cubes[c].merged = 0 /\ cubes[c].served = 0
                       /\ rel[c] = 0 /\ cubes[c].inflight = 0 /\ c \notin newCubes
  BY DEF Init, NoRecord
<1>3. \A c \in Cubes : Fine(c)
  BY <1>1 DEF Fine, Settled
<1>4. Stand
  BY DEF Init, Stand
<1>5. QED
  BY <1>3, <1>4 DEF ServedInv

LEMMA ServedStep ==
    ASSUME LaneInv, ServedInv, LaneStep \/ StatCan
    PROVE  ServedInv' /\ Hands
BY ServedIdle, ServedFailures, ServedPick, ServedEnumerate, ServedStatCan, ServedFetch,
   ServedPublish, ServedAskHeld, ServedAbsent, ServedRecord, ServedServe
DEF LaneStep, StatCan, MergeCube, Ask, ServeCube

(* The record settles no cube that is not served or assumed to be.         *)
LEMMA FineLooks ==
    ASSUME LaneInv, ServedInv PROVE LooksServedIsServed
<1> SUFFICES ASSUME NEW c \in Cubes, LooksServed(c)
             PROVE  csv[c] = {store[c]} \/ c \in assumed
  BY DEF LooksServedIsServed
<1>1. Fine(c) /\ cubes[c].merged \in Nat /\ cubes[c].served \in Nat /\ cubes[c].inflight \in Nat
  BY RecordNumbers DEF ServedInv, LaneInv
<1>2. CASE cubes[c].inflight = 0
  BY <1>1, <1>2 DEF Fine, Settled, LooksServed, ServeOwed
<1>3. CASE cubes[c].inflight # 0
  BY <1>1, <1>3 DEF Fine, LooksServed
<1>4. QED
  BY <1>2, <1>3

(* A cube that looks served is served, or was assumed to be: for any       *)
(* number of cubes, whenever StatCan releases, whatever fails or dies      *)
(* between the publish, the record and the serve.                          *)
THEOREM LooksServedIsServedHolds == Spec => []LooksServedIsServed
<1>1. LaneInv /\ ServedInv /\ [Next]_vars => ServedInv'
  <2> SUFFICES ASSUME LaneInv, ServedInv, UNCHANGED vars PROVE ServedInv'
    BY ServedStep DEF Next
  <2>1. UNCHANGED <<upstream, region, state, lane, assumed>>
    BY DEF vars
  <2>2. \A c \in Cubes : Keeps(cubes[c], cubes'[c])
    BY <2>1, KeepsFacts DEF state, LaneInv, TypeOK
  <2>3. Stand'
    BY <2>1 DEF ServedInv, Stand, Settled, MergeOwed, ServeOwed, upstream, region, state, lane
  <2>4. QED
    BY <2>1, <2>2, <2>3, ServedQuiet DEF ServedInv, state
<1>2. LaneInv /\ ServedInv => LooksServedIsServed
  BY FineLooks
<1>3. QED
  BY <1>1, <1>2, LaneInit, LaneNext, ServedInit, PTL DEF Spec

-----------------------------------------------------------------------------
(* The same with the tool beside the lane *)

(* What the stage of a cube's ingest says about it.                        *)
Tooled(c) ==
    /\ receipt[c].stage \in {"committing", "committed", "served"} => c \in newCubes
    /\ receipt[c].stage \in {"committed", "served", "catalogued"} => c \in held
    /\ receipt[c].stage \in {"served", "catalogued"} => Handable(c)
    /\ tool = c /\ receipt[c].stage \in {"none", "refused"} => c \in newCubes

(* The inductive invariant behind LooksServedIsServed beside the tool, on  *)
(* top of NewInv.                                                          *)
HandedInv == ServedInv /\ \A c \in Cubes : Tooled(c)

(* The lane lists new cubes and takes none from the list or the store.     *)
LEMMA LaneAddsOnly ==
    (LaneStep \/ StatCan) => held' = held /\ newCubes \subseteq newCubes'
BY DEF LaneStep, StatCan, Release, TimePasses, LaneDies, Enumerate, Pick, IterationEnds,
       MergeCube, Ask, AskAbsent, AskFault, AskHeld, FetchOk, Publish, RecordMerge,
       MergeTransient, PublishUnsure, MergeRefused,
       ServeCube, ServeFails, ServePuts, ServeRefused, ServeOk, region, state

LEMMA HandedLane ==
    ASSUME NewInv, HandedInv, LaneStep \/ StatCan, UNCHANGED toolVars
    PROVE  HandedInv'
<1>1. ServedInv' /\ Hands
  BY ServedStep DEF HandedInv, NewInv
<1>2. ASSUME NEW c \in Cubes PROVE Tooled(c)'
  BY <1>1, <1>2, LaneAddsOnly DEF HandedInv, Tooled, Hands, toolVars
<1>3. QED
  BY <1>1, <1>2 DEF HandedInv

(* A step of the tool touches one cube, and the lane waits.                *)
LEMMA HandedOne ==
    ASSUME NewInv, HandedInv, UNCHANGED <<upstream, lane>>, NEW k \in Cubes, tool = k,
           tool' \in {k, "none"}, Fine(k)', Tooled(k)',
           \A c \in Cubes : c # k =>
               /\ cubes'[c] = cubes[c] /\ store'[c] = store[c] /\ csv'[c] = csv[c]
               /\ receipt'[c] = receipt[c]
               /\ (c \in held <=> c \in held') /\ (c \in catalogued <=> c \in catalogued')
               /\ (c \in newCubes <=> c \in newCubes') /\ (c \in assumed => c \in assumed')
    PROVE  HandedInv'
<1>1. ASSUME NEW c \in Cubes, c # k PROVE Fine(c)' /\ Tooled(c)'
  <2>1. Keeps(cubes[c], cubes'[c])
    BY <1>1 DEF Keeps
  <2>2. Fine(c)' /\ (Handable(c) => Handable(c)')
    BY <1>1, <2>1, FineKept DEF HandedInv, ServedInv, upstream
  <2>3. k # "none" /\ c # "none"
    BY SLAssumption
  <2>4. QED
    BY <1>1, <2>2, <2>3 DEF HandedInv, Tooled
<1>2. \A c \in Cubes : Fine(c)' /\ Tooled(c)'
  BY <1>1
<1>3. Stand'
  BY SLAssumption DEF lane, NewInv, LaneWaits, HandedInv, ServedInv, Stand
<1>4. QED
  BY <1>2, <1>3 DEF HandedInv, ServedInv

LEMMA StageSaved ==
    ASSUME ToolTypes, tool \in Cubes, NEW stage \in Stages, Stage(stage)
    PROVE  /\ receipt'[tool].stage = stage
           /\ \A c \in Cubes : c # tool => receipt'[c] = receipt[c]
BY DEF Stage, ToolTypes, Receipts

LEMMA HandedTool == NewInv /\ HandedInv /\ ToolStep => HandedInv'
<1> SUFFICES ASSUME NewInv, HandedInv, ToolStep PROVE HandedInv'
  OBVIOUS
<1>0. /\ LaneInv /\ TypeOK /\ ToolTypes /\ NewCubeIsListed
      /\ tool = "none" \/ tool \in Cubes
  BY DEF NewInv, LaneInv, ToolTypes
<1>1. CASE \E c \in Cubes : Take(c)
  <2>1. PICK c \in Cubes : Take(c)
    BY <1>1
  <2>2. /\ UNCHANGED vars /\ receipt' = receipt /\ tool = "none" /\ tool' = c
        /\ c \in newCubes \/ receipt[c].stage \in Begun
    BY <2>1 DEF Take
  <2>3. UNCHANGED <<rel, table, held, store, csv, done, catalogued, cubes, newCubes,
                    pc, todo, cur, job, assumed>>
    BY <2>2 DEF vars, upstream, region, state, lane
  <2>4. \A d \in Cubes : Fine(d)'
    BY <2>3 DEF HandedInv, ServedInv, Fine, Settled, MergeOwed, ServeOwed
  <2>5. Stand'
    BY <2>3 DEF HandedInv, ServedInv, Stand, Settled, MergeOwed, ServeOwed
  <2>6. \A d \in Cubes : Tooled(d)'
    BY <2>2, <2>3 DEF HandedInv, Tooled, Handable, Begun
  <2>7. QED
    BY <2>4, <2>5, <2>6 DEF HandedInv, ServedInv
<1> SUFFICES ASSUME tool # "none" PROVE HandedInv'
  BY <1>1 DEF ToolStep, Stop, Refuse, Commit, PublishNew, Restart, FinishCommit, PutSome,
     ServeNew, Catalogue, CatalogueReceipt, HandOver, TakenOver, Finish, At
<1>2. PICK k \in Cubes : k = tool
  BY <1>0
<1>3. /\ Fine(k) /\ Tooled(k) /\ cubes[k] \in CubeState /\ k # "none"
      /\ cubes[k].release \in Nat /\ cubes[k].merged \in Nat /\ cubes[k].served \in Nat
  BY <1>0, RecordNumbers, SLAssumption DEF HandedInv, ServedInv
(* Steps of the tool that touch the receipt only.                          *)
<1>4. ASSUME UNCHANGED vars, tool' \in {k, "none"}, Tooled(k)',
             \A c \in Cubes : c # k => receipt'[c] = receipt[c]
      PROVE  HandedInv'
  <2>1. UNCHANGED <<rel, table, held, store, csv, done, catalogued, cubes, newCubes,
                    pc, todo, cur, job, assumed>>
    BY <1>4 DEF vars, upstream, region, state, lane
  <2>2. Fine(k)'
    BY <1>3, <2>1 DEF Fine, Settled, MergeOwed, ServeOwed
  <2>3. QED
    BY <1>2, <1>4, <2>1, <2>2, HandedOne DEF upstream, lane
<1>5. ASSUME UNCHANGED vars PROVE Handable(k)' = Handable(k)
  BY <1>5 DEF Handable, vars, region, state
<1>6. ASSUME NEW stage \in Stages, Stage(stage)
      PROVE  /\ receipt'[k].stage = stage
             /\ \A c \in Cubes : c # k => receipt'[c] = receipt[c]
  BY <1>0, <1>2, <1>6, StageSaved
<1>7. CASE Stop
  BY <1>2, <1>3, <1>4, <1>5, <1>7 DEF Stop, Tooled, vars, region, state
<1>8. CASE Refuse
  <2>1. /\ UNCHANGED vars /\ Stage("refused") /\ tool' = "none"
    BY <1>8 DEF Refuse
  <2>2. receipt'[k].stage = "refused" /\ \A c \in Cubes : c # k => receipt'[c] = receipt[c]
    BY <1>6, <2>1 DEF Stages
  <2>3. QED
    BY <1>3, <1>4, <2>1, <2>2 DEF Tooled
<1>9. CASE Commit
  <2>1. /\ UNCHANGED vars /\ tool' = tool /\ receipt[k].stage \in {"none", "refused"}
        /\ receipt' = [receipt EXCEPT ![tool] =
                          [stage |-> "committing", table |-> table[tool][rel[tool]]]]
    BY <1>2, <1>9 DEF Commit, At
  <2>2. /\ receipt'[k].stage = "committing" /\ \A c \in Cubes : c # k => receipt'[c] = receipt[c]
    BY <1>0, <1>2, <2>1 DEF ToolTypes
  <2>3. k \in newCubes /\ newCubes' = newCubes
    BY <1>2, <1>3, <2>1 DEF Tooled, vars, state
  <2>4. QED
    BY <1>2, <1>4, <2>1, <2>2, <2>3 DEF Tooled
<1>10. CASE Restart \/ CatalogueReceipt \/ Finish
  <2>1. /\ UNCHANGED vars /\ tool' \in {tool, "none"}
        /\ \/ receipt[k].stage = "committing" /\ Stage("none")
           \/ receipt[k].stage = "served" /\ Stage("catalogued")
           \/ Stage("done")
    BY <1>2, <1>10 DEF Restart, CatalogueReceipt, Finish, At
  <2>2. /\ held' = held /\ newCubes' = newCubes
    BY <2>1 DEF vars, region, state
  <2>3. /\ \/ receipt[k].stage = "committing" /\ receipt'[k].stage = "none"
           \/ receipt[k].stage = "served" /\ receipt'[k].stage = "catalogued"
           \/ receipt'[k].stage = "done"
        /\ \A c \in Cubes : c # k => receipt'[c] = receipt[c]
    BY <1>6, <2>1 DEF Stages
  <2>4. Tooled(k)'
    BY <1>3, <1>5, <2>1, <2>2, <2>3 DEF Tooled
  <2>5. QED
    BY <1>2, <1>4, <2>1, <2>3, <2>4
<1>11. CASE PublishNew
  <2>1. /\ receipt[k].stage = "committing" /\ k \notin held /\ held' = held \cup {k}
        /\ store' = [store EXCEPT ![k] = receipt[k].table]
        /\ UNCHANGED <<upstream, csv, done, catalogued, state, lane, assumed, receipt, tool>>
    BY <1>2, <1>11 DEF PublishNew, At, toolVars
  <2>2. k \in newCubes /\ cubes[k].notHeld
    BY <1>3, <2>1 DEF Tooled, Fine
  <2>3. Fine(k)'
    BY <1>3, <2>1, <2>2 DEF Fine, upstream, state
  <2>4. Tooled(k)'
    BY <2>1, <2>2 DEF Tooled, state
  <2>5. store \in [Cubes -> Releases]
    BY <1>0 DEF TypeOK
  <2>6. QED
    BY <1>2, <2>1, <2>3, <2>4, <2>5, HandedOne DEF state
<1>12. CASE FinishCommit
  <2>1. /\ receipt[k].stage = "committing" /\ k \in held /\ Stage("committed")
        /\ UNCHANGED <<upstream, held, store, csv, catalogued, state, lane, assumed, tool>>
    BY <1>2, <1>12 DEF FinishCommit, At
  <2>2. receipt'[k].stage = "committed" /\ \A c \in Cubes : c # k => receipt'[c] = receipt[c]
    BY <1>6, <2>1 DEF Stages
  <2>3. Fine(k)'
    BY <1>3, <2>1 DEF Fine, Settled, MergeOwed, ServeOwed, upstream, state
  <2>4. Tooled(k)'
    BY <1>3, <2>1, <2>2 DEF Tooled, state
  <2>5. QED
    BY <1>2, <2>1, <2>2, <2>3, <2>4, HandedOne DEF state
<1>13. CASE PutSome \/ ServeNew
  <2>1. /\ receipt[k].stage = "committed" /\ (receipt' = receipt \/ Stage("served"))
        /\ \A c \in Cubes : c # k => (c \in assumed => c \in assumed')
        /\ UNCHANGED <<upstream, held, store, done, catalogued, state, lane, tool>>
    BY <1>2, <1>13 DEF PutSome, ServeNew, At, toolVars
  <2>2. \E kept \in SUBSET csv[k] : csv' = [csv EXCEPT ![k] = kept \cup {store[k]}]
    <3>1. {} \in SUBSET csv[k] /\ {store[k]} = {} \cup {store[k]}
      OBVIOUS
    <3>2. QED
      BY <1>2, <1>13, <3>1 DEF PutSome, ServeNew
  <2>3. csv \in [Cubes -> SUBSET (Releases \cup {Older})]
    BY <1>0 DEF TypeOK
  <2>4. /\ csv[k] = {store[k]} => csv'[k] = {store[k]}
        /\ \A c \in Cubes : c # k => csv'[c] = csv[c]
    BY <2>2, <2>3
  <2>5. /\ \/ receipt' = receipt
           \/ receipt'[k].stage = "served" /\ csv'[k] = {store[k]}
        /\ \A c \in Cubes : c # k => receipt'[c] = receipt[c]
    <3>1. CASE PutSome
      BY <3>1 DEF PutSome, toolVars
    <3>2. CASE ServeNew
      BY <1>2, <1>6, <2>3, <3>2 DEF ServeNew, Stages
    <3>3. QED
      BY <1>13, <3>1, <3>2
  <2>6. k \in newCubes /\ k \in held
    BY <1>3, <2>1 DEF Tooled
  <2>7. Fine(k)'
    BY <1>3, <2>1, <2>4, <2>6 DEF Fine, Settled, upstream, state
  <2>8. Tooled(k)'
    BY <1>3, <2>1, <2>5, <2>6 DEF Tooled, Handable, state
  <2>9. QED
    BY <1>2, <2>1, <2>4, <2>5, <2>7, <2>8, HandedOne DEF state
<1>14. CASE Catalogue
  <2>1. /\ receipt[k].stage = "served" /\ catalogued' = catalogued \cup {k}
        /\ UNCHANGED <<upstream, held, store, csv, done, state, lane, assumed, receipt, tool>>
    BY <1>2, <1>14 DEF Catalogue, At, toolVars
  <2>2. k \in newCubes
    BY <1>3, <2>1 DEF Tooled
  <2>3. Fine(k)'
    BY <1>3, <2>1, <2>2 DEF Fine, Settled, upstream, state
  <2>4. Tooled(k)'
    BY <1>3, <2>1 DEF Tooled, Handable, state
  <2>5. QED
    BY <1>2, <2>1, <2>3, <2>4, HandedOne DEF state
(* The lane gets the cube as it was served, on the assumption that it was, *)
(* or with a serve owed.                                                   *)
<1>15. CASE HandOver \/ TakenOver
  <2>1. /\ receipt[k].stage = "catalogued" /\ k \in newCubes /\ newCubes' = newCubes \ {k}
        /\ assumed \subseteq assumed'
        /\ UNCHANGED <<upstream, held, store, csv, done, catalogued, lane, receipt, tool>>
    BY <1>2, <1>15 DEF HandOver, TakenOver, At, LaneOnly, toolVars
  <2>2. cubes \in [Cubes -> CubeState] /\ k \in held /\ Handable(k) /\ cubes[k].merged > 0
    BY <1>0, <1>3, <2>1 DEF TypeOK, Tooled, Fine
  <2>3. /\ \A c \in Cubes : c # k => cubes'[c] = cubes[c]
        /\ cubes'[k].release = cubes[k].release /\ cubes'[k].inflight = cubes[k].inflight
        /\ ~cubes'[k].notHeld
        /\ \/ /\ cubes[k].notHeld /\ cubes'[k].merged = cubes[k].release
              /\ cubes'[k].served = cubes[k].release
              /\ cubes[k].inflight # 0 => k \in assumed'
           \/ /\ ~cubes[k].notHeld /\ cubes'[k].merged = cubes[k].merged
              /\ cubes'[k].served = 0
    BY <1>2, <1>15, <2>2 DEF HandOver, TakenOver, CubeState
  <2>4. Fine(k)'
    BY <1>3, <2>1, <2>2, <2>3
    DEF Fine, Settled, MergeOwed, ServeOwed, Handable, upstream
  <2>5. Tooled(k)'
    BY <1>2, <1>3, <2>1, <2>2, <2>3 DEF Tooled, Handable
  <2>6. QED
    BY <1>2, <2>1, <2>3, <2>4, <2>5, HandedOne
<1>16. QED
  BY <1>1, <1>7, <1>8, <1>9, <1>10, <1>11, <1>12, <1>13, <1>14, <1>15 DEF ToolStep

(* The same with the tool beside the lane, wherever either of them stops   *)
(* and whichever of them publishes, serves or hands over in between.       *)
THEOREM LooksServedBesideTheTool == SpecNew => []LooksServedIsServed
<1>1. InitNew => HandedInv
  <2> SUFFICES ASSUME InitNew PROVE HandedInv
    OBVIOUS
  <2>1. ServedInv
    BY ServedInit DEF InitNew
  <2>2. \A c \in Cubes : receipt[c].stage = "none" /\ tool # c
    BY SLAssumption DEF InitNew
  <2>3. QED
    BY <2>1, <2>2 DEF HandedInv, Tooled
<1>2. NewInv /\ HandedInv /\ [NextNew]_allVars => HandedInv'
  <2> SUFFICES ASSUME NewInv, HandedInv, [NextNew]_allVars PROVE HandedInv'
    OBVIOUS
  <2>1. CASE ToolStep
    BY <2>1, HandedTool
  <2>2. CASE (LaneStep \/ StatCan) /\ UNCHANGED toolVars
    BY <2>2, HandedLane
  <2>3. CASE UNCHANGED allVars
    <3>1. UNCHANGED <<rel, table, held, store, csv, done, catalogued, cubes, newCubes,
                      pc, todo, cur, job, assumed, receipt, tool>>
      BY <2>3 DEF allVars, vars, upstream, region, state, lane, toolVars
    <3>2. \A c \in Cubes : Fine(c)' /\ Tooled(c)'
      BY <3>1 DEF HandedInv, ServedInv, Fine, Settled, MergeOwed, ServeOwed, Tooled, Handable
    <3>3. Stand'
      BY <3>1 DEF HandedInv, ServedInv, Stand, Settled, MergeOwed, ServeOwed
    <3>4. QED
      BY <3>2, <3>3 DEF HandedInv, ServedInv
  <2>4. QED
    BY <2>1, <2>2, <2>3 DEF NextNew
<1>3. NewInv /\ HandedInv => LooksServedIsServed
  BY FineLooks DEF NewInv, HandedInv
<1>4. QED
  BY <1>1, <1>2, <1>3, NewInit, NewNext, PTL DEF SpecNew
=============================================================================
