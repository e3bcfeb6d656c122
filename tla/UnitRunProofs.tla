---------------------------- MODULE UnitRunProofs ----------------------------
(***************************************************************************)
(* What UnitRun promises for any unit, any runners and any bound on the    *)
(* revisions: its types, one run of the unit at a time, a lease nobody     *)
(* else takes, a recorded vintage that was earned, and a home for every    *)
(* CSV that is behind the store.                                           *)
(***************************************************************************)
EXTENDS UnitRun, TLAPS

(* The parts of TypeOK that the steps below need one by one.               *)
LEMMA Typed ==
    ASSUME TypeOK
    PROVE  /\ upstream \in Data /\ store \in Data /\ served \in Data
           /\ unit \in Units
           /\ queue \subseteq Series /\ desktop \subseteq Series /\ full \in BOOLEAN
           /\ lease \in Runners \cup {"free", "dead"}
           /\ pc \in [Runners -> PCs]
           /\ us \in [Runners -> Rows]
           /\ probe \in [Runners -> Data \cup {Never}]
           /\ res \in [Runners -> Results]
BY DEF TypeOK

LEMMA ServeType ==
    ASSUME TypeOK, NEW S \in SUBSET Series, Serve(S)
    PROVE  served' \in Data
BY Typed DEF Serve, Data

LEMMA MergeType ==
    ASSUME TypeOK, NEW M \in SUBSET Series, Merge(M)
    PROVE  store' \in Data
BY Typed DEF Merge, Data

LEMMA GotoType ==
    ASSUME TypeOK, NEW r \in Runners, NEW w \in PCs, Goto(r, w)
    PROVE  /\ pc' \in [Runners -> PCs]
           /\ pc'[r] = w
           /\ \A q \in Runners : q # r => pc'[q] = pc[q]
BY Typed DEF Goto

LEMMA NoResultType == NoResult \in Results
BY URAssumption, 0 \in 0..MaxRev DEF NoResult, Results, Statuses

LEMMA ForgetType ==
    ASSUME TypeOK, NEW r \in Runners, Forget(r)
    PROVE  /\ us' \in [Runners -> Rows]
           /\ probe' \in [Runners -> Data \cup {Never}]
           /\ res' \in [Runners -> Results]
           /\ us'[r] = NoRow
           /\ \A q \in Runners : q # r => us'[q] = us[q] /\ probe'[q] = probe[q] /\ res'[q] = res[q]
<1>1. NoRow \in Rows
  BY URAssumption DEF NoRow, Rows
<1>2. QED
  BY <1>1, NoResultType, Typed DEF Forget

LEMMA ResultType ==
    ASSUME NEW status \in Statuses, NEW n \in 0..MaxRev, NEW changed \in SUBSET Series,
           NEW missed \in SUBSET Series, NEW owed \in BOOLEAN
    PROVE  [status |-> status, last |-> n, changed |-> changed, missed |-> missed,
            owed |-> owed] \in Results
BY DEF Results

(* A status set leaves the vintage and the last observation alone.         *)
LEMMA StatusType ==
    ASSUME TypeOK, NEW status \in Statuses,
           unit' = [unit EXCEPT !.status = status]
    PROVE  unit' \in Units /\ unit'.vintage = unit.vintage
BY Typed DEF Units

LEMMA PhaseEndsType ==
    ASSUME TypeOK, NEW r \in Runners, NEW missed \in SUBSET Series,
           NEW owed \in BOOLEAN, NEW demote \in BOOLEAN, NEW w \in PCs,
           PhaseEnds(r, missed, owed, demote, w)
    PROVE  /\ res' \in [Runners -> Results]
           /\ pc' \in [Runners -> PCs]
           /\ pc'[r] = w
           /\ res'[r].status \in {res[r].status, Demoted(res[r].status)}
           /\ \A q \in Runners : q # r => res'[q] = res[q] /\ pc'[q] = pc[q]
           /\ UNCHANGED <<upstream, store, unit, queue, lease, us, probe>>
<1> DEFINE old == res[r]
           new == res'[r]
<1>1. old \in Results
  BY Typed
<1>2. Demoted(old.status) \in Statuses
  BY <1>1 DEF Demoted, Results, Statuses
<1>3. /\ new = [old EXCEPT !.changed = {}, !.missed = missed, !.owed = @ \/ owed,
                           !.status = IF demote THEN Demoted(@) ELSE @]
      /\ res' = [res EXCEPT ![r] = new]
  BY Typed DEF PhaseEnds
<1>4. new \in Results /\ new.status \in {old.status, Demoted(old.status)}
  <2>1. (old.owed \/ owed) \in BOOLEAN
    BY <1>1 DEF Results
  <2>2. CASE demote
    BY <1>1, <1>2, <1>3, <2>1, <2>2 DEF Results
  <2>3. CASE ~demote
    BY <1>1, <1>2, <1>3, <2>1, <2>3 DEF Results
  <2>4. QED
    BY <2>2, <2>3
<1>5. Goto(r, w) /\ UNCHANGED <<upstream, store, unit, queue, lease, us, probe>>
  BY DEF PhaseEnds
<1>6. QED
  BY <1>3, <1>4, <1>5, GotoType, Typed

-----------------------------------------------------------------------------
(* Types *)

LEMMA TypeInit == Init => TypeOK
<1> SUFFICES ASSUME Init PROVE TypeOK
  OBVIOUS
<1>1. 0 \in 0..MaxRev
  BY URAssumption
<1>2. /\ upstream \in Data /\ store \in Data /\ served \in Data
      /\ lease \in Runners \cup {"free", "dead"}
      /\ pc \in [Runners -> PCs]
      /\ queue \subseteq Series /\ desktop \subseteq Series /\ full \in BOOLEAN
  BY <1>1 DEF Init, Data, PCs
<1>3. unit \in Units
  BY <1>1 DEF Init, Units, Statuses
<1>4. NoRow \in Rows
  BY <1>1 DEF NoRow, Rows
<1>5. /\ us \in [Runners -> Rows]
      /\ probe \in [Runners -> Data \cup {Never}]
      /\ res \in [Runners -> Results]
  BY <1>4, NoResultType DEF Init
<1>6. QED
  BY <1>2, <1>3, <1>5 DEF TypeOK

LEMMA TypeEnvironment == TypeOK /\ Environment => TypeOK'
<1> SUFFICES ASSUME TypeOK, Environment PROVE TypeOK'
  OBVIOUS
<1>1. CASE LeaseExpires
  BY <1>1 DEF LeaseExpires, TypeOK, data, debts, local
<1>2. CASE BulkDerive
  BY <1>2, ServeType DEF BulkDerive, TypeOK, local
<1>3. ASSUME NEW s \in Series, Publish(s) PROVE TypeOK'
  <2>1. upstream' \in Data
    BY <1>3, Typed, URAssumption DEF Publish, Data
  <2>2. QED
    BY <2>1, <1>3 DEF Publish, TypeOK, debts, local
<1>4. ASSUME NEW s \in Series, DesktopDerive(s) PROVE TypeOK'
  BY <1>4, ServeType DEF DesktopDerive, TypeOK, local
<1>5. QED
  BY <1>1, <1>2, <1>3, <1>4 DEF Environment

LEMMA TypePrelude ==
    ASSUME TypeOK, NEW r \in Runners, Prelude(r)
    PROVE  TypeOK'
<1>1. CASE ReadUnit(r)
  <2>1. [vintage |-> unit.vintage, last |-> unit.last] \in Rows
    BY Typed DEF Units, Rows
  <2>2. us' \in [Runners -> Rows]
    BY <1>1, <2>1, Typed DEF ReadUnit
  <2>3. pc' \in [Runners -> PCs]
    BY <1>1, GotoType DEF ReadUnit, PCs
  <2>4. QED
    BY <1>1, <2>2, <2>3 DEF ReadUnit, TypeOK, data, debts
<1>2. CASE ProbeFails(r)
  <2>1. unit' \in Units
    BY <1>2, StatusType DEF ProbeFails, Statuses
  <2>2. QED
    BY <1>2, <2>1, GotoType, ForgetType DEF ProbeFails, TypeOK, data, debts, PCs
<1>3. CASE ProbeSame(r)
  <2>1. unit' \in Units
    BY <1>3, StatusType DEF ProbeSame, Statuses
  <2>2. QED
    BY <1>3, <2>1, GotoType, ForgetType DEF ProbeSame, TypeOK, data, debts, PCs
<1>4. CASE Proceed(r)
  <2>1. probe' \in [Runners -> Data \cup {Never}]
    BY <1>4, Typed DEF Proceed
  <2>2. QED
    BY <1>4, <2>1, GotoType DEF Proceed, TypeOK, data, debts, PCs
<1>5. CASE Claim(r)
  BY <1>5, GotoType DEF Claim, TypeOK, data, debts, local, PCs
<1>6. CASE Locked(r)
  BY <1>6, GotoType, ForgetType DEF Locked, TypeOK, data, debts, PCs
<1>7. QED
  BY <1>1, <1>2, <1>3, <1>4, <1>5, <1>6 DEF Prelude, ProbeChanged, ProbeForced

(* What every fetch that returns a Result does.                            *)
LEMMA FetchedType ==
    ASSUME TypeOK, NEW r \in Runners, NEW status \in Statuses, NEW M \in SUBSET Series,
           NEW changed \in SUBSET Series, NEW owed \in BOOLEAN,
           Fetched(r, status, M, changed, owed)
    PROVE  /\ TypeOK'
           /\ res'[r].status = status
           /\ \A q \in Runners : q # r => res'[q] = res[q] /\ pc'[q] = pc[q]
<1>1. PICK n \in 0..MaxRev :
        res' = [res EXCEPT ![r] = [status |-> status, last |-> n, changed |-> changed,
                                   missed |-> {}, owed |-> owed]]
  BY DEF Fetched
<1> DEFINE new == [status |-> status, last |-> n, changed |-> changed,
                   missed |-> {}, owed |-> owed]
<1>2. new \in Results /\ new.status = status
  BY DEF Results
<1>3. /\ res' \in [Runners -> Results] /\ res'[r] = new
      /\ \A q \in Runners : q # r => res'[q] = res[q]
  <2> HIDE DEF new
  <2>1. res' = [res EXCEPT ![r] = new]
    BY <1>1 DEF new
  <2>2. QED
    BY <1>2, <2>1, Typed
<1>4. Merge(M) /\ Goto(r, "csv") /\ UNCHANGED <<upstream, served, unit, debts, lease, us, probe>>
  BY DEF Fetched
<1>5. store' \in Data /\ pc' \in [Runners -> PCs] /\ \A q \in Runners : q # r => pc'[q] = pc[q]
  BY <1>4, MergeType, GotoType DEF PCs
<1>6. TypeOK'
  BY <1>3, <1>4, <1>5 DEF TypeOK, debts
<1>7. QED
  BY <1>2, <1>3, <1>5, <1>6

LEMMA ChangedType ==
    ASSUME NEW M \in SUBSET Series
    PROVE  Changed(M) \in SUBSET Series
BY DEF Changed

LEMMA TypeFetch ==
    ASSUME TypeOK, NEW r \in Runners, Fetch(r)
    PROVE  TypeOK'
<1>1. CASE FetchOk(r)
  BY <1>1, FetchedType, ChangedType DEF FetchOk, Statuses
<1>2. CASE FetchCapped(r)
  BY <1>2, FetchedType DEF FetchCapped, Statuses
<1>3. CASE FetchPartial(r)
  BY <1>3, FetchedType, ChangedType DEF FetchPartial, Statuses
<1>4. CASE FetchNoChange(r)
  <2>1. PICK n \in 0..MaxRev :
          res' = [res EXCEPT ![r] = [status |-> "no_change", last |-> n, changed |-> {},
                                     missed |-> {}, owed |-> FALSE]]
    BY <1>4 DEF FetchNoChange
  <2>2. res' \in [Runners -> Results]
    BY <2>1, ResultType, Typed DEF Statuses
  <2>3. store' \in Data
    BY <1>4, MergeType DEF FetchNoChange
  <2>4. QED
    BY <1>4, <2>2, <2>3, GotoType DEF FetchNoChange, TypeOK, debts, PCs
<1>5. CASE FetchRaises(r)
  <2>1. store' \in Data
    BY <1>5, MergeType DEF FetchRaises
  <2>2. unit' \in Units
    BY <1>5, StatusType DEF FetchRaises, Statuses
  <2>3. QED
    BY <1>5, <2>1, <2>2, GotoType DEF FetchRaises, TypeOK, debts, local, PCs
<1>6. CASE WindowStop(r)
  BY <1>6, GotoType DEF WindowStop, TypeOK, data, debts, local, PCs
<1>7. QED
  BY <1>1, <1>2, <1>3, <1>4, <1>5, <1>6 DEF Fetch

(* Every end of the CSV phase: PhaseEnds, CSVs served, debts booked.       *)
LEMMA PhaseType ==
    ASSUME TypeOK, NEW r \in Runners, NEW missed \in SUBSET Series,
           NEW owed \in BOOLEAN, NEW demote \in BOOLEAN, NEW w \in PCs,
           PhaseEnds(r, missed, owed, demote, w),
           served' \in Data, desktop' \subseteq Series, full' \in BOOLEAN
    PROVE  TypeOK'
<1>1. /\ res' \in [Runners -> Results]
      /\ pc' \in [Runners -> PCs]
      /\ UNCHANGED <<upstream, store, unit, queue, lease, us, probe>>
  BY PhaseEndsType
<1>2. QED
  BY <1>1, Typed DEF TypeOK

LEMMA TypeCsvPhase ==
    ASSUME TypeOK, NEW r \in Runners, CsvPhase(r)
    PROVE  TypeOK'
<1> DEFINE changed == res[r].changed
<1>1. /\ changed \in SUBSET Series
      /\ served \in Data /\ desktop \subseteq Series /\ full \in BOOLEAN
  BY Typed DEF Results
<1>2. {"drain", "book"} \subseteq PCs
  BY DEF PCs
<1>3. ASSUME NEW D \in SUBSET changed, Serve(D) PROVE served' \in Data
  BY <1>1, <1>3, ServeType
<1>4. CASE NothingToDerive(r)
  BY <1>4, <1>1, <1>2, PhaseType DEF NothingToDerive
<1>5. CASE Derive(r)
  <2>1. PICK missed \in SUBSET changed, failed \in SUBSET changed :
          /\ Serve(changed \ missed)
          /\ \/ /\ PhaseEnds(r, missed, FALSE, failed # {}, "drain")
                /\ UNCHANGED desktop
             \/ /\ desktop' = desktop \cup missed
                /\ PhaseEnds(r, {}, FALSE, failed # {}, "drain")
             \/ /\ PhaseEnds(r, IF failed = missed THEN failed ELSE changed, FALSE, TRUE, "drain")
                /\ UNCHANGED desktop
    BY <1>5 DEF Derive
  <2>2. served' \in Data /\ full' \in BOOLEAN
    BY <1>1, <1>3, <1>5, <2>1 DEF Derive
  <2>3. missed \in SUBSET Series /\ failed \in SUBSET Series
    BY <1>1
  <2>4. CASE PhaseEnds(r, missed, FALSE, failed # {}, "drain") /\ UNCHANGED desktop
    BY <1>1, <1>2, <2>2, <2>3, <2>4, PhaseType
  <2>5. CASE desktop' = desktop \cup missed /\ PhaseEnds(r, {}, FALSE, failed # {}, "drain")
    BY <1>1, <1>2, <2>2, <2>3, <2>5, PhaseType
  <2>6. CASE /\ PhaseEnds(r, IF failed = missed THEN failed ELSE changed, FALSE, TRUE, "drain")
             /\ UNCHANGED desktop
    BY <1>1, <1>2, <2>2, <2>3, <2>6, PhaseType
  <2>7. QED
    BY <2>1, <2>4, <2>5, <2>6
<1>6. CASE DeriveCrashes(r)
  <2>1. CASE /\ \E D \in SUBSET changed : Serve(D)
             /\ PhaseEnds(r, changed, FALSE, TRUE, "drain")
             /\ UNCHANGED <<desktop, full>>
    BY <1>1, <1>2, <1>3, <2>1, PhaseType
  <2>2. CASE /\ \E D \in SUBSET changed : Serve(D)
             /\ desktop' = desktop \cup changed
             /\ PhaseEnds(r, {}, FALSE, TRUE, "drain")
             /\ UNCHANGED full
    BY <1>1, <1>2, <1>3, <2>2, PhaseType
  <2>3. CASE /\ full' = (full \/ DesktopOwed)
             /\ PhaseEnds(r, {}, FALSE, TRUE, "drain")
             /\ UNCHANGED <<served, desktop>>
    BY <1>1, <1>2, <2>3, PhaseType, URAssumption
  <2>4. QED
    BY <1>6, <2>1, <2>2, <2>3 DEF DeriveCrashes
<1>7. CASE FenceTrips(r)
  <2>1. served' \in Data
    BY <1>3, <1>7 DEF FenceTrips
  <2>2. CASE PhaseEnds(r, {}, FALSE, FALSE, "book") /\ UNCHANGED <<desktop, full>>
    BY <1>1, <1>2, <2>1, <2>2, PhaseType
  <2>3. CASE /\ desktop' = desktop \cup changed
             /\ PhaseEnds(r, {}, FALSE, FALSE, "book")
             /\ UNCHANGED full
    BY <1>1, <1>2, <2>1, <2>3, PhaseType
  <2>4. CASE PhaseEnds(r, changed, FALSE, TRUE, "book") /\ UNCHANGED <<desktop, full>>
    BY <1>1, <1>2, <2>1, <2>4, PhaseType
  <2>5. CASE full' = TRUE /\ PhaseEnds(r, {}, FALSE, TRUE, "book") /\ UNCHANGED desktop
    BY <1>1, <1>2, <2>1, <2>5, PhaseType
  <2>6. QED
    BY <1>7, <2>2, <2>3, <2>4, <2>5 DEF FenceTrips
<1>8. QED
  BY <1>4, <1>5, <1>6, <1>7 DEF CsvPhase

LEMMA DrainType ==
    ASSUME TypeOK, DrainQueue
    PROVE  /\ served' \in Data /\ queue' \subseteq Series /\ desktop' \subseteq Series
           /\ UNCHANGED <<upstream, store, unit, full, lease, us, probe, res>>
<1>1. PICK kept \in SUBSET queue, moved \in SUBSET queue :
        /\ Serve(queue \ kept)
        /\ queue' = kept \ moved
        /\ desktop' = desktop \cup moved
  BY DEF DrainQueue
<1>2. served' \in Data
  BY <1>1, Typed, ServeType
<1>3. UNCHANGED <<upstream, store, unit, full, lease, us, probe, res>>
  BY DEF DrainQueue, local
<1>4. QED
  BY <1>1, <1>2, <1>3, Typed

LEMMA RecordType ==
    ASSUME TypeOK, NEW r \in Runners, Record(r)
    PROVE  /\ unit' \in Units
           /\ unit'.vintage = IF Clean(res[r].status) THEN probe[r] ELSE us[r].vintage
<1>1. res[r] \in Results /\ us[r] \in Rows /\ probe[r] \in Data \cup {Never}
  BY Typed
<1>2. PICK v, n : /\ unit' = [vintage |-> v, last |-> n, status |-> res[r].status]
                  /\ v = IF Clean(res[r].status) THEN probe[r] ELSE us[r].vintage
                  /\ n = IF res[r].last > us[r].last THEN res[r].last ELSE us[r].last
  BY DEF Record
<1>3. /\ v \in Data \cup {Never}
      /\ n \in 0..MaxRev
      /\ res[r].status \in Statuses
  BY <1>1, <1>2 DEF Results, Rows
<1>4. QED
  BY <1>2, <1>3 DEF Units

LEMMA TypeFinish ==
    ASSUME TypeOK, NEW r \in Runners, Finish(r) \/ Leftover(r) \/ Die(r)
    PROVE  TypeOK'
<1>1. CASE Drain(r)
  BY <1>1, DrainType, GotoType DEF Drain, TypeOK, PCs
<1>2. CASE Book(r)
  <2>1. queue' \subseteq Series /\ full' \in BOOLEAN
    BY <1>2, Typed DEF Book, Results
  <2>2. QED
    BY <1>2, <2>1, GotoType DEF Book, TypeOK, data, local, PCs
<1>3. CASE Record(r)
  BY <1>3, RecordType, GotoType DEF Record, TypeOK, data, debts, local, PCs
<1>4. CASE Release(r)
  BY <1>4, GotoType, ForgetType DEF Release, TypeOK, data, debts, PCs
<1>5. CASE LeftoverClaim(r)
  BY <1>5, GotoType DEF LeftoverClaim, TypeOK, data, debts, local, PCs
<1>6. CASE LeftoverDrain(r)
  BY <1>6, DrainType, GotoType DEF LeftoverDrain, TypeOK, PCs
<1>7. CASE Die(r)
  BY <1>7, GotoType, ForgetType DEF Die, TypeOK, data, debts, PCs
<1>8. CASE FinishRaises(r)
  BY <1>8, GotoType, StatusType
     DEF FinishRaises, TypeOK, data, debts, local, PCs, Statuses
<1>9. QED
  BY <1>1, <1>2, <1>3, <1>4, <1>5, <1>6, <1>7, <1>8 DEF Finish, Leftover

LEMMA TypeNext == TypeOK /\ [Next]_vars => TypeOK'
<1> SUFFICES ASSUME TypeOK, [Next]_vars PROVE TypeOK'
  OBVIOUS
<1>1. CASE UNCHANGED vars
  BY <1>1 DEF TypeOK, vars, data, debts, local
<1>2. CASE Next
  BY <1>2, TypeEnvironment, TypePrelude, TypeFetch, TypeCsvPhase, TypeFinish DEF Next
<1>3. QED
  BY <1>1, <1>2

(* Every reachable state of a unit's refresh has the right types.          *)
THEOREM TypeCorrect == Spec => []TypeOK
BY TypeInit, TypeNext, PTL DEF Spec

-----------------------------------------------------------------------------
(* One run of the unit at a time *)

(* A step that leaves the lease alone, and puts r to work only if it was   *)
(* at work already.                                                        *)
LEMMA LeaseKept ==
    ASSUME TypeOK, WorkerHoldsLease, NEW r \in Runners, NEW w \in PCs, Goto(r, w),
           lease' = lease, w \in Working => pc[r] \in Working
    PROVE  WorkerHoldsLease'
<1>1. pc'[r] = w /\ \A q \in Runners : q # r => pc'[q] = pc[q]
  BY GotoType
<1>2. ASSUME NEW q \in Runners, pc'[q] \in Working PROVE lease' = q
  BY <1>1, <1>2 DEF WorkerHoldsLease
<1>3. QED
  BY <1>2 DEF WorkerHoldsLease

LEMMA FreeMeansNobody ==
    ASSUME WorkerHoldsLease, lease = "free" \/ lease = "dead"
    PROVE  \A q \in Runners : pc[q] \notin Working
BY URAssumption DEF WorkerHoldsLease

LEMMA LeasePrelude ==
    ASSUME TypeOK, WorkerHoldsLease, NEW r \in Runners, Prelude(r)
    PROVE  WorkerHoldsLease'
<1>1. CASE ReadUnit(r)
  BY <1>1, LeaseKept DEF ReadUnit, PCs, Working
<1>2. CASE ProbeFails(r)
  BY <1>2, LeaseKept DEF ProbeFails, PCs, Working
<1>3. CASE ProbeSame(r)
  BY <1>3, LeaseKept DEF ProbeSame, PCs, Working
<1>4. CASE Proceed(r)
  BY <1>4, LeaseKept DEF Proceed, PCs, Working
<1>5. CASE Claim(r)
  <2>1. lease = "free" /\ lease' = r
    BY <1>5 DEF Claim
  <2>2. \A q \in Runners : q # r => pc'[q] = pc[q]
    BY <1>5, GotoType DEF Claim, PCs
  <2>3. QED
    BY <2>1, <2>2, FreeMeansNobody DEF WorkerHoldsLease
<1>6. CASE Locked(r)
  BY <1>6, LeaseKept DEF Locked, PCs, Working
<1>7. QED
  BY <1>1, <1>2, <1>3, <1>4, <1>5, <1>6 DEF Prelude, ProbeChanged, ProbeForced

LEMMA LeaseFetch ==
    ASSUME TypeOK, WorkerHoldsLease, NEW r \in Runners, Fetch(r)
    PROVE  WorkerHoldsLease'
<1>1. pc[r] \in Working /\ lease' = lease
  BY DEF Fetch, FetchOk, FetchCapped, FetchPartial, FetchNoChange, FetchRaises, WindowStop,
         Fetched, Working
<1>2. \E w \in PCs : Goto(r, w)
  BY DEF Fetch, FetchOk, FetchCapped, FetchPartial, FetchNoChange, FetchRaises, WindowStop,
         Fetched, PCs
<1>3. QED
  BY <1>1, <1>2, LeaseKept

LEMMA LeaseCsvPhase ==
    ASSUME TypeOK, WorkerHoldsLease, NEW r \in Runners, CsvPhase(r)
    PROVE  WorkerHoldsLease'
<1>1. pc[r] \in Working
  BY DEF CsvPhase, NothingToDerive, Derive, DeriveCrashes, FenceTrips, Working
<1>2. lease' = lease
  BY DEF CsvPhase, NothingToDerive, Derive, DeriveCrashes, FenceTrips, PhaseEnds
<1>3. \E w \in PCs : Goto(r, w)
  <2>1. \A missed, owed, demote, w : PhaseEnds(r, missed, owed, demote, w) => Goto(r, w)
    BY DEF PhaseEnds
  <2>2. Goto(r, "drain") \/ Goto(r, "book")
    BY <2>1 DEF CsvPhase, NothingToDerive, Derive, DeriveCrashes, FenceTrips
  <2>3. QED
    BY <2>2 DEF PCs
<1>4. QED
  BY <1>1, <1>2, <1>3, LeaseKept

LEMMA LeaseFinish ==
    ASSUME TypeOK, WorkerHoldsLease, NEW r \in Runners, Finish(r) \/ Leftover(r) \/ Die(r)
    PROVE  WorkerHoldsLease'
<1>1. CASE Drain(r)
  BY <1>1, LeaseKept DEF Drain, DrainQueue, PCs, Working
<1>2. CASE Book(r)
  BY <1>2, LeaseKept DEF Book, PCs, Working
<1>3. CASE Record(r)
  BY <1>3, LeaseKept DEF Record, PCs, Working
<1>4. CASE LeftoverDrain(r)
  BY <1>4, LeaseKept DEF LeftoverDrain, DrainQueue, PCs, Working
<1>5. CASE LeftoverClaim(r)
  <2>1. lease = "free" /\ lease' = r
    BY <1>5 DEF LeftoverClaim
  <2>2. \A q \in Runners : q # r => pc'[q] = pc[q]
    BY <1>5, GotoType DEF LeftoverClaim, PCs
  <2>3. QED
    BY <2>1, <2>2, FreeMeansNobody DEF WorkerHoldsLease
<1>6. CASE Release(r) \/ Die(r)
  <2>1. /\ pc'[r] = "idle" /\ \A q \in Runners : q # r => pc'[q] = pc[q]
        /\ lease # r => lease' = lease
    BY <1>6, GotoType DEF Release, Die, PCs
  <2>2. ASSUME NEW q \in Runners, pc'[q] \in Working PROVE lease' = q
    <3>1. q # r /\ lease = q
      BY <2>1, <2>2 DEF Working, WorkerHoldsLease
    <3>2. QED
      BY <2>1, <3>1
  <2>3. QED
    BY <2>2 DEF WorkerHoldsLease
<1>7. CASE FinishRaises(r)
  BY <1>7, LeaseKept DEF FinishRaises, PCs, Working
<1>8. QED
  BY <1>1, <1>2, <1>3, <1>4, <1>5, <1>6, <1>7 DEF Finish, Leftover

LEMMA LeaseEnvironment ==
    ASSUME ~Runaway, WorkerHoldsLease, Environment
    PROVE  WorkerHoldsLease'
<1>1. UNCHANGED pc
  BY DEF Environment, LeaseExpires, BulkDerive, Publish, DesktopDerive, local
<1>2. CASE UNCHANGED lease
  BY <1>1, <1>2 DEF WorkerHoldsLease
<1>3. CASE lease = "dead"
  BY <1>1, <1>3, FreeMeansNobody DEF WorkerHoldsLease
<1>4. QED
  BY <1>2, <1>3 DEF Environment, LeaseExpires, BulkDerive, Publish, DesktopDerive

LEMMA LeaseNext == ~Runaway /\ TypeOK /\ WorkerHoldsLease /\ [Next]_vars => WorkerHoldsLease'
<1> SUFFICES ASSUME ~Runaway, TypeOK, WorkerHoldsLease, [Next]_vars PROVE WorkerHoldsLease'
  OBVIOUS
<1>1. CASE UNCHANGED vars
  BY <1>1 DEF WorkerHoldsLease, vars
<1>2. CASE Next
  BY <1>2, LeaseEnvironment, LeasePrelude, LeaseFetch, LeaseCsvPhase, LeaseFinish DEF Next
<1>3. QED
  BY <1>1, <1>2

(* One run of the unit at a time, for any runners, as long as no lease     *)
(* expires under a living owner.                                           *)
THEOREM OneRunPerUnitHolds == ASSUME ~Runaway PROVE Spec => []OneRunPerUnit
<1>1. Init => WorkerHoldsLease
  BY DEF Init, WorkerHoldsLease, Working
<1>2. WorkerHoldsLease => OneRunPerUnit
  BY DEF WorkerHoldsLease, OneRunPerUnit
<1>3. TypeOK /\ WorkerHoldsLease /\ [Next]_vars => WorkerHoldsLease'
  BY LeaseNext
<1>4. QED
  BY <1>1, <1>2, <1>3, TypeCorrect, PTL DEF Spec

-----------------------------------------------------------------------------
(* Nobody takes an owner's lease *)

(* A step other than an expiry changes the lease of an owner only as its   *)
(* own death or release: Claim and LeftoverClaim want the lease free.      *)
LEMMA LeaseTaken ==
    ASSUME TypeOK, Next, lease \in Runners, lease' # lease
    PROVE  pc' = pc \/ pc'[lease] # pc[lease]
<1>1. lease # "free" /\ lease # "dead"
  BY URAssumption
<1>2. CASE Environment
  BY <1>2 DEF Environment, LeaseExpires, BulkDerive, Publish, DesktopDerive, local
<1>3. ASSUME NEW r \in Runners, Prelude(r) \/ Fetch(r) PROVE FALSE
  <2>1. ~Fetch(r)
    BY DEF Fetch, FetchOk, FetchCapped, FetchPartial, FetchNoChange, FetchRaises, WindowStop,
           Fetched
  <2>2. ~Prelude(r)
    BY <1>1 DEF Prelude, ReadUnit, ProbeFails, ProbeSame, ProbeChanged, ProbeForced, Proceed,
                Claim, Locked
  <2>3. QED
    BY <1>3, <2>1, <2>2
<1>4. ASSUME NEW r \in Runners PROVE ~CsvPhase(r)
  BY DEF CsvPhase, NothingToDerive, Derive, DeriveCrashes, FenceTrips, PhaseEnds
<1>5. ASSUME NEW r \in Runners, Finish(r) \/ Leftover(r) \/ Die(r)
      PROVE  pc'[lease] # pc[lease]
  <2>1. Release(r) \/ Die(r)
    BY <1>1, <1>5 DEF Finish, Drain, Book, Record, FinishRaises, Leftover, LeftoverClaim,
                      LeftoverDrain, DrainQueue
  <2>2. lease = r /\ pc[r] # "idle" /\ Goto(r, "idle")
    BY <2>1 DEF Release, Die
  <2>3. QED
    BY <2>2, GotoType DEF PCs
<1>6. QED
  BY <1>2, <1>3, <1>4, <1>5 DEF Next

(* No step of another runner takes a lease away, for any runners, also     *)
(* when leases expire under living owners and processes die.               *)
THEOREM LeaseKeptByOthersHolds == Spec => LeaseKeptByOthers
<1>1. TypeOK /\ [Next]_vars =>
        [lease' # lease /\ lease \in Runners => (pc' = pc \/ pc'[lease] # pc[lease])]_vars
  BY LeaseTaken
<1>2. QED
  BY <1>1, TypeCorrect, PTL DEF Spec, LeaseKeptByOthers

-----------------------------------------------------------------------------
(* A recorded vintage was earned *)

(* What is earned stays earned while the data only moves on.               *)
LEMMA EarnedStays ==
    ASSUME NEW v \in Data \cup {Never}, NEW d \in Data, NEW e \in Data,
           Earned(v, d), Earned(d, e)
    PROVE  Earned(v, e)
<1>1. CASE v = Never
  BY <1>1 DEF Earned
<1>2. CASE d = Never
  <2>1. Series = {}
    <3>1. DOMAIN d = Series /\ DOMAIN Never = {}
      BY DEF Data, Never
    <3>2. QED
      BY <1>2, <3>1
  <2>2. QED
    BY <2>1 DEF Earned
<1>3. CASE v \in Data /\ v # Never /\ d # Never
  <2>1. ASSUME NEW s \in Series PROVE v[s] <= e[s]
    <3>1. v[s] \in Nat /\ d[s] \in Nat /\ e[s] \in Nat
      BY <1>3, URAssumption DEF Data
    <3>2. v[s] <= d[s] /\ d[s] <= e[s]
      BY <1>3 DEF Earned
    <3>3. QED
      BY <3>1, <3>2
  <2>2. QED
    BY <2>1 DEF Earned
<1>4. QED
  BY <1>1, <1>2, <1>3

LEMMA EarnedSame ==
    ASSUME NEW d \in Data
    PROVE  Earned(d, d)
<1>1. \A s \in Series : d[s] \in Nat
  BY URAssumption DEF Data
<1>2. QED
  BY <1>1 DEF Earned

LEMMA NeverEarned == ASSUME NEW d PROVE Earned(Never, d)
BY DEF Earned

(* Vintages have the type Earned speaks of.                                *)
LEMMA VintageTypes ==
    ASSUME TypeOK
    PROVE  /\ upstream \in Data /\ store \in Data
           /\ unit.vintage \in Data \cup {Never}
           /\ \A r \in Runners : /\ us[r].vintage \in Data \cup {Never}
                                 /\ probe[r] \in Data \cup {Never}
BY Typed DEF Units, Rows

(* A merge brings series up to the publisher's revision, never back.       *)
LEMMA MergeMovesOn ==
    ASSUME TypeOK, Earned(store, upstream), NEW M \in SUBSET Series, Merge(M),
           upstream' = upstream
    PROVE  /\ Earned(store, store')
           /\ Earned(store', upstream')
           /\ M = Series => store' = upstream
<1>1. /\ store \in [Series -> Nat] /\ upstream \in [Series -> Nat]
      /\ store' = [s \in Series |-> IF s \in M THEN upstream[s] ELSE store[s]]
  BY Typed, URAssumption DEF Data, Merge
<1>2. \A s \in Series : store[s] <= upstream[s]
  <2>1. CASE store = Never
    <3>1. DOMAIN store = Series /\ DOMAIN Never = {}
      BY <1>1 DEF Never
    <3>2. QED
      BY <2>1, <3>1
  <2>2. QED
    BY <2>1 DEF Earned
<1>3. /\ \A s \in Series : store[s] <= store'[s] /\ store'[s] <= upstream[s]
      /\ M = Series => store' = upstream
  BY <1>1, <1>2
<1>4. QED
  BY <1>3 DEF Earned

(* The conjuncts of VintageInv about one runner.                           *)
Honest(r) == /\ Earned(us[r].vintage, store)
             /\ Earned(probe[r], upstream)
             /\ pc[r] \in {"csv", "drain", "book", "record"} /\ Clean(res[r].status)
                  => Earned(probe[r], store)

(* A step of r, or of nobody: the data only moves on, the other runners    *)
(* keep what they hold.                                                    *)
LEMMA VintageStep ==
    ASSUME TypeOK, TypeOK', VintageInv, NEW r \in Runners,
           \A q \in Runners : q # r => /\ pc'[q] = pc[q] /\ us'[q] = us[q]
                                       /\ probe'[q] = probe[q] /\ res'[q] = res[q],
           Earned(store, store'), Earned(upstream, upstream'), Earned(store', upstream'),
           Earned(unit'.vintage, store'), Honest(r)'
    PROVE  VintageInv'
<1>1. store' \in Data /\ upstream' \in Data
  BY DEF TypeOK
<1>2. ASSUME NEW q \in Runners, q # r PROVE Honest(q)'
  <2>1. Honest(q)
    BY DEF VintageInv, Honest
  <2>2. Earned(us[q].vintage, store') /\ Earned(probe[q], upstream')
    BY <1>1, <2>1, VintageTypes, EarnedStays DEF Honest
  <2>3. Earned(probe[q], store) => Earned(probe[q], store')
    BY <1>1, VintageTypes, EarnedStays
  <2>4. /\ pc'[q] = pc[q] /\ us'[q] = us[q] /\ probe'[q] = probe[q] /\ res'[q] = res[q]
    BY <1>2
  <2>5. QED
    BY <2>1, <2>2, <2>3, <2>4 DEF Honest
<1>3. QED
  BY <1>2 DEF VintageInv, VintageIsEarned, Honest

(* A step of r that leaves the data and the recorded vintage alone.        *)
LEMMA VintageQuiet ==
    ASSUME TypeOK, TypeOK', VintageInv, NEW r \in Runners,
           \A q \in Runners : q # r => /\ pc'[q] = pc[q] /\ us'[q] = us[q]
                                       /\ probe'[q] = probe[q] /\ res'[q] = res[q],
           store' = store, upstream' = upstream, Earned(unit'.vintage, store),
           Honest(r)'
    PROVE  VintageInv'
<1>1. Earned(store, store') /\ Earned(upstream, upstream') /\ Earned(store', upstream')
  BY VintageTypes, EarnedSame DEF VintageInv
<1>2. Earned(unit'.vintage, store')
  OBVIOUS
<1>3. QED
  BY <1>1, <1>2, VintageStep

(* A run that ends forgets what it held.                                   *)
LEMMA ForgetHonest ==
    ASSUME TypeOK, NEW r \in Runners, Goto(r, "idle"), Forget(r)
    PROVE  /\ Honest(r)'
           /\ \A q \in Runners : q # r => /\ pc'[q] = pc[q] /\ us'[q] = us[q]
                                          /\ probe'[q] = probe[q] /\ res'[q] = res[q]
<1>1. /\ pc'[r] = "idle"
      /\ \A q \in Runners : q # r => pc'[q] = pc[q]
  BY GotoType DEF PCs
<1>2. us'[r].vintage = Never /\ probe'[r] = Never
  BY Typed DEF Forget, NoRow
<1>3. Honest(r)'
  BY <1>1, <1>2, NeverEarned DEF Honest
<1>4. QED
  BY <1>1, <1>3, ForgetType

(* A run that keeps what it held.                                          *)
LEMMA KeepHonest ==
    ASSUME TypeOK, VintageInv, NEW r \in Runners, NEW w \in PCs, Goto(r, w),
           UNCHANGED <<store, upstream, us, probe>>,
           w \in {"csv", "drain", "book", "record"} /\ Clean(res'[r].status) =>
             Earned(probe[r], store)
    PROVE  Honest(r)'
<1>1. pc'[r] = w
  BY GotoType
<1>2. Honest(r)
  BY DEF VintageInv, Honest
<1>3. QED
  BY <1>1, <1>2 DEF Honest

LEMMA VintagePrelude ==
    ASSUME TypeOK, TypeOK', VintageInv, NEW r \in Runners, Prelude(r)
    PROVE  VintageInv'
<1>1. CASE ReadUnit(r)
  <2>1. /\ pc'[r] = "probe" /\ us'[r].vintage = unit.vintage
        /\ \A q \in Runners : q # r => pc'[q] = pc[q] /\ us'[q] = us[q]
        /\ UNCHANGED <<store, upstream, unit, probe, res>>
    BY <1>1, GotoType, Typed DEF ReadUnit, PCs, data
  <2>2. Honest(r)'
    BY <2>1 DEF Honest, VintageInv, VintageIsEarned
  <2>3. QED
    BY <2>1, <2>2, VintageQuiet DEF VintageInv, VintageIsEarned
<1>2. CASE ProbeFails(r) \/ ProbeSame(r)
  <2>1. Goto(r, "idle") /\ Forget(r) /\ UNCHANGED data
    BY <1>2 DEF ProbeFails, ProbeSame
  <2>2. unit'.vintage = unit.vintage
    BY <1>2, StatusType DEF ProbeFails, ProbeSame, Statuses
  <2>3. QED
    BY <2>1, <2>2, ForgetHonest, VintageQuiet DEF VintageInv, VintageIsEarned, data
<1>3. CASE Proceed(r)
  <2>1. /\ pc'[r] = "claim" /\ probe'[r] = upstream
        /\ \A q \in Runners : q # r => pc'[q] = pc[q] /\ probe'[q] = probe[q]
        /\ UNCHANGED <<store, upstream, unit, us, res>>
    BY <1>3, GotoType, Typed DEF Proceed, PCs, data
  <2>2. Honest(r)'
    BY <2>1, VintageTypes, EarnedSame DEF Honest, VintageInv
  <2>3. QED
    BY <2>1, <2>2, VintageQuiet DEF VintageInv, VintageIsEarned
<1>4. CASE Claim(r)
  <2>1. /\ Goto(r, "fetch") /\ UNCHANGED <<store, upstream, unit, us, probe, res>>
    BY <1>4 DEF Claim, data, local
  <2>2. Honest(r)' /\ \A q \in Runners : q # r => pc'[q] = pc[q]
    BY <2>1, KeepHonest, GotoType DEF PCs
  <2>3. QED
    BY <2>1, <2>2, VintageQuiet DEF VintageInv, VintageIsEarned
<1>5. CASE Locked(r)
  BY <1>5, ForgetHonest, VintageQuiet DEF Locked, VintageInv, VintageIsEarned, data
<1>6. QED
  BY <1>1, <1>2, <1>3, <1>4, <1>5 DEF Prelude, ProbeChanged, ProbeForced

(* A fetch that returns a Result: it is clean only when all of the unit is *)
(* merged, and then the store has what was probed.                         *)
LEMMA VintageFetched ==
    ASSUME TypeOK, VintageInv, NEW r \in Runners, NEW status \in Statuses,
           NEW M \in SUBSET Series, NEW changed \in SUBSET Series, NEW owed \in BOOLEAN,
           Fetched(r, status, M, changed, owed), Clean(status) => M = Series
    PROVE  VintageInv'
<1>1. /\ TypeOK' /\ res'[r].status = status
      /\ \A q \in Runners : q # r => res'[q] = res[q] /\ pc'[q] = pc[q]
  BY FetchedType
<1>2. Merge(M) /\ UNCHANGED <<upstream, unit, us, probe>>
  BY DEF Fetched
<1>3. /\ Earned(store, store') /\ Earned(store', upstream')
      /\ M = Series => store' = upstream
  BY <1>2, MergeMovesOn DEF VintageInv
<1>4. store' \in Data
  BY <1>1 DEF TypeOK
<1>5. Earned(unit.vintage, store') /\ Earned(us[r].vintage, store')
  BY <1>3, <1>4, VintageTypes, EarnedStays DEF VintageInv, VintageIsEarned
<1>6. Honest(r)'
  BY <1>1, <1>2, <1>3, <1>5 DEF Honest, VintageInv
<1>7. QED
  BY <1>1, <1>2, <1>3, <1>5, <1>6, VintageTypes, EarnedSame, VintageStep

LEMMA VintageFetch ==
    ASSUME TypeOK, TypeOK', VintageInv, NEW r \in Runners, Fetch(r)
    PROVE  VintageInv'
<1>1. CASE FetchOk(r)
  BY <1>1, ChangedType, VintageFetched DEF FetchOk, Statuses
<1>2. CASE FetchCapped(r)
  BY <1>2, VintageFetched DEF FetchCapped, Statuses
<1>3. CASE FetchPartial(r)
  BY <1>3, ChangedType, VintageFetched DEF FetchPartial, Statuses, Clean
<1>4. CASE FetchNoChange(r)
  <2>1. /\ Goto(r, "record") /\ Merge(Series)
        /\ UNCHANGED <<upstream, unit, us, probe>>
        /\ \A q \in Runners : q # r => res'[q] = res[q]
    BY <1>4, Typed DEF FetchNoChange
  <2>2. Earned(store, store') /\ Earned(store', upstream') /\ store' = upstream
    BY <2>1, MergeMovesOn DEF VintageInv
  <2>3. store' \in Data
    BY DEF TypeOK
  <2>4. Earned(unit.vintage, store') /\ Earned(us[r].vintage, store')
    BY <2>2, <2>3, VintageTypes, EarnedStays DEF VintageInv, VintageIsEarned
  <2>5. \A q \in Runners : q # r => pc'[q] = pc[q]
    BY <2>1, GotoType DEF PCs
  <2>6. Honest(r)'
    BY <2>1, <2>2, <2>4 DEF Honest, VintageInv
  <2>7. QED
    BY <2>1, <2>2, <2>4, <2>5, <2>6, VintageTypes, EarnedSame, VintageStep
<1>5. CASE FetchRaises(r)
  <2>1. PICK M \in SUBSET Series : Merge(M)
    BY <1>5 DEF FetchRaises
  <2>2. Goto(r, "release") /\ UNCHANGED <<upstream, us, probe, res>>
    BY <1>5 DEF FetchRaises, local
  <2>3. unit'.vintage = unit.vintage
    BY <1>5, StatusType DEF FetchRaises, Statuses
  <2>4. Earned(store, store') /\ Earned(store', upstream')
    BY <2>1, <2>2, MergeMovesOn DEF VintageInv
  <2>5. store' \in Data
    BY DEF TypeOK
  <2>6. Earned(unit.vintage, store') /\ Earned(us[r].vintage, store')
    BY <2>4, <2>5, VintageTypes, EarnedStays DEF VintageInv, VintageIsEarned
  <2>7. pc'[r] = "release" /\ \A q \in Runners : q # r => pc'[q] = pc[q]
    BY <2>2, GotoType DEF PCs
  <2>8. Honest(r)'
    BY <2>2, <2>6, <2>7 DEF Honest, VintageInv
  <2>9. QED
    BY <2>2, <2>3, <2>4, <2>6, <2>7, <2>8, VintageTypes, EarnedSame, VintageStep
<1>6. CASE WindowStop(r)
  <2>1. Goto(r, "release") /\ UNCHANGED <<store, upstream, unit, us, probe, res>>
    BY <1>6 DEF WindowStop, data, local
  <2>2. Honest(r)' /\ \A q \in Runners : q # r => pc'[q] = pc[q]
    BY <2>1, KeepHonest, GotoType DEF PCs
  <2>3. QED
    BY <2>1, <2>2, VintageQuiet DEF VintageInv, VintageIsEarned
<1>7. QED
  BY <1>1, <1>2, <1>3, <1>4, <1>5, <1>6 DEF Fetch

LEMMA VintagePhase ==
    ASSUME TypeOK, TypeOK', VintageInv, NEW r \in Runners, pc[r] = "csv",
           NEW missed \in SUBSET Series, NEW owed \in BOOLEAN, NEW demote \in BOOLEAN,
           NEW w \in {"drain", "book"}, PhaseEnds(r, missed, owed, demote, w)
    PROVE  VintageInv'
<1>1. w \in PCs
  BY DEF PCs
<1>2. /\ res'[r].status \in {res[r].status, Demoted(res[r].status)}
      /\ \A q \in Runners : q # r => res'[q] = res[q] /\ pc'[q] = pc[q]
      /\ UNCHANGED <<upstream, store, unit, us, probe>>
  BY <1>1, PhaseEndsType, ZenonT(30)
<1>3. Clean(res'[r].status) => Clean(res[r].status)
  <2>1. ASSUME NEW status PROVE ~Clean(Demoted(status))
    BY DEF Clean, Demoted
  <2>2. QED
    BY <1>2, <2>1
<1>4. Clean(res[r].status) => Earned(probe[r], store)
  BY DEF VintageInv
<1>5. Goto(r, w)
  BY DEF PhaseEnds
<1>6. Honest(r)'
  BY <1>1, <1>2, <1>3, <1>4, <1>5, KeepHonest
<1>7. QED
  BY <1>2, <1>6, VintageQuiet DEF VintageInv, VintageIsEarned

LEMMA VintageCsvPhase ==
    ASSUME TypeOK, TypeOK', VintageInv, NEW r \in Runners, CsvPhase(r)
    PROVE  VintageInv'
<1> DEFINE changed == res[r].changed
<1>1. changed \in SUBSET Series /\ pc[r] = "csv"
  BY Typed DEF Results, CsvPhase, NothingToDerive, Derive, DeriveCrashes, FenceTrips
<1>2. CASE NothingToDerive(r)
  BY <1>1, <1>2, VintagePhase DEF NothingToDerive
<1>3. CASE Derive(r)
  <2>1. PICK missed \in SUBSET changed, failed \in SUBSET changed :
          \/ PhaseEnds(r, missed, FALSE, failed # {}, "drain")
          \/ PhaseEnds(r, {}, FALSE, failed # {}, "drain")
          \/ PhaseEnds(r, IF failed = missed THEN failed ELSE changed, FALSE, TRUE, "drain")
    BY <1>3 DEF Derive
  <2>2. missed \in SUBSET Series /\ failed \in SUBSET Series
    BY <1>1
  <2>3. CASE PhaseEnds(r, missed, FALSE, failed # {}, "drain")
    BY <1>1, <2>2, <2>3, VintagePhase
  <2>4. CASE PhaseEnds(r, {}, FALSE, failed # {}, "drain")
    BY <1>1, <2>4, VintagePhase
  <2>5. CASE PhaseEnds(r, IF failed = missed THEN failed ELSE changed, FALSE, TRUE, "drain")
    BY <1>1, <2>2, <2>5, VintagePhase
  <2>6. QED
    BY <2>1, <2>3, <2>4, <2>5
<1>4. CASE DeriveCrashes(r)
  <2>1. \/ PhaseEnds(r, changed, FALSE, TRUE, "drain")
        \/ PhaseEnds(r, {}, FALSE, TRUE, "drain")
    BY <1>4 DEF DeriveCrashes
  <2>2. QED
    BY <1>1, <2>1, VintagePhase
<1>5. CASE FenceTrips(r)
  <2>1. \/ PhaseEnds(r, {}, FALSE, FALSE, "book")
        \/ PhaseEnds(r, changed, FALSE, TRUE, "book")
        \/ PhaseEnds(r, {}, FALSE, TRUE, "book")
    BY <1>5 DEF FenceTrips
  <2>2. QED
    BY <1>1, <2>1, VintagePhase
<1>6. QED
  BY <1>2, <1>3, <1>4, <1>5 DEF CsvPhase

LEMMA VintageFinish ==
    ASSUME TypeOK, TypeOK', VintageInv, NEW r \in Runners,
           Finish(r) \/ Leftover(r) \/ Die(r)
    PROVE  VintageInv'
<1> USE DEF PCs
<1>1. pc[r] \in {"csv", "drain", "book", "record"} /\ Clean(res[r].status) =>
        Earned(probe[r], store)
  BY DEF VintageInv
<1>2. CASE Drain(r) \/ LeftoverDrain(r)
  <2>1. UNCHANGED <<upstream, store, unit, us, probe, res>>
    BY <1>2, DrainType DEF Drain, LeftoverDrain
  <2>2. PICK w \in {"book", "release"} :
          Goto(r, w) /\ (w = "book" => pc[r] = "drain")
    BY <1>2 DEF Drain, LeftoverDrain
  <2>3. Honest(r)' /\ \A q \in Runners : q # r => pc'[q] = pc[q]
    BY <1>1, <2>1, <2>2, KeepHonest, GotoType
  <2>4. QED
    BY <2>1, <2>3, VintageQuiet DEF VintageInv, VintageIsEarned
<1>3. CASE Book(r)
  <2>1. /\ pc[r] = "book" /\ Goto(r, "record")
        /\ UNCHANGED <<upstream, store, unit, us, probe, res>>
    BY <1>3 DEF Book, data, local
  <2>2. Honest(r)' /\ \A q \in Runners : q # r => pc'[q] = pc[q]
    BY <1>1, <2>1, KeepHonest, GotoType
  <2>3. QED
    BY <2>1, <2>2, VintageQuiet DEF VintageInv, VintageIsEarned
<1>4. CASE Record(r)
  <2>1. /\ pc[r] = "record" /\ Goto(r, "release")
        /\ UNCHANGED <<upstream, store, us, probe, res>>
    BY <1>4 DEF Record, data, local
  <2>2. unit'.vintage = IF Clean(res[r].status) THEN probe[r] ELSE us[r].vintage
    BY <1>4, RecordType
  <2>3. Earned(unit'.vintage, store)
    BY <1>1, <2>1, <2>2 DEF VintageInv
  <2>4. Honest(r)' /\ \A q \in Runners : q # r => pc'[q] = pc[q]
    BY <2>1, KeepHonest, GotoType
  <2>5. QED
    BY <2>1, <2>3, <2>4, VintageQuiet
<1>5. CASE Release(r) \/ Die(r)
  <2>1. Goto(r, "idle") /\ Forget(r) /\ UNCHANGED <<upstream, store, unit>>
    BY <1>5 DEF Release, Die, data
  <2>2. QED
    BY <2>1, ForgetHonest, VintageQuiet DEF VintageInv, VintageIsEarned
<1>6. CASE LeftoverClaim(r)
  <2>1. Goto(r, "leftover") /\ UNCHANGED <<upstream, store, unit, us, probe, res>>
    BY <1>6 DEF LeftoverClaim, data, local
  <2>2. Honest(r)' /\ \A q \in Runners : q # r => pc'[q] = pc[q]
    BY <2>1, KeepHonest, GotoType
  <2>3. QED
    BY <2>1, <2>2, VintageQuiet DEF VintageInv, VintageIsEarned
<1>7. CASE FinishRaises(r)
  <2>1. Goto(r, "release") /\ UNCHANGED <<upstream, store, us, probe, res>>
    BY <1>7 DEF FinishRaises, data, local
  <2>2. unit'.vintage = unit.vintage
    BY <1>7, StatusType DEF FinishRaises, Statuses
  <2>3. Honest(r)' /\ \A q \in Runners : q # r => pc'[q] = pc[q]
    BY <2>1, KeepHonest, GotoType
  <2>4. QED
    BY <2>1, <2>2, <2>3, VintageQuiet DEF VintageInv, VintageIsEarned
<1>8. QED
  BY <1>2, <1>3, <1>4, <1>5, <1>6, <1>7 DEF Finish, Leftover

LEMMA VintageEnvironment ==
    ASSUME TypeOK, TypeOK', VintageInv, Environment
    PROVE  VintageInv'
<1>1. UNCHANGED <<store, unit, pc, us, probe, res>>
  BY DEF Environment, LeaseExpires, BulkDerive, Publish, DesktopDerive, data, local
<1>2. Earned(upstream, upstream')
  <2>1. CASE upstream' = upstream
    BY <2>1, VintageTypes, EarnedSame
  <2>2. ASSUME NEW s \in Series, Publish(s) PROVE Earned(upstream, upstream')
    <3>1. /\ upstream \in [Series -> Nat]
          /\ upstream' = [upstream EXCEPT ![s] = @ + 1]
      BY <2>2, VintageTypes, URAssumption DEF Publish, Data
    <3>2. \A t \in Series : upstream[t] <= upstream'[t]
      BY <3>1
    <3>3. QED
      BY <3>2 DEF Earned
  <2>3. QED
    BY <2>1, <2>2 DEF Environment, LeaseExpires, BulkDerive, DesktopDerive, data
<1>3. upstream' \in Data
  BY DEF TypeOK
<1>4. \A v \in Data \cup {Never} : Earned(v, upstream) => Earned(v, upstream')
  BY <1>2, <1>3, VintageTypes, EarnedStays
<1>5. QED
  BY <1>1, <1>4, VintageTypes DEF VintageInv, VintageIsEarned

LEMMA VintageNext == TypeOK /\ TypeOK' /\ VintageInv /\ [Next]_vars => VintageInv'
<1> SUFFICES ASSUME TypeOK, TypeOK', VintageInv, [Next]_vars PROVE VintageInv'
  OBVIOUS
<1>1. CASE UNCHANGED vars
  BY <1>1 DEF VintageInv, VintageIsEarned, vars, data, local
<1>2. CASE Next
  BY <1>2, VintageEnvironment, VintagePrelude, VintageFetch, VintageCsvPhase, VintageFinish
     DEF Next
<1>3. QED
  BY <1>1, <1>2

LEMMA VintageInit == Init => VintageInv
<1> SUFFICES ASSUME Init PROVE VintageInv
  OBVIOUS
<1>1. /\ TypeOK /\ store = upstream /\ unit.vintage = Never
      /\ \A r \in Runners : pc[r] = "idle" /\ us[r].vintage = Never /\ probe[r] = Never
  BY TypeInit DEF Init, NoRow
<1>2. QED
  BY <1>1, NeverEarned, EarnedSame, VintageTypes DEF VintageInv, VintageIsEarned

(* A recorded vintage was earned, for any runners, also when leases expire *)
(* under living owners and processes die.                                  *)
THEOREM VintageIsEarnedHolds == Spec => []VintageIsEarned
<1>1. Init => VintageInv
  BY VintageInit
<1>2. VintageInv => VintageIsEarned
  BY DEF VintageInv
<1>3. QED
  BY <1>1, <1>2, VintageNext, TypeCorrect, PTL DEF Spec

-----------------------------------------------------------------------------
(* No CSV goes stale in silence *)

Stale(s) == served[s] # store[s]

(* A home that outlives the runs: the queue or a debt.                     *)
Home(s) == s \in queue \cup desktop \/ full

(* The run of r holds s: InFlight(s) says that some run does.              *)
Held(r, s) == \/ pc[r] = "csv" /\ s \in res[r].changed
              \/ pc[r] \in {"csv", "drain", "book"} /\ (s \in res[r].missed \/ res[r].owed)

(* v is not the vintage of the rows d holds of s.                          *)
Outdated(v, d, s) == v = Never \/ v[s] # d[s]

(* Before its CSV phase ended a run has missed nothing.                    *)
NoMissYet == \A r \in Runners : pc[r] = "csv" => res[r].missed = {}

(* For a desktop owed source whose processes live: the recorded vintage is *)
(* not needed as a home.                                                   *)
OwedInv == \A s \in Series : Stale(s) => Home(s) \/ InFlight(s)

(* For a fetcher that reports every row it fetched, whatever dies: a run   *)
(* in flight is not needed as a home, because a vintage that names the     *)
(* rows of a stale CSV is neither on record, nor read by a run, nor on its *)
(* way to the record in a run that still may be recorded as a success.     *)
Homed(r) == /\ \A s \in Series : Stale(s) => Home(s) \/ Outdated(us[r].vintage, store, s)
            /\ pc[r] \in {"csv", "drain", "book", "record"} /\ Clean(res[r].status) =>
                 \A s \in Series : Stale(s) =>
                   Home(s) \/ Held(r, s) \/ Outdated(probe[r], store, s)

HomeInv == /\ \A s \in Series : Stale(s) => Home(s) \/ Outdated(unit.vintage, store, s)
           /\ \A r \in Runners : Homed(r)

(* A step that merges nothing, and takes a series out of its home only by  *)
(* serving it.                                                             *)
HomesKept == /\ UNCHANGED store
             /\ \A s \in Series : Stale(s)' => Stale(s) /\ (Home(s) => Home(s)')

LEMMA ServeKeeps ==
    ASSUME TypeOK, NEW S \in SUBSET Series, Serve(S), UNCHANGED store,
           \A s \in Series \ S : Home(s) => Home(s)'
    PROVE  /\ HomesKept
           /\ \A s \in Series : Stale(s)' => s \notin S
<1>1. ASSUME NEW s \in Series, Stale(s)' PROVE Stale(s) /\ s \notin S
  <2>1. served'[s] = IF s \in S THEN store[s] ELSE served[s]
    BY DEF Serve
  <2>2. QED
    BY <1>1, <2>1 DEF Stale
<1>2. QED
  BY <1>1 DEF HomesKept

LEMMA RestKeeps ==
    ASSUME UNCHANGED <<store, served, queue, desktop>>, full => full'
    PROVE  HomesKept
BY DEF HomesKept, Stale, Home

(* What a merge makes stale moved on in the store.                         *)
LEMMA MergeStale ==
    ASSUME TypeOK, Earned(store, upstream), NEW M \in SUBSET Series, Merge(M),
           UNCHANGED <<upstream, served>>
    PROVE  \A s \in Series :
             /\ store[s] \in Nat /\ store'[s] \in Nat
             /\ store'[s] = store[s] \/ store'[s] > store[s]
             /\ store'[s] # store[s] => s \in M /\ store[s] # upstream[s]
<1>1. /\ store \in [Series -> Nat] /\ store' \in [Series -> Nat]
  BY Typed, MergeType, URAssumption DEF Data
<1>2. Earned(store, store')
  BY MergeMovesOn
<1>3. \A s \in Series : store[s] <= store'[s]
  <2>1. CASE store = Never
    <3>1. DOMAIN store = Series /\ DOMAIN Never = {}
      BY <1>1 DEF Never
    <3>2. QED
      BY <2>1, <3>1
  <2>2. QED
    BY <1>2, <2>1 DEF Earned
<1>4. \A s \in Series : store'[s] # store[s] => s \in M /\ store[s] # upstream[s]
  BY DEF Merge
<1>5. QED
  BY <1>1, <1>3, <1>4

(* A vintage the store had is behind what the store moved on to.           *)
LEMMA OutdatedStays ==
    ASSUME TypeOK, NEW v \in Data \cup {Never}, Earned(v, store), NEW s \in Series,
           store[s] \in Nat, store'[s] \in Nat,
           \/ store'[s] = store[s] /\ Outdated(v, store, s)
           \/ store'[s] > store[s]
    PROVE  Outdated(v, store', s)
<1>1. CASE v = Never
  BY <1>1 DEF Outdated
<1>2. CASE v # Never
  <2>1. v[s] \in Nat /\ v[s] <= store[s]
    BY <1>2, URAssumption DEF Data, Earned
  <2>2. QED
    BY <2>1 DEF Outdated
<1>3. QED
  BY <1>1, <1>2

(* What every fetch does to the homes: it leaves them alone, and only the  *)
(* rows it merged can make a CSV stale.                                    *)
LEMMA FetchHomes ==
    ASSUME TypeOK, VintageInv, NEW r \in Runners, Fetch(r)
    PROVE  /\ UNCHANGED <<upstream, served, queue, desktop, full, us, probe>>
           /\ \A s \in Series :
                /\ store[s] \in Nat /\ store'[s] \in Nat
                /\ store'[s] = store[s] \/ store'[s] > store[s]
                /\ Home(s)' = Home(s)
                /\ Stale(s)' => Stale(s) \/ store'[s] > store[s]
           /\ \A q \in Runners : q # r => pc'[q] = pc[q] /\ res'[q] = res[q]
<1>1. UNCHANGED <<upstream, served, queue, desktop, full, us, probe>>
  BY DEF Fetch, FetchOk, FetchCapped, FetchPartial, FetchNoChange, FetchRaises, WindowStop,
         Fetched, data, debts, local
<1>2. \E M \in SUBSET Series : Merge(M)
  <2>1. CASE WindowStop(r)
    <3>1. UNCHANGED store
      BY <2>1 DEF WindowStop, data
    <3>2. store = [s \in Series |-> store[s]]
      BY Typed DEF Data
    <3>3. Merge({})
      BY <3>1, <3>2 DEF Merge
    <3>4. QED
      BY <3>3
  <2>2. CASE FetchRaises(r)
    BY <2>2 DEF FetchRaises
  <2>3. CASE FetchOk(r) \/ FetchCapped(r) \/ FetchPartial(r) \/ FetchNoChange(r)
    BY <2>3 DEF FetchOk, FetchCapped, FetchPartial, FetchNoChange, Fetched
  <2>4. QED
    BY <2>1, <2>2, <2>3 DEF Fetch
<1>3. \A s \in Series : /\ store[s] \in Nat /\ store'[s] \in Nat
                        /\ store'[s] = store[s] \/ store'[s] > store[s]
  BY <1>1, <1>2, MergeStale DEF VintageInv
<1>4. \A q \in Runners : q # r => pc'[q] = pc[q] /\ res'[q] = res[q]
  <2>1. \E w \in PCs : Goto(r, w)
    BY DEF Fetch, FetchOk, FetchCapped, FetchPartial, FetchNoChange, FetchRaises, WindowStop,
           Fetched, PCs
  <2>2. \E x : res' = [res EXCEPT ![r] = x]
    <3>1. CASE FetchRaises(r) \/ WindowStop(r)
      <4>1. res' = [res EXCEPT ![r] = res[r]]
        BY <3>1, Typed DEF FetchRaises, WindowStop, local
      <4>2. QED
        BY <4>1
    <3>2. QED
      BY <3>1 DEF Fetch, FetchOk, FetchCapped, FetchPartial, FetchNoChange, Fetched
  <2>3. QED
    BY <2>1, <2>2, GotoType, Typed
<1>5. QED
  BY <1>1, <1>3, <1>4 DEF Home, Stale

(* What the end of the CSV phase hands on is held until the booking.       *)
LEMMA PhaseHands ==
    ASSUME TypeOK, NEW r \in Runners, NEW missed \in SUBSET Series,
           NEW owed \in BOOLEAN, NEW demote \in BOOLEAN, NEW w \in {"drain", "book"},
           PhaseEnds(r, missed, owed, demote, w)
    PROVE  /\ UNCHANGED <<store, queue>>
           /\ \A s \in Series : s \in missed \/ owed \/ res[r].owed => Held(r, s)'
           /\ demote => ~Clean(res'[r].status)
<1> DEFINE old == res[r]
           new == res'[r]
<1>1. w \in PCs
  BY DEF PCs
<1>2. pc'[r] = w /\ UNCHANGED <<store, queue>>
  BY <1>1, GotoType DEF PhaseEnds
<1>3. old \in Results
  BY Typed
<1>4. new = [old EXCEPT !.changed = {}, !.missed = missed, !.owed = @ \/ owed,
                        !.status = IF demote THEN Demoted(@) ELSE @]
  BY Typed DEF PhaseEnds
<1>5. new.missed = missed /\ new.owed = (old.owed \/ owed)
  BY <1>3, <1>4 DEF Results
<1>6. demote => new.status = Demoted(old.status)
  BY <1>3, <1>4 DEF Results
<1>7. demote => ~Clean(new.status)
  BY <1>6 DEF Demoted, Clean
<1>8. QED
  BY <1>2, <1>5, <1>7 DEF Held

(* The step of r hands what it holds on: it is held still, or has a home.  *)
HandsOn(r) == \A s \in Series : Stale(s)' /\ Held(r, s) => Home(s)' \/ Held(r, s)'

(* The CSV phase hands on all it holds, unless the run is demoted; that of *)
(* a desktop owed source does so also then.                                *)
LEMMA PhaseHomes ==
    ASSUME TypeOK, NoMissYet, FenceMayTrip => DesktopOwed, NEW r \in Runners, CsvPhase(r)
    PROVE  /\ HomesKept
           /\ DesktopOwed \/ Clean(res'[r].status) => HandsOn(r)
<1> DEFINE changed == res[r].changed
<1>1. /\ changed \in SUBSET Series /\ pc[r] = "csv"
      /\ \A s \in Series : Held(r, s) <=> s \in changed \/ res[r].owed
  <2>1. changed \in SUBSET Series /\ pc[r] = "csv"
    BY Typed DEF Results, CsvPhase, NothingToDerive, Derive, DeriveCrashes, FenceTrips
  <2>2. QED
    BY <2>1 DEF NoMissYet, Held
<1> USE DEF HandsOn
<1>2. CASE NothingToDerive(r)
  <2>1. /\ PhaseEnds(r, {}, Kind # "measured", Kind # "measured", "drain")
        /\ UNCHANGED <<served, desktop, full>> /\ changed = {}
    BY <1>2 DEF NothingToDerive
  <2>2. /\ UNCHANGED <<store, queue>>
        /\ \A s \in Series : res[r].owed => Held(r, s)'
    BY <2>1, PhaseHands
  <2>3. QED
    BY <1>1, <2>1, <2>2, RestKeeps
<1>3. CASE Derive(r)
  <2>1. PICK missed \in SUBSET changed, failed \in SUBSET changed :
          /\ Serve(changed \ missed)
          /\ \/ /\ PhaseEnds(r, missed, FALSE, failed # {}, "drain")
                /\ UNCHANGED desktop
             \/ /\ desktop' = desktop \cup missed
                /\ PhaseEnds(r, {}, FALSE, failed # {}, "drain")
             \/ /\ PhaseEnds(r, IF failed = missed THEN failed ELSE changed, FALSE, TRUE, "drain")
                /\ UNCHANGED desktop
    BY <1>3 DEF Derive
  <2>2. PICK kept \in SUBSET Series, demote \in BOOLEAN :
          /\ PhaseEnds(r, kept, FALSE, demote, "drain")
          /\ missed \subseteq kept \/ missed \subseteq desktop'
          /\ desktop \subseteq desktop'
    <3>1. missed \in SUBSET Series /\ failed \in SUBSET Series
      BY <1>1
    <3>2. CASE PhaseEnds(r, missed, FALSE, failed # {}, "drain") /\ UNCHANGED desktop
      BY <3>1, <3>2
    <3>3. CASE desktop' = desktop \cup missed /\ PhaseEnds(r, {}, FALSE, failed # {}, "drain")
      BY <3>1, <3>3
    <3>4. CASE /\ PhaseEnds(r, IF failed = missed THEN failed ELSE changed, FALSE, TRUE, "drain")
               /\ UNCHANGED desktop
      BY <1>1, <3>1, <3>4
    <3>5. QED
      BY <2>1, <3>2, <3>3, <3>4
  <2>3. /\ UNCHANGED <<store, queue, full>>
        /\ \A s \in Series : s \in kept \/ res[r].owed => Held(r, s)'
    BY <1>3, <2>2, PhaseHands DEF Derive
  <2>4. \A s \in Series : Home(s) => Home(s)'
    BY <2>2, <2>3 DEF Home
  <2>5. HomesKept /\ \A s \in Series : Stale(s)' => s \notin changed \ missed
    BY <1>1, <2>1, <2>3, <2>4, ServeKeeps
  <2>6. QED
    BY <1>1, <2>2, <2>3, <2>5 DEF Home
<1>4. CASE DeriveCrashes(r)
  <2>1. CASE /\ \E D \in SUBSET changed : Serve(D)
             /\ PhaseEnds(r, changed, FALSE, TRUE, "drain")
             /\ UNCHANGED <<desktop, full>>
    <3>1. /\ UNCHANGED <<store, queue>>
          /\ \A s \in Series : s \in changed \/ res[r].owed => Held(r, s)'
      BY <1>1, <2>1, PhaseHands
    <3>2. \A s \in Series : Home(s) => Home(s)'
      BY <2>1, <3>1 DEF Home
    <3>3. HomesKept
      BY <1>1, <2>1, <3>1, <3>2, ServeKeeps
    <3>4. QED
      BY <1>1, <3>1, <3>3
  <2>2. CASE /\ \E D \in SUBSET changed : Serve(D)
             /\ desktop' = desktop \cup changed
             /\ PhaseEnds(r, {}, FALSE, TRUE, "drain")
             /\ UNCHANGED full
    <3>1. /\ UNCHANGED <<store, queue>>
          /\ \A s \in Series : res[r].owed => Held(r, s)'
      BY <2>2, PhaseHands
    <3>2. \A s \in Series : Home(s) \/ s \in changed => Home(s)'
      BY <2>2, <3>1 DEF Home
    <3>3. HomesKept
      BY <1>1, <2>2, <3>1, <3>2, ServeKeeps
    <3>4. QED
      BY <1>1, <3>1, <3>2, <3>3
  <2>3. CASE /\ full' = (full \/ DesktopOwed)
             /\ PhaseEnds(r, {}, FALSE, TRUE, "drain")
             /\ UNCHANGED <<served, desktop>>
    <3>1. UNCHANGED <<store, queue>> /\ ~Clean(res'[r].status)
      BY <2>3, PhaseHands
    <3>2. HomesKept /\ (DesktopOwed => \A s \in Series : Home(s)')
      BY <2>3, <3>1, RestKeeps DEF Home
    <3>3. QED
      BY <3>1, <3>2
  <2>4. QED
    BY <1>4, <2>1, <2>2, <2>3 DEF DeriveCrashes
<1>5. CASE FenceTrips(r)
  <2>1. PICK D \in SUBSET changed : Serve(D)
    BY <1>5 DEF FenceTrips
  <2>2. PICK kept \in SUBSET Series, demote \in BOOLEAN :
          /\ PhaseEnds(r, kept, FALSE, demote, "book")
          /\ changed \subseteq kept \/ changed \subseteq desktop' \/ full'
          /\ desktop \subseteq desktop' /\ (full => full')
    <3>1. DesktopOwed
      BY <1>5 DEF FenceTrips
    <3>2. CASE desktop' = desktop \cup changed /\ PhaseEnds(r, {}, FALSE, FALSE, "book") /\ UNCHANGED full
      BY <3>2
    <3>3. CASE PhaseEnds(r, changed, FALSE, TRUE, "book") /\ UNCHANGED <<desktop, full>>
      BY <1>1, <3>3
    <3>4. CASE full' = TRUE /\ PhaseEnds(r, {}, FALSE, TRUE, "book") /\ UNCHANGED desktop
      BY <3>4
    <3>5. QED
      BY <1>5, <3>1, <3>2, <3>3, <3>4 DEF FenceTrips
  <2>3. /\ UNCHANGED <<store, queue>>
        /\ \A s \in Series : s \in kept \/ res[r].owed => Held(r, s)'
    BY <2>2, PhaseHands
  <2>4. \A s \in Series : Home(s) => Home(s)'
    BY <2>2, <2>3 DEF Home
  <2>5. HomesKept
    BY <1>1, <2>1, <2>3, <2>4, ServeKeeps
  <2>6. QED
    BY <1>1, <2>2, <2>3, <2>5 DEF Home
<1>6. QED
  BY <1>2, <1>3, <1>4, <1>5 DEF CsvPhase

(* The drain takes a series out of the queue only served or owed.          *)
LEMMA DrainHomes ==
    ASSUME TypeOK, DrainQueue
    PROVE  HomesKept
<1>1. PICK kept \in SUBSET queue, moved \in SUBSET queue :
        /\ Serve(queue \ kept)
        /\ queue' = kept \ moved
        /\ desktop' = desktop \cup moved
        /\ UNCHANGED <<store, full>>
  BY DEF DrainQueue
<1>2. \A s \in Series \ (queue \ kept) : Home(s) => Home(s)'
  BY <1>1 DEF Home
<1>3. QED
  BY <1>1, <1>2, ServeKeeps, Typed

LEMMA RestHomes ==
    ASSUME TypeOK, NEW r \in Runners, Prelude(r) \/ Finish(r) \/ Leftover(r) \/ Die(r)
    PROVE  HomesKept
<1>1. CASE Drain(r) \/ LeftoverDrain(r)
  BY <1>1, DrainHomes DEF Drain, LeftoverDrain
<1>2. CASE Book(r)
  <2>1. /\ UNCHANGED <<store, served>>
        /\ queue \subseteq queue' /\ desktop' = desktop /\ (full => full')
    BY <1>2 DEF Book, data
  <2>2. QED
    BY <2>1 DEF HomesKept, Stale, Home
<1>3. CASE Prelude(r)
  BY <1>3, RestKeeps DEF Prelude, ReadUnit, ProbeFails, ProbeSame, ProbeChanged, ProbeForced,
                         Proceed, Claim, Locked, data, debts
<1>4. CASE Record(r) \/ FinishRaises(r) \/ Release(r) \/ LeftoverClaim(r) \/ Die(r)
  BY <1>4, RestKeeps DEF Record, FinishRaises, Release, LeftoverClaim, Die, data, debts
<1>5. QED
  BY <1>1, <1>2, <1>3, <1>4 DEF Finish, Leftover

LEMMA EnvironmentHomes ==
    ASSUME TypeOK, Environment
    PROVE  HomesKept /\ UNCHANGED <<unit, pc, us, probe, res>>
<1>1. UNCHANGED <<store, unit, pc, us, probe, res>>
  BY DEF Environment, LeaseExpires, BulkDerive, Publish, DesktopDerive, data, local
<1>2. CASE LeaseExpires \/ \E s \in Series : Publish(s)
  BY <1>1, <1>2, RestKeeps DEF LeaseExpires, Publish, data, debts
<1>3. CASE BulkDerive
  <2>1. Serve(Series)
    BY <1>3 DEF BulkDerive
  <2>2. QED
    BY <1>1, <2>1, ServeKeeps
<1>4. ASSUME NEW s \in Series, DesktopDerive(s) PROVE HomesKept
  <2>1. Serve({s}) /\ desktop' = desktop \ {s} /\ UNCHANGED <<queue, full>>
    BY <1>4 DEF DesktopDerive
  <2>2. \A t \in Series \ {s} : Home(t) => Home(t)'
    BY <2>1 DEF Home
  <2>3. QED
    BY <1>1, <2>1, <2>2, ServeKeeps
<1>5. QED
  BY <1>1, <1>2, <1>3, <1>4 DEF Environment

StepOf(r) == Prelude(r) \/ Fetch(r) \/ CsvPhase(r) \/ Finish(r) \/ Leftover(r) \/ Die(r)

OthersKept(r) == \A q \in Runners : q # r => /\ pc'[q] = pc[q] /\ us'[q] = us[q]
                                             /\ probe'[q] = probe[q] /\ res'[q] = res[q]

(* Two ways to leave the other runners alone: keep or forget what r held.  *)
LEMMA KeepOthers ==
    ASSUME TypeOK, NEW r \in Runners, NEW w \in PCs, Goto(r, w),
           UNCHANGED <<us, probe, res>> \/ Forget(r)
    PROVE  OthersKept(r) /\ pc'[r] = w
BY GotoType, ForgetType DEF OthersKept

LEMMA StepKeepsOthers ==
    ASSUME TypeOK, VintageInv, NEW r \in Runners, StepOf(r)
    PROVE  OthersKept(r)
<1> USE DEF PCs
<1>1. CASE Prelude(r)
  <2>1. CASE ReadUnit(r)
    BY <2>1, GotoType, Typed DEF ReadUnit, OthersKept
  <2>2. CASE Proceed(r)
    BY <2>2, GotoType, Typed DEF Proceed, OthersKept
  <2>3. CASE ProbeFails(r) \/ ProbeSame(r) \/ Locked(r)
    BY <2>3, KeepOthers DEF ProbeFails, ProbeSame, Locked
  <2>4. CASE Claim(r)
    BY <2>4, KeepOthers DEF Claim, local
  <2>5. QED
    BY <1>1, <2>1, <2>2, <2>3, <2>4 DEF Prelude, ProbeChanged, ProbeForced
<1>2. CASE Fetch(r)
  BY <1>2, FetchHomes DEF OthersKept
<1>3. CASE CsvPhase(r)
  <2>1. \A missed, owed, demote, w : PhaseEnds(r, missed, owed, demote, w) =>
          /\ Goto(r, w) /\ UNCHANGED <<us, probe>>
          /\ \E x : res' = [res EXCEPT ![r] = x]
    BY DEF PhaseEnds
  <2>2. /\ Goto(r, "drain") \/ Goto(r, "book")
        /\ UNCHANGED <<us, probe>>
        /\ \E x : res' = [res EXCEPT ![r] = x]
    BY <1>3, <2>1 DEF CsvPhase, NothingToDerive, Derive, DeriveCrashes, FenceTrips
  <2>3. QED
    BY <2>2, GotoType, Typed DEF OthersKept
<1>4. CASE Finish(r) \/ Leftover(r) \/ Die(r)
  <2>1. CASE Drain(r) \/ LeftoverDrain(r)
    BY <2>1, DrainType, KeepOthers DEF Drain, LeftoverDrain
  <2>2. CASE Book(r) \/ Record(r) \/ FinishRaises(r) \/ LeftoverClaim(r)
    BY <2>2, KeepOthers DEF Book, Record, FinishRaises, LeftoverClaim, local
  <2>3. CASE Release(r) \/ Die(r)
    BY <2>3, KeepOthers DEF Release, Die
  <2>4. QED
    BY <1>4, <2>1, <2>2, <2>3 DEF Finish, Leftover
<1>5. QED
  BY <1>1, <1>2, <1>3, <1>4 DEF StepOf

(* Where a step other than a fetch takes r, and what r was at before.      *)
LEMMA StepGoes ==
    ASSUME TypeOK, NEW r \in Runners, Prelude(r) \/ Finish(r) \/ Leftover(r) \/ Die(r)
    PROVE  /\ pc'[r] # "csv"
           /\ pc'[r] \in {"drain", "book", "record"} => Drain(r) \/ Book(r)
           /\ pc[r] \in {"csv", "drain", "book"} =>
                Drain(r) \/ Book(r) \/ FinishRaises(r) \/ Die(r)
<1> USE DEF PCs
<1>1. CASE Prelude(r)
  <2>1. /\ pc[r] \in {"idle", "probe", "claim"}
        /\ \E w \in {"idle", "probe", "claim", "fetch"} : Goto(r, w)
    BY <1>1 DEF Prelude, ReadUnit, ProbeFails, ProbeSame, ProbeChanged, ProbeForced, Proceed,
                Claim, Locked
  <2>2. QED
    BY <2>1, GotoType
<1>2. CASE Drain(r)
  BY <1>2, GotoType DEF Drain
<1>3. CASE Book(r)
  BY <1>3, GotoType DEF Book
<1>4. CASE Record(r) \/ Release(r) \/ Leftover(r)
  <2>1. /\ pc[r] \in {"record", "release", "idle", "leftover"}
        /\ \E w \in {"idle", "leftover", "release"} : Goto(r, w)
    BY <1>4 DEF Record, Release, Leftover, LeftoverClaim, LeftoverDrain
  <2>2. QED
    BY <2>1, GotoType
<1>5. CASE FinishRaises(r) \/ Die(r)
  BY <1>5, GotoType DEF FinishRaises, Die
<1>6. QED
  BY <1>1, <1>2, <1>3, <1>4, <1>5 DEF Finish

(* Drain and Book hand on what they hold.                                  *)
LEMMA DrainBookHands ==
    ASSUME TypeOK, NEW r \in Runners, Drain(r) \/ Book(r)
    PROVE  /\ HandsOn(r)
           /\ UNCHANGED <<us, probe, res, unit>>
<1>1. CASE Drain(r)
  <2>1. pc[r] = "drain" /\ pc'[r] = "book" /\ UNCHANGED <<us, probe, res, unit>>
    BY <1>1, DrainType, GotoType DEF Drain, PCs
  <2>2. QED
    BY <2>1 DEF HandsOn, Held
<1>2. CASE Book(r)
  <2>1. /\ pc[r] = "book" /\ UNCHANGED <<us, probe, res, unit>>
        /\ queue' = queue \cup res[r].missed /\ full' = (full \/ res[r].owed)
    BY <1>2 DEF Book, local
  <2>2. QED
    BY <2>1 DEF HandsOn, Held, Home
<1>3. QED
  BY <1>1, <1>2

LEMMA NoMissNext ==
    ASSUME TypeOK, VintageInv, NoMissYet, [Next]_vars
    PROVE  NoMissYet'
<1>1. CASE UNCHANGED vars
  BY <1>1 DEF NoMissYet, vars, local
<1>2. CASE Environment
  BY <1>2, EnvironmentHomes DEF NoMissYet
<1>3. ASSUME NEW r \in Runners, StepOf(r) PROVE NoMissYet'
  <2>1. OthersKept(r)
    BY <1>3, StepKeepsOthers
  <2>2. pc'[r] = "csv" => res'[r].missed = {}
    <3>1. CASE Prelude(r) \/ Finish(r) \/ Leftover(r) \/ Die(r)
      BY <3>1, StepGoes
    <3>2. CASE CsvPhase(r)
      <4>1. \A missed, owed, demote, w : PhaseEnds(r, missed, owed, demote, w) => Goto(r, w)
        BY DEF PhaseEnds
      <4>2. Goto(r, "drain") \/ Goto(r, "book")
        BY <3>2, <4>1 DEF CsvPhase, NothingToDerive, Derive, DeriveCrashes, FenceTrips
      <4>3. QED
        BY <4>2, GotoType DEF PCs
    <3>3. CASE Fetch(r)
      <4>1. CASE FetchNoChange(r) \/ FetchRaises(r) \/ WindowStop(r)
        BY <4>1, GotoType DEF FetchNoChange, FetchRaises, WindowStop, PCs
      <4>2. ASSUME NEW status, NEW M, NEW changed, NEW owed,
                   Fetched(r, status, M, changed, owed)
            PROVE  res'[r].missed = {}
        <5>1. PICK n \in 0..MaxRev :
                res' = [res EXCEPT ![r] = [status |-> status, last |-> n, changed |-> changed,
                                           missed |-> {}, owed |-> owed]]
          BY <4>2 DEF Fetched
        <5>2. QED
          BY <5>1, Typed
      <4>3. QED
        BY <3>3, <4>1, <4>2 DEF Fetch, FetchOk, FetchCapped, FetchPartial
    <3>4. QED
      BY <1>3, <3>1, <3>2, <3>3 DEF StepOf
  <2>3. QED
    BY <2>1, <2>2 DEF NoMissYet, OthersKept
<1>4. QED
  BY <1>1, <1>2, <1>3 DEF Next, StepOf

(* A run holds what its fetch merged: as changed, or as a whole owed.      *)
LEMMA FetchedHolds ==
    ASSUME TypeOK, VintageInv, NEW r \in Runners, NEW status \in Statuses,
           NEW M \in SUBSET Series, NEW changed \in SUBSET Series, NEW owed \in BOOLEAN,
           Fetched(r, status, M, changed, owed), Changed(M) \subseteq changed \/ owed
    PROVE  /\ \A s \in Series : store'[s] # store[s] => Held(r, s)'
           /\ \A s \in Series : s \in changed \/ owed => Held(r, s)'
           /\ res'[r].status = status
<1>1. PICK n \in 0..MaxRev :
        res' = [res EXCEPT ![r] = [status |-> status, last |-> n, changed |-> changed,
                                   missed |-> {}, owed |-> owed]]
  BY DEF Fetched
<1>2. res'[r].changed = changed /\ res'[r].owed = owed /\ res'[r].status = status
  BY <1>1, Typed
<1>3. Merge(M) /\ UNCHANGED <<upstream, served>> /\ pc'[r] = "csv"
  BY GotoType DEF Fetched, PCs
<1>4. \A s \in Series : s \in changed \/ owed => Held(r, s)'
  BY <1>2, <1>3 DEF Held
<1>5. ASSUME NEW s \in Series, store'[s] # store[s] PROVE s \in Changed(M)
  <2>1. s \in M /\ store[s] # upstream[s]
    BY <1>3, <1>5, MergeStale DEF VintageInv
  <2>2. QED
    BY <2>1 DEF Changed
<1>6. QED
  BY <1>2, <1>4, <1>5

LEMMA FetchHolds ==
    ASSUME TypeOK, VintageInv, NEW r \in Runners, Fetch(r)
    PROVE  /\ ~MayDie /\ Kind # "net" =>
                \A s \in Series : store'[s] # store[s] => Held(r, s)'
           /\ Kind = "parsed" /\ Clean(res'[r].status)
                /\ pc'[r] \in {"csv", "drain", "book", "record"} =>
                  \A s \in Series : Held(r, s)'
<1> USE DEF Statuses
<1>1. CASE FetchOk(r)
  <2>1. Changed(Series) \in SUBSET Series /\ Fetched(r, "ok", Series, Changed(Series), FALSE)
    BY <1>1, ChangedType DEF FetchOk
  <2>2. Kind = "parsed" => Changed(Series) = Series
    BY DEF Changed
  <2>3. QED
    BY <2>1, <2>2, FetchedHolds
<1>2. CASE FetchCapped(r)
  <2>1. PICK C \in SUBSET Series : Fetched(r, "ok", Series, C, TRUE)
    BY <1>2 DEF FetchCapped
  <2>2. QED
    BY <2>1, FetchedHolds
<1>3. CASE FetchPartial(r)
  <2>1. PICK M \in SUBSET Series, status \in {"partial", "transient_fail"} :
          Fetched(r, status, M, Changed(M), FALSE)
    BY <1>3 DEF FetchPartial
  <2>2. Changed(M) \in SUBSET Series
    BY ChangedType
  <2>3. /\ \A s \in Series : store'[s] # store[s] => Held(r, s)'
        /\ res'[r].status = status
    BY <2>1, <2>2, FetchedHolds
  <2>4. ~Clean(status)
    BY DEF Clean
  <2>5. QED
    BY <2>3, <2>4
<1>4. CASE FetchNoChange(r)
  <2>1. Kind # "parsed" /\ Merge(Series) /\ (Kind = "measured" => store = upstream)
    BY <1>4 DEF FetchNoChange
  <2>2. Kind # "net" => \A s \in Series : store'[s] = store[s]
    BY <2>1, URAssumption DEF Merge
  <2>3. QED
    BY <2>1, <2>2
<1>5. CASE FetchRaises(r)
  <2>1. PICK M \in SUBSET Series : Merge(M) /\ (M # {} => MayDie)
    BY <1>5 DEF FetchRaises
  <2>2. ~MayDie => \A s \in Series : store'[s] = store[s]
    BY <2>1 DEF Merge
  <2>3. pc'[r] = "release"
    BY <1>5, GotoType DEF FetchRaises, PCs
  <2>4. QED
    BY <2>2, <2>3
<1>6. CASE WindowStop(r)
  BY <1>6, GotoType DEF WindowStop, PCs, data
<1>7. QED
  BY <1>1, <1>2, <1>3, <1>4, <1>5, <1>6 DEF Fetch

LEMMA FetchHeldNothing ==
    ASSUME NEW r \in Runners, Fetch(r)
    PROVE  \A s \in Series : ~Held(r, s)
<1>1. pc[r] = "fetch"
  BY DEF Fetch, FetchOk, FetchCapped, FetchPartial, FetchNoChange, FetchRaises, WindowStop,
         Fetched
<1>2. QED
  BY <1>1 DEF Held

LEMMA OwedNext ==
    ASSUME DesktopOwed, ~MayDie, Kind # "net",
           TypeOK, VintageInv, NoMissYet, OwedInv, [Next]_vars
    PROVE  OwedInv'
<1>1. CASE UNCHANGED vars
  BY <1>1 DEF OwedInv, Stale, Home, InFlight, vars, data, debts, local
<1>2. CASE Environment
  <2>1. HomesKept /\ UNCHANGED <<pc, res>>
    BY <1>2, EnvironmentHomes
  <2>2. \A s \in Series : InFlight(s)' = InFlight(s)
    BY <2>1 DEF InFlight
  <2>3. QED
    BY <2>1, <2>2 DEF OwedInv, HomesKept
<1>3. ASSUME NEW r \in Runners, StepOf(r) PROVE OwedInv'
  <2>1. \A s \in Series, q \in Runners : q # r /\ Held(q, s) => Held(q, s)'
    BY <1>3, StepKeepsOthers DEF OthersKept, Held
  <2>2. CASE Fetch(r)
    <3>1. ASSUME NEW s \in Series, Stale(s)', store'[s] # store[s] PROVE InFlight(s)'
      BY <2>2, <3>1, FetchHolds DEF Held, InFlight
    <3>2. ASSUME NEW s \in Series, Stale(s)', store'[s] = store[s] PROVE Home(s)' \/ InFlight(s)'
      <4>1. Stale(s) /\ Home(s)' = Home(s)
        BY <2>2, <3>2, FetchHomes
      <4>2. Home(s) \/ \E q \in Runners : q # r /\ Held(q, s)
        BY <2>2, <4>1, FetchHeldNothing DEF OwedInv, InFlight, Held
      <4>3. QED
        BY <2>1, <4>1, <4>2 DEF InFlight, Held
    <3>3. QED
      BY <3>1, <3>2 DEF OwedInv
  <2>3. CASE ~Fetch(r)
    <3>1. HomesKept
      BY <1>3, <2>3, PhaseHomes, RestHomes, URAssumption DEF StepOf
    <3>2. HandsOn(r)
      <4>1. CASE CsvPhase(r)
        BY <4>1, PhaseHomes
      <4>2. CASE Drain(r) \/ Book(r)
        BY <4>2, DrainBookHands
      <4>3. CASE ~(CsvPhase(r) \/ Drain(r) \/ Book(r))
        <5>1. ~FinishRaises(r) /\ ~Die(r)
          BY DEF FinishRaises, Die
        <5>2. pc[r] \notin {"csv", "drain", "book"}
          BY <1>3, <2>3, <4>3, <5>1, StepGoes DEF StepOf
        <5>3. QED
          BY <5>2 DEF HandsOn, Held
      <4>4. QED
        BY <4>1, <4>2, <4>3
    <3>3. ASSUME NEW s \in Series, Stale(s)' PROVE Home(s)' \/ InFlight(s)'
      <4>1. Stale(s) /\ (Home(s) => Home(s)')
        BY <3>1, <3>3 DEF HomesKept
      <4>2. Home(s) \/ \E q \in Runners : Held(q, s)
        BY <4>1 DEF OwedInv, InFlight, Held
      <4>3. QED
        BY <2>1, <3>2, <3>3, <4>1, <4>2 DEF HandsOn, InFlight, Held
    <3>4. QED
      BY <3>3 DEF OwedInv
  <2>4. QED
    BY <2>2, <2>3
<1>4. QED
  BY <1>1, <1>2, <1>3 DEF Next, StepOf

(* A step of the unit as HomeInv sees it: a series that is stale after it  *)
(* keeps its home, and was stale before or has rows no vintage names.      *)
Moved == \A s \in Series :
    /\ store[s] \in Nat /\ store'[s] \in Nat
    /\ Stale(s)' => /\ Home(s) => Home(s)'
                    /\ (store'[s] = store[s] /\ Stale(s)) \/ store'[s] > store[s]

LEMMA KeptMoved == ASSUME TypeOK, HomesKept PROVE Moved
<1>1. store \in [Series -> Nat]
  BY Typed, URAssumption DEF Data
<1>2. QED
  BY <1>1 DEF HomesKept, Moved

LEMMA FetchMoved ==
    ASSUME TypeOK, VintageInv, NEW r \in Runners, Fetch(r)
    PROVE  Moved
<1>1. ASSUME NEW s \in Series
      PROVE  /\ store[s] \in Nat /\ store'[s] \in Nat
             /\ Stale(s)' => /\ Home(s) => Home(s)'
                             /\ (store'[s] = store[s] /\ Stale(s)) \/ store'[s] > store[s]
  <2>1. /\ store[s] \in Nat /\ store'[s] \in Nat
        /\ store'[s] = store[s] \/ store'[s] > store[s]
        /\ Home(s)' = Home(s)
        /\ Stale(s)' => Stale(s) \/ store'[s] > store[s]
    BY FetchHomes
  <2>2. QED
    BY <2>1
<1>2. QED
  BY <1>1 DEF Moved

LEMMA OutdatedMoves ==
    ASSUME TypeOK, Moved, NEW v \in Data \cup {Never}, Earned(v, store),
           NEW s \in Series, Stale(s)', Stale(s) => Home(s) \/ Outdated(v, store, s)
    PROVE  Home(s)' \/ Outdated(v, store', s)
<1>1. /\ store[s] \in Nat /\ store'[s] \in Nat
      /\ Home(s) => Home(s)'
      /\ (store'[s] = store[s] /\ Stale(s)) \/ store'[s] > store[s]
  BY DEF Moved
<1>2. CASE Home(s)
  BY <1>1, <1>2
<1>3. CASE ~Home(s)
  BY <1>1, <1>3, OutdatedStays
<1>4. QED
  BY <1>2, <1>3

(* What r read before its run stays outdated.                              *)
LEMMA RowStays ==
    ASSUME TypeOK, VintageInv, HomeInv, Moved, NEW r \in Runners, us'[r] = us[r]
    PROVE  \A s \in Series : Stale(s)' => Home(s)' \/ Outdated(us[r].vintage, store', s)
<1>1. us[r].vintage \in Data \cup {Never} /\ Earned(us[r].vintage, store)
  BY VintageTypes DEF VintageInv
<1>2. QED
  BY <1>1, OutdatedMoves DEF HomeInv, Homed

(* So does what r probed, as long as it hands on what it holds.            *)
LEMMA ProbeStays ==
    ASSUME TypeOK, VintageInv, HomeInv, Moved, NEW r \in Runners, probe'[r] = probe[r],
           pc[r] \in {"csv", "drain", "book", "record"}, Clean(res[r].status), HandsOn(r)
    PROVE  \A s \in Series : Stale(s)' =>
             Home(s)' \/ Held(r, s)' \/ Outdated(probe[r], store', s)
<1>1. probe[r] \in Data \cup {Never} /\ Earned(probe[r], store)
  BY VintageTypes DEF VintageInv
<1>2. ASSUME NEW s \in Series, Stale(s)', ~Held(r, s)
      PROVE  Home(s)' \/ Outdated(probe[r], store', s)
  <2>1. Stale(s) => Home(s) \/ Outdated(probe[r], store, s)
    BY <1>2 DEF HomeInv, Homed
  <2>2. QED
    BY <1>1, <1>2, <2>1, OutdatedMoves
<1>3. QED
  BY <1>2 DEF HandsOn

LEMMA HomedStays ==
    ASSUME TypeOK, VintageInv, HomeInv, Moved, NEW q \in Runners,
           pc'[q] = pc[q], us'[q] = us[q], probe'[q] = probe[q], res'[q] = res[q]
    PROVE  Homed(q)'
<1>1. \A s \in Series : Held(q, s)' = Held(q, s)
  BY DEF Held
<1>2. HandsOn(q)
  BY <1>1 DEF HandsOn
<1>3. QED
  BY <1>2, RowStays, ProbeStays DEF Homed

LEMMA HomeStep ==
    ASSUME TypeOK, VintageInv, HomeInv, Moved, NEW r \in Runners, OthersKept(r), Homed(r)',
           \/ unit'.vintage = unit.vintage
           \/ \A s \in Series : Stale(s)' => Home(s)' \/ Outdated(unit'.vintage, store', s)
    PROVE  HomeInv'
<1>1. \A q \in Runners : Homed(q)'
  BY HomedStays DEF OthersKept
<1>2. ASSUME unit'.vintage = unit.vintage, NEW s \in Series, Stale(s)'
      PROVE  Home(s)' \/ Outdated(unit'.vintage, store', s)
  <2>1. unit.vintage \in Data \cup {Never} /\ Earned(unit.vintage, store)
    BY VintageTypes DEF VintageInv, VintageIsEarned
  <2>2. QED
    BY <1>2, <2>1, OutdatedMoves DEF HomeInv
<1>3. QED
  BY <1>1, <1>2 DEF HomeInv

(* Only the record changes the recorded vintage.                           *)
LEMMA VintageKept ==
    ASSUME TypeOK, NEW r \in Runners, StepOf(r), ~Record(r)
    PROVE  unit'.vintage = unit.vintage
<1>1. CASE Prelude(r)
  BY <1>1, StatusType DEF Prelude, ReadUnit, ProbeFails, ProbeSame, ProbeChanged, ProbeForced,
                          Proceed, Claim, Locked, Statuses
<1>2. CASE Fetch(r)
  BY <1>2, StatusType DEF Fetch, FetchOk, FetchCapped, FetchPartial, FetchNoChange,
                          FetchRaises, WindowStop, Fetched, Statuses
<1>3. CASE CsvPhase(r)
  BY <1>3 DEF CsvPhase, NothingToDerive, Derive, DeriveCrashes, FenceTrips, PhaseEnds
<1>4. CASE Finish(r) \/ Leftover(r) \/ Die(r)
  BY <1>4, StatusType DEF Finish, Drain, Book, FinishRaises, Release, Leftover, LeftoverClaim,
                          LeftoverDrain, Die, DrainQueue, Statuses
<1>5. QED
  BY <1>1, <1>2, <1>3, <1>4 DEF StepOf

(* A run that ends, or has not merged yet.                                 *)
LEMMA HomedEarly ==
    ASSUME TypeOK, VintageInv, HomeInv, Moved, NEW r \in Runners,
           pc'[r] \notin {"csv", "drain", "book", "record"},
           us'[r] = us[r] \/ us'[r] = NoRow
    PROVE  Homed(r)'
<1>1. CASE us'[r] = us[r]
  BY <1>1, RowStays DEF Homed
<1>2. CASE us'[r] = NoRow
  BY <1>2 DEF Homed, NoRow, Outdated
<1>3. QED
  BY <1>1, <1>2

LEMMA HomedRest ==
    ASSUME TypeOK, VintageInv, HomeInv, Moved, NEW r \in Runners,
           Prelude(r) \/ Finish(r) \/ Leftover(r) \/ Die(r)
    PROVE  Homed(r)'
<1>1. CASE Drain(r) \/ Book(r)
  <2>1. HandsOn(r) /\ UNCHANGED <<us, probe, res>>
    BY <1>1, DrainBookHands
  <2>2. pc[r] \in {"csv", "drain", "book", "record"}
    BY <1>1 DEF Drain, Book
  <2>3. QED
    BY <2>1, <2>2, RowStays, ProbeStays DEF Homed
<1>2. CASE ReadUnit(r)
  <2>1. us'[r].vintage = unit.vintage /\ pc'[r] = "probe" /\ UNCHANGED <<store, served, queue, desktop, full>>
    BY <1>2, Typed, GotoType DEF ReadUnit, data, debts, PCs
  <2>2. \A s \in Series : Stale(s)' = Stale(s) /\ Home(s)' = Home(s)
    BY <2>1 DEF Stale, Home
  <2>3. QED
    BY <2>1, <2>2 DEF HomeInv, Homed
<1>3. CASE ~(Drain(r) \/ Book(r) \/ ReadUnit(r))
  <2>1. pc'[r] \notin {"csv", "drain", "book", "record"}
    BY <1>3, StepGoes
  <2>2. us'[r] = us[r] \/ us'[r] = NoRow
    <3>1. UNCHANGED us \/ Forget(r)
      BY <1>3 DEF Prelude, ReadUnit, ProbeFails, ProbeSame, ProbeChanged, ProbeForced, Proceed,
                  Claim, Locked, Finish, Record, FinishRaises, Release, Leftover,
                  LeftoverClaim, LeftoverDrain, DrainQueue, Die, local
    <3>2. QED
      BY <3>1, Typed DEF Forget
  <2>3. QED
    BY <2>1, <2>2, HomedEarly
<1>4. QED
  BY <1>1, <1>2, <1>3

LEMMA HomedPhase ==
    ASSUME TypeOK, VintageInv, NoMissYet, HomeInv, FenceMayTrip => DesktopOwed,
           NEW r \in Runners, CsvPhase(r)
    PROVE  Homed(r)'
<1>1. Moved
  BY PhaseHomes, KeptMoved
<1>2. \A missed, owed, demote, w : PhaseEnds(r, missed, owed, demote, w) =>
        /\ UNCHANGED <<us, probe>>
        /\ res'[r].status \in {res[r].status, Demoted(res[r].status)}
  <2>1. res \in [Runners -> Results]
    BY Typed
  <2>2. \A x \in Results : \A missed, owed, demote :
          [x EXCEPT !.changed = {}, !.missed = missed, !.owed = @ \/ owed,
                    !.status = IF demote THEN Demoted(@) ELSE @].status
            = IF demote THEN Demoted(x.status) ELSE x.status
    BY DEF Results
  <2>3. QED
    BY <2>1, <2>2 DEF PhaseEnds
<1>3. /\ pc[r] = "csv" /\ UNCHANGED <<us, probe>>
      /\ res'[r].status \in {res[r].status, Demoted(res[r].status)}
  BY <1>2 DEF CsvPhase, NothingToDerive, Derive, DeriveCrashes, FenceTrips
<1>4. ~Clean(Demoted(res[r].status))
  BY DEF Demoted, Clean
<1>5. Clean(res'[r].status) => Clean(res[r].status) /\ HandsOn(r)
  BY <1>3, <1>4, PhaseHomes
<1>6. QED
  BY <1>1, <1>3, <1>5, RowStays, ProbeStays DEF Homed

LEMMA HomeNext ==
    ASSUME Kind = "parsed", FenceMayTrip => DesktopOwed,
           TypeOK, VintageInv, NoMissYet, HomeInv, [Next]_vars
    PROVE  HomeInv'
<1>1. CASE UNCHANGED vars
  BY <1>1 DEF HomeInv, Homed, Stale, Home, Held, Outdated, vars, data, debts, local
<1>2. CASE Environment
  <2>1. Moved /\ UNCHANGED <<unit, pc, us, probe, res>>
    BY <1>2, EnvironmentHomes, KeptMoved
  <2>2. \A q \in Runners : Homed(q)'
    BY <2>1, HomedStays
  <2>3. unit.vintage \in Data \cup {Never} /\ Earned(unit.vintage, store)
    BY VintageTypes DEF VintageInv, VintageIsEarned
  <2>4. QED
    BY <2>1, <2>2, <2>3, OutdatedMoves DEF HomeInv
<1>3. ASSUME NEW r \in Runners, StepOf(r) PROVE HomeInv'
  <2>1. OthersKept(r)
    BY <1>3, StepKeepsOthers
  <2>2. CASE Fetch(r)
    <3>1. Moved /\ us'[r] = us[r]
      BY <2>2, FetchMoved, FetchHomes
    <3>2. Homed(r)'
      BY <2>2, <3>1, RowStays, FetchHolds DEF Homed
    <3>3. unit'.vintage = unit.vintage
      BY <1>3, <2>2, VintageKept DEF Fetch, Record, FetchOk, FetchCapped, FetchPartial,
                                     FetchNoChange, FetchRaises, WindowStop, Fetched
    <3>4. QED
      BY <2>1, <3>1, <3>2, <3>3, HomeStep
  <2>3. CASE CsvPhase(r)
    <3>1. Moved /\ Homed(r)'
      BY <2>3, PhaseHomes, KeptMoved, HomedPhase
    <3>2. unit'.vintage = unit.vintage
      BY <2>3 DEF CsvPhase, NothingToDerive, Derive, DeriveCrashes, FenceTrips, PhaseEnds
    <3>3. QED
      BY <2>1, <3>1, <3>2, HomeStep
  <2>4. CASE Prelude(r) \/ Finish(r) \/ Leftover(r) \/ Die(r)
    <3>1. HomesKept
      BY <2>4, RestHomes
    <3>2. Moved
      BY <3>1, KeptMoved
    <3>3. Homed(r)'
      BY <2>4, <3>2, HomedRest
    <3>4. CASE ~Record(r)
      BY <1>3, <2>1, <3>2, <3>3, <3>4, VintageKept, HomeStep
    <3>5. CASE Record(r)
      <4>1. /\ pc[r] = "record"
            /\ unit'.vintage = IF Clean(res[r].status) THEN probe[r] ELSE us[r].vintage
        BY <3>5, RecordType DEF Record
      <4>2. ASSUME NEW s \in Series, Stale(s)'
            PROVE  Home(s)' \/ Outdated(unit'.vintage, store', s)
        <5>1. Stale(s) /\ (Home(s) => Home(s)') /\ store' = store
          BY <3>1, <4>2 DEF HomesKept
        <5>2. Home(s) \/ Outdated(unit'.vintage, store, s)
          BY <4>1, <5>1 DEF HomeInv, Homed, Held
        <5>3. QED
          BY <5>1, <5>2
      <4>3. QED
        BY <2>1, <3>2, <3>3, <4>2, HomeStep
    <3>6. QED
      BY <3>4, <3>5
  <2>5. QED
    BY <1>3, <2>2, <2>3, <2>4 DEF StepOf
<1>4. QED
  BY <1>1, <1>2, <1>3 DEF Next, StepOf

LEMMA HomeInit == Init => NoMissYet /\ OwedInv /\ HomeInv
<1> SUFFICES ASSUME Init PROVE NoMissYet /\ OwedInv /\ HomeInv
  OBVIOUS
<1>1. \A s \in Series : ~Stale(s)
  BY DEF Init, Stale
<1>2. \A r \in Runners : pc[r] = "idle"
  BY DEF Init
<1>3. QED
  BY <1>1, <1>2 DEF NoMissYet, OwedInv, HomeInv, Homed

LEMMA HomeInvHomes ==
    ASSUME TypeOK, HomeInv \/ OwedInv
    PROVE  StaleHasHome
<1>1. CASE HomeInv
  <2>1. ASSUME NEW s \in Series, Outdated(unit.vintage, store, s) PROVE NotRecorded(s)
    BY <2>1 DEF Outdated, NotRecorded
  <2>2. QED
    BY <1>1, <2>1 DEF HomeInv, Stale, Home, StaleHasHome
<1>2. CASE OwedInv
  BY <1>2 DEF OwedInv, Stale, Home, StaleHasHome
<1>3. QED
  BY <1>1, <1>2

(* No CSV goes stale in silence, for any series and runners and also when  *)
(* leases expire under living owners: for a fetcher that reports every row *)
(* it fetched, whatever dies, and for a fetcher whose merge measures its   *)
(* change, when the source is desktop owed and its processes live.  The    *)
(* fence may trip where the misses are owed.  A fetcher that counts added  *)
(* rows is not covered: it does not see a revision (UnitRunNet.cfg).       *)
THEOREM StaleHasHomeHolds ==
    ASSUME Kind = "parsed" \/ (Kind = "measured" /\ DesktopOwed /\ ~MayDie),
           FenceMayTrip => DesktopOwed
    PROVE  Spec => []StaleHasHome
<1>1. Init => VintageInv
  BY VintageInit
<1>2. TypeOK /\ VintageInv /\ NoMissYet /\ [Next]_vars => NoMissYet'
  BY NoMissNext
<1>3. CASE Kind = "parsed"
  <2>1. TypeOK /\ VintageInv /\ NoMissYet /\ HomeInv /\ [Next]_vars => HomeInv'
    BY <1>3, HomeNext
  <2>2. TypeOK /\ HomeInv => StaleHasHome
    BY HomeInvHomes
  <2>3. Init => NoMissYet /\ HomeInv
    BY HomeInit
  <2>4. QED
    BY <1>1, <1>2, <2>1, <2>2, <2>3, VintageNext, TypeCorrect, PTL DEF Spec
<1>4. CASE Kind = "measured" /\ DesktopOwed /\ ~MayDie
  <2>1. TypeOK /\ VintageInv /\ NoMissYet /\ OwedInv /\ [Next]_vars => OwedInv'
    BY <1>4, OwedNext
  <2>2. TypeOK /\ OwedInv => StaleHasHome
    BY HomeInvHomes
  <2>3. Init => NoMissYet /\ OwedInv
    BY HomeInit
  <2>4. QED
    BY <1>1, <1>2, <2>1, <2>2, <2>3, VintageNext, TypeCorrect, PTL DEF Spec
<1>5. QED
  BY <1>3, <1>4
=============================================================================
