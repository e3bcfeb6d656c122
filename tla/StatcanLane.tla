----------------------------- MODULE StatcanLane -----------------------------
(***************************************************************************)
(* jobs/statcan_lane.py: the process that refreshes every released StatCan *)
(* cube whole, then serves its catalogued parts.                           *)
(*                                                                         *)
(* One record per cube, in _lane_state.json, carries the work from one     *)
(* iteration to the next: the release enumerated, the one merged, the one  *)
(* served.  A revision is the number of the release that brought it.       *)
(*                                                                         *)
(* Kept: every save of the record, and the death of the lane between any   *)
(* two of them; the store publish apart from the save that records it; a   *)
(* publish or a serve that fails half-way; releases at any moment, also    *)
(* one that repeats the same table.  Left out: what the checks of a table  *)
(* compare (any of them may refuse it), sizes, progress beats, the wording *)
(* of the debt file, and the hourly limit on idle enumerations.            *)
(***************************************************************************)
EXTENDS Naturals, FiniteSets

CONSTANTS
    Cubes,           \* product ids
    MaxRel,          \* bound: releases of one cube
    QuarantineAfter, \* deterministic failures before a cube is quarantined
    LaneFaults       \* TRUE: the lane may die, and a step of it may fail

ASSUME SLAssumption == /\ MaxRel \in Nat /\ QuarantineAfter \in Nat \ {0}
                       /\ LaneFaults \in BOOLEAN
                       /\ "none" \notin Cubes

VARIABLES
    rel,        \* rel[c]: StatCan's latest release of c, 0 when there is none
    table,      \* table[c][r]: the revision of c that release r published
    held,       \* the cubes in the store
    store,      \* store[c]: the revision the store holds of a held cube
    csv,        \* csv[c]: the revisions that parts of the served cube hold
    done,       \* the ingester's .done records
    catalogued, \* the cubes that have ids in the catalogue
    cubes,      \* the lane's record of each cube
    newCubes,   \* released cubes that are not held: coverage debt
    pc,         \* where the lane stands
    todo,       \* what is left of the iteration's list of owed cubes
    cur,        \* the cube being worked
    job,        \* the merge's locals: the prior in-flight mark, the revision
                \* downloaded, and whether the merge changed a value
    assumed     \* history: the cubes recorded as served on an assumption,
                \* and not served since

upstream == <<rel, table>>
region   == <<held, store, csv, done, catalogued>>
state    == <<cubes, newCubes>>
lane     == <<pc, todo, cur, job>>
vars     == <<upstream, region, state, lane, assumed>>

Releases  == 0..MaxRel
Older     == MaxRel + 1     \* a part's content from before the lane, or none
CubeState == [release : Releases, merged : Releases, served : Releases,
              inflight : Releases, fails : 0..QuarantineAfter, failRel : Releases,
              quarantined : BOOLEAN, notHeld : BOOLEAN, waits : BOOLEAN]
NoRecord  == [release |-> 0, merged |-> 0, served |-> 0, inflight |-> 0,
              fails |-> 0, failRel |-> 0,
              quarantined |-> FALSE, notHeld |-> FALSE, waits |-> FALSE]
Jobs      == [prior : Releases, got : Releases, changed : BOOLEAN]
NoJob     == [prior |-> 0, got |-> 0, changed |-> FALSE]
PCs       == {"idle", "next", "ask", "fetch", "publish", "record", "serve"}

Init == /\ rel = [c \in Cubes |-> 0]
        /\ table = [c \in Cubes |-> [r \in Releases |-> 0]]
        /\ held \in SUBSET Cubes
        /\ store = [c \in Cubes |-> 0]
        /\ csv = [c \in Cubes |-> {Older}]
        /\ done \in {d \in SUBSET Cubes : held \subseteq d}
        /\ catalogued \in SUBSET held
        /\ cubes = [c \in Cubes |-> NoRecord]
        /\ newCubes = {}
        /\ pc = "idle" /\ todo = {} /\ cur = "none" /\ job = NoJob
        /\ assumed = {}

-----------------------------------------------------------------------------
(* The debts, and what a step does to a cube's record *)

MergeOwed(s) == s.release > 0 /\ s.merged < s.release

ServeOwed(s) == s.merged > 0 /\ s.served < s.merged

(* Variant: a serve left owed by an earlier iteration is not listed.       *)
DueToMerge(s) == ~s.quarantined /\ ~s.waits /\ MergeOwed(s)

(* order_owed: due, not quarantined, oldest owed release first.            *)
Due(s) == ~s.quarantined /\ ~s.waits /\ (MergeOwed(s) \/ ServeOwed(s))

(* What the list is sorted by.                                             *)
OwedSince(s) == IF MergeOwed(s) THEN s.release ELSE s.merged

(* A transient failure: the cube is not due until its retry time.          *)
Backoff(s) == [s EXCEPT !.waits = TRUE]

(* Variant: deterministic failures never quarantine.                       *)
DeterministicOnly(s) ==
    LET n == IF s.failRel = s.release THEN s.fails + 1 ELSE 1
    IN  [s EXCEPT !.fails = n, !.failRel = s.release]

(* A deterministic failure counts per release; enough of them quarantine.  *)
Deterministic(s) ==
    LET n == IF s.failRel = s.release THEN s.fails + 1 ELSE 1
    IN  [s EXCEPT !.fails = n, !.failRel = s.release,
                  !.quarantined = (n >= QuarantineAfter)]

(* Variant: a quarantine outlives the release that caused it.              *)
EnumeratedOnly(s, r) == [s EXCEPT !.release = r]

(* A newly enumerated release; a quarantined cube is tried again.          *)
Enumerated(s, r) ==
    IF s.release = r THEN s
    ELSE LET again == s.quarantined /\ s.failRel # r
         IN  [s EXCEPT !.release = r, !.quarantined = s.quarantined /\ ~again,
                       !.fails = IF again THEN 0 ELSE s.fails]

(* Variant: what a merge finds in flight from an earlier attempt is        *)
(* ignored.                                                                *)
ServeOnChange(s, j) == j.changed \/ s.served = 0 \/ s.notHeld

(* Does the merge leave a serve owed?  On a first visit, or after an       *)
(* earlier attempt that was left in flight, always.                        *)
MustServe(s, j) == j.changed \/ s.served = 0 \/ s.notHeld \/ j.prior # 0

(* The merge found nothing to serve although an older serve is owed.       *)
Assumes(s, j) == ServeOwed(s) /\ ~MustServe(s, j)

(* Variant: the release recorded is the one out by now.                    *)
MergedLatest(s, serve) == [s EXCEPT !.merged = rel[cur], !.release = rel[cur],
                                    !.served = IF serve THEN s.served ELSE rel[cur],
                                    !.inflight = 0, !.fails = 0, !.failRel = 0,
                                    !.notHeld = FALSE, !.waits = FALSE]

(* The release recorded as merged is the enumerated one.                   *)
Merged(s, serve) == [s EXCEPT !.merged = s.release,
                              !.served = IF serve THEN s.served ELSE s.release,
                              !.inflight = 0, !.fails = 0, !.failRel = 0,
                              !.notHeld = FALSE, !.waits = FALSE]

Absent(s) == [s EXCEPT !.merged = s.release, !.served = s.release, !.notHeld = TRUE]

Served(s) == [s EXCEPT !.served = s.merged, !.waits = FALSE]

Save(s) == cubes' = [cubes EXCEPT ![cur] = s]

-----------------------------------------------------------------------------
(* The environment *)

(* StatCan releases c at any moment, with another table or the same one.   *)
Release(c) ==
    /\ rel[c] < MaxRel
    /\ rel' = [rel EXCEPT ![c] = @ + 1]
    /\ \E v \in {rel[c] + 1, table[c][rel[c]]} :
         table' = [table EXCEPT ![c][rel[c] + 1] = v]
    /\ UNCHANGED <<region, state, lane, assumed>>

(* The cube's retry_after passes.                                          *)
TimePasses(c) == /\ cubes[c].waits
                 /\ cubes' = [cubes EXCEPT ![c].waits = FALSE]
                 /\ UNCHANGED <<upstream, region, newCubes, lane, assumed>>

(* The lane dies or raises; its guard starts it again.                     *)
LaneDies == /\ LaneFaults /\ pc # "idle"
            /\ pc' = "idle" /\ todo' = {} /\ cur' = "none" /\ job' = NoJob
            /\ UNCHANGED <<upstream, region, state, assumed>>

-----------------------------------------------------------------------------
(* run(): enumerate, then work the owed cubes *)

Goto(where) == pc' = where

(* The releases since the floor are read and saved, and the list is made.  *)
Enumerate == /\ pc = "idle"
             /\ cubes' = [c \in Cubes |-> Enumerated(cubes[c], rel[c])]
             /\ todo' = {c \in Cubes : Due(cubes'[c])}
             /\ Goto("next")
             /\ UNCHANGED <<upstream, region, newCubes, cur, job, assumed>>

Pick(c) == /\ pc = "next" /\ c \in todo
           /\ \A d \in todo : OwedSince(cubes[c]) <= OwedSince(cubes[d])
           /\ todo' = todo \ {c} /\ cur' = c
           /\ Goto(IF MergeOwed(cubes[c]) THEN "ask" ELSE "serve")
           /\ UNCHANGED <<upstream, region, state, job, assumed>>

IterationEnds == /\ pc = "next" /\ todo = {}
                 /\ Goto("idle") /\ cur' = "none"
                 /\ UNCHANGED <<upstream, region, state, todo, job, assumed>>

(* The cube is left with the record s, and the next one is taken.          *)
Leave(s) == /\ Save(s)
            /\ Goto("next") /\ job' = NoJob
            /\ UNCHANGED <<todo, cur>>

-----------------------------------------------------------------------------
(* merge_cube *)

(* Not in the store and never ingested: booked as a new cube.              *)
AskAbsent == /\ pc = "ask" /\ cur \notin held \cup done
             /\ newCubes' = newCubes \cup {cur}
             /\ Leave(Absent(cubes[cur]))
             /\ UNCHANGED <<upstream, region, assumed>>

(* Not in the store although its .done record says so: a store fault.      *)
AskFault == /\ pc = "ask" /\ cur \in done \ held
            /\ Leave(Backoff(cubes[cur]))
            /\ UNCHANGED <<upstream, region, newCubes, assumed>>

(* In the store: the merge is recorded as in flight before it can publish. *)
AskHeld == /\ pc = "ask" /\ cur \in held
           /\ job' = [job EXCEPT !.prior = cubes[cur].inflight]
           /\ Save([cubes[cur] EXCEPT !.inflight = cubes[cur].release])
           /\ Goto("fetch")
           /\ UNCHANGED <<upstream, region, newCubes, todo, cur, assumed>>

FetchOk == /\ pc = "fetch"
           /\ job' = [job EXCEPT !.got = table[cur][rel[cur]]]
           /\ Goto("publish")
           /\ UNCHANGED <<upstream, region, state, todo, cur, assumed>>

(* merge_and_write_bounded publishes.  Without a change report (a cube     *)
(* with too many series) the merge counts as a change.                     *)
Publish == /\ pc = "publish"
           /\ store' = [store EXCEPT ![cur] = job.got]
           /\ \E changed \in {store[cur] # job.got, TRUE} :
                job' = [job EXCEPT !.changed = changed]
           /\ Goto("record")
           /\ UNCHANGED <<upstream, held, csv, done, catalogued, state, todo, cur, assumed>>

(* The store or the network fails: asked, read, fetched, checked, merged.  *)
MergeTransient == /\ LaneFaults
                  /\ pc \in {"ask", "fetch", "publish"}
                  /\ Leave(Backoff(cubes[cur]))
                  /\ UNCHANGED <<upstream, region, newCubes, assumed>>

(* The publish raised, but it happened.                                    *)
PublishUnsure == /\ LaneFaults
                 /\ pc = "publish"
                 /\ store' = [store EXCEPT ![cur] = job.got]
                 /\ Leave(Backoff(cubes[cur]))
                 /\ UNCHANGED <<upstream, held, csv, done, catalogued, newCubes, assumed>>

(* A check of the table, or a guard of the merge, refuses it.              *)
MergeRefused == /\ LaneFaults
                /\ pc \in {"fetch", "publish"}
                /\ Leave(Deterministic(cubes[cur]))
                /\ UNCHANGED <<upstream, region, newCubes, assumed>>

(* The record is saved before anything is served.  A table that changed    *)
(* nothing is taken to have been served, also when a serve is still owed.  *)
RecordMerge == /\ pc = "record"
               /\ LET serve == MustServe(cubes[cur], job)
                      s == Merged(cubes[cur], serve)
                  IN /\ Save(s)
                     /\ Goto(IF serve /\ ServeOwed(s) THEN "serve" ELSE "next")
               /\ job' = NoJob
               /\ assumed' = assumed \cup {c \in {cur} : Assumes(cubes[c], job)}
               /\ UNCHANGED <<upstream, region, newCubes, todo, cur>>

-----------------------------------------------------------------------------
(* serve_owed_cube *)

(* Some of the parts are written.                                          *)
ServeSome == \E kept \in (SUBSET csv[cur]) \ {{}} :
                 csv' = [csv EXCEPT ![cur] = kept \cup {store[cur]}]

(* Some PUTs land, and then the others fail, or the lane dies.             *)
ServeFails == /\ LaneFaults
              /\ pc = "serve"
              /\ IF cur \in catalogued THEN ServeSome ELSE UNCHANGED csv
              /\ Leave(Backoff(cubes[cur]))
              /\ UNCHANGED <<upstream, held, store, done, catalogued, newCubes, assumed>>

ServePuts == /\ LaneFaults
             /\ pc = "serve" /\ cur \in catalogued
             /\ ServeSome
             /\ UNCHANGED <<upstream, held, store, done, catalogued, state, lane, assumed>>

(* The store or the catalogue cannot be read, or the split map or the      *)
(* catalogue does not fit the cube: nothing is written.                    *)
ServeRefused == /\ LaneFaults
                /\ pc = "serve"
                /\ Leave(Backoff(cubes[cur]))
                /\ UNCHANGED <<upstream, region, newCubes, assumed>>

(* Every catalogued part that the table still has is written, and csv      *)
(* counts no other: a part the table has lost is only booked as a debt.  A *)
(* cube with no catalogued id is settled with nothing written.             *)
ServeOk == /\ pc = "serve"
           /\ csv' = IF cur \in catalogued THEN [csv EXCEPT ![cur] = {store[cur]}] ELSE csv
           /\ Leave(Served(cubes[cur]))
           /\ assumed' = assumed \ {cur}
           /\ UNCHANGED <<upstream, held, store, done, catalogued, newCubes>>

-----------------------------------------------------------------------------
Ask == AskAbsent \/ AskFault \/ AskHeld

MergeCube == \/ Ask \/ FetchOk \/ Publish \/ RecordMerge
             \/ MergeTransient \/ PublishUnsure \/ MergeRefused

ServeCube == ServeFails \/ ServePuts \/ ServeRefused \/ ServeOk

LaneStep == \/ Enumerate \/ IterationEnds \/ LaneDies \/ MergeCube \/ ServeCube
            \/ \E c \in Cubes : Pick(c)

StatCan == \E c \in Cubes : Release(c) \/ TimePasses(c)

Next == LaneStep \/ StatCan

Spec == Init /\ [][Next]_vars

(***************************************************************************)
(* Fairness.  The guard keeps a lane alive and retry times pass; a step    *)
(* that is tried again and again does not fail, and the lane does not die, *)
(* every time.                                                             *)
(***************************************************************************)
Fairness == /\ WF_vars(Enumerate) /\ WF_vars(IterationEnds)
            /\ \A c \in Cubes : /\ WF_vars(TimePasses(c))
                                /\ SF_vars(Pick(c)) /\ SF_vars(cur = c /\ Ask)
            /\ SF_vars(FetchOk) /\ SF_vars(Publish)
            /\ SF_vars(RecordMerge) /\ SF_vars(ServeOk)

LiveSpec == Spec /\ Fairness

-----------------------------------------------------------------------------
(* Each variable keeps its type.                                           *)
TypeOK == /\ rel \in [Cubes -> Releases]
          /\ table \in [Cubes -> [Releases -> Releases]]
          /\ held \subseteq Cubes /\ done \subseteq Cubes
          /\ catalogued \subseteq Cubes /\ newCubes \subseteq Cubes
          /\ store \in [Cubes -> Releases]
          /\ csv \in [Cubes -> SUBSET (Releases \cup {Older})]
          /\ cubes \in [Cubes -> CubeState]
          /\ pc \in PCs /\ todo \subseteq Cubes /\ cur \in Cubes \cup {"none"}
          /\ job \in Jobs
          /\ assumed \subseteq Cubes

(* The record says that all is done: nothing the lane reads of it tells    *)
(* that a merge or a serve is owed, and the cube is not a coverage debt.   *)
LooksServed(c) == /\ cubes[c].merged > 0
                  /\ ~MergeOwed(cubes[c]) /\ ~ServeOwed(cubes[c])
                  /\ ~cubes[c].notHeld /\ c \in catalogued \ newCubes

(* "A kill between the merge and the serve leaves the debt on record,      *)
(* never a cube that looks served": every part of a cube that looks served *)
(* holds what the store holds, unless the record was settled on an         *)
(* assumption: that an unchanged table has been served, though its serve   *)
(* was owed, or that the lane has published nothing since the hand-over,   *)
(* though a merge was in flight.                                           *)
LooksServedIsServed == \A c \in Cubes :
    LooksServed(c) => csv[c] = {store[c]} \/ c \in assumed

(* What statcan_lane.py:22-24 says, without the exception.                 *)
LooksServedIsAlwaysServed == \A c \in Cubes :
    LooksServed(c) => csv[c] = {store[c]}

(* A release recorded as merged is in the store, whatever failed since.    *)
MergedIsInStore == \A c \in Cubes :
    cubes[c].merged > 0 /\ ~cubes[c].notHeld
        => c \in held /\ store[c] >= table[c][cubes[c].merged]

(* A quarantine is for the cube's current release, which is not merged: a  *)
(* re-release is tried again.                                              *)
QuarantineIsCurrent == \A c \in Cubes : cubes[c].quarantined =>
    /\ cubes[c].failRel = cubes[c].release /\ cubes[c].fails >= QuarantineAfter
    /\ MergeOwed(cubes[c])

(* Every release of a held cube comes to be served, or the cube is         *)
(* quarantined for a human to look at.                                     *)
EveryReleaseSettles == \A c \in Cubes : \A r \in 1..MaxRel :
    (rel[c] >= r /\ c \in held) ~> (cubes[c].served >= r \/ cubes[c].quarantined)
=============================================================================
