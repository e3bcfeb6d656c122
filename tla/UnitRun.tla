------------------------------- MODULE UnitRun -------------------------------
(***************************************************************************)
(* updater/orchestrate.py, run_once: one refresh unit taken through probe, *)
(* lease, fetch, merge, CSV derive, booking and record, by the updater     *)
(* processes of one machine, which share one state.db.                     *)
(*                                                                         *)
(* Rows are abstracted to revisions: upstream[s] is the publisher's        *)
(* revision of series s, store[s] the one merged into the parquet store,   *)
(* served[s] the one in the CSV users download.  The vintage token names   *)
(* the content it was probed from, so the token is that content.           *)
(*                                                                         *)
(* Kept: the order of the steps, what is read before the lease and used    *)
(* after it, the four homes of a CSV that was not derived (retry queue,    *)
(* desktop debt, full re-derive debt, a vintage not recorded), and the     *)
(* death of a process between any two steps.  Left out: cadence, ordering  *)
(* and budget (a unit may be taken up at any moment, or never), the notes, *)
(* the dry run, the run log, and units the registry serves by a lane.      *)
(***************************************************************************)
EXTENDS Naturals, FiniteSets

CONSTANTS
    Series,        \* the unit's catalogued series
    Runners,       \* the updater processes of the machine
    MaxRev,        \* bound: how often the publisher revises a series
    Kind,          \* how the fetcher reports what it changed, see Changed
    DesktopOwed,   \* TRUE: registry `csv_misses: desktop_owed`
    FenceMayTrip,  \* TRUE: the CSV phase may exceed its hard fence
    MayDie,        \* TRUE: a process may die, or its run fail half-way
    Runaway        \* TRUE: a lease may expire under a living owner

ASSUME URAssumption == /\ MaxRev \in Nat
                       /\ Kind \in {"parsed", "net", "measured"}
                       /\ {DesktopOwed, FenceMayTrip, MayDie, Runaway} \subseteq BOOLEAN
                       /\ "free" \notin Runners /\ "dead" \notin Runners

VARIABLES
    upstream,   \* the publisher's data
    store,      \* the merged parquet store
    served,     \* the served CSVs
    unit,       \* unit_state: vintage, last observation, status
    queue,      \* csv_retry_queue
    desktop,    \* csv_desktop_owed
    full,       \* full_rederive_owed
    lease,      \* the unit's lease: an owner, "dead" (orphaned) or "free"
    pc,         \* pc[r]: where r stands in run_once
    us,         \* us[r]: the unit_state r read before its probe
    probe,      \* probe[r]: the vintage token r probed
    res         \* res[r]: the fetch's Result, then the CSV phase's outcome

data   == <<upstream, store, served>>
debts  == <<queue, desktop, full>>
local  == <<us, probe, res>>
vars   == <<data, unit, debts, lease, pc, local>>

Data  == [Series -> 0..MaxRev]
Never == [s \in {} |-> 0]

(* n is the newest observation d has of the series in S, 0 when S is empty. *)
Newest(n, d, S) == n \in {0} \cup {d[s] : s \in S} /\ \A s \in S : d[s] <= n

Statuses == {"none", "ok", "partial", "transient_fail", "no_change"}
Units    == [vintage : Data \cup {Never}, last : 0..MaxRev, status : Statuses]

(* What a run keeps of the unit_state row it read.                         *)
Rows  == [vintage : Data \cup {Never}, last : 0..MaxRev]
NoRow == [vintage |-> Never, last |-> 0]

(* What run_once holds of a fetch: its status and frontier, the series to  *)
(* derive, those to queue instead, and whether the whole source is owed.   *)
Results == [status : Statuses, last : 0..MaxRev, changed : SUBSET Series,
            missed : SUBSET Series, owed : BOOLEAN]
NoResult == [status |-> "none", last |-> 0, changed |-> {}, missed |-> {},
             owed |-> FALSE]

PCs == {"idle", "probe", "claim", "fetch", "csv", "drain", "leftover",
        "book", "record", "release"}

Working == {"fetch", "csv", "drain", "leftover", "book", "record", "release"}

Init == /\ upstream = [s \in Series |-> 0]
        /\ store = [s \in Series |-> 0]
        /\ served = [s \in Series |-> 0]
        /\ unit = [vintage |-> Never, last |-> 0, status |-> "none"]
        /\ queue = {} /\ desktop = {} /\ full = FALSE
        /\ lease = "free"
        /\ pc = [r \in Runners |-> "idle"]
        /\ us = [r \in Runners |-> NoRow]
        /\ probe = [r \in Runners |-> Never]
        /\ res = [r \in Runners |-> NoResult]

Goto(r, where) == pc' = [pc EXCEPT ![r] = where]

Forget(r) == /\ us' = [us EXCEPT ![r] = NoRow]
             /\ probe' = [probe EXCEPT ![r] = Never]
             /\ res' = [res EXCEPT ![r] = NoResult]

(* The CSVs of S now hold what the store holds.                            *)
Serve(S) == served' = [s \in Series |-> IF s \in S THEN store[s] ELSE served[s]]

-----------------------------------------------------------------------------
(* The environment. *)

Publish(s) == /\ upstream[s] < MaxRev
              /\ upstream' = [upstream EXCEPT ![s] = @ + 1]
              /\ UNCHANGED <<store, served, unit, debts, lease, pc, local>>

(* The process is killed; its lease stays behind.                          *)
Die(r) == /\ MayDie /\ pc[r] # "idle"
          /\ lease' = IF lease = r THEN "dead" ELSE lease
          /\ Goto(r, "idle") /\ Forget(r)
          /\ UNCHANGED <<data, unit, debts>>

(* Its TTL passes: any owner may claim the row, its old owner drops it.    *)
LeaseExpires == /\ lease = "dead" \/ (Runaway /\ lease \in Runners)
                /\ lease' = "free"
                /\ UNCHANGED <<data, unit, debts, pc, local>>

(* The desktop derives an owed series, reads it back, clears the debt.     *)
DesktopDerive(s) == /\ s \in desktop
                    /\ Serve({s})
                    /\ desktop' = desktop \ {s}
                    /\ UNCHANGED <<upstream, store, unit, queue, full, lease, pc, local>>

(* A completed wholesale derive campaign clears the full re-derive debt.   *)
BulkDerive == /\ full
              /\ Serve(Series)
              /\ full' = FALSE
              /\ UNCHANGED <<upstream, store, unit, queue, desktop, lease, pc, local>>

-----------------------------------------------------------------------------
(* run_once, up to the lease *)

(* store.get_unit, before the probe and before the lease.                  *)
ReadUnit(r) == /\ pc[r] = "idle"
               /\ us' = [us EXCEPT ![r] = [vintage |-> unit.vintage, last |-> unit.last]]
               /\ Goto(r, "probe")
               /\ UNCHANGED <<data, unit, debts, lease, probe, res>>

ProbeFails(r) == /\ pc[r] = "probe"
                 /\ unit' = [unit EXCEPT !.status = "transient_fail"]
                 /\ Goto(r, "idle") /\ Forget(r)
                 /\ UNCHANGED <<data, debts, lease>>

(* An earned no_change: the token equals the stored one.                   *)
ProbeSame(r) == /\ pc[r] = "probe"
                /\ upstream = us[r].vintage
                /\ unit' = [unit EXCEPT !.status = "no_change"]
                /\ Goto(r, "idle") /\ Forget(r)
                /\ UNCHANGED <<data, debts, lease>>

Proceed(r) == /\ pc[r] = "probe"
              /\ probe' = [probe EXCEPT ![r] = upstream]
              /\ Goto(r, "claim")
              /\ UNCHANGED <<data, unit, debts, lease, us, res>>

ProbeChanged(r) == upstream # us[r].vintage /\ Proceed(r)

(* --force runs the unit although its token equals the stored one.         *)
ProbeForced(r) == upstream = us[r].vintage /\ Proceed(r)

Claim(r) == /\ pc[r] = "claim"
            /\ lease = "free"
            /\ lease' = r
            /\ Goto(r, "fetch")
            /\ UNCHANGED <<data, unit, debts, local>>

Locked(r) == /\ pc[r] = "claim"
             /\ lease # "free"
             /\ Goto(r, "idle") /\ Forget(r)
             /\ UNCHANGED <<data, unit, debts, lease>>

-----------------------------------------------------------------------------
(* strat.run: fetch and merge *)

(* A status under which the recorded vintage and last_success advance.     *)
Clean(status) == status \in {"ok", "no_change"}

(* The fetcher merges M and reports the set it changed: the merge-measured *)
(* one ("measured"), or the series of every row it fetched.                *)
Changed(M) == IF Kind = "measured" THEN {s \in M : store[s] # upstream[s]} ELSE M

Merge(M) == store' = [s \in Series |-> IF s \in M THEN upstream[s] ELSE store[s]]

Fetched(r, status, M, changed, owed) ==
    /\ pc[r] = "fetch"
    /\ Merge(M)
    /\ \E n \in 0..MaxRev :
         /\ Newest(n, upstream, M)
         /\ res' = [res EXCEPT ![r] = [status |-> status, last |-> n, changed |-> changed,
                                       missed |-> {}, owed |-> owed]]
    /\ Goto(r, "csv")
    /\ UNCHANGED <<upstream, served, unit, debts, lease, us, probe>>

(* Everything is merged.  "net" counts added rows, so it says ok only when *)
(* there were some.                                                        *)
FetchOk(r) == /\ Kind = "net" => store # upstream
              /\ Fetched(r, "ok", Series, Changed(Series), FALSE)

(* cursor_cap_hit: the cursors name only a part of what was merged.        *)
FetchCapped(r) == /\ Kind = "parsed"
                  /\ \E C \in (SUBSET Series) \ {{}, Series} : Fetched(r, "ok", Series, C, TRUE)

(* Some sub-units failed, perhaps none with a catalogued series.  A sweep  *)
(* the hard limit ended after it merged changed flows says transient_fail  *)
(* and still carries its changed set.                                      *)
FetchPartial(r) == \E M \in SUBSET Series :
    \/ Fetched(r, "partial", M, Changed(M), FALSE)
    \/ /\ Kind = "measured" /\ Changed(M) # {}
       /\ Fetched(r, "transient_fail", M, Changed(M), FALSE)

(* Nothing was added: no CSV phase.  "net" does not count a revision that  *)
(* adds no row, so its merge may have changed the store all the same.      *)
FetchNoChange(r) ==
    /\ pc[r] = "fetch"
    /\ Kind # "parsed" /\ (Kind = "measured" => store = upstream)
    /\ Merge(Series)
    /\ \E n \in 0..MaxRev : \E S \in {{}, Series} :
         /\ Newest(n, upstream, S)
         /\ res' = [res EXCEPT ![r] = [status |-> "no_change", last |-> n,
                    changed |-> {}, missed |-> {}, owed |-> FALSE]]
    /\ Goto(r, "record")
    /\ UNCHANGED <<upstream, served, unit, debts, lease, us, probe>>

(* The fetch raises, perhaps after it has merged some sub-units; _record.  *)
FetchRaises(r) == /\ pc[r] = "fetch"
                  /\ \E M \in SUBSET Series : (M # {} => MayDie) /\ Merge(M)
                  /\ \E status \in {"transient_fail", "partial"} :
                       unit' = [unit EXCEPT !.status = status]
                  /\ Goto(r, "release")
                  /\ UNCHANGED <<upstream, served, debts, lease, local>>

(* A window stop before any durable progress records nothing.              *)
WindowStop(r) == /\ pc[r] = "fetch"
                 /\ Goto(r, "release")
                 /\ UNCHANGED <<data, unit, debts, lease, local>>

-----------------------------------------------------------------------------
(* The CSV phase: _derive_changed_csvs under its fence *)

(* Variant: the demotion writes a status the state does not know.          *)
DemotedUnknown(status) == "csv_failed"

Demoted(status) == IF status = "transient_fail" THEN status ELSE "partial"

(* The phase ends: what goes to the queue, and whether the run is demoted. *)
(* The changed set is not used again.                                      *)
PhaseEnds(r, missed, owed, demote, where) ==
    /\ res' = [res EXCEPT ![r].changed = {}, ![r].missed = missed,
                          ![r].owed = @ \/ owed,
                          ![r].status = IF demote THEN Demoted(@) ELSE @]
    /\ Goto(r, where)
    /\ UNCHANGED <<upstream, store, unit, queue, lease, us, probe>>

(* No changed set at all: "measured" says nothing changed, the others owe  *)
(* a full re-derive because the changed series are unknown.                *)
NothingToDerive(r) == /\ pc[r] = "csv" /\ res[r].changed = {}
                      /\ PhaseEnds(r, {}, Kind # "measured", Kind # "measured", "drain")
                      /\ UNCHANGED <<served, desktop, full>>

(* Each changed series is derived, fails (which demotes), or is deferred   *)
(* by the budget.  Both kinds of miss go to the queue, or, for a desktop   *)
(* owed source, to the desktop debt unless that booking fails.             *)
Derive(r) ==
    /\ pc[r] = "csv" /\ res[r].changed # {}
    /\ \E missed \in SUBSET res[r].changed : \E failed \in SUBSET missed :
         /\ Serve(res[r].changed \ missed)
         /\ \/ /\ ~DesktopOwed
               /\ PhaseEnds(r, missed, FALSE, failed # {}, "drain")
               /\ UNCHANGED desktop
            \/ /\ DesktopOwed
               /\ desktop' = desktop \cup missed
               /\ PhaseEnds(r, {}, FALSE, failed # {}, "drain")
            \/ /\ DesktopOwed /\ missed # {}
               /\ PhaseEnds(r, IF failed = missed THEN failed ELSE res[r].changed, FALSE, TRUE, "drain")
               /\ UNCHANGED desktop
    /\ UNCHANGED full

(* An exception in the phase.  Mapped ids are queued (or booked), also     *)
(* those already derived; before the mapping there are no ids to queue,    *)
(* and only a desktop owed source maps again, or records the keys as owed. *)
DeriveCrashes(r) ==
    /\ pc[r] = "csv" /\ res[r].changed # {}
    /\ \/ /\ \E D \in SUBSET res[r].changed : Serve(D)
          /\ PhaseEnds(r, res[r].changed, FALSE, TRUE, "drain")
          /\ UNCHANGED <<desktop, full>>
       \/ /\ DesktopOwed
          /\ \E D \in SUBSET res[r].changed : Serve(D)
          /\ desktop' = desktop \cup res[r].changed
          /\ PhaseEnds(r, {}, FALSE, TRUE, "drain")
          /\ UNCHANGED full
       \/ /\ full' = (full \/ DesktopOwed)
          /\ PhaseEnds(r, {}, FALSE, TRUE, "drain")
          /\ UNCHANGED <<served, desktop>>

(* Variant: the fence ends every source's phase without a booking.         *)
FenceTripsQuietly(r) ==
    /\ FenceMayTrip
    /\ pc[r] = "csv" /\ res[r].changed # {}
    /\ \E D \in SUBSET res[r].changed : Serve(D)
    /\ PhaseEnds(r, {}, FALSE, FALSE, "book")
    /\ UNCHANGED <<desktop, full>>

(* The fence trips: the phase is abandoned and the drain is skipped.  A    *)
(* desktop owed source books its changed ids (_book_fence_trip); for any   *)
(* other source nothing is queued and the run stays green.                 *)
FenceTrips(r) ==
    /\ FenceMayTrip
    /\ pc[r] = "csv" /\ res[r].changed # {}
    /\ \E D \in SUBSET res[r].changed : Serve(D)
    /\ \/ /\ ~DesktopOwed
          /\ PhaseEnds(r, {}, FALSE, FALSE, "book")
          /\ UNCHANGED <<desktop, full>>
       \/ /\ DesktopOwed
          /\ desktop' = desktop \cup res[r].changed
          /\ PhaseEnds(r, {}, FALSE, FALSE, "book")
          /\ UNCHANGED full
       \/ /\ DesktopOwed
          /\ PhaseEnds(r, res[r].changed, FALSE, TRUE, "book")
          /\ UNCHANGED <<desktop, full>>
       \/ /\ DesktopOwed
          /\ full' = TRUE
          /\ PhaseEnds(r, {}, FALSE, TRUE, "book")
          /\ UNCHANGED desktop

-----------------------------------------------------------------------------
(* The retry drain, the bookings, the record *)

(* _drain_csv_retry_queue: what derives is cleared, a refailure stays, as  *)
(* does what the cap or the budget leaves; for a desktop owed source what  *)
(* was tried and did not derive becomes a desktop debt.                    *)
DrainQueue ==
    \E kept \in SUBSET queue : \E moved \in SUBSET kept :
         /\ moved # {} => DesktopOwed
         /\ Serve(queue \ kept)
         /\ queue' = kept \ moved
         /\ desktop' = desktop \cup moved
         /\ UNCHANGED <<upstream, store, unit, full, lease, local>>

Drain(r) == pc[r] = "drain" /\ DrainQueue /\ Goto(r, "book")

(* Variant: the ids the derive missed are not queued.                      *)
BookNoMisses(r) == /\ pc[r] = "book"
                   /\ full' = (full \/ res[r].owed)
                   /\ Goto(r, "record")
                   /\ UNCHANGED <<data, unit, queue, desktop, lease, local>>

(* enqueue_csv_retry and note_full_rederive_owed                           *)
Book(r) == /\ pc[r] = "book"
           /\ queue' = queue \cup res[r].missed
           /\ full' = (full \/ res[r].owed)
           /\ Goto(r, "record")
           /\ UNCHANGED <<data, unit, desktop, lease, local>>

(* Variant: the vintage is read again when the run is recorded.            *)
RecordReprobed(r) == /\ pc[r] = "record"
                     /\ unit' = [vintage |-> IF Clean(res[r].status) THEN upstream ELSE us[r].vintage,
                                 last |-> IF res[r].last > us[r].last THEN res[r].last ELSE us[r].last,
                                 status |-> res[r].status]
                     /\ Goto(r, "release")
                     /\ UNCHANGED <<data, debts, lease, local>>

(* upsert_unit: the vintage advances only on a clean success; what was     *)
(* read before the lease fills in for it, and bounds the last observation. *)
Record(r) == /\ pc[r] = "record"
             /\ unit' = [vintage |-> IF Clean(res[r].status) THEN probe[r] ELSE us[r].vintage,
                         last |-> IF res[r].last > us[r].last THEN res[r].last ELSE us[r].last,
                         status |-> res[r].status]
             /\ Goto(r, "release")
             /\ UNCHANGED <<data, debts, lease, local>>

(* The drain, a booking or the record raises: the run is recorded as       *)
(* failed, and what was not booked yet stays unbooked.                     *)
FinishRaises(r) == /\ MayDie
                   /\ pc[r] \in {"drain", "book", "record"}
                   /\ unit' = [unit EXCEPT !.status = "transient_fail"]
                   /\ Goto(r, "release")
                   /\ UNCHANGED <<data, debts, lease, local>>

(* Variant: the lease row is deleted whoever owns it.                      *)
ReleaseAny(r) == /\ pc[r] = "release"
                 /\ lease' = "free"
                 /\ Goto(r, "idle") /\ Forget(r)
                 /\ UNCHANGED <<data, unit, debts>>

(* release_lease(key, owner=OWNER): only the owner's own row is deleted.   *)
Release(r) == /\ pc[r] = "release"
              /\ lease' = IF lease = r THEN "free" ELSE lease
              /\ Goto(r, "idle") /\ Forget(r)
              /\ UNCHANGED <<data, unit, debts>>

(* Variant: the leftover drain does not look at the lease.                 *)
LeftoverUnleased(r) == /\ pc[r] = "idle" /\ queue # {}
                       /\ lease' = r
                       /\ Goto(r, "leftover")
                       /\ UNCHANGED <<data, unit, debts, local>>

(* _drain_leftover_retries: a pass that did not run the unit drains its    *)
(* queue under the unit's lease, in leftover time.                         *)
LeftoverClaim(r) == /\ pc[r] = "idle" /\ queue # {}
                    /\ lease = "free"
                    /\ lease' = r
                    /\ Goto(r, "leftover")
                    /\ UNCHANGED <<data, unit, debts, local>>

LeftoverDrain(r) == pc[r] = "leftover" /\ DrainQueue /\ Goto(r, "release")

-----------------------------------------------------------------------------
Prelude(r) == \/ ReadUnit(r) \/ ProbeFails(r) \/ ProbeSame(r) \/ ProbeChanged(r)
              \/ ProbeForced(r) \/ Claim(r) \/ Locked(r)

Fetch(r) == \/ FetchOk(r) \/ FetchCapped(r) \/ FetchPartial(r) \/ FetchNoChange(r)
            \/ FetchRaises(r) \/ WindowStop(r)

CsvPhase(r) == NothingToDerive(r) \/ Derive(r) \/ DeriveCrashes(r) \/ FenceTrips(r)

Finish(r) == Drain(r) \/ Book(r) \/ Record(r) \/ FinishRaises(r) \/ Release(r)

Leftover(r) == LeftoverClaim(r) \/ LeftoverDrain(r)

Environment == \/ LeaseExpires \/ BulkDerive
               \/ \E s \in Series : Publish(s) \/ DesktopDerive(s)

Next == \/ \E r \in Runners : \/ Prelude(r) \/ Fetch(r) \/ CsvPhase(r)
                              \/ Finish(r) \/ Leftover(r) \/ Die(r)
        \/ Environment

Spec == Init /\ [][Next]_vars

-----------------------------------------------------------------------------
(* Each variable keeps its type.                                           *)
TypeOK == /\ {upstream, store, served} \subseteq Data
          /\ unit \in Units
          /\ queue \subseteq Series /\ desktop \subseteq Series /\ full \in BOOLEAN
          /\ lease \in Runners \cup {"free", "dead"}
          /\ pc \in [Runners -> PCs]
          /\ us \in [Runners -> Rows]
          /\ probe \in [Runners -> Data \cup {Never}]
          /\ res \in [Runners -> Results]

(* A run in progress still holds s: to derive, to queue, or to owe.        *)
InFlight(s) == \E r \in Runners :
    \/ pc[r] = "csv" /\ s \in res[r].changed
    \/ pc[r] \in {"csv", "drain", "book"} /\ (s \in res[r].missed \/ res[r].owed)

(* The vintage on record is not that of the merged rows: the next probe    *)
(* finds the unit changed, and its fetch names s again.                    *)
NotRecorded(s) == unit.vintage = Never \/ unit.vintage[s] # store[s]

(* No CSV goes stale in silence: a series whose CSV is behind the store is *)
(* in the retry queue, a desktop debt, a full re-derive debt, or the run   *)
(* that merged it is not on record as a success.                           *)
StaleHasHome == \A s \in Series : served[s] # store[s] =>
    s \in queue \cup desktop \/ full \/ InFlight(s) \/ NotRecorded(s)

(* A recorded vintage was earned: the store holds all of that vintage, so  *)
(* a probe that matches it may skip the fetch.                             *)
Earned(v, d) == v = Never \/ \A s \in Series : v[s] <= d[s]

VintageIsEarned == Earned(unit.vintage, store)

(* Its inductive form: every vintage on its way to the record is earned    *)
(* too, the probed one from the moment a clean fetch is merged.            *)
VintageInv ==
    /\ Earned(store, upstream)
    /\ VintageIsEarned
    /\ \A r \in Runners :
         /\ Earned(us[r].vintage, store)
         /\ Earned(probe[r], upstream)
         /\ pc[r] \in {"csv", "drain", "book", "record"} /\ Clean(res[r].status)
              => Earned(probe[r], store)

(* One run of the unit at a time, from its lease to its release.           *)
OneRunPerUnit == \A q, r \in Runners :
    pc[q] \in Working /\ pc[r] \in Working => q = r

(* Its inductive form: a runner at work on the unit holds the lease.       *)
WorkerHoldsLease == \A r \in Runners : pc[r] \in Working => lease = r

(* A unit's last observation never regresses.                              *)
LastObsNeverRegresses == [][unit'.last >= unit.last]_vars

(* No step of another runner takes a lease away: an owner loses it by a    *)
(* step of its own, or by expiry, and a run that outlived its lease leaves *)
(* the next owner's alone.                                                 *)
LeaseKeptByOthers ==
    [][lease' # lease /\ lease \in Runners => (pc' = pc \/ pc'[lease] # pc[lease])]_vars
=============================================================================
