# The update pipeline of econdatalibrary, in TLA+

This directory is a verification development of the parts of the repository that
keep state: how a refresh unit goes from a publisher to the parquet store and the
served CSVs, how the updater's database travels between machines, how a store
region gets one writer, how StatCan's cubes are merged, served and taken into
the catalogue, how a table is merged, how catalogue rows reach the serving database,
and how the self-hosted origin is swapped. The modules are translated from the code; `PROJECT.json` names, for
every definition, the lines it stands for.

    tlc -config UnitRun.cfg MCUnitRun      # model-check one run
    tlapm UnitRunProofs.tla                # check one module's proofs

## 1. The system

| Part | State it keeps | Operations | Hard part |
|---|---|---|---|
| Region writer lock (`updater/writer_lock.py`) | one lock file: pid, start time | `acquire`, `release`, `owner`, `hold_or_refuse`, `refuse_if_held` | takeover of a dead owner's file by two racers; recycled pids; kills between file operations |
| State round trip (`updater/run.py`) | `state.db` and its log per machine, the recorded ETag, the object in R2 | `pull_state`, `push_state`, the updater writing in between | two machines; lost answers and re-sent PUTs; a database apart from its log |
| Dated backups (`updater/run.py`) | the backup keys | the tail of a push | several machines prune at once, with clocks that disagree |
| Unit run (`updater/orchestrate.py`, `derive.py`, `state.py`) | parquet store, served CSVs, `unit_state`, `csv_retry_queue`, `csv_desktop_owed`, `full_rederive_owed`, leases | `run_once` per unit, leftover drain | what is read before the lease and used after it; failures between merge, derive, booking and record |
| StatCan lane (`jobs/statcan_lane.py`) | `_lane_state.json`, one record per cube | enumerate, merge, record, serve | death between any two saves; releases at any moment; starvation |
| New-cubes tool (`tools/statcan_new_cubes.py`) | a receipt per cube; the lane's record; the catalogue | commit, serve, catalogue, record | stops after any stage while the lane runs in between |
| Unit scheduling, deadlines, start gate (`orchestrate.py`) | cadence and streaks in `state.db` | `order_units`, `start_gate_refuses`, `UnitDeadline` | a unit that never gets its turn |
| Store merge (`updater/merge.py`) | the published table | `merge_and_write`, `merge_and_write_bounded` | keep-last and the report of changes across batches; a publish whose answer is lost |
| Blob stores (`updater/blob.py`) | mirror and R2 | put, conditional put, list, delete | a PUT whose outcome is unknown |
| Catalogue synchronisation (`core/sync_catalog_d1.py`, `catalog_sync_manifest.py`) | pending file, manifest, D1 | sync the queue, sync a source, seed, refresh counts | ids appended while a send runs; files that commit unanswered; a rebuild sent half; a manifest that says more than D1 holds |
| Catalogue path, cutover, atomic replace (`core/`) | which store is the record | `cutover` reads, `replace_with_retry` | both stores writable around T0 |
| State migrations (`updater/state_migrations.py`) | migration marks in `state.db` | one-off row rewrites | a crash between a migration and its mark |
| Self-hosted swap and router (`tools/selfhost/`) | state file, in-flight counts, a record and generation folders per work folder | swap, `--stop`, rollback by hand | a request between its target read and its count; several work folders on one router; a failure around the flip |
| Fetchers, connectors, exports, API, clients, site, maintenance tools | none shared with the above, or read-only | | I/O and parsing |

How they interact. A job pulls `state.db`, runs units against it and pushes it back
(StateSync around UnitRun). A unit run writes the store, the CSVs and the debts of
its source; processes of one machine share `state.db` and keep apart by leases.
StatCan's region is left by the unit run to the lane, and the lane and the tool keep
apart by the writer lock; they share the store, the CSVs and the lane's state file.
Every merge of a unit run or of the lane is one call of the store merge, which
`UnitRun` and `StatcanLane` take as one step; `MergeContract` is what they rely on.
Deriving a CSV queues its id for the catalogue synchronisation. The swap shares nothing
with the rest but the files it copies.

What makes each part correct, as properties:

* lock: one holder; the file names the holder; a release never removes another
  process's file; a dead owner's lock is reclaimed;
* round trip: no run of another machine is lost by a push, no substantial database
  is replaced by a nearly empty one, no database is opened with a foreign log;
* backups: the newest are never deleted, old ones go;
* unit run: a served CSV behind the store is never forgotten; a recorded vintage was
  earned by a merge; one run per unit; a lease is not taken from another owner;
* lane: what is recorded as merged is in the store; what looks served is served; a
  quarantine ends with its release; every release settles;
* tool: objects before catalogue rows; no new cube is forgotten;
* store merge: the new values over the old ones and an exact report of what changed, or
  nothing, whatever the batches;
* catalogue: one index row per series; nothing is recorded as sent that D1 lacks; what
  D1 lacks is still queued; what is queued is shown in the end;
* swap: the active target is always served; the generation before it is kept; no
  request is cut off.

`PROJECT.json` lists the hazards behind these, each at its line.

## 2. The modules

| Module | Models | Extends |
|---|---|---|
| `WriterLock` | the lock, one step per file operation | |
| `StateRegister` | abstract: a store that only gains runs, and pushes whose runs stay | |
| `StateSync` | pull, push, updater, machines; implements `StateRegister` | |
| `BackupRetention` | the tail of a push | |
| `UnitRun` | one unit through `run_once`, by several processes | |
| `StatcanLane` | the lane over a set of cubes | |
| `StatcanNewCubes` | the tool composed with the lane | `StatcanLane` |
| `CatalogSync` | queue, manifest and D1 under the sync's commands | |
| `Swap` | the router and the swap commands of several work folders | |
| `MergeContract` | abstract: what a merge promises its callers | |
| `MergeWrite` | both merges, batch by batch; implements `MergeContract` | |
| `MC...` | instances for TLC | the module of that name |
| `...Proofs` | theorems and proofs | the module of that name and `TLAPS` |

A definition marked *Variant* in a module is not part of its specification: it is a
plausible slip in the definition that follows it (a guard left out, a value read at
the wrong moment), kept to show that the properties notice it.

### WriterLock

`file` is the lock file: absent, created but still without a body, or a record.
A process is a pid and its incarnation `gen[p]`, which stands for the start time, so
a recycled pid is the same pid with another incarnation. `Create`, `WriteBody`,
`CreateRefused`, `Judge`, `Replace`, `ReplaceFails` and `Reread` are the steps of
`acquire`; `ReleaseRead` and `ReleaseRemove` those of `release`; `Kill` ends a process
between any two. `OwnerNone` is what `owner()` answers; an unreadable file counts as
held. `PsutilMayFail` lets the judgement fail, which refuses.

Two hopes of the code are constants. `PauseCovers`: the 0.2 s before the re-read
outlast every racer's `os.replace`. `NoLateReplace`: no process creates the lock
between another's judgement and its replace. With both, the lock excludes; the run
`writer_lock_race` shows that the pause alone does not.

### StateSync, StateRegister, BackupRetention

A database is the set of runs recorded in it. R2's ETag of a single-part object is
the MD5 of its bytes, so an object is its own ETag. `db[m]`, `wal[m]` and `walOf[m]`
are the database file, the runs only in its log and the file that log belongs to.
`PullStart` to `PullRecord` and `PushStart` to `PushDone` follow the two functions
call by call: two HEADs around the GET, set-aside of the database, then of its log,
replace, record; early compare, shrink guard, `VACUUM INTO`, conditional PUT (which
may commit with its answer lost, and be re-sent by botocore to be told 412), the HEAD
that recognises our own bytes, record, backup. `OpenDb`, `CommitRun`, `CloseDb`,
`KillRun` are an updater that writes the same file; it does not open the file inside
the set-aside of a pull, since they are sequential steps of one job. `FreshRunner`
gives a CI machine an empty disk. With `MayLose`, `LoseDb` takes a `state.db` away at any
step of a pull or a push, unless an updater holds it open; with `MayStopHalf` a pull may
end inside its set-aside.

One `Floor` stands for the two plausibility thresholds of the shrink guard.
`AQUEDUCT_ALLOW_SHRINK` is taken as unset. The write-ahead log is on (`state.py:109`).
`.github/workflows/updater-heavy.yml:374-376` says that the compare-and-swap protects
the other workflow's runs: that is `NoLostUpdate`. It needs `~MayLose` and
`~MayStopHalf`: a machine that loses `state.db` but keeps its ETag can push a database
without the store's runs; what the shrink guard still prevents then is `NoWipe`.

The guard measures the file and asks for the store's size (`run.py:385-406`); the snapshot
opens the file again by path (`:413-415`), and the conditional PUT names the object of the
earlier compare. The history variable `unvouched` holds the pushes for which those differ: the
file was lost in between, so that an empty one is snapshotted, or the store had another
object when the guard asked. `NoWipe` excepts these pushes and no others;
`StateSyncWindow.cfg` refutes it without the exception.

`BackupRetention` treats the tail apart, because a push that lands later may reach it
while an earlier one still prunes. Keys are ordered by stamp, then by machine. Keys in
the older form of name are left out.

### UnitRun

`upstream`, `store` and `served` give, per series, the revision the publisher has, the
parquet store holds and the CSV shows. A vintage token names the content it was probed
from, so it is that content. `ReadUnit` and the probe come before `Claim`, as in the
code; `us[r]` is what the run read then and uses later. The fetch merges a set of series
and reports a changed set in one of the three ways fetchers do (`Kind`): the series of
every row fetched ("parsed"), the same but with `no_change` where the count of rows did not
grow ("net": the merge may have changed values all the same), or the merge-measured set
("measured"). `NothingToDerive`, `Derive`, `DeriveCrashes` and
`FenceTrips` are the outcomes of the CSV phase, with the bookings of sources that
declare `csv_misses: desktop_owed`; `Drain`, `Book`, `Record`, `FinishRaises` and
`Release` follow; `LeftoverClaim` and `LeftoverDrain` are the drain in leftover time.

Fetch and merge are one step: between them only the run's own process writes the
unit's store. Cadence, budget and order are left to nondeterminism: a unit may be
taken up at any moment. Left out: sources served by the lane, ids at flow grain or too
large to derive, probes that give no verdict, constant vintages of date-tail sources,
and failing writes to `state.db` other than those of `FinishRaises` and of the
desktop bookings. The fence of a source without `desktop_owed` queues nothing, as its
comment says, so `StaleHasHome` is checked with the fence for desktop-owed sources only.

### StatcanLane

One record per cube, with the fields of the state file that decide anything. A revision
is the number of the release that brought it; `table[c][r]` is what release `r`
published, since a release may repeat the table. `csv[c]` is the set of revisions that
parts of the cube's CSVs hold, so a half-finished serve has two. The actions are the
lane's saves and publishes: `Enumerate`, `Pick`, `AskAbsent`, `AskFault`, `AskHeld`
(which saves the in-flight mark), `FetchOk`, `Publish`, `RecordMerge`, `ServeOk`, and
their failures. `LaneDies` is possible anywhere.

Checks of a table only decide whether it passes, so they are a choice; the counters of
transient failures, the hourly limit on idle enumerations, `max_cubes`, progress beats and the
debt report are left out.

Releases come at any moment and may repeat a table. The history variable `assumed` holds the
cubes that were recorded as served on an assumption and not served since: `RecordMerge` found an
unchanged table while an older serve was owed (`Assumes`, `statcan_lane.py:585-588`), or the tool
handed the cube over with a merge in flight. `LooksServedIsServed` excepts these cubes and no
others; `StatcanLaneAgain.cfg` and `StatcanHandOverServed.cfg` refute it without the exception.
`LooksServed` reads what the lane reads (`merge_owed`, `serve_owed`), not the in-flight mark.

The code settles a serve that leaves out parts the table has lost, and books them as a debt. Such
a part has nothing to be served from; `csv` does not count it (`ServeOk`).

### StatcanNewCubes

`receipt[c]` is the stage of a cube's ingest. `Commit` to `Finish` are the stages;
`Stop` may end a run after any of them, `Restart` and `FinishCommit` resume one that
stopped in its publish. The lane steps only while no run of the tool is at work: the
exclusion that `WriterLock` is about. `TakenOver` is the hand-over of a cube the lane
merged in between. Whether the local mirror holds what the store does not is a choice.
Cubes that StatCan withdraws are left out.

### CatalogSync

A row is the number of its revision; `TitleOf` says which revisions share a title, which
is all the search index holds. `pending` is the queue file, `sent` and `ftsSent` the manifest,
`series`, `index` and `counted` are D1. `index[i].n` counts index rows, since bare INSERTs
that are sent twice make two. `Plan` is `main()` up to the send; `ForgetFts`, `SendRow`,
`SendWipe`, `SendBlock`, `SendBare`, `SendCount`, `ClearPending` and `Record` are what
follows, one file or one write at a time. A file is one transaction. It may commit with its
answer lost (`AnswerLost`) and is sent again where the code retries; a bare INSERT file is
not, and the rebuild starts once more from its DELETE (`Restart`). `torn` is a rebuild that
gave up after its DELETE; the code then asks for the source to be sent again. `Stop` ends a
sync anywhere. A file holds one id; a larger file is several such steps that commit
together, so nothing is reached that the model does not reach.

`~Reverts` is a hope: a row does not return to an earlier content. Ids are queued at any
moment, and a seed measures D1's rows but not its index and counts, as the manifest says.
Two history variables hold what this loses: `unread`, the ids queued after a sync read the
queue that it empties (`Missed`), until they are queued or sent again; `vouched`, the ids
seeded while D1 lacked their index row or count, until they are sent. `NothingForgotten` excepts
the first, and the second for index rows and counts only. Left out: the emitted text, dry runs, the second database of
`CATALOG_SHARD_FOR`, old manifests without hashes, rows that leave the catalogue.

### Swap

A generation is the number of the swap that built it, and an instance is known by it and
by who started it. `run[t]` is what listens on a target's port, `rec[w][t]` a work folder's
record, `gens[w]` its folders, `job[w]` the command that holds its lock. `Take`, `Count` and
`Finish` are a request in the router: the target is read first and counted after. `Begin` to
`SaveFlipped` are `swap()` with the handler of its `try` (`Fail`, `Restore`); `DrainZero`,
`DrainBusy`, `Drained`, `DrainGivesUp`, `StopInstance` and `Prune` what follows the flip;
`StopBegin` is `--stop`, which takes the work folder's lock alone and so may run beside a
swap of another folder. `Crash` ends a command anywhere. `HandStop`, `HandStart` and `HandFlip` are the
operator, among them the rollback the documentation describes; the operator acts only while
no command runs, and stops nothing that a request uses.

`Misread` lets a port whose listener is busy look free. `SettleCovers`: no request takes
longer than `settle` from its target read to its count. `Interrupts`: an interrupt may arrive
between the flip and the end of the `try`. Left out: what a generation is made of, refusals that
change nothing, the router's HTTP, instances that die by themselves after their health check.

### MergeWrite and MergeContract

A table is a sequence of rows (series, date, value); date 0 is the null date, which sorts
last and is equal to itself. `MergeWhole` is the merge in memory, for at most `Small` rows on each
side. `Open`, `NextBatch`, `LastRun` and `Commit` are the streamed one: a batch of any size
up to `MaxBatch` arrives, its trailing run is carried, the rest is reduced to the last row
of each run and compared with the last stored row of the run. `Publish` applies the two
refusals on shrinking; `Fail` is any refusal or error before the publish. With `Unheard` a
publish may land though its caller sees an error.

`MergeContract` knows tables as functions from keys to values: a call either serves the overlay
and reports, for each series, the newest date that serves something else, or raises and changes
nothing. `ImplementsContract` is the refinement. Left out: casts and schemas, the mode that
replaces a table without merging, which no caller here uses, and the empty table, which only
tells whether an empty result is refused. One writer of a table at a time is assumed; that is
what leases and the lock are for.

## 3. The runs

| Run | Shows | Bounds |
|---|---|---|
| `writer_lock` | `MutualExclusion`, `HolderIsNamed`, `ReleaseOnlyOwn`, `StaleIsReclaimed` | three pids with two incarnations: an owner, two racers, and a recycled pid |
| `writer_lock_race` | violation of `MutualExclusion` without `NoLateReplace` | the same |
| `state_sync_safe` | `EtagIsCovered`, `NoLostUpdate`, `ImplementsRegister` | a desktop and a CI runner, two runs: one can be lost by the other's push |
| `state_sync_faults` | `NoForeignLog`, `NoWipe` with files lost at any step and half pulls | two machines, one run; `Floor` is 1, so a store with the run and an empty one differ |
| `backup_retention` | `RetentionKeepsNewest`, `RetentionBounds` | two machines, `Keep` 2, stamps 1 to 4: more keys than are kept |
| `unit_run` | `StaleHasHome`, `VintageIsEarned`, `OneRunPerUnit` | two processes, two series: one derives, the other misses; one revision |
| `unit_run_owed` | `StaleHasHome`, `LeaseKeptByOthers` | two processes, one series, measured changes, leases that expire early |
| `statcan_lane` | `LooksServedIsServed`, `QuarantineIsCurrent`, `MergedIsInStore`, `EveryReleaseSettles` | one cube, three releases: one served, one owed, one new or a repetition; quarantine after two |
| `statcan_new_cubes` | `CatalogueBacked`, `NewCubeIsListed`, `LooksServedIsServed` | one cube, four releases: one for each stage the lane can overtake |
| `catalog_sync` | `IndexOnce`, `ManifestIsHonest`, `NothingForgotten`, `QueuedIsShown` | two ids of a source, one of which changes its title with its revision; two revisions; `~Reverts` |
| `swap` | `ActiveServes`, `KeptForRollback`, `NothingCutOff` | two work folders, so that two commands meet; one request; three generations: one to serve, one to keep, one to prune; `Misread`, `SettleCovers`, `~Interrupts` |
| `merge_write` | `ChunksDoNotMatter`, `ImplementsContract` | two series, one date and the null date, two values; up to two stored rows and three new ones, duplicates included; batches of up to two, so a run spans batches; `Small` 1, so both merges occur |

The runs of `UnitRun` take the kinds "parsed" and "measured". The proofs of types, leases and
vintages cover "net" too; `StaleHasHome` does not hold for it (`UnitRunNet.cfg`, below).

Each passing run also checks its module's type invariant, except `state_sync_faults` and
`unit_run_owed`, whose modules have it checked by another run, and `backup_retention`, for
which it is proved. Bounded quantities are `MaxGen`, `MaxStamp`, `MaxRev`, `MaxRel` and the
sizes of `MergeWrite`; runs are a finite set. `BackupRetention` and `Swap` are the models
that may stop: stamps run out in the one; in the other swaps do, and with them everything
that is not a request. Symmetry is used where the run has no liveness property and the
permuted values are not otherwise told apart. `unit_run` also takes states for one that differ only
in the status of the unit's row (`VIEW`): actions write it, and none reads it, nor does a property
but the type invariant.

One cube is enough for the safety of the lane: it works on one cube at a time, and no
action reads another cube's record except the order of the list. The order matters to
liveness. `StatcanLaneTwo.cfg` checks it with two cubes and one release each; it passes
too, and is not a listed run because it takes minutes. `CatalogSyncGated.cfg` checks what
`CatalogSync.cfg` does with a third, withheld id of another source and one revision of each row;
it passes as well.

### Where the code and its text disagree

`writer_lock_race` is a listed violation: a racer that judged a stale lock can overwrite one
created since. Its counterexample needs neither a slow racer nor a short pause.
`PROJECT.json` quotes the sentence it is against.

The following configurations are not listed runs. Each one drops a hope, a restriction or an
exception of a passing run's property and shows what it keeps out; TLC finds the named property
violated.

* `UnitRunMeasured.cfg` (`StaleHasHome`): a CSV phase that crashes before its mapping is not
  re-derived by the next run when the fetcher reports what the merge measured, against
  `orchestrate.py:1684-1687` ("A crash before mapping queues nothing ... nothing is lost by
  an empty queue here").
* `UnitRunStaleRow.cfg` (`LastObsNeverRegresses`): the last observation is bounded by a row
  read before the lease, against `orchestrate.py:3681-3682` ("last_obs_date must never regress").
* `UnitRunNet.cfg` (`StaleHasHome` with `Kind = "net"`): a fetcher that counts the rows it added
  (`penn_world_table.py:171`, `maddison.py:121`) says `no_change` after a merge that revised values
  of the same periods; no CSV is derived or queued (`orchestrate.py:1306-1308` calls such a count
  "blind to a same-period revision"), and the vintage recorded keeps the next run from
  fetching again.
* `StatcanLaneAgain.cfg` (`LooksServedIsAlwaysServed`): a release with an unchanged table settles a
  cube whose serve is still owed, against `statcan_lane.py:22-24` and `:581-584`.
* `StatcanHandOverServed.cfg` (`LooksServedIsAlwaysServed` of the composition): the lane publishes a
  newer table and dies before it records it; the tool hands over the cube as merged and
  served (`statcan_new_cubes.py:546-551`) with the CSVs of its own table. The mark in flight
  stays, but nothing that decides what is owed reads it (`statcan_lane.py:222-259`, `:662-672`).
* `StatcanHandOver.cfg` (`MergedIsInStore` of the composition): the tool hands over the
  lane's current release (`statcan_new_cubes.py:546`) though the parquet it publishes may be of
  an earlier one, against `:511-512`. The same property holds in the composition when no
  publish stops half way and the lane's own steps succeed.
* `StateSyncRefusal.cfg` (`RefusalWroteNothing`): exit 2 can follow a PUT that landed,
  against `run.py:322` and `:348-349`: the HEAD after the 412 fails, or finds
  another writer's later object.
* `StateSyncWindow.cfg` (`NoWipeAtAll`): a `state.db` that is lost after the shrink guard
  measured it is snapshotted as the empty one `sqlite3.connect` creates, and passes the
  compare-and-swap, against `run.py:374-378`.
* `StateSyncLog.cfg` (`LogIsKept`): a pull that ends between the set-aside of the database
  and of its log (`run.py:277-283`) loses the runs only in the log, against `:265-267`.
* `CatalogSyncAppend.cfg` (`AppendsAreKept`): the queue is truncated
  after the send (`sync_catalog_d1.py:799-801`) with the ids appended since it was read,
  against `orchestrate.py:908-915`.
* `CatalogSyncRevert.cfg` (`ManifestIsHonest` with `Reverts`): a row is sent, its next content
  reaches D1 in a send that then fails, and the row returns to the first content; the manifest
  still says that this one was sent, against `sync_catalog_d1.py:803-804` ("a re-send costs money, a false
  'already sent' costs correctness").
* `CatalogSyncSeed.cfg` (`SeedIsComplete`): a manifest seeded from the
  measured rows alone lets the queue be emptied over a missing index row or count.
* `SwapSettle.cfg` (`NothingCutOff` without `SettleCovers`): a request that takes longer from
  its target read to its count than the drain settles is cut off (`swap.py:507`).
* `SwapInterrupt.cfg` (`ActiveServes` with `Interrupts`): the flip is inside the `try`
  (`swap.py:636`) whose handler stops the new instance, which is the active one by then.
* `SwapOldOne.cfg` (`OldOneStopped`): after a rollback by hand the record names a process
  that is gone, which counts as stopped (`swap.py:409-410`), and the swap ends with exit 0
  (`:752`, "flipped and the old one stopped") while the instance started by hand still runs.
* `MergeUnheard.cfg` (`RaisedChangedNothing` with `Unheard`): a publish whose answer is lost
  raises though the object is replaced, against `merge.py:938-951` ("nothing was published").
  A retry then finds nothing changed and reports nothing.

### Fairness

* Lock: every running process takes its next step (the operating system schedules it);
  its replace does not fail for ever (a reader holds the file open only briefly);
  the lane is started again by its guard; an operator clears a file that never got a body.
  A process that is killed for good and never acquires again owes nothing.
* Lane: its guard keeps it alive and retry times pass (weak fairness). A step tried
  again and again does not fail, and the lane does not die, every time (strong fairness
  of the steps of `merge_cube` and `serve_owed_cube`). The code has no more to offer: a
  publish that fails for ever is never served, and a check that refuses for ever is
  what the quarantine is for, which `EveryReleaseSettles` counts as settled.

* Catalogue: a sync that was started proceeds (weak fairness of its steps: the process runs),
  the scheduled workflow syncs the queue again and again (strong fairness of `SyncQueue` without
  flags), and the outages and kills that end a sync early are over one day (`<>[][~Stop]`).
  The last is what an operator has to see to: a database that never answers is never
  synchronised. `QueuedIsShown` asks nothing about how often ids are queued or sources are sent;
  an id queued after the read of the queue that is then emptied is excepted.

No other module states liveness.

## 4. The proofs

All are for any number of processes, machines, series, cubes, revisions and rows. Every safety
invariant and every action property that a passing run checks is proved, and so are both refinements.

* **WriterLock.** The inductive invariant is `LockInv`: types, whoever is inside
  `acquire` is alive, the file names each holder, a process that writes its body is the only
  one and the file is still empty, and while there is a racer nobody holds the lock. The last part
  is what `NoLateReplace` and `PauseCovers`, the theorems' assumptions, keep true. `MutualExclusionHolds`,
  `HolderIsNamedHolds` and `ReleaseOnlyOwnHolds` follow.
* **StateSync.** `NoForeignLogHolds` needs no assumption: `LogInv` adds that nobody has the
  database open between a set-aside and the replace, and that no log is left at the
  replace. `EtagIsCovered` alone is not inductive: the invariant adds what the
  step in flight has read (`seen`, `body`) and that the snapshot covers the ETag it will be
  put against. From it (`SyncInv`) follows `NoLostUpdateHolds`; and `RoundTripImplementsRegister` maps each
  step to a step of `StateRegister` or a stutter. These three assume `~MayLose` and `~MayStopHalf`.
  `NoWipeHolds` assumes nothing: `WipeInv` says that a push outside `unvouched` whose PUT names a
  substantial object has a substantial database until its snapshot, and then a substantial
  snapshot. It needs that runs are finite (`FiniteRuns`), since a recorded size is a cardinality.
* **BackupRetention.** What has been deleted, or is about to be, is outlived by at least
  `Keep` newer keys among all ever written; the number only grows (`NewerGrows`). Its type
  invariant is `BackupTypeCorrect`. `RetentionBoundsHolds`: what a retention listed and need not
  delete any more is gone or was not to be pruned (`BoundsInv`, which needs that a machine never
  writes a key twice), and of a finite set of keys at most `Keep` have fewer than `Keep` newer
  ones (`FewAreNewest`).
* **UnitRun.** `TypeCorrect`. `WorkerHoldsLease` gives `OneRunPerUnitHolds`, assuming
  that no lease expires under a living owner. `VintageInv` says that every vintage on its
  way to the record (read, probed, recorded) is covered by the store or, before the
  merge, by the publisher; it needs no assumption about leases, so an expired lease
  cannot break it. `VintageIsEarnedHolds` follows. `LeaseKeptByOthersHolds` needs the types only.
  `StaleHasHomeHolds` has two invariants, one for each way a stale CSV is found again. For a
  fetcher that reports every row ("parsed"), whatever dies and even if leases run out: a vintage
  that names the rows of a stale CSV without a home is neither on record, nor read by a run, nor
  on its way to the record (`HomeInv`; a stale CSV is then fetched again). For "measured" the
  next fetch need not name the series, so the record is no help; `OwedInv` is about a
  desktop-owed source whose processes live. Each hypothesis is needed: without `DesktopOwed` TLC
  finds `UnitRunMeasured.cfg`'s counterexample, with `MayDie` added to `UnitRunOwed.cfg` a kill
  between merge and booking, the fence queues nothing elsewhere, and "net" fails by
  `UnitRunNet.cfg`.
* **StatcanLane.** `LaneInv` (types, one cube at work, failure counts below the limit, a
  quarantine is for the release enumerated last) holds for the lane alone and beside the tool.
  On top of it, for the lane alone: `QuarantineIsCurrentHolds`
  (not beside the tool, whose hand-over may leave the flag on a cube it records as merged), and
  `StoreInv` with `MergedIsInStoreHolds`: releases recorded never run ahead of those out, later
  releases have later tables, and what was downloaded is at least the enumerated release's.
  `LooksServedIsServedHolds`: `ServedInv` says of a cube with no merge in flight that a merge
  which changes no value leaves nothing to serve (`Settled`: the CSVs are the store's, or a serve is
  owed, or the cube is `assumed`), of one in flight that no merge is owed for that it was handed over
  (`Fine`), and of the merge under way why its cube may be recorded without a serve (`Stand`).
  None of these assumes anything about the releases.
* **StatcanNewCubes.** `CatalogueBackedHolds`: from the receipt "served" on, the store has the
  cube's object and every part of it has a CSV of the store's (`ReceiptInv`), and the
  catalogue lists nothing else (`BackedInv`). `NewInv` (the lane waits while the tool works)
  gives `TypeCorrectNew` and `NewCubeIsListedHolds`. `LooksServedBesideTheTool`
  adds to `ServedInv` what each receipt stage says (`Tooled`): a cube the tool has begun
  stays listed until the hand-over, and at the hand-over its CSVs are the store's unless
  the lane has a merge of it in flight, which makes it `assumed`.
* **CatalogSync.** `JobInv` ties what a sync decided to the stage it is in. `BareInv` (a bare
  INSERT meets no row of its series) gives `SyncIndexOnce`, without assumptions. `FtsInv` and
  `RowInv` give `SyncManifestIsHonest`, assuming `~Reverts`: a title is forgotten before its index
  row is touched, and a recorded revision is at most D1's, which is at most the
  catalogue's. `OweInv` gives `SyncForgetsNothing`, assuming `~Reverts`:
  what a sync took is up to date, queued again or `unread`, the sync that empties the queue took
  all of it that is neither recorded nor `unread` (`Fresh`), and what is recorded as it is now
  is indexed and counted unless a seed vouched for it (`SentIndexed`, `SentCounted`).
* **Swap.** `JobInv`: one swap at a time, and a swap past its flip works on the active target.
  `Given` and `NewInv`: the generation being built is nobody else's. `ServedInv`: what is served
  and what was served before are recorded where their folders are, so pruning spares them, and a
  `--stop` under way is not about to stop what is served now. `SwapTypeCorrect`, `SwapActiveServes` and
  `SwapKeptForRollback` assume `~Interrupts`; `SwapCutsNothingOff` assumes `SettleCovers` as
  well and adds `DrainInv`: a drained instance has no request.
* **MergeWrite.** `MergeChunksDoNotMatter`, for any tables, batches and settings: what was kept
  and marked as changed up to `cut` is what the merge in memory would keep and mark there, and
  a run of the sorted rows ends at `cut` (`Stands`). `MergeImplementsContract` says what that
  merge is worth. `InOrderFacts`: ordering a finite set by rank enumerates it, each element
  once and in order (the ranks of a strict total order are an injection into `0..n-1`, hence
  onto it; that replaces an induction). So `Sorted` has each row once (`SortedMerges`), a run is
  exactly the rows of one key (`RunOfKept`), its kept row is the last new row of the key or else
  the last stored one (`KeptValue`), and the seam of stored and new rows tells whether it
  differs from what the table serves (`ChangedValue`). Hence what is published serves the overlay
  (`WrittenServes`) and the report is exact (`ReportIsExact`): also for tables with several rows of
  one key and for null dates. `Phases` ties the call's variables to its phase and gives
  `MergeTypeCorrect`. The only assumptions are on the constants (`MergeAssumption`).

Only model-checked: the three liveness properties `StaleIsReclaimed`, `EveryReleaseSettles` and
`QueuedIsShown` (fairness and ENABLED are out of the prover's reach). The properties
that only a refuting configuration of section 3 names are no theorems.
No module uses a RECURSIVE operator.

## 5. Not modelled, and the plan

Not modelled because they are I/O, formatting or read-only: fetchers and connectors, the
CSV writer, the blob stores' HTTP, bulk exports, the registry, health reports,
the API, clients and site, and operator tools.

What is left, in this order:

1. `Scheduling`: `order_units`, `admission_reserve`, the start gate and the window-stop
   streak; no unit starves.
2. `StateMigration`: migrations with their marks, and a crash between the two.
3. The cutover around T0.
4. Composition: the unit run with the queue of `CatalogSync` instead of ids that
   appear by themselves, and with `MergeContract`, which the merge is proved to implement, as
   its merge.
