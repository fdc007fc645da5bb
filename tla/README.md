# phlo: verification project

TLA+ modules, TLC configurations and TLAPS proofs for phlo, a lakehouse
framework in Python. The core of the project is Write-Audit-Publish (WAP): a
pipeline run writes to a branch of a versioned catalog, its asset checks audit
the branch, and a sensor publishes the branch to an environment's target ref if
the audit passed. WAP is where phlo is a distributed protocol: four processes,
no common lock, a catalog behind HTTP and one JSON file per run. Around it are
its second strategy (releases of table snapshots through a ledger), the backfill
that launches WAP runs one after the other, and the durable journal under
upgrades, restores, backups and table maintenance.

## 1. The system

### Components

| Component | Source | State it keeps | Operations | Status |
|---|---|---|---|---|
| WAP launch | `phlo_dagster/wap_launch.py`, `cli_materialize.py` | immutable manifests, one report file per run | prepare, seal, submit, register | modelled, except `cleanup_if_created`, which no normal caller invokes |
| WAP run and audit binding | `wap_launch.py` | Dagster run, check records | `verify_wap_execution`, `bind_wap_audit` | modelled |
| WAP branch promotion | `wap_sensors.py` | report, run tag | `wap_auto_promotion_sensor` | modelled |
| WAP branch cleanup | `wap_sensors.py` | report | `wap_branch_cleanup_sensor` | modelled |
| Promotion scan window | `wap_sensors.py` | sensor cursor | one tick | modelled |
| Nessie client | `phlo_nessie/resource.py` | refs (in Nessie) | conditional assign, delete, create, ancestry | modelled as WAP uses it |
| WAP context | `wap_context.py` | none | validation | a nondeterministic verdict in the model |
| WAP snapshot strategy | `phlo_polaris/promotion.py`, `wap_sensors.py`, `wap_launch.py` | release ledger, candidate branches, publication lock, reports | stage, merge rows, promote, abort, prune; launch, promotion and candidate cleanup sensors; helpers | modelled |
| Backfill CLI | `phlo_dagster/cli_backfill.py` | state file, futures | start, resume, WAP loop, thread pool | modelled |
| Operation journal, upgrade, backup, restore, maintenance | `phlo/operations/`, maintenance in `phlo_dagster` and `phlo_iceberg` | one JSON record per operation | claim, submit, call providers, complete, replay, reconcile | partly: the file journal and the protocol around it |
| Run evidence | `phlo/run_evidence/` | append-only SQL rows | record, reconcile | not modelled |
| Sealed audit chain | `phlo/compliance/audit/` | hash chain | append, verify | not modelled |
| Hook bus | `phlo/hooks/bus.py` | registrations | discover, emit | not modelled |
| Migration executor | `phlo/migrations/executor.py` | target table | chunked copy | not modelled |
| API operation controls, branch workflows, staging | `phlo_api/api/` | SQL rows | idempotency claims | not modelled |
| Incidents, lineage, alerting | several packages | SQL rows, sinks | record, notify | not modelled: sinks of events |
| Ingestion and transformation engines | dlt, Iceberg, Delta, dbt packages | tables | writes | appear as commits on a branch |
| Capabilities, plugins, services, core CLI, RBAC, identity, UI | `phlo/`, `apps/` | configuration | composition, rendering | not modelled: sequential, no shared protocol state |

### How the WAP components interact

    launcher (phlo materialize --wap)             other writers of the target
      |  create branch, seal base, submit, register          |
      v                                                      v
    Dagster run --- commits, checks ---> Nessie: target, branches
      |  status, check records               ^            ^
      v                                      | PUT CAS    | DELETE CAS
    wap_auto_promotion_sensor ---------------+------------+
      |  intent, receipt, checkpoint, terminal report     |
      v                                                   |
    .phlo/wap-reports/<run>.json <---- wap_branch_cleanup_sensor

* The launcher captures the target hash (*base*), creates the branch there,
  stores an immutable manifest, submits through GraphQL and registers the
  physical run ID that came back. It never rolls the branch back.
* The run waits at most 30 s for its registration, then commits on its branch
  and evaluates checks. Under `wap.require_candidate_bound_checks` each check
  records the branch hash it saw.
* The promotion sensor looks at terminal runs in a window behind its cursor. It
  writes an intent, publishes by a fast-forward PUT conditional on base, writes
  a receipt, drops the query catalog, deletes the branch conditional on the
  published hash, checkpoints the deletion, reconciles evidence, writes the
  terminal report and tags the run.
* The cleanup sensor deletes branches older than 24 h whose run is terminal,
  except under review or with an unacknowledged intent.
* Both sensors run in threads of one daemon (`dagster.yaml`, `use_threads`).
  They share the report, which `write_wap_report` reads, merges and replaces
  without a lock.

What is hard here: the two halves of each report update interleave with the
other processes; every call may fail, crash or lose its answer; a PUT may land
after its sender gave up; a failed read looks like an absent object; a run may
be re-executed with copied tags; and a branch may be written after its audit.

### The snapshot strategy

    assets of a run: create_candidate, merge_rows_into_candidate
           |                                   other writers of main
           v                                        |
    Iceberg tables: main, one candidate branch per run and table
           ^                                        ^
           | overwrite (conditional on snapshot)    | drop branches
    promote_candidates                     abort / prune_candidates
      sensor, helpers, Kafka assets          sensor, cleanup sensor, operators
           |  rows, conditional on the version read |
           v                                        v
    release ledger: candidates, pending promotions, releases, revision

A release takes a PostgreSQL advisory lock, reads the ledger, prepares every
table, appends its pending rows, overwrites main table by table, appends one
receipt for all tables and drops the branches. The lock belongs to a separate
connection: if that is lost, the publisher goes on beside the next one. Abort
and prune look for pending promotions and drop branches *without* the lock. The
promotion sensor writes `merge_started` before its call and, after a crash,
infers from the release pointer whether its own release took place. The
candidate cleanup sensor rewrites reports beside it. Tables cannot be
overwritten together, so what makes a release atomic for its readers is the
ledger; what makes it safe is the order of these steps.

### Backfills

`phlo backfill` takes a list of partitions, as given, and either launches one
WAP run after the other, waiting for each promotion receipt, or runs container
commands in a thread pool. It rewrites a state file after each partition, in
place. It can be interrupted, killed, time out and fail at every step;
`--resume` starts from the file. The runs go on meanwhile, as do the promotion
sensor, the cleanup sensors that overwrite report statuses, and container
commands whose client is gone.

### Operations

Upgrade, restore, backup and maintenance share a protocol: look into the
journal for a result to replay, validate, claim, mark submitted, call the
providers in order, reconcile, store the result. CLI invocations, API requests
and Dagster runs do this as separate processes over one directory of records.
What is hard is a process that dies in the middle, and a second process with the
same operation or with a rival one.

`PROJECT.json` lists the hazards at their lines, with the properties that
would catch each going wrong.

## 2. Modules

| Module | Models |
|---|---|
| `NessieRefs` | hashes as first-parent histories; ancestry; conditional assign and delete |
| `WapPublication` | the abstract promise about the target: seal, decide once, publish an approved descendant of the sealed state |
| `WapState` | shared state, records, how files and hashes are read and replaced, initial state |
| `WapLaunch` | the launcher process |
| `WapRun` | the Dagster run, its checks, and its surroundings (foreign commits, late writers, re-execution, retention) |
| `WapPromotion` | the promotion sensor |
| `WapCleanup` | the cleanup sensor |
| `WapBranch` | their composition, fairness, properties, refinement to `WapPublication` |
| `PromotionCursor` | which terminal runs the promotion sensor ever looks at |
| `SnapshotRelease` | ledger, candidate branches and main; promote, abort and prune, every commit a step |
| `SnapshotWap` | launcher, promotion sensor, cleanup sensor and helpers around `SnapshotRelease`; properties, refinement to `WapPublication` |
| `BackfillState` | the state file, starting and resuming |
| `BackfillWap` | the WAP loop, and what the runs and sensors do meanwhile |
| `BackfillPool` | the thread pool and the commands in the container |
| `Backfill` | their composition, fairness, properties |
| `OperationPromise` | the abstract promise: undertaken at most once, never beside an undecided rival, outcome final |
| `OperationJournal` | the file journal: claim, transition, completion, reconciliation |
| `Continuity` | the processes that apply operations over it; properties, refinement to `OperationPromise` |
| `MCWapBranch`, `MCSnapshotWap`, `MCBackfill`, `MCContinuity` | instances for TLC |
| `WapTypeProofs` | types of `WapBranch`, and the lemmas about ancestry |
| `WapSafetyProofs` | what `WapBranch` publishes, and the refinement of `WapPublication` |
| `WapReceiptProofs` | its reports, and the branches and query catalogs that are deleted |
| `SnapshotTypeProofs`, `SnapshotProofs` | theorems about `SnapshotWap`, with its refinement of `WapPublication` |
| `PromotionCursorProofs`, `BackfillProofs`, `ContinuityProofs` | theorems about the module they are named after |

### Correspondence of state

| Variable | Code |
|---|---|
| `target`, `head` | the refs `get_branch_hash` reads; a hash *is* its history, so equal hashes are equal histories and ancestry is prefix |
| `queryCat` | the per-ref query catalog (`drop_ref_query_catalog`) |
| `launch`, `base` | where the launcher is; `launch_target_hash_before` in the sealed manifest |
| `run`, `clone` | Dagster status of the registered run and of a re-execution with its tags |
| `checks`, `audit` | asset check evaluations with `phlo/wap_candidate`; the hash held by a running `bind_wap_audit` |
| `report` | the fields of the report file some later step reads: registration, `merge_state`, `source_hash`, `review_required`, `source_deleted`, and whether `status` is `promoted` |
| `tagged` | runs with `phlo/wap_promoted` |
| `aged` | runs whose branch is older than the retention period |
| `promo`, `sweep` | program counters and locals of the sensors; `promo.out` is a payload that was read and merged, but not yet replaced |
| `inflight` | PUT requests whose sender gave up and that Nessie may still execute |
| `published` | history variable: the publications that took effect |

Snapshot strategy:

| Variable | Code |
|---|---|
| `main`, `ref` | current snapshot of each table with its release properties; tip of each candidate branch. A branch tip is the snapshot it started from and the rows on it |
| `cand`, `intent`, `releases`, `revision` | the ledger: latest candidate row, pending promotion rows, release and state rows, largest revision |
| `current` | publishers whose ledger version is still the latest (`append_if_unchanged`) |
| `lock` | holder of the advisory lock |
| `stage`, `work`, `jan` | `create_candidate`, `promote_candidates`, `abort_candidates`/`prune_candidates` in progress, with their locals |
| `seal` | the release revision in the launch manifest, which is never rewritten |
| `rep`, `promoted`, `tick`, `cleaner` | report fields a later step reads, run tags, an evaluation of the promotion sensor, a report the cleanup sensor has read |
| `verdict` | outcome of the run and of its blocking checks |
| `aged`, `lost`, `events` | history: runs the cleanup sensor has touched; runs whose report a write replaced because it could not be read; faults and outside steps so far |

Backfill and operations:

| Variable | Code |
|---|---|
| `asked` | the list of partitions, as the set of its positions (`Entries`); `DateOf` gives their dates, and two positions may have the same one |
| `file` | the state file (absent, saved, torn): remaining entries, completed dates, run in flight per date |
| `pc`, `mem`, `cur`, `polls` (`Backfill`) | the CLI process: what it knows (`left` is what the loop has not passed of `remaining`), its entry, failed polls in a row |
| `launches`, `run` | WAP runs per partition, their Dagster status and report status |
| `worker`, `orphan` | futures of the pool; container commands nobody waits for |
| `abandoned`, `made` | history: runs no state file will mention again; partitions whose command exited with 0 |
| `record`, `result` | journal record state and stored result per operation |
| `pc`, `op`, `step`, `out` (`Continuity`) | a process that applies an operation |
| `filled` | target directories that are not empty |
| `calls` | history: how often each provider step was called |

### Correspondence of actions

An action is the code between two calls that leave the process. In
`WapPromotion`, `Scan...` are the early returns of `_promote_terminal_run` and
`_promote_validated_run` in their order, `Decide...` the branches of
`_promote_branch` before the catalog call, `Merge...` and `Put...` are
`merge_branch` with `_publish_fast_forward`, and `Clean...`, `Reconciled` and
`TagPromoted` are `_finish_branch_promotion` and `_finalize_wap_promotion`. A
report write is two steps: one reads and merges, `PromoReplace` replaces.
`AfterWrite` says where a write that returned True leads. A replacement is
*done*, *lost*, or *partial*: replaced, but the evidence snapshot failed, so
that the caller sees False. An exception or a dying daemon is `PromoAbort`.

Two outcomes of the code are choices in the model: whether the live context
still matches the sealed one, and whether the quality decision, the governance
settings and the reconciliation are available. Failure reasons, observations,
metadata and logging are left out, as are status values no reader tells apart.
The launcher's own report updates are single steps, because until the run is
registered the sensors change no field but the status.

In `SnapshotRelease`, `Begin` to `DropReleased` are `promote_candidates` from the
lock to the dropped branches, `Stage...` is `create_candidate`, and `Sweep`,
`DropCandidate`, `CloseCandidates` are the two ways to discard candidates.
`SnapshotWap` adds the sensor around them (`Tick...` is
`_advance_snapshot_promotion` in its order) and says where the end of a call
leaves an evaluation (`AfterCall`, `AfterRaise`, `AfterSweep`). Row contents are
the run that wrote them, since `merge_rows_into_candidate` deduplicates by key.
Every report write of the sensor starts from `ReadBack` and ends in `Store`: a
file that cannot be read counts as empty, and the write then replaces it
(`wap_launch.py:152-155`). The writes that matter only for that are `TickNoted`
(the early returns), `TickChecksFailed`, which also overwrites
`target_hash_before` (`wap_sensors.py:1736`), `TickFailed` and `TickRefused`
(`promotion_failed`, 978).

In `BackfillWap` an action is the code up to the next save or external call;
each save may leave a torn file, after which the process is gone. What remains
is computed once (`cli_backfill.py:404`, 734 for the pool) and then gone through
(425), so a date the list repeats is launched once per entry. A run that is
being canceled counts as ended (571), although it may still succeed (`Cancel`,
`RunEnds`). The sensors and the cleanup appear only through the report status
they leave.

In `Continuity`, claim, transition and read are atomic, as the journal takes a
lock around each. Provider calls are two steps, `Call` and what came back, so
that a process can die with the call done and nothing recorded. Plans,
manifests, content hashes, tokens and expiry only decide whether `Validate`
refuses. An operation is what shares one operation ID: a plan for the CLI and
the API, a run for the Dagster jobs (`maintenance_sensor.py:186`,
`iceberg_maintenance.py:105`). Maintenance has three action names, which a claim
compares as strings: `compact`, `snapshot_expiry` and, for the Dagster job,
`expire_snapshots`.

Operators under a comment "Seeded defect" are not part of the model. Each is a
plausible mistake in the definition below it, used to confirm that a property
can fail; `PROJECT.json` pairs them with the properties.

## 3. What the runs check

| Run | Instance | Shows |
|---|---|---|
| `wap_race` | 2 runs, foreign writer, unbound checks | `OneWinnerPerBase`, `TargetOnlyAdvances`, `ImplementsPublication` |
| `wap_lifecycle` | 1 run, strict binding, retention, re-execution, late writers, unreadable reports and refs | `TypeOK`, `AuditedPublication`, `ReceiptsAreTruthful`, `NoActiveBranchDeleted`, `PromotionKeepsUnpublished` |
| `wap_settles` | 1 run, review switch, fairness | `IntentBeforePublication`, `IntentRetainsBranch`, `NoOrphanQueryCatalog`, `PromotedBranchIsGone`, `ReceiptSurvives`, `AuditedRunSettles` |
| `cursor` | 1 run, late rows, dying ticks, fairness | `TypeOK`, `NoRunSkipped`, `EveryRunEvaluated` |
| `snapshot_release` | a run of the sensor on 2 tables, a run of a helper on one of them, a foreign writer, 2 faults or outside steps | `SnapTypeOK`, `UnfinishedReleaseIsOwned`, `ReleasedRowsArePublic`, `OutboxBeforeIntent`, `MergedIsReleased`, `RowsNeverLost`, `ImplementsPublication` |
| `backfill` | 2 partitions, lists of up to 3 entries with and without a repeated date, 3 launches, both modes, every interruption, canceled runs, fairness | `BackfillTypeOK`, `CompletedDelivered`, `FileCoversPlan`, `OneRunPerPartition`, `SerializedPromotion`, `RemovedWhenDelivered`, `InvocationEnds` |
| `continuity` | 2 processes; upgrade, backup, two rival snapshot expiries | `JournalTypeOK`, `StepsRunOnce`, `SubmittedBeforeSteps`, `ExclusiveClaim`, `RecoveryFitsProgress`, `ImplementsPromise` |
| `intent_discarded` | retention, no other fault | `IntentRetainsBranch` is violated |
| `replay_deletes` | late writer, unreadable check records | `PromotionKeepsUnpublished` is violated |
| `cursor_pending` | 1 run, retry fairness | `PendingIsRetried` is violated |
| `snapshot_abort` | 2 runs of helpers, a janitor | `DroppedNeverPromoted` is violated |
| `continuity_conflict` | 2 processes; an upgrade and a restore of one deployment | `OneOperationPerTarget` is violated |

In words: a WAP run publishes only what its audit saw, on the state it was
sealed on, once; reports may be lost but never lie; no terminal run is
overlooked. A snapshot release never removes a row from main, keeps other
releases out until it is finished, and its receipt means that every table was
published; the sensor keeps the same abstract promise `WapPublication` as the
branch strategy. A backfill records nothing as completed that was not delivered,
loses no partition, owns one run per partition unless its list repeats the date,
and one unpublished run at a time unless it repeats any, and every invocation
ends. No provider step of an operation runs twice, none before the journal says
so, and a prescribed recovery fits what was called.

### Where the code and its documents disagree

* **`intent_discarded`.** The cleanup sensor reads the report at
  `wap_sensors.py:1392` and deletes at 1407. An intent written in between by
  the promotion sensor does not retain the branch, although line 1280 promises
  it. If the PUT then fails, the branch that is gone was the only copy.
* **`replay_deletes`.** A merged run is still scanned until it is tagged. If
  its check records cannot be read once, `asset_checks_failed` replaces the
  pinned `source_hash` by the branch's present hash (line 1740). The next
  replay deletes the branch at that hash, even if it has been written again
  since, against `docs/concepts/write-audit-publish.md:114`.
* **`cursor_pending`.** A run is in the window only while its update stamp is
  less than five minutes behind the cursor, and the cursor always moves. "The
  caller retries on a later tick" (line 1082) holds for five minutes only.
* **`snapshot_abort`.** `abort_candidates` checks for a pending promotion
  (`promotion.py:673`) and drops the branches (677-682) without the lock. A
  release that has prepared a table keeps the snapshot ID and overwrites main
  with it afterwards (580-588), although line 671 says of dropped candidates:
  "they can never promote."
* **`continuity_conflict`.** A claim is refused only beside an active record of
  the same action *and* target (`journal_store.py:120`); an upgrade and a
  restore of one deployment run together, and so do a `snapshot_expiry` of the
  CLI and an `expire_snapshots` of Dagster on one table. ADR 0049:37:
  "Conflicting concurrent operations on the same target are rejected."

Smaller disagreements and gaps met while reading, which no run turns on:

* `cli_backfill.py:477-479` gives as the reason for saving at once that a crash
  must not lead to a duplicate run. Between the registration (461) and the save
  (480) it still can.
* `--partitions d,d` keeps both entries (`cli_backfill.py:315`); the second is
  launched after the first was promoted (404, 425) and publishes the partition
  again.
* A run in `CANCELING` is taken for ended (`cli_backfill.py:571`) and its
  partition launched again, while it may still succeed and be promoted.
* A claim passes over records it cannot read (`journal_store.py:173-177`), a
  rival's too.
* ADR 0049:37 says that a crash before submission releases the claim and a later
  one leaves an unknown outcome. The records stay `claimed` or `submitted`, and
  nothing in the repository releases them.
* A provider that *raises* after the rollback boundary of an upgrade stores
  neither a restore nor a forward repair (`upgrade.py:362`), unlike one that
  reports a failure (334-361).
* `restore.py:125` finds the target empty before the claim is taken and does not
  look again.
* A cleanup sensor overwrites the report status that a backfill waits for
  (`wap_sensors.py:1415`); a resumed wait then ends by its deadline only.
* `reconcile_unknown` does not check that the outcome is unknown
  (`journal.py:195`). Nothing in the repository calls it except tests; the model
  lets operators settle unknown outcomes only.

### What holds only under a restriction

* `ReceiptSurvives`, `IntentBeforePublication` and `IntentRetainsBranch` are
  checked and proved for runs within their retention period (the first two with
  readable reports). Beyond it the cleanup sensor replaces reports from reads
  that precede the promotion sensor's writes, so an intent or an acknowledged
  receipt can be lost. What does survive everything is `ReceiptsAreTruthful`: a
  record may vanish, but none is invented. In `wap_settles` no run outlives its
  retention, so the cleanup sensor never acts there: that run is about the
  promotion sensor's own order. The two sensors meet in `wap_lifecycle` and in
  `intent_discarded`, and in the `Young...` theorems.
* `AuditedRunSettles` promises something only to a run that is accepted again and
  again: one that stays in the scan window of `PromotionCursor` and that the
  governance, evidence and context gates let through. The code guarantees
  neither, which is why the condition is part of the formula.
* `PromotedBranchIsGone` is checked where refs are readable: `_branch_hash`
  returns None for a failed read as well, which a replay takes for a finished
  deletion. Its run also leaves out late writers, for the sake of
  `AuditedRunSettles`: a branch written after its publication is retained by
  design and never settles. The theorem allows them.
* `OutboxBeforeIntent` exempts two kinds of runs. Those the cleanup sensor has
  touched (`aged`): beyond retention it may write back a report it read before
  the outbox. And those whose report was replaced because it could not be read
  (`lost`): the `promotion_failed` write (`wap_sensors.py:978`) then erases
  `merge_started` although the ledger has pending rows, and the next evaluation
  does not know that it has to find out. `MergedIsReleased` and the refinement
  have no exemption.
* Releases here cover all tables of a run under the run's own ID, as the sensor
  and the helpers call it. A caller that released tables of one run in several
  calls is not modelled.
* Nothing is claimed of a release's *completion*: a pending promotion whose main,
  branch or candidate changed in the meantime can neither be resumed nor
  aborted, and blocks other releases until somebody repairs the ledger. No
  document promises otherwise; the hazard is listed.
* `OneRunPerPartition` and `SerializedPromotion` exempt runs the backfill has
  given up (`abandoned`): taken for ended, which a canceled run need not be,
  superseded by a new backfill, or lost between registration and save. They also
  say nothing of repeated dates: the first is about a date that its list names
  once (`Once`), the second, and the last part of `FileCoversPlan`, about a list
  without repetition (`Distinct`).
* The properties of `Continuity` assume that the records of the journal are
  readable.
* `PromotionKeepsUnpublished` holds with unreadable reports and refs and with
  late writers, as long as check records are readable; without late writers it
  needs no condition.

### Bounds

`MaxTarget` bounds the length of the target history for foreign commits: 3
leaves room for a foreign commit before a launch, between launch and merge, and
after a publication. `MaxWrites` bounds a run's commits on its branch: 2 gives
a branch that differs from its base and a branch that moved after a check or
after the publication. `MaxChecks` is 1: a second evaluation only adds a
conjunct to the same quantifier. Two runs suffice for the race, since
every conflict is between a publication and one other change of the target;
they are interchangeable and no constant tells them apart, so symmetry is sound
(and is used in no run with a liveness property). `wap_race` offers only
failing check outcomes because a run without checks already passes.
`intent_discarded` and `replay_deletes` switch on only what their
counterexample needs. In `PromotionCursor` the rewind and the cold start are two
instants, the visibility lag one and the clock five, so that a run can leave
the window, become visible late, and fall before the first window. One run is
enough there: runs share nothing but the cursor, and `CursorSkipsNoRun` is
proved for any number of them.

`snapshot_release` needs two runs and two tables that overlap in one: a release
that is half written, and a second one that meets it. `MaxCreated` is 1, so a
discarded candidate is not opened again; `MaxEvents` is 2 (1 in
`snapshot_abort`), so any two of a fault, a sweep, a review or a foreign commit
combine, such as a lost lock and a foreign commit. The proofs have neither
bound. `backfill` has five lists: one date, both in either order, one date
twice, and one before and after the other. It allows three launches over all
invocations for two partitions: a partition can fail and be launched again
beside the other one, or be repeated; two failed polls instead of five end a
wait, and one future runs at a time, so that one is queued while another runs.
In `continuity`, an upgrade has three steps, so that it can stop at, right after
and well after the rollback boundary; the others have two or one. All operations
share one target, since different targets never meet. The two snapshot expiries
are interchangeable, as are the workers; maintenance operations of different
names would be like the upgrade and the backup, which are no rivals. The restore
appears in `continuity_conflict` and, like the full pipelines, in the proofs.

Deadlock is not checked where the system stops by design: launchers end, runs
terminate, a system whose runs are all settled stops, and clocks, launches and
events are bounded. It is checked in `continuity` and `continuity_conflict`.

### Fairness

`FairSpec` of `WapBranch` assumes that the daemon keeps evaluating the
promotion sensor (weak fairness of its steps) and that a call tried again and
again is not refused for ever (strong fairness of the successful outcome of
each call on the path). Nothing is assumed of launchers, runs, the cleanup
sensor, lost acknowledgements, or the write of the receipt, which is attempted
once. `AuditedRunSettles` therefore ends in three ways: promoted and tagged,
overtaken by another commit before publishing, or `merge_started`, an unknown
outcome the code leaves to an operator. That a run is accepted again and again
is no fairness of the code and none is assumed of `ScanAccepted`: it is the
hypothesis of the formula. `PromotionCursor` shows what the code guarantees of
it: one evaluation (`EveryRunEvaluated`), but not a retry of a run that was
pending for longer than the window (`PendingIsRetried`). The three results belong
together.

`FairSpec` of `Backfill` assumes that a running process takes its next step,
that the monotonic deadline of a wait passes, and that a command is given up
after its hour. Users, the sensors, Dagster and the container may do nothing
for ever, and still every invocation ends.

`FairSpec` of `PromotionCursor` assumes that ticks keep starting and that not
every tick dies. `RetrySpec` adds that an evaluation repeated for ever
eventually succeeds.

## 4. What is proved

All theorems hold for every number of runs, every bound and every set of faults,
under the assumptions on the constants: `ConstantsAssumption` (types, and the
foreign writer is not a run), `CursorAssumption` (the visibility lag is shorter
than the rewind), `SnapshotConstants` and `SnapshotWapConstants` (types, `None`
is no run or publisher, the sensor is a publisher and a janitor),
`BackfillConstants` (dates and entries are finite sets, entries are positive
numbers, 0 being "none", each with a date; a wait gives up after at least one
failed poll), `JournalConstants` and `WorkerConstants` (every operation has an
action and a target, pipelines have one to five steps).

| Theorem | Statement |
|---|---|
| `WapTypeProofs!TypeCorrect` | `Spec => []TypeOK` |
| `WapSafetyProofs!PublicationIsAudited` | `Spec => []AuditedPublication` |
| `WapSafetyProofs!OneRunWins` | `Spec => []OneWinnerPerBase` |
| `WapSafetyProofs!TargetAdvances` | `Spec => TargetOnlyAdvances` |
| `WapReceiptProofs!ReportsTellTheTruth` | `Spec => []ReceiptsAreTruthful` |
| `WapReceiptProofs!ActiveBranchesStay` | `Spec => []NoActiveBranchDeleted` |
| `WapReceiptProofs!PromotedLeavesNoBranch` | `Spec => []PromotedBranchIsGone`, if refs are readable |
| `WapReceiptProofs!QuietCatalogsHaveBranches`, `CatalogsHaveBranches` | `NoOrphanQueryCatalog` for runs without late writers |
| `WapReceiptProofs!YoungIntentsRetainBranches`, `IntentsRetainBranches` | `IntentRetainsBranch` for runs within their retention |
| `WapReceiptProofs!YoungPublicationsWereIntended`, `PublicationsWereIntended` | `IntentBeforePublication` for runs within their retention, if reports are readable |
| `WapReceiptProofs!YoungReceiptsSurvive`, `ReceiptsSurvive` | `ReceiptSurvives` for runs within their retention, if reports are readable |
| `WapReceiptProofs!QuietDeletionsArePublished` | `PromotionKeepsUnpublished` for runs without late writers |
| `WapReceiptProofs!PromotionDeletesPublished` | `Spec => PromotionKeepsUnpublished`, if check records are readable or no run has a late writer |
| `WapSafetyProofs!WapImplementsPublication` | `Spec => ImplementsPublication` |
| `PromotionCursorProofs!CursorTypeCorrect` | `Spec => []TypeOK` |
| `PromotionCursorProofs!CursorSkipsNoRun` | `Spec => []NoRunSkipped` |
| `SnapshotTypeProofs!SnapshotTyped` | `Spec => []SnapTypeOK` |
| `SnapshotProofs!MainKeepsItsRows` | `Spec => RowsNeverLost` |
| `SnapshotProofs!OneUnfinishedRelease` | `Spec => []UnfinishedReleaseIsOwned` |
| `SnapshotProofs!ReceiptsArePublic` | `Spec => []ReleasedRowsArePublic` |
| `SnapshotProofs!OutboxPrecedesIntent` | `Spec => []OutboxBeforeIntent`, which leaves out `aged` and `lost` runs |
| `SnapshotProofs!PromotedIsReleased` | `Spec => []MergedIsReleased` |
| `SnapshotProofs!SnapshotImplementsPublication` | `Spec => ImplementsPublication` |
| `BackfillProofs!BackfillInvariance` | `Spec => []BackfillInv`, the inductive invariant |
| `BackfillProofs!BackfillTypeCorrect` | `Spec => []BackfillTypeOK` |
| `BackfillProofs!CompletedIsDelivered` | `Spec => []CompletedDelivered` |
| `BackfillProofs!FilePartitions` | `Spec => []FileCoversPlan` |
| `BackfillProofs!OneRun` | `Spec => []OneRunPerPartition`, about dates their list names once |
| `BackfillProofs!Serialized` | `Spec => []SerializedPromotion`, about lists without repetition |
| `BackfillProofs!RemovalIsFinal` | `Spec => RemovedWhenDelivered` |
| `ContinuityProofs!JournalTypeCorrect` | `Spec => []JournalTypeOK` |
| `ContinuityProofs!StepsRunOnceEach` | `Spec => []StepsRunOnce` |
| `ContinuityProofs!NoStepBeforeSubmission` | `Spec => []SubmittedBeforeSteps` |
| `ContinuityProofs!ClaimsExclude` | `Spec => []ExclusiveClaim` |
| `ContinuityProofs!RecoveryIsSound` | `Spec => []RecoveryFitsProgress` |
| `ContinuityProofs!JournalKeepsPromise` | `Spec => ImplementsPromise` |

### The WAP core

The audit and the race rest on one inductive invariant, `IInv` of
`WapSafetyProofs`. The properties are not inductive by themselves, because the
sensor publishes in a later step than it decides in, and an abandoned PUT may
publish much later still. `IInv` therefore adds what ties the pieces together:

* `LaunchInv`: a run that registered or started has captured its base, and the
  target has a hash.
* `PromoInv`: what the sensor decided on stays true while it works. The run is
  approved, its strict checks are bound to the pinned source, and at the PUT
  the source is proved to descend from the base. The lemma behind it,
  `AuditIsFinal`, says that no step changes the checks of a terminal run.
* `InflightInv`: an abandoned PUT carries a source that was cleared, and
  `ClearedIsFinal` keeps it cleared until Nessie executes it.
* `TargetInv`: every published hash is an ancestor of the target, because the
  target only moves forward.

`OneWinnerPerBase` follows in `OneWinnerStep`: a second publication on one base
would find the target equal to the base, while the first publication is an
ancestor of the target and a proper descendant of the base; antisymmetry of
ancestry (`WapTypeProofs`) forbids it.

`ReportsTellTheTruth` follows a claim ("merged" or "promoted") through every
place it can be in: reports, tags, the report the promotion sensor started
from, and the payloads both sensors have read and not yet replaced. No file
needs to be intact for it: reading and replacing may fail or lose a claim, but
a claim is only made after the publication it names.

The other theorems of `WapReceiptProofs` follow a branch to its deletion.

* `ActiveBranchesStay` needs no condition: the promotion sensor deletes after an
  approved audit, the cleanup sensor after it saw a terminal status
  (`SweepsEndedRuns`), and a terminal status is final.
* `PromotedLeavesNoBranch` rests on `GoneInv`: a branch that is gone cannot come
  back once its launcher is past the creation. It needs readable refs, since a
  failed read of a branch hash counts as an absent branch.
* `QuietCatalogsHaveBranches`: between the drop of a query catalog and the
  deletion of the branch only a write could provision it again, and no run but
  one with a late writer writes then. Other runs may have late writers.
* The `Young...` theorems hold of every run while it is within its retention
  period, whatever the cleanup sensor does to older ones. `RetainInv` says that
  the branch of an unpublished run is there; `TrackInv` that a run is
  *intended* in its report from the moment a PUT was sent for it, in the
  report and in whatever the sensor has read of it, so that no step forgets the
  intent or the receipt. Their counterparts without `Young` state the
  properties of the runs, where no run outlives its retention.
* A deletion by the promotion sensor is justified in two ways. Without a late
  writer the branch still is what was published (`SettledInv`), whatever is
  unreadable. With one, the deletion is conditional on the hash in the receipt,
  and the receipt names what was published as long as check records are readable
  (`SourceInv`).

No condition is a convenience of the proof: TLC finds each of these properties
violated when its condition is dropped and the other faults stay possible.
`NoOrphanQueryCatalog` then fails for a late-written branch that is old or whose
check records cannot be read, `PromotionKeepsUnpublished` for a late-written
branch with unreadable check records, and the others by the fault or the age
alone. `intent_discarded` and `replay_deletes` keep two of those
counterexamples.

The refinement fixes a run's verdict when Dagster records its terminal status.
Each step then maps to sealing, deciding, publishing or a foreign commit of
`WapPublication`, or to a stutter.

`NoRunSkipped` rests on two facts about a tick: a run that is not yet visible
was stamped less than `MaxLag` ago, and a tick that has taken its batch leaves
nothing unseen behind except what is in the batch. Since `MaxLag < Rewind`, the
next window reaches behind everything that was invisible to this one.

### The snapshot strategy

The invariants of `SnapshotProofs` build on each other.

* `RowsInv` is about snapshot numbers and makes `RowsNeverLost` inductive. A
  branch that still starts at main's snapshot contains main's rows
  (`BranchRows`); the baselines of stagings and of running calls are never later
  than the branch they belong to (`StageBases`, `WorkBases`); hence a prepared
  table whose main has not moved loses nothing when it is replaced
  (`EntryRows`). Staging is three calls, so baseline, branch and revision are of
  different moments: the order of the numbers is what survives that.
* `OwnInv` shows who owns an unfinished release without using the lock, because
  the lock can be lost. A publisher whose ledger version is the latest knows that
  nothing is pending (`FreshInv`), so only one can append pending rows; a call
  that resumes has exactly those rows (`EntryInv`); main carries a release only
  with the tip its pending rows name (`MainInv`), and a receipt closes exactly
  the tables whose rows are public (`ReleaseInv`).
* `ReceiptInv` follows the sensor's outbox and receipt through its calls
  (`CallsInv`), its evaluation (`TickInv`) and the report the cleanup sensor is
  about to write back (`CleanerInv`).
* `PointerInv` shows that every revision of main belongs to one release. A
  receipt takes the number after the revision its call read; the argument is
  that a caller with the latest ledger version has the latest revision too.
  One call escapes it: the caller that reads the ledger again after its pending
  rows. Another publisher may have resumed and finished its release in between,
  and the call then has the latest version with an old revision. It is *outrun*:
  main has moved on in every table it is about to overwrite (`RaceInv`), so its
  conditional write is refused and it never reaches a receipt.
* `SealInv` ties an evaluation, a call and the cleanup sensor to the revision on
  which the run was sealed.

In the refinement the target of `WapPublication` is the sequence of releases, one
entry per revision, named for the run if it is one of the sensor's and for
another writer otherwise. A receipt is then a publication on the sealed revision
or a foreign commit; sealing and deciding are steps of the sensor's run; every
other step is a stutter. Together with `WapImplementsPublication`, both
strategies keep the same promise.

### Backfills

`BackfillInv` relates four records that are never written together: the state
file, the memory of the invocation, the runs and reports in Dagster, and the
futures of the pool. The checked properties are conjuncts of it, and none is
inductive alone.

* `LoopInv` and `MemInv`: entries go in order, and unless the list repeats a date
  only that of the first remaining one is ever in flight. This is what makes
  publication serial across a death: the resumed invocation meets the same first
  partition. With a repetition it fails: a date can be completed and ahead at
  once.
* `FileInv`: the same of what a resumption would read from the file.
* `OwnInv`: every run the backfill owns is known to the invocation *and* to the
  one that would resume it, as in flight or as completed, except the run being
  launched at this moment. A torn file or a death between registration and save
  is exactly the case in which a run becomes `abandoned`.
* `RunInv`: a promoted report belongs to a published run, which makes
  `CompletedDelivered` follow from what the poll read.
* `PoolInv`: without WAP, a remaining entry has one future until its result is
  collected, so a drained pool has handled the whole plan.
* `RoomInv` counts launches against the bound, so that the bound never stops an
  invocation halfway. It is about the model's bound and not about the code.

### Operations

`IInv` of `ContinuityProofs` adds to the checked invariants: one active record per
action and target (`ActiveInv`); a process that holds a claim is alone and its
record is in the state the process brought it to (`OwnerInv`, `HoldInv`); exactly
the steps before the current one were called, each once (`ProgressInv`); and a
recovery fits the calls both in the process that is about to store it and in the
journal (`FitInv`). `StepsRunOnce` is not inductive without `ProgressInv`, since
a repeated call would need a process that starts over, and `RecoveryFitsProgress`
not without the uniqueness of the holder. The refinement maps *absent* and
*claimed* to new, *submitted* and *unknown* to undecided; submission is the step
that undertakes an operation, and `ActiveInv` shows that no rival is undecided
then.

### Only model-checked

Liveness: `AuditedRunSettles`, `EveryRunEvaluated`, `PendingIsRetried` and
`InvocationEnds`. Liveness under fairness and `ENABLED` are beyond the prover.
Every safety and action property of the passing runs is stated by a theorem; the
restricted ones hold under the conditions named above, which are those of the
instances that check them or weaker.

## 5. How the project is ordered, and what could follow

The modules were written in the order of what a mistake would cost: the branch
strategy and its scan window, the snapshot strategy under the same promise, the
backfill that drives WAP runs, the journal of operations. Each could be extended
without changing what is there:

* the PostgreSQL journal of the API and its idempotency claims as a second
  implementation of `OperationPromise`;
* the run evidence store, which reconciles what the sensors reported.

## 6. Not modelled, and why

The map covers a small share of the repository's lines. Most of the repository
is not a protocol: the Observatory UI and its API, code that renders assets,
lineage and configuration, the ingestion and transformation engines, plugin
discovery and the CLI compose, translate and display, each in one process, and a
state machine of them would only restate them.

* **Run evidence, API operation controls, incidents**: SQL transactions in a
  database. Their hazards are those of one database with row locks; what they
  record is decided elsewhere.
* **Sealed audit chain**: sequence numbers are taken and records appended under
  one lock per surface (an advisory lock in PostgreSQL), so nothing interleaves
  between the two.
* **Hook bus, capabilities, plugins, services**: composed once at start-up.
* **Migration executor**: a sequential loop over chunks of an external store. It
  says itself that a failure leaves the earlier chunks committed, and it keeps
  no state to resume from.
* **WAP context**: pure validation; its verdict is a choice in the model.
* **Ingestion, transformation, query engines**: they appear as commits on branches
  and rows of candidates. Only the life of a query catalog is modelled.
* **Manifests, content hashes, plan tokens and expiry** of operations decide only
  whether a plan is refused, and appear as that.
* **Dry runs, option validation and the context-drift refusal** of a backfill end
  before any state changes.
