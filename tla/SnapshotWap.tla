----------------------------- MODULE SnapshotWap ----------------------------
(***************************************************************************)
(* Write-Audit-Publish under the snapshot strategy: the launcher, the      *)
(* promotion sensor (_advance_snapshot_promotion) and the candidate        *)
(* cleanup sensor around the release catalog of SnapshotRelease, beside    *)
(* publishers that use the catalog without a sensor (the helpers and the   *)
(* Kafka assets).                                                          *)
(***************************************************************************)
EXTENDS SnapshotRelease, Sequences

CONSTANTS
    SensorRuns,  \* runs launched with a report and promoted by the sensor
    Sensor,      \* the promotion sensor: a publisher and a janitor
    Stale,       \* runs that may outlive the retention period
    Discarded,   \* runs whose candidates a helper aborts or pruning expires
    MaxEvents    \* bound on faults, sweeps, reviews and foreign commits

ASSUME SnapshotWapConstants ==
    /\ SensorRuns \subseteq Runs
    /\ Sensor \in Publishers \cap Janitors
    /\ Stale \subseteq Runs /\ Discarded \subseteq Runs
    /\ MaxEvents \in Nat

VARIABLES
    seal,      \* run -> release revision in its launch manifest (immutable)
    rep,       \* run -> its durable report
    lost,      \* history: runs whose report was replaced without being read
    verdict,   \* run -> outcome of the run and of its blocking checks
    promoted,  \* runs that carry the phlo/wap_promoted tag
    tick,      \* the promotion sensor: program counter and locals
    aged,      \* runs the cleanup sensor has found beyond their retention
    cleaner,   \* the report the cleanup sensor has read to write it again
    events     \* faults, sweeps, reviews and foreign commits so far

reportVars == << seal, rep, lost, verdict, promoted >>
writeVars == << seal, verdict, promoted >>
cleanVars == << aged, cleaner >>
wapVars == << main, ref, stage, cand, intent, releases, revision, created,
              current, lock, work, jan, seal, rep, lost, verdict, promoted,
              tick, aged, cleaner, events >>

-----------------------------------------------------------------------------
(* The report: the release revision sealed at launch, merge_state, the     *)
(* revision recorded with merge_started (target_hash_before),              *)
(* review_required and source_deleted.                                     *)
Revision == Nat \cup {None}
MergeStates == {"none", "merge_started", "merged", "review_required"}
Report == [launch : Revision, merge : MergeStates, before : Revision,
           review : BOOLEAN, deleted : BOOLEAN]
NoReport == [launch |-> None, merge |-> "none", before |-> None,
             review |-> FALSE, deleted |-> FALSE]

(* What write_wap_report starts from.  A file that cannot be read counts   *)
(* as empty, and the write then replaces it: only what this write itself   *)
(* records survives.                                                       *)
ReadBack(r, readable) == IF readable THEN rep[r] ELSE NoReport

Store(r, payload, readable) ==
    /\ rep' = [rep EXCEPT ![r] = payload]
    /\ lost' = IF readable THEN lost ELSE lost \cup {r}

TickPc == {"idle", "decide", "outbox", "call", "failed", "merged", "clean",
           "sweep", "retained", "deleted", "final", "tag"}
Tick == [pc : TickPc, run : Runs \cup {None}, prior : Report, rev : Revision]
IdleTick == [pc |-> "idle", run |-> None, prior |-> NoReport, rev |-> None]

Cleaner == [run : Runs \cup {None}, rep : Report]
IdleCleaner == [run |-> None, rep |-> NoReport]

WapInit ==
    /\ SnapInit
    /\ seal = [r \in Runs |-> None]
    /\ rep = [r \in Runs |-> NoReport]
    /\ lost = {}
    /\ verdict = [r \in Runs |-> "open"]
    /\ promoted = {}
    /\ tick = IdleTick
    /\ aged = {}
    /\ cleaner = IdleCleaner
    /\ events = 0

-----------------------------------------------------------------------------
(* _prepare_snapshot_wap_launch seals the current revision into the        *)
(* content-addressed launch manifest and copies it into the report.        *)
Launch(r) ==
    /\ r \in SensorRuns
    /\ seal[r] = None
    /\ seal' = [seal EXCEPT ![r] = revision]
    /\ rep' = [rep EXCEPT ![r].launch = revision]
    /\ UNCHANGED << snapVars, lost, verdict, promoted, tick >>

(* The Dagster run ends and its blocking checks pass or fail.              *)
Decide(r, v) ==
    /\ seal[r] # None
    /\ verdict[r] = "open"
    /\ stage[r].pc = "idle"
    /\ verdict' = [verdict EXCEPT ![r] = v]
    /\ UNCHANGED << snapVars, seal, rep, lost, promoted, tick >>

(* The assets of a launched run open its candidates while it executes.     *)
Stages(r, t) ==
    /\ r \in SensorRuns => seal[r] # None /\ verdict[r] = "open"
    /\ StageRevision(r, t)
    /\ UNCHANGED << reportVars, tick >>

-----------------------------------------------------------------------------
(* The early returns of _promote_terminal_run and of the governance gate   *)
(* each write a report.  What they record nobody reads again, so they only *)
(* matter where they replace a report that could not be read,              *)
TickNoted(r) ==
    /\ tick.pc = "idle"
    /\ verdict[r] # "open"
    /\ r \notin promoted
    /\ Store(r, NoReport, FALSE)
    /\ UNCHANGED << snapVars, writeVars, tick >>

(* but for asset_checks_failed: also when the check records of a run that  *)
(* had passed cannot be read, it overwrites target_hash_before by the hash *)
(* of a branch, which this catalog does not have.                          *)
TickChecksFailed(r) ==
    /\ tick.pc = "idle"
    /\ rep[r].launch # None
    /\ verdict[r] # "open"
    /\ r \notin promoted
    /\ Store(r, [rep[r] EXCEPT !.before = None], TRUE)
    /\ UNCHANGED << snapVars, writeVars, tick >>

(* One evaluation of a successful run with passing checks, whose report    *)
(* verified against the launch manifest: the report is read again, and the *)
(* release revision (a failed read is -1, here None).                      *)
TickRead(r, rev, readable) ==
    /\ tick.pc = "idle"
    /\ rep[r].launch # None
    /\ verdict[r] = "approved"
    /\ r \notin promoted
    /\ tick' = [pc |-> "decide", run |-> r, prior |-> ReadBack(r, readable),
                rev |-> rev]
    /\ UNCHANGED << snapVars, reportVars >>

(* resolve_release: the latest release of a table.                         *)
Resolves(t, r) ==
    \E x \in releases :
        /\ x.run = r /\ t \in x.tables
        /\ \A y \in releases : t \in y.tables => y.rev <= x.rev

(* _release_resolved_for_run                                               *)
ResolvedForRun(r) == Open(r) # {} /\ \A t \in Open(r) : Resolves(t, r)

PointerMoved == tick.prior.before # tick.rev

(* Seeded defect: any move of the pointer counts as the run's own.         *)
ResumedOnMove(resolved) ==
    \/ tick.prior.merge = "merged"
    \/ tick.prior.merge = "merge_started" /\ PointerMoved

Resumed(resolved) ==
    \/ tick.prior.merge = "merged"
    \/ tick.prior.merge = "merge_started" /\ PointerMoved /\ resolved

(* The pointer moved after the intent, and the release is not the run's.   *)
Superseded(resolved) ==
    ~Resumed(resolved) /\ tick.prior.merge = "merge_started" /\ PointerMoved

MayPromote(resolved) ==
    /\ ~Resumed(resolved)
    /\ ~Superseded(resolved)
    /\ tick.prior.launch = tick.rev
    /\ tick.rev # None

(* A resumed run goes on with the cleanup.                                 *)
TickDecide(resolved) ==
    /\ tick.pc = "decide"
    /\ resolved => ResolvedForRun(tick.run)
    /\ Resumed(resolved) \/ MayPromote(resolved)
    /\ tick' = [tick EXCEPT !.pc = IF MayPromote(resolved) THEN "outbox"
                                   ELSE IF tick.prior.deleted THEN "deleted"
                                   ELSE "clean"]
    /\ UNCHANGED << snapVars, reportVars >>

(* release_pointer_conflict: promotion_failed is recorded.                 *)
TickRefused(resolved, readable) ==
    /\ tick.pc = "decide"
    /\ resolved => ResolvedForRun(tick.run)
    /\ ~Resumed(resolved) /\ ~MayPromote(resolved)
    /\ Store(tick.run,
             [ReadBack(tick.run, readable) EXCEPT
                !.before = IF Superseded(resolved) THEN tick.prior.before ELSE @],
             readable)
    /\ tick' = IdleTick
    /\ UNCHANGED << snapVars, writeVars >>

(* Governance demands an independent review: nothing was recorded yet.     *)
TickGoverned(readable) ==
    /\ MayReview
    /\ tick.pc = "decide"
    /\ tick.prior.merge # "merged"
    /\ Store(tick.run,
             [ReadBack(tick.run, readable) EXCEPT !.review = TRUE], readable)
    /\ tick' = IdleTick
    /\ UNCHANGED << snapVars, writeVars >>

(* Seeded defect: the catalog is called without the outbox.                *)
TickOutboxSkipped(readable) ==
    /\ tick.pc = "outbox"
    /\ tick' = [tick EXCEPT !.pc = "call"]
    /\ UNCHANGED << snapVars, reportVars >>

(* The outbox: merge_started is durable before the catalog is called.      *)
TickOutbox(readable) ==
    /\ tick.pc = "outbox"
    /\ Store(tick.run,
             [ReadBack(tick.run, readable) EXCEPT !.merge = "merge_started",
                                                  !.before = tick.rev],
             readable)
    /\ tick' = [tick EXCEPT !.pc = "call"]
    /\ UNCHANGED << snapVars, writeVars >>

(* promote_candidates is entered, or answers at once: from the ledger,     *)
(* with a conflict or without any candidate (promotion_failed), or with    *)
(* IndependentReviewRequired.                                              *)
TickCall ==
    /\ tick.pc = "call"
    /\ Begin(Sensor, tick.run, Tables, tick.prior.launch)
    /\ UNCHANGED << reportVars, tick >>

TickAnswered ==
    /\ tick.pc = "call"
    /\ work[Sensor].pc = "idle"
    /\ lock = None
    /\ ~Promotable(tick.run, Tables, tick.prior.launch)
    /\ tick' = [tick EXCEPT !.pc =
                  IF Refused(tick.run, Tables, tick.prior.launch)
                     \/ ~AlreadyReleased(tick.run, Tables)
                  THEN "failed" ELSE "merged"]
    /\ UNCHANGED << snapVars, reportVars >>

TickReview(readable) ==
    /\ MayReview
    /\ tick.pc = "call"
    /\ work[Sensor].pc = "idle"
    /\ lock = None
    /\ Store(tick.run,
             [ReadBack(tick.run, readable) EXCEPT !.review = TRUE,
                                                  !.merge = "review_required"],
             readable)
    /\ tick' = IdleTick
    /\ UNCHANGED << snapVars, writeVars >>

(* release_promotion_failed leaves merge_state alone, whatever the catalog *)
(* has recorded by then; on a report that cannot be read it erases it.     *)
TickFailed(readable) ==
    /\ tick.pc = "failed"
    /\ Store(tick.run,
             [ReadBack(tick.run, readable) EXCEPT !.before = tick.rev], readable)
    /\ tick' = IdleTick
    /\ UNCHANGED << snapVars, writeVars >>

MergedReport(readable) ==
    [ReadBack(tick.run, readable) EXCEPT !.merge = "merged",
                                         !.before = tick.rev]

(* The receipt makes later evaluations replay the cleanup only.            *)
TickMerged(readable) ==
    /\ tick.pc = "merged"
    /\ Store(tick.run, MergedReport(readable), readable)
    /\ tick' = [tick EXCEPT !.pc = "clean"]
    /\ UNCHANGED << snapVars, writeVars >>

(* abort_candidates after the release: nothing to do, refused while a      *)
(* promotion is pending, or a sweep of the open candidates.                *)
TickClean ==
    /\ tick.pc = "clean"
    /\ tick' = IF tick.run \in Pending THEN [tick EXCEPT !.pc = "retained"]
               ELSE IF Open(tick.run) = {} THEN [tick EXCEPT !.pc = "deleted"]
               ELSE [tick EXCEPT !.pc = "sweep"]
    /\ IF tick.run \notin Pending /\ Open(tick.run) # {}
       THEN Sweep(Sensor, tick.run, "aborted", Open(tick.run))
       ELSE UNCHANGED snapVars
    /\ UNCHANGED reportVars

(* A cleanup that failed is recorded too, beside the receipt.              *)
TickRetained(readable) ==
    /\ tick.pc = "retained"
    /\ Store(tick.run, [MergedReport(readable) EXCEPT !.deleted = FALSE],
             readable)
    /\ tick' = IdleTick
    /\ UNCHANGED << snapVars, writeVars >>

TickDeleted(readable) ==
    /\ tick.pc = "deleted"
    /\ Store(tick.run, [MergedReport(readable) EXCEPT !.deleted = TRUE],
             readable)
    /\ tick' = [tick EXCEPT !.pc = "final"]
    /\ UNCHANGED << snapVars, writeVars >>

(* _finalize_wap_promotion: the terminal report, which drops the review    *)
(* flag, and then the tag.                                                 *)
TickFinal(readable) ==
    /\ tick.pc = "final"
    /\ Store(tick.run, [MergedReport(readable) EXCEPT !.deleted = TRUE,
                                                      !.review = FALSE],
             readable)
    /\ tick' = [tick EXCEPT !.pc = "tag"]
    /\ UNCHANGED << snapVars, writeVars >>

TickTag ==
    /\ tick.pc = "tag"
    /\ promoted' = promoted \cup {tick.run}
    /\ tick' = IdleTick
    /\ UNCHANGED << snapVars, seal, rep, lost, verdict >>

(* A report that cannot be written ends the evaluation.                    *)
WriteLost ==
    /\ tick.pc \in {"outbox", "failed", "merged", "retained", "deleted",
                    "final"}
    /\ tick' = IdleTick
    /\ UNCHANGED << snapVars, reportVars >>

-----------------------------------------------------------------------------
(* Where a step of promote_candidates or of a sweep leaves the evaluation  *)
(* of the sensor, if the sensor is the caller.                             *)
AfterCall(p) ==
    tick' = IF p = Sensor /\ work'[p].pc = "idle"
            THEN [tick EXCEPT !.pc = "merged"] ELSE tick

AfterRaise(p) ==
    tick' = IF p = Sensor THEN [tick EXCEPT !.pc = "failed"] ELSE tick

AfterFailedSweep(j) ==
    tick' = IF j = Sensor THEN [tick EXCEPT !.pc = "retained"] ELSE tick

AfterSweep(j) ==
    tick' = IF j = Sensor /\ jan'[j].pc = "idle"
            THEN [tick EXCEPT !.pc = "deleted"] ELSE tick

(* The steps of a promote_candidates call that do not raise, and those     *)
(* that do because somebody else was faster.                               *)
CallStep(p) ==
    /\ \/ Resume(p) \/ Intend(p) \/ Reread(p) \/ Receipt(p)
       \/ \E t \in Tables :
            Prepare(p, t) \/ Overwrite(p, t) \/ DropReleased(p, t, TRUE)
    /\ AfterCall(p)
    /\ UNCHANGED reportVars

CallConflict(p) ==
    /\ \/ IntentRefused(p) \/ ReceiptRefused(p)
       \/ \E t \in Tables : PrepareRefused(p, t) \/ OverwriteRefused(p, t)
    /\ AfterRaise(p)
    /\ UNCHANGED reportVars

(* A publisher without a sensor gives no expected revision; like the       *)
(* sensor it releases every table of the run, under the run's own ID.      *)
HelperBegins(p, r) ==
    /\ p # Sensor
    /\ r \notin SensorRuns
    /\ Begin(p, r, Tables, None)
    /\ UNCHANGED << reportVars, tick >>

SweepStep(j) ==
    /\ CloseCandidates(j) \/ \E t \in Tables : DropCandidate(j, t)
    /\ AfterSweep(j)
    /\ UNCHANGED reportVars

(* wap_candidate_cleanup_sensor: a terminal run past retention that does   *)
(* not wait for a review and whose report verifies; merge_state is not     *)
(* considered.                                                             *)
CleanupDue(j, r) ==
    /\ j # Sensor
    /\ jan[j].pc = "idle"
    /\ r \in Stale \cap SensorRuns
    /\ verdict[r] # "open"
    /\ rep[r].launch # None
    /\ ~rep[r].review

CleanupSweep(j, r) ==
    /\ CleanupDue(j, r)
    /\ Sweep(j, r, "aborted", Open(r))
    /\ aged' = aged \cup {r}
    /\ UNCHANGED << reportVars, tick, cleaner >>

(* With or without a candidate to drop, it then rewrites the report, which *)
(* write_wap_report reads, merges and replaces without a lock.             *)
CleanupRead(j, r, readable) ==
    /\ CleanupDue(j, r)
    /\ cleaner = IdleCleaner
    /\ cleaner' = [run |-> r, rep |-> ReadBack(r, readable)]
    /\ aged' = aged \cup {r}
    /\ UNCHANGED << snapVars, reportVars, tick >>

CleanupReplace ==
    /\ cleaner # IdleCleaner
    /\ rep' = [rep EXCEPT ![cleaner.run] = cleaner.rep]
    /\ cleaner' = IdleCleaner
    /\ UNCHANGED << snapVars, writeVars, lost, tick, aged >>

(* abort_candidates of a helper, and prune_candidates on candidates that   *)
(* are older than the cutoff.                                              *)
HelperAbort(j, r) ==
    /\ j # Sensor
    /\ r \in Discarded \ SensorRuns
    /\ Sweep(j, r, "aborted", Open(r))
    /\ UNCHANGED << reportVars, tick >>

Prune(j, r, rows) ==
    /\ j # Sensor
    /\ r \in Discarded
    /\ Sweep(j, r, "pruned", rows)
    /\ UNCHANGED << reportVars, tick >>

(* What only the catalog sees.                                             *)
CatalogStep ==
    /\ \E r \in Runs :
         \/ StageBranch(r) \/ StageAppend(r)
         \/ \E t \in Tables : MergeRows(r, t)
    /\ UNCHANGED << reportVars, tick >>

TickStep ==
    \/ \E r \in SensorRuns : TickRead(r, revision, TRUE)
    \/ TickDecide(ResolvedForRun(tick.run))
    \/ TickCall \/ TickAnswered \/ TickClean \/ TickTag

WriteStep(readable) ==
    \/ TickRefused(ResolvedForRun(tick.run), readable)
    \/ TickOutbox(readable) \/ TickFailed(readable) \/ TickMerged(readable)
    \/ TickRetained(readable) \/ TickDeleted(readable) \/ TickFinal(readable)

NormalStep ==
    \/ CatalogStep
    \/ TickStep
    \/ WriteStep(TRUE)
    \/ \E r \in Runs :
         \/ Launch(r)
         \/ \E v \in {"approved", "rejected"} : Decide(r, v)
         \/ \E t \in Tables : Stages(r, t)
    \/ \E p \in Publishers :
         \/ CallStep(p) \/ CallConflict(p)
         \/ \E r \in Runs : HelperBegins(p, r)
    \/ \E j \in Janitors : SweepStep(j)

(* Retention, operators and other writers of main.                         *)
OutsideStep ==
    \/ /\ \E t \in Tables : ForeignCommit(t)
       /\ UNCHANGED << reportVars, tick >>
    \/ \E readable \in BOOLEAN : TickGoverned(readable) \/ TickReview(readable)
    \/ \E j \in Janitors, r \in Runs :
         \/ HelperAbort(j, r)
         \/ \E rows \in SUBSET Tables : Prune(j, r, rows)

(* The faults: a call fails, a read fails, a report cannot be read or      *)
(* written, a process dies, the connection holding the lock is lost.       *)
SensorDies ==
    /\ tick.pc # "idle"
    /\ work' = [work EXCEPT ![Sensor] = IdleWork]
    /\ jan' = [jan EXCEPT ![Sensor] = IdleJan]
    /\ tick' = IdleTick
    /\ Unlock(Sensor)
    /\ UNCHANGED << main, ref, stage, ledgerVars, current, reportVars >>

CallFault(p) ==
    \/ p # Sensor /\ Die(p) /\ UNCHANGED << reportVars, tick >>
    \/ CallFails(p) /\ AfterRaise(p) /\ UNCHANGED reportVars
    \/ /\ \E t \in Tables : DropReleased(p, t, FALSE)
       /\ AfterCall(p)
       /\ UNCHANGED reportVars

JanitorFault(j) ==
    /\ JanitorDies(j) \/ \E t \in Tables : DropFails(j, t)
    /\ AfterFailedSweep(j)
    /\ UNCHANGED reportVars

FaultStep ==
    \/ (LoseLock \/ \E r \in Runs : StageFails(r)) /\ UNCHANGED << reportVars, tick >>
    \/ \E r \in SensorRuns :
         \/ TickRead(r, None, TRUE) \/ TickRead(r, revision, FALSE)
         \/ TickNoted(r) \/ TickChecksFailed(r)
    \/ TickDecide(FALSE) \/ TickRefused(FALSE, TRUE)
    \/ WriteStep(FALSE)
    \/ WriteLost
    \/ SensorDies
    \/ \E p \in Publishers : CallFault(p)
    \/ \E j \in Janitors : JanitorFault(j)

CleanupStep ==
    \E j \in Janitors, r \in Runs :
        \/ CleanupSweep(j, r)
        \/ \E readable \in BOOLEAN : CleanupRead(j, r, readable)

Next ==
    \/ NormalStep /\ UNCHANGED << cleanVars, events >>
    \/ CleanupReplace /\ UNCHANGED events
    \/ /\ \/ (FaultStep \/ OutsideStep) /\ UNCHANGED cleanVars
          \/ CleanupStep
       /\ events < MaxEvents
       /\ events' = events + 1

Spec == WapInit /\ [][Next]_wapVars

-----------------------------------------------------------------------------
(* The values the variables take.                                          *)
SnapTypeOK ==
    /\ main \in [Tables -> Snapshot]
    /\ ref \in [Runs -> [Tables -> Tip]]
    /\ stage \in [Runs -> Stage]
    /\ cand \in [Runs -> [Tables -> Candidate]]
    /\ intent \in [Runs -> [Tables -> Tip]]
    /\ releases \subseteq Release
    /\ revision \in Nat
    /\ created \in [Runs -> [Tables -> Nat]]
    /\ current \subseteq Publishers
    /\ lock \in Publishers \cup {None}
    /\ work \in [Publishers -> Work]
    /\ jan \in [Janitors -> Jan]
    /\ seal \in [Runs -> Revision]
    /\ rep \in [Runs -> Report]
    /\ lost \subseteq Runs
    /\ verdict \in [Runs -> {"open", "approved", "rejected"}]
    /\ promoted \subseteq Runs
    /\ tick \in Tick
    /\ aged \subseteq Runs
    /\ cleaner \in Cleaner
    /\ events \in Nat

(* _prepare_candidates pins main and the overwrite is conditional: no step *)
(* of a release ever removes rows from a table of main, whoever wrote      *)
(* them, and whenever the candidate was opened.                            *)
RowsNeverLost ==
    [][\A t \in Tables : main[t].rows \subseteq main'[t].rows]_wapVars

(* The pending rows precede every overwrite and keep other releases out:   *)
(* a table of main that carries a release carries the tip its ledger rows  *)
(* name, and at most one release is unfinished.                            *)
UnfinishedReleaseIsOwned ==
    /\ \A t \in Tables :
         main[t].rel # None => intent[main[t].rel][t] = main[t].tip
    /\ \A r, s \in Pending : r = s

(* The receipt closes every member table together: a release row means     *)
(* that main has the rows of the candidate it names.                       *)
ReleasedRowsArePublic ==
    \A x \in releases :
        /\ x.tables = Intended(x.run)
        /\ \A t \in x.tables : intent[x.run][t].rows \subseteq main[t].rows

(* The sensor persists merge_started before the catalog records an intent  *)
(* for its run, and no write of the sensor takes it back while the intent  *)
(* stands, so that a later evaluation finds what was interrupted.  Two     *)
(* kinds of run are not protected: those whose report a write replaced     *)
(* because it could not be read, and those beyond their retention period,  *)
(* whose report the cleanup sensor may replace by one it read before.      *)
OutboxBeforeIntent ==
    \A r \in SensorRuns \ (aged \cup lost) :
        Intended(r) # {} => rep[r].merge # "none"

(* A report is marked merged, and a run promoted, only after a release of  *)
(* that very run, also when the evaluation that published it died and a    *)
(* later one decided from the release pointer.                             *)
MergedIsReleased ==
    \A r \in SensorRuns :
        rep[r].merge = "merged" \/ r \in promoted => Released(r)

-----------------------------------------------------------------------------
(* The release pointer as the target of WapPublication: one entry per      *)
(* revision.  A run of the sensor is sealed on the revision of its launch; *)
(* the releases of other publishers are commits of other writers.          *)
ReleaseOwner(rev) ==
    LET r == (CHOOSE x \in releases : x.rev = rev).run
    IN  IF r \in SensorRuns THEN r ELSE None

Pointer(rev) == << None >> \o [i \in 1 .. rev |-> ReleaseOwner(i)]

Pub == INSTANCE WapPublication WITH
         Runs <- SensorRuns,
         Other <- None,
         target <- Pointer(revision),
         base <- [r \in SensorRuns |-> IF seal[r] = None THEN << >>
                                       ELSE Pointer(seal[r])],
         verdict <- [r \in SensorRuns |-> verdict[r]],
         published <- {[run  |-> x.run,
                        from |-> Pointer(x.rev - 1),
                        to   |-> Pointer(x.rev)] :
                         x \in {y \in releases : y.run \in SensorRuns}}

(* The snapshot strategy keeps the promise of the branch strategy: an      *)
(* approved run publishes only while the release pointer is where its      *)
(* launch found it, and moves it by exactly its own release.               *)
ImplementsPublication == Pub!Spec

(* abort_candidates: "Drop candidate branches under namespace; they can    *)
(* never promote."  Main is only overwritten from a branch that exists.    *)
DroppedNeverPromoted ==
    [][\A r \in Runs, t \in Tables :
         ref[r][t] = NoTip /\ main'[t].rel = r => main[t].rel = r]_wapVars
=============================================================================
