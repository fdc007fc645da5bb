------------------------------ MODULE WapState ------------------------------
(***************************************************************************)
(* The state that the launcher, the Dagster run, the promotion sensor and  *)
(* the cleanup sensor share under the branch strategy: the versioned       *)
(* catalog, Dagster's run storage and the report files below               *)
(* .phlo/wap-reports, plus the locals each sensor holds across its calls.  *)
(***************************************************************************)
EXTENDS NessieRefs, FiniteSets

CONSTANTS
    Runs,          \* logical WAP runs (each owns the branch pipeline-run-<id>)
    Other,         \* any writer of the target that is not a WAP run
    Strict,        \* wap.require_candidate_bound_checks
    StaleRuns,     \* runs whose branch may outlive the retention period
    Reexecuted,    \* runs that an operator may re-execute with copied tags
    LateWriters,   \* runs whose branch may still be written after the run ended
    MayReview,     \* whether second_gold_reviewer may be switched on
    Faults,        \* the transient read failures considered (FaultKinds)
    MaxTarget,     \* bound on the length of the target history
    MaxWrites,     \* bound on the commits on one WAP branch
    MaxChecks,     \* bound on the check evaluations of one run
    Outcomes       \* check outcomes considered, a subset of CheckOutcome

(* "report_read": a report file cannot be read.  "event_log": Dagster's     *)
(* check records cannot be read.  "catalog_read": get_branch_hash fails.   *)
FaultKinds == {"report_read", "event_log", "catalog_read"}

CheckOutcome == [passed : BOOLEAN, severity : {"warn", "error"}]

ASSUME ConstantsAssumption ==
    /\ Other \notin Runs
    /\ Strict \in BOOLEAN
    /\ MayReview \in BOOLEAN
    /\ Faults \subseteq FaultKinds
    /\ StaleRuns \subseteq Runs
    /\ Reexecuted \subseteq Runs
    /\ LateWriters \subseteq Runs
    /\ MaxTarget \in Nat /\ MaxWrites \in Nat /\ MaxChecks \in Nat
    /\ Outcomes \subseteq CheckOutcome

VARIABLES
    target,     \* hash of the publication target ref
    head,       \* run -> hash of its WAP branch, NoHash when there is none
    queryCat,   \* runs whose per-ref query catalog exists
    launch,     \* run -> where its launcher process is
    base,       \* run -> target hash captured by the launcher (immutable manifest)
    run,        \* run -> Dagster status of the registered physical run
    clone,      \* run -> Dagster status of a re-execution carrying the same tags
    checks,     \* run -> its asset check evaluations
    audit,      \* run -> hash captured by a check that is executing, or NoHash
    tagged,     \* runs that carry the phlo/wap_promoted tag
    report,     \* run -> content of its durable report file
    aged,       \* runs whose branch is older than DEFAULT_RETENTION_HOURS
    promo,      \* wap_auto_promotion_sensor: program counter and locals
    sweep,      \* wap_branch_cleanup_sensor: program counter and locals
    inflight,   \* PUT requests whose sender gave up, not yet executed
    published   \* history: every publication that moved the target

catalogVars == << target, head, queryCat >>
launchVars  == << launch, base >>
runVars     == << run, clone, checks, audit >>
sensorVars  == << promo, sweep, inflight >>
vars == << target, head, queryCat, launch, base, run, clone, checks, audit,
           tagged, report, aged, promo, sweep, inflight, published >>

-----------------------------------------------------------------------------
Hash == Seq(Runs \cup {Other})

Terminal == {"success", "failed", "cancelled"}

(* The status field, as far as a later step or a property tells its values *)
(* apart: "promoted", or any of the launch, pending, blocked, failed and   *)
(* maintenance values ("open").                                            *)
Statuses == {"open", "promoted"}

MergeStates == {"none", "merge_started", "merged", "merge_failed",
                "review_required"}

(* The lifecycle record: only the fields some later step reads.            *)
(*   reg      the launch facts and the physical run ID are recorded and    *)
(*            verify against the immutable, content-addressed manifest     *)
(*            (so launch_target_hash_before is the manifest's: base)       *)
(*   merge    merge_state                                                  *)
(*   src      source_hash of the latest promotion attempt                  *)
(*   review   review_required                                              *)
(*   deleted  source_deleted                                               *)
Report == [status  : Statuses,
           reg     : BOOLEAN,
           merge   : MergeStates,
           src     : Hash,
           review  : BOOLEAN,
           deleted : BOOLEAN]

(* No report file, or one whose content could not be read.                 *)
EmptyReport == [status |-> "open", reg |-> FALSE, merge |-> "none",
                src |-> NoHash, review |-> FALSE, deleted |-> FALSE]

(* What reading r's report may return.  write_wap_report treats an         *)
(* unreadable file as an empty one and goes on.                            *)
ReadReport(r) ==
    {report[r]} \cup (IF "report_read" \in Faults THEN {EmptyReport} ELSE {})

(* _branch_hash: None both for a missing ref and for a failed read.        *)
ReadHash(hash) ==
    {hash} \cup (IF "catalog_read" \in Faults THEN {NoHash} ELSE {})

(* The outcomes of a report replacement: "done" returns True; "lost" and   *)
(* "partial" return False, the second after os.replace already happened    *)
(* (the evidence snapshot could not be written).                           *)
WriteOutcome == {"done", "lost", "partial"}

Replace(r, payload, outcome) ==
    report' = IF outcome = "lost" THEN report
              ELSE [report EXCEPT ![r] = payload]

-----------------------------------------------------------------------------
Check == [passed : BOOLEAN, severity : {"warn", "error"}, cand : Hash]

(* _all_checks_passed: only explicit warnings do not block, and a run      *)
(* without checks passes.                                                  *)
AllChecksPassed(cs) == \A c \in cs : c.passed \/ c.severity = "warn"

(* The candidate binding that a strict launch demands of its checks.       *)
BoundTo(cs, hash) ==
    /\ cs # {}
    /\ \A c \in cs : c.cand # NoHash /\ c.cand = hash

-----------------------------------------------------------------------------
PromoPc == {"idle", "decide", "note", "intent", "merge", "put", "receipt",
            "clean", "delete", "deleted", "reconcile", "final", "tag"}

(* prior: what the sensor keeps of prior_report; src: the pinned source    *)
(* hash; out: the merged payload it is about to write.                     *)
Prior == [merge : MergeStates, src : Hash, deleted : BOOLEAN]

PriorOf(rep) == [merge |-> rep.merge, src |-> rep.src, deleted |-> rep.deleted]

PromoState == [pc : PromoPc, run : Runs \cup {Other}, prior : Prior,
               src : Hash, out : Report]

IdlePromo == [pc |-> "idle", run |-> Other, prior |-> PriorOf(EmptyReport),
              src |-> NoHash, out |-> EmptyReport]

SweepPc == {"idle", "listed", "drop", "delete", "note"}

SweepState == [pc : SweepPc, run : Runs \cup {Other}, exp : Hash,
               out : Report]

IdleSweep == [pc |-> "idle", run |-> Other, exp |-> NoHash,
              out |-> EmptyReport]

Init ==
    /\ target = << Other >>
    /\ head = [r \in Runs |-> NoHash]
    /\ queryCat = {}
    /\ launch = [r \in Runs |-> "idle"]
    /\ base = [r \in Runs |-> NoHash]
    /\ run = [r \in Runs |-> "none"]
    /\ clone = [r \in Runs |-> "none"]
    /\ checks = [r \in Runs |-> {}]
    /\ audit = [r \in Runs |-> NoHash]
    /\ tagged = {}
    /\ report = [r \in Runs |-> EmptyReport]
    /\ aged = {}
    /\ promo = IdlePromo
    /\ sweep = IdleSweep
    /\ inflight = {}
    /\ published = {}
=============================================================================
