----------------------------- MODULE WapBranch ------------------------------
(***************************************************************************)
(* Write-Audit-Publish under the branch strategy: launchers, Dagster runs, *)
(* the promotion sensor and the cleanup sensor composed over the shared    *)
(* catalog, run storage and report files, and the properties that make the *)
(* composition correct.                                                    *)
(***************************************************************************)
EXTENDS WapLaunch, WapRun, WapPromotion, WapCleanup

Next ==
    \/ \E r \in Runs : LaunchStep(r) \/ RunStep(r)
    \/ TargetCommit
    \/ PromoStep
    \/ SweepStep

Spec == Init /\ [][Next]_vars

(* Fairness of the promotion sensor: an evaluation that has begun comes to *)
(* an end, and no call that is tried again and again fails for ever (a     *)
(* file system, Nessie and the settings store recover).  Calls before and  *)
(* after the merge receipt are paired: a run needs the first until it is   *)
(* merged, the second from then on.  Nothing is assumed of launchers,      *)
(* runs, other writers, lost acknowledgements, receipt writes or the       *)
(* cleanup sensor, nor that a run stays in the scan window or passes the   *)
(* gates before ScanAccepted: AuditedRunSettles says so itself.            *)
WriteSucceeds(r, pcs) ==
    promo.run = r /\ promo.pc \in pcs /\ PromoReplace("done")

Fairness ==
    /\ WF_vars(SensorStep)
    /\ \A r \in Runs :
        /\ SF_vars(DecideIntent(r) \/ DecideMerged(r))
        /\ SF_vars(WriteSucceeds(r, {"intent", "deleted"}))
        /\ SF_vars(MergeProven(r) \/ CleanSkipped(r) \/ CleanDropCatalog(r))
        /\ SF_vars(PutApplied(r) \/ CleanDelete(r, TRUE))
        /\ SF_vars(Reconciled(r))
        /\ SF_vars(WriteSucceeds(r, {"final"}))
        /\ SF_vars(TagPromoted(r))

FairSpec == Spec /\ Fairness

-----------------------------------------------------------------------------
(* Every variable keeps its type; sensors and reports only hold hashes of  *)
(* this catalog.                                                           *)
TypeOK ==
    /\ target \in Hash
    /\ head \in [Runs -> Hash]
    /\ queryCat \subseteq Runs
    /\ launch \in [Runs -> LaunchPc]
    /\ base \in [Runs -> Hash]
    /\ run \in [Runs -> RunStatuses]
    /\ clone \in [Runs -> {"none", "failed"}]
    /\ checks \in [Runs -> SUBSET Check]
    /\ audit \in [Runs -> Hash]
    /\ tagged \subseteq Runs
    /\ report \in [Runs -> Report]
    /\ aged \subseteq Runs
    /\ promo \in PromoState
    /\ sweep \in SweepState
    /\ inflight \subseteq [run : Runs, src : Hash]
    /\ published \subseteq [run : Runs, from : Hash, to : Hash]

Published(r) == \E p \in published : p.run = r

(* Every publication was audited: its run succeeded, none of its blocking  *)
(* checks failed, it replaced exactly the target hash its launch captured, *)
(* and under strict binding every check of the run had seen exactly the    *)
(* published hash (_promote_terminal_run, _promote_branch).                *)
AuditedPublication ==
    \A p \in published :
        /\ run[p.run] = "success"
        /\ AllChecksPassed(checks[p.run])
        /\ p.from = base[p.run] /\ p.from # NoHash
        /\ HasAncestor(p.to, p.from)
        /\ Strict => BoundTo(checks[p.run], p.to)

(* Of all runs audited against the same state of the target at most one    *)
(* publishes, and at most once, whatever was lost, retried, delayed or     *)
(* crashed.  (A run that committed nothing publishes the base itself,      *)
(* which moves nothing.)                                                   *)
Moved(p) == p.to # base[p.run]

OneWinnerPerBase ==
    \A p, q \in published :
        Moved(p) /\ Moved(q) /\ base[p.run] = base[q.run] => p = q

(* No step takes a commit off the target: publications and foreign commits *)
(* only extend its history (_publish_fast_forward is a strict CAS).        *)
TargetOnlyAdvances == [][HasAncestor(target', target)]_vars

(* The reports never invent a publication: a merge receipt, a terminal     *)
(* "promoted" report and the phlo/wap_promoted tag exist only for runs     *)
(* whose commits are on the target.                                        *)
ReceiptsAreTruthful ==
    \A r \in Runs :
        report[r].merge = "merged" \/ report[r].status = "promoted"
        \/ r \in tagged => Published(r)

(* What the promotion sensor deletes is on the target: it never discards   *)
(* candidate commits that were not published (the deletion is conditional  *)
(* on the published hash).                                                 *)
PromotionKeepsUnpublished ==
    [][\A r \in Runs :
         head[r] # NoHash /\ head'[r] = NoHash /\ promo' # promo
           => HasAncestor(target, head[r])]_vars

(* A branch disappears only after its run is over.                         *)
NoActiveBranchDeleted ==
    \A r \in Runs : run[r] \in {"starting", "started"} => head[r] # NoHash

(* An acknowledged merge receipt stays in the report, so that later        *)
(* evaluations replay cleanup and evidence instead of deciding again.      *)
ReceiptSurvives ==
    [][\A r \in Runs : report[r].merge = "merged"
                         => report'[r].merge = "merged"]_vars

(* The branch of an unacknowledged merge intent is retained: it may be the *)
(* only copy of an unpublished batch.                                      *)
IntentRetainsBranch ==
    \A r \in Runs :
        report[r].merge = "merge_started" /\ ~Published(r) => head[r] # NoHash

(* A publication is always preceded by a durable intent: whatever crashes, *)
(* the report of a published run says merge_started or more.               *)
IntentBeforePublication ==
    \A r \in Runs :
        Published(r) => report[r].merge \in {"merge_started", "merged"}

(* A branch and its per-ref query catalog go in the order catalog, branch: *)
(* no query catalog is left behind for a branch that is gone.              *)
NoOrphanQueryCatalog == \A r \in queryCat : head[r] # NoHash

(* A run reported as promoted has left no branch behind.                   *)
PromotedBranchIsGone ==
    \A r \in Runs : report[r].status = "promoted" => head[r] = NoHash

(* A registered run whose audit passed is not evaluated for ever: if the   *)
(* sensor keeps finding it in its scan window and the gates of governance, *)
(* evidence and context let it through each time (ScanAccepted happens     *)
(* again and again), it ends up promoted and tagged, unless the target     *)
(* moved before it could publish, or the outcome of its merge is unknown,  *)
(* which an operator must resolve.  A run that leaves the window of five   *)
(* minutes, or that a gate holds back, is not promised anything.           *)
Settled(r) ==
    \/ r \in tagged
    \/ target # base[r] /\ ~Published(r)
    \/ report[r].merge = "merge_started"

AuditedRunSettles ==
    \A r \in Runs :
        []<><<ScanAccepted(r)>>_vars =>
            (run[r] = "success" /\ AllChecksPassed(checks[r]) /\ report[r].reg
               ~> Settled(r))

-----------------------------------------------------------------------------
(* The abstract promise, and the mapping: an audit is decided when Dagster *)
(* records the run's terminal status.                                      *)
Verdict(r) ==
    IF run[r] \notin Terminal THEN "open"
    ELSE IF run[r] = "success" /\ AllChecksPassed(checks[r]) THEN "approved"
    ELSE "rejected"

Abs == INSTANCE WapPublication WITH verdict <- [r \in Runs |-> Verdict(r)]

(* The composition implements WapPublication.                              *)
ImplementsPublication == Abs!Spec
=============================================================================
