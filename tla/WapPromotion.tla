---------------------------- MODULE WapPromotion ----------------------------
(***************************************************************************)
(* wap_auto_promotion_sensor under the branch strategy.  One evaluation    *)
(* handles one terminal run after the other; each call that leaves the     *)
(* process (report file, Dagster, Nessie) is a step of its own, so the     *)
(* cleanup sensor, the launchers and other catalog writers interleave.     *)
(* write_wap_report reads the file, merges and replaces it: the payload is *)
(* read when a step starts a write (kept in promo.out) and replaced by the *)
(* next step, PromoReplace.                                                *)
(***************************************************************************)
EXTENDS WapState

UnchangedByPromo == UNCHANGED << launchVars, runVars, aged, sweep >>

PublicationVars == << tagged, report, inflight, published >>

OnlySensorMoves == UNCHANGED << catalogVars, PublicationVars >>

(* The sensor starts replacing r's report by payload and continues at pc.  *)
StartWrite(pc, payload) ==
    promo' = [promo EXCEPT !.pc = pc, !.out = payload]

(* A write after which the evaluation of r ends.                           *)
Note(r, payload) ==
    promo' = [IdlePromo EXCEPT !.pc = "note", !.run = r, !.out = payload]

(* The terminal runs the sensor works on: not yet tagged as promoted.      *)
Scannable(r) == promo.pc = "idle" /\ run[r] \in Terminal /\ r \notin tagged

(* _verify_wap_launch_manifest succeeds on the report that was read.       *)
Verified(r) == report[r].reg

-----------------------------------------------------------------------------
(* _promote_terminal_run, early returns in order.                          *)

(* The manifest or the immutable tags do not verify.                       *)
ScanUnverified(r) ==
    /\ Scannable(r)
    /\ ~Verified(r) \/ "report_read" \in Faults
    /\ \E payload \in ReadReport(r) :
         Note(r, [payload EXCEPT !.status = "open"])
    /\ OnlySensorMoves /\ UnchangedByPromo

(* A re-execution with copied tags: its physical ID is not the registered  *)
(* one, and the refusal is written to the report of the logical run.       *)
ScanReexecution(r) ==
    /\ promo.pc = "idle"
    /\ clone[r] = "failed"
    /\ \E payload \in ReadReport(r) :
         Note(r, [payload EXCEPT !.status = "open"])
    /\ OnlySensorMoves /\ UnchangedByPromo

(* The live configuration drifted from the sealed context or strategy.     *)
ScanContextInvalid(r) ==
    /\ Scannable(r)
    /\ Verified(r)
    /\ \E payload \in ReadReport(r) :
         Note(r, [payload EXCEPT !.status = "open"])
    /\ OnlySensorMoves /\ UnchangedByPromo

(* Failed and cancelled runs are terminalised and keep their branch.       *)
ScanFailedRun(r) ==
    /\ Scannable(r)
    /\ Verified(r)
    /\ run[r] # "success"
    /\ \E payload \in ReadReport(r) :
         Note(r, [payload EXCEPT !.status = "open"])
    /\ OnlySensorMoves /\ UnchangedByPromo

(* No durable quality decision could be persisted.                         *)
ScanEvidenceUnavailable(r) ==
    /\ Scannable(r)
    /\ Verified(r)
    /\ run[r] = "success"
    /\ \E payload \in ReadReport(r) :
         Note(r, [payload EXCEPT !.status = "open"])
    /\ OnlySensorMoves /\ UnchangedByPromo

(* A blocking check failed, or the check records could not be read.  The   *)
(* report's source_hash is set to whatever the branch hash reads as now.   *)
ScanChecksFailed(r) ==
    /\ Scannable(r)
    /\ Verified(r)
    /\ run[r] = "success"
    /\ ~AllChecksPassed(checks[r]) \/ "event_log" \in Faults
    /\ \E payload \in ReadReport(r), hash \in ReadHash(head[r]) :
         Note(r, [payload EXCEPT !.status = "open",
                                     !.src = hash])
    /\ OnlySensorMoves /\ UnchangedByPromo

(* Seeded defect: the check gate is dropped.                               *)
PublishableUnchecked(r) ==
    Scannable(r) /\ Verified(r) /\ run[r] = "success"

Publishable(r) ==
    /\ Scannable(r)
    /\ Verified(r)
    /\ run[r] = "success"
    /\ AllChecksPassed(checks[r])

(* _promote_validated_run: governance settings are unavailable, or they    *)
(* demand an independent review.  Skipped once the merge is recorded.      *)
ScanGoverned(r, review) ==
    /\ Publishable(r)
    /\ report[r].merge # "merged" \/ "report_read" \in Faults
    /\ review => MayReview
    /\ \E payload \in ReadReport(r) :
         Note(r, [payload EXCEPT !.status = "open",
                                     !.review = @ \/ review])
    /\ OnlySensorMoves /\ UnchangedByPromo

(* prior_report cannot be read any more: without the launch hash in it the *)
(* promotion is refused as target_hash_drift.                              *)
ScanPriorUnreadable(r) ==
    /\ Publishable(r)
    /\ "report_read" \in Faults
    /\ \E payload \in ReadReport(r) :
         Note(r, [payload EXCEPT !.status = "open"])
    /\ OnlySensorMoves /\ UnchangedByPromo

(* The run passes every gate; prior_report is what the sensor works from.  *)
ScanAccepted(r) ==
    /\ Publishable(r)
    /\ promo' = [IdlePromo EXCEPT !.pc = "decide", !.run = r,
                                  !.prior = PriorOf(report[r])]
    /\ OnlySensorMoves /\ UnchangedByPromo

Scan(r) ==
    \/ ScanUnverified(r) \/ ScanReexecution(r) \/ ScanContextInvalid(r)
    \/ ScanFailedRun(r) \/ ScanEvidenceUnavailable(r) \/ ScanChecksFailed(r)
    \/ \E review \in BOOLEAN : ScanGoverned(r, review)
    \/ ScanPriorUnreadable(r) \/ ScanAccepted(r)

-----------------------------------------------------------------------------
(* _promote_branch: read both hashes and decide.                           *)

Deciding(r) == promo.pc = "decide" /\ promo.run = r

(* The merge is already recorded: replay cleanup and evidence only.        *)
DecideMerged(r) ==
    /\ Deciding(r)
    /\ promo.prior.merge = "merged"
    /\ \E hash \in ReadHash(head[r]) :
         promo' = [promo EXCEPT !.pc = "clean",
                     !.src = IF promo.prior.src # NoHash THEN promo.prior.src
                             ELSE hash]
    /\ OnlySensorMoves /\ UnchangedByPromo

(* An intent without a receipt: the outcome is unknown, never retried.     *)
DecideUnknown(r) ==
    /\ Deciding(r)
    /\ promo.prior.merge = "merge_started"
    /\ \E payload \in ReadReport(r) :
         Note(r, [payload EXCEPT !.status = "open"])
    /\ OnlySensorMoves /\ UnchangedByPromo

Undecided(r) ==
    Deciding(r) /\ promo.prior.merge \notin {"merged", "merge_started"}

DecideHashUnavailable(r) ==
    /\ Undecided(r)
    /\ head[r] = NoHash \/ "catalog_read" \in Faults
    /\ \E payload \in ReadReport(r) :
         Note(r, [payload EXCEPT !.status = "open"])
    /\ OnlySensorMoves /\ UnchangedByPromo

(* The target is no longer what the launch captured.                       *)
TargetDrifted(r) == target # base[r]

DecideDrift(r) ==
    /\ Undecided(r)
    /\ head[r] # NoHash
    /\ TargetDrifted(r)
    /\ \E payload \in ReadReport(r) :
         Note(r, [payload EXCEPT !.status = "open"])
    /\ OnlySensorMoves /\ UnchangedByPromo

(* Seeded defect: checks must exist, but their candidate is not compared.  *)
CandidateUncompared(r) == Strict /\ checks[r] = {}

(* Strict launches: some check saw another candidate, or none at all.      *)
CandidateUnbound(r) == Strict /\ ~BoundTo(checks[r], head[r])

DecideUnbound(r) ==
    /\ Undecided(r)
    /\ head[r] # NoHash
    /\ ~TargetDrifted(r)
    /\ CandidateUnbound(r) \/ (Strict /\ "event_log" \in Faults)
    /\ \E payload \in ReadReport(r) :
         Note(r, [payload EXCEPT !.status = "open",
                                            !.src = head[r]])
    /\ OnlySensorMoves /\ UnchangedByPromo

(* Seeded defect: the catalog is called before the intent is durable.      *)
DecideWithoutIntent(r) ==
    /\ Undecided(r)
    /\ head[r] # NoHash
    /\ ~TargetDrifted(r)
    /\ ~CandidateUnbound(r)
    /\ promo' = [promo EXCEPT !.pc = "merge", !.src = head[r]]
    /\ OnlySensorMoves /\ UnchangedByPromo

(* Pin the source hash and persist the intent before the catalog call.     *)
DecideIntent(r) ==
    /\ Undecided(r)
    /\ head[r] # NoHash
    /\ ~TargetDrifted(r)
    /\ ~CandidateUnbound(r)
    /\ \E payload \in ReadReport(r) :
         promo' = [promo EXCEPT !.pc = "intent", !.src = head[r],
                     !.out = [payload EXCEPT !.status = "open",
                                !.merge = "merge_started", !.src = head[r]]]
    /\ OnlySensorMoves /\ UnchangedByPromo

Decide(r) ==
    \/ DecideMerged(r) \/ DecideUnknown(r) \/ DecideHashUnavailable(r)
    \/ DecideDrift(r) \/ DecideUnbound(r) \/ DecideIntent(r)

-----------------------------------------------------------------------------
(* merge_branch and _publish_fast_forward.                                 *)

FailedPayload(payload) ==
    [payload EXCEPT !.status = "open", !.merge = "merge_failed",
                    !.src = promo.src]

(* The catalog client re-reads governance and may demand a review.         *)
MergeReviewRequired(r) ==
    /\ promo.pc = "merge" /\ promo.run = r
    /\ MayReview
    /\ \E payload \in ReadReport(r) :
         Note(r, [payload EXCEPT !.status = "open",
                               !.merge = "review_required", !.review = TRUE])
    /\ OnlySensorMoves /\ UnchangedByPromo

(* Ancestry is proved from pinned history; no proof means a definite False.*)
MergeUnproven(r) ==
    /\ promo.pc = "merge" /\ promo.run = r
    /\ \/ ~ProvenFastForward(head[r], promo.src, base[r])
       \/ "catalog_read" \in Faults
    /\ \E payload \in ReadReport(r) :
         Note(r, FailedPayload(payload))
    /\ OnlySensorMoves /\ UnchangedByPromo

MergeProven(r) ==
    /\ promo.pc = "merge" /\ promo.run = r
    /\ ProvenFastForward(head[r], promo.src, base[r])
    /\ promo' = [promo EXCEPT !.pc = "put"]
    /\ OnlySensorMoves /\ UnchangedByPromo

(* Seeded defect: an outcome the readers of the report do not know.        *)
ReceiptMisnamed(payload, deleted) ==
    [payload EXCEPT !.status = "open", !.merge = "complete",
                    !.src = promo.src, !.deleted = deleted]

ReceiptPayload(payload, deleted) ==
    [payload EXCEPT !.status = "open", !.merge = "merged",
                    !.src = promo.src, !.deleted = deleted]

(* Nessie executes a conditional PUT: the target becomes the source hash.  *)
Publish(r, source) ==
    /\ AssignAllowed(target, base[r])
    /\ target' = source
    /\ published' = published \cup {[run |-> r, from |-> target, to |-> source]}

(* ... and answers, so the receipt is written next.                        *)
PutApplied(r) ==
    /\ promo.pc = "put" /\ promo.run = r
    /\ Publish(r, promo.src)
    /\ \E payload \in ReadReport(r) :
         StartWrite("receipt", ReceiptPayload(payload, payload.deleted))
    /\ UNCHANGED << head, queryCat, tagged, report, inflight >>
    /\ UnchangedByPromo

(* Timeout, transport error or 5xx: the exception ends the evaluation of r *)
(* without a retry, and the request may still be executed.                 *)
PutUnanswered(r) ==
    /\ promo.pc = "put" /\ promo.run = r
    /\ inflight' = inflight \cup {[run |-> r, src |-> promo.src]}
    /\ promo' = IdlePromo
    /\ UNCHANGED << catalogVars, tagged, report, published >>
    /\ UnchangedByPromo

(* An abandoned request reaches Nessie after all, at any later time.       *)
LatePut(request) ==
    /\ request \in inflight
    /\ inflight' = inflight \ {request}
    /\ \/ Publish(request.run, request.src)
       \/ ~AssignAllowed(target, base[request.run])
          /\ UNCHANGED << target, published >>
    /\ UNCHANGED << head, queryCat, tagged, report, promo >>
    /\ UnchangedByPromo

(* Seeded defect: a refusal is recorded like an applied publication.       *)
PutRefusedAsMerged(r) ==
    /\ promo.pc = "put" /\ promo.run = r
    /\ \E payload \in ReadReport(r) :
         Note(r, ReceiptPayload(payload, payload.deleted))
    /\ OnlySensorMoves /\ UnchangedByPromo

(* Nessie answers with a definite refusal (a moved target, for one).       *)
PutRefused(r) ==
    /\ promo.pc = "put" /\ promo.run = r
    /\ \E payload \in ReadReport(r) :
         Note(r, FailedPayload(payload))
    /\ OnlySensorMoves /\ UnchangedByPromo

Merge(r) ==
    \/ MergeReviewRequired(r) \/ MergeUnproven(r) \/ MergeProven(r)
    \/ PutApplied(r) \/ PutUnanswered(r) \/ PutRefused(r)

-----------------------------------------------------------------------------
(* _finish_branch_promotion and _finalize_wap_promotion.                   *)

AlreadyMerged == promo.prior.merge = "merged"

(* Seeded defects: a replay trusts the merge receipt instead of looking at *)
(* the branch; a replay does not accept an absent branch.                  *)
CleanupAssumed(hash) == promo.prior.deleted \/ AlreadyMerged
CleanupForgotten(hash) == promo.prior.deleted

(* A recorded deletion, or during a replay an absent ref, counts as done.  *)
CleanupKnown(hash) ==
    promo.prior.deleted \/ (AlreadyMerged /\ hash = NoHash)

CleanSkipped(r) ==
    /\ promo.pc = "clean" /\ promo.run = r
    /\ \E hash \in ReadHash(head[r]), payload \in ReadReport(r) :
         /\ CleanupKnown(hash)
         /\ StartWrite("deleted", ReceiptPayload(payload, TRUE))
    /\ OnlySensorMoves /\ UnchangedByPromo

(* Seeded defect: the query catalog is left alone.                         *)
CleanKeepCatalog(r) ==
    /\ promo.pc = "clean" /\ promo.run = r
    /\ ~CleanupKnown(head[r])
    /\ promo.src # NoHash => head[r] = promo.src
    /\ promo' = [promo EXCEPT !.pc = "delete"]
    /\ OnlySensorMoves /\ UnchangedByPromo

(* _cleanup_owned_wap_branch: the branch must carry the pinned hash; the   *)
(* query catalog is dropped before the branch.                             *)
CleanDropCatalog(r) ==
    /\ promo.pc = "clean" /\ promo.run = r
    /\ ~CleanupKnown(head[r])
    /\ promo.src # NoHash => head[r] = promo.src
    /\ queryCat' = queryCat \ {r}
    /\ promo' = [promo EXCEPT !.pc = "delete"]
    /\ UNCHANGED << target, head, PublicationVars >>
    /\ UnchangedByPromo

(* Seeded defect: a failed cleanup is recorded as a failed merge.          *)
CleanFailedAsUnmerged(r) ==
    /\ promo.pc \in {"clean", "delete"} /\ promo.run = r
    /\ promo.pc = "clean" => ~CleanupKnown(head[r])
    /\ \E payload \in ReadReport(r) :
         Note(r, FailedPayload(payload))
    /\ OnlySensorMoves /\ UnchangedByPromo

CleanFailed(r) ==
    /\ promo.pc \in {"clean", "delete"} /\ promo.run = r
    /\ promo.pc = "clean" => ~CleanupKnown(head[r])
    /\ \E payload \in ReadReport(r) :
         Note(r, ReceiptPayload(payload, FALSE))
    /\ OnlySensorMoves /\ UnchangedByPromo

(* The conditional DELETE takes effect; without its acknowledgement the    *)
(* retried request is refused and the cleanup is recorded as pending.      *)
CleanDelete(r, acknowledged) ==
    /\ promo.pc = "delete" /\ promo.run = r
    /\ DeleteAllowed(head[r], IF promo.src = NoHash THEN head[r] ELSE promo.src)
    /\ head' = [head EXCEPT ![r] = NoHash]
    /\ \E payload \in ReadReport(r) :
         IF acknowledged
         THEN StartWrite("deleted", ReceiptPayload(payload, TRUE))
         ELSE Note(r, ReceiptPayload(payload, FALSE))
    /\ UNCHANGED << target, queryCat, PublicationVars >>
    /\ UnchangedByPromo

(* _reconcile_promoted_wap_run succeeded: write the terminal report, which *)
(* also drops the review flag.                                             *)
Reconciled(r) ==
    /\ promo.pc = "reconcile" /\ promo.run = r
    /\ \E payload \in ReadReport(r) :
         StartWrite("final", [ReceiptPayload(payload, TRUE)
                                EXCEPT !.status = "promoted", !.review = FALSE])
    /\ OnlySensorMoves /\ UnchangedByPromo

(* The last durable step: the tag that stops every later evaluation.       *)
TagPromoted(r) ==
    /\ promo.pc = "tag" /\ promo.run = r
    /\ tagged' = tagged \cup {r}
    /\ promo' = IdlePromo
    /\ UNCHANGED << catalogVars, report, inflight, published >>
    /\ UnchangedByPromo

FinishPromotion(r) ==
    \/ CleanSkipped(r) \/ CleanDropCatalog(r) \/ CleanFailed(r)
    \/ \E ack \in BOOLEAN : CleanDelete(r, ack)
    \/ Reconciled(r) \/ TagPromoted(r)

-----------------------------------------------------------------------------
(* Seeded defect: the branch is cleaned up as soon as the intent is durable *)
CleanBeforeMerge == [note |-> "idle", intent |-> "clean", receipt |-> "clean",
                     deleted |-> "reconcile", final |-> "tag"]

(* Where a report write that returned True leads; False always returns.    *)
AfterWrite == [note |-> "idle", intent |-> "merge", receipt |-> "clean",
               deleted |-> "reconcile", final |-> "tag"]

PromoReplace(outcome) ==
    /\ promo.pc \in DOMAIN AfterWrite
    /\ Replace(promo.run, promo.out, outcome)
    /\ promo' = IF outcome = "done" /\ promo.pc # "note"
                THEN [promo EXCEPT !.pc = AfterWrite[promo.pc],
                                   !.out = EmptyReport]
                ELSE IdlePromo
    /\ UNCHANGED << catalogVars, tagged, inflight, published >>
    /\ UnchangedByPromo

(* An exception ends the evaluation of this run, or the daemon dies.       *)
PromoAbort ==
    /\ promo.pc # "idle"
    /\ promo' = IdlePromo
    /\ OnlySensorMoves /\ UnchangedByPromo

SensorStep ==
    \/ \E r \in Runs : Scan(r) \/ Decide(r) \/ Merge(r) \/ FinishPromotion(r)
    \/ \E o \in WriteOutcome : PromoReplace(o)
    \/ PromoAbort

PromoStep == SensorStep \/ \E request \in inflight : LatePut(request)
=============================================================================
