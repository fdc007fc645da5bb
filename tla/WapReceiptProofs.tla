-------------------------- MODULE WapReceiptProofs --------------------------
(***************************************************************************)
(* What the reports of the branch strategy say, and what happens to the    *)
(* branches they speak of, for any number of runs and any bounds.          *)
(*                                                                         *)
(* Whatever is lost, unreadable or overwritten: a receipt, a promoted      *)
(* report and the phlo/wap_promoted tag exist only for published runs      *)
(* (ReportsTellTheTruth), and no branch is deleted under a run that is not *)
(* over (ActiveBranchesStay). The other theorems hold under a condition on *)
(* the faults or on the retention, which each one states; it is as weak as *)
(* the code allows, since the property can fail without it.                *)
(*                                                                         *)
(* A report replacement takes two steps and may carry what another process *)
(* has read in between. The invariants therefore follow a claim, an intent *)
(* or a hash through every place it can be in: the reports, the tags, the  *)
(* abandoned requests, and what the two sensors have read and are about to *)
(* write.                                                                  *)
(***************************************************************************)
EXTENDS WapSafetyProofs

Claims(rep) == rep.merge = "merged" \/ rep.status = "promoted"

AfterMerge == {"receipt", "clean", "delete", "deleted", "reconcile", "final",
               "tag"}

ReportClaims == \A r \in Runs : Claims(report[r]) => Published(r)

TagClaims == \A r \in tagged : Published(r)

PromoClaims ==
    /\ Claims(promo.out) => Published(promo.run)
    /\ promo.prior.merge = "merged" => Published(promo.run)
    /\ promo.pc \in AfterMerge => Published(promo.run)

SweepClaims == Claims(sweep.out) => Published(sweep.run)

ReceiptInv == /\ TypeOK
              /\ ReportClaims /\ TagClaims /\ PromoClaims /\ SweepClaims

LEMMA InitReceipt == Init => ReceiptInv
  BY InitType
     DEF Init, ReceiptInv, ReportClaims, TagClaims, PromoClaims, SweepClaims,
         Claims, EmptyReport, IdlePromo, IdleSweep, PriorOf, AfterMerge

(* Publications are never taken back.                                      *)
LEMMA PublishedStays ==
    ASSUME [Next]_vars
    PROVE  published \subseteq published'
  <1>1. PromoStep => published \subseteq published'
    BY Zenon DEF PromoStep, SensorStep, PromoReplace, PromoAbort, LatePut,
         Publish, Scan, ScanUnverified, ScanReexecution, ScanContextInvalid,
         ScanFailedRun, ScanEvidenceUnavailable, ScanChecksFailed,
         ScanGoverned, ScanPriorUnreadable, ScanAccepted, Decide,
         DecideMerged, DecideUnknown, DecideHashUnavailable, DecideDrift,
         DecideUnbound, DecideIntent, Merge, MergeReviewRequired,
         MergeUnproven, MergeProven, PutApplied, PutUnanswered, PutRefused,
         FinishPromotion, CleanSkipped, CleanDropCatalog, CleanFailed,
         CleanDelete, Reconciled, TagPromoted, OnlySensorMoves,
         PublicationVars
  <1>2. TargetCommit \/ UNCHANGED vars => published' = published
    BY DEF TargetCommit, vars
  <1>. QED
    BY <1>1, <1>2, LaunchFrame, RunFrame, SweepFrame DEF Next

(* A report that was read claims no more than the report does.             *)
LEMMA ReadClaims ==
    ASSUME ReportClaims, NEW r \in Runs, NEW payload \in ReadReport(r),
           Claims(payload)
    PROVE  Published(r)
  BY DEF ReportClaims, ReadReport, Claims, EmptyReport

(* Replacing a report by a payload that claims nothing new.                *)
LEMMA ReplaceClaims ==
    ASSUME TypeOK, ReportClaims, published \subseteq published',
           NEW r, NEW payload, NEW o, Replace(r, payload, o),
           Claims(payload) => Published(r)
    PROVE  ReportClaims'
  BY DEF TypeOK, ReportClaims, Replace, Published

(* A claim that is left alone stays true.                                  *)
LEMMA ClaimsKept ==
    ASSUME ReceiptInv, published \subseteq published'
    PROVE  /\ report' = report => ReportClaims'
           /\ tagged' = tagged => TagClaims'
           /\ promo' = promo => PromoClaims'
           /\ sweep' = sweep => SweepClaims'
  BY DEF ReceiptInv, ReportClaims, TagClaims, PromoClaims, SweepClaims,
         Published

-----------------------------------------------------------------------------
LEMMA LaunchClaims ==
    ASSUME ReceiptInv, [Next]_vars, NEW r \in Runs, LaunchStep(r)
    PROVE  ReportClaims' /\ TagClaims' /\ PromoClaims' /\ SweepClaims'
  <1>1. UNCHANGED << tagged, promo, sweep >>
    BY DEF LaunchStep, ReadTarget, CreateBranch, SealLaunch, Register,
           SubmitAccepted, SubmitFailed, LauncherCrash, sensorVars
  <1>2. ReportClaims'
    <2>1. ASSUME report' = report PROVE ReportClaims'
      BY <2>1, PublishedStays, ClaimsKept
    <2>2. ASSUME NEW payload \in ReadReport(r), NEW o,
                 \/ Replace(r, LaunchResult(r, payload), o)
                 \/ Replace(r, [LaunchResult(r, payload) EXCEPT !.reg = TRUE], o)
          PROVE  ReportClaims'
      <3>1. payload \in Report
        BY ReadFacts DEF ReceiptInv
      <3>2. /\ Claims(LaunchResult(r, payload)) => Published(r)
            /\ Claims([LaunchResult(r, payload) EXCEPT !.reg = TRUE])
                 => Published(r)
        BY <3>1, ReadClaims DEF ReceiptInv, Claims, LaunchResult, Report
      <3>. QED
        BY <2>2, <3>2, PublishedStays, ReplaceClaims DEF ReceiptInv
    <2>. QED
      BY <2>1, <2>2 DEF LaunchStep, ReadTarget, CreateBranch, SealLaunch,
           Register, SubmitAccepted, SubmitFailed, LauncherCrash
  <1>. QED
    BY <1>1, <1>2, PublishedStays, ClaimsKept

LEMMA SweepStepClaims ==
    ASSUME ReceiptInv, [Next]_vars, SweepStep
    PROVE  ReportClaims' /\ TagClaims' /\ PromoClaims' /\ SweepClaims'
  <1>. USE DEF ReceiptInv
  <1>0. sweep \in SweepState
    BY DEF TypeOK
  <1>1. UNCHANGED << tagged, promo >>
    BY Zenon DEF SweepStep, SweepList, SweepGap, SweepContextInvalid,
           SweepSkip, SweepApprove, SweepDropCatalog, SweepFailed, SweepDelete,
           SweepReplace, SweepAbort, UnchangedBySweep
  <1>2. ASSUME NEW o \in WriteOutcome, SweepReplace(o) PROVE ReportClaims'
    BY <1>2, PublishedStays, ReplaceClaims DEF SweepReplace, SweepClaims
  <1>3. (~\E o \in WriteOutcome : SweepReplace(o)) => report' = report
    BY Zenon DEF SweepStep, SweepList, SweepGap, SweepContextInvalid,
           SweepSkip, SweepApprove, SweepDropCatalog, SweepFailed, SweepDelete,
           SweepAbort
  <1>4. ASSUME NEW r \in Runs, NEW payload \in ReadReport(r), sweep.run = r,
               \/ SweepNote([payload EXCEPT !.status = "open"])
               \/ SweepNote(CleanupPayload(payload))
        PROVE  SweepClaims'
    <2>1. payload \in Report
      BY ReadFacts
    <2>2. sweep'.run = r /\ sweep'.out = [payload EXCEPT !.status = "open"]
      BY <1>0, <1>4 DEF SweepNote, CleanupPayload, SweepState
    <2>. QED
      BY <1>4, <2>1, <2>2, PublishedStays, ReadClaims
         DEF SweepClaims, Claims, Report, Published
  <1>5. ASSUME sweep'.out = EmptyReport PROVE SweepClaims'
    BY <1>5 DEF SweepClaims, Claims, EmptyReport
  <1>6. ASSUME sweep'.out = sweep.out, sweep'.run = sweep.run
        PROVE  SweepClaims'
    BY <1>6, PublishedStays DEF SweepClaims, Published
  <1>7. SweepClaims'
    <2>1. ASSUME NEW r \in Runs,
                 \/ SweepGap(r) \/ SweepContextInvalid(r)
                 \/ SweepFailed(r) \/ SweepDelete(r)
          PROVE  SweepClaims'
      BY <1>4, <2>1 DEF SweepGap, SweepContextInvalid, SweepFailed,
           SweepDelete, Listed
    <2>2. ASSUME NEW r \in Runs, SweepApprove(r) \/ SweepDropCatalog(r)
          PROVE  SweepClaims'
      BY Zenon, <1>0, <1>6, <2>2 DEF SweepApprove, StartSweep,
           SweepDropCatalog, SweepState
    <2>3. ASSUME NEW r \in Runs, SweepList(r) \/ SweepSkip(r)
          PROVE  SweepClaims'
      <3>1. sweep'.out = IdleSweep.out
        BY <2>3 DEF SweepList, SweepSkip, IdleSweep
      <3>. QED
        BY <1>5, <3>1 DEF IdleSweep
    <2>4. ASSUME NEW o, SweepReplace(o) \/ SweepAbort PROVE SweepClaims'
      BY <1>5, <2>4 DEF SweepReplace, SweepAbort, IdleSweep
    <2>. QED
      BY <2>1, <2>2, <2>3, <2>4 DEF SweepStep
  <1>. QED
    BY <1>1, <1>2, <1>3, <1>7, PublishedStays, ClaimsKept
-----------------------------------------------------------------------------
(* A payload that was read and only reopened claims nothing new.           *)
LEMMA Reopened ==
    ASSUME ReceiptInv, NEW r \in Runs, NEW payload \in ReadReport(r),
           NEW next, next.status = "open", next.merge = payload.merge
    PROVE  Claims(next) => Published(r)
  BY ReadClaims DEF ReceiptInv, Claims

LEMMA NoteClaims ==
    ASSUME published \subseteq published', NEW r \in Runs, NEW payload,
           Note(r, payload), Claims(payload) => Published(r)
    PROVE  PromoClaims'
  <1>1. /\ promo'.pc = "note" /\ promo'.run = r /\ promo'.out = payload
        /\ promo'.prior = IdlePromo.prior
    BY DEF Note, IdlePromo
  <1>2. promo'.prior.merge = "none"
    BY <1>1 DEF IdlePromo, PriorOf, EmptyReport
  <1>. QED
    BY <1>1, <1>2 DEF PromoClaims, AfterMerge, Published

LEMMA IdleClaims ==
    ASSUME promo' = IdlePromo
    PROVE  PromoClaims'
  BY DEF PromoClaims, IdlePromo, PriorOf, EmptyReport, Claims, AfterMerge

(* The sensor goes on with the same run and the same prior report.         *)
LEMMA GoesOn ==
    ASSUME ReceiptInv, published \subseteq published',
           promo'.run = promo.run, promo'.prior = promo.prior,
           Claims(promo'.out) => Published(promo.run),
           promo'.pc \in AfterMerge => Published(promo.run)
    PROVE  PromoClaims'
  BY DEF ReceiptInv, PromoClaims, Published

LEMMA ScanClaims ==
    ASSUME ReceiptInv, [Next]_vars, NEW r \in Runs, Scan(r)
    PROVE  PromoClaims'
  <1>. USE PublishedStays
  <1>1. ReadReport(r) \subseteq Report
    BY ReadFacts DEF ReceiptInv
  <1>2. ASSUME NEW payload \in ReadReport(r),
               Note(r, [payload EXCEPT !.status = "open"])
        PROVE  PromoClaims'
    BY <1>1, <1>2, Reopened, NoteClaims DEF Report
  <1>3. CASE ScanChecksFailed(r)
    <2>1. PICK payload \in ReadReport(r), hash \in ReadHash(head[r]) :
            Note(r, [payload EXCEPT !.status = "open", !.src = hash])
      BY Zenon, <1>3 DEF ScanChecksFailed
    <2>. QED
      BY <1>1, <2>1, Reopened, NoteClaims DEF Report
  <1>4. ASSUME NEW review \in BOOLEAN, ScanGoverned(r, review)
        PROVE  PromoClaims'
    <2>1. PICK payload \in ReadReport(r) :
            Note(r, [payload EXCEPT !.status = "open",
                                    !.review = @ \/ review])
      BY Zenon, <1>4 DEF ScanGoverned
    <2>. QED
      BY <1>1, <2>1, Reopened, NoteClaims DEF Report
  <1>5. CASE ScanAccepted(r)
    <2>1. /\ promo'.pc = "decide" /\ promo'.run = r
          /\ promo'.out = EmptyReport /\ promo'.prior = PriorOf(report[r])
      BY <1>5 DEF ScanAccepted, IdlePromo
    <2>2. promo'.prior.merge = report[r].merge
      BY <2>1 DEF PriorOf
    <2>. QED
      BY <2>1, <2>2 DEF PromoClaims, AfterMerge, Claims, EmptyReport,
           ReceiptInv, ReportClaims, Published
  <1>. QED
    BY <1>2, <1>3, <1>4, <1>5
       DEF Scan, ScanUnverified, ScanReexecution, ScanContextInvalid,
           ScanFailedRun, ScanEvidenceUnavailable, ScanPriorUnreadable

LEMMA DecideClaims ==
    ASSUME ReceiptInv, [Next]_vars, NEW r \in Runs, Decide(r)
    PROVE  PromoClaims'
  <1>. USE PublishedStays
  <1>0. promo \in PromoState /\ ReadReport(r) \subseteq Report
    BY ReadFacts DEF ReceiptInv, TypeOK
  <1>1. CASE DecideMerged(r)
    <2>1. /\ promo'.run = promo.run /\ promo'.prior = promo.prior
          /\ promo'.out = promo.out
      BY <1>0, <1>1 DEF DecideMerged, PromoState
    <2>2. Published(promo.run)
      BY <1>1 DEF DecideMerged, ReceiptInv, PromoClaims
    <2>. QED
      BY <2>1, <2>2, GoesOn
  <1>2. CASE DecideIntent(r)
    <2>1. /\ promo'.run = promo.run /\ promo'.prior = promo.prior
          /\ promo'.pc = "intent"
      BY <1>0, <1>2 DEF DecideIntent, PromoState
    <2>2. promo'.out.status = "open" /\ promo'.out.merge = "merge_started"
      <3>1. PICK payload \in ReadReport(r) :
              promo' = [promo EXCEPT !.pc = "intent", !.src = head[r],
                     !.out = [payload EXCEPT !.status = "open",
                                !.merge = "merge_started", !.src = head[r]]]
        BY Zenon, <1>2 DEF DecideIntent
      <3>. QED
        BY <1>0, <3>1 DEF Report, PromoState
    <2>. QED
      BY <2>1, <2>2, GoesOn DEF Claims, AfterMerge
  <1>3. ASSUME NEW payload \in ReadReport(r),
               \/ Note(r, [payload EXCEPT !.status = "open"])
               \/ Note(r, [payload EXCEPT !.status = "open", !.src = head[r]])
        PROVE  PromoClaims'
    BY <1>0, <1>3, Reopened, NoteClaims DEF Report
  <1>. QED
    BY Zenon, <1>1, <1>2, <1>3 DEF Decide, DecideUnknown,
         DecideHashUnavailable, DecideDrift, DecideUnbound

LEMMA MergeClaims ==
    ASSUME ReceiptInv, [Next]_vars, NEW r \in Runs, Merge(r)
    PROVE  PromoClaims'
  <1>. USE PublishedStays
  <1>0. promo \in PromoState /\ ReadReport(r) \subseteq Report
    BY ReadFacts DEF ReceiptInv, TypeOK
  <1>1. CASE MergeReviewRequired(r)
    <2>1. PICK payload \in ReadReport(r) :
            Note(r, [payload EXCEPT !.status = "open",
                               !.merge = "review_required", !.review = TRUE])
      BY Zenon, <1>1 DEF MergeReviewRequired
    <2>. QED
      BY <1>0, <2>1, NoteClaims DEF Report, Claims
  <1>2. CASE MergeUnproven(r) \/ PutRefused(r)
    <2>1. PICK payload \in ReadReport(r) : Note(r, FailedPayload(payload))
      BY <1>2 DEF MergeUnproven, PutRefused
    <2>2. ~Claims(FailedPayload(payload))
      BY <1>0 DEF FailedPayload, Report, Claims
    <2>. QED
      BY <2>1, <2>2, NoteClaims
  <1>3. CASE MergeProven(r)
    <2>1. /\ promo'.run = promo.run /\ promo'.prior = promo.prior
          /\ promo'.out = promo.out /\ promo'.pc = "put"
      BY <1>0, <1>3 DEF MergeProven, PromoState
    <2>. QED
      BY <2>1, GoesOn DEF AfterMerge, ReceiptInv, PromoClaims
  <1>4. CASE PutApplied(r)
    <2>1. promo'.run = r
      BY <1>0, <1>4 DEF PutApplied, StartWrite, PromoState
    <2>2. Published(r)'
      <3> DEFINE p == [run |-> r, from |-> target, to |-> promo.src]
      <3>1. p \in published'
        BY <1>4 DEF PutApplied, Publish
      <3>2. p.run = r
        OBVIOUS
      <3>. QED
        BY <3>1, <3>2 DEF Published
    <2>. QED
      BY <2>1, <2>2 DEF PromoClaims, Published
  <1>5. CASE PutUnanswered(r)
    BY <1>5, IdleClaims DEF PutUnanswered
  <1>. QED
    BY <1>1, <1>2, <1>3, <1>4, <1>5 DEF Merge

LEMMA FinishClaims ==
    ASSUME ReceiptInv, [Next]_vars, NEW r \in Runs, FinishPromotion(r)
    PROVE  PromoClaims' /\ TagClaims'
  <1>. USE PublishedStays
  <1>0. promo \in PromoState
    BY DEF ReceiptInv, TypeOK
  <1>1. promo.run = r /\ Published(r)
    BY Zenon DEF FinishPromotion, CleanSkipped, CleanDropCatalog, CleanFailed,
           CleanDelete, Reconciled, TagPromoted, ReceiptInv, PromoClaims,
           AfterMerge
  <1>2. promo'.run = r \/ promo' = IdlePromo
    BY Zenon, <1>0, <1>1 DEF FinishPromotion, CleanSkipped, CleanDropCatalog,
         CleanFailed, CleanDelete, Reconciled, TagPromoted, StartWrite, Note,
         PromoState, IdlePromo
  <1>3. tagged' = tagged \/ tagged' = tagged \cup {r}
    BY Zenon DEF FinishPromotion, CleanSkipped, CleanDropCatalog, CleanFailed,
           CleanDelete, Reconciled, TagPromoted, OnlySensorMoves,
           PublicationVars
  <1>4. Published(r)'
    BY <1>1 DEF Published
  <1>5. PromoClaims'
    BY <1>2, <1>4, IdleClaims DEF PromoClaims
  <1>6. TagClaims'
    BY <1>3, <1>4 DEF ReceiptInv, TagClaims, Published
  <1>. QED
    BY <1>5, <1>6

LEMMA PromoReplaceClaims ==
    ASSUME ReceiptInv, [Next]_vars, NEW o \in WriteOutcome, PromoReplace(o)
    PROVE  ReportClaims' /\ PromoClaims'
  <1>. USE PublishedStays
  <1>0. promo \in PromoState
    BY DEF ReceiptInv, TypeOK
  <1>1. ReportClaims'
    BY ReplaceClaims DEF PromoReplace, ReceiptInv, PromoClaims
  <1>2. CASE o = "done" /\ promo.pc # "note"
    <2>1. /\ promo'.run = promo.run /\ promo'.prior = promo.prior
          /\ promo'.out = EmptyReport /\ promo'.pc = AfterWrite[promo.pc]
      BY <1>0, <1>2 DEF PromoReplace, PromoState
    <2>2. promo.pc \in AfterMerge \/ promo'.pc = "merge"
      BY <1>2, <2>1 DEF PromoReplace, AfterWrite, AfterMerge
    <2>3. ~Claims(promo'.out)
      BY <2>1 DEF Claims, EmptyReport
    <2>. QED
      BY <1>1, <2>1, <2>2, <2>3, GoesOn
         DEF ReceiptInv, PromoClaims, AfterMerge
  <1>. QED
    BY <1>1, <1>2, IdleClaims DEF PromoReplace

LEMMA PromoStepClaims ==
    ASSUME ReceiptInv, [Next]_vars, PromoStep
    PROVE  ReportClaims' /\ TagClaims' /\ PromoClaims' /\ SweepClaims'
  <1>. USE PublishedStays, ClaimsKept
  <1>1. SweepClaims'
    BY Zenon DEF PromoStep, SensorStep, PromoReplace, PromoAbort, LatePut,
         Scan, ScanUnverified, ScanReexecution, ScanContextInvalid,
         ScanFailedRun, ScanEvidenceUnavailable, ScanChecksFailed,
         ScanGoverned, ScanPriorUnreadable, ScanAccepted, Decide,
         DecideMerged, DecideUnknown, DecideHashUnavailable, DecideDrift,
         DecideUnbound, DecideIntent, Merge, MergeReviewRequired,
         MergeUnproven, MergeProven, PutApplied, PutUnanswered, PutRefused,
         FinishPromotion, CleanSkipped, CleanDropCatalog, CleanFailed,
         CleanDelete, Reconciled, TagPromoted, UnchangedByPromo
  <1>2. ASSUME NEW r \in Runs, Scan(r) \/ Decide(r) \/ Merge(r)
        PROVE  ReportClaims' /\ TagClaims' /\ PromoClaims'
    <2>1. report' = report /\ tagged' = tagged
      BY Zenon, <1>2 DEF Scan, ScanUnverified, ScanReexecution,
         ScanContextInvalid, ScanFailedRun, ScanEvidenceUnavailable,
         ScanChecksFailed, ScanGoverned, ScanPriorUnreadable, ScanAccepted,
         Decide, DecideMerged, DecideUnknown, DecideHashUnavailable,
         DecideDrift, DecideUnbound, DecideIntent, Merge, MergeReviewRequired,
         MergeUnproven, MergeProven, PutApplied, PutUnanswered, PutRefused,
         OnlySensorMoves, PublicationVars
    <2>. QED
      BY <1>2, <2>1, ScanClaims, DecideClaims, MergeClaims
  <1>3. ASSUME NEW r \in Runs, FinishPromotion(r)
        PROVE  ReportClaims' /\ TagClaims' /\ PromoClaims'
    <2>1. report' = report
      BY Zenon, <1>3 DEF FinishPromotion, CleanSkipped, CleanDropCatalog,
         CleanFailed, CleanDelete, Reconciled, TagPromoted, OnlySensorMoves,
         PublicationVars
    <2>. QED
      BY <1>3, <2>1, FinishClaims
  <1>4. ASSUME NEW o \in WriteOutcome, PromoReplace(o)
        PROVE  ReportClaims' /\ TagClaims' /\ PromoClaims'
    BY <1>4, PromoReplaceClaims DEF PromoReplace
  <1>5. CASE PromoAbort
    <2>1. report' = report /\ tagged' = tagged /\ promo' = IdlePromo
      BY <1>5 DEF PromoAbort, OnlySensorMoves, PublicationVars
    <2>. QED
      BY <1>1, <2>1, IdleClaims
  <1>6. ASSUME NEW q, LatePut(q)
        PROVE  ReportClaims' /\ TagClaims' /\ PromoClaims'
    BY <1>6 DEF LatePut
  <1>. QED
    BY <1>1, <1>2, <1>3, <1>4, <1>5, <1>6 DEF PromoStep, SensorStep

-----------------------------------------------------------------------------
LEMMA ReceiptInvStep == ReceiptInv /\ [Next]_vars => ReceiptInv'
  <1>. SUFFICES ASSUME ReceiptInv, [Next]_vars PROVE ReceiptInv'
    OBVIOUS
  <1>1. TypeOK'
    BY TypeStep DEF ReceiptInv
  <1>2. ASSUME UNCHANGED << report, tagged, promo, sweep >>
        PROVE  ReportClaims' /\ TagClaims' /\ PromoClaims' /\ SweepClaims'
    BY <1>2, PublishedStays, ClaimsKept
  <1>3. CASE TargetCommit \/ UNCHANGED vars
    <2>1. UNCHANGED << report, tagged, promo, sweep >>
      BY <1>3 DEF TargetCommit, sensorVars, vars
    <2>. QED
      BY <1>1, <1>2, <2>1 DEF ReceiptInv
  <1>4. ASSUME NEW r \in Runs, RunStep(r) PROVE ReceiptInv'
    <2>1. UNCHANGED << report, tagged, promo, sweep >>
      BY <1>4 DEF RunStep, VerifyExecution, VerifyTimeout, WriteAsset,
           AuditBegin, AuditEnd, AuditDisturbed, UnboundCheck, Finish,
           Reexecute, Age, UnchangedByRun, sensorVars
    <2>. QED
      BY <1>1, <1>2, <2>1 DEF ReceiptInv
  <1>5. ASSUME NEW r \in Runs, LaunchStep(r) PROVE ReceiptInv'
    BY <1>1, <1>5, LaunchClaims DEF ReceiptInv
  <1>6. CASE PromoStep \/ SweepStep
    BY <1>1, <1>6, PromoStepClaims, SweepStepClaims DEF ReceiptInv
  <1>. QED
    BY <1>3, <1>4, <1>5, <1>6 DEF Next

(* A merge receipt, a promoted report and the phlo/wap_promoted tag are    *)
(* only ever seen for a run whose publication took effect.                 *)
THEOREM ReportsTellTheTruth == Spec => []ReceiptsAreTruthful
  <1>1. ReceiptInv => ReceiptsAreTruthful
    BY DEF ReceiptInv, ReportClaims, TagClaims, Claims, ReceiptsAreTruthful
  <1>2. Spec => []ReceiptInv
    BY InitReceipt, ReceiptInvStep, PTL DEF Spec
  <1>. QED
    BY <1>1, <1>2, PTL

-----------------------------------------------------------------------------
(* The branches.  A step that changes a branch creates it, commits on it,  *)
(* or is one of the two conditional deletions.                             *)

Created(r) ==
    /\ launch[r] = "read" /\ launch'[r] \in {"created", "stopped"}
    /\ head'[r] = target

PromotionDeletes(r) ==
    /\ promo.pc = "delete" /\ promo.run = r
    /\ promo.src # NoHash => head[r] = promo.src
    /\ head[r] # NoHash /\ head'[r] = NoHash

SweepDeletes(r) ==
    /\ sweep.pc = "delete" /\ sweep.run = r
    /\ head[r] # NoHash /\ head'[r] = NoHash
    /\ promo' = promo

LEMMA HeadCases ==
    ASSUME TypeOK, [Next]_vars, NEW r \in Runs
    PROVE  \/ head'[r] = head[r]
           \/ Created(r)
           \/ WriteAsset(r)
           \/ PromotionDeletes(r)
           \/ SweepDeletes(r)
  <1>. DEFINE Cases == \/ head'[r] = head[r] \/ Created(r) \/ WriteAsset(r)
                       \/ PromotionDeletes(r) \/ SweepDeletes(r)
  <1>0. head \in [Runs -> Hash]
    BY DEF TypeOK
  <1>1. ASSUME NEW s \in Runs, LaunchStep(s) PROVE Cases
    <2>1. ASSUME NEW o \in {"done", "refused", "unacknowledged"},
                 CreateBranch(s, o)
          PROVE  Cases
      BY <1>0, <2>1 DEF CreateBranch, Created, TypeOK
    <2>2. (~\E o \in {"done", "refused", "unacknowledged"} :
               CreateBranch(s, o)) => head' = head
      BY <1>1 DEF LaunchStep, ReadTarget, SealLaunch, Register,
           SubmitAccepted, SubmitFailed, LauncherCrash, catalogVars
    <2>. QED
      BY <2>1, <2>2
  <1>2. ASSUME NEW s \in Runs, RunStep(s) PROVE Cases
    <2>1. WriteAsset(s) \/ head' = head
      BY <1>2 DEF RunStep, VerifyExecution, VerifyTimeout, AuditBegin,
           AuditEnd, AuditDisturbed, UnboundCheck, Finish, Reexecute, Age,
           catalogVars
    <2>. QED
      BY <1>0, <2>1 DEF WriteAsset
  <1>3. ASSUME NEW s \in Runs, FinishPromotion(s) PROVE Cases
    <2>1. ASSUME NEW a \in BOOLEAN, CleanDelete(s, a) PROVE Cases
      BY <1>0, <2>1 DEF CleanDelete, DeleteAllowed, PromotionDeletes
    <2>2. (~\E a \in BOOLEAN : CleanDelete(s, a)) => head' = head
      BY Zenon, <1>3 DEF FinishPromotion, CleanSkipped, CleanDropCatalog,
           CleanFailed, Reconciled, TagPromoted, OnlySensorMoves, catalogVars
    <2>. QED
      BY <2>1, <2>2
  <1>4. PromoStep => head' = head \/ \E s \in Runs : FinishPromotion(s)
    BY Zenon DEF PromoStep, SensorStep, PromoReplace, PromoAbort, LatePut,
         Scan, ScanUnverified, ScanReexecution, ScanContextInvalid,
         ScanFailedRun, ScanEvidenceUnavailable, ScanChecksFailed,
         ScanGoverned, ScanPriorUnreadable, ScanAccepted, Decide,
         DecideMerged, DecideUnknown, DecideHashUnavailable, DecideDrift,
         DecideUnbound, DecideIntent, Merge, MergeReviewRequired,
         MergeUnproven, MergeProven, PutApplied, PutUnanswered, PutRefused,
         OnlySensorMoves, catalogVars
  <1>5. ASSUME NEW s \in Runs, SweepDelete(s) PROVE Cases
    BY <1>0, <1>5 DEF SweepDelete, DeleteAllowed, SweepDeletes,
                      UnchangedBySweep
  <1>6. SweepStep => head' = head \/ \E s \in Runs : SweepDelete(s)
    BY Zenon DEF SweepStep, SweepList, SweepGap, SweepContextInvalid,
         SweepSkip, SweepApprove, SweepDropCatalog, SweepFailed,
         SweepReplace, SweepAbort
  <1>7. TargetCommit \/ UNCHANGED vars => head' = head
    BY DEF TargetCommit, vars
  <1>. QED
    BY <1>1, <1>2, <1>3, <1>4, <1>5, <1>6, <1>7 DEF Next

(* What a step does to a launcher.                                         *)
LEMMA LaunchCases ==
    ASSUME TypeOK, [Next]_vars, NEW r \in Runs, launch'[r] # launch[r]
    PROVE  \/ launch[r] = "idle" /\ launch'[r] = "read"
           \/ launch[r] = "read" /\ launch'[r] = "created" /\ head'[r] = target
           \/ launch[r] = "created" /\ launch'[r] = "sealed"
           \/ launch[r] = "sealed" /\ launch'[r] = "accepted"
           \/ launch[r] = "accepted" /\ launch'[r] = "done"
           \/ launch[r] \notin {"idle", "done"} /\ launch'[r] = "stopped"
  <1>. DEFINE Cases ==
           \/ launch[r] = "idle" /\ launch'[r] = "read"
           \/ launch[r] = "read" /\ launch'[r] = "created" /\ head'[r] = target
           \/ launch[r] = "created" /\ launch'[r] = "sealed"
           \/ launch[r] = "sealed" /\ launch'[r] = "accepted"
           \/ launch[r] = "accepted" /\ launch'[r] = "done"
           \/ launch[r] \notin {"idle", "done"} /\ launch'[r] = "stopped"
  <1>1. ASSUME NEW s \in Runs, RunStep(s) PROVE launch' = launch
    BY <1>1, RunFrame
  <1>2. TargetCommit \/ UNCHANGED vars => launch' = launch
    BY DEF TargetCommit, launchVars, vars
  <1>3. launch \in [Runs -> LaunchPc] /\ head \in [Runs -> Hash]
    BY DEF TypeOK
  <1>4. ASSUME NEW s \in Runs, LaunchStep(s) PROVE Cases
    <2>1. ASSUME NEW o \in {"done", "refused", "unacknowledged"},
                 CreateBranch(s, o)
          PROVE  Cases
      BY <1>3, <2>1 DEF CreateBranch
    <2>2. ASSUME NEW o \in WriteOutcome, SealLaunch(s, o) PROVE Cases
      BY <1>3, <2>2 DEF SealLaunch
    <2>3. ASSUME NEW o \in WriteOutcome, Register(s, o) PROVE Cases
      BY <1>3, <2>3 DEF Register
    <2>4. ASSUME NEW c \in BOOLEAN, NEW o \in WriteOutcome,
                 SubmitFailed(s, c, o)
          PROVE  Cases
      BY <1>3, <2>4 DEF SubmitFailed
    <2>5. CASE ReadTarget(s)
      BY <1>3, <2>5 DEF ReadTarget
    <2>6. CASE SubmitAccepted(s)
      BY <1>3, <2>6 DEF SubmitAccepted
    <2>7. CASE LauncherCrash(s)
      BY <1>3, <2>7 DEF LauncherCrash
    <2>. HIDE DEF Cases
    <2>. QED
      BY <1>4, <2>1, <2>2, <2>3, <2>4, <2>5, <2>6, <2>7 DEF LaunchStep
  <1>. QED
    BY <1>1, <1>2, <1>4, PromoFrame, SweepFrame DEF Next

(* What a step does to the status of a run.                                *)
LEMMA RunCases ==
    ASSUME TypeOK, LaunchInv, [Next]_vars, NEW r \in Runs
    PROVE  \/ run'[r] = run[r]
           \/ /\ launch[r] = "sealed" /\ launch'[r] \in {"accepted", "stopped"}
              /\ run[r] = "none" /\ run'[r] = "starting"
           \/ /\ run[r] = "starting" /\ run'[r] = "started"
              /\ report[r].reg
           \/ run[r] = "starting" /\ run'[r] \in {"failed", "cancelled"}
           \/ run[r] = "started" /\ run'[r] \in Terminal
  <1>. DEFINE Cases ==
         \/ run'[r] = run[r]
         \/ /\ launch[r] = "sealed" /\ launch'[r] \in {"accepted", "stopped"}
            /\ run[r] = "none" /\ run'[r] = "starting"
         \/ /\ run[r] = "starting" /\ run'[r] = "started"
            /\ report[r].reg
         \/ run[r] = "starting" /\ run'[r] \in {"failed", "cancelled"}
         \/ run[r] = "started" /\ run'[r] \in Terminal
  <1>1. ASSUME NEW s \in Runs, LaunchStep(s) PROVE Cases
    <2>1. s = r /\ launch[r] = "sealed" => run[r] = "none"
      BY DEF LaunchInv
    <2>. QED
      BY <1>1, <2>1 DEF TypeOK, LaunchStep, ReadTarget, CreateBranch,
         SealLaunch, Register, SubmitAccepted, SubmitFailed, LauncherCrash,
         runVars
  <1>2. ASSUME NEW s \in Runs, RunStep(s) PROVE Cases
    <2>0. run \in [Runs -> RunStatuses]
      BY DEF TypeOK
    <2>1. CASE VerifyExecution(s) \/ VerifyTimeout(s) \/ AuditDisturbed(s)
      BY <2>0, <2>1 DEF VerifyExecution, VerifyTimeout, AuditDisturbed,
                        Terminal
    <2>2. ASSUME NEW t \in Terminal, Finish(s, t) PROVE Cases
      BY <2>0, <2>2 DEF Finish, Terminal
    <2>3. \/ VerifyExecution(s) \/ VerifyTimeout(s) \/ AuditDisturbed(s)
          \/ \E t \in Terminal : Finish(s, t)
          \/ run' = run
      BY <1>2 DEF RunStep, WriteAsset, AuditBegin, AuditEnd, UnboundCheck,
                  Reexecute, Age, UnchangedByRun, runVars
    <2>. QED
      BY <2>1, <2>2, <2>3
  <1>3. TargetCommit \/ UNCHANGED vars => run' = run
    BY DEF TargetCommit, runVars, vars
  <1>. QED
    BY <1>1, <1>2, <1>3, PromoFrame, SweepFrame DEF Next

-----------------------------------------------------------------------------
(* No branch is deleted under a run that still needs it: the promotion     *)
(* sensor deletes after an approved audit, the cleanup sensor after it saw *)
(* a terminal status, and a terminal status is final.                      *)

SealedHasBranch ==
    \A r \in Runs : launch[r] \in {"created", "sealed"} => head[r] # NoHash

SweepsEndedRuns ==
    sweep.pc \in {"drop", "delete"} =>
        sweep.run \in Runs /\ run[sweep.run] \in Terminal

BranchInv == IInv /\ SealedHasBranch /\ SweepsEndedRuns
                  /\ NoActiveBranchDeleted

LEMMA InitBranch == Init => BranchInv
  BY InitIInv DEF Init, BranchInv, SealedHasBranch, SweepsEndedRuns,
                  NoActiveBranchDeleted, IdleSweep

(* A deleted branch belonged to a run that was over.                       *)
LEMMA DeletedRunIsOver ==
    ASSUME BranchInv, NEW r \in Runs, PromotionDeletes(r) \/ SweepDeletes(r)
    PROVE  run[r] \in Terminal
  BY DEF BranchInv, IInv, PromoInv, Approved, PromotionDeletes, SweepDeletes,
         SweepsEndedRuns, Terminal

LEMMA TerminalIsFinal ==
    ASSUME TypeOK, LaunchInv, [Next]_vars, NEW r \in Runs,
           run[r] \in Terminal
    PROVE  run'[r] = run[r]
  BY RunCases DEF Terminal

(* A branch that is there stays there until its run is over.               *)
LEMMA HeadKept ==
    ASSUME BranchInv, [Next]_vars, NEW r \in Runs, head[r] # NoHash,
           run[r] \notin Terminal
    PROVE  head'[r] # NoHash
  <1>. USE DEF BranchInv, IInv
  <1>1. CASE Created(r)
    BY <1>1 DEF Created, LaunchInv
  <1>2. CASE WriteAsset(r)
    <2>1. head[r] \in Hash /\ head'[r] = CommitOn(head[r], r)
      BY <1>2 DEF WriteAsset, TypeOK
    <2>. QED
      BY <2>1, CommitExtends DEF Hash
  <1>. QED
    BY <1>1, <1>2, HeadCases, DeletedRunIsOver

LEMMA SealedHasBranchStep ==
    ASSUME BranchInv, [Next]_vars
    PROVE  SealedHasBranch'
  <1>. USE DEF BranchInv, IInv
  <1>1. SUFFICES ASSUME NEW r \in Runs, launch'[r] \in {"created", "sealed"}
                 PROVE  head'[r] # NoHash
    BY DEF SealedHasBranch
  <1>2. launch[r] \in {"created", "sealed"} => run[r] \notin Terminal
    BY DEF LaunchInv, Terminal
  <1>3. target # NoHash
    BY DEF LaunchInv
  <1>. QED
    BY <1>1, <1>2, <1>3, LaunchCases, HeadKept DEF SealedHasBranch

LEMMA NoActiveBranchDeletedStep ==
    ASSUME BranchInv, [Next]_vars
    PROVE  NoActiveBranchDeleted'
  <1>. USE DEF BranchInv, IInv
  <1>1. SUFFICES ASSUME NEW r \in Runs, run'[r] \in {"starting", "started"}
                 PROVE  head'[r] # NoHash
    BY DEF NoActiveBranchDeleted
  <1>2. run[r] \notin Terminal
    BY <1>1, TerminalIsFinal DEF Terminal
  <1>3. head[r] # NoHash
    BY <1>1, RunCases DEF SealedHasBranch, NoActiveBranchDeleted
  <1>. QED
    BY <1>2, <1>3, HeadKept

(* What a read of r's report gives a sensor: the report, or nothing.       *)
Copies(out, r) ==
    /\ out.status = "open"
    /\ out.deleted => report[r].deleted
    /\ \/ out.reg = report[r].reg /\ out.merge = report[r].merge
       \/ "report_read" \in Faults /\ ~out.reg /\ out.merge = "none"

CopiesSource(out, r) == out.merge = "merged" => out.src = report[r].src

LEMMA ReadCopies ==
    ASSUME TypeOK, NEW r \in Runs, NEW payload \in ReadReport(r),
           NEW h, NEW b
    PROVE  /\ Copies([payload EXCEPT !.status = "open"], r)
           /\ CopiesSource([payload EXCEPT !.status = "open"], r)
           /\ Copies([payload EXCEPT !.status = "open", !.review = b], r)
           /\ CopiesSource([payload EXCEPT !.status = "open", !.review = b], r)
           /\ Copies([payload EXCEPT !.status = "open", !.src = h], r)
  BY ReadFacts DEF ReadReport, EmptyReport, Report, Copies, CopiesSource

(* What a step does to the cleanup sensor.                                 *)
SweepLists ==
    /\ sweep.pc = "idle" /\ sweep'.pc = "listed"
    /\ sweep'.run \in aged /\ sweep'.out = EmptyReport
    /\ report' = report

SweepNotes ==
    /\ sweep.pc # "idle" /\ sweep'.pc = "note"
    /\ sweep.run \in Runs /\ sweep'.run = sweep.run
    /\ Copies(sweep'.out, sweep.run) /\ CopiesSource(sweep'.out, sweep.run)
    /\ report' = report

SweepApproves ==
    /\ sweep.pc = "listed" /\ sweep'.pc = "drop"
    /\ sweep.run \in Runs /\ sweep'.run = sweep.run /\ sweep'.out = sweep.out
    /\ run[sweep.run] \in Terminal
    /\ report' = report

SweepDrops ==
    /\ sweep.pc = "drop" /\ sweep'.pc = "delete"
    /\ sweep.run \in Runs /\ sweep'.run = sweep.run /\ sweep'.out = sweep.out
    /\ queryCat' = queryCat \ {sweep.run}
    /\ report' = report

LEMMA SweepCases ==
    ASSUME TypeOK, [Next]_vars, sweep' # sweep
    PROVE  /\ SweepStep
           /\ \/ sweep' = IdleSweep
              \/ SweepLists
              \/ SweepNotes
              \/ SweepApproves
              \/ SweepDrops
  <1>0. sweep \in SweepState
    BY DEF TypeOK
  <1>1. ASSUME NEW s \in Runs, LaunchStep(s) PROVE sweep' = sweep
    BY <1>1 DEF LaunchStep, ReadTarget, CreateBranch, SealLaunch, Register,
         SubmitAccepted, SubmitFailed, LauncherCrash, sensorVars
  <1>2. ASSUME NEW s \in Runs, RunStep(s) PROVE sweep' = sweep
    BY <1>2 DEF RunStep, VerifyExecution, VerifyTimeout, WriteAsset,
         AuditBegin, AuditEnd, AuditDisturbed, UnboundCheck, Finish,
         Reexecute, Age, UnchangedByRun, sensorVars
  <1>3. PromoStep => sweep' = sweep
    BY Zenon DEF PromoStep, SensorStep, PromoReplace, PromoAbort, LatePut,
         Scan, ScanUnverified, ScanReexecution, ScanContextInvalid,
         ScanFailedRun, ScanEvidenceUnavailable, ScanChecksFailed,
         ScanGoverned, ScanPriorUnreadable, ScanAccepted, Decide,
         DecideMerged, DecideUnknown, DecideHashUnavailable, DecideDrift,
         DecideUnbound, DecideIntent, Merge, MergeReviewRequired,
         MergeUnproven, MergeProven, PutApplied, PutUnanswered, PutRefused,
         FinishPromotion, CleanSkipped, CleanDropCatalog, CleanFailed,
         CleanDelete, Reconciled, TagPromoted, UnchangedByPromo
  <1>4. TargetCommit \/ UNCHANGED vars => sweep' = sweep
    BY DEF TargetCommit, sensorVars, vars
  <1>5. SweepStep
    BY <1>1, <1>2, <1>3, <1>4 DEF Next
  <1>6. ASSUME NEW r \in Runs, NEW payload \in ReadReport(r),
               sweep.run = r, sweep.pc # "idle", report' = report,
               SweepNote([payload EXCEPT !.status = "open"])
        PROVE  SweepNotes
    <2>1. /\ sweep'.pc = "note" /\ sweep'.run = sweep.run
          /\ sweep'.out = [payload EXCEPT !.status = "open"]
      BY <1>0, <1>6 DEF SweepNote, SweepState
    <2>. QED
      BY <1>6, <2>1, ReadCopies DEF SweepNotes
  <1>7. ASSUME NEW r \in Runs,
               \/ SweepGap(r) \/ SweepContextInvalid(r)
               \/ SweepFailed(r) \/ SweepDelete(r)
        PROVE  SweepNotes
    BY <1>6, <1>7 DEF SweepGap, SweepContextInvalid, SweepFailed,
         SweepDelete, Listed, CleanupPayload
  <1>8. ASSUME NEW r \in Runs, SweepList(r) PROVE SweepLists
    BY <1>8 DEF SweepList, SweepLists, IdleSweep
  <1>9. ASSUME NEW r \in Runs, SweepApprove(r) PROVE SweepApproves
    <2>1. PICK rep \in ReadReport(r) : StartSweep(rep)
      BY <1>9 DEF SweepApprove
    <2>. QED
      BY <1>0, <1>9, <2>1
         DEF SweepApprove, Listed, StartSweep, SweepState, SweepApproves
  <1>10. ASSUME NEW r \in Runs, SweepDropCatalog(r) PROVE SweepDrops
    BY <1>0, <1>10 DEF SweepDropCatalog, SweepState, SweepDrops
  <1>11. ASSUME NEW r, SweepSkip(r) \/ SweepReplace(r) \/ SweepAbort
         PROVE  sweep' = IdleSweep
    BY <1>11 DEF SweepSkip, SweepReplace, SweepAbort
  <1>. QED
    BY <1>5, <1>7, <1>8, <1>9, <1>10, <1>11 DEF SweepStep

LEMMA SweepsEndedRunsStep ==
    ASSUME BranchInv, [Next]_vars
    PROVE  SweepsEndedRuns'
  <1>. USE DEF BranchInv, IInv
  <1>1. SUFFICES ASSUME sweep'.pc \in {"drop", "delete"}
                 PROVE  /\ sweep'.run \in Runs
                        /\ run'[sweep'.run] \in Terminal
    BY DEF SweepsEndedRuns
  <1>2. /\ sweep'.run = sweep.run /\ sweep.run \in Runs
        /\ run[sweep.run] \in Terminal
    BY <1>1, SweepCases DEF SweepsEndedRuns, IdleSweep, SweepLists,
                            SweepNotes, SweepApproves, SweepDrops
  <1>. QED
    BY <1>2, TerminalIsFinal

LEMMA BranchHolds == Spec => []BranchInv
  <1>1. BranchInv /\ [Next]_vars => BranchInv'
    BY IInvStep, SealedHasBranchStep, SweepsEndedRunsStep,
       NoActiveBranchDeletedStep DEF BranchInv
  <1>. QED
    BY InitBranch, <1>1, PTL DEF Spec

(* No branch is deleted while its run is registered and not over, whatever *)
(* the retention, lost answers and unreadable reports (the terminal check  *)
(* of the cleanup sensor, the audit gate of the promotion sensor).         *)
THEOREM ActiveBranchesStay == Spec => []NoActiveBranchDeleted
  <1>1. BranchInv => NoActiveBranchDeleted
    BY DEF BranchInv
  <1>. QED
    BY BranchHolds, <1>1, PTL

-----------------------------------------------------------------------------
(* What a step does to the promotion sensor.  A note read the report;      *)
(* before the merge it may rewrite the source hash it copies.              *)
NotesEarly(r) ==
    /\ promo.pc = "idle" \/ (promo.pc = "decide" /\ promo.run = r)
    /\ Copies(promo'.out, r)
    /\ \/ CopiesSource(promo'.out, r)
       \/ /\ promo.pc = "idle"
          /\ ~AllChecksPassed(checks[r]) \/ "event_log" \in Faults
       \/ /\ promo.pc = "decide"
          /\ promo.prior.merge \notin {"merged", "merge_started"}

Keeps(out, r) ==
    (out.reg => report[r].reg) /\ (out.deleted => report[r].deleted)

NotesUnmerged(r) ==
    /\ promo.pc \in {"merge", "put"} /\ promo.run = r
    /\ promo'.out.merge \in {"merge_failed", "review_required"}
    /\ promo'.out.status = "open" /\ Keeps(promo'.out, r)

NotesMerged(r) ==
    /\ promo.pc \in {"clean", "delete"} /\ promo.run = r
    /\ promo'.out.merge = "merged" /\ promo'.out.src = promo.src
    /\ promo'.out.status = "open" /\ Keeps(promo'.out, r)

PromoNotes(r) ==
    /\ promo'.pc = "note" /\ promo'.run = r
    /\ promo'.prior = IdlePromo.prior
    /\ NotesEarly(r) \/ NotesUnmerged(r) \/ NotesMerged(r)

PromoAccepts(r) ==
    /\ promo.pc = "idle" /\ promo'.pc = "decide" /\ promo'.run = r
    /\ Approved(r) /\ report[r].reg
    /\ promo'.prior = PriorOf(report[r]) /\ promo'.out = EmptyReport

(* The sensor goes on with the run and the prior report it has.            *)
GoesOnTo(pc, r) ==
    /\ promo.run = r /\ promo'.run = r /\ promo'.prior = promo.prior
    /\ promo'.pc = pc

PromoReplays(r) ==
    /\ GoesOnTo("clean", r) /\ promo.pc = "decide"
    /\ promo.prior.merge = "merged" /\ promo'.out = promo.out
    /\ promo.prior.src # NoHash => promo'.src = promo.prior.src

PromoIntends(r) ==
    /\ GoesOnTo("intent", r) /\ promo.pc = "decide"
    /\ promo.prior.merge \notin {"merged", "merge_started"}
    /\ head[r] # NoHash /\ promo'.src = head[r]
    /\ promo'.out.merge = "merge_started" /\ promo'.out.status = "open"
    /\ Keeps(promo'.out, r)

PromoProves(r) ==
    /\ GoesOnTo("put", r) /\ promo.pc = "merge"
    /\ promo'.src = promo.src /\ promo'.out = promo.out
    /\ ProvenFastForward(head[r], promo.src, base[r])

PromoApplies(r) ==
    /\ GoesOnTo("receipt", r) /\ promo.pc = "put"
    /\ promo'.src = promo.src /\ Publish(r, promo.src)
    /\ promo'.out.merge = "merged" /\ promo'.out.src = promo.src
    /\ promo'.out.status = "open" /\ Keeps(promo'.out, r)

PromoDrops(r) ==
    /\ GoesOnTo("delete", r) /\ promo.pc = "clean"
    /\ promo'.src = promo.src /\ promo'.out = promo.out
    /\ queryCat' = queryCat \ {r}

PromoRecords(r) ==
    /\ GoesOnTo("deleted", r)
    /\ \/ promo.pc = "delete" /\ head'[r] = NoHash
       \/ /\ promo.pc = "clean"
          /\ \/ promo.prior.deleted
             \/ head[r] = NoHash \/ "catalog_read" \in Faults
    /\ promo'.src = promo.src
    /\ promo'.out.merge = "merged" /\ promo'.out.src = promo.src
    /\ promo'.out.status = "open" /\ (promo'.out.reg => report[r].reg)

PromoFinalises(r) ==
    /\ GoesOnTo("final", r) /\ promo.pc = "reconcile"
    /\ promo'.src = promo.src
    /\ promo'.out.merge = "merged" /\ promo'.out.src = promo.src
    /\ promo'.out.reg => report[r].reg

PromoSaves(r) ==
    /\ promo.pc \in {"intent", "receipt", "deleted", "final"}
    /\ GoesOnTo(AfterWrite[promo.pc], r)
    /\ promo'.src = promo.src /\ promo'.out = EmptyReport
    /\ report'[r] = promo.out

PromoMoves(r) ==
    \/ PromoNotes(r) \/ PromoAccepts(r) \/ PromoReplays(r) \/ PromoIntends(r)
    \/ PromoProves(r) \/ PromoApplies(r) \/ PromoDrops(r) \/ PromoRecords(r)
    \/ PromoFinalises(r) \/ PromoSaves(r)

LEMMA NoteFields ==
    ASSUME NEW r \in Runs, NEW payload, Note(r, payload)
    PROVE  /\ promo'.pc = "note" /\ promo'.run = r
           /\ promo'.prior = IdlePromo.prior /\ promo'.out = payload
  BY DEF Note, IdlePromo

LEMMA ScanMoves ==
    ASSUME TypeOK, NEW r \in Runs, Scan(r)
    PROVE  PromoMoves(r)
  <1>1. ReadReport(r) \subseteq Report
    BY ReadFacts
  <1>2. ASSUME NEW payload \in ReadReport(r), promo.pc = "idle",
               Note(r, [payload EXCEPT !.status = "open"])
        PROVE  PromoNotes(r)
    BY <1>2, NoteFields, ReadCopies DEF PromoNotes, NotesEarly
  <1>3. CASE ScanChecksFailed(r)
    <2>1. PICK payload \in ReadReport(r), hash \in ReadHash(head[r]) :
            Note(r, [payload EXCEPT !.status = "open", !.src = hash])
      BY Zenon, <1>3 DEF ScanChecksFailed
    <2>2. Copies([payload EXCEPT !.status = "open", !.src = hash], r)
      BY ReadCopies
    <2>3. promo.pc = "idle"
          /\ (~AllChecksPassed(checks[r]) \/ "event_log" \in Faults)
      BY <1>3 DEF ScanChecksFailed, Scannable
    <2>. QED
      BY <2>1, <2>2, <2>3, NoteFields DEF PromoNotes, NotesEarly, PromoMoves
  <1>4. ASSUME NEW review \in BOOLEAN, ScanGoverned(r, review)
        PROVE  PromoNotes(r)
    <2>1. PICK payload \in ReadReport(r) :
            Note(r, [payload EXCEPT !.status = "open",
                                    !.review = @ \/ review])
      BY Zenon, <1>4 DEF ScanGoverned
    <2> DEFINE b == payload.review \/ review
    <2>2. Note(r, [payload EXCEPT !.status = "open", !.review = b])
      BY <2>1
    <2>3. promo.pc = "idle"
      BY <1>4 DEF ScanGoverned, Publishable, Scannable
    <2>. HIDE DEF b
    <2> DEFINE out == [payload EXCEPT !.status = "open", !.review = b]
    <2>4. Copies(out, r) /\ CopiesSource(out, r)
      BY ReadCopies
    <2>5. promo'.pc = "note" /\ promo'.run = r
          /\ promo'.prior = IdlePromo.prior /\ promo'.out = out
      BY <2>2, NoteFields
    <2>. HIDE DEF out
    <2>. QED
      BY <2>3, <2>4, <2>5 DEF PromoNotes, NotesEarly
  <1>5. CASE ScanAccepted(r)
    BY <1>5 DEF ScanAccepted, Publishable, Scannable, Verified, IdlePromo,
                PromoAccepts, Approved, PromoMoves
  <1>. QED
    BY <1>2, <1>3, <1>4, <1>5
       DEF Scan, ScanUnverified, ScanReexecution, ScanContextInvalid,
           ScanFailedRun, ScanEvidenceUnavailable, ScanPriorUnreadable,
           Scannable, Publishable, PromoMoves

LEMMA DecideMoves ==
    ASSUME TypeOK, NEW r \in Runs, Decide(r)
    PROVE  PromoMoves(r)
  <1>0. promo \in PromoState /\ ReadReport(r) \subseteq Report
    BY ReadFacts DEF TypeOK
  <1>1. CASE DecideMerged(r)
    <2>1. PICK hash \in ReadHash(head[r]) :
            promo' = [promo EXCEPT !.pc = "clean",
                        !.src = IF promo.prior.src # NoHash
                                THEN promo.prior.src ELSE hash]
      BY Zenon, <1>1 DEF DecideMerged
    <2>2. PromoReplays(r)
      BY <1>0, <1>1, <2>1 DEF DecideMerged, Deciding, PromoState,
         PromoReplays, GoesOnTo
    <2>. QED
      BY <2>2 DEF PromoMoves
  <1>2. CASE DecideIntent(r)
    <2>1. PICK payload \in ReadReport(r) :
            promo' = [promo EXCEPT !.pc = "intent", !.src = head[r],
                     !.out = [payload EXCEPT !.status = "open",
                                !.merge = "merge_started", !.src = head[r]]]
      BY Zenon, <1>2 DEF DecideIntent
    <2>2. payload \in Report /\ Keeps(payload, r)
      BY <1>0 DEF ReadReport, EmptyReport, Keeps
    <2>3. PromoIntends(r)
      BY <1>0, <1>2, <2>1, <2>2 DEF DecideIntent, Undecided, Deciding,
         PromoState, Report, PromoIntends, GoesOnTo, Keeps
    <2>. QED
      BY <2>3 DEF PromoMoves
  <1>3. ASSUME NEW payload \in ReadReport(r), Deciding(r),
               Note(r, [payload EXCEPT !.status = "open"])
        PROVE  PromoNotes(r)
    <2> DEFINE out == [payload EXCEPT !.status = "open"]
    <2>1. Copies(out, r) /\ CopiesSource(out, r)
      BY ReadCopies
    <2>2. promo'.pc = "note" /\ promo'.run = r
          /\ promo'.prior = IdlePromo.prior /\ promo'.out = out
      BY <1>3, NoteFields
    <2>. HIDE DEF out
    <2>. QED
      BY <1>3, <2>1, <2>2 DEF Deciding, PromoNotes, NotesEarly
  <1>4. CASE DecideUnbound(r)
    <2>1. PICK payload \in ReadReport(r) :
            Note(r, [payload EXCEPT !.status = "open", !.src = head[r]])
      BY Zenon, <1>4 DEF DecideUnbound
    <2>2. Copies([payload EXCEPT !.status = "open", !.src = head[r]], r)
      BY ReadCopies
    <2>. QED
      BY <1>4, <2>1, <2>2, NoteFields DEF DecideUnbound, Undecided, Deciding,
         PromoNotes, NotesEarly, PromoMoves
  <1>. QED
    BY Zenon, <1>1, <1>2, <1>3, <1>4 DEF Decide, DecideUnknown,
         DecideHashUnavailable, DecideDrift, Undecided, PromoMoves

LEMMA MergeMoves ==
    ASSUME TypeOK, NEW r \in Runs, Merge(r)
    PROVE  promo' = IdlePromo \/ PromoMoves(r)
  <1>0. promo \in PromoState /\ ReadReport(r) \subseteq Report
    BY ReadFacts DEF TypeOK
  <1>1. \A payload \in ReadReport(r) : Keeps(payload, r)
    BY DEF ReadReport, EmptyReport, Keeps
  <1>2. CASE MergeReviewRequired(r)
    <2>1. PICK payload \in ReadReport(r) :
            Note(r, [payload EXCEPT !.status = "open",
                               !.merge = "review_required", !.review = TRUE])
      BY Zenon, <1>2 DEF MergeReviewRequired
    <2>2. promo'.pc = "note" /\ promo'.run = r
          /\ promo'.prior = IdlePromo.prior
          /\ promo'.out = [payload EXCEPT !.status = "open",
                               !.merge = "review_required", !.review = TRUE]
      BY <2>1, NoteFields
    <2>. QED
      BY <1>0, <1>1, <1>2, <2>2 DEF MergeReviewRequired, Report, Keeps,
         PromoNotes, NotesUnmerged, PromoMoves
  <1>3. CASE MergeUnproven(r) \/ PutRefused(r)
    <2>1. PICK payload \in ReadReport(r) : Note(r, FailedPayload(payload))
      BY <1>3 DEF MergeUnproven, PutRefused
    <2>2. promo'.pc = "note" /\ promo'.run = r
          /\ promo'.prior = IdlePromo.prior
          /\ promo'.out = FailedPayload(payload)
      BY <2>1, NoteFields
    <2>. QED
      BY <1>0, <1>1, <1>3, <2>2 DEF MergeUnproven, PutRefused, FailedPayload,
         Report, Keeps, PromoNotes, NotesUnmerged, PromoMoves
  <1>4. CASE MergeProven(r)
    BY <1>0, <1>4 DEF MergeProven, PromoState, PromoProves, GoesOnTo,
                      PromoMoves
  <1>5. CASE PutApplied(r)
    <2>1. PICK payload \in ReadReport(r) :
            StartWrite("receipt", ReceiptPayload(payload, payload.deleted))
      BY <1>5 DEF PutApplied
    <2>. QED
      BY <1>0, <1>1, <1>5, <2>1 DEF PutApplied, StartWrite, ReceiptPayload,
         PromoState, Report, Keeps, PromoApplies, GoesOnTo, PromoMoves
  <1>6. CASE PutUnanswered(r)
    BY <1>6 DEF PutUnanswered
  <1>. QED
    BY <1>2, <1>3, <1>4, <1>5, <1>6 DEF Merge

LEMMA FinishMoves ==
    ASSUME TypeOK, NEW r \in Runs, FinishPromotion(r)
    PROVE  promo' = IdlePromo \/ PromoMoves(r)
  <1>0. promo \in PromoState /\ ReadReport(r) \subseteq Report
    BY ReadFacts DEF TypeOK
  <1>1. \A payload \in ReadReport(r) : Keeps(payload, r)
    BY DEF ReadReport, EmptyReport, Keeps
  <1>2. CASE CleanSkipped(r)
    <2>1. PICK hash \in ReadHash(head[r]), payload \in ReadReport(r) :
            /\ CleanupKnown(hash)
            /\ StartWrite("deleted", ReceiptPayload(payload, TRUE))
      BY <1>2 DEF CleanSkipped
    <2>2. \/ promo.prior.deleted
          \/ head[r] = NoHash \/ "catalog_read" \in Faults
      BY <2>1 DEF CleanupKnown, ReadHash
    <2>. QED
      BY <1>0, <1>1, <1>2, <2>1, <2>2 DEF CleanSkipped, StartWrite,
         ReceiptPayload, PromoState, Report, Keeps, PromoRecords, GoesOnTo,
         PromoMoves
  <1>3. CASE CleanDropCatalog(r)
    BY <1>0, <1>3 DEF CleanDropCatalog, PromoState, PromoDrops, GoesOnTo,
                      PromoMoves
  <1>4. ASSUME NEW payload \in ReadReport(r), promo.run = r,
               promo.pc \in {"clean", "delete"},
               Note(r, ReceiptPayload(payload, FALSE))
        PROVE  PromoMoves(r)
    <2>1. promo'.pc = "note" /\ promo'.run = r
          /\ promo'.prior = IdlePromo.prior
          /\ promo'.out = ReceiptPayload(payload, FALSE)
      BY <1>4, NoteFields
    <2>. QED
      BY <1>0, <1>1, <1>4, <2>1 DEF ReceiptPayload, Report, Keeps, PromoNotes,
         NotesMerged, PromoMoves
  <1>5. CASE CleanFailed(r)
    BY <1>4, <1>5 DEF CleanFailed
  <1>6. ASSUME NEW a \in BOOLEAN, CleanDelete(r, a) PROVE PromoMoves(r)
    <2>1. head'[r] = NoHash
      BY <1>6 DEF CleanDelete, TypeOK
    <2>2. ASSUME NEW payload \in ReadReport(r),
                 StartWrite("deleted", ReceiptPayload(payload, TRUE))
          PROVE  PromoMoves(r)
      BY <1>0, <1>1, <1>6, <2>1, <2>2 DEF CleanDelete, StartWrite,
         ReceiptPayload, PromoState, Report, Keeps, PromoRecords, GoesOnTo,
         PromoMoves
    <2>. QED
      BY <1>4, <1>6, <2>2 DEF CleanDelete
  <1>7. CASE Reconciled(r)
    <2>1. PICK payload \in ReadReport(r) :
            StartWrite("final", [ReceiptPayload(payload, TRUE)
                                EXCEPT !.status = "promoted", !.review = FALSE])
      BY <1>7 DEF Reconciled
    <2>. QED
      BY <1>0, <1>1, <1>7, <2>1 DEF Reconciled, StartWrite, ReceiptPayload,
         PromoState, Report, Keeps, PromoFinalises, GoesOnTo, PromoMoves
  <1>8. CASE TagPromoted(r)
    BY <1>8 DEF TagPromoted
  <1>. QED
    BY <1>2, <1>3, <1>5, <1>6, <1>7, <1>8 DEF FinishPromotion

LEMMA PromoCases ==
    ASSUME TypeOK, PromoInv, [Next]_vars, promo' # promo
    PROVE  promo' = IdlePromo \/ \E r \in Runs : PromoMoves(r)
  <1>0. promo \in PromoState /\ report \in [Runs -> Report]
    BY DEF TypeOK
  <1>1. SensorStep
    BY LaunchFrame, RunFrame, SweepFrame
       DEF Next, PromoStep, LatePut, TargetCommit, sensorVars, vars
  <1>2. ASSUME NEW o \in WriteOutcome, PromoReplace(o), promo' # IdlePromo
        PROVE  promo.run \in Runs /\ PromoSaves(promo.run)
    <2>1. /\ promo.pc \in {"intent", "receipt", "deleted", "final"}
          /\ promo' = [promo EXCEPT !.pc = AfterWrite[promo.pc],
                                    !.out = EmptyReport]
          /\ o = "done"
      BY <1>2 DEF PromoReplace, AfterWrite
    <2>2. promo.run \in Runs
      BY <2>1 DEF PromoInv
    <2>. QED
      BY <1>0, <1>2, <2>1, <2>2 DEF PromoReplace, Replace, PromoState,
         PromoSaves, GoesOnTo
  <1>3. CASE PromoAbort
    BY <1>3 DEF PromoAbort
  <1>. QED
    BY <1>1, <1>2, <1>3, ScanMoves, DecideMoves, MergeMoves, FinishMoves
       DEF SensorStep, PromoMoves

-----------------------------------------------------------------------------
(* What a step does to a report: a launcher records its facts, or a sensor *)
(* replaces the file by what it is holding.                                *)
LaunchWrites(r) ==
    /\ launch[r] \in {"created", "sealed", "accepted"}
    /\ report'[r].status = "open" /\ report'[r].src = base[r]
    /\ report'[r].deleted => report[r].deleted
    /\ \/ report'[r].merge = report[r].merge
       \/ "report_read" \in Faults /\ report'[r].merge = "none"
    /\ report'[r].reg
         => \/ report[r].reg
            \/ launch[r] = "accepted" /\ launch'[r] \in {"done", "stopped"}

PromoWrites(r) ==
    /\ promo.pc \in DOMAIN AfterWrite /\ promo.run = r
    /\ report'[r] = promo.out

SweepWrites(r) ==
    /\ sweep.pc = "note" /\ sweep.run = r
    /\ report'[r] = sweep.out

LEMMA ReportCases ==
    ASSUME TypeOK, [Next]_vars, NEW r \in Runs, report'[r] # report[r]
    PROVE  LaunchWrites(r) \/ PromoWrites(r) \/ SweepWrites(r)
  <1>0. report \in [Runs -> Report] /\ launch \in [Runs -> LaunchPc]
    BY DEF TypeOK
  <1>1. ASSUME NEW s \in Runs, LaunchStep(s) PROVE LaunchWrites(r)
    <2>0. ASSUME NEW x, NEW o, Replace(s, x, o)
          PROVE  s = r /\ report'[r] = x
      BY <1>0, <2>0 DEF Replace
    <2>1. ASSUME NEW payload \in ReadReport(s), NEW o,
                 launch[s] \in {"created", "sealed", "accepted"},
                 \/ Replace(s, LaunchResult(s, payload), o)
                 \/ /\ Replace(s, [LaunchResult(s, payload)
                                     EXCEPT !.reg = TRUE], o)
                    /\ launch[s] = "accepted"
                    /\ launch'[s] \in {"done", "stopped"}
          PROVE  LaunchWrites(r)
      <3>1. s = r
        BY <2>0, <2>1
      <3>2. payload \in Report
        BY <2>1, ReadFacts
      <3>3. \/ payload = report[r]
            \/ "report_read" \in Faults /\ payload = EmptyReport
        BY <2>1, <3>1 DEF ReadReport
      <3>4. \/ report'[r] = LaunchResult(r, payload)
            \/ /\ report'[r] = [LaunchResult(r, payload) EXCEPT !.reg = TRUE]
               /\ launch[s] = "accepted"
               /\ launch'[s] \in {"done", "stopped"}
        BY <2>0, <2>1, <3>1
      <3>5. /\ report'[r].status = "open" /\ report'[r].src = base[r]
            /\ report'[r].deleted = payload.deleted
            /\ report'[r].merge = payload.merge
            /\ report'[r].reg
                 => payload.reg \/ (/\ launch[s] = "accepted"
                                   /\ launch'[s] \in {"done", "stopped"})
        BY <3>2, <3>4 DEF LaunchResult, Report
      <3>6. ~EmptyReport.deleted /\ EmptyReport.merge = "none"
            /\ ~EmptyReport.reg
        BY DEF EmptyReport
      <3>. QED
        BY <2>1, <3>1, <3>3, <3>5, <3>6 DEF LaunchWrites
    <2>2. ASSUME NEW o \in WriteOutcome, SealLaunch(s, o)
          PROVE  LaunchWrites(r)
      BY <2>1, <2>2 DEF SealLaunch
    <2>3. ASSUME NEW o \in WriteOutcome, Register(s, o) PROVE LaunchWrites(r)
      <3>1. launch'[s] \in {"done", "stopped"}
        BY <1>0, <2>3 DEF Register
      <3>. QED
        BY <2>1, <2>3, <3>1 DEF Register
    <2>4. ASSUME NEW c \in BOOLEAN, NEW o \in WriteOutcome,
                 SubmitFailed(s, c, o)
          PROVE  LaunchWrites(r)
      BY <2>1, <2>4 DEF SubmitFailed
    <2>. QED
      BY <1>1, <2>2, <2>3, <2>4 DEF LaunchStep, ReadTarget, CreateBranch,
         SubmitAccepted, LauncherCrash
  <1>2. ASSUME NEW s \in Runs, RunStep(s) PROVE report' = report
    BY <1>2 DEF RunStep, VerifyExecution, VerifyTimeout, WriteAsset,
         AuditBegin, AuditEnd, AuditDisturbed, UnboundCheck, Finish,
         Reexecute, Age, UnchangedByRun
  <1>3. PromoStep => \/ report' = report
                     \/ \E o \in WriteOutcome : PromoReplace(o)
    BY Zenon DEF PromoStep, SensorStep, PromoAbort, LatePut,
         Scan, ScanUnverified, ScanReexecution, ScanContextInvalid,
         ScanFailedRun, ScanEvidenceUnavailable, ScanChecksFailed,
         ScanGoverned, ScanPriorUnreadable, ScanAccepted, Decide,
         DecideMerged, DecideUnknown, DecideHashUnavailable, DecideDrift,
         DecideUnbound, DecideIntent, Merge, MergeReviewRequired,
         MergeUnproven, MergeProven, PutApplied, PutUnanswered, PutRefused,
         FinishPromotion, CleanSkipped, CleanDropCatalog, CleanFailed,
         CleanDelete, Reconciled, TagPromoted, OnlySensorMoves,
         PublicationVars
  <1>4. ASSUME NEW o, PromoReplace(o) PROVE PromoWrites(r)
    BY <1>0, <1>4 DEF PromoReplace, Replace, PromoWrites
  <1>5. SweepStep => \/ report' = report
                     \/ \E o \in WriteOutcome : SweepReplace(o)
    BY Zenon DEF SweepStep, SweepList, SweepGap, SweepContextInvalid,
           SweepSkip, SweepApprove, SweepDropCatalog, SweepFailed,
           SweepDelete, SweepAbort
  <1>6. ASSUME NEW o, SweepReplace(o) PROVE SweepWrites(r)
    BY <1>0, <1>6 DEF SweepReplace, Replace, SweepWrites
  <1>7. TargetCommit \/ UNCHANGED vars => report' = report
    BY DEF TargetCommit, vars
  <1>. QED
    BY <1>1, <1>2, <1>3, <1>4, <1>5, <1>6, <1>7 DEF Next

-----------------------------------------------------------------------------
(* A branch that is gone, and not just about to be created, stays gone.    *)
Gone(r) == head[r] = NoHash /\ launch[r] \notin {"idle", "read"}

LEMMA GoneStays ==
    ASSUME TypeOK, [Next]_vars, NEW r \in Runs, Gone(r)
    PROVE  Gone(r)'
  <1>1. head'[r] = NoHash
    BY HeadCases DEF Gone, Created, WriteAsset, PromotionDeletes, SweepDeletes
  <1>. QED
    BY <1>1, LaunchCases DEF Gone

(* While branch hashes can be read, a recorded deletion and a promoted     *)
(* report are only ever held of a branch that is gone.                     *)
SaysGone(rep) == rep.deleted \/ rep.status = "promoted"

ReportGone == \A r \in Runs : SaysGone(report[r]) => Gone(r)

PromoGone ==
    promo.run \in Runs =>
        /\ SaysGone(promo.out) => Gone(promo.run)
        /\ promo.prior.deleted => Gone(promo.run)
        /\ promo.pc \in {"deleted", "reconcile", "final", "tag"}
             => Gone(promo.run)

SweepGone == sweep.run \in Runs /\ SaysGone(sweep.out) => Gone(sweep.run)

GoneInv == IInv /\ ReportGone /\ PromoGone /\ SweepGone

LEMMA InitGone == Init => GoneInv
  BY InitIInv DEF Init, GoneInv, ReportGone, PromoGone, SweepGone, SaysGone,
                  IdlePromo, IdleSweep, EmptyReport, PriorOf

LEMMA ReportGoneStep ==
    ASSUME GoneInv, [Next]_vars
    PROVE  ReportGone'
  <1>. USE DEF GoneInv, IInv
  <1>1. SUFFICES ASSUME NEW r \in Runs, SaysGone(report'[r]) PROVE Gone(r)'
    BY DEF ReportGone
  <1>2. SUFFICES Gone(r)
    BY GoneStays
  <1>3. CASE report'[r] = report[r]
    BY <1>1, <1>3 DEF ReportGone
  <1>4. CASE LaunchWrites(r)
    BY <1>1, <1>4 DEF LaunchWrites, SaysGone, ReportGone
  <1>5. CASE PromoWrites(r)
    BY <1>1, <1>5 DEF PromoWrites, PromoGone
  <1>6. CASE SweepWrites(r)
    BY <1>1, <1>6 DEF SweepWrites, SweepGone
  <1>. QED
    BY <1>3, <1>4, <1>5, <1>6, ReportCases

LEMMA SweepGoneStep ==
    ASSUME GoneInv, [Next]_vars
    PROVE  SweepGone'
  <1>. USE DEF GoneInv, IInv
  <1>1. SUFFICES ASSUME NEW r \in Runs, sweep'.run = r, SaysGone(sweep'.out)
                 PROVE  Gone(r)
    BY GoneStays DEF SweepGone, Gone
  <1>2. ~SaysGone(EmptyReport)
    BY DEF SaysGone, EmptyReport
  <1>3. CASE sweep'.out = sweep.out /\ sweep'.run = sweep.run
    BY <1>1, <1>3 DEF SweepGone
  <1>4. CASE SweepNotes
    BY <1>1, <1>4 DEF SweepNotes, Copies, SaysGone, ReportGone
  <1>5. sweep' # IdleSweep /\ ~SweepLists
    <2>1. IdleSweep.out = EmptyReport
      BY DEF IdleSweep
    <2>. QED
      BY <1>1, <1>2, <2>1 DEF SweepLists
  <1>. QED
    BY <1>3, <1>4, <1>5, SweepCases DEF SweepApproves, SweepDrops

LEMMA PromoGoneStep ==
    ASSUME "catalog_read" \notin Faults, GoneInv, [Next]_vars
    PROVE  PromoGone'
  <1>. USE DEF GoneInv, IInv
  <1>1. ~SaysGone(EmptyReport) /\ ~PriorOf(EmptyReport).deleted
    BY DEF SaysGone, EmptyReport, PriorOf
  <1>2. CASE promo' = promo
    <2>1. SUFFICES ASSUME NEW r \in Runs, promo.run = r
                   PROVE  /\ SaysGone(promo.out) => Gone(r)'
                          /\ promo.prior.deleted => Gone(r)'
                          /\ promo.pc \in {"deleted", "reconcile", "final",
                                           "tag"} => Gone(r)'
      BY <1>2 DEF PromoGone, Gone
    <2>. QED
      BY <2>1, GoneStays DEF PromoGone
  <1>3. CASE promo' = IdlePromo
    <2>1. /\ promo'.out = EmptyReport /\ promo'.pc = "idle"
          /\ promo'.prior = PriorOf(EmptyReport)
      BY <1>3 DEF IdlePromo
    <2>. QED
      BY <1>1, <2>1 DEF PromoGone
  <1>4. ASSUME NEW r \in Runs, PromoMoves(r) PROVE PromoGone'
    <2>1. promo'.run = r
      BY <1>4 DEF PromoMoves, PromoNotes, PromoAccepts, PromoReplays,
         PromoIntends, PromoProves, PromoApplies, PromoDrops, PromoRecords,
         PromoFinalises, PromoSaves, GoesOnTo
    <2>. DEFINE Facts == /\ SaysGone(promo'.out) => Gone(r)'
                         /\ promo'.prior.deleted => Gone(r)'
                         /\ promo'.pc \in {"deleted", "reconcile", "final",
                                           "tag"} => Gone(r)'
    <2>2. SUFFICES Facts
      BY <2>1 DEF PromoGone, Gone
    <2>3. Keeps(promo'.out, r) /\ promo'.out.status = "open"
            => (SaysGone(promo'.out) => Gone(r))
      BY DEF Keeps, SaysGone, ReportGone
    <2>4. Gone(r) => Gone(r)'
      BY GoneStays
    <2>5. CASE PromoNotes(r)
      <3>1. ~promo'.prior.deleted
        BY <1>1, <2>5 DEF PromoNotes, IdlePromo
      <3>2. Keeps(promo'.out, r) /\ promo'.out.status = "open"
        BY <2>5 DEF PromoNotes, NotesEarly, NotesUnmerged, NotesMerged,
                    Copies, Keeps
      <3>. QED
        BY <2>3, <2>4, <2>5, <3>1, <3>2 DEF PromoNotes
    <2>6. CASE PromoAccepts(r)
      BY <1>1, <2>4, <2>6 DEF PromoAccepts, PriorOf, ReportGone, SaysGone
    <2>7. CASE PromoReplays(r) \/ PromoProves(r) \/ PromoDrops(r)
      BY <2>4, <2>7 DEF PromoReplays, PromoProves, PromoDrops, GoesOnTo,
                        PromoGone
    <2>8. CASE PromoIntends(r) \/ PromoApplies(r)
      BY <2>3, <2>4, <2>8 DEF PromoIntends, PromoApplies, GoesOnTo, PromoGone
    <2>9. CASE PromoRecords(r)
      <3>1. launch[r] \notin {"idle", "read"}
        BY <2>9 DEF PromoRecords, GoesOnTo, PromoInv, Approved, LaunchInv
      <3>2. Gone(r)'
        <4>1. CASE promo.pc = "delete" /\ head'[r] = NoHash
          BY <3>1, <4>1, LaunchCases DEF Gone
        <4>. QED
          BY <2>4, <2>9, <3>1, <4>1 DEF PromoRecords, GoesOnTo, PromoGone,
                                        Gone
      <3>. QED
        BY <3>2
    <2>10. CASE PromoFinalises(r)
      BY <2>4, <2>10 DEF PromoFinalises, GoesOnTo, PromoGone
    <2>11. CASE PromoSaves(r)
      BY <1>1, <2>4, <2>11
         DEF PromoSaves, GoesOnTo, PromoGone, AfterWrite
    <2>. QED
      BY <1>4, <2>5, <2>6, <2>7, <2>8, <2>9, <2>10, <2>11 DEF PromoMoves
  <1>. QED
    BY <1>2, <1>3, <1>4, PromoCases

(* While branch hashes can be read, a report says "promoted" only of a run *)
(* whose branch is gone for good (_cleanup_owned_wap_branch precedes the   *)
(* terminal report, and no later step brings the branch back).             *)
THEOREM PromotedLeavesNoBranch ==
    ASSUME "catalog_read" \notin Faults
    PROVE  Spec => []PromotedBranchIsGone
  <1>1. GoneInv /\ [Next]_vars => GoneInv'
    BY IInvStep, ReportGoneStep, PromoGoneStep, SweepGoneStep DEF GoneInv
  <1>2. GoneInv => PromotedBranchIsGone
    BY DEF GoneInv, ReportGone, SaysGone, Gone, PromotedBranchIsGone
  <1>. QED
    BY InitGone, <1>1, <1>2, PTL DEF Spec

-----------------------------------------------------------------------------
(* For a run that nothing writes for after its end, nothing provisions a   *)
(* query catalog between its drop and the deletion of the branch.          *)
QuietCat == queryCat \ LateWriters

CatalogHasBranch == \A r \in QuietCat : head[r] # NoHash

PromoDropped == promo.pc = "delete" => promo.run \notin QuietCat

SweepDropped == sweep.pc = "delete" => sweep.run \notin QuietCat

CatalogInv == BranchInv /\ CatalogHasBranch /\ PromoDropped /\ SweepDropped

LEMMA QueryCases ==
    ASSUME TypeOK, [Next]_vars, NEW r \in Runs, r \in queryCat'
    PROVE  r \in queryCat \/ WriteAsset(r)
  <1>1. ASSUME NEW s \in Runs, LaunchStep(s) PROVE queryCat' = queryCat
    BY <1>1 DEF LaunchStep, ReadTarget, CreateBranch, SealLaunch, Register,
         SubmitAccepted, SubmitFailed, LauncherCrash, catalogVars
  <1>2. ASSUME NEW s \in Runs, RunStep(s)
        PROVE  r \in queryCat \/ WriteAsset(r)
    BY <1>2 DEF RunStep, VerifyExecution, VerifyTimeout, WriteAsset,
         AuditBegin, AuditEnd, AuditDisturbed, UnboundCheck, Finish,
         Reexecute, Age, UnchangedByRun, catalogVars
  <1>3. PromoStep => queryCat' \subseteq queryCat
    BY Zenon DEF PromoStep, SensorStep, PromoReplace, PromoAbort, LatePut,
         Scan, ScanUnverified, ScanReexecution, ScanContextInvalid,
         ScanFailedRun, ScanEvidenceUnavailable, ScanChecksFailed,
         ScanGoverned, ScanPriorUnreadable, ScanAccepted, Decide,
         DecideMerged, DecideUnknown, DecideHashUnavailable, DecideDrift,
         DecideUnbound, DecideIntent, Merge, MergeReviewRequired,
         MergeUnproven, MergeProven, PutApplied, PutUnanswered, PutRefused,
         FinishPromotion, CleanSkipped, CleanDropCatalog, CleanFailed,
         CleanDelete, Reconciled, TagPromoted, OnlySensorMoves, catalogVars
  <1>4. SweepStep => queryCat' \subseteq queryCat
    BY Zenon DEF SweepStep, SweepList, SweepGap, SweepContextInvalid,
         SweepSkip, SweepApprove, SweepDropCatalog, SweepFailed, SweepDelete,
         SweepReplace, SweepAbort
  <1>5. TargetCommit \/ UNCHANGED vars => queryCat' = queryCat
    BY DEF TargetCommit, vars
  <1>. QED
    BY <1>1, <1>2, <1>3, <1>4, <1>5 DEF Next

LEMMA CatalogInvStep ==
    ASSUME CatalogInv, [Next]_vars
    PROVE  CatalogHasBranch' /\ PromoDropped' /\ SweepDropped'
  <1>. USE DEF CatalogInv, BranchInv, IInv
  <1>1. ASSUME NEW r \in Runs \ LateWriters, WriteAsset(r)
        PROVE  run[r] = "started"
    BY <1>1 DEF WriteAsset
  <1>2. ASSUME NEW r \in QuietCat' PROVE head'[r] # NoHash
    <2>1. r \in Runs /\ r \notin LateWriters /\ r \in queryCat'
      BY TypeStep DEF TypeOK, QuietCat
    <2>2. r \in QuietCat \/ WriteAsset(r)
      BY <2>1, QueryCases DEF QuietCat
    <2>3. head[r] # NoHash
      BY <2>2 DEF CatalogHasBranch, WriteAsset
    <2>4. ~PromotionDeletes(r) /\ ~SweepDeletes(r)
      BY <1>1, <2>1, <2>2, DeletedRunIsOver DEF PromotionDeletes,
         SweepDeletes, PromoDropped, SweepDropped, Terminal
    <2>5. CASE WriteAsset(r)
      BY <1>1, <2>1, <2>3, <2>5, HeadKept DEF Terminal
    <2>6. CASE Created(r)
      BY <2>6 DEF Created, LaunchInv
    <2>. QED
      BY <2>1, <2>3, <2>4, <2>5, <2>6, HeadCases
  <1>3. ASSUME NEW r \in Runs, run[r] \in Terminal, r \notin QuietCat
        PROVE  r \notin QuietCat'
    BY <1>1, <1>3, QueryCases DEF Terminal, QuietCat
  <1>4. PromoDropped'
    <2>1. CASE promo' = promo
      BY <1>3, <2>1 DEF PromoDropped, PromoInv, Approved, Terminal
    <2>2. CASE promo' = IdlePromo
      BY <2>2 DEF PromoDropped, IdlePromo
    <2>3. ASSUME NEW r \in Runs, PromoMoves(r), promo'.pc = "delete"
          PROVE  PromoDrops(r)
      BY <2>3 DEF PromoMoves, PromoNotes, PromoAccepts, PromoReplays,
         PromoIntends, PromoProves, PromoApplies, PromoRecords,
         PromoFinalises, PromoSaves, GoesOnTo, AfterWrite
    <2>4. ASSUME NEW r \in Runs, PromoDrops(r) PROVE PromoDropped'
      BY <2>4 DEF PromoDrops, GoesOnTo, PromoDropped, QuietCat
    <2>. QED
      BY <2>1, <2>2, <2>3, <2>4, PromoCases DEF PromoDropped
  <1>5. SweepDropped'
    <2>1. CASE sweep' = sweep
      BY <1>3, <2>1 DEF SweepDropped, SweepsEndedRuns
    <2>2. CASE SweepDrops
      BY <2>2 DEF SweepDrops, SweepDropped, QuietCat
    <2>. QED
      BY <2>1, <2>2, SweepCases DEF SweepDropped, IdleSweep, SweepLists,
         SweepNotes, SweepApproves
  <1>. QED
    BY <1>2, <1>4, <1>5 DEF CatalogHasBranch

LEMMA CatalogHolds == Spec => []CatalogInv
  <1>1. Init => CatalogInv
    BY InitBranch DEF Init, CatalogInv, CatalogHasBranch, PromoDropped,
                      SweepDropped, IdlePromo, IdleSweep, QuietCat
  <1>2. BranchInv /\ [Next]_vars => BranchInv'
    BY IInvStep, SealedHasBranchStep, SweepsEndedRunsStep,
       NoActiveBranchDeletedStep DEF BranchInv
  <1>3. CatalogInv /\ [Next]_vars => CatalogInv'
    BY <1>2, CatalogInvStep DEF CatalogInv
  <1>. QED
    BY <1>1, <1>3, PTL DEF Spec

(* For a run without a writer that outlives it, the order of the cleanup   *)
(* (query catalog first, branch second) leaves no query catalog without a  *)
(* branch, whichever sensor cleans up and wherever it is interrupted.      *)
THEOREM QuietCatalogsHaveBranches ==
    Spec => [](\A r \in queryCat \ LateWriters : head[r] # NoHash)
  <1>1. CatalogInv => \A r \in queryCat \ LateWriters : head[r] # NoHash
    BY DEF CatalogInv, CatalogHasBranch, QuietCat
  <1>. QED
    BY CatalogHolds, <1>1, PTL

(* Where no writer outlives its run, this is every query catalog.          *)
THEOREM CatalogsHaveBranches ==
    ASSUME LateWriters = {}
    PROVE  Spec => []NoOrphanQueryCatalog
  <1>1. CatalogInv => NoOrphanQueryCatalog
    BY DEF CatalogInv, CatalogHasBranch, QuietCat, NoOrphanQueryCatalog
  <1>. QED
    BY CatalogHolds, <1>1, PTL

-----------------------------------------------------------------------------
(* Within its retention period the branch of an unpublished run is the     *)
(* only copy of its batch, and nothing deletes it.  Other runs may be past *)
(* theirs: the cleanup sensor only ever holds what it listed as old.       *)
Young == Runs \ aged

UnpublishedHasBranch ==
    \A r \in Young : run[r] # "none" /\ ~Published(r) => head[r] # NoHash

IntentsAreOfRuns ==
    /\ \A r \in Young : report[r].merge = "merge_started" => run[r] = "success"
    /\ \A r \in Young : promo.run = r /\ promo.out.merge = "merge_started"
                         => run[r] = "success"

OldAreSwept == /\ aged \subseteq StaleRuns
               /\ sweep.pc # "idle" => sweep.run \in aged

RetainInv == ReceiptInv /\ BranchInv /\ UnpublishedHasBranch
                        /\ IntentsAreOfRuns /\ OldAreSwept

LEMMA OldAreSweptStep ==
    ASSUME OldAreSwept, TypeOK, [Next]_vars
    PROVE  OldAreSwept' /\ aged \subseteq aged' /\ Young' \subseteq Young
  <1>1. aged' = aged \/ \E r \in StaleRuns : aged' = aged \cup {r}
    <2>1. ASSUME NEW r \in Runs, LaunchStep(r) PROVE aged' = aged
      BY <2>1 DEF LaunchStep, ReadTarget, CreateBranch, SealLaunch, Register,
         SubmitAccepted, SubmitFailed, LauncherCrash
    <2>2. ASSUME NEW r \in Runs, RunStep(r), ~Age(r) PROVE aged' = aged
      BY <2>2 DEF RunStep, VerifyExecution, VerifyTimeout, WriteAsset,
         AuditBegin, AuditEnd, AuditDisturbed, UnboundCheck, Finish,
         Reexecute, UnchangedByRun
    <2>3. PromoStep => aged' = aged
      BY Zenon DEF PromoStep, SensorStep, PromoReplace, PromoAbort, LatePut,
         Scan, ScanUnverified, ScanReexecution, ScanContextInvalid,
         ScanFailedRun, ScanEvidenceUnavailable, ScanChecksFailed,
         ScanGoverned, ScanPriorUnreadable, ScanAccepted, Decide,
         DecideMerged, DecideUnknown, DecideHashUnavailable, DecideDrift,
         DecideUnbound, DecideIntent, Merge, MergeReviewRequired,
         MergeUnproven, MergeProven, PutApplied, PutUnanswered, PutRefused,
         FinishPromotion, CleanSkipped, CleanDropCatalog, CleanFailed,
         CleanDelete, Reconciled, TagPromoted, UnchangedByPromo
    <2>4. SweepStep => aged' = aged
      BY Zenon DEF SweepStep, SweepList, SweepGap, SweepContextInvalid,
         SweepSkip, SweepApprove, SweepDropCatalog, SweepFailed, SweepDelete,
         SweepReplace, SweepAbort, UnchangedBySweep
    <2>5. ASSUME NEW r \in Runs, Age(r)
          PROVE  r \in StaleRuns /\ aged' = aged \cup {r}
      BY <2>5 DEF Age
    <2>. QED
      BY <2>1, <2>2, <2>3, <2>4, <2>5 DEF Next, TargetCommit, vars
  <1>2. sweep'.pc # "idle" => sweep'.run \in aged
    BY SweepCases DEF OldAreSwept, IdleSweep, SweepLists, SweepNotes,
                      SweepApproves, SweepDrops
  <1>. QED
    BY <1>1, <1>2 DEF OldAreSwept, Young

LEMMA UnpublishedHasBranchStep ==
    ASSUME RetainInv, [Next]_vars
    PROVE  UnpublishedHasBranch'
  <1>. USE DEF RetainInv, BranchInv, IInv
  <1>1. SUFFICES ASSUME NEW r \in Young', run'[r] # "none",
                        ~Published(r)'
                 PROVE  head'[r] # NoHash
    BY DEF UnpublishedHasBranch
  <1>0. r \in Young /\ r \in Runs
    BY <1>1, OldAreSweptStep DEF Young
  <1>2. ~Published(r)
    BY <1>1, PublishedStays DEF Published
  <1>3. head[r] # NoHash
    BY <1>0, <1>1, <1>2, RunCases DEF UnpublishedHasBranch, SealedHasBranch
  <1>4. ~PromotionDeletes(r)
    BY <1>0, <1>2 DEF PromotionDeletes, ReceiptInv, PromoClaims, AfterMerge
  <1>5. ~SweepDeletes(r)
    BY <1>0 DEF SweepDeletes, OldAreSwept, Young
  <1>6. CASE Created(r)
    BY <1>0, <1>6 DEF Created, LaunchInv
  <1>7. CASE WriteAsset(r)
    <2>1. head[r] \in Hash /\ head'[r] = CommitOn(head[r], r)
      BY <1>0, <1>7 DEF WriteAsset, TypeOK
    <2>. QED
      BY <1>0, <2>1, CommitExtends DEF Hash
  <1>8. \/ head'[r] = head[r] \/ Created(r) \/ WriteAsset(r)
        \/ PromotionDeletes(r) \/ SweepDeletes(r)
    BY <1>0, HeadCases
  <1>. QED
    BY <1>3, <1>4, <1>5, <1>6, <1>7, <1>8

LEMMA IntentsAreOfRunsStep ==
    ASSUME RetainInv, [Next]_vars
    PROVE  IntentsAreOfRuns'
  <1>. USE DEF RetainInv, BranchInv, IInv
  <1>1. ASSUME NEW r \in Runs, run[r] = "success" PROVE run'[r] = "success"
    BY <1>1, AuditIsFinal
  <1>. Young' \subseteq Young /\ Young \subseteq Runs
    BY OldAreSweptStep DEF Young
  <1>2. ASSUME NEW r \in Young', report'[r].merge = "merge_started"
        PROVE  run'[r] = "success"
    <2>1. ~SweepWrites(r)
      BY <1>2 DEF SweepWrites, OldAreSwept, Young
    <2>2. run[r] = "success"
      BY <1>2, <2>1, ReportCases
         DEF LaunchWrites, PromoWrites, IntentsAreOfRuns
    <2>. QED
      BY <1>1, <2>2
  <1>3. ASSUME NEW r \in Young', promo'.run = r,
               promo'.out.merge = "merge_started"
        PROVE  run'[r] = "success"
    <2>1. EmptyReport.merge = "none" /\ IdlePromo.out = EmptyReport
      BY DEF EmptyReport, IdlePromo
    <2>2. CASE promo' = promo
      BY <1>1, <1>3, <2>2 DEF IntentsAreOfRuns
    <2>3. ASSUME NEW s \in Runs, PromoMoves(s) PROVE run[r] = "success"
      <3>1. s = r
        BY <1>3, <2>3 DEF PromoMoves, PromoNotes, PromoAccepts, PromoReplays,
           PromoIntends, PromoProves, PromoApplies, PromoDrops, PromoRecords,
           PromoFinalises, PromoSaves, GoesOnTo
      <3>2. CASE PromoNotes(s)
        BY <1>3, <3>1, <3>2 DEF PromoNotes, NotesEarly, NotesUnmerged,
           NotesMerged, Copies, IntentsAreOfRuns
      <3>3. CASE PromoIntends(s)
        BY <3>1, <3>3 DEF PromoIntends, GoesOnTo, PromoInv, Approved
      <3>4. CASE PromoReplays(s) \/ PromoProves(s) \/ PromoDrops(s)
        BY <1>3, <3>1, <3>4 DEF PromoReplays, PromoProves, PromoDrops,
           GoesOnTo, IntentsAreOfRuns
      <3>. QED
        BY <1>3, <2>1, <2>3, <3>2, <3>3, <3>4 DEF PromoMoves, PromoAccepts,
           PromoApplies, PromoRecords, PromoFinalises, PromoSaves
    <2>. QED
      BY <1>1, <1>3, <2>1, <2>2, <2>3, PromoCases
  <1>. QED
    BY <1>2, <1>3 DEF IntentsAreOfRuns

LEMMA RetainHolds == Spec => []RetainInv
  <1>1. Init => RetainInv
    BY InitReceipt, InitBranch DEF Init, RetainInv, UnpublishedHasBranch,
       IntentsAreOfRuns, OldAreSwept, IdlePromo, IdleSweep, EmptyReport, Young
  <1>2. BranchInv /\ [Next]_vars => BranchInv'
    BY IInvStep, SealedHasBranchStep, SweepsEndedRunsStep,
       NoActiveBranchDeletedStep DEF BranchInv
  <1>3. RetainInv /\ [Next]_vars => OldAreSwept'
    BY OldAreSweptStep DEF RetainInv, ReceiptInv
  <1>4. RetainInv /\ [Next]_vars => RetainInv'
    BY <1>2, <1>3, ReceiptInvStep, UnpublishedHasBranchStep,
       IntentsAreOfRunsStep DEF RetainInv
  <1>. QED
    BY <1>1, <1>4, PTL DEF Spec

(* While a run is within its retention period, the branch behind an        *)
(* unacknowledged merge intent stays until the run is published, even when *)
(* reports cannot be read, answers are lost and other runs are cleaned up  *)
(* (the deletion follows the merge receipt).                               *)
THEOREM YoungIntentsRetainBranches ==
    Spec => [](\A r \in Runs \ aged :
                  report[r].merge = "merge_started" /\ ~Published(r)
                    => head[r] # NoHash)
  <1>1. RetainInv => \A r \in Runs \ aged :
                        report[r].merge = "merge_started" /\ ~Published(r)
                          => head[r] # NoHash
    BY DEF RetainInv, UnpublishedHasBranch, IntentsAreOfRuns, Young
  <1>. QED
    BY RetainHolds, <1>1, PTL

(* Where no run outlives the retention period, this is every run.          *)
THEOREM IntentsRetainBranches ==
    ASSUME StaleRuns = {}
    PROVE  Spec => []IntentRetainsBranch
  <1>1. RetainInv => IntentRetainsBranch
    BY DEF RetainInv, UnpublishedHasBranch, IntentsAreOfRuns, OldAreSwept,
           Young, IntentRetainsBranch
  <1>. QED
    BY RetainHolds, <1>1, PTL

-----------------------------------------------------------------------------
(* With readable reports, only the promotion sensor and the launcher write *)
(* the report of a run within its retention period, and each writes what   *)
(* it read.  A run is exposed once a PUT was sent for it: from then on no  *)
(* step forgets the intent, nor the receipt that follows.                  *)
Exposed(r) == Published(r) \/ \E q \in inflight : q.run = r

Intended(rep) == rep.merge \in {"merge_started", "merged"}

ExposedIsIntended == \A r \in Young : Exposed(r) => Intended(report[r])

SensorTracks ==
    \A r \in Young : promo.run = r =>
        /\ promo.pc = "decide" => promo.prior.merge = report[r].merge
        /\ promo.pc \in {"intent", "merge", "put"} => ~Exposed(r)
        /\ promo.pc \in {"merge", "put"} => Intended(report[r])
        /\ promo.pc = "note" => /\ Exposed(r) => Intended(promo.out)
                                /\ report[r].merge = "merged"
                                     => promo.out.merge = "merged"
        /\ promo.pc \in {"receipt", "deleted", "final"}
             => promo.out.merge = "merged"
        /\ promo.pc = "intent" => Intended(promo.out)

TrackInv == IInv /\ ReceiptInv /\ OldAreSwept
                 /\ ExposedIsIntended /\ SensorTracks

LEMMA ExposedCases ==
    ASSUME TypeOK, [Next]_vars, NEW r \in Runs, Exposed(r)'
    PROVE  \/ Exposed(r)
           \/ PutApplied(r)
           \/ PutUnanswered(r)
  <1>1. ASSUME UNCHANGED << published, inflight >> PROVE Exposed(r)
    BY <1>1 DEF Exposed, Published
  <1>2. ASSUME NEW s \in Runs, PutApplied(s) PROVE Exposed(r) \/ s = r
    <2>1. published' = published \cup
                         {[run |-> s, from |-> target, to |-> promo.src]}
          /\ inflight' = inflight
      BY <1>2 DEF PutApplied, Publish
    <2>. QED
      BY <2>1 DEF Exposed, Published
  <1>3. ASSUME NEW s \in Runs, PutUnanswered(s) PROVE Exposed(r) \/ s = r
    <2>1. inflight' = inflight \cup {[run |-> s, src |-> promo.src]}
          /\ published' = published
      BY <1>3 DEF PutUnanswered
    <2>. QED
      BY <2>1 DEF Exposed, Published
  <1>4. ASSUME NEW q \in inflight, LatePut(q) PROVE Exposed(r)
    <2>1. /\ inflight' \subseteq inflight
          /\ \/ published' = published
             \/ published' = published \cup
                    {[run |-> q.run, from |-> target, to |-> q.src]}
      BY <1>4 DEF LatePut, Publish
    <2>. QED
      BY <2>1 DEF Exposed, Published
  <1>5. PromoStep => \/ UNCHANGED << published, inflight >>
                     \/ \E s \in Runs : PutApplied(s) \/ PutUnanswered(s)
                     \/ \E q \in inflight : LatePut(q)
    BY Zenon DEF PromoStep, SensorStep, PromoReplace, PromoAbort,
         Scan, ScanUnverified, ScanReexecution, ScanContextInvalid,
         ScanFailedRun, ScanEvidenceUnavailable, ScanChecksFailed,
         ScanGoverned, ScanPriorUnreadable, ScanAccepted, Decide,
         DecideMerged, DecideUnknown, DecideHashUnavailable, DecideDrift,
         DecideUnbound, DecideIntent, Merge, MergeReviewRequired,
         MergeUnproven, MergeProven, PutRefused, FinishPromotion,
         CleanSkipped, CleanDropCatalog, CleanFailed, CleanDelete,
         Reconciled, TagPromoted, OnlySensorMoves, PublicationVars
  <1>6. TargetCommit \/ UNCHANGED vars => UNCHANGED << published, inflight >>
    BY DEF TargetCommit, sensorVars, vars
  <1>. QED
    BY <1>1, <1>2, <1>3, <1>4, <1>5, <1>6, LaunchFrame, RunFrame, SweepFrame
       DEF Next

(* What a step may do to the report of a run that is being tracked.        *)
LEMMA TrackedReport ==
    ASSUME "report_read" \notin Faults, TrackInv, [Next]_vars, NEW r \in Young,
           report'[r].merge # report[r].merge
    PROVE  /\ promo.pc \in {"note", "intent", "receipt", "deleted", "final"}
           /\ promo.run = r /\ report'[r].merge = promo.out.merge
  <1>1. ~SweepWrites(r)
    BY DEF TrackInv, SweepWrites, OldAreSwept, Young
  <1>2. PromoWrites(r)
    BY <1>1, ReportCases DEF TrackInv, IInv, LaunchWrites, Young
  <1>. QED
    BY <1>2 DEF PromoWrites, AfterWrite

LEMMA ReceiptKept ==
    ASSUME "report_read" \notin Faults, TrackInv, [Next]_vars, NEW r \in Young,
           report[r].merge = "merged"
    PROVE  report'[r].merge = "merged"
  <1>1. Exposed(r)
    BY DEF TrackInv, ReceiptInv, ReportClaims, Claims, Exposed, Young
  <1>. QED
    BY <1>1, TrackedReport DEF TrackInv, SensorTracks

LEMMA ExposedIsIntendedStep ==
    ASSUME "report_read" \notin Faults, TrackInv, [Next]_vars
    PROVE  ExposedIsIntended'
  <1>. Young' \subseteq Young /\ Young \subseteq Runs
    BY OldAreSweptStep DEF TrackInv, IInv, Young
  <1>1. SUFFICES ASSUME NEW r \in Young', Exposed(r)'
                 PROVE  Intended(report'[r])
    BY DEF ExposedIsIntended, Intended
  <1>2. CASE Exposed(r)
    <2>1. Intended(report[r])
      BY <1>2 DEF TrackInv, ExposedIsIntended
    <2>2. report'[r].merge = report[r].merge \/ Intended(report'[r])
      BY <1>2, TrackedReport DEF TrackInv, SensorTracks, Intended
    <2>. QED
      BY <2>1, <2>2 DEF Intended
  <1>3. CASE PutApplied(r) \/ PutUnanswered(r)
    <2>1. promo.pc = "put" /\ promo.run = r /\ report' = report
      BY <1>3 DEF PutApplied, PutUnanswered
    <2>. QED
      BY <2>1 DEF TrackInv, SensorTracks
  <1>. QED
    BY <1>1, <1>2, <1>3, ExposedCases DEF TrackInv, IInv

LEMMA SensorTracksStep ==
    ASSUME "report_read" \notin Faults, TrackInv, [Next]_vars
    PROVE  SensorTracks'
  <1>. USE DEF TrackInv, IInv
  <1>. DEFINE Tracks(r) ==
        /\ promo.pc = "decide" => promo.prior.merge = report[r].merge
        /\ promo.pc \in {"intent", "merge", "put"} => ~Exposed(r)
        /\ promo.pc \in {"merge", "put"} => Intended(report[r])
        /\ promo.pc = "note" => /\ Exposed(r) => Intended(promo.out)
                                /\ report[r].merge = "merged"
                                     => promo.out.merge = "merged"
        /\ promo.pc \in {"receipt", "deleted", "final"}
             => promo.out.merge = "merged"
        /\ promo.pc = "intent" => Intended(promo.out)
  <1>. Young' \subseteq Young /\ Young \subseteq Runs
    BY OldAreSweptStep DEF Young
  <1>1. SUFFICES ASSUME NEW r \in Young', promo'.run = r PROVE Tracks(r)'
    BY DEF SensorTracks
  <1>2. Exposed(r)' /\ promo'.pc \notin {"receipt", "idle"} => Exposed(r)
    <2>1. PutApplied(r) => promo'.pc = "receipt"
      BY DEF PutApplied, StartWrite, TypeOK, PromoState
    <2>2. PutUnanswered(r) => promo'.pc = "idle"
      BY DEF PutUnanswered, IdlePromo
    <2>. QED
      BY <2>1, <2>2, ExposedCases
  <1>3. \/ report'[r].merge = report[r].merge
        \/ /\ promo.pc \in {"note", "intent", "receipt", "deleted", "final"}
           /\ promo.run = r /\ report'[r].merge = promo.out.merge
    BY TrackedReport
  <1>4. CASE promo' = promo
    <2>1. promo.run = r
      BY <1>1, <1>4
    <2>2. Tracks(r)
      BY <2>1 DEF SensorTracks
    <2>. QED
      BY <1>2, <1>3, <1>4, <2>1, <2>2 DEF Intended
  <1>5. CASE promo' = IdlePromo
    <2>1. promo'.pc = "idle"
      BY <1>5 DEF IdlePromo
    <2>. QED
      BY <2>1
  <1>6. ASSUME NEW s \in Runs, PromoMoves(s) PROVE Tracks(r)'
    <2>1. s = r
      BY <1>1, <1>6 DEF PromoMoves, PromoNotes, PromoAccepts, PromoReplays,
         PromoIntends, PromoProves, PromoApplies, PromoDrops, PromoRecords,
         PromoFinalises, PromoSaves, GoesOnTo
    <2>2. report[r].merge = "merged" => Exposed(r)
      BY DEF ReceiptInv, ReportClaims, Claims, Exposed
    <2>3. CASE PromoNotes(r)
      <3>1. CASE NotesEarly(r)
        <4>1. promo'.out.merge = report[r].merge
          BY <3>1 DEF NotesEarly, Copies
        <4>2. report'[r].merge = report[r].merge
          BY <1>3, <3>1 DEF NotesEarly
        <4>. QED
          BY <1>2, <2>3, <4>1, <4>2
             DEF PromoNotes, ExposedIsIntended, Intended
      <3>2. CASE NotesUnmerged(r)
        <4>1. ~Exposed(r) /\ report'[r].merge = report[r].merge
          BY <1>3, <3>2 DEF NotesUnmerged, SensorTracks
        <4>. QED
          BY <1>2, <2>2, <2>3, <4>1 DEF PromoNotes
      <3>3. CASE NotesMerged(r)
        BY <2>3, <3>3 DEF PromoNotes, NotesMerged, Intended
      <3>. QED
        BY <2>3, <3>1, <3>2, <3>3 DEF PromoNotes
    <2>4. CASE PromoAccepts(r)
      <3>1. report'[r].merge = report[r].merge
        BY <1>3, <2>4 DEF PromoAccepts
      <3>. QED
        BY <2>4, <3>1 DEF PromoAccepts, PriorOf
    <2>5. CASE PromoIntends(r)
      <3>1. ~Intended(report[r])
        BY <2>5 DEF PromoIntends, GoesOnTo, SensorTracks, Intended
      <3>2. ~Exposed(r)
        BY <3>1 DEF ExposedIsIntended
      <3>. QED
        BY <1>2, <2>5, <3>2 DEF PromoIntends, GoesOnTo, Intended
    <2>6. CASE PromoProves(r)
      <3>1. report'[r].merge = report[r].merge /\ ~Exposed(r)
            /\ Intended(report[r])
        BY <1>3, <2>6 DEF PromoProves, GoesOnTo, SensorTracks
      <3>. QED
        BY <1>2, <2>6, <3>1 DEF PromoProves, GoesOnTo, Intended
    <2>7. CASE PromoSaves(r)
      <3>1. CASE promo.pc = "intent"
        <4>1. Intended(promo.out) /\ ~Exposed(r) /\ promo'.pc = "merge"
          BY <2>7, <3>1 DEF PromoSaves, GoesOnTo, SensorTracks, AfterWrite
        <4>. QED
          BY <1>2, <2>7, <4>1 DEF PromoSaves
      <3>2. CASE promo.pc # "intent"
        BY <2>7, <3>2 DEF PromoSaves, GoesOnTo, AfterWrite
      <3>. QED
        BY <3>1, <3>2
    <2>8. CASE \/ PromoReplays(r) \/ PromoApplies(r) \/ PromoDrops(r)
               \/ PromoRecords(r) \/ PromoFinalises(r)
      BY <2>8 DEF PromoReplays, PromoApplies, PromoDrops, PromoRecords,
         PromoFinalises, GoesOnTo
    <2>. QED
      BY <1>6, <2>1, <2>3, <2>4, <2>5, <2>6, <2>7, <2>8 DEF PromoMoves
  <1>. QED
    BY <1>4, <1>5, <1>6, PromoCases

LEMMA TrackHolds ==
    ASSUME "report_read" \notin Faults
    PROVE  Spec => []TrackInv
  <1>1. Init => TrackInv
    BY InitIInv, InitReceipt DEF Init, TrackInv, OldAreSwept, IdleSweep,
       ExposedIsIntended, SensorTracks, Exposed, Published, IdlePromo, Young
  <1>2. TrackInv /\ [Next]_vars => OldAreSwept'
    BY OldAreSweptStep DEF TrackInv, IInv
  <1>3. TrackInv /\ [Next]_vars => TrackInv'
    BY <1>2, IInvStep, ReceiptInvStep, ExposedIsIntendedStep,
       SensorTracksStep DEF TrackInv
  <1>. QED
    BY <1>1, <1>3, PTL DEF Spec

(* With readable reports, a published run within its retention period has  *)
(* a durable intent, whatever crashes, is lost or arrives late (the intent *)
(* is written before the PUT and nothing takes it back).                   *)
THEOREM YoungPublicationsWereIntended ==
    ASSUME "report_read" \notin Faults
    PROVE  Spec => [](\A r \in Runs \ aged :
                         Published(r)
                           => report[r].merge \in {"merge_started", "merged"})
  <1>1. TrackInv => \A r \in Runs \ aged :
                       Published(r)
                         => report[r].merge \in {"merge_started", "merged"}
    BY DEF TrackInv, ExposedIsIntended, Exposed, Intended, Young
  <1>. QED
    BY TrackHolds, <1>1, PTL

(* Where no run outlives the retention period, this is every run.          *)
THEOREM PublicationsWereIntended ==
    ASSUME "report_read" \notin Faults, StaleRuns = {}
    PROVE  Spec => []IntentBeforePublication
  <1>1. TrackInv => IntentBeforePublication
    BY DEF TrackInv, OldAreSwept, ExposedIsIntended, Exposed, Intended,
           Young, IntentBeforePublication
  <1>. QED
    BY TrackHolds, <1>1, PTL

(* With readable reports, no step replaces the merge receipt of a run      *)
(* within its retention period by anything less: no later evaluation       *)
(* decides about the run again.                                            *)
THEOREM YoungReceiptsSurvive ==
    ASSUME "report_read" \notin Faults
    PROVE  Spec => [][\A r \in Runs \ aged :
                         report[r].merge = "merged"
                           => report'[r].merge = "merged"]_vars
  <1>1. TrackInv /\ [Next]_vars
          => [\A r \in Runs \ aged :
                 report[r].merge = "merged"
                   => report'[r].merge = "merged"]_vars
    BY ReceiptKept DEF Young
  <1>. QED
    BY TrackHolds, <1>1, PTL DEF Spec

(* Where no run outlives the retention period, this is every run.          *)
THEOREM ReceiptsSurvive ==
    ASSUME "report_read" \notin Faults, StaleRuns = {}
    PROVE  Spec => ReceiptSurvives
  <1>1. TrackInv /\ [Next]_vars
          => [\A r \in Runs : report[r].merge = "merged"
                                => report'[r].merge = "merged"]_vars
    BY ReceiptKept DEF TrackInv, OldAreSwept, Young
  <1>2. Spec => [][\A r \in Runs : report[r].merge = "merged"
                                => report'[r].merge = "merged"]_vars
    BY TrackHolds, <1>1, PTL DEF Spec
  <1>. QED
    BY <1>2 DEF ReceiptSurvives

-----------------------------------------------------------------------------
(* What the promotion sensor deletes is on the target.  For a run without  *)
(* a writer that outlives it this needs no report at all: the branch of a  *)
(* published run still is what was published.                              *)
Quiet == Runs \ LateWriters

PublishedBranch ==
    \A r \in Quiet : Published(r) => HasAncestor(target, head[r])

PinnedBranch ==
    /\ promo.pc \in {"intent", "merge", "put"} /\ promo.run \in Quiet
         => head[promo.run] \in {promo.src, NoHash}
    /\ \A q \in inflight :
         q.run \in Quiet => head[q.run] \in {q.src, NoHash}

SettledInv == IInv /\ ReceiptInv /\ PublishedBranch /\ PinnedBranch

LEMMA HeadSettled ==
    ASSUME IInv, [Next]_vars, NEW r \in Quiet,
           run[r] = "success"
    PROVE  head'[r] \in {head[r], NoHash}
  <1>1. ~Created(r)
    BY DEF Created, IInv, LaunchInv, Quiet
  <1>2. ~WriteAsset(r)
    BY DEF WriteAsset, Quiet
  <1>. QED
    BY <1>1, <1>2, HeadCases DEF IInv, PromotionDeletes, SweepDeletes, Quiet

LEMMA NoHashIsAncestor == \A h \in Hash : HasAncestor(h, NoHash)
  BY DEF HasAncestor, NoHash, Hash

(* Who published what a step adds to the history.                          *)
LEMMA PublisherCases ==
    ASSUME TypeOK, PromoInv, [Next]_vars, NEW r \in Runs, Published(r)'
    PROVE  \/ Published(r)
           \/ promo.pc = "put" /\ promo.run = r /\ target' = promo.src
           \/ \E q \in inflight : q.run = r /\ target' = q.src
  <1>1. ASSUME published' = published PROVE Published(r)
    BY <1>1 DEF Published
  <1>2. ASSUME NEW s \in Runs, NEW h, Publish(s, h)
        PROVE  Published(r) \/ (r = s /\ target' = h)
    BY <1>2 DEF Publish, Published
  <1>3. PromoStep => \/ published' = published
                     \/ \E s \in Runs : PutApplied(s)
                     \/ \E q \in inflight : LatePut(q)
    BY Zenon DEF PromoStep, SensorStep, PromoReplace, PromoAbort,
         Scan, ScanUnverified, ScanReexecution, ScanContextInvalid,
         ScanFailedRun, ScanEvidenceUnavailable, ScanChecksFailed,
         ScanGoverned, ScanPriorUnreadable, ScanAccepted, Decide,
         DecideMerged, DecideUnknown, DecideHashUnavailable, DecideDrift,
         DecideUnbound, DecideIntent, Merge, MergeReviewRequired,
         MergeUnproven, MergeProven, PutUnanswered, PutRefused,
         FinishPromotion, CleanSkipped, CleanDropCatalog, CleanFailed,
         CleanDelete, Reconciled, TagPromoted, OnlySensorMoves,
         PublicationVars
  <1>4. ASSUME NEW s \in Runs, PutApplied(s)
        PROVE  \/ Published(r)
               \/ promo.pc = "put" /\ promo.run = r /\ target' = promo.src
    BY <1>2, <1>4 DEF PutApplied
  <1>5. ASSUME NEW q \in inflight, LatePut(q)
        PROVE  Published(r) \/ (q.run = r /\ target' = q.src)
    <2>1. q.run \in Runs
      BY DEF TypeOK
    <2>. QED
      BY <1>1, <1>2, <1>5, <2>1 DEF LatePut
  <1>6. TargetCommit \/ UNCHANGED vars => published' = published
    BY DEF TargetCommit, vars
  <1>. QED
    BY <1>1, <1>3, <1>4, <1>5, <1>6, LaunchFrame, RunFrame, SweepFrame
       DEF Next

LEMMA InflightAdds ==
    ASSUME TypeOK, [Next]_vars, NEW q \in inflight', q \notin inflight
    PROVE  /\ promo.pc = "put" /\ promo.run \in Runs
           /\ q = [run |-> promo.run, src |-> promo.src]
  <1>1. ASSUME NEW r \in Runs, PutUnanswered(r)
        PROVE  /\ promo.pc = "put" /\ promo.run \in Runs
               /\ q = [run |-> promo.run, src |-> promo.src]
    BY <1>1 DEF PutUnanswered
  <1>. QED
    BY <1>1, InflightGrows

LEMMA SettledStep ==
    ASSUME SettledInv, [Next]_vars
    PROVE  PublishedBranch' /\ PinnedBranch'
  <1>. USE DEF SettledInv, IInv
  <1>1. target \in Hash /\ target' \in Hash /\ HasAncestor(target', target)
    BY TypeStep, TargetExtends DEF TypeOK
  <1>. Quiet \subseteq Runs
    BY DEF Quiet
  <1>2. ASSUME NEW r \in Quiet, run[r] = "success"
        PROVE  head[r] \in Hash /\ head'[r] \in {head[r], NoHash}
    BY <1>2, HeadSettled DEF TypeOK
  <1>3. ASSUME NEW r \in Quiet, Published(r)'
        PROVE  HasAncestor(target', head'[r])
    <2>1. CASE Published(r)
      <3>1. run[r] = "success"
        BY <2>1 DEF Published, AuditedPublication
      <3>2. HasAncestor(target, head[r])
        BY <2>1 DEF PublishedBranch
      <3>3. HasAncestor(target', head[r])
        BY <1>1, <1>2, <3>1, <3>2, AncestorTransitive DEF Hash
      <3>. QED
        BY <1>1, <1>2, <3>1, <3>3, NoHashIsAncestor
    <2>2. ASSUME NEW h, run[r] = "success", head[r] \in {h, NoHash},
                 target' = h
          PROVE  HasAncestor(target', head'[r])
      <3>1. HasAncestor(h, h)
        BY <1>1, <2>2, AncestorReflexive DEF Hash
      <3>. QED
        BY <1>1, <1>2, <2>2, <3>1, NoHashIsAncestor
    <2>3. CASE promo.pc = "put" /\ promo.run = r /\ target' = promo.src
      BY <2>2, <2>3 DEF PinnedBranch, PromoInv, Approved
    <2>4. ASSUME NEW q \in inflight, q.run = r, target' = q.src
          PROVE  HasAncestor(target', head'[r])
      BY <2>2, <2>4 DEF PinnedBranch, InflightInv, Cleared, Approved
    <2>. QED
      BY <1>3, <2>1, <2>3, <2>4, PublisherCases
  <1>4. ASSUME promo'.pc \in {"intent", "merge", "put"}, promo'.run \in Quiet
        PROVE  head'[promo'.run] \in {promo'.src, NoHash}
    <2>1. ASSUME promo.pc \in {"intent", "merge", "put"},
                 promo'.run = promo.run, promo'.src = promo.src
          PROVE  head'[promo'.run] \in {promo'.src, NoHash}
      BY <1>2, <1>4, <2>1 DEF PinnedBranch, PromoInv, Approved
    <2>2. ASSUME NEW r \in Runs, PromoMoves(r)
          PROVE  head'[promo'.run] \in {promo'.src, NoHash}
      <3>1. CASE PromoIntends(r)
        <4>1. run[r] = "success"
          BY <3>1 DEF PromoIntends, GoesOnTo, PromoInv, Approved
        <4>. QED
          BY <1>2, <1>4, <3>1, <4>1 DEF PromoIntends, GoesOnTo
      <3>2. CASE PromoProves(r)
        BY <2>1, <3>2 DEF PromoProves, GoesOnTo
      <3>3. CASE PromoSaves(r)
        BY <1>4, <2>1, <3>3 DEF PromoSaves, GoesOnTo, AfterWrite
      <3>. QED
        BY <1>4, <2>2, <3>1, <3>2, <3>3 DEF PromoMoves, PromoNotes,
           PromoAccepts, PromoReplays, PromoApplies, PromoDrops,
           PromoRecords, PromoFinalises, GoesOnTo
    <2>3. promo' # IdlePromo
      BY <1>4 DEF IdlePromo
    <2>. QED
      BY <1>4, <2>1, <2>2, <2>3, PromoCases
  <1>5. ASSUME NEW q \in inflight', q.run \in Quiet
        PROVE  head'[q.run] \in {q.src, NoHash}
    <2>1. CASE q \in inflight
      BY <1>2, <1>5, <2>1
         DEF PinnedBranch, InflightInv, Cleared, Approved, TypeOK
    <2>2. CASE q \notin inflight
      <3>1. /\ promo.pc = "put" /\ promo.run \in Runs
            /\ q = [run |-> promo.run, src |-> promo.src]
        BY <2>2, InflightAdds
      <3>. QED
        BY <1>2, <1>5, <3>1 DEF PinnedBranch, PromoInv, Approved
    <2>. QED
      BY <2>1, <2>2
  <1>. QED
    BY <1>3, <1>4, <1>5 DEF PublishedBranch, PinnedBranch

-----------------------------------------------------------------------------
(* With late writers the deletion relies on the hash in the merge receipt. *)
(* First: no run is audited before its launcher is done, and no sensor     *)
(* holds a registered report before that.                                  *)
RegisteredLast ==
    \A r \in Runs : launch[r] \notin {"done", "stopped"} =>
        /\ run[r] \notin {"started", "success"}
        /\ ~report[r].reg
        /\ promo.run = r => ~promo.out.reg
        /\ sweep.run = r => ~sweep.out.reg

(* Neither the report nor the cleanup sensor knows of a merge of r.        *)
Unmerged(r) ==
    /\ report[r].merge # "merged"
    /\ sweep.run = r => sweep.out.merge # "merged"

(* A registered report without the receipt is the only copy there is: when *)
(* the sensor decides on one, nobody holds the receipt of a merge.         *)
NoStrayReceipt ==
    \A r \in Runs :
        /\ report[r].reg /\ report[r].merge # "merged" => Unmerged(r)
        /\ promo.run = r =>
            /\ promo.out.reg /\ promo.out.merge # "merged" => Unmerged(r)
            /\ promo.pc \in {"decide", "intent", "merge", "put"}
                => promo.prior.merge = "merged" \/ Unmerged(r)
            /\ promo.pc \in {"intent", "merge", "put"}
                 => promo.prior.merge # "merged"
            /\ promo.pc = "intent" => promo.out.merge # "merged"

StrayInv == IInv /\ ReceiptInv /\ RegisteredLast /\ NoStrayReceipt

LEMMA PromoMovesRun ==
    ASSUME NEW r, PromoMoves(r)
    PROVE  promo'.run = r
  BY DEF PromoMoves, PromoNotes, PromoAccepts, PromoReplays,
     PromoIntends, PromoProves, PromoApplies, PromoDrops, PromoRecords,
     PromoFinalises, PromoSaves, GoesOnTo

LEMMA RegisteredLastStep ==
    ASSUME StrayInv, [Next]_vars
    PROVE  RegisteredLast'
  <1>. USE DEF StrayInv, IInv
  <1>1. SUFFICES ASSUME NEW r \in Runs, launch'[r] \notin {"done", "stopped"}
                 PROVE  /\ run'[r] \notin {"started", "success"}
                        /\ ~report'[r].reg
                        /\ promo'.run = r => ~promo'.out.reg
                        /\ sweep'.run = r => ~sweep'.out.reg
    BY DEF RegisteredLast
  <1>2. launch[r] \notin {"done", "stopped"}
    BY <1>1, LaunchCases
  <1>3. /\ run[r] \notin {"started", "success"}
        /\ ~report[r].reg
        /\ promo.run = r => ~promo.out.reg
        /\ sweep.run = r => ~sweep.out.reg
    BY <1>2 DEF RegisteredLast
  <1>4. run'[r] \notin {"started", "success"}
    BY <1>3, RunCases DEF Terminal
  <1>5. ~report'[r].reg
    BY <1>1, <1>3, ReportCases DEF LaunchWrites, PromoWrites, SweepWrites
  <1>6. ~EmptyReport.reg /\ IdlePromo.out = EmptyReport
        /\ IdleSweep.out = EmptyReport
    BY DEF EmptyReport, IdlePromo, IdleSweep
  <1>7. ASSUME promo'.run = r PROVE ~promo'.out.reg
    <2>1. ASSUME PromoMoves(r) PROVE ~promo'.out.reg
      BY <1>3, <1>6, <2>1 DEF PromoMoves, PromoNotes, NotesEarly,
         NotesUnmerged, NotesMerged, Copies, Keeps, PromoAccepts,
         PromoReplays, PromoIntends, PromoProves, PromoApplies, PromoDrops,
         PromoRecords, PromoFinalises, PromoSaves, GoesOnTo
    <2>. QED
      BY <1>3, <1>6, <1>7, <2>1, PromoCases, PromoMovesRun
  <1>8. ASSUME sweep'.run = r PROVE ~sweep'.out.reg
    BY <1>3, <1>6, <1>8, SweepCases
       DEF SweepLists, SweepNotes, SweepApproves, SweepDrops, Copies
  <1>. QED
    BY <1>4, <1>5, <1>7, <1>8

(* The receipt of a merge comes from the promotion sensor alone.           *)
LEMMA UnmergedStays ==
    ASSUME TypeOK, [Next]_vars, NEW r \in Runs, Unmerged(r),
           promo.run = r /\ promo.pc \in DOMAIN AfterWrite
             => promo.out.merge # "merged"
    PROVE  Unmerged(r)'
  <1>1. report'[r].merge # "merged"
    BY ReportCases
       DEF Unmerged, LaunchWrites, PromoWrites, SweepWrites
  <1>2. ASSUME sweep'.run = r PROVE sweep'.out.merge # "merged"
    <2>1. EmptyReport.merge = "none" /\ IdleSweep.out = EmptyReport
      BY DEF EmptyReport, IdleSweep
    <2>. QED
      BY <1>2, <2>1, SweepCases DEF Unmerged, SweepLists, SweepNotes,
         SweepApproves, SweepDrops, Copies
  <1>. QED
    BY <1>1, <1>2 DEF Unmerged

LEMMA NoStrayReportStep ==
    ASSUME StrayInv, [Next]_vars, NEW r \in Runs,
           report'[r].reg, report'[r].merge # "merged"
    PROVE  Unmerged(r)'
  <1>. USE DEF StrayInv, IInv
  <1>1. SUFFICES ASSUME sweep'.run = r PROVE sweep'.out.merge # "merged"
    BY DEF Unmerged
  <1>2. EmptyReport.merge = "none" /\ IdleSweep.out = EmptyReport
    BY DEF EmptyReport, IdleSweep
  <1>3. CASE sweep' = sweep
    <2>1. CASE report'[r] = report[r]
      BY <1>1, <1>3, <2>1 DEF NoStrayReceipt, Unmerged
    <2>2. CASE LaunchWrites(r)
      <3>1. run[r] # "success"
        BY <2>2 DEF LaunchWrites, RegisteredLast
      <3>2. ~Published(r)
        BY <3>1 DEF AuditedPublication, Published
      <3>. QED
        BY <1>1, <1>3, <3>2 DEF ReceiptInv, SweepClaims, Claims
    <2>3. CASE PromoWrites(r)
      BY <1>1, <1>3, <2>3 DEF PromoWrites, NoStrayReceipt, Unmerged
    <2>4. CASE SweepWrites(r)
      BY <1>3, <2>4 DEF SweepWrites
    <2>. QED
      BY <2>1, <2>2, <2>3, <2>4, ReportCases
  <1>4. CASE sweep' # sweep /\ sweep' # IdleSweep
    <2>1. report' = report /\ Unmerged(r)
      BY <1>4, SweepCases DEF SweepLists, SweepNotes, SweepApproves,
         SweepDrops, NoStrayReceipt
    <2>. QED
      BY <1>1, <1>2, <1>4, <2>1, SweepCases DEF SweepLists, SweepNotes,
         SweepApproves, SweepDrops, Copies, Unmerged
  <1>. QED
    BY <1>2, <1>3, <1>4

LEMMA NoStrayPromoStep ==
    ASSUME StrayInv, [Next]_vars, NEW r \in Runs, promo'.run = r
    PROVE  /\ promo'.out.reg /\ promo'.out.merge # "merged" => Unmerged(r)'
           /\ promo'.pc \in {"decide", "intent", "merge", "put"}
               => promo'.prior.merge = "merged" \/ Unmerged(r)'
           /\ promo'.pc \in {"intent", "merge", "put"}
                => promo'.prior.merge # "merged"
           /\ promo'.pc = "intent" => promo'.out.merge # "merged"
  <1>. USE DEF StrayInv, IInv
  <1>. DEFINE Goal ==
         /\ promo'.out.reg /\ promo'.out.merge # "merged" => Unmerged(r)'
         /\ promo'.pc \in {"decide", "intent", "merge", "put"}
             => promo'.prior.merge = "merged" \/ Unmerged(r)'
         /\ promo'.pc \in {"intent", "merge", "put"}
              => promo'.prior.merge # "merged"
         /\ promo'.pc = "intent" => promo'.out.merge # "merged"
  <1>0. SUFFICES Goal
    OBVIOUS
  <1>1. ~EmptyReport.reg
    BY DEF EmptyReport
  <1>2. ASSUME Unmerged(r),
               \/ promo.run # r \/ promo.pc \notin DOMAIN AfterWrite
               \/ promo.out.merge # "merged"
        PROVE  Unmerged(r)'
    BY <1>2, UnmergedStays
  <1>3. CASE promo' = promo
    <2>1. /\ promo.out.reg /\ promo.out.merge # "merged" => Unmerged(r)'
          /\ promo.pc \in {"decide", "intent", "merge", "put"}
              => promo.prior.merge = "merged" \/ Unmerged(r)'
          /\ promo.pc \in {"intent", "merge", "put"}
               => promo.prior.merge # "merged"
          /\ promo.pc = "intent" => promo.out.merge # "merged"
      BY <1>2, <1>3 DEF NoStrayReceipt, AfterWrite
    <2>. QED
      BY <1>3, <2>1
  <1>4. CASE promo' = IdlePromo
    BY <1>1, <1>4 DEF IdlePromo
  <1>5. ASSUME PromoMoves(r) PROVE Goal
    <2>1. CASE PromoNotes(r)
      <3>1. CASE NotesEarly(r)
        BY <1>2, <2>1, <3>1
           DEF PromoNotes, NotesEarly, Copies, NoStrayReceipt, AfterWrite
      <3>2. CASE NotesUnmerged(r)
        <4>1. Unmerged(r)
          BY <3>2 DEF NotesUnmerged, NoStrayReceipt
        <4>. QED
          BY <1>2, <2>1, <3>2, <4>1
             DEF PromoNotes, NotesUnmerged, AfterWrite
      <3>3. CASE NotesMerged(r)
        BY <2>1, <3>3 DEF PromoNotes, NotesMerged
      <3>. QED
        BY <2>1, <3>1, <3>2, <3>3 DEF PromoNotes
    <2>2. CASE PromoAccepts(r)
      <3>1. promo'.prior.merge = report[r].merge
        BY <2>2 DEF PromoAccepts, PriorOf
      <3>. QED
        BY <1>1, <1>2, <2>2, <3>1
           DEF PromoAccepts, NoStrayReceipt, AfterWrite
    <2>3. CASE PromoReplays(r) \/ PromoDrops(r)
      BY <1>2, <2>3 DEF PromoReplays, PromoDrops, GoesOnTo, NoStrayReceipt,
                        AfterWrite
    <2>4. CASE PromoIntends(r)
      BY <1>2, <2>4 DEF PromoIntends, GoesOnTo, NoStrayReceipt, AfterWrite
    <2>5. CASE PromoProves(r)
      BY <1>2, <2>5 DEF PromoProves, GoesOnTo, NoStrayReceipt, AfterWrite
    <2>6. CASE PromoApplies(r) \/ PromoRecords(r) \/ PromoFinalises(r)
      BY <2>6 DEF PromoApplies, PromoRecords, PromoFinalises, GoesOnTo
    <2>7. CASE PromoSaves(r)
      BY <1>1, <1>2, <2>7 DEF PromoSaves, GoesOnTo, NoStrayReceipt,
                              AfterWrite
    <2>. QED
      BY <1>5, <2>1, <2>2, <2>3, <2>4, <2>5, <2>6, <2>7 DEF PromoMoves
  <1>. HIDE DEF Goal
  <1>. QED
    BY <1>3, <1>4, <1>5, PromoCases, PromoMovesRun

(* While check records can be read, the hash that a merge receipt carries, *)
(* wherever it is held, is on the target t.                                *)
OnTarget(t, h) == h # NoHash /\ HasAncestor(t, h)

Sourced(t, rep) == rep.merge = "merged" => OnTarget(t, rep.src)

BasesOnTarget == \A r \in Runs : HasAncestor(target, base[r])

ReceiptsSourced ==
    /\ \A r \in Runs : Sourced(target, report[r])
    /\ Sourced(target, sweep.out)

PromoSourced ==
    /\ Sourced(target, promo.out) /\ Sourced(target, promo.prior)
    /\ promo.pc \in AfterMerge => OnTarget(target, promo.src)

SourceInv == StrayInv /\ BasesOnTarget /\ ReceiptsSourced /\ PromoSourced

LEMMA OnTargetStays ==
    ASSUME IInv, [Next]_vars, NEW h \in Hash, OnTarget(target, h)
    PROVE  OnTarget(target', h)
  <1>1. target \in Hash /\ target' \in Hash
    BY TypeStep DEF IInv, TypeOK
  <1>2. HasAncestor(target', target)
    BY TargetExtends
  <1>3. HasAncestor(target', h)
    BY <1>1, <1>2, AncestorTransitive DEF OnTarget, Hash
  <1>. QED
    BY <1>3 DEF OnTarget

LEMMA BasesOnTargetStep ==
    ASSUME SourceInv, [Next]_vars
    PROVE  BasesOnTarget'
  <1>. USE DEF SourceInv, StrayInv, IInv
  <1>1. target \in Hash /\ target' \in Hash /\ base \in [Runs -> Hash]
    BY TypeStep DEF TypeOK
  <1>2. HasAncestor(target', target)
    BY TargetExtends
  <1>3. SUFFICES ASSUME NEW r \in Runs PROVE HasAncestor(target', base'[r])
    BY DEF BasesOnTarget
  <1>4. CASE base'[r] = base[r]
    BY <1>1, <1>2, <1>4, AncestorTransitive DEF BasesOnTarget, Hash
  <1>5. base'[r] = base[r] \/ base'[r] = target
    <2>1. ASSUME NEW s \in Runs, LaunchStep(s)
          PROVE  base'[r] = base[r] \/ base'[r] = target
      BY <1>1, <2>1 DEF LaunchStep, ReadTarget, CreateBranch, SealLaunch,
         Register, SubmitAccepted, SubmitFailed, LauncherCrash
    <2>2. TargetCommit \/ UNCHANGED vars => base' = base
      BY DEF TargetCommit, launchVars, vars
    <2>. QED
      BY <2>1, <2>2, RunFrame, PromoFrame, SweepFrame DEF Next
  <1>. QED
    BY <1>2, <1>4, <1>5

(* A receipt that is kept keeps its place on the target.                   *)
LEMMA SourcedStays ==
    ASSUME IInv, [Next]_vars, NEW rep \in Report \cup Prior,
           Sourced(target, rep)
    PROVE  Sourced(target', rep)
  <1>1. rep.src \in Hash
    BY DEF Report, Prior
  <1>. QED
    BY <1>1, OnTargetStays DEF Sourced

LEMMA ReceiptsSourcedStep ==
    ASSUME SourceInv, [Next]_vars
    PROVE  ReceiptsSourced'
  <1>. USE DEF SourceInv, StrayInv, IInv
  <1>0. /\ report \in [Runs -> Report] /\ promo.out \in Report
        /\ sweep.out \in Report /\ base \in [Runs -> Hash]
    BY DEF TypeOK, PromoState, SweepState
  <1>1. ASSUME NEW r \in Runs PROVE Sourced(target', report'[r])
    <2>1. CASE report'[r] = report[r]
      <3>1. Sourced(target', report[r])
        BY <1>0, SourcedStays DEF ReceiptsSourced
      <3>. QED
        BY <2>1, <3>1
    <2>2. CASE LaunchWrites(r)
      <3>1. launch[r] # "idle" /\ report'[r].src = base[r]
        BY <2>2 DEF LaunchWrites
      <3>2. base[r] \in Hash /\ OnTarget(target, base[r])
        BY <1>0, <3>1 DEF OnTarget, BasesOnTarget, LaunchInv
      <3>. QED
        BY <3>1, <3>2, OnTargetStays DEF Sourced
    <2>3. CASE PromoWrites(r)
      <3>1. Sourced(target', promo.out)
        BY <1>0, SourcedStays DEF PromoSourced
      <3>. QED
        BY <2>3, <3>1 DEF PromoWrites
    <2>4. CASE SweepWrites(r)
      <3>1. Sourced(target', sweep.out)
        BY <1>0, SourcedStays DEF ReceiptsSourced
      <3>. QED
        BY <2>4, <3>1 DEF SweepWrites
    <2>. QED
      BY <2>1, <2>2, <2>3, <2>4, ReportCases
  <1>2. Sourced(target', sweep'.out)
    <2>1. EmptyReport.merge = "none" /\ IdleSweep.out = EmptyReport
      BY DEF EmptyReport, IdleSweep
    <2>2. CASE sweep'.out = sweep.out
      <3>1. Sourced(target', sweep.out)
        BY <1>0, SourcedStays DEF ReceiptsSourced
      <3>. QED
        BY <2>2, <3>1
    <2>3. CASE sweep'.out = EmptyReport
      BY <2>1, <2>3 DEF Sourced
    <2>4. CASE SweepNotes
      <3>1. PICK s \in Runs : s = sweep.run
        BY <2>4 DEF SweepNotes
      <3>2. sweep'.out.merge = "merged"
              => report[s].merge = "merged" /\ sweep'.out.src = report[s].src
        BY <2>4, <3>1 DEF SweepNotes, Copies, CopiesSource
      <3>3. Sourced(target', report[s])
        BY <1>0, SourcedStays DEF ReceiptsSourced
      <3>. QED
        BY <3>2, <3>3 DEF Sourced
    <2>. QED
      BY <2>1, <2>2, <2>3, <2>4, SweepCases DEF SweepLists, SweepApproves,
         SweepDrops
  <1>. QED
    BY <1>1, <1>2 DEF ReceiptsSourced

(* What a note before the merge copies is the receipt in the report.       *)
LEMMA NoteSourced ==
    ASSUME "event_log" \notin Faults, SourceInv, NEW r \in Runs, NotesEarly(r),
           promo'.out.merge = "merged"
    PROVE  report[r].merge = "merged" /\ promo'.out.src = report[r].src
  <1>. USE DEF SourceInv, StrayInv
  <1>1. report[r].merge = "merged"
    BY DEF NotesEarly, Copies
  <1>2. AllChecksPassed(checks[r])
    BY <1>1 DEF ReceiptInv, ReportClaims, Claims, IInv, AuditedPublication,
                Published
  <1>3. ~(promo.pc = "decide" /\ promo.run = r
          /\ promo.prior.merge \notin {"merged", "merge_started"})
    BY <1>1 DEF NoStrayReceipt, Unmerged
  <1>. QED
    BY <1>1, <1>2, <1>3 DEF NotesEarly, CopiesSource

(* What the sensor publishes is a commit: it descends from the base.       *)
LEMMA AppliedSourced ==
    ASSUME SourceInv, [Next]_vars, NEW r \in Runs, PromoApplies(r)
    PROVE  OnTarget(target', promo.src)
  <1>. USE DEF SourceInv, StrayInv, IInv
  <1>1. promo.src \in Hash /\ base[r] \in Hash
    BY DEF TypeOK, PromoState
  <1>2. HasAncestor(promo.src, base[r])
    BY DEF PromoApplies, GoesOnTo, PromoInv
  <1>3. target = base[r] /\ target # NoHash /\ target' = promo.src
    BY DEF PromoApplies, Publish, AssignAllowed, LaunchInv
  <1>. QED
    BY <1>1, <1>2, <1>3, DescendantExists, AncestorReflexive
       DEF OnTarget, Hash

LEMMA PromoSourcedStep ==
    ASSUME "event_log" \notin Faults, SourceInv, [Next]_vars
    PROVE  PromoSourced'
  <1>. USE DEF SourceInv, StrayInv, IInv
  <1>. DEFINE Goal == /\ Sourced(target', promo'.out)
                      /\ Sourced(target', promo'.prior)
                      /\ promo'.pc \in AfterMerge
                           => OnTarget(target', promo'.src)
  <1>0. SUFFICES Goal
    BY DEF PromoSourced
  <1>1. /\ promo.out \in Report /\ promo.prior \in Prior /\ promo.src \in Hash
        /\ report \in [Runs -> Report]
    BY DEF TypeOK, PromoState
  <1>2. /\ Sourced(target', promo.out) /\ Sourced(target', promo.prior)
        /\ promo.pc \in AfterMerge => OnTarget(target', promo.src)
    BY <1>1, SourcedStays, OnTargetStays DEF PromoSourced
  <1>3. ASSUME NEW r \in Runs PROVE Sourced(target', report[r])
    BY <1>1, SourcedStays DEF ReceiptsSourced
  <1>4. /\ EmptyReport.merge = "none" /\ IdlePromo.prior.merge = "none"
        /\ IdlePromo.out = EmptyReport /\ IdlePromo.pc = "idle"
    BY DEF EmptyReport, IdlePromo, PriorOf
  <1>5. CASE promo' = promo
    BY <1>2, <1>5
  <1>6. CASE promo' = IdlePromo
    BY <1>4, <1>6 DEF Sourced, AfterMerge
  <1>7. ASSUME NEW r \in Runs, PromoMoves(r) PROVE Goal
    <2>1. CASE PromoNotes(r)
      <3>1. promo'.pc \notin AfterMerge /\ Sourced(target', promo'.prior)
        BY <1>4, <2>1 DEF PromoNotes, Sourced, AfterMerge
      <3>2. CASE NotesEarly(r)
        <4>1. Sourced(target', promo'.out)
          BY <1>3, <3>2, NoteSourced DEF Sourced
        <4>. QED
          BY <3>1, <4>1
      <3>3. CASE NotesUnmerged(r)
        BY <3>1, <3>3 DEF NotesUnmerged, Sourced
      <3>4. CASE NotesMerged(r)
        <4>1. promo.pc \in AfterMerge /\ promo'.out.src = promo.src
          BY <3>4 DEF NotesMerged, AfterMerge
        <4>. QED
          BY <1>2, <3>1, <4>1 DEF Sourced
      <3>. QED
        BY <2>1, <3>2, <3>3, <3>4 DEF PromoNotes
    <2>2. CASE PromoAccepts(r)
      <3>1. /\ promo'.prior.merge = report[r].merge
            /\ promo'.prior.src = report[r].src
            /\ promo'.out.merge = "none" /\ promo'.pc = "decide"
        BY <1>4, <2>2 DEF PromoAccepts, PriorOf
      <3>. QED
        BY <1>3, <3>1 DEF Sourced, AfterMerge
    <2>3. CASE PromoReplays(r)
      <3>1. /\ promo'.prior = promo.prior /\ promo'.out = promo.out
            /\ promo.prior.merge = "merged"
        BY <2>3 DEF PromoReplays, GoesOnTo
      <3>2. OnTarget(target', promo.prior.src)
        BY <1>2, <3>1 DEF Sourced
      <3>3. promo'.src = promo.prior.src
        BY <2>3, <3>2 DEF PromoReplays, OnTarget
      <3>. QED
        BY <1>2, <3>1, <3>2, <3>3
    <2>4. CASE PromoIntends(r) \/ PromoProves(r)
      BY <1>2, <2>4 DEF PromoIntends, PromoProves, GoesOnTo, Sourced,
                        AfterMerge
    <2>5. CASE PromoApplies(r)
      <3>1. OnTarget(target', promo.src)
        BY <2>5, AppliedSourced
      <3>. QED
        BY <1>2, <2>5, <3>1 DEF PromoApplies, GoesOnTo, Sourced
    <2>6. CASE PromoDrops(r) \/ PromoRecords(r) \/ PromoFinalises(r)
      <3>1. /\ promo.pc \in AfterMerge /\ promo'.src = promo.src
            /\ promo'.prior = promo.prior
            /\ \/ promo'.out = promo.out
               \/ promo'.out.src = promo.src
        BY <2>6 DEF PromoDrops, PromoRecords, PromoFinalises, GoesOnTo,
                    AfterMerge
      <3>. QED
        BY <1>2, <3>1 DEF Sourced
    <2>7. CASE PromoSaves(r)
      <3>1. /\ promo'.pc \in AfterMerge => promo.pc \in AfterMerge
            /\ promo'.src = promo.src /\ promo'.prior = promo.prior
            /\ promo'.out = EmptyReport
        BY <2>7 DEF PromoSaves, GoesOnTo, AfterWrite, AfterMerge
      <3>. QED
        BY <1>2, <1>4, <3>1 DEF Sourced
    <2>. QED
      BY <1>7, <2>1, <2>2, <2>3, <2>4, <2>5, <2>6, <2>7 DEF PromoMoves
  <1>. HIDE DEF Goal
  <1>. QED
    BY <1>5, <1>6, <1>7, PromoCases

LEMMA SourceHolds ==
    ASSUME "event_log" \notin Faults
    PROVE  Spec => []SourceInv
  <1>1. Init => SourceInv
    <2>. SUFFICES ASSUME Init PROVE SourceInv
      OBVIOUS
    <2>1. EmptyReport.merge = "none" /\ ~EmptyReport.reg
          /\ EmptyReport.src = NoHash
      BY DEF EmptyReport
    <2>2. RegisteredLast /\ NoStrayReceipt
      BY <2>1 DEF Init, RegisteredLast, NoStrayReceipt, Unmerged, IdlePromo,
                  IdleSweep
    <2>3. ReceiptsSourced /\ PromoSourced
      BY <2>1 DEF Init, ReceiptsSourced, PromoSourced, Sourced, IdlePromo,
                  IdleSweep, PriorOf, AfterMerge
    <2>4. BasesOnTarget
      <3>1. target \in Hash
        BY InitIInv DEF IInv, TypeOK
      <3>2. \A r \in Runs : base[r] = NoHash
        BY DEF Init
      <3>. QED
        BY <3>1, <3>2, NoHashIsAncestor DEF BasesOnTarget
    <2>. QED
      BY <2>2, <2>3, <2>4, InitIInv, InitReceipt DEF SourceInv, StrayInv
  <1>2. SourceInv /\ [Next]_vars => SourceInv'
    <2>. SUFFICES ASSUME SourceInv, [Next]_vars PROVE SourceInv'
      OBVIOUS
    <2>1. StrayInv
      BY DEF SourceInv
    <2>2. NoStrayReceipt'
      BY <2>1, NoStrayReportStep, NoStrayPromoStep DEF NoStrayReceipt
    <2>3. IInv' /\ ReceiptInv'
      BY <2>1, IInvStep, ReceiptInvStep DEF StrayInv
    <2>. QED
      BY <2>1, <2>2, <2>3, RegisteredLastStep, BasesOnTargetStep,
         ReceiptsSourcedStep, PromoSourcedStep DEF SourceInv, StrayInv
  <1>. QED
    BY <1>1, <1>2, PTL DEF Spec

LEMMA SettledHolds == Spec => []SettledInv
  <1>1. Init => SettledInv
    BY InitIInv, InitReceipt DEF Init, SettledInv, PublishedBranch,
       PinnedBranch, Published, IdlePromo
  <1>2. SettledInv /\ [Next]_vars => SettledInv'
    BY IInvStep, ReceiptInvStep, SettledStep DEF SettledInv
  <1>. QED
    BY <1>1, <1>2, PTL DEF Spec

(* A branch that disappears while the promotion sensor moves was deleted   *)
(* by it, after the merge.                                                 *)
LEMMA SensorDeletes ==
    ASSUME IInv, [Next]_vars, NEW r \in Runs,
           head[r] # NoHash, head'[r] = NoHash, promo' # promo
    PROVE  PromotionDeletes(r)
  <1>1. ~Created(r)
    BY DEF Created, IInv, LaunchInv
  <1>2. ~WriteAsset(r)
    BY LaunchFrame, RunFrame DEF RunStep
  <1>. QED
    BY <1>1, <1>2, HeadCases DEF IInv, SweepDeletes

(* Of a run without a writer that outlives it, the promotion sensor only   *)
(* deletes a branch that is on the target, whatever is unreadable or lost: *)
(* the branch still is what was published.                                 *)
THEOREM QuietDeletionsArePublished ==
    Spec => [][\A r \in Runs \ LateWriters :
                  head[r] # NoHash /\ head'[r] = NoHash /\ promo' # promo
                    => HasAncestor(target, head[r])]_vars
  <1>. DEFINE Keeping == \A r \in Runs \ LateWriters :
                head[r] # NoHash /\ head'[r] = NoHash /\ promo' # promo
                  => HasAncestor(target, head[r])
  <1>1. SettledInv /\ [Next]_vars => [Keeping]_vars
    <2>. SUFFICES ASSUME SettledInv, [Next]_vars,
                         NEW r \in Runs \ LateWriters, head[r] # NoHash,
                         head'[r] = NoHash, promo' # promo
                  PROVE  HasAncestor(target, head[r])
      OBVIOUS
    <2>1. promo.pc = "delete" /\ promo.run = r
      BY SensorDeletes DEF SettledInv, PromotionDeletes
    <2>2. Published(r)
      BY <2>1 DEF SettledInv, ReceiptInv, PromoClaims, AfterMerge
    <2>. QED
      BY <2>2 DEF SettledInv, PublishedBranch, Quiet
  <1>. HIDE DEF Keeping
  <1>2. Spec => [][Keeping]_vars
    BY <1>1, SettledHolds, PTL DEF Spec
  <1>. QED
    BY <1>2 DEF Keeping

(* What the promotion sensor deletes is on the target: with no writer that *)
(* outlives its run because the branch still is what was published, and    *)
(* otherwise, as long as check records can be read, because the deletion   *)
(* is conditional on the hash of the receipt, which names what was         *)
(* published (DELETE with the expected hash, _cleanup_owned_wap_branch).   *)
THEOREM PromotionDeletesPublished ==
    ASSUME "event_log" \notin Faults \/ LateWriters = {}
    PROVE  Spec => PromotionKeepsUnpublished
  <1>. DEFINE Keeping == \A r \in Runs :
                head[r] # NoHash /\ head'[r] = NoHash /\ promo' # promo
                  => HasAncestor(target, head[r])
  <1>1. CASE LateWriters = {}
    <2>. DEFINE QuietKeeping == \A r \in Runs \ LateWriters :
                head[r] # NoHash /\ head'[r] = NoHash /\ promo' # promo
                  => HasAncestor(target, head[r])
    <2>1. QuietKeeping => Keeping
      BY <1>1
    <2>2. Spec => [][QuietKeeping]_vars
      BY QuietDeletionsArePublished
    <2>. HIDE DEF Keeping, QuietKeeping
    <2>3. Spec => [][Keeping]_vars
      BY <2>1, <2>2, PTL
    <2>. QED
      BY <2>3 DEF Keeping, PromotionKeepsUnpublished
  <1>2. CASE "event_log" \notin Faults
    <2>1. SourceInv /\ [Next]_vars => [Keeping]_vars
      <3>. SUFFICES ASSUME SourceInv, [Next]_vars, NEW r \in Runs,
                           head[r] # NoHash, head'[r] = NoHash,
                           promo' # promo
                    PROVE  HasAncestor(target, head[r])
        OBVIOUS
      <3>1. /\ promo.pc = "delete"
            /\ promo.src # NoHash => head[r] = promo.src
        BY SensorDeletes DEF SourceInv, StrayInv, PromotionDeletes
      <3>2. OnTarget(target, promo.src)
        BY <3>1 DEF SourceInv, PromoSourced, AfterMerge
      <3>. QED
        BY <3>1, <3>2 DEF OnTarget
    <2>2. Spec => []SourceInv
      BY <1>2, SourceHolds
    <2>. HIDE DEF Keeping
    <2>3. Spec => [][Keeping]_vars
      BY <2>1, <2>2, PTL DEF Spec
    <2>. QED
      BY <2>3 DEF Keeping, PromotionKeepsUnpublished
  <1>. QED
    BY <1>1, <1>2
=============================================================================
