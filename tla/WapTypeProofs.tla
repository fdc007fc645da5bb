--------------------------- MODULE WapTypeProofs ----------------------------
(***************************************************************************)
(* Ancestry of commit hashes is a partial order that commits extend; type  *)
(* correctness of the composed Write-Audit-Publish specification.          *)
(***************************************************************************)
EXTENDS WapBranch, TLAPS

LEMMA AncestorReflexive ==
    ASSUME NEW S, NEW h \in Seq(S)
    PROVE  HasAncestor(h, h)
  BY DEF HasAncestor

LEMMA AncestorTransitive ==
    ASSUME NEW S, NEW a \in Seq(S), NEW b \in Seq(S), NEW c \in Seq(S),
           HasAncestor(c, b), HasAncestor(b, a)
    PROVE  HasAncestor(c, a)
  BY DEF HasAncestor

(* A commit keeps the history it is made on.                               *)
LEMMA CommitExtends ==
    ASSUME NEW S, NEW h \in Seq(S), NEW w \in S
    PROVE  /\ CommitOn(h, w) \in Seq(S)
           /\ CommitOn(h, w) # NoHash
           /\ HasAncestor(CommitOn(h, w), h)
  <1>1. Append(h, w) \in Seq(S) /\ Len(Append(h, w)) = Len(h) + 1
    OBVIOUS
  <1>2. \A i \in 1 .. Len(h) : Append(h, w)[i] = h[i]
    OBVIOUS
  <1>3. Append(h, w) # << >>
    BY <1>1
  <1>. QED
    BY <1>1, <1>2, <1>3 DEF HasAncestor, CommitOn, NoHash

(* Two hashes that are ancestors of each other are the same hash.          *)
LEMMA AncestorAntisymmetric ==
    ASSUME NEW S, NEW a \in Seq(S), NEW b \in Seq(S),
           HasAncestor(a, b), HasAncestor(b, a)
    PROVE  a = b
  <1>1. Len(a) = Len(b)
    BY DEF HasAncestor
  <1>2. \A i \in 1 .. Len(a) : a[i] = b[i]
    BY <1>1 DEF HasAncestor
  <1>. QED
    BY <1>1, <1>2

(* A hash with a real ancestor is a real hash.                             *)
LEMMA DescendantExists ==
    ASSUME NEW S, NEW a \in Seq(S), NEW b \in Seq(S),
           HasAncestor(a, b), b # NoHash
    PROVE  a # NoHash
  BY DEF HasAncestor, NoHash

-----------------------------------------------------------------------------
LEMMA HashFacts ==
    /\ NoHash \in Hash
    /\ \A h \in Hash, w \in Runs \cup {Other} : CommitOn(h, w) \in Hash
  <1>1. NoHash \in Hash
    BY DEF NoHash, Hash
  <1>2. ASSUME NEW h \in Hash, NEW w \in Runs \cup {Other}
        PROVE  CommitOn(h, w) \in Hash
    BY CommitExtends DEF Hash
  <1>. QED
    BY <1>1, <1>2

LEMMA RecordFacts ==
    /\ EmptyReport \in Report
    /\ IdlePromo \in PromoState
    /\ IdleSweep \in SweepState
    /\ \A rep \in Report : PriorOf(rep) \in Prior
  <1>1. EmptyReport \in Report
    BY HashFacts DEF EmptyReport, Report, Statuses, MergeStates
  <1>2. \A rep \in Report : PriorOf(rep) \in Prior
    BY DEF PriorOf, Prior, Report
  <1>. QED
    BY <1>1, <1>2, HashFacts
       DEF IdlePromo, IdleSweep, PromoPc, SweepPc, PromoState, SweepState

(* Reading a report or a hash returns a report or a hash.                  *)
LEMMA ReadFacts ==
    ASSUME TypeOK
    PROVE  /\ \A r \in Runs : ReadReport(r) \subseteq Report
           /\ \A h \in Hash : ReadHash(h) \subseteq Hash
  BY HashFacts, RecordFacts DEF TypeOK, ReadReport, ReadHash

(* Replacing a report by one of the right type keeps all reports typed.    *)
LEMMA ReplaceFacts ==
    ASSUME TypeOK, NEW r \in Runs, NEW payload \in Report, NEW o,
           Replace(r, payload, o)
    PROVE  report' \in [Runs -> Report]
  BY DEF TypeOK, Replace

LEMMA LaunchPayload ==
    ASSUME TypeOK, NEW r \in Runs, NEW rep \in Report
    PROVE  /\ LaunchResult(r, rep) \in Report
           /\ [LaunchResult(r, rep) EXCEPT !.reg = TRUE] \in Report
  BY DEF TypeOK, LaunchResult, Report, Statuses

LEMMA InitType == Init => TypeOK
  <1>. SUFFICES ASSUME Init PROVE TypeOK
    OBVIOUS
  <1>1. << Other >> \in Hash
    BY DEF Hash
  <1>. QED
    BY <1>1, HashFacts, RecordFacts
       DEF Init, TypeOK, LaunchPc, RunStatuses

-----------------------------------------------------------------------------
LEMMA LaunchType == ASSUME TypeOK, NEW r \in Runs, LaunchStep(r)
                    PROVE  TypeOK'
  <1>. USE HashFacts, ReadFacts
           DEF TypeOK, catalogVars, launchVars, runVars, sensorVars, LaunchPc
  <1>1. CASE ReadTarget(r)
    BY <1>1 DEF ReadTarget
  <1>2. ASSUME NEW o \in {"done", "refused", "unacknowledged"},
               CreateBranch(r, o)
        PROVE  TypeOK'
    BY <1>2 DEF CreateBranch
  <1>3. ASSUME NEW o \in WriteOutcome, SealLaunch(r, o) PROVE TypeOK'
    <2>1. report' \in [Runs -> Report]
      BY <1>3, LaunchPayload, ReplaceFacts DEF SealLaunch
    <2>2. launch' \in [Runs -> LaunchPc]
      BY <1>3 DEF SealLaunch
    <2>. QED
      BY <1>3, <2>1, <2>2 DEF SealLaunch
  <1>4. ASSUME NEW o \in WriteOutcome, Register(r, o) PROVE TypeOK'
    <2>1. report' \in [Runs -> Report]
      BY <1>4, LaunchPayload, ReplaceFacts DEF Register
    <2>. QED
      BY <1>4, <2>1 DEF Register
  <1>5. CASE SubmitAccepted(r)
    BY <1>5 DEF SubmitAccepted, RunStatuses
  <1>6. ASSUME NEW c \in BOOLEAN, NEW o \in WriteOutcome,
               SubmitFailed(r, c, o)
        PROVE  TypeOK'
    <2>1. report' \in [Runs -> Report]
      BY <1>6, LaunchPayload, ReplaceFacts DEF SubmitFailed
    <2>. QED
      BY <1>6, <2>1 DEF SubmitFailed, RunStatuses
  <1>7. CASE LauncherCrash(r)
    BY <1>7 DEF LauncherCrash
  <1>. QED
    BY <1>1, <1>2, <1>3, <1>4, <1>5, <1>6, <1>7 DEF LaunchStep

LEMMA RunType == ASSUME TypeOK, NEW r \in Runs, RunStep(r)
                 PROVE  TypeOK'
  <1>. USE HashFacts
           DEF TypeOK, UnchangedByRun, catalogVars, launchVars, runVars,
               sensorVars, RunStatuses, Terminal
  <1>1. CASE VerifyExecution(r)
    BY <1>1 DEF VerifyExecution
  <1>2. CASE VerifyTimeout(r)
    BY <1>2 DEF VerifyTimeout
  <1>3. CASE WriteAsset(r)
    BY <1>3 DEF WriteAsset
  <1>4. CASE AuditBegin(r)
    BY <1>4 DEF AuditBegin
  <1>5. CASE AuditDisturbed(r)
    BY <1>5 DEF AuditDisturbed
  <1>6. ASSUME NEW o \in Outcomes, AuditEnd(r, o) PROVE TypeOK'
    <2>1. [passed |-> o.passed, severity |-> o.severity, cand |-> audit[r]]
            \in Check
      BY ConstantsAssumption DEF Check, CheckOutcome
    <2>. QED
      BY <1>6, <2>1 DEF AuditEnd
  <1>7. ASSUME NEW o \in Outcomes, UnboundCheck(r, o) PROVE TypeOK'
    <2>1. [passed |-> o.passed, severity |-> o.severity, cand |-> NoHash]
            \in Check
      BY ConstantsAssumption DEF Check, CheckOutcome
    <2>. QED
      BY <1>7, <2>1 DEF UnboundCheck
  <1>8. ASSUME NEW s \in Terminal, Finish(r, s) PROVE TypeOK'
    BY <1>8 DEF Finish
  <1>9. CASE Reexecute(r)
    BY <1>9 DEF Reexecute
  <1>10. CASE Age(r)
    BY <1>10 DEF Age
  <1>. QED
    BY <1>1, <1>2, <1>3, <1>4, <1>5, <1>6, <1>7, <1>8, <1>9, <1>10
       DEF RunStep

-----------------------------------------------------------------------------
(* The reports the sensors write are reports.                              *)
LEMMA PayloadFacts ==
    ASSUME TypeOK, NEW rep \in Report
    PROVE  /\ [rep EXCEPT !.status = "open"] \in Report
           /\ \A h \in Hash : [rep EXCEPT !.status = "open", !.src = h]
                               \in Report
           /\ \A b \in BOOLEAN :
                 [rep EXCEPT !.status = "open", !.review = @ \/ b] \in Report
           /\ \A h \in Hash :
                 [rep EXCEPT !.status = "open", !.merge = "merge_started",
                             !.src = h] \in Report
           /\ [rep EXCEPT !.status = "open", !.merge = "review_required",
                          !.review = TRUE] \in Report
           /\ FailedPayload(rep) \in Report
           /\ \A d \in BOOLEAN : ReceiptPayload(rep, d) \in Report
           /\ [ReceiptPayload(rep, TRUE) EXCEPT
                  !.status = "promoted", !.review = FALSE] \in Report
  <1>1. promo.src \in Hash
    BY DEF TypeOK, PromoState
  <1>. USE DEF Report, Statuses, MergeStates
  <1>2. \A b \in BOOLEAN :
          [rep EXCEPT !.status = "open", !.review = @ \/ b] \in Report
    OBVIOUS
  <1>3. \A d \in BOOLEAN : ReceiptPayload(rep, d) \in Report
    BY <1>1 DEF ReceiptPayload
  <1>4. [ReceiptPayload(rep, TRUE) EXCEPT
           !.status = "promoted", !.review = FALSE] \in Report
    BY <1>1 DEF ReceiptPayload
  <1>5. FailedPayload(rep) \in Report
    BY <1>1 DEF FailedPayload
  <1>6. [rep EXCEPT !.status = "open"] \in Report
    OBVIOUS
  <1>7. \A h \in Hash : [rep EXCEPT !.status = "open", !.src = h] \in Report
    OBVIOUS
  <1>8. \A h \in Hash :
          [rep EXCEPT !.status = "open", !.merge = "merge_started", !.src = h]
            \in Report
    OBVIOUS
  <1>9. [rep EXCEPT !.status = "open", !.merge = "review_required",
                    !.review = TRUE] \in Report
    OBVIOUS
  <1>. HIDE DEF Report, Statuses, MergeStates
  <1>. QED
    BY Zenon, <1>2, <1>3, <1>4, <1>5, <1>6, <1>7, <1>8, <1>9

LEMMA NoteFacts ==
    ASSUME NEW r \in Runs, NEW payload \in Report, Note(r, payload)
    PROVE  promo' \in PromoState
  BY RecordFacts DEF Note, PromoState, PromoPc

LEMMA StartWriteFacts ==
    ASSUME TypeOK, NEW pc \in PromoPc, NEW payload \in Report,
           StartWrite(pc, payload)
    PROVE  promo' \in PromoState
  BY Zenon DEF TypeOK, StartWrite, PromoState

LEMMA ScanType == ASSUME TypeOK, NEW r \in Runs, Scan(r) PROVE TypeOK'
  <1>. USE ReadFacts, PayloadFacts, NoteFacts
  <1>. SUFFICES promo' \in PromoState
                /\ OnlySensorMoves /\ UnchangedByPromo
    BY Zenon DEF TypeOK, OnlySensorMoves, UnchangedByPromo, catalogVars,
           launchVars, runVars, PublicationVars
  <1>0. CASE ScanPriorUnreadable(r)
    BY Zenon, <1>0 DEF ScanPriorUnreadable
  <1>1. CASE ScanUnverified(r)
    BY Zenon, <1>1 DEF ScanUnverified
  <1>2. CASE ScanReexecution(r)
    BY Zenon, <1>2 DEF ScanReexecution
  <1>3. CASE ScanContextInvalid(r)
    BY Zenon, <1>3 DEF ScanContextInvalid
  <1>4. CASE ScanFailedRun(r)
    BY Zenon, <1>4 DEF ScanFailedRun
  <1>5. CASE ScanEvidenceUnavailable(r)
    BY Zenon, <1>5 DEF ScanEvidenceUnavailable
  <1>6. CASE ScanChecksFailed(r)
    BY Zenon, <1>6 DEF ScanChecksFailed, TypeOK
  <1>7. ASSUME NEW review \in BOOLEAN, ScanGoverned(r, review)
        PROVE  promo' \in PromoState /\ OnlySensorMoves /\ UnchangedByPromo
    BY Zenon, <1>7 DEF ScanGoverned
  <1>8. CASE ScanAccepted(r)
    <2>1. report[r] \in Report
      BY Zenon DEF TypeOK
    <2>. QED
      BY Zenon, <1>8, <2>1, RecordFacts DEF ScanAccepted, PromoState, PromoPc
  <1>. QED
    BY Zenon, <1>0, <1>1, <1>2, <1>3, <1>4, <1>5, <1>6, <1>7, <1>8 DEF Scan

LEMMA DecideType == ASSUME TypeOK, NEW r \in Runs, Decide(r) PROVE TypeOK'
  <1>. USE ReadFacts, PayloadFacts, NoteFacts
  <1>. SUFFICES promo' \in PromoState
                /\ OnlySensorMoves /\ UnchangedByPromo
    BY Zenon DEF TypeOK, OnlySensorMoves, UnchangedByPromo, catalogVars,
           launchVars, runVars, PublicationVars
  <1>1. promo \in PromoState /\ head[r] \in Hash
    BY Zenon DEF TypeOK
  <1>2. CASE DecideMerged(r)
    <2>1. promo.prior.src \in Hash
      BY Zenon, <1>1 DEF PromoState, Prior
    <2>2. PICK hash \in ReadHash(head[r]) :
            promo' = [promo EXCEPT !.pc = "clean",
                        !.src = IF promo.prior.src # NoHash
                                THEN promo.prior.src ELSE hash]
      BY Zenon, <1>2 DEF DecideMerged
    <2>3. hash \in Hash
      BY Zenon, <1>1
    <2>4. promo' \in PromoState
      BY Zenon, <1>1, <2>1, <2>2, <2>3 DEF PromoState, PromoPc
    <2>. QED
      BY Zenon, <1>2, <2>4 DEF DecideMerged
  <1>3. CASE DecideUnknown(r)
    BY Zenon, <1>3 DEF DecideUnknown
  <1>4. CASE DecideHashUnavailable(r)
    BY Zenon, <1>4 DEF DecideHashUnavailable
  <1>5. CASE DecideDrift(r)
    BY Zenon, <1>5 DEF DecideDrift
  <1>6. CASE DecideUnbound(r)
    <2>1. PICK payload \in ReadReport(r) :
            Note(r, [payload EXCEPT !.status = "open", !.src = head[r]])
      BY Zenon, <1>6 DEF DecideUnbound
    <2>2. [payload EXCEPT !.status = "open", !.src = head[r]] \in Report
      BY Zenon, <1>1
    <2>. QED
      BY Zenon, <1>6, <2>1, <2>2 DEF DecideUnbound
  <1>7. CASE DecideIntent(r)
    <2>1. PICK payload \in ReadReport(r) :
            promo' = [promo EXCEPT !.pc = "intent", !.src = head[r],
                        !.out = [payload EXCEPT !.status = "open",
                                   !.merge = "merge_started", !.src = head[r]]]
      BY Zenon, <1>7 DEF DecideIntent
    <2>2. [payload EXCEPT !.status = "open", !.merge = "merge_started",
                          !.src = head[r]] \in Report
      BY Zenon, <1>1
    <2>3. promo' \in PromoState
      BY Zenon, <1>1, <2>1, <2>2 DEF PromoState, PromoPc
    <2>. QED
      BY Zenon, <1>7, <2>3 DEF DecideIntent
  <1>. QED
    BY Zenon, <1>2, <1>3, <1>4, <1>5, <1>6, <1>7 DEF Decide

(* A publication moves the target to a hash of this catalog.               *)
LEMMA PublishFacts ==
    ASSUME TypeOK, NEW r \in Runs, NEW source \in Hash, Publish(r, source)
    PROVE  /\ target' \in Hash
           /\ published' \subseteq [run : Runs, from : Hash, to : Hash]
  BY DEF TypeOK, Publish

LEMMA MergeType == ASSUME TypeOK, NEW r \in Runs, Merge(r) PROVE TypeOK'
  <1>. USE ReadFacts, PayloadFacts, NoteFacts
  <1>. DEFINE Quiet == promo' \in PromoState
                       /\ OnlySensorMoves /\ UnchangedByPromo
  <1>0. Quiet => TypeOK'
    BY Zenon DEF TypeOK, OnlySensorMoves, UnchangedByPromo, catalogVars,
           launchVars, runVars, PublicationVars
  <1>1. CASE MergeReviewRequired(r)
    BY Zenon, <1>0, <1>1 DEF MergeReviewRequired
  <1>2. CASE MergeUnproven(r)
    BY Zenon, <1>0, <1>2 DEF MergeUnproven
  <1>3. CASE MergeProven(r)
    BY Zenon, <1>0, <1>3 DEF MergeProven, TypeOK, PromoState, PromoPc
  <1>4. CASE PutApplied(r)
    <2>1. promo.src \in Hash
      BY Zenon DEF TypeOK, PromoState
    <2>2. \A payload \in ReadReport(r) : payload.deleted \in BOOLEAN
      BY Zenon DEF Report
    <2>3. promo' \in PromoState
      BY Zenon, <1>4, <2>2, StartWriteFacts DEF PutApplied, PromoPc
    <2>. QED
      BY Zenon, <1>4, <2>1, <2>3, PublishFacts
         DEF PutApplied, TypeOK, UnchangedByPromo, launchVars, runVars
  <1>5. CASE PutUnanswered(r)
    <2>1. inflight' \subseteq [run : Runs, src : Hash]
      <3>1. [run |-> r, src |-> promo.src] \in [run : Runs, src : Hash]
        BY Zenon DEF TypeOK, PromoState
      <3>2. inflight' = inflight \cup {[run |-> r, src |-> promo.src]}
        BY Zenon, <1>5 DEF PutUnanswered
      <3>. QED
        BY Zenon, <3>1, <3>2 DEF TypeOK
    <2>. QED
      BY Zenon, <1>5, <2>1, RecordFacts
         DEF PutUnanswered, TypeOK, UnchangedByPromo, catalogVars,
             launchVars, runVars
  <1>6. CASE PutRefused(r)
    BY Zenon, <1>0, <1>6 DEF PutRefused
  <1>. QED
    BY Zenon, <1>1, <1>2, <1>3, <1>4, <1>5, <1>6 DEF Merge

LEMMA FinishType ==
    ASSUME TypeOK, NEW r \in Runs, FinishPromotion(r) PROVE TypeOK'
  <1>. USE ReadFacts, PayloadFacts, NoteFacts, StartWriteFacts
           DEF PublicationVars
  <1>1. CASE CleanSkipped(r)
    BY Zenon, <1>1 DEF CleanSkipped, TypeOK, PromoPc, OnlySensorMoves,
                catalogVars, UnchangedByPromo, launchVars, runVars
  <1>2. CASE CleanDropCatalog(r)
    BY Zenon, <1>2 DEF CleanDropCatalog, TypeOK, PromoState, PromoPc,
                UnchangedByPromo, launchVars, runVars
  <1>3. CASE CleanFailed(r)
    BY Zenon, <1>3 DEF CleanFailed, TypeOK, OnlySensorMoves, catalogVars,
                UnchangedByPromo, launchVars, runVars
  <1>4. ASSUME NEW ack \in BOOLEAN, CleanDelete(r, ack) PROVE TypeOK'
    <2>1. promo' \in PromoState
      BY Zenon, <1>4 DEF CleanDelete, PromoPc
    <2>. QED
      BY Zenon, <1>4, <2>1, HashFacts DEF CleanDelete, TypeOK,
                UnchangedByPromo, launchVars, runVars
  <1>5. CASE Reconciled(r)
    BY Zenon, <1>5 DEF Reconciled, TypeOK, PromoPc, OnlySensorMoves,
                catalogVars, UnchangedByPromo, launchVars, runVars
  <1>6. CASE TagPromoted(r)
    BY Zenon, <1>6, RecordFacts DEF TagPromoted, TypeOK, catalogVars,
                UnchangedByPromo, launchVars, runVars
  <1>. QED
    BY Zenon, <1>1, <1>2, <1>3, <1>4, <1>5, <1>6 DEF FinishPromotion

LEMMA PromoType == ASSUME TypeOK, PromoStep PROVE TypeOK'
  <1>1. ASSUME NEW o \in WriteOutcome, PromoReplace(o) PROVE TypeOK'
    <2>1. PICK r \in Runs \cup {Other} : r = promo.run
      BY DEF TypeOK, PromoState
    <2>2. promo.out \in Report
      BY DEF TypeOK, PromoState
    <2>3. report' \in [Runs -> Report]
      BY <1>1, <2>2 DEF PromoReplace, Replace, TypeOK
    <2>4. promo' \in PromoState
      <3>1. AfterWrite[promo.pc] \in PromoPc
        BY <1>1 DEF PromoReplace, AfterWrite, PromoPc
      <3>2. promo \in PromoState
        BY DEF TypeOK
      <3>3. [promo EXCEPT !.pc = AfterWrite[promo.pc], !.out = EmptyReport]
              \in PromoState
        BY <3>1, <3>2, RecordFacts DEF PromoState
      <3>. QED
        BY <1>1, <3>3, RecordFacts DEF PromoReplace
    <2>. QED
      BY <1>1, <2>3, <2>4 DEF PromoReplace, TypeOK, catalogVars,
                UnchangedByPromo, launchVars, runVars
  <1>2. CASE PromoAbort
    BY <1>2, RecordFacts
       DEF PromoAbort, TypeOK, OnlySensorMoves, catalogVars, PublicationVars,
           UnchangedByPromo, launchVars, runVars
  <1>3. ASSUME NEW request \in inflight, LatePut(request) PROVE TypeOK'
    <2>1. request.run \in Runs /\ request.src \in Hash
      BY DEF TypeOK
    <2>2. /\ target' \in Hash
          /\ published' \subseteq [run : Runs, from : Hash, to : Hash]
      BY <1>3, <2>1, PublishFacts DEF LatePut, TypeOK
    <2>. QED
      BY <1>3, <2>2 DEF LatePut, TypeOK,
                UnchangedByPromo, launchVars, runVars
  <1>. QED
    BY <1>1, <1>2, <1>3, ScanType, DecideType, MergeType, FinishType
       DEF PromoStep, SensorStep

LEMMA SweepType == ASSUME TypeOK, SweepStep PROVE TypeOK'
  <1>. USE ReadFacts, RecordFacts, HashFacts
           DEF UnchangedBySweep, launchVars, runVars
  <1>0. ASSUME NEW rep \in Report PROVE [rep EXCEPT !.status = "open"] \in Report
    BY Zenon, PayloadFacts
  <1>1. ASSUME NEW payload \in Report, SweepNote(payload)
        PROVE  sweep' \in SweepState
    BY <1>1 DEF SweepNote, TypeOK, SweepState, SweepPc
  <1>2. ASSUME NEW r \in Runs, SweepList(r) PROVE TypeOK'
    BY <1>2 DEF SweepList, TypeOK, SweepState, SweepPc
  <1>3. ASSUME NEW r \in Runs, SweepGap(r) PROVE TypeOK'
    BY <1>0, <1>1, <1>3 DEF SweepGap, TypeOK
  <1>4. ASSUME NEW r \in Runs, SweepContextInvalid(r) PROVE TypeOK'
    BY <1>0, <1>1, <1>4 DEF SweepContextInvalid, TypeOK
  <1>5. ASSUME NEW r \in Runs, SweepSkip(r) PROVE TypeOK'
    BY <1>5 DEF SweepSkip, TypeOK
  <1>6. ASSUME NEW r \in Runs, SweepApprove(r) PROVE TypeOK'
    <2>1. PICK rep \in ReadReport(r) : StartSweep(rep)
      BY <1>6 DEF SweepApprove
    <2>2. rep.src \in Hash
      BY DEF Report
    <2>3. sweep' \in SweepState
      BY <2>1, <2>2 DEF StartSweep, TypeOK, SweepState, SweepPc
    <2>. QED
      BY <1>6, <2>3 DEF SweepApprove, TypeOK
  <1>7. ASSUME NEW r \in Runs, SweepDropCatalog(r) PROVE TypeOK'
    BY <1>7 DEF SweepDropCatalog, TypeOK, SweepState, SweepPc
  <1>8. ASSUME NEW r \in Runs, SweepFailed(r) PROVE TypeOK'
    BY <1>0, <1>1, <1>8 DEF SweepFailed, TypeOK, CleanupPayload
  <1>9. ASSUME NEW r \in Runs, SweepDelete(r) PROVE TypeOK'
    BY <1>0, <1>1, <1>9 DEF SweepDelete, TypeOK, CleanupPayload
  <1>10. ASSUME NEW o \in WriteOutcome, SweepReplace(o) PROVE TypeOK'
    <2>1. report' \in [Runs -> Report]
      BY <1>10 DEF SweepReplace, Replace, TypeOK, SweepState
    <2>. QED
      BY <1>10, <2>1 DEF SweepReplace, TypeOK
  <1>11. CASE SweepAbort
    BY <1>11 DEF SweepAbort, TypeOK
  <1>. QED
    BY <1>2, <1>3, <1>4, <1>5, <1>6, <1>7, <1>8, <1>9, <1>10, <1>11
       DEF SweepStep

LEMMA TypeStep == TypeOK /\ [Next]_vars => TypeOK'
  <1>. SUFFICES ASSUME TypeOK, [Next]_vars PROVE TypeOK'
    OBVIOUS
  <1>1. CASE TargetCommit
    BY <1>1, HashFacts
       DEF TargetCommit, TypeOK, launchVars, runVars, sensorVars
  <1>2. CASE UNCHANGED vars
    BY <1>2 DEF vars, TypeOK
  <1>. QED
    BY <1>1, <1>2, LaunchType, RunType, PromoType, SweepType DEF Next

(* Launchers, runs and both sensors only ever hold well-typed state, so    *)
(* every hash in a report or in a sensor's locals is one of this catalog.  *)
THEOREM TypeCorrect == Spec => []TypeOK
  BY InitType, TypeStep, PTL DEF Spec
=============================================================================
