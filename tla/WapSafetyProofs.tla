-------------------------- MODULE WapSafetyProofs ---------------------------
(***************************************************************************)
(* For every set of runs, every choice of the transient failures and every *)
(* bound: only audited candidates are published, at most one per state of  *)
(* the target, the target only advances, and the composition implements    *)
(* WapPublication.                                                         *)
(*                                                                         *)
(* The inductive invariant follows a hash from the audit to the catalog:   *)
(* a run is registered only after its launch captured the target           *)
(* (LaunchInv); what the sensor decides on stays true while it works       *)
(* (PromoInv) and while a PUT is under way without it (InflightInv),       *)
(* because a successful run is final (AuditIsFinal); what was published    *)
(* stays on the target (TargetInv).                                        *)
(***************************************************************************)
EXTENDS WapTypeProofs

LaunchInv ==
    /\ target # NoHash
    /\ \A r \in Runs :
        /\ launch[r] = "idle" <=> base[r] = NoHash
        /\ launch[r] \in {"idle", "read", "created", "sealed"}
             => run[r] = "none"

Approved(r) == run[r] = "success" /\ AllChecksPassed(checks[r])

(* The hash was audited and descends from what the launch captured.        *)
Cleared(r, hash) ==
    /\ Approved(r)
    /\ Strict => BoundTo(checks[r], hash)
    /\ HasAncestor(hash, base[r])

PromoInv ==
    promo.pc \notin {"idle", "note"} =>
        /\ promo.run \in Runs
        /\ Approved(promo.run)
        /\ promo.pc \in {"intent", "merge", "put"} /\ Strict
             => BoundTo(checks[promo.run], promo.src)
        /\ promo.pc = "put" => HasAncestor(promo.src, base[promo.run])

InflightInv == \A q \in inflight : Cleared(q.run, q.src)

TargetInv == \A p \in published : HasAncestor(target, p.to)

IInv == /\ TypeOK /\ LaunchInv /\ PromoInv /\ InflightInv
        /\ AuditedPublication /\ TargetInv /\ OneWinnerPerBase

LEMMA InitIInv == Init => IInv
  <1>. SUFFICES ASSUME Init PROVE IInv
    OBVIOUS
  <1>1. target # NoHash
    BY DEF Init, NoHash
  <1>. QED
    BY <1>1, InitType
       DEF Init, IInv, LaunchInv, PromoInv, InflightInv, AuditedPublication,
           TargetInv, OneWinnerPerBase, IdlePromo

-----------------------------------------------------------------------------
(* What each component leaves alone.                                       *)

LEMMA LaunchFrame ==
    ASSUME NEW r \in Runs, LaunchStep(r)
    PROVE  UNCHANGED << target, checks, promo, inflight, published >>
  BY DEF LaunchStep, ReadTarget, CreateBranch, SealLaunch, Register,
         SubmitAccepted, SubmitFailed, LauncherCrash, catalogVars, runVars,
         sensorVars

LEMMA RunFrame ==
    ASSUME NEW r \in Runs, RunStep(r)
    PROVE  UNCHANGED << target, launch, base, promo, inflight, published >>
  BY DEF RunStep, VerifyExecution, VerifyTimeout, WriteAsset, AuditBegin,
         AuditEnd, AuditDisturbed, UnboundCheck, Finish, Reexecute, Age,
         UnchangedByRun, catalogVars, launchVars, runVars, sensorVars

LEMMA SweepFrame ==
    ASSUME SweepStep
    PROVE  UNCHANGED << target, launch, base, run, checks, promo, inflight,
                        published >>
  BY Zenon DEF SweepStep, SweepList, SweepGap, SweepContextInvalid, SweepSkip,
         SweepApprove, SweepDropCatalog, SweepFailed, SweepDelete,
         SweepReplace, SweepAbort, UnchangedBySweep, launchVars, runVars

LEMMA PromoFrame ==
    ASSUME PromoStep
    PROVE  UNCHANGED << launch, base, run, checks >>
  BY Zenon DEF PromoStep, SensorStep, PromoReplace, PromoAbort, LatePut,
         Scan, ScanUnverified, ScanReexecution, ScanContextInvalid,
         ScanFailedRun, ScanEvidenceUnavailable, ScanChecksFailed,
         ScanGoverned, ScanPriorUnreadable, ScanAccepted, Decide,
         DecideMerged, DecideUnknown, DecideHashUnavailable, DecideDrift,
         DecideUnbound, DecideIntent, Merge, MergeReviewRequired,
         MergeUnproven, MergeProven, PutApplied,
         PutUnanswered, PutRefused, FinishPromotion, CleanSkipped,
         CleanDropCatalog, CleanFailed, CleanDelete, Reconciled, TagPromoted,
         UnchangedByPromo, launchVars, runVars

-----------------------------------------------------------------------------
(* A successful run stays successful, keeps its checks and keeps the       *)
(* target hash its launch captured.                                        *)
LEMMA AuditIsFinal ==
    ASSUME TypeOK, LaunchInv, [Next]_vars, NEW r \in Runs, run[r] = "success"
    PROVE  run'[r] = "success" /\ checks'[r] = checks[r] /\ base'[r] = base[r]
  <1>. DEFINE Kept == run'[r] = "success" /\ checks'[r] = checks[r]
                      /\ base'[r] = base[r]
  <1>1. ASSUME NEW s \in Runs, LaunchStep(s) PROVE Kept
    <2>1. s = r => launch[s] \notin {"idle", "read", "created", "sealed"}
      BY DEF LaunchInv
    <2>. QED
      BY <1>1, <2>1
         DEF TypeOK, LaunchStep, ReadTarget, CreateBranch, SealLaunch,
             Register, SubmitAccepted, SubmitFailed, LauncherCrash, runVars
  <1>2. ASSUME NEW s \in Runs, RunStep(s) PROVE Kept
    <2>1. base' = base
      BY <1>2, RunFrame
    <2>. QED
      BY <1>2, <2>1
         DEF TypeOK, RunStep, VerifyExecution, VerifyTimeout, WriteAsset,
             AuditBegin, AuditEnd, AuditDisturbed, UnboundCheck, Finish,
             Reexecute, Age, UnchangedByRun, runVars
  <1>3. CASE TargetCommit
    BY <1>3 DEF TargetCommit, launchVars, runVars
  <1>4. CASE UNCHANGED vars
    BY <1>4 DEF vars
  <1>. QED
    BY <1>1, <1>2, <1>3, <1>4, PromoFrame, SweepFrame DEF Next

(* A cleared hash stays cleared.                                           *)
LEMMA ClearedIsFinal ==
    ASSUME TypeOK, LaunchInv, [Next]_vars, NEW r \in Runs, NEW h,
           Cleared(r, h)
    PROVE  Cleared(r, h)'
  BY AuditIsFinal DEF Cleared, Approved

(* The target moves by a foreign commit or by a publication, and what is   *)
(* published was cleared against exactly the state it replaces.            *)
LEMMA PublicationCases ==
    ASSUME TypeOK, PromoInv, InflightInv, [Next]_vars
    PROVE  \/ TargetCommit /\ published' = published
           \/ target' = target /\ published' = published
           \/ \E r \in Runs, h \in Hash : Publish(r, h) /\ Cleared(r, h)
  <1>. DEFINE Goal ==
         \/ target' = target /\ published' = published
         \/ \E r \in Runs, h \in Hash : Publish(r, h) /\ Cleared(r, h)
  <1>1. ASSUME NEW r \in Runs, Scan(r) PROVE Goal
    BY Zenon, <1>1 DEF Scan, ScanUnverified, ScanReexecution,
         ScanContextInvalid, ScanFailedRun, ScanEvidenceUnavailable,
         ScanChecksFailed, ScanGoverned, ScanPriorUnreadable, ScanAccepted,
         OnlySensorMoves, catalogVars, PublicationVars
  <1>2. ASSUME NEW r \in Runs, Decide(r) PROVE Goal
    BY Zenon, <1>2 DEF Decide, DecideMerged, DecideUnknown,
         DecideHashUnavailable, DecideDrift, DecideUnbound, DecideIntent,
         OnlySensorMoves, catalogVars, PublicationVars
  <1>3. ASSUME NEW r \in Runs, Merge(r) PROVE Goal
    <2>1. CASE PutApplied(r)
      <3>1. promo.src \in Hash
        BY DEF TypeOK, PromoState
      <3>2. Cleared(r, promo.src)
        BY <2>1 DEF PutApplied, PromoInv, Cleared
      <3>. QED
        BY <2>1, <3>1, <3>2 DEF PutApplied
    <2>. QED
      BY Zenon, <1>3, <2>1 DEF Merge, MergeReviewRequired, MergeUnproven,
           MergeProven, PutUnanswered, PutRefused, OnlySensorMoves,
           catalogVars, PublicationVars
  <1>4. ASSUME NEW r \in Runs, FinishPromotion(r) PROVE Goal
    BY Zenon, <1>4 DEF FinishPromotion, CleanSkipped, CleanDropCatalog,
         CleanFailed, CleanDelete, Reconciled, TagPromoted, OnlySensorMoves,
         catalogVars, PublicationVars
  <1>5. ASSUME NEW o \in WriteOutcome, PromoReplace(o) PROVE Goal
    BY <1>5 DEF PromoReplace, catalogVars
  <1>6. CASE PromoAbort
    BY <1>6 DEF PromoAbort, OnlySensorMoves, catalogVars, PublicationVars
  <1>7. ASSUME NEW q \in inflight, LatePut(q) PROVE Goal
    <2>1. q.run \in Runs /\ q.src \in Hash
      BY DEF TypeOK
    <2>2. Cleared(q.run, q.src)
      BY DEF InflightInv
    <2>. QED
      BY <1>7, <2>1, <2>2 DEF LatePut
  <1>8. CASE PromoStep
    BY <1>1, <1>2, <1>3, <1>4, <1>5, <1>6, <1>7, <1>8
       DEF PromoStep, SensorStep
  <1>9. TargetCommit => published' = published
    BY DEF TargetCommit
  <1>10. CASE UNCHANGED vars
    BY <1>10 DEF vars
  <1>. QED
    BY <1>8, <1>9, <1>10, LaunchFrame, RunFrame, SweepFrame DEF Next

-----------------------------------------------------------------------------
(* One lemma per conjunct of the invariant.                                *)

LEMMA TargetExists ==
    ASSUME TypeOK, LaunchInv, PromoInv, InflightInv, [Next]_vars
    PROVE  target' # NoHash
  <1>1. ASSUME NEW r \in Runs, NEW h \in Hash, Publish(r, h), Cleared(r, h)
        PROVE  target' # NoHash
    <2>1. base[r] \in Hash /\ target = base[r] /\ target' = h
      BY <1>1 DEF Publish, AssignAllowed, TypeOK
    <2>. QED
      BY <1>1, <2>1, DescendantExists DEF LaunchInv, Cleared, Hash
  <1>2. TargetCommit => target' # NoHash
    BY CommitExtends DEF TargetCommit, TypeOK, Hash
  <1>. QED
    BY <1>1, <1>2, PublicationCases DEF LaunchInv

LEMMA LaunchInvStep ==
    ASSUME TypeOK, LaunchInv, PromoInv, InflightInv, [Next]_vars
    PROVE  LaunchInv'
  <1>. DEFINE Sealed == \A r \in Runs :
         /\ launch[r] = "idle" <=> base[r] = NoHash
         /\ launch[r] \in {"idle", "read", "created", "sealed"}
              => run[r] = "none"
  <1>1. ASSUME NEW s \in Runs, LaunchStep(s) PROVE Sealed'
    <2>. USE DEF TypeOK, LaunchInv, LaunchPc, runVars
    <2>1. CASE ReadTarget(s)
      BY <2>1 DEF ReadTarget
    <2>2. ASSUME NEW o \in {"done", "refused", "unacknowledged"},
                 CreateBranch(s, o)
          PROVE  Sealed'
      BY <2>2 DEF CreateBranch
    <2>3. ASSUME NEW o \in WriteOutcome, SealLaunch(s, o) PROVE Sealed'
      BY <2>3 DEF SealLaunch
    <2>4. ASSUME NEW o \in WriteOutcome, Register(s, o) PROVE Sealed'
      BY <2>4 DEF Register
    <2>5. CASE SubmitAccepted(s)
      BY <2>5 DEF SubmitAccepted
    <2>6. ASSUME NEW c \in BOOLEAN, NEW o \in WriteOutcome,
                 SubmitFailed(s, c, o)
          PROVE  Sealed'
      BY <2>6 DEF SubmitFailed
    <2>7. CASE LauncherCrash(s)
      BY <2>7 DEF LauncherCrash
    <2>. QED
      BY <1>1, <2>1, <2>2, <2>3, <2>4, <2>5, <2>6, <2>7 DEF LaunchStep
  <1>2. ASSUME NEW s \in Runs, RunStep(s) PROVE Sealed'
    <2>1. launch' = launch /\ base' = base
      BY <1>2, RunFrame
    <2>2. ASSUME NEW r \in Runs, run[r] = "none" PROVE run'[r] = "none"
      BY <1>2, <2>2
         DEF TypeOK, RunStep, VerifyExecution, VerifyTimeout, WriteAsset,
             AuditBegin, AuditEnd, AuditDisturbed, UnboundCheck, Finish,
             Reexecute, Age, UnchangedByRun, runVars
    <2>. QED
      BY <2>1, <2>2 DEF LaunchInv
  <1>3. ASSUME UNCHANGED << launch, base, run >> PROVE Sealed'
    BY <1>3 DEF LaunchInv
  <1>4. TargetCommit \/ UNCHANGED vars => UNCHANGED << launch, base, run >>
    BY DEF TargetCommit, launchVars, runVars, vars
  <1>5. Sealed'
    BY <1>1, <1>2, <1>3, <1>4, PromoFrame, SweepFrame DEF Next
  <1>. QED
    BY <1>5, TargetExists DEF LaunchInv

(* The sensor decides on a verified successful run and pins the source     *)
(* hash its strict checks are bound to; every later step keeps both.       *)
LEMMA PromoInvStep ==
    ASSUME TypeOK, LaunchInv, PromoInv, [Next]_vars
    PROVE  PromoInv'
  <1>1. ASSUME promo' = promo PROVE PromoInv'
    BY <1>1, AuditIsFinal DEF PromoInv, Approved
  <1>2. ASSUME PromoStep, promo'.pc \in {"idle", "note"} PROVE PromoInv'
    BY <1>2 DEF PromoInv
  <1>3. ASSUME NEW r \in Runs, NEW payload, Note(r, payload)
        PROVE  promo'.pc \in {"idle", "note"}
    BY <1>3 DEF Note, IdlePromo
  <1>4. promo' = IdlePromo => promo'.pc \in {"idle", "note"}
    BY DEF IdlePromo
  <1>5. ASSUME PromoStep PROVE UNCHANGED << base, run, checks >>
    BY <1>5, PromoFrame
  <1>6. ASSUME NEW r \in Runs, Scan(r) PROVE PromoInv'
    <2>1. CASE ScanAccepted(r)
      <3>1. promo'.pc = "decide" /\ promo'.run = r
        BY <2>1 DEF ScanAccepted, IdlePromo
      <3>2. Approved(r)
        BY <2>1 DEF ScanAccepted, Publishable, Approved
      <3>. QED
        BY <1>5, <1>6, <3>1, <3>2
           DEF PromoInv, Approved, PromoStep, SensorStep
    <2>. QED
      BY Zenon, <1>2, <1>3, <1>6, <2>1
         DEF Scan, ScanUnverified, ScanReexecution, ScanContextInvalid,
             ScanFailedRun, ScanEvidenceUnavailable, ScanChecksFailed,
             ScanGoverned, ScanPriorUnreadable, PromoStep, SensorStep
  <1>7. ASSUME NEW r \in Runs, Decide(r) PROVE PromoInv'
    <2>0. promo \in PromoState
      BY DEF TypeOK
    <2>1. CASE DecideMerged(r)
      <3>1. promo'.pc = "clean" /\ promo'.run = r
        BY <2>0, <2>1 DEF DecideMerged, Deciding, PromoState
      <3>. QED
        BY <1>5, <1>7, <2>1, <3>1 DEF PromoInv, Approved, DecideMerged,
             Deciding, PromoStep, SensorStep
    <2>2. CASE DecideIntent(r)
      <3>1. promo'.pc = "intent" /\ promo'.run = r /\ promo'.src = head[r]
        BY <2>0, <2>2 DEF DecideIntent, Undecided, Deciding, PromoState
      <3>2. Strict => BoundTo(checks[r], head[r])
        BY <2>2 DEF DecideIntent, CandidateUnbound
      <3>. QED
        BY <1>5, <1>7, <2>2, <3>1, <3>2 DEF PromoInv, Approved, DecideIntent,
             Undecided, Deciding, PromoStep, SensorStep
    <2>. QED
      BY Zenon, <1>2, <1>3, <1>7, <2>1, <2>2
         DEF Decide, DecideUnknown, DecideHashUnavailable, DecideDrift,
             DecideUnbound, PromoStep, SensorStep
  <1>8. ASSUME NEW r \in Runs, Merge(r) PROVE PromoInv'
    <2>0. promo \in PromoState
      BY DEF TypeOK
    <2>1. CASE MergeProven(r)
      <3>1. promo'.pc = "put" /\ promo'.run = r /\ promo'.src = promo.src
        BY <2>0, <2>1 DEF MergeProven, PromoState
      <3>. QED
        BY <1>5, <1>8, <2>1, <3>1 DEF PromoInv, Approved, MergeProven,
             ProvenFastForward, PromoStep, SensorStep
    <2>2. CASE PutApplied(r)
      <3>1. promo'.pc = "receipt" /\ promo'.run = r
        BY <2>0, <2>2 DEF PutApplied, StartWrite, PromoState
      <3>. QED
        BY <1>5, <1>8, <2>2, <3>1 DEF PromoInv, Approved, PutApplied,
             PromoStep, SensorStep
    <2>. QED
      BY Zenon, <1>2, <1>3, <1>4, <1>8, <2>1, <2>2
         DEF Merge, MergeReviewRequired, MergeUnproven, PutUnanswered,
             PutRefused, PromoStep, SensorStep
  <1>9. ASSUME NEW r \in Runs, FinishPromotion(r) PROVE PromoInv'
    <2>0. promo \in PromoState
      BY DEF TypeOK
    <2>1. \/ promo'.pc \in {"idle", "note"}
          \/ /\ promo.pc \notin {"idle", "note"} /\ promo'.run = promo.run
             /\ promo'.pc \in {"deleted", "delete", "final"}
      BY Zenon, <1>3, <1>4, <1>9, <2>0
         DEF FinishPromotion, CleanSkipped, CleanDropCatalog, CleanFailed,
             CleanDelete, Reconciled, TagPromoted, StartWrite, PromoState
    <2>. QED
      BY <1>2, <1>5, <1>9, <2>1
         DEF PromoInv, Approved, PromoStep, SensorStep
  <1>10. ASSUME NEW o \in WriteOutcome, PromoReplace(o) PROVE PromoInv'
    <2>0. promo \in PromoState
      BY DEF TypeOK
    <2>1. \/ promo'.pc \in {"idle", "note"}
          \/ /\ promo.pc \notin {"idle", "note"} /\ promo'.run = promo.run
             /\ promo'.src = promo.src
             /\ \/ promo.pc = "intent" /\ promo'.pc = "merge"
                \/ promo'.pc \in {"clean", "reconcile", "tag"}
      BY <1>4, <1>10, <2>0 DEF PromoReplace, AfterWrite, PromoState
    <2>. QED
      BY <1>2, <1>5, <1>10, <2>1
         DEF PromoInv, Approved, PromoStep, SensorStep
  <1>11. CASE PromoAbort
    BY <1>2, <1>4, <1>11 DEF PromoAbort, PromoStep, SensorStep
  <1>12. ASSUME NEW q \in inflight, LatePut(q) PROVE PromoInv'
    BY <1>1, <1>12 DEF LatePut
  <1>13. TargetCommit \/ UNCHANGED vars => promo' = promo
    BY DEF TargetCommit, sensorVars, vars
  <1>. QED
    BY <1>1, <1>6, <1>7, <1>8, <1>9, <1>10, <1>11, <1>12, <1>13,
       LaunchFrame, RunFrame, SweepFrame
       DEF Next, PromoStep, SensorStep

(* A request joins those in flight only where its sender gave up.          *)
LEMMA InflightGrows ==
    ASSUME [Next]_vars
    PROVE  \/ inflight' \subseteq inflight
           \/ \E r \in Runs : PutUnanswered(r)
  <1>1. PromoStep => \/ inflight' \subseteq inflight
                     \/ \E r \in Runs : PutUnanswered(r)
    BY Zenon DEF PromoStep, SensorStep, PromoReplace, PromoAbort, LatePut,
         Scan, ScanUnverified, ScanReexecution, ScanContextInvalid,
         ScanFailedRun, ScanEvidenceUnavailable, ScanChecksFailed,
         ScanGoverned, ScanPriorUnreadable, ScanAccepted, Decide,
         DecideMerged, DecideUnknown, DecideHashUnavailable, DecideDrift,
         DecideUnbound, DecideIntent, Merge, MergeReviewRequired,
         MergeUnproven, MergeProven, PutApplied,
         PutRefused, FinishPromotion, CleanSkipped, CleanDropCatalog,
         CleanFailed, CleanDelete, Reconciled, TagPromoted, OnlySensorMoves,
         PublicationVars
  <1>2. TargetCommit \/ UNCHANGED vars => inflight' = inflight
    BY DEF TargetCommit, sensorVars, vars
  <1>. QED
    BY <1>1, <1>2, LaunchFrame, RunFrame, SweepFrame DEF Next

LEMMA InflightStep ==
    ASSUME TypeOK, LaunchInv, PromoInv, InflightInv, [Next]_vars
    PROVE  InflightInv'
  <1>1. ASSUME inflight' \subseteq inflight PROVE InflightInv'
    BY <1>1, ClearedIsFinal DEF TypeOK, InflightInv
  <1>2. ASSUME NEW r \in Runs, PutUnanswered(r) PROVE InflightInv'
    <2>1. Cleared(r, promo.src)
      BY <1>2 DEF PutUnanswered, PromoInv, Cleared
    <2>. QED
      BY <1>2, <2>1, ClearedIsFinal DEF PutUnanswered, TypeOK, InflightInv
  <1>. QED
    BY <1>1, <1>2, InflightGrows

LEMMA AuditedStep ==
    ASSUME IInv, [Next]_vars
    PROVE  AuditedPublication'
  <1>. USE DEF IInv
  <1>1. ASSUME NEW p \in published
        PROVE  /\ run'[p.run] = "success"
               /\ AllChecksPassed(checks'[p.run])
               /\ p.from = base'[p.run] /\ p.from # NoHash
               /\ HasAncestor(p.to, p.from)
               /\ Strict => BoundTo(checks'[p.run], p.to)
    BY AuditIsFinal DEF AuditedPublication, TypeOK
  <1>2. ASSUME published' = published PROVE AuditedPublication'
    BY <1>1, <1>2 DEF AuditedPublication
  <1>3. ASSUME NEW r \in Runs, NEW h \in Hash, Publish(r, h), Cleared(r, h)
        PROVE  AuditedPublication'
    <2>1. Cleared(r, h)' /\ base'[r] = base[r]
      BY <1>3, ClearedIsFinal, AuditIsFinal DEF Cleared, Approved
    <2>2. published' = published \cup {[run |-> r, from |-> base[r], to |-> h]}
          /\ base[r] # NoHash
      BY <1>3 DEF Publish, AssignAllowed, LaunchInv
    <2>. QED
      BY <1>1, <2>1, <2>2 DEF AuditedPublication, Cleared, Approved
  <1>. QED
    BY <1>2, <1>3, PublicationCases

(* What a step does to the target: it keeps or extends its history.        *)
LEMMA TargetExtends ==
    ASSUME IInv, [Next]_vars
    PROVE  HasAncestor(target', target)
  <1>. USE DEF IInv, Hash
  <1>1. ASSUME NEW r \in Runs, NEW h \in Hash, Publish(r, h), Cleared(r, h)
        PROVE  HasAncestor(target', target)
    BY <1>1 DEF Publish, AssignAllowed, Cleared
  <1>2. TargetCommit => HasAncestor(target', target)
    BY CommitExtends DEF TargetCommit, TypeOK
  <1>3. HasAncestor(target, target)
    BY AncestorReflexive DEF TypeOK
  <1>. QED
    BY <1>1, <1>2, <1>3, PublicationCases

LEMMA TargetInvStep ==
    ASSUME IInv, [Next]_vars
    PROVE  TargetInv'
  <1>. USE DEF IInv
  <1>1. target \in Hash /\ target' \in Hash
    BY TypeStep DEF TypeOK
  <1>2. ASSUME NEW p \in published PROVE HasAncestor(target', p.to)
    BY <1>1, TargetExtends, AncestorTransitive DEF TargetInv, TypeOK, Hash
  <1>3. ASSUME published' = published PROVE TargetInv'
    BY <1>2, <1>3 DEF TargetInv
  <1>4. ASSUME NEW r \in Runs, NEW h \in Hash, Publish(r, h) PROVE TargetInv'
    <2>1. HasAncestor(h, h)
      BY AncestorReflexive DEF Hash
    <2>. QED
      BY <1>2, <1>4, <2>1 DEF TargetInv, Publish
  <1>. QED
    BY <1>3, <1>4, PublicationCases

(* A run that finds the target still equal to its base cannot follow a     *)
(* publication that moved the target away from that base.                  *)
LEMMA OneWinnerStep ==
    ASSUME IInv, [Next]_vars
    PROVE  OneWinnerPerBase'
  <1>. USE DEF IInv
  <1>1. \A p \in published : p.run \in Runs /\ base'[p.run] = base[p.run]
    BY AuditIsFinal DEF AuditedPublication, TypeOK
  <1>2. ASSUME published' = published PROVE OneWinnerPerBase'
    BY <1>1, <1>2 DEF OneWinnerPerBase, Moved
  <1>3. ASSUME NEW r \in Runs, NEW h \in Hash, Publish(r, h), Cleared(r, h)
        PROVE  OneWinnerPerBase'
    <2>1. base'[r] = base[r] /\ target = base[r]
      BY <1>3, AuditIsFinal DEF Cleared, Approved, Publish, AssignAllowed
    <2>2. ASSUME NEW p \in published, base[p.run] = base[r] PROVE ~Moved(p)
      <3>1. HasAncestor(target, p.to) /\ HasAncestor(p.to, p.from)
            /\ p.from = target
        BY <2>1, <2>2 DEF TargetInv, AuditedPublication
      <3>2. p.to \in Hash /\ target \in Hash
        BY DEF TypeOK
      <3>. QED
        BY <2>1, <2>2, <3>1, <3>2, AncestorAntisymmetric DEF Moved, Hash
    <2>3. \A p \in published' :
            p \in published \/ p = [run |-> r, from |-> target, to |-> h]
      BY <1>3 DEF Publish
    <2>. QED
      BY <1>1, <2>1, <2>2, <2>3 DEF OneWinnerPerBase, Moved
  <1>. QED
    BY <1>2, <1>3, PublicationCases

LEMMA IInvStep == IInv /\ [Next]_vars => IInv'
  BY TypeStep, LaunchInvStep, PromoInvStep, InflightStep, AuditedStep,
     TargetInvStep, OneWinnerStep DEF IInv

LEMMA IInvHolds == Spec => []IInv
  BY InitIInv, IInvStep, PTL DEF Spec

-----------------------------------------------------------------------------
(* Nothing reaches the publication target unaudited: the published run     *)
(* succeeded, no blocking check failed, it replaced exactly the state its  *)
(* launch captured, and strict checks saw exactly the published hash.      *)
THEOREM PublicationIsAudited == Spec => []AuditedPublication
  <1>1. IInv => AuditedPublication
    BY DEF IInv
  <1>. QED
    BY IInvHolds, <1>1, PTL

(* Of the runs audited against one state of the target, one publishes:     *)
(* expectedHash and the drift check serialise the promotions.              *)
THEOREM OneRunWins == Spec => []OneWinnerPerBase
  <1>1. IInv => OneWinnerPerBase
    BY DEF IInv
  <1>. QED
    BY IInvHolds, <1>1, PTL

(* No publication, retry or late request takes a commit off the target.    *)
THEOREM TargetAdvances == Spec => TargetOnlyAdvances
  <1>1. IInv /\ [Next]_vars => HasAncestor(target', target)
    BY TargetExtends
  <1>2. Spec => [][HasAncestor(target', target)]_vars
    BY IInvHolds, <1>1, PTL DEF Spec
  <1>. QED
    BY <1>2 DEF TargetOnlyAdvances

-----------------------------------------------------------------------------
(* The refinement: launchers, runs, sensors, crashes and late requests add *)
(* no publication that the abstract protocol does not allow.               *)

LEMMA InitRefines == Init => Abs!Init
  BY DEF Init, Abs!Init, Verdict, Terminal, NoHash, Abs!NoHash

(* The verdict of a run whose status and checks stay the same, or that has *)
(* not ended, stays the same.                                              *)
LEMMA VerdictKept ==
    ASSUME NEW r \in Runs,
           \/ run'[r] = run[r] /\ checks'[r] = checks[r]
           \/ run[r] \notin Terminal /\ run'[r] \notin Terminal
    PROVE  Verdict(r)' = Verdict(r)
  BY DEF Verdict

LEMMA SealRefines ==
    ASSUME IInv, NEW r \in Runs, ReadTarget(r)
    PROVE  Abs!Seal(r)
  <1>1. \A s \in Runs : Verdict(s)' = Verdict(s)
    BY VerdictKept DEF ReadTarget, runVars
  <1>2. base[r] = NoHash
    BY DEF IInv, LaunchInv, ReadTarget
  <1>. QED
    BY <1>1, <1>2 DEF Abs!Seal, ReadTarget, catalogVars, NoHash, Abs!NoHash

(* A run that ends decides the verdict; nothing else of it is visible.     *)
LEMMA RunRefines ==
    ASSUME IInv, NEW r \in Runs, RunStep(r)
    PROVE  Abs!Next \/ UNCHANGED Abs!absVars
  <1>. USE DEF IInv
  <1>1. UNCHANGED << target, base, published >>
    BY RunFrame
  <1>2. \A s \in Runs \ {r} : run'[s] = run[s] /\ checks'[s] = checks[s]
    BY DEF TypeOK, RunStep, VerifyExecution, VerifyTimeout, WriteAsset,
           AuditBegin, AuditEnd, AuditDisturbed, UnboundCheck, Finish,
           Reexecute, Age, UnchangedByRun, runVars
  <1>. DEFINE Hidden == \/ run'[r] = run[r] /\ checks'[r] = checks[r]
                        \/ run[r] \notin Terminal /\ run'[r] \notin Terminal
              Ends == run[r] \in {"starting", "started"} /\ run'[r] \in Terminal
  <1>3. CASE Hidden
    <2>1. \A s \in Runs : Verdict(s)' = Verdict(s)
      BY <1>2, <1>3, VerdictKept
    <2>. QED
      BY <1>1, <2>1 DEF Abs!absVars
  <1>4. CASE Ends
    <2>1. base[r] # Abs!NoHash
      BY <1>4 DEF LaunchInv, NoHash, Abs!NoHash
    <2>2. Verdict(r) = "open" /\ Verdict(r)' \in {"approved", "rejected"}
      BY <1>4 DEF Verdict, Terminal
    <2>3. [s \in Runs |-> Verdict(s)]'
            = [[s \in Runs |-> Verdict(s)] EXCEPT ![r] = Verdict(r)']
      BY <1>2, VerdictKept
    <2>4. Abs!Decide(r, Verdict(r)')
      BY <1>1, <2>1, <2>2, <2>3 DEF Abs!Decide
    <2>. QED
      BY <2>2, <2>4 DEF Abs!Next
  <1>5. Hidden \/ Ends
    <2>. USE DEF Terminal
    <2>1. run \in [Runs -> RunStatuses]
      BY DEF TypeOK
    <2>2. CASE VerifyExecution(r) \/ VerifyTimeout(r) \/ AuditDisturbed(r)
      BY <2>1, <2>2 DEF VerifyExecution, VerifyTimeout, AuditDisturbed
    <2>3. CASE WriteAsset(r) \/ AuditBegin(r) \/ Reexecute(r) \/ Age(r)
      BY <2>3 DEF WriteAsset, AuditBegin, Reexecute, Age, UnchangedByRun,
                  runVars
    <2>4. ASSUME NEW o \in Outcomes, AuditEnd(r, o) \/ UnboundCheck(r, o)
          PROVE  Hidden \/ Ends
      BY <2>4 DEF AuditEnd, UnboundCheck
    <2>5. ASSUME NEW s \in Terminal, Finish(r, s) PROVE Hidden \/ Ends
      BY <2>1, <2>5 DEF Finish
    <2>6. RunStep(r) => \/ VerifyExecution(r) \/ VerifyTimeout(r)
                        \/ AuditDisturbed(r) \/ WriteAsset(r)
                        \/ AuditBegin(r) \/ Reexecute(r) \/ Age(r)
                        \/ \E o \in Outcomes :
                             AuditEnd(r, o) \/ UnboundCheck(r, o)
                        \/ \E s \in Terminal : Finish(r, s)
      BY DEF RunStep
    <2>. QED
      BY <2>2, <2>3, <2>4, <2>5, <2>6
  <1>. HIDE DEF Hidden, Ends
  <1>. QED
    BY <1>3, <1>4, <1>5

(* A launcher is visible only where it captures the target.                *)
LEMMA LaunchRefines ==
    ASSUME IInv, NEW r \in Runs, LaunchStep(r)
    PROVE  Abs!Next \/ UNCHANGED Abs!absVars
  <1>. USE DEF IInv
  <1>1. CASE ReadTarget(r)
    BY <1>1, SealRefines DEF Abs!Next
  <1>2. CASE ~ReadTarget(r)
    <2>1. UNCHANGED << target, published, checks >>
      BY LaunchFrame
    <2>2. base' = base
      BY <1>2 DEF LaunchStep, CreateBranch, SealLaunch, Register,
                  SubmitAccepted, SubmitFailed, LauncherCrash
    <2>3. ASSUME NEW s \in Runs
          PROVE  \/ run'[s] = run[s]
                 \/ run[s] \notin Terminal /\ run'[s] \notin Terminal
      BY <1>2 DEF LaunchStep, CreateBranch, SealLaunch, Register,
                  SubmitAccepted, SubmitFailed, LauncherCrash, runVars,
                  TypeOK, LaunchInv, Terminal
    <2>4. \A s \in Runs : Verdict(s)' = Verdict(s)
      BY <2>1, <2>3, VerdictKept
    <2>. QED
      BY <2>1, <2>2, <2>4 DEF Abs!absVars
  <1>. QED
    BY <1>1, <1>2

(* The target moves only by OtherCommit and Publish.                       *)
LEMMA PublishRefines ==
    ASSUME IInv, NEW r \in Runs, NEW h \in Hash, Publish(r, h), Cleared(r, h),
           UNCHANGED << base, run, checks >>
    PROVE  Abs!Publish(r)
  <1>. USE DEF IInv
  <1>1. \A s \in Runs : Verdict(s)' = Verdict(s)
    BY VerdictKept
  <1>2. Verdict(r) = "approved"
    BY DEF Cleared, Approved, Verdict, Terminal
  <1>3. target = base[r] /\ target' = h /\ target # NoHash
    BY DEF Publish, AssignAllowed, LaunchInv
  <1>4. Abs!HasAncestor(target', target)
    BY <1>3 DEF Cleared, HasAncestor, Abs!HasAncestor
  <1>5. target' \in Abs!History
    BY <1>3 DEF Hash, Abs!History
  <1>. QED
    BY <1>1, <1>2, <1>3, <1>4, <1>5
       DEF Abs!Publish, Publish, NoHash, Abs!NoHash

LEMMA StepRefines ==
    ASSUME IInv, [Next]_vars
    PROVE  Abs!Next \/ UNCHANGED Abs!absVars
  <1>. USE DEF IInv
  <1>1. ASSUME UNCHANGED << target, published, base, run, checks >>
        PROVE  UNCHANGED Abs!absVars
    BY <1>1, VerdictKept DEF Abs!absVars
  <1>2. CASE TargetCommit
    <2>1. UNCHANGED << base, run, checks, published >>
      BY <1>2 DEF TargetCommit, launchVars, runVars
    <2>2. \A s \in Runs : Verdict(s)' = Verdict(s)
      BY <2>1, VerdictKept
    <2>3. target' = Abs!CommitOn(target, Other)
      BY <1>2 DEF TargetCommit, CommitOn, Abs!CommitOn
    <2>. QED
      BY <2>1, <2>2, <2>3 DEF Abs!Next, Abs!OtherCommit
  <1>3. CASE PromoStep
    <2>1. UNCHANGED << base, run, checks >>
      BY <1>3, PromoFrame
    <2>2. CASE \E r \in Runs, h \in Hash : Publish(r, h) /\ Cleared(r, h)
      BY <2>1, <2>2, PublishRefines DEF Abs!Next
    <2>. QED
      BY <1>1, <1>2, <2>1, <2>2, PublicationCases
  <1>4. CASE SweepStep
    BY <1>1, <1>4, SweepFrame
  <1>5. CASE UNCHANGED vars
    BY <1>1, <1>5 DEF vars
  <1>. QED
    BY <1>2, <1>3, <1>4, <1>5, LaunchRefines, RunRefines DEF Next

(* Whatever launchers, runs and sensors do together is a behaviour of the  *)
(* abstract publication protocol.                                          *)
THEOREM WapImplementsPublication == Spec => ImplementsPublication
  <1>1. IInv /\ [Next]_vars => [Abs!Next]_(Abs!absVars)
    BY StepRefines
  <1>2. Spec => Abs!Spec
    BY InitRefines, IInvHolds, <1>1, PTL DEF Spec, Abs!Spec
  <1>. QED
    BY <1>2 DEF ImplementsPublication
=============================================================================
