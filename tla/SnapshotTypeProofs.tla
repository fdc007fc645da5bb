------------------------- MODULE SnapshotTypeProofs -------------------------
(***************************************************************************)
(* Type correctness of the snapshot strategy, and the decomposition of a   *)
(* step into what it does to the catalog that the other proofs use.        *)
(***************************************************************************)
EXTENDS SnapshotWap, TLAPS

(* What a step of SnapshotWap does to the catalog and its callers: one of  *)
(* the operations of SnapshotRelease, or the death of the sensor.          *)
SensorLost ==
    /\ work' = [work EXCEPT ![Sensor] = IdleWork]
    /\ jan' = [jan EXCEPT ![Sensor] = IdleJan]
    /\ Unlock(Sensor)
    /\ UNCHANGED << main, ref, stage, ledgerVars, current >>

StageOperation ==
    \E r \in Runs :
        \/ StageBranch(r) \/ StageAppend(r) \/ StageFails(r)
        \/ \E t \in Tables : StageRevision(r, t) \/ MergeRows(r, t)

(* A call after its beginning,                                             *)
OngoingCall(p) ==
    \/ Resume(p) \/ Intend(p) \/ IntentRefused(p) \/ Reread(p)
    \/ Receipt(p) \/ ReceiptRefused(p) \/ CallFails(p) \/ Die(p)
    \/ \E t \in Tables :
         \/ Prepare(p, t) \/ PrepareRefused(p, t)
         \/ Overwrite(p, t) \/ OverwriteRefused(p, t)
         \/ DropReleased(p, t, TRUE) \/ DropReleased(p, t, FALSE)

CallOperation ==
    \E p \in Publishers :
        \/ OngoingCall(p)
        \/ \E r \in Runs, expected \in Revision :
             Begin(p, r, Tables, expected)

(* and a sweep after its beginning.                                        *)
OngoingSweep(j) ==
    \/ CloseCandidates(j) \/ JanitorDies(j)
    \/ \E t \in Tables : DropCandidate(j, t) \/ DropFails(j, t)

SweepOperation ==
    \E j \in Janitors :
        \/ OngoingSweep(j)
        \/ \E r \in Runs, status \in {"aborted", "pruned"},
              rows \in SUBSET Tables : Sweep(j, r, status, rows)

CatalogOperation ==
    \/ \E t \in Tables : ForeignCommit(t)
    \/ StageOperation
    \/ CallOperation
    \/ LoseLock
    \/ SweepOperation
    \/ SensorLost

(* The writes of the sensor, on a report that it could read or could not,  *)
EarlyWrite == \E r \in SensorRuns : TickNoted(r) \/ TickChecksFailed(r)

LastWrite(readable) ==
    \/ \E resolved \in BOOLEAN : TickRefused(resolved, readable)
    \/ TickGoverned(readable) \/ TickReview(readable)
    \/ TickFailed(readable) \/ TickRetained(readable)

GoingWrite(readable) ==
    \/ TickOutbox(readable) \/ TickMerged(readable)
    \/ TickDeleted(readable) \/ TickFinal(readable)

WriteOperation(readable) ==
    EarlyWrite \/ LastWrite(readable) \/ GoingWrite(readable)

(* A report, a verdict or the sensor's counter changes: the catalog is     *)
(* untouched.                                                              *)
ReportOperation ==
    \/ \E r \in Runs : Launch(r)
    \/ \E r \in Runs, v \in {"approved", "rejected"} : Decide(r, v)
    \/ \E r \in SensorRuns, rev \in Revision, readable \in BOOLEAN :
         TickRead(r, rev, readable)
    \/ \E resolved \in BOOLEAN : TickDecide(resolved)
    \/ TickAnswered \/ TickTag \/ WriteLost
    \/ \E readable \in BOOLEAN : WriteOperation(readable)

-----------------------------------------------------------------------------
CatalogTypes ==
    /\ main \in [Tables -> Snapshot]
    /\ ref \in [Runs -> [Tables -> Tip]]
    /\ stage \in [Runs -> Stage]
    /\ cand \in [Runs -> [Tables -> Candidate]]
    /\ intent \in [Runs -> [Tables -> Tip]]
    /\ releases \subseteq Release
    /\ revision \in Nat
    /\ created \in [Runs -> [Tables -> Nat]]
    /\ current \subseteq Publishers
    /\ lock \in Publishers \cup {None}
    /\ work \in [Publishers -> Work]
    /\ jan \in [Janitors -> Jan]

(* Who is busy knows what with.                                            *)
CatalogBusy ==
    /\ \A r \in Runs : stage[r].pc # "idle" => stage[r].table \in Tables
    /\ \A p \in Publishers : work[p].pc # "idle" => work[p].run \in Runs
    /\ \A j \in Janitors : jan[j].pc # "idle" => jan[j].run \in Runs

CatalogInv == CatalogTypes /\ CatalogBusy

ReportInv ==
    /\ seal \in [Runs -> Revision]
    /\ rep \in [Runs -> Report]
    /\ lost \subseteq Runs
    /\ verdict \in [Runs -> {"open", "approved", "rejected"}]
    /\ promoted \subseteq Runs
    /\ tick \in Tick
    /\ aged \subseteq Runs
    /\ cleaner \in Cleaner
    /\ events \in Nat
    /\ tick.pc # "idle" => tick.run \in SensorRuns

(* A call or a sweep of the sensor belongs to its evaluation.              *)
SensorInv ==
    /\ work[Sensor].pc # "idle" =>
         tick.pc = "call" /\ tick.run = work[Sensor].run
    /\ jan[Sensor].pc # "idle" =>
         tick.pc = "sweep" /\ jan[Sensor].status = "aborted"

TypeInv == CatalogInv /\ ReportInv /\ SensorInv

LEMMA IdleFacts ==
    /\ NoTip \in Tip /\ NoEntry \in Entry /\ NoCand \in Candidate
    /\ IdleWork \in Work /\ IdleStage \in Stage /\ IdleJan \in Jan
    /\ IdleWork.pc = "idle" /\ IdleStage.pc = "idle" /\ IdleJan.pc = "idle"
    /\ NoReport \in Report /\ IdleTick \in Tick /\ IdleTick.pc = "idle"
    /\ IdleCleaner \in Cleaner
  <1>1. /\ NoTip \in Tip
        /\ NoCand \in Candidate
        /\ NoReport \in Report
    BY DEF NoTip, Tip, NoCand, Candidate, CandStatus, NoReport, Report,
           Revision, MergeStates
  <1>2. NoEntry \in Entry
    BY <1>1 DEF NoEntry, Entry
  <1>3. IdleStage \in Stage /\ IdleStage.pc = "idle"
    BY DEF IdleStage, Stage, StagePc
  <1>4. IdleJan \in Jan /\ IdleJan.pc = "idle"
    BY DEF IdleJan, Jan, JanPc
  <1>5. IdleWork \in Work /\ IdleWork.pc = "idle"
    BY <1>2 DEF IdleWork, Work, WorkPc
  <1>6. IdleTick \in Tick /\ IdleTick.pc = "idle"
    BY <1>1 DEF IdleTick, Tick, TickPc, Revision
  <1>7. IdleCleaner \in Cleaner
    BY <1>1 DEF IdleCleaner, Cleaner
  <1>. QED
    BY <1>1, <1>2, <1>3, <1>4, <1>5, <1>6, <1>7

LEMMA InitCatalog == WapInit => TypeInv
  <1>. SUFFICES ASSUME WapInit PROVE TypeInv
    OBVIOUS
  <1>. USE IdleFacts DEF WapInit, SnapInit
  <1>1. main \in [Tables -> Snapshot]
    BY DEF Snapshot
  <1>2. CatalogTypes
    BY <1>1 DEF CatalogTypes
  <1>3. CatalogBusy
    BY DEF CatalogBusy
  <1>4. ReportInv
    BY DEF ReportInv, Revision
  <1>5. SensorInv
    BY SnapshotWapConstants DEF SensorInv
  <1>. QED
    BY <1>2, <1>3, <1>4, <1>5 DEF TypeInv, CatalogInv

-----------------------------------------------------------------------------
LEMMA ForeignType ==
    ASSUME CatalogInv, NEW t \in Tables, ForeignCommit(t)
    PROVE  CatalogInv'
  <1>1. [snap |-> main[t].snap + 1, rows |-> main[t].rows \cup {None},
         rel |-> None, tip |-> NoTip] \in Snapshot
    BY IdleFacts DEF CatalogInv, CatalogTypes, Snapshot, Row
  <1>2. main' \in [Tables -> Snapshot]
    BY <1>1 DEF CatalogInv, CatalogTypes, ForeignCommit
  <1>. QED
    BY <1>2 DEF CatalogInv, CatalogTypes, CatalogBusy, ForeignCommit, ledgerVars

LEMMA StageType ==
    ASSUME CatalogInv, StageOperation
    PROVE  CatalogInv'
  <1>. USE IdleFacts DEF CatalogInv, CatalogTypes, CatalogBusy, ledgerVars
  <1>1. PICK r \in Runs :
          \/ StageBranch(r) \/ StageAppend(r) \/ StageFails(r)
          \/ \E t \in Tables : StageRevision(r, t) \/ MergeRows(r, t)
    BY DEF StageOperation
  <1>2. CASE StageBranch(r)
    <2>1. stage[r].table \in Tables
      BY <1>2 DEF StageBranch
    <2>2. [base |-> main[stage[r].table].snap,
           rows |-> main[stage[r].table].rows] \in Tip
      BY <2>1 DEF Tip, Snapshot
    <2>3. ref' \in [Runs -> [Tables -> Tip]]
      BY <1>2, <2>1, <2>2 DEF StageBranch
    <2>4. stage' \in [Runs -> Stage]
      BY <1>2, <2>1 DEF StageBranch, Stage, StagePc, Snapshot
    <2>5. \A s \in Runs : stage'[s].table = stage[s].table
      BY <1>2 DEF StageBranch, Stage
    <2>6. \A s \in Runs : stage'[s].pc # "idle" => stage[s].pc # "idle"
      BY <1>2 DEF StageBranch, Stage
    <2>. QED
      BY <1>2, <2>3, <2>4, <2>5, <2>6 DEF StageBranch
  <1>3. CASE StageAppend(r)
    <2>1. stage[r].table \in Tables
      BY <1>3 DEF StageAppend
    <2>2. [status |-> "open", rev |-> stage[r].rev, base |-> stage[r].base]
            \in Candidate
      BY DEF Stage, Candidate, CandStatus
    <2>3. cand' \in [Runs -> [Tables -> Candidate]]
      BY <1>3, <2>1, <2>2 DEF StageAppend
    <2>4. created' \in [Runs -> [Tables -> Nat]]
      BY <1>3, <2>1 DEF StageAppend
    <2>. QED
      BY <1>3, <2>3, <2>4 DEF StageAppend
  <1>4. CASE StageFails(r)
    BY <1>4 DEF StageFails
  <1>5. ASSUME NEW t \in Tables, StageRevision(r, t) PROVE CatalogInv'
    <2>1. [IdleStage EXCEPT !.pc = "revision", !.table = t, !.rev = revision]
            \in [pc : {"revision"}, table : {t}, rev : Nat, base : Nat]
      BY DEF IdleStage
    <2>. QED
      BY <1>5, <2>1 DEF StageRevision, Stage, StagePc
  <1>6. ASSUME NEW t \in Tables, MergeRows(r, t) PROVE CatalogInv'
    <2>0. ref[r][t] \in Tip
      OBVIOUS
    <2>1. [ref[r][t] EXCEPT !.rows = @ \cup {r}] \in Tip
      BY <2>0 DEF Tip, Row
    <2>2. ref' \in [Runs -> [Tables -> Tip]]
      BY <1>6, <2>1 DEF MergeRows
    <2>. QED
      BY <1>6, <2>2 DEF MergeRows
  <1>. QED
    BY <1>1, <1>2, <1>3, <1>4, <1>5, <1>6

-----------------------------------------------------------------------------
(* The steps of a call that leave the catalog alone but for work.          *)
LEMMA CallType ==
    ASSUME CatalogInv, CallOperation
    PROVE  CatalogInv'
  <1>. USE IdleFacts, SnapshotConstants
       DEF CatalogInv, CatalogTypes, CatalogBusy, ledgerVars
  <1>1. PICK p \in Publishers :
          \/ OngoingCall(p)
          \/ \E r \in Runs, expected \in Revision :
               Begin(p, r, Tables, expected)
    BY DEF CallOperation
  <1>2. work[p] \in Work
    OBVIOUS
  <1>3. ASSUME Raise(p) PROVE CatalogInv'
    BY <1>3 DEF Raise, Unlock
  <1>4. ASSUME NEW r \in Runs, NEW expected \in Revision,
               Begin(p, r, Tables, expected)
        PROVE  CatalogInv'
    <2>1. work'[p] \in Work /\ work'[p].run = r
      <3>1. Selected(r, Tables) \subseteq Tables
        BY DEF Selected
      <3>2. [t \in Tables |-> cand[r][t].base] \in [Tables -> Nat]
        BY DEF Candidate
      <3>3. (r \in Pending) \in BOOLEAN
        OBVIOUS
      <3>. QED
        BY <1>4, <3>1, <3>2, <3>3 DEF Begin, IdleWork, Work, WorkPc
    <2>2. work' \in [Publishers -> Work]
      BY <1>4, <2>1 DEF Begin
    <2>3. \A q \in Publishers : q # p => work'[q] = work[q]
      BY <1>4 DEF Begin
    <2>. QED
      BY <1>4, <2>1, <2>2, <2>3 DEF Begin
  <1>5. ASSUME StartWriting(p)
        PROVE  /\ work' \in [Publishers -> Work]
               /\ \A q \in Publishers : work'[q].run = work[q].run
               /\ \A q \in Publishers :
                    work'[q].pc # "idle" => q = p \/ work[q].pc # "idle"
    <2>1. work'[p] \in Work /\ work'[p].run = work[p].run
      BY <1>2, <1>5 DEF StartWriting, Work, WorkPc
    <2>. QED
      BY <1>5, <2>1 DEF StartWriting
  <1>6. CASE Resume(p)
    BY <1>5, <1>6 DEF Resume
  <1>7. CASE Intend(p)
    <2>1. /\ work' \in [Publishers -> Work]
          /\ \A q \in Publishers : work'[q].run = work[q].run
          /\ \A q \in Publishers :
               work'[q].pc # "idle" => work[q].pc # "idle"
      BY <1>2, <1>7 DEF Intend, Work, WorkPc
    <2>2. [t \in Tables |-> work[p].entry[t].tip] \in [Tables -> Tip]
      <3>1. work[p].entry \in [Tables -> Entry]
        BY <1>2 DEF Work
      <3>2. \A e \in Entry : e.tip \in Tip
        BY DEF Entry
      <3>3. \A t \in Tables : work[p].entry[t].tip \in Tip
        BY <3>1, <3>2
      <3>. QED
        BY Zenon, <3>3
    <2>3. intent' \in [Runs -> [Tables -> Tip]]
      BY <1>7, <2>2 DEF Intend
    <2>. QED
      BY <1>7, <2>1, <2>3 DEF Intend
  <1>8. CASE Reread(p)
    BY <1>5, <1>8 DEF Reread
  <1>9. CASE Receipt(p)
    <2>1. /\ work' \in [Publishers -> Work]
          /\ \A q \in Publishers : work'[q].run = work[q].run
          /\ \A q \in Publishers :
               work'[q].pc # "idle" => work[q].pc # "idle"
      <3>1. IdleWork.entry \in [Tables -> Entry]
        BY DEF IdleWork
      <3>. QED
        BY <1>2, <1>9, <3>1 DEF Receipt, Work, WorkPc
    <2>2. [run |-> work[p].run, rev |-> work[p].rev + 1,
           tables |-> work[p].tables] \in Release
      <3>1. work[p].run \in Runs
        BY <1>9 DEF Receipt
      <3>2. work[p].rev + 1 \in Nat /\ work[p].tables \in SUBSET Tables
        BY <1>2 DEF Work
      <3>. QED
        BY <3>1, <3>2 DEF Release
    <2>3. revision' \in Nat
      BY <1>2, <1>9 DEF Receipt, Work
    <2>. QED
      BY <1>9, <2>1, <2>2, <2>3 DEF Receipt
  <1>10. CASE Die(p)
    BY <1>10 DEF Die, Unlock
  <1>11. ASSUME NEW t \in Tables, Prepare(p, t) PROVE CatalogInv'
    <2>0. work[p].run \in Runs
      BY <1>11 DEF Prepare
    <2>1. [tip |-> ref[work[p].run][t], snap |-> main[t].snap,
           done |-> Carries(t, work[p].run, ref[work[p].run][t])] \in Entry
      <3>1. main[t].snap \in Nat
        BY DEF Snapshot
      <3>2. Carries(t, work[p].run, ref[work[p].run][t]) \in BOOLEAN
        BY DEF Carries
      <3>. QED
        BY <2>0, <3>1, <3>2 DEF Entry
    <2>2. /\ work' \in [Publishers -> Work]
          /\ \A q \in Publishers : work'[q].run = work[q].run
          /\ \A q \in Publishers :
               work'[q].pc # "idle" => work[q].pc # "idle"
      BY <1>2, <1>11, <2>1 DEF Prepare, Work, WorkPc
    <2>. QED
      BY <1>11, <2>2 DEF Prepare
  <1>12. ASSUME NEW t \in Tables, Overwrite(p, t) PROVE CatalogInv'
    <2>0. work[p].entry[t] \in Entry /\ work[p].run \in Runs
      BY <1>2, <1>12 DEF Overwrite, Work
    <2>1. [snap |-> main[t].snap + 1, rows |-> work[p].entry[t].tip.rows,
           rel |-> work[p].run, tip |-> work[p].entry[t].tip] \in Snapshot
      BY <2>0 DEF Entry, Tip, Snapshot
    <2>2. main' \in [Tables -> Snapshot]
      BY <1>12, <2>1 DEF Overwrite
    <2>3. /\ work' \in [Publishers -> Work]
          /\ \A q \in Publishers : work'[q].run = work[q].run
          /\ \A q \in Publishers :
               work'[q].pc # "idle" => work[q].pc # "idle"
      BY <1>2, <1>12 DEF Overwrite, Work, WorkPc
    <2>. QED
      BY <1>12, <2>2, <2>3 DEF Overwrite
  <1>13. ASSUME NEW t \in Tables, NEW dropped \in BOOLEAN,
                DropReleased(p, t, dropped)
         PROVE  CatalogInv'
    <2>1. ref' \in [Runs -> [Tables -> Tip]]
      BY <1>13 DEF DropReleased
    <2>2. /\ work' \in [Publishers -> Work]
          /\ \A q \in Publishers : work'[q].pc # "idle" =>
               work'[q].run = work[q].run /\ work[q].pc # "idle"
      BY <1>2, <1>13 DEF DropReleased, Work, WorkPc
    <2>. QED
      BY <1>13, <2>1, <2>2 DEF DropReleased
  <1>. QED
    BY <1>1, <1>3, <1>4, <1>6, <1>7, <1>8, <1>9, <1>10, <1>11, <1>12, <1>13
       DEF OngoingCall, IntentRefused, ReceiptRefused, CallFails,
           PrepareRefused, OverwriteRefused

LEMMA SweepType ==
    ASSUME CatalogInv, SweepOperation
    PROVE  CatalogInv'
  <1>. USE IdleFacts DEF CatalogInv, CatalogTypes, CatalogBusy, ledgerVars
  <1>1. PICK j \in Janitors :
          \/ OngoingSweep(j)
          \/ \E r \in Runs, status \in {"aborted", "pruned"},
                rows \in SUBSET Tables : Sweep(j, r, status, rows)
    BY DEF SweepOperation
  <1>2. jan[j] \in Jan
    OBVIOUS
  <1>3. ASSUME NEW r \in Runs, NEW status \in {"aborted", "pruned"},
               NEW rows \in SUBSET Tables, Sweep(j, r, status, rows)
        PROVE  CatalogInv'
    <2>1. [t \in Tables |-> cand[r][t].base] \in [Tables -> Nat]
      BY DEF Candidate
    <2>2. [pc |-> "drop", run |-> r, status |-> status, rows |-> rows,
           todo |-> rows, base |-> [t \in Tables |-> cand[r][t].base],
           failed |-> FALSE] \in Jan
      BY <2>1 DEF Jan, JanPc
    <2>. QED
      BY <1>3, <2>2 DEF Sweep
  <1>4. \A t \in Tables, failed \in BOOLEAN :
          /\ AfterDrop(j, t, failed) \in Jan
          /\ AfterDrop(j, t, failed).run = jan[j].run
    BY <1>2 DEF AfterDrop, Jan, JanPc
  <1>5. ASSUME NEW t \in Tables, DropCandidate(j, t) PROVE CatalogInv'
    <2>1. jan[j].failed \in BOOLEAN /\ jan[j].run \in Runs
      BY <1>2, <1>5 DEF DropCandidate, Jan
    <2>2. ref' \in [Runs -> [Tables -> Tip]]
      BY <1>5 DEF DropCandidate
    <2>3. /\ jan' \in [Janitors -> Jan]
          /\ \A k \in Janitors : jan'[k].pc # "idle" => jan'[k].run \in Runs
      BY <1>4, <1>5, <2>1 DEF DropCandidate
    <2>. QED
      BY <1>5, <2>2, <2>3 DEF DropCandidate
  <1>6. ASSUME NEW t \in Tables, DropFails(j, t) PROVE CatalogInv'
    <2>1. /\ jan' \in [Janitors -> Jan]
          /\ \A k \in Janitors : jan'[k].pc # "idle" => jan'[k].run \in Runs
      BY <1>4, <1>6 DEF DropFails
    <2>. QED
      BY <1>6, <2>1 DEF DropFails
  <1>7. CASE CloseCandidates(j)
    <2>1. jan[j].run \in Runs /\ jan[j].status \in CandStatus
      BY <1>2, <1>7 DEF CloseCandidates, Jan, CandStatus
    <2>2. \A t \in Tables :
            [cand[jan[j].run][t] EXCEPT !.status = jan[j].status] \in Candidate
      <3>1. \A t \in Tables : cand[jan[j].run][t] \in Candidate
        BY <2>1
      <3>. QED
        BY <2>1, <3>1 DEF Candidate
    <2>3. cand' \in [Runs -> [Tables -> Candidate]]
      BY <1>7, <2>1, <2>2 DEF CloseCandidates
    <2>. QED
      BY <1>7, <2>3 DEF CloseCandidates
  <1>8. CASE JanitorDies(j)
    BY <1>8 DEF JanitorDies
  <1>. QED
    BY <1>1, <1>3, <1>5, <1>6, <1>7, <1>8 DEF OngoingSweep

LEMMA CatalogType ==
    ASSUME CatalogInv, CatalogOperation
    PROVE  CatalogInv'
  <1>. USE IdleFacts DEF CatalogInv, CatalogTypes, CatalogBusy, ledgerVars
  <1>1. CASE LoseLock
    BY <1>1 DEF LoseLock
  <1>2. CASE SensorLost
    BY <1>2 DEF SensorLost, Unlock
  <1>. QED
    BY <1>1, <1>2, ForeignType, StageType, CallType, SweepType
       DEF CatalogOperation

LEMMA CatalogStutter ==
    ASSUME CatalogInv, UNCHANGED snapVars
    PROVE  CatalogInv'
  BY DEF CatalogInv, CatalogTypes, CatalogBusy, snapVars

-----------------------------------------------------------------------------
LEMMA StoreTypes ==
    ASSUME TypeInv, NEW r \in Runs, NEW payload \in Report,
           NEW readable \in BOOLEAN, Store(r, payload, readable)
    PROVE  rep' \in [Runs -> Report] /\ lost' \subseteq Runs
  BY DEF Store, TypeInv, ReportInv

LEMMA ReadBackType ==
    ASSUME TypeInv, NEW r \in Runs, NEW readable \in BOOLEAN
    PROVE  ReadBack(r, readable) \in Report
  BY IdleFacts DEF ReadBack, TypeInv, ReportInv

(* What a write of the sensor does to the reports and to the sensor.       *)
LEMMA WriteTypes ==
    ASSUME TypeInv, NEW readable \in BOOLEAN, WriteOperation(readable)
    PROVE  /\ rep' \in [Runs -> Report] /\ lost' \subseteq Runs
           /\ UNCHANGED << snapVars, writeVars >>
           /\ \/ EarlyWrite /\ tick.pc = "idle" /\ UNCHANGED tick
              \/ LastWrite(readable) /\ tick.pc # "idle" /\ tick' = IdleTick
              \/ /\ GoingWrite(readable)
                 /\ tick.pc \in {"outbox", "merged", "deleted", "final"}
                 /\ tick' \in {[tick EXCEPT !.pc = pc] :
                                 pc \in {"call", "clean", "final", "tag"}}
  <1>. USE IdleFacts, SnapshotWapConstants
  <1>1. \A r \in Runs, ok \in BOOLEAN : ReadBack(r, ok) \in Report
    BY ReadBackType
  <1>2. tick \in Tick /\ (tick.pc # "idle" => tick.run \in Runs)
        /\ tick.rev \in Revision /\ tick.prior.before \in Revision
    BY DEF TypeInv, ReportInv, Tick, Report
  <1>3. \A x \in Report, before \in Revision, deleted \in BOOLEAN :
          /\ [x EXCEPT !.before = before] \in Report
          /\ [x EXCEPT !.review = TRUE] \in Report
          /\ [x EXCEPT !.review = FALSE] \in Report
          /\ [x EXCEPT !.deleted = deleted] \in Report
          /\ [x EXCEPT !.review = TRUE, !.merge = "review_required"] \in Report
          /\ [x EXCEPT !.merge = "merge_started", !.before = before] \in Report
          /\ [x EXCEPT !.merge = "merged", !.before = before] \in Report
          /\ [x EXCEPT !.deleted = TRUE, !.review = FALSE] \in Report
    BY DEF Report, MergeStates
  <1>4. CASE EarlyWrite
    <2>1. PICK r \in SensorRuns : TickNoted(r) \/ TickChecksFailed(r)
      BY <1>4 DEF EarlyWrite
    <2>2. None \in Revision /\ rep[r] \in Report /\ r \in Runs
      BY DEF Revision, TypeInv, ReportInv
    <2>3. CASE TickNoted(r)
      BY <1>4, <2>2, <2>3, StoreTypes DEF TickNoted
    <2>4. CASE TickChecksFailed(r)
      BY <1>3, <1>4, <2>2, <2>4, StoreTypes DEF TickChecksFailed
    <2>. QED
      BY <2>1, <2>3, <2>4
  <1>5. CASE LastWrite(readable)
    <2>1. ASSUME NEW resolved \in BOOLEAN, TickRefused(resolved, readable)
          PROVE  /\ rep' \in [Runs -> Report] /\ lost' \subseteq Runs
                 /\ UNCHANGED << snapVars, writeVars >>
                 /\ tick.pc # "idle" /\ tick' = IdleTick
      <3>1. ReadBack(tick.run, readable) \in Report /\ tick.run \in Runs
        BY <1>1, <1>2, <2>1 DEF TickRefused
      <3>2. ReadBack(tick.run, readable).before \in Revision
        BY <3>1 DEF Report
      <3>. QED
        BY <1>2, <1>3, <2>1, <3>1, <3>2, StoreTypes DEF TickRefused
    <2>2. CASE TickGoverned(readable)
      BY <1>1, <1>2, <1>3, <1>5, <2>2, StoreTypes DEF TickGoverned
    <2>3. CASE TickReview(readable)
      BY <1>1, <1>2, <1>3, <1>5, <2>3, StoreTypes DEF TickReview
    <2>4. CASE TickFailed(readable)
      BY <1>1, <1>2, <1>3, <1>5, <2>4, StoreTypes DEF TickFailed
    <2>5. CASE TickRetained(readable)
      <3>1. tick.run \in Runs
        BY <1>2, <2>5 DEF TickRetained
      <3>2. MergedReport(readable) \in Report
        BY <1>1, <1>2, <1>3, <3>1 DEF MergedReport
      <3>3. [MergedReport(readable) EXCEPT !.deleted = FALSE] \in Report
        BY <3>2 DEF Report
      <3>4. Store(tick.run, [MergedReport(readable) EXCEPT !.deleted = FALSE],
                readable)
        BY <2>5 DEF TickRetained
      <3>5. rep' \in [Runs -> Report] /\ lost' \subseteq Runs
        BY <3>1, <3>3, <3>4, StoreTypes
      <3>. QED
        BY <1>5, <2>5, <3>5 DEF TickRetained
    <2>. QED
      BY <1>5, <2>1, <2>2, <2>3, <2>4, <2>5 DEF LastWrite
  <1>6. CASE GoingWrite(readable)
    <2>1. tick.run \in Runs
      BY <1>2, <1>6 DEF GoingWrite, TickOutbox, TickMerged, TickDeleted, TickFinal
    <2>2. MergedReport(readable) \in Report
      BY <1>1, <1>2, <1>3, <2>1 DEF MergedReport
    <2>3. CASE TickOutbox(readable)
      BY <1>1, <1>2, <1>3, <1>6, <2>1, <2>3, StoreTypes DEF TickOutbox
    <2>4. CASE TickMerged(readable)
      BY <1>6, <2>1, <2>2, <2>4, StoreTypes DEF TickMerged
    <2>5. CASE TickDeleted(readable)
      <3>1. [MergedReport(readable) EXCEPT !.deleted = TRUE] \in Report
        BY <2>2 DEF Report
      <3>2. Store(tick.run, [MergedReport(readable) EXCEPT !.deleted = TRUE],
                readable)
        BY <2>5 DEF TickDeleted
      <3>3. rep' \in [Runs -> Report] /\ lost' \subseteq Runs
        BY <2>1, <3>1, <3>2, StoreTypes
      <3>. QED
        BY <1>6, <2>5, <3>3 DEF TickDeleted
    <2>6. CASE TickFinal(readable)
      <3>1. [MergedReport(readable) EXCEPT !.deleted = TRUE, !.review = FALSE]
              \in Report
        BY <2>2 DEF Report
      <3>2. Store(tick.run, [MergedReport(readable) EXCEPT !.deleted = TRUE, !.review = FALSE],
                readable)
        BY <2>6 DEF TickFinal
      <3>3. rep' \in [Runs -> Report] /\ lost' \subseteq Runs
        BY <2>1, <3>1, <3>2, StoreTypes
      <3>. QED
        BY <1>6, <2>6, <3>3 DEF TickFinal
    <2>. QED
      BY <1>6, <2>3, <2>4, <2>5, <2>6 DEF GoingWrite
  <1>. QED
    BY <1>4, <1>5, <1>6 DEF WriteOperation

LEMMA ReportTypes ==
    ASSUME TypeInv, ReportOperation
    PROVE  /\ seal' \in [Runs -> Revision]
           /\ rep' \in [Runs -> Report]
           /\ lost' \subseteq Runs
           /\ verdict' \in [Runs -> {"open", "approved", "rejected"}]
           /\ promoted' \subseteq Runs
           /\ tick' \in Tick
           /\ tick'.pc # "idle" => tick'.run \in SensorRuns
  <1>. USE IdleFacts, SnapshotWapConstants
       DEF TypeInv, ReportInv, snapVars, reportVars
  <1>0. revision \in Nat
    BY DEF CatalogInv, CatalogTypes
  <1>1. ASSUME NEW r \in Runs, Launch(r)
        PROVE  /\ rep' \in [Runs -> Report] /\ seal' \in [Runs -> Revision]
               /\ UNCHANGED << lost, verdict, promoted, tick >>
    BY <1>0, <1>1 DEF Launch, Report, Revision
  <1>2. ASSUME NEW r \in Runs, NEW v \in {"approved", "rejected"}, Decide(r, v)
        PROVE  /\ verdict' \in [Runs -> {"open", "approved", "rejected"}]
               /\ UNCHANGED << seal, rep, lost, promoted, tick >>
    BY <1>2 DEF Decide
  <1>3. ASSUME NEW r \in SensorRuns, NEW rev \in Revision,
               NEW readable \in BOOLEAN, TickRead(r, rev, readable)
        PROVE  /\ tick' \in Tick /\ tick'.run \in SensorRuns
               /\ UNCHANGED reportVars
    <2>1. ReadBack(r, readable) \in Report
      BY ReadBackType
    <2>. QED
      BY <1>3, <2>1 DEF TickRead, Tick, TickPc
  <1>4. \A pc \in TickPc : [tick EXCEPT !.pc = pc] \in Tick
                          /\ [tick EXCEPT !.pc = pc].run = tick.run
    BY DEF Tick
  <1>5. ASSUME NEW resolved \in BOOLEAN, TickDecide(resolved)
        PROVE  /\ tick' \in Tick /\ (tick'.pc # "idle" => tick'.run = tick.run)
               /\ tick.pc # "idle" /\ UNCHANGED reportVars
    BY <1>4, <1>5 DEF TickDecide, TickPc
  <1>6. ASSUME NEW readable \in BOOLEAN, WriteOperation(readable)
        PROVE  /\ rep' \in [Runs -> Report] /\ lost' \subseteq Runs
               /\ UNCHANGED << seal, verdict, promoted >>
               /\ tick' \in Tick
               /\ tick'.pc # "idle" => tick'.run \in SensorRuns
    <2>1. CASE UNCHANGED tick \/ tick' = IdleTick
      BY <1>6, <2>1, WriteTypes DEF writeVars
    <2>2. CASE /\ tick.pc \in {"outbox", "merged", "deleted", "final"}
               /\ tick' \in {[tick EXCEPT !.pc = pc] :
                               pc \in {"call", "clean", "final", "tag"}}
      <3>1. tick' \in Tick /\ tick'.run = tick.run
        BY <1>4, <2>2 DEF TickPc
      <3>. QED
        BY <1>6, <2>2, <3>1, WriteTypes DEF writeVars
    <2>. QED
      BY <1>6, <2>1, <2>2, WriteTypes
  <1>8. ASSUME TickAnswered
        PROVE  /\ tick' \in Tick /\ (tick'.pc # "idle" => tick'.run = tick.run)
               /\ tick.pc # "idle" /\ UNCHANGED reportVars
    BY <1>4, <1>8 DEF TickAnswered, TickPc
  <1>9. ASSUME TickTag \/ WriteLost
        PROVE  /\ tick' = IdleTick /\ promoted' \subseteq Runs
               /\ UNCHANGED << seal, rep, lost, verdict >>
    BY <1>9 DEF TickTag, WriteLost
  <1>. QED
    BY <1>1, <1>2, <1>3, <1>5, <1>6, <1>8, <1>9 DEF ReportOperation

-----------------------------------------------------------------------------
(* What an ongoing call leaves alone.                                      *)
LEMMA CallFrame ==
    ASSUME CatalogInv, NEW p \in Publishers, OngoingCall(p)
    PROVE  /\ work[p].pc # "idle"
           /\ \A q \in Publishers : q # p => work'[q] = work[q]
           /\ work'[p].pc # "idle" =>
                work'[p].run = work[p].run /\ work'[p].rev = work[p].rev
           /\ UNCHANGED jan
  <1>. USE IdleFacts DEF CatalogInv, CatalogTypes
  <1>1. work[p] \in Work
    OBVIOUS
  <1>2. CASE \/ IntentRefused(p) \/ ReceiptRefused(p) \/ CallFails(p) \/ Die(p)
             \/ \E t \in Tables : PrepareRefused(p, t) \/ OverwriteRefused(p, t)
    BY <1>2 DEF IntentRefused, ReceiptRefused, CallFails, Die, PrepareRefused,
                OverwriteRefused, Raise
  <1>3. CASE Resume(p) \/ Reread(p)
    BY <1>1, <1>3 DEF Resume, Reread, StartWriting, Work
  <1>4. CASE Intend(p)
    BY <1>1, <1>4 DEF Intend, Work
  <1>5. CASE Receipt(p)
    BY <1>1, <1>5 DEF Receipt, Work
  <1>6. ASSUME NEW t \in Tables, Prepare(p, t) \/ Overwrite(p, t)
        PROVE  /\ work[p].pc # "idle"
               /\ \A q \in Publishers : q # p => work'[q] = work[q]
               /\ work'[p].pc # "idle" =>
                    work'[p].run = work[p].run /\ work'[p].rev = work[p].rev
               /\ UNCHANGED jan
    BY <1>1, <1>6 DEF Prepare, Overwrite, Work
  <1>7. ASSUME NEW t \in Tables, NEW dropped \in BOOLEAN,
               DropReleased(p, t, dropped)
        PROVE  /\ work[p].pc # "idle"
               /\ \A q \in Publishers : q # p => work'[q] = work[q]
               /\ work'[p].pc # "idle" =>
                    work'[p].run = work[p].run /\ work'[p].rev = work[p].rev
               /\ UNCHANGED jan
    BY <1>1, <1>7 DEF DropReleased, Work
  <1>. QED
    BY <1>2, <1>3, <1>4, <1>5, <1>6, <1>7 DEF OngoingCall

LEMMA SweepFrame ==
    ASSUME CatalogInv, NEW j \in Janitors, OngoingSweep(j)
    PROVE  /\ jan[j].pc # "idle"
           /\ \A k \in Janitors : k # j => jan'[k] = jan[k]
           /\ jan'[j].pc # "idle" => jan'[j].status = jan[j].status
           /\ UNCHANGED work
  <1>. USE IdleFacts DEF CatalogInv, CatalogTypes
  <1>1. jan[j] \in Jan
    OBVIOUS
  <1>2. CASE CloseCandidates(j) \/ JanitorDies(j)
    BY <1>2 DEF CloseCandidates, JanitorDies
  <1>3. \A t \in Tables, failed \in BOOLEAN :
          AfterDrop(j, t, failed).status = jan[j].status
    BY <1>1 DEF AfterDrop, Jan
  <1>4. ASSUME NEW t \in Tables, DropCandidate(j, t) \/ DropFails(j, t)
        PROVE  /\ jan[j].pc # "idle"
               /\ \A k \in Janitors : k # j => jan'[k] = jan[k]
               /\ jan'[j].pc # "idle" => jan'[j].status = jan[j].status
               /\ UNCHANGED work
    <2>1. jan[j].failed \in BOOLEAN
      BY <1>1 DEF Jan
    <2>. QED
      BY <1>1, <1>3, <1>4, <2>1 DEF DropCandidate, DropFails
  <1>. QED
    BY <1>2, <1>4 DEF OngoingSweep

(* What becomes of the sensor while its call or its sweep goes on: nothing,*)
(* the evaluation ends, or the call or the sweep has returned.             *)
TickFollows ==
    \/ UNCHANGED tick
    \/ tick' = IdleTick
    \/ /\ tick.pc = "call" /\ work[Sensor].pc = "drop"
       /\ tick' = [tick EXCEPT !.pc = "merged"]
    \/ /\ tick.pc = "call"
       /\ tick' = [tick EXCEPT !.pc = "failed"]
    \/ /\ tick.pc = "sweep"
       /\ tick' \in {[tick EXCEPT !.pc = "deleted"],
                     [tick EXCEPT !.pc = "retained"]}

CallFollows ==
    /\ UNCHANGED << reportVars, jan >>
    /\ TickFollows
    /\ SensorInv'

LEMMA ReportSensor ==
    ASSUME TypeInv, ReportOperation
    PROVE  SensorInv' /\ UNCHANGED snapVars
  <1>. USE IdleFacts, SnapshotWapConstants
       DEF TypeInv, SensorInv, snapVars, ReportInv, Tick, CatalogInv,
           CatalogTypes
  <1>1. CASE \E r \in Runs : Launch(r)
    BY <1>1 DEF Launch
  <1>2. CASE \E r \in Runs, v \in {"approved", "rejected"} : Decide(r, v)
    BY <1>2 DEF Decide
  <1>3. CASE \E r \in SensorRuns, rev \in Revision, readable \in BOOLEAN :
               TickRead(r, rev, readable)
    BY <1>3 DEF TickRead
  <1>4. CASE \E resolved \in BOOLEAN : TickDecide(resolved)
    BY <1>4 DEF TickDecide
  <1>5. CASE TickAnswered
    BY <1>5 DEF TickAnswered
  <1>6. ASSUME NEW readable \in BOOLEAN, WriteOperation(readable)
        PROVE  SensorInv' /\ UNCHANGED snapVars
    <2>1. CASE LastWrite(readable)
      <3>1. tick.pc # "call" \/ work[Sensor].pc = "idle"
        BY <2>1 DEF LastWrite, TickRefused, TickGoverned, TickReview,
                    TickFailed, TickRetained
      <3>2. tick.pc \notin {"sweep"}
        BY <2>1 DEF LastWrite, TickRefused, TickGoverned, TickReview,
                    TickFailed, TickRetained
      <3>3. UNCHANGED snapVars
        BY <1>6, WriteTypes
      <3>. QED
        BY <3>1, <3>2, <3>3
    <2>2. CASE \/ UNCHANGED tick
               \/ tick.pc \in {"outbox", "merged", "deleted", "final"}
      BY <1>6, <2>2, WriteTypes
    <2>3. \/ LastWrite(readable) \/ UNCHANGED tick
          \/ tick.pc \in {"outbox", "merged", "deleted", "final"}
      BY <1>6, WriteTypes
    <2>. QED
      BY <2>1, <2>2, <2>3
  <1>7. CASE TickTag \/ WriteLost
    BY <1>7 DEF TickTag, WriteLost
  <1>. QED
    BY <1>1, <1>2, <1>3, <1>4, <1>5, <1>6, <1>7 DEF ReportOperation

(* Every call step of SnapshotWap, with its effect on the sensor.          *)
LEMMA CallSensor ==
    ASSUME TypeInv, NEW p \in Publishers,
           CallStep(p) \/ CallConflict(p) \/ CallFault(p)
    PROVE  CallOperation /\ CallFollows
  <1>. USE IdleFacts, SnapshotWapConstants DEF TypeInv, SensorInv, CallFollows
  <1>1. OngoingCall(p)
    BY DEF CallStep, CallConflict, CallFault, OngoingCall
  <1>2. CallOperation
    BY <1>1 DEF CallOperation
  <1>3. /\ work[p].pc # "idle"
        /\ \A q \in Publishers : q # p => work'[q] = work[q]
        /\ work'[p].pc # "idle" => work'[p].run = work[p].run
        /\ UNCHANGED jan
    BY <1>1, CallFrame
  <1>4. UNCHANGED reportVars
    BY DEF CallStep, CallConflict, CallFault
  <1>5. CASE p # Sensor
    <2>1. UNCHANGED tick
      BY <1>5 DEF CallStep, CallConflict, CallFault, AfterCall, AfterRaise
    <2>. QED
      BY <1>2, <1>3, <1>4, <1>5, <2>1 DEF TickFollows
  <1>6. CASE p = Sensor
    <2>1. CASE AfterRaise(p) /\ work'[p] = IdleWork
      <3>1. tick' = [tick EXCEPT !.pc = "failed"] /\ tick.pc = "call"
        BY <1>3, <1>6, <2>1 DEF AfterRaise
      <3>2. jan[Sensor].pc = "idle"
        BY <3>1
      <3>. QED
        BY <1>2, <1>3, <1>4, <1>6, <2>1, <3>1, <3>2 DEF TickFollows
    <2>2. CASE AfterCall(p) /\ work'[p].pc # "idle"
      BY <1>2, <1>3, <1>4, <1>6, <2>2 DEF AfterCall, TickFollows
    <2>3. CASE AfterCall(p) /\ work'[p].pc = "idle" /\ work[p].pc = "drop"
      <3>1. tick' = [tick EXCEPT !.pc = "merged"] /\ tick.pc = "call"
        BY <1>3, <1>6, <2>3 DEF AfterCall
      <3>2. jan[Sensor].pc = "idle"
        BY <3>1
      <3>. QED
        BY <1>2, <1>3, <1>4, <1>6, <2>3, <3>1, <3>2 DEF TickFollows
    <2>4. \/ AfterRaise(p) /\ work'[p] = IdleWork
          \/ AfterCall(p) /\ work'[p].pc # "idle"
          \/ AfterCall(p) /\ work'[p].pc = "idle" /\ work[p].pc = "drop"
      <3>1. work[p] \in Work /\ work \in [Publishers -> Work]
        BY DEF CatalogInv, CatalogTypes
      <3>2. CASE CallFails(p) /\ AfterRaise(p)
        BY <1>6, <3>1, <3>2 DEF CallFails, Raise
      <3>3. CASE AfterCall(p) /\ (Resume(p) \/ Reread(p))
        BY <3>1, <3>3 DEF Resume, Reread, StartWriting, Work
      <3>4. CASE AfterCall(p) /\ (Intend(p) \/ Receipt(p))
        BY <3>1, <3>4 DEF Intend, Receipt, Work
      <3>5. ASSUME NEW t \in Tables, Prepare(p, t) PROVE work'[p].pc # "idle"
        BY <3>1, <3>5 DEF Prepare, Work
      <3>6. ASSUME NEW t \in Tables, Overwrite(p, t) PROVE work'[p].pc # "idle"
        BY <3>1, <3>6 DEF Overwrite, Work
      <3>7. ASSUME NEW t \in Tables,
                   DropReleased(p, t, TRUE) \/ DropReleased(p, t, FALSE)
            PROVE  work[p].pc = "drop"
        BY <3>7 DEF DropReleased
      <3>8. CASE CallStep(p)
        BY <3>3, <3>4, <3>5, <3>6, <3>7, <3>8 DEF CallStep
      <3>9. CASE CallFault(p)
        <4>1. \/ CallFails(p) /\ AfterRaise(p)
              \/ AfterCall(p) /\ \E t \in Tables : DropReleased(p, t, FALSE)
          BY <1>6, <3>9 DEF CallFault
        <4>2. CASE AfterCall(p) /\ \E t \in Tables : DropReleased(p, t, FALSE)
          <5>1. work[p].pc = "drop"
            BY <3>7, <4>2
          <5>. QED
            BY <4>2, <5>1
        <4>. QED
          BY <3>2, <4>1, <4>2
      <3>10. CASE CallConflict(p)
        BY <3>1, <3>10
           DEF CallConflict, IntentRefused, ReceiptRefused, PrepareRefused,
               OverwriteRefused, Raise
      <3>. QED
        BY <3>8, <3>9, <3>10
    <2>. QED
      BY <2>1, <2>2, <2>3, <2>4
  <1>. QED
    BY <1>5, <1>6

(* A janitor that goes on, likewise.                                       *)
LEMMA SweepSensor ==
    ASSUME TypeInv, NEW j \in Janitors, SweepStep(j) \/ JanitorFault(j)
    PROVE  /\ SweepOperation /\ SensorInv' /\ UNCHANGED reportVars
           /\ TickFollows
  <1>. USE IdleFacts, SnapshotWapConstants DEF TypeInv, SensorInv
  <1>1. OngoingSweep(j)
    BY DEF SweepStep, JanitorFault, OngoingSweep
  <1>2. SweepOperation
    BY <1>1 DEF SweepOperation
  <1>3. /\ jan[j].pc # "idle"
        /\ \A k \in Janitors : k # j => jan'[k] = jan[k]
        /\ jan'[j].pc # "idle" => jan'[j].status = jan[j].status
        /\ UNCHANGED work
    BY <1>1, SweepFrame
  <1>4. UNCHANGED reportVars
    BY DEF SweepStep, JanitorFault
  <1>5. CASE j # Sensor
    <2>1. UNCHANGED tick
      BY <1>5 DEF SweepStep, JanitorFault, AfterSweep, AfterFailedSweep
    <2>. QED
      BY <1>2, <1>3, <1>4, <1>5, <2>1 DEF TickFollows
  <1>6. CASE j = Sensor
    <2>1. jan \in [Janitors -> Jan] /\ tick.pc = "sweep"
      BY <1>3, <1>6 DEF CatalogInv, CatalogTypes
    <2>2. work[Sensor].pc = "idle"
      BY <2>1
    <2>3. CASE JanitorFault(j)
      <3>1. /\ jan' = [jan EXCEPT ![j] = IdleJan]
            /\ tick' = [tick EXCEPT !.pc = "retained"]
        BY <1>3, <1>6, <2>3 DEF JanitorFault, JanitorDies, DropFails, AfterFailedSweep
      <3>. QED
        BY <1>2, <1>3, <1>4, <1>6, <2>1, <2>2, <3>1 DEF TickFollows
    <2>4. CASE SweepStep(j)
      BY <1>2, <1>3, <1>4, <1>6, <2>1, <2>2, <2>4
         DEF SweepStep, AfterSweep, TickFollows
    <2>. QED
      BY <2>3, <2>4
  <1>. QED
    BY <1>5, <1>6

(* The remaining steps that touch the catalog.                             *)
LEMMA OtherSensor ==
    ASSUME TypeInv,
           \/ CatalogStep
           \/ (\E t \in Tables : ForeignCommit(t)) /\ UNCHANGED << reportVars, tick >>
           \/ (LoseLock \/ \E r \in Runs : StageFails(r)) /\ UNCHANGED << reportVars, tick >>
           \/ \E r \in Runs, t \in Tables : Stages(r, t)
           \/ \E p \in Publishers, r \in Runs : HelperBegins(p, r)
           \/ \E j \in Janitors, r \in Runs :
                \/ CleanupSweep(j, r) \/ HelperAbort(j, r)
                \/ \E rows \in SUBSET Tables : Prune(j, r, rows)
    PROVE  /\ CatalogOperation /\ SensorInv' /\ UNCHANGED << reportVars, tick >>
  <1>. USE SnapshotWapConstants DEF TypeInv, SensorInv
  <1>1. CASE CatalogStep
    BY <1>1 DEF CatalogStep, CatalogOperation, StageOperation, StageBranch,
                StageAppend, MergeRows
  <1>2. CASE (\E t \in Tables : ForeignCommit(t)) /\ UNCHANGED << reportVars, tick >>
    BY <1>2 DEF CatalogOperation, ForeignCommit
  <1>3. CASE (LoseLock \/ \E r \in Runs : StageFails(r)) /\ UNCHANGED << reportVars, tick >>
    BY <1>3 DEF CatalogOperation, StageOperation, LoseLock, StageFails
  <1>4. CASE \E r \in Runs, t \in Tables : Stages(r, t)
    BY <1>4 DEF CatalogOperation, StageOperation, Stages, StageRevision
  <1>5. CASE \E p \in Publishers, r \in Runs : HelperBegins(p, r)
    <2>1. PICK p \in Publishers, r \in Runs : HelperBegins(p, r)
      BY <1>5
    <2>2. CallOperation
      BY <2>1 DEF HelperBegins, CallOperation, Revision
    <2>3. /\ UNCHANGED << reportVars, tick, jan >>
          /\ work'[Sensor] = work[Sensor]
      BY <2>1 DEF HelperBegins, Begin, CatalogInv, CatalogTypes
    <2>. QED
      BY <2>2, <2>3 DEF CatalogOperation
  <1>6. CASE \E j \in Janitors, r \in Runs :
                \/ CleanupSweep(j, r) \/ HelperAbort(j, r)
                \/ \E rows \in SUBSET Tables : Prune(j, r, rows)
    <2>1. PICK j \in Janitors, r \in Runs :
                \/ CleanupSweep(j, r) \/ HelperAbort(j, r)
                \/ \E rows \in SUBSET Tables : Prune(j, r, rows)
      BY <1>6
    <2>2. PICK status \in {"aborted", "pruned"}, rows \in SUBSET Tables :
            Sweep(j, r, status, rows)
      BY <2>1 DEF CleanupSweep, HelperAbort, Prune, Open
    <2>3. UNCHANGED << reportVars, tick, work >> /\ j # Sensor
      BY <2>1, <2>2 DEF CleanupSweep, CleanupDue, HelperAbort, Prune, Sweep
    <2>4. jan'[Sensor] = jan[Sensor]
      BY <2>2, <2>3 DEF Sweep, CatalogInv, CatalogTypes
    <2>. QED
      BY <2>2, <2>3, <2>4 DEF CatalogOperation, SweepOperation
  <1>. QED
    BY <1>1, <1>2, <1>3, <1>4, <1>5, <1>6

(* The sensor calls the catalog, sweeps, or dies.                          *)
LEMMA OwnSensor ==
    ASSUME TypeInv
    PROVE  /\ TickCall => CatalogOperation /\ SensorInv' /\ UNCHANGED << reportVars, tick >>
           /\ TickClean => /\ CatalogOperation \/ UNCHANGED snapVars
                           /\ SensorInv' /\ UNCHANGED reportVars
                           /\ tick.pc # "idle"
                           /\ \/ tick' = IdleTick
                              \/ tick' \in {[tick EXCEPT !.pc = "deleted"],
                                            [tick EXCEPT !.pc = "retained"],
                                            [tick EXCEPT !.pc = "sweep"]}
           /\ SensorDies => CatalogOperation /\ SensorInv' /\ tick' = IdleTick
                             /\ UNCHANGED reportVars
  <1>. USE IdleFacts, SnapshotWapConstants
       DEF TypeInv, SensorInv, CatalogInv, CatalogTypes
  <1>1. ASSUME TickCall
        PROVE  CatalogOperation /\ SensorInv' /\ UNCHANGED << reportVars, tick >>
    <2>1. tick.run \in Runs /\ tick.prior.launch \in Revision
      BY <1>1 DEF TickCall, ReportInv, Tick, Report
    <2>2. CallOperation
      BY <1>1, <2>1 DEF TickCall, CallOperation
    <2>3. work'[Sensor].run = tick.run /\ UNCHANGED jan
      BY <1>1 DEF TickCall, Begin, IdleWork
    <2>4. jan[Sensor].pc = "idle"
      BY <1>1 DEF TickCall
    <2>. QED
      BY <1>1, <2>2, <2>3, <2>4 DEF TickCall, CatalogOperation
  <1>2. ASSUME TickClean
        PROVE  /\ CatalogOperation \/ UNCHANGED snapVars
               /\ SensorInv' /\ UNCHANGED reportVars
               /\ tick.pc # "idle"
               /\ tick' \in {[tick EXCEPT !.pc = "deleted"],
                             [tick EXCEPT !.pc = "retained"],
                             [tick EXCEPT !.pc = "sweep"]}
    <2>1. tick.run \in Runs /\ tick \in Tick /\ tick.pc = "clean"
      BY <1>2 DEF TickClean, ReportInv
    <2>2. work[Sensor].pc = "idle" /\ jan[Sensor].pc = "idle"
      BY <2>1
    <2>3. CASE Sweep(Sensor, tick.run, "aborted", Open(tick.run))
      <3>1. Open(tick.run) \in SUBSET Tables
        BY DEF Open
      <3>2. CatalogOperation
        BY <2>1, <2>3, <3>1 DEF CatalogOperation, SweepOperation
      <3>3. tick' = [tick EXCEPT !.pc = "sweep"]
        BY <1>2, <2>3 DEF TickClean, Sweep
      <3>4. jan'[Sensor].status = "aborted" /\ UNCHANGED work
        BY <2>3 DEF Sweep
      <3>. QED
        BY <1>2, <2>1, <2>2, <3>2, <3>3, <3>4 DEF TickClean, Tick
    <2>4. CASE UNCHANGED snapVars
      BY <1>2, <2>1, <2>2, <2>4 DEF TickClean, snapVars
    <2>. QED
      BY <1>2, <2>3, <2>4 DEF TickClean
  <1>3. ASSUME SensorDies
        PROVE  CatalogOperation /\ SensorInv' /\ tick' = IdleTick
                  /\ UNCHANGED reportVars
    BY <1>3 DEF SensorDies, CatalogOperation, SensorLost
  <1>. QED
    BY <1>1, <1>2, <1>3

-----------------------------------------------------------------------------
(* What a step of the cleanup sensor itself leaves behind.                 *)
CleanKeeps ==
    /\ aged \subseteq aged' /\ aged' \subseteq Runs
    /\ \/ UNCHANGED cleaner
       \/ \E r \in SensorRuns :
            /\ r \in aged' /\ verdict[r] # "open"
            /\ cleaner' \in {[run |-> r, rep |-> ReadBack(r, readable)] :
                                readable \in BOOLEAN}

LEMMA WriteStepWrites ==
    ASSUME NEW readable \in BOOLEAN, WriteStep(readable)
    PROVE  WriteOperation(readable)
  <1>1. ResolvedForRun(tick.run) \in BOOLEAN
    BY DEF ResolvedForRun
  <1>. QED
    BY <1>1 DEF WriteStep, WriteOperation, LastWrite, GoingWrite

(* Every step of the specification but those of the cleanup sensor, seen   *)
(* from the catalog, the reports and the sensor.                           *)
LEMMA SystemCases ==
    ASSUME TypeInv, NormalStep \/ FaultStep \/ OutsideStep
    PROVE  /\ SensorInv'
           /\ \/ ReportOperation /\ UNCHANGED snapVars
              \/ /\ UNCHANGED reportVars
                 /\ CatalogOperation \/ UNCHANGED snapVars
                 /\ \/ TickFollows
                    \/ /\ TickClean
                       /\ tick' \in {[tick EXCEPT !.pc = "deleted"],
                                     [tick EXCEPT !.pc = "retained"],
                                     [tick EXCEPT !.pc = "sweep"]}
  <1>3. revision \in Nat /\ Revision = Nat \cup {None}
    BY DEF TypeInv, CatalogInv, CatalogTypes, Revision
  <1>4. CASE ReportOperation
    BY <1>4, ReportSensor
  <1>5. ASSUME NEW p \in Publishers, CallStep(p) \/ CallConflict(p) \/ CallFault(p)
        PROVE  CatalogOperation /\ UNCHANGED reportVars /\ TickFollows /\ SensorInv'
    BY <1>5, CallSensor DEF CatalogOperation, CallFollows
  <1>6. ASSUME NEW j \in Janitors, SweepStep(j) \/ JanitorFault(j)
        PROVE  CatalogOperation /\ UNCHANGED reportVars /\ TickFollows /\ SensorInv'
    BY <1>6, SweepSensor DEF CatalogOperation
  <1>7. CASE TickCall \/ TickClean \/ SensorDies
    BY <1>7, OwnSensor DEF TickFollows
  <1>8. CASE \/ CatalogStep
             \/ (\E t \in Tables : ForeignCommit(t)) /\ UNCHANGED << reportVars, tick >>
             \/ (LoseLock \/ \E r \in Runs : StageFails(r)) /\ UNCHANGED << reportVars, tick >>
             \/ \E r \in Runs, t \in Tables : Stages(r, t)
             \/ \E p \in Publishers, r \in Runs : HelperBegins(p, r)
             \/ \E j \in Janitors, r \in Runs :
                  \/ CleanupSweep(j, r) \/ HelperAbort(j, r)
                  \/ \E rows \in SUBSET Tables : Prune(j, r, rows)
    BY <1>8, OtherSensor DEF TickFollows
  <1>9. CASE NormalStep
    <2>1. CASE TickStep
      <3>1. ResolvedForRun(tick.run) \in BOOLEAN
        BY DEF ResolvedForRun
      <3>2. CASE TickDecide(ResolvedForRun(tick.run))
        BY <1>4, <3>1, <3>2 DEF ReportOperation
      <3>3. CASE \E r \in SensorRuns : TickRead(r, revision, TRUE)
        BY <1>3, <1>4, <3>3 DEF ReportOperation
      <3>. QED
        BY <1>4, <1>7, <2>1, <3>2, <3>3 DEF TickStep, ReportOperation
    <2>3. CASE WriteStep(TRUE)
      BY <1>4, <2>3, WriteStepWrites DEF ReportOperation
    <2>2. CASE \E r \in Runs :
                 \/ Launch(r)
                 \/ \E v \in {"approved", "rejected"} : Decide(r, v)
      BY <1>4, <2>2 DEF ReportOperation
    <2>. QED
      BY <1>5, <1>6, <1>8, <1>9, <2>1, <2>2, <2>3 DEF NormalStep
  <1>10. CASE OutsideStep
    <2>1. ASSUME NEW readable \in BOOLEAN,
                 TickGoverned(readable) \/ TickReview(readable)
          PROVE  ReportOperation
      BY <2>1 DEF ReportOperation, WriteOperation, LastWrite
    <2>. QED
      BY <1>4, <1>8, <1>10, <2>1 DEF OutsideStep
  <1>11. CASE FaultStep
    <2>1. CASE \E r \in SensorRuns :
                 TickRead(r, None, TRUE) \/ TickRead(r, revision, FALSE)
      BY <1>3, <1>4, <2>1 DEF ReportOperation
    <2>2. CASE TickDecide(FALSE)
      BY <1>4, <2>2 DEF ReportOperation
    <2>3. CASE TickRefused(FALSE, TRUE)
      BY <1>4, <2>3 DEF ReportOperation, WriteOperation, LastWrite
    <2>4. CASE WriteStep(FALSE)
      BY <1>4, <2>4, WriteStepWrites DEF ReportOperation
    <2>5. CASE \E r \in SensorRuns : TickNoted(r) \/ TickChecksFailed(r)
      BY <1>4, <2>5 DEF ReportOperation, WriteOperation, EarlyWrite
    <2>6. CASE WriteLost
      BY <1>4, <2>6 DEF ReportOperation
    <2>. QED
      BY <1>5, <1>6, <1>7, <1>8, <1>11, <2>1, <2>2, <2>3, <2>4, <2>5, <2>6
         DEF FaultStep
  <1>. QED
    BY <1>9, <1>10, <1>11

LEMMA StepCases ==
    ASSUME TypeInv, Next
    PROVE  /\ events' \in Nat /\ SensorInv'
           /\ \/ ReportOperation /\ UNCHANGED << snapVars, cleanVars >>
              \/ CleanupReplace
              \/ /\ UNCHANGED reportVars
                 /\ CleanKeeps
                 /\ CatalogOperation \/ UNCHANGED snapVars
                 /\ \/ TickFollows
                    \/ /\ TickClean
                       /\ tick' \in {[tick EXCEPT !.pc = "deleted"],
                                     [tick EXCEPT !.pc = "retained"],
                                     [tick EXCEPT !.pc = "sweep"]}
  <1>1. events' \in Nat
    BY DEF Next, TypeInv, ReportInv
  <1>2. CASE (NormalStep \/ FaultStep \/ OutsideStep) /\ UNCHANGED cleanVars
    <2>1. CleanKeeps
      BY <1>2 DEF CleanKeeps, cleanVars, TypeInv, ReportInv
    <2>. QED
      BY <1>1, <1>2, <2>1, SystemCases
  <1>3. CASE CleanupReplace
    <2>1. UNCHANGED << work, jan, tick >>
      BY <1>3 DEF CleanupReplace, snapVars
    <2>. QED
      BY <1>1, <1>3, <2>1 DEF TypeInv, SensorInv
  <1>4. ASSUME NEW j \in Janitors, NEW r \in Runs, CleanupSweep(j, r)
        PROVE  /\ CleanKeeps /\ UNCHANGED << reportVars, tick >>
               /\ CatalogOperation /\ SensorInv'
    <2>1. CleanKeeps
      BY <1>4 DEF CleanupSweep, CleanKeeps, TypeInv, ReportInv
    <2>. QED
      BY <1>4, <2>1, OtherSensor
  <1>5. ASSUME NEW j \in Janitors, NEW r \in Runs, NEW readable \in BOOLEAN,
               CleanupRead(j, r, readable)
        PROVE  /\ CleanKeeps /\ UNCHANGED << reportVars, snapVars, tick >>
               /\ SensorInv'
    <2>1. CleanKeeps
      BY <1>5 DEF CleanupRead, CleanupDue, CleanKeeps, TypeInv, ReportInv
    <2>2. UNCHANGED << work, jan >>
      BY <1>5 DEF CleanupRead, snapVars
    <2>. QED
      BY <1>5, <2>1, <2>2 DEF CleanupRead, TypeInv, SensorInv
  <1>. QED
    BY <1>1, <1>2, <1>3, <1>4, <1>5 DEF Next, CleanupStep, TickFollows

LEMMA StepType ==
    ASSUME TypeInv, [Next]_wapVars
    PROVE  TypeInv'
  <1>1. CASE UNCHANGED wapVars
    BY <1>1 DEF TypeInv, CatalogInv, CatalogTypes, CatalogBusy, ReportInv,
                SensorInv, cleanVars, wapVars
  <1>2. CASE Next
    <2>1. CASE ReportOperation /\ UNCHANGED << snapVars, cleanVars >>
      BY <1>2, <2>1, StepCases, ReportTypes, CatalogStutter
         DEF TypeInv, ReportInv, cleanVars
    <2>3. CASE CleanupReplace
      <3>1. CatalogInv'
        BY <2>3, CatalogStutter DEF CleanupReplace, TypeInv
      <3>2. rep' \in [Runs -> Report]
        BY <2>3 DEF CleanupReplace, TypeInv, ReportInv, Cleaner
      <3>3. ReportInv'
        BY <1>2, <2>3, <3>2, StepCases, IdleFacts DEF CleanupReplace, writeVars, TypeInv, ReportInv
      <3>. QED
        BY <1>2, <3>1, <3>3, StepCases DEF TypeInv
    <2>2. CASE /\ UNCHANGED reportVars
               /\ CleanKeeps
               /\ CatalogOperation \/ UNCHANGED snapVars
               /\ \/ TickFollows
                  \/ /\ TickClean
                     /\ tick' \in {[tick EXCEPT !.pc = "deleted"],
                                   [tick EXCEPT !.pc = "retained"],
                                   [tick EXCEPT !.pc = "sweep"]}
      <3>1. CatalogInv'
        BY <2>2, CatalogType, CatalogStutter DEF TypeInv
      <3>2. tick \in Tick
        BY DEF TypeInv, ReportInv
      <3>3. \A pc \in TickPc : [tick EXCEPT !.pc = pc] \in Tick
                              /\ [tick EXCEPT !.pc = pc].run = tick.run
        BY <3>2 DEF Tick
      <3>4. tick' \in Tick /\ (tick'.pc # "idle" => tick'.run \in SensorRuns)
        BY <2>2, <3>2, <3>3, IdleFacts
           DEF TypeInv, ReportInv, TickFollows, TickPc, TickClean
      <3>5. cleaner' \in Cleaner /\ aged' \subseteq Runs
        <4>1. cleaner \in Cleaner
          BY DEF TypeInv, ReportInv
        <4>2. \A r \in Runs, readable \in BOOLEAN :
                ReadBack(r, readable) \in Report
          BY ReadBackType
        <4>. QED
          BY <2>2, <4>1, <4>2, SnapshotWapConstants DEF CleanKeeps, Cleaner
      <3>. QED
        BY <1>2, <2>2, <3>1, <3>4, <3>5, StepCases DEF TypeInv, ReportInv, reportVars
    <2>. QED
      BY <1>2, <2>1, <2>2, <2>3, StepCases
  <1>. QED
    BY <1>1, <1>2

LEMMA TypeInvariance == Spec => []TypeInv
  <1>. QED
    BY InitCatalog, StepType, PTL DEF Spec

(* Every variable keeps the values SnapTypeOK lists, whatever the number of*)
(* runs, tables, publishers and janitors.                                  *)
THEOREM SnapshotTyped == Spec => []SnapTypeOK
  <1>1. TypeInv => SnapTypeOK
    BY DEF TypeInv, CatalogInv, CatalogTypes, ReportInv, SnapTypeOK
  <1>. QED
    BY <1>1, TypeInvariance, PTL
=============================================================================
