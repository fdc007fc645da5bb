--------------------------- MODULE SnapshotProofs ---------------------------
(***************************************************************************)
(* Safety of the snapshot strategy, for any number of runs, tables,        *)
(* publishers and janitors: no release removes rows from main, the pending *)
(* rows of a release are what main carries, a receipt names rows that are  *)
(* public, and the sensor's outbox and receipt fit the ledger.             *)
(*                                                                         *)
(* The last two sections show that every revision of main belongs to one   *)
(* release and that the strategy implements WapPublication.                *)
(***************************************************************************)
EXTENDS SnapshotTypeProofs, SequenceTheorems

(* Snapshots of main are numbered in the order of their commits.  A branch *)
(* that starts at the current snapshot has its rows, a candidate's         *)
(* baseline is no later than its branch, and a prepared table that has not *)
(* moved loses nothing when the candidate replaces it.                     *)
BranchRows ==
    \A r \in Runs, t \in Tables :
        ref[r][t] # NoTip =>
            /\ cand[r][t].base <= ref[r][t].base
            /\ ref[r][t].base <= main[t].snap
            /\ main[t].snap = ref[r][t].base => main[t].rows \subseteq ref[r][t].rows

StageBases ==
    \A r \in Runs :
        /\ \A t \in Tables : cand[r][t].base <= main[t].snap
        /\ stage[r].pc = "branch" =>
             /\ cand[r][stage[r].table].base <= stage[r].base
             /\ stage[r].base <= main[stage[r].table].snap
             /\ ref[r][stage[r].table] # NoTip =>
                  stage[r].base <= ref[r][stage[r].table].base

WorkBases ==
    \A p \in Publishers, t \in Tables :
        work[p].pc # "idle" => work[p].base[t] <= cand[work[p].run][t].base

EntryRows ==
    \A p \in Publishers, t \in Tables :
        LET e == work[p].entry[t] IN
        /\ e.snap <= main[t].snap
        /\ ~e.done /\ e.snap = main[t].snap => main[t].rows \subseteq e.tip.rows

RowsInv ==
    /\ \A t \in Tables : main[t].snap > 0
    /\ BranchRows
    /\ StageBases
    /\ WorkBases
    /\ EntryRows

(* Types of the parts that the numbers come from.                          *)
LEMMA Numbers ==
    ASSUME CatalogInv
    PROVE  /\ \A t \in Tables : main[t].snap \in Nat
           /\ \A r \in Runs, t \in Tables :
                ref[r][t] \in Tip /\ ref[r][t].base \in Nat /\ cand[r][t].base \in Nat
           /\ \A r \in Runs : stage[r] \in Stage /\ stage[r].base \in Nat
           /\ \A p \in Publishers : work[p] \in Work
           /\ \A p \in Publishers, t \in Tables :
                /\ work[p].base[t] \in Nat
                /\ work[p].entry[t] \in Entry
                /\ work[p].entry[t].snap \in Nat
                /\ work[p].entry[t].tip \in Tip
  <1>. USE DEF CatalogInv, CatalogTypes
  <1>1. \A t \in Tables : main[t].snap \in Nat
    BY DEF Snapshot
  <1>2. \A r \in Runs, t \in Tables :
          ref[r][t] \in Tip /\ ref[r][t].base \in Nat /\ cand[r][t].base \in Nat
    BY DEF Tip, Candidate
  <1>3. \A r \in Runs : stage[r] \in Stage /\ stage[r].base \in Nat
    BY DEF Stage
  <1>4. \A p \in Publishers : work[p] \in Work
    OBVIOUS
  <1>5. \A p \in Publishers, t \in Tables :
          work[p].base[t] \in Nat /\ work[p].entry[t] \in Entry
    BY <1>4 DEF Work
  <1>6. \A e \in Entry : e.snap \in Nat /\ e.tip \in Tip
    BY DEF Entry
  <1>. QED
    BY <1>1, <1>2, <1>3, <1>4, <1>5, <1>6

LEMMA InitRows == WapInit => RowsInv
  <1>. SUFFICES ASSUME WapInit PROVE RowsInv
    OBVIOUS
  <1>. QED
    BY IdleFacts
       DEF WapInit, SnapInit, RowsInv, BranchRows, StageBases, WorkBases,
           EntryRows, NoCand, IdleStage, IdleWork, NoEntry

(* A commit to a table of main that keeps its rows.                        *)
LEMMA CommitRows ==
    ASSUME CatalogInv, RowsInv, NEW t \in Tables, NEW rows, NEW rel, NEW tip,
           main' = [main EXCEPT ![t] = [snap |-> @.snap + 1, rows |-> rows,
                                        rel |-> rel, tip |-> tip]],
           main[t].rows \subseteq rows,
           UNCHANGED << ref, stage, cand >>,
           \A p \in Publishers :
             /\ work'[p].entry = work[p].entry
             /\ work'[p].pc # "idle" =>
                  /\ work[p].pc # "idle"
                  /\ work'[p].run = work[p].run
                  /\ work'[p].base = work[p].base
    PROVE  /\ RowsInv'
           /\ \A u \in Tables : main[u].rows \subseteq main'[u].rows
  <1>. USE Numbers
  <1>1. /\ main'[t].snap = main[t].snap + 1 /\ main'[t].rows = rows
        /\ \A u \in Tables : u # t => main'[u] = main[u]
        /\ \A u \in Tables : main'[u].snap >= main[u].snap
    BY DEF CatalogInv, CatalogTypes
  <1>2. BranchRows'
    BY <1>1 DEF RowsInv, BranchRows
  <1>3. StageBases'
    BY <1>1 DEF RowsInv, StageBases, CatalogInv, CatalogBusy
  <1>4. WorkBases'
    BY DEF RowsInv, WorkBases
  <1>5. EntryRows'
    BY <1>1 DEF RowsInv, EntryRows
  <1>. QED
    BY <1>1, <1>2, <1>3, <1>4, <1>5 DEF RowsInv

(* A step that leaves main, the branches and the baselines alone, and the  *)
(* entries and baselines of the calls as they are or idle.                 *)
LEMMA QuietRows ==
    ASSUME CatalogInv, RowsInv, UNCHANGED << main, stage >>,
           \A r \in Runs, t \in Tables :
             /\ ref'[r][t] = ref[r][t] \/ ref'[r][t] = NoTip
             /\ cand'[r][t].base = cand[r][t].base,
           \A p \in Publishers :
             \/ work'[p] = IdleWork
             \/ /\ work[p].pc # "idle" \/ work'[p].pc = "idle"
                /\ work'[p].run = work[p].run
                /\ work'[p].base \in {work[p].base, IdleWork.base}
                /\ work'[p].entry \in {work[p].entry, IdleWork.entry}
    PROVE  RowsInv'
  <1>. USE Numbers
  <1>1. BranchRows'
    BY DEF RowsInv, BranchRows
  <1>2. StageBases'
    BY DEF RowsInv, StageBases, CatalogInv, CatalogBusy
  <1>3. \A t \in Tables : IdleWork.base[t] = 0 /\ IdleWork.entry[t] = NoEntry
    BY DEF IdleWork
  <1>4. WorkBases'
    <2>. SUFFICES ASSUME NEW p \in Publishers, NEW t \in Tables,
                         work'[p].pc # "idle"
                  PROVE  work'[p].base[t] <= cand'[work'[p].run][t].base
      BY DEF WorkBases
    <2>1. /\ work[p].pc # "idle" /\ work'[p].run = work[p].run
          /\ work'[p].base \in {work[p].base, IdleWork.base}
      BY IdleFacts
    <2>2. work[p].run \in Runs
      BY <2>1 DEF CatalogInv, CatalogBusy
    <2>. QED
      BY <1>3, <2>1, <2>2 DEF RowsInv, WorkBases
  <1>5. EntryRows'
    <2>. SUFFICES ASSUME NEW p \in Publishers, NEW t \in Tables
                  PROVE  /\ work'[p].entry[t].snap <= main[t].snap
                         /\ ~work'[p].entry[t].done
                            /\ work'[p].entry[t].snap = main[t].snap
                            => main[t].rows \subseteq work'[p].entry[t].tip.rows
      BY DEF EntryRows
    <2>1. work'[p].entry[t] \in {work[p].entry[t], NoEntry}
      BY <1>3
    <2>. QED
      BY <2>1 DEF RowsInv, EntryRows, NoEntry
  <1>. QED
    BY <1>1, <1>2, <1>4, <1>5 DEF RowsInv

LEMMA StageRows ==
    ASSUME CatalogInv, RowsInv, StageOperation
    PROVE  RowsInv' /\ UNCHANGED main
  <1>. USE Numbers
  <1>1. PICK r \in Runs :
          \/ StageBranch(r) \/ StageAppend(r) \/ StageFails(r)
          \/ \E t \in Tables : StageRevision(r, t) \/ MergeRows(r, t)
    BY DEF StageOperation
  <1>2. ASSUME UNCHANGED << main, ref, cand, work >>,
               \A s \in Runs : stage'[s] = stage[s] \/ stage'[s].pc # "branch"
        PROVE  RowsInv'
    BY <1>2 DEF RowsInv, BranchRows, StageBases, WorkBases, EntryRows
  <1>3. CASE StageFails(r)
    BY <1>2, <1>3, IdleFacts DEF StageFails, CatalogInv, CatalogTypes, ledgerVars
  <1>4. ASSUME NEW t \in Tables, StageRevision(r, t)
        PROVE  RowsInv' /\ UNCHANGED main
    BY <1>2, <1>4
       DEF StageRevision, CatalogInv, CatalogTypes, ledgerVars, IdleStage
  <1>5. CASE StageBranch(r)
    <2>. DEFINE t == stage[r].table
    <2>1. t \in Tables /\ stage[r].pc = "revision"
      BY <1>5 DEF StageBranch, CatalogInv, CatalogBusy
    <2>2. /\ ref'[r][t].base = main[t].snap /\ ref'[r][t].rows = main[t].rows
          /\ \A s \in Runs, u \in Tables :
               s # r \/ u # t => ref'[s][u] = ref[s][u]
      BY <1>5, <2>1 DEF StageBranch, CatalogInv, CatalogTypes
    <2>3. /\ stage'[r].table = t /\ stage'[r].base = main[t].snap
          /\ \A s \in Runs : s # r => stage'[s] = stage[s]
      BY <1>5 DEF StageBranch, CatalogInv, CatalogTypes, Stage
    <2>4. UNCHANGED << main, cand, work >>
      BY <1>5 DEF StageBranch, ledgerVars
    <2>5. BranchRows'
      BY <2>1, <2>2, <2>4 DEF RowsInv, BranchRows, StageBases
    <2>6. StageBases'
      BY <2>1, <2>2, <2>3, <2>4
         DEF RowsInv, StageBases, CatalogInv, CatalogBusy
    <2>7. WorkBases' /\ EntryRows'
      BY <2>4 DEF RowsInv, WorkBases, EntryRows
    <2>. QED
      BY <2>4, <2>5, <2>6, <2>7 DEF RowsInv
  <1>6. CASE StageAppend(r)
    <2>. DEFINE t == stage[r].table
    <2>1. t \in Tables /\ stage[r].pc = "branch"
      BY <1>6 DEF StageAppend, CatalogInv, CatalogBusy
    <2>2. /\ cand'[r][t].base = stage[r].base
          /\ \A s \in Runs, u \in Tables :
               s # r \/ u # t => cand'[s][u] = cand[s][u]
      BY <1>6, <2>1 DEF StageAppend, CatalogInv, CatalogTypes
    <2>3. /\ stage'[r].pc = "idle"
          /\ \A s \in Runs : s # r => stage'[s] = stage[s]
      BY <1>6, IdleFacts DEF StageAppend, CatalogInv, CatalogTypes
    <2>4. UNCHANGED << main, ref, work >>
      BY <1>6 DEF StageAppend
    <2>5. cand[r][t].base <= stage[r].base /\ stage[r].base <= main[t].snap
      BY <2>1 DEF RowsInv, StageBases
    <2>6. BranchRows'
      BY <2>1, <2>2, <2>4 DEF RowsInv, BranchRows, StageBases
    <2>7. StageBases'
      BY <2>1, <2>2, <2>3, <2>4, <2>5
         DEF RowsInv, StageBases, CatalogInv, CatalogBusy
    <2>8. WorkBases'
      <3>. SUFFICES ASSUME NEW p \in Publishers, NEW u \in Tables,
                           work[p].pc # "idle"
                    PROVE  work[p].base[u] <= cand'[work[p].run][u].base
        BY <2>4 DEF WorkBases
      <3>1. /\ work[p].run \in Runs
            /\ work[p].base[u] <= cand[work[p].run][u].base
        BY DEF RowsInv, WorkBases, CatalogInv, CatalogBusy
      <3>. QED
        BY <2>1, <2>2, <2>5, <3>1
    <2>9. EntryRows'
      BY <2>4 DEF RowsInv, EntryRows
    <2>. QED
      BY <2>4, <2>6, <2>7, <2>8, <2>9 DEF RowsInv
  <1>7. ASSUME NEW t \in Tables, MergeRows(r, t)
        PROVE  RowsInv' /\ UNCHANGED main
    <2>1. /\ ref[r][t] # NoTip
          /\ ref'[r][t].base = ref[r][t].base
          /\ ref[r][t].rows \subseteq ref'[r][t].rows
          /\ \A s \in Runs, u \in Tables :
               s # r \/ u # t => ref'[s][u] = ref[s][u]
      BY <1>7 DEF MergeRows, CatalogInv, CatalogTypes, Tip
    <2>2. UNCHANGED << main, cand, stage, work >>
      BY <1>7 DEF MergeRows, ledgerVars
    <2>3. BranchRows'
      BY <2>1, <2>2 DEF RowsInv, BranchRows
    <2>4. StageBases'
      BY <2>1, <2>2 DEF RowsInv, StageBases, CatalogInv, CatalogBusy
    <2>. QED
      BY <2>2, <2>3, <2>4 DEF RowsInv, WorkBases, EntryRows
  <1>. QED
    BY <1>1, <1>3, <1>4, <1>5, <1>6, <1>7
       DEF StageBranch, StageAppend, StageFails

LEMMA SweepRows ==
    ASSUME CatalogInv, RowsInv, SweepOperation
    PROVE  RowsInv' /\ UNCHANGED main
  <1>. USE DEF ledgerVars
  <1>1. PICK j \in Janitors :
          \/ OngoingSweep(j)
          \/ \E r \in Runs, status \in {"aborted", "pruned"},
                rows \in SUBSET Tables : Sweep(j, r, status, rows)
    BY DEF SweepOperation
  <1>2. UNCHANGED << main, stage, work >>
    BY <1>1 DEF OngoingSweep, CloseCandidates, JanitorDies, DropCandidate,
                DropFails, Sweep
  <1>3. \A r \in Runs, t \in Tables :
          /\ ref'[r][t] = ref[r][t] \/ ref'[r][t] = NoTip
          /\ cand'[r][t].base = cand[r][t].base
    <2>1. CASE \E r \in Runs, status \in {"aborted", "pruned"},
                rows \in SUBSET Tables : Sweep(j, r, status, rows)
      BY <2>1 DEF Sweep
    <2>2. CASE JanitorDies(j) \/ \E t \in Tables : DropFails(j, t)
      BY <2>2 DEF JanitorDies, DropFails
    <2>3. ASSUME NEW t \in Tables, DropCandidate(j, t)
          PROVE  /\ UNCHANGED cand
                 /\ \A r \in Runs, u \in Tables :
                      ref'[r][u] = ref[r][u] \/ ref'[r][u] = NoTip
      BY <2>3 DEF DropCandidate, CatalogInv, CatalogTypes
    <2>4. CASE CloseCandidates(j)
      BY <2>4 DEF CloseCandidates, CatalogInv, CatalogTypes, Candidate
    <2>. QED
      BY <1>1, <2>1, <2>2, <2>3, <2>4 DEF OngoingSweep
  <1>. QED
    BY <1>2, <1>3, QuietRows

(* Only an overwrite changes main.                                         *)
LEMMA CallQuiet ==
    ASSUME NEW p \in Publishers, OngoingCall(p)
    PROVE  UNCHANGED main \/ \E t \in Tables : Overwrite(p, t)
  BY DEF OngoingCall, Resume, Intend, IntentRefused, Reread, Receipt,
         ReceiptRefused, CallFails, Die, Prepare, PrepareRefused, Raise,
         OverwriteRefused, DropReleased

LEMMA CallRows ==
    ASSUME CatalogInv, RowsInv, CallOperation
    PROVE  RowsInv' /\ \A t \in Tables : main[t].rows \subseteq main'[t].rows
  <1>. USE DEF ledgerVars
  <1>1. PICK p \in Publishers :
          \/ OngoingCall(p)
          \/ \E r \in Runs, expected \in Revision :
               Begin(p, r, Tables, expected)
    BY DEF CallOperation
  <1>2. work[p] \in Work /\ work \in [Publishers -> Work]
    BY DEF CatalogInv, CatalogTypes
  <1>3. ASSUME NEW r \in Runs, NEW expected \in Revision,
               Begin(p, r, Tables, expected)
        PROVE  RowsInv' /\ UNCHANGED main
    <2>1. UNCHANGED << main, ref, stage, cand >>
      BY <1>3 DEF Begin
    <2>2. /\ work'[p].run = r
          /\ work'[p].base = [t \in Tables |-> cand[r][t].base]
          /\ work'[p].entry = IdleWork.entry
          /\ \A q \in Publishers : q # p => work'[q] = work[q]
      BY <1>2, <1>3 DEF Begin, IdleWork
    <2>3. WorkBases'
      BY <2>1, <2>2, Numbers DEF RowsInv, WorkBases
    <2>4. EntryRows'
      <3>1. \A t \in Tables : IdleWork.entry[t] = NoEntry
        BY DEF IdleWork
      <3>2. \A q \in Publishers, t \in Tables :
              work'[q].entry[t] \in {work[q].entry[t], NoEntry}
        BY <2>2, <3>1
      <3>. QED
        BY <2>1, <3>2, Numbers DEF RowsInv, EntryRows, NoEntry
    <2>. QED
      BY <2>1, <2>3, <2>4 DEF RowsInv, BranchRows, StageBases
  <1>4. CASE \/ IntentRefused(p) \/ ReceiptRefused(p) \/ CallFails(p) \/ Die(p)
             \/ \E t \in Tables : PrepareRefused(p, t) \/ OverwriteRefused(p, t)
    <2>1. UNCHANGED << main, ref, stage, cand >> /\ work' = [work EXCEPT ![p] = IdleWork]
      BY <1>4 DEF IntentRefused, ReceiptRefused, CallFails, Die, PrepareRefused,
                  OverwriteRefused, Raise
    <2>. QED
      BY <1>2, <2>1, QuietRows
  <1>5. CASE Resume(p) \/ Reread(p)
    <2>1. UNCHANGED << main, ref, stage, cand >> /\ StartWriting(p)
      BY <1>5 DEF Resume, Reread
    <2>2. work[p].pc # "idle"
      BY <1>5 DEF Resume, Reread
    <2>3. \A q \in Publishers :
            /\ work[q].pc # "idle" \/ work'[q].pc = "idle"
            /\ work'[q].run = work[q].run
            /\ work'[q].base \in {work[q].base, IdleWork.base}
            /\ work'[q].entry = work[q].entry
      BY <1>2, <2>1, <2>2 DEF StartWriting, Work
    <2>. QED
      BY <2>1, <2>3, QuietRows
  <1>6. CASE Intend(p) \/ Receipt(p)
    <2>1. UNCHANGED << main, ref, stage, cand >>
      BY <1>6 DEF Intend, Receipt
    <2>2. \A q \in Publishers :
            /\ work[q].pc # "idle" \/ work'[q].pc = "idle"
            /\ work'[q].run = work[q].run
            /\ work'[q].base = work[q].base
            /\ work'[q].entry \in {work[q].entry, IdleWork.entry}
      <3>1. CASE Intend(p)
        BY <1>2, <3>1 DEF Intend, Work
      <3>2. CASE Receipt(p)
        <4>1. work' = [work EXCEPT ![p] = [@ EXCEPT !.pc = "drop",
                                                    !.todo = work[p].tables,
                                                    !.entry = IdleWork.entry]]
          BY <3>2 DEF Receipt
        <4>2. work[p].pc # "idle"
          BY <3>2 DEF Receipt
        <4>. QED
          BY <1>2, <4>1, <4>2 DEF Work
      <3>. QED
        BY <1>6, <3>1, <3>2
    <2>. QED
      BY <2>1, <2>2, QuietRows
  <1>7. ASSUME NEW t \in Tables, NEW dropped \in BOOLEAN,
               DropReleased(p, t, dropped)
        PROVE  RowsInv' /\ UNCHANGED main
    <2>1. UNCHANGED << main, stage, cand >>
      BY <1>7 DEF DropReleased
    <2>2. \A r \in Runs, u \in Tables : ref'[r][u] = ref[r][u] \/ ref'[r][u] = NoTip
      BY <1>7 DEF DropReleased, CatalogInv, CatalogTypes
    <2>3. \A q \in Publishers :
            \/ work'[q] = IdleWork
            \/ /\ work[q].pc # "idle" \/ work'[q].pc = "idle"
               /\ work'[q].run = work[q].run
               /\ work'[q].base = work[q].base
               /\ work'[q].entry = work[q].entry
      BY <1>2, <1>7 DEF DropReleased, Work
    <2>. QED
      BY <2>1, <2>2, <2>3, QuietRows
  <1>8. ASSUME NEW t \in Tables, Prepare(p, t) PROVE RowsInv' /\ UNCHANGED main
    <2>. DEFINE r == work[p].run
                e == [tip |-> ref[r][t], snap |-> main[t].snap,
                      done |-> Carries(t, r, ref[r][t])]
    <2>1. UNCHANGED << main, ref, stage, cand >>
      BY <1>8 DEF Prepare
    <2>2. r \in Runs /\ work[p].pc # "idle" /\ ref[r][t] # NoTip
      BY <1>8 DEF Prepare, Preparable, CatalogInv, CatalogBusy
    <2>3. /\ work'[p].run = r /\ work'[p].base = work[p].base
          /\ work'[p].entry = [work[p].entry EXCEPT ![t] = e]
          /\ \A q \in Publishers : q # p => work'[q] = work[q]
      BY <1>2, <1>8 DEF Prepare, Work
    <2>4. ~e.done => main[t].rows \subseteq e.tip.rows
      <3>1. SUFFICES ASSUME ~Carries(t, r, ref[r][t])
                     PROVE  main[t].rows \subseteq ref[r][t].rows
        OBVIOUS
      <3>2. main[t].snap = work[p].base[t]
        BY <1>8, <3>1 DEF Prepare, Preparable
      <3>3. work[p].base[t] <= cand[r][t].base
        BY <2>2 DEF RowsInv, WorkBases
      <3>4. /\ cand[r][t].base <= ref[r][t].base /\ ref[r][t].base <= main[t].snap
            /\ main[t].snap = ref[r][t].base => main[t].rows \subseteq ref[r][t].rows
        BY <2>2 DEF RowsInv, BranchRows
      <3>. QED
        BY <2>2, <3>2, <3>3, <3>4, Numbers
    <2>5. WorkBases'
      BY <2>1, <2>2, <2>3 DEF RowsInv, WorkBases
    <2>6. EntryRows'
      <3>. SUFFICES ASSUME NEW q \in Publishers, NEW u \in Tables
                    PROVE  /\ work'[q].entry[u].snap <= main[u].snap
                           /\ ~work'[q].entry[u].done
                              /\ work'[q].entry[u].snap = main[u].snap
                              => main[u].rows \subseteq work'[q].entry[u].tip.rows
        BY <2>1 DEF EntryRows
      <3>1. CASE q = p /\ u = t
        <4>1. work'[q].entry[u] = e
          BY <1>2, <2>3, <3>1 DEF Work
        <4>. QED
          BY <2>4, <3>1, <4>1, Numbers
      <3>2. CASE ~(q = p /\ u = t)
        <4>1. work'[q].entry[u] = work[q].entry[u]
          BY <1>2, <2>3, <3>2 DEF Work
        <4>. QED
          BY <4>1 DEF RowsInv, EntryRows
      <3>. QED
        BY <3>1, <3>2
    <2>. QED
      BY <2>1, <2>5, <2>6 DEF RowsInv, BranchRows, StageBases
  <1>9. ASSUME NEW t \in Tables, Overwrite(p, t)
        PROVE  RowsInv' /\ \A u \in Tables : main[u].rows \subseteq main'[u].rows
    <2>. DEFINE e == work[p].entry[t]
    <2>1. UNCHANGED << ref, stage, cand >>
      BY <1>9 DEF Overwrite
    <2>2. \A q \in Publishers :
            /\ work[q].pc # "idle" \/ work'[q].pc = "idle"
            /\ work'[q].run = work[q].run
            /\ work'[q].base = work[q].base
            /\ work'[q].entry = work[q].entry
      BY <1>2, <1>9 DEF Overwrite, Work
    <2>3. CASE e.done
      <3>1. UNCHANGED main
        BY <1>9, <2>3 DEF Overwrite
      <3>. QED
        BY <2>1, <2>2, <3>1, QuietRows
    <2>4. CASE ~e.done
      <3>1. /\ main[t].snap = e.snap
            /\ main' = [main EXCEPT ![t] = [snap |-> @.snap + 1,
                                            rows |-> e.tip.rows,
                                            rel  |-> work[p].run,
                                            tip  |-> e.tip]]
        BY <1>9, <2>4 DEF Overwrite
      <3>2. main[t].rows \subseteq e.tip.rows
        BY <2>4, <3>1 DEF RowsInv, EntryRows
      <3>. QED
        BY <2>1, <2>2, <3>1, <3>2, CommitRows
    <2>. QED
      BY <2>3, <2>4
  <1>. QED
    BY <1>1, <1>3, <1>4, <1>5, <1>6, <1>7, <1>8, <1>9, CallQuiet DEF OngoingCall

LEMMA CatalogRows ==
    ASSUME CatalogInv, RowsInv, CatalogOperation
    PROVE  RowsInv' /\ \A t \in Tables : main[t].rows \subseteq main'[t].rows
  <1>1. ASSUME NEW t \in Tables, ForeignCommit(t)
        PROVE  RowsInv' /\ \A u \in Tables : main[u].rows \subseteq main'[u].rows
    BY <1>1, CommitRows DEF ForeignCommit, ledgerVars
  <1>2. CASE LoseLock \/ SensorLost
    <2>1. UNCHANGED << main, ref, stage, cand >>
      BY <1>2 DEF LoseLock, SensorLost, ledgerVars
    <2>2. \A p \in Publishers : work'[p] \in {work[p], IdleWork}
      BY <1>2 DEF LoseLock, SensorLost, CatalogInv, CatalogTypes
    <2>. QED
      BY <2>1, <2>2, QuietRows
  <1>. QED
    BY <1>1, <1>2, StageRows, CallRows, SweepRows DEF CatalogOperation

LEMMA StepRows ==
    ASSUME TypeInv, RowsInv, [Next]_wapVars
    PROVE  RowsInv' /\ \A t \in Tables : main[t].rows \subseteq main'[t].rows
  <1>1. UNCHANGED snapVars => RowsInv'
    BY DEF RowsInv, BranchRows, StageBases, WorkBases, EntryRows, snapVars
  <1>2. CatalogOperation \/ UNCHANGED snapVars
    BY StepCases DEF CleanupReplace, wapVars, snapVars
  <1>. QED
    BY <1>1, <1>2, CatalogRows DEF snapVars, TypeInv

LEMMA RowsInvariance == Spec => [](TypeInv /\ RowsInv)
  <1>. QED
    BY InitCatalog, InitRows, StepType, StepRows, PTL DEF Spec

(* Main is pinned when a table is opened and again when it is overwritten: *)
(* no step ever removes rows from a table of main, whoever wrote them, and *)
(* however many publishers, sweeps and lost locks interleave.              *)
THEOREM MainKeepsItsRows == Spec => RowsNeverLost
  <1>1. TypeInv /\ RowsInv /\ [Next]_wapVars
          => [\A t \in Tables : main[t].rows \subseteq main'[t].rows]_wapVars
    BY StepRows
  <1>. QED
    BY <1>1, RowsInvariance, PTL DEF Spec, RowsNeverLost

-----------------------------------------------------------------------------
(* Ownership.  A call whose ledger version is still the latest one found no*)
(* pending promotion and no release of its run, and nothing of the kind was*)
(* appended since: its own pending rows will be the only ones.  From then  *)
(* on they cannot change, and they are what the call overwrites main with. *)
FreshCall(p) ==
    /\ p \in current
    /\ work[p].pc \in {"prepare", "intent"}
    /\ ~work[p].resumed

FreshInv(p) ==
    FreshCall(p) => Pending = {} /\ ~Released(work[p].run)

EntryInv(p) ==
    work[p].pc # "idle" =>
        /\ work[p].tables # {}
        /\ work[p].todo \subseteq work[p].tables
        /\ \A t \in Tables \ work[p].tables : work[p].entry[t].tip = NoTip
        /\ work[p].pc \in {"prepare", "intent"} =>
             \A t \in work[p].tables \ work[p].todo : work[p].entry[t].tip # NoTip
        /\ work[p].pc \in {"intent", "receipt"} => work[p].todo = {}
        /\ work[p].pc \in {"reread", "write", "receipt"} =>
             /\ Intended(work[p].run) = work[p].tables
             /\ \A t \in Tables : work[p].entry[t].tip = intent[work[p].run][t]
        /\ work[p].pc \in {"write", "receipt"} =>
             \A t \in work[p].tables \ work[p].todo :
                 intent[work[p].run][t].rows \subseteq main[t].rows

DoneInv(p) ==
    \A t \in Tables :
        work[p].entry[t].done => work[p].entry[t].tip.rows \subseteq main[t].rows

MainInv ==
    \A t \in Tables : main[t].rel # None =>
        /\ main[t].tip # NoTip
        /\ intent[main[t].rel][t] = main[t].tip
        /\ main[t].tip.rows \subseteq main[t].rows

ReleaseInv ==
    \A x \in releases :
        /\ x.tables # {}
        /\ x.tables = Intended(x.run)
        /\ \A t \in x.tables : intent[x.run][t].rows \subseteq main[t].rows

OwnInv ==
    /\ \A r, s \in Pending : r = s
    /\ \A p \in Publishers : FreshInv(p) /\ EntryInv(p) /\ DoneInv(p)
    /\ MainInv
    /\ ReleaseInv

LEMMA InitOwn == WapInit => OwnInv
  <1>. SUFFICES ASSUME WapInit PROVE OwnInv
    OBVIOUS
  <1>. USE IdleFacts DEF WapInit, SnapInit
  <1>1. Pending = {} /\ releases = {}
    BY DEF Pending, Intended
  <1>2. \A p \in Publishers : FreshInv(p) /\ EntryInv(p)
    BY DEF FreshInv, FreshCall, EntryInv
  <1>3. \A p \in Publishers : DoneInv(p)
    BY DEF DoneInv, IdleWork, NoEntry
  <1>. QED
    BY <1>1, <1>2, <1>3 DEF OwnInv, MainInv, ReleaseInv

(* A step of p that leaves the pending rows, the releases and main alone,  *)
(* except that a writer of main may have appended to a table.              *)
LEMMA PartialOwn ==
    ASSUME CatalogInv, OwnInv, UNCHANGED << intent, releases >>,
           NEW p,
           \A t \in Tables : main[t].rows \subseteq main'[t].rows,
           \A q \in Publishers : q # p => work'[q] \in {work[q], IdleWork},
           current' \subseteq current \cup {p},
           p \in Publishers => FreshInv(p)' /\ EntryInv(p)' /\ DoneInv(p)',
           MainInv'
    PROVE  OwnInv'
  <1>1. Pending' = Pending /\ \A r \in Runs : Intended(r)' = Intended(r)
    BY DEF Pending, Intended, Released
  <1>2. ASSUME NEW q \in Publishers, q # p
        PROVE  FreshInv(q)' /\ EntryInv(q)' /\ DoneInv(q)'
    <2>1. CASE work'[q] = IdleWork
      BY <2>1, IdleFacts DEF FreshInv, FreshCall, EntryInv, DoneInv, IdleWork, NoEntry
    <2>2. CASE work'[q] = work[q]
      <3>1. FreshInv(q)'
        BY <1>1, <1>2, <2>2 DEF OwnInv, FreshInv, FreshCall, Released
      <3>2. EntryInv(q)'
        <4>1. work[q].pc # "idle" => work[q].run \in Runs /\ work[q].tables \subseteq Tables
          BY DEF CatalogInv, CatalogBusy, CatalogTypes, Work
        <4>. QED
          BY <1>1, <1>2, <2>2, <4>1 DEF OwnInv, EntryInv
      <3>3. DoneInv(q)'
        BY <2>2 DEF OwnInv, DoneInv
      <3>. QED
        BY <3>1, <3>2, <3>3
    <2>. QED
      BY <1>2, <2>1, <2>2
  <1>3. ReleaseInv'
    <2>. SUFFICES ASSUME NEW x \in releases
                  PROVE  /\ x.tables # {}
                         /\ x.tables = Intended(x.run)'
                         /\ \A t \in x.tables : intent[x.run][t].rows \subseteq main'[t].rows
      BY DEF ReleaseInv
    <2>1. x.run \in Runs /\ x.tables \subseteq Tables
      BY DEF CatalogInv, CatalogTypes, Release
    <2>. QED
      BY <1>1, <2>1 DEF OwnInv, ReleaseInv
  <1>. QED
    BY <1>1, <1>2, <1>3 DEF OwnInv

(* What stays of main when nobody overwrites it.                           *)
LEMMA SameMain ==
    ASSUME OwnInv, UNCHANGED << intent, main >>
    PROVE  MainInv' /\ \A t \in Tables : main[t].rows \subseteq main'[t].rows
  BY DEF OwnInv, MainInv

LEMMA OutsideOwn ==
    ASSUME CatalogInv, OwnInv,
           \/ \E t \in Tables : ForeignCommit(t)
           \/ StageOperation \/ LoseLock \/ SweepOperation \/ SensorLost
    PROVE  OwnInv'
  <1>. USE DEF ledgerVars
  <1>1. UNCHANGED << intent, releases >>
    BY DEF ForeignCommit, StageOperation, StageRevision, StageBranch, StageAppend,
           StageFails, MergeRows, LoseLock, SweepOperation, OngoingSweep, Sweep,
           CloseCandidates, JanitorDies, DropCandidate, DropFails, SensorLost
  <1>2. current' \subseteq current
    BY DEF ForeignCommit, StageOperation, StageRevision, StageBranch, StageAppend,
           StageFails, MergeRows, LoseLock, SweepOperation, OngoingSweep, Sweep,
           CloseCandidates, JanitorDies, DropCandidate, DropFails, SensorLost
  <1>3. \A q \in Publishers : work'[q] \in {work[q], IdleWork}
    <2>1. UNCHANGED work \/ SensorLost
      BY DEF ForeignCommit, StageOperation, StageRevision, StageBranch, StageAppend,
             StageFails, MergeRows, LoseLock, SweepOperation, OngoingSweep, Sweep,
             CloseCandidates, JanitorDies, DropCandidate, DropFails
    <2>. QED
      BY <2>1 DEF SensorLost, CatalogInv, CatalogTypes
  <1>4. MainInv' /\ \A t \in Tables : main[t].rows \subseteq main'[t].rows
    <2>1. ASSUME NEW t \in Tables, ForeignCommit(t)
          PROVE  MainInv' /\ \A u \in Tables : main[u].rows \subseteq main'[u].rows
      BY <1>1, <2>1 DEF ForeignCommit, CatalogInv, CatalogTypes, OwnInv, MainInv
    <2>2. CASE UNCHANGED main
      BY <1>1, <2>2, SameMain
    <2>3. UNCHANGED main \/ \E t \in Tables : ForeignCommit(t)
      BY DEF StageOperation, StageRevision, StageBranch, StageAppend, StageFails,
             MergeRows, LoseLock, SweepOperation, OngoingSweep, Sweep,
             CloseCandidates, JanitorDies, DropCandidate, DropFails, SensorLost
    <2>. QED
      BY <2>1, <2>2, <2>3
  <1>5. PICK p : p \notin Publishers
    BY SnapshotConstants
  <1>. QED
    BY <1>1, <1>2, <1>3, <1>4, <1>5, PartialOwn

(* A call begins with the ledger as it has just been read.                 *)
LEMMA BeginOwn ==
    ASSUME CatalogInv, OwnInv, NEW p \in Publishers, NEW r \in Runs,
           NEW expected \in Revision, Begin(p, r, Tables, expected)
    PROVE  OwnInv'
  <1>. DEFINE sel == Selected(r, Tables)
  <1>1. /\ UNCHANGED << main, intent, releases >>
        /\ current' = current \cup {p}
        /\ ~Refused(r, Tables, expected) /\ ~AlreadyReleased(r, Tables) /\ sel # {}
    BY DEF Begin, ledgerVars, Promotable
  <1>2. /\ work'[p].run = r /\ work'[p].tables = sel /\ work'[p].todo = sel
        /\ work'[p].pc = "prepare" /\ work'[p].resumed = (r \in Pending)
        /\ work'[p].entry = IdleWork.entry
        /\ \A q \in Publishers : q # p => work'[q] = work[q]
    BY DEF Begin, IdleWork, CatalogInv, CatalogTypes
  <1>3. ~Released(r)
    <2>1. ASSUME NEW x \in releases, x.run = r PROVE FALSE
      <3>1. x.tables \subseteq Tables /\ x.tables # {}
        BY DEF CatalogInv, CatalogTypes, Release, OwnInv, ReleaseInv
      <3>. QED
        BY <1>1, <2>1, <3>1 DEF AlreadyReleased
    <2>. QED
      BY <2>1 DEF Released
  <1>4. Pending \ {r} = {}
    BY <1>1 DEF Refused
  <1>5. FreshInv(p)'
    <2>1. ~work'[p].resumed => Pending = {}
      BY <1>2, <1>4
    <2>2. Pending' = Pending /\ ~Released(r)'
      BY <1>1, <1>3 DEF Pending, Intended, Released
    <2>. QED
      BY <1>2, <2>1, <2>2 DEF FreshInv, FreshCall
  <1>6. \A t \in Tables : work'[p].entry[t] = NoEntry
    BY <1>2 DEF IdleWork
  <1>7. EntryInv(p)' /\ DoneInv(p)'
    BY <1>1, <1>2, <1>6 DEF EntryInv, DoneInv, NoEntry
  <1>. QED
    BY <1>1, <1>2, <1>5, <1>7, SameMain, PartialOwn

(* A call raises, or goes on without a commit of its own.                  *)
LEMMA QuietCallOwn ==
    ASSUME CatalogInv, OwnInv, NEW p \in Publishers,
           \/ Resume(p) \/ Reread(p) \/ Die(p) \/ Raise(p)
           \/ \E t \in Tables :
                \/ Prepare(p, t)
                \/ \E dropped \in BOOLEAN : DropReleased(p, t, dropped)
    PROVE  OwnInv'
  <1>. USE DEF ledgerVars
  <1>1. work[p] \in Work /\ work \in [Publishers -> Work]
    BY DEF CatalogInv, CatalogTypes
  <1>2. /\ UNCHANGED << main, intent, releases >>
        /\ current' \subseteq current \cup {p}
        /\ \A q \in Publishers : q # p => work'[q] = work[q]
    BY <1>1 DEF Resume, Reread, StartWriting, Die, Raise, Prepare, DropReleased
  <1>3. Pending' = Pending /\ \A r : Intended(r)' = Intended(r) /\ Released(r)' = Released(r)
    BY <1>2 DEF Pending, Intended, Released
  <1>4. FreshInv(p) /\ EntryInv(p) /\ DoneInv(p)
    BY DEF OwnInv
  <1>5. ASSUME work'[p] = IdleWork
        PROVE  FreshInv(p)' /\ EntryInv(p)' /\ DoneInv(p)'
    BY <1>5, IdleFacts DEF FreshInv, FreshCall, EntryInv, DoneInv, IdleWork, NoEntry
  <1>6. ASSUME Resume(p) \/ Reread(p)
        PROVE  FreshInv(p)' /\ EntryInv(p)' /\ DoneInv(p)'
    <2>1. /\ work'[p].pc = "write" /\ work'[p].run = work[p].run
          /\ work'[p].tables = work[p].tables /\ work'[p].todo = work[p].tables
          /\ work'[p].entry = work[p].entry
      BY <1>1, <1>6 DEF Resume, Reread, StartWriting, Work
    <2>2. FreshInv(p)' /\ DoneInv(p)'
      BY <1>2, <1>4, <2>1 DEF FreshInv, FreshCall, DoneInv
    <2>3. /\ Intended(work[p].run) = work[p].tables
          /\ \A t \in Tables : work[p].entry[t].tip = intent[work[p].run][t]
      <3>1. CASE Resume(p)
        BY <1>4, <3>1 DEF Resume, SameAsIntended, EntryInv, Intended
      <3>2. CASE Reread(p)
        BY <1>4, <3>2 DEF Reread, EntryInv
      <3>. QED
        BY <1>6, <3>1, <3>2
    <2>4. work[p].tables # {} /\ \A t \in Tables \ work[p].tables : work[p].entry[t].tip = NoTip
      BY <1>4, <1>6 DEF Resume, Reread, EntryInv
    <2>5. EntryInv(p)'
      BY <1>2, <1>3, <2>1, <2>3, <2>4 DEF EntryInv
    <2>. QED
      BY <2>2, <2>5
  <1>7. ASSUME NEW t \in Tables, Prepare(p, t)
        PROVE  FreshInv(p)' /\ EntryInv(p)' /\ DoneInv(p)'
    <2>. DEFINE e == [tip |-> ref[work[p].run][t], snap |-> main[t].snap,
                      done |-> Carries(t, work[p].run, ref[work[p].run][t])]
    <2>1. /\ work'[p].run = work[p].run /\ work'[p].tables = work[p].tables
          /\ work'[p].todo = work[p].todo \ {t}
          /\ work'[p].resumed = work[p].resumed
          /\ work'[p].entry = [work[p].entry EXCEPT ![t] = e]
          /\ work[p].pc = "prepare" /\ t \in work[p].todo
          /\ work'[p].pc = IF work[p].todo \ {t} = {} THEN "intent" ELSE "prepare"
          /\ e.tip # NoTip
          /\ UNCHANGED current
      BY <1>1, <1>7 DEF Prepare, Preparable, Work
    <2>2. /\ work'[p].entry[t] = e
          /\ \A u \in Tables : u # t => work'[p].entry[u] = work[p].entry[u]
      BY <1>1, <2>1 DEF Work
    <2>3. FreshInv(p)'
      BY <1>3, <1>4, <2>1 DEF FreshInv, FreshCall
    <2>4. EntryInv(p)'
      BY <1>4, <2>1, <2>2 DEF EntryInv
    <2>5. e.done => e.tip.rows \subseteq main[t].rows
      <3>1. work[p].run # None
        BY <2>1, SnapshotConstants DEF CatalogInv, CatalogBusy
      <3>. QED
        BY <3>1 DEF Carries, OwnInv, MainInv
    <2>6. DoneInv(p)'
      BY <1>2, <1>4, <2>2, <2>5 DEF DoneInv
    <2>. QED
      BY <2>3, <2>4, <2>6
  <1>8. ASSUME NEW t \in Tables, NEW dropped \in BOOLEAN,
               DropReleased(p, t, dropped), work'[p] # IdleWork
        PROVE  FreshInv(p)' /\ EntryInv(p)' /\ DoneInv(p)'
    <2>1. /\ work'[p].run = work[p].run /\ work'[p].tables = work[p].tables
          /\ work'[p].todo \subseteq work[p].todo
          /\ work'[p].entry = work[p].entry
          /\ work[p].pc = "drop" /\ work'[p].pc = "drop"
      BY <1>1, <1>8 DEF DropReleased, Work
    <2>. QED
      BY <1>2, <1>4, <2>1 DEF FreshInv, FreshCall, EntryInv, DoneInv
  <1>9. Die(p) \/ Raise(p) => work'[p] = IdleWork
    BY <1>1 DEF Die, Raise
  <1>10. FreshInv(p)' /\ EntryInv(p)' /\ DoneInv(p)'
    BY <1>5, <1>6, <1>7, <1>8, <1>9
  <1>. QED
    BY <1>2, <1>10, SameMain, PartialOwn

(* The pending rows: nobody else has any, so the run's are new.            *)
LEMMA IntendOwn ==
    ASSUME CatalogInv, OwnInv, NEW p \in Publishers, Intend(p)
    PROVE  OwnInv'
  <1>0. PICK r \in Runs : r = work[p].run
    BY DEF Intend, CatalogInv, CatalogBusy
  <1>1. work[p] \in Work /\ work \in [Publishers -> Work]
    BY DEF CatalogInv, CatalogTypes
  <1>2. /\ Pending = {} /\ ~Released(r) /\ Intended(r) = {}
    <2>1. Pending = {} /\ ~Released(r)
      BY <1>0 DEF Intend, OwnInv, FreshInv, FreshCall
    <2>. QED
      BY <1>1, <2>1 DEF Pending
  <1>3. /\ \A t \in Tables : intent'[r][t] = work[p].entry[t].tip
        /\ \A s \in Runs : s # r => intent'[s] = intent[s]
    BY <1>0, <1>1 DEF Intend, CatalogInv, CatalogTypes
  <1>4. /\ UNCHANGED << main, releases >> /\ current' = {}
        /\ work'[p].pc = "reread" /\ work'[p].run = r
        /\ work'[p].tables = work[p].tables /\ work'[p].todo = work[p].todo
        /\ work'[p].entry = work[p].entry
        /\ work[p].pc = "intent"
        /\ \A q \in Publishers : q # p => work'[q] = work[q]
    BY <1>0, <1>1 DEF Intend, Work
  <1>5. /\ work[p].tables # {} /\ work[p].todo = {} /\ work[p].tables \subseteq Tables
        /\ \A t \in Tables : work[p].entry[t].tip # NoTip <=> t \in work[p].tables
    BY <1>1, <1>4 DEF OwnInv, EntryInv, Work
  <1>6. /\ Intended(r)' = work[p].tables
        /\ \A s \in Runs : s # r => Intended(s)' = Intended(s)
    BY <1>3, <1>5 DEF Intended
  <1>7. Pending' = {r}
    BY <1>1, <1>2, <1>4, <1>5, <1>6 DEF Pending, Released
  <1>8. \A q \in Publishers : FreshInv(q)'
    BY <1>4 DEF FreshInv, FreshCall
  <1>9. EntryInv(p)' /\ DoneInv(p)'
    BY <1>3, <1>4, <1>5, <1>6 DEF OwnInv, EntryInv, DoneInv
  <1>10. ASSUME NEW q \in Publishers, q # p PROVE EntryInv(q)' /\ DoneInv(q)'
    <2>1. /\ work'[q] = work[q] /\ EntryInv(q) /\ DoneInv(q)
          /\ work[q].pc # "idle" => work[q].run \in Runs /\ work[q].tables \subseteq Tables
      BY <1>4, <1>10 DEF OwnInv, CatalogInv, CatalogBusy, CatalogTypes, Work
    <2>2. DoneInv(q)'
      BY <1>4, <2>1 DEF DoneInv
    <2>3. CASE work[q].run # r \/ work[q].pc = "idle"
      <3>1. CASE work[q].pc = "idle"
        BY <2>1, <2>2, <3>1 DEF EntryInv
      <3>2. ASSUME NEW s \in Runs, s = work[q].run, s # r PROVE EntryInv(q)'
        <4>1. s = work'[q].run /\ intent'[s] = intent[s] /\ Intended(s)' = Intended(s)
          BY <1>3, <1>6, <2>1, <3>2
        <4>. QED
          BY <1>4, <2>1, <3>2, <4>1 DEF EntryInv
      <3>. QED
        BY <2>1, <2>2, <2>3, <3>1, <3>2
    <2>4. CASE work[q].run = r /\ work[q].pc # "idle"
      <3>1. work[q].pc \notin {"reread", "write", "receipt"}
        BY <1>2, <2>1, <2>4 DEF EntryInv
      <3>. QED
        BY <1>4, <2>1, <2>2, <2>4, <3>1 DEF EntryInv
    <2>. QED
      BY <2>2, <2>3, <2>4
  <1>11. MainInv'
    <2>1. ASSUME NEW t \in Tables, main[t].rel # None
          PROVE  main[t].rel \in Runs /\ main[t].rel # r
      <3>1. main[t].rel \in Runs
        BY <2>1 DEF CatalogInv, CatalogTypes, Snapshot
      <3>. QED
        BY <1>2, <2>1, <3>1 DEF OwnInv, MainInv, Intended
    <2>. QED
      BY <1>3, <1>4, <2>1 DEF OwnInv, MainInv
  <1>12. ReleaseInv'
    <2>1. \A x \in releases : x.run \in Runs /\ x.run # r
      BY <1>2 DEF Released, CatalogInv, CatalogTypes, Release
    <2>. QED
      BY <1>3, <1>4, <1>6, <2>1 DEF OwnInv, ReleaseInv
  <1>. QED
    BY <1>7, <1>8, <1>9, <1>10, <1>11, <1>12 DEF OwnInv

(* A table is overwritten with the tip of the pending rows.                *)
LEMMA OverwriteOwn ==
    ASSUME CatalogInv, RowsInv, OwnInv, NEW p \in Publishers, NEW t \in Tables,
           Overwrite(p, t)
    PROVE  OwnInv'
  <1>. DEFINE e == work[p].entry[t]
  <1>0. PICK r \in Runs : r = work[p].run
    BY DEF Overwrite, CatalogInv, CatalogBusy
  <1>1. work[p] \in Work /\ work \in [Publishers -> Work]
    BY DEF CatalogInv, CatalogTypes
  <1>2. /\ UNCHANGED << intent, releases, current >>
        /\ work[p].pc = "write" /\ t \in work[p].todo
        /\ work'[p].run = r /\ work'[p].tables = work[p].tables
        /\ work'[p].todo = work[p].todo \ {t}
        /\ work'[p].entry = work[p].entry
        /\ work'[p].pc = IF work[p].todo \ {t} = {} THEN "receipt" ELSE "write"
        /\ \A q \in Publishers : q # p => work'[q] = work[q]
    BY <1>0, <1>1 DEF Overwrite, Work, ledgerVars
  <1>3. \A u \in Tables : main[u].rows \subseteq main'[u].rows
    <2>1. CallOperation
      BY DEF CallOperation, OngoingCall
    <2>. QED
      BY <2>1, CallRows
  <1>4. EntryInv(p) /\ DoneInv(p)
    BY DEF OwnInv
  <1>5. /\ e.tip = intent[r][t] /\ t \in Intended(r) /\ e.tip # NoTip
        /\ Intended(r) = work[p].tables
    BY <1>0, <1>2, <1>4 DEF EntryInv, Intended
  <1>6. e.tip.rows \subseteq main'[t].rows
    <2>1. CASE e.done
      BY <1>3, <1>4, <2>1 DEF DoneInv
    <2>2. CASE ~e.done
      BY <2>2 DEF Overwrite, CatalogInv, CatalogTypes
    <2>. QED
      BY <2>1, <2>2
  <1>7. MainInv'
    <2>1. CASE UNCHANGED main
      BY <1>2, <2>1, SameMain
    <2>2. CASE main' = [main EXCEPT ![t] = [snap |-> @.snap + 1,
                                            rows |-> e.tip.rows,
                                            rel  |-> work[p].run,
                                            tip  |-> e.tip]]
      <3>1. /\ main'[t].rel = r /\ main'[t].tip = e.tip /\ main'[t].rows = e.tip.rows
            /\ \A u \in Tables : u # t => main'[u] = main[u]
        BY <1>0, <2>2 DEF CatalogInv, CatalogTypes
      <3>. QED
        BY <1>2, <1>5, <3>1 DEF OwnInv, MainInv
    <2>. QED
      BY <2>1, <2>2 DEF Overwrite
  <1>8. Intended(r)' = Intended(r)
    BY <1>2 DEF Intended
  <1>9. EntryInv(p)'
    <2>1. \A u \in work[p].tables \ (work[p].todo \ {t}) :
            intent[r][u].rows \subseteq main'[u].rows
      <3>1. work[p].tables \subseteq Tables
        BY <1>1 DEF Work
      <3>. QED
        BY <1>0, <1>2, <1>3, <1>4, <1>5, <1>6, <3>1 DEF EntryInv
    <2>. QED
      BY <1>0, <1>2, <1>4, <1>8, <2>1 DEF EntryInv
  <1>10. FreshInv(p)' /\ DoneInv(p)'
    BY <1>2, <1>3, <1>4 DEF FreshInv, FreshCall, DoneInv
  <1>. QED
    BY <1>2, <1>3, <1>7, <1>9, <1>10, PartialOwn

(* The receipt names the tables of the pending rows, all of them written.  *)
LEMMA ReceiptOwn ==
    ASSUME CatalogInv, OwnInv, NEW p \in Publishers, Receipt(p)
    PROVE  OwnInv'
  <1>0. PICK r \in Runs : r = work[p].run
    BY DEF Receipt, CatalogInv, CatalogBusy
  <1>1. work[p] \in Work /\ work \in [Publishers -> Work]
    BY DEF CatalogInv, CatalogTypes
  <1>2. /\ UNCHANGED << main, intent >> /\ current' = {}
        /\ work[p].pc = "receipt"
        /\ releases' = releases \cup {[run |-> r, rev |-> work[p].rev + 1,
                                       tables |-> work[p].tables]}
        /\ \A q \in Publishers : q # p => work'[q] = work[q]
    BY <1>0, <1>1 DEF Receipt
  <1>3. /\ work'[p].pc = "drop" /\ work'[p].tables = work[p].tables
        /\ work'[p].todo = work[p].tables /\ work'[p].entry = IdleWork.entry
    <2>1. work' = [work EXCEPT ![p] = [@ EXCEPT !.pc = "drop",
                                                !.todo = work[p].tables,
                                                !.entry = IdleWork.entry]]
      BY DEF Receipt
    <2>. QED
      BY <1>1, <2>1 DEF Work
  <1>4. /\ work[p].tables # {} /\ Intended(r) = work[p].tables
        /\ \A t \in work[p].tables : intent[r][t].rows \subseteq main[t].rows
    BY <1>0, <1>2 DEF OwnInv, EntryInv
  <1>5. \A s : Intended(s)' = Intended(s)
    BY <1>2 DEF Intended
  <1>6. Pending' \subseteq Pending
    BY <1>2, <1>5 DEF Pending, Released
  <1>7. \A q \in Publishers : FreshInv(q)'
    BY <1>2 DEF FreshInv, FreshCall
  <1>8. \A t \in Tables : work'[p].entry[t] = NoEntry
    BY <1>3 DEF IdleWork
  <1>9. EntryInv(p)' /\ DoneInv(p)'
    BY <1>3, <1>4, <1>8 DEF EntryInv, DoneInv, NoEntry
  <1>10. ASSUME NEW q \in Publishers, q # p PROVE EntryInv(q)' /\ DoneInv(q)'
    BY <1>2, <1>5, <1>10 DEF OwnInv, EntryInv, DoneInv
  <1>11. ReleaseInv'
    <2>. SUFFICES ASSUME NEW x \in releases'
                  PROVE  /\ x.tables # {} /\ x.tables = Intended(x.run)'
                         /\ \A t \in x.tables : intent[x.run][t].rows \subseteq main[t].rows
      BY <1>2 DEF ReleaseInv
    <2>1. CASE x \in releases
      BY <1>5, <2>1 DEF OwnInv, ReleaseInv
    <2>2. CASE x = [run |-> r, rev |-> work[p].rev + 1, tables |-> work[p].tables]
      BY <1>4, <1>5, <2>2
    <2>. QED
      BY <1>2, <2>1, <2>2
  <1>. QED
    BY <1>2, <1>6, <1>7, <1>9, <1>10, <1>11, SameMain DEF OwnInv

LEMMA CatalogOwn ==
    ASSUME CatalogInv, RowsInv, OwnInv, CatalogOperation
    PROVE  OwnInv'
  <1>1. ASSUME NEW p \in Publishers, OngoingCall(p) PROVE OwnInv'
    <2>1. CASE \/ IntentRefused(p) \/ ReceiptRefused(p) \/ CallFails(p)
               \/ \E t \in Tables : PrepareRefused(p, t) \/ OverwriteRefused(p, t)
      <3>1. Raise(p)
        BY <2>1 DEF IntentRefused, ReceiptRefused, CallFails, PrepareRefused,
                    OverwriteRefused
      <3>. QED
        BY <3>1, QuietCallOwn
    <2>. QED
      BY <1>1, <2>1, QuietCallOwn, IntendOwn, OverwriteOwn, ReceiptOwn
         DEF OngoingCall
  <1>2. CASE CallOperation
    BY <1>1, <1>2, BeginOwn DEF CallOperation
  <1>. QED
    BY <1>2, OutsideOwn DEF CatalogOperation

LEMMA StepOwn ==
    ASSUME TypeInv, RowsInv, OwnInv, [Next]_wapVars
    PROVE  OwnInv'
  <1>1. CASE UNCHANGED snapVars
    <2>1. UNCHANGED << main, intent, releases, current, work >>
      BY <1>1 DEF snapVars
    <2>2. PICK p : p \notin Publishers
      BY SnapshotConstants
    <2>. QED
      BY <2>1, <2>2, SameMain, PartialOwn DEF TypeInv
  <1>2. CatalogOperation \/ UNCHANGED snapVars
    BY StepCases DEF CleanupReplace, wapVars, snapVars
  <1>. QED
    BY <1>1, <1>2, CatalogOwn DEF TypeInv

SnapshotInv == TypeInv /\ RowsInv /\ OwnInv

LEMMA SnapshotInvariance == Spec => []SnapshotInv
  <1>1. WapInit => SnapshotInv
    BY InitCatalog, InitRows, InitOwn DEF SnapshotInv
  <1>2. SnapshotInv /\ [Next]_wapVars => SnapshotInv'
    BY StepType, StepRows, StepOwn DEF SnapshotInv
  <1>. QED
    BY <1>1, <1>2, PTL DEF Spec

(* A table of main that carries a release carries the tip named by the     *)
(* pending rows of that release, and at most one release is unfinished,    *)
(* also when a publisher goes on without the lock.                         *)
THEOREM OneUnfinishedRelease == Spec => []UnfinishedReleaseIsOwned
  <1>1. SnapshotInv => UnfinishedReleaseIsOwned
    BY DEF SnapshotInv, OwnInv, MainInv, UnfinishedReleaseIsOwned
  <1>. QED
    BY <1>1, SnapshotInvariance, PTL

(* The rows of every candidate that a receipt names are on main, and stay. *)
THEOREM ReceiptsArePublic == Spec => []ReleasedRowsArePublic
  <1>1. SnapshotInv => ReleasedRowsArePublic
    BY DEF SnapshotInv, OwnInv, ReleaseInv, ReleasedRowsArePublic
  <1>. QED
    BY <1>1, SnapshotInvariance, PTL

-----------------------------------------------------------------------------
(* The sensor.  Its outbox precedes its calls, and it knows of a release   *)
(* from its own call, from the ledger, or from a receipt it wrote before.  *)
AfterOutbox == {"call", "failed", "merged", "clean", "sweep", "retained",
                "deleted", "final", "tag"}

AfterRelease == {"merged", "clean", "sweep", "retained", "deleted", "final",
                 "tag"}

CallsInv ==
    \A p \in Publishers : work[p].pc # "idle" =>
        /\ work[p].run \in SensorRuns \ (aged \cup lost) =>
             rep[work[p].run].merge # "none"
        /\ work[p].pc = "drop" => Released(work[p].run)

TickInv ==
    tick.pc # "idle" =>
        /\ tick.run \notin aged \cup lost =>
             (tick.pc \in AfterOutbox \/ tick.prior.merge # "none" =>
                rep[tick.run].merge # "none")
        /\ tick.pc \in AfterRelease \/ tick.prior.merge = "merged" =>
             Released(tick.run)

(* What the cleanup sensor is about to write was true when it read it.     *)
CleanerInv ==
    cleaner.run \in SensorRuns =>
        /\ cleaner.run \in aged
        /\ cleaner.rep.merge = "merged" => Released(cleaner.run)

ReceiptInv ==
    /\ OutboxBeforeIntent /\ MergedIsReleased
    /\ CallsInv /\ TickInv /\ CleanerInv

LEMMA InitReceipt == WapInit => ReceiptInv
  <1>. SUFFICES ASSUME WapInit PROVE ReceiptInv
    OBVIOUS
  <1>. USE IdleFacts DEF WapInit, SnapInit
  <1>1. \A r \in Runs : Intended(r) = {} /\ rep[r].merge = "none"
    BY DEF Intended, NoReport
  <1>. QED
    BY <1>1, SnapshotConstants, SnapshotWapConstants
       DEF ReceiptInv, OutboxBeforeIntent, MergedIsReleased, CallsInv, TickInv,
           CleanerInv, IdleCleaner

(* A report changes, the catalog does not.                                 *)
LEMMA ReportReceipt ==
    ASSUME TypeInv, ReceiptInv, ReportOperation, UNCHANGED cleanVars
    PROVE  ReceiptInv'
  <1>0. UNCHANGED snapVars
    BY ReportSensor
  <1>1. \A r : Intended(r)' = Intended(r) /\ Released(r)' = Released(r)
    BY <1>0 DEF snapVars, Intended, Released
  <1>2. /\ UNCHANGED << work, aged, cleaner >>
        /\ rep \in [Runs -> Report] /\ tick \in Tick /\ lost \subseteq Runs
    BY <1>0 DEF snapVars, cleanVars, TypeInv, ReportInv
  <1>3. tick.pc # "idle" => tick.run \in SensorRuns /\ tick.run \in Runs
    BY SnapshotWapConstants DEF TypeInv, ReportInv
  <1>4. ASSUME lost \subseteq lost',
               \A r \in Runs :
                 r \in lost' \/ (rep[r].merge # "none" => rep'[r].merge # "none"),
               \A r \in SensorRuns :
                 rep'[r].merge = "merged" \/ r \in promoted' => Released(r),
               TickInv'
        PROVE  ReceiptInv'
    <2>1. OutboxBeforeIntent'
      BY <1>1, <1>2, <1>4, SnapshotWapConstants DEF ReceiptInv, OutboxBeforeIntent
    <2>2. MergedIsReleased'
      BY <1>1, <1>4 DEF MergedIsReleased
    <2>3. CallsInv'
      <3>. SUFFICES ASSUME NEW p \in Publishers, work[p].pc # "idle"
                    PROVE  /\ work[p].run \in SensorRuns \ (aged \cup lost') =>
                                rep'[work[p].run].merge # "none"
                           /\ work[p].pc = "drop" => Released(work[p].run)'
        BY <1>2 DEF CallsInv
      <3>1. PICK r \in Runs : r = work[p].run
        BY DEF TypeInv, CatalogInv, CatalogBusy
      <3>. QED
        BY <1>1, <1>2, <1>4, <3>1 DEF ReceiptInv, CallsInv
    <2>4. CleanerInv'
      BY <1>1, <1>2 DEF ReceiptInv, CleanerInv
    <2>. QED
      BY <1>4, <2>1, <2>2, <2>3, <2>4 DEF ReceiptInv
  <1>5. TickInv /\ MergedIsReleased
    BY DEF ReceiptInv
  <1>6. CASE UNCHANGED tick /\ \E r \in Runs : Launch(r)
    <2>1. \A r \in Runs : rep'[r].merge = rep[r].merge
      BY <1>2, <1>6 DEF Launch, Report
    <2>2. UNCHANGED << promoted, tick, lost >>
      BY <1>6 DEF Launch
    <2>. QED
      BY <1>1, <1>2, <1>3, <1>4, <1>5, <2>1, <2>2, SnapshotWapConstants
         DEF TickInv, MergedIsReleased
  <1>7. CASE \E r \in Runs, v \in {"approved", "rejected"} : Decide(r, v)
    <2>1. UNCHANGED << rep, promoted, tick, lost >>
      BY <1>7 DEF Decide
    <2>. QED
      BY <1>1, <1>2, <1>4, <1>5, <2>1 DEF TickInv, MergedIsReleased
  <1>8. ASSUME NEW r \in SensorRuns, NEW rev \in Revision,
               NEW readable \in BOOLEAN, TickRead(r, rev, readable)
        PROVE  ReceiptInv'
    <2>1. /\ UNCHANGED << rep, promoted, lost >>
          /\ tick'.pc = "decide" /\ tick'.run = r
          /\ tick'.prior = rep[r] \/ tick'.prior.merge = "none"
      BY <1>8 DEF TickRead, reportVars, ReadBack, NoReport
    <2>2. TickInv'
      BY <1>1, <1>5, <2>1 DEF TickInv, MergedIsReleased, AfterOutbox, AfterRelease
    <2>. QED
      BY <1>4, <1>5, <2>1, <2>2 DEF MergedIsReleased
  <1>9. ASSUME NEW resolved \in BOOLEAN, TickDecide(resolved) PROVE ReceiptInv'
    <2>1. UNCHANGED << rep, promoted, lost >> /\ tick.pc = "decide"
      BY <1>9 DEF TickDecide, reportVars
    <2>2. CASE Resumed(resolved)
      <3>1. /\ tick'.run = tick.run /\ tick'.prior = tick.prior
            /\ tick'.pc \in {"deleted", "clean"}
        BY <1>2, <1>9, <2>2 DEF TickDecide, MayPromote, Tick
      <3>2. tick.prior.merge # "none"
        BY <2>2 DEF Resumed
      <3>3. Released(tick.run)
        <4>1. CASE tick.prior.merge = "merged"
          BY <1>5, <2>1, <4>1 DEF TickInv
        <4>2. CASE resolved
          BY <1>9, <4>2 DEF TickDecide, ResolvedForRun, Resolves, Released
        <4>. QED
          BY <2>2, <4>1, <4>2 DEF Resumed
      <3>4. TickInv'
        <4>1. PICK r \in Runs : r = tick.run
          BY <1>3, <2>1
        <4>. QED
          BY <1>1, <1>2, <1>5, <2>1, <3>1, <3>2, <3>3, <4>1 DEF TickInv
      <3>. QED
        BY <1>4, <1>5, <2>1, <3>4 DEF MergedIsReleased
    <2>3. CASE ~Resumed(resolved)
      <3>1. tick'.pc = "outbox" /\ tick'.run = tick.run /\ tick'.prior = tick.prior
        BY <1>2, <1>9, <2>3 DEF TickDecide, Tick
      <3>2. TickInv'
        <4>1. PICK r \in Runs : r = tick.run
          BY <1>3, <2>1
        <4>. QED
          BY <1>1, <1>2, <1>5, <2>1, <3>1, <4>1 DEF TickInv, AfterOutbox, AfterRelease
      <3>. QED
        BY <1>4, <1>5, <2>1, <3>2 DEF MergedIsReleased
    <2>. QED
      BY <2>2, <2>3
  <1>10. CASE TickAnswered
    <2>0. PICK r \in Runs : r = tick.run
      BY <1>3, <1>10 DEF TickAnswered
    <2>1. /\ UNCHANGED << rep, promoted, lost >> /\ tick.pc = "call"
          /\ tick'.run = r /\ tick'.prior = tick.prior
          /\ \/ tick'.pc = "failed"
             \/ tick'.pc = "merged" /\ AlreadyReleased(r, Tables)
      BY <1>2, <1>10, <2>0 DEF TickAnswered, Tick, reportVars
    <2>2. AlreadyReleased(r, Tables) => Released(r)
      BY DEF AlreadyReleased, Released
    <2>3. TickInv'
      BY <1>1, <1>2, <1>5, <2>0, <2>1, <2>2 DEF TickInv, AfterOutbox, AfterRelease
    <2>. QED
      BY <1>4, <1>5, <2>1, <2>3 DEF MergedIsReleased
  <1>11. CASE TickTag \/ WriteLost
    <2>1. UNCHANGED << rep, lost >> /\ tick' = IdleTick
      BY <1>11 DEF TickTag, WriteLost, reportVars
    <2>2. \A r \in promoted' : r \in promoted \/ Released(r)
      <3>1. CASE TickTag
        BY <1>5, <3>1 DEF TickTag, TickInv, AfterRelease
      <3>2. CASE WriteLost
        BY <3>2 DEF WriteLost, reportVars
      <3>. QED
        BY <1>11, <3>1, <3>2
    <2>3. TickInv'
      BY <2>1, IdleFacts DEF TickInv
    <2>. QED
      BY <1>4, <1>5, <2>1, <2>2, <2>3 DEF MergedIsReleased
  <1>12. ASSUME NEW r \in SensorRuns, NEW payload, NEW readable \in BOOLEAN,
                Store(r, payload, readable), UNCHANGED promoted,
                ReadBack(r, readable).merge # "none" => payload.merge # "none",
                payload.merge = "merged" => Released(r),
                TickInv'
         PROVE  ReceiptInv'
    <2>0. r \in Runs
      BY SnapshotWapConstants
    <2>1. \A s \in Runs : rep'[s] = IF s = r THEN payload ELSE rep[s]
      BY <1>2, <1>12 DEF Store
    <2>2. /\ lost \subseteq lost'
          /\ r \in lost' \/ ReadBack(r, readable) = rep[r]
      BY <1>12 DEF Store, ReadBack
    <2>3. \A s \in Runs :
            s \in lost' \/ (rep[s].merge # "none" => rep'[s].merge # "none")
      BY <1>12, <2>1, <2>2
    <2>. QED
      BY <1>4, <1>5, <1>12, <2>1, <2>2, <2>3, SnapshotWapConstants
         DEF MergedIsReleased
  <1>13. \A r \in SensorRuns, readable \in BOOLEAN :
           /\ ReadBack(r, readable) \in Report
           /\ ReadBack(r, readable).merge = "merged" => Released(r)
    BY <1>5, ReadBackType, SnapshotWapConstants
       DEF MergedIsReleased, ReadBack, NoReport, TypeInv
  <1>14. CASE EarlyWrite
    <2>1. PICK r \in SensorRuns : TickNoted(r) \/ TickChecksFailed(r)
      BY <1>14 DEF EarlyWrite
    <2>2. UNCHANGED << tick, promoted >> /\ tick.pc = "idle"
      BY <2>1 DEF TickNoted, TickChecksFailed, writeVars
    <2>3. TickInv'
      BY <2>2 DEF TickInv
    <2>4. CASE TickNoted(r)
      <3>1. Store(r, NoReport, FALSE)
        BY <2>4 DEF TickNoted
      <3>. QED
        BY <1>12, <2>2, <2>3, <3>1 DEF ReadBack, NoReport
    <2>5. CASE TickChecksFailed(r)
      <3>1. PICK x : x = [rep[r] EXCEPT !.before = None]
        OBVIOUS
      <3>2. Store(r, x, TRUE)
        BY <2>5, <3>1 DEF TickChecksFailed
      <3>3. rep[r] \in Report /\ x.merge = rep[r].merge
        BY <1>2, <3>1, SnapshotWapConstants DEF Report
      <3>. QED
        BY <1>5, <1>12, <2>2, <2>3, <3>2, <3>3
           DEF ReadBack, MergedIsReleased
    <2>. QED
      BY <2>1, <2>4, <2>5
  <1>15. ASSUME NEW readable \in BOOLEAN, LastWrite(readable)
         PROVE  ReceiptInv'
    <2>0. tick.pc # "idle" /\ tick' = IdleTick /\ UNCHANGED promoted
      BY <1>15 DEF LastWrite, TickRefused, TickGoverned, TickReview, TickFailed,
                   TickRetained, writeVars
    <2>1. PICK r \in SensorRuns : r = tick.run
      BY <1>3, <2>0
    <2>2. PICK x \in Report : x = ReadBack(r, readable)
      BY <1>13
    <2>3. TickInv'
      BY <2>0, IdleFacts DEF TickInv
    <2>4. ASSUME NEW payload, Store(r, payload, readable),
                 payload.merge \in {x.merge, "review_required"}
          PROVE  ReceiptInv'
      BY <1>12, <1>13, <2>0, <2>2, <2>3, <2>4
    <2>5. CASE TickRetained(readable)
      <3>1. PICK payload : payload = [MergedReport(readable) EXCEPT !.deleted = FALSE]
        OBVIOUS
      <3>2. Store(r, payload, readable) /\ tick.pc = "retained"
        BY <2>1, <2>5, <3>1 DEF TickRetained
      <3>3. payload.merge = "merged"
        BY <2>1, <2>2, <3>1 DEF MergedReport, Report
      <3>4. Released(r)
        BY <1>5, <2>1, <3>2 DEF TickInv, AfterRelease
      <3>. QED
        BY <1>12, <2>0, <2>3, <3>2, <3>3, <3>4
    <2>6. CASE TickFailed(readable)
      <3>1. PICK payload : payload = [x EXCEPT !.before = tick.rev]
        OBVIOUS
      <3>2. Store(r, payload, readable)
        BY <2>1, <2>2, <2>6, <3>1 DEF TickFailed
      <3>3. payload.merge = x.merge
        BY <3>1 DEF Report
      <3>. QED
        BY <2>4, <3>2, <3>3
    <2>7. CASE TickGoverned(readable) \/ TickReview(readable)
      <3>1. PICK payload :
              /\ payload \in {[x EXCEPT !.review = TRUE],
                              [x EXCEPT !.review = TRUE, !.merge = "review_required"]}
              /\ Store(r, payload, readable)
        BY <2>1, <2>2, <2>7 DEF TickGoverned, TickReview
      <3>2. payload.merge \in {x.merge, "review_required"}
        BY <3>1 DEF Report
      <3>. QED
        BY <2>4, <3>1, <3>2
    <2>8. ASSUME NEW resolved \in BOOLEAN, TickRefused(resolved, readable)
          PROVE  ReceiptInv'
      <3>1. PICK before : before = IF Superseded(resolved) THEN tick.prior.before
                                   ELSE x.before
        OBVIOUS
      <3>2. PICK payload : payload = [x EXCEPT !.before = before]
        OBVIOUS
      <3>3. Store(r, payload, readable)
        BY <2>1, <2>2, <2>8, <3>1, <3>2 DEF TickRefused
      <3>4. payload.merge = x.merge
        BY <3>2 DEF Report
      <3>. QED
        BY <2>4, <3>3, <3>4
    <2>. QED
      BY <1>15, <2>5, <2>6, <2>7, <2>8 DEF LastWrite
  <1>16. ASSUME NEW readable \in BOOLEAN, GoingWrite(readable)
         PROVE  ReceiptInv'
    <2>0. tick.pc # "idle" /\ UNCHANGED promoted
      BY <1>16 DEF GoingWrite, TickOutbox, TickMerged, TickDeleted, TickFinal, writeVars
    <2>1. PICK r \in SensorRuns : r = tick.run /\ r \in Runs
      BY <1>3, <2>0
    <2>2. PICK x \in Report : x = ReadBack(r, readable)
      BY <1>13
    <2>3. ASSUME NEW payload, Store(r, payload, readable)
          PROVE  rep'[r] = payload
      BY <1>2, <2>1, <2>3 DEF Store
    <2>4. CASE TickOutbox(readable)
      <3>1. PICK payload : payload = [x EXCEPT !.merge = "merge_started",
                                               !.before = tick.rev]
        OBVIOUS
      <3>2. Store(r, payload, readable)
        BY <2>1, <2>2, <2>4, <3>1 DEF TickOutbox
      <3>3. payload.merge = "merge_started"
        BY <3>1 DEF Report
      <3>4. /\ tick'.pc = "call" /\ tick'.run = r /\ tick'.prior = tick.prior
            /\ tick.pc = "outbox"
        BY <1>2, <2>1, <2>4 DEF TickOutbox, Tick
      <3>5. TickInv'
        BY <1>1, <1>5, <2>1, <2>3, <3>2, <3>3, <3>4
           DEF TickInv, AfterOutbox, AfterRelease
      <3>. QED
        BY <1>12, <2>0, <3>2, <3>3, <3>5
    <2>5. ASSUME NEW payload, Store(r, payload, readable),
                 payload.merge = "merged", tick.pc \in AfterRelease,
                 tick'.run = r /\ tick'.prior = tick.prior
          PROVE  ReceiptInv'
      <3>1. Released(r)
        BY <1>5, <2>1, <2>5, <2>0 DEF TickInv
      <3>2. TickInv'
        BY <1>1, <2>1, <2>3, <2>5, <3>1 DEF TickInv
      <3>. QED
        BY <1>12, <2>0, <2>5, <3>1, <3>2
    <2>6. CASE TickMerged(readable) \/ TickDeleted(readable) \/ TickFinal(readable)
      <3>1. PICK y \in Report : y = MergedReport(readable) /\ y.merge = "merged"
        <4>1. tick.rev \in Revision /\ "merged" \in MergeStates
          BY <1>2 DEF Tick, MergeStates
        <4>2. MergedReport(readable) = [x EXCEPT !.merge = "merged", !.before = tick.rev]
          BY <2>1, <2>2 DEF MergedReport
        <4>3. MergedReport(readable) \in Report
          BY <2>2, <4>1, <4>2 DEF Report
        <4>4. MergedReport(readable).merge = "merged"
          BY <2>2, <4>2 DEF Report
        <4>. QED
          BY <4>3, <4>4
      <3>2. PICK payload :
              /\ payload \in {y, [y EXCEPT !.deleted = TRUE],
                              [y EXCEPT !.deleted = TRUE, !.review = FALSE]}
              /\ Store(r, payload, readable)
        BY <2>1, <2>6, <3>1 DEF TickMerged, TickDeleted, TickFinal
      <3>3. payload.merge = "merged"
        BY <3>1, <3>2 DEF Report
      <3>4. /\ tick'.run = r /\ tick'.prior = tick.prior
            /\ tick.pc \in AfterRelease
        BY <1>2, <2>1, <2>6 DEF TickMerged, TickDeleted, TickFinal, Tick, AfterRelease
      <3>. QED
        BY <2>5, <3>2, <3>3, <3>4
    <2>. QED
      BY <1>16, <2>4, <2>6 DEF GoingWrite
  <1>17. \A r \in Runs : Launch(r) => UNCHANGED tick
    BY DEF Launch
  <1>. QED
    BY <1>6, <1>7, <1>8, <1>9, <1>10, <1>11, <1>14, <1>15, <1>16, <1>17
       DEF ReportOperation, WriteOperation

(* Who begins a call: the sensor for the run it evaluates, after its       *)
(* outbox, or another publisher for a run without a report.                *)
LEMMA CallsBegin ==
    ASSUME TypeInv, Next
    PROVE  \A p \in Publishers : work'[p].pc # "idle" =>
             \/ /\ work[p].pc # "idle"
                /\ work'[p].run = work[p].run /\ work'[p].rev = work[p].rev
             \/ /\ work'[p].pc = "prepare" /\ work'[p].rev = revision
                /\ \/ work'[p].run \notin SensorRuns
                   \/ /\ tick.pc = "call" /\ work'[p].run = tick.run
                      /\ tick.prior.launch \in {None, revision}
  <1>. DEFINE Goal == \A p \in Publishers : work'[p].pc # "idle" =>
             \/ /\ work[p].pc # "idle"
                /\ work'[p].run = work[p].run /\ work'[p].rev = work[p].rev
             \/ /\ work'[p].pc = "prepare" /\ work'[p].rev = revision
                /\ \/ work'[p].run \notin SensorRuns
                   \/ /\ tick.pc = "call" /\ work'[p].run = tick.run
                      /\ tick.prior.launch \in {None, revision}
  <1>0. work \in [Publishers -> Work]
    BY DEF TypeInv, CatalogInv, CatalogTypes
  <1>1. ASSUME NEW p \in Publishers, CallStep(p) \/ CallConflict(p) \/ CallFault(p)
        PROVE  Goal
    <2>1. OngoingCall(p)
      BY <1>1 DEF CallStep, CallConflict, CallFault, OngoingCall
    <2>. QED
      BY <2>1, CallFrame DEF TypeInv
  <1>2. ASSUME NEW p \in Publishers, NEW r \in Runs, HelperBegins(p, r) PROVE Goal
    <2>1. /\ work'[p].run = r /\ work'[p].pc = "prepare" /\ r \notin SensorRuns
          /\ work'[p].rev = revision
          /\ \A q \in Publishers : q # p => work'[q] = work[q]
      BY <1>0, <1>2 DEF HelperBegins, Begin, IdleWork
    <2>. QED
      BY <2>1
  <1>3. ASSUME TickCall PROVE Goal
    <2>1. /\ work'[Sensor].run = tick.run /\ work'[Sensor].pc = "prepare" /\ tick.pc = "call"
          /\ work'[Sensor].rev = revision /\ tick.prior.launch \in {None, revision}
          /\ \A q \in Publishers : q # Sensor => work'[q] = work[q]
      BY <1>0, <1>3, SnapshotWapConstants
         DEF TickCall, Begin, IdleWork, Promotable, Refused
    <2>. QED
      BY <2>1
  <1>4. ASSUME SensorDies PROVE Goal
    BY <1>0, <1>4, IdleFacts DEF SensorDies
  <1>5. ASSUME UNCHANGED work PROVE Goal
    BY <1>5
  <1>10. ASSUME NEW readable \in BOOLEAN, WriteStep(readable) PROVE UNCHANGED work
    BY <1>10, WriteStepWrites, WriteTypes DEF snapVars
  <1>6. CASE NormalStep
    <2>1. ASSUME CatalogStep \/ \E r \in Runs, t \in Tables : Stages(r, t)
          PROVE  UNCHANGED work
      BY <2>1 DEF CatalogStep, StageBranch, StageAppend, MergeRows, Stages, StageRevision
    <2>2. ASSUME TickStep PROVE Goal
      <3>1. \/ TickCall \/ UNCHANGED snapVars \/ Sweep(Sensor, tick.run, "aborted", Open(tick.run))
        BY <2>2 DEF TickStep, TickRead, TickDecide, TickAnswered, TickClean, TickTag
      <3>2. Sweep(Sensor, tick.run, "aborted", Open(tick.run)) => UNCHANGED work
        BY DEF Sweep
      <3>3. UNCHANGED snapVars => UNCHANGED work
        BY DEF snapVars
      <3>. QED
        BY <1>3, <1>5, <3>1, <3>2, <3>3
    <2>3. ASSUME \E r \in Runs : Launch(r) \/ \E v \in {"approved", "rejected"} : Decide(r, v)
          PROVE  UNCHANGED work
      BY <2>3 DEF Launch, Decide, snapVars
    <2>4. ASSUME \E j \in Janitors : SweepStep(j) PROVE UNCHANGED work
      BY <2>4 DEF SweepStep, CloseCandidates, DropCandidate
    <2>. QED
      BY <1>1, <1>2, <1>5, <1>6, <1>10, <2>1, <2>2, <2>3, <2>4 DEF NormalStep
  <1>7. CASE OutsideStep
    <2>1. UNCHANGED work
      BY <1>7 DEF OutsideStep, ForeignCommit, TickGoverned, TickReview, HelperAbort, Prune, Sweep, snapVars
    <2>. QED
      BY <1>5, <2>1
  <1>8. CASE FaultStep
    <2>1. ASSUME LoseLock \/ \E r \in Runs : StageFails(r) PROVE UNCHANGED work
      BY <2>1 DEF LoseLock, StageFails
    <2>2. ASSUME \/ \E r \in SensorRuns :
                      \/ TickRead(r, None, TRUE) \/ TickRead(r, revision, FALSE)
                      \/ TickNoted(r) \/ TickChecksFailed(r)
                 \/ TickDecide(FALSE) \/ TickRefused(FALSE, TRUE) \/ WriteLost
          PROVE  UNCHANGED work
      BY <2>2 DEF TickRead, TickNoted, TickChecksFailed, TickDecide, TickRefused,
                  WriteLost, snapVars
    <2>3. ASSUME \E j \in Janitors : JanitorFault(j) PROVE UNCHANGED work
      BY <2>3 DEF JanitorFault, DropFails, JanitorDies
    <2>. QED
      BY <1>1, <1>4, <1>5, <1>8, <1>10, <2>1, <2>2, <2>3 DEF FaultStep
  <1>9. ASSUME CleanupStep \/ CleanupReplace PROVE UNCHANGED work
    BY <1>9 DEF CleanupStep, CleanupSweep, CleanupRead, CleanupReplace, Sweep, snapVars
  <1>. QED
    BY <1>5, <1>6, <1>7, <1>8, <1>9 DEF Next

(* What a step of the catalog adds to the ledger.                          *)
LEMMA LedgerGrows ==
    ASSUME CatalogInv, CatalogOperation
    PROVE  /\ \A r \in Runs : Released(r) => Released(r)'
           /\ \A r \in Runs : Intended(r)' # {} =>
                \/ Intended(r) # {}
                \/ \E p \in Publishers : work[p].pc # "idle" /\ work[p].run = r
           /\ \A p \in Publishers : work'[p].pc = "drop" =>
                \/ work[p].pc = "drop" /\ work'[p].run = work[p].run
                \/ (\E x \in releases' : x.run = work'[p].run)
  <1>0. work \in [Publishers -> Work]
    BY DEF CatalogInv, CatalogTypes
  <1>. DEFINE Goal ==
           /\ \A r \in Runs : Released(r) => Released(r)'
           /\ \A r \in Runs : Intended(r)' # {} =>
                \/ Intended(r) # {}
                \/ \E p \in Publishers : work[p].pc # "idle" /\ work[p].run = r
           /\ \A p \in Publishers : work'[p].pc = "drop" =>
                \/ work[p].pc = "drop" /\ work'[p].run = work[p].run
                \/ (\E x \in releases' : x.run = work'[p].run)
  <1>1. ASSUME UNCHANGED << intent, releases >>,
               \A p \in Publishers : work'[p].pc = "drop" =>
                 work[p].pc = "drop" /\ work'[p].run = work[p].run
        PROVE  Goal
    BY <1>1 DEF Released, Intended
  <1>2. ASSUME \/ \E t \in Tables : ForeignCommit(t)
               \/ StageOperation \/ LoseLock \/ SweepOperation \/ SensorLost
        PROVE  /\ UNCHANGED << intent, releases >>
               /\ UNCHANGED work \/ work' = [work EXCEPT ![Sensor] = IdleWork]
    BY <1>2
       DEF ForeignCommit, StageOperation, StageRevision, StageBranch, StageAppend,
           StageFails, MergeRows, LoseLock, SweepOperation, OngoingSweep, Sweep,
           CloseCandidates, JanitorDies, DropCandidate, DropFails, SensorLost, ledgerVars
  <1>3. ASSUME NEW p \in Publishers, Intend(p) PROVE Goal
    <2>1. /\ UNCHANGED releases /\ work[p].pc # "idle" /\ work'[p].pc = "reread"
          /\ \A q \in Publishers : q # p => work'[q] = work[q]
      BY <1>0, <1>3 DEF Intend, Work
    <2>2. \A r \in Runs : r # work[p].run => intent'[r] = intent[r]
      BY <1>3 DEF Intend, CatalogInv, CatalogTypes
    <2>. QED
      BY <2>1, <2>2 DEF Released, Intended
  <1>4. ASSUME NEW p \in Publishers, Receipt(p) PROVE Goal
    <2>0. PICK x : /\ releases' = releases \cup {x}
                   /\ x = [run |-> work[p].run, rev |-> work[p].rev + 1,
                           tables |-> work[p].tables]
      BY <1>4 DEF Receipt
    <2>1. /\ UNCHANGED intent /\ releases \subseteq releases'
          /\ x \in releases' /\ x.run = work[p].run
          /\ \A q \in Publishers : q # p => work'[q] = work[q]
      BY <1>0, <1>4, <2>0 DEF Receipt
    <2>2. work'[p].run = work[p].run
      BY <1>0, <1>4 DEF Receipt, Work
    <2>. QED
      BY <2>1, <2>2 DEF Released, Intended
  <1>5. ASSUME NEW p \in Publishers, OngoingCall(p), ~Intend(p), ~Receipt(p) PROVE Goal
    <2>1. UNCHANGED << intent, releases >>
      BY <1>5 DEF OngoingCall, Resume, IntentRefused, Reread, ReceiptRefused, CallFails, Die,
                  Prepare, PrepareRefused, Overwrite, OverwriteRefused, DropReleased, Raise,
                  ledgerVars
    <2>2. work'[p].pc = "drop" => work[p].pc = "drop"
      <3>1. ASSUME Raise(p) \/ Die(p) PROVE work'[p].pc = "idle"
        BY <1>0, <3>1, IdleFacts DEF Raise, Die
      <3>2. ASSUME Resume(p) \/ Reread(p) PROVE work'[p].pc = "write"
        BY <1>0, <3>2 DEF Resume, Reread, StartWriting, Work
      <3>3. ASSUME NEW t \in Tables, Prepare(p, t) \/ Overwrite(p, t)
            PROVE  work'[p].pc # "drop"
        BY <1>0, <3>3 DEF Prepare, Overwrite, Work
      <3>4. ASSUME NEW t \in Tables, NEW dropped \in BOOLEAN, DropReleased(p, t, dropped)
            PROVE  work[p].pc = "drop"
        BY <3>4 DEF DropReleased
      <3>. QED
        BY <1>5, <3>1, <3>2, <3>3, <3>4
           DEF OngoingCall, IntentRefused, ReceiptRefused, CallFails, PrepareRefused,
               OverwriteRefused
    <2>3. /\ \A q \in Publishers : q # p => work'[q] = work[q]
          /\ work'[p].pc # "idle" => work'[p].run = work[p].run
      BY <1>5, CallFrame
    <2>. QED
      BY <1>1, <2>1, <2>2, <2>3
  <1>6. ASSUME NEW p \in Publishers, NEW r \in Runs, NEW expected \in Revision,
               Begin(p, r, Tables, expected)
        PROVE  Goal
    <2>1. UNCHANGED << intent, releases >> /\ work'[p].pc = "prepare"
          /\ \A q \in Publishers : q # p => work'[q] = work[q]
      BY <1>0, <1>6 DEF Begin, ledgerVars, IdleWork
    <2>. QED
      BY <1>1, <2>1
  <1>7. CASE CallOperation
    BY <1>3, <1>4, <1>5, <1>6, <1>7 DEF CallOperation
  <1>8. CASE \/ \E t \in Tables : ForeignCommit(t)
             \/ StageOperation \/ LoseLock \/ SweepOperation \/ SensorLost
    <2>1. \A p \in Publishers : work'[p] \in {work[p], IdleWork}
      BY <1>0, <1>2, <1>8
    <2>. QED
      BY <1>1, <1>2, <1>8, <2>1, IdleFacts
  <1>. QED
    BY <1>7, <1>8 DEF CatalogOperation

LEMMA CatalogReceipt ==
    ASSUME TypeInv, ReceiptInv, Next, UNCHANGED reportVars, CleanKeeps,
           CatalogOperation \/ UNCHANGED snapVars,
           \/ TickFollows
           \/ /\ TickClean
              /\ tick' \in {[tick EXCEPT !.pc = "deleted"],
                            [tick EXCEPT !.pc = "retained"],
                            [tick EXCEPT !.pc = "sweep"]}
    PROVE  ReceiptInv'
  <1>0. /\ UNCHANGED << rep, promoted, lost >> /\ tick \in Tick
        /\ tick.pc # "idle" => tick.run \in SensorRuns
        /\ \A p \in Publishers : work[p].pc # "idle" => work[p].run \in Runs
        /\ \A p \in Publishers : work'[p].pc # "idle" => work'[p].run \in Runs
    BY StepType DEF reportVars, TypeInv, ReportInv, CatalogInv, CatalogBusy
  <1>1. /\ \A r \in Runs : Released(r) => Released(r)'
        /\ \A r \in Runs : Intended(r)' # {} =>
             \/ Intended(r) # {}
             \/ \E p \in Publishers : work[p].pc # "idle" /\ work[p].run = r
        /\ \A p \in Publishers : work'[p].pc = "drop" =>
             \/ work[p].pc = "drop" /\ work'[p].run = work[p].run
             \/ \E x \in releases' : x.run = work'[p].run
    <2>1. CASE UNCHANGED snapVars
      BY <2>1 DEF snapVars, Released, Intended
    <2>. QED
      BY <2>1, LedgerGrows DEF TypeInv
  <1>6. aged \subseteq aged'
    BY DEF CleanKeeps
  <1>2. OutboxBeforeIntent'
    BY <1>0, <1>1, <1>6, SnapshotWapConstants DEF ReceiptInv, OutboxBeforeIntent, CallsInv
  <1>3. MergedIsReleased'
    BY <1>0, <1>1, SnapshotWapConstants DEF ReceiptInv, MergedIsReleased
  <1>4. CallsInv'
    <2>. SUFFICES ASSUME NEW p \in Publishers, work'[p].pc # "idle"
                  PROVE  /\ work'[p].run \in SensorRuns \ (aged' \cup lost) =>
                              rep[work'[p].run].merge # "none"
                         /\ work'[p].pc = "drop" =>
                              \E x \in releases' : x.run = work'[p].run
      BY <1>0 DEF CallsInv, Released
    <2>1. \/ work[p].pc # "idle" /\ work'[p].run = work[p].run
          \/ /\ work'[p].pc = "prepare"
             /\ \/ work'[p].run \notin SensorRuns
                \/ tick.pc = "call" /\ work'[p].run = tick.run
      BY CallsBegin
    <2>2. work'[p].run \in SensorRuns \ (aged' \cup lost) =>
            rep[work'[p].run].merge # "none"
      BY <1>6, <2>1 DEF ReceiptInv, CallsInv, TickInv, AfterOutbox
    <2>3. ASSUME work'[p].pc = "drop", work[p].pc = "drop", work'[p].run = work[p].run
          PROVE  \E x \in releases' : x.run = work'[p].run
      <3>1. PICK r \in Runs : r = work[p].run
        BY <1>0, <2>3
      <3>2. Released(r)
        BY <2>3, <3>1 DEF ReceiptInv, CallsInv
      <3>. QED
        BY <1>1, <2>3, <3>1, <3>2 DEF Released
    <2>. QED
      BY <1>1, <2>2, <2>3
  <1>5. TickInv'
    <2>1. ASSUME tick' = tick PROVE TickInv'
      <3>1. CASE tick.pc = "idle"
        BY <2>1, <3>1 DEF TickInv
      <3>2. CASE tick.pc # "idle"
        <4>1. PICK r \in Runs : r = tick.run
          BY <1>0, <3>2, SnapshotWapConstants
        <4>. QED
          BY <1>0, <1>1, <1>6, <2>1, <3>2, <4>1 DEF ReceiptInv, TickInv
      <3>. QED
        BY <3>1, <3>2
    <2>2. ASSUME tick' = IdleTick PROVE TickInv'
      BY <2>2, IdleFacts DEF TickInv
    <2>3. ASSUME NEW pc \in AfterRelease, tick.pc # "idle", Released(tick.run),
                 tick' = [tick EXCEPT !.pc = pc], tick.pc \in AfterOutbox
          PROVE  TickInv'
      <3>1. tick'.pc = pc /\ tick'.run = tick.run /\ tick'.prior = tick.prior
        BY <1>0, <2>3 DEF Tick
      <3>2. PICK r \in Runs : r = tick.run
        BY <1>0, <2>3, SnapshotWapConstants
      <3>. QED
        BY <1>0, <1>1, <1>6, <2>3, <3>1, <3>2 DEF ReceiptInv, TickInv
    <2>4. ASSUME tick.pc = "call", work[Sensor].pc = "drop",
                 tick' = [tick EXCEPT !.pc = "merged"]
          PROVE  TickInv'
      <3>1. Released(tick.run)
        BY <2>4, SnapshotWapConstants DEF TypeInv, SensorInv, ReceiptInv, CallsInv
      <3>. QED
        BY <2>3, <2>4, <3>1 DEF AfterRelease, AfterOutbox
    <2>8. ASSUME tick.pc = "call", tick' = [tick EXCEPT !.pc = "failed"]
          PROVE  TickInv'
      <3>1. tick'.pc = "failed" /\ tick'.run = tick.run /\ tick'.prior = tick.prior
        BY <1>0, <2>8 DEF Tick
      <3>2. PICK r \in Runs : r = tick.run
        BY <1>0, <2>8, SnapshotWapConstants
      <3>. QED
        BY <1>0, <1>1, <1>6, <2>8, <3>1, <3>2
           DEF ReceiptInv, TickInv, AfterOutbox, AfterRelease
    <2>5. ASSUME tick.pc \in {"clean", "sweep"},
                 tick' \in {[tick EXCEPT !.pc = "deleted"],
                           [tick EXCEPT !.pc = "retained"],
                           [tick EXCEPT !.pc = "sweep"]}
          PROVE  TickInv'
      <3>1. Released(tick.run)
        BY <2>5 DEF ReceiptInv, TickInv, AfterRelease
      <3>. QED
        BY <2>3, <2>5, <3>1 DEF AfterRelease, AfterOutbox
    <2>6. TickClean => tick.pc = "clean"
      BY DEF TickClean
    <2>7. CASE TickFollows
      BY <2>1, <2>2, <2>4, <2>5, <2>7, <2>8 DEF TickFollows
    <2>. QED
      BY <2>5, <2>6, <2>7
  <1>7. CleanerInv'
    <2>1. CASE UNCHANGED cleaner
      <3>1. ASSUME cleaner.run \in SensorRuns PROVE CleanerInv'
        <4>1. PICK r \in Runs : r = cleaner.run
          BY <3>1, SnapshotWapConstants
        <4>. QED
          BY <1>1, <1>6, <2>1, <3>1, <4>1 DEF ReceiptInv, CleanerInv
      <3>. QED
        BY <2>1, <3>1 DEF CleanerInv
    <2>2. ASSUME NEW r \in SensorRuns, NEW readable \in BOOLEAN, r \in aged',
                 cleaner' = [run |-> r, rep |-> ReadBack(r, readable)]
          PROVE  CleanerInv'
      <3>1. r \in Runs /\ (ReadBack(r, readable).merge = "merged" => Released(r))
        BY SnapshotWapConstants DEF ReceiptInv, MergedIsReleased, ReadBack, NoReport
      <3>. QED
        BY <1>1, <2>2, <3>1 DEF CleanerInv
    <2>. QED
      BY <2>1, <2>2 DEF CleanKeeps
  <1>. QED
    BY <1>2, <1>3, <1>4, <1>5, <1>7 DEF ReceiptInv

(* The cleanup sensor puts back what it read: an outbox may be lost, a     *)
(* receipt is never invented.                                              *)
LEMMA ReplaceReceipt ==
    ASSUME TypeInv, ReceiptInv, CleanupReplace
    PROVE  ReceiptInv'
  <1>1. /\ UNCHANGED << promoted, lost, tick, aged, work, intent, releases >>
        /\ cleaner' = IdleCleaner
    BY DEF CleanupReplace, snapVars, writeVars
  <1>2. /\ rep \in [Runs -> Report]
        /\ \A r \in Runs : rep'[r] = IF r = cleaner.run THEN cleaner.rep ELSE rep[r]
    BY DEF CleanupReplace, TypeInv, ReportInv
  <1>3. \A r : Intended(r)' = Intended(r) /\ Released(r)' = Released(r)
    BY <1>1 DEF Intended, Released
  <1>4. OutboxBeforeIntent'
    BY <1>1, <1>2, <1>3, SnapshotWapConstants DEF ReceiptInv, OutboxBeforeIntent, CleanerInv
  <1>5. MergedIsReleased'
    BY <1>1, <1>2, <1>3, SnapshotWapConstants DEF ReceiptInv, MergedIsReleased, CleanerInv
  <1>6. CallsInv'
    <2>. SUFFICES ASSUME NEW p \in Publishers, work[p].pc # "idle"
                  PROVE  /\ work[p].run \in SensorRuns \ (aged \cup lost) =>
                              rep'[work[p].run].merge # "none"
                         /\ work[p].pc = "drop" => Released(work[p].run)
      BY <1>1, <1>3 DEF CallsInv
    <2>. QED
      BY <1>2, SnapshotWapConstants DEF ReceiptInv, CallsInv, CleanerInv
  <1>7. TickInv'
    <2>1. CASE tick.pc = "idle"
      BY <1>1, <2>1 DEF TickInv
    <2>2. CASE tick.pc # "idle"
      <3>1. tick.run \in SensorRuns /\ tick.run \in Runs
        BY <2>2, SnapshotWapConstants DEF TypeInv, ReportInv
      <3>2. tick.run \notin aged => rep'[tick.run] = rep[tick.run]
        BY <1>2, <3>1 DEF ReceiptInv, CleanerInv
      <3>. QED
        BY <1>1, <1>3, <3>1, <3>2 DEF ReceiptInv, TickInv
    <2>. QED
      BY <2>1, <2>2
  <1>8. CleanerInv'
    BY <1>1, SnapshotConstants, SnapshotWapConstants DEF CleanerInv, IdleCleaner
  <1>. QED
    BY <1>4, <1>5, <1>6, <1>7, <1>8 DEF ReceiptInv

LEMMA StepReceipt ==
    ASSUME TypeInv, ReceiptInv, [Next]_wapVars
    PROVE  ReceiptInv'
  <1>1. CASE UNCHANGED wapVars
    BY <1>1 DEF wapVars, ReceiptInv, OutboxBeforeIntent, MergedIsReleased,
                CallsInv, TickInv, CleanerInv, Intended, Released
  <1>2. CASE Next
    BY <1>2, StepCases, ReportReceipt, ReplaceReceipt, CatalogReceipt
  <1>. QED
    BY <1>1, <1>2

LEMMA ReceiptInvariance == Spec => []ReceiptInv
  <1>1. WapInit => TypeInv /\ ReceiptInv
    BY InitCatalog, InitReceipt
  <1>2. TypeInv /\ ReceiptInv /\ [Next]_wapVars => (TypeInv /\ ReceiptInv)'
    BY StepType, StepReceipt
  <1>. QED
    BY <1>1, <1>2, PTL DEF Spec

(* The pending rows of a run of the sensor never exist without its         *)
(* merge_started, so whoever evaluates the run next finds the              *)
(* interruption; but for runs whose report was replaced because a write    *)
(* could not read it, and runs beyond their retention period.              *)
THEOREM OutboxPrecedesIntent == Spec => []OutboxBeforeIntent
  <1>1. ReceiptInv => OutboxBeforeIntent
    BY DEF ReceiptInv
  <1>. QED
    BY <1>1, ReceiptInvariance, PTL

(* What is marked as merged or tagged as promoted was released, by this or *)
(* by an earlier evaluation of the sensor.                                 *)
THEOREM PromotedIsReleased == Spec => []MergedIsReleased
  <1>1. ReceiptInv => MergedIsReleased
    BY DEF ReceiptInv
  <1>. QED
    BY <1>1, ReceiptInvariance, PTL

-----------------------------------------------------------------------------
(* The release pointer.  Every revision belongs to one release: a receipt  *)
(* is written with the version of the ledger it read, and that version is  *)
(* the latest.  One call escapes this argument, the one that reads the     *)
(* ledger again after its pending rows: another publisher may have resumed *)
(* and finished its release meanwhile, and the call then holds the latest  *)
(* version with an old revision.  It has been outrun: main moved on in     *)
(* every table it is about to overwrite, so it never reaches its receipt.  *)
RevisionInv ==
    /\ \A x \in releases : x.rev \in 1 .. revision
    /\ \A x, y \in releases : x.rev = y.rev => x = y
    /\ \A i \in 1 .. revision : \E x \in releases : x.rev = i

Outrun(p) ==
    /\ work[p].pc # "receipt"
    /\ work[p].pc = "write" => work[p].todo = work[p].tables
    /\ \A t \in work[p].tables :
         /\ ~work[p].entry[t].done
         /\ main[t].snap > work[p].entry[t].snap

(* A call whose own pending rows are in the ledger.                        *)
CommittedCall(p) ==
    \/ work[p].pc = "reread"
    \/ p \in current /\ work[p].pc \in {"write", "receipt"}

VersionInv(p) ==
    /\ p \in current /\ work[p].pc \in {"prepare", "intent"} =>
         ~Released(work[p].run) /\ work[p].rev = revision
    /\ FreshCall(p) => \A t \in Tables : ~work[p].entry[t].done
    /\ CommittedCall(p) => \/ ~Released(work[p].run) /\ work[p].rev = revision
                           \/ Outrun(p)

(* The call has seen to it that main carries, or carried, release r of t.  *)
Wrote(p, r, t) ==
    /\ work[p].run = r
    /\ \/ work[p].entry[t].done
       \/ /\ work[p].pc \in {"write", "receipt"}
          /\ t \in work[p].tables \ work[p].todo

Touched(r, t) == main[t].rel = r \/ \E q \in Publishers : Wrote(q, r, t)

RaceInv(p) ==
    work[p].pc = "reread" =>
        \A t \in work[p].tables :
            /\ ~work[p].entry[t].done
            /\ Touched(work[p].run, t) => main[t].snap > work[p].entry[t].snap

DoneIntended(p) ==
    \A t \in Tables :
        work[p].entry[t].done => work[p].run \in Runs /\ Intended(work[p].run) # {}

PointerInv ==
    /\ RevisionInv
    /\ \A p \in Publishers : VersionInv(p) /\ RaceInv(p) /\ DoneIntended(p)

LEMMA InitPointer == WapInit => PointerInv
  <1>. SUFFICES ASSUME WapInit PROVE PointerInv
    OBVIOUS
  <1>1. \A p \in Publishers : work[p] = IdleWork /\ p \notin current
    BY DEF WapInit, SnapInit
  <1>2. RevisionInv
    BY DEF WapInit, SnapInit, RevisionInv
  <1>. QED
    BY <1>1, <1>2 DEF PointerInv, VersionInv, CommittedCall, FreshCall, RaceInv,
                      DoneIntended,
                      IdleWork, NoEntry

(* A step that appends neither pending rows nor a receipt disturbs at most *)
(* the call that makes it.                                                 *)
LEMMA QuietPointer ==
    ASSUME CatalogInv, RowsInv, PointerInv,
           UNCHANGED << intent, releases, revision >>, NEW p,
           \A q \in Publishers : q # p => work'[q] \in {work[q], IdleWork},
           current' \subseteq current \cup {p},
           \A t \in Tables :
              /\ main'[t].snap \in Nat /\ main'[t].snap >= main[t].snap
              /\ \/ main'[t].rel \in {main[t].rel, None}
                 \/ main'[t].snap > main[t].snap,
           p \in Publishers =>
              /\ VersionInv(p)' /\ DoneIntended(p)' /\ work'[p].pc # "reread"
              /\ \A t \in Tables : \A r : Wrote(p, r, t)' =>
                   \/ Wrote(p, r, t) \/ main[t].rel = r
                   \/ main'[t].snap > main[t].snap
    PROVE  PointerInv'
  <1>0. /\ \A r : Intended(r)' = Intended(r)
        /\ \A r : Released(r)' = Released(r)
    BY DEF Intended, Released
  <1>1. RevisionInv'
    BY DEF PointerInv, RevisionInv
  <1>2. \A t \in Tables : main[t].snap \in Nat
    BY Numbers
  <1>3. ASSUME NEW q \in Publishers
        PROVE  /\ work[q].pc # "idle" => work[q].run \in Runs /\ work[q].run # None
               /\ work[q].tables \subseteq Tables
               /\ \A t \in Tables : work[q].entry[t].snap \in Nat
    BY Numbers, SnapshotConstants DEF CatalogInv, CatalogBusy, CatalogTypes, Work
  <1>4. /\ IdleWork.pc = "idle"
        /\ \A t \in Tables : ~IdleWork.entry[t].done
    BY DEF IdleWork, NoEntry
  <1>5. ASSUME NEW q \in Publishers, q # p, work'[q] = IdleWork
        PROVE  VersionInv(q)' /\ DoneIntended(q)'
    BY <1>4, <1>5 DEF VersionInv, CommittedCall, FreshCall, DoneIntended
  <1>6. ASSUME NEW q \in Publishers, q # p, work'[q] = work[q]
        PROVE  VersionInv(q)' /\ DoneIntended(q)'
    <2>1. Outrun(q) => Outrun(q)'
      BY <1>2, <1>3, <1>6 DEF Outrun
    <2>2. q \in current' => q \in current
      BY <1>6
    <2>. QED
      BY <1>0, <1>6, <2>1, <2>2 DEF PointerInv, VersionInv, CommittedCall, FreshCall,
                                         DoneIntended
  <1>7. ASSUME NEW q \in Publishers, NEW t \in Tables, NEW r, Wrote(q, r, t)'
        PROVE  Wrote(q, r, t) \/ main[t].rel = r \/ main'[t].snap > main[t].snap
    BY <1>4, <1>7 DEF Wrote
  <1>8. ASSUME NEW q \in Publishers, q # p, work'[q] = work[q],
               work[q].pc = "reread", NEW t \in work[q].tables,
               NEW r, r = work[q].run,
               Touched(r, t)'
        PROVE  main'[t].snap > work[q].entry[t].snap
    <2>1. t \in Tables /\ r # None
      BY <1>3, <1>8
    <2>2. Touched(r, t) => main[t].snap > work[q].entry[t].snap
      BY <1>8 DEF PointerInv, RaceInv
    <2>3. main[t].snap >= work[q].entry[t].snap
      BY <1>2, <1>3, <2>1 DEF RowsInv, EntryRows
    <2>4. Touched(r, t) \/ main'[t].snap > main[t].snap
      BY <1>7, <1>8, <2>1 DEF Touched
    <2>. QED
      BY <1>2, <1>3, <1>8, <2>1, <2>2, <2>3, <2>4
  <1>9. ASSUME NEW q \in Publishers PROVE RaceInv(q)'
    <2>1. CASE work'[q].pc # "reread"
      BY <2>1 DEF RaceInv
    <2>2. CASE work'[q].pc = "reread"
      <3>1. q # p /\ work'[q] = work[q] /\ work[q].pc = "reread"
        BY <1>4, <1>9, <2>2
      <3>2. \A t \in work[q].tables : ~work[q].entry[t].done
        BY <3>1 DEF PointerInv, RaceInv
      <3>. QED
        BY <1>8, <3>1, <3>2 DEF RaceInv, Touched, Wrote
    <2>. QED
      BY <2>1, <2>2
  <1>. QED
    BY <1>1, <1>5, <1>6, <1>9 DEF PointerInv

(* What does not belong to a call.                                         *)
LEMMA OutsidePointer ==
    ASSUME CatalogInv, RowsInv, PointerInv,
           \/ \E t \in Tables : ForeignCommit(t)
           \/ StageOperation \/ LoseLock \/ SweepOperation \/ SensorLost
    PROVE  PointerInv'
  <1>0. PICK p : p \notin Publishers
    BY SnapshotConstants
  <1>1. \A t \in Tables : main[t] \in Snapshot /\ main[t].snap \in Nat
    BY Numbers DEF CatalogInv, CatalogTypes
  <1>2. ASSUME NEW t \in Tables, ForeignCommit(t)
        PROVE  /\ UNCHANGED << intent, releases, revision, current, work >>
               /\ \A s \in Tables :
                    /\ main'[s].snap \in Nat /\ main'[s].snap >= main[s].snap
                    /\ main'[s].rel \in {main[s].rel, None}
    <2>1. /\ main' = [main EXCEPT ![t] = [snap |-> @.snap + 1,
                                          rows |-> @.rows \cup {None},
                                          rel  |-> None, tip |-> NoTip]]
          /\ main \in [Tables -> Snapshot]
      BY <1>2 DEF ForeignCommit, CatalogInv, CatalogTypes
    <2>2. \A s \in Tables : s # t => main'[s] = main[s]
      BY <2>1
    <2>3. main'[t].snap = main[t].snap + 1 /\ main'[t].rel = None
      BY <2>1
    <2>. QED
      BY <1>1, <1>2, <2>2, <2>3 DEF ForeignCommit, ledgerVars
  <1>3. ASSUME \/ StageOperation \/ LoseLock \/ SweepOperation \/ SensorLost
        PROVE  /\ UNCHANGED << main, intent, releases, revision >>
               /\ current' \subseteq current
               /\ UNCHANGED work \/ work' = [work EXCEPT ![Sensor] = IdleWork]
    BY <1>3
       DEF StageOperation, StageRevision, StageBranch, StageAppend,
           StageFails, MergeRows, LoseLock, SweepOperation, OngoingSweep, Sweep,
           CloseCandidates, JanitorDies, DropCandidate, DropFails, SensorLost, ledgerVars
  <1>4. work \in [Publishers -> Work]
    BY DEF CatalogInv, CatalogTypes
  <1>5. CASE \E t \in Tables : ForeignCommit(t)
    BY <1>0, <1>2, <1>5, QuietPointer
  <1>6. CASE \/ StageOperation \/ LoseLock \/ SweepOperation \/ SensorLost
    <2>1. \A q \in Publishers : work'[q] \in {work[q], IdleWork}
      BY <1>3, <1>4, <1>6
    <2>. QED
      BY <1>0, <1>1, <1>3, <1>6, <2>1, QuietPointer
  <1>. QED
    BY <1>5, <1>6

LEMMA BeginPointer ==
    ASSUME CatalogInv, RowsInv, OwnInv, PointerInv, NEW p \in Publishers,
           NEW r \in Runs, NEW expected \in Revision,
           Begin(p, r, Tables, expected)
    PROVE  PointerInv'
  <1>1. /\ UNCHANGED << main, intent, releases, revision >>
        /\ current' \subseteq current \cup {p}
        /\ \A q \in Publishers : q # p => work'[q] = work[q]
    BY DEF Begin, ledgerVars, CatalogInv, CatalogTypes
  <1>2. /\ work'[p].pc = "prepare" /\ work'[p].run = r
        /\ work'[p].rev = revision
        /\ \A t \in Tables : ~work'[p].entry[t].done
    BY DEF Begin, IdleWork, NoEntry, CatalogInv, CatalogTypes
  <1>3. ~Released(r)
    <2>1. \A x \in releases : x.tables # {} /\ x.tables \subseteq Tables
      BY DEF OwnInv, ReleaseInv, CatalogInv, CatalogTypes, Release
    <2>. QED
      BY <2>1 DEF Begin, Promotable, AlreadyReleased, Released
  <1>4. Released(r)' = Released(r)
    BY <1>1 DEF Released
  <1>5. VersionInv(p)' /\ DoneIntended(p)'
    BY <1>1, <1>2, <1>3, <1>4
       DEF VersionInv, FreshCall, CommittedCall, DoneIntended, Released
  <1>6. \A t \in Tables : \A s : ~Wrote(p, s, t)'
    BY <1>2 DEF Wrote
  <1>7. \A t \in Tables : main[t].snap \in Nat
    BY Numbers
  <1>. QED
    BY <1>1, <1>2, <1>5, <1>6, <1>7, QuietPointer

LEMMA QuietCallPointer ==
    ASSUME CatalogInv, RowsInv, OwnInv, PointerInv, NEW p \in Publishers,
           \/ Resume(p) \/ Reread(p) \/ Raise(p) \/ Die(p)
           \/ \E t \in Tables :
                \/ Prepare(p, t)
                \/ DropReleased(p, t, TRUE) \/ DropReleased(p, t, FALSE)
    PROVE  PointerInv'
  <1>1. work \in [Publishers -> Work] /\ work[p] \in Work
    BY DEF CatalogInv, CatalogTypes
  <1>2. \A t \in Tables : main[t].snap \in Nat
    BY Numbers
  <1>3. /\ UNCHANGED << main, intent, releases, revision >>
        /\ current' \subseteq current \cup {p}
        /\ \A q \in Publishers : q # p => work'[q] = work[q]
    BY <1>1 DEF Resume, Reread, StartWriting, Raise, Die, Prepare, DropReleased, ledgerVars
  <1>4. /\ \A s : Released(s)' = Released(s) /\ Intended(s)' = Intended(s)
    BY <1>3 DEF Released, Intended
  <1>5. SUFFICES /\ VersionInv(p)' /\ DoneIntended(p)' /\ work'[p].pc # "reread"
                 /\ \A t \in Tables : \A r : Wrote(p, r, t)' =>
                      Wrote(p, r, t) \/ main[t].rel = r
    BY <1>2, <1>3, QuietPointer
  <1>. DEFINE Goal == /\ VersionInv(p)' /\ DoneIntended(p)'
                      /\ work'[p].pc # "reread"
                      /\ \A t \in Tables : \A r : Wrote(p, r, t)' =>
                           Wrote(p, r, t) \/ main[t].rel = r
  <1>6. SUFFICES Goal
    OBVIOUS
  <1>7. /\ VersionInv(p) /\ DoneIntended(p)
        /\ FreshInv(p) /\ MainInv
    BY DEF PointerInv, OwnInv
  <1>8. /\ IdleWork.pc = "idle"
        /\ \A t \in Tables : ~IdleWork.entry[t].done
    BY DEF IdleWork, NoEntry
  <1>9. ASSUME work'[p] = IdleWork PROVE Goal
    BY <1>8, <1>9 DEF VersionInv, FreshCall, CommittedCall, DoneIntended, Wrote
  <1>10. CASE Raise(p) \/ Die(p)
    BY <1>1, <1>9, <1>10 DEF Raise, Die
  <1>11. ASSUME StartWriting(p)
         PROVE  /\ work'[p].pc = "write" /\ work'[p].todo = work'[p].tables
                /\ work'[p].tables = work[p].tables
                /\ work'[p].run = work[p].run /\ work'[p].rev = work[p].rev
                /\ work'[p].entry = work[p].entry
    BY <1>1, <1>11 DEF StartWriting, Work
  <1>12. CASE Resume(p)
    <2>1. /\ work[p].pc = "intent" /\ StartWriting(p) /\ current' = current
      BY <1>12 DEF Resume
    <2>. QED
      BY <1>3, <1>4, <1>7, <1>11, <2>1
         DEF VersionInv, FreshCall, CommittedCall, DoneIntended, Wrote, Released
  <1>13. CASE Reread(p)
    <2>1. /\ work[p].pc = "reread" /\ StartWriting(p)
      BY <1>13 DEF Reread
    <2>2. \/ ~Released(work[p].run) /\ work[p].rev = revision
          \/ Outrun(p)
      BY <1>7, <2>1 DEF VersionInv, CommittedCall
    <2>3. Outrun(p) => Outrun(p)'
      BY <1>3, <1>11, <2>1 DEF Outrun
    <2>4. VersionInv(p)'
      BY <1>3, <1>11, <2>1, <2>2, <2>3 DEF VersionInv, FreshCall, CommittedCall, Released
    <2>. QED
      BY <1>4, <1>7, <1>11, <2>1, <2>4 DEF DoneIntended, Wrote
  <1>14. ASSUME NEW t \in Tables, Prepare(p, t) PROVE Goal
    <2>. DEFINE r == work[p].run
    <2>1. /\ work[p].pc = "prepare" /\ current' = current
          /\ work'[p].pc \in {"prepare", "intent"}
          /\ work'[p].run = r /\ work'[p].rev = work[p].rev
          /\ work'[p].resumed = work[p].resumed
          /\ \A s \in Tables : s # t => work'[p].entry[s] = work[p].entry[s]
          /\ work'[p].entry[t].done => main[t].rel = r
      BY <1>1, <1>14 DEF Prepare, Work, Carries
    <2>2. r \in Runs /\ r # None
      BY <2>1, SnapshotConstants DEF CatalogInv, CatalogBusy
    <2>3. main[t].rel = r => Intended(r) # {}
      BY <1>7, <2>2 DEF MainInv, Intended
    <2>4. FreshCall(p) => Intended(r) = {}
      BY <1>7, <2>2 DEF FreshInv, Pending
    <2>5. FreshCall(p)' => FreshCall(p)
      BY <2>1 DEF FreshCall
    <2>6. VersionInv(p)'
      <3>1. \A s \in Tables : FreshCall(p)' => ~work'[p].entry[s].done
        BY <1>7, <2>1, <2>3, <2>4, <2>5 DEF VersionInv
      <3>. QED
        BY <1>3, <1>7, <2>1, <3>1 DEF VersionInv, CommittedCall, Released
    <2>7. DoneIntended(p)'
      <3>1. \A s \in Tables : work'[p].entry[s].done => Intended(r) # {}
        BY <1>7, <2>1, <2>3 DEF DoneIntended
      <3>. QED
        BY <1>4, <2>1, <2>2, <3>1 DEF DoneIntended
    <2>8. \A s \in Tables : \A q : Wrote(p, q, s)' => Wrote(p, q, s) \/ main[s].rel = q
      BY <2>1 DEF Wrote
    <2>. QED
      BY <2>1, <2>6, <2>7, <2>8
  <1>15. ASSUME NEW t \in Tables, NEW dropped \in BOOLEAN, DropReleased(p, t, dropped)
         PROVE  Goal
    <2>1. \/ work'[p] = IdleWork
          \/ /\ work'[p].pc = "drop" /\ work'[p].run = work[p].run
             /\ work'[p].entry = work[p].entry
      BY <1>1, <1>15 DEF DropReleased, Work
    <2>2. ASSUME work'[p].pc = "drop", work'[p].run = work[p].run,
                 work'[p].entry = work[p].entry
          PROVE  Goal
      BY <1>4, <1>7, <2>2 DEF VersionInv, FreshCall, CommittedCall, DoneIntended, Wrote
    <2>. QED
      BY <1>9, <2>1, <2>2
  <1>. QED
    BY <1>10, <1>12, <1>13, <1>14, <1>15

(* A call that was outrun finds that main moved.                           *)
LEMMA OverwritePointer ==
    ASSUME CatalogInv, RowsInv, OwnInv, PointerInv, NEW p \in Publishers,
           NEW t \in Tables, Overwrite(p, t)
    PROVE  PointerInv'
  <1>1. work \in [Publishers -> Work] /\ work[p] \in Work
    BY DEF CatalogInv, CatalogTypes
  <1>2. \A s \in Tables : main[s].snap \in Nat
    BY Numbers
  <1>3. /\ UNCHANGED << intent, releases, revision, current >>
        /\ \A q \in Publishers : q # p => work'[q] = work[q]
        /\ work[p].pc = "write" /\ t \in work[p].tables
    BY <1>1 DEF Overwrite, ledgerVars, OwnInv, EntryInv
  <1>4. /\ \A s \in Tables : s # t => main'[s] = main[s]
        /\ IF work[p].entry[t].done THEN main'[t] = main[t]
           ELSE /\ main[t].snap = work[p].entry[t].snap
                /\ main'[t].snap = main[t].snap + 1
    BY DEF Overwrite, CatalogInv, CatalogTypes
  <1>5. /\ work'[p].pc \in {"write", "receipt"}
        /\ work'[p].run = work[p].run /\ work'[p].rev = work[p].rev
        /\ work'[p].tables = work[p].tables /\ work'[p].entry = work[p].entry
        /\ work'[p].todo = work[p].todo \ {t}
    BY <1>1 DEF Overwrite, Work
  <1>6. ~Outrun(p)
    BY <1>2, <1>3, <1>4 DEF Outrun
  <1>7. VersionInv(p)'
    <2>1. CommittedCall(p)' => CommittedCall(p)
      BY <1>3, <1>5 DEF CommittedCall
    <2>. QED
      BY <1>3, <1>5, <1>6, <2>1 DEF PointerInv, VersionInv, FreshCall, Released
  <1>8. DoneIntended(p)'
    BY <1>3, <1>5 DEF PointerInv, DoneIntended, Intended
  <1>9. \A s \in Tables : \A r : Wrote(p, r, s)' =>
          Wrote(p, r, s) \/ main'[s].snap > main[s].snap
    BY <1>2, <1>3, <1>4, <1>5 DEF Wrote
  <1>. QED
    BY <1>2, <1>3, <1>4, <1>5, <1>7, <1>8, <1>9, QuietPointer

(* Only calls of the same run can be about to read the ledger again.       *)
LEMMA IntendPointer ==
    ASSUME CatalogInv, RowsInv, OwnInv, PointerInv, NEW p \in Publishers,
           Intend(p)
    PROVE  PointerInv'
  <1>0. PICK r \in Runs : r = work[p].run
    BY DEF Intend, CatalogInv, CatalogBusy
  <1>1. work \in [Publishers -> Work] /\ work[p] \in Work
    BY DEF CatalogInv, CatalogTypes
  <1>2. /\ UNCHANGED << main, releases, revision >> /\ current' = {}
        /\ \A q \in Publishers : q # p => work'[q] = work[q]
        /\ work'[p].pc = "reread" /\ work'[p].run = r
        /\ work'[p].rev = work[p].rev /\ work'[p].entry = work[p].entry
        /\ work'[p].tables = work[p].tables
    BY <1>0, <1>1 DEF Intend, Work
  <1>3. FreshCall(p) /\ p \in current /\ work[p].pc = "intent" /\ r # None
    BY <1>0, SnapshotConstants DEF Intend, FreshCall
  <1>4. /\ ~Released(r) /\ work[p].rev = revision /\ Intended(r) = {}
        /\ \A t \in Tables : ~work[p].entry[t].done
    <2>1. ~Released(r) /\ Pending = {}
      BY <1>0, <1>3 DEF OwnInv, FreshInv
    <2>. QED
      BY <1>0, <1>3, <2>1 DEF PointerInv, VersionInv, Pending
  <1>5. \A s : Released(s)' = Released(s)
    BY <1>2 DEF Released
  <1>6. /\ Intended(r)' # {}
        /\ \A s \in Runs : s # r => Intended(s)' = Intended(s)
    <2>1. /\ \A t \in Tables : intent'[r][t] = work[p].entry[t].tip
          /\ \A s \in Runs : s # r => intent'[s] = intent[s]
      BY <1>0, <1>1 DEF Intend, CatalogInv, CatalogTypes
    <2>2. /\ work[p].tables # {} /\ work[p].tables \subseteq Tables
          /\ \A t \in Tables : work[p].entry[t].tip # NoTip <=> t \in work[p].tables
      BY <1>1, <1>3 DEF OwnInv, EntryInv, Work
    <2>. QED
      BY <2>1, <2>2 DEF Intended
  <1>7. RevisionInv'
    BY <1>2 DEF PointerInv, RevisionInv
  <1>8. ASSUME NEW q \in Publishers PROVE VersionInv(q)'
    <2>1. CASE q = p
      BY <1>2, <1>4, <2>1 DEF VersionInv, FreshCall, CommittedCall, Released
    <2>2. CASE q # p
      <3>1. work'[q] = work[q] /\ q \notin current'
        BY <1>2, <2>2
      <3>2. Outrun(q) => Outrun(q)'
        BY <1>2, <3>1 DEF Outrun
      <3>. QED
        BY <1>2, <3>1, <3>2 DEF PointerInv, VersionInv, FreshCall, CommittedCall, Released
    <2>. QED
      BY <2>1, <2>2
  <1>9. ASSUME NEW q \in Publishers PROVE DoneIntended(q)'
    <2>1. work'[q].run = work[q].run /\ work'[q].entry = work[q].entry
      BY <1>0, <1>2
    <2>2. DoneIntended(q)
      BY DEF PointerInv
    <2>3. ASSUME NEW t \in Tables, work[q].entry[t].done,
                 NEW s, s = work[q].run
          PROVE  Intended(s)' # {}
      <3>1. Intended(s) # {}
        BY <2>2, <2>3 DEF DoneIntended
      <3>2. s \in Runs
        BY <2>2, <2>3 DEF DoneIntended
      <3>. QED
        BY <1>6, <3>1, <3>2
    <2>. QED
      BY <2>1, <2>2, <2>3 DEF DoneIntended, Intended
  <1>10. ASSUME NEW t \in Tables PROVE ~Touched(r, t)
    <2>1. main[t].rel # r
      BY <1>3, <1>4 DEF OwnInv, MainInv, Intended
    <2>2. \A q \in Publishers : ~Wrote(q, r, t)
      BY <1>4 DEF OwnInv, EntryInv, PointerInv, DoneIntended, Wrote
    <2>. QED
      BY <2>1, <2>2 DEF Touched
  <1>11. ASSUME NEW s, NEW t \in Tables, Touched(s, t)' PROVE Touched(s, t)
    <2>1. \A q \in Publishers : Wrote(q, s, t)' => Wrote(q, s, t)
      BY <1>2, <1>4 DEF Wrote
    <2>. QED
      BY <1>2, <1>11, <2>1 DEF Touched
  <1>12. ASSUME NEW q \in Publishers PROVE RaceInv(q)'
    <2>1. work'[q].tables \subseteq Tables
      <3>1. work[q].tables \subseteq Tables
        BY <1>1 DEF Work
      <3>. QED
        BY <1>2, <3>1
    <2>2. CASE q = p
      <3>1. \A t \in work'[p].tables : ~work'[p].entry[t].done
        BY <1>2, <1>4, <2>1, <2>2
      <3>2. ASSUME NEW s, s = work'[p].run, NEW t \in work'[p].tables
            PROVE  ~Touched(s, t)'
        BY <1>2, <1>10, <1>11, <2>1, <2>2, <3>2
      <3>. QED
        BY <2>2, <3>1, <3>2 DEF RaceInv, Touched, Wrote
    <2>3. CASE q # p
      <3>1. work'[q] = work[q] /\ RaceInv(q)
        BY <1>2, <2>3 DEF PointerInv
      <3>2. ASSUME NEW s, s = work[q].run, NEW t \in work[q].tables,
                   Touched(s, t)', work[q].pc = "reread"
            PROVE  main'[t].snap > work[q].entry[t].snap
        <4>1. Touched(s, t)
          BY <1>11, <2>1, <3>1, <3>2
        <4>. QED
          BY <1>2, <3>1, <3>2, <4>1 DEF RaceInv
      <3>3. \A t \in work[q].tables : work[q].pc = "reread" => ~work[q].entry[t].done
        BY <3>1 DEF RaceInv
      <3>. QED
        BY <3>1, <3>2, <3>3 DEF RaceInv, Touched, Wrote
    <2>. QED
      BY <2>2, <2>3
  <1>. QED
    BY <1>7, <1>8, <1>9, <1>12 DEF PointerInv

(* The receipt takes the next revision, and outruns every other call of    *)
(* its run that is about to read the ledger again.                         *)
LEMMA ReceiptPointer ==
    ASSUME CatalogInv, RowsInv, OwnInv, PointerInv, NEW p \in Publishers,
           Receipt(p)
    PROVE  /\ PointerInv'
           /\ work[p].rev = revision /\ revision' = revision + 1
           /\ ~Released(work[p].run)
  <1>. DEFINE r == work[p].run
              x == [run |-> r, rev |-> revision + 1, tables |-> work[p].tables]
  <1>1. work \in [Publishers -> Work] /\ work[p] \in Work /\ revision \in Nat
    BY DEF CatalogInv, CatalogTypes
  <1>2. /\ work[p].pc = "receipt" /\ p \in current /\ r \in Runs
    BY DEF Receipt, CatalogInv, CatalogBusy
  <1>3. ~Released(r) /\ work[p].rev = revision
    BY <1>2 DEF PointerInv, VersionInv, CommittedCall, Outrun
  <1>4. /\ UNCHANGED << main, intent >> /\ current' = {}
        /\ revision' = revision + 1
        /\ \A q \in Publishers : q # p => work'[q] = work[q]
    BY <1>1, <1>3 DEF Receipt
  <1>5. /\ releases' = releases \cup {x}
        /\ x.run = r /\ x.rev = revision + 1
    BY <1>3 DEF Receipt
  <1>6. /\ work'[p].pc = "drop" /\ work'[p].run = r
        /\ \A t \in Tables : ~work'[p].entry[t].done
    <2>1. work'[p] = [work[p] EXCEPT !.pc = "drop", !.todo = work[p].tables,
                                     !.entry = IdleWork.entry]
      BY <1>1 DEF Receipt
    <2>. QED
      BY <1>1, <2>1 DEF Work, IdleWork, NoEntry
  <1>7. ASSUME NEW y, releases' = releases \cup {y}, y.rev = revision + 1
        PROVE  RevisionInv'
    <2>1. \A z \in releases : z.rev \in 1 .. revision
      BY DEF PointerInv, RevisionInv
    <2>2. \A z \in releases' : z.rev \in 1 .. revision'
      BY <1>1, <1>4, <1>7, <2>1
    <2>3. \A z \in releases : z.rev # y.rev
      BY <1>1, <1>7, <2>1
    <2>4. \A z, w \in releases' : z.rev = w.rev => z = w
      BY <1>7, <2>3 DEF PointerInv, RevisionInv
    <2>5. ASSUME NEW i \in 1 .. revision' PROVE \E z \in releases' : z.rev = i
      BY <1>1, <1>4, <1>7, <2>5 DEF PointerInv, RevisionInv
    <2>. QED
      BY <2>2, <2>4, <2>5 DEF RevisionInv
  <1>8. \A s : Intended(s)' = Intended(s)
    BY <1>4 DEF Intended
  <1>9. ASSUME NEW q \in Publishers, q # p, work[q].pc = "reread"
        PROVE  Outrun(q)'
    <2>1. CASE Outrun(q)
      BY <1>4, <1>9, <2>1 DEF Outrun
    <2>2. CASE ~Released(work[q].run)
      <3>1. /\ work[q].run \in Runs /\ Intended(work[q].run) = work[q].tables
            /\ work[q].tables # {} /\ work[q].tables \subseteq Tables
        BY <1>1, <1>9 DEF CatalogInv, CatalogBusy, OwnInv, EntryInv, Work
      <3>2. Intended(r) = work[p].tables /\ work[p].tables # {} /\ work[p].todo = {}
        BY <1>2 DEF OwnInv, EntryInv
      <3>3. work[q].run = r
        BY <1>2, <1>3, <2>2, <3>1, <3>2 DEF OwnInv, Pending
      <3>4. \A t \in work[q].tables : Touched(work[q].run, t)
        BY <1>2, <3>1, <3>2, <3>3 DEF Touched, Wrote
      <3>5. \A t \in work[q].tables :
              ~work[q].entry[t].done /\ main[t].snap > work[q].entry[t].snap
        BY <1>9, <3>4 DEF PointerInv, RaceInv
      <3>. QED
        BY <1>4, <1>9, <3>5 DEF Outrun
    <2>. QED
      BY <1>9, <2>1, <2>2 DEF PointerInv, VersionInv, CommittedCall
  <1>10. ASSUME NEW q \in Publishers PROVE VersionInv(q)'
    BY <1>4, <1>6, <1>9, <1>10 DEF VersionInv, FreshCall, CommittedCall
  <1>11. ASSUME NEW q \in Publishers PROVE DoneIntended(q)'
    BY <1>4, <1>6, <1>8 DEF PointerInv, DoneIntended, Intended
  <1>12. ASSUME NEW s, NEW t \in Tables, Touched(s, t)' PROVE Touched(s, t)
    BY <1>4, <1>6, <1>12 DEF Touched, Wrote
  <1>13. ASSUME NEW q \in Publishers PROVE RaceInv(q)'
    <2>1. CASE q = p
      BY <1>6, <2>1 DEF RaceInv
    <2>2. CASE q # p
      <3>1. work'[q] = work[q] /\ work[q].tables \subseteq Tables
        BY <1>1, <1>4, <2>2 DEF Work
      <3>2. \A t \in work[q].tables : Touched(work[q].run, t)' => Touched(work[q].run, t)
        BY <1>12, <3>1 DEF Touched, Wrote
      <3>. QED
        BY <1>4, <3>1, <3>2 DEF PointerInv, RaceInv, Touched, Wrote
    <2>. QED
      BY <2>1, <2>2
  <1>. QED
    BY <1>3, <1>4, <1>5, <1>7, <1>10, <1>11, <1>13 DEF PointerInv

LEMMA CatalogPointer ==
    ASSUME CatalogInv, RowsInv, OwnInv, PointerInv, CatalogOperation
    PROVE  PointerInv'
  <1>1. ASSUME NEW p \in Publishers, OngoingCall(p) PROVE PointerInv'
    <2>1. CASE \/ IntentRefused(p) \/ ReceiptRefused(p) \/ CallFails(p)
               \/ \E t \in Tables : PrepareRefused(p, t) \/ OverwriteRefused(p, t)
      <3>1. Raise(p)
        BY <2>1 DEF IntentRefused, ReceiptRefused, CallFails, PrepareRefused,
                    OverwriteRefused
      <3>. QED
        BY <3>1, QuietCallPointer
    <2>. QED
      BY <1>1, <2>1, QuietCallPointer, IntendPointer, OverwritePointer,
         ReceiptPointer DEF OngoingCall
  <1>2. CASE CallOperation
    BY <1>1, <1>2, BeginPointer DEF CallOperation
  <1>. QED
    BY <1>2, OutsidePointer DEF CatalogOperation

LEMMA StepPointer ==
    ASSUME SnapshotInv, PointerInv, [Next]_wapVars
    PROVE  PointerInv'
  <1>. USE DEF SnapshotInv
  <1>1. CASE UNCHANGED snapVars
    <2>1. UNCHANGED << main, intent, releases, revision, current, work >>
      BY <1>1 DEF snapVars
    <2>2. PICK p : p \notin Publishers
      BY SnapshotConstants
    <2>3. \A t \in Tables : main[t].snap \in Nat
      BY Numbers DEF TypeInv
    <2>. QED
      BY <2>1, <2>2, <2>3, QuietPointer DEF TypeInv
  <1>2. CatalogOperation \/ UNCHANGED snapVars
    BY StepCases DEF CleanupReplace, wapVars, snapVars
  <1>. QED
    BY <1>1, <1>2, CatalogPointer, StepOwn DEF TypeInv

-----------------------------------------------------------------------------
(* The seal.  The report of a run carries the revision its launch was      *)
(* sealed on or, once it was replaced without being read, none, and so     *)
(* does what an evaluation or the cleanup sensor has read of it.  A call   *)
(* of the sensor is made for an approved run on the sealed revision.       *)
SealInv ==
    /\ \A r \in SensorRuns :
         /\ seal[r] # None => seal[r] <= revision
         /\ verdict[r] # "open" => seal[r] # None
         /\ rep[r].launch \in {None, seal[r]}
    /\ tick.pc # "idle" =>
         /\ verdict[tick.run] = "approved"
         /\ tick.prior.launch \in {None, seal[tick.run]}
         /\ tick.pc \in {"outbox", "call"} => tick.prior.launch # None
    /\ \A p \in Publishers :
         work[p].pc # "idle" /\ work[p].run \in SensorRuns =>
            /\ verdict[work[p].run] = "approved"
            /\ seal[work[p].run] = work[p].rev
    /\ cleaner.run \in SensorRuns =>
         cleaner.rep.launch \in {None, seal[cleaner.run]}

LEMMA InitSeal == WapInit => SealInv
  <1>. SUFFICES ASSUME WapInit PROVE SealInv
    OBVIOUS
  <1>1. \A r \in SensorRuns :
          rep[r] = NoReport /\ verdict[r] = "open" /\ seal[r] = None
    BY SnapshotWapConstants DEF WapInit
  <1>2. \A p \in Publishers : work[p] = IdleWork
    BY DEF WapInit, SnapInit
  <1>3. cleaner.run = None /\ None \notin SensorRuns
    BY SnapshotConstants, SnapshotWapConstants DEF WapInit, IdleCleaner
  <1>4. NoReport.launch = None /\ IdleWork.pc = "idle" /\ tick.pc = "idle"
    BY IdleFacts DEF NoReport, WapInit
  <1>. QED
    BY <1>1, <1>2, <1>3, <1>4 DEF SealInv

(* What the evaluation is about after a step.                              *)
TickReads ==
    tick'.pc # "idle" =>
        \/ /\ tick.pc # "idle"
           /\ tick'.run = tick.run /\ tick'.prior = tick.prior
           /\ tick'.pc \in {"outbox", "call"} =>
                tick.pc \in {"outbox", "call"} \/ tick.prior.launch # None
        \/ /\ tick'.run \in SensorRuns /\ verdict[tick'.run] = "approved"
           /\ tick'.prior.launch \in {None, rep[tick'.run].launch}
           /\ tick'.pc = "decide"

LEMMA ReportSeal ==
    ASSUME TypeInv, ReportOperation
    PROVE  /\ TickReads
           /\ \/ /\ UNCHANGED seal
                 /\ \A r \in Runs : rep'[r].launch \in {None, rep[r].launch}
              \/ \E r \in SensorRuns : Launch(r)
           /\ \/ UNCHANGED verdict
              \/ \E r \in Runs, v \in {"approved", "rejected"} : Decide(r, v)
  <1>. USE DEF reportVars
  <1>0. /\ rep \in [Runs -> Report] /\ tick \in Tick
        /\ tick.pc # "idle" => tick.run \in Runs
        /\ IdleTick.pc = "idle"
    BY IdleFacts, SnapshotWapConstants DEF TypeInv, ReportInv
  <1>1. ASSUME NEW r \in Runs, Launch(r)
        PROVE  r \in SensorRuns /\ UNCHANGED << verdict, tick >>
    BY <1>1 DEF Launch
  <1>2. ASSUME NEW r \in Runs, NEW v \in {"approved", "rejected"}, Decide(r, v)
        PROVE  UNCHANGED << seal, rep, tick >>
    BY <1>2 DEF Decide
  <1>3. ASSUME NEW r \in SensorRuns, NEW rev \in Revision,
               NEW readable \in BOOLEAN, TickRead(r, rev, readable)
        PROVE  UNCHANGED << seal, rep, verdict >> /\ TickReads
    BY <1>3 DEF TickRead, TickReads, ReadBack, NoReport
  <1>4. \A pc : /\ [tick EXCEPT !.pc = pc].pc = pc
                /\ [tick EXCEPT !.pc = pc].run = tick.run
                /\ [tick EXCEPT !.pc = pc].prior = tick.prior
    BY <1>0 DEF Tick
  <1>5. ASSUME NEW resolved \in BOOLEAN, TickDecide(resolved)
        PROVE  UNCHANGED << seal, rep, verdict >> /\ TickReads
    <2>1. /\ UNCHANGED << seal, rep, verdict >> /\ tick.pc # "idle"
          /\ tick'.run = tick.run /\ tick'.prior = tick.prior
          /\ \/ tick'.pc = "outbox" /\ MayPromote(resolved)
             \/ tick'.pc \in {"clean", "deleted"}
      BY <1>4, <1>5 DEF TickDecide
    <2>. QED
      BY <2>1 DEF TickReads, MayPromote
  <1>6. ASSUME NEW r \in Runs, NEW payload, rep' = [rep EXCEPT ![r] = payload],
               payload.launch = None \/ payload.launch = rep[r].launch
        PROVE  \A s \in Runs : rep'[s].launch \in {None, rep[s].launch}
    <2>1. \A s \in Runs : rep'[s] = IF s = r THEN payload ELSE rep[s]
      BY <1>0, <1>6
    <2>. QED
      BY <1>6, <2>1
  <1>7. ASSUME NEW readable \in BOOLEAN, WriteOperation(readable)
        PROVE  /\ \A r \in Runs : rep'[r].launch \in {None, rep[r].launch}
               /\ UNCHANGED << seal, verdict >> /\ TickReads
    <2>1. /\ UNCHANGED << seal, verdict >>
          /\ \/ EarlyWrite /\ UNCHANGED tick
             \/ LastWrite(readable) /\ tick.pc # "idle" /\ tick' = IdleTick
             \/ GoingWrite(readable) /\ tick.pc # "idle"
      BY <1>7, WriteTypes DEF writeVars
    <2>2. TickReads
      <3>1. CASE TickOutbox(readable)
        BY <1>4, <3>1 DEF TickOutbox, TickReads
      <3>2. CASE TickMerged(readable) \/ TickDeleted(readable) \/ TickFinal(readable)
        <4>1. PICK pc \in {"clean", "final", "tag"} : tick' = [tick EXCEPT !.pc = pc]
          BY <3>2 DEF TickMerged, TickDeleted, TickFinal
        <4>2. tick.pc # "idle"
          BY <3>2 DEF TickMerged, TickDeleted, TickFinal
        <4>. QED
          BY <1>4, <4>1, <4>2 DEF TickReads
      <3>3. CASE GoingWrite(readable)
        BY <3>1, <3>2, <3>3 DEF GoingWrite
      <3>4. CASE EarlyWrite /\ UNCHANGED tick
        <4>1. tick.pc = "idle"
          BY <3>4 DEF EarlyWrite, TickNoted, TickChecksFailed
        <4>. QED
          BY <3>4, <4>1 DEF TickReads
      <3>. QED
        BY <1>0, <2>1, <3>3, <3>4 DEF TickReads
    <2>3. CASE EarlyWrite
      <3>1. PICK r \in Runs : TickNoted(r) \/ TickChecksFailed(r)
        BY <2>3, SnapshotWapConstants DEF EarlyWrite
      <3>2. CASE TickNoted(r)
        BY <1>6, <2>1, <2>2, <3>2 DEF TickNoted, Store, NoReport
      <3>3. CASE TickChecksFailed(r)
        <4>1. PICK payload : payload = [rep[r] EXCEPT !.before = None]
          OBVIOUS
        <4>2. rep[r] \in Report
          BY <1>0
        <4>3. payload.launch = rep[r].launch
          BY <4>1, <4>2 DEF Report
        <4>4. rep' = [rep EXCEPT ![r] = payload]
          BY <3>3, <4>1 DEF TickChecksFailed, Store
        <4>. QED
          BY <1>6, <2>1, <2>2, <4>3, <4>4
      <3>. QED
        BY <2>1, <2>2, <3>1, <3>2, <3>3
    <2>4. CASE tick.pc # "idle"
      <3>1. PICK r \in Runs : r = tick.run
        BY <1>0, <2>4
      <3>2. PICK x \in Report : x = ReadBack(r, readable)
        BY ReadBackType DEF TypeInv
      <3>9. x.launch = None \/ x.launch = rep[r].launch
        BY <3>2 DEF ReadBack, NoReport
      <3>3. ASSUME NEW payload, Store(r, payload, readable),
                   payload.launch = x.launch
            PROVE  \A s \in Runs : rep'[s].launch \in {None, rep[s].launch}
        BY <1>6, <3>3, <3>9 DEF Store
      <3>4. PICK y \in Report : y = MergedReport(readable) /\ y.launch = x.launch
        <4>1. tick.rev \in Revision /\ "merged" \in MergeStates
          BY <1>0 DEF Tick, MergeStates
        <4>2. MergedReport(readable) = [x EXCEPT !.merge = "merged", !.before = tick.rev]
          BY <3>1, <3>2 DEF MergedReport
        <4>3. MergedReport(readable) \in Report
          BY <3>2, <4>1, <4>2 DEF Report
        <4>4. MergedReport(readable).launch = x.launch
          BY <3>2, <4>2 DEF Report
        <4>. QED
          BY <4>3, <4>4
      <3>5. CASE \/ TickMerged(readable) \/ TickDeleted(readable)
                 \/ TickFinal(readable) \/ TickRetained(readable)
        <4>1. PICK payload :
                /\ payload \in {y, [y EXCEPT !.deleted = TRUE],
                                [y EXCEPT !.deleted = FALSE],
                                [y EXCEPT !.deleted = TRUE, !.review = FALSE]}
                /\ Store(r, payload, readable)
          BY <3>1, <3>4, <3>5 DEF TickMerged, TickDeleted, TickFinal, TickRetained
        <4>2. payload.launch = y.launch
          BY <4>1 DEF Report
        <4>. QED
          BY <2>1, <2>2, <3>3, <3>4, <4>1, <4>2
      <3>6. CASE \/ TickOutbox(readable) \/ TickFailed(readable)
                 \/ TickGoverned(readable) \/ TickReview(readable)
        <4>1. PICK payload :
                /\ payload \in {[x EXCEPT !.merge = "merge_started", !.before = tick.rev],
                                [x EXCEPT !.before = tick.rev],
                                [x EXCEPT !.review = TRUE],
                                [x EXCEPT !.review = TRUE, !.merge = "review_required"]}
                /\ Store(r, payload, readable)
          BY <3>1, <3>2, <3>6 DEF TickOutbox, TickFailed, TickGoverned, TickReview
        <4>2. payload.launch = x.launch
          BY <4>1 DEF Report
        <4>. QED
          BY <2>1, <2>2, <3>3, <4>1, <4>2
      <3>7. ASSUME NEW resolved \in BOOLEAN, TickRefused(resolved, readable)
            PROVE  \A s \in Runs : rep'[s].launch \in {None, rep[s].launch}
        <4>1. PICK before : before = IF Superseded(resolved) THEN tick.prior.before
                                     ELSE x.before
          OBVIOUS
        <4>2. PICK payload : payload = [x EXCEPT !.before = before]
          OBVIOUS
        <4>3. Store(r, payload, readable)
          BY <3>1, <3>2, <3>7, <4>1, <4>2 DEF TickRefused
        <4>4. payload.launch = x.launch
          BY <4>2 DEF Report
        <4>. QED
          BY <3>3, <4>3, <4>4
      <3>8. \/ TickMerged(readable) \/ TickDeleted(readable) \/ TickFinal(readable)
            \/ TickRetained(readable) \/ TickOutbox(readable) \/ TickFailed(readable)
            \/ TickGoverned(readable) \/ TickReview(readable)
            \/ \E resolved \in BOOLEAN : TickRefused(resolved, readable)
            \/ EarlyWrite
        BY <1>7 DEF WriteOperation, LastWrite, GoingWrite
      <3>. QED
        BY <2>1, <2>2, <2>3, <3>5, <3>6, <3>7, <3>8
    <2>. QED
      BY <2>1, <2>3, <2>4
  <1>8. ASSUME TickAnswered \/ TickTag \/ WriteLost
        PROVE  UNCHANGED << seal, rep, verdict >> /\ TickReads
    <2>1. /\ UNCHANGED << seal, rep, verdict >> /\ tick.pc # "idle"
          /\ \/ tick' = IdleTick
             \/ /\ tick'.run = tick.run /\ tick'.prior = tick.prior
                /\ tick'.pc \in {"failed", "merged"}
      <3>1. CASE TickAnswered
        <4>1. PICK pc \in {"failed", "merged"} : tick' = [tick EXCEPT !.pc = pc]
          BY <3>1 DEF TickAnswered
        <4>2. UNCHANGED << seal, rep, verdict >> /\ tick.pc = "call"
          BY <3>1 DEF TickAnswered
        <4>. QED
          BY <1>4, <4>1, <4>2
      <3>2. CASE TickTag \/ WriteLost
        BY <3>2 DEF TickTag, WriteLost
      <3>. QED
        BY <1>8, <3>1, <3>2
    <2>. QED
      BY <1>0, <2>1 DEF TickReads
  <1>. QED
    BY <1>1, <1>2, <1>3, <1>5, <1>7, <1>8 DEF ReportOperation, TickReads

(* Only a receipt writes a release or moves the revision.                  *)
LEMMA LedgerCases ==
    ASSUME CatalogOperation \/ UNCHANGED snapVars
    PROVE  (\E p \in Publishers : Receipt(p)) \/ UNCHANGED << releases, revision >>
  <1>1. ASSUME NEW p \in Publishers, OngoingCall(p)
        PROVE  Receipt(p) \/ UNCHANGED << releases, revision >>
    BY <1>1 DEF OngoingCall, Resume, Intend, IntentRefused, Reread, StartWriting,
                ReceiptRefused, CallFails, Die, Prepare, PrepareRefused,
                Overwrite, OverwriteRefused, DropReleased, Raise, ledgerVars
  <1>2. ASSUME NEW p \in Publishers, NEW r \in Runs, NEW expected \in Revision,
               Begin(p, r, Tables, expected)
        PROVE  UNCHANGED << releases, revision >>
    BY <1>2 DEF Begin, ledgerVars
  <1>3. ASSUME \/ \E t \in Tables : ForeignCommit(t)
               \/ StageOperation \/ LoseLock \/ SweepOperation \/ SensorLost
        PROVE  UNCHANGED << releases, revision >>
    BY <1>3 DEF ForeignCommit, StageOperation, StageRevision, StageBranch, StageAppend,
                StageFails, MergeRows, LoseLock, SweepOperation, OngoingSweep,
                Sweep, CloseCandidates, JanitorDies, DropCandidate,
                DropFails, SensorLost, ledgerVars
  <1>. QED
    BY <1>1, <1>2, <1>3 DEF CatalogOperation, CallOperation, snapVars

(* A step of the whole system, as far as the seal goes.                    *)
LEMMA SealFrame ==
    ASSUME TypeInv, SealInv, PointerInv, Next
    PROVE  /\ TickReads /\ revision <= revision'
           /\ \A r \in SensorRuns :
                /\ \/ seal'[r] = seal[r]
                   \/ seal[r] = None /\ seal'[r] = revision
                /\ rep'[r].launch \in {None, rep[r].launch, seal'[r]}
                /\ \/ verdict'[r] = verdict[r]
                   \/ verdict[r] = "open" /\ seal[r] # None
           /\ cleaner'.run \in SensorRuns =>
                \/ cleaner' = cleaner
                \/ cleaner'.rep.launch \in {None, rep[cleaner'.run].launch}
  <1>0. /\ rep \in [Runs -> Report] /\ tick \in Tick /\ revision \in Nat
        /\ seal \in [Runs -> Revision]
        /\ IdleTick.pc = "idle" /\ None \notin SensorRuns /\ SensorRuns \subseteq Runs
    BY IdleFacts, SnapshotWapConstants, SnapshotConstants
       DEF TypeInv, ReportInv, CatalogInv, CatalogTypes
  <1>1. CASE ReportOperation /\ UNCHANGED << snapVars, cleanVars >>
    <2>1. UNCHANGED << revision, cleaner >>
      BY <1>1 DEF snapVars, cleanVars
    <2>2. ASSUME NEW r \in SensorRuns, Launch(r), NEW s \in SensorRuns
          PROVE  /\ \/ seal'[s] = seal[s]
                    \/ seal[s] = None /\ seal'[s] = revision
                 /\ rep'[s].launch \in {None, rep[s].launch, seal'[s]}
      BY <1>0, <2>2 DEF Launch, Report
    <2>3. ASSUME NEW r \in Runs, NEW v \in {"approved", "rejected"}, Decide(r, v),
                 NEW s \in SensorRuns
          PROVE  \/ verdict'[s] = verdict[s]
                 \/ verdict[s] = "open" /\ seal[s] # None
      BY <2>3 DEF Decide
    <2>. QED
      BY <1>0, <1>1, <2>1, <2>2, <2>3, ReportSeal
  <1>2. CASE CleanupReplace
    <2>1. /\ UNCHANGED << revision, seal, verdict, tick >> /\ cleaner' = IdleCleaner
          /\ cleaner'.run = None
          /\ \A r \in SensorRuns : rep'[r] = IF r = cleaner.run THEN cleaner.rep ELSE rep[r]
      BY <1>0, <1>2 DEF CleanupReplace, snapVars, writeVars, IdleCleaner
    <2>. QED
      BY <1>0, <2>1 DEF SealInv, TickReads
  <1>3. CASE /\ UNCHANGED reportVars
             /\ CleanKeeps
             /\ CatalogOperation \/ UNCHANGED snapVars
             /\ TickFollows \/ TickClean
    <2>1. UNCHANGED << seal, rep, verdict >>
      BY <1>3 DEF reportVars
    <2>2. revision <= revision'
      <3>1. ASSUME NEW p \in Publishers, Receipt(p) PROVE revision <= revision'
        <4>1. revision' = IF work[p].rev + 1 > revision THEN work[p].rev + 1
                          ELSE revision
          BY <3>1 DEF Receipt
        <4>2. work[p].pc = "receipt" /\ p \in current
          BY <3>1 DEF Receipt
        <4>3. work[p].rev = revision
          BY <4>2 DEF PointerInv, VersionInv, CommittedCall, Outrun
        <4>4. revision \in Nat /\ revision + 1 > revision
          BY <1>0
        <4>5. revision' = revision + 1
          BY <4>1, <4>3, <4>4
        <4>. QED
          BY <4>4, <4>5
      <3>2. (\E p \in Publishers : Receipt(p)) \/ UNCHANGED revision
        BY <1>3, LedgerCases
      <3>. QED
        BY <1>0, <3>1, <3>2
    <2>3. TickReads
      BY <1>0, <1>3 DEF TickFollows, TickClean, TickReads, Tick
    <2>4. cleaner'.run \in SensorRuns =>
                \/ cleaner' = cleaner
                \/ cleaner'.rep.launch \in {None, rep[cleaner'.run].launch}
      BY <1>3 DEF CleanKeeps, ReadBack, NoReport
    <2>. QED
      BY <2>1, <2>2, <2>3, <2>4
  <1>. QED
    BY <1>1, <1>2, <1>3, StepCases

LEMMA StepSeal ==
    ASSUME TypeInv, PointerInv, SealInv, [Next]_wapVars
    PROVE  SealInv'
  <1>1. CASE UNCHANGED wapVars
    BY <1>1 DEF wapVars, SealInv
  <1>2. CASE Next
    <2>0. /\ \A r \in Runs : seal[r] \in Revision
          /\ revision \in Nat /\ revision' \in Nat /\ None \notin SensorRuns
      BY <1>2, StepType, SnapshotConstants, SnapshotWapConstants
         DEF TypeInv, ReportInv, CatalogInv, CatalogTypes
    <2>1. ASSUME NEW r \in SensorRuns
          PROVE  /\ seal'[r] # None => seal'[r] <= revision'
                 /\ verdict'[r] # "open" => seal'[r] # None
                 /\ rep'[r].launch \in {None, seal'[r]}
                 /\ verdict[r] # "open" => verdict'[r] = verdict[r]
                 /\ seal[r] # None => seal'[r] = seal[r]
      <3>1. seal[r] \in Revision
        BY <2>0, SnapshotWapConstants
      <3>. QED
        BY <1>2, <2>0, <3>1, SealFrame DEF SealInv, Revision
    <2>2. tick'.pc # "idle" =>
            /\ verdict'[tick'.run] = "approved"
            /\ tick'.prior.launch \in {None, seal'[tick'.run]}
            /\ tick'.pc \in {"outbox", "call"} => tick'.prior.launch # None
      <3>1. tick.pc # "idle" => tick.run \in SensorRuns
        BY DEF TypeInv, ReportInv
      <3>. QED
        BY <1>2, <2>1, <3>1, SealFrame DEF SealInv, TickReads
    <2>3. ASSUME NEW p \in Publishers, work'[p].pc # "idle",
                 work'[p].run \in SensorRuns
          PROVE  /\ verdict'[work'[p].run] = "approved"
                 /\ seal'[work'[p].run] = work'[p].rev
      <3>1. CASE /\ work[p].pc # "idle"
                 /\ work'[p].run = work[p].run /\ work'[p].rev = work[p].rev
        BY <2>1, <2>3, <3>1 DEF SealInv
      <3>2. CASE /\ work'[p].rev = revision
                 /\ tick.pc = "call" /\ work'[p].run = tick.run
                 /\ tick.prior.launch \in {None, revision}
        BY <2>1, <2>3, <3>2 DEF SealInv
      <3>. QED
        BY <1>2, <2>3, <3>1, <3>2, CallsBegin
    <2>4. cleaner'.run \in SensorRuns =>
            cleaner'.rep.launch \in {None, seal'[cleaner'.run]}
      BY <1>2, <2>1, SealFrame DEF SealInv
    <2>. QED
      BY <2>1, <2>2, <2>3, <2>4 DEF SealInv
  <1>. QED
    BY <1>1, <1>2

LEMMA PointerInvariance == Spec => [](SnapshotInv /\ PointerInv /\ SealInv)
  <1>1. WapInit => SnapshotInv /\ PointerInv /\ SealInv
    BY InitCatalog, InitRows, InitOwn, InitPointer, InitSeal DEF SnapshotInv
  <1>2. SnapshotInv /\ PointerInv /\ SealInv /\ [Next]_wapVars =>
          (SnapshotInv /\ PointerInv /\ SealInv)'
    BY StepType, StepRows, StepOwn, StepPointer, StepSeal DEF SnapshotInv
  <1>. QED
    BY <1>1, <1>2, PTL DEF Spec

-----------------------------------------------------------------------------
(* The refinement of WapPublication.  The pointer at a revision never      *)
(* changes once it is written, and a receipt appends one entry to it.      *)
LEMMA UniqueChoice ==
    ASSUME NEW R, \A x, y \in R : x.rev = y.rev => x = y, NEW x \in R
    PROVE  (CHOOSE y \in R : y.rev = x.rev) = x
  <1>1. /\ (CHOOSE y \in R : y.rev = x.rev) \in R
        /\ (CHOOSE y \in R : y.rev = x.rev).rev = x.rev
    BY Zenon
  <1>. QED
    BY <1>1

LEMMA Extended ==
    ASSUME NEW S, NEW o \in S, NEW n \in Nat, NEW f \in [1 .. n -> S],
           NEW g \in [1 .. n + 1 -> S], \A i \in 1 .. n : g[i] = f[i]
    PROVE  /\ << o >> \o g = Append(<< o >> \o f, g[n + 1])
           /\ << o >> \o f \in Seq(S) /\ << o >> \o g \in Seq(S)
           /\ Len(<< o >> \o f) = n + 1 /\ Len(<< o >> \o g) = n + 2
           /\ \A i \in 1 .. n + 1 : (<< o >> \o g)[i] = (<< o >> \o f)[i]
  <1>1. << o >> \in Seq(S) /\ Len(<< o >>) = 1 /\ << o >>[1] = o
    OBVIOUS
  <1>2. f \in Seq(S) /\ Len(f) = n
    BY SeqDef
  <1>3. g \in Seq(S) /\ Len(g) = n + 1 /\ g[n + 1] \in S
    BY SeqDef
  <1>. DEFINE F == << o >> \o f
              G == << o >> \o g
  <1>4. /\ F \in Seq(S) /\ Len(F) = n + 1
        /\ \A i \in 1 .. n + 1 : F[i] = IF i <= 1 THEN << o >>[i] ELSE f[i - 1]
    BY <1>1, <1>2, ConcatProperties
  <1>5. /\ G \in Seq(S) /\ Len(G) = n + 2
        /\ \A i \in 1 .. n + 2 : G[i] = IF i <= 1 THEN << o >>[i] ELSE g[i - 1]
    BY <1>1, <1>3, ConcatProperties
  <1>. HIDE DEF F, G
  <1>6. \A i \in 1 .. n + 1 : G[i] = F[i]
    BY <1>4, <1>5
  <1>7. G[n + 2] = g[n + 1]
    BY <1>5
  <1>. DEFINE H == Append(F, g[n + 1])
  <1>8. /\ H \in Seq(S) /\ Len(H) = n + 2
        /\ H[n + 2] = g[n + 1] /\ \A i \in 1 .. n + 1 : H[i] = F[i]
    BY <1>3, <1>4
  <1>. HIDE DEF H
  <1>9. G = H
    <2>1. \A i \in 1 .. Len(G) : G[i] = H[i]
      BY <1>5, <1>6, <1>7, <1>8
    <2>. QED
      BY <1>5, <1>8, <2>1, SeqEqual
  <1>. QED
    BY <1>4, <1>5, <1>6, <1>9 DEF F, G, H

Entries == SensorRuns \cup {None}

LEMMA PointerShape ==
    ASSUME NEW n \in Nat
    PROVE  Pointer(n) \in Seq(Entries) /\ Len(Pointer(n)) = n + 1
  <1>. DEFINE f == [i \in 1 .. n |-> ReleaseOwner(i)]
              g == [i \in 1 .. n + 1 |-> ReleaseOwner(i)]
  <1>1. \A i : ReleaseOwner(i) \in Entries
    BY DEF ReleaseOwner, Entries
  <1>2. /\ f \in [1 .. n -> Entries] /\ g \in [1 .. n + 1 -> Entries]
        /\ None \in Entries /\ \A i \in 1 .. n : g[i] = f[i]
    BY <1>1 DEF Entries
  <1>3. Pointer(n) = << None >> \o f
    BY DEF Pointer
  <1>. HIDE DEF f, g
  <1>. QED
    BY <1>2, <1>3, Extended

LEMMA OwnerIs ==
    ASSUME NEW i, NEW r
    PROVE  /\ (CHOOSE y \in releases : y.rev = i).run = r =>
                ReleaseOwner(i) = IF r \in SensorRuns THEN r ELSE None
           /\ (CHOOSE y \in releases' : y.rev = i).run = r =>
                ReleaseOwner(i)' = IF r \in SensorRuns THEN r ELSE None
  <1>1. ReleaseOwner(i) = IF (CHOOSE y \in releases : y.rev = i).run \in SensorRuns
                          THEN (CHOOSE y \in releases : y.rev = i).run ELSE None
    BY Zenon DEF ReleaseOwner
  <1>2. ReleaseOwner(i)' = IF (CHOOSE y \in releases' : y.rev = i).run \in SensorRuns
                           THEN (CHOOSE y \in releases' : y.rev = i).run ELSE None
    BY Zenon DEF ReleaseOwner
  <1>. QED
    BY <1>1, <1>2

LEMMA OwnersKept ==
    ASSUME RevisionInv, RevisionInv', releases \subseteq releases',
           NEW i \in 1 .. revision
    PROVE  ReleaseOwner(i)' = ReleaseOwner(i)
  <1>1. PICK x \in releases : x.rev = i
    BY DEF RevisionInv
  <1>2. (CHOOSE y \in releases : y.rev = i) = x
    BY <1>1, UniqueChoice DEF RevisionInv
  <1>3. (CHOOSE y \in releases' : y.rev = i) = x
    BY <1>1, UniqueChoice DEF RevisionInv
  <1>4. ReleaseOwner(i) = IF x.run \in SensorRuns THEN x.run ELSE None
    BY <1>2, OwnerIs
  <1>5. ReleaseOwner(i)' = IF x.run \in SensorRuns THEN x.run ELSE None
    BY <1>3, OwnerIs
  <1>. QED
    BY <1>4, <1>5

LEMMA PointerKept ==
    ASSUME RevisionInv, RevisionInv', releases \subseteq releases', revision \in Nat,
           NEW n \in Nat, n <= revision
    PROVE  Pointer(n)' = Pointer(n)
  <1>1. \A i \in 1 .. n : ReleaseOwner(i)' = ReleaseOwner(i)
    BY OwnersKept
  <1>2. [i \in 1 .. n |-> ReleaseOwner(i)'] = [i \in 1 .. n |-> ReleaseOwner(i)]
    BY <1>1
  <1>. QED
    BY <1>2 DEF Pointer

LEMMA PointerMoves ==
    ASSUME RevisionInv, RevisionInv', releases \subseteq releases',
           NEW n \in Nat, n = revision, revision' = n + 1,
           NEW x \in releases', x.rev = n + 1
    PROVE  /\ Pointer(revision)' =
                Append(Pointer(revision), IF x.run \in SensorRuns THEN x.run ELSE None)
           /\ Pointer(revision)' \in Seq(Entries)
           /\ Len(Pointer(revision)) <= Len(Pointer(revision)')
           /\ \A i \in 1 .. Len(Pointer(revision)) :
                Pointer(revision)[i] = (Pointer(revision)')[i]
  <1>. DEFINE f == [i \in 1 .. n |-> ReleaseOwner(i)]
              g == [i \in 1 .. n + 1 |-> ReleaseOwner(i)']
  <1>1. \A i : ReleaseOwner(i) \in Entries /\ ReleaseOwner(i)' \in Entries
    BY DEF ReleaseOwner, Entries
  <1>2. \A i \in 1 .. n : ReleaseOwner(i)' = ReleaseOwner(i)
    BY OwnersKept
  <1>3. /\ f \in [1 .. n -> Entries] /\ g \in [1 .. n + 1 -> Entries]
        /\ None \in Entries /\ n \in Nat /\ \A i \in 1 .. n : g[i] = f[i]
    BY <1>1, <1>2 DEF Entries
  <1>4. Pointer(revision) = << None >> \o f
    BY DEF Pointer
  <1>5. Pointer(revision)' = << None >> \o g
    BY DEF Pointer
  <1>6. g[n + 1] = IF x.run \in SensorRuns THEN x.run ELSE None
    <2>1. (CHOOSE y \in releases' : y.rev = n + 1) = x
      BY UniqueChoice DEF RevisionInv
    <2>2. g[n + 1] = ReleaseOwner(n + 1)'
      BY <1>3
    <2>3. ReleaseOwner(n + 1)' = IF x.run \in SensorRuns THEN x.run ELSE None
      BY <2>1, OwnerIs
    <2>. QED
      BY <2>2, <2>3
  <1>. HIDE DEF f, g
  <1>7. /\ << None >> \o g = Append(<< None >> \o f, g[n + 1])
        /\ << None >> \o g \in Seq(Entries)
        /\ Len(<< None >> \o f) = n + 1 /\ Len(<< None >> \o g) = n + 2
        /\ \A i \in 1 .. n + 1 : (<< None >> \o g)[i] = (<< None >> \o f)[i]
    BY <1>3, Extended
  <1>8. /\ Pointer(revision)' = Append(Pointer(revision), g[n + 1])
        /\ Pointer(revision)' \in Seq(Entries)
        /\ Len(Pointer(revision)) = n + 1 /\ Len(Pointer(revision)') = n + 2
        /\ \A i \in 1 .. n + 1 : (Pointer(revision)')[i] = Pointer(revision)[i]
    BY <1>4, <1>5, <1>7
  <1>9. n + 1 <= n + 2
    BY <1>3
  <1>. QED
    BY <1>6, <1>8, <1>9

LEMMA InitRefines == WapInit => Pub!Init
  <1>. SUFFICES ASSUME WapInit PROVE Pub!Init
    OBVIOUS
  <1>1. revision = 0 /\ releases = {}
    BY DEF WapInit, SnapInit
  <1>2. Pointer(revision) = << None >>
    <2>. DEFINE f == [i \in 1 .. 0 |-> ReleaseOwner(i)]
    <2>1. f \in Seq({None}) /\ Len(f) = 0
      BY SeqDef
    <2>. HIDE DEF f
    <2>2. f = << >>
      BY <2>1, EmptySeq
    <2>3. << None >> \o << >> = << None >>
      BY ConcatEmptySeq
    <2>4. Pointer(0) = << None >> \o f
      BY DEF Pointer, f
    <2>. QED
      BY <1>1, <2>2, <2>3, <2>4
  <1>3. \A r \in SensorRuns : seal[r] = None /\ verdict[r] = "open"
    BY SnapshotWapConstants DEF WapInit
  <1>. QED
    BY <1>1, <1>2, <1>3 DEF Pub!Init, Pub!NoHash

LEMMA SamePointer ==
    ASSUME UNCHANGED releases, NEW n
    PROVE  Pointer(n)' = Pointer(n)
  <1>1. ASSUME NEW i PROVE ReleaseOwner(i)' = ReleaseOwner(i)
    <2>1. PICK r : r = (CHOOSE y \in releases : y.rev = i).run
      BY Zenon
    <2>2. r = (CHOOSE y \in releases' : y.rev = i).run
      BY <2>1
    <2>. QED
      BY <2>1, <2>2, OwnerIs, Zenon
  <1>2. [i \in 1 .. n |-> ReleaseOwner(i)'] = [i \in 1 .. n |-> ReleaseOwner(i)]
    BY <1>1
  <1>. QED
    BY <1>2 DEF Pointer

(* The sealed bases and the publications, as the abstract module sees them.*)
Base(r) == IF seal[r] = None THEN << >> ELSE Pointer(seal[r])

Publication(x) == [run  |-> x.run,
                   from |-> Pointer(x.rev - 1),
                   to   |-> Pointer(x.rev)]

LEMMA BaseKept ==
    ASSUME NEW r \in SensorRuns, NEW l \in Revision,
           seal[r] = l, seal'[r] = l,
           l # None => Pointer(l)' = Pointer(l)
    PROVE  Base(r)' = Base(r)
  <1>1. CASE l = None
    BY <1>1 DEF Base
  <1>2. CASE l # None
    <2>1. Base(r) = Pointer(l)
      BY <1>2 DEF Base
    <2>2. Base(r)' = Pointer(l)'
      BY <1>2 DEF Base, Pointer
    <2>. QED
      BY <1>2, <2>1, <2>2
  <1>. QED
    BY <1>1, <1>2

(* A step that moves neither the pointer nor a launch.                     *)
LEMMA SameTarget ==
    ASSUME TypeInv, UNCHANGED << releases, revision >>
    PROVE  /\ Pointer(revision)' = Pointer(revision)
           /\ \A x : Publication(x)' = Publication(x)
           /\ \A r \in SensorRuns : seal'[r] = seal[r] => Base(r)' = Base(r)
  <1>1. \A n : Pointer(n)' = Pointer(n)
    BY SamePointer
  <1>2. Pointer(revision)' = Pointer(revision)
    <2>1. ASSUME NEW n, n = revision PROVE Pointer(revision)' = Pointer(n)
      <3>1. Pointer(revision)' = Pointer(n)'
        BY <2>1 DEF Pointer
      <3>. QED
        BY <1>1, <3>1
    <2>. QED
      BY <2>1
  <1>3. ASSUME NEW x PROVE Publication(x)' = Publication(x)
    BY <1>1 DEF Publication
  <1>4. ASSUME NEW r \in SensorRuns, seal'[r] = seal[r]
        PROVE  Base(r)' = Base(r)
    <2>1. PICK l \in Revision : l = seal[r]
      BY SnapshotWapConstants DEF TypeInv, ReportInv
    <2>. QED
      BY <1>1, <1>4, <2>1, BaseKept
  <1>. QED
    BY <1>2, <1>3, <1>4

AbsBase == [r \in SensorRuns |-> Base(r)]
AbsVerdict == [r \in SensorRuns |-> verdict[r]]
AbsPublished == {Publication(x) : x \in {y \in releases : y.run \in SensorRuns}}

LEMMA QuietRefines ==
    ASSUME TypeInv, UNCHANGED << releases, revision >>,
           \A r \in SensorRuns : seal'[r] = seal[r] /\ verdict'[r] = verdict[r]
    PROVE  UNCHANGED Pub!absVars
  <1>1. /\ Pointer(revision)' = Pointer(revision)
        /\ \A x : Publication(x)' = Publication(x)
        /\ \A r \in SensorRuns : Base(r)' = Base(r)
    BY SameTarget
  <1>2. AbsBase' = AbsBase /\ AbsVerdict' = AbsVerdict
    BY <1>1 DEF AbsBase, AbsVerdict
  <1>3. AbsPublished' = AbsPublished
    BY <1>1 DEF AbsPublished
  <1>. QED
    BY <1>1, <1>2, <1>3
       DEF Pub!absVars, AbsBase, AbsVerdict, AbsPublished, Base, Publication

(* The pointer a launch seals is the current one.                          *)
LEMMA SealRefines ==
    ASSUME TypeInv, NEW r \in SensorRuns, Launch(r)
    PROVE  Pub!Next \/ UNCHANGED Pub!absVars
  <1>1. /\ UNCHANGED << releases, revision, verdict >>
        /\ seal[r] = None /\ seal'[r] = revision
        /\ \A s \in SensorRuns : s # r => seal'[s] = seal[s]
    BY SnapshotWapConstants DEF Launch, snapVars, TypeInv, ReportInv
  <1>2. /\ Pointer(revision)' = Pointer(revision)
        /\ \A x : Publication(x)' = Publication(x)
        /\ \A s \in SensorRuns : s # r => Base(s)' = Base(s)
    BY <1>1, SameTarget
  <1>3. CASE revision = None
    BY <1>1, <1>3, QuietRefines
  <1>4. CASE revision # None
    <2>1. Base(r)' = Pointer(revision)
      <3>1. Base(r)' = Pointer(revision)'
        BY <1>1, <1>4 DEF Base, Pointer
      <3>. QED
        BY <1>2, <3>1
    <2>2. AbsBase' = [AbsBase EXCEPT ![r] = Pointer(revision)]
      BY <1>2, <2>1 DEF AbsBase
    <2>3. AbsBase[r] = << >>
      BY <1>1 DEF AbsBase, Base
    <2>4. AbsVerdict' = AbsVerdict /\ AbsPublished' = AbsPublished
      BY <1>1, <1>2 DEF AbsVerdict, AbsPublished
    <2>5. Pub!Seal(r)
      BY <1>2, <2>2, <2>3, <2>4
         DEF Pub!Seal, Pub!NoHash, AbsBase, AbsVerdict, AbsPublished, Base, Publication
    <2>. QED
      BY <2>5 DEF Pub!Next
  <1>. QED
    BY <1>3, <1>4

LEMMA SealedBase ==
    ASSUME TypeInv, NEW r \in SensorRuns, seal[r] # None
    PROVE  Base(r) = Pointer(seal[r]) /\ Base(r) # << >>
  <1>1. seal[r] \in Nat
    BY SnapshotWapConstants DEF TypeInv, ReportInv, Revision
  <1>2. PICK n \in Nat : n = seal[r]
    BY <1>1
  <1>3. Pointer(n) # << >>
    BY PointerShape, EmptySeq
  <1>. QED
    BY <1>2, <1>3 DEF Base

LEMMA DecideRefines ==
    ASSUME TypeInv, NEW r \in Runs, NEW v \in {"approved", "rejected"}, Decide(r, v)
    PROVE  Pub!Next \/ UNCHANGED Pub!absVars
  <1>1. /\ UNCHANGED << releases, revision, seal >>
        /\ seal[r] # None /\ verdict[r] = "open"
        /\ verdict' = [verdict EXCEPT ![r] = v]
        /\ verdict \in [Runs -> {"open", "approved", "rejected"}]
    BY DEF Decide, snapVars, TypeInv, ReportInv
  <1>2. CASE r \notin SensorRuns
    BY <1>1, <1>2, QuietRefines
  <1>3. CASE r \in SensorRuns
    <2>1. /\ Pointer(revision)' = Pointer(revision)
          /\ \A x : Publication(x)' = Publication(x)
          /\ \A s \in SensorRuns : Base(s)' = Base(s)
      BY <1>1, SameTarget
    <2>2. AbsBase' = AbsBase /\ AbsPublished' = AbsPublished
      BY <1>1, <2>1 DEF AbsBase, AbsPublished
    <2>3. AbsVerdict' = [AbsVerdict EXCEPT ![r] = v] /\ AbsVerdict[r] = "open"
      BY <1>1, <1>3, SnapshotWapConstants DEF AbsVerdict
    <2>4. AbsBase[r] # << >>
      BY <1>1, <1>3, SealedBase DEF AbsBase
    <2>5. Pub!Decide(r, v)
      BY <2>1, <2>2, <2>3, <2>4
         DEF Pub!Decide, Pub!NoHash, AbsBase, AbsVerdict, AbsPublished, Base, Publication
    <2>. QED
      BY <1>3, <2>5 DEF Pub!Next
  <1>. QED
    BY <1>2, <1>3

(* A receipt of a run of the sensor is its publication; a receipt of       *)
(* another publisher is a commit of somebody else.                         *)
LEMMA ReceiptRefines ==
    ASSUME SnapshotInv, PointerInv, PointerInv', SealInv, UNCHANGED reportVars,
           NEW p \in Publishers, Receipt(p)
    PROVE  Pub!Next
  <1>. PICK r : r = work[p].run
    OBVIOUS
  <1>0. PICK n \in Nat : n = revision
    BY DEF SnapshotInv, TypeInv, CatalogInv, CatalogTypes
  <1>1. work[p].rev = n /\ revision' = n + 1 /\ work[p].pc = "receipt"
    BY <1>0, ReceiptPointer DEF Receipt, SnapshotInv, TypeInv
  <1>2. PICK x : x.run = r /\ x.rev = n + 1 /\ releases' = releases \cup {x}
    <2>. DEFINE y == [run |-> r, rev |-> n + 1, tables |-> work[p].tables]
    <2>1. y.run = r /\ y.rev = n + 1 /\ releases' = releases \cup {y}
      BY <1>1 DEF Receipt
    <2>. HIDE DEF y
    <2>. QED
      BY <2>1, Zenon
  <1>3. UNCHANGED << seal, verdict >>
    BY DEF reportVars
  <1>4. RevisionInv /\ RevisionInv' /\ releases \subseteq releases' /\ x \in releases'
    BY <1>2 DEF PointerInv
  <1>5. \A m \in Nat : m <= n => Pointer(m)' = Pointer(m)
    BY <1>0, <1>4, PointerKept
  <1>6. /\ Pointer(revision)' =
             Append(Pointer(revision), IF r \in SensorRuns THEN r ELSE None)
        /\ Pointer(revision)' \in Seq(Entries)
        /\ Len(Pointer(revision)) <= Len(Pointer(revision)')
        /\ \A i \in 1 .. Len(Pointer(revision)) :
             Pointer(revision)[i] = (Pointer(revision)')[i]
    BY <1>0, <1>1, <1>2, <1>4, PointerMoves
  <1>7. AbsBase' = AbsBase /\ AbsVerdict' = AbsVerdict
    <2>1. ASSUME NEW s \in SensorRuns PROVE Base(s)' = Base(s)
      <3>1. PICK l \in Revision : l = seal[s]
        BY SnapshotWapConstants DEF SnapshotInv, TypeInv, ReportInv
      <3>2. l # None => l \in Nat /\ l <= n
        BY <1>0, <3>1 DEF SealInv, Revision
      <3>. QED
        BY <1>3, <1>5, <3>1, <3>2, BaseKept
    <2>. QED
      BY <1>3, <2>1 DEF AbsBase, AbsVerdict
  <1>8. ASSUME NEW y \in releases PROVE Publication(y)' = Publication(y)
    <2>1. y.rev \in Nat /\ y.rev - 1 \in Nat /\ y.rev <= n /\ y.rev - 1 <= n
      BY <1>0, <1>4 DEF RevisionInv
    <2>. QED
      BY <1>5, <2>1 DEF Publication
  <1>9. CASE r \notin SensorRuns
    <2>1. AbsPublished' = AbsPublished
      BY <1>2, <1>8, <1>9 DEF AbsPublished
    <2>2. Pub!OtherCommit
      BY <1>6, <1>7, <1>9, <2>1
         DEF Pub!OtherCommit, Pub!CommitOn, AbsBase, AbsVerdict, AbsPublished, Base,
             Publication
    <2>. QED
      BY <2>2 DEF Pub!Next
  <1>10. CASE r \in SensorRuns
    <2>1. verdict[r] = "approved" /\ seal[r] = n /\ n # None
      BY <1>1, <1>10 DEF SealInv
    <2>2. Base(r) = Pointer(revision) /\ Base(r) # << >>
      BY <1>0, <1>10, <2>1, SealedBase DEF SnapshotInv
    <2>3. Publication(x)' = [run |-> r, from |-> Pointer(revision),
                             to |-> Pointer(revision)']
      <3>1. Pointer(x.rev - 1)' = Pointer(n)
        BY <1>2, <1>5
      <3>2. Pointer(x.rev)' = Pointer(revision)'
        BY <1>1, <1>2 DEF Pointer
      <3>. QED
        BY <1>0, <1>2, <3>1, <3>2 DEF Publication
    <2>4. AbsPublished' = AbsPublished \cup {[run |-> r, from |-> Pointer(revision),
                                              to |-> Pointer(revision)']}
      BY <1>2, <1>8, <1>10, <2>3 DEF AbsPublished
    <2>5. Pub!Publish(r)
      <3>1. /\ AbsVerdict[r] = "approved" /\ AbsBase[r] # << >>
            /\ Pointer(revision) = AbsBase[r]
        BY <1>10, <2>1, <2>2 DEF AbsVerdict, AbsBase
      <3>. QED
        BY <1>6, <1>7, <2>4, <3>1
           DEF Pub!Publish, Pub!NoHash, Pub!HasAncestor, Pub!History, Entries,
               AbsBase, AbsVerdict, AbsPublished, Base, Publication
    <2>. QED
      BY <1>10, <2>5 DEF Pub!Next
  <1>. QED
    BY <1>9, <1>10

LEMMA StepRefines ==
    ASSUME SnapshotInv, PointerInv, PointerInv', SealInv, [Next]_wapVars
    PROVE  Pub!Next \/ UNCHANGED Pub!absVars
  <1>0. TypeInv /\ SensorRuns \subseteq Runs /\ rep \in [Runs -> Report]
    BY SnapshotWapConstants DEF SnapshotInv, TypeInv, ReportInv
  <1>1. CASE UNCHANGED wapVars
    BY <1>0, <1>1, QuietRefines DEF wapVars
  <1>2. ASSUME ReportOperation, UNCHANGED snapVars
        PROVE  Pub!Next \/ UNCHANGED Pub!absVars
    <2>1. UNCHANGED << releases, revision >>
      BY <1>2 DEF snapVars
    <2>2. CASE UNCHANGED << verdict, seal >>
      BY <1>0, <2>1, <2>2, QuietRefines
    <2>. QED
      BY <1>0, <1>2, <2>2, ReportSeal, SealRefines, DecideRefines
  <1>3. CASE CleanupReplace
    <2>1. UNCHANGED << releases, revision, verdict, seal >>
      BY <1>3 DEF CleanupReplace, snapVars, writeVars
    <2>. QED
      BY <1>0, <2>1, QuietRefines
  <1>4. ASSUME UNCHANGED reportVars, CatalogOperation \/ UNCHANGED snapVars
        PROVE  Pub!Next \/ UNCHANGED Pub!absVars
    <2>1. UNCHANGED << seal, verdict >>
      BY <1>4 DEF reportVars
    <2>2. CASE UNCHANGED << releases, revision >>
      BY <1>0, <2>1, <2>2, QuietRefines
    <2>. QED
      BY <1>4, <2>2, LedgerCases, ReceiptRefines
  <1>. QED
    BY <1>0, <1>1, <1>2, <1>3, <1>4, StepCases

(* Whatever launches, the sensor, the cleanup sensor and the publishers    *)
(* without a sensor do together, the release pointer behaves as the        *)
(* publication target of the branch strategy: an approved run moves it     *)
(* from where its launch found it by exactly its own release.              *)
THEOREM SnapshotImplementsPublication == Spec => ImplementsPublication
  <1>1. /\ SnapshotInv /\ PointerInv /\ SealInv
        /\ (SnapshotInv /\ PointerInv /\ SealInv)'
        /\ [Next]_wapVars
        => [Pub!Next]_(Pub!absVars)
    BY StepRefines
  <1>2. Spec => Pub!Spec
    BY InitRefines, PointerInvariance, <1>1, PTL DEF Spec, Pub!Spec
  <1>. QED
    BY <1>2 DEF ImplementsPublication
=============================================================================
