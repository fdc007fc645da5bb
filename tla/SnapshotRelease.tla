--------------------------- MODULE SnapshotRelease --------------------------
(***************************************************************************)
(* PolarisSnapshotPromotionCatalog and IcebergReleaseStore: the release    *)
(* ledger, the candidate branches of the Iceberg tables and the calls that *)
(* promote, abort and prune them.  Several callers run at once; every      *)
(* commit to a table or to the ledger is a step of its own, and a caller   *)
(* may die, or lose the database connection that holds the publication     *)
(* lock while it keeps running, between any two of them.                   *)
(***************************************************************************)
EXTENDS Naturals

CONSTANTS
    Runs,        \* logical runs; release_id is the run that is released
    Tables,      \* the Iceberg tables of the warehouse
    Staged,      \* run -> the tables it opens candidates on
    Written,     \* run -> the tables whose candidate it writes rows to
    Foreign,     \* tables that other writers of main commit to
    Publishers,  \* processes that call promote_candidates
    Janitors,    \* processes that call abort_candidates and prune_candidates
    None,        \* no process, no run; also the author of foreign rows
    MayReview,   \* whether second_gold_reviewer may be switched on
    MaxCreated   \* bound on the candidate rows of one run and table

ASSUME SnapshotConstants ==
    /\ None \notin Runs \cup Publishers
    /\ Staged \in [Runs -> SUBSET Tables]
    /\ Written \in [Runs -> SUBSET Tables]
    /\ Foreign \subseteq Tables
    /\ MayReview \in BOOLEAN
    /\ MaxCreated \in Nat

VARIABLES
    main,      \* table -> its current snapshot on main
    ref,       \* run -> table -> tip of the candidate branch, NoTip if none
    stage,     \* run -> create_candidate in progress
    cand,      \* ledger: run -> table -> its latest candidate row
    intent,    \* ledger: run -> table -> tip in its pending promotion rows
    releases,  \* ledger: the release rows and the state row of each release
    revision,  \* ledger: the largest revision of its state rows
    created,   \* run -> table -> candidate rows appended so far
    current,   \* publishers whose ledger version is still the latest one
    lock,      \* holder of the PostgreSQL advisory lock, or None
    work,      \* publisher -> promote_candidates in progress
    jan        \* janitor -> abort_candidates or prune_candidates in progress

ledgerVars == << cand, intent, releases, revision, created >>
snapVars == << main, ref, stage, cand, intent, releases, revision,
               created, current, lock, work, jan >>

-----------------------------------------------------------------------------
(* A row is named after the run that wrote it; None wrote the others.  The *)
(* key deduplication of merge_rows_into_candidate makes a replay a no-op.  *)
Row == Runs \cup {None}

(* A branch tip: the main snapshot it started from and the rows on it.     *)
Tip == [base : Nat, rows : SUBSET Row]
NoTip == [base |-> 0, rows |-> {}]

(* The current snapshot of main.  rel and tip are the snapshot properties  *)
(* phlo.release_id and phlo.candidate_snapshot_id of an overwrite.         *)
Snapshot == [snap : Nat, rows : SUBSET Row, rel : Runs \cup {None}, tip : Tip]

CandStatus == {"none", "open", "aborted", "pruned"}
Candidate == [status : CandStatus, rev : Nat, base : Nat]
NoCand == [status |-> "none", rev |-> 0, base |-> 0]

Open(r) == {t \in Tables : cand[r][t].status = "open"}

(* The rows that one receipt commit appends: one release row per table and *)
(* the state row that moves the release pointer.                           *)
Release == [run : Runs, rev : Nat, tables : SUBSET Tables]

Released(r) == \E x \in releases : x.run = r

(* _pending_promotions                                                     *)
Intended(r) == {t \in Tables : intent[r][t] # NoTip}
Pending == {r \in Runs : Intended(r) # {} /\ ~Released(r)}

(* _prepare_candidates: tip and snap as read, done if main already carries *)
(* this release of this tip.                                               *)
Entry == [tip : Tip, snap : Nat, done : BOOLEAN]
NoEntry == [tip |-> NoTip, snap |-> 0, done |-> FALSE]

WorkPc == {"idle", "prepare", "intent", "reread", "write", "receipt", "drop"}

Work == [pc : WorkPc, run : Runs \cup {None}, tables : SUBSET Tables,
         todo : SUBSET Tables, rev : Nat, resumed : BOOLEAN,
         base : [Tables -> Nat], entry : [Tables -> Entry]]

IdleWork == [pc |-> "idle", run |-> None, tables |-> {}, todo |-> {},
             rev |-> 0, resumed |-> FALSE, base |-> [t \in Tables |-> 0],
             entry |-> [t \in Tables |-> NoEntry]]

StagePc == {"idle", "revision", "branch"}
Stage == [pc : StagePc, table : Tables \cup {None}, rev : Nat, base : Nat]
IdleStage == [pc |-> "idle", table |-> None, rev |-> 0, base |-> 0]

JanPc == {"idle", "drop", "append"}
Jan == [pc : JanPc, run : Runs \cup {None}, status : {"aborted", "pruned"},
        rows : SUBSET Tables, todo : SUBSET Tables, base : [Tables -> Nat],
        failed : BOOLEAN]
IdleJan == [pc |-> "idle", run |-> None, status |-> "aborted", rows |-> {},
            todo |-> {}, base |-> [t \in Tables |-> 0], failed |-> FALSE]

SnapInit ==
    /\ main = [t \in Tables |->
                 [snap |-> 1, rows |-> {}, rel |-> None, tip |-> NoTip]]
    /\ ref = [r \in Runs |-> [t \in Tables |-> NoTip]]
    /\ stage = [r \in Runs |-> IdleStage]
    /\ cand = [r \in Runs |-> [t \in Tables |-> NoCand]]
    /\ intent = [r \in Runs |-> [t \in Tables |-> NoTip]]
    /\ releases = {}
    /\ revision = 0
    /\ created = [r \in Runs |-> [t \in Tables |-> 0]]
    /\ current = {}
    /\ lock = None
    /\ work = [p \in Publishers |-> IdleWork]
    /\ jan = [j \in Janitors |-> IdleJan]

-----------------------------------------------------------------------------
(* Any writer of main that is not a release: one more snapshot, without    *)
(* the release properties.                                                 *)
ForeignCommit(t) ==
    /\ t \in Foreign
    /\ None \notin main[t].rows
    /\ main' = [main EXCEPT ![t] = [snap |-> @.snap + 1,
                                    rows |-> @.rows \cup {None},
                                    rel  |-> None,
                                    tip  |-> NoTip]]
    /\ UNCHANGED << ref, stage, ledgerVars, current, lock, work, jan >>

(* create_candidate: an open row is returned as it is; otherwise the       *)
(* release revision is read first,                                         *)
StageRevision(r, t) ==
    /\ stage[r].pc = "idle"
    /\ t \in Staged[r]
    /\ t \notin Open(r)
    /\ created[r][t] < MaxCreated
    /\ stage' = [stage EXCEPT ![r] = [IdleStage EXCEPT !.pc = "revision",
                                                       !.table = t,
                                                       !.rev = revision]]
    /\ UNCHANGED << main, ref, ledgerVars, current, lock, work, jan >>

(* then the branch is created at the table's current snapshot,             *)
StageBranch(r) ==
    LET t == stage[r].table IN
    /\ stage[r].pc = "revision"
    /\ ref[r][t] = NoTip
    /\ ref' = [ref EXCEPT ![r][t] = [base |-> main[t].snap,
                                     rows |-> main[t].rows]]
    /\ stage' = [stage EXCEPT ![r].pc = "branch",
                              ![r].base = main[t].snap]
    /\ UNCHANGED << main, ledgerVars, current, lock, work, jan >>

(* and the baseline is appended to the ledger under the publication lock.  *)
StageAppend(r) ==
    LET t == stage[r].table IN
    /\ stage[r].pc = "branch"
    /\ lock = None
    /\ cand' = [cand EXCEPT ![r][t] = [status |-> "open",
                                       rev    |-> stage[r].rev,
                                       base   |-> stage[r].base]]
    /\ created' = [created EXCEPT ![r][t] = @ + 1]
    /\ current' = {}
    /\ stage' = [stage EXCEPT ![r] = IdleStage]
    /\ UNCHANGED << main, ref, intent, releases, revision, lock, work, jan >>

(* A branch without a ledger baseline is refused; a staging process dies.  *)
StageFails(r) ==
    /\ stage[r].pc # "idle"
    /\ stage' = [stage EXCEPT ![r] = IdleStage]
    /\ UNCHANGED << main, ref, ledgerVars, current, lock, work, jan >>

(* merge_rows_into_candidate: only rows that are not on the branch.        *)
MergeRows(r, t) ==
    /\ t \in Written[r]
    /\ ref[r][t] # NoTip
    /\ r \notin ref[r][t].rows
    /\ ref' = [ref EXCEPT ![r][t].rows = @ \cup {r}]
    /\ UNCHANGED << main, stage, ledgerVars, current, lock, work, jan >>

-----------------------------------------------------------------------------
(* promote_candidates.  Under the lock it reads the ledger once, and the   *)
(* version it has read guards both ledger commits that follow.             *)
Selected(r, tables) == Open(r) \cap tables

AlreadyReleased(r, tables) ==
    \E x \in releases : x.run = r /\ x.tables \cap tables # {}

(* Seeded defect: an interrupted promotion of another run is overlooked.   *)
RefusedUnlessStale(r, tables, expected) ==
    \/ expected \notin {None, revision}
    \/ /\ ~AlreadyReleased(r, tables)
       /\ \E t \in Selected(r, tables) : cand[r][t].rev # revision

(* The checks before the tables are opened, in order: the expected         *)
(* revision (None when the caller gives none), somebody else's interrupted *)
(* promotion, candidates of an older revision.                             *)
Refused(r, tables, expected) ==
    \/ expected \notin {None, revision}
    \/ /\ ~AlreadyReleased(r, tables)
       /\ \/ Pending \ {r} # {}
          \/ \E t \in Selected(r, tables) : cand[r][t].rev # revision

(* It may begin only when it is neither refused, nor answered from the     *)
(* ledger, nor left without a candidate.                                   *)
Promotable(r, tables, expected) ==
    /\ ~Refused(r, tables, expected)
    /\ ~AlreadyReleased(r, tables)
    /\ Selected(r, tables) # {}

Begin(p, r, tables, expected) ==
    /\ work[p].pc = "idle"
    /\ lock = None
    /\ Promotable(r, tables, expected)
    /\ lock' = p
    /\ current' = current \cup {p}
    /\ work' = [work EXCEPT ![p] =
                  [IdleWork EXCEPT !.pc = "prepare",
                                   !.run = r,
                                   !.tables = Selected(r, tables),
                                   !.todo = Selected(r, tables),
                                   !.rev = revision,
                                   !.resumed = r \in Pending,
                                   !.base = [t \in Tables |-> cand[r][t].base]]]
    /\ UNCHANGED << main, ref, stage, ledgerVars, jan >>

(* The exception leaves the publication lock.                              *)
Unlock(p) == lock' = IF lock = p THEN None ELSE lock

Raise(p) ==
    /\ work' = [work EXCEPT ![p] = IdleWork]
    /\ Unlock(p)
    /\ UNCHANGED << main, ref, stage, ledgerVars, current, jan >>

(* _prepare_candidates, one table after the other: the branch must exist,  *)
(* and main must be the candidate's baseline or carry this very release.   *)
Carries(t, r, tip) == main[t].rel = r /\ main[t].tip = tip

(* Seeded defect: main is not pinned.                                      *)
PreparableUnpinned(p, t) == ref[work[p].run][t] # NoTip

Preparable(p, t) ==
    LET r == work[p].run IN
    /\ ref[r][t] # NoTip
    /\ Carries(t, r, ref[r][t]) \/ main[t].snap = work[p].base[t]

Prepare(p, t) ==
    LET r == work[p].run
        todo == work[p].todo \ {t}
    IN
    /\ work[p].pc = "prepare"
    /\ t \in work[p].todo
    /\ Preparable(p, t)
    /\ work' = [work EXCEPT ![p].entry[t] = [tip  |-> ref[r][t],
                                             snap |-> main[t].snap,
                                             done |-> Carries(t, r, ref[r][t])],
                            ![p].todo = todo,
                            ![p].pc = IF todo = {} THEN "intent" ELSE @]
    /\ UNCHANGED << main, ref, stage, ledgerVars, current, lock, jan >>

PrepareRefused(p, t) ==
    /\ work[p].pc = "prepare"
    /\ t \in work[p].todo
    /\ ~Preparable(p, t)
    /\ Raise(p)

(* A resumed promotion must have exactly the tips of its pending rows.     *)
SameAsIntended(p) ==
    /\ Intended(work[p].run) = work[p].tables
    /\ \A t \in work[p].tables : intent[work[p].run][t] = work[p].entry[t].tip

StartWriting(p) ==
    work' = [work EXCEPT ![p].pc = "write",
                         ![p].todo = work[p].tables,
                         ![p].base = IdleWork.base,
                         ![p].resumed = FALSE]

Resume(p) ==
    /\ work[p].pc = "intent"
    /\ work[p].resumed
    /\ SameAsIntended(p)
    /\ StartWriting(p)
    /\ UNCHANGED << main, ref, stage, ledgerVars, current, lock, jan >>

(* Seeded defect: the pending rows are appended to whatever is there.      *)
IntendUnconditional(p) ==
    /\ work[p].pc = "intent"
    /\ ~work[p].resumed
    /\ intent' = [intent EXCEPT ![work[p].run] =
                    [t \in Tables |-> work[p].entry[t].tip]]
    /\ current' = {}
    /\ work' = [work EXCEPT ![p].pc = "reread"]
    /\ UNCHANGED << main, ref, stage, cand, releases, revision, created, lock,
                    jan >>

(* append_if_unchanged: the pending rows, before any table is written.     *)
Intend(p) ==
    /\ work[p].pc = "intent"
    /\ ~work[p].resumed
    /\ p \in current
    /\ intent' = [intent EXCEPT ![work[p].run] =
                    [t \in Tables |-> work[p].entry[t].tip]]
    /\ current' = {}
    /\ work' = [work EXCEPT ![p].pc = "reread"]
    /\ UNCHANGED << main, ref, stage, cand, releases, revision, created, lock,
                    jan >>

IntentRefused(p) ==
    /\ work[p].pc = "intent"
    /\ IF work[p].resumed THEN ~SameAsIntended(p) ELSE p \notin current
    /\ Raise(p)

Reread(p) ==
    /\ work[p].pc = "reread"
    /\ current' = current \cup {p}
    /\ StartWriting(p)
    /\ UNCHANGED << main, ref, stage, ledgerVars, lock, jan >>

(* Seeded defect: the receipt is written after the first table.            *)
OverwriteFirst(p, t) ==
    LET e == work[p].entry[t] IN
    /\ work[p].pc = "write"
    /\ t \in work[p].todo
    /\ IF e.done THEN UNCHANGED main
       ELSE /\ main[t].snap = e.snap
            /\ main' = [main EXCEPT ![t] = [snap |-> @.snap + 1,
                                            rows |-> e.tip.rows,
                                            rel  |-> work[p].run,
                                            tip  |-> e.tip]]
    /\ work' = [work EXCEPT ![p].todo = {}, ![p].pc = "receipt"]
    /\ UNCHANGED << ref, stage, ledgerVars, current, lock, jan >>

(* One atomic overwrite per table, refused by the catalog when main moved  *)
(* since the table was opened; skipped where main carries the release.     *)
Overwrite(p, t) ==
    LET e == work[p].entry[t]
        todo == work[p].todo \ {t}
    IN
    /\ work[p].pc = "write"
    /\ t \in work[p].todo
    /\ IF e.done THEN UNCHANGED main
       ELSE /\ main[t].snap = e.snap
            /\ main' = [main EXCEPT ![t] = [snap |-> @.snap + 1,
                                            rows |-> e.tip.rows,
                                            rel  |-> work[p].run,
                                            tip  |-> e.tip]]
    /\ work' = [work EXCEPT ![p].todo = todo,
                            ![p].pc = IF todo = {} THEN "receipt" ELSE @]
    /\ UNCHANGED << ref, stage, ledgerVars, current, lock, jan >>

OverwriteRefused(p, t) ==
    /\ work[p].pc = "write"
    /\ t \in work[p].todo
    /\ ~work[p].entry[t].done
    /\ main[t].snap # work[p].entry[t].snap
    /\ Raise(p)

(* One commit closes every member table and advances the release pointer.  *)
Receipt(p) ==
    LET rev == work[p].rev + 1 IN
    /\ work[p].pc = "receipt"
    /\ p \in current
    /\ releases' = releases \cup {[run    |-> work[p].run,
                                   rev    |-> rev,
                                   tables |-> work[p].tables]}
    /\ revision' = IF rev > revision THEN rev ELSE revision
    /\ current' = {}
    /\ work' = [work EXCEPT ![p].pc = "drop",
                            ![p].todo = work[p].tables,
                            ![p].entry = IdleWork.entry]
    /\ UNCHANGED << main, ref, stage, cand, intent, created, lock, jan >>

ReceiptRefused(p) ==
    /\ work[p].pc = "receipt"
    /\ p \notin current
    /\ Raise(p)

(* The branches are dropped after the receipt; a failure is only logged.   *)
DropReleased(p, t, dropped) ==
    LET todo == work[p].todo \ {t} IN
    /\ work[p].pc = "drop"
    /\ t \in work[p].todo
    /\ ref' = IF dropped THEN [ref EXCEPT ![work[p].run][t] = NoTip] ELSE ref
    /\ work' = [work EXCEPT ![p] = IF todo = {} THEN IdleWork
                                   ELSE [@ EXCEPT !.todo = todo]]
    /\ lock' = IF todo = {} /\ lock = p THEN None ELSE lock
    /\ UNCHANGED << main, stage, ledgerVars, current, jan >>

(* A call to the store or the catalog fails, at any step until the receipt *)
(* is acknowledged.                                                        *)
CallFails(p) ==
    /\ work[p].pc # "idle"
    /\ work[p].pc = "drop" => work[p].todo = work[p].tables
    /\ Raise(p)

(* Process failure releases the lock when PostgreSQL closes the connection *)
Die(p) ==
    /\ work[p].pc # "idle"
    /\ work' = [work EXCEPT ![p] = IdleWork]
    /\ Unlock(p)
    /\ UNCHANGED << main, ref, stage, ledgerVars, current, jan >>

(* and so does a connection that is lost while the process goes on.        *)
LoseLock ==
    /\ lock # None
    /\ lock' = None
    /\ UNCHANGED << main, ref, stage, ledgerVars, current, work, jan >>

-----------------------------------------------------------------------------
(* abort_candidates and prune_candidates.  Neither holds the lock while it *)
(* looks for a pending promotion and drops the branches; only the rows     *)
(* that close the candidates are appended under it.  Prune takes the       *)
(* candidates that are old enough and goes on after a failed drop.         *)
Sweep(j, r, status, rows) ==
    /\ jan[j].pc = "idle"
    /\ r \notin Pending
    /\ rows # {} /\ rows \subseteq Open(r)
    /\ status = "aborted" => rows = Open(r)
    /\ jan' = [jan EXCEPT ![j] = [pc |-> "drop", run |-> r, status |-> status,
                                  rows |-> rows, todo |-> rows,
                                  base |-> [t \in Tables |-> cand[r][t].base],
                                  failed |-> FALSE]]
    /\ UNCHANGED << main, ref, stage, ledgerVars, current, lock, work >>

(* Seeded defect: a sweep that failed stays in a state of its own.         *)
AfterDropStuck(j, t, failed) ==
    LET todo == jan[j].todo \ {t} IN
    [jan[j] EXCEPT !.todo = todo,
                   !.failed = failed,
                   !.pc = IF todo # {} THEN "drop"
                          ELSE IF failed THEN "failed" ELSE "append"]

AfterDrop(j, t, failed) ==
    LET todo == jan[j].todo \ {t} IN
    [jan[j] EXCEPT !.todo = todo,
                   !.failed = failed,
                   !.pc = IF todo # {} THEN "drop"
                          ELSE IF failed THEN "idle" ELSE "append"]

DropCandidate(j, t) ==
    /\ jan[j].pc = "drop"
    /\ t \in jan[j].todo
    /\ ref' = [ref EXCEPT ![jan[j].run][t] = NoTip]
    /\ jan' = [jan EXCEPT ![j] = AfterDrop(j, t, jan[j].failed)]
    /\ UNCHANGED << main, stage, ledgerVars, current, lock, work >>

DropFails(j, t) ==
    /\ jan[j].pc = "drop"
    /\ t \in jan[j].todo
    /\ jan' = [jan EXCEPT ![j] = IF jan[j].status = "aborted" THEN IdleJan
                                 ELSE AfterDrop(j, t, TRUE)]
    /\ UNCHANGED << main, ref, stage, ledgerVars, current, lock, work >>

(* The appended row closes the candidate with the same table and baseline. *)
CloseCandidates(j) ==
    LET r == jan[j].run
        Closed == {t \in jan[j].rows : cand[r][t].base = jan[j].base[t]}
    IN
    /\ jan[j].pc = "append"
    /\ lock = None
    /\ cand' = [cand EXCEPT ![r] =
                  [t \in Tables |-> IF t \in Closed
                                    THEN [@[t] EXCEPT !.status = jan[j].status]
                                    ELSE @[t]]]
    /\ current' = {}
    /\ jan' = [jan EXCEPT ![j] = IdleJan]
    /\ UNCHANGED << main, ref, stage, intent, releases, revision, created,
                    lock, work >>

JanitorDies(j) ==
    /\ jan[j].pc # "idle"
    /\ jan' = [jan EXCEPT ![j] = IdleJan]
    /\ UNCHANGED << main, ref, stage, ledgerVars, current, lock, work >>
=============================================================================
