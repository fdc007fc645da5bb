----------------------------- MODULE WapCleanup -----------------------------
(***************************************************************************)
(* wap_branch_cleanup_sensor: deletes branches past the retention period.  *)
(* It runs in another thread than the promotion sensor (dagster.yaml:      *)
(* sensors.use_threads) and shares only the report file with it.  The list *)
(* of branches, the report it inspects, the deletion and the two halves of *)
(* its report write are separate steps.                                    *)
(***************************************************************************)
EXTENDS WapState

UnchangedBySweep == UNCHANGED << target, launchVars, runVars, tagged, aged,
                                 promo, inflight, published >>

SweepNote(payload) == sweep' = [sweep EXCEPT !.pc = "note", !.out = payload]

(* list_branches returned a branch older than the retention cutoff.        *)
SweepList(r) ==
    /\ sweep.pc = "idle"
    /\ r \in aged
    /\ head[r] # NoHash
    /\ sweep' = [IdleSweep EXCEPT !.pc = "listed", !.run = r]
    /\ UNCHANGED << head, queryCat, report >> /\ UnchangedBySweep

Listed(r) == sweep.pc = "listed" /\ sweep.run = r

(* Exactly one Dagster run carries the logical ID and this branch.         *)
OneExactMatch(r) == run[r] # "none" /\ clone[r] = "none"

(* No such run, several, or an active one: retain and record the gap.      *)
SweepGap(r) ==
    /\ Listed(r)
    /\ \/ ~OneExactMatch(r)
       \/ report[r].reg /\ run[r] \notin Terminal
    /\ \E payload \in ReadReport(r) :
         SweepNote([payload EXCEPT !.status = "open"])
    /\ UNCHANGED << head, queryCat, report >> /\ UnchangedBySweep

(* The manifest verifies but the live context drifted: block and retain.   *)
SweepContextInvalid(r) ==
    /\ Listed(r)
    /\ OneExactMatch(r)
    /\ report[r].reg
    /\ \E payload \in ReadReport(r) :
         SweepNote([payload EXCEPT !.status = "open"])
    /\ UNCHANGED << head, queryCat, report >> /\ UnchangedBySweep

(* Retained without a note: the launch does not verify, or the report that *)
(* is read next demands a review or holds an unacknowledged intent.        *)
Retained(rep) == rep.review \/ rep.merge = "merge_started"

SweepSkip(r) ==
    /\ Listed(r)
    /\ OneExactMatch(r)
    /\ ~report[r].reg \/ Retained(report[r]) \/ "report_read" \in Faults
    /\ sweep' = IdleSweep
    /\ UNCHANGED << head, queryCat, report >> /\ UnchangedBySweep

(* _cleanup_owned_wap_branch starts: only a merge that was read pins the   *)
(* hash that may be deleted.                                               *)
StartSweep(rep) ==
    sweep' = [sweep EXCEPT !.pc = "drop",
                !.exp = IF rep.merge = "merged" THEN rep.src ELSE NoHash]

(* Seeded defect: an active run does not protect its branch.               *)
SweepApproveActive(r) ==
    /\ Listed(r)
    /\ OneExactMatch(r)
    /\ report[r].reg
    /\ \E rep \in ReadReport(r) : ~Retained(rep) /\ StartSweep(rep)
    /\ UNCHANGED << head, queryCat, report >> /\ UnchangedBySweep

(* Nothing retains the branch.  The launch verified, but a report that     *)
(* cannot be read any more retains nothing either.                         *)
SweepApprove(r) ==
    /\ Listed(r)
    /\ OneExactMatch(r)
    /\ report[r].reg
    /\ run[r] \in Terminal
    /\ \E rep \in ReadReport(r) : ~Retained(rep) /\ StartSweep(rep)
    /\ UNCHANGED << head, queryCat, report >> /\ UnchangedBySweep

(* _cleanup_owned_wap_branch: query catalog first.                         *)
SweepDropCatalog(r) ==
    /\ sweep.pc = "drop" /\ sweep.run = r
    /\ sweep.exp # NoHash => head[r] = sweep.exp
    /\ queryCat' = queryCat \ {r}
    /\ sweep' = [sweep EXCEPT !.pc = "delete"]
    /\ UNCHANGED << head, report >> /\ UnchangedBySweep

(* cleanup_complete or cleanup_incomplete; neither touches another field.  *)
CleanupPayload(payload) == [payload EXCEPT !.status = "open"]

SweepFailed(r) ==
    /\ sweep.pc \in {"drop", "delete"} /\ sweep.run = r
    /\ \E payload \in ReadReport(r) : SweepNote(CleanupPayload(payload))
    /\ UNCHANGED << head, queryCat, report >> /\ UnchangedBySweep

(* Without a pinned hash delete_branch deletes whatever it just read.  The *)
(* note differs only in the reported completeness.                         *)
SweepDelete(r) ==
    /\ sweep.pc = "delete" /\ sweep.run = r
    /\ DeleteAllowed(head[r], IF sweep.exp = NoHash THEN head[r] ELSE sweep.exp)
    /\ head' = [head EXCEPT ![r] = NoHash]
    /\ \E payload \in ReadReport(r) :
         SweepNote(CleanupPayload(payload))
    /\ UNCHANGED << queryCat, report >> /\ UnchangedBySweep

SweepReplace(outcome) ==
    /\ sweep.pc = "note"
    /\ Replace(sweep.run, sweep.out, outcome)
    /\ sweep' = IdleSweep
    /\ UNCHANGED << head, queryCat >> /\ UnchangedBySweep

SweepAbort ==
    /\ sweep.pc # "idle"
    /\ sweep' = IdleSweep
    /\ UNCHANGED << head, queryCat, report >> /\ UnchangedBySweep

SweepStep ==
    \/ \E r \in Runs :
        \/ SweepList(r) \/ SweepGap(r) \/ SweepContextInvalid(r)
        \/ SweepSkip(r) \/ SweepApprove(r) \/ SweepDropCatalog(r)
        \/ SweepFailed(r) \/ SweepDelete(r)
    \/ \E o \in WriteOutcome : SweepReplace(o)
    \/ SweepAbort
=============================================================================
