------------------------------- MODULE WapRun -------------------------------
(***************************************************************************)
(* The Dagster run bound to a WAP branch: it waits for the launcher's      *)
(* registration, writes to the branch, evaluates asset checks and reaches  *)
(* a terminal status.  Also the surroundings a run cannot control: other   *)
(* writers of the target, writers that still hold the branch after the run *)
(* ended, re-executions with copied tags, and the passing of the           *)
(* retention period.                                                       *)
(***************************************************************************)
EXTENDS WapState

RunStatuses == {"none", "starting", "started"} \cup Terminal

UnchangedByRun == UNCHANGED << target, launchVars, clone, tagged, report,
                               aged, sensorVars, published >>

(* verify_wap_execution: the registration arrived and matches.             *)
VerifyExecution(r) ==
    /\ run[r] = "starting"
    /\ report[r].reg
    /\ run' = [run EXCEPT ![r] = "started"]
    /\ UNCHANGED << head, queryCat, checks, audit >> /\ UnchangedByRun

(* verify_wap_execution: no registration within 30 s, or its file could    *)
(* not be read; the step fails before any asset write.                     *)
VerifyTimeout(r) ==
    /\ run[r] = "starting"
    /\ ~report[r].reg \/ "report_read" \in Faults
    /\ run' = [run EXCEPT ![r] = "failed"]
    /\ UNCHANGED << head, queryCat, checks, audit >> /\ UnchangedByRun

(* An asset write commits on the branch; a query engine bound to the ref   *)
(* provisions its per-ref catalog.                                         *)
WriteAsset(r) ==
    /\ \/ run[r] = "started"
       \/ run[r] \in Terminal /\ r \in LateWriters
    /\ head[r] # NoHash
    /\ Len(head[r]) < Len(base[r]) + MaxWrites
    /\ head' = [head EXCEPT ![r] = CommitOn(head[r], r)]
    /\ queryCat' = queryCat \cup {r}
    /\ UNCHANGED << run, checks, audit >> /\ UnchangedByRun

(* bind_wap_audit in strict mode: capture the branch hash before the check *)
AuditBegin(r) ==
    /\ Strict
    /\ run[r] = "started"
    /\ audit[r] = NoHash
    /\ Cardinality(checks[r]) < MaxChecks
    /\ audit' = [audit EXCEPT ![r] = head[r]]
    /\ UNCHANGED << head, queryCat, run, checks >> /\ UnchangedByRun

(* ... and record the evaluation only if the branch did not move since.    *)
AuditEnd(r, o) ==
    /\ run[r] = "started"
    /\ audit[r] # NoHash
    /\ head[r] = audit[r]
    /\ checks' = [checks EXCEPT ![r] = @ \cup
           {[passed |-> o.passed, severity |-> o.severity, cand |-> audit[r]]}]
    /\ audit' = [audit EXCEPT ![r] = NoHash]
    /\ UNCHANGED << head, queryCat, run >> /\ UnchangedByRun

(* The branch moved during the check: bind_wap_audit raises and the check  *)
(* step fails, so the run fails and no evaluation is recorded.             *)
AuditDisturbed(r) ==
    /\ run[r] = "started"
    /\ audit[r] # NoHash
    /\ head[r] # audit[r]
    /\ audit' = [audit EXCEPT ![r] = NoHash]
    /\ run' = [run EXCEPT ![r] = "failed"]
    /\ UNCHANGED << head, queryCat, checks >> /\ UnchangedByRun

(* A check that is not bound to a candidate: every check of a legacy run,  *)
(* and a custom check of a strict run that does not use bind_wap_audit.    *)
UnboundCheck(r, o) ==
    /\ run[r] = "started"
    /\ Cardinality(checks[r]) < MaxChecks
    /\ checks' = [checks EXCEPT ![r] = @ \cup
           {[passed |-> o.passed, severity |-> o.severity, cand |-> NoHash]}]
    /\ UNCHANGED << head, queryCat, run, audit >> /\ UnchangedByRun

(* Dagster records the terminal status; a run may also be cancelled while  *)
(* it still waits for its registration.                                    *)
Finish(r, s) ==
    /\ \/ run[r] = "started"
       \/ run[r] = "starting" /\ s = "cancelled"
    /\ s = "success" => audit[r] = NoHash
    /\ run' = [run EXCEPT ![r] = s]
    /\ audit' = [audit EXCEPT ![r] = NoHash]
    /\ UNCHANGED << head, queryCat, checks >> /\ UnchangedByRun

(* A re-execution carries the copied WAP tags and another physical ID.  It *)
(* fails in verify_wap_execution because its ID is not the registered one. *)
Reexecute(r) ==
    /\ r \in Reexecuted
    /\ run[r] # "none"
    /\ clone[r] = "none"
    /\ r \notin tagged
    /\ clone' = [clone EXCEPT ![r] = "failed"]
    /\ UNCHANGED << catalogVars, launchVars, run, checks, audit, tagged,
                    report, aged, sensorVars, published >>

(* Another writer commits on the publication target.                       *)
TargetCommit ==
    /\ Len(target) < MaxTarget
    /\ target' = CommitOn(target, Other)
    /\ UNCHANGED << head, queryCat, launchVars, runVars, tagged, report, aged,
                    sensorVars, published >>

(* The branch passes DEFAULT_RETENTION_HOURS.                              *)
Age(r) ==
    /\ r \in StaleRuns \ aged
    /\ head[r] # NoHash
    /\ launch[r] \in {"done", "stopped"}
    /\ aged' = aged \cup {r}
    /\ UNCHANGED << catalogVars, launchVars, runVars, tagged, report,
                    sensorVars, published >>

RunStep(r) ==
    \/ VerifyExecution(r) \/ VerifyTimeout(r)
    \/ WriteAsset(r)
    \/ AuditBegin(r) \/ AuditDisturbed(r)
    \/ \E o \in Outcomes : AuditEnd(r, o) \/ UnboundCheck(r, o)
    \/ \E s \in Terminal : Finish(r, s)
    \/ Reexecute(r) \/ Age(r)
=============================================================================
