----------------------------- MODULE WapLaunch ------------------------------
(***************************************************************************)
(* The launcher process: phlo materialize --wap prepares the branch and    *)
(* the immutable binding, submits the run through GraphQL and registers    *)
(* the physical run ID that Dagster returned.  The branch is never rolled  *)
(* back: every failure leaves it for audit and ends the launcher.          *)
(*                                                                         *)
(* The launcher's own report updates are single steps: until the run is    *)
(* registered the sensors change nothing but the status, so a launcher can *)
(* overwrite nothing of theirs; a sensor that read the file earlier can    *)
(* still overwrite the launcher's facts (see WapPromotion).                *)
(***************************************************************************)
EXTENDS WapState

LaunchPc == {"idle", "read", "created", "sealed", "accepted", "done",
             "stopped"}

(* record_launch_result: the launch facts; source_hash is the hash the     *)
(* branch was created with, which seal() found equal to the target's.      *)
LaunchResult(r, payload) ==
    [payload EXCEPT !.status = "open", !.src = base[r]]

(* prepare_wap_launch: the branch must not exist yet; capture the target.  *)
ReadTarget(r) ==
    /\ launch[r] = "idle"
    /\ head[r] = NoHash
    /\ base' = [base EXCEPT ![r] = target]
    /\ launch' = [launch EXCEPT ![r] = "read"]
    /\ UNCHANGED << catalogVars, runVars, tagged, report, aged, sensorVars,
                    published >>

(* create_branch re-reads the target and creates the ref there.  A failed  *)
(* or unacknowledged request ends the launch, with or without a branch.    *)
CreateBranch(r, outcome) ==
    /\ launch[r] = "read"
    /\ head' = IF outcome = "refused" THEN head
               ELSE [head EXCEPT ![r] = target]
    /\ launch' = [launch EXCEPT ![r] = IF outcome = "done" THEN "created"
                                       ELSE "stopped"]
    /\ UNCHANGED << target, queryCat, base, runVars, tagged, report, aged,
                    sensorVars, published >>

(* The branch must start at the captured target hash; then seal() stores   *)
(* the immutable manifest and the report "branch_created" is written.      *)
SealLaunch(r, outcome) ==
    /\ launch[r] = "created"
    /\ IF head[r] = base[r]
       THEN /\ \E payload \in ReadReport(r) :
                 Replace(r, LaunchResult(r, payload), outcome)
            /\ launch' = [launch EXCEPT ![r] = IF outcome = "done"
                                               THEN "sealed" ELSE "stopped"]
       ELSE /\ launch' = [launch EXCEPT ![r] = "stopped"]
            /\ UNCHANGED report
    /\ UNCHANGED << catalogVars, base, runVars, tagged, aged, sensorVars,
                    published >>

(* GraphQL accepted the run and returned its ID.                           *)
SubmitAccepted(r) ==
    /\ launch[r] = "sealed"
    /\ run' = [run EXCEPT ![r] = "starting"]
    /\ launch' = [launch EXCEPT ![r] = "accepted"]
    /\ UNCHANGED << catalogVars, base, clone, checks, audit, tagged, report,
                    aged, sensorVars, published >>

(* GraphQL rejected the run, or the response was lost or carried no ID     *)
(* (launch_ambiguous), in which case Dagster may have created the run.     *)
SubmitFailed(r, created, outcome) ==
    /\ launch[r] = "sealed"
    /\ run' = IF created THEN [run EXCEPT ![r] = "starting"] ELSE run
    /\ \E payload \in ReadReport(r) :
         Replace(r, LaunchResult(r, payload), outcome)
    /\ launch' = [launch EXCEPT ![r] = "stopped"]
    /\ UNCHANGED << catalogVars, base, clone, checks, audit, tagged, aged,
                    sensorVars, published >>

(* record_launch_result(status="launched"): only now may the run write.    *)
Register(r, outcome) ==
    /\ launch[r] = "accepted"
    /\ \E payload \in ReadReport(r) :
         Replace(r, [LaunchResult(r, payload) EXCEPT !.reg = TRUE], outcome)
    /\ launch' = [launch EXCEPT ![r] = IF outcome = "done" THEN "done"
                                       ELSE "stopped"]
    /\ UNCHANGED << catalogVars, base, runVars, tagged, aged, sensorVars,
                    published >>

(* The launcher process dies between two of its calls.                     *)
LauncherCrash(r) ==
    /\ launch[r] \notin {"idle", "done", "stopped"}
    /\ launch' = [launch EXCEPT ![r] = "stopped"]
    /\ UNCHANGED << catalogVars, base, runVars, tagged, report, aged,
                    sensorVars, published >>

LaunchStep(r) ==
    \/ ReadTarget(r)
    \/ \E o \in {"done", "refused", "unacknowledged"} : CreateBranch(r, o)
    \/ \E o \in WriteOutcome : SealLaunch(r, o) \/ Register(r, o)
    \/ SubmitAccepted(r)
    \/ \E c \in BOOLEAN, o \in WriteOutcome : SubmitFailed(r, c, o)
    \/ LauncherCrash(r)
=============================================================================
