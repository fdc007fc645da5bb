---------------------------- MODULE BackfillWap ----------------------------
(***************************************************************************)
(* _run_wap_backfill: one partition after the other is launched as a WAP   *)
(* run, recorded in the state file and waited for until its promotion      *)
(* receipt appears.  The runs themselves, the sensors that promote them    *)
(* and the cleanup that rewrites their reports belong to other processes;  *)
(* here only the Dagster status and the report status count.               *)
(***************************************************************************)
EXTENDS BackfillState

CurDate == DateOf[cur]
CurRun == << CurDate, IF pc \in {"submitting", "accepted", "registered"}
                      THEN launches[CurDate] ELSE mem.flight[CurDate] >>

Flying(p, i) == [mem.flight EXCEPT ![p] = i]
Landed(p) == Flying(p, 0)

(* A save that the process or the disk may not survive.                    *)
SaveOrTear(done, flight) == Save(done, flight) \/ file' = TornFile

(* Every exception of the loop body saves what is known and is re-raised.  *)
Raise(flight) == SaveOrTear(mem.done, flight) /\ Quit

Forget(r) == abandoned' = abandoned \cup {r}

-----------------------------------------------------------------------------
(* The next entry of the list of remaining, which is not looked at again   *)
(* against what this invocation has completed: a repeated date comes up    *)
(* again.                                                                  *)
Following(k) ==
    /\ pc = "next"
    /\ k \in mem.left
    /\ \A l \in mem.left : k <= l

(* A partition in flight is reconciled, never launched.                    *)
Reconcile(k) ==
    /\ Following(k)
    /\ mem.flight[DateOf[k]] # 0
    /\ cur' = k
    /\ pc' = "waiting"
    /\ UNCHANGED << wap, asked, file, mem, polls, runVars, poolVars >>

(* prepare_wap_launch gives the partition a fresh logical run ID.          *)
Launch(k) ==
    /\ Following(k)
    /\ mem.flight[DateOf[k]] = 0
    /\ cur' = k
    /\ launches' = [launches EXCEPT ![DateOf[k]] = @ + 1]
    /\ pc' = "submitting"
    /\ UNCHANGED << wap, asked, file, mem, polls, run, abandoned, poolVars >>

(* Preparation failed, Dagster rejected the run, or the response was lost; *)
(* in the last case Dagster may have created it.                           *)
SubmitFailed(created) ==
    /\ pc = "submitting"
    /\ run' = IF created THEN [run EXCEPT ![CurRun].life = "unregistered"]
              ELSE run
    /\ Raise(mem.flight)
    /\ UNCHANGED << wap, asked, launches, abandoned, poolVars >>

SubmitAccepted ==
    /\ pc = "submitting"
    /\ run' = [run EXCEPT ![CurRun].life = "unregistered"]
    /\ pc' = "accepted"
    /\ UNCHANGED << wap, asked, file, mem, cur, polls, launches, abandoned,
                    poolVars >>

(* record_launch_result("launched") stores the binding without which the   *)
(* run may not write.                                                      *)
Registered ==
    [run EXCEPT ![CurRun].life = IF @ = "unregistered" THEN "running" ELSE @]

Register ==
    /\ pc = "accepted"
    /\ run' = Registered
    /\ pc' = "registered"
    /\ UNCHANGED << wap, asked, file, mem, cur, polls, launches, abandoned,
                    poolVars >>

(* It failed: the manifest or the report was not written, Dagster gave no  *)
(* run ID, or the report was replaced and only its copy could not be.      *)
RegisterFailed(stored) ==
    /\ pc = "accepted"
    /\ run' = IF stored THEN Registered ELSE run
    /\ IF stored THEN Forget(CurRun) ELSE UNCHANGED abandoned
    /\ Raise(mem.flight)
    /\ UNCHANGED << wap, asked, launches, poolVars >>

(* The mapping is persisted immediately after Dagster accepts the run.     *)
RecordFlight ==
    /\ pc = "registered"
    /\ \/ /\ mem' = [mem EXCEPT !.flight = Flying(CurDate, launches[CurDate])]
          /\ Save(mem.done, Flying(CurDate, launches[CurDate]))
          /\ pc' = "waiting"
          /\ UNCHANGED << polls, cur >>
       \/ file' = TornFile /\ Quit
    /\ UNCHANGED << wap, asked, runVars, poolVars >>

-----------------------------------------------------------------------------
(* _wait_for_wap_lifecycle: get_run_status, then read_wap_report.  A run   *)
(* being canceled counts as failed although it may still succeed.  A       *)
(* promoted report comes after a successful end, so one step stands for    *)
(* the two reads.                                                          *)
Terminal(r) == run[r].life \in {"canceling", "failed"}
               \/ run[r].report = "refused"
Promoted(r) == run[r].life \notin {"canceling", "failed"}
               /\ run[r].report = "promoted"

PollPending ==
    /\ pc = "waiting"
    /\ ~ Terminal(CurRun) /\ ~ Promoted(CurRun)
    /\ polls' = 0
    /\ UNCHANGED << wap, asked, file, pc, mem, cur, runVars, poolVars >>

(* Seeded defect: one failure more than allowed.                           *)
PollFailedOnceMore ==
    /\ pc = "waiting"
    /\ IF polls < MaxPollFailures
       THEN polls' = polls + 1 /\ UNCHANGED << file, pc, mem, cur >>
       ELSE Raise(mem.flight)
    /\ UNCHANGED << wap, asked, runVars, poolVars >>

PollFailed ==
    /\ pc = "waiting"
    /\ IF polls + 1 < MaxPollFailures
       THEN polls' = polls + 1 /\ UNCHANGED << file, pc, mem, cur >>
       ELSE Raise(mem.flight)
    /\ UNCHANGED << wap, asked, runVars, poolVars >>

(* Seeded defect: a timeout drops the mapping like a terminal failure.     *)
TimedOutAsTerminal ==
    /\ pc = "waiting"
    /\ Raise(Landed(CurDate))
    /\ UNCHANGED << wap, asked, runVars, poolVars >>

(* The deadline passes; the run stays in flight for a later --resume.      *)
TimedOut ==
    /\ pc = "waiting"
    /\ Raise(mem.flight)
    /\ UNCHANGED << wap, asked, runVars, poolVars >>

(* WapLifecycleTerminalError: the partition is to be launched again.       *)
PollTerminal ==
    /\ pc = "waiting"
    /\ Terminal(CurRun)
    /\ Forget(CurRun)
    /\ Raise(Landed(CurDate))
    /\ UNCHANGED << wap, asked, launches, run, poolVars >>

(* Seeded defect: a finished Dagster run counts as a completed partition.  *)
PollSucceeded ==
    /\ pc = "waiting"
    /\ run[CurRun].life \in {"passed", "published"}
    /\ mem' = [mem EXCEPT !.done = @ \cup {CurDate}, !.left = @ \ {cur},
                         !.flight = Landed(CurDate)]
    /\ Save(mem.done \cup {CurDate}, Landed(CurDate))
    /\ pc' = "next"
    /\ cur' = 0
    /\ UNCHANGED << wap, asked, polls, runVars, poolVars >>

(* The receipt was read: the partition is complete.                        *)
PollPromoted ==
    /\ pc = "waiting"
    /\ Promoted(CurRun)
    /\ \/ /\ mem' = [mem EXCEPT !.done = @ \cup {CurDate},
                               !.left = @ \ {cur}, !.flight = Landed(CurDate)]
          /\ Save(mem.done \cup {CurDate}, Landed(CurDate))
          /\ pc' = "next"
          /\ polls' = 0 /\ cur' = 0
       \/ file' = TornFile /\ Quit
    /\ UNCHANGED << wap, asked, runVars, poolVars >>

(* After the last entry the file is removed (or the unlink fails).         *)
WapFinished ==
    /\ pc = "next"
    /\ mem.left = {}
    /\ file' \in {file, NoFile}
    /\ Quit
    /\ UNCHANGED << wap, asked, runVars, poolVars >>

(* Ctrl-C or a kill is not caught; nothing is saved.                       *)
WapKilled(created) ==
    /\ wap /\ pc # "idle"
    /\ run' = IF created /\ pc = "submitting"
              THEN [run EXCEPT ![CurRun].life = "unregistered"] ELSE run
    /\ IF pc \in {"accepted", "registered"} THEN Forget(CurRun)
       ELSE UNCHANGED abandoned
    /\ Quit
    /\ UNCHANGED << wap, asked, file, launches, poolVars >>

WapStep ==
    \/ \E k \in Entries : Reconcile(k) \/ Launch(k)
    \/ \E b \in BOOLEAN : SubmitFailed(b) \/ RegisterFailed(b)
    \/ SubmitAccepted \/ Register \/ RecordFlight
    \/ PollFailed \/ PollTerminal \/ PollPromoted \/ WapFinished

-----------------------------------------------------------------------------
(* Dagster ends a run; one that is not registered fails its verification.  *)
RunEnds(r, ok) ==
    /\ \/ run[r].life \in {"running", "canceling"}
       \/ run[r].life = "unregistered" /\ ~ok
    /\ run' = [run EXCEPT ![r].life = IF ok THEN "passed" ELSE "failed"]
    /\ UNCHANGED << wap, asked, file, pc, mem, cur, polls, launches, abandoned,
                    poolVars >>

(* Somebody asks Dagster to cancel a run, which may end first.             *)
Cancel(r) ==
    /\ run[r].life = "running"
    /\ run' = [run EXCEPT ![r].life = "canceling"]
    /\ UNCHANGED << wap, asked, file, pc, mem, cur, polls, launches,
                    abandoned, poolVars >>

(* The promotion sensor reports promotion_blocked or promotion_failed ...  *)
Refuse(r) ==
    /\ \/ run[r].life = "passed"
       \/ run[r].life = "published" /\ run[r].report = "open"
    /\ run' = [run EXCEPT ![r].report = "refused"]
    /\ UNCHANGED << wap, asked, file, pc, mem, cur, polls, launches, abandoned,
                    poolVars >>

(* ... and may still publish the run on a later tick (promotion_pending).  *)
Publish(r) ==
    /\ run[r].life = "passed" /\ run[r].report # "cleaned"
    /\ run' = [run EXCEPT ![r] = [life |-> "published", report |-> "open"]]
    /\ UNCHANGED << wap, asked, file, pc, mem, cur, polls, launches, abandoned,
                    poolVars >>

Receipt(r) ==
    /\ run[r].life = "published" /\ run[r].report \in {"open", "refused"}
    /\ run' = [run EXCEPT ![r].report = "promoted"]
    /\ UNCHANGED << wap, asked, file, pc, mem, cur, polls, launches, abandoned,
                    poolVars >>

(* The cleanup sensors overwrite the status of a retained branch.          *)
Clean(r) ==
    /\ \/ run[r].life = "passed"
       \/ run[r].life = "published" /\ run[r].report = "promoted"
    /\ run' = [run EXCEPT ![r].report = "cleaned"]
    /\ UNCHANGED << wap, asked, file, pc, mem, cur, polls, launches, abandoned,
                    poolVars >>

SensorStep ==
    \E r \in RunIds :
        \/ \E ok \in BOOLEAN : RunEnds(r, ok)
        \/ Cancel(r) \/ Refuse(r) \/ Publish(r) \/ Receipt(r) \/ Clean(r)
=============================================================================
