-------------------------- MODULE OperationJournal -------------------------
(***************************************************************************)
(* FileOperationJournalStore: one JSON record per operation, written by    *)
(* rename under a journal-wide lock, so that claim, transition and read    *)
(* are atomic across processes and survive them.  An operation is what has *)
(* one ID: a plan applied from the CLI or the API, whose token the ID      *)
(* embeds, or what one Dagster run does to one table, where it embeds the  *)
(* run.  Records are assumed readable: claim passes over one that is not.  *)
(***************************************************************************)
CONSTANTS Ops,       \* operation IDs
          Targets,   \* deployments, directories and tables operated upon
          Action,    \* operation -> action of its entry
          Target     \* operation -> target of its entry

(* compact comes from the CLI, the API and Dagster, snapshot_expiry from   *)
(* the CLI and the API, and expire_snapshots is Dagster's name for it; to  *)
(* the journal they are different actions.                                 *)
Maintenance == {"compact", "snapshot_expiry", "expire_snapshots"}
Actions == {"upgrade", "restore", "backup"} \cup Maintenance

ASSUME JournalConstants ==
    /\ Action \in [Ops -> Actions]
    /\ Target \in [Ops -> Targets]

VARIABLES
    record,   \* operation -> state of its record, "absent" without one
    result    \* operation -> the stored result

(* What a stored result says: whether the provider accepted, the recovery  *)
(* it prescribes ("restore", "forward" or none) and the remaining steps.   *)
NoResult == [accepted |-> FALSE, recovery |-> "none", remaining |-> {}]

Decided == {"succeeded", "failed"}
Active == {"claimed", "submitted", "unknown"}

Rival(o, p) == Action[o] = Action[p] /\ Target[o] = Target[p]

JournalInit ==
    /\ record = [o \in Ops |-> "absent"]
    /\ result = [o \in Ops |-> NoResult]

(* Seeded defect: claims as the in-memory store does, where an operation   *)
(* that succeeded may be claimed again and targets are not compared.       *)
ClaimableInMemory(o) == record[o] \in {"absent", "succeeded"}

(* Seeded defect: an operation that failed may be claimed again.           *)
ClaimableAfterFailure(o) ==
    /\ record[o] \in {"absent", "failed"}
    /\ \A p \in Ops : Rival(o, p) => record[p] \notin Active

(* Seeded defect: an unknown outcome does not hold its target.             *)
ClaimableOverUnknown(o) ==
    /\ record[o] = "absent"
    /\ \A p \in Ops : Rival(o, p) => record[p] \notin Active \ {"unknown"}

(* No record of this operation, no active one of its action and target.    *)
Claimable(o) ==
    /\ record[o] = "absent"
    /\ \A p \in Ops : Rival(o, p) => record[p] \notin Active

Claim(o) ==
    /\ record' = [record EXCEPT ![o] = "claimed"]
    /\ UNCHANGED result

(* Seeded defect: the name of the state is stored instead of its value.    *)
MarkByName(o, state) ==
    /\ record' = [record EXCEPT ![o] =
                    IF state = "unknown" THEN "UNKNOWN" ELSE "SUBMITTED"]
    /\ result' = [result EXCEPT ![o] = NoResult]

(* mark_submitted and mark_unknown also clear the stored result.           *)
Mark(o, state) ==
    /\ record' = [record EXCEPT ![o] = state]
    /\ result' = [result EXCEPT ![o] = NoResult]

(* complete_operation: succeeded if the result was accepted, else failed.  *)
Complete(o, out) ==
    /\ record' = [record EXCEPT ![o] =
                    IF out.accepted THEN "succeeded" ELSE "failed"]
    /\ result' = [result EXCEPT ![o] = out]

(* reconcile_unknown: it does not look at the state it replaces.           *)
ReconcileUnknown(o, accepted) ==
    Complete(o, [NoResult EXCEPT !.accepted = accepted])
=============================================================================
