----------------------------- MODULE Continuity ----------------------------
(***************************************************************************)
(* phlo operations: processes that apply upgrades, restores, backups and   *)
(* table maintenance.  Each reads the journal for a result to replay,      *)
(* validates, claims, marks the operation submitted, calls the providers   *)
(* one after the other, reconciles and stores the result.  A process may   *)
(* die anywhere; several processes may apply one operation or rival ones.  *)
(***************************************************************************)
EXTENDS OperationJournal, Naturals

CONSTANTS Workers,   \* processes: CLI invocations, API requests, Dagster runs
          NoOp,      \* the operation of an idle process
          Steps      \* action -> provider steps: UPGRADE_PIPELINE (4),
                     \* RESTORE_PROVIDER_ORDER (4), the backup contributors
                     \* and the manifest (5), one maintenance execution (1)

MaxSteps == 5

ASSUME WorkerConstants == NoOp \notin Ops /\ Steps \in [Actions -> 1 .. MaxSteps]

VARIABLES
    pc,       \* worker -> where it is
    op,       \* worker -> the operation it applies
    step,     \* worker -> the provider step it is at
    out,      \* worker -> the result it is about to store
    filled,   \* target directories that are not empty
    calls     \* history: operation, step -> times the provider was called

vars == << record, result, pc, op, step, out, filled, calls >>

LastStep(o) == Steps[Action[o]]

Init ==
    /\ JournalInit
    /\ pc = [w \in Workers |-> "idle"]
    /\ op = [w \in Workers |-> NoOp]
    /\ step = [w \in Workers |-> 1]
    /\ out = [w \in Workers |-> NoResult]
    /\ filled = {}
    /\ calls = [o \in Ops |-> [k \in 1 .. MaxSteps |-> 0]]

-----------------------------------------------------------------------------
At(w, here) == pc[w] = here
Goto(w, there) == pc' = [pc EXCEPT ![w] = there]

(* Return: the worker forgets what it was doing.                           *)
Return(w) ==
    /\ Goto(w, "idle")
    /\ op' = [op EXCEPT ![w] = NoOp]
    /\ step' = [step EXCEPT ![w] = 1]
    /\ out' = [out EXCEPT ![w] = NoResult]

(* The result is known and only has to be stored.                          *)
Conclude(w, res) ==
    /\ Goto(w, "finish")
    /\ out' = [out EXCEPT ![w] = res]
    /\ UNCHANGED step

Accepted == [NoResult EXCEPT !.accepted = TRUE]

Apply(w, o) ==
    /\ At(w, "idle")
    /\ op' = [op EXCEPT ![w] = o]
    /\ Goto(w, "read")
    /\ UNCHANGED << record, result, step, out, filled, calls >>

(* read_or_replay: a stored result is returned, an unknown outcome raises. *)
Read(w) ==
    /\ At(w, "read")
    /\ IF record[op[w]] \in Decided \cup {"unknown"}
       THEN Return(w)
       ELSE Goto(w, "validate") /\ UNCHANGED << op, step, out >>
    /\ UNCHANGED << record, result, filled, calls >>

(* Plan, set and contributors are checked; a restore or backup wants its   *)
(* target directory empty.  Nothing is locked meanwhile.                   *)
Validate(w) ==
    /\ At(w, "validate")
    /\ \/ /\ Action[op[w]] \in {"restore", "backup"} =>
                Target[op[w]] \notin filled
          /\ Goto(w, "claim")
          /\ UNCHANGED << op, step, out >>
       \/ Return(w)
    /\ UNCHANGED << record, result, filled, calls >>

(* claim_operation, or conflicting_claim.                                  *)
ClaimOperation(w) ==
    /\ At(w, "claim")
    /\ IF Claimable(op[w])
       THEN Claim(op[w]) /\ Goto(w, "submit") /\ UNCHANGED << op, step, out >>
       ELSE Return(w) /\ UNCHANGED << record, result >>
    /\ UNCHANGED << filled, calls >>

(* Seeded defect: the providers are called before the journal says so.     *)
MarkSubmittedLate(w) ==
    /\ At(w, "submit")
    /\ Goto(w, "call")
    /\ UNCHANGED << record, result, op, step, out, filled, calls >>

MarkSubmitted(w) ==
    /\ At(w, "submit")
    /\ Mark(op[w], "submitted")
    /\ Goto(w, "call")
    /\ UNCHANGED << op, step, out, filled, calls >>

(* A backup quiesces writers before it is submitted; that may fail.        *)
QuiesceFailed(w) ==
    /\ At(w, "submit")
    /\ Action[op[w]] = "backup"
    /\ Conclude(w, NoResult)
    /\ UNCHANGED << record, result, op, filled, calls >>

-----------------------------------------------------------------------------
(* One provider call; it may write below the target.                       *)
Call(w) ==
    /\ At(w, "call")
    /\ calls' = [calls EXCEPT ![op[w]][step[w]] = @ + 1]
    /\ filled' \in {filled, filled \cup {Target[op[w]]}}
    /\ Goto(w, "called")
    /\ UNCHANGED << record, result, op, step, out >>

Reconciles(o) == Action[o] \in {"upgrade", "restore"}

CallSucceeded(w) ==
    /\ At(w, "called")
    /\ IF step[w] < LastStep(op[w])
       THEN /\ step' = [step EXCEPT ![w] = @ + 1]
            /\ Goto(w, "call")
            /\ UNCHANGED out
       ELSE IF Reconciles(op[w])
            THEN Goto(w, "reconcile") /\ UNCHANGED << step, out >>
            ELSE Conclude(w, Accepted)
    /\ UNCHANGED << record, result, op, filled, calls >>

(* Seeded defect: the repair lists the completed steps as remaining.       *)
RecoveryRerunsAll(k) ==
    IF k = 1 THEN [NoResult EXCEPT !.recovery = "restore"]
    ELSE [NoResult EXCEPT !.recovery = "forward", !.remaining = 1 .. MaxSteps]

(* What an upgrade prescribes when step k reported a failure: a restore up *)
(* to ROLLBACK_SAFE_LAST_STEP (the first step), forward repair after it.   *)
Recovery(k) ==
    IF k = 1 THEN [NoResult EXCEPT !.recovery = "restore"]
    ELSE [NoResult EXCEPT !.recovery = "forward",
                          !.remaining = k + 1 .. Steps["upgrade"]]

CallFailed(w) ==
    /\ At(w, "called")
    /\ Conclude(w, IF Action[op[w]] = "upgrade" THEN Recovery(step[w])
                   ELSE NoResult)
    /\ UNCHANGED << record, result, op, filled, calls >>

(* The provider raised.  Maintenance of the API and of Dagster treats that *)
(* as unknown, maintenance of the CLI just ends (Crash), and the others    *)
(* store a plain failure.                                                  *)
CallRaised(w) ==
    /\ At(w, "called")
    /\ IF Action[op[w]] \in Maintenance
       THEN Goto(w, "unknown") /\ UNCHANGED << step, out >>
       ELSE Conclude(w, NoResult)
    /\ UNCHANGED << record, result, op, filled, calls >>

(* Every check passes; some do not; or one raises, after which an upgrade  *)
(* is unknown and a restore failed.                                        *)
Reconcile(w) ==
    /\ At(w, "reconcile")
    /\ \/ \E ok \in BOOLEAN : Conclude(w, [NoResult EXCEPT !.accepted = ok])
       \/ /\ Action[op[w]] = "upgrade"
          /\ Goto(w, "unknown") /\ UNCHANGED << step, out >>
    /\ UNCHANGED << record, result, op, filled, calls >>

Finish(w) ==
    /\ At(w, "finish")
    /\ Complete(op[w], out[w])
    /\ Return(w)
    /\ UNCHANGED << filled, calls >>

MarkUnknown(w) ==
    /\ At(w, "unknown")
    /\ Mark(op[w], "unknown")
    /\ Return(w)
    /\ UNCHANGED << filled, calls >>

(* The process dies, or cannot write the journal any more.                 *)
Crash(w) ==
    /\ ~ At(w, "idle")
    /\ Return(w)
    /\ UNCHANGED << record, result, filled, calls >>

(* An operator settles an outcome that the journal calls unknown.          *)
OperatorReconciles(o, accepted) ==
    /\ record[o] = "unknown"
    /\ ReconcileUnknown(o, accepted)
    /\ UNCHANGED << pc, op, step, out, filled, calls >>

WorkerStep(w) ==
    \/ \E o \in Ops : Apply(w, o)
    \/ Read(w) \/ Validate(w) \/ ClaimOperation(w)
    \/ MarkSubmitted(w) \/ QuiesceFailed(w)
    \/ Call(w) \/ CallSucceeded(w) \/ CallFailed(w) \/ CallRaised(w)
    \/ Reconcile(w) \/ Finish(w) \/ MarkUnknown(w) \/ Crash(w)

Next ==
    \/ \E w \in Workers : WorkerStep(w)
    \/ \E o \in Ops, accepted \in BOOLEAN : OperatorReconciles(o, accepted)

Spec == Init /\ [][Next]_vars

-----------------------------------------------------------------------------
Result == [accepted : BOOLEAN, recovery : {"none", "restore", "forward"},
           remaining : SUBSET (1 .. MaxSteps)]

(* Type invariant of the journal, the workers and the histories.           *)
JournalTypeOK ==
    /\ record \in [Ops -> {"absent"} \cup Active \cup Decided]
    /\ result \in [Ops -> Result]
    /\ pc \in [Workers -> {"idle", "read", "validate", "claim", "submit",
                           "call", "called", "reconcile", "finish",
                           "unknown"}]
    /\ op \in [Workers -> Ops \cup {NoOp}]
    /\ \A w \in Workers : op[w] = NoOp <=> pc[w] = "idle"
    /\ step \in [Workers -> 1 .. MaxSteps]
    /\ out \in [Workers -> Result]
    /\ filled \subseteq Targets
    /\ calls \in [Ops -> [1 .. MaxSteps -> Nat]]

(* Exactly-once: no provider step of an operation is called twice, however *)
(* many processes apply it, die over it and apply it again.                *)
StepsRunOnce == \A o \in Ops : \A k \in 1 .. MaxSteps : calls[o][k] <= 1

(* Fail-before-mutation: a provider was called only if the journal has     *)
(* said since that the operation was submitted.                            *)
SubmittedBeforeSteps ==
    \A o \in Ops : \A k \in 1 .. MaxSteps :
        calls[o][k] > 0 => record[o] \notin {"absent", "claimed"}

Holding(w) == pc[w] \in {"submit", "call", "called", "reconcile", "finish",
                         "unknown"}

(* Two processes never work on the same action and target at a time.       *)
ExclusiveClaim ==
    \A v, w \in Workers :
        Holding(v) /\ Holding(w) /\ Rival(op[v], op[w]) => v = w

(* Stated by ADR 0049: conflicting concurrent operations on the same       *)
(* target are rejected.                                                    *)
OneOperationPerTarget ==
    \A v, w \in Workers :
        Holding(v) /\ Holding(w) /\ Target[op[v]] = Target[op[w]] => v = w

(* The recovery a stored upgrade result prescribes fits what was called: a *)
(* restore only while no irreversible step was, and forward repair with    *)
(* exactly the steps that were not.                                        *)
RecoveryFitsProgress ==
    \A o \in Ops :
        /\ result[o].recovery = "restore" =>
             \A k \in 2 .. MaxSteps : calls[o][k] = 0
        /\ result[o].recovery = "forward" =>
             /\ calls[o][2] > 0
             /\ result[o].remaining = {k \in 1 .. LastStep(o) : calls[o][k] = 0}

(* The journal keeps its promise for every operation.                      *)
Phase(o) == IF record[o] \in {"absent", "claimed"} THEN "new"
            ELSE IF record[o] \in Decided THEN "decided" ELSE "undecided"
Promise == INSTANCE OperationPromise WITH phase <- [o \in Ops |-> Phase(o)]
ImplementsPromise == Promise!Spec
=============================================================================
