-------------------------- MODULE ContinuityProofs -------------------------
(***************************************************************************)
(* The durable journal keeps its promises for every number of processes,   *)
(* operations and targets.                                                 *)
(***************************************************************************)
EXTENDS Continuity, TLAPS

NotStarted == {"idle", "read", "validate", "claim", "submit"}

(* Exactly the first n steps of o were called, each once.                  *)
Called(o, n) == \A k \in 1 .. MaxSteps : calls[o][k] = IF k <= n THEN 1 ELSE 0

(* The recovery of a result fits what was called of its operation.         *)
Fits(o, res) ==
    /\ res.recovery = "restore" => \A k \in 2 .. MaxSteps : calls[o][k] = 0
    /\ res.recovery = "forward" =>
         /\ calls[o][2] > 0
         /\ res.remaining = {k \in 1 .. LastStep(o) : calls[o][k] = 0}

(* At most one active record per action and target.                        *)
ActiveInv ==
    \A o, p \in Ops :
        Rival(o, p) /\ record[o] \in Active /\ record[p] \in Active => o = p

(* A process that holds a claim is the only one that does, and the record  *)
(* is in the state the process has brought it to.                          *)
OwnerInv ==
    \A v, w \in Workers : Holding(v) /\ Holding(w) /\ op[v] = op[w] => v = w

HoldInv ==
    \A w \in Workers :
        /\ pc[w] = "submit" => record[op[w]] = "claimed"
        /\ pc[w] \in {"call", "called", "reconcile", "unknown"} =>
             record[op[w]] = "submitted"
        /\ pc[w] = "finish" => record[op[w]] \in {"claimed", "submitted"}

(* How far the provider calls of an operation have come.                   *)
ProgressInv ==
    /\ \A o \in Ops : record[o] \in {"absent", "claimed"} => Called(o, 0)
    /\ \A w \in Workers :
         /\ pc[w] \in NotStarted => step[w] = 1
         /\ pc[w] \in {"call", "called"} => step[w] <= LastStep(op[w])
         /\ pc[w] = "call" => Called(op[w], step[w] - 1)
         /\ pc[w] = "called" => Called(op[w], step[w])

FitInv ==
    /\ \A w \in Workers : pc[w] = "finish" => Fits(op[w], out[w])
    /\ \A o \in Ops : Fits(o, result[o])
    /\ \A o \in Ops : record[o] \notin Decided => result[o] = NoResult

IInv == /\ JournalTypeOK /\ ActiveInv /\ OwnerInv /\ HoldInv /\ ProgressInv
        /\ StepsRunOnce /\ FitInv

-----------------------------------------------------------------------------
LEMMA ResultFacts ==
    /\ NoResult \in Result
    /\ \A b \in BOOLEAN : [NoResult EXCEPT !.accepted = b] \in Result
    /\ \A k \in 1 .. MaxSteps : Recovery(k) \in Result
  <1>1. NoResult \in Result
    BY DEF NoResult, Result
  <1>2. \A b \in BOOLEAN : [NoResult EXCEPT !.accepted = b] \in Result
    BY DEF NoResult, Result
  <1>3. ASSUME NEW k \in 1 .. MaxSteps
        PROVE  Recovery(k) \in Result
    <2>1. Steps["upgrade"] \in 1 .. MaxSteps
      BY WorkerConstants DEF Actions
    <2>2. k + 1 .. Steps["upgrade"] \subseteq 1 .. MaxSteps
      BY <2>1 DEF MaxSteps
    <2>. QED
      BY <2>2 DEF Recovery, NoResult, Result
  <1>. QED
    BY <1>1, <1>2, <1>3

LEMMA InitInv == Init => IInv
  <1>. SUFFICES ASSUME Init PROVE IInv
    OBVIOUS
  <1>1. JournalTypeOK
    BY ResultFacts DEF Init, JournalInit, JournalTypeOK, Active, Decided, MaxSteps
  <1>2. ActiveInv /\ OwnerInv /\ HoldInv
    BY DEF Init, JournalInit, ActiveInv, OwnerInv, HoldInv, Active, Holding
  <1>3. ProgressInv
    BY DEF Init, JournalInit, ProgressInv, NotStarted, Called, MaxSteps
  <1>4. StepsRunOnce
    BY DEF Init, StepsRunOnce
  <1>5. FitInv
    BY DEF Init, JournalInit, FitInv, Fits, NoResult
  <1>. QED
    BY <1>1, <1>2, <1>3, <1>4, <1>5 DEF IInv

-----------------------------------------------------------------------------
(* A worker that is somewhere applies an operation.                        *)
LEMMA HasOp ==
    ASSUME JournalTypeOK, NEW w \in Workers, pc[w] # "idle"
    PROVE  /\ op[w] \in Ops
           /\ step[w] \in 1 .. MaxSteps
           /\ LastStep(op[w]) \in 1 .. MaxSteps
  <1>1. op[w] \in Ops /\ step[w] \in 1 .. MaxSteps
    BY DEF JournalTypeOK
  <1>2. Action[op[w]] \in Actions
    BY <1>1, JournalConstants
  <1>. QED
    BY <1>1, <1>2, WorkerConstants DEF LastStep

(* What a step leaves of a worker.                                         *)
Unmoved(v) == /\ pc'[v] = pc[v] /\ op'[v] = op[v]
              /\ step'[v] = step[v] /\ out'[v] = out[v]

(* A step after which w holds nothing, the journal being as it was.        *)
LEMMA LetsGo ==
    ASSUME IInv, JournalTypeOK', NEW w \in Workers,
           UNCHANGED << record, result, calls >>,
           pc'[w] \in NotStarted \ {"submit"}, step'[w] = 1,
           \A v \in Workers \ {w} : Unmoved(v)
    PROVE  IInv'
  <1>. USE DEF Unmoved
  <1>1. ActiveInv' /\ StepsRunOnce'
    BY DEF IInv, ActiveInv, StepsRunOnce
  <1>2. OwnerInv'
    BY DEF IInv, OwnerInv, Holding, NotStarted
  <1>3. HoldInv'
    BY DEF IInv, HoldInv, NotStarted
  <1>4. ProgressInv'
    BY DEF IInv, ProgressInv, NotStarted, Called
  <1>5. FitInv'
    BY DEF IInv, FitInv, Fits, NotStarted
  <1>. QED
    BY <1>1, <1>2, <1>3, <1>4, <1>5 DEF IInv

(* A step in which the holder of a submitted or refused operation goes on. *)
LEMMA GoesOn ==
    ASSUME IInv, JournalTypeOK', NEW w \in Workers,
           UNCHANGED << record, result, op, calls >>,
           Holding(w),
           \/ pc'[w] = "finish"
           \/ pc'[w] \in {"call", "reconcile", "unknown"} /\ pc[w] = "called"
           \/ pc'[w] = "unknown" /\ pc[w] = "reconcile",
           pc'[w] = "finish" => Fits(op[w], out'[w]),
           pc[w] \in {"submit", "called", "reconcile"},
           pc'[w] = "call" => /\ step'[w] = step[w] + 1
                              /\ step'[w] <= LastStep(op[w]),
           \A v \in Workers \ {w} : Unmoved(v)
    PROVE  IInv'
  <1>. USE DEF Unmoved
  <1>0. op[w] \in Ops /\ step[w] \in 1 .. MaxSteps
    BY HasOp DEF IInv, Holding
  <1>1. ActiveInv' /\ StepsRunOnce'
    BY DEF IInv, ActiveInv, StepsRunOnce
  <1>2. OwnerInv'
    BY DEF IInv, OwnerInv, Holding
  <1>3. HoldInv'
    BY DEF IInv, HoldInv
  <1>4. ProgressInv'
    <2>1. pc'[w] = "call" => step'[w] - 1 = step[w] /\ pc[w] = "called"
      BY <1>0 DEF MaxSteps
    <2>. QED
      BY <2>1 DEF IInv, ProgressInv, NotStarted, Called, LastStep
  <1>5. FitInv'
    BY DEF IInv, FitInv, Fits, LastStep
  <1>. QED
    BY <1>1, <1>2, <1>3, <1>4, <1>5 DEF IInv

(* A step that settles o, on which no worker is left.                      *)
LEMMA Settles ==
    ASSUME IInv, JournalTypeOK', NEW o \in Ops,
           NEW state \in Decided \cup {"unknown"}, NEW res \in Result,
           record[o] \in {"claimed", "submitted", "unknown"},
           record' = [record EXCEPT ![o] = state],
           result' = [result EXCEPT ![o] = res],
           UNCHANGED calls,
           state = "unknown" => res = NoResult,
           Fits(o, res),
           \A v \in Workers : \/ Unmoved(v) /\ (Holding(v) => op[v] # o)
                              \/ pc'[v] = "idle" /\ step'[v] = 1
    PROVE  IInv'
  <1>. USE DEF Unmoved
  <1>0. /\ record \in [Ops -> {"absent"} \cup Active \cup Decided]
        /\ result \in [Ops -> Result]
    BY DEF IInv, JournalTypeOK
  <1>1. record'[o] = state /\ \A p \in Ops \ {o} : record'[p] = record[p]
    BY <1>0
  <1>2. result'[o] = res /\ \A p \in Ops \ {o} : result'[p] = result[p]
    BY <1>0
  <1>3. ActiveInv'
    BY <1>1 DEF IInv, ActiveInv, Rival, Active
  <1>4. OwnerInv'
    BY DEF IInv, OwnerInv, Holding
  <1>5. HoldInv'
    <2>. SUFFICES ASSUME NEW v \in Workers
                  PROVE  /\ pc'[v] = "submit" => record'[op'[v]] = "claimed"
                         /\ pc'[v] \in {"call", "called", "reconcile", "unknown"}
                              => record'[op'[v]] = "submitted"
                         /\ pc'[v] = "finish" =>
                              record'[op'[v]] \in {"claimed", "submitted"}
      BY DEF HoldInv
    <2>1. CASE pc'[v] = "idle"
      BY <2>1
    <2>2. CASE Unmoved(v) /\ (Holding(v) => op[v] # o)
      <3>1. Holding(v) => op[v] \in Ops \ {o}
        BY <2>2, HasOp DEF IInv, Holding
      <3>. QED
        BY <1>1, <2>2, <3>1 DEF IInv, HoldInv, Holding
    <2>. QED
      BY <2>1, <2>2
  <1>6. ProgressInv'
    <2>1. \A p \in Ops : record'[p] \in {"absent", "claimed"} => Called(p, 0)'
      BY <1>1 DEF IInv, ProgressInv, Called, Decided
    <2>2. \A v \in Workers :
            /\ pc'[v] \in NotStarted => step'[v] = 1
            /\ pc'[v] \in {"call", "called"} =>
                 Unmoved(v)
      BY DEF IInv, ProgressInv, NotStarted
    <2>. QED
      BY <2>1, <2>2 DEF IInv, ProgressInv, Called, LastStep
  <1>7. StepsRunOnce'
    BY DEF IInv, StepsRunOnce
  <1>8. FitInv'
    <2>1. \A v \in Workers : pc'[v] = "finish" => Fits(op[v], out[v]) /\ Unmoved(v)
      BY DEF IInv, FitInv
    <2>2. \A p \in Ops : Fits(p, result'[p])
      BY <1>2 DEF IInv, FitInv
    <2>3. \A p \in Ops : record'[p] \notin Decided => result'[p] = NoResult
      BY <1>1, <1>2 DEF IInv, FitInv, Decided
    <2>. QED
      BY <2>1, <2>2, <2>3 DEF FitInv, Fits, LastStep
  <1>. QED
    BY <1>3, <1>4, <1>5, <1>6, <1>7, <1>8 DEF IInv

(* Type correctness: the three ways in which a worker moves.               *)
Places == {"read", "validate", "claim", "submit", "call", "called",
           "reconcile", "finish", "unknown"}

LEMMA GotoType ==
    ASSUME JournalTypeOK, NEW w \in Workers, NEW place \in Places,
           op[w] \in Ops, Goto(w, place), UNCHANGED << op, filled >>,
           record' \in [Ops -> {"absent"} \cup Active \cup Decided],
           result' \in [Ops -> Result], step' \in [Workers -> 1 .. MaxSteps],
           out' \in [Workers -> Result],
           calls' \in [Ops -> [1 .. MaxSteps -> Nat]]
    PROVE  JournalTypeOK'
  <1>1. pc' \in [Workers -> {"idle"} \cup Places]
    BY DEF JournalTypeOK, Goto, Places
  <1>2. ASSUME NEW v \in Workers
        PROVE  op'[v] = NoOp <=> pc'[v] = "idle"
    <2>1. CASE v = w
      BY <2>1, WorkerConstants DEF JournalTypeOK, Goto, Places
    <2>2. CASE v # w
      BY <2>2 DEF JournalTypeOK, Goto
    <2>. QED
      BY <2>1, <2>2
  <1>. QED
    BY <1>1, <1>2 DEF JournalTypeOK, Places

LEMMA ReturnType ==
    ASSUME JournalTypeOK, NEW w \in Workers, Return(w),
           UNCHANGED << filled, calls >>,
           record' \in [Ops -> {"absent"} \cup Active \cup Decided],
           result' \in [Ops -> Result]
    PROVE  JournalTypeOK'
  <1>1. /\ pc' = [pc EXCEPT ![w] = "idle"]
        /\ op' = [op EXCEPT ![w] = NoOp]
    BY DEF Return, Goto
  <1>2. /\ step' \in [Workers -> 1 .. MaxSteps]
        /\ out' \in [Workers -> Result]
    BY ResultFacts DEF JournalTypeOK, Return, MaxSteps
  <1>3. ASSUME NEW v \in Workers
        PROVE  op'[v] = NoOp <=> pc'[v] = "idle"
    BY <1>1 DEF JournalTypeOK
  <1>4. op' \in [Workers -> Ops \cup {NoOp}]
    BY <1>1 DEF JournalTypeOK
  <1>5. pc' \in [Workers -> {"idle", "read", "validate", "claim", "submit",
                            "call", "called", "reconcile", "finish",
                            "unknown"}]
    BY <1>1 DEF JournalTypeOK
  <1>. QED
    BY <1>2, <1>3, <1>4, <1>5 DEF JournalTypeOK

LEMMA ConcludeType ==
    ASSUME JournalTypeOK, NEW w \in Workers, NEW res \in Result,
           op[w] \in Ops, Conclude(w, res),
           UNCHANGED << record, result, op, filled, calls >>
    PROVE  JournalTypeOK'
  <1>1. Goto(w, "finish") /\ out' \in [Workers -> Result] /\ step' = step
    BY DEF Conclude, JournalTypeOK
  <1>. QED
    BY <1>1, GotoType DEF JournalTypeOK, Places

LEMMA StepType ==
    ASSUME JournalTypeOK, [Next]_vars
    PROVE  JournalTypeOK'
  <1>1. ASSUME NEW w \in Workers, NEW o \in Ops, Apply(w, o)
        PROVE  JournalTypeOK'
    <2>1. /\ pc' = [pc EXCEPT ![w] = "read"]
          /\ op' = [op EXCEPT ![w] = o]
          /\ UNCHANGED << record, result, step, out, filled, calls >>
      BY <1>1 DEF Apply, Goto
    <2>2. ASSUME NEW v \in Workers
          PROVE  op'[v] = NoOp <=> pc'[v] = "idle"
      BY <2>1, WorkerConstants DEF JournalTypeOK
    <2>3. /\ op' \in [Workers -> Ops \cup {NoOp}]
          /\ pc' \in [Workers -> {"idle", "read", "validate", "claim",
                        "submit", "call", "called", "reconcile", "finish",
                        "unknown"}]
      BY <2>1 DEF JournalTypeOK
    <2>. QED
      BY <2>1, <2>2, <2>3 DEF JournalTypeOK
  <1>2. ASSUME NEW w \in Workers, Read(w)
        PROVE  JournalTypeOK'
    <2>1. CASE Return(w)
      BY <1>2, <2>1, ReturnType DEF Read, JournalTypeOK
    <2>2. CASE Goto(w, "validate") /\ UNCHANGED << op, step, out >>
      BY <1>2, <2>2, HasOp, GotoType DEF Read, At, JournalTypeOK, Places
    <2>. QED
      BY <1>2, <2>1, <2>2 DEF Read
  <1>3. ASSUME NEW w \in Workers, Validate(w)
        PROVE  JournalTypeOK'
    <2>1. CASE Return(w)
      BY <1>3, <2>1, ReturnType DEF Validate, JournalTypeOK
    <2>2. CASE Goto(w, "claim") /\ UNCHANGED << op, step, out >>
      BY <1>3, <2>2, HasOp, GotoType DEF Validate, At, JournalTypeOK, Places
    <2>. QED
      BY <1>3, <2>1, <2>2 DEF Validate
  <1>4. ASSUME NEW w \in Workers, ClaimOperation(w)
        PROVE  JournalTypeOK'
    <2>1. CASE Return(w) /\ UNCHANGED << record, result >>
      BY <1>4, <2>1, ReturnType DEF ClaimOperation, JournalTypeOK
    <2>2. CASE /\ Claim(op[w]) /\ Goto(w, "submit")
               /\ UNCHANGED << op, step, out >>
      <3>1. record' \in [Ops -> {"absent"} \cup Active \cup Decided]
        BY <2>2 DEF Claim, JournalTypeOK, Active
      <3>2. UNCHANGED << result, op, step, out, filled, calls >>
        BY <1>4, <2>2 DEF ClaimOperation, Claim
      <3>. QED
        BY <1>4, <2>2, <3>1, <3>2, HasOp, GotoType
           DEF ClaimOperation, At, JournalTypeOK, Places
    <2>. QED
      BY <1>4, <2>1, <2>2 DEF ClaimOperation
  <1>5. ASSUME NEW w \in Workers, MarkSubmitted(w)
        PROVE  JournalTypeOK'
    <2>1. /\ record' \in [Ops -> {"absent"} \cup Active \cup Decided]
          /\ result' \in [Ops -> Result]
      BY <1>5, ResultFacts DEF MarkSubmitted, Mark, JournalTypeOK, Active
    <2>. QED
      BY <1>5, <2>1, HasOp, GotoType
         DEF MarkSubmitted, At, JournalTypeOK, Places
  <1>6. ASSUME NEW w \in Workers, QuiesceFailed(w)
        PROVE  JournalTypeOK'
    BY <1>6, HasOp, ConcludeType, ResultFacts DEF QuiesceFailed, At
  <1>7. ASSUME NEW w \in Workers, Call(w)
        PROVE  JournalTypeOK'
    <2>1. op[w] \in Ops /\ step[w] \in 1 .. MaxSteps
      BY <1>7, HasOp DEF Call, At
    <2>2. calls' \in [Ops -> [1 .. MaxSteps -> Nat]]
      <3>. DEFINE row == [calls[op[w]] EXCEPT ![step[w]] = @ + 1]
      <3>1. row \in [1 .. MaxSteps -> Nat]
        BY <2>1 DEF JournalTypeOK, MaxSteps
      <3>2. calls' = [calls EXCEPT ![op[w]] = row]
        BY <1>7 DEF Call
      <3>. HIDE DEF row
      <3>. QED
        BY <2>1, <3>1, <3>2 DEF JournalTypeOK
    <2>3. filled' \subseteq Targets
      <3>1. Target[op[w]] \in Targets
        BY <2>1, JournalConstants
      <3>2. filled' = filled \/ filled' = filled \cup {Target[op[w]]}
        BY <1>7 DEF Call
      <3>. QED
        BY <3>1, <3>2 DEF JournalTypeOK
    <2>4. /\ pc' = [pc EXCEPT ![w] = "called"]
          /\ UNCHANGED << record, result, op, step, out >>
      BY <1>7 DEF Call, Goto
    <2>5. ASSUME NEW v \in Workers
          PROVE  op'[v] = NoOp <=> pc'[v] = "idle"
      BY <2>1, <2>4, WorkerConstants DEF JournalTypeOK
    <2>6. pc' \in [Workers -> {"idle", "read", "validate", "claim", "submit",
                              "call", "called", "reconcile", "finish",
                              "unknown"}]
      BY <2>4 DEF JournalTypeOK
    <2>. QED
      BY <2>2, <2>3, <2>4, <2>5, <2>6 DEF JournalTypeOK
  <1>8. ASSUME NEW w \in Workers, CallSucceeded(w)
        PROVE  JournalTypeOK'
    <2>1. /\ op[w] \in Ops /\ step[w] \in 1 .. MaxSteps
          /\ LastStep(op[w]) \in 1 .. MaxSteps
      BY <1>8, HasOp DEF CallSucceeded, At
    <2>2. CASE step[w] < LastStep(op[w])
      <3>1. step[w] + 1 \in 1 .. MaxSteps
        BY <2>1, <2>2 DEF MaxSteps
      <3>2. step' \in [Workers -> 1 .. MaxSteps]
        BY <1>8, <2>2, <3>1 DEF CallSucceeded, JournalTypeOK
      <3>. QED
        BY <1>8, <2>1, <2>2, <3>2, GotoType
           DEF CallSucceeded, JournalTypeOK, Places
    <2>3. CASE ~ step[w] < LastStep(op[w]) /\ Reconciles(op[w])
      BY <1>8, <2>1, <2>3, GotoType DEF CallSucceeded, JournalTypeOK, Places
    <2>4. CASE ~ step[w] < LastStep(op[w]) /\ ~ Reconciles(op[w])
      BY <1>8, <2>1, <2>4, ConcludeType, ResultFacts
         DEF CallSucceeded, Accepted
    <2>. QED
      BY <2>2, <2>3, <2>4
  <1>9. ASSUME NEW w \in Workers, CallFailed(w)
        PROVE  JournalTypeOK'
    <2>1. op[w] \in Ops /\ step[w] \in 1 .. MaxSteps
      BY <1>9, HasOp DEF CallFailed, At
    <2>2. Recovery(step[w]) \in Result /\ NoResult \in Result
      BY <2>1, ResultFacts
    <2>3. CASE Action[op[w]] = "upgrade"
      BY <1>9, <2>1, <2>2, <2>3, ConcludeType DEF CallFailed
    <2>4. CASE Action[op[w]] # "upgrade"
      BY <1>9, <2>1, <2>2, <2>4, ConcludeType DEF CallFailed
    <2>. QED
      BY <2>3, <2>4
  <1>10. ASSUME NEW w \in Workers, CallRaised(w)
         PROVE  JournalTypeOK'
    <2>1. op[w] \in Ops
      BY <1>10, HasOp DEF CallRaised, At
    <2>2. CASE Action[op[w]] \in Maintenance
      BY <1>10, <2>1, <2>2, GotoType DEF CallRaised, JournalTypeOK, Places
    <2>3. CASE Action[op[w]] \notin Maintenance
      BY <1>10, <2>1, <2>3, ConcludeType, ResultFacts DEF CallRaised
    <2>. QED
      BY <2>2, <2>3
  <1>11. ASSUME NEW w \in Workers, Reconcile(w)
         PROVE  JournalTypeOK'
    <2>1. op[w] \in Ops
      BY <1>11, HasOp DEF Reconcile, At
    <2>2. ASSUME NEW ok \in BOOLEAN,
                 Conclude(w, [NoResult EXCEPT !.accepted = ok])
          PROVE  JournalTypeOK'
      <3>. DEFINE res == [NoResult EXCEPT !.accepted = ok]
      <3>1. res \in Result
        BY ResultFacts
      <3>. HIDE DEF res
      <3>2. Conclude(w, res)
        BY <2>2 DEF res
      <3>. QED
        BY <1>11, <2>1, <3>1, <3>2, ConcludeType DEF Reconcile
    <2>3. CASE Goto(w, "unknown") /\ UNCHANGED << step, out >>
      BY <1>11, <2>1, <2>3, GotoType DEF Reconcile, JournalTypeOK, Places
    <2>. QED
      BY <1>11, <2>2, <2>3 DEF Reconcile
  <1>12. ASSUME NEW w \in Workers, Finish(w)
         PROVE  JournalTypeOK'
    <2>1. /\ record' \in [Ops -> {"absent"} \cup Active \cup Decided]
          /\ result' \in [Ops -> Result]
      BY <1>12 DEF Finish, Complete, JournalTypeOK, Decided
    <2>. QED
      BY <1>12, <2>1, ReturnType DEF Finish
  <1>13. ASSUME NEW w \in Workers, MarkUnknown(w)
         PROVE  JournalTypeOK'
    <2>1. /\ record' \in [Ops -> {"absent"} \cup Active \cup Decided]
          /\ result' \in [Ops -> Result]
      BY <1>13, ResultFacts DEF MarkUnknown, Mark, JournalTypeOK, Active
    <2>. QED
      BY <1>13, <2>1, ReturnType DEF MarkUnknown
  <1>14. ASSUME NEW w \in Workers, Crash(w)
         PROVE  JournalTypeOK'
    BY <1>14, ReturnType DEF Crash, JournalTypeOK
  <1>15. ASSUME NEW o \in Ops, NEW accepted \in BOOLEAN,
                OperatorReconciles(o, accepted)
         PROVE  JournalTypeOK'
    <2>1. [NoResult EXCEPT !.accepted = accepted] \in Result
      BY ResultFacts
    <2>. DEFINE res == [NoResult EXCEPT !.accepted = accepted]
    <2>2. res \in Result
      BY <2>1
    <2>. HIDE DEF res
    <2>3. Complete(o, res) /\ UNCHANGED << pc, op, step, out, filled, calls >>
      BY <1>15 DEF OperatorReconciles, ReconcileUnknown, res
    <2>4. /\ record' \in [Ops -> {"absent"} \cup Active \cup Decided]
          /\ result' \in [Ops -> Result]
      BY <2>2, <2>3 DEF Complete, JournalTypeOK, Decided
    <2>. QED
      BY <2>3, <2>4 DEF JournalTypeOK
  <1>16. CASE UNCHANGED vars
    BY <1>16 DEF vars, JournalTypeOK
  <1>. QED
    BY <1>1, <1>2, <1>3, <1>4, <1>5, <1>6, <1>7, <1>8, <1>9, <1>10, <1>11,
       <1>12, <1>13, <1>14, <1>15, <1>16 DEF Next, WorkerStep

-----------------------------------------------------------------------------
(* Each step preserves the invariant.                                      *)
LEMMA FitsNone ==
    ASSUME NEW o \in Ops, NEW res, res.recovery = "none"
    PROVE  Fits(o, res)
  BY DEF Fits

LEMMA KeepsRead ==
    ASSUME IInv, JournalTypeOK', NEW w \in Workers,
           \/ \E o \in Ops : Apply(w, o)
           \/ Read(w) \/ Validate(w) \/ Crash(w)
           \/ ClaimOperation(w) /\ ~ Claimable(op[w])
    PROVE  IInv'
  <1>. USE DEF Unmoved
  <1>1. UNCHANGED << record, result, calls >>
    BY DEF Apply, Read, Validate, Crash, ClaimOperation
  <1>2. pc[w] \in NotStarted => step[w] = 1
    BY DEF IInv, ProgressInv
  <1>3. ASSUME Return(w)
        PROVE  IInv'
    <2>1. /\ pc'[w] = "idle" /\ step'[w] = 1
          /\ \A v \in Workers \ {w} : Unmoved(v)
      BY <1>3 DEF Return, Goto, IInv, JournalTypeOK
    <2>. QED
      BY <1>1, <2>1, LetsGo DEF NotStarted
  <1>4. ASSUME NEW place \in {"read", "validate", "claim"},
               Goto(w, place), UNCHANGED << step, out >>,
               pc[w] \in NotStarted,
               \A v \in Workers \ {w} : op'[v] = op[v]
        PROVE  IInv'
    <2>1. /\ pc'[w] = place /\ step'[w] = 1
          /\ \A v \in Workers \ {w} : Unmoved(v)
      BY <1>2, <1>4 DEF Goto, IInv, JournalTypeOK
    <2>. QED
      BY <1>1, <2>1, LetsGo DEF NotStarted
  <1>5. CASE \E o \in Ops : Apply(w, o)
    <2>1. \A v \in Workers \ {w} : op'[v] = op[v]
      BY <1>5 DEF Apply, IInv, JournalTypeOK
    <2>. QED
      BY <1>4, <1>5, <2>1 DEF Apply, At, NotStarted
  <1>6. CASE Read(w)
    BY <1>3, <1>4, <1>6 DEF Read, At, NotStarted
  <1>7. CASE Validate(w)
    BY <1>3, <1>4, <1>7 DEF Validate, At, NotStarted
  <1>8. CASE Crash(w)
    BY <1>3, <1>8 DEF Crash
  <1>9. CASE ClaimOperation(w) /\ ~ Claimable(op[w])
    BY <1>3, <1>9 DEF ClaimOperation
  <1>. QED
    BY <1>5, <1>6, <1>7, <1>8, <1>9

LEMMA KeepsClaim ==
    ASSUME IInv, JournalTypeOK', NEW w \in Workers,
           ClaimOperation(w), Claimable(op[w])
    PROVE  IInv'
  <1>. DEFINE o == op[w]
  <1>1. /\ o \in Ops /\ pc[w] = "claim" /\ step[w] = 1
    BY HasOp DEF ClaimOperation, At, IInv, ProgressInv, NotStarted
  <1>2. /\ record[o] = "absent"
        /\ record'[o] = "claimed"
        /\ \A p \in Ops \ {o} : record'[p] = record[p]
        /\ UNCHANGED << result, op, step, out, calls >>
        /\ pc'[w] = "submit"
        /\ \A v \in Workers \ {w} : pc'[v] = pc[v]
    BY <1>1 DEF ClaimOperation, Claimable, Claim, Goto, IInv, JournalTypeOK
  <1>3. \A v \in Workers : Holding(v) => op[v] # o
    BY <1>2 DEF IInv, HoldInv, Holding
  <1>4. ActiveInv'
    <2>1. \A p \in Ops : Rival(o, p) => record[p] \notin Active
      BY DEF Claimable
    <2>2. \A p, q \in Ops : Rival(p, q) => Rival(q, p)
      BY DEF Rival
    <2>. QED
      BY <1>1, <1>2, <2>1, <2>2 DEF IInv, ActiveInv, Rival
  <1>5. OwnerInv'
    BY <1>2, <1>3 DEF IInv, OwnerInv, Holding
  <1>6. HoldInv'
    <2>. SUFFICES ASSUME NEW v \in Workers
                  PROVE  /\ pc'[v] = "submit" => record'[op'[v]] = "claimed"
                         /\ pc'[v] \in {"call", "called", "reconcile", "unknown"}
                              => record'[op'[v]] = "submitted"
                         /\ pc'[v] = "finish" =>
                              record'[op'[v]] \in {"claimed", "submitted"}
      BY DEF HoldInv
    <2>1. CASE v = w
      BY <1>2, <2>1
    <2>2. CASE v # w
      <3>1. Holding(v) => op[v] \in Ops \ {o}
        BY <1>3, HasOp DEF IInv, Holding
      <3>. QED
        BY <1>2, <2>2, <3>1 DEF IInv, HoldInv, Holding
    <2>. QED
      BY <2>1, <2>2
  <1>7. ProgressInv'
    BY <1>1, <1>2 DEF IInv, ProgressInv, NotStarted, Called, LastStep
  <1>8. StepsRunOnce'
    BY <1>2 DEF IInv, StepsRunOnce
  <1>9. FitInv'
    BY <1>1, <1>2 DEF IInv, FitInv, Fits, LastStep, Decided
  <1>. QED
    BY <1>4, <1>5, <1>6, <1>7, <1>8, <1>9 DEF IInv

LEMMA KeepsSubmitted ==
    ASSUME IInv, JournalTypeOK', NEW w \in Workers, MarkSubmitted(w)
    PROVE  IInv'
  <1>. DEFINE o == op[w]
  <1>1. /\ o \in Ops /\ pc[w] = "submit" /\ step[w] = 1
        /\ record[o] = "claimed"
        /\ LastStep(o) \in 1 .. MaxSteps
    BY HasOp DEF MarkSubmitted, At, IInv, ProgressInv, NotStarted, HoldInv
  <1>2. /\ record'[o] = "submitted"
        /\ \A p \in Ops \ {o} : record'[p] = record[p]
        /\ UNCHANGED << op, step, out, calls >>
        /\ pc'[w] = "call"
        /\ \A v \in Workers \ {w} : pc'[v] = pc[v]
    BY <1>1 DEF MarkSubmitted, Mark, Goto, IInv, JournalTypeOK
  <1>3. UNCHANGED result
    <2>1. result[o] = NoResult
      BY <1>1 DEF IInv, FitInv, Decided
    <2>. QED
      BY <1>1, <2>1 DEF MarkSubmitted, Mark, IInv, JournalTypeOK
  <1>4. \A v \in Workers \ {w} : Holding(v) => op[v] # o
    BY <1>1 DEF IInv, OwnerInv, Holding
  <1>5. ActiveInv'
    BY <1>1, <1>2 DEF IInv, ActiveInv, Rival, Active
  <1>6. OwnerInv'
    BY <1>1, <1>2 DEF IInv, OwnerInv, Holding
  <1>7. HoldInv'
    <2>. SUFFICES ASSUME NEW v \in Workers
                  PROVE  /\ pc'[v] = "submit" => record'[op'[v]] = "claimed"
                         /\ pc'[v] \in {"call", "called", "reconcile", "unknown"}
                              => record'[op'[v]] = "submitted"
                         /\ pc'[v] = "finish" =>
                              record'[op'[v]] \in {"claimed", "submitted"}
      BY DEF HoldInv
    <2>1. CASE v = w
      BY <1>2, <2>1
    <2>2. CASE v # w
      <3>1. Holding(v) => op[v] \in Ops \ {o}
        BY <1>4, <2>2, HasOp DEF IInv, Holding
      <3>. QED
        BY <1>2, <2>2, <3>1 DEF IInv, HoldInv, Holding
    <2>. QED
      BY <2>1, <2>2
  <1>8. ProgressInv'
    <2>1. Called(o, 0) /\ step[w] - 1 = 0 /\ step[w] <= LastStep(o)
      BY <1>1 DEF IInv, ProgressInv, MaxSteps
    <2>. QED
      BY <1>1, <1>2, <2>1 DEF IInv, ProgressInv, NotStarted, Called, LastStep
  <1>9. StepsRunOnce'
    BY <1>2 DEF IInv, StepsRunOnce
  <1>10. FitInv'
    BY <1>1, <1>2, <1>3 DEF IInv, FitInv, Fits, LastStep, Decided
  <1>. QED
    BY <1>5, <1>6, <1>7, <1>8, <1>9, <1>10 DEF IInv

LEMMA KeepsCall ==
    ASSUME IInv, JournalTypeOK', NEW w \in Workers, Call(w)
    PROVE  IInv'
  <1>. DEFINE o == op[w]
  <1>. DEFINE n == step[w]
  <1>1. /\ o \in Ops /\ pc[w] = "call" /\ n \in 1 .. MaxSteps
        /\ record[o] = "submitted"
        /\ Called(o, n - 1)
    BY HasOp DEF Call, At, IInv, ProgressInv, HoldInv
  <1>2. /\ UNCHANGED << record, result, op, step, out >>
        /\ pc'[w] = "called"
        /\ \A v \in Workers \ {w} : pc'[v] = pc[v]
    BY <1>1 DEF Call, Goto, IInv, JournalTypeOK
  <1>3. /\ \A k \in 1 .. MaxSteps :
              calls'[o][k] = IF k = n THEN calls[o][k] + 1 ELSE calls[o][k]
        /\ \A p \in Ops \ {o} : calls'[p] = calls[p]
    <2>. DEFINE row == [calls[o] EXCEPT ![n] = @ + 1]
    <2>1. calls' = [calls EXCEPT ![o] = row]
      BY DEF Call
    <2>2. \A k \in 1 .. MaxSteps :
            row[k] = IF k = n THEN calls[o][k] + 1 ELSE calls[o][k]
      BY <1>1 DEF IInv, JournalTypeOK
    <2>. HIDE DEF row
    <2>. QED
      BY <1>1, <2>1, <2>2 DEF IInv, JournalTypeOK
  <1>4. Called(o, n)'
    <2>1. \A k \in 1 .. MaxSteps : calls'[o][k] = IF k <= n THEN 1 ELSE 0
      BY <1>1, <1>3 DEF Called, MaxSteps
    <2>. QED
      BY <1>2, <2>1 DEF Called
  <1>5. \A v \in Workers \ {w} : Holding(v) => op[v] # o
    BY <1>1 DEF IInv, OwnerInv, Holding
  <1>6. ActiveInv'
    BY <1>2 DEF IInv, ActiveInv
  <1>7. OwnerInv'
    BY <1>1, <1>2 DEF IInv, OwnerInv, Holding
  <1>8. HoldInv'
    BY <1>1, <1>2 DEF IInv, HoldInv
  <1>9. ProgressInv'
    <2>1. \A p \in Ops : record'[p] \in {"absent", "claimed"} => Called(p, 0)'
      BY <1>1, <1>2, <1>3 DEF IInv, ProgressInv, Called
    <2>2. ASSUME NEW v \in Workers
          PROVE  /\ pc'[v] \in NotStarted => step'[v] = 1
                 /\ pc'[v] \in {"call", "called"} => step'[v] <= LastStep(op'[v])
                 /\ pc'[v] = "call" => Called(op[v], step[v] - 1)'
                 /\ pc'[v] = "called" => Called(op[v], step[v])'
      <3>1. CASE v = w
        BY <1>1, <1>2, <1>4, <3>1
           DEF IInv, ProgressInv, NotStarted, LastStep, Called
      <3>2. CASE v # w
        <4>1. Holding(v) => op[v] \in Ops \ {o}
          BY <1>5, <3>2, HasOp DEF IInv, Holding
        <4>. QED
          BY <1>2, <1>3, <3>2, <4>1
             DEF IInv, ProgressInv, NotStarted, Called, Holding, LastStep
      <3>. QED
        BY <3>1, <3>2
    <2>. QED
      BY <1>2, <2>1, <2>2 DEF ProgressInv, Called, LastStep
  <1>10. StepsRunOnce'
    <2>1. \A k \in 1 .. MaxSteps : calls'[o][k] <= 1
      BY <1>2, <1>4 DEF Called
    <2>. QED
      BY <1>3, <2>1 DEF IInv, StepsRunOnce
  <1>11. FitInv'
    <2>1. result[o] = NoResult
      BY <1>1 DEF IInv, FitInv, Decided
    <2>2. \A p \in Ops : Fits(p, result[p])'
      BY <1>2, <1>3, <2>1 DEF IInv, FitInv, Fits, NoResult, LastStep
    <2>3. ASSUME NEW v \in Workers, pc'[v] = "finish"
          PROVE  Fits(op[v], out[v])'
      <3>1. v # w /\ op[v] \in Ops \ {o}
        BY <1>2, <1>5, <2>3, HasOp DEF IInv, Holding
      <3>. QED
        BY <1>2, <1>3, <2>3, <3>1 DEF IInv, FitInv, Fits, LastStep
    <2>. QED
      BY <1>2, <2>2, <2>3 DEF IInv, FitInv, Fits
  <1>. QED
    BY <1>6, <1>7, <1>8, <1>9, <1>10, <1>11 DEF IInv

(* What the holder of an operation concludes after a provider call.        *)
LEMMA RecoveryFits ==
    ASSUME IInv, NEW w \in Workers, pc[w] = "called",
           Action[op[w]] = "upgrade"
    PROVE  Fits(op[w], Recovery(step[w]))
  <1>. DEFINE n == step[w]
  <1>1. /\ op[w] \in Ops /\ n \in 1 .. MaxSteps
        /\ n <= LastStep(op[w]) /\ LastStep(op[w]) \in 1 .. MaxSteps
        /\ LastStep(op[w]) = Steps["upgrade"]
        /\ \A k \in 1 .. MaxSteps : calls[op[w]][k] = IF k <= n THEN 1 ELSE 0
    BY HasOp DEF IInv, ProgressInv, Called, LastStep
  <1>2. CASE n = 1
    <2>1. /\ Recovery(n).recovery = "restore"
      BY <1>2 DEF Recovery, NoResult
    <2>2. \A k \in 2 .. MaxSteps : calls[op[w]][k] = 0
      BY <1>1, <1>2 DEF MaxSteps
    <2>. QED
      BY <2>1, <2>2 DEF Fits
  <1>3. CASE n # 1
    <2>1. /\ Recovery(n).recovery = "forward"
          /\ Recovery(n).remaining = n + 1 .. Steps["upgrade"]
      BY <1>3 DEF Recovery, NoResult
    <2>2. calls[op[w]][2] > 0
      BY <1>1, <1>3 DEF MaxSteps
    <2>3. n + 1 .. Steps["upgrade"]
            = {k \in 1 .. LastStep(op[w]) : calls[op[w]][k] = 0}
      BY <1>1 DEF MaxSteps
    <2>. QED
      BY <2>1, <2>2, <2>3 DEF Fits
  <1>. QED
    BY <1>2, <1>3

LEMMA KeepsHolder ==
    ASSUME IInv, JournalTypeOK', NEW w \in Workers,
           \/ QuiesceFailed(w) \/ CallSucceeded(w) \/ CallFailed(w)
           \/ CallRaised(w) \/ Reconcile(w)
    PROVE  IInv'
  <1>1. /\ op[w] \in Ops /\ step[w] \in 1 .. MaxSteps
        /\ LastStep(op[w]) \in 1 .. MaxSteps
        /\ Holding(w) /\ pc[w] \in {"submit", "called", "reconcile"}
        /\ UNCHANGED << record, result, op, calls >>
    BY HasOp DEF IInv, Holding, At, QuiesceFailed, CallSucceeded, CallFailed,
                 CallRaised, Reconcile
  <1>2. ASSUME NEW res, Conclude(w, res), Fits(op[w], res)
        PROVE  IInv'
    <2>1. /\ pc'[w] = "finish" /\ out'[w] = res
          /\ \A v \in Workers \ {w} : Unmoved(v)
      BY <1>1, <1>2 DEF Conclude, Goto, Unmoved, IInv, JournalTypeOK
    <2>. QED
      BY <1>1, <1>2, <2>1, GoesOn
  <1>3. ASSUME NEW place \in {"call", "reconcile", "unknown"},
               Goto(w, place), UNCHANGED out, pc[w] = "called",
               place = "call" => /\ step'[w] = step[w] + 1
                                 /\ step'[w] <= LastStep(op[w]),
               \A v \in Workers \ {w} : step'[v] = step[v]
        PROVE  IInv'
    <2>1. /\ pc'[w] = place
          /\ \A v \in Workers \ {w} : Unmoved(v)
      BY <1>1, <1>3 DEF Goto, Unmoved, IInv, JournalTypeOK
    <2>. QED
      BY <1>1, <1>3, <2>1, GoesOn
  <1>4. Fits(op[w], NoResult) /\ Fits(op[w], Accepted)
    BY <1>1, FitsNone DEF NoResult, Accepted
  <1>5. CASE QuiesceFailed(w)
    BY <1>2, <1>4, <1>5 DEF QuiesceFailed
  <1>6. CASE CallSucceeded(w)
    <2>1. CASE step[w] < LastStep(op[w])
      <3>1. /\ Goto(w, "call") /\ UNCHANGED out /\ pc[w] = "called"
            /\ step' = [step EXCEPT ![w] = @ + 1]
        BY <1>6, <2>1 DEF CallSucceeded, At
      <3>2. /\ step'[w] = step[w] + 1
            /\ \A v \in Workers \ {w} : step'[v] = step[v]
        BY <3>1 DEF IInv, JournalTypeOK
      <3>3. step[w] + 1 <= LastStep(op[w])
        BY <1>1, <2>1 DEF MaxSteps
      <3>. QED
        BY <1>3, <3>1, <3>2, <3>3
    <2>2. CASE ~ step[w] < LastStep(op[w]) /\ Reconciles(op[w])
      BY <1>3, <1>6, <2>2 DEF CallSucceeded, At
    <2>3. CASE ~ step[w] < LastStep(op[w]) /\ ~ Reconciles(op[w])
      BY <1>2, <1>4, <1>6, <2>3 DEF CallSucceeded
    <2>. QED
      BY <2>1, <2>2, <2>3
  <1>7. CASE CallFailed(w)
    <2>1. CASE Action[op[w]] = "upgrade"
      BY <1>2, <1>7, <2>1, RecoveryFits DEF CallFailed, At
    <2>2. CASE Action[op[w]] # "upgrade"
      BY <1>2, <1>4, <1>7, <2>2 DEF CallFailed
    <2>. QED
      BY <2>1, <2>2
  <1>8. CASE CallRaised(w)
    <2>1. CASE Action[op[w]] \in Maintenance
      BY <1>3, <1>8, <2>1 DEF CallRaised, At
    <2>2. CASE Action[op[w]] \notin Maintenance
      BY <1>2, <1>4, <1>8, <2>2 DEF CallRaised
    <2>. QED
      BY <2>1, <2>2
  <1>9. CASE Reconcile(w)
    <2>1. ASSUME NEW ok \in BOOLEAN,
                 Conclude(w, [NoResult EXCEPT !.accepted = ok])
          PROVE  IInv'
      <3>1. Fits(op[w], [NoResult EXCEPT !.accepted = ok])
        BY <1>1, FitsNone DEF NoResult
      <3>. QED
        BY <1>2, <2>1, <3>1
    <2>2. CASE Goto(w, "unknown") /\ UNCHANGED << step, out >>
      <3>1. pc[w] = "reconcile" /\ pc'[w] = "unknown"
        BY <1>9, <2>2 DEF Reconcile, At, Goto, IInv, JournalTypeOK
      <3>2. \A v \in Workers \ {w} : Unmoved(v)
        BY <1>1, <2>2 DEF Goto, Unmoved, IInv, JournalTypeOK
      <3>. QED
        BY <1>1, <3>1, <3>2, GoesOn
    <2>. QED
      BY <1>9, <2>1, <2>2 DEF Reconcile
  <1>. QED
    BY <1>5, <1>6, <1>7, <1>8, <1>9

LEMMA KeepsStored ==
    ASSUME IInv, JournalTypeOK', NEW w \in Workers,
           Finish(w) \/ MarkUnknown(w)
    PROVE  IInv'
  <1>1. /\ op[w] \in Ops /\ Holding(w)
        /\ record[op[w]] \in {"claimed", "submitted", "unknown"}
    BY HasOp DEF Finish, MarkUnknown, At, Holding, IInv, HoldInv
  <1>2. /\ pc'[w] = "idle" /\ step'[w] = 1
        /\ \A v \in Workers \ {w} : Unmoved(v)
        /\ UNCHANGED calls
    BY DEF Finish, MarkUnknown, Return, Goto, Unmoved, IInv, JournalTypeOK
  <1>3. \A v \in Workers : \/ Unmoved(v) /\ (Holding(v) => op[v] # op[w])
                           \/ pc'[v] = "idle" /\ step'[v] = 1
    BY <1>1, <1>2 DEF IInv, OwnerInv
  <1>4. CASE Finish(w)
    <2>. DEFINE state == IF out[w].accepted THEN "succeeded" ELSE "failed"
    <2>1. /\ record' = [record EXCEPT ![op[w]] = state]
          /\ result' = [result EXCEPT ![op[w]] = out[w]]
          /\ state \in Decided /\ state # "unknown"
      BY <1>4 DEF Finish, Complete, Decided
    <2>2. Fits(op[w], out[w]) /\ out[w] \in Result
      BY <1>4 DEF Finish, At, IInv, FitInv, JournalTypeOK
    <2>. HIDE DEF state
    <2>. QED
      BY <1>1, <1>2, <1>3, <2>1, <2>2, Settles
  <1>5. CASE MarkUnknown(w)
    <2>1. /\ record' = [record EXCEPT ![op[w]] = "unknown"]
          /\ result' = [result EXCEPT ![op[w]] = NoResult]
      BY <1>5 DEF MarkUnknown, Mark
    <2>2. Fits(op[w], NoResult) /\ NoResult \in Result
      BY <1>1, FitsNone, ResultFacts DEF NoResult
    <2>. QED
      BY <1>1, <1>2, <1>3, <2>1, <2>2, Settles
  <1>. QED
    BY <1>4, <1>5

LEMMA KeepsOperator ==
    ASSUME IInv, JournalTypeOK', NEW o \in Ops, NEW accepted \in BOOLEAN,
           OperatorReconciles(o, accepted)
    PROVE  IInv'
  <1>. DEFINE res == [NoResult EXCEPT !.accepted = accepted]
  <1>. DEFINE state == IF res.accepted THEN "succeeded" ELSE "failed"
  <1>1. /\ record[o] = "unknown"
        /\ record' = [record EXCEPT ![o] = state]
        /\ result' = [result EXCEPT ![o] = res]
        /\ UNCHANGED << pc, op, step, out, calls >>
    BY DEF OperatorReconciles, ReconcileUnknown, Complete
  <1>2. \A v \in Workers : Unmoved(v) /\ (Holding(v) => op[v] # o)
    BY <1>1 DEF Unmoved, IInv, HoldInv, Holding
  <1>3. Fits(o, res) /\ res \in Result
    BY FitsNone, ResultFacts DEF NoResult
  <1>4. state \in Decided /\ state # "unknown"
    BY DEF Decided
  <1>. HIDE DEF res, state
  <1>. QED
    BY <1>1, <1>2, <1>3, <1>4, Settles

LEMMA KeepsIInv == IInv /\ [Next]_vars => IInv'
  <1>. SUFFICES ASSUME IInv, [Next]_vars
                PROVE  IInv'
    OBVIOUS
  <1>1. JournalTypeOK'
    BY StepType DEF IInv
  <1>2. ASSUME NEW w \in Workers, WorkerStep(w)
        PROVE  IInv'
    <2>1. CASE \/ \E o \in Ops : Apply(w, o)
               \/ Read(w) \/ Validate(w) \/ Crash(w)
      BY <1>1, <2>1, KeepsRead
    <2>2. CASE ClaimOperation(w)
      BY <1>1, <2>2, KeepsRead, KeepsClaim
    <2>3. CASE MarkSubmitted(w)
      BY <1>1, <2>3, KeepsSubmitted
    <2>4. CASE Call(w)
      BY <1>1, <2>4, KeepsCall
    <2>5. CASE \/ QuiesceFailed(w) \/ CallSucceeded(w) \/ CallFailed(w)
               \/ CallRaised(w) \/ Reconcile(w)
      BY <1>1, <2>5, KeepsHolder
    <2>6. CASE Finish(w) \/ MarkUnknown(w)
      BY <1>1, <2>6, KeepsStored
    <2>. QED
      BY <1>2, <2>1, <2>2, <2>3, <2>4, <2>5, <2>6 DEF WorkerStep
  <1>3. ASSUME NEW o \in Ops, NEW accepted \in BOOLEAN,
               OperatorReconciles(o, accepted)
        PROVE  IInv'
    BY <1>1, <1>3, KeepsOperator
  <1>4. CASE UNCHANGED vars
    BY <1>4 DEF vars, IInv, JournalTypeOK, ActiveInv, OwnerInv, HoldInv,
                ProgressInv, StepsRunOnce, FitInv, Fits, Called, Holding,
                Rival, LastStep
  <1>. QED
    BY <1>2, <1>3, <1>4 DEF Next

LEMMA Invariant == Spec => []IInv
  <1>1. Init => IInv
    BY InitInv
  <1>2. IInv /\ [Next]_vars => IInv'
    BY KeepsIInv
  <1>. QED
    BY <1>1, <1>2, PTL DEF Spec

-----------------------------------------------------------------------------
(* Type correctness of the journal (FileOperationJournalStore), of the     *)
(* processes that apply operations and of the histories.                   *)
THEOREM JournalTypeCorrect == Spec => []JournalTypeOK
  <1>1. IInv => JournalTypeOK
    BY DEF IInv
  <1>. QED
    BY <1>1, Invariant, PTL

(* A provider step of an operation is never called twice, however many     *)
(* processes apply it: claim never hands out an operation with a record.   *)
THEOREM StepsRunOnceEach == Spec => []StepsRunOnce
  <1>1. IInv => StepsRunOnce
    BY DEF IInv
  <1>. QED
    BY <1>1, Invariant, PTL

(* A provider is called only after mark_submitted wrote the journal.       *)
THEOREM NoStepBeforeSubmission == Spec => []SubmittedBeforeSteps
  <1>1. IInv => SubmittedBeforeSteps
    <2>. SUFFICES ASSUME IInv, NEW o \in Ops, NEW k \in 1 .. MaxSteps,
                         record[o] \in {"absent", "claimed"}
                  PROVE  ~ calls[o][k] > 0
      BY DEF SubmittedBeforeSteps
    <2>1. calls[o][k] = 0
      BY DEF IInv, ProgressInv, Called, MaxSteps
    <2>. QED
      BY <2>1
  <1>. QED
    BY <1>1, Invariant, PTL

(* Two processes never hold claims of the same action and target.          *)
THEOREM ClaimsExclude == Spec => []ExclusiveClaim
  <1>1. IInv => ExclusiveClaim
    <2>. SUFFICES ASSUME IInv, NEW v \in Workers, NEW w \in Workers,
                         Holding(v), Holding(w), Rival(op[v], op[w])
                  PROVE  v = w
      BY DEF ExclusiveClaim
    <2>1. /\ op[v] \in Ops /\ op[w] \in Ops
          /\ record[op[v]] \in Active /\ record[op[w]] \in Active
      BY HasOp DEF IInv, Holding, HoldInv, Active
    <2>2. op[v] = op[w]
      BY <2>1 DEF IInv, ActiveInv
    <2>. QED
      BY <2>2 DEF IInv, OwnerInv
  <1>. QED
    BY <1>1, Invariant, PTL

(* A stored upgrade failure prescribes a restore only before the first     *)
(* irreversible step, and forward repair with exactly the steps not run.   *)
THEOREM RecoveryIsSound == Spec => []RecoveryFitsProgress
  <1>1. IInv => RecoveryFitsProgress
    BY DEF IInv, FitInv, Fits, RecoveryFitsProgress
  <1>. QED
    BY <1>1, Invariant, PTL

-----------------------------------------------------------------------------
phases == [o \in Ops |-> Phase(o)]

(* A step that gives one record another state changes one phase.           *)
LEMMA OnePhase ==
    ASSUME JournalTypeOK, NEW o \in Ops, NEW state,
           record' = [record EXCEPT ![o] = state]
    PROVE  /\ phases' = [phases EXCEPT ![o] =
                           IF state \in {"absent", "claimed"} THEN "new"
                           ELSE IF state \in Decided THEN "decided"
                           ELSE "undecided"]
           /\ \A p \in Ops : phases[p] = Phase(p)
  <1>1. record'[o] = state /\ \A p \in Ops \ {o} : record'[p] = record[p]
    BY DEF JournalTypeOK
  <1>. QED
    BY <1>1 DEF phases, Phase

LEMMA StepKeepsPromise ==
    ASSUME IInv, [Next]_vars
    PROVE  [Promise!Next]_phases
  <1>. USE DEF Promise!Next, Promise!Undertake, Promise!Decide
  <1>1. CASE UNCHANGED record
    BY <1>1 DEF phases, Phase
  <1>2. ASSUME NEW w \in Workers, ClaimOperation(w), Claimable(op[w])
        PROVE  UNCHANGED phases
    <2>1. /\ op[w] \in Ops /\ record[op[w]] = "absent"
          /\ record' = [record EXCEPT ![op[w]] = "claimed"]
      BY <1>2, HasOp DEF ClaimOperation, Claimable, Claim, At, IInv
    <2>2. record'[op[w]] = "claimed"
          /\ \A p \in Ops \ {op[w]} : record'[p] = record[p]
      BY <2>1 DEF IInv, JournalTypeOK
    <2>. QED
      BY <2>1, <2>2 DEF phases, Phase
  <1>3. ASSUME NEW w \in Workers, MarkSubmitted(w)
        PROVE  Promise!Undertake(op[w])
    <2>1. /\ op[w] \in Ops /\ record[op[w]] = "claimed"
          /\ record' = [record EXCEPT ![op[w]] = "submitted"]
      BY <1>3, HasOp DEF MarkSubmitted, Mark, At, IInv, HoldInv
    <2>2. /\ phases' = [phases EXCEPT ![op[w]] = "undecided"]
          /\ \A p \in Ops : phases[p] = Phase(p)
      BY <2>1, OnePhase DEF IInv, Decided
    <2>3. ASSUME NEW p \in Ops, phases[p] = "undecided"
          PROVE  ~ Rival(op[w], p)
      <3>1. record[p] \in {"submitted", "unknown"}
        BY <2>2, <2>3 DEF Phase, IInv, JournalTypeOK, Active, Decided
      <3>. QED
        BY <2>1, <3>1 DEF IInv, ActiveInv, Active
    <2>4. phases[op[w]] = "new"
      BY <2>1, <2>2 DEF Phase
    <2>. QED
      BY <2>2, <2>3, <2>4 DEF phases
  <1>4. ASSUME NEW o \in Ops, NEW res, record[o] \in Active, Complete(o, res)
        PROVE  Promise!Decide(o)
    <2>1. PICK state \in Decided : record' = [record EXCEPT ![o] = state]
      BY <1>4 DEF Complete, Decided
    <2>2. /\ phases' = [phases EXCEPT ![o] = "decided"]
          /\ \A p \in Ops : phases[p] = Phase(p)
      BY <2>1, OnePhase DEF IInv, Decided
    <2>3. phases[o] # "decided"
      BY <1>4, <2>2 DEF Phase, Active, Decided
    <2>. QED
      BY <2>2, <2>3 DEF phases
  <1>5. ASSUME NEW w \in Workers, MarkUnknown(w)
        PROVE  UNCHANGED phases
    <2>1. /\ op[w] \in Ops /\ record[op[w]] = "submitted"
          /\ record' = [record EXCEPT ![op[w]] = "unknown"]
      BY <1>5, HasOp DEF MarkUnknown, Mark, At, IInv, HoldInv
    <2>2. record'[op[w]] = "unknown"
          /\ \A p \in Ops \ {op[w]} : record'[p] = record[p]
      BY <2>1 DEF IInv, JournalTypeOK
    <2>. QED
      BY <2>1, <2>2 DEF phases, Phase, Decided
  <1>6. ASSUME NEW w \in Workers, WorkerStep(w)
        PROVE  [Promise!Next]_phases
    <2>1. CASE ClaimOperation(w)
      BY <1>1, <1>2, <2>1 DEF ClaimOperation
    <2>2. CASE MarkSubmitted(w)
      BY <1>3, <2>2, HasOp DEF MarkSubmitted, At, IInv
    <2>3. CASE Finish(w)
      <3>1. op[w] \in Ops /\ record[op[w]] \in Active /\ Complete(op[w], out[w])
        BY <2>3, HasOp DEF Finish, At, IInv, HoldInv, Active
      <3>. QED
        BY <1>4, <3>1
    <2>4. CASE MarkUnknown(w)
      BY <1>5, <2>4
    <2>5. CASE \/ \E o \in Ops : Apply(w, o)
               \/ Read(w) \/ Validate(w) \/ QuiesceFailed(w) \/ Call(w)
               \/ CallSucceeded(w) \/ CallFailed(w) \/ CallRaised(w)
               \/ Reconcile(w) \/ Crash(w)
      <3>1. UNCHANGED record
        BY <2>5 DEF Apply, Read, Validate, QuiesceFailed, Call, CallSucceeded,
                    CallFailed, CallRaised, Reconcile, Crash
      <3>. QED
        BY <1>1, <3>1
    <2>. QED
      BY <1>6, <2>1, <2>2, <2>3, <2>4, <2>5 DEF WorkerStep
  <1>7. ASSUME NEW o \in Ops, NEW accepted \in BOOLEAN,
               OperatorReconciles(o, accepted)
        PROVE  [Promise!Next]_phases
    <2>1. /\ record[o] \in Active
          /\ Complete(o, [NoResult EXCEPT !.accepted = accepted])
      BY <1>7 DEF OperatorReconciles, ReconcileUnknown, Active
    <2>. QED
      BY <1>4, <2>1
  <1>8. CASE UNCHANGED vars
    BY <1>1, <1>8 DEF vars
  <1>. QED
    BY <1>6, <1>7, <1>8 DEF Next

(* The journal implements its promise: an operation is undertaken at most  *)
(* once, never beside an undecided rival, and its outcome is final.        *)
THEOREM JournalKeepsPromise == Spec => ImplementsPromise
  <1>1. Init => Promise!Init
    BY DEF Init, JournalInit, Promise!Init, Phase
  <1>2. IInv /\ [Next]_vars => [Promise!Next]_phases
    BY StepKeepsPromise
  <1>. QED
    BY <1>1, <1>2, Invariant, PTL
       DEF Spec, ImplementsPromise, Promise!Spec, phases
=============================================================================
