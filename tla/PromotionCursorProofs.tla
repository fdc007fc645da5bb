----------------------- MODULE PromotionCursorProofs ------------------------
(***************************************************************************)
(* For every set of runs, every rewind longer than the visibility lag and  *)
(* every clock: moving the promotion sensor's cursor skips no run.         *)
(***************************************************************************)
EXTENDS PromotionCursor, TLAPS

(* The clock never runs behind anything that was read from it, and a row   *)
(* is invisible for at most MaxLag.                                        *)
ClockInv ==
    /\ cursor <= now
    /\ eval <= now
    /\ \A r \in Runs :
        /\ stamp[r] <= now
        /\ r \notin visible /\ stamp[r] # Unset => now <= stamp[r] + MaxLag
        /\ r \in visible => stamp[r] # Unset

(* While a tick evaluates its batch, every run that is neither evaluated   *)
(* nor in the batch became visible after the query (so its stamp is at     *)
(* most MaxLag older than evaluation_time) or was below the cutoff.        *)
BatchInv ==
    pc = "loop" =>
        \A r \in visible \ (seen \cup batch) :
            stamp[r] <= Cutoff \/ stamp[r] >= eval - MaxLag

(* NoRunSkipped alone is not inductive: TickCommit needs BatchInv for the  *)
(* runs the query did not return, and Appear needs ClockInv.               *)
IInv == TypeOK /\ ClockInv /\ BatchInv /\ NoRunSkipped

LEMMA InitIInv == Init => IInv
  BY CursorAssumption
     DEF Init, IInv, TypeOK, ClockInv, BatchInv, NoRunSkipped, Unset

-----------------------------------------------------------------------------
(* One lemma per conjunct: what a step does to it.                         *)

LEMMA TypeStep == TypeOK /\ [Next]_vars => TypeOK'
  <1> USE CursorAssumption
  <1>. SUFFICES ASSUME TypeOK, [Next]_vars PROVE TypeOK'
    OBVIOUS
  <1>1. ASSUME NEW r \in Runs, Finish(r) PROVE TypeOK'
    BY <1>1 DEF TypeOK, Finish
  <1>2. ASSUME NEW r \in Runs, Appear(r) PROVE TypeOK'
    BY <1>2 DEF TypeOK, Appear
  <1>3. ASSUME NEW r \in Runs, NEW s \in BOOLEAN, Evaluate(r, s) PROVE TypeOK'
    BY <1>3 DEF TypeOK, Evaluate
  <1>4. CASE Advance
    BY <1>4 DEF TypeOK, Advance
  <1>5. CASE TickStart
    BY <1>5 DEF TypeOK, TickStart
  <1>6. CASE TickQuery
    BY <1>6 DEF TypeOK, TickQuery
  <1>7. CASE TickCommit
    BY <1>7 DEF TypeOK, TickCommit, Cutoff, Unset
  <1>8. CASE TickCrash
    BY <1>8 DEF TypeOK, TickCrash
  <1>9. CASE UNCHANGED vars
    BY <1>9 DEF TypeOK, vars
  <1>. QED
    BY <1>1, <1>2, <1>3, <1>4, <1>5, <1>6, <1>7, <1>8, <1>9 DEF Next

LEMMA ClockStep == TypeOK /\ ClockInv /\ [Next]_vars => ClockInv'
  <1> USE CursorAssumption
  <1>. SUFFICES ASSUME TypeOK, ClockInv, [Next]_vars PROVE ClockInv'
    OBVIOUS
  <1>1. ASSUME NEW r \in Runs, Finish(r) PROVE ClockInv'
    BY <1>1 DEF TypeOK, ClockInv, Finish, Unset
  <1>2. ASSUME NEW r \in Runs, Appear(r) PROVE ClockInv'
    BY <1>2 DEF TypeOK, ClockInv, Appear, Unset
  <1>3. ASSUME NEW r \in Runs, NEW s \in BOOLEAN, Evaluate(r, s)
        PROVE  ClockInv'
    BY <1>3 DEF TypeOK, ClockInv, Evaluate, Unset
  <1>4. CASE Advance
    BY <1>4 DEF TypeOK, ClockInv, Advance, Unset
  <1>5. CASE TickStart
    BY <1>5 DEF TypeOK, ClockInv, TickStart, Unset
  <1>6. CASE TickQuery
    BY <1>6 DEF TypeOK, ClockInv, TickQuery, Unset
  <1>7. CASE TickCommit
    BY <1>7 DEF TypeOK, ClockInv, TickCommit, Unset
  <1>8. CASE TickCrash
    BY <1>8 DEF TypeOK, ClockInv, TickCrash, Unset
  <1>9. CASE UNCHANGED vars
    BY <1>9 DEF TypeOK, ClockInv, vars
  <1>. QED
    BY <1>1, <1>2, <1>3, <1>4, <1>5, <1>6, <1>7, <1>8, <1>9 DEF Next

LEMMA BatchStep ==
    TypeOK /\ ClockInv /\ BatchInv /\ [Next]_vars => BatchInv'
  <1> USE CursorAssumption
  <1>. SUFFICES ASSUME TypeOK, ClockInv, BatchInv, [Next]_vars
                PROVE  BatchInv'
    OBVIOUS
  <1>1. ASSUME NEW r \in Runs, Finish(r) PROVE BatchInv'
    BY <1>1 DEF TypeOK, ClockInv, BatchInv, Finish, Cutoff, Unset
  <1>2. ASSUME NEW r \in Runs, Appear(r) PROVE BatchInv'
    BY <1>2 DEF TypeOK, ClockInv, BatchInv, Appear, Cutoff, Unset
  <1>3. ASSUME NEW r \in Runs, NEW s \in BOOLEAN, Evaluate(r, s)
        PROVE  BatchInv'
    BY <1>3 DEF TypeOK, BatchInv, Evaluate, Cutoff
  <1>4. CASE Advance
    BY <1>4 DEF TypeOK, BatchInv, Advance, Cutoff
  <1>5. CASE TickStart
    BY <1>5 DEF BatchInv, TickStart
  <1>6. CASE TickQuery
    BY <1>6 DEF TypeOK, BatchInv, TickQuery, Cutoff, Unset
  <1>7. CASE TickCommit
    BY <1>7 DEF BatchInv, TickCommit
  <1>8. CASE TickCrash
    BY <1>8 DEF BatchInv, TickCrash
  <1>9. CASE UNCHANGED vars
    BY <1>9 DEF BatchInv, Cutoff, vars
  <1>. QED
    BY <1>1, <1>2, <1>3, <1>4, <1>5, <1>6, <1>7, <1>8, <1>9 DEF Next

LEMMA SkipStep == IInv /\ [Next]_vars => NoRunSkipped'
  <1> USE CursorAssumption DEF IInv
  <1>. SUFFICES ASSUME IInv, [Next]_vars PROVE NoRunSkipped'
    OBVIOUS
  <1>1. ASSUME NEW r \in Runs, Finish(r) PROVE NoRunSkipped'
    BY <1>1 DEF TypeOK, ClockInv, NoRunSkipped, Finish, Unset
  <1>2. ASSUME NEW r \in Runs, Appear(r) PROVE NoRunSkipped'
    BY <1>2 DEF TypeOK, ClockInv, NoRunSkipped, Appear, Unset
  <1>3. ASSUME NEW r \in Runs, NEW s \in BOOLEAN, Evaluate(r, s)
        PROVE  NoRunSkipped'
    BY <1>3 DEF TypeOK, NoRunSkipped, Evaluate
  <1>4. CASE Advance
    BY <1>4 DEF NoRunSkipped, Advance
  <1>5. CASE TickStart
    BY <1>5 DEF NoRunSkipped, TickStart
  <1>6. CASE TickQuery
    BY <1>6 DEF NoRunSkipped, TickQuery
  <1>7. CASE TickCommit
    <2>. SUFFICES ASSUME NEW r \in visible \ seen, stamp[r] > horizon'
                  PROVE  stamp[r] > eval - Rewind
      BY <1>7 DEF NoRunSkipped, TickCommit
    <2>1. stamp[r] \in Int /\ eval \in Int /\ cursor \in Int
      BY DEF TypeOK, Unset
    <2>2. stamp[r] > Cutoff
      BY <1>7, <2>1 DEF NoRunSkipped, TickCommit, Cutoff
    <2>3. stamp[r] <= Cutoff \/ stamp[r] >= eval - MaxLag
      BY <1>7 DEF BatchInv, TickCommit
    <2>4. Cutoff \in Int
      BY <2>1 DEF Cutoff
    <2>. QED
      BY <2>1, <2>2, <2>3, <2>4
  <1>8. CASE TickCrash
    BY <1>8 DEF NoRunSkipped, TickCrash
  <1>9. CASE UNCHANGED vars
    BY <1>9 DEF NoRunSkipped, vars
  <1>. QED
    BY <1>1, <1>2, <1>3, <1>4, <1>5, <1>6, <1>7, <1>8, <1>9 DEF Next

(* Every variable of the sensor's cursor keeps its type.                   *)
THEOREM CursorTypeCorrect == Spec => []TypeOK
  <1>1. Init => TypeOK
    BY InitIInv DEF IInv
  <1>. QED
    BY <1>1, TypeStep, PTL DEF Spec

(* wap_auto_promotion_sensor's cursor handling skips no terminal run: as   *)
(* long as a run has not been evaluated, the next tick's window has it.    *)
THEOREM CursorSkipsNoRun == Spec => []NoRunSkipped
  <1>1. IInv /\ [Next]_vars => IInv'
    BY TypeStep, ClockStep, BatchStep, SkipStep DEF IInv
  <1>2. IInv => NoRunSkipped
    BY DEF IInv
  <1>. QED
    BY InitIInv, <1>1, <1>2, PTL DEF Spec
=============================================================================
