-------------------------- MODULE PromotionCursor ---------------------------
(***************************************************************************)
(* Which terminal runs wap_auto_promotion_sensor ever looks at.  A tick    *)
(* captures its evaluation time, asks Dagster for the terminal runs that   *)
(* were updated after the cursor minus five minutes (after one hour ago on *)
(* a cold start), evaluates them one by one and finally stores the         *)
(* evaluation time as the new cursor.  A tick that dies leaves the old     *)
(* cursor.  Time is a counter that only the environment advances.          *)
(***************************************************************************)
EXTENDS Integers

CONSTANTS Runs,       \* runs that carry a WAP branch
          Rewind,     \* how far a tick looks behind its cursor (5 minutes)
          ColdStart,  \* how far it looks back without a cursor (1 hour)
          MaxLag,     \* longest delay from a run's update stamp to its
                      \* row being visible to another process
          MaxNow      \* bound on the clock

(* A row that became visible later than the rewind could never be found;   *)
(* the filter updated_after is strict, hence MaxLag < Rewind.              *)
ASSUME CursorAssumption ==
    /\ Rewind \in Nat /\ ColdStart \in Nat /\ MaxNow \in Nat
    /\ MaxLag \in Nat /\ MaxLag < Rewind

VARIABLES
    now,      \* the clock
    stamp,    \* run -> update time of its terminal status, Unset before
    visible,  \* runs whose terminal row a query returns
    cursor,   \* the sensor's stored cursor, Unset before the first one
    pc,       \* "idle", "query" (before get_runs), "loop" (evaluating)
    eval,     \* evaluation_time of the running tick, 0 when idle
    batch,    \* terminal_runs still to be evaluated by the running tick
    seen,     \* history: runs that some tick evaluated
    settled,  \* runs that need no further evaluation (phlo/wap_promoted)
    horizon   \* history: the cold-start cutoff of the first stored cursor

vars == << now, stamp, visible, cursor, pc, eval, batch, seen, settled,
           horizon >>

Unset == -1

(* Seeded defect: the window starts exactly at the cursor.                 *)
CutoffWithoutRewind == IF cursor = Unset THEN eval - ColdStart ELSE cursor

(* The cutoff of the tick that started at eval.                            *)
Cutoff == IF cursor = Unset THEN eval - ColdStart ELSE cursor - Rewind

Init ==
    /\ now = 0
    /\ stamp = [r \in Runs |-> Unset]
    /\ visible = {}
    /\ cursor = Unset
    /\ pc = "idle"
    /\ eval = 0
    /\ batch = {}
    /\ seen = {}
    /\ settled = {}
    /\ horizon = Unset

-----------------------------------------------------------------------------
(* Dagster stamps the terminal status ...                                  *)
Finish(r) ==
    /\ stamp[r] = Unset
    /\ stamp' = [stamp EXCEPT ![r] = now]
    /\ UNCHANGED << now, visible, cursor, pc, eval, batch, seen, settled,
                    horizon >>

(* ... and the transaction that stores it commits.                         *)
Appear(r) ==
    /\ stamp[r] # Unset
    /\ r \notin visible
    /\ visible' = visible \cup {r}
    /\ UNCHANGED << now, stamp, cursor, pc, eval, batch, seen, settled,
                    horizon >>

(* Time passes, but no row stays invisible for longer than MaxLag.         *)
Advance ==
    /\ now < MaxNow
    /\ \A r \in Runs \ visible : stamp[r] # Unset => now < stamp[r] + MaxLag
    /\ now' = now + 1
    /\ UNCHANGED << stamp, visible, cursor, pc, eval, batch, seen, settled,
                    horizon >>

(* wap_auto_promotion_sensor: evaluation_time is taken before the query.   *)
TickStart ==
    /\ pc = "idle"
    /\ pc' = "query"
    /\ eval' = now
    /\ UNCHANGED << now, stamp, visible, cursor, batch, seen, settled,
                    horizon >>

(* instance.get_runs(statuses, updated_after=cutoff).                      *)
TickQuery ==
    /\ pc = "query"
    /\ pc' = "loop"
    /\ batch' = {r \in visible : stamp[r] > Cutoff}
    /\ UNCHANGED << now, stamp, visible, cursor, eval, seen, settled,
                    horizon >>

(* _promote_terminal_run finishes with r, fails for now, or raises; the    *)
(* loop goes on with the next run either way.                              *)
Evaluate(r, settles) ==
    /\ pc = "loop"
    /\ r \in batch
    /\ batch' = batch \ {r}
    /\ seen' = seen \cup {r}
    /\ settled' = IF settles THEN settled \cup {r} ELSE settled
    /\ UNCHANGED << now, stamp, visible, cursor, pc, eval, horizon >>

(* Seeded defects: the cutoff is stored instead of the evaluation time;    *)
(* the cursor moves although runs of the batch were not evaluated.         *)
TickCommitCutoff ==
    /\ pc = "loop"
    /\ batch = {}
    /\ pc' = "idle"
    /\ cursor' = Cutoff
    /\ horizon' = IF cursor = Unset THEN Cutoff ELSE horizon
    /\ eval' = 0
    /\ UNCHANGED << now, stamp, visible, batch, seen, settled >>

TickCommitEarly ==
    /\ pc = "loop"
    /\ pc' = "idle"
    /\ cursor' = eval
    /\ batch' = {}
    /\ horizon' = IF cursor = Unset THEN Cutoff ELSE horizon
    /\ eval' = 0
    /\ UNCHANGED << now, stamp, visible, seen, settled >>

(* context.update_cursor(evaluation_time).                                 *)
TickCommit ==
    /\ pc = "loop"
    /\ batch = {}
    /\ pc' = "idle"
    /\ cursor' = eval
    /\ horizon' = IF cursor = Unset THEN Cutoff ELSE horizon
    /\ eval' = 0
    /\ UNCHANGED << now, stamp, visible, batch, seen, settled >>

(* The tick dies: the catalog cannot be loaded, get_runs raises, the       *)
(* evaluation times out or the daemon stops.                               *)
TickCrash ==
    /\ pc # "idle"
    /\ pc' = "idle"
    /\ batch' = {}
    /\ eval' = 0
    /\ UNCHANGED << now, stamp, visible, cursor, seen, settled,
                    horizon >>

Next ==
    \/ \E r \in Runs :
        \/ Finish(r) \/ Appear(r)
        \/ \E settles \in BOOLEAN : Evaluate(r, settles)
    \/ Advance
    \/ TickStart \/ TickQuery \/ TickCommit \/ TickCrash

Spec == Init /\ [][Next]_vars

(* The daemon keeps starting ticks and not every tick dies.                *)
Fairness ==
    /\ WF_vars(TickStart)
    /\ SF_vars(TickQuery)
    /\ SF_vars(TickCommit)
    /\ \A r \in Runs : SF_vars(\E settles \in BOOLEAN : Evaluate(r, settles))

FairSpec == Spec /\ Fairness

(* Moreover an evaluation that keeps being repeated succeeds some time.    *)
RetrySpec == FairSpec /\ \A r \in Runs : SF_vars(Evaluate(r, TRUE))

-----------------------------------------------------------------------------
(* The clock and its stamps are times, the sets hold runs.                 *)
TypeOK ==
    /\ now \in Nat
    /\ stamp \in [Runs -> Nat \cup {Unset}]
    /\ visible \subseteq Runs
    /\ cursor \in Nat \cup {Unset}
    /\ pc \in {"idle", "query", "loop"}
    /\ eval \in Nat
    /\ batch \subseteq Runs
    /\ seen \subseteq Runs
    /\ settled \subseteq Runs
    /\ horizon \in Int

(* The next tick's window still contains every visible run that no tick    *)
(* has evaluated: moving the cursor skips nobody, whatever was committed   *)
(* late and whichever ticks died (only runs older than the cold-start      *)
(* window of the first tick are out).                                      *)
NoRunSkipped ==
    \A r \in visible \ seen :
        cursor # Unset /\ stamp[r] > horizon => stamp[r] > cursor - Rewind

(* Every such run is evaluated at least once.                              *)
EveryRunEvaluated ==
    \A r \in Runs :
        r \in visible /\ cursor # Unset /\ stamp[r] > horizon ~> r \in seen

(* A run whose evaluation failed is evaluated again until it settles       *)
(* ("so the caller retries on a later tick").                              *)
PendingIsRetried == \A r \in Runs : r \in seen ~> r \in settled
=============================================================================
