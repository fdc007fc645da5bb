---------------------------- MODULE BackfillPool ---------------------------
(***************************************************************************)
(* _run_backfill: without WAP the partitions run as container commands in  *)
(* a thread pool.  The main thread collects the futures as they complete   *)
(* and rewrites the state file after each.  The command inside the         *)
(* container outlives its client: after the one-hour timeout or the death  *)
(* of the process it goes on, watched by nobody.                           *)
(***************************************************************************)
EXTENDS BackfillState

CONSTANT Parallel   \* --parallel

ASSUME ParallelAssumption == Parallel \in Nat \ {0}

Ended == {"ok", "error"}
InPool == {k \in Entries : worker[k] # "none"}
PoolIdle == [k \in Entries |-> "none"]

(* A pool thread takes the next queued future.                             *)
WorkerStarts(k) ==
    /\ worker[k] = "queued"
    /\ Cardinality({l \in Entries : worker[l] = "running"}) < Parallel
    /\ worker' = [worker EXCEPT ![k] = "running"]
    /\ UNCHANGED << wap, asked, file, pc, mem, cur, polls, runVars, orphan,
                    made >>

(* The command exits (returncode 0 or not).                                *)
WorkerEnds(k, result) ==
    /\ worker[k] = "running"
    /\ worker' = [worker EXCEPT ![k] = result]
    /\ made' = IF result = "ok" THEN made \cup {DateOf[k]} ELSE made
    /\ UNCHANGED << wap, asked, file, pc, mem, cur, polls, runVars, orphan >>

(* Seeded defect: no timeout on the command.                               *)
WorkerHangs(k) == FALSE /\ UNCHANGED vars

(* subprocess.run gives up after an hour and kills the client only.        *)
WorkerTimesOut(k) ==
    /\ worker[k] = "running"
    /\ worker' = [worker EXCEPT ![k] = "error"]
    /\ orphan' = orphan \cup {DateOf[k]}
    /\ UNCHANGED << wap, asked, file, pc, mem, cur, polls, runVars, made >>

OrphanEnds(p, ok) ==
    /\ p \in orphan
    /\ orphan' = orphan \ {p}
    /\ made' = IF ok THEN made \cup {p} ELSE made
    /\ UNCHANGED << wap, asked, file, pc, mem, cur, polls, runVars, worker >>

-----------------------------------------------------------------------------
(* as_completed yields a future; its result is noted and the file saved.   *)
(* A save that fails leaves the loop with the pool still draining.         *)
Collect(k) ==
    /\ pc = "pool"
    /\ worker[k] \in Ended
    /\ LET ok == {l \in {k} : worker[l] = "ok"}
           done == mem.done \cup DatesOf(ok)
       IN /\ mem' = [mem EXCEPT !.done = done,
                                !.failed = @ \cup DatesOf({k} \ ok)]
          /\ \/ Save(done, NoFlight) /\ UNCHANGED pc
             \/ file' = TornFile /\ pc' = "drain"
    /\ worker' = [worker EXCEPT ![k] = "none"]
    /\ UNCHANGED << wap, asked, cur, polls, runVars, orphan, made >>

(* Seeded defect: the file goes although partitions failed.                *)
PoolFinishedRegardless ==
    /\ pc = "pool"
    /\ InPool = {}
    /\ file' = NoFile
    /\ Quit
    /\ UNCHANGED << wap, asked, runVars, poolVars >>

(* Every future was collected: the file goes, or is saved a last time.     *)
PoolFinished ==
    /\ pc = "pool"
    /\ InPool = {}
    /\ IF mem.failed = {} THEN file' \in {file, NoFile}
       ELSE Save(mem.done, NoFlight) \/ file' = TornFile
    /\ Quit
    /\ UNCHANGED << wap, asked, runVars, poolVars >>

(* Ctrl-C: leaving the executor's block waits for all of its futures, the  *)
(* queued ones too, and nobody records their results.                      *)
Interrupted ==
    /\ pc = "pool"
    /\ pc' = "drain"
    /\ UNCHANGED << wap, asked, file, mem, cur, polls, runVars, poolVars >>

PoolDrained ==
    /\ pc = "drain"
    /\ \A k \in InPool : worker[k] \in Ended
    /\ worker' = PoolIdle
    /\ Quit
    /\ UNCHANGED << wap, asked, file, runVars, orphan, made >>

(* The process dies; what it had started goes on inside the container.     *)
PoolKilled ==
    /\ pc \in {"pool", "drain"}
    /\ orphan' = orphan \cup DatesOf({k \in Entries : worker[k] = "running"})
    /\ worker' = PoolIdle
    /\ Quit
    /\ UNCHANGED << wap, asked, file, runVars, made >>

PoolStep ==
    \/ \E k \in Entries :
          WorkerStarts(k) \/ WorkerTimesOut(k) \/ Collect(k)
    \/ PoolFinished \/ PoolDrained

ContainerStep ==
    \/ \E k \in Entries, result \in Ended : WorkerEnds(k, result)
    \/ \E p \in Dates, ok \in BOOLEAN : OrphanEnds(p, ok)
=============================================================================
