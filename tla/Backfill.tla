------------------------------ MODULE Backfill -----------------------------
(***************************************************************************)
(* phlo backfill as a user meets it: backfills are started, interrupted,   *)
(* time out, fail half-way and are resumed, with or without WAP.           *)
(***************************************************************************)
EXTENDS BackfillWap, BackfillPool

UserStep == Resume \/ \E plan \in Lists : Start(plan)

FaultStep ==
    \/ \E b \in BOOLEAN : WapKilled(b)
    \/ Interrupted \/ PoolKilled

Next ==
    \/ UserStep \/ FaultStep
    \/ WapStep \/ PollPending \/ TimedOut
    \/ PoolStep
    \/ SensorStep
    \/ ContainerStep

Spec == Init /\ [][Next]_vars

(* A running process goes on, its monotonic deadline passes, and a command *)
(* is given up after its hour.  Users, sensors and container commands may  *)
(* never do anything again.                                                *)
FairSpec == Spec /\ WF_vars(WapStep) /\ WF_vars(TimedOut) /\ WF_vars(PoolStep)

-----------------------------------------------------------------------------
FileType ==
    [state : {"absent", "saved", "torn"}, todo : SUBSET Entries,
     done : SUBSET Dates, flight : [Dates -> 0 .. MaxLaunch],
     of : SUBSET Entries]

MemType ==
    [plan : SUBSET Entries, left : SUBSET Entries, done : SUBSET Dates,
     flight : [Dates -> 0 .. MaxLaunch], failed : SUBSET Dates]

(* Type invariant of the state file, the process, the runs and the pool.   *)
BackfillTypeOK ==
    /\ wap \in BOOLEAN
    /\ asked \subseteq Entries
    /\ file \in FileType
    /\ pc \in {"idle", "next", "submitting", "accepted", "registered",
               "waiting", "pool", "drain"}
    /\ mem \in MemType
    /\ cur \in Entries \cup {0}
    /\ polls \in 0 .. MaxPollFailures - 1
    /\ launches \in [Dates -> 0 .. MaxLaunch]
    /\ run \in [RunIds ->
                 [life : {"none", "unregistered", "running", "canceling",
                          "failed", "passed", "published"},
                  report : {"open", "refused", "promoted", "cleaned"}]]
    /\ abandoned \subseteq RunIds
    /\ worker \in [Entries -> {"none", "queued", "running"} \cup Ended]
    /\ orphan \subseteq Dates
    /\ made \subseteq Dates

(* A partition is recorded as completed, in the file or in memory, only    *)
(* once its data was published (WAP) or its command exited with 0, however *)
(* often the backfill was interrupted and resumed in between.              *)
CompletedDelivered == file.done \cup mem.done \subseteq Delivered

(* No save loses or invents a partition: what remains is exactly what the  *)
(* list the backfill was started with asks for and is not done, and unless *)
(* that list repeats a date what is in flight remains, so that --resume    *)
(* reconciles it.                                                          *)
FileCoversPlan ==
    file.state = "saved" =>
        /\ file.todo = {k \in file.of : DateOf[k] \notin file.done}
        /\ file.done \subseteq DatesOf(file.of)
        /\ Distinct(file.of) =>
               {p \in Dates : file.flight[p] # 0} \subseteq DatesOf(file.todo)

(* A run that can still write or has written, and that the backfill has    *)
(* not given up: not taken for ended by a poll, not superseded by a new    *)
(* backfill, not lost between its registration and the save that records   *)
(* it.                                                                     *)
Ours(r) ==
    /\ run[r].life \in {"running", "canceling", "passed", "published"}
    /\ r \notin abandoned

(* A resumed backfill reconciles a partition in flight and skips a         *)
(* completed one: it never owns two runs of a partition that its list      *)
(* names once.  A date the list repeats is launched again.                 *)
OneRunPerPartition ==
    \A p \in Dates : \A i, j \in 1 .. MaxLaunch :
        Once(p, asked) /\ Ours(<< p, i >>) /\ Ours(<< p, j >>) => i = j

(* Partitions are serialized through promotion: at any time at most one    *)
(* run of the backfill is still to be published, across timeouts, failed   *)
(* polls and resumptions, as long as its list repeats no date.             *)
SerializedPromotion ==
    Distinct(asked) => \A r, s \in RunIds :
        /\ Ours(r) /\ run[r].life # "published"
        /\ Ours(s) /\ run[s].life # "published"
        => r = s

(* The state file is removed only when every partition the backfill was    *)
(* started with has been delivered, in this invocation or an earlier one.  *)
RemovedWhenDelivered ==
    [][file.state # "absent" /\ file'.state = "absent"
         => DatesOf(asked) \subseteq Delivered]_vars

(* Every invocation ends: no lost receipt, dead run or stuck command keeps *)
(* the process waiting for ever.                                           *)
InvocationEnds == (pc # "idle") ~> (pc = "idle")
=============================================================================
