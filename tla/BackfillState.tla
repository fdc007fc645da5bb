--------------------------- MODULE BackfillState ---------------------------
(***************************************************************************)
(* phlo backfill: the state file an invocation leaves behind so that       *)
(* --resume can continue, and how an invocation starts from it.  The file  *)
(* is rewritten in place (write_text), so a process that dies during a     *)
(* save leaves a torn file, which no later invocation can read.            *)
(***************************************************************************)
EXTENDS Naturals, FiniteSets

CONSTANTS Dates,      \* partition dates a user may ask for
          Entries,    \* positions in the lists of partitions users give, in
                      \* the order of the list
          DateOf,     \* the date at each position: --partitions may repeat
                      \* a date, and nothing removes the repetition
          Lists,      \* the lists, each the set of its positions
          MaxPollFailures, \* failed polls in a row that end a wait (5)
          MaxLaunch   \* bound: launches over all invocations

ASSUME BackfillConstants ==
    /\ IsFiniteSet(Dates) /\ IsFiniteSet(Entries)
    /\ Entries \subseteq Nat \ {0} /\ DateOf \in [Entries -> Dates]
    /\ Lists \subseteq SUBSET Entries
    /\ MaxLaunch \in Nat /\ MaxPollFailures \in Nat \ {0}

VARIABLES
    wap,       \* load_wap_config().enabled of the project
    asked,     \* history: the list of the backfill last started or resumed
    file,      \* BACKFILL_STATE_FILE
    pc,        \* where the CLI process is, "idle" when none runs
    mem,       \* what the running invocation knows
    cur,       \* the entry the WAP loop is at, 0 outside its body
    polls,     \* poll_failures of _wait_for_wap_lifecycle
    launches,  \* partition -> WAP runs prepared for it so far
    run,       \* partition, number -> the WAP run and its report
    abandoned, \* history: runs that no state file will mention any more
    worker,    \* entry -> its future in the thread pool
    orphan,    \* partitions with a container process nobody waits for
    made       \* history: partitions whose materialization exited with 0

runVars == << launches, run, abandoned >>
poolVars == << worker, orphan, made >>
vars == << wap, asked, file, pc, mem, cur, polls, runVars, poolVars >>

RunIds == Dates \X (1 .. MaxLaunch)

Prepared == {r \in RunIds : r[2] <= launches[r[1]]}

DatesOf(S) == {DateOf[k] : k \in S}

(* A list names a date once; a list is without repetition.                 *)
Once(p, S) == \A k, l \in S : DateOf[k] = p /\ DateOf[l] = p => k = l
Distinct(S) == \A p \in Dates : Once(p, S)

(* The state file; "of" is a history field: the list its backfill was      *)
(* started with.                                                           *)
NoFlight == [p \in Dates |-> 0]
NoFile == [state |-> "absent", todo |-> {}, done |-> {}, flight |-> NoFlight,
           of |-> {}]
TornFile == [NoFile EXCEPT !.state = "torn"]
Saved(todo, done, flight, of) ==
    [state |-> "saved", todo |-> todo, done |-> done, flight |-> flight,
     of |-> of]

(* partition_dates, the part of remaining the WAP loop has not passed,     *)
(* completed + successful, in_flight_wap, failed.                          *)
NoInvocation == [plan |-> {}, left |-> {}, done |-> {}, flight |-> NoFlight,
                 failed |-> {}]

(* The partitions whose data reached the table.                            *)
Delivered ==
    made \cup {p \in Dates : \E i \in 1 .. MaxLaunch :
                   run[<< p, i >>].life = "published"}

Init ==
    /\ wap \in BOOLEAN
    /\ asked = {}
    /\ file = NoFile
    /\ pc = "idle"
    /\ mem = NoInvocation
    /\ cur = 0
    /\ polls = 0
    /\ launches = NoFlight
    /\ run = [r \in RunIds |-> [life |-> "none", report |-> "open"]]
    /\ abandoned = {}
    /\ worker = [k \in Entries |-> "none"]
    /\ orphan = {}
    /\ made = {}

-----------------------------------------------------------------------------
(* Seeded defect: the remaining partitions are those of the command line.  *)
SaveWholePlan(done, flight) ==
    file' = Saved(mem.plan, done, flight, asked)

(* _save_backfill_state: what remains is every partition_date not in done. *)
Todo(done) == {k \in mem.plan : DateOf[k] \notin done}

Save(done, flight) ==
    file' = Saved(Todo(done), done, flight, asked)

(* The invocation ends (return, raise or death of the process).            *)
Quit ==
    /\ pc' = "idle"
    /\ mem' = NoInvocation
    /\ polls' = 0
    /\ cur' = 0

(* Where an accepted plan goes: the WAP loop, or the pool, which submits   *)
(* one future per entry of remaining.  Both compute remaining once; only   *)
(* dates completed by an earlier invocation are taken out.                 *)
Begin(plan, done, flight, of) ==
    LET remaining == {k \in plan : DateOf[k] \notin done}
    IN  /\ Cardinality(Prepared) + Cardinality(remaining) <= MaxLaunch
        /\ mem' = [plan |-> plan, left |-> remaining, done |-> done,
                   flight |-> flight, failed |-> {}]
        /\ asked' = of
        /\ pc' = IF wap THEN "next" ELSE "pool"
        /\ worker' = [k \in Entries |->
                         IF ~wap /\ k \in remaining THEN "queued" ELSE "none"]
        /\ UNCHANGED << wap, file, cur, polls, launches, run, orphan, made >>

(* A new backfill, of a list as the user gave it: the file of an earlier   *)
(* one stays until the first save.                                         *)
Start(plan) ==
    /\ pc = "idle"
    /\ plan # {}
    /\ Begin(plan, {}, NoFlight, plan)
    /\ abandoned' = {r \in RunIds : run[r].life # "none"}

(* Seeded defect: a resumed invocation forgets the runs in flight.         *)
ResumeForgetsFlight ==
    /\ pc = "idle"
    /\ file.state = "saved" /\ file.todo # {}
    /\ Begin(file.todo, file.done, NoFlight, file.of)
    /\ UNCHANGED abandoned

(* --resume: refused without a readable file; nothing to do when no        *)
(* partition remains (the file then stays).                                *)
Resume ==
    /\ pc = "idle"
    /\ file.state = "saved" /\ file.todo # {}
    /\ Begin(file.todo, file.done, file.flight, file.of)
    /\ UNCHANGED abandoned
=============================================================================
