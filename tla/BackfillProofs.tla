--------------------------- MODULE BackfillProofs ---------------------------
(***************************************************************************)
(* What phlo backfill promises, proved for all lists of dates (repeated    *)
(* ones where a theorem does not exclude them), every number of launches   *)
(* and poll failures and every pool size.  The inductive invariant relates *)
(* four records that are never written together: the state file, the       *)
(* memory of the running invocation, the runs in Dagster and the futures   *)
(* of the thread pool.                                                     *)
(***************************************************************************)
EXTENDS Backfill, FiniteSetTheorems, TLAPS

-----------------------------------------------------------------------------
Launching == {"submitting", "accepted", "registered"}

(* The launches still to be made by this invocation fit in the bound.      *)
Unlaunched == mem.left \ {cur}
RoomInv == Cardinality(Prepared) + Cardinality(Unlaunched) <= MaxLaunch

(* Which of the two loops the process is in, and at which entry.           *)
LoopInv ==
    /\ pc \in Launching \cup {"next", "waiting"} => wap
    /\ pc \in {"pool", "drain"} => ~ wap
    /\ pc \in {"idle", "next", "pool", "drain"} => cur = 0
    /\ pc \in Launching \cup {"waiting"} =>
           cur \in mem.left /\ \A k \in mem.left : cur <= k
    /\ pc \in Launching => mem.flight[CurDate] = 0 /\ launches[CurDate] # 0
    /\ pc = "waiting" => mem.flight[CurDate] # 0

(* A date stands at the head of a list.                                    *)
Heads(p, S) ==
    p \in DatesOf(S) /\ \A k \in S : DateOf[k] = p => \A l \in S : k <= l

(* What the invocation knows: the part of the list it asked for that was   *)
(* not complete when it began, and how far it is.  If the list repeats no  *)
(* date, only its next one can be in flight.                               *)
MemInv ==
    /\ pc = "idle" => mem = NoInvocation
    /\ mem.left \subseteq mem.plan /\ mem.plan \subseteq asked
    /\ mem.done \subseteq DatesOf(asked)
    /\ \A k \in mem.plan \ mem.left : DateOf[k] \in mem.done
    /\ pc # "idle" =>
           \A k \in asked : k \in mem.plan \/ DateOf[k] \in mem.done
    /\ wap => \A k \in mem.left :
                  Once(DateOf[k], asked) => DateOf[k] \notin mem.done
    /\ Distinct(asked) =>
           \A p \in Dates : mem.flight[p] # 0 => Heads(p, mem.left)

(* What a resumed invocation would know.                                   *)
FileInv ==
    /\ file.todo = {k \in file.of : DateOf[k] \notin file.done}
    /\ file.done \subseteq DatesOf(file.of)
    /\ Distinct(file.of) =>
           \A p \in Dates : file.flight[p] # 0 => Heads(p, file.todo)

(* The runs in Dagster and their reports.                                  *)
Alive == {"running", "canceling", "passed", "published"}

RunInv ==
    /\ ~ wap => \A r \in RunIds : run[r].life = "none"
    /\ \A p \in Dates : \A i \in 1 .. MaxLaunch :
           run[<< p, i >>].life # "none" => i <= launches[p]
    /\ pc = "submitting" =>
           run[<< CurDate, launches[CurDate] >>].life = "none"
    /\ pc = "accepted" =>
           run[<< CurDate, launches[CurDate] >>].life \notin Alive
    /\ \A r \in RunIds :
           /\ run[r].life \notin {"passed", "published"} =>
                  run[r].report = "open"
           /\ run[r].report = "promoted" => run[r].life = "published"

(* A run that is the backfill's own is known to the invocation and to the  *)
(* one that would resume it, as in flight or as completed, and that one    *)
(* would ask for the same list; only the run being launched is not         *)
(* recorded yet.                                                           *)
Known(p, i, flight, done) ==
    flight[p] = i \/ (p \in done /\ run[<< p, i >>].life = "published")

InLaunch(p, i) ==
    pc \in {"accepted", "registered"} /\ p = CurDate /\ i = launches[CurDate]

OwnInv ==
    \A p \in Dates : \A i \in 1 .. MaxLaunch :
        Ours(<< p, i >>) /\ ~ InLaunch(p, i) =>
            /\ pc # "idle" => Known(p, i, mem.flight, mem.done)
            /\ file.state = "saved" =>
                   file.of = asked /\ Known(p, i, file.flight, file.done)

(* The futures of the pool: an entry has one until its result is           *)
(* collected.                                                              *)
PoolInv ==
    /\ wap \/ pc = "idle" => \A k \in Entries : worker[k] = "none"
    /\ ~ wap => mem.flight = NoFlight /\ file.flight = NoFlight
    /\ \A k \in Entries : worker[k] # "none" => k \in mem.plan
    /\ \A k \in Entries : worker[k] = "ok" => DateOf[k] \in made
    /\ pc = "pool" =>
           \A k \in mem.plan :
               DateOf[k] \in mem.done \cup mem.failed \/ k \in InPool

BackfillInv ==
    /\ BackfillTypeOK /\ RoomInv /\ LoopInv /\ MemInv /\ FileInv
    /\ RunInv /\ OwnInv /\ PoolInv
    /\ CompletedDelivered /\ OneRunPerPartition /\ SerializedPromotion

-----------------------------------------------------------------------------
LEMMA PreparedFinite ==
    IsFiniteSet(RunIds) /\ IsFiniteSet(Prepared)
<1>1. IsFiniteSet(1 .. MaxLaunch)
  BY FS_Interval, BackfillConstants
<1>2. IsFiniteSet(RunIds)
  BY <1>1, FS_Product, BackfillConstants DEF RunIds
<1>3. Prepared \subseteq RunIds
  BY DEF Prepared
<1> QED
  BY <1>2, <1>3, FS_Subset

LEMMA UnlaunchedFinite ==
    ASSUME mem.left \in SUBSET Entries
    PROVE  IsFiniteSet(Unlaunched)
<1>1. Unlaunched \in SUBSET Entries
  BY DEF Unlaunched
<1> QED
  BY <1>1, FS_Subset, BackfillConstants

(* A launch takes an entry out of those still to be launched and its       *)
(* number was free: the bound is never reached in the middle.              *)
LEMMA LaunchFits ==
    ASSUME BackfillInv, NEW p \in Dates, NEW k \in Unlaunched
    PROVE  launches[p] + 1 \in 1 .. MaxLaunch
<1>1. launches[p] \in 0 .. MaxLaunch /\ MaxLaunch \in Nat
  BY BackfillConstants DEF BackfillInv, BackfillTypeOK
<1>2. SUFFICES ASSUME launches[p] = MaxLaunch PROVE FALSE
  BY <1>1
<1> DEFINE Column == {p} \X (1 .. MaxLaunch)
<1>3. Column \in SUBSET Prepared
  BY <1>1, <1>2 DEF Prepared, RunIds
<1>4. /\ IsFiniteSet(1 .. MaxLaunch)
      /\ Cardinality(1 .. MaxLaunch) = MaxLaunch
  BY <1>1, FS_Interval
<1>5. IsFiniteSet({p}) /\ Cardinality({p}) = 1
  BY FS_Singleton
<1>6. Cardinality(Column) = 1 * MaxLaunch
  BY <1>4, <1>5, FS_Product
<1>7. Cardinality(Column) <= Cardinality(Prepared)
  BY <1>3, PreparedFinite, FS_Subset
<1>8. mem.left \in SUBSET Entries
  BY DEF BackfillInv, BackfillTypeOK, MemType
<1>9. Cardinality(Unlaunched) \in Nat /\ Cardinality(Unlaunched) # 0
  BY <1>8, UnlaunchedFinite, FS_CardinalityType, FS_EmptySet
<1>10. Cardinality(Prepared) \in Nat
  BY PreparedFinite, FS_CardinalityType
<1> QED
  BY <1>1, <1>6, <1>7, <1>9, <1>10 DEF BackfillInv, RoomInv

(* Every other step leaves the prepared launches alone and has no more     *)
(* entries to launch than before.                                          *)
LEMMA RoomFrame ==
    ASSUME RoomInv, mem.left \in SUBSET Entries,
           UNCHANGED launches, Unlaunched' \subseteq Unlaunched
    PROVE  RoomInv'
<1>1. Prepared' = Prepared
  BY DEF Prepared, RunIds
<1>2. IsFiniteSet(Unlaunched)
  BY UnlaunchedFinite
<1>3. IsFiniteSet(Unlaunched')
      /\ Cardinality(Unlaunched') <= Cardinality(Unlaunched)
  BY <1>2, FS_Subset
<1>4. Cardinality(Unlaunched') \in Nat /\ Cardinality(Unlaunched) \in Nat
      /\ Cardinality(Prepared) \in Nat
  BY <1>2, <1>3, PreparedFinite, FS_CardinalityType
<1> QED
  BY <1>1, <1>3, <1>4, BackfillConstants DEF RoomInv

(* An invocation that begins has counted its entries.                      *)
LEMMA RoomBegin ==
    ASSUME NEW plan \in SUBSET Entries, NEW done, NEW flight, NEW of,
           Begin(plan, done, flight, of)
    PROVE  RoomInv'
<1> DEFINE remaining == {k \in plan : DateOf[k] \notin done}
<1>1. Prepared' = Prepared
  BY DEF Prepared, RunIds, Begin
<1>2. Unlaunched' \subseteq remaining
  BY DEF Unlaunched, Begin
<1>3. IsFiniteSet(remaining)
  <2>1. remaining \in SUBSET Entries
    OBVIOUS
  <2> QED
    BY <2>1, FS_Subset, BackfillConstants
<1>4. Cardinality(Prepared) + Cardinality(remaining) <= MaxLaunch
  BY DEF Begin
<1> HIDE DEF remaining
<1>5. IsFiniteSet(Unlaunched')
      /\ Cardinality(Unlaunched') <= Cardinality(remaining)
  BY <1>2, <1>3, FS_Subset
<1>6. Cardinality(Unlaunched') \in Nat /\ Cardinality(remaining) \in Nat
      /\ Cardinality(Prepared) \in Nat
  BY <1>3, <1>5, PreparedFinite, FS_CardinalityType
<1> QED
  BY <1>1, <1>4, <1>5, <1>6, BackfillConstants DEF RoomInv

LEMMA RoomLaunch ==
    ASSUME BackfillInv, NEW k \in Entries, Launch(k)
    PROVE  RoomInv'
<1> DEFINE p == DateOf[k]
<1>1. k \in Unlaunched /\ Unlaunched' \subseteq Unlaunched \ {k}
  <2>1. cur = 0 /\ k \in mem.left /\ cur' = k /\ mem' = mem
    BY DEF Launch, Following, BackfillInv, LoopInv
  <2>2. mem.left \subseteq Nat \ {0}
    BY BackfillConstants DEF BackfillInv, BackfillTypeOK, MemType
  <2>3. Unlaunched = mem.left /\ Unlaunched' = mem.left \ {k}
    BY <2>1, <2>2 DEF Unlaunched
  <2> QED
    BY <2>1, <2>3
<1>2. p \in Dates
  BY BackfillConstants
<1>3. launches' = [launches EXCEPT ![p] = @ + 1]
  BY DEF Launch
<1> HIDE DEF p
<1>4. launches[p] + 1 \in 1 .. MaxLaunch
  BY <1>1, <1>2, LaunchFits
<1>5. Prepared' = Prepared \cup {<< p, launches[p] + 1 >>}
  BY <1>2, <1>3, <1>4 DEF Prepared, RunIds, BackfillInv, BackfillTypeOK
<1>6. << p, launches[p] + 1 >> \notin Prepared
  BY <1>2 DEF Prepared, BackfillInv, BackfillTypeOK
<1>7. IsFiniteSet(Prepared) /\ Cardinality(Prepared) \in Nat
  BY PreparedFinite, FS_CardinalityType
<1>8. Cardinality(Prepared') = Cardinality(Prepared) + 1
  BY <1>5, <1>6, <1>7, FS_AddElement
<1>9. IsFiniteSet(Unlaunched)
  BY UnlaunchedFinite DEF BackfillInv, BackfillTypeOK, MemType
<1>10. IsFiniteSet(Unlaunched \ {k})
       /\ Cardinality(Unlaunched \ {k}) = Cardinality(Unlaunched) - 1
  BY <1>1, <1>9, FS_RemoveElement
<1>11. IsFiniteSet(Unlaunched')
       /\ Cardinality(Unlaunched') <= Cardinality(Unlaunched \ {k})
  BY <1>1, <1>10, FS_Subset
<1>12. Cardinality(Unlaunched) \in Nat /\ Cardinality(Unlaunched') \in Nat
  BY <1>9, <1>11, FS_CardinalityType
<1>13. RoomInv
  BY DEF BackfillInv
<1> QED
  BY <1>7, <1>8, <1>10, <1>11, <1>12, <1>13, BackfillConstants DEF RoomInv

-----------------------------------------------------------------------------
(* The run the invocation is at: being launched, or waited for.            *)
LEMMA LaunchingRun ==
    ASSUME BackfillInv, pc \in Launching
    PROVE  /\ cur \in Entries /\ CurDate \in Dates
           /\ launches[CurDate] \in 1 .. MaxLaunch /\ wap
           /\ CurRun = << CurDate, launches[CurDate] >> /\ CurRun \in RunIds
<1>1. cur \in Entries /\ wap /\ launches[CurDate] # 0
  BY DEF Launching, BackfillInv, BackfillTypeOK, LoopInv, MemType
<1>2. CurDate \in Dates
  BY <1>1, BackfillConstants DEF CurDate
<1>3. launches[CurDate] \in 0 .. MaxLaunch
  BY <1>2 DEF BackfillInv, BackfillTypeOK
<1> QED
  BY <1>1, <1>2, <1>3, BackfillConstants DEF CurRun, RunIds, Launching

LEMMA WaitingRun ==
    ASSUME BackfillInv, pc = "waiting"
    PROVE  /\ cur \in Entries /\ CurDate \in Dates
           /\ mem.flight[CurDate] \in 1 .. MaxLaunch /\ wap
           /\ CurRun = << CurDate, mem.flight[CurDate] >> /\ CurRun \in RunIds
<1>1. cur \in Entries /\ wap /\ mem.flight[CurDate] # 0
  BY DEF Launching, BackfillInv, BackfillTypeOK, LoopInv, MemType
<1>2. CurDate \in Dates
  BY <1>1, BackfillConstants DEF CurDate
<1>3. mem.flight[CurDate] \in 0 .. MaxLaunch
  BY <1>2 DEF BackfillInv, BackfillTypeOK, MemType
<1> QED
  BY <1>1, <1>2, <1>3, BackfillConstants DEF CurRun, RunIds

RunType ==
    [life : {"none", "unregistered", "running", "canceling", "failed",
             "passed", "published"},
     report : {"open", "refused", "promoted", "cleaned"}]

(* A run whose life changes keeps its report, and no other run changes.    *)
LEMMA LifeChanges ==
    ASSUME run \in [RunIds -> RunType], NEW r \in RunIds,
           NEW life \in {"none", "unregistered", "running", "canceling",
                         "failed", "passed", "published"},
           run' = [run EXCEPT ![r].life = life]
    PROVE  /\ run' \in [RunIds -> RunType]
           /\ run'[r] = [life |-> life, report |-> run[r].report]
           /\ \A s \in RunIds : s # r => run'[s] = run[s]
<1>1. run[r] \in RunType
  OBVIOUS
<1>2. [run[r] EXCEPT !.life = life]
        = [life |-> life, report |-> run[r].report]
  BY <1>1 DEF RunType
<1>3. run' = [run EXCEPT ![r] = [life |-> life, report |-> run[r].report]]
  BY <1>2
<1>4. [life |-> life, report |-> run[r].report] \in RunType
  BY <1>1 DEF RunType
<1> QED
  BY <1>3, <1>4

LEMMA ReportChanges ==
    ASSUME run \in [RunIds -> RunType], NEW r \in RunIds,
           NEW report \in {"open", "refused", "promoted", "cleaned"},
           run' = [run EXCEPT ![r].report = report]
    PROVE  /\ run' \in [RunIds -> RunType]
           /\ run'[r] = [life |-> run[r].life, report |-> report]
           /\ \A s \in RunIds : s # r => run'[s] = run[s]
<1>1. run[r] \in RunType
  OBVIOUS
<1>2. [run[r] EXCEPT !.report = report]
        = [life |-> run[r].life, report |-> report]
  BY <1>1 DEF RunType
<1>3. run' = [run EXCEPT ![r] = [life |-> run[r].life, report |-> report]]
  BY <1>2
<1>4. [life |-> run[r].life, report |-> report] \in RunType
  BY <1>1 DEF RunType
<1> QED
  BY <1>3, <1>4

(* What was delivered stays delivered.                                     *)
LEMMA DeliveredStays ==
    ASSUME made \subseteq made',
           \A s \in RunIds : run[s].life = "published"
                                 => run'[s].life = "published"
    PROVE  Delivered \subseteq Delivered'
<1>1. \A p \in Dates : \A i \in 1 .. MaxLaunch : << p, i >> \in RunIds
  BY DEF RunIds
<1> QED
  BY <1>1 DEF Delivered

-----------------------------------------------------------------------------
(* As long as no run becomes the backfill's own and what is published      *)
(* stays so, there is no second run and nothing new to be published.       *)
LEMMA OwnFrame ==
    ASSUME BackfillInv,
           asked' = asked \/ \A s \in RunIds : ~ Ours(s)',
           \A s \in RunIds : Ours(s)' => Ours(s),
           \A s \in RunIds :
               run[s].life = "published" => run'[s].life = "published"
    PROVE  OneRunPerPartition' /\ SerializedPromotion'
<1>1. \A p \in Dates : \A i \in 1 .. MaxLaunch : << p, i >> \in RunIds
  BY DEF RunIds
<1>2. OneRunPerPartition'
  BY <1>1 DEF OneRunPerPartition, BackfillInv
<1>3. SerializedPromotion'
  <2> SUFFICES ASSUME Distinct(asked'), NEW r \in RunIds, NEW s \in RunIds,
                      Ours(r)', run'[r].life # "published",
                      Ours(s)', run'[s].life # "published"
               PROVE  r = s
    BY DEF SerializedPromotion
  <2>1. Ours(r) /\ run[r].life # "published"
    OBVIOUS
  <2>2. Ours(s) /\ run[s].life # "published"
    OBVIOUS
  <2> QED
    BY <2>1, <2>2 DEF SerializedPromotion, BackfillInv
<1> QED
  BY <1>2, <1>3

(* Dagster or a sensor changes one run that exists.                        *)
SensorChange(r) ==
    /\ run' \in [RunIds -> RunType]
    /\ \A s \in RunIds : s # r => run'[s] = run[s]
    /\ run[r].life # "none"
    /\ run'[r].life \in Alive
           => run[r].life \in Alive
    /\ run[r].life = "published" => run'[r].life = "published"
    /\ run'[r].life \notin {"passed", "published"}
           => run'[r].report = "open"
    /\ run'[r].report = "promoted" => run'[r].life = "published"

LEMMA SensorChanges ==
    ASSUME BackfillInv, NEW r \in RunIds,
           \/ \E ok \in BOOLEAN : RunEnds(r, ok)
           \/ Cancel(r) \/ Refuse(r) \/ Publish(r) \/ Receipt(r) \/ Clean(r)
    PROVE  SensorChange(r)
<1>1. run \in [RunIds -> RunType] /\ run[r] \in RunType
  BY DEF BackfillInv, BackfillTypeOK, RunType
<1>2. run[r].life \notin {"passed", "published"} => run[r].report = "open"
  BY DEF BackfillInv, RunInv
<1>3. run[r].report = "promoted" => run[r].life = "published"
  BY DEF BackfillInv, RunInv
<1>4. ASSUME NEW life \in {"canceling", "passed", "failed"},
             run' = [run EXCEPT ![r].life = life],
             run[r].life \in {"running", "canceling", "unregistered"},
             life # "failed" => run[r].life \in {"running", "canceling"}
      PROVE  SensorChange(r)
  <2>1. /\ run' \in [RunIds -> RunType]
        /\ run'[r] = [life |-> life, report |-> run[r].report]
        /\ \A s \in RunIds : s # r => run'[s] = run[s]
    BY <1>1, <1>4, LifeChanges
  <2> QED
    BY <1>2, <1>4, <2>1 DEF SensorChange, Alive
<1>5. ASSUME NEW report \in {"refused", "promoted", "cleaned"},
             run' = [run EXCEPT ![r].report = report],
             run[r].life \in {"passed", "published"},
             report = "promoted" => run[r].life = "published"
      PROVE  SensorChange(r)
  <2>1. /\ run' \in [RunIds -> RunType]
        /\ run'[r] = [life |-> run[r].life, report |-> report]
        /\ \A s \in RunIds : s # r => run'[s] = run[s]
    BY <1>1, <1>5, ReportChanges
  <2> QED
    BY <1>5, <2>1 DEF SensorChange, Alive
<1>6. CASE Refuse(r)
  BY <1>5, <1>6 DEF Refuse
<1>7. CASE Receipt(r)
  BY <1>5, <1>7 DEF Receipt
<1>8. CASE Clean(r)
  BY <1>5, <1>8 DEF Clean
<1>9. CASE Publish(r)
  <2>1. run' = [run EXCEPT ![r] = [life |-> "published", report |-> "open"]]
        /\ run[r].life = "passed"
    BY <1>9 DEF Publish
  <2>2. [life |-> "published", report |-> "open"] \in RunType
    BY DEF RunType
  <2> QED
    <3>1. run'[r] = [life |-> "published", report |-> "open"]
      BY <1>1, <2>1
    <3>2. run' \in [RunIds -> RunType]
          /\ \A s \in RunIds : s # r => run'[s] = run[s]
      BY <1>1, <2>1, <2>2
    <3> QED
      BY <2>1, <3>1, <3>2 DEF SensorChange, Alive
<1>10. CASE RunEnds(r, TRUE)
  BY <1>4, <1>10 DEF RunEnds
<1>11. CASE RunEnds(r, FALSE)
  BY <1>4, <1>11 DEF RunEnds
<1>12. CASE Cancel(r)
  BY <1>4, <1>12 DEF Cancel
<1> QED
  BY <1>6, <1>7, <1>8, <1>9, <1>10, <1>11, <1>12

LEMMA SensorInvariance ==
    ASSUME BackfillInv, SensorStep
    PROVE  BackfillInv'
<1>1. PICK r \in RunIds : SensorChange(r)
  BY SensorChanges DEF SensorStep
<1>2. UNCHANGED << wap, asked, file, pc, mem, cur, polls, launches, abandoned,
                   worker, orphan, made >>
  BY DEF SensorStep, RunEnds, Cancel, Refuse, Publish, Receipt, Clean, poolVars
<1>3. run' \in [RunIds -> RunType]
  BY <1>1 DEF SensorChange
<1>4. BackfillTypeOK'
  BY <1>2, <1>3 DEF BackfillInv, BackfillTypeOK, RunType, Ended
<1>5. RoomInv' /\ LoopInv' /\ MemInv' /\ FileInv' /\ PoolInv'
  BY <1>2
  DEF BackfillInv, RoomInv, Prepared, Unlaunched, LoopInv, CurDate,
      MemInv, FileInv, PoolInv, InPool
<1>6. \A s \in RunIds :
          run[s].life = "published" => run'[s].life = "published"
  BY <1>1 DEF SensorChange
<1>7. CompletedDelivered'
  BY <1>2, <1>6, DeliveredStays DEF CompletedDelivered, BackfillInv
<1>8. \A s \in RunIds :
          run'[s].life \in Alive
              => run[s].life \in Alive
  BY <1>1 DEF SensorChange
<1>9. /\ \A s \in RunIds : Ours(s)' => Ours(s)
      /\ OneRunPerPartition' /\ SerializedPromotion'
  BY <1>2, <1>6, <1>8, OwnFrame DEF Ours, Alive
<1>10. \A p \in Dates : \A i \in 1 .. MaxLaunch : << p, i >> \in RunIds
  BY DEF RunIds
<1>11. OwnInv'
  BY <1>2, <1>6, <1>9, <1>10
  DEF OwnInv, Known, InLaunch, CurDate, BackfillInv
<1>12. RunInv'
  <2>1. \A s \in RunIds : run[s].life = "none" => run'[s].life = "none"
    BY <1>1 DEF SensorChange
  <2>2. \A s \in RunIds :
            run'[s].life # "none" => run[s].life # "none"
    BY <1>1 DEF SensorChange
  <2>3. pc \in {"submitting", "accepted"} =>
            << CurDate, launches[CurDate] >> \in RunIds
    BY LaunchingRun DEF Launching
  <2>4. \A s \in RunIds :
            /\ run'[s].life \notin {"passed", "published"} =>
                   run'[s].report = "open"
            /\ run'[s].report = "promoted" => run'[s].life = "published"
    BY <1>1 DEF SensorChange, RunInv, BackfillInv
  <2>5. \A p \in Dates : \A i \in 1 .. MaxLaunch :
            run'[<< p, i >>].life # "none" => i <= launches[p]
    BY <1>10, <2>2 DEF RunInv, BackfillInv
  <2> QED
    BY <1>2, <1>8, <2>1, <2>3, <2>4, <2>5 DEF RunInv, CurDate, BackfillInv
<1> QED
  BY <1>4, <1>5, <1>7, <1>9, <1>11, <1>12 DEF BackfillInv

-----------------------------------------------------------------------------
(* What a step must leave alone for a part of the invariant to stand.      *)
LEMMA QuitFrame ==
    ASSUME BackfillInv, Quit, UNCHANGED launches
    PROVE  /\ RoomInv' /\ LoopInv' /\ MemInv'
           /\ mem' \in MemType
           /\ pc' = "idle" /\ cur' \in Entries \cup {0}
           /\ polls' \in 0 .. MaxPollFailures - 1
<1>1. RoomInv'
  BY RoomFrame
  DEF Quit, NoInvocation, Unlaunched, BackfillInv, BackfillTypeOK, MemType
<1>2. LoopInv' /\ MemInv'
  BY DEF Quit, NoInvocation, NoFlight, LoopInv, MemInv, Launching
<1> QED
  BY <1>1, <1>2, BackfillConstants DEF Quit, NoInvocation, NoFlight, MemType

LEMMA PoolFrame ==
    ASSUME BackfillInv, wap, UNCHANGED << wap, asked, worker, orphan, made >>,
           pc' # "pool"
    PROVE  /\ PoolInv' /\ wap' \in BOOLEAN
           /\ worker' \in [Entries -> {"none", "queued", "running"} \cup Ended]
           /\ orphan' \subseteq Dates /\ made' \subseteq Dates
  BY DEF PoolInv, BackfillInv, BackfillTypeOK

LEMMA RunFrame ==
    ASSUME BackfillInv, UNCHANGED << wap, run, launches >>,
           pc' \notin {"submitting", "accepted"}
    PROVE  RunInv'
  BY DEF BackfillInv, RunInv

(* As long as no date is repeated, what the WAP loop still has to pass is  *)
(* what remains.                                                           *)
LEMMA LeftIsTodo ==
    ASSUME BackfillInv, wap, Distinct(asked)
    PROVE  mem.left = Todo(mem.done)
<1>1. mem.plan \in SUBSET Entries
  BY DEF BackfillInv, BackfillTypeOK, MemType
<1>2. \A k \in Entries : Once(DateOf[k], asked)
  BY BackfillConstants DEF Distinct
<1> QED
  BY <1>1, <1>2 DEF Todo, BackfillInv, MemInv

(* A save records a part of what the invocation knows.                     *)
LEMMA SaveFrame ==
    ASSUME BackfillInv, pc # "idle", Delivered \subseteq Delivered',
           NEW done \in SUBSET Dates,
           NEW flight \in [Dates -> 0 .. MaxLaunch],
           mem.done \subseteq done, done \subseteq DatesOf(asked),
           done \subseteq Delivered',
           Distinct(asked) =>
               \A p \in Dates : flight[p] # 0 => Heads(p, Todo(done)),
           file' \in {file, NoFile, TornFile,
                      Saved(Todo(done), done, flight, asked)}
    PROVE  /\ file' \in FileType /\ FileInv'
           /\ file'.done \subseteq Delivered'
<1>1. mem.plan \in SUBSET Entries /\ asked \in SUBSET Entries
      /\ file \in FileType /\ file.done \subseteq Delivered
  BY DEF BackfillInv, BackfillTypeOK, CompletedDelivered, MemType
<1>2. CASE file' = file
  BY <1>1, <1>2 DEF BackfillInv, FileInv
<1>3. CASE file' = NoFile \/ file' = TornFile
  BY <1>3, BackfillConstants DEF NoFile, TornFile, NoFlight, FileType, FileInv
<1>4. CASE file' = Saved(Todo(done), done, flight, asked)
  <2>1. file' = [state |-> "saved", todo |-> Todo(done), done |-> done,
                 flight |-> flight, of |-> asked]
    BY <1>4 DEF Saved
  <2>2. Todo(done) = {k \in asked : DateOf[k] \notin done}
    BY DEF Todo, BackfillInv, MemInv
  <2>3. file' \in FileType
    BY <1>1, <2>1 DEF FileType, Todo
  <2>4. FileInv'
    BY <2>1, <2>2 DEF FileInv
  <2> QED
    BY <2>1, <2>3, <2>4
<1> QED
  BY <1>2, <1>3, <1>4

(* The same of what is known at every moment.                              *)
LEMMA RaiseFrame ==
    ASSUME BackfillInv, pc # "idle", Delivered \subseteq Delivered',
           file' \in {file, NoFile, TornFile,
                      Saved(Todo(mem.done), mem.done, mem.flight, asked),
                      Saved(Todo(mem.done), mem.done, Landed(CurDate), asked)}
    PROVE  /\ file' \in FileType /\ FileInv'
           /\ file'.done \subseteq Delivered'
<1>1. /\ mem.done \in SUBSET Dates
      /\ mem.flight \in [Dates -> 0 .. MaxLaunch]
      /\ mem.done \subseteq DatesOf(asked) /\ mem.done \subseteq Delivered
  BY DEF BackfillInv, BackfillTypeOK, MemInv, CompletedDelivered, MemType
<1>2. Distinct(asked) =>
          \A p \in Dates : mem.flight[p] # 0 => Heads(p, Todo(mem.done))
  <2>1. CASE wap
    BY <2>1, LeftIsTodo DEF BackfillInv, MemInv
  <2>2. CASE ~ wap
    BY <2>2 DEF BackfillInv, PoolInv, NoFlight
  <2> QED
    BY <2>1, <2>2
<1>3. /\ Landed(CurDate) \in [Dates -> 0 .. MaxLaunch]
      /\ \A p \in Dates : Landed(CurDate)[p] # 0 => mem.flight[p] # 0
  <2>1. Landed(CurDate)
          = [p \in Dates |-> IF p = CurDate THEN 0 ELSE mem.flight[p]]
    BY <1>1 DEF Landed, Flying
  <2>2. 0 \in 0 .. MaxLaunch
    BY BackfillConstants
  <2>3. \A p \in Dates : mem.flight[p] \in 0 .. MaxLaunch
    BY <1>1
  <2> QED
    BY <2>1, <2>2, <2>3
<1>4. CASE file' \in {file, NoFile, TornFile,
                      Saved(Todo(mem.done), mem.done, mem.flight, asked)}
  BY <1>1, <1>2, <1>4, SaveFrame
<1>5. CASE file' = Saved(Todo(mem.done), mem.done, Landed(CurDate), asked)
  <2> DEFINE flight == Landed(CurDate)
  <2>1. /\ flight \in [Dates -> 0 .. MaxLaunch]
        /\ Distinct(asked) =>
               \A p \in Dates : flight[p] # 0 => Heads(p, Todo(mem.done))
    BY <1>2, <1>3
  <2>2. file' \in {file, NoFile, TornFile,
                   Saved(Todo(mem.done), mem.done, flight, asked)}
    BY <1>5
  <2>3. mem.done \subseteq Delivered'
    BY <1>1
  <2> HIDE DEF flight
  <2> QED
    BY <1>1, <2>1, <2>2, <2>3, SaveFrame
<1> QED
  BY <1>4, <1>5

-----------------------------------------------------------------------------
(* An invocation begins, with what the user asked for or the file says.    *)
LEMMA BeginInvariance ==
    ASSUME BackfillInv, pc = "idle",
           NEW plan \in SUBSET Entries, NEW done \in SUBSET Dates,
           NEW flight \in [Dates -> 0 .. MaxLaunch],
           NEW of \in SUBSET Entries,
           plan = {k \in of : DateOf[k] \notin done},
           done \subseteq DatesOf(of), done \subseteq Delivered,
           Distinct(of) =>
               \A p \in Dates : flight[p] # 0 => Heads(p, plan),
           ~ wap => flight = NoFlight,
           Begin(plan, done, flight, of),
           abandoned' \subseteq RunIds, \A s \in RunIds : Ours(s)' => Ours(s),
           of = asked \/ \A s \in RunIds : ~ Ours(s)',
           \A p \in Dates : \A i \in 1 .. MaxLaunch :
               Ours(<< p, i >>)' =>
                   \/ flight[p] = i
                   \/ p \in done /\ run[<< p, i >>].life = "published"
    PROVE  BackfillInv'
<1>1. {k \in plan : DateOf[k] \notin done} = plan
  OBVIOUS
<1>2. /\ UNCHANGED << wap, file, cur, polls, launches, run, orphan, made >>
      /\ mem' = [plan |-> plan, left |-> plan, done |-> done,
                 flight |-> flight, failed |-> {}]
      /\ asked' = of
      /\ pc' = IF wap THEN "next" ELSE "pool"
      /\ worker' = [k \in Entries |-> IF ~wap /\ k \in plan THEN "queued"
                                      ELSE "none"]
  BY <1>1 DEF Begin
<1>3. BackfillTypeOK'
  <2>1. worker' \in [Entries -> {"none", "queued", "running"} \cup Ended]
    BY <1>2
  <2>2. pc' \in {"next", "pool"}
    BY <1>2
  <2>3. mem' \in MemType
    BY <1>2 DEF MemType
  <2> QED
    BY <1>2, <2>1, <2>2, <2>3 DEF BackfillTypeOK, BackfillInv
<1>4. RoomInv'
  BY RoomBegin
<1>5. LoopInv'
  BY <1>2 DEF LoopInv, Launching, BackfillInv
<1>6. MemInv'
  <2>1. /\ pc' # "idle" /\ asked' = of /\ mem'.plan = plan /\ mem'.left = plan
        /\ mem'.done = done /\ mem'.flight = flight
    BY <1>2
  <2>2. \A k \in of : k \in plan \/ DateOf[k] \in done
    OBVIOUS
  <2>3. plan \subseteq of /\ \A k \in plan : DateOf[k] \notin done
    OBVIOUS
  <2> QED
    BY <2>1, <2>2, <2>3 DEF MemInv
<1>7. FileInv'
  BY <1>2 DEF FileInv, BackfillInv
<1>8. RunInv'
  <2>1. pc' \notin {"submitting", "accepted"}
    BY <1>2
  <2> QED
    BY <1>2, <2>1, RunFrame
<1>9. CompletedDelivered'
  <2>1. Delivered' = Delivered
    BY <1>2 DEF Delivered
  <2> QED
    BY <1>2, <2>1 DEF CompletedDelivered, BackfillInv
<1>10. PoolInv'
  <2>1. CASE wap
    BY <1>2, <2>1 DEF PoolInv
  <2>2. CASE ~ wap
    <3>1. \A k \in Entries :
              worker'[k] = IF k \in plan THEN "queued" ELSE "none"
      BY <1>2, <2>2
    <3>2. plan \subseteq InPool'
      BY <1>2, <3>1 DEF InPool
    <3>3. file'.flight = NoFlight /\ mem'.flight = NoFlight
      BY <1>2, <2>2 DEF PoolInv, BackfillInv
    <3>4. pc' = "pool" /\ mem'.plan = plan
      BY <1>2, <2>2
    <3> QED
      BY <1>2, <2>2, <3>1, <3>2, <3>3, <3>4 DEF PoolInv, NoFlight
  <2> QED
    BY <2>1, <2>2
<1>11. OneRunPerPartition' /\ SerializedPromotion'
  BY <1>2, OwnFrame
<1>12. OwnInv'
  <2> SUFFICES ASSUME NEW p \in Dates, NEW i \in 1 .. MaxLaunch,
                      Ours(<< p, i >>)'
               PROVE  /\ Known(p, i, mem.flight, mem.done)'
                      /\ file'.state = "saved" =>
                             /\ file'.of = asked'
                             /\ Known(p, i, file.flight, file.done)'
    BY DEF OwnInv
  <2>1. Known(p, i, mem.flight, mem.done)'
    BY <1>2 DEF Known
  <2>2. << p, i >> \in RunIds
    BY DEF RunIds
  <2>3. Ours(<< p, i >>) /\ ~ InLaunch(p, i) /\ asked' = asked
    BY <1>2, <2>2 DEF InLaunch
  <2> QED
    BY <1>2, <2>1, <2>3 DEF OwnInv, Known, BackfillInv
<1> QED
  BY <1>3, <1>4, <1>5, <1>6, <1>7, <1>8, <1>9, <1>10, <1>11, <1>12
  DEF BackfillInv

LEMMA StartInvariance ==
    ASSUME BackfillInv, NEW plan \in Lists, Start(plan)
    PROVE  BackfillInv'
<1>1. /\ pc = "idle" /\ Begin(plan, {}, NoFlight, plan)
      /\ abandoned' = {r \in RunIds : run[r].life # "none"}
  BY DEF Start
<1>2. run' = run
  BY <1>1 DEF Begin
<1>3. \A p \in Dates : \A i \in 1 .. MaxLaunch : ~ Ours(<< p, i >>)'
  BY <1>1, <1>2 DEF Ours, RunIds
<1>4. NoFlight \in [Dates -> 0 .. MaxLaunch]
      /\ \A p \in Dates : NoFlight[p] = 0
  BY BackfillConstants DEF NoFlight
<1>5. abandoned' \subseteq RunIds /\ \A s \in RunIds : ~ Ours(s)'
  BY <1>1, <1>2 DEF Ours
<1>6. plan \in SUBSET Entries /\ plan = {k \in plan : DateOf[k] \notin {}}
  BY BackfillConstants
<1> HIDE DEF NoFlight
<1> QED
  BY <1>1, <1>3, <1>4, <1>5, <1>6, BeginInvariance

LEMMA ResumeInvariance ==
    ASSUME BackfillInv, Resume
    PROVE  BackfillInv'
<1>1. /\ pc = "idle" /\ file.state = "saved"
      /\ Begin(file.todo, file.done, file.flight, file.of)
      /\ abandoned' = abandoned
  BY DEF Resume
<1>2. run' = run
  BY <1>1 DEF Begin
<1>3. /\ file.todo \in SUBSET Entries /\ file.done \in SUBSET Dates
      /\ file.flight \in [Dates -> 0 .. MaxLaunch]
      /\ file.of \in SUBSET Entries
  BY DEF BackfillInv, BackfillTypeOK, FileType
<1>4. /\ file.todo = {k \in file.of : DateOf[k] \notin file.done}
      /\ file.done \subseteq DatesOf(file.of)
      /\ Distinct(file.of) =>
             \A p \in Dates : file.flight[p] # 0 => Heads(p, file.todo)
  BY DEF BackfillInv, FileInv
<1>5. file.done \subseteq Delivered
  BY DEF BackfillInv, CompletedDelivered
<1>6. ~ wap => file.flight = NoFlight
  BY DEF BackfillInv, PoolInv
<1>7. \A s \in RunIds : Ours(s)' => Ours(s)
  BY <1>1, <1>2 DEF Ours
<1>8. \A p \in Dates : \A i \in 1 .. MaxLaunch :
          Ours(<< p, i >>)' =>
              \/ file.flight[p] = i
              \/ p \in file.done /\ run[<< p, i >>].life = "published"
  <2>1. \A p \in Dates : \A i \in 1 .. MaxLaunch : << p, i >> \in RunIds
    BY DEF RunIds
  <2> QED
    BY <1>1, <1>7, <2>1 DEF BackfillInv, OwnInv, Known, InLaunch
<1>9. abandoned' \subseteq RunIds
  BY <1>1 DEF BackfillInv, BackfillTypeOK
<1>10. file.of = asked \/ \A s \in RunIds : ~ Ours(s)'
  <2> SUFFICES ASSUME NEW s \in RunIds, Ours(s)' PROVE file.of = asked
    OBVIOUS
  <2>1. PICK p \in Dates, i \in 1 .. MaxLaunch : s = << p, i >>
    BY DEF RunIds
  <2>2. Ours(<< p, i >>) /\ ~ InLaunch(p, i)
    BY <1>1, <1>7, <2>1 DEF InLaunch
  <2> QED
    BY <1>1, <2>2 DEF BackfillInv, OwnInv
<1> QED
  BY <1>1, <1>3, <1>4, <1>5, <1>6, <1>7, <1>8, <1>9, <1>10, BeginInvariance

-----------------------------------------------------------------------------
(* The loop moves to the next entry of the list.                           *)
LEMMA ReconcileInvariance ==
    ASSUME BackfillInv, NEW k \in Entries, Reconcile(k)
    PROVE  BackfillInv'
<1>1. /\ pc = "next" /\ cur' = k /\ pc' = "waiting"
      /\ mem.flight[DateOf[k]] # 0
      /\ k \in mem.left /\ \A l \in mem.left : k <= l
      /\ UNCHANGED << wap, asked, file, mem, polls, launches, run, abandoned,
                      worker, orphan, made >>
  BY DEF Reconcile, Following, runVars, poolVars
<1>2. wap /\ cur = 0
  BY <1>1 DEF BackfillInv, LoopInv
<1>3. BackfillTypeOK'
  BY <1>1 DEF BackfillInv, BackfillTypeOK
<1>4. RoomInv'
  BY <1>1, <1>2, RoomFrame, BackfillConstants
  DEF BackfillInv, BackfillTypeOK, MemType, Unlaunched
<1>5. LoopInv' /\ MemInv'
  BY <1>1, <1>2 DEF BackfillInv, LoopInv, MemInv, CurDate, Launching
<1>6. FileInv' /\ CompletedDelivered'
  BY <1>1 DEF BackfillInv, FileInv, CompletedDelivered, Delivered
<1>7. RunInv' /\ PoolInv'
  BY <1>1, <1>2, RunFrame, PoolFrame
<1>8. OneRunPerPartition' /\ SerializedPromotion'
  BY <1>1, OwnFrame DEF Ours
<1>9. OwnInv'
  BY <1>1 DEF BackfillInv, OwnInv, Known, InLaunch, Ours
<1> QED
  BY <1>3, <1>4, <1>5, <1>6, <1>7, <1>8, <1>9 DEF BackfillInv

LEMMA LaunchInvariance ==
    ASSUME BackfillInv, NEW k \in Entries, Launch(k)
    PROVE  BackfillInv'
<1> DEFINE p == DateOf[k]
<1>1. /\ pc = "next" /\ cur' = k /\ pc' = "submitting" /\ mem.flight[p] = 0
      /\ k \in mem.left /\ \A l \in mem.left : k <= l
      /\ launches' = [launches EXCEPT ![p] = @ + 1]
      /\ UNCHANGED << wap, asked, file, mem, polls, run, abandoned, worker,
                      orphan, made >>
  BY DEF Launch, Following, poolVars
<1>2. wap /\ cur = 0
  BY <1>1 DEF BackfillInv, LoopInv
<1>3. k \in Unlaunched /\ p \in Dates /\ CurDate' = p
  BY <1>1, <1>2, BackfillConstants DEF Unlaunched, CurDate
<1> HIDE DEF p
<1>4. launches[p] + 1 \in 1 .. MaxLaunch
  BY <1>3, LaunchFits
<1>5. /\ launches' \in [Dates -> 0 .. MaxLaunch]
      /\ launches'[p] = launches[p] + 1
      /\ \A q \in Dates : launches[q] <= launches'[q]
  <2>1. launches \in [Dates -> 0 .. MaxLaunch]
    BY DEF BackfillInv, BackfillTypeOK
  <2> QED
    BY <1>1, <1>3, <1>4, <2>1, BackfillConstants
<1>6. BackfillTypeOK'
  BY <1>1, <1>5 DEF BackfillInv, BackfillTypeOK
<1>7. RoomInv'
  BY RoomLaunch
<1>8. LoopInv' /\ MemInv'
  BY <1>1, <1>2, <1>3, <1>4, <1>5
  DEF BackfillInv, LoopInv, MemInv, Launching
<1>9. FileInv' /\ CompletedDelivered'
  BY <1>1 DEF BackfillInv, FileInv, CompletedDelivered, Delivered
<1>10. RunInv'
  <2>1. \A q \in Dates : \A i \in 1 .. MaxLaunch :
            run[<< q, i >>].life # "none" => i <= launches'[q]
    <3> SUFFICES ASSUME NEW q \in Dates, NEW i \in 1 .. MaxLaunch,
                        run[<< q, i >>].life # "none"
                 PROVE  i <= launches'[q]
      OBVIOUS
    <3>1. i <= launches[q] /\ launches[q] <= launches'[q]
      BY <1>5 DEF BackfillInv, RunInv
    <3>2. launches[q] \in Nat /\ launches'[q] \in Nat
      BY <1>5 DEF BackfillInv, BackfillTypeOK
    <3> QED
      BY <3>1, <3>2
  <2>2. run[<< p, launches[p] + 1 >>].life = "none"
    <3>1. launches[p] \in Nat /\ ~ (launches[p] + 1 <= launches[p])
      BY <1>3 DEF BackfillInv, BackfillTypeOK
    <3> QED
      BY <1>3, <1>4, <3>1 DEF BackfillInv, RunInv
  <2> QED
    BY <1>1, <1>3, <1>5, <2>1, <2>2 DEF BackfillInv, RunInv
<1>11. PoolInv'
  BY <1>1, <1>2, PoolFrame
<1>12. OneRunPerPartition' /\ SerializedPromotion'
  BY <1>1, OwnFrame DEF Ours
<1>13. OwnInv'
  BY <1>1 DEF BackfillInv, OwnInv, Known, InLaunch, Ours
<1> QED
  BY <1>6, <1>7, <1>8, <1>9, <1>10, <1>11, <1>12, <1>13 DEF BackfillInv

-----------------------------------------------------------------------------
(* While a run is being launched the backfill has no other run of its date *)
(* if the list names that once, and none still to be published if the list *)
(* repeats no date.                                                        *)
LEMMA LaunchedAlone ==
    ASSUME BackfillInv, pc \in Launching,
           NEW q \in Dates, NEW i \in 1 .. MaxLaunch,
           Ours(<< q, i >>), << q, i >> # CurRun
    PROVE  /\ Once(CurDate, asked) => q # CurDate
           /\ Distinct(asked) => run[<< q, i >>].life = "published"
<1>1. /\ cur \in mem.left /\ \A k \in mem.left : cur <= k
      /\ mem.flight[CurDate] = 0 /\ cur \in Entries /\ pc # "idle" /\ wap
      /\ CurRun = << CurDate, launches[CurDate] >>
  BY LaunchingRun DEF BackfillInv, LoopInv, Launching
<1>2. Known(q, i, mem.flight, mem.done)
  BY <1>1 DEF BackfillInv, OwnInv, InLaunch
<1>3. ASSUME Once(CurDate, asked), q = CurDate PROVE FALSE
  <2>1. CurDate \notin mem.done
    BY <1>1, <1>3 DEF BackfillInv, MemInv, CurDate
  <2> QED
    BY <1>1, <1>2, <1>3, <2>1 DEF Known
<1>4. ASSUME Distinct(asked), mem.flight[q] = i PROVE FALSE
  <2>1. Heads(q, mem.left)
    BY <1>4 DEF BackfillInv, MemInv
  <2>2. PICK k \in mem.left : DateOf[k] = q
    BY <2>1 DEF Heads, DatesOf
  <2>3. k <= cur /\ cur <= k /\ k \in Entries
    BY <1>1, <2>1, <2>2
    DEF Heads, BackfillInv, BackfillTypeOK, MemType
  <2>4. k = cur
    BY <1>1, <2>3, BackfillConstants
  <2> QED
    BY <1>1, <1>4, <2>2, <2>4 DEF CurDate
<1> QED
  BY <1>2, <1>3, <1>4 DEF Known

(* What a launch step may do to the run being launched: Dagster creates    *)
(* it, or its binding is stored.                                           *)
LaunchChange ==
    /\ run' \in [RunIds -> RunType]
    /\ \A s \in RunIds : s # CurRun => run'[s] = run[s]
    /\ \/ run'[CurRun] = run[CurRun]
       \/ /\ pc = "submitting"
          /\ run'[CurRun] = [life |-> "unregistered", report |-> "open"]
       \/ /\ pc = "accepted" /\ run[CurRun].life = "unregistered"
          /\ run'[CurRun] = [life |-> "running", report |-> "open"]

LEMMA Created ==
    ASSUME BackfillInv, pc = "submitting",
           run' = [run EXCEPT ![CurRun].life = "unregistered"]
    PROVE  LaunchChange
<1>1. CurRun \in RunIds /\ CurRun = << CurDate, launches[CurDate] >>
  BY LaunchingRun DEF Launching
<1>2. run \in [RunIds -> RunType]
  BY DEF BackfillInv, BackfillTypeOK, RunType
<1>3. run[CurRun].report = "open"
  <2>1. run[CurRun].life = "none"
    BY <1>1 DEF BackfillInv, RunInv
  <2> QED
    BY <1>1, <2>1 DEF BackfillInv, RunInv
<1>4. /\ run' \in [RunIds -> RunType]
      /\ run'[CurRun]
           = [life |-> "unregistered", report |-> run[CurRun].report]
      /\ \A s \in RunIds : s # CurRun => run'[s] = run[s]
  BY <1>1, <1>2, LifeChanges
<1> QED
  BY <1>3, <1>4 DEF LaunchChange

LEMMA Stored ==
    ASSUME BackfillInv, pc = "accepted", run' = Registered
    PROVE  LaunchChange
<1>1. CurRun \in RunIds
  BY LaunchingRun DEF Launching
<1>2. run \in [RunIds -> RunType] /\ run[CurRun] \in RunType
  BY <1>1 DEF BackfillInv, BackfillTypeOK, RunType
<1>3. CASE run[CurRun].life = "unregistered"
  <2>1. run' = [run EXCEPT ![CurRun].life = "running"]
    BY <1>3 DEF Registered
  <2>2. /\ run' \in [RunIds -> RunType]
        /\ run'[CurRun] = [life |-> "running", report |-> run[CurRun].report]
        /\ \A s \in RunIds : s # CurRun => run'[s] = run[s]
    BY <1>1, <1>2, <2>1, LifeChanges
  <2>3. run[CurRun].report = "open"
    BY <1>1, <1>3 DEF BackfillInv, RunInv
  <2> QED
    BY <1>3, <2>2, <2>3 DEF LaunchChange
<1>4. CASE run[CurRun].life # "unregistered"
  <2>1. run' = [run EXCEPT ![CurRun].life = run[CurRun].life]
    BY <1>4 DEF Registered
  <2>2. run[CurRun].life \in {"none", "unregistered", "running", "canceling",
                              "failed", "passed", "published"}
    BY <1>2 DEF RunType
  <2>3. /\ run' \in [RunIds -> RunType]
        /\ run'[CurRun]
             = [life |-> run[CurRun].life, report |-> run[CurRun].report]
        /\ \A s \in RunIds : s # CurRun => run'[s] = run[s]
    BY <1>1, <1>2, <2>1, <2>2, LifeChanges
  <2>4. run'[CurRun] = run[CurRun]
    BY <1>2, <2>3 DEF RunType
  <2> QED
    BY <2>3, <2>4 DEF LaunchChange
<1> QED
  BY <1>3, <1>4

(* What such a step leaves standing.                                       *)
LEMMA LaunchFrame ==
    ASSUME BackfillInv, pc \in Launching, LaunchChange,
           UNCHANGED << wap, asked, launches, worker, orphan, made >>,
           abandoned \subseteq abandoned'
    PROVE  /\ run' \in [RunIds -> RunType]
           /\ \/ pc' \notin {"submitting", "accepted"}
              \/ /\ pc' = "accepted" /\ cur' = cur
                 /\ run'[CurRun].life = "unregistered"
              => RunInv'
           /\ Delivered \subseteq Delivered'
           /\ \A s \in RunIds : run[s].life = "published" =>
                  run'[s].life = "published"
           /\ \A s \in RunIds : s # CurRun /\ Ours(s)' => Ours(s)
<1>1. CurRun \in RunIds /\ wap /\ CurRun = << CurDate, launches[CurDate] >>
  BY LaunchingRun
<1>2. pc = "submitting" => run[CurRun].life = "none"
  BY <1>1 DEF BackfillInv, RunInv
<1>3. \A s \in RunIds :
          run[s].life = "published" => run'[s].life = "published"
  BY <1>1, <1>2 DEF LaunchChange
<1>4. Delivered \subseteq Delivered'
  BY <1>3, DeliveredStays
<1>5. ASSUME \/ pc' \notin {"submitting", "accepted"}
             \/ /\ pc' = "accepted" /\ cur' = cur
                /\ run'[CurRun].life = "unregistered"
      PROVE  RunInv'
  <2>1. \A s \in RunIds :
            /\ run'[s].life \notin {"passed", "published"} =>
                   run'[s].report = "open"
            /\ run'[s].report = "promoted" => run'[s].life = "published"
    BY <1>1 DEF LaunchChange, BackfillInv, RunInv
  <2>2. \A p \in Dates : \A i \in 1 .. MaxLaunch :
            run'[<< p, i >>].life # "none" => i <= launches[p]
    <3> SUFFICES ASSUME NEW p \in Dates, NEW i \in 1 .. MaxLaunch,
                        run'[<< p, i >>].life # "none"
                 PROVE  i <= launches[p]
      OBVIOUS
    <3>1. CASE << p, i >> = CurRun
      <4>1. i = launches[p] /\ i \in Nat
        BY <1>1, <3>1
      <4> QED
        BY <4>1
    <3>2. CASE << p, i >> # CurRun
      BY <3>2 DEF LaunchChange, BackfillInv, RunInv, RunIds
    <3> QED
      BY <3>1, <3>2
  <2> QED
    BY <1>1, <1>5, <2>1, <2>2 DEF RunInv, CurDate, Alive
<1> QED
  BY <1>3, <1>4, <1>5 DEF LaunchChange, Ours

(* A launch that is given up: the run is not the backfill's own.           *)
LEMMA GivenUp ==
    ASSUME BackfillInv, pc \in Launching, LaunchChange, Quit,
           UNCHANGED << wap, asked, launches, worker, orphan, made >>,
           abandoned \subseteq abandoned', abandoned' \subseteq RunIds,
           NEW r, r = CurRun, Ours(r)' => Ours(r),
           Ours(r)' => pc \notin {"accepted", "registered"},
           file' \in {file, NoFile, TornFile,
                      Saved(Todo(mem.done), mem.done, mem.flight, asked)}
    PROVE  BackfillInv'
<1>1. CurRun \in RunIds /\ wap /\ CurRun = << CurDate, launches[CurDate] >>
  BY LaunchingRun
<1>2. /\ run' \in [RunIds -> RunType] /\ RunInv'
      /\ Delivered \subseteq Delivered'
      /\ \A s \in RunIds : run[s].life = "published" =>
             run'[s].life = "published"
      /\ \A s \in RunIds : Ours(s)' => Ours(s)
  BY LaunchFrame DEF Quit
<1>3. /\ RoomInv' /\ LoopInv' /\ MemInv'
      /\ mem' \in MemType
      /\ pc' = "idle" /\ cur' \in Entries \cup {0}
      /\ polls' \in 0 .. MaxPollFailures - 1
  BY QuitFrame
<1>4. file' \in FileType /\ FileInv' /\ file'.done \subseteq Delivered'
  BY <1>2, RaiseFrame DEF Launching
<1>5. PoolInv'
  BY <1>1, <1>3, PoolFrame
<1>6. BackfillTypeOK'
  BY <1>2, <1>3, <1>4 DEF BackfillInv, BackfillTypeOK, RunType
<1>7. CompletedDelivered'
  BY <1>4 DEF CompletedDelivered, Quit, NoInvocation
<1>8. OneRunPerPartition' /\ SerializedPromotion'
  BY <1>2, OwnFrame
<1>9. OwnInv'
  <2> SUFFICES ASSUME NEW p \in Dates, NEW i \in 1 .. MaxLaunch,
                      Ours(<< p, i >>)', file'.state = "saved"
               PROVE  /\ file'.of = asked
                      /\ \/ file'.flight[p] = i
                         \/ /\ p \in file'.done
                            /\ run'[<< p, i >>].life = "published"
    BY <1>3 DEF OwnInv, Known
  <2>1. << p, i >> \in RunIds /\ Ours(<< p, i >>)
    BY <1>2 DEF RunIds
  <2>2. ~ InLaunch(p, i)
    BY <1>1 DEF InLaunch
  <2>3. /\ \/ mem.flight[p] = i
           \/ p \in mem.done /\ run[<< p, i >>].life = "published"
        /\ file.state = "saved" =>
               /\ file.of = asked
               /\ \/ file.flight[p] = i
                  \/ p \in file.done /\ run[<< p, i >>].life = "published"
    BY <2>1, <2>2 DEF BackfillInv, OwnInv, Launching, Known
  <2>4. run[<< p, i >>].life = "published" =>
            run'[<< p, i >>].life = "published"
    BY <1>2, <2>1
  <2> QED
    BY <2>3, <2>4 DEF NoFile, TornFile, Saved
<1> QED
  BY <1>2, <1>3, <1>4, <1>5, <1>6, <1>7, <1>8, <1>9 DEF BackfillInv

LEMMA SubmitFailedInvariance ==
    ASSUME BackfillInv, NEW created \in BOOLEAN, SubmitFailed(created)
    PROVE  BackfillInv'
<1>1. /\ pc = "submitting" /\ Quit
      /\ run' = IF created THEN [run EXCEPT ![CurRun].life = "unregistered"]
                ELSE run
      /\ file' \in {TornFile, Saved(Todo(mem.done), mem.done, mem.flight,
                                    asked)}
      /\ UNCHANGED << wap, asked, launches, abandoned, worker, orphan, made >>
  BY DEF SubmitFailed, Raise, SaveOrTear, Save, poolVars
<1>2. CurRun \in RunIds
  BY <1>1, LaunchingRun DEF Launching
<1>3. LaunchChange
  <2>1. CASE run' = run
    BY <2>1 DEF LaunchChange, BackfillInv, BackfillTypeOK, RunType
  <2>2. CASE run' = [run EXCEPT ![CurRun].life = "unregistered"]
    BY <1>1, <2>2, Created
  <2> QED
    BY <1>1, <2>1, <2>2
<1>4. PICK r : r = CurRun
  OBVIOUS
<1>5. Ours(r)' => Ours(r)
  BY <1>1, <1>3, <1>4 DEF LaunchChange, Ours
<1>6. abandoned' \subseteq RunIds
  BY <1>1 DEF BackfillInv, BackfillTypeOK
<1> QED
  BY <1>1, <1>3, <1>4, <1>5, <1>6, GivenUp DEF Launching

LEMMA RegisterFailedInvariance ==
    ASSUME BackfillInv, NEW stored \in BOOLEAN, RegisterFailed(stored)
    PROVE  BackfillInv'
<1>1. /\ pc = "accepted" /\ Quit
      /\ file' \in {TornFile, Saved(Todo(mem.done), mem.done, mem.flight,
                                    asked)}
      /\ UNCHANGED << wap, asked, launches, worker, orphan, made >>
      /\ \/ run' = Registered /\ abandoned' = abandoned \cup {CurRun}
         \/ UNCHANGED << run, abandoned >> /\ ~ stored
  BY DEF RegisterFailed, Raise, SaveOrTear, Save, Forget, poolVars
<1>2. CurRun \in RunIds
  BY <1>1, LaunchingRun DEF Launching
<1>3. LaunchChange
  <2>1. CASE run' = run
    BY <2>1 DEF LaunchChange, BackfillInv, BackfillTypeOK, RunType
  <2>2. CASE run' = Registered
    BY <1>1, <2>2, Stored
  <2> QED
    BY <1>1, <2>1, <2>2
<1>4. PICK r : r = CurRun
  OBVIOUS
<1>5. ~ Ours(r)'
  <2>1. run[CurRun].life \notin Alive
    BY <1>1, LaunchingRun DEF BackfillInv, RunInv, Launching
  <2> QED
    BY <1>1, <1>4, <2>1 DEF Ours, Alive
<1>6. abandoned' \subseteq RunIds /\ abandoned \subseteq abandoned'
  BY <1>1, <1>2 DEF BackfillInv, BackfillTypeOK
<1> QED
  BY <1>1, <1>3, <1>4, <1>5, <1>6, GivenUp DEF Launching


LEMMA AcceptedInvariance ==
    ASSUME BackfillInv, SubmitAccepted
    PROVE  BackfillInv'
<1>1. /\ pc = "submitting" /\ pc' = "accepted"
      /\ run' = [run EXCEPT ![CurRun].life = "unregistered"]
      /\ UNCHANGED << wap, asked, file, mem, cur, polls, launches, abandoned,
                      worker, orphan, made >>
  BY DEF SubmitAccepted, poolVars
<1>2. CurRun \in RunIds /\ wap /\ CurRun = << CurDate, launches[CurDate] >>
  BY <1>1, LaunchingRun DEF Launching
<1>3. LaunchChange
  BY <1>1, Created
<1>4. run'[CurRun].life = "unregistered"
  BY <1>1, <1>2 DEF BackfillInv, BackfillTypeOK
<1>5. /\ run' \in [RunIds -> RunType] /\ RunInv'
      /\ Delivered \subseteq Delivered'
      /\ \A s \in RunIds : run[s].life = "published" =>
             run'[s].life = "published"
      /\ \A s \in RunIds : s # CurRun /\ Ours(s)' => Ours(s)
  BY <1>1, <1>3, <1>4, LaunchFrame DEF Launching
<1>6. \A s \in RunIds : Ours(s)' => Ours(s) /\ s # CurRun
  BY <1>4, <1>5 DEF Ours
<1>7. BackfillTypeOK'
  BY <1>1, <1>5 DEF BackfillInv, BackfillTypeOK, RunType
<1>8. RoomInv' /\ LoopInv' /\ MemInv' /\ FileInv' /\ PoolInv'
  BY <1>1
  DEF BackfillInv, RoomInv, Prepared, Unlaunched, LoopInv, CurDate,
      Launching, MemInv, FileInv, PoolInv, InPool
<1>9. CompletedDelivered'
  BY <1>1, <1>5 DEF CompletedDelivered, BackfillInv
<1>10. OneRunPerPartition' /\ SerializedPromotion'
  BY <1>1, <1>5, <1>6, OwnFrame
<1>11. \A p \in Dates : \A i \in 1 .. MaxLaunch : << p, i >> \in RunIds
  BY DEF RunIds
<1>12. OwnInv'
  <2> SUFFICES ASSUME NEW p \in Dates, NEW i \in 1 .. MaxLaunch,
                      Ours(<< p, i >>)'
               PROVE  /\ Known(p, i, mem.flight, mem.done)'
                      /\ file'.state = "saved" =>
                             /\ file'.of = asked'
                             /\ Known(p, i, file.flight, file.done)'
    BY DEF OwnInv
  <2>1. Ours(<< p, i >>) /\ ~ InLaunch(p, i)
    BY <1>1, <1>6, <1>11 DEF InLaunch
  <2>2. /\ Known(p, i, mem.flight, mem.done)
        /\ file.state = "saved" =>
               file.of = asked /\ Known(p, i, file.flight, file.done)
    BY <1>1, <2>1 DEF BackfillInv, OwnInv
  <2> QED
    BY <1>1, <1>5, <1>11, <2>2 DEF Known
<1> QED
  BY <1>5, <1>7, <1>8, <1>9, <1>10, <1>12 DEF BackfillInv

(* The binding is stored: a run of the backfill comes to life, alone.      *)
LEMMA RegisterInvariance ==
    ASSUME BackfillInv, Register
    PROVE  BackfillInv'
<1>1. /\ pc = "accepted" /\ pc' = "registered" /\ run' = Registered
      /\ UNCHANGED << wap, asked, file, mem, cur, polls, launches, abandoned,
                      worker, orphan, made >>
  BY DEF Register, poolVars
<1>2. CurRun \in RunIds /\ wap /\ CurRun = << CurDate, launches[CurDate] >>
  BY <1>1, LaunchingRun DEF Launching
<1>3. LaunchChange
  BY <1>1, Stored
<1>4. /\ run' \in [RunIds -> RunType] /\ RunInv'
      /\ Delivered \subseteq Delivered'
      /\ \A s \in RunIds : run[s].life = "published" =>
             run'[s].life = "published"
      /\ \A s \in RunIds : s # CurRun /\ Ours(s)' => Ours(s)
  BY <1>1, <1>3, LaunchFrame DEF Launching
<1>5. BackfillTypeOK'
  BY <1>1, <1>4 DEF BackfillInv, BackfillTypeOK, RunType
<1>6. RoomInv' /\ LoopInv' /\ MemInv' /\ FileInv' /\ PoolInv'
  BY <1>1
  DEF BackfillInv, RoomInv, Prepared, Unlaunched, LoopInv, CurDate,
      Launching, MemInv, FileInv, PoolInv, InPool
<1>7. CompletedDelivered'
  BY <1>1, <1>4 DEF CompletedDelivered, BackfillInv
<1>8. \A q \in Dates : \A i \in 1 .. MaxLaunch :
          Ours(<< q, i >>)' /\ << q, i >> # CurRun =>
              /\ Once(CurDate, asked) => q # CurDate
              /\ Distinct(asked) => run'[<< q, i >>].life = "published"
  <2> SUFFICES ASSUME NEW q \in Dates, NEW i \in 1 .. MaxLaunch,
                      Ours(<< q, i >>)', << q, i >> # CurRun
               PROVE  /\ Once(CurDate, asked) => q # CurDate
                      /\ Distinct(asked) =>
                             run'[<< q, i >>].life = "published"
    OBVIOUS
  <2>1. << q, i >> \in RunIds /\ Ours(<< q, i >>)
    BY <1>4 DEF RunIds
  <2>2. /\ Once(CurDate, asked) => q # CurDate
        /\ Distinct(asked) => run[<< q, i >>].life = "published"
    BY <1>1, <2>1, LaunchedAlone DEF Launching
  <2> QED
    BY <1>4, <2>1, <2>2
<1>9. OneRunPerPartition'
  <2> SUFFICES ASSUME NEW p \in Dates, NEW i \in 1 .. MaxLaunch,
                      NEW j \in 1 .. MaxLaunch, Once(p, asked),
                      Ours(<< p, i >>)', Ours(<< p, j >>)'
               PROVE  i = j
    BY <1>1 DEF OneRunPerPartition
  <2>1. CASE p = CurDate
    <3>1. << p, i >> = CurRun /\ << p, j >> = CurRun
      BY <1>8, <2>1
    <3> QED
      BY <3>1
  <2>2. CASE p # CurDate
    <3>1. << p, i >> \in RunIds /\ << p, j >> \in RunIds
          /\ << p, i >> # CurRun /\ << p, j >> # CurRun
      BY <1>2, <2>2 DEF RunIds
    <3>2. Ours(<< p, i >>) /\ Ours(<< p, j >>)
      BY <1>4, <3>1
    <3> QED
      BY <3>2 DEF BackfillInv, OneRunPerPartition
  <2> QED
    BY <2>1, <2>2
<1>10. SerializedPromotion'
  <2> SUFFICES ASSUME Distinct(asked), NEW r \in RunIds, NEW s \in RunIds,
                      Ours(r)', run'[r].life # "published",
                      Ours(s)', run'[s].life # "published"
               PROVE  r = s
    BY <1>1 DEF SerializedPromotion
  <2>1. \A t \in RunIds :
            Ours(t)' /\ run'[t].life # "published" => t = CurRun
    BY <1>8 DEF RunIds
  <2> QED
    BY <2>1
<1>11. OwnInv'
  <2> SUFFICES ASSUME NEW p \in Dates, NEW i \in 1 .. MaxLaunch,
                      Ours(<< p, i >>)', ~ InLaunch(p, i)'
               PROVE  /\ Known(p, i, mem.flight, mem.done)'
                      /\ file'.state = "saved" =>
                             /\ file'.of = asked'
                             /\ Known(p, i, file.flight, file.done)'
    BY DEF OwnInv
  <2>1. << p, i >> # CurRun
    BY <1>1, <1>2 DEF InLaunch, CurDate
  <2>2. << p, i >> \in RunIds /\ Ours(<< p, i >>)
    BY <1>4, <2>1 DEF RunIds
  <2>3. ~ InLaunch(p, i)
    BY <1>2, <2>1 DEF InLaunch
  <2>4. /\ Known(p, i, mem.flight, mem.done)
        /\ file.state = "saved" =>
               file.of = asked /\ Known(p, i, file.flight, file.done)
    BY <1>1, <2>2, <2>3 DEF BackfillInv, OwnInv
  <2> QED
    BY <1>1, <1>4, <2>2, <2>4 DEF Known
<1> QED
  BY <1>4, <1>5, <1>6, <1>7, <1>9, <1>10, <1>11 DEF BackfillInv

-----------------------------------------------------------------------------
(* The invocation ends while no run is being launched.                     *)
LEMMA Stopped ==
    ASSUME BackfillInv, Quit, wap, pc \notin {"accepted", "registered"},
           UNCHANGED << wap, asked, launches, run, worker, orphan, made >>,
           abandoned \subseteq abandoned', abandoned' \subseteq RunIds,
           \/ file' \in {file, NoFile, TornFile,
                         Saved(Todo(mem.done), mem.done, mem.flight,
                               asked)} /\ pc # "idle"
           \/ /\ pc = "waiting" /\ CurRun \in abandoned'
              /\ file' = Saved(Todo(mem.done), mem.done, Landed(CurDate),
                               asked)
    PROVE  BackfillInv'
<1>1. /\ RoomInv' /\ LoopInv' /\ MemInv'
      /\ mem' \in MemType
      /\ pc' = "idle" /\ cur' \in Entries \cup {0}
      /\ polls' \in 0 .. MaxPollFailures - 1
  BY QuitFrame
<1>2. Delivered' = Delivered
  BY DEF Delivered
<1>3. file' \in FileType /\ FileInv' /\ file'.done \subseteq Delivered'
  BY <1>2, RaiseFrame
<1>4. RunInv' /\ PoolInv'
  BY <1>1, RunFrame, PoolFrame
<1>5. BackfillTypeOK'
  BY <1>1, <1>3 DEF BackfillInv, BackfillTypeOK
<1>6. CompletedDelivered'
  BY <1>3 DEF CompletedDelivered, Quit, NoInvocation
<1>7. \A s \in RunIds : Ours(s)' => Ours(s) /\ s \notin abandoned'
  BY DEF Ours
<1>8. OneRunPerPartition' /\ SerializedPromotion'
  BY <1>7, OwnFrame
<1>9. OwnInv'
  <2> SUFFICES ASSUME NEW p \in Dates, NEW i \in 1 .. MaxLaunch,
                      Ours(<< p, i >>)', file'.state = "saved"
               PROVE  /\ file'.of = asked
                      /\ \/ file'.flight[p] = i
                         \/ /\ p \in file'.done
                            /\ run[<< p, i >>].life = "published"
    BY <1>1 DEF OwnInv, Known
  <2>1. << p, i >> \in RunIds /\ Ours(<< p, i >>)
        /\ << p, i >> \notin abandoned'
    BY <1>7 DEF RunIds
  <2>2. /\ pc # "idle" => \/ mem.flight[p] = i
                          \/ /\ p \in mem.done
                             /\ run[<< p, i >>].life = "published"
        /\ file.state = "saved" =>
               /\ file.of = asked
               /\ \/ file.flight[p] = i
                  \/ p \in file.done /\ run[<< p, i >>].life = "published"
    BY <2>1 DEF BackfillInv, OwnInv, Known, InLaunch
  <2>3. CASE file' \in {file, NoFile, TornFile,
                        Saved(Todo(mem.done), mem.done, mem.flight,
                              asked)} /\ pc # "idle"
    BY <2>2, <2>3 DEF NoFile, TornFile, Saved
  <2>4. CASE /\ pc = "waiting" /\ CurRun \in abandoned'
             /\ file' = Saved(Todo(mem.done), mem.done, Landed(CurDate),
                              asked)
    <3>1. CurRun = << CurDate, mem.flight[CurDate] >>
      BY <2>4, WaitingRun
    <3>2. \A q \in Dates : q # CurDate => Landed(CurDate)[q] = mem.flight[q]
      BY DEF Landed, Flying, BackfillInv, BackfillTypeOK, MemType
    <3>3. p = CurDate => mem.flight[p] # i
      BY <2>1, <2>4, <3>1
    <3> QED
      BY <2>2, <2>4, <3>2, <3>3 DEF Saved
  <2> QED
    BY <2>3, <2>4
<1> QED
  BY <1>1, <1>3, <1>4, <1>5, <1>6, <1>8, <1>9 DEF BackfillInv

LEMMA WapFinishedInvariance ==
    ASSUME BackfillInv, WapFinished
    PROVE  BackfillInv'
<1>1. /\ pc = "next" /\ file' \in {file, NoFile} /\ Quit
      /\ UNCHANGED << wap, asked, launches, run, abandoned, worker, orphan,
                      made >>
  BY DEF WapFinished, runVars, poolVars
<1>2. wap
  BY <1>1 DEF BackfillInv, LoopInv
<1>3. abandoned' \subseteq RunIds
  BY <1>1 DEF BackfillInv, BackfillTypeOK
<1> QED
  BY <1>1, <1>2, <1>3, Stopped

LEMMA KilledInvariance ==
    ASSUME BackfillInv, NEW created \in BOOLEAN, WapKilled(created)
    PROVE  BackfillInv'
<1>1. /\ wap /\ pc # "idle" /\ Quit
      /\ run' = IF created /\ pc = "submitting"
                THEN [run EXCEPT ![CurRun].life = "unregistered"] ELSE run
      /\ IF pc \in {"accepted", "registered"}
         THEN abandoned' = abandoned \cup {CurRun} ELSE abandoned' = abandoned
      /\ UNCHANGED << wap, asked, file, launches, worker, orphan, made >>
  BY DEF WapKilled, Forget, poolVars
<1>2. CASE pc \in Launching
  <2>1. CurRun \in RunIds
    BY <1>2, LaunchingRun
  <2>2. LaunchChange
    <3>1. CASE run' = run
      BY <3>1 DEF LaunchChange, BackfillInv, BackfillTypeOK, RunType
    <3>2. CASE pc = "submitting"
               /\ run' = [run EXCEPT ![CurRun].life = "unregistered"]
      BY <3>2, Created
    <3> QED
      BY <1>1, <3>1, <3>2
  <2>3. PICK r : r = CurRun
    OBVIOUS
  <2>4. Ours(r)' => Ours(r) /\ pc \notin {"accepted", "registered"}
    BY <1>1, <2>2, <2>3 DEF LaunchChange, Ours
  <2>5. abandoned' \subseteq RunIds /\ abandoned \subseteq abandoned'
    BY <1>1, <2>1 DEF BackfillInv, BackfillTypeOK
  <2> QED
    BY <1>1, <1>2, <2>2, <2>3, <2>4, <2>5, GivenUp
<1>3. CASE pc \notin Launching
  <2>1. /\ run' = run /\ abandoned' = abandoned
        /\ pc \notin {"accepted", "registered"}
    BY <1>1, <1>3 DEF Launching
  <2>2. abandoned' \subseteq RunIds
    BY <2>1 DEF BackfillInv, BackfillTypeOK
  <2> QED
    BY <1>1, <2>1, <2>2, Stopped
<1> QED
  BY <1>2, <1>3

-----------------------------------------------------------------------------
(* The wait goes on, whatever the poll said.                               *)
LEMMA WaitsOn ==
    ASSUME BackfillInv, polls' \in 0 .. MaxPollFailures - 1,
           UNCHANGED << wap, asked, file, pc, mem, cur, launches, run,
                        abandoned, worker, orphan, made >>
    PROVE  BackfillInv'
<1>1. BackfillTypeOK'
  BY DEF BackfillInv, BackfillTypeOK
<1>2. RoomInv' /\ LoopInv' /\ MemInv' /\ FileInv' /\ RunInv' /\ PoolInv'
  BY DEF BackfillInv, RoomInv, Prepared, Unlaunched, LoopInv, CurDate,
         MemInv, FileInv, RunInv, PoolInv, InPool
<1>3. CompletedDelivered'
  BY DEF BackfillInv, CompletedDelivered, Delivered
<1>4. OneRunPerPartition' /\ SerializedPromotion'
  BY OwnFrame DEF Ours
<1>5. OwnInv'
  BY DEF BackfillInv, OwnInv, Known, InLaunch, CurDate, Ours
<1> QED
  BY <1>1, <1>2, <1>3, <1>4, <1>5 DEF BackfillInv

LEMMA PollInvariance ==
    ASSUME BackfillInv, PollPending \/ PollFailed \/ TimedOut \/ PollTerminal
    PROVE  BackfillInv'
<1>1. /\ pc = "waiting"
      /\ UNCHANGED << wap, asked, launches, run, worker, orphan, made >>
  BY DEF PollPending, PollFailed, TimedOut, PollTerminal, runVars, poolVars
<1>2. wap /\ CurRun \in RunIds
  BY <1>1, WaitingRun
<1>3. CASE UNCHANGED << file, pc, mem, cur, abandoned >>
           /\ polls' \in 0 .. MaxPollFailures - 1
  BY <1>1, <1>3, WaitsOn
<1>4. CASE Raise(mem.flight) /\ abandoned' = abandoned
  <2>1. Quit /\ file' \in {TornFile, Saved(Todo(mem.done), mem.done,
                                           mem.flight, asked)}
    BY <1>4 DEF Raise, SaveOrTear, Save
  <2>2. abandoned' \subseteq RunIds
    BY <1>4 DEF BackfillInv, BackfillTypeOK
  <2> QED
    BY <1>1, <1>2, <1>4, <2>1, <2>2, Stopped
<1>5. CASE PollTerminal
  <2>1. /\ abandoned' = abandoned \cup {CurRun}
        /\ Quit
        /\ file' \in {TornFile, Saved(Todo(mem.done), mem.done,
                                      Landed(CurDate), asked)}
    BY <1>5 DEF PollTerminal, Forget, Raise, SaveOrTear, Save
  <2>2. abandoned' \subseteq RunIds
    BY <1>2, <2>1 DEF BackfillInv, BackfillTypeOK
  <2> QED
    BY <1>1, <1>2, <2>1, <2>2, Stopped
<1>6. CASE PollPending
  BY <1>3, <1>6, BackfillConstants DEF PollPending, runVars
<1>7. CASE PollFailed
  <2>1. CASE polls + 1 < MaxPollFailures
    <3>1. polls' = polls + 1 /\ UNCHANGED << file, pc, mem, cur, abandoned >>
      BY <1>7, <2>1 DEF PollFailed, runVars
    <3>2. polls \in 0 .. MaxPollFailures - 1
      BY DEF BackfillInv, BackfillTypeOK
    <3> QED
      BY <1>3, <2>1, <3>1, <3>2, BackfillConstants
  <2>2. CASE ~ (polls + 1 < MaxPollFailures)
    BY <1>4, <1>7, <2>2 DEF PollFailed, runVars
  <2> QED
    BY <2>1, <2>2
<1>8. CASE TimedOut
  BY <1>4, <1>8 DEF TimedOut, runVars
<1> QED
  BY <1>5, <1>6, <1>7, <1>8

(* The entry the WAP loop is at is the first one that is left; if the list *)
(* repeats no date, its date heads what is left.                           *)
LEMMA CurrentEntry ==
    ASSUME BackfillInv, pc \in Launching \cup {"waiting"}
    PROVE  /\ cur \in mem.left /\ \A k \in mem.left : cur <= k
           /\ mem.left \subseteq Entries /\ asked \subseteq Entries
           /\ cur \in asked /\ CurDate \in DatesOf(asked)
           /\ Distinct(asked) => Heads(CurDate, mem.left)
           /\ Distinct(asked) =>
                  \A p \in Dates : mem.flight[p] # 0 => p = CurDate
<1>1. /\ cur \in mem.left /\ \A k \in mem.left : cur <= k
      /\ mem.left \subseteq Entries /\ asked \subseteq Entries
      /\ mem.left \subseteq asked
  BY DEF BackfillInv, LoopInv, MemInv, BackfillTypeOK, MemType
<1>2. CurDate \in DatesOf(asked) /\ CurDate \in DatesOf(mem.left)
  BY <1>1 DEF CurDate, DatesOf
<1>3. ASSUME Distinct(asked) PROVE Heads(CurDate, mem.left)
  <2>1. Once(CurDate, asked)
    BY <1>1, <1>3, BackfillConstants DEF Distinct, CurDate
  <2>2. \A k \in mem.left : DateOf[k] = CurDate => k = cur
    BY <1>1, <2>1 DEF Once, CurDate
  <2> QED
    BY <1>1, <1>2, <2>2 DEF Heads
<1>4. ASSUME Distinct(asked), NEW p \in Dates, mem.flight[p] # 0
      PROVE  p = CurDate
  <2>1. Heads(p, mem.left)
    BY <1>4 DEF BackfillInv, MemInv
  <2>2. PICK k \in mem.left : DateOf[k] = p
    BY <2>1 DEF Heads, DatesOf
  <2>3. k <= cur /\ cur <= k
    BY <1>1, <2>1, <2>2 DEF Heads
  <2>4. k \in Nat /\ cur \in Nat
    BY <1>1, BackfillConstants
  <2>5. k = cur
    BY <2>3, <2>4
  <2> QED
    BY <2>2, <2>5 DEF CurDate
<1> QED
  BY <1>1, <1>2, <1>3, <1>4

(* The mapping is saved: the run is in flight, in memory and on disk.      *)
LEMMA RecordInvariance ==
    ASSUME BackfillInv, RecordFlight
    PROVE  BackfillInv'
<1>1. /\ pc = "registered"
      /\ UNCHANGED << wap, asked, launches, run, abandoned, worker, orphan,
                      made >>
  BY DEF RecordFlight, runVars, poolVars
<1>2. /\ CurDate \in Dates /\ launches[CurDate] \in 1 .. MaxLaunch /\ wap
      /\ CurRun = << CurDate, launches[CurDate] >> /\ CurRun \in RunIds
  BY <1>1, LaunchingRun DEF Launching
<1>3. /\ cur \in mem.left /\ \A k \in mem.left : cur <= k
      /\ mem.flight[CurDate] = 0
  BY <1>1 DEF BackfillInv, LoopInv, Launching
<1>4. Delivered' = Delivered
  BY <1>1 DEF Delivered
<1>5. \A s \in RunIds : Ours(s)' <=> Ours(s)
  BY <1>1 DEF Ours
<1>6. OneRunPerPartition' /\ SerializedPromotion'
  BY <1>1, <1>5, OwnFrame
<1>7. \A p \in Dates : \A i \in 1 .. MaxLaunch : << p, i >> \in RunIds
  BY DEF RunIds
<1>8. mem \in MemType /\ mem.done \subseteq Delivered
  BY DEF BackfillInv, BackfillTypeOK, CompletedDelivered
<1>9. CASE file' = TornFile /\ Quit
  <2>1. /\ RoomInv' /\ LoopInv' /\ MemInv'
        /\ mem' \in MemType
        /\ pc' = "idle" /\ cur' \in Entries \cup {0}
        /\ polls' \in 0 .. MaxPollFailures - 1
    BY <1>1, <1>9, QuitFrame
  <2>2. file' \in FileType /\ FileInv' /\ file'.done \subseteq Delivered'
    BY <1>1, <1>4, <1>9, RaiseFrame
  <2>3. RunInv' /\ PoolInv'
    BY <1>1, <1>2, <2>1, RunFrame, PoolFrame
  <2>4. BackfillTypeOK'
    BY <1>1, <2>1, <2>2 DEF BackfillInv, BackfillTypeOK
  <2>5. CompletedDelivered'
    BY <1>9, <2>2 DEF CompletedDelivered, Quit, NoInvocation
  <2>6. OwnInv'
    BY <1>9, <2>1 DEF OwnInv, TornFile
  <2> QED
    BY <1>6, <2>1, <2>2, <2>3, <2>4, <2>5, <2>6 DEF BackfillInv
<1>10. CASE /\ mem' = [mem EXCEPT !.flight = Flying(CurDate,
                                                    launches[CurDate])]
            /\ Save(mem.done, Flying(CurDate, launches[CurDate]))
            /\ pc' = "waiting"
            /\ UNCHANGED << polls, cur >>
  <2> DEFINE flight == Flying(CurDate, launches[CurDate])
  <2>1. flight = [p \in Dates |-> IF p = CurDate THEN launches[CurDate]
                                  ELSE mem.flight[p]]
    BY <1>8 DEF Flying, MemType
  <2>2. /\ mem'.plan = mem.plan /\ mem'.done = mem.done
        /\ mem'.failed = mem.failed /\ mem'.left = mem.left
        /\ mem'.flight = flight
    BY <1>8, <1>10 DEF MemType
  <2>3. /\ flight \in [Dates -> 0 .. MaxLaunch] /\ flight[CurDate] # 0
        /\ flight[CurDate] = launches[CurDate]
        /\ \A p \in Dates \ {CurDate} : flight[p] = mem.flight[p]
    <3>1. \A p \in Dates : mem.flight[p] \in 0 .. MaxLaunch
      BY <1>8 DEF MemType
    <3> QED
      BY <1>2, <2>1, <3>1
  <2>4. Distinct(asked) =>
            \A p \in Dates : flight[p] # 0 => Heads(p, mem.left)
    BY <1>1, <2>3, CurrentEntry DEF BackfillInv, MemInv, Launching
  <2>5. file' = Saved(Todo(mem.done), mem.done, flight, asked)
    BY <1>10 DEF Save
  <2>6. mem.done \subseteq DatesOf(asked) /\ mem.done \in SUBSET Dates
    BY <1>8 DEF BackfillInv, MemInv, MemType
  <2> HIDE DEF flight
  <2>7. file' \in FileType /\ FileInv' /\ file'.done \subseteq Delivered'
    <3>1. Distinct(asked) =>
              \A p \in Dates : flight[p] # 0 => Heads(p, Todo(mem.done))
      BY <1>2, <2>4, LeftIsTodo
    <3> QED
      BY <1>1, <1>4, <1>8, <2>3, <2>5, <2>6, <3>1, SaveFrame
  <2>8. mem' \in MemType
    BY <1>8, <1>10, <2>3 DEF flight, MemType
  <2>9. BackfillTypeOK'
    BY <1>1, <1>10, <2>7, <2>8 DEF BackfillInv, BackfillTypeOK
  <2>10. RoomInv'
    <3>1. Unlaunched' \subseteq Unlaunched
      BY <1>10, <2>2 DEF Unlaunched
    <3> QED
      BY <1>1, <1>8, <3>1, RoomFrame DEF BackfillInv, MemType
  <2>11. LoopInv'
    BY <1>1, <1>2, <1>3, <1>10, <2>2, <2>3 DEF LoopInv, Launching, CurDate
  <2>12. MemInv'
    BY <1>1, <1>10, <2>2, <2>4 DEF BackfillInv, MemInv
  <2>13. RunInv' /\ PoolInv'
    BY <1>1, <1>2, <1>10, RunFrame, PoolFrame
  <2>14. CompletedDelivered'
    BY <1>4, <1>8, <2>2, <2>7 DEF CompletedDelivered
  <2>15. OwnInv'
    <3> SUFFICES ASSUME NEW p \in Dates, NEW i \in 1 .. MaxLaunch,
                        Ours(<< p, i >>)
                 PROVE  \/ flight[p] = i
                        \/ /\ p \in mem.done
                           /\ run[<< p, i >>].life = "published"
      BY <1>1, <1>5, <1>7, <2>2, <2>5 DEF OwnInv, Known, Saved
    <3>1. CASE InLaunch(p, i)
      BY <2>3, <3>1 DEF InLaunch
    <3>2. CASE ~ InLaunch(p, i)
      <4>1. Known(p, i, mem.flight, mem.done)
        BY <1>1, <3>2 DEF BackfillInv, OwnInv
      <4>2. mem.flight[p] = i => p # CurDate
        BY <1>3
      <4> QED
        BY <2>3, <4>1, <4>2 DEF Known
    <3> QED
      BY <3>1, <3>2
  <2> QED
    BY <1>6, <2>7, <2>9, <2>10, <2>11, <2>12, <2>13, <2>14, <2>15
    DEF BackfillInv
<1> QED
  BY <1>9, <1>10 DEF RecordFlight

(* The receipt was read: the run in flight was published.                  *)
LEMMA PromotedInvariance ==
    ASSUME BackfillInv, PollPromoted
    PROVE  BackfillInv'
<1>1. /\ pc = "waiting" /\ Promoted(CurRun)
      /\ UNCHANGED << wap, asked, launches, run, abandoned, worker, orphan,
                      made >>
  BY DEF PollPromoted, runVars, poolVars
<1>2. /\ CurDate \in Dates /\ mem.flight[CurDate] \in 1 .. MaxLaunch /\ wap
      /\ CurRun = << CurDate, mem.flight[CurDate] >> /\ CurRun \in RunIds
  BY <1>1, WaitingRun
<1>3. /\ cur \in mem.left /\ mem.left \subseteq Entries
      /\ asked \subseteq Entries /\ cur \in asked
      /\ CurDate \in DatesOf(asked)
  BY <1>1, CurrentEntry
<1>4. run[CurRun].life = "published"
  BY <1>1, <1>2 DEF Promoted, BackfillInv, RunInv
<1>5. CurDate \in Delivered /\ Delivered' = Delivered
  BY <1>1, <1>2, <1>4 DEF Delivered
<1>6. \A s \in RunIds : Ours(s)' <=> Ours(s)
  BY <1>1 DEF Ours
<1>7. OneRunPerPartition' /\ SerializedPromotion'
  BY <1>1, <1>6, OwnFrame
<1>8. \A p \in Dates : \A i \in 1 .. MaxLaunch : << p, i >> \in RunIds
  BY DEF RunIds
<1>9. mem \in MemType /\ mem.done \subseteq Delivered
  BY DEF BackfillInv, BackfillTypeOK, CompletedDelivered
<1>10. CASE file' = TornFile /\ Quit
  <2>1. abandoned' \subseteq RunIds /\ abandoned \subseteq abandoned'
    BY <1>1 DEF BackfillInv, BackfillTypeOK
  <2> QED
    BY <1>1, <1>2, <1>10, <2>1, Stopped
<1>11. CASE /\ mem' = [mem EXCEPT !.done = @ \cup {CurDate},
                                  !.left = @ \ {cur},
                                  !.flight = Landed(CurDate)]
            /\ Save(mem.done \cup {CurDate}, Landed(CurDate))
            /\ pc' = "next"
            /\ polls' = 0 /\ cur' = 0
  <2> DEFINE flight == Landed(CurDate)
             done == mem.done \cup {CurDate}
  <2>1. flight = [p \in Dates |-> IF p = CurDate THEN 0 ELSE mem.flight[p]]
    BY <1>9 DEF Landed, Flying, MemType
  <2>2. /\ mem'.plan = mem.plan /\ mem'.done = done
        /\ mem'.failed = mem.failed /\ mem'.left = mem.left \ {cur}
        /\ mem'.flight = flight
    BY <1>9, <1>11 DEF MemType
  <2>3. /\ flight \in [Dates -> 0 .. MaxLaunch] /\ flight[CurDate] = 0
        /\ \A p \in Dates \ {CurDate} : flight[p] = mem.flight[p]
    <3>1. \A p \in Dates : mem.flight[p] \in 0 .. MaxLaunch
      BY <1>9 DEF MemType
    <3> QED
      BY <1>2, <2>1, <3>1, BackfillConstants
  <2>4. Distinct(asked) => \A p \in Dates : flight[p] = 0
    BY <1>1, <2>3, CurrentEntry
  <2>5. file' = Saved(Todo(done), done, flight, asked)
    BY <1>11 DEF Save
  <2>6. /\ done \subseteq DatesOf(asked) /\ done \in SUBSET Dates
        /\ done \subseteq Delivered' /\ mem.done \subseteq done
        /\ CurDate \in done
    BY <1>2, <1>3, <1>5, <1>9 DEF BackfillInv, MemInv, MemType
  <2>7. \A p \in done : p \in mem.done \/ p = CurDate
    OBVIOUS
  <2> HIDE DEF flight, done
  <2>8. file' \in FileType /\ FileInv' /\ file'.done \subseteq Delivered'
    <3>1. file' \in {file, NoFile, TornFile,
                     Saved(Todo(done), done, flight, asked)}
      BY <2>5
    <3>2. Distinct(asked) =>
              \A p \in Dates : flight[p] # 0 => Heads(p, Todo(done))
      BY <2>4
    <3>3. flight \in [Dates -> 0 .. MaxLaunch]
          /\ Delivered \subseteq Delivered'
      BY <1>5, <2>3
    <3> QED
      BY <1>1, <2>6, <3>1, <3>2, <3>3, SaveFrame
  <2>9. mem' \in MemType
    BY <1>9, <1>11, <2>3, <2>6 DEF flight, done, MemType
  <2>10. BackfillTypeOK'
    BY <1>1, <1>11, <2>8, <2>9, BackfillConstants
    DEF BackfillInv, BackfillTypeOK
  <2>11. RoomInv'
    <3>1. Unlaunched' \subseteq Unlaunched
      BY <2>2 DEF Unlaunched
    <3> QED
      BY <1>1, <1>9, <3>1, RoomFrame DEF BackfillInv, MemType
  <2>12. LoopInv'
    BY <1>1, <1>2, <1>11 DEF LoopInv, Launching
  <2>13. MemInv'
    <3>1. \A k \in mem.left \ {cur} :
              Once(DateOf[k], asked) => DateOf[k] \notin done
      <4> SUFFICES ASSUME NEW k \in mem.left \ {cur}, Once(DateOf[k], asked)
                   PROVE  DateOf[k] \notin done
        OBVIOUS
      <4>1. DateOf[k] \notin mem.done /\ k \in asked
        BY <1>2 DEF BackfillInv, MemInv
      <4>2. DateOf[k] # CurDate
        BY <1>3, <4>1 DEF Once, CurDate
      <4> QED
        BY <2>7, <4>1, <4>2
    <3>2. \A k \in mem.plan \ (mem.left \ {cur}) : DateOf[k] \in done
      BY <2>6 DEF BackfillInv, MemInv, CurDate
    <3>3. \A k \in asked : k \in mem.plan \/ DateOf[k] \in done
      BY <1>1, <2>6 DEF BackfillInv, MemInv
    <3>4. mem.left \subseteq mem.plan /\ mem.plan \subseteq asked
      BY DEF BackfillInv, MemInv
    <3> QED
      BY <1>1, <1>11, <2>2, <2>4, <2>6, <3>1, <3>2, <3>3, <3>4 DEF MemInv
  <2>14. RunInv' /\ PoolInv'
    BY <1>1, <1>2, <1>11, RunFrame, PoolFrame
  <2>15. CompletedDelivered'
    BY <2>2, <2>6, <2>8 DEF CompletedDelivered
  <2>16. OwnInv'
    <3> SUFFICES ASSUME NEW p \in Dates, NEW i \in 1 .. MaxLaunch,
                        Ours(<< p, i >>)
                 PROVE  \/ flight[p] = i
                        \/ p \in done /\ run[<< p, i >>].life = "published"
      BY <1>1, <1>6, <1>8, <2>2, <2>5 DEF OwnInv, Known, Saved
    <3>1. Known(p, i, mem.flight, mem.done)
      BY <1>1 DEF BackfillInv, OwnInv, InLaunch
    <3>2. CASE p = CurDate /\ mem.flight[p] = i
      BY <1>2, <1>4, <2>6, <3>2
    <3>3. CASE p # CurDate /\ mem.flight[p] = i
      BY <2>3, <3>3
    <3> QED
      BY <2>6, <3>1, <3>2, <3>3 DEF Known
  <2> QED
    BY <1>7, <2>8, <2>10, <2>11, <2>12, <2>13, <2>14, <2>15, <2>16
    DEF BackfillInv
<1> QED
  BY <1>10, <1>11 DEF PollPromoted

LEMMA WapStepInvariance ==
    ASSUME BackfillInv, WapStep
    PROVE  BackfillInv'
  BY ReconcileInvariance, LaunchInvariance, SubmitFailedInvariance,
     RegisterFailedInvariance, AcceptedInvariance, RegisterInvariance,
     RecordInvariance, PollInvariance, PromotedInvariance,
     WapFinishedInvariance
  DEF WapStep

-----------------------------------------------------------------------------
(* Without WAP there are no runs: what is said of them stays true.         *)
LEMMA NoRuns ==
    ASSUME BackfillInv, ~ wap,
           UNCHANGED << wap, asked, launches, run, abandoned >>,
           pc' \in {"idle", "pool", "drain"}
    PROVE  /\ RunInv' /\ OwnInv'
           /\ OneRunPerPartition' /\ SerializedPromotion'
<1>1. \A r \in RunIds : run[r].life = "none"
  BY DEF BackfillInv, RunInv
<1>2. RunInv'
  BY RunFrame
<1>3. \A p \in Dates : \A i \in 1 .. MaxLaunch : << p, i >> \in RunIds
  BY DEF RunIds
<1> QED
  BY <1>1, <1>2, <1>3
  DEF OwnInv, OneRunPerPartition, SerializedPromotion, Ours

(* Outside the main thread only futures and commands change.               *)
LEMMA WorkerInvariance ==
    ASSUME BackfillInv, NEW p \in Dates,
           \/ \E k \in Entries :
                 /\ DateOf[k] = p
                 /\ \/ WorkerStarts(k) \/ WorkerTimesOut(k)
                    \/ \E result \in Ended : WorkerEnds(k, result)
           \/ \E ok \in BOOLEAN : OrphanEnds(p, ok)
    PROVE  BackfillInv'
<1>1. /\ UNCHANGED << wap, asked, file, pc, mem, cur, polls, launches, run,
                      abandoned >>
      /\ \/ worker' = worker
         \/ \E k \in Entries :
               /\ DateOf[k] = p /\ worker[k] # "none"
               /\ \/ worker' = [worker EXCEPT ![k] = "running"]
                  \/ worker' = [worker EXCEPT ![k] = "error"]
                  \/ worker' = [worker EXCEPT ![k] = "ok"] /\ p \in made'
      /\ made \subseteq made' /\ made' \subseteq made \cup {p}
      /\ orphan' \subseteq orphan \cup {p}
  BY DEF WorkerStarts, WorkerTimesOut, WorkerEnds, OrphanEnds, Ended, runVars
<1>2. worker \in [Entries -> {"none", "queued", "running"} \cup Ended]
      /\ made \subseteq Dates /\ orphan \subseteq Dates
  BY DEF BackfillInv, BackfillTypeOK
<1>3. /\ worker' \in [Entries -> {"none", "queued", "running"} \cup Ended]
      /\ \A l \in Entries : worker'[l] = "none" <=> worker[l] = "none"
      /\ \A l \in Entries :
             worker'[l] = "ok" => worker[l] = "ok" \/ DateOf[l] \in made'
  BY <1>1, <1>2 DEF Ended
<1>4. BackfillTypeOK'
  BY <1>1, <1>2, <1>3 DEF BackfillInv, BackfillTypeOK
<1>5. RoomInv' /\ LoopInv' /\ MemInv' /\ FileInv' /\ RunInv'
  BY <1>1
  DEF BackfillInv, RoomInv, Prepared, Unlaunched, LoopInv, CurDate,
      MemInv, FileInv, RunInv
<1>6. Delivered \subseteq Delivered'
  BY <1>1, DeliveredStays
<1>7. CompletedDelivered'
  BY <1>1, <1>6 DEF BackfillInv, CompletedDelivered
<1>8. OneRunPerPartition' /\ SerializedPromotion'
  BY <1>1, OwnFrame DEF Ours
<1>9. OwnInv'
  BY <1>1 DEF Ours, BackfillInv, OwnInv, Known, InLaunch, CurDate
<1>10. PoolInv'
  <2>1. InPool' = InPool
    BY <1>3 DEF InPool
  <2> QED
    BY <1>1, <1>3, <2>1 DEF BackfillInv, PoolInv
<1> QED
  BY <1>4, <1>5, <1>7, <1>8, <1>9, <1>10 DEF BackfillInv

(* The pool's invocation ends, or stops collecting.                        *)
LEMMA PoolEndsInvariance ==
    ASSUME BackfillInv,
           \/ PoolFinished \/ PoolDrained \/ PoolKilled \/ Interrupted
    PROVE  BackfillInv'
<1>1. /\ pc \in {"pool", "drain"}
      /\ UNCHANGED << wap, asked, launches, run, abandoned, made >>
      /\ orphan' \subseteq Dates
  <2>1. \A S \in SUBSET Entries : DatesOf(S) \subseteq Dates
    BY BackfillConstants DEF DatesOf
  <2>2. orphan' = orphan \/ \E S \in SUBSET Entries :
                                orphan' = orphan \cup DatesOf(S)
    BY DEF PoolFinished, PoolDrained, PoolKilled, Interrupted, poolVars
  <2>3. orphan' \subseteq Dates
    BY <2>1, <2>2 DEF BackfillInv, BackfillTypeOK
  <2> QED
    BY <2>3 DEF PoolFinished, PoolDrained, PoolKilled, Interrupted, runVars,
                poolVars
<1>2. ~ wap /\ cur = 0
  BY <1>1 DEF BackfillInv, LoopInv
<1>3. Delivered' = Delivered
  BY <1>1 DEF Delivered
<1>4. mem.flight = NoFlight /\ file.flight = NoFlight
  BY <1>2 DEF BackfillInv, PoolInv
<1>5. CASE Interrupted
  <2>1. pc' = "drain" /\ UNCHANGED << file, mem, cur, polls, worker, orphan >>
    BY <1>5 DEF Interrupted, poolVars
  <2>2. BackfillTypeOK' /\ RoomInv' /\ LoopInv' /\ MemInv' /\ FileInv'
        /\ PoolInv'
    BY <1>1, <1>2, <2>1
    DEF BackfillInv, BackfillTypeOK, RoomInv, Prepared, Unlaunched,
        LoopInv, MemInv, FileInv, PoolInv, Launching
  <2>3. CompletedDelivered'
    BY <1>3, <2>1 DEF BackfillInv, CompletedDelivered
  <2> QED
    BY <1>1, <1>2, <2>1, <2>2, <2>3, NoRuns DEF BackfillInv
<1>6. CASE PoolFinished \/ PoolDrained \/ PoolKilled
  <2>1. Quit
    BY <1>6 DEF PoolFinished, PoolDrained, PoolKilled
  <2>2. /\ RoomInv' /\ LoopInv' /\ MemInv'
        /\ mem' \in MemType
        /\ pc' = "idle" /\ cur' \in Entries \cup {0}
        /\ polls' \in 0 .. MaxPollFailures - 1
    BY <1>1, <2>1, QuitFrame
  <2>3. \A k \in Entries : worker'[k] = "none"
    BY <1>6 DEF PoolFinished, PoolDrained, PoolKilled, PoolIdle, poolVars,
                InPool
  <2>4. worker' \in [Entries -> {"none", "queued", "running"} \cup Ended]
    BY <1>6 DEF PoolFinished, PoolDrained, PoolKilled, PoolIdle, poolVars,
                BackfillInv, BackfillTypeOK
  <2>5. file' \in {file, NoFile, TornFile,
                   Saved(Todo(mem.done), mem.done, mem.flight, asked)}
    BY <1>4, <1>6 DEF PoolFinished, PoolDrained, PoolKilled, Save
  <2>6. file' \in FileType /\ FileInv' /\ file'.done \subseteq Delivered'
    BY <1>1, <1>3, <2>5, RaiseFrame
  <2>7. BackfillTypeOK'
    BY <1>1, <2>2, <2>4, <2>6 DEF BackfillInv, BackfillTypeOK
  <2>8. PoolInv'
    <3>1. file'.flight = NoFlight
      BY <1>4, <2>5 DEF NoFile, TornFile, Saved
    <3> QED
      BY <2>1, <2>2, <2>3, <3>1 DEF PoolInv, Quit, NoInvocation
  <2>9. CompletedDelivered'
    BY <2>1, <2>6 DEF CompletedDelivered, Quit, NoInvocation
  <2> QED
    BY <1>1, <1>2, <2>2, <2>6, <2>7, <2>8, <2>9, NoRuns DEF BackfillInv
<1> QED
  BY <1>5, <1>6

(* The main thread collects one result and saves.                          *)
LEMMA CollectInvariance ==
    ASSUME BackfillInv, NEW k \in Entries, Collect(k)
    PROVE  BackfillInv'
<1> DEFINE ok == {l \in {k} : worker[l] = "ok"}
           done == mem.done \cup DatesOf(ok)
<1>1. /\ pc = "pool" /\ worker[k] \in Ended
      /\ mem' = [mem EXCEPT !.done = done,
                            !.failed = @ \cup DatesOf({k} \ ok)]
      /\ \/ Save(done, NoFlight) /\ pc' = pc
         \/ file' = TornFile /\ pc' = "drain"
      /\ worker' = [worker EXCEPT ![k] = "none"]
      /\ UNCHANGED << wap, asked, cur, polls, launches, run, abandoned, orphan,
                      made >>
  BY DEF Collect, runVars
<1>2. ~ wap /\ cur = 0
  BY <1>1 DEF BackfillInv, LoopInv
<1>3. /\ k \in mem.plan /\ k \in asked /\ DateOf[k] \in Dates
      /\ worker[k] = "ok" => DateOf[k] \in made
  BY <1>1, BackfillConstants DEF BackfillInv, PoolInv, MemInv, Ended
<1>4. /\ mem \in MemType
      /\ mem.done \subseteq Delivered
      /\ worker \in [Entries -> {"none", "queued", "running"} \cup Ended]
  BY DEF BackfillInv, BackfillTypeOK, CompletedDelivered
<1>5. mem.flight = NoFlight /\ file.flight = NoFlight
  BY <1>2 DEF BackfillInv, PoolInv
<1>6. /\ DatesOf(ok) = IF worker[k] = "ok" THEN {DateOf[k]} ELSE {}
      /\ DatesOf({k} \ ok) = IF worker[k] = "ok" THEN {} ELSE {DateOf[k]}
  BY DEF DatesOf
<1>7. Delivered' = Delivered /\ done \subseteq Delivered
  BY <1>1, <1>3, <1>4, <1>6 DEF Delivered
<1>8. /\ done \in SUBSET Dates /\ mem.done \subseteq done
      /\ done \subseteq DatesOf(asked)
  <2>1. DateOf[k] \in DatesOf(asked)
    BY <1>3 DEF DatesOf
  <2>2. mem.done \subseteq DatesOf(asked) /\ mem.done \subseteq Dates
    BY <1>4 DEF BackfillInv, MemInv, MemType
  <2> QED
    BY <1>3, <1>6, <2>1, <2>2
<1> DEFINE failed == mem.failed \cup DatesOf({k} \ ok)
<1>9. /\ failed \in SUBSET Dates /\ mem.failed \subseteq failed
      /\ DateOf[k] \in done \cup failed
  BY <1>3, <1>4, <1>6 DEF MemType
<1>10. /\ mem'.plan = mem.plan /\ mem'.left = mem.left /\ mem'.done = done
       /\ mem'.flight = NoFlight /\ mem'.failed = failed
  BY <1>1, <1>4, <1>5 DEF MemType
<1>11. mem' \in MemType
  BY <1>1, <1>4, <1>8, <1>9 DEF MemType
<1>12. Save(done, NoFlight) \/ file' = TornFile
  BY <1>1
<1> HIDE DEF ok, done, failed
<1>13. NoFlight \in [Dates -> 0 .. MaxLaunch]
      /\ \A q \in Dates : NoFlight[q] = 0
  BY BackfillConstants DEF NoFlight
<1>14. file' \in FileType /\ FileInv' /\ file'.done \subseteq Delivered'
  <2>1. file' \in {file, NoFile, TornFile,
                   Saved(Todo(done), done, NoFlight, asked)}
    BY <1>12 DEF Save
  <2> HIDE DEF NoFlight
  <2> QED
    BY <1>1, <1>7, <1>8, <1>13, <2>1, SaveFrame
<1>15. /\ worker' \in [Entries -> {"none", "queued", "running"} \cup Ended]
       /\ worker'[k] = "none"
       /\ \A l \in Entries \ {k} : worker'[l] = worker[l]
  BY <1>1, <1>4
<1>16. BackfillTypeOK'
  BY <1>1, <1>11, <1>14, <1>15 DEF BackfillInv, BackfillTypeOK
<1>17. RoomInv'
  <2>1. Unlaunched' \subseteq Unlaunched
    BY <1>1, <1>10 DEF Unlaunched
  <2> QED
    BY <1>1, <1>4, <2>1, RoomFrame DEF BackfillInv, MemType
<1>18. LoopInv'
  BY <1>1, <1>2 DEF LoopInv, Launching
<1>19. MemInv'
  BY <1>1, <1>2, <1>8, <1>10, <1>13 DEF BackfillInv, MemInv
<1>20. CompletedDelivered'
  BY <1>7, <1>10, <1>14 DEF CompletedDelivered
<1>21. PoolInv'
  <2>1. file'.flight = NoFlight
    BY <1>12 DEF Save, Saved, TornFile, NoFile
  <2>2. \A l \in Entries : worker'[l] # "none" => l \in mem'.plan
    BY <1>10, <1>15 DEF BackfillInv, PoolInv
  <2>3. \A l \in Entries : worker'[l] = "ok" => DateOf[l] \in made'
    BY <1>1, <1>15 DEF BackfillInv, PoolInv
  <2>4. \A l \in mem'.plan :
            DateOf[l] \in mem'.done \cup mem'.failed \/ l \in InPool'
    <3> SUFFICES ASSUME NEW l \in mem.plan
                 PROVE  DateOf[l] \in done \cup failed \/ l \in InPool'
      BY <1>10
    <3>1. DateOf[l] \in mem.done \cup mem.failed \/ l \in InPool
      BY <1>1 DEF BackfillInv, PoolInv
    <3>2. l # k /\ l \in InPool => l \in InPool'
      BY <1>15 DEF InPool
    <3> QED
      BY <1>8, <1>9, <3>1, <3>2
  <2> QED
    BY <1>1, <1>2, <1>10, <2>1, <2>2, <2>3, <2>4 DEF PoolInv
<1> QED
  BY <1>1, <1>2, <1>14, <1>16, <1>17, <1>18, <1>19, <1>20, <1>21, NoRuns
  DEF BackfillInv

-----------------------------------------------------------------------------
LEMMA BackfillInit ==
    ASSUME Init
    PROVE  BackfillInv
<1>1. \A r \in RunIds : run[r] = [life |-> "none", report |-> "open"]
  BY DEF Init
<1>2. \A p \in Dates : \A i \in 1 .. MaxLaunch : << p, i >> \in RunIds
  BY DEF RunIds
<1>3. BackfillTypeOK
  BY BackfillConstants
  DEF Init, BackfillTypeOK, FileType, MemType, NoFile, NoInvocation, NoFlight
<1>4. RoomInv
  <2>1. Prepared = {}
    BY DEF Init, Prepared, NoFlight, RunIds
  <2>2. Unlaunched = {}
    BY DEF Init, Unlaunched, NoInvocation
  <2> QED
    BY <2>1, <2>2, FS_EmptySet, BackfillConstants DEF RoomInv
<1>5. LoopInv /\ MemInv /\ FileInv /\ PoolInv
  BY DEF Init, LoopInv, MemInv, FileInv, PoolInv, NoFile, NoInvocation,
         NoFlight, Launching
<1>6. RunInv /\ OwnInv /\ OneRunPerPartition /\ SerializedPromotion
  BY <1>1, <1>2
  DEF Init, RunInv, OwnInv, OneRunPerPartition, SerializedPromotion, Ours
<1>7. CompletedDelivered
  BY DEF Init, CompletedDelivered, NoFile, NoInvocation
<1> QED
  BY <1>3, <1>4, <1>5, <1>6, <1>7 DEF BackfillInv

LEMMA BackfillStep ==
    ASSUME BackfillInv, [Next]_vars
    PROVE  BackfillInv'
<1>1. CASE UserStep
  BY <1>1, StartInvariance, ResumeInvariance DEF UserStep
<1>2. CASE FaultStep
  BY <1>2, KilledInvariance, PoolEndsInvariance DEF FaultStep
<1>3. CASE WapStep
  BY <1>3, WapStepInvariance
<1>4. CASE PollPending \/ TimedOut
  BY <1>4, PollInvariance
<1>5. CASE PoolStep
  <2>1. CASE PoolFinished \/ PoolDrained
    BY <2>1, PoolEndsInvariance
  <2>2. ASSUME NEW k \in Entries,
               WorkerStarts(k) \/ WorkerTimesOut(k) \/ Collect(k)
        PROVE  BackfillInv'
    <3>1. DateOf[k] \in Dates
      BY BackfillConstants
    <3> QED
      BY <2>2, <3>1, WorkerInvariance, CollectInvariance
  <2> QED
    BY <1>5, <2>1, <2>2 DEF PoolStep
<1>6. CASE SensorStep
  BY <1>6, SensorInvariance
<1>7. CASE ContainerStep
  <2>1. ASSUME NEW k \in Entries, NEW result \in Ended,
               WorkerEnds(k, result)
        PROVE  BackfillInv'
    <3>1. DateOf[k] \in Dates
      BY BackfillConstants
    <3> QED
      BY <2>1, <3>1, WorkerInvariance
  <2> QED
    BY <1>7, <2>1, WorkerInvariance DEF ContainerStep
<1>8. CASE UNCHANGED vars
  BY <1>8, WaitsOn DEF vars, runVars, poolVars, BackfillInv, BackfillTypeOK
<1> QED
  BY <1>1, <1>2, <1>3, <1>4, <1>5, <1>6, <1>7, <1>8 DEF Next

(* The state file, the memory of the invocation, the runs and the pool     *)
(* agree at every moment of every sequence of backfills, deaths and        *)
(* resumptions.                                                            *)
THEOREM BackfillInvariance == Spec => []BackfillInv
  BY BackfillInit, BackfillStep, PTL DEF Spec

(* The variables keep their types; in particular no sequence of            *)
(* invocations launches a partition more often than the bound says.        *)
THEOREM BackfillTypeCorrect == Spec => []BackfillTypeOK
<1>1. BackfillInv => BackfillTypeOK
  BY DEF BackfillInv
<1> QED
  BY <1>1, BackfillInvariance, PTL

(* A partition recorded as completed was published, or its command exited  *)
(* with 0: _save_backfill_state never runs ahead of the data.              *)
THEOREM CompletedIsDelivered == Spec => []CompletedDelivered
<1>1. BackfillInv => CompletedDelivered
  BY DEF BackfillInv
<1> QED
  BY <1>1, BackfillInvariance, PTL

(* Every state file a resumption can read lists exactly the partitions the *)
(* backfill was started with and has not completed; if its list repeats no *)
(* date, only remaining ones are in flight.                                *)
THEOREM FilePartitions == Spec => []FileCoversPlan
<1>1. BackfillInv => FileCoversPlan
  BY DEF BackfillInv, FileInv, FileCoversPlan, Heads
<1> QED
  BY <1>1, BackfillInvariance, PTL

(* _run_wap_backfill never owns two runs of a partition its list names     *)
(* once, however often it is killed and resumed: in-flight partitions are  *)
(* reconciled.  A date that --partitions repeats is launched once more     *)
(* after its first run was promoted, so the condition is needed.           *)
THEOREM OneRun == Spec => []OneRunPerPartition
<1>1. BackfillInv => OneRunPerPartition
  BY DEF BackfillInv
<1> QED
  BY <1>1, BackfillInvariance, PTL

(* At most one run of the backfill is still to be published: the loop      *)
(* waits for the receipt of one partition before it launches the next.     *)
(* Its list must repeat no date: a repeated one in flight is not waited    *)
(* for by a resumed invocation that has the date among the completed.      *)
THEOREM Serialized == Spec => []SerializedPromotion
<1>1. BackfillInv => SerializedPromotion
  BY DEF BackfillInv
<1> QED
  BY <1>1, BackfillInvariance, PTL

(* The state file goes only after the last partition was delivered, in     *)
(* both loops.                                                             *)
THEOREM RemovalIsFinal == Spec => RemovedWhenDelivered
<1>1. BackfillInv /\ [Next]_vars =>
          [file.state # "absent" /\ file'.state = "absent"
             => DatesOf(asked) \subseteq Delivered]_vars
  <2> SUFFICES ASSUME BackfillInv, Next,
                      file.state # "absent", file'.state = "absent"
               PROVE  DatesOf(asked) \subseteq Delivered
    OBVIOUS
  <2>1. \A done, flight : ~ (file' = Saved(Todo(done), done, flight,
                                          asked))
    BY DEF Saved
  <2>2. file' # file /\ file' # TornFile
    BY DEF TornFile, NoFile
  <2>3. WapFinished \/ (PoolFinished /\ mem.failed = {})
    BY <2>1, <2>2
    DEF Next, UserStep, FaultStep, WapStep, PoolStep, SensorStep,
        ContainerStep, Start, Resume, Begin, WapKilled, Interrupted,
        PoolKilled, Reconcile, Launch, SubmitFailed, RegisterFailed,
        SubmitAccepted, Register, RecordFlight, PollPending, PollFailed,
        TimedOut, PollTerminal, PollPromoted, Raise, SaveOrTear, Save,
        WorkerStarts, WorkerTimesOut, WorkerEnds, OrphanEnds, Collect,
        PoolFinished, PoolDrained, RunEnds, Cancel, Refuse, Publish, Receipt,
        Clean
  <2>4. CASE WapFinished
    <3>1. pc = "next" /\ mem.left = {}
      BY <2>4 DEF WapFinished
    <3>2. \A k \in asked : DateOf[k] \in mem.done
      BY <3>1 DEF BackfillInv, MemInv
    <3> QED
      BY <3>2 DEF DatesOf, BackfillInv, CompletedDelivered
  <2>5. CASE PoolFinished /\ mem.failed = {}
    <3>1. pc = "pool" /\ InPool = {}
      BY <2>5 DEF PoolFinished
    <3>2. \A k \in asked : DateOf[k] \in mem.done
      BY <2>5, <3>1 DEF BackfillInv, PoolInv, MemInv
    <3> QED
      BY <3>2 DEF DatesOf, BackfillInv, CompletedDelivered
  <2> QED
    BY <2>3, <2>4, <2>5
<1> QED
  BY <1>1, BackfillInvariance, PTL DEF Spec, RemovedWhenDelivered
=============================================================================
