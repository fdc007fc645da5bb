--------------------------- MODULE WapPublication ---------------------------
(***************************************************************************)
(* What Write-Audit-Publish promises about the publication target,         *)
(* without launchers, sensors, reports or retries.                         *)
(*                                                                         *)
(* A run is sealed on a state the target really had.  Its audit reaches a  *)
(* verdict once.  Only an approved run may publish, only while the target  *)
(* is still exactly the sealed state, and only a descendant of that state. *)
(* Other writers of the catalog only ever commit on top of the target.     *)
(***************************************************************************)
EXTENDS NessieRefs

CONSTANTS Runs,     \* the logical WAP runs
          Other     \* any writer of the target that is not a WAP run

VARIABLES target,     \* history of the publication target
          base,       \* run -> the target hash its launch was sealed on
          verdict,    \* run -> "open", "approved" or "rejected"
          published   \* set of publications [run, from, to] that took effect

absVars == << target, base, verdict, published >>

History == Seq(Runs \cup {Other})

Publication == [run : Runs, from : History, to : History]

Init ==
    /\ target = << Other >>
    /\ base = [r \in Runs |-> NoHash]
    /\ verdict = [r \in Runs |-> "open"]
    /\ published = {}

OtherCommit ==
    /\ target' = CommitOn(target, Other)
    /\ UNCHANGED << base, verdict, published >>

Seal(r) ==
    /\ base[r] = NoHash
    /\ base' = [base EXCEPT ![r] = target]
    /\ UNCHANGED << target, verdict, published >>

Decide(r, v) ==
    /\ base[r] # NoHash
    /\ verdict[r] = "open"
    /\ verdict' = [verdict EXCEPT ![r] = v]
    /\ UNCHANGED << target, base, published >>

Publish(r) ==
    /\ verdict[r] = "approved"
    /\ base[r] # NoHash
    /\ target = base[r]
    /\ target' \in History
    /\ HasAncestor(target', target)
    /\ published' = published \cup {[run |-> r, from |-> target, to |-> target']}
    /\ UNCHANGED << base, verdict >>

Next ==
    \/ OtherCommit
    \/ \E r \in Runs :
        \/ Seal(r)
        \/ \E v \in {"approved", "rejected"} : Decide(r, v)
        \/ Publish(r)

Spec == Init /\ [][Next]_absVars
=============================================================================
