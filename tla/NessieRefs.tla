----------------------------- MODULE NessieRefs -----------------------------
(***************************************************************************)
(* Commit hashes of the versioned catalog and the conditional operations   *)
(* that NessieResource performs on refs.                                   *)
(*                                                                         *)
(* A Nessie hash identifies a commit together with its whole first-parent  *)
(* history, so a hash is modelled as that history: the sequence of the     *)
(* writers of its commits, oldest first.  Two refs carry the same hash     *)
(* exactly when they carry the same history, and "a is an ancestor of b"   *)
(* is "a is a prefix of b".  A missing ref, and a hash that could not be   *)
(* read, is None in the code and the empty history here.                   *)
(***************************************************************************)
EXTENDS Naturals, Sequences

(* get_branch_hash returned None: no such ref, or the read failed.         *)
NoHash == << >>

(* _has_ancestor: the ancestor is found on the pinned history of the tip.  *)
HasAncestor(tip, ancestor) ==
    /\ Len(ancestor) <= Len(tip)
    /\ \A i \in 1 .. Len(ancestor) : ancestor[i] = tip[i]

(* The proof _publish_fast_forward demands before it sends the PUT: the    *)
(* branch still exists and still contains the pinned source hash, and the  *)
(* pinned source hash descends from the expected target hash.              *)
ProvenFastForward(current, source, expected) ==
    /\ current # NoHash
    /\ HasAncestor(current, source)
    /\ HasAncestor(source, expected)

(* Defect seeded to test the properties: the PUT is not conditional.       *)
AssignUnconditional(target, expected) == TRUE

(* PUT .../branch/<target>?expectedHash=...: Nessie moves the ref only     *)
(* while it still carries the expected hash.                               *)
AssignAllowed(target, expected) == target = expected

(* Seeded defect: the DELETE ignores the expected hash.                    *)
DeleteUnconditional(current, expected) == current # NoHash

(* DELETE .../branch/<name>?expectedHash=...: likewise conditional.        *)
DeleteAllowed(current, expected) == current # NoHash /\ current = expected

(* A commit on a ref: its hash covers the previous history.                *)
CommitOn(hash, writer) == Append(hash, writer)
=============================================================================
