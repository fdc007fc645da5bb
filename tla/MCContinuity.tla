---------------------------- MODULE MCContinuity ---------------------------
(***************************************************************************)
(* An upgrade, a restore and a backup of one deployment and two rival runs *)
(* of Dagster's snapshot expiry, applied by two processes, with shorter    *)
(* pipelines.  One target for all of them: actions that differ, like the   *)
(* upgrade and the backup, are not rivals, whatever maintenance they name. *)
(***************************************************************************)
EXTENDS Continuity, TLC

CONSTANTS u1, r1, b1, m1, m2, t1, w1, w2

MCAction ==
    [o \in Ops |-> CASE o = u1 -> "upgrade" [] o = r1 -> "restore"
                     [] o = b1 -> "backup" [] OTHER -> "expire_snapshots"]
MCTarget == [o \in Ops |-> t1]
MCSteps == [a \in Actions |-> CASE a = "upgrade" -> 3
                               [] a \in {"restore", "backup"} -> 2
                               [] OTHER -> 1]

Symmetry == Permutations({m1, m2}) \cup Permutations({w1, w2})
=============================================================================
