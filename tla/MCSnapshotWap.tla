---------------------------- MODULE MCSnapshotWap ---------------------------
(***************************************************************************)
(* Instances of SnapshotWap for TLC: a run of the sensor on two tables and *)
(* a run of a helper that shares one of them.                              *)
(***************************************************************************)
EXTENDS SnapshotWap, TLC

CONSTANTS r1, r2, t1, t2

BothAndOne == (r1 :> {t1, t2}) @@ (r2 :> {t1})
OneAndNone == (r1 :> {t1}) @@ (r2 :> {})
=============================================================================
