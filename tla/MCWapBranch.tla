---------------------------- MODULE MCWapBranch -----------------------------
(***************************************************************************)
(* Instances of WapBranch for TLC.                                         *)
(***************************************************************************)
EXTENDS WapBranch, TLC

Pass     == [passed |-> TRUE,  severity |-> "error"]
Fail     == [passed |-> FALSE, severity |-> "error"]
WarnFail == [passed |-> FALSE, severity |-> "warn"]

PassOrFail  == {Pass, Fail}
OnlyFail    == {Fail}
AllOutcomes == {Pass, Fail, WarnFail}

NoRuns == {}
NoFaults == {}
ReadFaults == {"report_read", "catalog_read"}
EventLogFault == {"event_log"}

Symmetry == Permutations(Runs)
=============================================================================
