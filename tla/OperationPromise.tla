-------------------------- MODULE OperationPromise -------------------------
(***************************************************************************)
(* What the durable operation journal promises of every operation: it is   *)
(* undertaken at most once, never beside another operation of the same     *)
(* action and target that is still undecided, and its outcome is final.    *)
(***************************************************************************)
CONSTANTS Ops,          \* operation IDs
          Rival(_, _)   \* two operations of the same action and target

VARIABLE phase          \* operation -> "new", "undecided" or "decided"

Init == phase = [o \in Ops |-> "new"]

Undertake(o) ==
    /\ phase[o] = "new"
    /\ \A p \in Ops : phase[p] = "undecided" => ~ Rival(o, p)
    /\ phase' = [phase EXCEPT ![o] = "undecided"]

(* An outcome, or the failure of an operation that was never undertaken.   *)
Decide(o) ==
    /\ phase[o] # "decided"
    /\ phase' = [phase EXCEPT ![o] = "decided"]

Next == \E o \in Ops : Undertake(o) \/ Decide(o)

Spec == Init /\ [][Next]_phase
=============================================================================
