---------------------------- MODULE EffectLedger ----------------------------
(***************************************************************************)
(* What the host promises about the effects it is asked for                *)
(* (docs/protocol.md, Effects): an operation is performed at most once,    *)
(* whatever is repeated, lost or restarted; an outcome that establishes    *)
(* the execution, or its absence, tells the truth; an outcome is never     *)
(* revised, and an unknown one ends with the decision of the owner only.   *)
(* Effects implements this specification.                                  *)
(***************************************************************************)
EXTENDS Naturals

CONSTANT Ops   \* operation ids

VARIABLES
    outcome,   \* of each operation
    performed  \* adapter calls made for it

vars == <<outcome, performed>>

Outcomes == {"none", "pending", "established", "not_dispatched", "unknown", "settled"}

Init ==
    /\ outcome = [o \in Ops |-> "none"]
    /\ performed = [o \in Ops |-> 0]

Issue(o) ==
    /\ outcome[o] = "none"
    /\ outcome' = [outcome EXCEPT ![o] = "pending"]
    /\ UNCHANGED performed

Perform(o) ==
    /\ outcome[o] = "pending" /\ performed[o] = 0
    /\ performed' = [performed EXCEPT ![o] = 1]
    /\ UNCHANGED outcome

Conclude(o, result) ==
    /\ outcome[o] = "pending"
    /\ result = "established" => performed[o] = 1
    /\ result = "not_dispatched" => performed[o] = 0
    /\ outcome' = [outcome EXCEPT ![o] = result]
    /\ UNCHANGED performed

Settle(o) ==
    /\ outcome[o] = "unknown"
    /\ outcome' = [outcome EXCEPT ![o] = "settled"]
    /\ UNCHANGED performed

Next == \E o \in Ops :
    \/ Issue(o) \/ Perform(o) \/ Settle(o)
    \/ \E result \in {"established", "not_dispatched", "unknown"} : Conclude(o, result)

Spec == Init /\ [][Next]_vars
=============================================================================
