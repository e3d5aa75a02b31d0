----------------------------- MODULE CallLedger -----------------------------
(***************************************************************************)
(* What the host promises about paid provider calls (docs/protocol.md,     *)
(* Budget allocations): a call is funded in full in every purse above it   *)
(* before it is sent, it is sent at most once, what was sent is never      *)
(* given back, and only a sent call is settled, once, with what it cost.   *)
(* Budget implements this specification.                                   *)
(***************************************************************************)
EXTENDS Naturals, FiniteSets, Functions

CONSTANTS
    Calls,   \* provider calls
    Asked,   \* the reservation of each call
    Purses,  \* ceilings
    Charged, \* the purses each call is charged to
    Limit    \* [calls, tokens] of each purse

VARIABLES
    phase,   \* of each call
    amount   \* what each call is charged

vars == <<phase, amount>>

Init ==
    /\ phase = [c \in Calls |-> "none"]
    /\ amount = [c \in Calls |-> 0]

In(p) == {c \in Calls : p \in Charged[c] /\ phase[c] \notin {"none", "freed"}}

Hold(c) ==
    /\ phase[c] = "none"
    /\ \A p \in Charged[c] :
          /\ Cardinality(In(p)) < Limit[p].calls
          /\ SumFunctionOnSet(amount, In(p)) + Asked[c] <= Limit[p].tokens
    /\ phase' = [phase EXCEPT ![c] = "held"]
    /\ amount' = [amount EXCEPT ![c] = Asked[c]]

Send(c) ==
    /\ phase[c] = "held"
    /\ phase' = [phase EXCEPT ![c] = "sent"]
    /\ UNCHANGED amount

Free(c) ==
    /\ phase[c] = "held"
    /\ phase' = [phase EXCEPT ![c] = "freed"]
    /\ UNCHANGED amount

Settle(c) ==
    /\ phase[c] = "sent"
    /\ phase' = [phase EXCEPT ![c] = "settled"]
    /\ amount' = [amount EXCEPT ![c] = amount'[c]]
    /\ amount'[c] \in Nat

Next == \E c \in Calls : Hold(c) \/ Send(c) \/ Free(c) \/ Settle(c)

Spec == Init /\ [][Next]_vars
=============================================================================
