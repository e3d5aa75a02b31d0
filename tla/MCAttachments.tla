---------------------------- MODULE MCAttachments ----------------------------
(* Instances of Attachments for TLC: one or two executions, few work items. *)
EXTENDS Attachments, TLC

CONSTANTS a, b, v, w

OneAttachment == {a}
TwoAttachments == {a, b}
OneItem == {w}
TwoItems == {v, w}

AllSymmetry == Permutations({v, w}) \cup Permutations({a, b})
=============================================================================
