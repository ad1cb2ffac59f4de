--------------------------- MODULE MCDepositRefund --------------------------
(* DepositRefund for TLC: the calls in flight are interchangeable; the refund  *)
(* transactions of a request are all for one branch, or one is for the branch  *)
(* before an upgrade and the other for the branch after it.                    *)
EXTENDS DepositRefund, TLC

PromiseSymmetry == Permutations(PromiseId)

OneBranch   == [variant \in Variant |-> 0]
TwoBranches == [variant \in Variant |-> variant - 1]
=============================================================================
