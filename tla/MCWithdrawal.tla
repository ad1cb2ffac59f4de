---------------------------- MODULE MCWithdrawal ----------------------------
(* Withdrawal for TLC: a user and an operator; a withdrawal pays a fee of 2, *)
(* one to the protocol and one to the relayer.                               *)
EXTENDS Withdrawal, TLC

CONSTANTS user, operator, c1, c2, t1, t2, t3, t4

MCValue == [c \in Coin |-> 7]

Symmetric == Permutations(Tx)
=============================================================================
