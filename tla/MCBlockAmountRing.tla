-------------------------- MODULE MCBlockAmountRing -------------------------
(* BlockAmountRing for TLC: two deposits of block 1, which reach the second  *)
(* tier together, and two in later blocks, of which one may evict block 1.   *)
EXTENDS BlockAmountRing, TLC

CONSTANTS d1, d2, d3, d4

MCHeight == [d \in Deposit |-> CASE d = d3 -> 6 [] d = d4 -> 4 [] OTHER -> 1]
MCAmount == [d \in Deposit |-> IF d = d2 THEN 3 ELSE 4]

MCConfig == [strategy |-> (5 :> 2 @@ 10 :> 3),
             confirmations_delta |-> 1,
             extra_msg_confirmations_delta |-> 0]
=============================================================================
