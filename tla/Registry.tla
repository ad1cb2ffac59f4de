------------------------------ MODULE Registry ------------------------------
(***************************************************************************)
(* What the accounts of the bridge are promised of its registers, whatever *)
(* version of the contract keeps them: transactions stay with the account  *)
(* that has to sign and to prove them, outputs and refund requests keep    *)
(* their status, and the lists the DAO keeps change only by its orders.    *)
(* An upgrade is nothing that anyone can see here.                         *)
(***************************************************************************)
EXTENDS Integers, FiniteSets

CONSTANTS Account, Tx, Output,
          Limit,    \* limits the DAO may set
          List      \* names of the lists of accounts it keeps

VARIABLES
    waiting,    \* account -> its transactions that wait for signatures
    signed,     \* account -> those that wait for their proof
    limit,      \* account -> how many may wait for signatures
    claimed,    \* outputs that no deposit and no refund may claim
    held,       \* outputs in the pool of the bridge
    refund,     \* output -> "none", "open" or "executed"
    listed      \* list -> its members

vars == <<waiting, signed, limit, claimed, held, refund, listed>>
transactions == <<waiting, signed>>
outputs      == <<claimed, held>>
orders       == <<limit, listed>>

Init ==
    /\ waiting \in [Account -> SUBSET Tx]
    /\ signed \in [Account -> SUBSET Tx]
    /\ limit \in [Account -> Limit]
    /\ claimed \in SUBSET Output /\ held \in SUBSET claimed
    /\ refund \in [Output -> {"none", "open", "executed"}]
    /\ listed \in [List -> SUBSET Account]

Await(a, t) ==
    /\ Cardinality(waiting[a]) < limit[a]
    /\ \A b \in Account : t \notin waiting[b] \cup signed[b]
    /\ waiting' = [waiting EXCEPT ![a] = @ \cup {t}]
    /\ UNCHANGED signed

Withdraw(a, t, o) ==
    /\ Await(a, t)
    /\ o \in held /\ held' = held \ {o}
    /\ UNCHANGED <<claimed, refund, orders>>

Refund(a, t, o) ==
    /\ Await(a, t)
    /\ \/ refund[o] = "open" /\ o \notin claimed
       \/ refund[o] = "executed"
    /\ refund' = [refund EXCEPT ![o] = "executed"]
    /\ claimed' = claimed \cup {o}
    /\ UNCHANGED <<held, orders>>

Sign(a, t) ==
    /\ t \in waiting[a]
    /\ waiting' = [waiting EXCEPT ![a] = @ \ {t}]
    /\ signed' = [signed EXCEPT ![a] = @ \cup {t}]
    /\ UNCHANGED <<outputs, refund, orders>>

\* The proof of a transaction; that of a refund also ends its request.
Settle(a, t) ==
    /\ t \in signed[a]
    /\ signed' = [signed EXCEPT ![a] = @ \ {t}]
    /\ \/ UNCHANGED refund
       \/ \E o \in Output : refund[o] = "executed" /\ refund' = [refund EXCEPT ![o] = "none"]
    /\ UNCHANGED <<waiting, outputs, orders>>

Drop(a, t) ==
    /\ t \in waiting[a] \cup signed[a]
    /\ waiting' = [waiting EXCEPT ![a] = @ \ {t}]
    /\ signed' = [signed EXCEPT ![a] = @ \ {t}]
    /\ UNCHANGED <<outputs, refund, orders>>

Claim(o) ==
    /\ o \notin claimed
    /\ claimed' = claimed \cup {o}
    /\ UNCHANGED <<held, refund, transactions, orders>>

Release(o) ==
    /\ o \in claimed \ held /\ refund[o] # "executed"
    /\ claimed' = claimed \ {o}
    /\ UNCHANGED <<held, refund, transactions, orders>>

Hold(o) ==
    /\ o \in claimed /\ refund[o] # "executed"
    /\ held' = held \cup {o}
    /\ UNCHANGED <<claimed, refund, transactions, orders>>

Request(o) ==
    /\ o \notin claimed /\ refund[o] = "none"
    /\ refund' = [refund EXCEPT ![o] = "open"]
    /\ UNCHANGED <<outputs, transactions, orders>>

Reject(o) ==
    /\ refund[o] = "open"
    /\ refund' = [refund EXCEPT ![o] = "none"]
    /\ UNCHANGED <<outputs, transactions, orders>>

\* The DAO sets one limit, or adds or removes one member of a list.
Order ==
    /\ \E a \in Account :
        \/ /\ \E n \in Limit : limit' = [limit EXCEPT ![a] = n]
           /\ UNCHANGED listed
        \/ /\ \E l \in List :
                \/ listed' = [listed EXCEPT ![l] = @ \cup {a}]
                \/ listed' = [listed EXCEPT ![l] = @ \ {a}]
           /\ UNCHANGED limit
    /\ UNCHANGED <<transactions, outputs, refund>>

Next ==
    \/ \E a \in Account, t \in Tx :
        \/ \E o \in Output : Withdraw(a, t, o) \/ Refund(a, t, o)
        \/ Sign(a, t) \/ Settle(a, t) \/ Drop(a, t)
    \/ \E o \in Output : Claim(o) \/ Release(o) \/ Hold(o) \/ Request(o) \/ Reject(o)
    \/ Order

Spec == Init /\ [][Next]_vars
=============================================================================
