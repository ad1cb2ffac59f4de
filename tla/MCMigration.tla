----------------------------- MODULE MCMigration -----------------------------
(* Migration for TLC: the outputs' balances differ, the transactions do not. *)
EXTENDS Migration, TLC

CONSTANTS d1, d2

MCBalance == d1 :> 1 @@ d2 :> 2

\* At most one of the white lists and templates is in use: no handler reads one for another.
OneListAtATime == Cardinality({l \in Lists : data[l] \notin {Absent, {}}}) <= 1

Symmetric == Permutations(Tx)
=============================================================================
