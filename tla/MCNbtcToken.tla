----------------------------- MODULE MCNbtcToken -----------------------------
(* NbtcToken for TLC: the calls under way and the users are interchangeable. *)
EXTENDS NbtcToken, TLC

Symmetric == Permutations(Receipt) \cup Permutations(User)
=============================================================================
