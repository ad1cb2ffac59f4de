---------------------------- MODULE DepositClaim ----------------------------
(***************************************************************************)
(* What the bridge promises of one deposit output: an output sent to a     *)
(* deposit address is claimed at most once.  It is either credited to the  *)
(* user as nBTC, and then belongs to the bridge for good, or returned to   *)
(* the user by a refund transaction; a mint that fails releases it.        *)
(***************************************************************************)
CONSTANT Utxo

VARIABLE claim

ClaimState == {"open", "minting", "deposited", "refunding", "refunded"}

Move(u, from, to) ==
    /\ claim[u] = from
    /\ claim' = [claim EXCEPT ![u] = to]

Reserve(u) == Move(u, "open", "minting")
Release(u) == Move(u, "minting", "open")
Credit(u)  == Move(u, "minting", "deposited")
Refund(u)  == Move(u, "open", "refunding")
Settle(u)  == Move(u, "refunding", "refunded")

Init == claim = [u \in Utxo |-> "open"]

Next ==
    \E u \in Utxo : Reserve(u) \/ Release(u) \/ Credit(u) \/ Refund(u) \/ Settle(u)

Spec == Init /\ [][Next]_claim
=============================================================================
