---------------------------- MODULE DepositRefund ---------------------------
(***************************************************************************)
(* The life of a deposit output in the satoshi-bridge contract: it may be  *)
(* verified and minted as nBTC (plain or safe deposit), or returned to the *)
(* depositor by the refund flow.  Each flow spans several NEAR receipts:   *)
(* an entry point that calls another contract, then a private callback     *)
(* that runs later, possibly after any number of other receipts.  A        *)
(* receipt that panics changes nothing, so its action only frees the call. *)
(***************************************************************************)
EXTENDS Naturals, FiniteSets

CONSTANTS
    Utxo,                 \* deposit outputs on the Bitcoin / Zcash chain
    SafeDeposit,          \* those whose deposit_msg asks for a safe deposit
    PresetAddress,        \* those whose deposit_msg names a refund_address
    Account,              \* accounts that execute refunds
    FastTrack,            \* the DAO and RefundOperator accounts among them
    Variant,              \* distinct refund transactions that can be built for
                          \* one request: one on Bitcoin, several on Zcash
    BranchOf,             \* the consensus branch each of them is written for
    UpgradeTimes,         \* when Zcash changes its branch
    Zcash,                \* execute_refund is asynchronous
    PromiseId,            \* bound on the cross-contract calls in flight
    refund_timelock_sec,
    unsafe_refund_timelock_sec,
    MaxTime,              \* bound on the clock
    PendingTxLimit,       \* pending_tx_limits of every account
    MintCallbackMayDie,   \* a mint callback may exhaust its static gas
    TrustedDAO,           \* complete_failed_deposit_mint only for its documented case
    None

ASSUME ConstantsAssumption ==
    /\ SafeDeposit \subseteq Utxo
    /\ PresetAddress \subseteq Utxo
    /\ FastTrack \subseteq Account
    /\ BranchOf \in [Variant -> Nat]
    /\ UpgradeTimes \subseteq Nat
    /\ IsFiniteSet(UpgradeTimes)
    /\ Zcash \in BOOLEAN
    /\ MintCallbackMayDie \in BOOLEAN
    /\ TrustedDAO \in BOOLEAN
    /\ refund_timelock_sec \in Nat
    /\ unsafe_refund_timelock_sec \in Nat
    /\ MaxTime \in Nat
    /\ PendingTxLimit \in Nat

RefundTx == Utxo \X Variant
UtxoOf(tx) == tx[1]

Stage == {"PendingSign", "PendingVerify"}
BTCPendingInfo == [account_id : Account, stage : Stage]

RefundRequest == [created_at_sec : Nat, executed : BOOLEAN]

\* The outcome of nBTC's mint as its callback sees it.
MintResult == {"used", "returned", "error"}

Call ==
    [op : {"verify_deposit", "mint", "request_refund"}, utxo : Utxo]
        \cup
    [op : {"mint_callback"}, utxo : Utxo, result : MintResult]
        \cup
    [op : {"execute_refund"}, utxo : Utxo, caller : Account, timelock_sec : Nat,
     variant : Variant]
        \cup
    [op : {"sign", "signed", "verify_refund"}, tx : RefundTx]

ASSUME NoneAssumption ==
    /\ None \notin Call
    /\ None \notin RefundRequest
    /\ None \notin BTCPendingInfo

VARIABLES
    \* The contract's state.
    verified_deposit_utxo,   \* outputs claimed by a deposit or by a refund
    utxos_in_progress,       \* outputs whose mint is in flight
    utxos,                   \* outputs the bridge can spend in withdrawals
    refund_requests,         \* one request per output, or None
    btc_pending_infos,       \* the refund transactions being signed or verified
    btc_pending_sign_ids,    \* per account
    btc_pending_verify_list, \* per account
    \* The NEAR runtime: outstanding cross-contract calls.
    promises,
    \* The environment.
    minted,                  \* per output, how often nBTC was credited for it
    withdrawn,               \* outputs handed to a withdrawal transaction
    mpc_signed,              \* refund transactions the MPC network signed
    confirmed,               \* refund transactions on the Bitcoin / Zcash chain
    now

requestVars == <<refund_requests>>
pendingVars == <<btc_pending_infos, btc_pending_sign_ids, btc_pending_verify_list>>
depositVars == <<verified_deposit_utxo, utxos_in_progress, utxos>>
worldVars   == <<minted, withdrawn, mpc_signed, confirmed, now>>

vars == <<verified_deposit_utxo, utxos_in_progress, utxos, refund_requests,
          btc_pending_infos, btc_pending_sign_ids, btc_pending_verify_list,
          promises, minted, withdrawn, mpc_signed, confirmed, now>>

Init ==
    /\ verified_deposit_utxo = {}
    /\ utxos_in_progress = {}
    /\ utxos = {}
    /\ refund_requests = [u \in Utxo |-> None]
    /\ btc_pending_infos = [tx \in RefundTx |-> None]
    /\ btc_pending_sign_ids = [a \in Account |-> {}]
    /\ btc_pending_verify_list = [a \in Account |-> {}]
    /\ promises = [p \in PromiseId |-> None]
    /\ minted = [u \in Utxo |-> 0]
    /\ withdrawn = {}
    /\ mpc_signed = {}
    /\ confirmed = {}
    /\ now = 0

-----------------------------------------------------------------------------
(* Cross-contract calls.                                                   *)

Running(p, ops) == promises[p] # None /\ promises[p].op \in ops

StartCall(p, call) ==
    /\ promises[p] = None
    /\ promises' = [promises EXCEPT ![p] = call]

Continue(p, call) == promises' = [promises EXCEPT ![p] = call]
Return(p)         == promises' = [promises EXCEPT ![p] = None]

-----------------------------------------------------------------------------
(* Deposits.                                                               *)

\* The entry point checks the proof's shape and asks the light client.
VerifyDeposit(p, u) ==
    /\ StartCall(p, [op |-> "verify_deposit", utxo |-> u])
    /\ UNCHANGED <<depositVars, requestVars, pendingVars, worldVars>>

\* Mutants: two proofs of one output both pass; a deposit that is not marked as
\* in progress while its mint runs.
ReserveAgain(u) ==
    /\ verified_deposit_utxo' = verified_deposit_utxo \cup {u}
    /\ utxos_in_progress' = utxos_in_progress \cup {u}

ReserveUnmarked(u) ==
    /\ u \notin verified_deposit_utxo
    /\ verified_deposit_utxo' = verified_deposit_utxo \cup {u}
    /\ UNCHANGED utxos_in_progress

\* The output is free, and from now on taken by this deposit.
ReserveForDeposit(u) ==
    /\ u \notin verified_deposit_utxo
    /\ verified_deposit_utxo' = verified_deposit_utxo \cup {u}
    /\ utxos_in_progress' = utxos_in_progress \cup {u}

\* The light client confirmed the transaction deeply enough.
VerifyDepositCallback(p) ==
    /\ Running(p, {"verify_deposit"})
    /\ LET u == promises[p].utxo IN
        /\ ReserveForDeposit(u)
        /\ Continue(p, [op |-> "mint", utxo |-> u])
    /\ UNCHANGED <<utxos, requestVars, pendingVars, worldVars>>

\* nBTC runs mint or safe_mint.  A plain mint credits the user or fails as a
\* whole.  A safe mint returns what the receiver kept: nothing if it sent
\* everything back, and on an error it is unknown whether it was credited.
Mint(p) ==
    /\ Running(p, {"mint"})
    /\ LET u == promises[p].utxo IN
        \E result \in MintResult, credit \in {0, 1} :
            /\ result = "used" => credit = 1
            /\ result = "returned" => credit = 0 /\ u \in SafeDeposit
            /\ result = "error" /\ u \notin SafeDeposit => credit = 0
            /\ minted' = [minted EXCEPT ![u] = @ + credit]
            /\ Continue(p, [op |-> "mint_callback", utxo |-> u, result |-> result])
    /\ UNCHANGED <<depositVars, requestVars, pendingVars,
                   withdrawn, mpc_signed, confirmed, now>>

\* Mutant: safe_mint_callback treats an unreadable answer like mint_callback does.
IsSuccessIfRead(u, result) == result = "used"

\* mint_callback looks at the promise's status; safe_mint_callback gives the
\* deposit up only when exactly nothing was used.
IsSuccess(u, result) ==
    IF u \in SafeDeposit THEN result # "returned" ELSE result = "used"

\* Mutant: a failed mint leaves its output marked as in progress.
FailMintInProgress(u) ==
    /\ verified_deposit_utxo' = verified_deposit_utxo \ {u}
    /\ UNCHANGED <<utxos, utxos_in_progress>>

RegisterUtxo(u) ==
    /\ utxos' = utxos \cup {u}
    /\ utxos_in_progress' = utxos_in_progress \ {u}
    /\ UNCHANGED verified_deposit_utxo

FailMint(u) ==
    /\ verified_deposit_utxo' = verified_deposit_utxo \ {u}
    /\ utxos_in_progress' = utxos_in_progress \ {u}
    /\ UNCHANGED utxos

MintCallback(p) ==
    /\ Running(p, {"mint_callback"})
    /\ LET u == promises[p].utxo IN
        IF IsSuccess(u, promises[p].result) THEN RegisterUtxo(u) ELSE FailMint(u)
    /\ Return(p)
    /\ UNCHANGED <<requestVars, pendingVars, worldVars>>

\* The callback runs out of its static gas: its writes are lost, the mint is not.
MintCallbackDies(p) ==
    /\ MintCallbackMayDie
    /\ Running(p, {"mint_callback"})
    /\ Return(p)
    /\ UNCHANGED <<depositVars, requestVars, pendingVars, worldVars>>

\* The case complete_failed_deposit_mint is documented for: nBTC was minted
\* and the callback that should have registered the output is gone.
MintedButUnregistered(u) ==
    /\ minted[u] > 0
    /\ u \in utxos_in_progress
    /\ \A p \in PromiseId :
        Running(p, {"mint", "mint_callback"}) => promises[p].utxo # u

\* Nothing writes unavailable_utxos, so the check that u is not in it is left out.
CompleteFailedDepositMint(u) ==
    /\ u \in verified_deposit_utxo
    /\ u \notin utxos
    /\ refund_requests[u] = None
    /\ TrustedDAO => MintedButUnregistered(u)
    /\ RegisterUtxo(u)
    /\ UNCHANGED <<requestVars, pendingVars, promises, worldVars>>

\* A withdrawal takes the output as one of its inputs.
GenerateVutxos(u) ==
    /\ u \in utxos
    /\ utxos' = utxos \ {u}
    /\ withdrawn' = withdrawn \cup {u}
    /\ UNCHANGED <<verified_deposit_utxo, utxos_in_progress, requestVars, pendingVars,
                   promises, minted, mpc_signed, confirmed, now>>

-----------------------------------------------------------------------------
(* Refund requests.                                                        *)

RequestRefund(p, u) ==
    /\ StartCall(p, [op |-> "request_refund", utxo |-> u])
    /\ UNCHANGED <<depositVars, requestVars, pendingVars, worldVars>>

\* The light client confirmed the transaction at the depth of the highest tier.
RequestRefundCallback(p) ==
    /\ Running(p, {"request_refund"})
    /\ LET u == promises[p].utxo IN
        /\ u \notin verified_deposit_utxo
        /\ refund_requests[u] = None
        /\ refund_requests' =
            [refund_requests EXCEPT ![u] = [created_at_sec |-> now, executed |-> FALSE]]
    /\ Return(p)
    /\ UNCHANGED <<depositVars, pendingVars, worldVars>>

Executed(u) == refund_requests[u] # None /\ refund_requests[u].executed

\* Mutant: an executed request can be rejected too.
RejectableThroughout(u) == refund_requests[u] # None

Rejectable(u) == refund_requests[u] # None /\ ~Executed(u)

RejectRefund(u, is_privileged) ==
    /\ Rejectable(u)
    /\ is_privileged \/ u \in verified_deposit_utxo \ utxos_in_progress
    /\ refund_requests' = [refund_requests EXCEPT ![u] = None]
    /\ UNCHANGED <<depositVars, pendingVars, promises, worldVars>>

-----------------------------------------------------------------------------
(* Refund transactions.                                                    *)

\* Mutant: the privileged roles skip the timelock of every refund.
TimelockFastTracked(caller, u) ==
    IF caller \in FastTrack THEN 0
    ELSE IF u \notin PresetAddress THEN unsafe_refund_timelock_sec
    ELSE refund_timelock_sec

Timelock(caller, u) ==
    IF u \notin PresetAddress THEN unsafe_refund_timelock_sec
    ELSE IF caller \in FastTrack THEN 0 ELSE refund_timelock_sec

\* The branch in force: the n-th upgrade of the chain starts branch n.
Branch == Cardinality({t \in UpgradeTimes : t <= now})

\* Mutants: a refund that does not block deposits; one that ignores them; one
\* that cannot be executed again.
ClaimForRefundUnmarked(u) ==
    /\ u \notin verified_deposit_utxo \/ Executed(u)
    /\ UNCHANGED verified_deposit_utxo

ClaimForRefundAnyway(u) == verified_deposit_utxo' = verified_deposit_utxo \cup {u}

ClaimForRefundOnce(u) ==
    /\ u \notin verified_deposit_utxo
    /\ verified_deposit_utxo' = verified_deposit_utxo \cup {u}

\* The first execution takes a free output; the next ones find it taken by this refund.
ClaimForRefund(u) ==
    /\ u \notin verified_deposit_utxo \/ Executed(u)
    /\ verified_deposit_utxo' = verified_deposit_utxo \cup {u}

\* load_refund_request_for_execute followed by finalize_refund_with_psbt.
FinalizeRefund(caller, u, timelock_sec, variant) ==
    LET tx == <<u, variant>> IN
    /\ refund_requests[u] # None
    /\ now >= refund_requests[u].created_at_sec + timelock_sec
    /\ ClaimForRefund(u)
    /\ Cardinality(btc_pending_sign_ids[caller]) < PendingTxLimit
    /\ btc_pending_infos[tx] = None
    /\ btc_pending_infos' = [btc_pending_infos EXCEPT
            ![tx] = [account_id |-> caller, stage |-> "PendingSign"]]
    /\ btc_pending_sign_ids' = [btc_pending_sign_ids EXCEPT ![caller] = @ \cup {tx}]
    /\ refund_requests' = [refund_requests EXCEPT ![u].executed = TRUE]
    /\ UNCHANGED <<utxos_in_progress, utxos, btc_pending_verify_list, worldVars>>

\* Bitcoin builds the transaction in the entry point itself.
ExecuteRefund(caller, u, variant) ==
    /\ ~Zcash
    /\ FinalizeRefund(caller, u, Timelock(caller, u), variant)
    /\ UNCHANGED promises

\* Zcash first asks for the chain's height, and keeps the timelock it resolved.
ExecuteRefundAsync(p, caller, u, variant) ==
    /\ Zcash
    /\ refund_requests[u] # None
    /\ StartCall(p, [op |-> "execute_refund", utxo |-> u, caller |-> caller,
                     timelock_sec |-> Timelock(caller, u), variant |-> variant])
    /\ UNCHANGED <<depositVars, requestVars, pendingVars, worldVars>>

\* The transaction is written for the branch of the height the light client
\* reported, which may lag behind the chain's.  It never expires.
ExecuteRefundCallback(p) ==
    /\ Running(p, {"execute_refund"})
    /\ LET call == promises[p] IN
        /\ BranchOf[call.variant] <= Branch
        /\ FinalizeRefund(call.caller, call.utxo, call.timelock_sec, call.variant)
    /\ Return(p)

\* A refund transaction has one input, hence one signature.
Signable(tx) ==
    btc_pending_infos[tx] # None /\ btc_pending_infos[tx].stage = "PendingSign"

SignBtcTransaction(p, tx) ==
    /\ Signable(tx)
    /\ StartCall(p, [op |-> "sign", tx |-> tx])
    /\ UNCHANGED <<depositVars, requestVars, pendingVars, worldVars>>

MpcSign(p) ==
    /\ Running(p, {"sign"})
    /\ mpc_signed' = mpc_signed \cup {promises[p].tx}
    /\ Continue(p, [op |-> "signed", tx |-> promises[p].tx])
    /\ UNCHANGED <<depositVars, requestVars, pendingVars, minted, withdrawn, confirmed, now>>

SignBtcTransactionCallback(p) ==
    /\ Running(p, {"signed"})
    /\ LET tx == promises[p].tx
           account_id == btc_pending_infos[tx].account_id
       IN
        /\ Signable(tx)
        /\ tx \in btc_pending_sign_ids[account_id]
        /\ btc_pending_infos' = [btc_pending_infos EXCEPT ![tx].stage = "PendingVerify"]
        /\ btc_pending_sign_ids' = [btc_pending_sign_ids EXCEPT ![account_id] = @ \ {tx}]
        /\ btc_pending_verify_list' =
            [btc_pending_verify_list EXCEPT ![account_id] = @ \cup {tx}]
    /\ Return(p)
    /\ UNCHANGED <<depositVars, requestVars, worldVars>>

\* Anyone broadcasts a signed transaction; the chain accepts one spender, and
\* Zcash none that was written for another branch than the one in force.
Confirm(tx) ==
    /\ tx \in mpc_signed
    /\ Zcash => BranchOf[tx[2]] = Branch
    /\ \A other \in confirmed : UtxoOf(other) # UtxoOf(tx)
    /\ confirmed' = confirmed \cup {tx}
    /\ UNCHANGED <<depositVars, requestVars, pendingVars, promises,
                   minted, withdrawn, mpc_signed, now>>

VerifyRefund(p, tx) ==
    /\ btc_pending_infos[tx] # None
    /\ btc_pending_infos[tx].stage = "PendingVerify"
    /\ StartCall(p, [op |-> "verify_refund", tx |-> tx])
    /\ UNCHANGED <<depositVars, requestVars, pendingVars, worldVars>>

\* Mutants: the light client's negative answer is not looked at; the stage is
\* advanced as for a withdrawal, whose nBTC has still to be burned.
InclusionIgnored(tx) == TRUE

SettleAsWithdrawal(tx) ==
    /\ refund_requests' = [refund_requests EXCEPT ![UtxoOf(tx)] = None]
    /\ btc_pending_infos' = [btc_pending_infos EXCEPT ![tx].stage = "PendingBurn"]
    /\ UNCHANGED btc_pending_verify_list

\* verify_transaction_inclusion saw the transaction, deep enough.
InclusionVerified(tx) == tx \in confirmed

\* The request and the pending transaction are done with.
SettleRefund(tx) ==
    /\ refund_requests' = [refund_requests EXCEPT ![UtxoOf(tx)] = None]
    /\ btc_pending_infos' = [btc_pending_infos EXCEPT ![tx] = None]
    /\ btc_pending_verify_list' = [btc_pending_verify_list EXCEPT
            ![btc_pending_infos[tx].account_id] = @ \ {tx}]

VerifyRefundCallback(p) ==
    /\ Running(p, {"verify_refund"})
    /\ LET tx == promises[p].tx IN
        /\ InclusionVerified(tx)
        /\ btc_pending_infos[tx] # None
        /\ btc_pending_infos[tx].stage = "PendingVerify"
        /\ SettleRefund(tx)
    /\ Return(p)
    /\ UNCHANGED <<depositVars, btc_pending_sign_ids, worldVars>>

\* Mutant: a candidate that was signed stays in the list of its owner.
ForgetSignId(tx) ==
    /\ btc_pending_sign_ids' = [btc_pending_sign_ids EXCEPT
            ![btc_pending_infos[tx].account_id] = @ \ {tx}]
    /\ UNCHANGED btc_pending_verify_list

\* The request is gone: its output was spent by another candidate.
Removable(tx) == btc_pending_infos[tx] # None /\ refund_requests[UtxoOf(tx)] = None

ForgetTx(tx) ==
    LET account_id == btc_pending_infos[tx].account_id IN
    /\ btc_pending_sign_ids' = [btc_pending_sign_ids EXCEPT ![account_id] = @ \ {tx}]
    /\ btc_pending_verify_list' =
        [btc_pending_verify_list EXCEPT ![account_id] = @ \ {tx}]

RemoveRefundPendingTxId(tx) ==
    /\ Removable(tx)
    /\ btc_pending_infos' = [btc_pending_infos EXCEPT ![tx] = None]
    /\ ForgetTx(tx)
    /\ UNCHANGED <<depositVars, requestVars, promises, worldVars>>

-----------------------------------------------------------------------------
\* A callback that panics, or whose call returned a negative answer (the light
\* client does not see the transaction deep enough, the MPC network fails).
CallbackPanics(p) ==
    /\ Running(p, {"verify_deposit", "request_refund", "execute_refund",
                   "sign", "signed", "verify_refund"})
    /\ Running(p, {"signed"}) => ~Signable(promises[p].tx)
    /\ Return(p)
    /\ UNCHANGED <<depositVars, requestVars, pendingVars, worldVars>>

Tick ==
    /\ now < MaxTime
    /\ now' = now + 1
    /\ UNCHANGED <<depositVars, requestVars, pendingVars, promises,
                   minted, withdrawn, mpc_signed, confirmed>>

Entry(p) ==
    \/ \E u \in Utxo : VerifyDeposit(p, u) \/ RequestRefund(p, u)
    \/ \E caller \in Account, u \in Utxo, variant \in Variant :
        ExecuteRefundAsync(p, caller, u, variant)
    \/ \E tx \in RefundTx : SignBtcTransaction(p, tx) \/ VerifyRefund(p, tx)

Callback(p) ==
    \/ VerifyDepositCallback(p)
    \/ Mint(p)
    \/ MintCallback(p)
    \/ MintCallbackDies(p)
    \/ RequestRefundCallback(p)
    \/ ExecuteRefundCallback(p)
    \/ MpcSign(p)
    \/ SignBtcTransactionCallback(p)
    \/ VerifyRefundCallback(p)
    \/ CallbackPanics(p)

Next ==
    \/ \E p \in PromiseId : Entry(p) \/ Callback(p)
    \/ \E u \in Utxo : CompleteFailedDepositMint(u) \/ GenerateVutxos(u)
    \/ \E u \in Utxo, is_privileged \in BOOLEAN : RejectRefund(u, is_privileged)
    \/ \E caller \in Account, u \in Utxo, variant \in Variant :
        ExecuteRefund(caller, u, variant)
    \/ \E tx \in RefundTx : Confirm(tx) \/ RemoveRefundPendingTxId(tx)
    \/ Tick

Spec == Init /\ [][Next]_vars

\* Every cross-contract call of NEAR is answered and its callback is run.
FairSpec == Spec /\ \A p \in PromiseId : WF_vars(Callback(p))

\* What the depositor, the relayers and the services they call do for an
\* executed refund.  Anyone may execute it again, which matters once an upgrade
\* has made its candidates unminable, sign it and broadcast it; a candidate that
\* can be mined and keeps being broadcast is mined.  Only a trusted relayer may
\* prove its inclusion: at least one keeps submitting proofs.  Calls may fail
\* or be overtaken any number of times, but the MPC network and the light client
\* (at the current height, with the transaction in view) answer in the end.
DrivenSpec ==
    /\ FairSpec
    /\ \A u \in Utxo :
        /\ SF_vars(\E p \in PromiseId, caller \in Account, variant \in Variant :
                BranchOf[variant] = Branch /\ ExecuteRefundAsync(p, caller, u, variant))
        /\ SF_vars(\E p \in PromiseId :
                /\ ExecuteRefundCallback(p)
                /\ promises[p].utxo = u
                /\ BranchOf[promises[p].variant] = Branch)
    /\ \A tx \in RefundTx :
        /\ SF_vars(\E p \in PromiseId : SignBtcTransaction(p, tx))
        /\ SF_vars(\E p \in PromiseId : MpcSign(p) /\ promises[p].tx = tx)
        /\ WF_vars(Confirm(tx))
        /\ SF_vars(\E p \in PromiseId : VerifyRefund(p, tx))
        /\ SF_vars(\E p \in PromiseId : VerifyRefundCallback(p) /\ promises[p].tx = tx)

-----------------------------------------------------------------------------
(* Properties.                                                             *)

\* The types of the contract's and the environment's state.
TypeOK ==
    /\ verified_deposit_utxo \subseteq Utxo
    /\ utxos_in_progress \subseteq Utxo
    /\ utxos \subseteq Utxo
    /\ refund_requests \in [Utxo -> RefundRequest \cup {None}]
    /\ btc_pending_infos \in [RefundTx -> BTCPendingInfo \cup {None}]
    /\ btc_pending_sign_ids \in [Account -> SUBSET RefundTx]
    /\ btc_pending_verify_list \in [Account -> SUBSET RefundTx]
    /\ promises \in [PromiseId -> Call \cup {None}]
    /\ minted \in [Utxo -> Nat]
    /\ withdrawn \subseteq Utxo
    /\ mpc_signed \subseteq RefundTx
    /\ confirmed \subseteq RefundTx
    /\ now \in Nat

\* The bridge never pays a deposit twice: once the MPC network signed a refund
\* of an output, that output neither was minted nor is, or was, spendable by a
\* withdrawal (verified_deposit_utxo arbitrates between the two flows).
NeverMintedAndRefunded ==
    \A tx \in mpc_signed :
        /\ minted[UtxoOf(tx)] = 0
        /\ UtxoOf(tx) \notin utxos \cup withdrawn

\* However often a deposit is submitted and retried, it is minted at most once.
MintedAtMostOnce == \A u \in Utxo : minted[u] <= 1

\* Every credited deposit stays reserved for the bridge: its output is being
\* registered, registered, or handed to a withdrawal.
MintIsBacked ==
    \A u \in Utxo : minted[u] > 0 => u \in utxos_in_progress \cup utxos \cup withdrawn

\* An output is marked verified for exactly one reason: its mint is in flight,
\* it belongs to the bridge, or it is being or has been refunded.
Refunded(u) == \E tx \in confirmed : UtxoOf(tx) = u
Refunding(u) == Executed(u) \/ Refunded(u)

BridgeOwned(u) == u \in utxos \cup withdrawn

VerifiedForOneReason ==
    \A u \in Utxo :
        /\ u \in verified_deposit_utxo
              <=> u \in utxos_in_progress \/ BridgeOwned(u) \/ Refunding(u)
        /\ ~(u \in utxos_in_progress /\ BridgeOwned(u))
        /\ ~(u \in utxos_in_progress /\ Refunding(u))
        /\ ~(BridgeOwned(u) /\ Refunding(u))

\* A pending refund sits in exactly the list of its owner that its stage asks
\* for, through signing, finalising and the removal of stale candidates.
ListsMatchStages ==
    \A a \in Account, tx \in RefundTx :
        LET listed(stage) ==
                btc_pending_infos[tx] = [account_id |-> a, stage |-> stage]
        IN /\ tx \in btc_pending_sign_ids[a] <=> listed("PendingSign")
           /\ tx \in btc_pending_verify_list[a] <=> listed("PendingVerify")

\* A candidate can only be left behind by a refund that reached the chain.
StaleOnlyAfterRefund ==
    \A tx \in RefundTx :
        btc_pending_infos[tx] # None /\ refund_requests[UtxoOf(tx)] = None
            => Refunded(UtxoOf(tx))

-----------------------------------------------------------------------------
(* The strengthening that makes the safety properties inductive.           *)

MintCall(p, u) == Running(p, {"mint", "mint_callback"}) /\ promises[p].utxo = u

\* A mint in flight holds its output, alone.
MintCallsHoldTheirUtxo ==
    \A p \in PromiseId, u \in Utxo :
        MintCall(p, u) =>
            /\ u \in utxos_in_progress
            /\ \A q \in PromiseId : MintCall(q, u) => q = p

\* Nothing is credited before the mint runs, nor by one that is given up.
UncreditedUntilMinted ==
    \A p \in PromiseId :
        \/ Running(p, {"mint"})
        \/ Running(p, {"mint_callback"}) /\ ~IsSuccess(promises[p].utxo, promises[p].result)
        => minted[promises[p].utxo] = 0

\* Whatever deals with a refund transaction was started by an executed refund.
RefundTxHasRefund ==
    /\ \A tx \in RefundTx :
        btc_pending_infos[tx] # None \/ tx \in mpc_signed => Refunding(UtxoOf(tx))
    /\ \A p \in PromiseId :
        Running(p, {"sign", "signed", "verify_refund"}) => Refunding(UtxoOf(promises[p].tx))

IInv ==
    /\ TypeOK
    /\ MintedAtMostOnce
    /\ MintIsBacked
    /\ VerifiedForOneReason
    /\ MintCallsHoldTheirUtxo
    /\ UncreditedUntilMinted
    /\ RefundTxHasRefund

-----------------------------------------------------------------------------
(* Action and temporal properties.                                         *)

\* Once executed, a request is dropped only when a refund of its output is on
\* chain: not by a rejection, a retry or a late callback.
ExecutedIsIrrevocable ==
    [][\A u \in Utxo : Executed(u) /\ ~Executed(u)' => Refunded(u)]_vars

\* A refund to an address the depositor did not fix waits for the long timelock
\* of its own request, also when the request was rejected and filed again
\* while execute_refund was waiting for the chain's height.
UnsafeRefundWaits ==
    [][\A u \in Utxo \ PresetAddress :
        ~Executed(u) /\ Executed(u)'
            => now >= refund_requests'[u].created_at_sec + unsafe_refund_timelock_sec]_vars

\* Every mint is resolved: the output is released or registered.
MintResolves == \A u \in Utxo : u \in utxos_in_progress ~> u \notin utxos_in_progress

\* A refund that was executed reaches the chain and is finalised, whichever of
\* its candidate transactions wins, even if an upgrade leaves those made before
\* it unminable: a new one can still be made, signed and proved.
RefundCompletes ==
    \A u \in Utxo : Executed(u) ~> Refunded(u) /\ refund_requests[u] = None

\* What a deposit output has been claimed for, as DepositClaim sees it.
ClaimOf(u) ==
    IF u \notin verified_deposit_utxo THEN "open"
    ELSE IF u \in utxos_in_progress THEN "minting"
    ELSE IF Executed(u) THEN "refunding"
    ELSE IF Refunded(u) THEN "refunded"
    ELSE "deposited"

Claim == INSTANCE DepositClaim WITH claim <- [u \in Utxo |-> ClaimOf(u)]

\* The bridge refines the promise that a deposit is claimed at most once.
ClaimSpec == Claim!Spec

\* complete_failed_deposit_mint does not register an output that a refund spends.
CompletedIsNotRefunded ==
    [][\A u \in Utxo : u \notin utxos /\ u \in utxos' => ~Refunded(u)]_vars
=============================================================================
