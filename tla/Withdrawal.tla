----------------------------- MODULE Withdrawal -----------------------------
(***************************************************************************)
(* How nBTC leaves the bridge.  A withdrawal locks some UTXOs of the bridge *)
(* in a Bitcoin transaction, which is signed, confirmed, proved to the     *)
(* contract and only then paid for by burning nBTC.  Meanwhile its user may *)
(* replace it by one with a higher gas fee, and an operator may cancel it  *)
(* by one that returns everything to the bridge.  Operators reshape the    *)
(* bridge's UTXOs by the same machinery; the gas comes out of the protocol *)
(* fee, which is reserved in advance.  Of a family, i.e. an original and   *)
(* its replacements, the chain confirms one, and what the others left in   *)
(* the contract is cleared later.                                          *)
(***************************************************************************)
EXTENDS Integers, FiniteSets, FiniteSetsExt, Bags

CONSTANTS
    Account,           \* NEAR accounts
    Operators,         \* those with the role of an operator
    DAO,               \* and those of the DAO
    Coin,              \* UTXOs of the bridge at the beginning
    Value,             \* and their values
    Tx,                \* ids of the transactions to come
    Amount,            \* withdrawn at a time
    Gas,               \* gas fees in the configured range
    CancelGas,         \* gas fees of a cancelling transaction, which has no range
    fee_min,           \* of withdraw_bridge_fee
    fee_rate,
    protocol_fee_rate,
    MAX_RATIO,
    GasMustRise,       \* Bitcoin asks a replacement for more gas, Zcash does not
    rbf_num_limit,
    pending_tx_limit,  \* transactions an account may have waiting for signatures
    MaxInputs,         \* max_withdrawal_input_number
    FeeDeposit,        \* donations to the protocol fee
    MaxCollected,      \* bound on the protocol fee ever collected
    None

ASSUME ConstantsAssumption ==
    /\ Operators \subseteq Account /\ DAO \subseteq Account
    /\ Coin \cap Tx = {}
    /\ Value \in [Coin -> Nat]
    /\ Amount \subseteq Nat /\ Gas \subseteq Nat /\ CancelGas \subseteq Nat
    /\ fee_min \in Nat /\ fee_rate \in Nat /\ protocol_fee_rate \in Nat
    /\ MAX_RATIO \in Nat \ {0}
    /\ fee_rate < MAX_RATIO /\ protocol_fee_rate <= MAX_RATIO
    /\ GasMustRise \in BOOLEAN
    /\ rbf_num_limit \in Nat /\ pending_tx_limit \in Nat /\ MaxInputs \in Nat
    /\ FeeDeposit \subseteq Nat \ {0} /\ MaxCollected \in Nat
    /\ IsFiniteSet(Account) /\ IsFiniteSet(Coin) /\ IsFiniteSet(Tx)

VARIABLES
    utxos,           \* UTXO -> its value: what a new transaction may spend
    info,            \* btc_pending_infos
    sign_ids,        \* per account, btc_pending_sign_ids
    verify_list,     \* per account, btc_pending_verify_list
    rbf_txs,         \* per original, its replacements
    fee,             \* the ledger of the protocol fee
    lost_found,      \* per account, nBTC whose transfer failed
    body,            \* transaction -> what it spends and returns to the bridge
    mpc_signed,      \* <<transaction, input>> that the MPC signed
    confirmed,       \* transactions on the chain
    wallets,         \* nBTC held by everyone but the bridge
    bridge_balance,  \* and by the bridge
    signing,         \* sign calls in flight
    verifying,       \* transactions with a proof in flight
    burning,         \* per transaction, how far its burn got
    transfers        \* nBTC transfers in flight, a bag

contract == <<utxos, info, sign_ids, verify_list, rbf_txs, fee, lost_found>>
chain    == <<mpc_signed, confirmed>>
token    == <<wallets, bridge_balance>>
calls    == <<signing, verifying, burning, transfers>>
vars     == <<contract, body, chain, token, calls>>

-----------------------------------------------------------------------------
(* Pending infos.  A change output is identified with its transaction.     *)

Utxo == Coin \cup Tx

Stage == {"PendingSign", "PendingVerify", "PendingBurn"}

Info == [kind : {"withdraw", "manage"},
         role : {"original", "rbf", "cancel"},
         original_tx_id : Tx,
         account_id : Account,
         transfer_amount : Nat,
         withdraw_fee : Nat,
         burn_amount : Nat,
         signatures : SUBSET Utxo,
         stage : Stage,
         max_gas_fee : Nat,
         cancel_rbf_reserved : Nat \cup {None}]

ASSUME NoneAssumption == None \notin Info /\ None \notin Nat

Body == [inputs : SUBSET Utxo, value : Nat, change : Nat]

monus(a, b) == IF a > b THEN a - b ELSE 0
max(a, b)   == IF a > b THEN a ELSE b

Exists(t)     == info[t] # None
IsOriginal(t) == Exists(t) /\ info[t].role = "original"
Orphan(t)     == Exists(t) /\ ~Exists(info[t].original_tx_id)
\* The id of a transaction is its hash: a new transaction has a new id.
Fresh(t)      == t \notin DOMAIN body

Write(t, b) == body' = [x \in DOMAIN body \cup {t} |-> IF x = t THEN b ELSE body[x]]

ValueOf(inputs) == SumFunctionOnSet(utxos, inputs)

\* The fee of a withdrawal and its split between the protocol and the relayer.
get_fee(amount)           == max((amount * fee_rate) \div MAX_RATIO, fee_min)
ProtocolFee(withdraw_fee) == (withdraw_fee * protocol_fee_rate) \div MAX_RATIO
RelayerFee(withdraw_fee)  == withdraw_fee - ProtocolFee(withdraw_fee)

-----------------------------------------------------------------------------
Init ==
    /\ utxos = Value
    /\ info = [t \in Tx |-> None]
    /\ sign_ids = [a \in Account |-> {}]
    /\ verify_list = [a \in Account |-> {}]
    /\ rbf_txs = [t \in Tx |-> {}]
    /\ fee = [acc_collected |-> 0, cur_available |-> 0, cur_reserved |-> 0,
              acc_for_gas |-> 0, acc_claimed |-> 0]
    /\ lost_found = [a \in Account |-> 0]
    /\ body = [t \in {} |-> None]
    /\ mpc_signed = {}
    /\ confirmed = {}
    /\ wallets = SumFunctionOnSet(Value, Coin)
    /\ bridge_balance = 0
    /\ signing = {}
    /\ verifying = {}
    /\ burning = [t \in Tx |-> "none"]
    /\ transfers = EmptyBag

\* Tokens move to the bridge before ft_on_transfer runs and back if it panics.
Receive(amount) ==
    /\ amount <= wallets
    /\ wallets' = wallets - amount
    /\ bridge_balance' = bridge_balance + amount

DepositProtocolFee(amount) ==
    /\ fee.acc_collected + amount <= MaxCollected
    /\ Receive(amount)
    /\ fee' = [fee EXCEPT !.acc_collected = @ + amount, !.cur_available = @ + amount]
    /\ UNCHANGED <<utxos, info, sign_ids, verify_list, rbf_txs, lost_found, body, chain, calls>>

HasSignCapacity(a) == Cardinality(sign_ids[a]) < pending_tx_limit

\* An original transaction locks its inputs.
CreateOriginal(t, kind, a, amount, withdraw_fee, inputs, gas_fee, burn_amount) ==
    /\ Fresh(t)
    /\ inputs # {} /\ Cardinality(inputs) <= MaxInputs
    /\ burn_amount <= ValueOf(inputs)
    /\ HasSignCapacity(a)
    /\ info' = [info EXCEPT ![t] =
        [kind |-> kind, role |-> "original", original_tx_id |-> t, account_id |-> a,
         transfer_amount |-> amount, withdraw_fee |-> withdraw_fee,
         burn_amount |-> burn_amount, signatures |-> {}, stage |-> "PendingSign",
         max_gas_fee |-> gas_fee, cancel_rbf_reserved |-> None]]
    /\ Write(t, [inputs |-> inputs, value |-> ValueOf(inputs),
                 change |-> ValueOf(inputs) - burn_amount])
    /\ sign_ids' = [sign_ids EXCEPT ![a] = @ \cup {t}]
    /\ utxos' = [u \in DOMAIN utxos \ inputs |-> utxos[u]]
    /\ UNCHANGED <<verify_list, rbf_txs, lost_found, chain, calls>>

\* The user receives what the fee and the gas leave of the amount, so that the
\* transaction costs the bridge all but the fee.
Withdraw(t, a, amount, inputs, gas_fee) ==
    /\ gas_fee <= amount - get_fee(amount)
    /\ Receive(amount)
    /\ CreateOriginal(t, "withdraw", a, amount, get_fee(amount), inputs, gas_fee,
                      amount - get_fee(amount))
    /\ UNCHANGED fee

\* Mutant: what is reserved stays available.
ReserveOnPaper(amount) ==
    /\ amount <= fee.cur_available
    /\ fee' = [fee EXCEPT !.cur_reserved = @ + amount]

\* Gas is set aside before it is spent.
Reserve(amount) ==
    /\ amount <= fee.cur_available
    /\ fee' = [fee EXCEPT !.cur_available = @ - amount, !.cur_reserved = @ + amount]

ActiveUtxoManagement(t, a, inputs, gas_fee) ==
    /\ a \in Operators \cup DAO
    /\ Reserve(gas_fee)
    /\ CreateOriginal(t, "manage", a, 0, 0, inputs, gas_fee, gas_fee)
    /\ UNCHANGED token

-----------------------------------------------------------------------------
(* Replacements.                                                           *)

\* Mutant: an original that is not signed yet is replaced.
ReplaceableUnsigned(o, kind) == IsOriginal(o) /\ info[o].kind = kind

Replaceable(o, kind) ==
    /\ IsOriginal(o)
    /\ info[o].kind = kind
    /\ info[o].stage = "PendingVerify"

NotCanceled(o) == info[o].cancel_rbf_reserved = None


\* A replacement has the inputs of the original.
CreateReplacement(t, o, role, cost, burn_amount, max_gas_fee, cancel_rbf_reserved) ==
    LET a == info[o].account_id IN
    /\ Fresh(t)
    /\ cost <= body[o].value
    /\ HasSignCapacity(a)
    /\ info' = [info EXCEPT
        ![t] = [info[o] EXCEPT !.role = role, !.original_tx_id = o, !.burn_amount = burn_amount,
                               !.signatures = {}, !.stage = "PendingSign",
                               !.max_gas_fee = 0, !.cancel_rbf_reserved = None],
        ![o].max_gas_fee = max_gas_fee,
        ![o].cancel_rbf_reserved = cancel_rbf_reserved]
    /\ Write(t, [body[o] EXCEPT !.change = body[o].value - cost])
    /\ rbf_txs' = [rbf_txs EXCEPT ![o] = @ \cup {t}]
    /\ role = "rbf" => Cardinality(rbf_txs'[o]) <= rbf_num_limit
    /\ sign_ids' = [sign_ids EXCEPT ![a] = @ \cup {t}]
    /\ UNCHANGED <<utxos, verify_list, lost_found, chain, token, calls>>

\* The user's balance covers the gas; what it receives shrinks.
WithdrawRbf(t, o, gas_fee) ==
    /\ Replaceable(o, "withdraw")
    /\ NotCanceled(o)
    /\ gas_fee <= info[o].transfer_amount - info[o].withdraw_fee
    /\ GasMustRise => gas_fee > info[o].max_gas_fee
    /\ LET paid == info[o].transfer_amount - info[o].withdraw_fee IN
       CreateReplacement(t, o, "rbf", paid, paid, gas_fee, None)
    /\ UNCHANGED fee

\* The gas of a cancellation beyond the user's balance, which the protocol pays.
ExcessGas(t, gas_fee) == monus(gas_fee, info[t].transfer_amount - info[t].withdraw_fee)

PrevReserved(o) ==
    IF info[o].cancel_rbf_reserved = None THEN 0 ELSE info[o].cancel_rbf_reserved

\* Mutant: a repeated cancellation reserves its excess from scratch.
ReserveAnew(o, gas_fee) == ExcessGas(o, gas_fee)

AdditionalReserve(o, gas_fee) == monus(ExcessGas(o, gas_fee), PrevReserved(o))

\* Mutant: the last cancellation decides what is reserved.
ReserveOfLast(o, gas_fee) == ExcessGas(o, gas_fee)

\* Any of the cancellations may be confirmed, so the largest excess is kept.
CancelReserve(o, gas_fee) == max(PrevReserved(o), ExcessGas(o, gas_fee))

\* A cancellation may be repeated with another gas fee.  It is an operator's, once
\* max_btc_tx_pending_sec passed; time is not modelled, as nothing else depends on it.
CancelWithdraw(t, o, caller, gas_fee) ==
    /\ caller \in Operators \cup DAO
    /\ Replaceable(o, "withdraw")
    /\ GasMustRise => gas_fee > info[o].max_gas_fee
    /\ ExcessGas(o, gas_fee) > 0 => caller \in DAO
    /\ Reserve(AdditionalReserve(o, gas_fee))
    /\ CreateReplacement(t, o, "cancel", gas_fee, gas_fee, max(info[o].max_gas_fee, gas_fee),
                         CancelReserve(o, gas_fee))

ActiveUtxoManagementRbf(t, o, gas_fee) ==
    /\ info[o] # None
    /\ info[o].account_id \in Operators \cup DAO
    /\ Replaceable(o, "manage")
    /\ NotCanceled(o)
    /\ gas_fee > info[o].max_gas_fee
    /\ Reserve(gas_fee - info[o].max_gas_fee)
    /\ CreateReplacement(t, o, "rbf", gas_fee, gas_fee, gas_fee, None)

CancelActiveUtxoManagement(t, o, gas_fee) ==
    /\ Replaceable(o, "manage")
    /\ gas_fee > info[o].max_gas_fee
    /\ Reserve(gas_fee - info[o].max_gas_fee)
    /\ CreateReplacement(t, o, "cancel", gas_fee, gas_fee, gas_fee, 0)

-----------------------------------------------------------------------------
(* Signatures and the chain.                                               *)

SignBtcTransaction(t, u) ==
    /\ Exists(t)
    /\ info[t].stage = "PendingSign"
    /\ ~Orphan(t)
    /\ u \in body[t].inputs \ info[t].signatures
    /\ signing' = signing \cup {<<t, u>>}
    /\ UNCHANGED <<contract, body, chain, token, verifying, burning, transfers>>

Forget(t) ==
    /\ info' = [info EXCEPT ![t] = None]
    /\ sign_ids' = [sign_ids EXCEPT ![info[t].account_id] = @ \ {t}]
    /\ UNCHANGED <<utxos, verify_list, rbf_txs, fee, lost_found, body, chain, token, calls>>

\* Asked to sign a replacement whose original is settled, the contract drops it.
SignOrphan(t) ==
    /\ Orphan(t)
    /\ info[t].stage = "PendingSign"
    /\ t \in sign_ids[info[t].account_id]
    /\ Forget(t)

MpcSign(t, u) ==
    /\ <<t, u>> \in signing
    /\ mpc_signed' = mpc_signed \cup {<<t, u>>}
    /\ UNCHANGED <<contract, body, confirmed, token, calls>>

SignBtcTransactionCallback(t, u) ==
    LET a == info[t].account_id
        all_signed == body[t].inputs \subseteq info[t].signatures \cup {u}
    IN
    /\ <<t, u>> \in signing \cap mpc_signed
    /\ Exists(t)
    /\ u \notin info[t].signatures
    /\ all_signed => t \in sign_ids[a]
    /\ info' = [info EXCEPT ![t].signatures = @ \cup {u},
                            ![t].stage = IF all_signed THEN "PendingVerify" ELSE @]
    /\ sign_ids' = [sign_ids EXCEPT ![a] = IF all_signed THEN @ \ {t} ELSE @]
    /\ verify_list' = [verify_list EXCEPT ![a] =
                        IF all_signed /\ IsOriginal(t) THEN @ \cup {t} ELSE @]
    /\ signing' = signing \ {<<t, u>>}
    /\ UNCHANGED <<utxos, rbf_txs, fee, lost_found, body, chain, token,
                   verifying, burning, transfers>>

\* The MPC refuses, or the callback panics.
SignFails(t, u) ==
    /\ <<t, u>> \in signing
    /\ signing' = signing \ {<<t, u>>}
    /\ UNCHANGED <<contract, body, chain, token, verifying, burning, transfers>>

\* The signatures are public: a signed transaction gets onto the chain whatever the
\* contract knows of it, unless one of its inputs is spent.
Confirm(t) ==
    /\ ~Fresh(t)
    /\ {t} \X body[t].inputs \subseteq mpc_signed
    /\ body[t].inputs \cap Tx \subseteq confirmed
    /\ \A other \in confirmed : body[t].inputs \cap body[other].inputs = {}
    /\ confirmed' = confirmed \cup {t}
    /\ UNCHANGED <<contract, body, mpc_signed, token, calls>>

-----------------------------------------------------------------------------
(* Proofs and burns.                                                       *)

VerifyWithdraw(t) ==
    /\ Exists(t)
    /\ info[t].stage = "PendingVerify"
    /\ ~Orphan(t)
    /\ verifying' = verifying \cup {t}
    /\ UNCHANGED <<contract, body, chain, token, signing, burning, transfers>>

\* Mutant: the answer of the light client is not read.
IncludedUnread(t) == TRUE

Included(t) == t \in confirmed

\* Mutant: a second proof passes while the burn is under way.
AwaitsProofOrBurn(t) == Exists(t) /\ info[t].stage \in {"PendingVerify", "PendingBurn"}

AwaitsProof(t) == Exists(t) /\ info[t].stage = "PendingVerify"

\* More proofs of the same transaction may be in flight.
VerifyWithdrawCallback(t) ==
    /\ t \in verifying
    /\ Included(t)
    /\ AwaitsProof(t)
    /\ info' = [info EXCEPT ![t].stage = "PendingBurn"]
    /\ burning' = [burning EXCEPT ![t] = "called"]
    /\ verifying' \in {verifying, verifying \ {t}}
    /\ UNCHANGED <<utxos, sign_ids, verify_list, rbf_txs, fee, lost_found, body, chain, token,
                   signing, transfers>>

\* The light client rejects the proof, or the callback panics.
VerifyFails(t) ==
    /\ t \in verifying
    /\ verifying' = verifying \ {t}
    /\ UNCHANGED <<contract, body, chain, token, signing, burning, transfers>>

\* The token burns the bridge's nBTC and pays the relayer.
NbtcBurn(t) ==
    LET relayer_fee == RelayerFee(info[t].withdraw_fee) IN
    /\ burning[t] = "called"
    /\ info[t].burn_amount + relayer_fee <= bridge_balance
    /\ bridge_balance' = bridge_balance - info[t].burn_amount - relayer_fee
    /\ wallets' = wallets + relayer_fee
    /\ burning' = [burning EXCEPT ![t] = "burned"]
    /\ UNCHANGED <<contract, body, chain, signing, verifying, transfers>>

\* Mutant: a failed burn leaves the record in the stage of burning.
BurnFailsForGood(t) ==
    /\ burning[t] = "called"
    /\ Exists(t)
    /\ burning' = [burning EXCEPT ![t] = "none"]
    /\ UNCHANGED <<contract, body, chain, token, signing, verifying, transfers>>

\* The burn and thereby its callback fail: the proof has to be brought again.
BurnFails(t) ==
    /\ burning[t] = "called"
    /\ Exists(t)
    /\ info' = [info EXCEPT ![t].stage = "PendingVerify"]
    /\ burning' = [burning EXCEPT ![t] = "none"]
    /\ UNCHANGED <<utxos, sign_ids, verify_list, rbf_txs, fee, lost_found, body, chain, token,
                   signing, verifying, transfers>>

Reserved(o) == IF info[o].kind = "manage" THEN info[o].max_gas_fee ELSE PrevReserved(o)

UsedReserve(t) ==
    CASE info[t].kind = "manage" -> info[t].burn_amount
      [] info[t].kind = "withdraw" /\ info[t].role = "cancel"
            /\ PrevReserved(info[t].original_tx_id) > 0 -> ExcessGas(t, info[t].burn_amount)
      [] OTHER -> 0

\* Mutants: the refund is not saturated; the fee is refunded as well.
RefundBelowZero(t) ==
    IF info[t].kind = "withdraw" /\ info[t].role = "cancel"
    THEN info[t].transfer_amount - (info[t].withdraw_fee + info[t].burn_amount)
    ELSE 0

RefundOfAll(t) ==
    IF info[t].kind = "withdraw" /\ info[t].role = "cancel"
    THEN monus(info[t].transfer_amount, info[t].burn_amount)
    ELSE 0

\* Of a cancelled withdrawal, what the fee and the gas leave goes back to the user.
RefundOf(t) ==
    IF info[t].kind = "withdraw" /\ info[t].role = "cancel"
    THEN monus(info[t].transfer_amount, info[t].withdraw_fee + info[t].burn_amount)
    ELSE 0

\* The record is complete and no subtraction of the callback is below zero.
Settleable(t) ==
    LET o == info[t].original_tx_id IN
    /\ Exists(t) /\ Exists(o)
    /\ Reserved(o) <= fee.cur_reserved
    /\ UsedReserve(t) <= Reserved(o)

\* Mutant: only a winning replacement drops the list.
DropRbfTxsOfLoser(t) ==
    rbf_txs' = IF info[t].role = "original" THEN rbf_txs
               ELSE [rbf_txs EXCEPT ![info[t].original_tx_id] = {}]

DropRbfTxs(t) == rbf_txs' = [rbf_txs EXCEPT ![info[t].original_tx_id] = {}]

VerifyWithdrawBurnCallback(t) ==
    LET o            == info[t].original_tx_id
        a            == info[t].account_id
        protocol_fee == ProtocolFee(info[t].withdraw_fee)
        refund       == [to |-> a, amount |-> RefundOf(t), purpose |-> "refund"]
    IN
    /\ burning[t] = "burned"
    /\ Settleable(t)
    /\ utxos' = IF body[t].change = 0 THEN utxos
                ELSE [u \in DOMAIN utxos \cup {t} |->
                        IF u = t THEN body[t].change ELSE utxos[u]]
    /\ info' = [info EXCEPT ![t] = None, ![o] = None]
    /\ DropRbfTxs(t)
    /\ verify_list' = [verify_list EXCEPT ![a] = @ \ {o}]
    /\ fee' = [fee EXCEPT
        !.cur_reserved  = @ - Reserved(o),
        !.acc_for_gas   = @ + UsedReserve(t),
        !.acc_collected = @ + protocol_fee,
        !.cur_available = @ + Reserved(o) - UsedReserve(t) + protocol_fee]
    /\ transfers' = IF RefundOf(t) = 0 THEN transfers ELSE transfers (+) SetToBag({refund})
    /\ burning' = [burning EXCEPT ![t] = "none"]
    /\ UNCHANGED <<sign_ids, lost_found, body, chain, token, signing, verifying>>

\* Anyone clears what a settled family left behind.
Clearable(t) ==
    /\ Exists(t)
    /\ info[t].role # "original"
    /\ rbf_txs[info[t].original_tx_id] = {}
    /\ info[t].stage = IF t \in sign_ids[info[t].account_id] THEN "PendingSign"
                                                            ELSE "PendingVerify"

ClearInvalidPendingVerifyRbf(t) == Clearable(t) /\ Forget(t)

-----------------------------------------------------------------------------
(* nBTC that the bridge pays out.                                          *)

Send(t) == transfers' = transfers (+) SetToBag({t})

TransferSucceeds(t) ==
    /\ t.amount <= bridge_balance
    /\ transfers' = transfers (-) SetToBag({t})
    /\ bridge_balance' = bridge_balance - t.amount
    /\ wallets' = wallets + t.amount
    /\ UNCHANGED <<contract, body, chain, signing, verifying, burning>>

\* The callback learns that the transfer failed and takes it back.
TransferFails(t) ==
    /\ transfers' = transfers (-) SetToBag({t})
    /\ IF t.purpose = "fee"
       THEN /\ fee' = [fee EXCEPT !.cur_available = @ + t.amount, !.acc_claimed = @ - t.amount]
            /\ UNCHANGED lost_found
       ELSE /\ lost_found' = [lost_found EXCEPT ![t.to] = @ + t.amount]
            /\ UNCHANGED fee
    /\ UNCHANGED <<utxos, info, sign_ids, verify_list, rbf_txs, body, chain, token,
                   signing, verifying, burning>>

ClaimLostFound(a) ==
    /\ lost_found[a] > 0
    /\ lost_found' = [lost_found EXCEPT ![a] = 0]
    /\ Send([to |-> a, amount |-> lost_found[a], purpose |-> "refund"])
    /\ UNCHANGED <<utxos, info, sign_ids, verify_list, rbf_txs, fee, body, chain, token,
                   signing, verifying, burning>>

WithdrawProtocolFee(a, amount) ==
    /\ a \in DAO
    /\ amount > 0 /\ amount <= fee.cur_available
    /\ fee' = [fee EXCEPT !.cur_available = @ - amount, !.acc_claimed = @ + amount]
    /\ Send([to |-> a, amount |-> amount, purpose |-> "fee"])
    /\ UNCHANGED <<utxos, info, sign_ids, verify_list, rbf_txs, lost_found, body, chain, token,
                   signing, verifying, burning>>

-----------------------------------------------------------------------------
Create(t) ==
    \/ \E a \in Account, inputs \in SUBSET DOMAIN utxos, gas_fee \in Gas :
        \/ \E amount \in Amount : Withdraw(t, a, amount, inputs, gas_fee)
        \/ ActiveUtxoManagement(t, a, inputs, gas_fee)
    \/ \E o \in Tx, gas_fee \in Gas :
        \/ WithdrawRbf(t, o, gas_fee)
        \/ ActiveUtxoManagementRbf(t, o, gas_fee)
    \/ \E o \in Tx, gas_fee \in CancelGas :
        \/ \E caller \in Account : CancelWithdraw(t, o, caller, gas_fee)
        \/ CancelActiveUtxoManagement(t, o, gas_fee)

SignStep(t) ==
    \/ SignOrphan(t)
    \/ \E u \in Utxo :
        \/ SignBtcTransaction(t, u)
        \/ MpcSign(t, u)
        \/ SignBtcTransactionCallback(t, u)
        \/ SignFails(t, u)

BurnStep(t) ==
    \/ VerifyWithdraw(t)
    \/ VerifyWithdrawCallback(t)
    \/ VerifyFails(t)
    \/ NbtcBurn(t)
    \/ BurnFails(t)
    \/ VerifyWithdrawBurnCallback(t)

TokenStep ==
    \/ \E t \in BagToSet(transfers) : TransferSucceeds(t) \/ TransferFails(t)
    \/ \E a \in Account :
        \/ ClaimLostFound(a)
        \/ \E amount \in 1..fee.cur_available : WithdrawProtocolFee(a, amount)
    \/ \E amount \in FeeDeposit : DepositProtocolFee(amount)

Next ==
    \/ \E t \in Tx :
        \/ Create(t)
        \/ SignStep(t)
        \/ Confirm(t)
        \/ BurnStep(t)
        \/ ClearInvalidPendingVerifyRbf(t)
    \/ TokenStep

Spec == Init /\ [][Next]_vars

\* Relayers go on signing and proving what the chain confirmed, no call fails for
\* ever, and NEAR runs every callback.
Fairness ==
    /\ SF_vars(\E t \in confirmed, u \in Utxo : SignBtcTransaction(t, u))
    /\ SF_vars(\E t \in confirmed, u \in Utxo : SignBtcTransactionCallback(t, u))
    /\ SF_vars(\E t \in confirmed : VerifyWithdraw(t))
    /\ SF_vars(\E t \in confirmed : VerifyWithdrawCallback(t))
    /\ SF_vars(\E t \in confirmed : NbtcBurn(t))
    /\ WF_vars(\E t \in confirmed : VerifyWithdrawBurnCallback(t))

FairSpec == Spec /\ Fairness

-----------------------------------------------------------------------------
(* Properties.                                                             *)

Originals   == {t \in Tx : IsOriginal(t)}
InBurn      == {t \in Tx : burning[t] = "burned"}
InFlight    == SumFunction([t \in BagToSet(transfers) |-> t.amount * transfers[t]])
TotalUtxos  == SumFunction(utxos)

\* The types of the contract's records, of the transactions and of the calls in flight.
TypeOK ==
    /\ DOMAIN utxos \subseteq Utxo /\ \A u \in DOMAIN utxos : utxos[u] \in Nat
    /\ info \in [Tx -> Info \cup {None}]
    /\ sign_ids \in [Account -> SUBSET Tx]
    /\ verify_list \in [Account -> SUBSET Tx]
    /\ rbf_txs \in [Tx -> SUBSET Tx]
    /\ fee \in [{"acc_collected", "cur_available", "cur_reserved", "acc_for_gas",
                 "acc_claimed"} -> Nat]
    /\ lost_found \in [Account -> Nat]
    /\ DOMAIN body \subseteq Tx /\ body \in [DOMAIN body -> Body]
    /\ mpc_signed \subseteq Tx \X Utxo /\ confirmed \subseteq Tx
    /\ wallets \in Nat /\ bridge_balance \in Nat
    /\ signing \subseteq Tx \X Utxo /\ verifying \subseteq Tx
    /\ burning \in [Tx -> {"none", "called", "burned"}]
    /\ \A t \in BagToSet(transfers) :
        t \in [to : Account, amount : Nat \ {0}, purpose : {"refund", "fee"}]

\* The lists by which relayers find their work are those of the stages, and rbf_txs
\* lists the replacements of every family that is not settled, and only those.
ListsMatchStages ==
    \A t \in Tx :
        /\ \A a \in Account :
            /\ t \in sign_ids[a] <=>
                Exists(t) /\ info[t].account_id = a /\ info[t].stage = "PendingSign"
            /\ t \in verify_list[a] <=>
                IsOriginal(t) /\ info[t].account_id = a /\ info[t].stage # "PendingSign"
        /\ \A r \in Tx :
            r \in rbf_txs[t] <=>
                Exists(t) /\ Exists(r) /\ info[r].role # "original" /\ info[r].original_tx_id = t

\* Everything the protocol fee ever collected is available, reserved, spent as gas or claimed.
LedgerBalances ==
    fee.acc_collected = fee.cur_available + fee.cur_reserved + fee.acc_for_gas + fee.acc_claimed

\* What is reserved is what the unsettled families may still cost, however often
\* they were replaced and cancelled: nothing is left reserved when all are settled.
ReservedIsExact ==
    fee.cur_reserved = SumFunction([o \in Originals |-> Reserved(o)])

\* The bridge holds the nBTC it owes: the amounts of unsettled withdrawals, the
\* protocol fee, what it is sending and what is lost and found.
Solvent ==
    bridge_balance
        + SumFunction([t \in InBurn |->
                            info[t].burn_amount + RelayerFee(info[t].withdraw_fee)])
    = SumFunction([o \in Originals |-> info[o].transfer_amount])
        + fee.cur_available + fee.cur_reserved + InFlight + SumFunction(lost_found)

\* All nBTC is backed, to the satoshi, by UTXOs the bridge holds or has locked: the
\* burn of a transaction is what the transaction took out of the bridge.
Backed ==
    wallets + bridge_balance + SumFunction([t \in InBurn |-> info[t].burn_amount])
    = TotalUtxos + SumFunction([o \in Originals |-> body[o].value])

\* A UTXO offered for spending is on the chain, and no transaction of the bridge
\* that could still be confirmed or was confirmed spends it.
UtxosExist ==
    \A u \in DOMAIN utxos :
        /\ u \in Tx => u \in confirmed
        /\ \A t \in Tx : ~Fresh(t) => u \notin body[t].inputs

\* When the tokens are burned, the callback finds both records of the family and
\* enough reserve for each subtraction: it does not panic and lose the burn.
SettlementCannotPanic == \A t \in InBurn : Settleable(t)

\* What a settled family leaves behind can be cleared, in every stage it may be in:
\* no assertion of clear_invalid_pending_verify_rbf fails for it.
OrphansClearable == \A t \in Tx : Orphan(t) => Clearable(t)

\* A transaction of a family that is not settled does not stay confirmed: it is paid
\* for and the family is settled.
Unsettled(t) == t \in confirmed /\ \E o \in Originals : body[o].inputs = body[t].inputs
ConfirmedIsSettled == \A t \in Tx : Unsettled(t) ~> ~Unsettled(t)
=============================================================================
