------------------------- MODULE ZcashTransactions -------------------------
(***************************************************************************)
(* The transactions the bridge writes for Zcash.  A Zcash transaction      *)
(* belongs to one consensus branch: a block includes it only while that    *)
(* branch is active and, if the transaction has an expiry height, not      *)
(* after it.  The contract learns the height from its light client,        *)
(* asynchronously, and fixes the branch and the expiry of a transaction    *)
(* when the answer arrives; signing takes place afterwards, input by       *)
(* input, and a network upgrade may come in between.  What the upgrade or  *)
(* the expiry kills is written anew, as a replacement of a withdrawal or   *)
(* by another execution of a refund.  A user may be paid by a transparent  *)
(* output or by a shielded bundle, which the user makes and the contract   *)
(* checks.                                                                 *)
(*                                                                         *)
(* The life of the records, lists and fees is in Withdrawal and            *)
(* DepositRefund; here are the contents of the transactions.  Left out are *)
(* the user's own cap on the gas, the passive management of the number of  *)
(* UTXOs and the role that may write larger change.                        *)
(***************************************************************************)
EXTENDS Integers, Sequences, FiniteSets, FiniteSetsExt

CONSTANTS
    Upgrade,            \* Branch -> height of its activation, 0 if none is set
    expiry_height_gap,
    Value,              \* of the UTXOs a withdrawal spends, all of them
    Deposit,            \* the output to be refunded
    DepositValue,
    amount,             \* withdrawn
    withdraw_fee,
    refund_gas_fee,
    min_btc_gas_fee, max_btc_gas_fee,
    min_change_amount, max_change_amount,
    max_change_number, max_withdrawal_input_number,
    rbf_num_limit,
    Receivers,          \* of the addresses withdrawn to, sets of pools
    RefundReceivers,    \* and of the address of the refund
    Vout,               \* transparent outputs a caller may ask for
    Orchard,            \* bundles a caller may bring
    FirstHeight, MaxHeight, \* the chain during a behaviour
    MaxLag,             \* bound on the lag of the light client
    MaxSigning,         \* bound on the sign calls in flight
    MaxRecords,         \* bound on the transactions there are when a call is made
    None

Coin   == DOMAIN Value
Branch == DOMAIN Upgrade    \* Nu6, Nu6_1, Nu6_2, Nu6_3 and Nu7, from 1 to 5

Addressee == {"user", "bridge", "other"}

ASSUME ConstantsAssumption ==
    /\ Upgrade \in [1..5 -> Nat]
    /\ expiry_height_gap \in Nat \ {0}
    /\ Coin # {} /\ IsFiniteSet(Coin) /\ Value \in [Coin -> Nat] /\ Deposit \notin Coin
    /\ {DepositValue, amount, withdraw_fee, refund_gas_fee, min_change_amount} \subseteq Nat
    /\ Vout \subseteq Seq([to : Addressee, value : Nat])
    /\ Orchard \subseteq [to : Addressee, amount : Nat, value_balance : Int]
    /\ FirstHeight \in Nat /\ MaxHeight \in Nat

VARIABLES
    subject,            \* what a behaviour is about: a withdrawal or a refund
    tip,                \* height of the chain
    last_block_height,  \* of the light client, which lags
    callbacks,          \* calls whose height is answered and that wait to run
    utxos,
    btc_pending_infos,  \* pending id -> its record
    rbf_txs,            \* of the withdrawal
    executed,           \* of the refund request
    signing,            \* sign calls in flight
    mined               \* transactions on the chain, by the heights of their blocks

vars == <<subject, tip, last_block_height, callbacks, utxos, btc_pending_infos,
          rbf_txs, executed, signing, mined>>

-----------------------------------------------------------------------------
(* Branches and encodings.                                                 *)

get_branch_id(height) == Max({1} \cup {b \in 2..5 : Upgrade[b] # 0 /\ height >= Upgrade[b]})

is_ironwood(branch_id) == branch_id >= 4

TxVersion(branch_id) == IF is_ironwood(branch_id) THEN "v6" ELSE "v5"

\* A psbt: vin maps a spent coin to its script_sig, inputs_utxo to its value.
\* Outputs go to the user's address, to the bridge's change address or
\* elsewhere.  The bundle has a recipient, an amount, the value it takes from
\* the transparent pool, and the branch its maker wrote and proved it for.

\* The stored form: the bundle is written in the layout of the branch.
serialize(psbt) ==
    [psbt EXCEPT !.orchard = IF @ = None THEN None
                             ELSE [layout |-> TxVersion(psbt.branch_id), bundle |-> @]]

deserialize(psbt_hex) ==
    [psbt_hex EXCEPT !.orchard =
        IF @ # None /\ @.layout = TxVersion(psbt_hex.branch_id) THEN @.bundle ELSE None]

\* The transaction, with its bundle in the slot of its version.
get_zcash_tx(psbt) ==
    [version       |-> TxVersion(psbt.branch_id),
     branch_id     |-> psbt.branch_id,
     expiry_height |-> psbt.expiry_height,
     vin           |-> psbt.vin,
     vout          |-> psbt.vout,
     orchard       |-> IF is_ironwood(psbt.branch_id) THEN None ELSE psbt.orchard,
     ironwood      |-> IF is_ironwood(psbt.branch_id) THEN psbt.orchard ELSE None]

\* Neither v5 nor v6 ids commit to the scripts that carry signatures.
compute_txid(tx) == [tx EXCEPT !.vin = DOMAIN tx.vin]

\* Mutant: the id is still computed as that of a v5 transaction.
get_pending_id_v5(psbt) == [compute_txid(get_zcash_tx(psbt)) EXCEPT !.version = "v5"]

get_pending_id(psbt) == compute_txid(get_zcash_tx(psbt))

\* What the contract has signed for an input.  It is put together on a path of
\* its own, from a transaction without scripts, and must be the digest that the
\* network computes: the parts of the id and the coins that are spent (ZIP 244).
to_zcash_tx(psbt, orchard, ironwood) ==
    [version       |-> TxVersion(psbt.branch_id),
     branch_id     |-> psbt.branch_id,
     expiry_height |-> psbt.expiry_height,
     vin           |-> DOMAIN psbt.vin,
     vout          |-> psbt.vout,
     orchard       |-> orchard,
     ironwood      |-> ironwood]

\* Mutant: the bundle is committed to in the Orchard slot whatever the branch.
tx_digest_orchard_only(psbt) == to_zcash_tx(psbt, psbt.orchard, None)

tx_digest(psbt) ==
    IF is_ironwood(psbt.branch_id) THEN to_zcash_tx(psbt, None, psbt.orchard)
    ELSE to_zcash_tx(psbt, psbt.orchard, None)

get_hash_to_sign(psbt, coin) ==
    [digest |-> tx_digest(psbt), coins |-> psbt.inputs_utxo, input |-> coin]

save_signature(psbt, coin, payload) == [psbt EXCEPT !.vin[coin] = payload]

-----------------------------------------------------------------------------
(* Building a psbt.                                                        *)

\* A bundle is read in the layout of the transaction's branch, or not at all.
extract_orchard_bundle(bundle, branch_id) ==
    bundle # None => /\ TxVersion(bundle.branch) = TxVersion(branch_id)
                     /\ bundle.amount # 0

new(inputs, values, vout, bundle, expiry_height, current_height) ==
    [branch_id     |-> get_branch_id(current_height),
     expiry_height |-> expiry_height,
     vin           |-> [c \in inputs |-> None],
     vout          |-> vout,
     inputs_utxo   |-> values,
     orchard       |-> bundle]

\* Mutant: a replacement inherits the branch.
from_original_psbt_branch(original, vout, bundle, expiry_height, current_height) ==
    [original EXCEPT !.expiry_height = expiry_height, !.orchard = bundle,
                     !.vout = IF vout = <<>> THEN @ ELSE vout]

from_original_psbt(original, vout, bundle, expiry_height, current_height) ==
    [branch_id     |-> get_branch_id(current_height),
     expiry_height |-> expiry_height,
     vin           |-> original.vin,
     vout          |-> IF vout = <<>> THEN original.vout ELSE vout,
     inputs_utxo   |-> original.inputs_utxo,
     orchard       |-> bundle]

\* data is a bundle with an expiry height, or None.
get_expiry_height(data, height) ==
    IF data = None THEN height + expiry_height_gap ELSE data.expiry_height

ExpiryInRange(expiry_height, height) ==
    expiry_height \in height + expiry_height_gap .. height + 2 * expiry_height_gap

BundleOf(data) == IF data = None THEN None ELSE data.bundle

-----------------------------------------------------------------------------
(* Checking a psbt.                                                        *)

Outputs(psbt, to) == {i \in DOMAIN psbt.vout : psbt.vout[i].to = to}
ValueOut(psbt, I) == SumFunctionOnSet([i \in DOMAIN psbt.vout |-> psbt.vout[i].value], I)
InputAmount(psbt) == SumFunctionOnSet(psbt.inputs_utxo, DOMAIN psbt.vin)

add_extra_outputs(psbt) == IF psbt.orchard = None THEN 0 ELSE psbt.orchard.amount

\* ZIP 317, in units of the marginal fee; a bundle has one action.
get_min_fee(psbt) ==
    Max({2, Max({Cardinality(DOMAIN psbt.vin), Len(psbt.vout)})
            + (IF psbt.orchard = None THEN 0 ELSE 1)})

\* Mutant: the bundle may take another value than its output has.
validate_orchard_bundle_recipient(bundle, receivers) ==
    "orchard" \in receivers /\ bundle.to = "user"

validate_orchard_bundle(bundle, receivers) ==
    /\ "orchard" \in receivers /\ bundle.to = "user"
    /\ bundle.value_balance = -bundle.amount

check_psbt_chain_specific(psbt, gas_fee, receivers) ==
    /\ gas_fee >= get_min_fee(psbt)
    /\ psbt.orchard # None => validate_orchard_bundle(psbt.orchard, receivers)

\* An address without a transparent receiver matches no output.
UserOutputs(psbt, receivers) ==
    IF "transparent" \in receivers THEN Outputs(psbt, "user") ELSE {}

WithdrawGas(psbt) ==
    InputAmount(psbt) - ValueOut(psbt, DOMAIN psbt.vout) - add_extra_outputs(psbt)

WithdrawReceived(psbt, receivers) ==
    ValueOut(psbt, UserOutputs(psbt, receivers)) + add_extra_outputs(psbt)

check_withdraw_psbt(psbt, receivers) ==
    LET users   == UserOutputs(psbt, receivers)
        changes == Outputs(psbt, "bridge")
    IN /\ users \cup changes = DOMAIN psbt.vout
       /\ \A i \in changes :
             /\ psbt.vout[i].value >= min_change_amount
             /\ \A c \in DOMAIN psbt.vin : psbt.vout[i].value < psbt.inputs_utxo[c]
             /\ Cardinality(DOMAIN psbt.vin) > Cardinality(changes)
                   => psbt.vout[i].value < max_change_amount
       /\ Cardinality(users) + (IF psbt.orchard = None THEN 0 ELSE 1) = 1
       /\ WithdrawReceived(psbt, receivers) = amount - withdraw_fee - WithdrawGas(psbt)
       /\ WithdrawGas(psbt) \in min_btc_gas_fee .. max_btc_gas_fee
       /\ check_psbt_chain_specific(psbt, WithdrawGas(psbt), receivers)

check_withdraw_psbt_valid(psbt, receivers) ==
    /\ check_withdraw_psbt(psbt, receivers)
    /\ Cardinality(Outputs(psbt, "bridge")) <= max_change_number
    /\ Cardinality(DOMAIN psbt.vin) <= max_withdrawal_input_number

ChangeGas(psbt) == InputAmount(psbt) - ValueOut(psbt, DOMAIN psbt.vout)

\* As a cancellation calls it: any gas above the network's minimum.
check_psbt_output_all_change_address(psbt) ==
    /\ Outputs(psbt, "bridge") = DOMAIN psbt.vout
    /\ \A i \in DOMAIN psbt.vout :
          psbt.vout[i].value \in min_change_amount .. max_change_amount
    /\ ChangeGas(psbt) >= get_min_fee(psbt)

-----------------------------------------------------------------------------
(* The network.                                                            *)

\* The branch of a block: that of the latest upgrade activated.
ConsensusBranch(height) ==
    CHOOSE b \in Branch : /\ b = 1 \/ Upgrade[b] \in 1..height
                          /\ \A c \in b+1..5 : Upgrade[c] \notin 1..height

CoinValue == [c \in Coin \cup {Deposit} |-> IF c = Deposit THEN DepositValue ELSE Value[c]]

sighash(tx, coin) ==
    [digest |-> compute_txid(tx), coins |-> [c \in DOMAIN tx.vin |-> CoinValue[c]],
     input  |-> coin]

Bundle(tx) == IF tx.orchard # None THEN tx.orchard ELSE tx.ironwood

\* Once signed, may it be in a block of that height?  From NU6.3 on new value
\* may not enter the Orchard slot, and only then is there a v6.
Includible(tx, height) ==
    /\ tx.branch_id = ConsensusBranch(height)
    /\ tx.version = "v6" => ConsensusBranch(height) >= 4
    /\ tx.orchard # None => ConsensusBranch(height) < 4
    /\ Bundle(tx) # None => Bundle(tx).branch = tx.branch_id
    /\ tx.expiry_height = 0 \/ height <= tx.expiry_height

Unspent(coins) == \A m \in mined : DOMAIN m.tx.vin \cap coins = {}

\* A behaviour ends with the transaction that spends the coins: what follows is
\* in Withdrawal and DepositRefund.
NewBlock ==
    /\ mined = {}
    /\ tip < MaxHeight
    /\ tip - last_block_height < MaxLag
    /\ tip' = tip + 1

EmptyBlock ==
    /\ NewBlock
    /\ UNCHANGED <<subject, last_block_height, callbacks, utxos,
                   btc_pending_infos, rbf_txs, executed, signing, mined>>

Mine(id) ==
    LET tx == btc_pending_infos[id].tx_bytes_with_sign
    IN /\ NewBlock
       /\ tx # None
       /\ Includible(tx, tip + 1)
       /\ \A c \in DOMAIN tx.vin : tx.vin[c] = sighash(tx, c)
       /\ Unspent(DOMAIN tx.vin)
       /\ mined' = mined \cup {[id |-> id, tx |-> tx, height |-> tip + 1]}
       /\ UNCHANGED <<subject, last_block_height, callbacks, utxos,
                      btc_pending_infos, rbf_txs, executed, signing>>

LightClientAdvances ==
    /\ mined = {}
    /\ last_block_height' \in last_block_height + 1 .. tip
    /\ UNCHANGED <<subject, tip, callbacks, utxos, btc_pending_infos, rbf_txs,
                   executed, signing, mined>>

-----------------------------------------------------------------------------
(* The callbacks, each with the height that the light client answered.     *)

Stored(id) == deserialize(btc_pending_infos[id].psbt_hex)

PendingInfo(kind, role, receivers, psbt, gas_fee) ==
    [kind               |-> kind,
     role               |-> role,
     receivers          |-> receivers,
     psbt_hex           |-> serialize(psbt),
     signatures         |-> {},
     tx_bytes_with_sign |-> None,
     gas_fee            |-> gas_fee,
     canceled           |-> FALSE]

Insert(psbt, info) ==
    btc_pending_infos' =
        [id \in DOMAIN btc_pending_infos \cup {get_pending_id(psbt)} |->
            IF id = get_pending_id(psbt) THEN info ELSE btc_pending_infos[id]]

IsNew(psbt) == get_pending_id(psbt) \notin DOMAIN btc_pending_infos

WithdrawPsbt(call) ==
    new(Coin, Value, call.vout, BundleOf(call.data),
        get_expiry_height(call.data, call.height), call.height)

WithdrawFits(call) ==
    /\ call.method = "ft_on_transfer_callback"
    /\ ExpiryInRange(get_expiry_height(call.data, call.height), call.height)
    /\ call.vout # <<>> \/ call.data # None
    /\ extract_orchard_bundle(BundleOf(call.data), get_branch_id(call.height))
    /\ Coin \subseteq utxos
    /\ check_withdraw_psbt_valid(WithdrawPsbt(call), call.receivers)
    /\ IsNew(WithdrawPsbt(call))

ft_on_transfer_callback(call) ==
    LET psbt == WithdrawPsbt(call)
    IN /\ WithdrawFits(call)
       /\ callbacks' = callbacks \ {call}
       /\ utxos' = utxos \ Coin
       /\ Insert(psbt, PendingInfo("withdraw", "original", call.receivers, psbt,
                                   WithdrawGas(psbt)))
       /\ UNCHANGED <<subject, tip, last_block_height, rbf_txs, executed, signing,
                      mined>>

Originals ==
    {id \in DOMAIN btc_pending_infos : /\ btc_pending_infos[id].kind = "withdraw"
                                       /\ btc_pending_infos[id].role = "original"}

ReplacementPsbt(call) ==
    from_original_psbt(Stored(call.original), call.vout, BundleOf(call.data),
                       get_expiry_height(call.data, call.height), call.height)

IsVerifyStage(id) == btc_pending_infos[id].tx_bytes_with_sign # None

\* Common to both kinds of replacement, but for the stage of the original.
ReplacementFits(call) ==
    /\ ExpiryInRange(get_expiry_height(call.data, call.height), call.height)
    /\ call.original \in Originals
    /\ extract_orchard_bundle(BundleOf(call.data), get_branch_id(call.height))
    /\ IsNew(ReplacementPsbt(call))

WithdrawRbfFits(call) ==
    /\ call.method = "withdraw_rbf_callback"
    /\ ReplacementFits(call)
    /\ ~btc_pending_infos[call.original].canceled
    /\ Len(ReplacementPsbt(call).vout) = Len(Stored(call.original).vout)
    /\ check_withdraw_psbt(ReplacementPsbt(call), btc_pending_infos[call.original].receivers)
    /\ Cardinality(rbf_txs) < rbf_num_limit

withdraw_rbf_callback(call) ==
    LET psbt     == ReplacementPsbt(call)
        original == btc_pending_infos[call.original]
    IN /\ WithdrawRbfFits(call)
       /\ IsVerifyStage(call.original)
       /\ callbacks' = callbacks \ {call}
       /\ Insert(psbt, PendingInfo("withdraw", "rbf", original.receivers, psbt,
                                   WithdrawGas(psbt)))
       /\ rbf_txs' = rbf_txs \cup {get_pending_id(psbt)}
       /\ UNCHANGED <<subject, tip, last_block_height, utxos, executed, signing,
                      mined>>

\* What exceeds the user's balance is paid by the protocol, see Withdrawal.
CancelWithdrawFits(call) ==
    /\ call.method = "cancel_withdraw_callback"
    /\ ReplacementFits(call)
    /\ check_psbt_output_all_change_address(ReplacementPsbt(call))
    /\ ChangeGas(ReplacementPsbt(call)) <= amount - withdraw_fee

cancel_withdraw_callback(call) ==
    LET psbt     == ReplacementPsbt(call)
        original == btc_pending_infos[call.original]
    IN /\ CancelWithdrawFits(call)
       /\ IsVerifyStage(call.original)
       /\ callbacks' = callbacks \ {call}
       /\ btc_pending_infos' =
             [id \in DOMAIN btc_pending_infos \cup {get_pending_id(psbt)} |->
                IF id = get_pending_id(psbt)
                THEN PendingInfo("withdraw", "cancel", original.receivers, psbt,
                                 ChangeGas(psbt))
                ELSE IF id = call.original THEN [original EXCEPT !.canceled = TRUE]
                ELSE btc_pending_infos[id]]
       /\ rbf_txs' = rbf_txs \cup {get_pending_id(psbt)}
       /\ UNCHANGED <<subject, tip, last_block_height, utxos, executed, signing,
                      mined>>

\* A refund never expires; it pays the address in the request.
RefundAmount == DepositValue - refund_gas_fee

RefundPsbt(call) ==
    new({Deposit}, [c \in {Deposit} |-> DepositValue],
        IF call.data # None THEN <<>>
        ELSE <<[to |-> "user", value |-> RefundAmount]>>,
        BundleOf(call.data), 0, call.height)

\* The request exists: it is not rejected here, and a deposit does not compete.
RefundFits(call) ==
    /\ call.method = "execute_refund_callback"
    /\ RefundAmount >= min_change_amount
    /\ call.data = None => "transparent" \in RefundReceivers
    /\ extract_orchard_bundle(BundleOf(call.data), get_branch_id(call.height))
    /\ check_psbt_chain_specific(RefundPsbt(call), refund_gas_fee, RefundReceivers)
    /\ call.data # None => call.data.bundle.amount = RefundAmount
    /\ IsNew(RefundPsbt(call))

execute_refund_callback(call) ==
    LET psbt == RefundPsbt(call)
    IN /\ RefundFits(call)
       /\ callbacks' = callbacks \ {call}
       /\ Insert(psbt, PendingInfo("refund", "original", RefundReceivers, psbt,
                                   refund_gas_fee))
       /\ executed' = TRUE
       /\ UNCHANGED <<subject, tip, last_block_height, utxos, rbf_txs, signing,
                      mined>>

Fits(call) == \/ WithdrawFits(call)    \/ WithdrawRbfFits(call)
              \/ CancelWithdrawFits(call) \/ RefundFits(call)

IsReplacement(call) ==
    call.method \in {"withdraw_rbf_callback", "cancel_withdraw_callback"}

CallbackPanics(call) ==
    /\ ~Fits(call) \/ (IsReplacement(call) /\ ~IsVerifyStage(call.original))
    /\ callbacks' = callbacks \ {call}
    /\ UNCHANGED <<subject, tip, last_block_height, utxos, btc_pending_infos,
                   rbf_txs, executed, signing, mined>>

-----------------------------------------------------------------------------
(* The calls, which ask for the height first.                              *)

\* The maker of a bundle takes the branch to be that of the light client's
\* block or that of the next block on the chain.
Bundles(branches) ==
    {[to |-> o.to, amount |-> o.amount, value_balance |-> o.value_balance, branch |-> b] :
        o \in Orchard, b \in branches}

ChainSpecificData ==
    [bundle : Bundles({ConsensusBranch(last_block_height), ConsensusBranch(tip + 1)}),
     expiry_height : last_block_height + expiry_height_gap
                     .. last_block_height + 2 * expiry_height_gap]

\* A bundle as it is stored is not taken for none.
ASSUME BundlesAssumption ==
    None \notin Bundles(Branch) \cup [layout : {"v5", "v6"}, bundle : Bundles(Branch)]


\* A call that does not fit now never will, whatever happens before its
\* callback: what it lacks does not come back.  It is left out.  One call of a
\* method is in flight at a time.
Ask(call) ==
    /\ mined = {}
    /\ Cardinality(DOMAIN btc_pending_infos) < MaxRecords
    /\ \A other \in callbacks : other.method # call.method
    /\ Fits(call)
    /\ callbacks' = callbacks \cup {call}
    /\ UNCHANGED <<subject, tip, last_block_height, utxos, btc_pending_infos,
                   rbf_txs, executed, signing, mined>>

ft_on_transfer ==
    \E vout \in Vout, data \in ChainSpecificData \cup {None}, receivers \in Receivers :
        /\ subject = "withdraw" /\ Coin \subseteq utxos
        /\ Ask([method |-> "ft_on_transfer_callback", vout |-> vout, data |-> data,
                receivers |-> receivers, height |-> last_block_height])

withdraw_rbf ==
    \E original \in Originals, vout \in Vout,
      data \in ChainSpecificData \cup {None} :
        Ask([method |-> "withdraw_rbf_callback", original |-> original, vout |-> vout,
             data |-> data, height |-> last_block_height])

\* By an operator, once the user had max_btc_tx_pending_sec to replace it.
cancel_withdraw ==
    \E original \in Originals, vout \in Vout :
        Ask([method |-> "cancel_withdraw_callback", original |-> original, vout |-> vout,
             data |-> None, height |-> last_block_height])

execute_refund ==
    \E data \in ChainSpecificData \cup {None} :
        /\ subject = "refund"
        /\ Ask([method |-> "execute_refund_callback", data |-> data,
                height |-> last_block_height])

-----------------------------------------------------------------------------
(* Signing, input by input.                                                *)

sign_btc_transaction(id, coin) ==
    /\ Cardinality(signing) < MaxSigning
    /\ ~IsVerifyStage(id)
    /\ coin \notin btc_pending_infos[id].signatures
    /\ mined = {}
    /\ signing' = signing \cup {[id |-> id, input |-> coin,
                                payload |-> get_hash_to_sign(Stored(id), coin)]}
    /\ UNCHANGED <<subject, tip, last_block_height, callbacks, utxos,
                   btc_pending_infos, rbf_txs, executed, mined>>

sign_btc_transaction_callback(s) ==
    LET info       == btc_pending_infos[s.id]
        psbt       == save_signature(Stored(s.id), s.input, s.payload)
        signatures == info.signatures \cup {s.input}
    IN /\ s.input \notin info.signatures
       /\ signing' = signing \ {s}
       /\ btc_pending_infos' =
             [btc_pending_infos EXCEPT
                ![s.id].signatures = signatures,
                ![s.id].psbt_hex = serialize(psbt),
                ![s.id].tx_bytes_with_sign =
                    IF signatures = DOMAIN psbt.vin THEN get_zcash_tx(psbt) ELSE None]
       /\ UNCHANGED <<subject, tip, last_block_height, callbacks, utxos, rbf_txs,
                      executed, mined>>

\* The MPC refuses.
SignFails(s) ==
    /\ signing' = signing \ {s}
    /\ UNCHANGED <<subject, tip, last_block_height, callbacks, utxos,
                   btc_pending_infos, rbf_txs, executed, mined>>

-----------------------------------------------------------------------------
\* A withdrawal and a refund share no state of this module, so each behaviour
\* is about one of them.
Init ==
    /\ subject \in {"withdraw", "refund"}
    /\ tip = FirstHeight
    /\ last_block_height = FirstHeight
    /\ callbacks = {}
    /\ utxos = Coin
    /\ btc_pending_infos = [id \in {} |-> None]
    /\ rbf_txs = {}
    /\ executed = FALSE
    /\ signing = {}
    /\ mined = {}

Next ==
    \/ EmptyBlock
    \/ \E id \in DOMAIN btc_pending_infos : Mine(id)
    \/ LightClientAdvances
    \/ ft_on_transfer \/ withdraw_rbf \/ cancel_withdraw \/ execute_refund
    \/ \E call \in callbacks :
          \/ ft_on_transfer_callback(call) \/ withdraw_rbf_callback(call)
          \/ cancel_withdraw_callback(call) \/ execute_refund_callback(call)
          \/ CallbackPanics(call)
    \/ \E id \in DOMAIN btc_pending_infos : \E coin \in DOMAIN Stored(id).vin :
          sign_btc_transaction(id, coin)
    \/ \E s \in signing : sign_btc_transaction_callback(s) \/ SignFails(s)

Spec == Init /\ [][Next]_vars

-----------------------------------------------------------------------------
(* Properties.                                                             *)

\* A signature is over the transaction that is sent in the end: whatever
\* upgrade, answer or replacement came between the building of a transaction
\* and the last of its signatures, each signature in it is over the digest that
\* the network computes from it (internal_sign_btc_transaction,
\* sign_btc_transaction_callback and from_original_psbt, which hands the old
\* inputs, scripts included, to the replacement).
SignaturesAreValid ==
    \A id \in DOMAIN btc_pending_infos :
        LET tx == get_zcash_tx(Stored(id))
        IN \A c \in btc_pending_infos[id].signatures : tx.vin[c] = sighash(tx, c)

\* A transaction is proved to the contract under the key of its record:
\* the id computed before any signature is the id of what is on the chain
\* (get_pending_id).
MinedUnderItsId == \A m \in mined : compute_txid(m.tx) = m.id

\* Nobody pays and nobody is paid by accident: of what a transaction spends, the
\* user receives what the record says, in one output or bundle, nothing goes
\* elsewhere, the bridge keeps what the user did not give up, and the miners
\* get the gas fee of the record, which is the least the network relays
\* (check_withdraw_psbt, validate_orchard_bundle and their callers).
ReceivedBy(tx, to) ==
    ValueOut(tx, Outputs(tx, to))
    + (IF Bundle(tx) # None /\ Bundle(tx).to = to THEN Bundle(tx).amount ELSE 0)

LeftToMiners(tx) ==
    SumFunctionOnSet(CoinValue, DOMAIN tx.vin)
    - ValueOut(tx, DOMAIN tx.vout)
    + (IF Bundle(tx) # None THEN Bundle(tx).value_balance ELSE 0)

DueToUser(info) ==
    CASE info.kind = "refund"  -> DepositValue - info.gas_fee
      [] info.role = "cancel"  -> 0
      [] OTHER                 -> amount - withdraw_fee - info.gas_fee

PaysWhatIsRecorded ==
    \A id \in DOMAIN btc_pending_infos :
        LET info == btc_pending_infos[id]
            tx   == get_zcash_tx(Stored(id))
        IN /\ ReceivedBy(tx, "user") = DueToUser(info)
           /\ ReceivedBy(tx, "other") = 0
           /\ LeftToMiners(tx) = info.gas_fee

\* Neither an upgrade nor an expiry strands the coins of a withdrawal or of a
\* refund.  Until one of its transactions is mined there is one that still can
\* be, or one that waits for signatures, after which it can be replaced, or
\* the contract would accept another one, built at this height or one of the
\* next two, that the block after it can include (withdraw_rbf, cancel_withdraw, and
\* execute_refund, which may be called again).
CanBeMined(id) ==
    \E h \in tip + 1 .. tip + 2 : Includible(get_zcash_tx(Stored(id)), h)

WouldReplace(id, h) ==
    \E vout \in Vout :
        LET call == [method |-> "cancel_withdraw_callback", original |-> id, vout |-> vout,
                     data |-> None, height |-> h]
        IN CancelWithdrawFits(call) /\ Includible(get_zcash_tx(ReplacementPsbt(call)), h + 1)

WouldRefund(h) ==
    LET call == [method |-> "execute_refund_callback", data |-> None, height |-> h]
    IN RefundFits(call) /\ Includible(get_zcash_tx(RefundPsbt(call)), h + 1)

NeverStranded ==
    \A id \in DOMAIN btc_pending_infos :
        LET info   == btc_pending_infos[id]
            family == {o \in DOMAIN btc_pending_infos : btc_pending_infos[o].kind = info.kind}
        IN info.role = "original" =>
             \/ ~Unspent(DOMAIN Stored(id).vin)
             \/ \E o \in family : CanBeMined(o)
             \/ info.kind = "withdraw" /\ ~IsVerifyStage(id)
             \/ \E h \in tip .. tip + 2 :
                    IF info.kind = "refund" THEN WouldRefund(h) ELSE WouldReplace(id, h)

\* What NeverStranded asks of the constants: no two of the upgrades to come are
\* one block apart (they are months), and there are change outputs that the
\* contract accepts of a cancellation.
UpgradesApart ==
    \A b, c \in 2..5 : Upgrade[b] > FirstHeight => Upgrade[c] # Upgrade[b] + 1

ChangeFits(vout) ==
    LET values == [i \in DOMAIN vout |-> vout[i].value]
        gas    == SumFunctionOnSet(Value, Coin) - SumFunctionOnSet(values, DOMAIN vout)
    IN /\ vout # <<>>
       /\ \A i \in DOMAIN vout : /\ vout[i].to = "bridge"
                                 /\ vout[i].value \in min_change_amount .. max_change_amount
       /\ gas >= 2 /\ gas >= Cardinality(Coin) /\ gas >= Len(vout)
       /\ gas <= amount - withdraw_fee

CancellationPossible == \E vout \in Vout : ChangeFits(vout)
=============================================================================
