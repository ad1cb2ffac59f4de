------------------------------ MODULE ZcashProofs ------------------------------
(***************************************************************************)
(* What is signed is what is sent, under the id its record has: a psbt     *)
(* comes back from its stored form as it was, the digest the contract has  *)
(* signed is the one the network computes, and a signature disturbs        *)
(* neither the id nor the digest of any other input.  This holds for every *)
(* list of upgrades and every order of answers, callbacks and signatures.  *)
(***************************************************************************)
EXTENDS ZcashTransactions, SumTheorems, FiniteSetTheorems, TLAPS

-----------------------------------------------------------------------------
(* Psbts.                                                                  *)

\* The numbers among the constants, and the coins.
LEMMA NaturalConstants ==
    /\ FirstHeight \in Nat /\ MaxHeight \in Nat /\ expiry_height_gap \in Nat \ {0}
    /\ DepositValue \in Nat /\ amount \in Nat /\ withdraw_fee \in Nat
    /\ refund_gas_fee \in Nat /\ min_change_amount \in Nat
  BY ConstantsAssumption

LEMMA CoinsAreFinite == IsFiniteSet(Coin)
  BY ConstantsAssumption

\* A psbt as the contract builds it, of coins of the bridge.
IsPsbt(psbt) ==
    /\ psbt = [branch_id     |-> psbt.branch_id,
               expiry_height |-> psbt.expiry_height,
               vin           |-> psbt.vin,
               vout          |-> psbt.vout,
               inputs_utxo   |-> psbt.inputs_utxo,
               orchard       |-> psbt.orchard]
    /\ psbt.orchard \in Bundles(Branch) \cup {None}
    /\ psbt.vin = [c \in DOMAIN psbt.vin |-> psbt.vin[c]]
    /\ psbt.inputs_utxo = [c \in DOMAIN psbt.vin |-> CoinValue[c]]

LEMMA StoredForm ==
    ASSUME NEW psbt, IsPsbt(psbt)
    PROVE  deserialize(serialize(psbt)) = psbt
  <1>1. PICK branch, expiry, vin, vout, values, bundle :
          psbt = [branch_id |-> branch, expiry_height |-> expiry, vin |-> vin,
                  vout |-> vout, inputs_utxo |-> values, orchard |-> bundle]
    BY DEF IsPsbt
  <1>2. bundle \in Bundles(Branch) \cup {None}
    BY <1>1 DEF IsPsbt
  <1>3. PICK v \in {"v5", "v6"} : v = TxVersion(branch)
    BY DEF TxVersion
  <1>4. CASE bundle = None
    <2>1. serialize(psbt) = psbt
      BY <1>1, <1>4 DEF serialize
    <2>2. QED
      BY <1>1, <1>4, <2>1 DEF deserialize
  <1>5. CASE bundle # None
    <2>1. PICK stored : stored = [layout |-> v, bundle |-> bundle]
      OBVIOUS
    <2>2. stored # None
      BY <1>2, <1>5, <2>1, BundlesAssumption
    <2>3. serialize(psbt) = [branch_id |-> branch, expiry_height |-> expiry, vin |-> vin,
                             vout |-> vout, inputs_utxo |-> values, orchard |-> stored]
      BY <1>1, <1>3, <1>5, <2>1 DEF serialize
    <2>4. QED
      BY <1>1, <1>3, <2>1, <2>2, <2>3 DEF deserialize
  <1>6. QED
    BY <1>4, <1>5

\* The two paths to the digest meet.
LEMMA SignedIsChecked ==
    ASSUME NEW psbt, IsPsbt(psbt), NEW coin
    PROVE  get_hash_to_sign(psbt, coin) = sighash(get_zcash_tx(psbt), coin)
  <1>1. PICK tx : tx = get_zcash_tx(psbt)
    OBVIOUS
  <1>2. tx.vin = psbt.vin
    BY <1>1 DEF get_zcash_tx
  <1>3. compute_txid(tx) = tx_digest(psbt)
    <2>1. CASE is_ironwood(psbt.branch_id)
      BY <1>1, <2>1 DEF get_zcash_tx, compute_txid, tx_digest, to_zcash_tx
    <2>2. CASE ~is_ironwood(psbt.branch_id)
      BY <1>1, <2>2 DEF get_zcash_tx, compute_txid, tx_digest, to_zcash_tx
    <2>3. QED
      BY <2>1, <2>2
  <1>4. psbt.inputs_utxo = [c \in DOMAIN tx.vin |-> CoinValue[c]]
    BY <1>2 DEF IsPsbt
  <1>5. QED
    BY <1>1, <1>3, <1>4 DEF get_hash_to_sign, sighash

\* The id is a digest without the coins.
LEMMA IdIsDigest ==
    ASSUME NEW psbt
    PROVE  get_pending_id(psbt) = tx_digest(psbt)
  <1>1. CASE is_ironwood(psbt.branch_id)
    BY <1>1 DEF get_pending_id, get_zcash_tx, compute_txid, tx_digest, to_zcash_tx
  <1>2. CASE ~is_ironwood(psbt.branch_id)
    BY <1>2 DEF get_pending_id, get_zcash_tx, compute_txid, tx_digest, to_zcash_tx
  <1>3. QED
    BY <1>1, <1>2

\* A signature changes the script of its input and nothing that is committed to.
LEMMA SaveSignature ==
    ASSUME NEW psbt, IsPsbt(psbt), NEW coin \in DOMAIN psbt.vin, NEW payload,
           NEW signed, signed = save_signature(psbt, coin, payload)
    PROVE  /\ IsPsbt(signed)
           /\ DOMAIN signed.vin = DOMAIN psbt.vin
           /\ signed.vout = psbt.vout /\ signed.orchard = psbt.orchard
           /\ get_pending_id(signed) = get_pending_id(psbt)
           /\ \A c : get_hash_to_sign(signed, c) = get_hash_to_sign(psbt, c)
           /\ signed.vin[coin] = payload
           /\ \A c \in DOMAIN psbt.vin : c # coin => signed.vin[c] = psbt.vin[c]
  <1>1. PICK branch, expiry, vin, vout, values, bundle :
          psbt = [branch_id |-> branch, expiry_height |-> expiry, vin |-> vin,
                  vout |-> vout, inputs_utxo |-> values, orchard |-> bundle]
    BY DEF IsPsbt
  <1>2. PICK scripts : scripts = [vin EXCEPT ![coin] = payload]
    OBVIOUS
  <1>3. signed = [branch_id |-> branch, expiry_height |-> expiry, vin |-> scripts,
                  vout |-> vout, inputs_utxo |-> values, orchard |-> bundle]
    BY <1>1, <1>2 DEF save_signature
  <1>4. vin = [c \in DOMAIN vin |-> vin[c]] /\ coin \in DOMAIN vin
    BY <1>1 DEF IsPsbt
  <1>5. /\ DOMAIN scripts = DOMAIN vin
        /\ scripts = [c \in DOMAIN scripts |-> scripts[c]]
        /\ scripts[coin] = payload
        /\ \A c \in DOMAIN vin : c # coin => scripts[c] = vin[c]
    BY <1>2, <1>4
  <1>6. IsPsbt(signed)
    <2>1. /\ signed.branch_id = branch /\ signed.expiry_height = expiry
          /\ signed.vin = scripts /\ signed.vout = vout
          /\ signed.inputs_utxo = values /\ signed.orchard = bundle
      BY <1>3
    <2>2. bundle \in Bundles(Branch) \cup {None} /\ values = [c \in DOMAIN vin |-> CoinValue[c]]
      BY <1>1 DEF IsPsbt
    <2>3. values = [c \in DOMAIN scripts |-> CoinValue[c]]
      BY <1>5, <2>2
    <2>4. signed = [branch_id |-> signed.branch_id, expiry_height |-> signed.expiry_height,
                    vin |-> signed.vin, vout |-> signed.vout,
                    inputs_utxo |-> signed.inputs_utxo, orchard |-> signed.orchard]
      BY <1>3
    <2>5. QED
      BY <1>5, <2>1, <2>2, <2>3, <2>4 DEF IsPsbt
  <1>7. tx_digest(signed) = tx_digest(psbt)
    BY <1>1, <1>3, <1>5 DEF tx_digest, to_zcash_tx
  <1>8. get_pending_id(signed) = get_pending_id(psbt)
    BY <1>7, IdIsDigest
  <1>9. \A c : get_hash_to_sign(signed, c) = get_hash_to_sign(psbt, c)
    <2>1. signed.inputs_utxo = psbt.inputs_utxo
      BY <1>1, <1>3
    <2>2. QED
      BY <1>7, <2>1 DEF get_hash_to_sign
  <1>10. QED
    BY <1>1, <1>3, <1>5, <1>6, <1>8, <1>9

LEMMA SomeBranch == \A height : ConsensusBranch(height) \in Branch
  <1>1. SUFFICES ASSUME NEW height PROVE ConsensusBranch(height) \in Branch
    OBVIOUS
  <1> DEFINE Active(b) == Upgrade[b] \in 1..height
  <1>2. Branch = 1..5
    BY ConstantsAssumption DEF Branch
  <1>3. \E b \in 1..5 : (b = 1 \/ Active(b)) /\ \A c \in b+1..5 : ~Active(c)
    <2> HIDE DEF Active
    <2>1. CASE Active(5)
      BY <2>1
    <2>2. CASE ~Active(5) /\ Active(4)
      BY <2>2
    <2>3. CASE ~Active(5) /\ ~Active(4) /\ Active(3)
      BY <2>3
    <2>4. CASE ~Active(5) /\ ~Active(4) /\ ~Active(3) /\ Active(2)
      BY <2>4
    <2>5. CASE ~Active(5) /\ ~Active(4) /\ ~Active(3) /\ ~Active(2)
      BY <2>5
    <2>6. QED
      BY <2>1, <2>2, <2>3, <2>4, <2>5
  <1>4. QED
    BY <1>2, <1>3 DEF ConsensusBranch

LEMMA BundlesTyped == ChainSpecificData \subseteq [bundle : Bundles(Branch), expiry_height : Int]
  <1>1. \A B \in SUBSET Branch : Bundles(B) \subseteq Bundles(Branch)
    BY DEF Bundles
  <1>2. {ConsensusBranch(last_block_height), ConsensusBranch(tip + 1)} \in SUBSET Branch
    BY SomeBranch
  <1>3. Bundles({ConsensusBranch(last_block_height), ConsensusBranch(tip + 1)})
            \subseteq Bundles(Branch)
    BY <1>1, <1>2
  <1>4. last_block_height + expiry_height_gap .. last_block_height + 2 * expiry_height_gap
            \subseteq Int
    OBVIOUS
  <1>5. QED
    BY <1>3, <1>4 DEF ChainSpecificData

-----------------------------------------------------------------------------
(* The invariant.                                                          *)

IsInfo(info) ==
    info = [kind               |-> info.kind,
            role               |-> info.role,
            receivers          |-> info.receivers,
            psbt_hex           |-> info.psbt_hex,
            signatures         |-> info.signatures,
            tx_bytes_with_sign |-> info.tx_bytes_with_sign,
            gas_fee            |-> info.gas_fee,
            canceled           |-> info.canceled]

\* What the record `id` has signed of its psbt, and what it sends.
SignsOwn(id, info, psbt) ==
    /\ IsPsbt(psbt)
    /\ get_pending_id(psbt) = id
    /\ info.signatures \subseteq DOMAIN psbt.vin
    /\ \A c \in info.signatures : psbt.vin[c] = get_hash_to_sign(psbt, c)
    /\ info.tx_bytes_with_sign \in {None, get_zcash_tx(psbt)}

InfoOK(id, info) == IsInfo(info) /\ SignsOwn(id, info, deserialize(info.psbt_hex))

InfosOK ==
    /\ btc_pending_infos = [id \in DOMAIN btc_pending_infos |-> btc_pending_infos[id]]
    /\ \A id \in DOMAIN btc_pending_infos : InfoOK(id, btc_pending_infos[id])

\* A sign call in flight has the digest that its record still has.
SigningOK ==
    \A s \in signing :
        /\ s.id \in DOMAIN btc_pending_infos
        /\ s.input \in DOMAIN Stored(s.id).vin
        /\ s.payload = get_hash_to_sign(Stored(s.id), s.input)

CallbacksOK == \A call \in callbacks : BundleOf(call.data) \in Bundles(Branch) \cup {None}

IInv == InfosOK /\ SigningOK /\ CallbacksOK /\ MinedUnderItsId

LEMMA InitIInv == Init => IInv
  BY DEF Init, IInv, InfosOK, SigningOK, CallbacksOK, MinedUnderItsId

\* A record is added under a new id; of the others at most `canceled` changes.
LEMMA InfoAdded ==
    ASSUME IInv, NEW psbt, IsPsbt(psbt), NEW pid, pid = get_pending_id(psbt),
           pid \notin DOMAIN btc_pending_infos,
           DOMAIN btc_pending_infos' = DOMAIN btc_pending_infos \cup {pid},
           btc_pending_infos' = [id \in DOMAIN btc_pending_infos' |-> btc_pending_infos'[id]],
           IsInfo(btc_pending_infos'[pid]),
           btc_pending_infos'[pid].psbt_hex = serialize(psbt),
           btc_pending_infos'[pid].signatures = {},
           btc_pending_infos'[pid].tx_bytes_with_sign = None,
           \A id \in DOMAIN btc_pending_infos :
                \/ btc_pending_infos'[id] = btc_pending_infos[id]
                \/ btc_pending_infos'[id] = [btc_pending_infos[id] EXCEPT !.canceled = TRUE],
           callbacks' \subseteq callbacks, signing' = signing, mined' = mined
    PROVE  IInv'
  <1>1. InfoOK(pid, btc_pending_infos'[pid])
    BY StoredForm DEF InfoOK, SignsOwn
  <1>2. ASSUME NEW id \in DOMAIN btc_pending_infos
        PROVE  /\ InfoOK(id, btc_pending_infos'[id])
               /\ btc_pending_infos'[id].psbt_hex = btc_pending_infos[id].psbt_hex
    <2>1. PICK info : info = btc_pending_infos[id]
      OBVIOUS
    <2>2. PICK next : next = btc_pending_infos'[id]
      OBVIOUS
    <2>3. InfoOK(id, info)
      BY <2>1 DEF IInv, InfosOK
    <2>4. next = info \/ next = [info EXCEPT !.canceled = TRUE]
      BY <2>1, <2>2
    <2>5. /\ IsInfo(next) /\ next.psbt_hex = info.psbt_hex
          /\ next.signatures = info.signatures
          /\ next.tx_bytes_with_sign = info.tx_bytes_with_sign
      BY <2>3, <2>4 DEF InfoOK, IsInfo
    <2>6. QED
      BY <2>1, <2>2, <2>3, <2>5 DEF InfoOK, SignsOwn
  <1>3. InfosOK'
    BY <1>1, <1>2 DEF InfosOK
  <1>4. SigningOK'
    BY <1>2 DEF SigningOK, Stored, IInv
  <1>5. QED
    BY <1>3, <1>4 DEF IInv, CallbacksOK, MinedUnderItsId

-----------------------------------------------------------------------------
(* The steps.                                                              *)

\* A new record of either kind.
LEMMA InsertInfo ==
    ASSUME IInv, NEW psbt, IsPsbt(psbt), IsNew(psbt),
           NEW kind, NEW role, NEW receivers, NEW gas_fee,
           Insert(psbt, PendingInfo(kind, role, receivers, psbt, gas_fee)),
           callbacks' \subseteq callbacks, signing' = signing, mined' = mined
    PROVE  IInv'
  <1>1. PICK pid : pid = get_pending_id(psbt)
    OBVIOUS
  <1>2. pid \notin DOMAIN btc_pending_infos
    BY <1>1 DEF IsNew
  <1>3. PICK info : info = PendingInfo(kind, role, receivers, psbt, gas_fee)
    OBVIOUS
  <1>4. /\ IsInfo(info) /\ info.psbt_hex = serialize(psbt)
        /\ info.signatures = {} /\ info.tx_bytes_with_sign = None
    BY <1>3 DEF PendingInfo, IsInfo
  <1>5. btc_pending_infos' =
            [id \in DOMAIN btc_pending_infos \cup {pid} |->
                IF id = pid THEN info ELSE btc_pending_infos[id]]
    BY <1>1, <1>3 DEF Insert
  <1>6. /\ DOMAIN btc_pending_infos' = DOMAIN btc_pending_infos \cup {pid}
        /\ btc_pending_infos' = [id \in DOMAIN btc_pending_infos' |-> btc_pending_infos'[id]]
        /\ btc_pending_infos'[pid] = info
        /\ \A id \in DOMAIN btc_pending_infos : btc_pending_infos'[id] = btc_pending_infos[id]
    BY <1>2, <1>5
  <1>7. QED
    BY <1>1, <1>2, <1>4, <1>6, InfoAdded

LEMMA WithdrawIsPsbt ==
    ASSUME IInv, NEW call \in callbacks
    PROVE  IsPsbt(WithdrawPsbt(call))
  <1>0. PICK psbt : psbt = WithdrawPsbt(call)
    OBVIOUS
  <1>1. PICK bundle \in Bundles(Branch) \cup {None} : bundle = BundleOf(call.data)
    BY DEF IInv, CallbacksOK
  <1>2. Value = [c \in Coin |-> CoinValue[c]]
    BY ConstantsAssumption DEF CoinValue
  <1>3. PICK scripts : scripts = [c \in Coin |-> None]
    OBVIOUS
  <1>4. DOMAIN scripts = Coin /\ scripts = [c \in DOMAIN scripts |-> scripts[c]]
    BY <1>3
  <1>5. /\ psbt.orchard = bundle /\ psbt.vin = scripts /\ psbt.inputs_utxo = Value
        /\ psbt = [branch_id     |-> psbt.branch_id,
                   expiry_height |-> psbt.expiry_height,
                   vin           |-> psbt.vin,
                   vout          |-> psbt.vout,
                   inputs_utxo   |-> psbt.inputs_utxo,
                   orchard       |-> psbt.orchard]
    BY <1>0, <1>1, <1>3 DEF WithdrawPsbt, new
  <1>6. QED
    BY <1>0, <1>1, <1>2, <1>4, <1>5 DEF IsPsbt

LEMMA WithdrawIInv ==
    ASSUME IInv, NEW call \in callbacks, ft_on_transfer_callback(call)
    PROVE  IInv'
  <1>1. PICK psbt : psbt = WithdrawPsbt(call)
    OBVIOUS
  <1>2. IsPsbt(psbt)
    BY <1>1, WithdrawIsPsbt
  <1>3. /\ IsNew(psbt)
        /\ Insert(psbt, PendingInfo("withdraw", "original", call.receivers, psbt,
                                    WithdrawGas(psbt)))
        /\ callbacks' \subseteq callbacks /\ signing' = signing /\ mined' = mined
    BY <1>1 DEF ft_on_transfer_callback, WithdrawFits
  <1>4. QED
    BY <1>2, <1>3, InsertInfo

LEMMA RefundIsPsbt ==
    ASSUME IInv, NEW call \in callbacks
    PROVE  IsPsbt(RefundPsbt(call))
  <1>0. PICK psbt : psbt = RefundPsbt(call)
    OBVIOUS
  <1>1. PICK bundle \in Bundles(Branch) \cup {None} : bundle = BundleOf(call.data)
    BY DEF IInv, CallbacksOK
  <1>2. PICK values : values = [c \in {Deposit} |-> DepositValue]
    OBVIOUS
  <1>3. values = [c \in {Deposit} |-> CoinValue[c]]
    BY <1>2 DEF CoinValue
  <1>4. PICK scripts : scripts = [c \in {Deposit} |-> None]
    OBVIOUS
  <1>5. DOMAIN scripts = {Deposit} /\ scripts = [c \in DOMAIN scripts |-> scripts[c]]
    BY <1>4
  <1>6. /\ psbt.orchard = bundle /\ psbt.vin = scripts /\ psbt.inputs_utxo = values
        /\ psbt = [branch_id     |-> psbt.branch_id,
                   expiry_height |-> psbt.expiry_height,
                   vin           |-> psbt.vin,
                   vout          |-> psbt.vout,
                   inputs_utxo   |-> psbt.inputs_utxo,
                   orchard       |-> psbt.orchard]
    BY <1>0, <1>1, <1>2, <1>4 DEF RefundPsbt, new
  <1>7. QED
    BY <1>0, <1>1, <1>3, <1>5, <1>6 DEF IsPsbt

LEMMA RefundIInv ==
    ASSUME IInv, NEW call \in callbacks, execute_refund_callback(call)
    PROVE  IInv'
  <1>1. PICK psbt : psbt = RefundPsbt(call)
    OBVIOUS
  <1>2. IsPsbt(psbt)
    BY <1>1, RefundIsPsbt
  <1>3. /\ IsNew(psbt)
        /\ Insert(psbt, PendingInfo("refund", "original", RefundReceivers, psbt,
                                    refund_gas_fee))
        /\ callbacks' \subseteq callbacks /\ signing' = signing /\ mined' = mined
    BY <1>1 DEF execute_refund_callback, RefundFits
  <1>4. QED
    BY <1>2, <1>3, InsertInfo

\* A replacement takes over the inputs of its original, scripts included.
LEMMA ReplacementIsPsbt ==
    ASSUME IInv, NEW call \in callbacks, ReplacementFits(call)
    PROVE  IsPsbt(ReplacementPsbt(call)) /\ IsNew(ReplacementPsbt(call))
  <1>1. PICK bundle \in Bundles(Branch) \cup {None} : bundle = BundleOf(call.data)
    BY DEF IInv, CallbacksOK
  <1>2. PICK original : original = Stored(call.original)
    OBVIOUS
  <1>3. IsPsbt(original)
    BY <1>2 DEF ReplacementFits, Originals, IInv, InfosOK, InfoOK, SignsOwn, Stored
  <1>4. PICK psbt : psbt = ReplacementPsbt(call)
    OBVIOUS
  <1>5. /\ psbt.orchard = bundle /\ psbt.vin = original.vin
        /\ psbt.inputs_utxo = original.inputs_utxo
        /\ psbt = [branch_id     |-> psbt.branch_id,
                   expiry_height |-> psbt.expiry_height,
                   vin           |-> psbt.vin,
                   vout          |-> psbt.vout,
                   inputs_utxo   |-> psbt.inputs_utxo,
                   orchard       |-> psbt.orchard]
    BY <1>1, <1>2, <1>4 DEF ReplacementPsbt, from_original_psbt
  <1>6. IsPsbt(psbt)
    BY <1>3, <1>5 DEF IsPsbt
  <1>7. QED
    BY <1>4, <1>6 DEF ReplacementFits

LEMMA WithdrawRbfIInv ==
    ASSUME IInv, NEW call \in callbacks, withdraw_rbf_callback(call)
    PROVE  IInv'
  <1>1. PICK psbt : psbt = ReplacementPsbt(call)
    OBVIOUS
  <1>2. IsPsbt(psbt) /\ IsNew(psbt)
    BY <1>1, ReplacementIsPsbt DEF withdraw_rbf_callback, WithdrawRbfFits
  <1>3. PICK receivers : receivers = btc_pending_infos[call.original].receivers
    OBVIOUS
  <1>4. /\ Insert(psbt, PendingInfo("withdraw", "rbf", receivers, psbt, WithdrawGas(psbt)))
        /\ callbacks' \subseteq callbacks /\ signing' = signing /\ mined' = mined
    BY <1>1, <1>3 DEF withdraw_rbf_callback
  <1>5. QED
    BY <1>2, <1>4, InsertInfo

LEMMA CancelWithdrawIInv ==
    ASSUME IInv, NEW call \in callbacks, cancel_withdraw_callback(call)
    PROVE  IInv'
  <1>1. PICK psbt : psbt = ReplacementPsbt(call)
    OBVIOUS
  <1>2. IsPsbt(psbt) /\ IsNew(psbt)
    BY <1>1, ReplacementIsPsbt DEF cancel_withdraw_callback, CancelWithdrawFits
  <1>3. PICK pid : pid = get_pending_id(psbt)
    OBVIOUS
  <1>4. pid \notin DOMAIN btc_pending_infos
    BY <1>2, <1>3 DEF IsNew
  <1>5. PICK original : original = btc_pending_infos[call.original]
    OBVIOUS
  <1>6. PICK info : info = PendingInfo("withdraw", "cancel", original.receivers, psbt,
                                       ChangeGas(psbt))
    OBVIOUS
  <1>7. /\ IsInfo(info) /\ info.psbt_hex = serialize(psbt)
        /\ info.signatures = {} /\ info.tx_bytes_with_sign = None
    BY <1>6 DEF PendingInfo, IsInfo
  <1>8. btc_pending_infos' =
            [id \in DOMAIN btc_pending_infos \cup {pid} |->
                IF id = pid THEN info
                ELSE IF id = call.original THEN [original EXCEPT !.canceled = TRUE]
                ELSE btc_pending_infos[id]]
    BY <1>1, <1>3, <1>5, <1>6 DEF cancel_withdraw_callback
  <1>9. /\ DOMAIN btc_pending_infos' = DOMAIN btc_pending_infos \cup {pid}
        /\ btc_pending_infos' = [id \in DOMAIN btc_pending_infos' |-> btc_pending_infos'[id]]
        /\ btc_pending_infos'[pid] = info
    BY <1>8
  <1>10. \A id \in DOMAIN btc_pending_infos :
            \/ btc_pending_infos'[id] = btc_pending_infos[id]
            \/ btc_pending_infos'[id] = [btc_pending_infos[id] EXCEPT !.canceled = TRUE]
    BY <1>4, <1>5, <1>8
  <1>11. callbacks' \subseteq callbacks /\ signing' = signing /\ mined' = mined
    BY DEF cancel_withdraw_callback
  <1>12. QED
    BY <1>2, <1>3, <1>4, <1>7, <1>9, <1>10, <1>11, InfoAdded

\* A signature is stored: `next` is the record of `psbt` after it, for `signed`.
SignsRecord(s, info, psbt, next, signed) ==
    /\ s.id \in DOMAIN btc_pending_infos /\ s.input \in DOMAIN psbt.vin
    /\ s.payload = get_hash_to_sign(psbt, s.input)
    /\ info = btc_pending_infos[s.id] /\ psbt = Stored(s.id)
    /\ IsInfo(info) /\ SignsOwn(s.id, info, psbt)
    /\ next.kind = info.kind /\ next.role = info.role /\ next.gas_fee = info.gas_fee
    /\ IsInfo(next) /\ SignsOwn(s.id, next, signed)
    /\ deserialize(next.psbt_hex) = signed
    /\ signed = save_signature(psbt, s.input, s.payload)
    /\ DOMAIN btc_pending_infos' = DOMAIN btc_pending_infos
    /\ btc_pending_infos' = [id \in DOMAIN btc_pending_infos' |-> btc_pending_infos'[id]]
    /\ btc_pending_infos'[s.id] = next
    /\ \A id \in DOMAIN btc_pending_infos :
           id # s.id => btc_pending_infos'[id] = btc_pending_infos[id]

LEMMA SignStep ==
    ASSUME IInv, NEW s \in signing, sign_btc_transaction_callback(s)
    PROVE  \E info, psbt, next, signed : SignsRecord(s, info, psbt, next, signed)
  <1>1. PICK sid : sid = s.id
    OBVIOUS
  <1>2. PICK coin : coin = s.input
    OBVIOUS
  <1>3. PICK payload : payload = s.payload
    OBVIOUS
  <1>4. PICK info : info = btc_pending_infos[sid]
    OBVIOUS
  <1>5. PICK psbt : psbt = Stored(sid)
    OBVIOUS
  <1>6. /\ sid \in DOMAIN btc_pending_infos /\ coin \in DOMAIN psbt.vin
        /\ payload = get_hash_to_sign(psbt, coin)
    BY <1>1, <1>2, <1>3, <1>5 DEF IInv, SigningOK
  <1>7. IsInfo(info) /\ SignsOwn(sid, info, psbt)
    BY <1>4, <1>5, <1>6 DEF IInv, InfosOK, InfoOK, Stored
  <1>8. PICK signed : signed = save_signature(psbt, coin, payload)
    OBVIOUS
  <1>9. PICK signatures : signatures = info.signatures \cup {coin}
    OBVIOUS
  <1>10. PICK hex : hex = serialize(signed)
    OBVIOUS
  <1>11. PICK tx : tx = IF signatures = DOMAIN signed.vin THEN get_zcash_tx(signed) ELSE None
    OBVIOUS
  <1>12. PICK next : next = [info EXCEPT !.signatures = signatures, !.psbt_hex = hex,
                                         !.tx_bytes_with_sign = tx]
    OBVIOUS
  <1>13. /\ next.psbt_hex = hex /\ next.signatures = signatures
         /\ next.tx_bytes_with_sign = tx /\ IsInfo(next)
         /\ next.kind = info.kind /\ next.role = info.role /\ next.gas_fee = info.gas_fee
    BY <1>7, <1>12 DEF IsInfo
  <1>14. btc_pending_infos' = [btc_pending_infos EXCEPT ![sid] = next]
    BY <1>1, <1>2, <1>3, <1>4, <1>5, <1>8, <1>9, <1>10, <1>11, <1>12
    DEF sign_btc_transaction_callback
  <1>15. /\ IsPsbt(signed) /\ DOMAIN signed.vin = DOMAIN psbt.vin
         /\ get_pending_id(signed) = get_pending_id(psbt)
         /\ \A c : get_hash_to_sign(signed, c) = get_hash_to_sign(psbt, c)
         /\ signed.vin[coin] = payload
         /\ \A c \in DOMAIN psbt.vin : c # coin => signed.vin[c] = psbt.vin[c]
    BY <1>6, <1>7, <1>8, SaveSignature DEF SignsOwn
  <1>16. deserialize(hex) = signed
    BY <1>10, <1>15, StoredForm
  <1>17. SignsOwn(sid, next, signed)
    BY <1>6, <1>7, <1>9, <1>11, <1>13, <1>15 DEF SignsOwn
  <1>18. /\ DOMAIN btc_pending_infos' = DOMAIN btc_pending_infos
         /\ btc_pending_infos' = [id \in DOMAIN btc_pending_infos' |-> btc_pending_infos'[id]]
         /\ btc_pending_infos'[sid] = next
         /\ \A id \in DOMAIN btc_pending_infos :
                id # sid => btc_pending_infos'[id] = btc_pending_infos[id]
    BY <1>6, <1>14 DEF IInv, InfosOK
  <1>19. SignsRecord(s, info, psbt, next, signed)
    BY <1>1, <1>2, <1>3, <1>4, <1>5, <1>6, <1>7, <1>8, <1>13, <1>16, <1>17, <1>18
    DEF SignsRecord
  <1>20. QED
    BY <1>19

\* What other calls in flight carry stays right, those for other inputs of the
\* same transaction included.
LEMMA SignIInv ==
    ASSUME IInv, NEW s \in signing, sign_btc_transaction_callback(s)
    PROVE  IInv'
  <1>1. PICK info, psbt, next, signed : SignsRecord(s, info, psbt, next, signed)
    BY SignStep
  <1>2. /\ DOMAIN btc_pending_infos' = DOMAIN btc_pending_infos
        /\ btc_pending_infos' = [id \in DOMAIN btc_pending_infos' |-> btc_pending_infos'[id]]
        /\ btc_pending_infos'[s.id] = next /\ deserialize(next.psbt_hex) = signed
        /\ IsInfo(next) /\ SignsOwn(s.id, next, signed)
        /\ psbt = Stored(s.id)
        /\ \A id \in DOMAIN btc_pending_infos :
               id # s.id => btc_pending_infos'[id] = btc_pending_infos[id]
    BY <1>1 DEF SignsRecord
  <1>3. DOMAIN signed.vin = DOMAIN psbt.vin
        /\ \A c : get_hash_to_sign(signed, c) = get_hash_to_sign(psbt, c)
    BY <1>1, SaveSignature DEF SignsRecord, SignsOwn
  <1>4. InfosOK'
    BY <1>2 DEF IInv, InfosOK, InfoOK
  <1>5. SigningOK'
    <2>1. SUFFICES ASSUME NEW r \in signing
                   PROVE  /\ r.id \in DOMAIN btc_pending_infos'
                          /\ r.input \in DOMAIN Stored(r.id)'.vin
                          /\ r.payload = get_hash_to_sign(Stored(r.id)', r.input)
      BY DEF SigningOK, Stored, sign_btc_transaction_callback, get_hash_to_sign, tx_digest,
             to_zcash_tx
    <2>2. /\ r.id \in DOMAIN btc_pending_infos /\ r.input \in DOMAIN Stored(r.id).vin
          /\ r.payload = get_hash_to_sign(Stored(r.id), r.input)
      BY DEF IInv, SigningOK
    <2>3. CASE r.id = s.id
      <3>1. Stored(r.id)' = signed
        BY <1>2, <2>3 DEF Stored
      <3>2. QED
        BY <1>2, <1>3, <2>2, <2>3, <3>1
    <2>4. CASE r.id # s.id
      <3>1. Stored(r.id)' = Stored(r.id)
        BY <1>2, <2>2, <2>4 DEF Stored
      <3>2. QED
        BY <1>2, <2>2, <3>1
    <2>5. QED
      BY <2>3, <2>4
  <1>6. callbacks' = callbacks /\ mined' = mined
    BY DEF sign_btc_transaction_callback
  <1>7. QED
    BY <1>4, <1>5, <1>6 DEF IInv, CallbacksOK, MinedUnderItsId

LEMMA MineIInv ==
    ASSUME IInv, NEW id \in DOMAIN btc_pending_infos, Mine(id)
    PROVE  IInv'
  <1>1. PICK tx : tx = btc_pending_infos[id].tx_bytes_with_sign
    OBVIOUS
  <1>2. tx = get_zcash_tx(Stored(id)) /\ get_pending_id(Stored(id)) = id
    BY <1>1 DEF Mine, IInv, InfosOK, InfoOK, SignsOwn, Stored
  <1>3. compute_txid(tx) = id
    BY <1>2 DEF get_pending_id
  <1>4. mined' = mined \cup {[id |-> id, tx |-> tx, height |-> tip + 1]}
    BY <1>1 DEF Mine
  <1>5. MinedUnderItsId'
    BY <1>3, <1>4 DEF IInv, MinedUnderItsId
  <1>6. UNCHANGED <<btc_pending_infos, signing, callbacks>>
    BY DEF Mine
  <1>7. QED
    BY <1>5, <1>6 DEF IInv, InfosOK, SigningOK, CallbacksOK, Stored

\* Whatever leaves the records and the chain alone, and takes calls away.
LEMMA OtherIInv ==
    ASSUME IInv, UNCHANGED <<btc_pending_infos, mined>>,
           callbacks' \subseteq callbacks, signing' \subseteq signing
    PROVE  IInv'
  BY DEF IInv, InfosOK, SigningOK, CallbacksOK, MinedUnderItsId, Stored

LEMMA AskIInv ==
    ASSUME IInv, NEW call, Ask(call), call.data \in ChainSpecificData \cup {None}
    PROVE  IInv'
  <1>1. BundleOf(call.data) \in Bundles(Branch) \cup {None}
    BY BundlesTyped DEF BundleOf
  <1>2. callbacks' = callbacks \cup {call}
    BY DEF Ask
  <1>3. CallbacksOK'
    BY <1>1, <1>2 DEF IInv, CallbacksOK
  <1>4. UNCHANGED <<btc_pending_infos, signing, mined>>
    BY DEF Ask
  <1>5. QED
    BY <1>3, <1>4 DEF IInv, InfosOK, SigningOK, MinedUnderItsId, Stored

LEMMA SendIInv ==
    ASSUME IInv, NEW id \in DOMAIN btc_pending_infos, NEW coin \in DOMAIN Stored(id).vin,
           sign_btc_transaction(id, coin)
    PROVE  IInv'
  <1>1. PICK s : s = [id |-> id, input |-> coin, payload |-> get_hash_to_sign(Stored(id), coin)]
    OBVIOUS
  <1>2. signing' = signing \cup {s} /\ UNCHANGED <<btc_pending_infos, callbacks, mined>>
    BY <1>1 DEF sign_btc_transaction
  <1>3. s.id = id /\ s.input = coin /\ s.payload = get_hash_to_sign(Stored(id), coin)
    BY <1>1
  <1>4. \A i : Stored(i)' = Stored(i)
    BY <1>2 DEF Stored
  <1>5. SigningOK'
    BY <1>2, <1>3, <1>4 DEF IInv, SigningOK, get_hash_to_sign, tx_digest, to_zcash_tx, Stored
  <1>6. QED
    BY <1>2, <1>5 DEF IInv, InfosOK, CallbacksOK, MinedUnderItsId

LEMMA NextIInv ==
    ASSUME IInv, [Next]_vars
    PROVE  IInv'
  <1>1. CASE EmptyBlock \/ LightClientAdvances \/ UNCHANGED vars
    BY <1>1, OtherIInv DEF EmptyBlock, LightClientAdvances, vars
  <1>2. ASSUME NEW id \in DOMAIN btc_pending_infos, Mine(id)
        PROVE  IInv'
    BY <1>2, MineIInv
  <1>3. CASE ft_on_transfer
    <2>1. PICK vout \in Vout, data \in ChainSpecificData \cup {None}, receivers \in Receivers :
            Ask([method |-> "ft_on_transfer_callback", vout |-> vout, data |-> data,
                 receivers |-> receivers, height |-> last_block_height])
      BY <1>3 DEF ft_on_transfer
    <2>2. PICK call : /\ call = [method |-> "ft_on_transfer_callback", vout |-> vout,
                                 data |-> data, receivers |-> receivers,
                                 height |-> last_block_height]
                      /\ Ask(call)
      BY <2>1
    <2>3. QED
      BY <2>2, AskIInv
  <1>4. CASE withdraw_rbf
    <2>1. PICK original \in Originals, vout \in Vout, data \in ChainSpecificData \cup {None} :
            Ask([method |-> "withdraw_rbf_callback", original |-> original, vout |-> vout,
                 data |-> data, height |-> last_block_height])
      BY <1>4 DEF withdraw_rbf
    <2>2. PICK call : /\ call = [method |-> "withdraw_rbf_callback", original |-> original,
                                 vout |-> vout, data |-> data, height |-> last_block_height]
                      /\ Ask(call)
      BY <2>1
    <2>3. QED
      BY <2>2, AskIInv
  <1>5. CASE cancel_withdraw
    <2>1. PICK original \in Originals, vout \in Vout :
            Ask([method |-> "cancel_withdraw_callback", original |-> original, vout |-> vout,
                 data |-> None, height |-> last_block_height])
      BY <1>5 DEF cancel_withdraw
    <2>2. PICK call : /\ call = [method |-> "cancel_withdraw_callback", original |-> original,
                                 vout |-> vout, data |-> None, height |-> last_block_height]
                      /\ Ask(call)
      BY <2>1
    <2>3. QED
      BY <2>2, AskIInv
  <1>6. CASE execute_refund
    <2>1. PICK data \in ChainSpecificData \cup {None} :
            Ask([method |-> "execute_refund_callback", data |-> data,
                 height |-> last_block_height])
      BY <1>6 DEF execute_refund
    <2>2. PICK call : /\ call = [method |-> "execute_refund_callback", data |-> data,
                                 height |-> last_block_height]
                      /\ Ask(call)
      BY <2>1
    <2>3. QED
      BY <2>2, AskIInv
  <1>7. ASSUME NEW call \in callbacks,
               \/ ft_on_transfer_callback(call) \/ withdraw_rbf_callback(call)
               \/ cancel_withdraw_callback(call) \/ execute_refund_callback(call)
               \/ CallbackPanics(call)
        PROVE  IInv'
    <2>1. CASE CallbackPanics(call)
      BY <2>1, OtherIInv DEF CallbackPanics
    <2>2. QED
      BY <1>7, <2>1, WithdrawIInv, WithdrawRbfIInv, CancelWithdrawIInv, RefundIInv
  <1>8. ASSUME NEW id \in DOMAIN btc_pending_infos, NEW coin \in DOMAIN Stored(id).vin,
               sign_btc_transaction(id, coin)
        PROVE  IInv'
    BY <1>8, SendIInv
  <1>9. ASSUME NEW s \in signing, sign_btc_transaction_callback(s) \/ SignFails(s)
        PROVE  IInv'
    <2>1. CASE SignFails(s)
      BY <2>1, OtherIInv DEF SignFails
    <2>2. QED
      BY <1>9, <2>1, SignIInv
  <1>10. QED
    BY <1>1, <1>2, <1>3, <1>4, <1>5, <1>6, <1>7, <1>8, <1>9 DEF Next

LEMMA TransactionInv == Spec => []IInv
  <1>1. IInv /\ [Next]_vars => IInv'
    BY NextIInv
  <1>2. QED
    BY <1>1, InitIInv, PTL DEF Spec

\* The id a record got before anything was signed is the id of the transaction
\* on the chain, for every list of upgrades: neither a signature nor the stored
\* form changes what the id commits to.
THEOREM IdsAreKept == Spec => []MinedUnderItsId
  <1>1. IInv => MinedUnderItsId
    BY DEF IInv
  <1>2. QED
    BY <1>1, TransactionInv, PTL

\* Whatever was answered late, replaced or upgraded in between, each signature a
\* record holds is over the digest the network computes of what it sends.
THEOREM SignedIsSent == Spec => []SignaturesAreValid
  <1>1. IInv => SignaturesAreValid
    <2>1. SUFFICES ASSUME IInv, NEW id \in DOMAIN btc_pending_infos,
                          NEW c \in btc_pending_infos[id].signatures
                   PROVE  get_zcash_tx(Stored(id)).vin[c]
                              = sighash(get_zcash_tx(Stored(id)), c)
      BY DEF SignaturesAreValid
    <2>2. PICK psbt : psbt = Stored(id)
      OBVIOUS
    <2>3. SignsOwn(id, btc_pending_infos[id], psbt)
      BY <2>1, <2>2 DEF IInv, InfosOK, InfoOK, Stored
    <2>4. psbt.vin[c] = sighash(get_zcash_tx(psbt), c)
      BY <2>3, SignedIsChecked DEF SignsOwn
    <2>5. get_zcash_tx(psbt).vin = psbt.vin
      BY DEF get_zcash_tx
    <2>6. QED
      BY <2>2, <2>4, <2>5
  <1>2. QED
    BY <1>1, TransactionInv, PTL

-----------------------------------------------------------------------------
(* The money: what a transaction pays is decided when it is written, from   *)
(* the checks of the caller's outputs and bundle; signatures, cancellations *)
(* and the stored form leave it alone.                                      *)

Kinds == {"withdraw", "refund"}

InputsOf(kind) == IF kind = "withdraw" THEN Coin ELSE {Deposit}

\* The transaction gives `due` to the user, nothing to others, and `gas_fee` to
\* the miners.
Pays(tx, due, gas_fee) ==
    /\ ReceivedBy(tx, "user") = due
    /\ ReceivedBy(tx, "other") = 0
    /\ LeftToMiners(tx) = gas_fee

\* A refund that was ever executed leaves an amount and a fee that suffice.
RefundSuffices == RefundAmount >= min_change_amount /\ refund_gas_fee >= 2

\* A record's psbt spends the coins of its kind and pays what the record says.
MoneyOK(info, psbt) ==
    /\ info.kind \in Kinds
    /\ info.kind = "refund" => RefundSuffices
    /\ DOMAIN psbt.vin = InputsOf(info.kind)
    /\ psbt.vout \in Seq([to : Addressee, value : Nat])
    /\ Pays(get_zcash_tx(psbt), DueToUser(info), info.gas_fee)

\* What a call brings is what its caller could ask for.
CallTyped(call) ==
    /\ call.data # None => call.data.bundle \in Bundles(Branch)
    /\ call.method # "execute_refund_callback" => call.vout \in Vout
    /\ call.method = "cancel_withdraw_callback" => call.data = None

MoneyInv ==
    /\ \A id \in DOMAIN btc_pending_infos : MoneyOK(btc_pending_infos[id], Stored(id))
    /\ \A call \in callbacks : CallTyped(call)

LEMMA BundleInTx == \A psbt : Bundle(get_zcash_tx(psbt)) = psbt.orchard
  <1>1. SUFFICES ASSUME NEW psbt PROVE Bundle(get_zcash_tx(psbt)) = psbt.orchard
    OBVIOUS
  <1>2. CASE is_ironwood(psbt.branch_id)
    BY <1>2 DEF Bundle, get_zcash_tx
  <1>3. CASE ~is_ironwood(psbt.branch_id)
    BY <1>3 DEF Bundle, get_zcash_tx
  <1>4. QED
    BY <1>2, <1>3

LEMMA NoneIsNoBundle == None \notin Bundles(Branch)
  BY BundlesAssumption

LEMMA BundleTyped ==
    ASSUME NEW bundle \in Bundles(Branch)
    PROVE  bundle.amount \in Nat /\ bundle.value_balance \in Int
  <1>1. PICK o \in Orchard, b \in Branch :
            bundle = [to |-> o.to, amount |-> o.amount, value_balance |-> o.value_balance,
                      branch |-> b]
    BY DEF Bundles
  <1>2. o \in [to : Addressee, amount : Nat, value_balance : Int]
    BY ConstantsAssumption
  <1>3. QED
    BY <1>1, <1>2

LEMMA SequenceElements ==
    ASSUME NEW S, NEW s \in Seq(S)
    PROVE  /\ IsFiniteSet(DOMAIN s)
           /\ \A i \in DOMAIN s : s[i] \in S
  <1>1. DOMAIN s = 1..Len(s) /\ Len(s) \in Nat
    OBVIOUS
  <1>2. IsFiniteSet(1..Len(s))
    BY <1>1, FS_Interval
  <1>3. QED
    BY <1>1, <1>2

\* Sums over outputs are numbers.
LEMMA OutputsTyped ==
    ASSUME NEW psbt, psbt.vout \in Seq([to : Addressee, value : Nat])
    PROVE  /\ \A to : Outputs(psbt, to) \subseteq DOMAIN psbt.vout
           /\ \A i \in DOMAIN psbt.vout : psbt.vout[i].to \in Addressee
           /\ \A I \in SUBSET DOMAIN psbt.vout : ValueOut(psbt, I) \in Nat
  <1>1. /\ IsFiniteSet(DOMAIN psbt.vout)
        /\ \A i \in DOMAIN psbt.vout : psbt.vout[i] \in [to : Addressee, value : Nat]
    BY SequenceElements
  <1>2. ASSUME NEW I \in SUBSET DOMAIN psbt.vout
        PROVE  ValueOut(psbt, I) \in Nat
    <2> DEFINE values == [i \in DOMAIN psbt.vout |-> psbt.vout[i].value]
    <2>1. IsFiniteSet(I)
      BY <1>1, FS_Subset
    <2>2. \A i \in I : values[i] \in Nat
      BY <1>1
    <2> HIDE DEF values
    <2>3. SumFunctionOnSet(values, I) \in Nat
      BY <2>1, <2>2, SumNat
    <2>4. QED
      BY <2>3 DEF values, ValueOut
  <1>3. QED
    BY <1>1, <1>2 DEF Outputs

\* The transaction has the outputs of its psbt.
LEMMA OutputsOfTx ==
    ASSUME NEW psbt, NEW tx, tx = get_zcash_tx(psbt)
    PROVE  /\ \A to : Outputs(tx, to) = Outputs(psbt, to)
           /\ \A I : ValueOut(tx, I) = ValueOut(psbt, I)
           /\ tx.vin = psbt.vin /\ tx.vout = psbt.vout
  <1>1. tx.vout = psbt.vout /\ tx.vin = psbt.vin
    BY DEF get_zcash_tx
  <1>2. QED
    BY <1>1 DEF Outputs, ValueOut

\* The values recorded of the inputs are those of the coins.
LEMMA InputsSum ==
    ASSUME NEW psbt, IsPsbt(psbt), NEW kind \in Kinds, DOMAIN psbt.vin = InputsOf(kind)
    PROVE  /\ InputAmount(psbt) = SumFunctionOnSet(CoinValue, DOMAIN psbt.vin)
           /\ InputAmount(psbt) \in Nat
           /\ kind = "refund" => InputAmount(psbt) = DepositValue
  <1>1. IsFiniteSet(DOMAIN psbt.vin) /\ DOMAIN psbt.vin \subseteq Coin \cup {Deposit}
    <2>1. IsFiniteSet({Deposit}) /\ IsFiniteSet(Coin)
      BY FS_Singleton, ConstantsAssumption
    <2>2. InputsOf(kind) \in {Coin, {Deposit}}
      BY DEF InputsOf
    <2>3. QED
      BY <2>1, <2>2
  <1>2. /\ \A c \in Coin : CoinValue[c] \in Nat
        /\ CoinValue[Deposit] = DepositValue /\ DepositValue \in Nat
    BY ConstantsAssumption DEF CoinValue, Coin
  <1>3. \A c \in DOMAIN psbt.vin : psbt.inputs_utxo[c] = CoinValue[c]
    BY DEF IsPsbt
  <1>4. \A c \in DOMAIN psbt.vin : CoinValue[c] \in Nat
    BY <1>1, <1>2
  <1>5. SumFunctionOnSet(psbt.inputs_utxo, DOMAIN psbt.vin)
            = SumFunctionOnSet(CoinValue, DOMAIN psbt.vin)
    BY <1>1, <1>3, SumSame
  <1>6. SumFunctionOnSet(CoinValue, DOMAIN psbt.vin) \in Nat
    BY <1>1, <1>4, SumNat
  <1>7. ASSUME kind = "refund"
        PROVE  SumFunctionOnSet(CoinValue, DOMAIN psbt.vin) = DepositValue
    BY <1>2, <1>7, SumOne DEF InputsOf
  <1>8. QED
    BY <1>5, <1>6, <1>7 DEF InputAmount

LEMMA MaxOfTwo ==
    ASSUME NEW m \in Int, NEW n \in Int
    PROVE  Max({m, n}) = IF m >= n THEN m ELSE n
  BY DEF Max

\* The fee for a transparent transaction, whose inputs and outputs weigh alike.
LEMMA MinFee ==
    ASSUME NEW psbt, IsFiniteSet(DOMAIN psbt.vin),
           psbt.vout \in Seq([to : Addressee, value : Nat])
    PROVE  /\ get_min_fee(psbt) \in Int /\ get_min_fee(psbt) >= 2
           /\ psbt.orchard = None =>
                 \A fee \in Int :
                    /\ fee >= 2 /\ fee >= Cardinality(DOMAIN psbt.vin)
                    /\ fee >= Len(psbt.vout)
                    => fee >= get_min_fee(psbt)
  <1>1. PICK inputs \in Nat : inputs = Cardinality(DOMAIN psbt.vin)
    BY FS_CardinalityType
  <1>2. PICK outputs \in Nat : outputs = Len(psbt.vout)
    OBVIOUS
  <1>3. PICK actions \in {0, 1} : actions = IF psbt.orchard = None THEN 0 ELSE 1
    OBVIOUS
  <1>4. PICK most \in Int :
            most = Max({inputs, outputs}) /\ (most = inputs \/ most = outputs)
    BY MaxOfTwo
  <1>5. get_min_fee(psbt) = Max({2, most + actions})
    BY <1>1, <1>2, <1>3, <1>4 DEF get_min_fee
  <1>6. get_min_fee(psbt) = IF 2 >= most + actions THEN 2 ELSE most + actions
    BY <1>5, MaxOfTwo
  <1>7. ASSUME psbt.orchard = None, NEW fee \in Int,
               fee >= 2, fee >= Cardinality(DOMAIN psbt.vin), fee >= Len(psbt.vout)
        PROVE  fee >= get_min_fee(psbt)
    <2>1. actions = 0
      BY <1>3, <1>7
    <2>2. fee >= inputs /\ fee >= outputs
      BY <1>1, <1>2, <1>7
    <2>3. fee >= most
      BY <1>4, <2>2
    <2>4. QED
      BY <1>6, <1>7, <2>1, <2>3
  <1>8. get_min_fee(psbt) \in Int /\ get_min_fee(psbt) >= 2
    BY <1>3, <1>4, <1>6
  <1>9. QED
    BY <1>7, <1>8

\* What it takes to pay right, in terms of the psbt.
LEMMA PaysByPsbt ==
    ASSUME NEW psbt, IsPsbt(psbt), NEW kind \in Kinds, DOMAIN psbt.vin = InputsOf(kind),
           psbt.vout \in Seq([to : Addressee, value : Nat]),
           NEW due, NEW gas_fee,
           Outputs(psbt, "other") = {},
           psbt.orchard # None => psbt.orchard.to = "user"
                                  /\ psbt.orchard.value_balance = -psbt.orchard.amount,
           due = ValueOut(psbt, Outputs(psbt, "user")) + add_extra_outputs(psbt),
           gas_fee = InputAmount(psbt) - ValueOut(psbt, DOMAIN psbt.vout)
                     - add_extra_outputs(psbt)
    PROVE  Pays(get_zcash_tx(psbt), due, gas_fee)
  <1>1. PICK tx : tx = get_zcash_tx(psbt)
    OBVIOUS
  <1>2. Bundle(tx) = psbt.orchard
    BY <1>1, BundleInTx
  <1>3. /\ \A to : Outputs(tx, to) = Outputs(psbt, to)
        /\ \A I : ValueOut(tx, I) = ValueOut(psbt, I)
        /\ tx.vin = psbt.vin /\ tx.vout = psbt.vout
    BY <1>1, OutputsOfTx
  <1>4. /\ ValueOut(psbt, Outputs(psbt, "user")) \in Nat
        /\ ValueOut(psbt, DOMAIN psbt.vout) \in Nat
    BY OutputsTyped
  <1>5. ValueOut(psbt, {}) = 0
    BY SumEmpty DEF ValueOut
  <1>6. /\ InputAmount(psbt) = SumFunctionOnSet(CoinValue, DOMAIN psbt.vin)
        /\ InputAmount(psbt) \in Nat
    BY InputsSum
  <1>7. CASE psbt.orchard = None
    <2>1. add_extra_outputs(psbt) = 0
      BY <1>7 DEF add_extra_outputs
    <2>2. \A to : ReceivedBy(tx, to) = ValueOut(psbt, Outputs(psbt, to)) + 0
      BY <1>2, <1>3, <1>7 DEF ReceivedBy
    <2>3. LeftToMiners(tx) = gas_fee
      BY <1>2, <1>3, <1>4, <1>6, <1>7, <2>1 DEF LeftToMiners
    <2>4. QED
      <3>1. ValueOut(psbt, Outputs(psbt, "other")) = 0
        BY <1>5, Zenon
      <3>2. QED
        BY <1>1, <1>4, <2>1, <2>2, <2>3, <3>1 DEF Pays
  <1>8. CASE psbt.orchard # None
    <2>1. PICK value \in Nat : value = psbt.orchard.amount
      BY <1>8, BundleTyped DEF IsPsbt
    <2>2. add_extra_outputs(psbt) = value
      BY <1>8, <2>1 DEF add_extra_outputs
    <2>3. Bundle(tx) # None /\ Bundle(tx).to = "user" /\ Bundle(tx).amount = value
          /\ Bundle(tx).value_balance = -value
      BY <1>2, <1>8, <2>1
    <2>4. /\ ReceivedBy(tx, "user") = ValueOut(psbt, Outputs(psbt, "user")) + value
          /\ ReceivedBy(tx, "other") = ValueOut(psbt, Outputs(psbt, "other")) + 0
      BY <1>3, <2>3 DEF ReceivedBy
    <2>5. LeftToMiners(tx) = gas_fee
      BY <1>3, <1>4, <1>6, <2>2, <2>3 DEF LeftToMiners
    <2>6. QED
      <3>1. ValueOut(psbt, Outputs(psbt, "other")) = 0
        BY <1>5, Zenon
      <3>2. QED
        BY <1>1, <1>4, <2>2, <2>4, <2>5, <3>1 DEF Pays
  <1>9. QED
    BY <1>7, <1>8

\* check_withdraw_psbt leaves an output that is the user's or change, and a
\* user without a transparent receiver has none.
LEMMA WithdrawPays ==
    ASSUME NEW psbt, IsPsbt(psbt), DOMAIN psbt.vin = Coin,
           psbt.vout \in Seq([to : Addressee, value : Nat]),
           NEW receivers, check_withdraw_psbt(psbt, receivers)
    PROVE  Pays(get_zcash_tx(psbt), amount - withdraw_fee - WithdrawGas(psbt),
                WithdrawGas(psbt))
  <1>1. /\ UserOutputs(psbt, receivers) \cup Outputs(psbt, "bridge") = DOMAIN psbt.vout
        /\ WithdrawReceived(psbt, receivers) = amount - withdraw_fee - WithdrawGas(psbt)
        /\ psbt.orchard # None => psbt.orchard.to = "user"
                                  /\ psbt.orchard.value_balance = -psbt.orchard.amount
    BY DEF check_withdraw_psbt, check_psbt_chain_specific, validate_orchard_bundle
  <1>2. /\ UserOutputs(psbt, receivers) = Outputs(psbt, "user")
        /\ Outputs(psbt, "other") = {}
    BY <1>1 DEF UserOutputs, Outputs
  <1>3. "withdraw" \in Kinds /\ DOMAIN psbt.vin = InputsOf("withdraw")
    BY DEF Kinds, InputsOf
  <1>4. QED
    BY <1>1, <1>2, <1>3, PaysByPsbt DEF WithdrawReceived, WithdrawGas

\* A cancellation brings no bundle and writes only change.
LEMMA CancelPays ==
    ASSUME NEW psbt, IsPsbt(psbt), DOMAIN psbt.vin = Coin, psbt.orchard = None,
           psbt.vout \in Seq([to : Addressee, value : Nat]),
           check_psbt_output_all_change_address(psbt)
    PROVE  Pays(get_zcash_tx(psbt), 0, ChangeGas(psbt))
  <1>1. Outputs(psbt, "bridge") = DOMAIN psbt.vout
    BY DEF check_psbt_output_all_change_address
  <1>2. Outputs(psbt, "user") = {} /\ Outputs(psbt, "other") = {}
    BY <1>1 DEF Outputs
  <1>3. "withdraw" \in Kinds /\ DOMAIN psbt.vin = InputsOf("withdraw")
    BY DEF Kinds, InputsOf
  <1>4. add_extra_outputs(psbt) = 0 /\ ValueOut(psbt, {}) = 0
    BY SumEmpty DEF add_extra_outputs, ValueOut
  <1>5. ValueOut(psbt, DOMAIN psbt.vout) \in Nat /\ InputAmount(psbt) \in Nat
    BY <1>3, OutputsTyped, InputsSum
  <1>6. ChangeGas(psbt) = InputAmount(psbt) - ValueOut(psbt, DOMAIN psbt.vout)
                          - add_extra_outputs(psbt)
    BY <1>4, <1>5 DEF ChangeGas
  <1>7. 0 = ValueOut(psbt, Outputs(psbt, "user")) + add_extra_outputs(psbt)
    <2>1. ValueOut(psbt, Outputs(psbt, "user")) = 0
      BY <1>2, <1>4, Zenon
    <2>2. QED
      BY <1>4, <2>1
  <1>8. QED
    BY <1>2, <1>3, <1>6, <1>7, PaysByPsbt

\* A refund pays in one output, or in a bundle of the same amount.
LEMMA RefundPays ==
    ASSUME NEW psbt, IsPsbt(psbt), DOMAIN psbt.vin = {Deposit}, RefundAmount \in Nat,
           \/ psbt.orchard = None /\ psbt.vout = <<[to |-> "user", value |-> RefundAmount]>>
           \/ /\ psbt.orchard # None /\ psbt.vout = <<>>
              /\ psbt.orchard.to = "user" /\ psbt.orchard.amount = RefundAmount
              /\ psbt.orchard.value_balance = -psbt.orchard.amount
    PROVE  /\ psbt.vout \in Seq([to : Addressee, value : Nat])
           /\ Pays(get_zcash_tx(psbt), RefundAmount, refund_gas_fee)
  <1>1. /\ "refund" \in Kinds /\ DOMAIN psbt.vin = InputsOf("refund")
        /\ InputAmount(psbt) = DepositValue
    BY InputsSum DEF Kinds, InputsOf
  <1>2. DepositValue \in Nat /\ refund_gas_fee \in Nat
    BY ConstantsAssumption
  <1>3. ValueOut(psbt, {}) = 0
    BY SumEmpty DEF ValueOut
  <1>4. CASE psbt.orchard = None /\ psbt.vout = <<[to |-> "user", value |-> RefundAmount]>>
    <2>1. PICK output : output = [to |-> "user", value |-> RefundAmount]
      OBVIOUS
    <2>2. output \in [to : Addressee, value : Nat] /\ psbt.vout = <<output>>
      BY <1>4, <2>1 DEF Addressee
    <2>3. /\ psbt.vout \in Seq([to : Addressee, value : Nat])
          /\ DOMAIN psbt.vout = {1} /\ psbt.vout[1] = output
      BY <2>2
    <2>4. Outputs(psbt, "user") = {1} /\ Outputs(psbt, "other") = {}
      BY <2>1, <2>3 DEF Outputs
    <2>5. ValueOut(psbt, {1}) = RefundAmount
      <3> DEFINE values == [i \in DOMAIN psbt.vout |-> psbt.vout[i].value]
      <3>1. values[1] = RefundAmount
        BY <2>1, <2>3
      <3> HIDE DEF values
      <3>2. SumFunctionOnSet(values, {1}) = RefundAmount
        BY <3>1, SumOne
      <3>3. QED
        BY <3>2 DEF values, ValueOut
    <2>6. add_extra_outputs(psbt) = 0
      BY <1>4 DEF add_extra_outputs
    <2>7. RefundAmount = ValueOut(psbt, Outputs(psbt, "user")) + add_extra_outputs(psbt)
      <3>1. ValueOut(psbt, Outputs(psbt, "user")) = RefundAmount
        BY <2>4, <2>5, Zenon
      <3>2. QED
        BY <2>6, <3>1
    <2>8. refund_gas_fee = DepositValue - RefundAmount - 0
      BY <1>2 DEF RefundAmount
    <2>9. refund_gas_fee = InputAmount(psbt) - ValueOut(psbt, DOMAIN psbt.vout)
                           - add_extra_outputs(psbt)
      BY <1>1, <2>3, <2>5, <2>6, <2>8
    <2>10. QED
      BY <1>1, <1>4, <2>3, <2>4, <2>7, <2>9, PaysByPsbt
  <1>5. CASE /\ psbt.orchard # None /\ psbt.vout = <<>>
             /\ psbt.orchard.to = "user" /\ psbt.orchard.amount = RefundAmount
             /\ psbt.orchard.value_balance = -psbt.orchard.amount
    <2>1. psbt.vout \in Seq([to : Addressee, value : Nat]) /\ DOMAIN psbt.vout = {}
      BY <1>5
    <2>2. Outputs(psbt, "user") = {} /\ Outputs(psbt, "other") = {}
      BY <2>1 DEF Outputs
    <2>3. add_extra_outputs(psbt) = RefundAmount
      BY <1>5 DEF add_extra_outputs
    <2>4. RefundAmount = ValueOut(psbt, Outputs(psbt, "user")) + add_extra_outputs(psbt)
      <3>1. ValueOut(psbt, Outputs(psbt, "user")) = 0
        BY <1>3, <2>2, Zenon
      <3>2. QED
        BY <2>3, <3>1
    <2>5. refund_gas_fee = DepositValue - 0 - RefundAmount
      BY <1>2 DEF RefundAmount
    <2>6. refund_gas_fee = InputAmount(psbt) - ValueOut(psbt, DOMAIN psbt.vout)
                           - add_extra_outputs(psbt)
      BY <1>1, <1>3, <2>1, <2>3, <2>5
    <2>7. QED
      BY <1>1, <1>5, <2>1, <2>2, <2>4, <2>6, PaysByPsbt
  <1>6. QED
    BY <1>4, <1>5

-----------------------------------------------------------------------------
(* The steps, for the money.                                               *)

LEMMA InitMoney == Init => MoneyInv
  BY DEF Init, MoneyInv

\* A record is added; what the others pay does not depend on `canceled`.
LEMMA MoneyAdded ==
    ASSUME MoneyInv, NEW psbt, IsPsbt(psbt), NEW pid,
           DOMAIN btc_pending_infos' = DOMAIN btc_pending_infos \cup {pid},
           NEW info, info = btc_pending_infos'[pid],
           info.psbt_hex = serialize(psbt), MoneyOK(info, psbt),
           pid \notin DOMAIN btc_pending_infos,
           \A id \in DOMAIN btc_pending_infos : IsInfo(btc_pending_infos[id]),
           \A id \in DOMAIN btc_pending_infos :
                \/ btc_pending_infos'[id] = btc_pending_infos[id]
                \/ btc_pending_infos'[id] = [btc_pending_infos[id] EXCEPT !.canceled = TRUE],
           callbacks' \subseteq callbacks
    PROVE  MoneyInv'
  <1>1. MoneyOK(btc_pending_infos'[pid], Stored(pid)')
    BY StoredForm DEF Stored
  <1>2. ASSUME NEW id \in DOMAIN btc_pending_infos
        PROVE  MoneyOK(btc_pending_infos'[id], Stored(id)')
    <2>1. PICK old : old = btc_pending_infos[id]
      OBVIOUS
    <2>2. PICK next : next = btc_pending_infos'[id]
      OBVIOUS
    <2>3. IsInfo(old) /\ MoneyOK(old, deserialize(old.psbt_hex))
      BY <2>1 DEF MoneyInv, Stored
    <2>4. next = old \/ next = [old EXCEPT !.canceled = TRUE]
      BY <2>1, <2>2
    <2>5. /\ next.psbt_hex = old.psbt_hex /\ next.kind = old.kind
          /\ next.role = old.role /\ next.gas_fee = old.gas_fee
      BY <2>3, <2>4 DEF IsInfo
    <2>6. MoneyOK(next, deserialize(next.psbt_hex))
      BY <2>3, <2>5 DEF MoneyOK, DueToUser
    <2>7. QED
      BY <2>2, <2>6 DEF Stored
  <1>3. \A call \in callbacks' : CallTyped(call)
    BY DEF MoneyInv
  <1>4. QED
    BY <1>1, <1>2, <1>3 DEF MoneyInv

LEMMA InsertMoney ==
    ASSUME IInv, MoneyInv, NEW psbt, IsPsbt(psbt), IsNew(psbt),
           NEW kind, NEW role, NEW receivers, NEW gas_fee,
           Insert(psbt, PendingInfo(kind, role, receivers, psbt, gas_fee)),
           kind \in Kinds, DOMAIN psbt.vin = InputsOf(kind),
           psbt.vout \in Seq([to : Addressee, value : Nat]),
           NEW due, Pays(get_zcash_tx(psbt), due, gas_fee),
           role \in {"original", "rbf"},
           \/ kind = "refund" /\ due = DepositValue - gas_fee /\ RefundSuffices
           \/ kind = "withdraw" /\ due = amount - withdraw_fee - gas_fee,
           callbacks' \subseteq callbacks
    PROVE  MoneyInv'
  <1>1. PICK pid : pid = get_pending_id(psbt)
    OBVIOUS
  <1>2. PICK info : info = PendingInfo(kind, role, receivers, psbt, gas_fee)
    OBVIOUS
  <1>3. /\ info.psbt_hex = serialize(psbt) /\ info.kind = kind
        /\ info.role = role /\ info.gas_fee = gas_fee
    BY <1>2 DEF PendingInfo
  <1>4. DueToUser(info) = due
    <2>1. CASE kind = "refund" /\ due = DepositValue - gas_fee
      <3>1. info.kind = "refund" /\ info.role # "cancel"
        BY <1>3, <2>1
      <3>2. DueToUser(info) = DepositValue - info.gas_fee
        BY <3>1 DEF DueToUser
      <3>3. QED
        BY <1>3, <2>1, <3>2
    <2>2. CASE kind = "withdraw" /\ due = amount - withdraw_fee - gas_fee
      <3>1. info.kind # "refund" /\ info.role # "cancel"
        BY <1>3, <2>2
      <3>2. DueToUser(info) = amount - withdraw_fee - info.gas_fee
        BY <3>1 DEF DueToUser
      <3>3. QED
        BY <1>3, <2>2, <3>2
    <2>3. QED
      BY <2>1, <2>2
  <1>5. MoneyOK(info, psbt)
    BY <1>3, <1>4 DEF MoneyOK
  <1>6. btc_pending_infos' =
            [id \in DOMAIN btc_pending_infos \cup {pid} |->
                IF id = pid THEN info ELSE btc_pending_infos[id]]
    BY <1>1, <1>2 DEF Insert
  <1>7. pid \notin DOMAIN btc_pending_infos
    BY <1>1 DEF IsNew
  <1>8. /\ DOMAIN btc_pending_infos' = DOMAIN btc_pending_infos \cup {pid}
        /\ info = btc_pending_infos'[pid]
        /\ \A id \in DOMAIN btc_pending_infos : btc_pending_infos'[id] = btc_pending_infos[id]
    BY <1>6, <1>7
  <1>9. \A id \in DOMAIN btc_pending_infos : IsInfo(btc_pending_infos[id])
    BY DEF IInv, InfosOK, InfoOK
  <1>10. QED
    BY <1>3, <1>5, <1>7, <1>8, <1>9, MoneyAdded

LEMMA WithdrawMoney ==
    ASSUME IInv, MoneyInv, NEW call \in callbacks, ft_on_transfer_callback(call)
    PROVE  MoneyInv'
  <1>1. PICK psbt : psbt = WithdrawPsbt(call)
    OBVIOUS
  <1>2. IsPsbt(psbt)
    BY <1>1, WithdrawIsPsbt
  <1>3. /\ call.method = "ft_on_transfer_callback"
        /\ check_withdraw_psbt(psbt, call.receivers) /\ IsNew(psbt)
        /\ Insert(psbt, PendingInfo("withdraw", "original", call.receivers, psbt,
                                    WithdrawGas(psbt)))
        /\ callbacks' \subseteq callbacks
    BY <1>1 DEF ft_on_transfer_callback, WithdrawFits, check_withdraw_psbt_valid
  <1>4. call.vout \in Vout
    BY <1>3 DEF MoneyInv, CallTyped
  <1>5. DOMAIN psbt.vin = Coin /\ psbt.vout \in Seq([to : Addressee, value : Nat])
    BY <1>1, <1>4, ConstantsAssumption DEF WithdrawPsbt, new
  <1>6. Pays(get_zcash_tx(psbt), amount - withdraw_fee - WithdrawGas(psbt), WithdrawGas(psbt))
    BY <1>2, <1>3, <1>5, WithdrawPays
  <1>7. "withdraw" \in Kinds /\ InputsOf("withdraw") = Coin
    BY DEF Kinds, InputsOf
  <1>8. PICK due : due = amount - withdraw_fee - WithdrawGas(psbt)
    OBVIOUS
  <1>9. QED
    BY <1>2, <1>3, <1>5, <1>6, <1>7, <1>8, InsertMoney

\* A replacement spends what its original does, and its outputs are the
\* original's or those the caller brings.
LEMMA ReplacementTyped ==
    ASSUME IInv, MoneyInv, NEW call \in callbacks, ReplacementFits(call),
           call.method # "execute_refund_callback"
    PROVE  /\ DOMAIN ReplacementPsbt(call).vin = Coin
           /\ ReplacementPsbt(call).vout \in Seq([to : Addressee, value : Nat])
           /\ ReplacementPsbt(call).orchard = BundleOf(call.data)
  <1>1. PICK original : original = Stored(call.original)
    OBVIOUS
  <1>2. PICK psbt : psbt = ReplacementPsbt(call)
    OBVIOUS
  <1>3. call.vout \in Seq([to : Addressee, value : Nat])
    BY ConstantsAssumption DEF MoneyInv, CallTyped
  <1>4. /\ call.original \in DOMAIN btc_pending_infos
        /\ btc_pending_infos[call.original].kind = "withdraw"
    BY DEF ReplacementFits, Originals
  <1>5. /\ DOMAIN original.vin = Coin
        /\ original.vout \in Seq([to : Addressee, value : Nat])
    BY <1>1, <1>4 DEF MoneyInv, MoneyOK, InputsOf
  <1>6. /\ psbt.vin = original.vin /\ psbt.vout \in {original.vout, call.vout}
        /\ psbt.orchard = BundleOf(call.data)
    BY <1>1, <1>2 DEF ReplacementPsbt, from_original_psbt
  <1>7. QED
    BY <1>2, <1>3, <1>5, <1>6

LEMMA WithdrawRbfMoney ==
    ASSUME IInv, MoneyInv, NEW call \in callbacks, withdraw_rbf_callback(call)
    PROVE  MoneyInv'
  <1>1. PICK psbt : psbt = ReplacementPsbt(call)
    OBVIOUS
  <1>2. PICK receivers : receivers = btc_pending_infos[call.original].receivers
    OBVIOUS
  <1>3. /\ call.method = "withdraw_rbf_callback" /\ ReplacementFits(call)
        /\ check_withdraw_psbt(psbt, receivers)
        /\ Insert(psbt, PendingInfo("withdraw", "rbf", receivers, psbt, WithdrawGas(psbt)))
        /\ callbacks' \subseteq callbacks
    BY <1>1, <1>2 DEF withdraw_rbf_callback, WithdrawRbfFits
  <1>4. IsPsbt(psbt) /\ IsNew(psbt)
    BY <1>1, <1>3, ReplacementIsPsbt
  <1>5. DOMAIN psbt.vin = Coin /\ psbt.vout \in Seq([to : Addressee, value : Nat])
    BY <1>1, <1>3, ReplacementTyped
  <1>6. Pays(get_zcash_tx(psbt), amount - withdraw_fee - WithdrawGas(psbt), WithdrawGas(psbt))
    BY <1>3, <1>4, <1>5, WithdrawPays
  <1>7. "withdraw" \in Kinds /\ InputsOf("withdraw") = Coin
    BY DEF Kinds, InputsOf
  <1>8. PICK due : due = amount - withdraw_fee - WithdrawGas(psbt)
    OBVIOUS
  <1>9. QED
    BY <1>3, <1>4, <1>5, <1>6, <1>7, <1>8, InsertMoney

LEMMA CancelWithdrawMoney ==
    ASSUME IInv, MoneyInv, NEW call \in callbacks, cancel_withdraw_callback(call)
    PROVE  MoneyInv'
  <1>1. PICK psbt : psbt = ReplacementPsbt(call)
    OBVIOUS
  <1>2. /\ call.method = "cancel_withdraw_callback" /\ ReplacementFits(call)
        /\ check_psbt_output_all_change_address(psbt)
        /\ callbacks' \subseteq callbacks
    BY <1>1 DEF cancel_withdraw_callback, CancelWithdrawFits
  <1>3. IsPsbt(psbt) /\ IsNew(psbt)
    BY <1>1, <1>2, ReplacementIsPsbt
  <1>4. call.data = None
    BY <1>2 DEF MoneyInv, CallTyped
  <1>5. /\ DOMAIN psbt.vin = Coin /\ psbt.vout \in Seq([to : Addressee, value : Nat])
        /\ psbt.orchard = None
    BY <1>1, <1>2, <1>4, ReplacementTyped DEF BundleOf
  <1>6. Pays(get_zcash_tx(psbt), 0, ChangeGas(psbt))
    BY <1>2, <1>3, <1>5, CancelPays
  <1>7. PICK pid : pid = get_pending_id(psbt)
    OBVIOUS
  <1>8. pid \notin DOMAIN btc_pending_infos
    BY <1>3, <1>7 DEF IsNew
  <1>9. PICK original : original = btc_pending_infos[call.original]
    OBVIOUS
  <1>10. PICK info : info = PendingInfo("withdraw", "cancel", original.receivers, psbt,
                                        ChangeGas(psbt))
    OBVIOUS
  <1>11. /\ info.psbt_hex = serialize(psbt) /\ info.kind = "withdraw"
         /\ info.role = "cancel" /\ info.gas_fee = ChangeGas(psbt)
    BY <1>10 DEF PendingInfo
  <1>12. MoneyOK(info, psbt)
    BY <1>5, <1>6, <1>11 DEF MoneyOK, DueToUser, Kinds, InputsOf
  <1>13. btc_pending_infos' =
            [id \in DOMAIN btc_pending_infos \cup {pid} |->
                IF id = pid THEN info
                ELSE IF id = call.original THEN [original EXCEPT !.canceled = TRUE]
                ELSE btc_pending_infos[id]]
    BY <1>1, <1>7, <1>9, <1>10 DEF cancel_withdraw_callback
  <1>14. /\ DOMAIN btc_pending_infos' = DOMAIN btc_pending_infos \cup {pid}
         /\ info = btc_pending_infos'[pid]
    BY <1>13
  <1>15. \A id \in DOMAIN btc_pending_infos :
            \/ btc_pending_infos'[id] = btc_pending_infos[id]
            \/ btc_pending_infos'[id] = [btc_pending_infos[id] EXCEPT !.canceled = TRUE]
    BY <1>8, <1>9, <1>13
  <1>16. \A id \in DOMAIN btc_pending_infos : IsInfo(btc_pending_infos[id])
    BY DEF IInv, InfosOK, InfoOK
  <1>17. QED
    BY <1>2, <1>3, <1>8, <1>11, <1>12, <1>14, <1>15, <1>16, MoneyAdded

LEMMA RefundMoney ==
    ASSUME IInv, MoneyInv, NEW call \in callbacks, execute_refund_callback(call)
    PROVE  MoneyInv'
  <1>1. PICK psbt : psbt = RefundPsbt(call)
    OBVIOUS
  <1>2. IsPsbt(psbt)
    BY <1>1, RefundIsPsbt
  <1>3. /\ IsNew(psbt) /\ RefundAmount >= min_change_amount
        /\ check_psbt_chain_specific(psbt, refund_gas_fee, RefundReceivers)
        /\ call.data # None => call.data.bundle.amount = RefundAmount
        /\ Insert(psbt, PendingInfo("refund", "original", RefundReceivers, psbt,
                                    refund_gas_fee))
        /\ callbacks' \subseteq callbacks
    BY <1>1 DEF execute_refund_callback, RefundFits
  <1>4. RefundAmount \in Nat /\ RefundAmount = DepositValue - refund_gas_fee
    BY <1>3, NaturalConstants DEF RefundAmount
  <1>5. /\ DOMAIN psbt.vin = {Deposit} /\ psbt.orchard = BundleOf(call.data)
        /\ call.data = None => psbt.vout = <<[to |-> "user", value |-> RefundAmount]>>
        /\ call.data # None => psbt.vout = <<>>
    BY <1>1 DEF RefundPsbt, new
  <1>6. \/ psbt.orchard = None /\ psbt.vout = <<[to |-> "user", value |-> RefundAmount]>>
        \/ /\ psbt.orchard # None /\ psbt.vout = <<>>
           /\ psbt.orchard.to = "user" /\ psbt.orchard.amount = RefundAmount
           /\ psbt.orchard.value_balance = -psbt.orchard.amount
    <2>1. CASE call.data = None
      BY <1>5, <2>1 DEF BundleOf
    <2>2. CASE call.data # None
      <3>1. psbt.orchard = call.data.bundle /\ psbt.orchard # None
        BY <1>5, <2>2, NoneIsNoBundle DEF BundleOf, MoneyInv, CallTyped
      <3>2. psbt.orchard.to = "user" /\ psbt.orchard.value_balance = -psbt.orchard.amount
        BY <1>3, <3>1 DEF check_psbt_chain_specific, validate_orchard_bundle
      <3>3. QED
        BY <1>3, <1>5, <2>2, <3>1, <3>2
    <2>3. QED
      BY <2>1, <2>2
  <1>7. /\ psbt.vout \in Seq([to : Addressee, value : Nat])
        /\ Pays(get_zcash_tx(psbt), RefundAmount, refund_gas_fee)
    BY <1>2, <1>4, <1>5, <1>6, RefundPays
  <1>8. "refund" \in Kinds /\ InputsOf("refund") = {Deposit}
    BY DEF Kinds, InputsOf
  <1>9. RefundSuffices
    <2>1. get_min_fee(psbt) \in Int /\ get_min_fee(psbt) >= 2
      BY <1>5, <1>7, FS_Singleton, MinFee
    <2>2. refund_gas_fee \in Nat /\ refund_gas_fee >= get_min_fee(psbt)
      BY <1>3, ConstantsAssumption DEF check_psbt_chain_specific
    <2>3. QED
      BY <1>3, <2>1, <2>2 DEF RefundSuffices
  <1>10. QED
    BY <1>2, <1>3, <1>4, <1>5, <1>7, <1>8, <1>9, InsertMoney

\* A signature is no output and takes away no input.
LEMMA SignMoney ==
    ASSUME IInv, MoneyInv, NEW s \in signing, sign_btc_transaction_callback(s)
    PROVE  MoneyInv'
  <1>1. PICK info, psbt, next, signed : SignsRecord(s, info, psbt, next, signed)
    BY SignStep
  <1>2. /\ s.id \in DOMAIN btc_pending_infos
        /\ info = btc_pending_infos[s.id] /\ psbt = Stored(s.id)
        /\ next.kind = info.kind /\ next.role = info.role /\ next.gas_fee = info.gas_fee
        /\ DOMAIN btc_pending_infos' = DOMAIN btc_pending_infos
        /\ btc_pending_infos'[s.id] = next /\ deserialize(next.psbt_hex) = signed
        /\ \A id \in DOMAIN btc_pending_infos :
               id # s.id => btc_pending_infos'[id] = btc_pending_infos[id]
    BY <1>1 DEF SignsRecord
  <1>3. /\ DOMAIN signed.vin = DOMAIN psbt.vin
        /\ signed.vout = psbt.vout /\ signed.orchard = psbt.orchard
    BY <1>1, SaveSignature DEF SignsRecord, SignsOwn
  <1>4. PICK tx : tx = get_zcash_tx(psbt)
    OBVIOUS
  <1>5. PICK sent : sent = get_zcash_tx(signed)
    OBVIOUS
  <1>6. /\ tx.vout = psbt.vout /\ tx.vin = psbt.vin /\ Bundle(tx) = psbt.orchard
        /\ sent.vout = signed.vout /\ sent.vin = signed.vin /\ Bundle(sent) = signed.orchard
    BY <1>4, <1>5, OutputsOfTx, BundleInTx
  <1>7. /\ \A to : Outputs(sent, to) = Outputs(tx, to)
        /\ \A I : ValueOut(sent, I) = ValueOut(tx, I)
    BY <1>3, <1>6 DEF Outputs, ValueOut
  <1>8. \A due, gas_fee : Pays(sent, due, gas_fee) = Pays(tx, due, gas_fee)
    <2>1. \A to : ReceivedBy(sent, to) = ReceivedBy(tx, to)
      BY <1>3, <1>6, <1>7 DEF ReceivedBy
    <2>2. LeftToMiners(sent) = LeftToMiners(tx)
      BY <1>3, <1>6, <1>7 DEF LeftToMiners
    <2>3. QED
      BY <2>1, <2>2 DEF Pays
  <1>9. MoneyOK(info, psbt)
    BY <1>2 DEF MoneyInv
  <1>10. MoneyOK(next, signed)
    BY <1>2, <1>3, <1>4, <1>5, <1>8, <1>9 DEF MoneyOK, DueToUser
  <1>11. \A id \in DOMAIN btc_pending_infos' : MoneyOK(btc_pending_infos'[id], Stored(id)')
    BY <1>2, <1>10 DEF MoneyInv, Stored
  <1>12. callbacks' = callbacks
    BY DEF sign_btc_transaction_callback
  <1>13. QED
    BY <1>11, <1>12 DEF MoneyInv

LEMMA OtherMoney ==
    ASSUME MoneyInv, btc_pending_infos' = btc_pending_infos, callbacks' \subseteq callbacks
    PROVE  MoneyInv'
  BY DEF MoneyInv, Stored

LEMMA AskMoney ==
    ASSUME MoneyInv, NEW call, Ask(call), CallTyped(call)
    PROVE  MoneyInv'
  BY DEF MoneyInv, Stored, Ask

LEMMA NextMoney ==
    ASSUME IInv, MoneyInv, [Next]_vars
    PROVE  MoneyInv'
  <1>1. CASE \/ EmptyBlock \/ LightClientAdvances \/ UNCHANGED vars
             \/ \E id \in DOMAIN btc_pending_infos : Mine(id)
             \/ \E id \in DOMAIN btc_pending_infos : \E coin \in DOMAIN Stored(id).vin :
                    sign_btc_transaction(id, coin)
             \/ \E s \in signing : SignFails(s)
             \/ \E call \in callbacks : CallbackPanics(call)
    <2>1. btc_pending_infos' = btc_pending_infos /\ callbacks' \subseteq callbacks
      BY <1>1 DEF EmptyBlock, LightClientAdvances, Mine, NewBlock, sign_btc_transaction,
                  SignFails, CallbackPanics, vars
    <2>2. QED
      BY <2>1, OtherMoney
  <1>2. \A data \in ChainSpecificData \cup {None} :
            data # None => data.bundle \in Bundles(Branch)
    BY BundlesTyped
  <1>3. CASE ft_on_transfer
    <2>1. PICK vout \in Vout, data \in ChainSpecificData \cup {None}, receivers \in Receivers :
            Ask([method |-> "ft_on_transfer_callback", vout |-> vout, data |-> data,
                 receivers |-> receivers, height |-> last_block_height])
      BY <1>3 DEF ft_on_transfer
    <2>2. PICK call : /\ call = [method |-> "ft_on_transfer_callback", vout |-> vout,
                                 data |-> data, receivers |-> receivers,
                                 height |-> last_block_height]
                      /\ Ask(call)
      BY <2>1
    <2>3. CallTyped(call)
      BY <1>2, <2>2 DEF CallTyped
    <2>4. QED
      BY <2>2, <2>3, AskMoney
  <1>4. CASE withdraw_rbf
    <2>1. PICK original \in Originals, vout \in Vout, data \in ChainSpecificData \cup {None} :
            Ask([method |-> "withdraw_rbf_callback", original |-> original, vout |-> vout,
                 data |-> data, height |-> last_block_height])
      BY <1>4 DEF withdraw_rbf
    <2>2. PICK call : /\ call = [method |-> "withdraw_rbf_callback", original |-> original,
                                 vout |-> vout, data |-> data, height |-> last_block_height]
                      /\ Ask(call)
      BY <2>1
    <2>3. CallTyped(call)
      BY <1>2, <2>2 DEF CallTyped
    <2>4. QED
      BY <2>2, <2>3, AskMoney
  <1>5. CASE cancel_withdraw
    <2>1. PICK original \in Originals, vout \in Vout :
            Ask([method |-> "cancel_withdraw_callback", original |-> original, vout |-> vout,
                 data |-> None, height |-> last_block_height])
      BY <1>5 DEF cancel_withdraw
    <2>2. PICK call : /\ call = [method |-> "cancel_withdraw_callback", original |-> original,
                                 vout |-> vout, data |-> None, height |-> last_block_height]
                      /\ Ask(call)
      BY <2>1
    <2>3. CallTyped(call)
      BY <2>2 DEF CallTyped
    <2>4. QED
      BY <2>2, <2>3, AskMoney
  <1>6. CASE execute_refund
    <2>1. PICK data \in ChainSpecificData \cup {None} :
            Ask([method |-> "execute_refund_callback", data |-> data,
                 height |-> last_block_height])
      BY <1>6 DEF execute_refund
    <2>2. PICK call : /\ call = [method |-> "execute_refund_callback", data |-> data,
                                 height |-> last_block_height]
                      /\ Ask(call)
      BY <2>1
    <2>3. CallTyped(call)
      BY <1>2, <2>2 DEF CallTyped
    <2>4. QED
      BY <2>2, <2>3, AskMoney
  <1>7. ASSUME NEW call \in callbacks,
               \/ ft_on_transfer_callback(call) \/ withdraw_rbf_callback(call)
               \/ cancel_withdraw_callback(call) \/ execute_refund_callback(call)
        PROVE  MoneyInv'
    BY <1>7, WithdrawMoney, WithdrawRbfMoney, CancelWithdrawMoney, RefundMoney
  <1>8. ASSUME NEW s \in signing, sign_btc_transaction_callback(s)
        PROVE  MoneyInv'
    BY <1>8, SignMoney
  <1>9. QED
    BY <1>1, <1>3, <1>4, <1>5, <1>6, <1>7, <1>8 DEF Next

\* Whatever outputs and bundles the callers bring, and whatever is answered late,
\* replaced, canceled or signed in between, what a transaction moves is what its
\* record says: to the user, to the miners, and to nobody else.
THEOREM PaymentsAreRecorded == Spec => []PaysWhatIsRecorded
  <1>1. IInv /\ MoneyInv /\ [Next]_vars => IInv' /\ MoneyInv'
    BY NextIInv, NextMoney
  <1>2. MoneyInv => PaysWhatIsRecorded
    BY DEF MoneyInv, MoneyOK, Pays, PaysWhatIsRecorded
  <1>3. QED
    BY <1>1, <1>2, InitIInv, InitMoney, PTL DEF Spec

-----------------------------------------------------------------------------
(* No upgrade strands a coin: what a replacement would look like.           *)

\* A branch is active at a height, and no later one is.
Active(b, height) == b = 1 \/ Upgrade[b] \in 1..height

Latest(b, height) ==
    b \in 1..5 /\ Active(b, height) /\ \A c \in 1..5 : c > b => ~Active(c, height)

LEMMA LatestExists ==
    ASSUME NEW height
    PROVE  \E b \in 1..5 : Latest(b, height)
  <1>1. Active(1, height)
    BY DEF Active
  <1>2. CASE Active(5, height)
    BY <1>2 DEF Latest
  <1>3. CASE ~Active(5, height) /\ Active(4, height)
    BY <1>3 DEF Latest
  <1>4. CASE ~Active(5, height) /\ ~Active(4, height) /\ Active(3, height)
    BY <1>4 DEF Latest
  <1>5. CASE ~Active(5, height) /\ ~Active(4, height) /\ ~Active(3, height) /\ Active(2, height)
    BY <1>5 DEF Latest
  <1>6. CASE ~Active(5, height) /\ ~Active(4, height) /\ ~Active(3, height)
             /\ ~Active(2, height)
    BY <1>1, <1>6 DEF Latest
  <1>7. QED
    BY <1>2, <1>3, <1>4, <1>5, <1>6

LEMMA LatestUnique ==
    ASSUME NEW height, NEW b, Latest(b, height), NEW c, Latest(c, height)
    PROVE  b = c
  <1>1. b \in 1..5 /\ c \in 1..5 /\ ~(b > c) /\ ~(c > b)
    BY DEF Latest
  <1>2. QED
    BY <1>1

\* The network and the contract take the same branch for a height.
LEMMA ConsensusIsLatest ==
    ASSUME NEW height, NEW b, Latest(b, height)
    PROVE  ConsensusBranch(height) = b
  <1> DEFINE P(c) == /\ c = 1 \/ Upgrade[c] \in 1..height
                     /\ \A d \in c+1..5 : Upgrade[d] \notin 1..height
  <1>1. Branch = 1..5
    BY ConstantsAssumption DEF Branch
  <1>2. ASSUME NEW c \in 1..5
        PROVE  P(c) <=> Latest(c, height)
    <2>1. \A d \in 1..5 : d \in c+1..5 <=> d > c
      OBVIOUS
    <2>2. \A d \in c+1..5 : d \in 1..5 /\ d # 1
      OBVIOUS
    <2>3. QED
      BY <2>1, <2>2 DEF Latest, Active
  <1>3. b \in Branch /\ P(b)
    BY <1>1, <1>2 DEF Latest
  <1>4. ConsensusBranch(height) = CHOOSE c \in Branch : P(c)
    BY DEF ConsensusBranch
  <1> HIDE DEF P
  <1>5. ConsensusBranch(height) \in Branch /\ P(ConsensusBranch(height))
    BY <1>3, <1>4
  <1>6. Latest(ConsensusBranch(height), height)
    BY <1>1, <1>2, <1>5
  <1>7. QED
    BY <1>6, LatestUnique

LEMMA ContractIsLatest ==
    ASSUME NEW height \in Nat, NEW b, Latest(b, height)
    PROVE  get_branch_id(height) = b
  <1> DEFINE S == {1} \cup {c \in 2..5 : Upgrade[c] # 0 /\ height >= Upgrade[c]}
  <1>1. \A c \in 1..5 : Upgrade[c] \in Nat
    BY ConstantsAssumption
  <1>2. \A c \in 1..5 : c \in S <=> Active(c, height)
    BY <1>1 DEF Active
  <1>3. S \subseteq 1..5
    OBVIOUS
  <1> HIDE DEF S
  <1>4. b \in S /\ \A c \in S : b >= c
    BY <1>2, <1>3 DEF Latest
  <1>5. Max(S) = b
    <2>1. PICK m : m = Max(S)
      OBVIOUS
    <2>2. m \in S /\ \A c \in S : m >= c
      BY <1>4, <2>1 DEF Max
    <2>3. m \in 1..5 /\ b \in 1..5 /\ m >= b /\ b >= m
      BY <1>3, <1>4, <2>2
    <2>4. m = b
      BY <2>3
    <2>5. QED
      BY <2>1, <2>4
  <1>6. QED
    BY <1>5 DEF S, get_branch_id

\* What the contract builds for one height is in the branch of the next, unless an
\* upgrade is activated there.
LEMMA BranchOfNext ==
    ASSUME NEW height \in Nat, \A c \in 2..5 : Upgrade[c] # height + 1
    PROVE  get_branch_id(height) = ConsensusBranch(height + 1)
  <1>1. PICK b \in 1..5 : Latest(b, height)
    BY LatestExists
  <1>2. \A c \in 1..5 : Active(c, height) <=> Active(c, height + 1)
    <2>1. \A c \in 1..5 : Upgrade[c] \in Nat
      BY ConstantsAssumption
    <2>2. QED
      BY <2>1 DEF Active
  <1>3. Latest(b, height + 1)
    BY <1>1, <1>2 DEF Latest
  <1>4. QED
    BY <1>1, <1>3, ConsensusIsLatest, ContractIsLatest

LEMMA QuietHeight ==
    ASSUME UpgradesApart, NEW height \in Nat, height >= FirstHeight
    PROVE  \E h \in height .. height + 1 : get_branch_id(h) = ConsensusBranch(h + 1)
  <1>1. CASE \A c \in 2..5 : Upgrade[c] # height + 1
    BY <1>1, BranchOfNext
  <1>2. CASE \E b \in 2..5 : Upgrade[b] = height + 1
    <2>1. \A c \in 2..5 : Upgrade[c] # (height + 1) + 1
      <3>1. PICK b \in 2..5 : Upgrade[b] = height + 1
        BY <1>2
      <3>2. height + 1 > FirstHeight
        BY NaturalConstants
      <3>3. QED
        BY <3>1, <3>2 DEF UpgradesApart
    <2>2. height + 1 \in Nat /\ height + 1 \in height .. height + 1
      OBVIOUS
    <2>3. get_branch_id(height + 1) = ConsensusBranch((height + 1) + 1)
      BY <2>1, <2>2, BranchOfNext
    <2>4. QED
      BY <2>2, <2>3
  <1>3. QED
    BY <1>1, <1>2

\* Whether a block can include a transparent transaction is decided by its id.
LEMMA Transparent ==
    ASSUME NEW psbt, psbt.orchard = None, NEW height,
           psbt.branch_id = ConsensusBranch(height),
           psbt.expiry_height = 0 \/ height <= psbt.expiry_height
    PROVE  Includible(get_zcash_tx(psbt), height)
  <1>1. Bundle(get_zcash_tx(psbt)) = None
    BY BundleInTx
  <1>2. /\ get_zcash_tx(psbt).orchard = None
        /\ get_zcash_tx(psbt).branch_id = psbt.branch_id
        /\ get_zcash_tx(psbt).expiry_height = psbt.expiry_height
        /\ get_zcash_tx(psbt).version = TxVersion(psbt.branch_id)
    BY DEF get_zcash_tx
  <1>3. TxVersion(psbt.branch_id) = "v6" => ConsensusBranch(height) >= 4
    BY DEF TxVersion, is_ironwood
  <1>4. QED
    BY <1>1, <1>2, <1>3 DEF Includible

LEMMA SameIdSame ==
    ASSUME NEW p, NEW q, get_pending_id(p) = get_pending_id(q), q.orchard = None
    PROVE  /\ p.branch_id = q.branch_id /\ p.expiry_height = q.expiry_height
           /\ DOMAIN p.vin = DOMAIN q.vin /\ p.orchard = None
  <1>1. PICK s : s = tx_digest(p)
    OBVIOUS
  <1>2. s = tx_digest(q)
    BY <1>1, IdIsDigest
  <1>3. /\ s.branch_id = p.branch_id /\ s.expiry_height = p.expiry_height
        /\ s.vin = DOMAIN p.vin
        /\ s.orchard = None /\ s.ironwood = None => p.orchard = None
    BY <1>1 DEF tx_digest, to_zcash_tx
  <1>4. /\ s.branch_id = q.branch_id /\ s.expiry_height = q.expiry_height
        /\ s.vin = DOMAIN q.vin /\ s.orchard = None /\ s.ironwood = None
    BY <1>2 DEF tx_digest, to_zcash_tx
  <1>5. QED
    BY <1>3, <1>4

\* The chain only grows.
HeightInv == tip \in Nat /\ tip >= FirstHeight

LEMMA NextHeight == HeightInv /\ [Next]_vars => HeightInv'
  <1>1. SUFFICES ASSUME HeightInv, [Next]_vars PROVE tip' = tip \/ tip' = tip + 1
    BY NaturalConstants DEF HeightInv
  <1>2. CASE EmptyBlock \/ \E id \in DOMAIN btc_pending_infos : Mine(id)
    BY <1>2 DEF EmptyBlock, Mine, NewBlock
  <1>3. CASE LightClientAdvances \/ UNCHANGED vars
    BY <1>3 DEF LightClientAdvances, vars
  <1>4. CASE ft_on_transfer \/ withdraw_rbf \/ cancel_withdraw \/ execute_refund
    BY <1>4 DEF ft_on_transfer, withdraw_rbf, cancel_withdraw, execute_refund, Ask
  <1>5. ASSUME NEW call \in callbacks,
               \/ ft_on_transfer_callback(call) \/ withdraw_rbf_callback(call)
               \/ cancel_withdraw_callback(call) \/ execute_refund_callback(call)
               \/ CallbackPanics(call)
        PROVE  tip' = tip
    BY <1>5 DEF ft_on_transfer_callback, withdraw_rbf_callback, cancel_withdraw_callback,
                execute_refund_callback, CallbackPanics
  <1>6. CASE \/ \E id \in DOMAIN btc_pending_infos : \E coin \in DOMAIN Stored(id).vin :
                   sign_btc_transaction(id, coin)
             \/ \E s \in signing : sign_btc_transaction_callback(s) \/ SignFails(s)
    BY <1>6 DEF sign_btc_transaction, sign_btc_transaction_callback, SignFails
  <1>7. QED
    BY <1>1, <1>2, <1>3, <1>4, <1>5, <1>6 DEF Next

\* Another execution is accepted, or the record it would repeat can be mined.
LEMMA RefundReplaced ==
    ASSUME IInv, MoneyInv, HeightInv, UpgradesApart, "transparent" \in RefundReceivers,
           NEW id \in DOMAIN btc_pending_infos, btc_pending_infos[id].kind = "refund"
    PROVE  \/ \E o \in DOMAIN btc_pending_infos :
                 btc_pending_infos[o].kind = "refund" /\ CanBeMined(o)
           \/ \E h \in tip .. tip + 2 : WouldRefund(h)
  <1>1. PICK h \in tip .. tip + 1 : get_branch_id(h) = ConsensusBranch(h + 1)
    BY QuietHeight DEF HeightInv
  <1>2. h \in tip .. tip + 2 /\ h + 1 \in tip + 1 .. tip + 2
    BY DEF HeightInv
  <1>3. PICK call : call = [method |-> "execute_refund_callback", data |-> None, height |-> h]
    OBVIOUS
  <1>4. call.method = "execute_refund_callback" /\ call.data = None /\ call.height = h
    BY <1>3
  <1>5. PICK psbt : psbt = RefundPsbt(call)
    OBVIOUS
  <1>6. PICK output : output = [to |-> "user", value |-> RefundAmount]
    OBVIOUS
  <1>7. /\ psbt.orchard = None /\ psbt.vout = <<output>> /\ DOMAIN psbt.vin = {Deposit}
        /\ psbt.branch_id = ConsensusBranch(h + 1) /\ psbt.expiry_height = 0
    BY <1>1, <1>4, <1>5, <1>6 DEF RefundPsbt, new, BundleOf
  <1>8. RefundAmount >= min_change_amount /\ refund_gas_fee >= 2
    BY DEF MoneyInv, MoneyOK, RefundSuffices
  <1>9. refund_gas_fee >= get_min_fee(psbt)
    <2>1. RefundAmount \in Nat /\ refund_gas_fee \in Nat
      BY <1>8, NaturalConstants DEF RefundAmount
    <2>2. output \in [to : Addressee, value : Nat]
      BY <1>6, <2>1 DEF Addressee
    <2>3. psbt.vout \in Seq([to : Addressee, value : Nat]) /\ Len(psbt.vout) = 1
      BY <1>7, <2>2
    <2>4. IsFiniteSet(DOMAIN psbt.vin) /\ Cardinality(DOMAIN psbt.vin) = 1
      BY <1>7, FS_Singleton
    <2>5. \A fee \in Int :
              /\ fee >= 2 /\ fee >= Cardinality(DOMAIN psbt.vin)
              /\ fee >= Len(psbt.vout)
              => fee >= get_min_fee(psbt)
      BY <1>7, <2>3, <2>4, MinFee
    <2>6. QED
      BY <1>8, <2>1, <2>3, <2>4, <2>5
  <1>10. Includible(get_zcash_tx(psbt), h + 1)
    BY <1>7, Transparent
  <1>11. CASE IsNew(psbt)
    <2>1. RefundFits(call)
      BY <1>4, <1>5, <1>7, <1>8, <1>9, <1>11
      DEF RefundFits, extract_orchard_bundle, BundleOf, check_psbt_chain_specific
    <2>2. WouldRefund(h)
      BY <1>3, <1>5, <1>10, <2>1 DEF WouldRefund
    <2>3. QED
      BY <1>2, <2>2
  <1>12. CASE ~IsNew(psbt)
    <2>1. PICK o \in DOMAIN btc_pending_infos : o = get_pending_id(psbt)
      BY <1>12 DEF IsNew
    <2>2. PICK other : other = Stored(o)
      OBVIOUS
    <2>3. get_pending_id(other) = get_pending_id(psbt)
      BY <2>1, <2>2 DEF IInv, InfosOK, InfoOK, SignsOwn, Stored
    <2>4. /\ other.branch_id = psbt.branch_id /\ other.expiry_height = 0
          /\ DOMAIN other.vin = {Deposit} /\ other.orchard = None
      BY <1>7, <2>3, SameIdSame
    <2>5. Includible(get_zcash_tx(other), h + 1)
      BY <1>7, <2>4, Transparent
    <2>6. CanBeMined(o)
      BY <1>2, <2>2, <2>5 DEF CanBeMined
    <2>7. btc_pending_infos[o].kind = "refund"
      BY <2>2, <2>4, ConstantsAssumption DEF MoneyInv, MoneyOK, Kinds, InputsOf
    <2>8. QED
      BY <2>6, <2>7
  <1>13. QED
    BY <1>11, <1>12

\* A cancellation is accepted, or the record it would repeat can be mined.
LEMMA WithdrawalReplaced ==
    ASSUME IInv, MoneyInv, HeightInv, UpgradesApart, NEW vout \in Vout, ChangeFits(vout),
           NEW id \in Originals
    PROVE  \/ \E o \in DOMAIN btc_pending_infos :
                 btc_pending_infos[o].kind = "withdraw" /\ CanBeMined(o)
           \/ \E h \in tip .. tip + 2 : WouldReplace(id, h)
  <1>1. PICK h \in tip .. tip + 1 : get_branch_id(h) = ConsensusBranch(h + 1)
    BY QuietHeight DEF HeightInv
  <1>2. h \in tip .. tip + 2 /\ h + 1 \in tip + 1 .. tip + 2 /\ h \in Nat
    BY DEF HeightInv
  <1>3. PICK call : call = [method |-> "cancel_withdraw_callback", original |-> id,
                            vout |-> vout, data |-> None, height |-> h]
    OBVIOUS
  <1>4. /\ call.method = "cancel_withdraw_callback" /\ call.data = None /\ call.height = h
        /\ call.original = id /\ call.vout = vout
    BY <1>3
  <1>5. PICK psbt : psbt = ReplacementPsbt(call)
    OBVIOUS
  <1>6. PICK original : original = Stored(id)
    OBVIOUS
  <1>7. id \in DOMAIN btc_pending_infos /\ btc_pending_infos[id].kind = "withdraw"
    BY DEF Originals
  <1>8. DOMAIN original.vin = Coin /\ IsPsbt(original)
    BY <1>6, <1>7
    DEF MoneyInv, MoneyOK, InputsOf, IInv, InfosOK, InfoOK, SignsOwn, Stored
  <1>9. /\ psbt.orchard = None /\ psbt.vout = vout /\ psbt.vin = original.vin
        /\ psbt.branch_id = ConsensusBranch(h + 1)
        /\ psbt.expiry_height = h + expiry_height_gap
        /\ psbt.inputs_utxo = original.inputs_utxo
    BY <1>1, <1>4, <1>5, <1>6
    DEF ReplacementPsbt, from_original_psbt, BundleOf, get_expiry_height, ChangeFits
  <1>10. Includible(get_zcash_tx(psbt), h + 1)
    BY <1>2, <1>9, Transparent, NaturalConstants
  <1>11. ChangeGas(psbt) = SumFunctionOnSet(Value, Coin)
                 - SumFunctionOnSet([i \in DOMAIN vout |-> vout[i].value], DOMAIN vout)
    <2>1. PICK values : values = original.inputs_utxo
      OBVIOUS
    <2>2. \A c \in Coin : values[c] = Value[c]
      <3>1. \A c \in Coin : CoinValue[c] = Value[c]
        BY ConstantsAssumption DEF CoinValue
      <3>2. \A c \in Coin : values[c] = CoinValue[c]
        BY <1>8, <2>1 DEF IsPsbt
      <3>3. QED
        BY <3>1, <3>2
    <2>3. InputAmount(psbt) = SumFunctionOnSet(Value, Coin)
      <3>1. SumFunctionOnSet(values, Coin) = SumFunctionOnSet(Value, Coin)
        BY <2>2, SumSame, CoinsAreFinite
      <3>2. QED
        BY <1>8, <1>9, <2>1, <3>1 DEF InputAmount
    <2>4. ValueOut(psbt, DOMAIN psbt.vout)
              = SumFunctionOnSet([i \in DOMAIN vout |-> vout[i].value], DOMAIN vout)
      BY <1>9 DEF ValueOut
    <2>5. QED
      BY <2>3, <2>4 DEF ChangeGas
  <1>12. /\ ChangeGas(psbt) >= 2 /\ ChangeGas(psbt) >= Cardinality(DOMAIN psbt.vin)
         /\ ChangeGas(psbt) >= Len(psbt.vout)
         /\ ChangeGas(psbt) <= amount - withdraw_fee
    BY <1>8, <1>9, <1>11 DEF ChangeFits
  <1>13. check_psbt_output_all_change_address(psbt)
    <2>1. psbt.vout \in Seq([to : Addressee, value : Nat]) /\ IsFiniteSet(DOMAIN psbt.vin)
      BY <1>8, <1>9, ConstantsAssumption
    <2>2. ValueOut(psbt, DOMAIN psbt.vout) \in Nat
      BY <2>1, OutputsTyped
    <2>3. InputAmount(psbt) \in Nat
      <3>1. IsPsbt(psbt)
        BY <1>4, <1>5, <1>6, <1>8, <1>9 DEF ReplacementPsbt, from_original_psbt, IsPsbt
      <3>2. "withdraw" \in Kinds /\ DOMAIN psbt.vin = InputsOf("withdraw")
        BY <1>8, <1>9 DEF Kinds, InputsOf
      <3>3. QED
        BY <3>1, <3>2, InputsSum
    <2>4. ChangeGas(psbt) \in Int
      BY <2>2, <2>3 DEF ChangeGas
    <2>5. ChangeGas(psbt) >= get_min_fee(psbt)
      BY <1>9, <1>12, <2>1, <2>4, MinFee
    <2>6. Outputs(psbt, "bridge") = DOMAIN psbt.vout
      BY <1>9 DEF Outputs, ChangeFits
    <2>7. \A i \in DOMAIN psbt.vout :
              psbt.vout[i].value \in min_change_amount .. max_change_amount
      BY <1>9 DEF ChangeFits
    <2>8. QED
      BY <2>5, <2>6, <2>7 DEF check_psbt_output_all_change_address
  <1>14. CASE IsNew(psbt)
    <2>1. ExpiryInRange(get_expiry_height(call.data, call.height), call.height)
      BY <1>2, <1>4, NaturalConstants DEF ExpiryInRange, get_expiry_height
    <2>2. extract_orchard_bundle(BundleOf(call.data), get_branch_id(call.height))
      BY <1>4 DEF extract_orchard_bundle, BundleOf
    <2>3. ReplacementFits(call)
      BY <1>4, <1>5, <1>14, <2>1, <2>2 DEF ReplacementFits
    <2>4. CancelWithdrawFits(call)
      BY <1>4, <1>5, <1>12, <1>13, <2>3 DEF CancelWithdrawFits
    <2>5. WouldReplace(id, h)
      BY <1>3, <1>5, <1>10, <2>4 DEF WouldReplace
    <2>6. QED
      BY <1>2, <2>5
  <1>15. CASE ~IsNew(psbt)
    <2>1. PICK o \in DOMAIN btc_pending_infos : o = get_pending_id(psbt)
      BY <1>15 DEF IsNew
    <2>2. PICK other : other = Stored(o)
      OBVIOUS
    <2>3. get_pending_id(other) = get_pending_id(psbt)
      BY <2>1, <2>2 DEF IInv, InfosOK, InfoOK, SignsOwn, Stored
    <2>4. /\ other.branch_id = psbt.branch_id /\ other.expiry_height = psbt.expiry_height
          /\ DOMAIN other.vin = Coin /\ other.orchard = None
      BY <1>8, <1>9, <2>3, SameIdSame
    <2>5. Includible(get_zcash_tx(other), h + 1)
      BY <1>2, <1>9, <2>4, Transparent, NaturalConstants
    <2>6. CanBeMined(o)
      BY <1>2, <2>2, <2>5 DEF CanBeMined
    <2>7. btc_pending_infos[o].kind = "withdraw"
      BY <2>2, <2>4, ConstantsAssumption DEF MoneyInv, MoneyOK, Kinds, InputsOf
    <2>8. QED
      BY <2>6, <2>7
  <1>16. QED
    BY <1>14, <1>15

\* Neither an upgrade nor an expiry strands coins, for any list of upgrades of which
\* no two to come are one block apart: provided that there are change outputs that a
\* cancellation may write and that the address of a refund is transparent.
THEOREM CoinsNeverStranded ==
    ASSUME UpgradesApart, CancellationPossible, "transparent" \in RefundReceivers
    PROVE  Spec => []NeverStranded
  <1>1. ASSUME IInv, MoneyInv, HeightInv
        PROVE  NeverStranded
    <2>1. SUFFICES ASSUME NEW id \in DOMAIN btc_pending_infos,
                          btc_pending_infos[id].role = "original"
                   PROVE  \/ \E o \in DOMAIN btc_pending_infos :
                                /\ btc_pending_infos[o].kind = btc_pending_infos[id].kind
                                /\ CanBeMined(o)
                          \/ \E h \in tip .. tip + 2 :
                                IF btc_pending_infos[id].kind = "refund"
                                THEN WouldRefund(h) ELSE WouldReplace(id, h)
      BY DEF NeverStranded
    <2>2. btc_pending_infos[id].kind \in {"withdraw", "refund"}
      BY <1>1 DEF MoneyInv, MoneyOK, Kinds
    <2>3. CASE btc_pending_infos[id].kind = "refund"
      BY <1>1, <2>3, RefundReplaced
    <2>4. CASE btc_pending_infos[id].kind = "withdraw"
      <3>1. id \in Originals
        BY <2>1, <2>4 DEF Originals
      <3>2. PICK vout \in Vout : ChangeFits(vout)
        BY DEF CancellationPossible
      <3>3. QED
        BY <1>1, <2>4, <3>1, <3>2, WithdrawalReplaced
    <2>5. QED
      BY <2>2, <2>3, <2>4
  <1>2. IInv /\ MoneyInv /\ HeightInv /\ [Next]_vars => IInv' /\ MoneyInv' /\ HeightInv'
    BY NextIInv, NextMoney, NextHeight
  <1>3. Init => IInv /\ MoneyInv /\ HeightInv
    BY InitIInv, InitMoney, ConstantsAssumption DEF Init, HeightInv
  <1>4. QED
    BY <1>1, <1>2, <1>3, PTL DEF Spec
=============================================================================
