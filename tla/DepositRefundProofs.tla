------------------------- MODULE DepositRefundProofs ------------------------
(* Proofs about DepositRefund, for every value of its constants.           *)
EXTENDS DepositRefund, TLAPS

\* The fields of a call are those of its operation.
LEMMA CallFields ==
    ASSUME NEW c \in Call
    PROVE  /\ c.op \in {"verify_deposit", "mint", "request_refund", "mint_callback",
                        "execute_refund"} => c.utxo \in Utxo
           /\ c.op = "mint_callback" => c.result \in MintResult
           /\ c.op = "execute_refund" =>
                /\ c.caller \in Account
                /\ c.timelock_sec \in Nat
                /\ c.variant \in Variant
           /\ c.op \in {"sign", "signed", "verify_refund"} =>
                c.tx \in RefundTx /\ UtxoOf(c.tx) \in Utxo
  BY DEF Call, RefundTx, UtxoOf

LEMMA RefundTxUtxo ==
    ASSUME NEW tx \in RefundTx
    PROVE  UtxoOf(tx) \in Utxo
  BY DEF RefundTx, UtxoOf

-----------------------------------------------------------------------------
(* Types.                                                                  *)

LEMMA InitTypeOK == Init => TypeOK
  BY DEF Init, TypeOK

LEMMA StartCallTypeOK ==
    ASSUME TypeOK, NEW p \in PromiseId, NEW call \in Call,
           promises' = [promises EXCEPT ![p] = call]
    PROVE  promises' \in [PromiseId -> Call \cup {None}]
  BY DEF TypeOK

LEMMA ReturnTypeOK ==
    ASSUME TypeOK, NEW p \in PromiseId, Return(p)
    PROVE  promises' \in [PromiseId -> Call \cup {None}]
  BY DEF TypeOK, Return

LEMMA RunningCall ==
    ASSUME TypeOK, NEW p \in PromiseId, NEW ops, Running(p, ops)
    PROVE  promises[p] \in Call /\ promises[p].op \in ops
  BY DEF TypeOK, Running

LEMMA EntryTypeOK ==
    ASSUME TypeOK, NEW p \in PromiseId, Entry(p)
    PROVE  TypeOK'
  <1>1. promises' \in [PromiseId -> Call \cup {None}]
    <2>1. ASSUME NEW u \in Utxo, VerifyDeposit(p, u) \/ RequestRefund(p, u)
          PROVE  promises' \in [PromiseId -> Call \cup {None}]
      <3>1. /\ [op |-> "verify_deposit", utxo |-> u] \in Call
            /\ [op |-> "request_refund", utxo |-> u] \in Call
        BY DEF Call
      <3>2. QED
        BY <2>1, <3>1, StartCallTypeOK DEF VerifyDeposit, RequestRefund, StartCall
    <2>2. ASSUME NEW caller \in Account, NEW u \in Utxo, NEW variant \in Variant,
                 ExecuteRefundAsync(p, caller, u, variant)
          PROVE  promises' \in [PromiseId -> Call \cup {None}]
      <3>1. Timelock(caller, u) \in Nat
        BY ConstantsAssumption DEF Timelock
      <3>2. [op |-> "execute_refund", utxo |-> u, caller |-> caller,
             timelock_sec |-> Timelock(caller, u), variant |-> variant] \in Call
        BY <3>1 DEF Call
      <3>3. QED
        BY <2>2, <3>2, StartCallTypeOK DEF ExecuteRefundAsync, StartCall
    <2>3. ASSUME NEW tx \in RefundTx, SignBtcTransaction(p, tx) \/ VerifyRefund(p, tx)
          PROVE  promises' \in [PromiseId -> Call \cup {None}]
      <3>1. /\ [op |-> "sign", tx |-> tx] \in Call
            /\ [op |-> "verify_refund", tx |-> tx] \in Call
        BY DEF Call
      <3>2. QED
        BY <2>3, <3>1, StartCallTypeOK DEF SignBtcTransaction, VerifyRefund, StartCall
    <2>4. QED
      BY <2>1, <2>2, <2>3 DEF Entry
  <1>2. UNCHANGED <<depositVars, requestVars, pendingVars, worldVars>>
    BY DEF Entry, VerifyDeposit, RequestRefund, ExecuteRefundAsync, SignBtcTransaction,
           VerifyRefund
  <1>3. QED
    BY <1>1, <1>2 DEF TypeOK, depositVars, requestVars, pendingVars, worldVars

LEMMA FinalizeRefundTypeOK ==
    ASSUME TypeOK, NEW caller \in Account, NEW u \in Utxo, NEW t \in Nat,
           NEW variant \in Variant, FinalizeRefund(caller, u, t, variant),
           promises' \in [PromiseId -> Call \cup {None}]
    PROVE  TypeOK'
  <1>1. <<u, variant>> \in RefundTx
    BY DEF RefundTx
  <1>2. btc_pending_infos' \in [RefundTx -> BTCPendingInfo \cup {None}]
    <2>1. [account_id |-> caller, stage |-> "PendingSign"] \in BTCPendingInfo
      BY DEF BTCPendingInfo, Stage
    <2>2. QED
      BY <1>1, <2>1 DEF FinalizeRefund, ClaimForRefund, TypeOK
  <1>3. refund_requests' \in [Utxo -> RefundRequest \cup {None}]
    <2>1. refund_requests[u] \in RefundRequest
      BY DEF FinalizeRefund, ClaimForRefund, TypeOK
    <2>2. [refund_requests[u] EXCEPT !.executed = TRUE] \in RefundRequest
      BY <2>1 DEF RefundRequest
    <2>3. QED
      BY <2>2 DEF FinalizeRefund, ClaimForRefund, TypeOK
  <1>4. btc_pending_sign_ids' \in [Account -> SUBSET RefundTx]
    BY <1>1 DEF FinalizeRefund, ClaimForRefund, TypeOK
  <1>5. QED
    BY <1>2, <1>3, <1>4 DEF FinalizeRefund, ClaimForRefund, TypeOK, worldVars

LEMMA CallbackTypeOK ==
    ASSUME TypeOK, NEW p \in PromiseId, Callback(p)
    PROVE  TypeOK'
  <1>1. CASE VerifyDepositCallback(p)
    <2>1. promises[p].utxo \in Utxo
      BY <1>1, RunningCall, CallFields DEF VerifyDepositCallback, ReserveForDeposit
    <2>2. [op |-> "mint", utxo |-> promises[p].utxo] \in Call
      BY <2>1 DEF Call
    <2>3. QED
      BY <1>1, <2>1, <2>2, StartCallTypeOK
      DEF VerifyDepositCallback, ReserveForDeposit, Continue, TypeOK, requestVars,
          pendingVars, worldVars
  <1>2. CASE Mint(p)
    <2>1. promises[p].utxo \in Utxo
      BY <1>2, RunningCall, CallFields DEF Mint
    <2>2. \A r \in MintResult :
            [op |-> "mint_callback", utxo |-> promises[p].utxo, result |-> r] \in Call
      BY <2>1 DEF Call
    <2>3. promises' \in [PromiseId -> Call \cup {None}]
      BY <1>2, <2>2 DEF Mint, Continue, TypeOK
    <2>4. minted' \in [Utxo -> Nat]
      BY <1>2, <2>1 DEF Mint, TypeOK
    <2>5. QED
      BY <1>2, <2>3, <2>4 DEF Mint, TypeOK, depositVars, requestVars, pendingVars
  <1>3. CASE MintCallback(p)
    <2>1. promises[p].utxo \in Utxo
      BY <1>3, RunningCall, CallFields DEF MintCallback, RegisterUtxo, FailMint
    <2>2. QED
      BY <1>3, <2>1, ReturnTypeOK
      DEF MintCallback, RegisterUtxo, FailMint, TypeOK, requestVars, pendingVars,
          worldVars
  <1>4. CASE MintCallbackDies(p) \/ CallbackPanics(p)
    BY <1>4, ReturnTypeOK
    DEF MintCallbackDies, CallbackPanics, TypeOK, depositVars, requestVars, pendingVars,
        worldVars
  <1>5. CASE RequestRefundCallback(p)
    <2>1. promises[p].utxo \in Utxo
      BY <1>5, RunningCall, CallFields DEF RequestRefundCallback
    <2>2. [created_at_sec |-> now, executed |-> FALSE] \in RefundRequest
      BY DEF TypeOK, RefundRequest
    <2>3. QED
      BY <1>5, <2>1, <2>2, ReturnTypeOK
      DEF RequestRefundCallback, TypeOK, depositVars, pendingVars, worldVars
  <1>6. CASE ExecuteRefundCallback(p)
    <2>1. /\ promises[p].utxo \in Utxo
          /\ promises[p].caller \in Account
          /\ promises[p].timelock_sec \in Nat
          /\ promises[p].variant \in Variant
      BY <1>6, RunningCall, CallFields DEF ExecuteRefundCallback
    <2>2. QED
      BY <1>6, <2>1, FinalizeRefundTypeOK, ReturnTypeOK DEF ExecuteRefundCallback
  <1>7. CASE MpcSign(p)
    <2>1. promises[p].tx \in RefundTx
      BY <1>7, RunningCall, CallFields DEF MpcSign
    <2>2. [op |-> "signed", tx |-> promises[p].tx] \in Call
      BY <2>1 DEF Call
    <2>3. QED
      BY <1>7, <2>1, <2>2, StartCallTypeOK
      DEF MpcSign, Continue, TypeOK, depositVars, requestVars, pendingVars
  <1>8. CASE SignBtcTransactionCallback(p)
    <2>. DEFINE tx == promises[p].tx
    <2>1. tx \in RefundTx
      BY <1>8, RunningCall, CallFields DEF SignBtcTransactionCallback
    <2>2. btc_pending_infos[tx] \in BTCPendingInfo
      BY <1>8, <2>1 DEF SignBtcTransactionCallback, Signable, TypeOK
    <2>3. [btc_pending_infos[tx] EXCEPT !.stage = "PendingVerify"] \in BTCPendingInfo
      BY <2>2, SMTT(30) DEF BTCPendingInfo, Stage
    <2>4. btc_pending_infos' \in [RefundTx -> BTCPendingInfo \cup {None}]
      BY <1>8, <2>3 DEF SignBtcTransactionCallback, TypeOK
    <2>5. /\ TypeOK /\ Return(p)
          /\ UNCHANGED <<depositVars, requestVars, worldVars>>
      BY <1>8 DEF SignBtcTransactionCallback
    <2>6. /\ btc_pending_sign_ids' \in [Account -> SUBSET RefundTx]
          /\ btc_pending_verify_list' \in [Account -> SUBSET RefundTx]
      BY <1>8, <2>1 DEF SignBtcTransactionCallback, TypeOK
    <2>7. promises' \in [PromiseId -> Call \cup {None}]
      BY <2>5, ReturnTypeOK
    <2>8. QED
      BY <2>4, <2>5, <2>6, <2>7 DEF TypeOK, depositVars, requestVars, worldVars
  <1>9. CASE VerifyRefundCallback(p)
    <2>1. promises[p].tx \in RefundTx /\ UtxoOf(promises[p].tx) \in Utxo
      BY <1>9, RunningCall, CallFields
      DEF VerifyRefundCallback, InclusionVerified, SettleRefund
    <2>2. QED
      BY <1>9, <2>1, ReturnTypeOK
      DEF VerifyRefundCallback, InclusionVerified, SettleRefund, TypeOK, depositVars,
          worldVars
  <1>10. QED
    BY <1>1, <1>2, <1>3, <1>4, <1>5, <1>6, <1>7, <1>8, <1>9 DEF Callback

LEMMA NextTypeOK == TypeOK /\ [Next]_vars => TypeOK'
  <1> SUFFICES ASSUME TypeOK, [Next]_vars PROVE TypeOK'
    OBVIOUS
  <1>1. ASSUME NEW p \in PromiseId, Entry(p) \/ Callback(p) PROVE TypeOK'
    BY <1>1, EntryTypeOK, CallbackTypeOK
  <1>2. ASSUME NEW u \in Utxo,
               CompleteFailedDepositMint(u) \/ GenerateVutxos(u)
        PROVE  TypeOK'
    BY <1>2
    DEF CompleteFailedDepositMint, RegisterUtxo, GenerateVutxos, TypeOK, requestVars,
        pendingVars, worldVars
  <1>3. ASSUME NEW u \in Utxo, NEW is_privileged \in BOOLEAN,
               RejectRefund(u, is_privileged)
        PROVE  TypeOK'
    BY <1>3 DEF RejectRefund, Rejectable, TypeOK, depositVars, pendingVars, worldVars
  <1>4. ASSUME NEW caller \in Account, NEW u \in Utxo, NEW variant \in Variant,
               ExecuteRefund(caller, u, variant)
        PROVE  TypeOK'
    <2>1. Timelock(caller, u) \in Nat
      BY ConstantsAssumption DEF Timelock
    <2>2. promises' \in [PromiseId -> Call \cup {None}]
      BY <1>4 DEF ExecuteRefund, TypeOK
    <2>3. QED
      BY <1>4, <2>1, <2>2, FinalizeRefundTypeOK DEF ExecuteRefund
  <1>5. ASSUME NEW tx \in RefundTx, Confirm(tx)
        PROVE  TypeOK'
    BY <1>5 DEF Confirm, TypeOK, depositVars, requestVars, pendingVars
  <1>6. ASSUME NEW tx \in RefundTx, RemoveRefundPendingTxId(tx)
        PROVE  TypeOK'
    <2>1. btc_pending_infos' \in [RefundTx -> BTCPendingInfo \cup {None}]
      BY <1>6 DEF RemoveRefundPendingTxId, Removable, ForgetTx, TypeOK
    <2>2. btc_pending_sign_ids' \in [Account -> SUBSET RefundTx]
      BY <1>6 DEF RemoveRefundPendingTxId, Removable, ForgetTx, TypeOK
    <2>3. btc_pending_verify_list' \in [Account -> SUBSET RefundTx]
      BY <1>6 DEF RemoveRefundPendingTxId, Removable, ForgetTx, TypeOK
    <2>4. QED
      BY <1>6, <2>1, <2>2, <2>3
      DEF RemoveRefundPendingTxId, Removable, ForgetTx, TypeOK, depositVars, requestVars,
          worldVars
  <1>7. CASE Tick
    BY <1>7 DEF Tick, TypeOK, depositVars, requestVars, pendingVars
  <1>8. CASE UNCHANGED vars
    BY <1>8 DEF vars, TypeOK
  <1>9. QED
    BY <1>1, <1>2, <1>3, <1>4, <1>5, <1>6, <1>7, <1>8 DEF Next

\* Every state the bridge reaches has the declared types: no receipt writes a
\* stage, a list or a request that the rest of the contract cannot read.
THEOREM TypeCorrect == Spec => []TypeOK
  BY InitTypeOK, NextTypeOK, PTL DEF Spec

-----------------------------------------------------------------------------
(* The inductive invariant.                                                *)

LEMMA InitIInv == Init => IInv
  <1> SUFFICES ASSUME Init PROVE IInv
    OBVIOUS
  <1>1. TypeOK
    BY InitTypeOK
  <1>2. MintedAtMostOnce /\ MintIsBacked
    BY DEF Init, MintedAtMostOnce, MintIsBacked
  <1>3. VerifiedForOneReason
    BY DEF Init, VerifiedForOneReason, BridgeOwned, Refunding, Executed, Refunded
  <1>4. MintCallsHoldTheirUtxo /\ UncreditedUntilMinted /\ RefundTxHasRefund
    BY DEF Init, MintCallsHoldTheirUtxo, UncreditedUntilMinted, RefundTxHasRefund,
           MintCall, Running
  <1>5. QED
    BY <1>1, <1>2, <1>3, <1>4 DEF IInv

\* A step that leaves deposits and mints alone, and neither starts nor ends the
\* refund of an output, keeps the invariant if its refund transactions have a
\* refund.
LEMMA DepositsUntouchedIInv ==
    ASSUME IInv, TypeOK',
           UNCHANGED <<depositVars, minted, withdrawn>>,
           \A u \in Utxo : Refunding(u)' <=> Refunding(u),
           \A q \in PromiseId :
                Running(q, {"mint", "mint_callback"})' => promises'[q] = promises[q],
           RefundTxHasRefund'
    PROVE  IInv'
  <1>1. MintedAtMostOnce' /\ MintIsBacked'
    BY DEF IInv, MintedAtMostOnce, MintIsBacked, depositVars
  <1>2. VerifiedForOneReason'
    BY DEF IInv, VerifiedForOneReason, BridgeOwned, depositVars
  <1>3. MintCallsHoldTheirUtxo'
    BY DEF IInv, MintCallsHoldTheirUtxo, MintCall, Running, depositVars
  <1>4. UncreditedUntilMinted'
    <2> SUFFICES ASSUME NEW q \in PromiseId,
                        \/ Running(q, {"mint"})'
                        \/ /\ Running(q, {"mint_callback"})'
                           /\ ~IsSuccess(promises'[q].utxo, promises'[q].result)
                 PROVE  minted'[promises'[q].utxo] = 0
      BY DEF UncreditedUntilMinted, IsSuccess
    <2>1. promises'[q] = promises[q]
      BY DEF Running
    <2>2. QED
      BY <2>1 DEF IInv, UncreditedUntilMinted, Running
  <1>5. QED
    BY <1>1, <1>2, <1>3, <1>4 DEF IInv

\* A step that only starts or ends a call outside the mint flow.
LEMMA CallIInv ==
    ASSUME IInv, TypeOK', NEW p \in PromiseId,
           UNCHANGED <<depositVars, requestVars, pendingVars, worldVars>>,
           \A q \in PromiseId : q # p => promises'[q] = promises[q],
           ~Running(p, {"mint", "mint_callback"})',
           Running(p, {"sign", "signed", "verify_refund"})'
                => Refunding(UtxoOf(promises'[p].tx))
    PROVE  IInv'
  <1>1. \A u : Refunding(u)' <=> Refunding(u)
    BY DEF Refunding, Executed, Refunded, requestVars, worldVars
  <1>2. RefundTxHasRefund'
    <2>1. \A tx \in RefundTx :
            (btc_pending_infos[tx] # None \/ tx \in mpc_signed => Refunding(UtxoOf(tx)))'
      BY DEF IInv, RefundTxHasRefund, Refunding, Executed, Refunded, requestVars,
             pendingVars, worldVars
    <2>2. ASSUME NEW q \in PromiseId, Running(q, {"sign", "signed", "verify_refund"})'
          PROVE  Refunding(UtxoOf(promises[q].tx))'
      <3>1. Refunding(UtxoOf(promises'[q].tx))
        BY <2>2 DEF IInv, RefundTxHasRefund, Running
      <3>2. QED
        BY <3>1 DEF Refunding, Executed, Refunded, requestVars, worldVars
    <2>3. QED
      BY <2>1, <2>2 DEF RefundTxHasRefund
  <1>3. QED
    BY <1>1, <1>2, DepositsUntouchedIInv DEF Running, depositVars, worldVars

LEMMA EntryIInv ==
    ASSUME IInv, NEW p \in PromiseId, Entry(p)
    PROVE  IInv'
  <1>1. TypeOK /\ TypeOK'
    BY EntryTypeOK DEF IInv
  <1>2. ASSUME NEW call, StartCall(p, call),
               call.op \notin {"mint", "mint_callback"},
               call.op \in {"sign", "signed", "verify_refund"} => Refunding(UtxoOf(call.tx)),
               UNCHANGED <<depositVars, requestVars, pendingVars, worldVars>>
        PROVE  IInv'
    <2>1. promises'[p] = call /\ \A q \in PromiseId : q # p => promises'[q] = promises[q]
      BY <1>1, <1>2 DEF StartCall, TypeOK
    <2>2. QED
      BY <1>1, <1>2, <2>1, CallIInv DEF Running
  <1>3. ASSUME NEW u \in Utxo, VerifyDeposit(p, u) PROVE IInv'
    BY <1>2, <1>3 DEF VerifyDeposit
  <1>4. ASSUME NEW u \in Utxo, RequestRefund(p, u) PROVE IInv'
    BY <1>2, <1>4 DEF RequestRefund
  <1>5. ASSUME NEW caller \in Account, NEW u \in Utxo, NEW variant \in Variant,
               ExecuteRefundAsync(p, caller, u, variant)
        PROVE  IInv'
    BY <1>2, <1>5 DEF ExecuteRefundAsync
  <1>6. ASSUME NEW tx \in RefundTx, SignBtcTransaction(p, tx) PROVE IInv'
    <2>1. Refunding(UtxoOf(tx))
      BY <1>6 DEF SignBtcTransaction, Signable, IInv, RefundTxHasRefund
    <2>2. QED
      BY <1>2, <1>6, <2>1 DEF SignBtcTransaction
  <1>7. ASSUME NEW tx \in RefundTx, VerifyRefund(p, tx) PROVE IInv'
    <2>1. Refunding(UtxoOf(tx))
      BY <1>7 DEF VerifyRefund, IInv, RefundTxHasRefund
    <2>2. QED
      BY <1>2, <1>7, <2>1 DEF VerifyRefund
  <1>8. QED
    BY <1>3, <1>4, <1>5, <1>6, <1>7 DEF Entry

\* Calls that have nothing to do with refund transactions do not disturb them.
LEMMA RefundTxsUntouched ==
    ASSUME IInv, UNCHANGED <<refund_requests, btc_pending_infos, mpc_signed, confirmed>>,
           \A q \in PromiseId :
                Running(q, {"sign", "signed", "verify_refund"})' => promises'[q] = promises[q]
    PROVE  /\ RefundTxHasRefund'
           /\ \A u : Refunding(u)' <=> Refunding(u)
  <1>1. \A u : Refunding(u)' <=> Refunding(u)
    BY DEF Refunding, Executed, Refunded
  <1>2. ASSUME NEW q \in PromiseId, Running(q, {"sign", "signed", "verify_refund"})'
        PROVE  Refunding(UtxoOf(promises[q].tx))'
    <2>1. promises'[q] = promises[q] /\ Refunding(UtxoOf(promises[q].tx))
      BY <1>2 DEF IInv, RefundTxHasRefund, Running
    <2>2. QED
      BY <2>1 DEF Refunding, Executed, Refunded
  <1>3. \A tx \in RefundTx :
            (btc_pending_infos[tx] # None \/ tx \in mpc_signed => Refunding(UtxoOf(tx)))'
    BY DEF IInv, RefundTxHasRefund, Refunding, Executed, Refunded
  <1>4. QED
    BY <1>1, <1>2, <1>3 DEF RefundTxHasRefund

LEMMA VerifyDepositCallbackIInv ==
    ASSUME IInv, TypeOK', NEW p \in PromiseId, VerifyDepositCallback(p)
    PROVE  IInv'
  <1> DEFINE v == promises[p].utxo
  <1>1. v \in Utxo
    BY RunningCall, CallFields DEF VerifyDepositCallback, ReserveForDeposit, IInv
  <1>2. /\ promises'[p] = [op |-> "mint", utxo |-> v]
        /\ \A q \in PromiseId : q # p => promises'[q] = promises[q]
    BY DEF VerifyDepositCallback, ReserveForDeposit, Continue, IInv, TypeOK
  <1>3. RefundTxHasRefund' /\ \A u : Refunding(u)' <=> Refunding(u)
    BY <1>2, RefundTxsUntouched
    DEF VerifyDepositCallback, ReserveForDeposit, Running, requestVars, pendingVars,
        worldVars
  <1>4. v \notin utxos_in_progress /\ ~BridgeOwned(v) /\ ~Refunding(v) /\ minted[v] = 0
    BY <1>1
    DEF VerifyDepositCallback, ReserveForDeposit, IInv, VerifiedForOneReason,
        MintIsBacked, BridgeOwned, TypeOK
  <1>5. MintedAtMostOnce' /\ MintIsBacked'
    BY DEF VerifyDepositCallback, ReserveForDeposit, IInv, MintedAtMostOnce, MintIsBacked,
           worldVars
  <1>6. VerifiedForOneReason'
    BY <1>1, <1>3, <1>4
    DEF VerifyDepositCallback, ReserveForDeposit, IInv, VerifiedForOneReason, BridgeOwned,
        worldVars
  <1>7. MintCallsHoldTheirUtxo'
    <2>1. \A q \in PromiseId : ~MintCall(q, v)
      BY <1>1, <1>4 DEF IInv, MintCallsHoldTheirUtxo
    <2>2. \A q \in PromiseId, u \in Utxo :
            MintCall(q, u)' => (q # p /\ MintCall(q, u)) \/ (q = p /\ u = v)
      BY <1>2 DEF MintCall, Running
    <2>3. QED
      BY <1>2, <2>1, <2>2
      DEF VerifyDepositCallback, ReserveForDeposit, IInv, MintCallsHoldTheirUtxo
  <1>8. UncreditedUntilMinted'
    BY <1>2, <1>4
    DEF VerifyDepositCallback, ReserveForDeposit, IInv, UncreditedUntilMinted, Running,
        IsSuccess, worldVars
  <1>9. QED
    BY <1>3, <1>5, <1>6, <1>7, <1>8 DEF IInv

LEMMA MintIInv ==
    ASSUME IInv, TypeOK', NEW p \in PromiseId, Mint(p)
    PROVE  IInv'
  <1> DEFINE v == promises[p].utxo
  <1>1. PICK r \in MintResult, credit \in {0, 1} :
            /\ r = "used" => credit = 1
            /\ r = "returned" => credit = 0 /\ v \in SafeDeposit
            /\ r = "error" /\ v \notin SafeDeposit => credit = 0
            /\ minted' = [minted EXCEPT ![v] = @ + credit]
            /\ promises' =
                [promises EXCEPT ![p] = [op |-> "mint_callback", utxo |-> v, result |-> r]]
    BY DEF Mint, Continue
  <1>2. v \in Utxo /\ Running(p, {"mint"})
    BY RunningCall, CallFields DEF Mint, IInv
  <1>3. /\ promises'[p] = [op |-> "mint_callback", utxo |-> v, result |-> r]
        /\ \A q \in PromiseId : q # p => promises'[q] = promises[q]
    BY <1>1 DEF IInv, TypeOK
  <1>4. RefundTxHasRefund' /\ \A u : Refunding(u)' <=> Refunding(u)
    BY <1>3, RefundTxsUntouched DEF Mint, Running, requestVars, pendingVars
  <1>5. minted[v] = 0 /\ v \in utxos_in_progress /\ MintCall(p, v)
    BY <1>2 DEF IInv, UncreditedUntilMinted, MintCallsHoldTheirUtxo, MintCall, Running
  <1>6. /\ minted'[v] = credit
        /\ \A u \in Utxo : u # v => minted'[u] = minted[u]
    BY <1>1, <1>2, <1>5 DEF IInv, TypeOK
  <1>7. MintedAtMostOnce' /\ MintIsBacked'
    BY <1>5, <1>6 DEF Mint, IInv, MintedAtMostOnce, MintIsBacked, depositVars
  <1>8. VerifiedForOneReason'
    BY <1>4 DEF Mint, IInv, VerifiedForOneReason, BridgeOwned, depositVars
  <1>9. MintCallsHoldTheirUtxo'
    <2>1. \A q \in PromiseId, u \in Utxo : MintCall(q, u)' => MintCall(q, u)
      BY <1>3, <1>5 DEF MintCall, Running
    <2>2. QED
      BY <2>1 DEF Mint, IInv, MintCallsHoldTheirUtxo, depositVars
  <1>10. UncreditedUntilMinted'
    <2> SUFFICES ASSUME NEW q \in PromiseId,
                        \/ Running(q, {"mint"})'
                        \/ /\ Running(q, {"mint_callback"})'
                           /\ ~IsSuccess(promises'[q].utxo, promises'[q].result)
                 PROVE  minted'[promises'[q].utxo] = 0
      BY DEF UncreditedUntilMinted, IsSuccess
    <2>1. CASE q = p
      BY <1>1, <1>3, <1>6, <2>1 DEF IsSuccess, Running, MintResult
    <2>2. CASE q # p
      <3>1. promises'[q] = promises[q]
        BY <1>3, <2>2
      <3>2. promises[q].utxo \in Utxo /\ MintCall(q, promises[q].utxo)
        BY <3>1, CallFields, RunningCall DEF Running, MintCall, IInv, TypeOK
      <3>3. promises[q].utxo # v
        BY <1>2, <1>5, <2>2, <3>2 DEF IInv, MintCallsHoldTheirUtxo
      <3>4. minted[promises[q].utxo] = 0
        BY <3>1 DEF IInv, UncreditedUntilMinted, Running
      <3>5. QED
        BY <1>6, <3>1, <3>2, <3>3, <3>4
    <2>3. QED
      BY <2>1, <2>2
  <1>11. QED
    BY <1>4, <1>7, <1>8, <1>9, <1>10 DEF IInv

\* The calls that a step did not start were there before.
LEMMA MintCallsAfter ==
    ASSUME NEW p \in PromiseId, promises'[p] = None,
           \A q \in PromiseId : q # p => promises'[q] = promises[q]
    PROVE  \A q \in PromiseId, u \in Utxo : MintCall(q, u)' => q # p /\ MintCall(q, u)
  BY DEF MintCall, Running

LEMMA ReturnFrees ==
    ASSUME TypeOK, NEW p \in PromiseId, Return(p)
    PROVE  /\ promises'[p] = None
           /\ \A q \in PromiseId : q # p => promises'[q] = promises[q]
           /\ ~Running(p, {"mint", "mint_callback"})'
           /\ ~Running(p, {"sign", "signed", "verify_refund"})'
  BY DEF Return, TypeOK, Running

LEMMA MintCallbackIInv ==
    ASSUME IInv, TypeOK', NEW p \in PromiseId, MintCallback(p)
    PROVE  IInv'
  <1> DEFINE v == promises[p].utxo
             success == IsSuccess(v, promises[p].result)
  <1>1. v \in Utxo
    BY RunningCall, CallFields DEF MintCallback, RegisterUtxo, FailMint, IInv
  <1>2. /\ promises'[p] = None
        /\ \A q \in PromiseId : q # p => promises'[q] = promises[q]
    BY ReturnFrees DEF MintCallback, RegisterUtxo, FailMint, IInv
  <1>3. RefundTxHasRefund' /\ \A u : Refunding(u)' <=> Refunding(u)
    BY <1>2, RefundTxsUntouched
    DEF MintCallback, RegisterUtxo, FailMint, Running, requestVars, pendingVars, worldVars
  <1>4. MintCall(p, v) /\ v \in utxos_in_progress
    BY <1>1
    DEF MintCallback, RegisterUtxo, FailMint, MintCall, Running, IInv,
        MintCallsHoldTheirUtxo
  <1>5. ~success => minted[v] = 0
    BY DEF MintCallback, RegisterUtxo, FailMint, IInv, UncreditedUntilMinted
  <1>6. /\ utxos_in_progress' = utxos_in_progress \ {v}
        /\ success => utxos' = utxos \cup {v} /\ UNCHANGED verified_deposit_utxo
        /\ ~success => /\ verified_deposit_utxo' = verified_deposit_utxo \ {v}
                       /\ UNCHANGED utxos
        /\ UNCHANGED worldVars
    BY DEF MintCallback, RegisterUtxo, FailMint
  <1>7. MintedAtMostOnce' /\ MintIsBacked'
    BY <1>5, <1>6 DEF IInv, MintedAtMostOnce, MintIsBacked, worldVars
  <1>8. VerifiedForOneReason'
    <2>1. ~BridgeOwned(v) /\ ~Refunding(v)
      BY <1>1, <1>4 DEF IInv, VerifiedForOneReason
    <2>2. QED
      BY <1>1, <1>3, <1>4, <1>6, <2>1
      DEF IInv, VerifiedForOneReason, BridgeOwned, worldVars
  <1>9. MintCallsHoldTheirUtxo'
    <2>1. \A q \in PromiseId, u \in Utxo : MintCall(q, u)' => q # p /\ MintCall(q, u)
      BY <1>2, MintCallsAfter
    <2>2. \A q \in PromiseId, u \in Utxo : MintCall(q, u)' => u # v
      BY <1>1, <1>4, <2>1 DEF IInv, MintCallsHoldTheirUtxo
    <2>3. QED
      BY <1>6, <2>1, <2>2 DEF IInv, MintCallsHoldTheirUtxo
  <1>10. UncreditedUntilMinted'
    BY <1>2, <1>6 DEF IInv, UncreditedUntilMinted, Running, IsSuccess, worldVars
  <1>11. QED
    BY <1>3, <1>7, <1>8, <1>9, <1>10 DEF IInv

LEMMA CompleteFailedDepositMintIInv ==
    ASSUME TrustedDAO, IInv, TypeOK', NEW v \in Utxo, CompleteFailedDepositMint(v)
    PROVE  IInv'
  <1>1. RefundTxHasRefund' /\ \A u : Refunding(u)' <=> Refunding(u)
    BY RefundTxsUntouched
    DEF CompleteFailedDepositMint, RegisterUtxo, requestVars, pendingVars, worldVars
  <1>2. v \in utxos_in_progress /\ ~BridgeOwned(v) /\ ~Refunding(v)
    BY DEF CompleteFailedDepositMint, RegisterUtxo, MintedButUnregistered, IInv,
           VerifiedForOneReason
  <1>3. \A q \in PromiseId : ~MintCall(q, v)
    BY DEF CompleteFailedDepositMint, RegisterUtxo, MintedButUnregistered, MintCall
  <1>4. MintedAtMostOnce' /\ MintIsBacked'
    BY DEF CompleteFailedDepositMint, RegisterUtxo, IInv, MintedAtMostOnce, MintIsBacked,
           worldVars
  <1>5. VerifiedForOneReason'
    BY <1>1, <1>2
    DEF CompleteFailedDepositMint, RegisterUtxo, IInv, VerifiedForOneReason, BridgeOwned,
        worldVars
  <1>6. MintCallsHoldTheirUtxo'
    BY <1>3
    DEF CompleteFailedDepositMint, RegisterUtxo, IInv, MintCallsHoldTheirUtxo, MintCall,
        Running
  <1>7. UncreditedUntilMinted'
    BY DEF CompleteFailedDepositMint, RegisterUtxo, IInv, UncreditedUntilMinted, Running,
           IsSuccess, worldVars
  <1>8. QED
    BY <1>1, <1>4, <1>5, <1>6, <1>7 DEF IInv

LEMMA GenerateVutxosIInv ==
    ASSUME IInv, TypeOK', NEW v \in Utxo, GenerateVutxos(v)
    PROVE  IInv'
  <1>1. RefundTxHasRefund' /\ \A u : Refunding(u)' <=> Refunding(u)
    BY RefundTxsUntouched DEF GenerateVutxos, requestVars, pendingVars
  <1>2. \A u \in Utxo : BridgeOwned(u)' <=> BridgeOwned(u)
    BY DEF GenerateVutxos, BridgeOwned
  <1>3. MintedAtMostOnce' /\ MintIsBacked'
    BY DEF GenerateVutxos, IInv, MintedAtMostOnce, MintIsBacked
  <1>4. VerifiedForOneReason'
    BY <1>1, <1>2 DEF GenerateVutxos, IInv, VerifiedForOneReason
  <1>5. MintCallsHoldTheirUtxo' /\ UncreditedUntilMinted'
    BY DEF GenerateVutxos, IInv, MintCallsHoldTheirUtxo, UncreditedUntilMinted, MintCall,
           Running, IsSuccess
  <1>6. QED
    BY <1>1, <1>3, <1>4, <1>5 DEF IInv

LEMMA FinalizeRefundExecutes ==
    ASSUME TypeOK, NEW caller, NEW v \in Utxo, NEW t, NEW variant,
           FinalizeRefund(caller, v, t, variant)
    PROVE  Executed(v)' /\ \A u \in Utxo : u # v => (Executed(u)' <=> Executed(u))
  <1>1. refund_requests[v] \in RefundRequest
    BY DEF FinalizeRefund, ClaimForRefund, TypeOK
  <1>2. [refund_requests[v] EXCEPT !.executed = TRUE] \in RefundRequest
    BY <1>1 DEF RefundRequest
  <1>3. /\ refund_requests'[v] = [refund_requests[v] EXCEPT !.executed = TRUE]
        /\ \A u \in Utxo : u # v => refund_requests'[u] = refund_requests[u]
    BY DEF FinalizeRefund, ClaimForRefund, TypeOK
  <1>4. refund_requests'[v].executed /\ refund_requests'[v] # None
    BY <1>1, <1>2, <1>3, NoneAssumption DEF RefundRequest
  <1>5. QED
    BY <1>3, <1>4 DEF Executed

\* Executing a refund, from the entry point or from the Zcash callback, claims
\* an output that is free, or that this refund holds already.
LEMMA FinalizeRefundIInv ==
    ASSUME IInv, TypeOK', NEW caller \in Account, NEW v \in Utxo, NEW t \in Nat,
           NEW variant \in Variant, FinalizeRefund(caller, v, t, variant),
           \A q \in PromiseId :
                promises'[q] = promises[q] \/ promises'[q] = None
    PROVE  IInv'
  <1>1. Executed(v)' /\ \A u \in Utxo : u # v => (Executed(u)' <=> Executed(u))
    BY FinalizeRefundExecutes DEF IInv
  <1>2. \A u \in Utxo : Refunding(u)' <=> Refunding(u) \/ u = v
    BY <1>1 DEF FinalizeRefund, ClaimForRefund, Refunding, Refunded, worldVars
  <1>3. v \notin utxos_in_progress /\ ~BridgeOwned(v)
    BY DEF FinalizeRefund, ClaimForRefund, IInv, VerifiedForOneReason, Refunding
  <1>4. MintedAtMostOnce' /\ MintIsBacked'
    BY DEF FinalizeRefund, ClaimForRefund, IInv, MintedAtMostOnce, MintIsBacked, worldVars
  <1>5. VerifiedForOneReason'
    BY <1>2, <1>3
    DEF FinalizeRefund, ClaimForRefund, IInv, VerifiedForOneReason, BridgeOwned, worldVars
  <1>6. MintCallsHoldTheirUtxo'
    BY DEF FinalizeRefund, ClaimForRefund, IInv, MintCallsHoldTheirUtxo, MintCall, Running
  <1>7. UncreditedUntilMinted'
    BY DEF FinalizeRefund, ClaimForRefund, IInv, UncreditedUntilMinted, Running,
           IsSuccess, worldVars
  <1>8. RefundTxHasRefund'
    <2>1. ASSUME NEW tx \in RefundTx, btc_pending_infos'[tx] # None \/ tx \in mpc_signed'
          PROVE  Refunding(UtxoOf(tx))'
      <3>1. tx = <<v, variant>> \/ btc_pending_infos[tx] # None \/ tx \in mpc_signed
        BY <2>1 DEF FinalizeRefund, ClaimForRefund, IInv, TypeOK, worldVars
      <3>2. UtxoOf(tx) = v \/ Refunding(UtxoOf(tx))
        BY <3>1 DEF UtxoOf, IInv, RefundTxHasRefund
      <3>3. QED
        BY <1>2, <3>2, RefundTxUtxo
    <2>2. ASSUME NEW q \in PromiseId, Running(q, {"sign", "signed", "verify_refund"})'
          PROVE  Refunding(UtxoOf(promises[q].tx))'
      <3>1. /\ promises'[q] = promises[q]
            /\ Running(q, {"sign", "signed", "verify_refund"})
        BY <2>2 DEF Running
      <3>2. UtxoOf(promises[q].tx) \in Utxo /\ Refunding(UtxoOf(promises[q].tx))
        BY <3>1, CallFields, RunningCall DEF IInv, RefundTxHasRefund
      <3>3. QED
        BY <1>2, <3>1, <3>2
    <2>3. QED
      BY <2>1, <2>2 DEF RefundTxHasRefund
  <1>9. QED
    BY <1>4, <1>5, <1>6, <1>7, <1>8 DEF IInv

\* Filing and rejecting a request touch only requests that are not executed.
LEMMA UnexecutedRequestIInv ==
    ASSUME IInv, TypeOK', NEW v \in Utxo, ~Executed(v), ~Executed(v)',
           \A u \in Utxo : u # v => refund_requests'[u] = refund_requests[u],
           UNCHANGED <<depositVars, pendingVars, worldVars>>,
           \A q \in PromiseId : promises'[q] = promises[q] \/ promises'[q] = None
    PROVE  IInv'
  <1>1. \A u \in Utxo : Refunding(u)' <=> Refunding(u)
    BY DEF Refunding, Executed, Refunded, worldVars
  <1>2. RefundTxHasRefund'
    <2>1. \A tx \in RefundTx :
            (btc_pending_infos[tx] # None \/ tx \in mpc_signed => Refunding(UtxoOf(tx)))'
      BY <1>1, RefundTxUtxo DEF IInv, RefundTxHasRefund, pendingVars, worldVars
    <2>2. ASSUME NEW q \in PromiseId, Running(q, {"sign", "signed", "verify_refund"})'
          PROVE  Refunding(UtxoOf(promises[q].tx))'
      <3>1. promises'[q] = promises[q] /\ Running(q, {"sign", "signed", "verify_refund"})
        BY <2>2 DEF Running
      <3>2. UtxoOf(promises[q].tx) \in Utxo /\ Refunding(UtxoOf(promises[q].tx))
        BY <3>1, CallFields, RunningCall DEF IInv, RefundTxHasRefund
      <3>3. QED
        BY <1>1, <3>1, <3>2
    <2>3. QED
      BY <2>1, <2>2 DEF RefundTxHasRefund
  <1>3. \A q \in PromiseId :
            Running(q, {"mint", "mint_callback"})' => promises'[q] = promises[q]
    BY DEF Running
  <1>4. QED
    BY <1>1, <1>2, <1>3, DepositsUntouchedIInv DEF worldVars

\* Signing, finalising and dropping refund transactions, and new blocks, leave
\* alone which outputs are refunded; what they add to the refund transactions
\* comes from a call or a pending transaction that has a refund.
LEMMA RefundTxStepIInv ==
    ASSUME IInv, TypeOK', UNCHANGED <<depositVars, minted, withdrawn>>,
           \A u \in Utxo : Refunding(u)' <=> Refunding(u),
           \A tx \in RefundTx :
                btc_pending_infos'[tx] # None \/ tx \in mpc_signed'
                    => Refunding(UtxoOf(tx)),
           \A q \in PromiseId :
                \/ promises'[q] = promises[q]
                \/ promises'[q] = None
                \/ /\ promises'[q].op = "signed"
                   /\ promises'[q].tx \in RefundTx
                   /\ Refunding(UtxoOf(promises'[q].tx))
    PROVE  IInv'
  <1>1. \A tx \in RefundTx :
            (btc_pending_infos[tx] # None \/ tx \in mpc_signed => Refunding(UtxoOf(tx)))'
    BY RefundTxUtxo
  <1>2. ASSUME NEW q \in PromiseId, Running(q, {"sign", "signed", "verify_refund"})'
        PROVE  Refunding(UtxoOf(promises[q].tx))'
    <2>1. CASE promises'[q] = promises[q]
      <3>1. Running(q, {"sign", "signed", "verify_refund"})
        BY <1>2, <2>1 DEF Running
      <3>2. UtxoOf(promises[q].tx) \in Utxo /\ Refunding(UtxoOf(promises[q].tx))
        BY <3>1, CallFields, RunningCall DEF IInv, RefundTxHasRefund
      <3>3. QED
        BY <2>1, <3>2
    <2>2. CASE promises'[q] # promises[q]
      BY <1>2, <2>2, RefundTxUtxo DEF Running
    <2>3. QED
      BY <2>1, <2>2
  <1>3. RefundTxHasRefund'
    BY <1>1, <1>2 DEF RefundTxHasRefund
  <1>4. \A q \in PromiseId :
            Running(q, {"mint", "mint_callback"})' => promises'[q] = promises[q]
    BY DEF Running
  <1>5. QED
    BY <1>3, <1>4, DepositsUntouchedIInv

LEMMA CallbackIInv ==
    ASSUME IInv, NEW p \in PromiseId, Callback(p)
    PROVE  IInv'
  <1>1. TypeOK /\ TypeOK'
    BY CallbackTypeOK DEF IInv
  <1>2. CASE VerifyDepositCallback(p)
    BY <1>1, <1>2, VerifyDepositCallbackIInv
  <1>3. CASE Mint(p)
    BY <1>1, <1>3, MintIInv
  <1>4. CASE MintCallback(p)
    BY <1>1, <1>4, MintCallbackIInv
  <1>5. CASE MintCallbackDies(p)
    BY <1>1, <1>5, ReturnFrees, CallIInv DEF MintCallbackDies
  <1>6. CASE RequestRefundCallback(p)
    <2>1. PICK v \in Utxo : v = promises[p].utxo
      BY <1>1, <1>6, RunningCall, CallFields DEF RequestRefundCallback
    <2>2. /\ refund_requests'[v] = [created_at_sec |-> now, executed |-> FALSE]
          /\ \A u \in Utxo : u # v => refund_requests'[u] = refund_requests[u]
      BY <1>1, <1>6, <2>1 DEF RequestRefundCallback, TypeOK
    <2>3. ~Executed(v) /\ ~Executed(v)'
      BY <1>6, <2>1, <2>2 DEF RequestRefundCallback, Executed
    <2>4. QED
      BY <1>1, <1>6, <2>1, <2>2, <2>3, UnexecutedRequestIInv, ReturnFrees
      DEF RequestRefundCallback
  <1>7. CASE ExecuteRefundCallback(p)
    <2>1. /\ promises[p].utxo \in Utxo
          /\ promises[p].caller \in Account
          /\ promises[p].timelock_sec \in Nat
          /\ promises[p].variant \in Variant
      BY <1>1, <1>7, RunningCall, CallFields DEF ExecuteRefundCallback
    <2>2. \A q \in PromiseId : promises'[q] = promises[q] \/ promises'[q] = None
      BY <1>1, <1>7, ReturnFrees DEF ExecuteRefundCallback
    <2>3. QED
      BY <1>1, <1>7, <2>1, <2>2, FinalizeRefundIInv DEF ExecuteRefundCallback
  <1>8. CASE MpcSign(p)
    <2> DEFINE tx == promises[p].tx
    <2>1. tx \in RefundTx /\ Refunding(UtxoOf(tx))
      BY <1>1, <1>8, RunningCall, CallFields DEF MpcSign, IInv, RefundTxHasRefund, Running
    <2>2. /\ promises'[p] = [op |-> "signed", tx |-> tx]
          /\ \A q \in PromiseId : q # p => promises'[q] = promises[q]
      BY <1>1, <1>8 DEF MpcSign, Continue, TypeOK
    <2>3. \A u \in Utxo : Refunding(u)' <=> Refunding(u)
      BY <1>8 DEF MpcSign, Refunding, Executed, Refunded, requestVars
    <2>4. \A t \in RefundTx :
            btc_pending_infos'[t] # None \/ t \in mpc_signed' => Refunding(UtxoOf(t))
      BY <1>8, <2>1 DEF MpcSign, IInv, RefundTxHasRefund, pendingVars
    <2>5. UNCHANGED <<depositVars, minted, withdrawn>>
      BY <1>8 DEF MpcSign
    <2>6. QED
      BY <1>1, <2>1, <2>2, <2>3, <2>4, <2>5, RefundTxStepIInv
  <1>9. CASE SignBtcTransactionCallback(p)
    <2> DEFINE tx == promises[p].tx
    <2>1. tx \in RefundTx /\ btc_pending_infos[tx] # None
      BY <1>1, <1>9, RunningCall, CallFields DEF SignBtcTransactionCallback, Signable
    <2>2. \A u \in Utxo : Refunding(u)' <=> Refunding(u)
      BY <1>9 DEF SignBtcTransactionCallback, Refunding, Executed, Refunded, requestVars,
                  worldVars
    <2>3. \A t \in RefundTx : t # tx => btc_pending_infos'[t] = btc_pending_infos[t]
      BY <1>1, <1>9 DEF SignBtcTransactionCallback, TypeOK
    <2>4. \A t \in RefundTx :
            btc_pending_infos'[t] # None \/ t \in mpc_signed' => Refunding(UtxoOf(t))
      BY <1>9, <2>1, <2>3
      DEF SignBtcTransactionCallback, IInv, RefundTxHasRefund, worldVars
    <2>5. QED
      BY <1>1, <1>9, <2>2, <2>4, ReturnFrees, RefundTxStepIInv
      DEF SignBtcTransactionCallback, worldVars
  <1>10. CASE VerifyRefundCallback(p)
    <2>1. PICK tx \in RefundTx, v \in Utxo : tx = promises[p].tx /\ v = UtxoOf(tx)
      BY <1>1, <1>10, RunningCall, CallFields
      DEF VerifyRefundCallback, InclusionVerified, SettleRefund
    <2>2. Refunded(v) /\ Refunded(v)'
      BY <1>10, <2>1
      DEF VerifyRefundCallback, InclusionVerified, SettleRefund, Refunded, worldVars
    <2>3. \A u \in Utxo : u # v => refund_requests'[u] = refund_requests[u]
      BY <1>1, <1>10, <2>1
      DEF VerifyRefundCallback, InclusionVerified, SettleRefund, TypeOK
    <2>4. \A u \in Utxo : Refunding(u)' <=> Refunding(u)
      BY <1>10, <2>2, <2>3
      DEF VerifyRefundCallback, InclusionVerified, SettleRefund, Refunding, Executed,
          Refunded, worldVars
    <2>5. \A t \in RefundTx :
            btc_pending_infos'[t] # None => btc_pending_infos[t] # None
      BY <1>1, <1>10 DEF VerifyRefundCallback, InclusionVerified, SettleRefund, TypeOK
    <2>6. \A t \in RefundTx :
            btc_pending_infos'[t] # None \/ t \in mpc_signed' => Refunding(UtxoOf(t))
      BY <1>10, <2>5
      DEF VerifyRefundCallback, InclusionVerified, SettleRefund, IInv, RefundTxHasRefund,
          worldVars
    <2>7. QED
      BY <1>1, <1>10, <2>4, <2>6, ReturnFrees, RefundTxStepIInv
      DEF VerifyRefundCallback, InclusionVerified, SettleRefund, worldVars
  <1>11. CASE CallbackPanics(p)
    BY <1>1, <1>11, ReturnFrees, CallIInv DEF CallbackPanics
  <1>12. QED
    BY <1>2, <1>3, <1>4, <1>5, <1>6, <1>7, <1>8, <1>9, <1>10, <1>11 DEF Callback

LEMMA NextIInv ==
    ASSUME TrustedDAO, IInv, [Next]_vars
    PROVE  IInv'
  <1>1. TypeOK /\ TypeOK'
    BY NextTypeOK DEF IInv
  <1>2. ASSUME NEW p \in PromiseId, Entry(p) \/ Callback(p) PROVE IInv'
    BY <1>2, EntryIInv, CallbackIInv
  <1>3. ASSUME NEW u \in Utxo, CompleteFailedDepositMint(u) \/ GenerateVutxos(u)
        PROVE  IInv'
    BY <1>1, <1>3, CompleteFailedDepositMintIInv, GenerateVutxosIInv
  <1>4. ASSUME NEW u \in Utxo, NEW is_privileged \in BOOLEAN,
               RejectRefund(u, is_privileged)
        PROVE  IInv'
    <2>1. refund_requests'[u] = None
      BY <1>1, <1>4 DEF RejectRefund, Rejectable, TypeOK
    <2>2. \A w \in Utxo : w # u => refund_requests'[w] = refund_requests[w]
      BY <1>1, <1>4 DEF RejectRefund, Rejectable, TypeOK
    <2>3. ~Executed(u) /\ ~Executed(u)'
      BY <1>4, <2>1 DEF RejectRefund, Rejectable, Executed
    <2>4. QED
      BY <1>1, <1>4, <2>2, <2>3, UnexecutedRequestIInv DEF RejectRefund, Rejectable
  <1>5. ASSUME NEW caller \in Account, NEW u \in Utxo, NEW variant \in Variant,
               ExecuteRefund(caller, u, variant)
        PROVE  IInv'
    <2>1. Timelock(caller, u) \in Nat
      BY ConstantsAssumption DEF Timelock
    <2>2. QED
      BY <1>1, <1>5, <2>1, FinalizeRefundIInv DEF ExecuteRefund
  <1>6. ASSUME NEW tx \in RefundTx, Confirm(tx) PROVE IInv'
    <2>1. Refunding(UtxoOf(tx))
      BY <1>6 DEF Confirm, IInv, RefundTxHasRefund
    <2>2. \A u \in Utxo : Refunding(u)' <=> Refunding(u)
      BY <1>6, <2>1 DEF Confirm, Refunding, Executed, Refunded, requestVars
    <2>3. \A t \in RefundTx :
            btc_pending_infos'[t] # None \/ t \in mpc_signed' => Refunding(UtxoOf(t))
      BY <1>6 DEF Confirm, IInv, RefundTxHasRefund, pendingVars
    <2>4. QED
      BY <1>1, <1>6, <2>2, <2>3, RefundTxStepIInv DEF Confirm
  <1>7. ASSUME NEW tx \in RefundTx, RemoveRefundPendingTxId(tx) PROVE IInv'
    <2>1. \A u \in Utxo : Refunding(u)' <=> Refunding(u)
      BY <1>7
      DEF RemoveRefundPendingTxId, Removable, ForgetTx, Refunding, Executed, Refunded,
          requestVars, worldVars
    <2>2. \A t \in RefundTx :
            btc_pending_infos'[t] # None => btc_pending_infos[t] # None
      BY <1>1, <1>7 DEF RemoveRefundPendingTxId, Removable, ForgetTx, TypeOK
    <2>3. \A t \in RefundTx :
            btc_pending_infos'[t] # None \/ t \in mpc_signed' => Refunding(UtxoOf(t))
      BY <1>7, <2>2
      DEF RemoveRefundPendingTxId, Removable, ForgetTx, IInv, RefundTxHasRefund, worldVars
    <2>4. QED
      BY <1>1, <1>7, <2>1, <2>3, RefundTxStepIInv
      DEF RemoveRefundPendingTxId, Removable, ForgetTx, worldVars
  <1>8. CASE Tick \/ UNCHANGED vars
    <2>1. UNCHANGED <<depositVars, requestVars, pendingVars, promises, minted, withdrawn,
                      mpc_signed, confirmed>>
      BY <1>8 DEF Tick, vars, depositVars, requestVars, pendingVars
    <2>2. \A u \in Utxo : Refunding(u)' <=> Refunding(u)
      BY <2>1 DEF Refunding, Executed, Refunded, requestVars
    <2>3. \A t \in RefundTx :
            btc_pending_infos'[t] # None \/ t \in mpc_signed' => Refunding(UtxoOf(t))
      BY <2>1 DEF IInv, RefundTxHasRefund, pendingVars
    <2>4. QED
      BY <1>1, <2>1, <2>2, <2>3, RefundTxStepIInv
  <1>9. QED
    BY <1>2, <1>3, <1>4, <1>5, <1>6, <1>7, <1>8 DEF Next

LEMMA IInvImpliesNeverMintedAndRefunded == IInv => NeverMintedAndRefunded
  <1> SUFFICES ASSUME IInv, NEW tx \in mpc_signed
               PROVE  minted[UtxoOf(tx)] = 0 /\ UtxoOf(tx) \notin utxos \cup withdrawn
    BY DEF NeverMintedAndRefunded
  <1>1. tx \in RefundTx /\ UtxoOf(tx) \in Utxo
    BY RefundTxUtxo DEF IInv, TypeOK
  <1>2. Refunding(UtxoOf(tx))
    BY <1>1 DEF IInv, RefundTxHasRefund
  <1>3. UtxoOf(tx) \notin utxos_in_progress /\ ~BridgeOwned(UtxoOf(tx))
    BY <1>1, <1>2 DEF IInv, VerifiedForOneReason
  <1>4. QED
    BY <1>1, <1>3 DEF IInv, MintIsBacked, BridgeOwned, TypeOK

\* IInv holds of every state, as long as the DAO completes a failed mint only
\* in the case its documentation gives.
THEOREM Inductive ==
    ASSUME TrustedDAO
    PROVE  Spec => []IInv
  <1>1. IInv /\ [Next]_vars => IInv'
    BY NextIInv
  <1>2. QED
    BY <1>1, InitIInv, PTL DEF Spec

\* For any number of outputs, accounts and calls in flight, an output whose
\* refund the MPC network signed was never minted and is not the bridge's.
THEOREM NoDoublePayment ==
    ASSUME TrustedDAO
    PROVE  Spec => []NeverMintedAndRefunded
  BY Inductive, IInvImpliesNeverMintedAndRefunded, PTL

\* However the proofs of a deposit are repeated, delayed or reordered, its
\* output is credited at most once.
THEOREM MintsAreSingle ==
    ASSUME TrustedDAO
    PROVE  Spec => []MintedAtMostOnce
  <1>1. IInv => MintedAtMostOnce
    BY DEF IInv
  <1>2. QED
    BY <1>1, Inductive, PTL

\* In whatever order the answers come, an output that was credited is being
\* registered, is registered, or was handed to a withdrawal: none is lost.
THEOREM MintsAreBacked ==
    ASSUME TrustedDAO
    PROVE  Spec => []MintIsBacked
  <1>1. IInv => MintIsBacked
    BY DEF IInv
  <1>2. QED
    BY <1>1, Inductive, PTL

\* An output stays marked verified exactly as long as a mint in flight, the
\* bridge's ownership or a refund needs it, and for one of them only.
THEOREM OneReason ==
    ASSUME TrustedDAO
    PROVE  Spec => []VerifiedForOneReason
  <1>1. IInv => VerifiedForOneReason
    BY DEF IInv
  <1>2. QED
    BY <1>1, Inductive, PTL

-----------------------------------------------------------------------------
(* The refund flow and the deposit flow together implement DepositClaim:   *)
(* every step of the contract moves the claim of at most one output, and   *)
(* only along the moves DepositClaim allows.                               *)

\* Everything the mapping reads of an output.
SameClaim(u) ==
    /\ u \in verified_deposit_utxo' <=> u \in verified_deposit_utxo
    /\ u \in utxos_in_progress' <=> u \in utxos_in_progress
    /\ Executed(u)' <=> Executed(u)
    /\ Refunded(u)' <=> Refunded(u)

ClaimSteps ==
    {<<"open", "minting">>, <<"minting", "open">>, <<"minting", "deposited">>,
     <<"open", "refunding">>, <<"refunding", "refunded">>}

LEMMA SameClaimSame ==
    ASSUME NEW u, SameClaim(u)
    PROVE  ClaimOf(u)' = ClaimOf(u)
  BY DEF SameClaim, ClaimOf

LEMMA ClaimsUnchanged ==
    ASSUME \A u \in Utxo : ClaimOf(u)' = ClaimOf(u)
    PROVE  [Claim!Next]_[u \in Utxo |-> ClaimOf(u)]
  OBVIOUS

LEMMA OneClaimMoves ==
    ASSUME NEW v \in Utxo, <<ClaimOf(v), ClaimOf(v)'>> \in ClaimSteps,
           \A u \in Utxo : u # v => ClaimOf(u)' = ClaimOf(u)
    PROVE  [Claim!Next]_[u \in Utxo |-> ClaimOf(u)]
  <1> DEFINE view == [u \in Utxo |-> ClaimOf(u)]
  <1>1. view' = [view EXCEPT ![v] = ClaimOf(v)'] /\ view[v] = ClaimOf(v)
    OBVIOUS
  <1>2. PICK from, to : <<from, to>> \in ClaimSteps
                        /\ from = ClaimOf(v) /\ to = ClaimOf(v)'
    OBVIOUS
  <1>3. Claim!Move(v, from, to)
    BY <1>1, <1>2 DEF Claim!Move
  <1>4. \/ Claim!Reserve(v) \/ Claim!Release(v) \/ Claim!Credit(v)
        \/ Claim!Refund(v) \/ Claim!Settle(v)
    <2>1. CASE <<from, to>> = <<"open", "minting">>
      BY <1>3, <2>1 DEF Claim!Reserve
    <2>2. CASE <<from, to>> = <<"minting", "open">>
      BY <1>3, <2>2 DEF Claim!Release
    <2>3. CASE <<from, to>> = <<"minting", "deposited">>
      BY <1>3, <2>3 DEF Claim!Credit
    <2>4. CASE <<from, to>> = <<"open", "refunding">>
      BY <1>3, <2>4 DEF Claim!Refund
    <2>5. CASE <<from, to>> = <<"refunding", "refunded">>
      BY <1>3, <2>5 DEF Claim!Settle
    <2>6. QED
      BY <1>2, <2>1, <2>2, <2>3, <2>4, <2>5 DEF ClaimSteps
  <1>5. QED
    BY <1>4 DEF Claim!Next

LEMMA SameClaimsStep ==
    ASSUME \A u \in Utxo : SameClaim(u)
    PROVE  [Claim!Next]_[u \in Utxo |-> ClaimOf(u)]
  BY SameClaimSame, ClaimsUnchanged

\* The requests keep whether they are executed, and no block is added.
LEMMA DepositsAndRefundsUntouched ==
    ASSUME UNCHANGED <<verified_deposit_utxo, utxos_in_progress, confirmed>>,
           \A u \in Utxo : Executed(u)' <=> Executed(u)
    PROVE  [Claim!Next]_[u \in Utxo |-> ClaimOf(u)]
  <1>1. \A u \in Utxo : SameClaim(u)
    BY DEF SameClaim, Refunded
  <1>2. QED
    BY <1>1, SameClaimsStep

LEMMA ContractUntouched ==
    ASSUME UNCHANGED <<verified_deposit_utxo, utxos_in_progress, confirmed, refund_requests>>
    PROVE  [Claim!Next]_[u \in Utxo |-> ClaimOf(u)]
  <1>1. \A u \in Utxo : Executed(u)' <=> Executed(u)
    BY DEF Executed
  <1>2. QED
    BY <1>1, DepositsAndRefundsUntouched

-----------------------------------------------------------------------------
(* One lemma per action that moves a claim.                                *)

LEMMA VerifyDepositCallbackClaim ==
    ASSUME IInv, NEW p \in PromiseId, VerifyDepositCallback(p)
    PROVE  [Claim!Next]_[u \in Utxo |-> ClaimOf(u)]
  <1>1. PICK v \in Utxo : v = promises[p].utxo
    BY RunningCall, CallFields DEF VerifyDepositCallback, ReserveForDeposit, IInv
  <1>2. /\ v \notin verified_deposit_utxo
        /\ verified_deposit_utxo' = verified_deposit_utxo \cup {v}
        /\ utxos_in_progress' = utxos_in_progress \cup {v}
        /\ UNCHANGED <<refund_requests, confirmed>>
    BY <1>1 DEF VerifyDepositCallback, ReserveForDeposit, requestVars, worldVars
  <1>3. ClaimOf(v) = "open" /\ ClaimOf(v)' = "minting"
    BY <1>2 DEF ClaimOf
  <1>4. \A u \in Utxo : u # v => SameClaim(u)
    BY <1>2 DEF SameClaim, Executed, Refunded
  <1>5. QED
    BY <1>3, <1>4, SameClaimSame, OneClaimMoves DEF ClaimSteps

\* A mint in flight is over, one way or the other.
LEMMA MintOver ==
    ASSUME IInv, NEW v \in Utxo, v \in utxos_in_progress,
           RegisterUtxo(v) \/ FailMint(v),
           UNCHANGED <<refund_requests, confirmed>>
    PROVE  [Claim!Next]_[u \in Utxo |-> ClaimOf(u)]
  <1>1. v \in verified_deposit_utxo /\ ~Refunding(v)
    BY DEF IInv, VerifiedForOneReason
  <1>2. ClaimOf(v) = "minting"
    BY <1>1 DEF ClaimOf
  <1>3. ClaimOf(v)' \in {"open", "deposited"}
    BY <1>1 DEF ClaimOf, RegisterUtxo, FailMint, Refunding, Executed, Refunded
  <1>4. \A u \in Utxo : u # v => SameClaim(u)
    BY DEF RegisterUtxo, FailMint, SameClaim, Executed, Refunded
  <1>5. QED
    BY <1>2, <1>3, <1>4, SameClaimSame, OneClaimMoves DEF ClaimSteps

LEMMA MintCallbackClaim ==
    ASSUME IInv, NEW p \in PromiseId, MintCallback(p)
    PROVE  [Claim!Next]_[u \in Utxo |-> ClaimOf(u)]
  <1>1. PICK v \in Utxo : v = promises[p].utxo
    BY RunningCall, CallFields DEF MintCallback, IInv
  <1>2. v \in utxos_in_progress
    BY <1>1 DEF MintCallback, MintCall, Running, IInv, MintCallsHoldTheirUtxo
  <1>3. /\ RegisterUtxo(v) \/ FailMint(v)
        /\ UNCHANGED <<refund_requests, confirmed>>
    BY <1>1 DEF MintCallback, requestVars, worldVars
  <1>4. QED
    BY <1>2, <1>3, MintOver

LEMMA CompleteFailedDepositMintClaim ==
    ASSUME TrustedDAO, IInv, NEW v \in Utxo, CompleteFailedDepositMint(v)
    PROVE  [Claim!Next]_[u \in Utxo |-> ClaimOf(u)]
  <1>1. v \in utxos_in_progress
    BY DEF CompleteFailedDepositMint, MintedButUnregistered
  <1>2. RegisterUtxo(v) /\ UNCHANGED <<refund_requests, confirmed>>
    BY DEF CompleteFailedDepositMint, requestVars, worldVars
  <1>3. QED
    BY <1>1, <1>2, MintOver

LEMMA FinalizeRefundClaim ==
    ASSUME IInv, NEW caller \in Account, NEW v \in Utxo, NEW t \in Nat,
           NEW variant \in Variant, FinalizeRefund(caller, v, t, variant)
    PROVE  [Claim!Next]_[u \in Utxo |-> ClaimOf(u)]
  <1>1. Executed(v)' /\ \A u \in Utxo : u # v => (Executed(u)' <=> Executed(u))
    BY FinalizeRefundExecutes DEF IInv
  <1>2. /\ v \notin verified_deposit_utxo \/ Executed(v)
        /\ verified_deposit_utxo' = verified_deposit_utxo \cup {v}
        /\ UNCHANGED <<utxos_in_progress, confirmed>>
    BY DEF FinalizeRefund, ClaimForRefund, worldVars
  <1>3. /\ v \notin utxos_in_progress
        /\ Executed(v) => v \in verified_deposit_utxo
    BY <1>2 DEF IInv, VerifiedForOneReason, Refunding
  <1>4. ClaimOf(v) \in {"open", "refunding"} /\ ClaimOf(v)' = "refunding"
    BY <1>1, <1>2, <1>3 DEF ClaimOf
  <1>5. \A u \in Utxo : u # v => ClaimOf(u)' = ClaimOf(u)
    <2>1. \A u \in Utxo : u # v => SameClaim(u)
      BY <1>1, <1>2 DEF SameClaim, Refunded
    <2>2. QED
      BY <2>1, SameClaimSame
  <1>6. CASE ClaimOf(v) = "open"
    BY <1>4, <1>5, <1>6, OneClaimMoves DEF ClaimSteps
  <1>7. CASE ClaimOf(v) = "refunding"
    BY <1>4, <1>5, <1>7, ClaimsUnchanged
  <1>8. QED
    BY <1>4, <1>6, <1>7

\* A refund transaction of an output that is being refunded gets on chain.
LEMMA ConfirmClaim ==
    ASSUME IInv, NEW tx \in RefundTx, Confirm(tx)
    PROVE  [Claim!Next]_[u \in Utxo |-> ClaimOf(u)]
  <1>1. PICK v \in Utxo : v = UtxoOf(tx)
    BY RefundTxUtxo
  <1>2. /\ ~Refunded(v)
        /\ \A u \in Utxo : u # v => (Refunded(u)' <=> Refunded(u))
        /\ UNCHANGED <<verified_deposit_utxo, utxos_in_progress, refund_requests>>
    BY <1>1 DEF Confirm, Refunded, depositVars, requestVars
  <1>3. Executed(v)
    BY <1>1, <1>2 DEF Confirm, IInv, RefundTxHasRefund, Refunding
  <1>4. ClaimOf(v)' = ClaimOf(v)
    BY <1>2, <1>3 DEF ClaimOf, Executed
  <1>5. \A u \in Utxo : u # v => SameClaim(u)
    BY <1>2 DEF SameClaim, Executed
  <1>6. QED
    BY <1>4, <1>5, SameClaimSame, ClaimsUnchanged

LEMMA VerifyRefundCallbackClaim ==
    ASSUME IInv, NEW p \in PromiseId, VerifyRefundCallback(p)
    PROVE  [Claim!Next]_[u \in Utxo |-> ClaimOf(u)]
  <1>1. PICK tx \in RefundTx, v \in Utxo : tx = promises[p].tx /\ v = UtxoOf(tx)
    BY RunningCall, CallFields DEF VerifyRefundCallback, IInv
  <1>2. /\ tx \in confirmed
        /\ refund_requests' = [refund_requests EXCEPT ![v] = None]
        /\ UNCHANGED <<verified_deposit_utxo, utxos_in_progress, confirmed>>
    BY <1>1 DEF VerifyRefundCallback, InclusionVerified, SettleRefund, depositVars, worldVars
  <1>3. Refunded(v) /\ Refunded(v)'
    BY <1>1, <1>2 DEF Refunded
  <1>4. v \in verified_deposit_utxo /\ v \notin utxos_in_progress
    BY <1>3 DEF IInv, VerifiedForOneReason, Refunding
  <1>5. ~Executed(v)' /\ \A u \in Utxo : u # v => refund_requests'[u] = refund_requests[u]
    BY <1>2 DEF Executed, IInv, TypeOK
  <1>6. ClaimOf(v) \in {"refunding", "refunded"} /\ ClaimOf(v)' = "refunded"
    BY <1>2, <1>3, <1>4, <1>5 DEF ClaimOf
  <1>7. \A u \in Utxo : u # v => ClaimOf(u)' = ClaimOf(u)
    <2>1. \A u \in Utxo : u # v => SameClaim(u)
      BY <1>2, <1>5 DEF SameClaim, Executed, Refunded
    <2>2. QED
      BY <2>1, SameClaimSame
  <1>8. CASE ClaimOf(v) = "refunding"
    BY <1>6, <1>7, <1>8, OneClaimMoves DEF ClaimSteps
  <1>9. CASE ClaimOf(v) = "refunded"
    BY <1>6, <1>7, <1>9, ClaimsUnchanged
  <1>10. QED
    BY <1>6, <1>8, <1>9

-----------------------------------------------------------------------------
(* The refinement.                                                         *)

LEMMA EntryClaim ==
    ASSUME NEW p \in PromiseId, Entry(p)
    PROVE  [Claim!Next]_[u \in Utxo |-> ClaimOf(u)]
  <1>1. UNCHANGED <<depositVars, requestVars, pendingVars, worldVars>>
    BY DEF Entry, VerifyDeposit, RequestRefund, ExecuteRefundAsync, SignBtcTransaction,
           VerifyRefund
  <1>2. QED
    BY <1>1, ContractUntouched DEF depositVars, requestVars, worldVars

\* Filing and rejecting requests touches only requests that are not executed.
LEMMA UnexecutedRequestClaim ==
    ASSUME NEW v \in Utxo, ~Executed(v), ~Executed(v)',
           \A u \in Utxo : u # v => refund_requests'[u] = refund_requests[u],
           UNCHANGED <<depositVars, worldVars>>
    PROVE  [Claim!Next]_[u \in Utxo |-> ClaimOf(u)]
  <1>1. \A u \in Utxo : Executed(u)' <=> Executed(u)
    BY DEF Executed
  <1>2. QED
    BY <1>1, DepositsAndRefundsUntouched DEF depositVars, worldVars

LEMMA CallbackClaim ==
    ASSUME IInv, NEW p \in PromiseId, Callback(p)
    PROVE  [Claim!Next]_[u \in Utxo |-> ClaimOf(u)]
  <1>0. TypeOK
    BY DEF IInv
  <1>1. CASE VerifyDepositCallback(p)
    BY <1>1, VerifyDepositCallbackClaim
  <1>2. CASE MintCallback(p)
    BY <1>2, MintCallbackClaim
  <1>3. CASE RequestRefundCallback(p)
    <2>1. PICK v \in Utxo : v = promises[p].utxo
      BY <1>0, <1>3, RunningCall, CallFields DEF RequestRefundCallback
    <2>2. /\ refund_requests[v] = None
          /\ refund_requests'[v] = [created_at_sec |-> now, executed |-> FALSE]
          /\ \A u \in Utxo : u # v => refund_requests'[u] = refund_requests[u]
      BY <1>0, <1>3, <2>1 DEF RequestRefundCallback, TypeOK
    <2>3. ~Executed(v) /\ ~Executed(v)'
      BY <2>2 DEF Executed
    <2>4. QED
      BY <1>3, <2>2, <2>3, UnexecutedRequestClaim DEF RequestRefundCallback
  <1>4. CASE ExecuteRefundCallback(p)
    <2>1. /\ promises[p].utxo \in Utxo
          /\ promises[p].caller \in Account
          /\ promises[p].timelock_sec \in Nat
          /\ promises[p].variant \in Variant
      BY <1>0, <1>4, RunningCall, CallFields DEF ExecuteRefundCallback
    <2>2. QED
      BY <1>4, <2>1, FinalizeRefundClaim DEF ExecuteRefundCallback
  <1>5. CASE VerifyRefundCallback(p)
    BY <1>5, VerifyRefundCallbackClaim
  <1>6. CASE \/ Mint(p) \/ MintCallbackDies(p) \/ MpcSign(p)
             \/ SignBtcTransactionCallback(p) \/ CallbackPanics(p)
    <2>1. UNCHANGED <<verified_deposit_utxo, utxos_in_progress, confirmed, refund_requests>>
      BY <1>6
      DEF Mint, MintCallbackDies, MpcSign, SignBtcTransactionCallback, CallbackPanics,
          depositVars, requestVars, worldVars
    <2>2. QED
      BY <2>1, ContractUntouched
  <1>7. QED
    BY <1>1, <1>2, <1>3, <1>4, <1>5, <1>6 DEF Callback

LEMMA NextClaim ==
    ASSUME TrustedDAO, IInv, [Next]_vars
    PROVE  [Claim!Next]_[u \in Utxo |-> ClaimOf(u)]
  <1>0. TypeOK
    BY DEF IInv
  <1>1. ASSUME NEW p \in PromiseId, Entry(p) \/ Callback(p)
        PROVE  [Claim!Next]_[u \in Utxo |-> ClaimOf(u)]
    BY <1>1, EntryClaim, CallbackClaim
  <1>2. ASSUME NEW v \in Utxo, CompleteFailedDepositMint(v)
        PROVE  [Claim!Next]_[u \in Utxo |-> ClaimOf(u)]
    BY <1>2, CompleteFailedDepositMintClaim
  <1>3. ASSUME NEW v \in Utxo, NEW is_privileged \in BOOLEAN,
               RejectRefund(v, is_privileged)
        PROVE  [Claim!Next]_[u \in Utxo |-> ClaimOf(u)]
    <2>1. /\ refund_requests'[v] = None
          /\ \A u \in Utxo : u # v => refund_requests'[u] = refund_requests[u]
      BY <1>0, <1>3 DEF RejectRefund, TypeOK
    <2>2. ~Executed(v) /\ ~Executed(v)'
      BY <1>3, <2>1 DEF RejectRefund, Rejectable, Executed
    <2>3. QED
      BY <1>3, <2>1, <2>2, UnexecutedRequestClaim DEF RejectRefund
  <1>4. ASSUME NEW caller \in Account, NEW v \in Utxo, NEW variant \in Variant,
               ExecuteRefund(caller, v, variant)
        PROVE  [Claim!Next]_[u \in Utxo |-> ClaimOf(u)]
    <2>1. Timelock(caller, v) \in Nat
      BY ConstantsAssumption DEF Timelock
    <2>2. QED
      BY <1>4, <2>1, FinalizeRefundClaim DEF ExecuteRefund
  <1>5. ASSUME NEW tx \in RefundTx, Confirm(tx)
        PROVE  [Claim!Next]_[u \in Utxo |-> ClaimOf(u)]
    BY <1>5, ConfirmClaim
  <1>6. CASE \/ \E u \in Utxo : GenerateVutxos(u)
             \/ \E tx \in RefundTx : RemoveRefundPendingTxId(tx)
             \/ Tick
             \/ UNCHANGED vars
    <2>1. UNCHANGED <<verified_deposit_utxo, utxos_in_progress, confirmed, refund_requests>>
      BY <1>6
      DEF GenerateVutxos, RemoveRefundPendingTxId, Tick, vars, depositVars, requestVars,
          worldVars
    <2>2. QED
      BY <2>1, ContractUntouched
  <1>7. QED
    BY <1>1, <1>2, <1>3, <1>4, <1>5, <1>6 DEF Next

\* For any number of outputs, calls in flight and candidate transactions, the
\* contract implements DepositClaim: an output is credited or refunded, never
\* both, never twice, and a claim is given up only when its mint failed.
THEOREM ClaimRefined ==
    ASSUME TrustedDAO
    PROVE  Spec => ClaimSpec
  <1>1. Init => Claim!Init
    BY DEF Init, Claim!Init, ClaimOf
  <1>2. IInv /\ [Next]_vars => [Claim!Next]_[u \in Utxo |-> ClaimOf(u)]
    BY NextClaim
  <1>3. QED
    BY <1>1, <1>2, Inductive, PTL DEF Spec, ClaimSpec, Claim!Spec
=============================================================================
