---------------------------- MODULE RefundProofs ----------------------------
(***************************************************************************)
(* Proofs about the refund requests and the refund transactions of         *)
(* DepositRefund: what an executed request may lose, how long it waited,   *)
(* and where its transactions are listed.                                  *)
(***************************************************************************)
EXTENDS DepositRefundProofs

-----------------------------------------------------------------------------
(* What a step does to the requests.                                       *)

\* A step either keeps every request, or files, rejects, settles or executes one.
RequestKept(u) == refund_requests'[u] = refund_requests[u]

Settles(u) == Refunded(u) /\ refund_requests'[u] = None

Executes(u) ==
    \E caller \in Account, t \in Nat, variant \in Variant :
        FinalizeRefund(caller, u, t, variant)

\* The timelock of a call in flight is the one its output asks for.
AsyncWaits ==
    \A p \in PromiseId :
        Running(p, {"execute_refund"}) /\ promises[p].utxo \notin PresetAddress
            => promises[p].timelock_sec = unsafe_refund_timelock_sec

ExecutesInTime(u) ==
    \E caller \in Account, t \in Nat, variant \in Variant :
        /\ FinalizeRefund(caller, u, t, variant)
        /\ u \notin PresetAddress => t = unsafe_refund_timelock_sec

LEMMA RequestsAfterCallback ==
    ASSUME TypeOK, AsyncWaits, NEW p \in PromiseId, Callback(p)
    PROVE  \A u \in Utxo :
            \/ RequestKept(u)
            \/ (~Executed(u) /\ ~Executed(u)')
            \/ Settles(u)
            \/ ExecutesInTime(u)
  <1>1. CASE RequestRefundCallback(p)
    <2>1. PICK v \in Utxo : v = promises[p].utxo
      BY <1>1, RunningCall, CallFields DEF RequestRefundCallback
    <2>2. /\ refund_requests[v] = None
          /\ refund_requests'[v] = [created_at_sec |-> now, executed |-> FALSE]
          /\ \A u \in Utxo : u # v => RequestKept(u)
      BY <1>1, <2>1 DEF RequestRefundCallback, RequestKept, TypeOK
    <2>3. ~Executed(v) /\ ~Executed(v)'
      BY <2>2 DEF Executed
    <2>4. QED
      BY <2>2, <2>3
  <1>2. CASE ExecuteRefundCallback(p)
    <2>1. /\ promises[p].utxo \in Utxo
          /\ promises[p].caller \in Account
          /\ promises[p].timelock_sec \in Nat
          /\ promises[p].variant \in Variant
          /\ Running(p, {"execute_refund"})
      BY <1>2, RunningCall, CallFields DEF ExecuteRefundCallback
    <2>2. PICK v \in Utxo : v = promises[p].utxo
      BY <2>1
    <2>3. ExecutesInTime(v)
      BY <1>2, <2>1, <2>2 DEF ExecuteRefundCallback, ExecutesInTime, AsyncWaits
    <2>4. \A u \in Utxo : u # v => RequestKept(u)
      BY <1>2, <2>2 DEF ExecuteRefundCallback, FinalizeRefund, RequestKept, TypeOK
    <2>5. QED
      BY <2>3, <2>4
  <1>3. CASE VerifyRefundCallback(p)
    <2>1. PICK tx \in RefundTx, v \in Utxo : tx = promises[p].tx /\ v = UtxoOf(tx)
      BY <1>3, RunningCall, CallFields DEF VerifyRefundCallback
    <2>2. /\ tx \in confirmed
          /\ refund_requests' = [refund_requests EXCEPT ![v] = None]
      BY <1>3, <2>1 DEF VerifyRefundCallback, InclusionVerified, SettleRefund
    <2>3. Settles(v) /\ \A u \in Utxo : u # v => RequestKept(u)
      BY <2>1, <2>2 DEF Settles, Refunded, RequestKept, TypeOK
    <2>4. QED
      BY <2>3
  <1>4. CASE \/ VerifyDepositCallback(p) \/ Mint(p) \/ MintCallback(p)
             \/ MintCallbackDies(p) \/ MpcSign(p) \/ SignBtcTransactionCallback(p)
             \/ CallbackPanics(p)
    BY <1>4
    DEF VerifyDepositCallback, Mint, MintCallback, MintCallbackDies, MpcSign,
        SignBtcTransactionCallback, CallbackPanics, requestVars, RequestKept
  <1>5. QED
    BY <1>1, <1>2, <1>3, <1>4 DEF Callback

LEMMA RequestsAfterNext ==
    ASSUME TypeOK, AsyncWaits, [Next]_vars
    PROVE  \A u \in Utxo :
            \/ RequestKept(u)
            \/ (~Executed(u) /\ ~Executed(u)')
            \/ Settles(u)
            \/ ExecutesInTime(u)
  <1>1. CASE \E p \in PromiseId : Entry(p)
    BY <1>1
    DEF Entry, VerifyDeposit, RequestRefund, ExecuteRefundAsync, SignBtcTransaction,
        VerifyRefund, requestVars, RequestKept
  <1>2. ASSUME NEW p \in PromiseId, Callback(p)
        PROVE  \A u \in Utxo :
                \/ RequestKept(u)
                \/ (~Executed(u) /\ ~Executed(u)')
                \/ Settles(u)
                \/ ExecutesInTime(u)
    BY <1>2, RequestsAfterCallback
  <1>3. ASSUME NEW v \in Utxo, NEW is_privileged \in BOOLEAN,
               RejectRefund(v, is_privileged)
        PROVE  \A u \in Utxo : RequestKept(u) \/ (~Executed(u) /\ ~Executed(u)')
    <2>1. /\ refund_requests'[v] = None
          /\ \A u \in Utxo : u # v => RequestKept(u)
      BY <1>3 DEF RejectRefund, RequestKept, TypeOK
    <2>2. ~Executed(v) /\ ~Executed(v)'
      BY <1>3, <2>1 DEF RejectRefund, Rejectable, Executed
    <2>3. QED
      BY <2>1, <2>2
  <1>4. ASSUME NEW caller \in Account, NEW v \in Utxo, NEW variant \in Variant,
               ExecuteRefund(caller, v, variant)
        PROVE  \A u \in Utxo : RequestKept(u) \/ ExecutesInTime(u)
    <2>1. PICK t \in Nat : t = Timelock(caller, v)
      BY ConstantsAssumption DEF Timelock
    <2>2. v \notin PresetAddress => t = unsafe_refund_timelock_sec
      BY <2>1 DEF Timelock
    <2>3. FinalizeRefund(caller, v, t, variant)
      BY <1>4, <2>1 DEF ExecuteRefund
    <2>4. ExecutesInTime(v)
      BY <2>2, <2>3 DEF ExecutesInTime
    <2>5. \A u \in Utxo : u # v => RequestKept(u)
      BY <2>3 DEF FinalizeRefund, RequestKept, TypeOK
    <2>6. QED
      BY <2>4, <2>5
  <1>5. CASE \/ \E u \in Utxo : CompleteFailedDepositMint(u) \/ GenerateVutxos(u)
             \/ \E tx \in RefundTx : Confirm(tx) \/ RemoveRefundPendingTxId(tx)
             \/ Tick
             \/ UNCHANGED vars
    BY <1>5
    DEF CompleteFailedDepositMint, GenerateVutxos, Confirm, RemoveRefundPendingTxId, Tick,
        vars, requestVars, RequestKept
  <1>6. QED
    BY <1>1, <1>2, <1>3, <1>4, <1>5 DEF Next

-----------------------------------------------------------------------------
(* The timelock a call carries.                                            *)

LEMMA CallsKeepTimelock ==
    ASSUME AsyncWaits,
           \A q \in PromiseId :
                Running(q, {"execute_refund"})' => promises'[q] = promises[q]
    PROVE  AsyncWaits'
  BY DEF AsyncWaits, Running

LEMMA NextAsyncWaits ==
    ASSUME TypeOK, AsyncWaits, [Next]_vars
    PROVE  AsyncWaits'
  <1>1. ASSUME NEW p \in PromiseId, NEW call, StartCall(p, call) \/ Continue(p, call),
               call.op # "execute_refund"
        PROVE  AsyncWaits'
    <2>1. promises'[p] = call /\ \A q \in PromiseId : q # p => promises'[q] = promises[q]
      BY <1>1 DEF StartCall, Continue, TypeOK
    <2>2. QED
      BY <1>1, <2>1, CallsKeepTimelock DEF Running
  <1>2. ASSUME NEW p \in PromiseId, Return(p) PROVE AsyncWaits'
    BY <1>2, ReturnFrees, CallsKeepTimelock DEF Running
  <1>3. ASSUME NEW p \in PromiseId, NEW caller \in Account, NEW u \in Utxo,
               NEW variant \in Variant, ExecuteRefundAsync(p, caller, u, variant)
        PROVE  AsyncWaits'
    <2>1. /\ promises'[p] = [op |-> "execute_refund", utxo |-> u, caller |-> caller,
                             timelock_sec |-> Timelock(caller, u), variant |-> variant]
          /\ \A q \in PromiseId : q # p => promises'[q] = promises[q]
      BY <1>3 DEF ExecuteRefundAsync, StartCall, TypeOK
    <2>2. /\ promises'[p].utxo = u
          /\ promises'[p].timelock_sec = Timelock(caller, u)
      BY <2>1
    <2>3. QED
      BY <2>1, <2>2 DEF AsyncWaits, Running, Timelock
  <1>4. ASSUME NEW p \in PromiseId, Entry(p) PROVE AsyncWaits'
    <2>1. ASSUME NEW u \in Utxo, VerifyDeposit(p, u) PROVE AsyncWaits'
      <3>1. StartCall(p, [op |-> "verify_deposit", utxo |-> u])
        BY <2>1 DEF VerifyDeposit
      <3>2. QED
        BY <1>1, <3>1
    <2>2. ASSUME NEW u \in Utxo, RequestRefund(p, u) PROVE AsyncWaits'
      <3>1. StartCall(p, [op |-> "request_refund", utxo |-> u])
        BY <2>2 DEF RequestRefund
      <3>2. QED
        BY <1>1, <3>1
    <2>3. ASSUME NEW tx \in RefundTx, SignBtcTransaction(p, tx) PROVE AsyncWaits'
      <3>1. StartCall(p, [op |-> "sign", tx |-> tx])
        BY <2>3 DEF SignBtcTransaction
      <3>2. QED
        BY <1>1, <3>1
    <2>4. ASSUME NEW tx \in RefundTx, VerifyRefund(p, tx) PROVE AsyncWaits'
      <3>1. StartCall(p, [op |-> "verify_refund", tx |-> tx])
        BY <2>4 DEF VerifyRefund
      <3>2. QED
        BY <1>1, <3>1
    <2>5. QED
      BY <1>3, <1>4, <2>1, <2>2, <2>3, <2>4 DEF Entry
  <1>5. ASSUME NEW p \in PromiseId, Callback(p) PROVE AsyncWaits'
    <2>1. CASE VerifyDepositCallback(p) \/ Mint(p) \/ MpcSign(p)
      <3>1. CASE VerifyDepositCallback(p)
        <4>1. Continue(p, [op |-> "mint", utxo |-> promises[p].utxo])
          BY <3>1 DEF VerifyDepositCallback
        <4>2. QED
          BY <1>1, <4>1
      <3>2. CASE Mint(p)
        <4>1. PICK result \in MintResult :
                Continue(p, [op |-> "mint_callback", utxo |-> promises[p].utxo,
                             result |-> result])
          BY <3>2 DEF Mint
        <4>2. QED
          BY <1>1, <4>1
      <3>3. CASE MpcSign(p)
        <4>1. Continue(p, [op |-> "signed", tx |-> promises[p].tx])
          BY <3>3 DEF MpcSign
        <4>2. QED
          BY <1>1, <4>1
      <3>4. QED
        BY <2>1, <3>1, <3>2, <3>3
    <2>2. CASE ~(VerifyDepositCallback(p) \/ Mint(p) \/ MpcSign(p))
      <3>1. Return(p)
        BY <1>5, <2>2
        DEF Callback, MintCallback, MintCallbackDies, RequestRefundCallback,
            ExecuteRefundCallback, SignBtcTransactionCallback, VerifyRefundCallback,
            CallbackPanics
      <3>2. QED
        BY <1>2, <3>1
    <2>3. QED
      BY <2>1, <2>2
  <1>6. CASE UNCHANGED promises
    BY <1>6 DEF AsyncWaits, Running
  <1>7. QED
    BY <1>4, <1>5, <1>6
    DEF Next, CompleteFailedDepositMint, GenerateVutxos, RejectRefund, ExecuteRefund,
        Confirm, RemoveRefundPendingTxId, Tick, vars

LEMMA InitAsyncWaits == Init => AsyncWaits
  BY DEF Init, AsyncWaits, Running

-----------------------------------------------------------------------------
(* Requests.                                                               *)

LEMMA ExecutionInTime ==
    ASSUME TypeOK, NEW u \in Utxo, u \notin PresetAddress, ExecutesInTime(u)
    PROVE  now >= refund_requests'[u].created_at_sec + unsafe_refund_timelock_sec
  <1>1. PICK caller \in Account, variant \in Variant :
            FinalizeRefund(caller, u, unsafe_refund_timelock_sec, variant)
    BY DEF ExecutesInTime
  <1>2. /\ refund_requests[u] \in RefundRequest
        /\ now >= refund_requests[u].created_at_sec + unsafe_refund_timelock_sec
        /\ refund_requests'[u] = [refund_requests[u] EXCEPT !.executed = TRUE]
    BY <1>1 DEF FinalizeRefund, TypeOK
  <1>3. refund_requests'[u].created_at_sec = refund_requests[u].created_at_sec
    BY <1>2 DEF RefundRequest
  <1>4. QED
    BY <1>2, <1>3

LEMMA StepRespectsRequests ==
    ASSUME TypeOK, AsyncWaits, [Next]_vars, NEW u \in Utxo
    PROVE  /\ Executed(u) /\ ~Executed(u)' => Refunded(u)
           /\ u \notin PresetAddress /\ ~Executed(u) /\ Executed(u)'
                => now >= refund_requests'[u].created_at_sec + unsafe_refund_timelock_sec
  <1>1. \/ RequestKept(u)
        \/ (~Executed(u) /\ ~Executed(u)')
        \/ Settles(u)
        \/ ExecutesInTime(u)
    BY RequestsAfterNext
  <1>2. CASE RequestKept(u)
    BY <1>2 DEF RequestKept, Executed
  <1>3. CASE Settles(u)
    BY <1>3 DEF Settles, Executed
  <1>4. CASE ExecutesInTime(u)
    <2>1. Executed(u)'
      BY <1>4, FinalizeRefundExecutes DEF ExecutesInTime
    <2>2. QED
      BY <1>4, <2>1, ExecutionInTime
  <1>5. QED
    BY <1>1, <1>2, <1>3, <1>4

LEMMA RequestsInv == Spec => [](TypeOK /\ AsyncWaits)
  <1>1. Init => TypeOK /\ AsyncWaits
    BY InitTypeOK, InitAsyncWaits
  <1>2. TypeOK /\ AsyncWaits /\ [Next]_vars => (TypeOK /\ AsyncWaits)'
    BY NextTypeOK, NextAsyncWaits
  <1>3. QED
    BY <1>1, <1>2, PTL DEF Spec

\* An executed request survives rejections, retries and late callbacks until a
\* refund of its output is on chain, whatever the DAO does.
THEOREM ExecutionIsIrrevocable == Spec => ExecutedIsIrrevocable
  <1>1. TypeOK /\ AsyncWaits /\ [Next]_vars
            => [\A u \in Utxo : Executed(u) /\ ~Executed(u)' => Refunded(u)]_vars
    BY StepRespectsRequests
  <1>2. QED
    BY <1>1, RequestsInv, PTL DEF Spec, ExecutedIsIrrevocable

\* No interleaving of execute_refund's two receipts with rejections and new
\* requests shortens the timelock of a refund to an address given on request.
THEOREM UnsafeRefundsWait == Spec => UnsafeRefundWaits
  <1>1. TypeOK /\ AsyncWaits /\ [Next]_vars
            => [\A u \in Utxo \ PresetAddress :
                    ~Executed(u) /\ Executed(u)'
                        => now >= refund_requests'[u].created_at_sec
                                    + unsafe_refund_timelock_sec]_vars
    BY StepRespectsRequests
  <1>2. QED
    BY <1>1, RequestsInv, PTL DEF Spec, UnsafeRefundWaits

-----------------------------------------------------------------------------
(* Pending refund transactions and the lists of their owners.              *)

\* ListsMatchStages of one transaction.
ListedRight(tx) ==
    \A a \in Account :
        /\ tx \in btc_pending_sign_ids[a]
              <=> btc_pending_infos[tx] = [account_id |-> a, stage |-> "PendingSign"]
        /\ tx \in btc_pending_verify_list[a]
              <=> btc_pending_infos[tx] = [account_id |-> a, stage |-> "PendingVerify"]

LEMMA ListedRightIsListsMatchStages ==
    ListsMatchStages <=> \A tx \in RefundTx : ListedRight(tx)
  BY DEF ListsMatchStages, ListedRight

\* One transaction moves, and the others stay where they are.
OnlyMoves(tx) ==
    \A other \in RefundTx \ {tx} :
        /\ btc_pending_infos'[other] = btc_pending_infos[other]
        /\ \A a \in Account :
            /\ other \in btc_pending_sign_ids'[a] <=> other \in btc_pending_sign_ids[a]
            /\ other \in btc_pending_verify_list'[a] <=> other \in btc_pending_verify_list[a]

LEMMA OnlyMovesLists ==
    ASSUME NEW tx \in RefundTx, \A t \in RefundTx : ListedRight(t), OnlyMoves(tx),
           ListedRight(tx)'
    PROVE  \A t \in RefundTx : ListedRight(t)'
  <1> SUFFICES ASSUME NEW t \in RefundTx, t # tx PROVE ListedRight(t)'
    OBVIOUS
  <1>1. btc_pending_infos'[t] = btc_pending_infos[t]
    BY DEF OnlyMoves
  <1>2. ASSUME NEW a \in Account
        PROVE  /\ t \in btc_pending_sign_ids'[a] <=> t \in btc_pending_sign_ids[a]
               /\ t \in btc_pending_verify_list'[a] <=> t \in btc_pending_verify_list[a]
    BY DEF OnlyMoves
  <1>3. ListedRight(t)
    OBVIOUS
  <1>4. QED
    BY <1>1, <1>2, <1>3 DEF ListedRight

\* A pending transaction equals one that is listed if owner and stage agree.
LEMMA SameInfo ==
    ASSUME NEW info, NEW owner, NEW stage, NEW a, NEW other,
           info = [account_id |-> owner, stage |-> stage]
    PROVE  info = [account_id |-> a, stage |-> other] <=> a = owner /\ stage = other
  <1>1. CASE info = [account_id |-> a, stage |-> other]
    <2>1. info.account_id = owner /\ info.stage = stage
      OBVIOUS
    <2>2. info.account_id = a /\ info.stage = other
      BY <1>1
    <2>3. QED
      BY <1>1, <2>1, <2>2
  <1>2. CASE a = owner /\ stage = other
    BY <1>2
  <1>3. QED
    BY <1>1, <1>2

\* Where a transaction of a given owner and stage has to be listed.
LEMMA ListedByStage ==
    ASSUME NEW tx \in RefundTx, NEW owner \in Account, NEW stage \in Stage,
           btc_pending_infos[tx] = [account_id |-> owner, stage |-> stage]
    PROVE  ListedRight(tx) <=>
            \A a \in Account :
                /\ tx \in btc_pending_sign_ids[a] <=> a = owner /\ stage = "PendingSign"
                /\ tx \in btc_pending_verify_list[a] <=> a = owner /\ stage = "PendingVerify"
  <1>1. ASSUME NEW a \in Account
        PROVE  /\ btc_pending_infos[tx] = [account_id |-> a, stage |-> "PendingSign"]
                    <=> a = owner /\ stage = "PendingSign"
               /\ btc_pending_infos[tx] = [account_id |-> a, stage |-> "PendingVerify"]
                    <=> a = owner /\ stage = "PendingVerify"
    BY SameInfo
  <1>2. QED
    BY <1>1, Zenon DEF ListedRight

LEMMA ListedToSign ==
    ASSUME NEW tx \in RefundTx, NEW owner \in Account,
           btc_pending_infos'[tx] = [account_id |-> owner, stage |-> "PendingSign"],
           \A a \in Account : /\ tx \in btc_pending_sign_ids'[a] <=> a = owner
                              /\ tx \notin btc_pending_verify_list'[a]
    PROVE  ListedRight(tx)'
  <1>1. ASSUME NEW a \in Account
        PROVE  /\ btc_pending_infos'[tx] = [account_id |-> a, stage |-> "PendingSign"] <=> a = owner
               /\ btc_pending_infos'[tx] # [account_id |-> a, stage |-> "PendingVerify"]
    BY SameInfo
  <1>2. QED
    BY <1>1, Zenon DEF ListedRight

LEMMA ListedToVerify ==
    ASSUME NEW tx \in RefundTx, NEW owner \in Account,
           btc_pending_infos'[tx] = [account_id |-> owner, stage |-> "PendingVerify"],
           \A a \in Account : /\ tx \in btc_pending_verify_list'[a] <=> a = owner
                              /\ tx \notin btc_pending_sign_ids'[a]
    PROVE  ListedRight(tx)'
  <1>1. ASSUME NEW a \in Account
        PROVE  /\ btc_pending_infos'[tx] = [account_id |-> a, stage |-> "PendingVerify"]
                      <=> a = owner
               /\ btc_pending_infos'[tx] # [account_id |-> a, stage |-> "PendingSign"]
    BY SameInfo
  <1>2. QED
    BY <1>1, Zenon DEF ListedRight

LEMMA FinalizeRefundLists ==
    ASSUME TypeOK, \A t \in RefundTx : ListedRight(t),
           NEW caller \in Account, NEW u \in Utxo, NEW timelock, NEW variant \in Variant,
           FinalizeRefund(caller, u, timelock, variant)
    PROVE  \A t \in RefundTx : ListedRight(t)'
  <1>1. PICK tx \in RefundTx : tx = <<u, variant>>
    BY DEF RefundTx
  <1>2. /\ btc_pending_infos[tx] = None
        /\ btc_pending_infos' = [btc_pending_infos EXCEPT
                ![tx] = [account_id |-> caller, stage |-> "PendingSign"]]
        /\ btc_pending_sign_ids' = [btc_pending_sign_ids EXCEPT ![caller] = @ \cup {tx}]
        /\ UNCHANGED btc_pending_verify_list
    BY <1>1 DEF FinalizeRefund
  <1>3. OnlyMoves(tx)
    BY <1>2 DEF OnlyMoves, TypeOK
  <1>4. ListedRight(tx)'
    <2>1. btc_pending_infos'[tx] = [account_id |-> caller, stage |-> "PendingSign"]
      BY <1>2 DEF TypeOK
    <2>2. ASSUME NEW a \in Account
          PROVE  tx \notin btc_pending_sign_ids[a] /\ tx \notin btc_pending_verify_list[a]
      <3>1. /\ [account_id |-> a, stage |-> "PendingSign"] \in BTCPendingInfo
            /\ [account_id |-> a, stage |-> "PendingVerify"] \in BTCPendingInfo
        BY DEF BTCPendingInfo, Stage
      <3>2. QED
        BY <1>2, <3>1, NoneAssumption DEF ListedRight
    <2>3. \A a \in Account : /\ tx \in btc_pending_sign_ids'[a] <=> a = caller
                             /\ tx \notin btc_pending_verify_list'[a]
      BY <1>2, <2>2 DEF TypeOK
    <2>4. QED
      BY <2>1, <2>3, ListedToSign
  <1>5. QED
    BY <1>3, <1>4, OnlyMovesLists

LEMMA SignBtcTransactionCallbackLists ==
    ASSUME TypeOK, \A t \in RefundTx : ListedRight(t),
           NEW p \in PromiseId, SignBtcTransactionCallback(p)
    PROVE  \A t \in RefundTx : ListedRight(t)'
  <1>1. PICK tx \in RefundTx : tx = promises[p].tx
    BY RunningCall, CallFields DEF SignBtcTransactionCallback
  <1>2. /\ btc_pending_infos[tx] \in BTCPendingInfo
        /\ btc_pending_infos[tx].stage = "PendingSign"
    BY <1>1 DEF SignBtcTransactionCallback, Signable, TypeOK
  <1>3. PICK owner \in Account : btc_pending_infos[tx].account_id = owner
    BY <1>2 DEF BTCPendingInfo
  <1>4. /\ btc_pending_infos' =
                [btc_pending_infos EXCEPT ![tx] = [@ EXCEPT !.stage = "PendingVerify"]]
        /\ btc_pending_sign_ids' = [btc_pending_sign_ids EXCEPT ![owner] = @ \ {tx}]
        /\ btc_pending_verify_list' =
                [btc_pending_verify_list EXCEPT ![owner] = @ \cup {tx}]
    BY <1>1, <1>3 DEF SignBtcTransactionCallback
  <1>5. btc_pending_infos[tx] = [account_id |-> owner, stage |-> "PendingSign"]
    BY <1>2, <1>3 DEF BTCPendingInfo
  <1>6. btc_pending_infos'[tx] = [account_id |-> owner, stage |-> "PendingVerify"]
    <2>1. btc_pending_infos'[tx] = [btc_pending_infos[tx] EXCEPT !.stage = "PendingVerify"]
      BY <1>4 DEF TypeOK
    <2>2. QED
      BY <1>5, <2>1
  <1>7. OnlyMoves(tx)
    BY <1>4 DEF OnlyMoves, TypeOK
  <1>8. ListedRight(tx)'
    <2>1. \A a \in Account : /\ tx \in btc_pending_sign_ids[a] <=> a = owner
                             /\ tx \notin btc_pending_verify_list[a]
      <3>1. ListedRight(tx) /\ "PendingSign" \in Stage
        BY DEF Stage
      <3>2. \A a \in Account :
                /\ tx \in btc_pending_sign_ids[a]
                      <=> a = owner /\ "PendingSign" = "PendingSign"
                /\ tx \in btc_pending_verify_list[a]
                      <=> a = owner /\ "PendingSign" = "PendingVerify"
        BY <1>5, <3>1, ListedByStage, Zenon
      <3>3. QED
        BY <3>2
    <2>2. \A a \in Account : /\ tx \in btc_pending_verify_list'[a] <=> a = owner
                             /\ tx \notin btc_pending_sign_ids'[a]
      BY <1>4, <2>1 DEF TypeOK
    <2>3. QED
      BY <1>6, <2>2, ListedToVerify
  <1>9. QED
    BY <1>7, <1>8, OnlyMovesLists

\* A transaction that is removed leaves no entry behind.
LEMMA RemovedLists ==
    ASSUME TypeOK, \A t \in RefundTx : ListedRight(t), NEW tx \in RefundTx,
           btc_pending_infos' = [btc_pending_infos EXCEPT ![tx] = None],
           OnlyMoves(tx),
           \A a \in Account : /\ tx \notin btc_pending_sign_ids'[a]
                              /\ tx \notin btc_pending_verify_list'[a]
    PROVE  \A t \in RefundTx : ListedRight(t)'
  <1>1. btc_pending_infos'[tx] = None
    BY DEF TypeOK
  <1>2. \A a \in Account :
            /\ [account_id |-> a, stage |-> "PendingSign"] # None
            /\ [account_id |-> a, stage |-> "PendingVerify"] # None
    BY NoneAssumption DEF BTCPendingInfo, Stage
  <1>3. ListedRight(tx)'
    BY <1>1, <1>2, Zenon DEF ListedRight
  <1>4. QED
    BY <1>3, OnlyMovesLists

\* The owner of a pending transaction is the only account that lists it.
LEMMA ListedByOwner ==
    ASSUME TypeOK, NEW tx \in RefundTx, ListedRight(tx), btc_pending_infos[tx] # None
    PROVE  /\ btc_pending_infos[tx].account_id \in Account
           /\ \A a \in Account :
                a # btc_pending_infos[tx].account_id
                    => /\ tx \notin btc_pending_sign_ids[a]
                       /\ tx \notin btc_pending_verify_list[a]
           /\ btc_pending_infos[tx].stage = "PendingVerify"
                => \A a \in Account : tx \notin btc_pending_sign_ids[a]
  BY DEF TypeOK, BTCPendingInfo, ListedRight

LEMMA VerifyRefundCallbackLists ==
    ASSUME TypeOK, \A t \in RefundTx : ListedRight(t),
           NEW p \in PromiseId, VerifyRefundCallback(p)
    PROVE  \A t \in RefundTx : ListedRight(t)'
  <1>1. PICK tx \in RefundTx : tx = promises[p].tx
    BY RunningCall, CallFields DEF VerifyRefundCallback
  <1>2. PICK owner : owner = btc_pending_infos[tx].account_id
    OBVIOUS
  <1>3. /\ btc_pending_infos[tx] # None
        /\ btc_pending_infos[tx].stage = "PendingVerify"
        /\ btc_pending_infos' = [btc_pending_infos EXCEPT ![tx] = None]
        /\ btc_pending_verify_list' =
                [btc_pending_verify_list EXCEPT ![owner] = @ \ {tx}]
        /\ UNCHANGED btc_pending_sign_ids
    BY <1>1, <1>2 DEF VerifyRefundCallback, SettleRefund
  <1>4. /\ owner \in Account
        /\ \A a \in Account : a # owner => tx \notin btc_pending_verify_list[a]
        /\ \A a \in Account : tx \notin btc_pending_sign_ids[a]
    BY <1>2, <1>3, ListedByOwner
  <1>5. OnlyMoves(tx)
    BY <1>3 DEF OnlyMoves, TypeOK
  <1>6. \A a \in Account : /\ tx \notin btc_pending_sign_ids'[a]
                           /\ tx \notin btc_pending_verify_list'[a]
    BY <1>3, <1>4 DEF TypeOK
  <1>7. QED
    BY <1>3, <1>5, <1>6, RemovedLists

LEMMA RemoveRefundPendingTxIdLists ==
    ASSUME TypeOK, \A t \in RefundTx : ListedRight(t),
           NEW tx \in RefundTx, RemoveRefundPendingTxId(tx)
    PROVE  \A t \in RefundTx : ListedRight(t)'
  <1>1. PICK owner : owner = btc_pending_infos[tx].account_id
    OBVIOUS
  <1>2. /\ btc_pending_infos[tx] # None
        /\ btc_pending_infos' = [btc_pending_infos EXCEPT ![tx] = None]
        /\ btc_pending_sign_ids' = [btc_pending_sign_ids EXCEPT ![owner] = @ \ {tx}]
        /\ btc_pending_verify_list' =
                [btc_pending_verify_list EXCEPT ![owner] = @ \ {tx}]
    BY <1>1 DEF RemoveRefundPendingTxId, Removable, ForgetTx
  <1>3. /\ owner \in Account
        /\ \A a \in Account : a # owner => /\ tx \notin btc_pending_sign_ids[a]
                                         /\ tx \notin btc_pending_verify_list[a]
    BY <1>1, <1>2, ListedByOwner
  <1>4. OnlyMoves(tx)
    BY <1>2 DEF OnlyMoves, TypeOK
  <1>5. \A a \in Account : /\ tx \notin btc_pending_sign_ids'[a]
                           /\ tx \notin btc_pending_verify_list'[a]
    BY <1>2, <1>3 DEF TypeOK
  <1>6. QED
    BY <1>2, <1>4, <1>5, RemovedLists

LEMMA PendingUntouchedLists ==
    ASSUME \A t \in RefundTx : ListedRight(t), UNCHANGED pendingVars
    PROVE  \A t \in RefundTx : ListedRight(t)'
  BY DEF ListedRight, pendingVars

LEMMA NextLists ==
    ASSUME TypeOK, ListsMatchStages, [Next]_vars
    PROVE  ListsMatchStages'
  <1>1. \A t \in RefundTx : ListedRight(t)
    BY ListedRightIsListsMatchStages
  <1> SUFFICES \A t \in RefundTx : ListedRight(t)'
    BY DEF ListsMatchStages, ListedRight
  <1>2. ASSUME NEW p \in PromiseId, ExecuteRefundCallback(p)
        PROVE  \A t \in RefundTx : ListedRight(t)'
    <2>1. /\ promises[p].utxo \in Utxo
          /\ promises[p].caller \in Account
          /\ promises[p].variant \in Variant
      BY <1>2, RunningCall, CallFields DEF ExecuteRefundCallback
    <2>2. QED
      BY <1>1, <1>2, <2>1, FinalizeRefundLists DEF ExecuteRefundCallback
  <1>3. ASSUME NEW p \in PromiseId,
               SignBtcTransactionCallback(p) \/ VerifyRefundCallback(p)
        PROVE  \A t \in RefundTx : ListedRight(t)'
    BY <1>1, <1>3, SignBtcTransactionCallbackLists, VerifyRefundCallbackLists
  <1>4. ASSUME NEW caller \in Account, NEW u \in Utxo, NEW variant \in Variant,
               ExecuteRefund(caller, u, variant)
        PROVE  \A t \in RefundTx : ListedRight(t)'
    BY <1>1, <1>4, FinalizeRefundLists DEF ExecuteRefund
  <1>5. ASSUME NEW tx \in RefundTx, RemoveRefundPendingTxId(tx)
        PROVE  \A t \in RefundTx : ListedRight(t)'
    BY <1>1, <1>5, RemoveRefundPendingTxIdLists
  <1>6. CASE \E p \in PromiseId : Entry(p)
    <2>1. UNCHANGED pendingVars
      BY <1>6
      DEF Entry, VerifyDeposit, RequestRefund, ExecuteRefundAsync, SignBtcTransaction,
          VerifyRefund
    <2>2. QED
      BY <1>1, <2>1, PendingUntouchedLists
  <1>7. CASE \E p \in PromiseId :
                \/ VerifyDepositCallback(p) \/ Mint(p) \/ MintCallback(p)
                \/ MintCallbackDies(p) \/ RequestRefundCallback(p) \/ MpcSign(p)
                \/ CallbackPanics(p)
    <2>1. UNCHANGED pendingVars
      BY <1>7
      DEF VerifyDepositCallback, Mint, MintCallback, MintCallbackDies,
          RequestRefundCallback, MpcSign, CallbackPanics
    <2>2. QED
      BY <1>1, <2>1, PendingUntouchedLists
  <1>8. CASE \/ \E u \in Utxo : CompleteFailedDepositMint(u) \/ GenerateVutxos(u)
             \/ \E u \in Utxo, is_privileged \in BOOLEAN : RejectRefund(u, is_privileged)
             \/ \E tx \in RefundTx : Confirm(tx)
             \/ Tick
             \/ UNCHANGED vars
    <2>1. UNCHANGED pendingVars
      BY <1>8
      DEF CompleteFailedDepositMint, GenerateVutxos, RejectRefund, Confirm, Tick, vars,
          pendingVars
    <2>2. QED
      BY <1>1, <2>1, PendingUntouchedLists
  <1>9. QED
    BY <1>2, <1>3, <1>4, <1>5, <1>6, <1>7, <1>8 DEF Next, Callback

\* Each pending refund is in the one list of its owner that its stage asks for,
\* so no account's limit is used up by entries nothing can remove.
THEOREM ListsFollowStages == Spec => []ListsMatchStages
  <1>1. Init => ListsMatchStages
    <2>1. \A a \in Account :
            /\ [account_id |-> a, stage |-> "PendingSign"] # None
            /\ [account_id |-> a, stage |-> "PendingVerify"] # None
      BY NoneAssumption DEF BTCPendingInfo, Stage
    <2>2. QED
      BY <2>1 DEF Init, ListsMatchStages
  <1>2. TypeOK /\ ListsMatchStages /\ [Next]_vars => ListsMatchStages'
    BY NextLists
  <1>3. QED
    BY <1>1, <1>2, TypeCorrect, PTL DEF Spec

\* A candidate that its request no longer waits for lost to a refund of the
\* same output that is on chain, so dropping it gives nothing up.
THEOREM StaleCandidatesLost ==
    ASSUME TrustedDAO
    PROVE  Spec => []StaleOnlyAfterRefund
  <1>1. IInv => StaleOnlyAfterRefund
    BY RefundTxUtxo
    DEF IInv, StaleOnlyAfterRefund, RefundTxHasRefund, Refunding, Executed
  <1>2. QED
    BY <1>1, Inductive, PTL
=============================================================================
