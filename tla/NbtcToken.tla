------------------------------ MODULE NbtcToken ------------------------------
(***************************************************************************)
(* The nBTC token and what the bridge does with its own balance of it.     *)
(* Tokens move before the receiver of a transfer call is asked, and what   *)
(* the receiver returns is taken back from whatever it still has.  A safe  *)
(* mint goes through the balance of the bridge, and what is returned in    *)
(* full is burned there by a detached call that nobody waits for.  The     *)
(* same balance holds the withdrawals that are not burned yet and the      *)
(* protocol fee, so each of these calls counts on tokens that must still   *)
(* be there when it runs.                                                  *)
(***************************************************************************)
EXTENDS Integers, FiniteSets, FiniteSetsExt

CONSTANTS
    Bridge,         \* account of the bridge
    Token,          \* and of the token itself
    User,           \* accounts that act on their own
    Receipt,        \* calls that may be under way
    Withdrawals,    \* ids of withdrawals
    MintAmount,
    TransferAmount,
    FeeAmount,      \* of deposits, for the protocol or the relayer
    fee_min,        \* of withdraw_bridge_fee
    ProtocolRate,   \* rates the DAO may set as protocol_fee_rate
    MAX_RATIO,
    MaxPostActions, \* MAX_POST_ACTIONS_NUM
    MaxCustody,     \* bound on the deposits the bridge keeps
    None

Account == User \cup {Bridge, Token}

ASSUME ConstantsAssumption ==
    /\ Bridge \notin User /\ Token \notin User /\ Bridge # Token
    /\ MintAmount \subseteq Nat \ {0} /\ TransferAmount \subseteq Nat \ {0}
    /\ FeeAmount \subseteq Nat
    /\ fee_min \in Nat /\ MAX_RATIO \in Nat \ {0}
    /\ ProtocolRate \subseteq 0..MAX_RATIO
    /\ MaxPostActions \in Nat /\ MaxCustody \in Nat
    /\ IsFiniteSet(User) /\ IsFiniteSet(Receipt) /\ IsFiniteSet(Withdrawals)

\* What a call under way carries.
Call ==
    [kind : {"collect", "burn_refused"}, amount : Nat]
        \cup
    [kind : {"claim"}, receiver : User, amount : Nat]
        \cup
    [kind : {"handle_post_action"}, sender : Account, receiver : User, amount : Nat]
        \cup
    [kind : {"ft_on_transfer"}, sender : Account, receiver : Account, amount : Nat,
     safe : BOOLEAN]
        \cup
    [kind : {"ft_resolve_transfer"}, sender : Account, receiver : Account, amount : Nat,
     safe : BOOLEAN, unused : Nat]
        \cup
    [kind : {"safe_mint_callback"}, amount : Nat, used : Nat \cup {None}]

\* What the bridge keeps of a withdrawal until it is burned.
PendingInfo == [stage : {"pending", "confirmed", "burning"}, amount : Nat,
                withdraw_fee : Nat, relayer_fee : Nat]

ASSUME NoneAssumption == None \notin Call /\ None \notin PendingInfo /\ None \notin Nat

VARIABLES
    accounts,           \* registered account -> its balance
    total_supply,
    withdraw_relayer,   \* where withdrawals by memo go
    receipts,           \* calls under way
    withdrawals,        \* the bridge's withdrawals that are not burned
    available,          \* cur_available_protocol_fee of the bridge
    protocol_fee_rate,
    custody             \* bitcoin of the deposits the bridge counts as its own

token  == <<accounts, total_supply, withdraw_relayer>>
bridge == <<withdrawals, available, protocol_fee_rate, custody>>
vars   == <<token, receipts, bridge>>

-----------------------------------------------------------------------------
(* Balances.                                                               *)

Registered(a) == a \in DOMAIN accounts

\* Credit `amount` to an account, which is registered if need be.
Deposited(balances, a, amount) ==
    [x \in DOMAIN balances \cup {a} |->
        (IF x \in DOMAIN balances THEN balances[x] ELSE 0) + (IF x = a THEN amount ELSE 0)]

CanTransfer(sender, receiver, amount) ==
    /\ sender # receiver /\ amount > 0
    /\ Registered(sender) /\ Registered(receiver)
    /\ amount <= accounts[sender]

Transferred(balances, sender, receiver, amount) ==
    [balances EXCEPT ![sender] = @ - amount, ![receiver] = @ + amount]

-----------------------------------------------------------------------------
(* Receipts.                                                               *)

Idle == {r \in Receipt : receipts[r] = None}
Of(kind) == {r \in Receipt : receipts[r] # None /\ receipts[r].kind = kind}

Send(r, receipt) == receipts' = [receipts EXCEPT ![r] = receipt]
Done(r)          == receipts' = [receipts EXCEPT ![r] = None]

OnTransfer(sender, receiver, amount, safe) ==
    [kind |-> "ft_on_transfer", sender |-> sender, receiver |-> receiver,
     amount |-> amount, safe |-> safe]

\* `used` is what safe_mint answers, None if it fails.
SafeMintAnswer(amount, used) == [kind |-> "safe_mint_callback", amount |-> amount, used |-> used]

Init ==
    /\ accounts = [a \in User \cup {Bridge} |-> 0]
    /\ total_supply = 0
    /\ withdraw_relayer = None
    /\ receipts = [r \in Receipt |-> None]
    /\ withdrawals = [w \in Withdrawals |-> None]
    /\ available = 0
    /\ protocol_fee_rate \in ProtocolRate
    /\ custody = 0

-----------------------------------------------------------------------------
(* Deposits.                                                               *)

\* The recipient, the protocol and the relayer share the deposit.  The bridge's
\* callback and the post actions come later.
mint(recipient, amount, protocol_fee, relayer, relayer_fee, callback, actions) ==
    LET total == amount + protocol_fee + relayer_fee
        minted == Deposited(accounts, recipient, amount)
        collected == IF protocol_fee > 0 THEN Deposited(minted, Bridge, protocol_fee) ELSE minted
    IN
    /\ custody + total <= MaxCustody
    /\ accounts' = IF relayer_fee > 0 THEN Deposited(collected, relayer, relayer_fee) ELSE collected
    /\ total_supply' = total_supply + total
    /\ custody' = custody + total
    /\ callback \in Idle /\ DOMAIN actions \subseteq Idle \ {callback}
    /\ receipts' = [r \in Receipt |->
         IF r = callback THEN [kind |-> "collect", amount |-> protocol_fee]
         ELSE IF r \in DOMAIN actions
         THEN [kind |-> "handle_post_action", sender |-> recipient,
               receiver |-> actions[r].receiver, amount |-> actions[r].amount]
         ELSE receipts[r]]
    /\ UNCHANGED <<withdraw_relayer, withdrawals, available, protocol_fee_rate>>

\* The checks that a deposit's post actions pass before the mint.
PostActions(amount) ==
    UNION {{actions \in [R -> [receiver : User, amount : TransferAmount]] :
                SumFunction([r \in R |-> actions[r].amount]) <= amount} :
            R \in kSubset(0, Idle) \cup kSubset(MaxPostActions, Idle)}

\* The action may also lack gas; what failed is not tried again.
HandlePostAction(r) ==
    LET action == receipts[r] IN
    /\ r \in Of("handle_post_action")
    /\ \/ /\ action.receiver # Bridge
          /\ CanTransfer(action.sender, action.receiver, action.amount)
          /\ accounts' = Transferred(accounts, action.sender, action.receiver, action.amount)
          /\ Send(r, OnTransfer(action.sender, action.receiver, action.amount, FALSE))
       \/ Done(r) /\ UNCHANGED accounts
    /\ UNCHANGED <<total_supply, withdraw_relayer, bridge>>

\* Minted to the bridge first, and left there if the receiver is not registered.
SafeMint(r, receiver, amount, with_msg) ==
    /\ r \in Idle
    /\ receiver # Bridge
    /\ custody + amount <= MaxCustody
    /\ total_supply' = total_supply + amount
    /\ custody' = custody + amount
    /\ LET minted == Deposited(accounts, Bridge, amount) IN
       IF ~Registered(receiver)
       THEN accounts' = minted /\ Send(r, SafeMintAnswer(amount, 0))
       ELSE /\ accounts' = Transferred(minted, Bridge, receiver, amount)
            /\ Send(r, IF with_msg THEN OnTransfer(Bridge, receiver, amount, TRUE)
                       ELSE SafeMintAnswer(amount, amount))
    /\ UNCHANGED <<withdraw_relayer, withdrawals, available, protocol_fee_rate>>

\* The call fails: nothing is minted, but the bridge keeps the deposit.
SafeMintFails(r, amount) ==
    /\ r \in Idle
    /\ custody + amount <= MaxCustody
    /\ custody' = custody + amount
    /\ Send(r, SafeMintAnswer(amount, None))
    /\ UNCHANGED <<token, withdrawals, available, protocol_fee_rate>>

\* Mutant: a partial use counts as a refusal.
is_refund_required_if_partial(answer) == answer.used # None /\ answer.used < answer.amount

\* Only an answer that says that nothing was used is a refusal.
is_refund_required(answer) == answer.used = 0

\* Mutant: a refused deposit is released, and its tokens stay.
SafeMintCallbackKeeping(r) ==
    /\ r \in Of("safe_mint_callback")
    /\ custody' = custody - IF is_refund_required(receipts[r]) THEN receipts[r].amount ELSE 0
    /\ Done(r)
    /\ UNCHANGED <<token, withdrawals, available, protocol_fee_rate>>

\* After a refusal the deposit is released and its tokens are to be burned.
SafeMintCallback(r) ==
    /\ r \in Of("safe_mint_callback")
    /\ IF is_refund_required(receipts[r])
       THEN /\ custody' = custody - receipts[r].amount
            /\ Send(r, [kind |-> "burn_refused", amount |-> receipts[r].amount])
       ELSE Done(r) /\ UNCHANGED custody
    /\ UNCHANGED <<token, withdrawals, available, protocol_fee_rate>>

\* Tokens of the bridge are burned, and the relayer is paid from them.
CanBurn(amount, relayer_fee) == amount + relayer_fee <= accounts[Bridge]

burn(amount, relayer, relayer_fee) ==
    LET burned == [accounts EXCEPT ![Bridge] = @ - amount] IN
    /\ CanBurn(amount, relayer_fee)
    /\ total_supply' = total_supply - amount
    /\ accounts' = IF relayer_fee > 0
                   THEN Transferred(Deposited(burned, relayer, 0), Bridge, relayer, relayer_fee)
                   ELSE burned

\* Detached: if it fails, nobody learns.
BurnRefused(r) ==
    /\ r \in Of("burn_refused")
    /\ IF CanBurn(receipts[r].amount, 0)
       THEN burn(receipts[r].amount, Bridge, 0)
       ELSE UNCHANGED <<accounts, total_supply>>
    /\ Done(r)
    /\ UNCHANGED <<withdraw_relayer, bridge>>

\* The callbacks of a mint and of a burn book the protocol's share.
Collect(r) ==
    /\ r \in Of("collect")
    /\ available' = available + receipts[r].amount
    /\ Done(r)
    /\ UNCHANGED <<token, withdrawals, protocol_fee_rate, custody>>

-----------------------------------------------------------------------------
(* Transfers.                                                              *)

\* With a memo, the token's own account stands for the relayer of withdrawals.
Receiver(receiver, is_withdraw_memo) ==
    IF receiver = Token /\ is_withdraw_memo /\ withdraw_relayer # None
    THEN withdraw_relayer ELSE receiver

ft_transfer(sender, receiver, amount, is_withdraw_memo) ==
    /\ CanTransfer(sender, Receiver(receiver, is_withdraw_memo), amount)
    /\ accounts' = Transferred(accounts, sender, Receiver(receiver, is_withdraw_memo), amount)
    /\ UNCHANGED <<total_supply, withdraw_relayer, receipts, bridge>>

ft_transfer_call(r, sender, receiver, amount) ==
    /\ r \in Idle
    /\ CanTransfer(sender, receiver, amount)
    /\ accounts' = Transferred(accounts, sender, receiver, amount)
    /\ Send(r, OnTransfer(sender, receiver, amount, FALSE))
    /\ UNCHANGED <<total_supply, withdraw_relayer, bridge>>

Resolve(r, unused) ==
    Send(r, [kind |-> "ft_resolve_transfer", sender |-> receipts[r].sender,
             receiver |-> receipts[r].receiver, amount |-> receipts[r].amount,
             safe |-> receipts[r].safe, unused |-> unused])

\* A receiver returns what it likes; a panic returns everything.
ReceiverAnswers(r, unused) ==
    /\ r \in Of("ft_on_transfer")
    /\ receipts[r].receiver # Bridge
    /\ unused <= receipts[r].amount
    /\ Resolve(r, unused)
    /\ UNCHANGED <<token, bridge>>

\* The bridge takes all of it, as a donation or for a withdrawal, or panics.
BridgeAnswers(r) ==
    LET amount == receipts[r].amount IN
    /\ r \in Of("ft_on_transfer")
    /\ receipts[r].receiver = Bridge
    /\ \/ /\ available' = available + amount
          /\ Resolve(r, 0)
          /\ UNCHANGED withdrawals
       \/ \E w \in Withdrawals :
          /\ withdrawals[w] = None /\ fee_min < amount
          /\ withdrawals' = [withdrawals EXCEPT ![w] =
                [stage |-> "pending", amount |-> amount, withdraw_fee |-> fee_min,
                 relayer_fee |-> 0]]
          /\ Resolve(r, 0)
          /\ UNCHANGED available
       \/ Resolve(r, amount) /\ UNCHANGED <<withdrawals, available>>
    /\ UNCHANGED <<token, protocol_fee_rate, custody>>

\* What can still be taken back from the receiver.
RefundOf(receipt) ==
    IF Registered(receipt.receiver)
    THEN Min({receipt.unused, accounts[receipt.receiver]}) ELSE 0

\* A refund to an account that is gone is burned, and its transfer counts as used.
ft_resolve_transfer(r) ==
    LET receipt == receipts[r]
        refund == RefundOf(receipt)
        Finish(used) == IF receipt.safe THEN Send(r, SafeMintAnswer(receipt.amount, used))
                        ELSE Done(r)
    IN
    /\ r \in Of("ft_resolve_transfer")
    /\ IF refund = 0
       THEN Finish(receipt.amount) /\ UNCHANGED <<accounts, total_supply>>
       ELSE IF Registered(receipt.sender)
       THEN /\ accounts' = Transferred(accounts, receipt.receiver, receipt.sender, refund)
            /\ Finish(receipt.amount - refund)
            /\ UNCHANGED total_supply
       ELSE /\ accounts' = [accounts EXCEPT ![receipt.receiver] = @ - refund]
            /\ total_supply' = total_supply - refund
            /\ Finish(receipt.amount)
    /\ UNCHANGED <<withdraw_relayer, bridge>>

StorageDeposit(a) ==
    /\ ~Registered(a)
    /\ accounts' = Deposited(accounts, a, 0)
    /\ UNCHANGED <<total_supply, withdraw_relayer, receipts, bridge>>

\* Mutant: the balance goes with the account, the supply stays.
CloseAccount(a) ==
    /\ accounts' = [x \in DOMAIN accounts \ {a} |-> accounts[x]]
    /\ UNCHANGED total_supply

RemoveAccount(a) ==
    /\ accounts' = [x \in DOMAIN accounts \ {a} |-> accounts[x]]
    /\ total_supply' = total_supply - accounts[a]

StorageUnregister(a, force) ==
    /\ Registered(a)
    /\ accounts[a] = 0 \/ force
    /\ RemoveAccount(a)
    /\ UNCHANGED <<withdraw_relayer, receipts, bridge>>

set_withdraw_relayer_address(a) ==
    /\ withdraw_relayer' = a
    /\ UNCHANGED <<accounts, total_supply, receipts, bridge>>

-----------------------------------------------------------------------------
(* The bridge's own use of its balance.                                    *)

\* The fee was fixed when the withdrawal was made; its split is today's.
ProtocolFee(withdraw_fee) == (withdraw_fee * protocol_fee_rate) \div MAX_RATIO
RelayerFee(withdraw_fee)  == withdraw_fee - ProtocolFee(withdraw_fee)

BurnAmount(withdrawal) == withdrawal.amount - withdrawal.withdraw_fee

Confirm(w) ==
    /\ withdrawals[w] # None /\ withdrawals[w].stage = "pending"
    /\ withdrawals' = [withdrawals EXCEPT ![w].stage = "confirmed"]
    /\ custody' = custody - BurnAmount(withdrawals[w])
    /\ UNCHANGED <<token, receipts, available, protocol_fee_rate>>

\* The split goes with the promise of the burn and of its callback.
VerifyWithdrawBurnPromise(w) ==
    /\ withdrawals[w] # None /\ withdrawals[w].stage = "confirmed"
    /\ withdrawals' = [withdrawals EXCEPT
         ![w].stage = "burning",
         ![w].relayer_fee = RelayerFee(withdrawals[w].withdraw_fee)]
    /\ UNCHANGED <<token, receipts, available, protocol_fee_rate, custody>>

BurnWithdrawal(r, w, relayer) ==
    /\ r \in Idle
    /\ withdrawals[w] # None /\ withdrawals[w].stage = "burning"
    /\ burn(BurnAmount(withdrawals[w]), relayer, withdrawals[w].relayer_fee)
    /\ Send(r, [kind |-> "collect",
                amount |-> withdrawals[w].withdraw_fee - withdrawals[w].relayer_fee])
    /\ withdrawals' = [withdrawals EXCEPT ![w] = None]
    /\ UNCHANGED <<withdraw_relayer, available, protocol_fee_rate, custody>>

\* The call of the burn fails; the proof is brought again.
BurnFails(w) ==
    /\ withdrawals[w] # None /\ withdrawals[w].stage = "burning"
    /\ withdrawals' = [withdrawals EXCEPT ![w].stage = "confirmed", ![w].relayer_fee = 0]
    /\ UNCHANGED <<token, receipts, available, protocol_fee_rate, custody>>

WithdrawProtocolFee(r, claimer, amount) ==
    /\ r \in Idle
    /\ amount <= available
    /\ available' = available - amount
    /\ Send(r, [kind |-> "claim", receiver |-> claimer, amount |-> amount])
    /\ UNCHANGED <<token, withdrawals, protocol_fee_rate, custody>>

\* The transfer of a claim and its callback, which takes a failed claim back.
TransferClaim(r) ==
    /\ r \in Of("claim")
    /\ IF CanTransfer(Bridge, receipts[r].receiver, receipts[r].amount)
       THEN /\ accounts' = Transferred(accounts, Bridge, receipts[r].receiver, receipts[r].amount)
            /\ UNCHANGED available
       ELSE /\ available' = available + receipts[r].amount
            /\ UNCHANGED accounts
    /\ Done(r)
    /\ UNCHANGED <<total_supply, withdraw_relayer, withdrawals, protocol_fee_rate, custody>>

SetProtocolFeeRate(rate) ==
    /\ protocol_fee_rate' = rate
    /\ UNCHANGED <<token, receipts, withdrawals, available, custody>>

-----------------------------------------------------------------------------
Next ==
    \/ \E a \in User \cup {Bridge}, amount \in MintAmount, relayer \in User,
          fee \in FeeAmount, relayer_fee \in FeeAmount, callback \in Receipt :
        \E actions \in PostActions(amount) :
            mint(a, amount, fee, relayer, relayer_fee, callback, actions)
    \/ \E r \in Receipt, a \in User, amount \in MintAmount :
        \/ \E with_msg \in BOOLEAN : SafeMint(r, a, amount, with_msg)
        \/ SafeMintFails(r, amount)
    \/ \E r \in Receipt :
        \/ HandlePostAction(r)
        \/ SafeMintCallback(r)
        \/ BurnRefused(r)
        \/ Collect(r)
        \/ \E unused \in 0..MaxCustody : ReceiverAnswers(r, unused)
        \/ BridgeAnswers(r)
        \/ ft_resolve_transfer(r)
        \/ TransferClaim(r)
    \/ \E a \in User :
        \/ \E to \in Account, amount \in TransferAmount, memo \in BOOLEAN :
            ft_transfer(a, to, amount, memo)
        \/ \E r \in Receipt, to \in Account, amount \in TransferAmount :
            ft_transfer_call(r, a, to, amount)
        \/ StorageDeposit(a)
        \/ \E force \in BOOLEAN : StorageUnregister(a, force)
        \/ set_withdraw_relayer_address(a)
        \/ \E r \in Receipt, amount \in FeeAmount \ {0} : WithdrawProtocolFee(r, a, amount)
    \/ \E w \in Withdrawals :
        \/ Confirm(w)
        \/ VerifyWithdrawBurnPromise(w)
        \/ \E r \in Receipt, relayer \in User : BurnWithdrawal(r, w, relayer)
        \/ BurnFails(w)
    \/ \E rate \in ProtocolRate : SetProtocolFeeRate(rate)

Spec == Init /\ [][Next]_vars
-----------------------------------------------------------------------------
(* Properties.                                                             *)

\* What a call under way counts on in the balance of the bridge.
OwedBy(receipt) ==
    CASE receipt.kind \in {"collect", "burn_refused", "claim"} -> receipt.amount
      [] receipt.kind = "safe_mint_callback" /\ receipt.used = 0 -> receipt.amount
      [] receipt.kind = "ft_on_transfer" /\ receipt.receiver = Bridge -> receipt.amount
      [] receipt.kind = "ft_resolve_transfer" /\ receipt.receiver = Bridge -> receipt.unused
      [] OTHER -> 0

Busy == {r \in Receipt : receipts[r] # None}
Open == {w \in Withdrawals : withdrawals[w] # None}

\* No token appears or vanishes in the ledger, whatever is minted, taken back,
\* burned or closed with its account.
SupplyIsSum == total_supply = SumFunction(accounts)

\* The bridge holds what it still has to burn, to return or to pay: the detached
\* burn of a refused safe mint, the burn of a withdrawal with its fees and a
\* claim find their tokens, however receivers answer and the split changes.
BridgeCovers ==
    accounts[Bridge] >= available + SumFunction([w \in Open |-> withdrawals[w].amount])
                          + SumFunction([r \in Busy |-> OwedBy(receipts[r])])

\* Tokens in existence are backed by deposits the bridge keeps, but for those
\* whose burn is on its way.
SupplyIsBacked ==
    total_supply <= custody
        + SumFunction([r \in Of("burn_refused") |-> receipts[r].amount])
        + SumFunction([w \in {v \in Open : withdrawals[v].stage # "pending"} |->
                            BurnAmount(withdrawals[w])])
=============================================================================
