------------------------------ MODULE Migration ------------------------------
(***************************************************************************)
(* The state of the bridge across upgrades.  A new contract finds the      *)
(* layout of any version deployed before it.  migrate_state rewrites the   *)
(* frame of it; accounts and refund requests keep their old layout until a *)
(* handler writes them.  Calls that the old contract started come back to  *)
(* the new one, and find it unable to answer while nobody migrated it.     *)
(***************************************************************************)
EXTENDS Integers, FiniteSets, FiniteSetsExt

CONSTANTS
    Account, Tx, Output,
    Balance,        \* per output; all are from one block
    Limit,          \* values of set_pending_tx_limit
    HomeChain,      \* the chain that the account id of the contract says
    Confirmations,  \* highest tier of the strategy
    Delta,          \* confirmations_delta
    ExtraDelta,     \* values of extra_msg_confirmations_delta
    SLACK,          \* BLOCK_AMOUNT_RING_CAPACITY_SLACK
    None,
    Absent          \* the value of a field that a layout does not have

ASSUME ConstantsAssumption ==
    /\ Balance \in [Output -> Nat \ {0}]
    /\ Limit \subseteq Nat \ {0}
    /\ Confirmations \in 2..100 /\ Delta \in Nat /\ ExtraDelta \subseteq Nat
    /\ SLACK \in Nat
    /\ None # Absent

VARIABLES
    zcash,       \* the build
    version,     \* of the layout that is stored, 8 for the current one
    data,
    deployed,    \* the code of this version is
    callbacks,   \* output -> the mint callback on its way
    lost,        \* outputs that were minted, and whose callback found no state
    counted      \* outputs the ring of this state has counted

vars == <<zcash, version, data, deployed, callbacks, lost, counted>>

Current == 8

-----------------------------------------------------------------------------
(* Layouts.                                                                *)

Lists == {"relayer_white_list", "extra_msg_relayer_white_list", "post_action_msg_templates"}

BaseFields == {"config", "accounts", "utxos", "verified_deposit_utxo",
               "btc_pending_infos", "relayer_white_list"}

\* ContractDataV0 to ContractDataV7, then ContractData.
FieldsOf(v, is_zcash) == BaseFields
    \cup (IF v >= 1 THEN {"post_action_msg_templates"} ELSE {})
    \cup (IF v >= 2 THEN {"extra_msg_relayer_white_list"} ELSE {})
    \cup (IF v >= 4 THEN {"pending_tx_limits"} ELSE {})
    \cup (IF v >= 6 \/ (v >= 4 /\ ~is_zcash) THEN {"refund_requests"} ELSE {})
    \cup (IF v >= 7 THEN {"utxos_in_progress"} ELSE {})
    \cup (IF v >= Current THEN {"block_bridge_amounts"} ELSE {})

\* The type of the config in each of them: ConfigV0 to ConfigV3, then Config.
ConfigLayout(v, is_zcash) ==
    CASE v = 1 -> 0
      [] v = 2 -> IF is_zcash THEN 2 ELSE 1
      [] v = 3 -> 2
      [] v = 4 -> 3
      [] OTHER -> 4

ConfigFieldsOf(layout) == {"confirmations", "confirmations_delta"}
    \cup (IF layout >= 1 THEN {"extra_msg_confirmations_delta"} ELSE {})
    \cup (IF layout >= 2 THEN {"chain"} ELSE {})
    \cup (IF layout >= 3 THEN {"refund_timelock_sec"} ELSE {})
    \cup (IF layout >= 4 THEN {"unsafe_refund_timelock_sec"} ELSE {})

ConfigFields == ConfigFieldsOf(4)
Fields == FieldsOf(Current, FALSE)

\* The defaults of config.rs, of which only the order matters here.
DEFAULT_REFUND_TIMELOCK_SEC == 1
DEFAULT_UNSAFE_REFUND_TIMELOCK_SEC == 2

FromConfigV3(c) == [c EXCEPT !.unsafe_refund_timelock_sec = DEFAULT_UNSAFE_REFUND_TIMELOCK_SEC]

FromConfigV2(c) == [c EXCEPT !.refund_timelock_sec = DEFAULT_REFUND_TIMELOCK_SEC,
                             !.unsafe_refund_timelock_sec = DEFAULT_UNSAFE_REFUND_TIMELOCK_SEC]

FromConfigV1(c) == [c EXCEPT !.chain = HomeChain,
                             !.refund_timelock_sec = DEFAULT_REFUND_TIMELOCK_SEC,
                             !.unsafe_refund_timelock_sec = DEFAULT_UNSAFE_REFUND_TIMELOCK_SEC]

FromConfigV0(c) == [c EXCEPT !.chain = HomeChain,
                             !.extra_msg_confirmations_delta = 1,
                             !.refund_timelock_sec = DEFAULT_REFUND_TIMELOCK_SEC,
                             !.unsafe_refund_timelock_sec = DEFAULT_UNSAFE_REFUND_TIMELOCK_SEC]

\* Mutant: the ring forgets that a relayer may owe more than the highest tier.
capacity_for_highest_tier(config) == config.confirmations

capacity_for(config) ==
    config.confirmations + config.confirmations_delta
      + config.extra_msg_confirmations_delta + SLACK

\* What a migration puts into a field that the old layout does not have.
New(field, config) ==
    CASE field = "block_bridge_amounts" -> [capacity |-> capacity_for(config), sats |-> 0]
      [] field = "pending_tx_limits" -> [a \in Account |-> None]
      [] field = "refund_requests" -> [o \in Output |-> None]
      [] OTHER -> {}

\* The old data with a current config and with `fields` new.
Upgraded(c, config, fields) ==
    [f \in Fields |->
        CASE f = "config" -> config
          [] f \in fields \cup {"block_bridge_amounts"} -> New(f, config)
          [] OTHER -> c[f]]

FromContractDataV7(c) == Upgraded(c, c.config, {})

FromContractDataV6(c) == Upgraded(c, c.config, {"utxos_in_progress"})

RefundRequestsIfZcash == IF zcash THEN {"refund_requests"} ELSE {}

FromContractDataV5(c) ==
    Upgraded(c, c.config, {"utxos_in_progress"} \cup RefundRequestsIfZcash)

\* Mutant: the requests of a Bitcoin bridge are started anew, as Zcash's are.
FromContractDataV4Anew(c) ==
    Upgraded(c, FromConfigV3(c.config), {"utxos_in_progress", "refund_requests"})

FromContractDataV4(c) ==
    Upgraded(c, FromConfigV3(c.config), {"utxos_in_progress"} \cup RefundRequestsIfZcash)

SinceV4 == {"utxos_in_progress", "pending_tx_limits", "refund_requests"}

FromContractDataV3(c) == Upgraded(c, FromConfigV2(c.config), SinceV4)

FromContractDataV2(c) ==
    Upgraded(c, IF zcash THEN FromConfigV2(c.config) ELSE FromConfigV1(c.config), SinceV4)

FromContractDataV1(c) ==
    Upgraded(c, FromConfigV0(c.config), SinceV4 \cup {"extra_msg_relayer_white_list"})

FromContractDataV0(c) ==
    Upgraded(c, c.config, SinceV4 \cup {"extra_msg_relayer_white_list",
                                        "post_action_msg_templates"})

Migrated(c) ==
    CASE version = 0 -> FromContractDataV0(c)
      [] version = 1 -> FromContractDataV1(c)
      [] version = 2 -> FromContractDataV2(c)
      [] version = 3 -> FromContractDataV3(c)
      [] version = 4 -> FromContractDataV4(c)
      [] version = 5 -> FromContractDataV5(c)
      [] version = 6 -> FromContractDataV6(c)
      [] version = 7 -> FromContractDataV7(c)
      [] version = Current -> c

\* AccountV0 had at most one transaction to be signed.
AccountV0(id, list) ==
    [layout |-> 0, btc_pending_sign_id |-> id, btc_pending_verify_list |-> list]

CurrentAccount(ids, list) ==
    [layout |-> 1, btc_pending_sign_ids |-> ids, btc_pending_verify_list |-> list]

NewAccount == CurrentAccount({}, {})

\* Mutant: a converted account starts without a transaction to be signed.
AccountFromForgetful(v) ==
    IF v.layout = 1 THEN v ELSE CurrentAccount({}, v.btc_pending_verify_list)

AccountFrom(v) ==
    IF v.layout = 1 THEN v
    ELSE CurrentAccount({v.btc_pending_sign_id} \ {None}, v.btc_pending_verify_list)

RefundRequestV0 == [layout |-> 0]
RefundRequest(executed) == [layout |-> 1, executed |-> executed]
RefundRequestFrom(v) == IF v.layout = 1 THEN v ELSE RefundRequest(FALSE)

\* What the maps of the state hold, of whatever layout.
VAccount ==
    [layout : {0}, btc_pending_sign_id : Tx \cup {None}, btc_pending_verify_list : SUBSET Tx]
    \cup [layout : {1}, btc_pending_sign_ids : SUBSET Tx, btc_pending_verify_list : SUBSET Tx]

VRefundRequest == {RefundRequestV0} \cup {RefundRequest(executed) : executed \in BOOLEAN}

BTCPendingInfo ==
    [account_id : Account, input : Output, kind : {"withdraw", "refund"},
     stage : {"PendingSign", "PendingVerify"}]

MintCall == [bumped : BOOLEAN, ok : BOOLEAN]

\* None and Absent are taken for no value of the state.
ASSUME ValuesAssumption ==
    /\ None \notin Tx \cup Limit
    /\ None \notin VAccount \cup VRefundRequest \cup BTCPendingInfo \cup MintCall
    /\ Absent \notin [Account -> Limit \cup {None}] \cup [Output -> VRefundRequest \cup {None}]
    /\ Absent \notin [Account -> VAccount \cup {None}] \cup [Tx -> BTCPendingInfo \cup {None}]
    /\ \A members \in SUBSET Account : members # Absent
    /\ \A outputs \in SUBSET Output : outputs # Absent
    /\ Absent \notin [ConfigFields -> Nat \cup {HomeChain}] \cup Nat \cup {HomeChain}
    /\ Absent \notin [capacity : Nat, sats : Nat]

-----------------------------------------------------------------------------
(* States that an older contract may have left, and that of a new one.     *)

Infos == [Tx -> BTCPendingInfo \cup {None}]

InputsOf(infos, kinds) ==
    {infos[t].input : t \in {u \in Tx : infos[u] # None /\ infos[u].kind \in kinds}}

Spending(infos) == InputsOf(infos, {"withdraw", "refund"})

\* Requests as they were written until version 6 and since.
RequestsOf(v, is_zcash) ==
    {None}
    \cup (IF "refund_requests" \in FieldsOf(v, is_zcash) THEN {RefundRequestV0} ELSE {})
    \cup (IF v >= 6 THEN {RefundRequest(executed) : executed \in BOOLEAN} ELSE {})

\* The execution of a request removed it, until requests said so themselves;
\* since then it can be executed again, and goes when a transaction of it is proved.
RefundsAgree(infos, requests) ==
    /\ \A o \in InputsOf(infos, {"refund"}) : requests[o] \in {None, RefundRequest(TRUE)}
    /\ \A o \in Output : requests[o] = RefundRequest(TRUE) => o \in InputsOf(infos, {"refund"})
    /\ \A t, u \in Tx : t # u /\ infos[t] # None /\ infos[u] # None =>
            \/ infos[t].input # infos[u].input
            \/ infos[t].kind = "refund" /\ infos[u].kind = "refund" /\ version >= 6
    /\ InputsOf(infos, {"refund"}) # {} => "refund_requests" \in FieldsOf(version, zcash)

IdsAt(infos, a, stage) ==
    {t \in Tx : infos[t] # None /\ infos[t].account_id = a /\ infos[t].stage = stage}

\* Entries of `accounts` for an account with these transactions.
AccountEntries(v, ids, list) ==
    (IF ids \cup list = {} THEN {None} ELSE {})
    \cup (IF v >= 4 THEN {CurrentAccount(ids, list)} ELSE {})
    \cup (IF v < Current
          THEN {AccountV0(id, list) : id \in {u \in Tx \cup {None} : {u} \ {None} = ids}}
          ELSE {})

Only(fields, record) == [f \in DOMAIN record |-> IF f \in fields THEN record[f] ELSE Absent]

StoredConfig(extra) ==
    [confirmations |-> Confirmations, confirmations_delta |-> Delta,
     extra_msg_confirmations_delta |-> extra, chain |-> HomeChain,
     refund_timelock_sec |-> DEFAULT_REFUND_TIMELOCK_SEC,
     unsafe_refund_timelock_sec |-> DEFAULT_UNSAFE_REFUND_TIMELOCK_SEC]

\* What a layout keeps of this state, and the callbacks of the mints under way,
\* which carry no block height.
Stored(infos, held, minting, requests, limits, lists, extra) ==
    LET config == StoredConfig(extra) IN
    /\ version = Current =>
            /\ held \cup minting \cup Spending(infos) = {}
            /\ \A o \in Output : requests[o] = None
            /\ \A a \in Account : limits[a] = None
            /\ \A l \in Lists : lists[l] = {}
    /\ \E accounts \in [Account -> UNION {AccountEntries(version,
            IdsAt(infos, a, "PendingSign"), IdsAt(infos, a, "PendingVerify")) : a \in Account}] :
        /\ \A a \in Account : accounts[a] \in AccountEntries(version,
                IdsAt(infos, a, "PendingSign"), IdsAt(infos, a, "PendingVerify"))
        /\ data = Only(FieldsOf(version, zcash),
            [config |-> Only(ConfigFieldsOf(ConfigLayout(version, zcash)), config),
             accounts |-> accounts,
             utxos |-> held,
             utxos_in_progress |-> minting,
             verified_deposit_utxo |-> held \cup minting \cup Spending(infos),
             btc_pending_infos |-> infos,
             pending_tx_limits |-> limits,
             refund_requests |-> requests,
             relayer_white_list |-> lists["relayer_white_list"],
             extra_msg_relayer_white_list |-> lists["extra_msg_relayer_white_list"],
             post_action_msg_templates |-> lists["post_action_msg_templates"],
             block_bridge_amounts |-> New("block_bridge_amounts", config)])
    /\ callbacks \in {c \in [Output -> {None} \cup [bumped : {FALSE}, ok : BOOLEAN]] :
            \A o \in Output : c[o] # None <=> o \in minting}

Init ==
    /\ zcash \in BOOLEAN
    /\ version \in 0..Current
    /\ \E infos \in Infos, requests \in [Output -> RequestsOf(version, zcash)] :
        /\ RefundsAgree(infos, requests)
        /\ \E held \in SUBSET (Output \ Spending(infos)) :
           \E minting \in SUBSET (Output \ (Spending(infos) \cup held)),
              limits \in [Account -> Limit \cup {None}],
              lists \in [Lists -> SUBSET Account], extra \in ExtraDelta :
                Stored(infos, held, minting, requests, limits, lists, extra)
    /\ deployed = (version = Current)
    /\ lost = {} /\ counted = {}

-----------------------------------------------------------------------------
(* Upgrades.                                                               *)

\* The deployment may call migrate_state in the same transaction, or a later
\* deployment does.  It changes nothing in a state that is current.
UpDeployCode(migrate) ==
    /\ deployed' = TRUE
    /\ IF migrate
       THEN version' = Current /\ data' = Migrated(data)
       ELSE UNCHANGED <<version, data>>
    /\ UNCHANGED <<zcash, callbacks, lost, counted>>

\* Every handler panics on a state of an older layout.
Ready == version = Current

\* So does a callback, and what it was to register stays unregistered.
MintCallbackPanics(o) ==
    /\ ~Ready /\ deployed
    /\ callbacks[o] # None
    /\ callbacks' = [callbacks EXCEPT ![o] = None]
    /\ lost' = IF callbacks[o].ok THEN lost \cup {o} ELSE lost
    /\ UNCHANGED <<zcash, version, data, deployed, counted>>

\* What a handler leaves alone.
Handled(new) ==
    /\ Ready
    /\ data' = new
    /\ UNCHANGED <<zcash, version, deployed>>

NoCallback == UNCHANGED <<callbacks, lost, counted>>

-----------------------------------------------------------------------------
(* Accounts.                                                               *)

\* check_account_exists before internal_set_account.
WithAccount(accounts, a) ==
    IF accounts[a] = None THEN [accounts EXCEPT ![a] = NewAccount] ELSE accounts

AddId(accounts, a, t) ==
    LET account == AccountFrom(WithAccount(accounts, a)[a]) IN
    [accounts EXCEPT ![a] =
        [account EXCEPT !.btc_pending_sign_ids = @ \cup {t}]]

\* Mutable access converts the account, whatever is removed.
RemoveId(accounts, a, t, listed) ==
    LET account == AccountFrom(accounts[a]) IN
    [accounts EXCEPT ![a] =
        CurrentAccount(account.btc_pending_sign_ids \ {t},
                       (account.btc_pending_verify_list \ {t}) \cup listed)]

get_max_pending_sign_txs(a) ==
    IF data.pending_tx_limits[a] = None THEN 1 ELSE data.pending_tx_limits[a]

HasCapacity(a) ==
    Cardinality(AccountFrom(WithAccount(data.accounts, a)[a]).btc_pending_sign_ids)
        < get_max_pending_sign_txs(a)

RegisterAccount(a) ==
    /\ Handled([data EXCEPT !.accounts = WithAccount(@, a)])
    /\ data.accounts[a] = None
    /\ NoCallback

\* None takes back the limit that was set.
SetPendingTxLimit(a, max_pending) ==
    /\ Handled([data EXCEPT !.pending_tx_limits[a] = max_pending])
    /\ max_pending = None => data.pending_tx_limits[a] # None
    /\ NoCallback

Extend(list, a) ==
    /\ Handled([data EXCEPT ![list] = @ \cup {a}])
    /\ a \notin data[list]
    /\ NoCallback

Remove(list, a) ==
    /\ Handled([data EXCEPT ![list] = @ \ {a}])
    /\ a \in data[list]
    /\ NoCallback

-----------------------------------------------------------------------------
(* Deposits.                                                               *)

VerifyDepositCallback(o) ==
    /\ Handled([data EXCEPT
            !.verified_deposit_utxo = @ \cup {o},
            !.utxos_in_progress = @ \cup {o},
            !.block_bridge_amounts.sats = @ + Balance[o]])
    /\ o \notin data.verified_deposit_utxo
    /\ \E ok \in BOOLEAN : callbacks' = [callbacks EXCEPT ![o] = [bumped |-> TRUE, ok |-> ok]]
    /\ counted' = counted \cup {o}
    /\ UNCHANGED lost

\* Mutant: the block of the deposit stands in for a height that is missing.
UnbumpedWithoutHeight(ring, o, bumped) == [ring EXCEPT !.sats = Max({0, @ - Balance[o]})]

\* A callback that an older contract created carries no height.
Unbumped(ring, o, bumped) ==
    IF bumped THEN [ring EXCEPT !.sats = Max({0, @ - Balance[o]})] ELSE ring

MintCallback(o, recipient) ==
    /\ callbacks[o] # None
    /\ callbacks' = [callbacks EXCEPT ![o] = None]
    /\ IF callbacks[o].ok
       THEN /\ Handled([data EXCEPT !.utxos_in_progress = @ \ {o},
                                    !.accounts = WithAccount(@, recipient),
                                    !.utxos = @ \cup {o}])
            /\ UNCHANGED counted
       ELSE /\ Handled([data EXCEPT !.utxos_in_progress = @ \ {o},
                                    !.verified_deposit_utxo = @ \ {o},
                                    !.block_bridge_amounts = Unbumped(@, o, callbacks[o].bumped)])
            /\ counted' = counted \ {o}
    /\ UNCHANGED lost

\* The DAO completes a deposit whose callback is gone.
CompleteFailedDepositMint(o, recipient) ==
    /\ Handled([data EXCEPT !.utxos_in_progress = @ \ {o},
                            !.accounts = WithAccount(@, recipient),
                            !.utxos = @ \cup {o}])
    /\ o \in lost
    /\ o \in data.verified_deposit_utxo /\ o \notin data.utxos
    /\ data.refund_requests[o] = None
    /\ lost' = lost \ {o}
    /\ UNCHANGED <<callbacks, counted>>

-----------------------------------------------------------------------------
(* Transactions, one input each, and the requests that some of them refund. *)

Pending(a, t, o, kind) ==
    [data.btc_pending_infos EXCEPT
        ![t] = [account_id |-> a, input |-> o, kind |-> kind, stage |-> "PendingSign"]]

CreateBtcPendingInfo(a, t, o) ==
    /\ Handled([data EXCEPT !.accounts = AddId(@, a, t),
                            !.btc_pending_infos = Pending(a, t, o, "withdraw"),
                            !.utxos = @ \ {o}])
    /\ o \in data.utxos
    /\ HasCapacity(a)
    /\ data.btc_pending_infos[t] = None
    /\ NoCallback

\* Mutant: an open request is executed whatever became of its output.
RefundableWhenOpen(o) == data.refund_requests[o] # None

Refundable(o) ==
    /\ data.refund_requests[o] # None
    /\ \/ o \notin data.verified_deposit_utxo
       \/ RefundRequestFrom(data.refund_requests[o]).executed

ExecuteRefund(a, t, o) ==
    /\ Handled([data EXCEPT !.accounts = AddId(@, a, t),
                            !.btc_pending_infos = Pending(a, t, o, "refund"),
                            !.verified_deposit_utxo = @ \cup {o},
                            !.refund_requests[o] = RefundRequest(TRUE)])
    /\ Refundable(o)
    /\ HasCapacity(a)
    /\ data.btc_pending_infos[t] = None
    /\ NoCallback

At(t, kinds, stages) ==
    /\ data.btc_pending_infos[t] # None
    /\ data.btc_pending_infos[t].kind \in kinds
    /\ data.btc_pending_infos[t].stage \in stages

\* The last signature came in.
FinishSigning(t) ==
    LET info == data.btc_pending_infos[t] IN
    /\ At(t, {"withdraw", "refund"}, {"PendingSign"})
    /\ Handled([data EXCEPT !.btc_pending_infos[t].stage = "PendingVerify",
                            !.accounts = RemoveId(@, info.account_id, t, {t})])
    /\ t \in AccountFrom(data.accounts[info.account_id]).btc_pending_sign_ids
    /\ NoCallback

\* A proof: of a withdrawal, which is burned, or of a refund, whose request ends.
Finish(t) ==
    LET info == data.btc_pending_infos[t] IN
    /\ At(t, {"withdraw", "refund"}, {"PendingVerify"})
    /\ Handled([data EXCEPT
            !.btc_pending_infos[t] = None,
            !.accounts = RemoveId(@, info.account_id, t, {}),
            !.refund_requests[info.input] = IF info.kind = "refund" THEN None ELSE @])
    /\ NoCallback

RemoveRefundPendingTxId(t) ==
    LET info == data.btc_pending_infos[t] IN
    /\ At(t, {"refund"}, {"PendingSign", "PendingVerify"})
    /\ Handled([data EXCEPT !.btc_pending_infos[t] = None,
                            !.accounts = RemoveId(@, info.account_id, t, {})])
    /\ data.refund_requests[info.input] = None
    /\ NoCallback

RequestRefundCallback(o) ==
    /\ Handled([data EXCEPT !.refund_requests[o] = RefundRequest(FALSE)])
    /\ o \notin data.verified_deposit_utxo
    /\ data.refund_requests[o] = None
    /\ NoCallback

RejectRefund(o, is_privileged) ==
    /\ Handled([data EXCEPT !.refund_requests[o] = None])
    /\ data.refund_requests[o] # None
    /\ ~RefundRequestFrom(data.refund_requests[o]).executed
    /\ is_privileged \/ o \in data.verified_deposit_utxo \ data.utxos_in_progress
    /\ NoCallback

-----------------------------------------------------------------------------
Next ==
    \/ \E migrate \in BOOLEAN : UpDeployCode(migrate)
    \/ \E a \in Account :
        \/ RegisterAccount(a)
        \/ \E n \in Limit \cup {None} : SetPendingTxLimit(a, n)
        \/ \E list \in Lists : Extend(list, a) \/ Remove(list, a)
        \/ \E o \in Output :
            \/ MintCallback(o, a)
            \/ CompleteFailedDepositMint(o, a)
            \/ \E t \in Tx : CreateBtcPendingInfo(a, t, o) \/ ExecuteRefund(a, t, o)
    \/ \E t \in Tx : FinishSigning(t) \/ Finish(t) \/ RemoveRefundPendingTxId(t)
    \/ \E o \in Output :
        \/ MintCallbackPanics(o)
        \/ VerifyDepositCallback(o)
        \/ RequestRefundCallback(o)
        \/ \E is_privileged \in BOOLEAN : RejectRefund(o, is_privileged)

Spec == Init /\ [][Next]_vars
-----------------------------------------------------------------------------
(* Properties.                                                             *)

\* What a layout lacks, migrate_state supplies: a current state has every field
\* and a complete config, and its ring has a slot for every block whose depth
\* may still be too small for someone.
TypeOK ==
    Ready =>
        /\ \A f \in Fields : data[f] # Absent
        /\ \A g \in ConfigFields : data.config[g] # Absent
        /\ data.block_bridge_amounts.capacity >= data.config.confirmations
             + Max({data.config.confirmations_delta, data.config.extra_msg_confirmations_delta})

\* The ring holds what this state counted and did not give back: the failure of
\* a mint that was under way before the upgrade takes nothing from it.
RingCountsAccepted ==
    Ready => data.block_bridge_amounts.sats = SumFunctionOnSet(Balance, counted)

\* A mint whose callback found no state to write to can be completed, at most
\* after the rejection of an open request.
LostIsRecoverable ==
    \A o \in lost :
        /\ o \in data.verified_deposit_utxo /\ o \notin data.utxos
        /\ data.refund_requests # Absent =>
                data.refund_requests[o] \in {None, RefundRequestV0, RefundRequest(FALSE)}

EntryOf(a) ==
    LET entry == data.accounts[a] IN
    IF entry = None THEN [ids |-> {}, list |-> {}]
    ELSE [ids |-> IF entry.layout = 0 THEN {entry.btc_pending_sign_id} \ {None}
                  ELSE entry.btc_pending_sign_ids,
          list |-> entry.btc_pending_verify_list]

\* The registers as the accounts see them, in whatever layout they are stored.
R == INSTANCE Registry WITH
    List    <- Lists,
    Limit   <- Limit \cup {1},
    waiting <- [a \in Account |-> EntryOf(a).ids],
    signed  <- [a \in Account |-> EntryOf(a).list],
    limit   <- [a \in Account |->
        IF data.pending_tx_limits = Absent THEN 1
        ELSE IF data.pending_tx_limits[a] = None THEN 1 ELSE data.pending_tx_limits[a]],
    claimed <- data.verified_deposit_utxo,
    held    <- data.utxos,
    refund  <- [o \in Output |->
        IF data.refund_requests = Absent THEN "none"
        ELSE IF data.refund_requests[o] = None THEN "none"
        ELSE IF data.refund_requests[o] = RefundRequest(TRUE) THEN "executed" ELSE "open"],
    listed  <- [l \in Lists |-> IF data[l] = Absent THEN {} ELSE data[l]]

\* Handlers that work on entries of every age keep the promise of Registry.
RegistrySpec == R!Spec

\* Nobody's transactions, claims, requests, limits or lists change by an upgrade.
UpgradeIsInvisible == [][version' # version => R!vars' = R!vars]_vars
=============================================================================
