---------------------------- MODULE MigrationProofs ----------------------------
(***************************************************************************)
(* An upgrade from any layout is a stutter of Registry, and the handlers   *)
(* keep the promise of Registry with entries of every age.  A migrated     *)
(* state is complete, and its ring holds what this state counted.          *)
(***************************************************************************)
EXTENDS Migration, SumTheorems, FiniteSetTheorems, TLAPS

-----------------------------------------------------------------------------
(* The registers as Registry sees them.                                    *)

Waiting == [a \in Account |-> EntryOf(a).ids]
Signed  == [a \in Account |-> EntryOf(a).list]
Limits  == [a \in Account |->
    IF data.pending_tx_limits = Absent THEN 1
    ELSE IF data.pending_tx_limits[a] = None THEN 1 ELSE data.pending_tx_limits[a]]
Refunds == [o \in Output |->
    IF data.refund_requests = Absent THEN "none"
    ELSE IF data.refund_requests[o] = None THEN "none"
    ELSE IF data.refund_requests[o] = RefundRequest(TRUE) THEN "executed" ELSE "open"]
Listed  == [l \in Lists |-> IF data[l] = Absent THEN {} ELSE data[l]]

Claimed == data.verified_deposit_utxo
Held    == data.utxos

SameOutputs == Claimed' = Claimed /\ Held' = Held
SameEntries == Waiting' = Waiting /\ Signed' = Signed
SameOrders  == Limits' = Limits /\ Listed' = Listed

LEMMA SameRegistersStutter ==
    SameOutputs /\ SameEntries /\ SameOrders /\ Refunds' = Refunds => R!vars' = R!vars
  BY DEF SameOutputs, SameEntries, SameOrders, Claimed, Held,
         Waiting, Signed, Limits, Refunds, Listed, R!vars

\* Steps of Registry in terms of the views.
LEMMA SameCardinality == \A S : R!Cardinality(S) = Cardinality(S)
  BY DEF Cardinality, R!Cardinality

LEMMA AwaitStep ==
    ASSUME NEW a \in Account, NEW t \in Tx,
           Cardinality(Waiting[a]) < Limits[a],
           \A b \in Account : t \notin Waiting[b] \cup Signed[b],
           Waiting' = [Waiting EXCEPT ![a] = @ \cup {t}], Signed' = Signed
    PROVE  R!Await(a, t)
  <1>1. R!Cardinality(Waiting[a]) < Limits[a]
    BY SameCardinality
  <1>2. QED
    BY ONLY <1>1, \A b \in Account : t \notin Waiting[b] \cup Signed[b],
            Waiting' = [Waiting EXCEPT ![a] = @ \cup {t}], Signed' = Signed
       DEF R!Await, Waiting, Signed, Limits

LEMMA WithdrawStep ==
    ASSUME NEW a \in Account, NEW t \in Tx, NEW o \in Output,
           Cardinality(Waiting[a]) < Limits[a],
           \A b \in Account : t \notin Waiting[b] \cup Signed[b],
           Waiting' = [Waiting EXCEPT ![a] = @ \cup {t}], Signed' = Signed,
           o \in Held, Held' = Held \ {o}, Claimed' = Claimed,
           Refunds' = Refunds, SameOrders
    PROVE  R!Next
  <1>1. R!Await(a, t)
    BY AwaitStep
  <1>2. R!Withdraw(a, t, o)
    BY <1>1 DEF R!Withdraw, R!orders, Refunds, Limits, Listed, SameOrders, Held, Claimed
  <1>3. QED
    BY <1>2 DEF R!Next

LEMMA RefundStep ==
    ASSUME NEW a \in Account, NEW t \in Tx, NEW o \in Output,
           Cardinality(Waiting[a]) < Limits[a],
           \A b \in Account : t \notin Waiting[b] \cup Signed[b],
           Waiting' = [Waiting EXCEPT ![a] = @ \cup {t}], Signed' = Signed,
           \/ Refunds[o] = "open" /\ o \notin Claimed
           \/ Refunds[o] = "executed",
           Refunds' = [Refunds EXCEPT ![o] = "executed"],
           Claimed' = Claimed \cup {o}, Held' = Held, SameOrders
    PROVE  R!Next
  <1>1. R!Await(a, t)
    BY AwaitStep
  <1>2. R!Refund(a, t, o)
    BY <1>1 DEF R!Refund, R!orders, Refunds, Limits, Listed, SameOrders, Held, Claimed
  <1>3. QED
    BY <1>2 DEF R!Next

LEMMA SignStep ==
    ASSUME NEW a \in Account, NEW t \in Tx, t \in Waiting[a],
           Waiting' = [Waiting EXCEPT ![a] = @ \ {t}],
           Signed' = [Signed EXCEPT ![a] = @ \cup {t}],
           SameOutputs, Refunds' = Refunds, SameOrders
    PROVE  R!Next
  <1>1. R!Sign(a, t)
    BY DEF R!Sign, R!outputs, R!orders, Waiting, Signed, Refunds, Limits, Listed,
           SameOutputs, SameOrders, Held, Claimed
  <1>2. QED
    BY <1>1 DEF R!Next

LEMMA SettleStep ==
    ASSUME NEW a \in Account, NEW t \in Tx, t \in Signed[a],
           Waiting' = Waiting,
           Signed' = [Signed EXCEPT ![a] = @ \ {t}],
           SameOutputs, SameOrders,
           \/ Refunds' = Refunds
           \/ \E o \in Output : Refunds[o] = "executed" /\ Refunds' = [Refunds EXCEPT ![o] = "none"]
    PROVE  R!Next
  <1>1. R!Settle(a, t)
    BY DEF R!Settle, R!outputs, R!orders, Waiting, Signed, Refunds, Limits, Listed,
           SameOutputs, SameOrders, Held, Claimed
  <1>2. QED
    BY <1>1 DEF R!Next

LEMMA DropStep ==
    ASSUME NEW a \in Account, NEW t \in Tx, t \in Waiting[a] \cup Signed[a],
           Waiting' = [Waiting EXCEPT ![a] = @ \ {t}],
           Signed' = [Signed EXCEPT ![a] = @ \ {t}],
           SameOutputs, Refunds' = Refunds, SameOrders
    PROVE  R!Next
  <1>1. R!Drop(a, t)
    BY DEF R!Drop, R!outputs, R!orders, Waiting, Signed, Refunds, Limits, Listed,
           SameOutputs, SameOrders, Held, Claimed
  <1>2. QED
    BY <1>1 DEF R!Next

LEMMA OutputStep ==
    ASSUME NEW o \in Output, SameEntries, SameOrders, Refunds' = Refunds,
           \/ o \notin Claimed /\ Claimed' = Claimed \cup {o} /\ Held' = Held
           \/ /\ o \in Claimed \ Held /\ Refunds[o] # "executed"
              /\ Claimed' = Claimed \ {o} /\ Held' = Held
           \/ /\ o \in Claimed /\ Refunds[o] # "executed"
              /\ Claimed' = Claimed /\ Held' = Held \cup {o}
    PROVE  R!Next
  <1>1. R!Claim(o) \/ R!Release(o) \/ R!Hold(o)
    BY DEF R!Claim, R!Release, R!Hold, R!transactions, R!orders, Waiting, Signed, Refunds,
           Limits, Listed, SameEntries, SameOrders, Held, Claimed
  <1>2. QED
    BY <1>1 DEF R!Next

LEMMA RequestStep ==
    ASSUME NEW o \in Output, SameEntries, SameOrders, SameOutputs,
           \/ o \notin Claimed /\ Refunds[o] = "none" /\ Refunds' = [Refunds EXCEPT ![o] = "open"]
           \/ Refunds[o] = "open" /\ Refunds' = [Refunds EXCEPT ![o] = "none"]
    PROVE  R!Next
  <1>1. R!Request(o) \/ R!Reject(o)
    BY DEF R!Request, R!Reject, R!transactions, R!outputs, R!orders, Waiting, Signed, Refunds,
           Limits, Listed, SameEntries, SameOrders, SameOutputs, Held, Claimed
  <1>2. QED
    BY <1>1 DEF R!Next

LEMMA OrderStep ==
    ASSUME NEW a \in Account, SameEntries, SameOutputs, Refunds' = Refunds,
           \/ /\ \E n \in Limit \cup {1} : Limits' = [Limits EXCEPT ![a] = n]
              /\ Listed' = Listed
           \/ /\ \E l \in Lists : \/ Listed' = [Listed EXCEPT ![l] = @ \cup {a}]
                                  \/ Listed' = [Listed EXCEPT ![l] = @ \ {a}]
              /\ Limits' = Limits
    PROVE  R!Next
  <1>1. R!Order
    BY DEF R!Order, R!transactions, R!outputs, Waiting, Signed, Refunds,
           Limits, Listed, SameEntries, SameOutputs, Held, Claimed
  <1>2. QED
    BY <1>1 DEF R!Next

-----------------------------------------------------------------------------
(* The fields of the state, and what an upgrade does to the registers.     *)

Registers == {"accounts", "utxos", "verified_deposit_utxo", "btc_pending_infos",
              "pending_tx_limits", "refund_requests"} \cup Lists

Present(f) == f \in FieldsOf(version, zcash)

Shape ==
    /\ version \in 0..Current /\ zcash \in BOOLEAN
    /\ data = [f \in Fields |-> data[f]]

LimitsOK ==
    IF Present("pending_tx_limits")
    THEN data.pending_tx_limits \in [Account -> Limit \cup {None}]
    ELSE data.pending_tx_limits = Absent

RequestsOK ==
    IF Present("refund_requests")
    THEN data.refund_requests \in [Output -> VRefundRequest \cup {None}]
    ELSE data.refund_requests = Absent

ListsOK == \A l \in Lists : IF Present(l) THEN data[l] \in SUBSET Account ELSE data[l] = Absent

LayoutInv == Shape /\ LimitsOK /\ RequestsOK /\ ListsOK

LEMMA FieldList ==
    Fields = Registers \cup {"config", "utxos_in_progress", "block_bridge_amounts"}
  BY DEF Fields, FieldsOf, BaseFields, Current, Registers, Lists

LEMMA ReadyHasAll == Shape /\ Ready => \A f \in Registers : Present(f)
  BY FieldList DEF Ready, Present, Shape, Fields, FieldsOf, BaseFields, Current, Registers, Lists

\* What a register starts with.
Start(f) ==
    CASE f = "pending_tx_limits" -> [a \in Account |-> None]
      [] f = "refund_requests" -> [o \in Output |-> None]
      [] OTHER -> {}

LEMMA UpgradedRegister ==
    ASSUME NEW config, NEW fields, NEW f \in Registers
    PROVE  Upgraded(data, config, fields)[f] = IF f \in fields THEN Start(f) ELSE data[f]
  <1>1. f \in Fields /\ f # "config" /\ f # "block_bridge_amounts"
    BY FieldList DEF Registers, Lists
  <1>2. New(f, config) = Start(f)
    BY <1>1 DEF New, Start
  <1>3. Upgraded(data, config, fields)[f] =
            IF f \in fields \cup {"block_bridge_amounts"} THEN New(f, config) ELSE data[f]
    BY <1>1 DEF Upgraded
  <1>4. QED
    BY <1>1, <1>2, <1>3

\* Every migration starts the registers that its layout lacks, and no other.
LEMMA MigratedRegister ==
    ASSUME Shape, NEW f \in Registers
    PROVE  Migrated(data)[f] = IF Present(f) THEN data[f] ELSE Start(f)
  <1> DEFINE Upgrades(fields) == \E config : Migrated(data) = Upgraded(data, config, fields)
  <1>c. version \in {0, 1, 2, 3, 4, 5, 6, 7, 8} /\ zcash \in BOOLEAN
    BY DEF Shape, Current
  <1>a. ASSUME NEW fields, Upgrades(fields), f \in fields <=> ~Present(f)
        PROVE  Migrated(data)[f] = IF Present(f) THEN data[f] ELSE Start(f)
    BY <1>a, UpgradedRegister
  <1> HIDE DEF Upgrades
  <1>0. CASE version = 0
    <2>1. Migrated(data) = FromContractDataV0(data)
      BY <1>0 DEF Migrated, Current
    <2>2. Upgrades(SinceV4 \cup {"extra_msg_relayer_white_list", "post_action_msg_templates"})
      BY <2>1, Zenon DEF Upgrades, FromContractDataV0
    <2>3. QED
      BY <1>a, <2>2, <1>0, <1>c
      DEF Present, FieldsOf, BaseFields, SinceV4, Registers, Lists, Current
  <1>1. CASE version = 1
    <2>1. Migrated(data) = FromContractDataV1(data)
      BY <1>1 DEF Migrated, Current
    <2>2. Upgrades(SinceV4 \cup {"extra_msg_relayer_white_list"})
      BY <2>1, Zenon DEF Upgrades, FromContractDataV1
    <2>3. QED
      BY <1>a, <2>2, <1>1, <1>c
      DEF Present, FieldsOf, BaseFields, SinceV4, Registers, Lists, Current
  <1>2. CASE version = 2
    <2>1. Migrated(data) = FromContractDataV2(data)
      BY <1>2 DEF Migrated, Current
    <2>2. Upgrades(SinceV4)
      BY <2>1, Zenon DEF Upgrades, FromContractDataV2
    <2>3. QED
      BY <1>a, <2>2, <1>2, <1>c
      DEF Present, FieldsOf, BaseFields, SinceV4, Registers, Lists, Current
  <1>3. CASE version = 3
    <2>1. Migrated(data) = FromContractDataV3(data)
      BY <1>3 DEF Migrated, Current
    <2>2. Upgrades(SinceV4)
      BY <2>1, Zenon DEF Upgrades, FromContractDataV3
    <2>3. QED
      BY <1>a, <2>2, <1>3, <1>c
      DEF Present, FieldsOf, BaseFields, SinceV4, Registers, Lists, Current
  <1>4. CASE version = 4
    <2>1. Migrated(data) = FromContractDataV4(data)
      BY <1>4 DEF Migrated, Current
    <2>2. Upgrades({"utxos_in_progress"} \cup RefundRequestsIfZcash)
      BY <2>1, Zenon DEF Upgrades, FromContractDataV4
    <2>3. QED
      BY <1>a, <2>2, <1>4, <1>c
      DEF Present, FieldsOf, BaseFields, RefundRequestsIfZcash, Registers, Lists, Current
  <1>5. CASE version = 5
    <2>1. Migrated(data) = FromContractDataV5(data)
      BY <1>5 DEF Migrated, Current
    <2>2. Upgrades({"utxos_in_progress"} \cup RefundRequestsIfZcash)
      BY <2>1, Zenon DEF Upgrades, FromContractDataV5
    <2>3. QED
      BY <1>a, <2>2, <1>5, <1>c
      DEF Present, FieldsOf, BaseFields, RefundRequestsIfZcash, Registers, Lists, Current
  <1>6. CASE version = 6
    <2>1. Migrated(data) = FromContractDataV6(data)
      BY <1>6 DEF Migrated, Current
    <2>2. Upgrades({"utxos_in_progress"})
      BY <2>1, Zenon DEF Upgrades, FromContractDataV6
    <2>3. QED
      BY <1>a, <2>2, <1>6, <1>c
      DEF Present, FieldsOf, BaseFields, Registers, Lists, Current
  <1>7. CASE version = 7
    <2>1. Migrated(data) = FromContractDataV7(data)
      BY <1>7 DEF Migrated, Current
    <2>2. Upgrades({})
      BY <2>1, Zenon DEF Upgrades, FromContractDataV7
    <2>3. QED
      BY <1>a, <2>2, <1>7, <1>c
      DEF Present, FieldsOf, BaseFields, Registers, Lists, Current
  <1>8. CASE version = 8
    <2>1. Migrated(data) = data
      BY <1>8 DEF Migrated, Current
    <2>2. QED
      BY <2>1, <1>8, ReadyHasAll DEF Ready, Current
  <1>9. QED
    BY <1>c, <1>0, <1>1, <1>2, <1>3, <1>4, <1>5, <1>6, <1>7, <1>8

LEMMA UpgradedShape ==
    ASSUME Shape PROVE Migrated(data) = [f \in Fields |-> Migrated(data)[f]]
  <1>1. CASE version = Current
    <2>1. Migrated(data) = data
      BY <1>1 DEF Migrated, Current
    <2>2. QED
      BY <2>1 DEF Shape
  <1>2. CASE version # Current
    <2>1. \A config, fields :
              Upgraded(data, config, fields) = [f \in Fields |-> Upgraded(data, config, fields)[f]]
      BY DEF Upgraded
    <2>2. \E config, fields : Migrated(data) = Upgraded(data, config, fields)
      <3>1. version \in {0, 1, 2, 3, 4, 5, 6, 7}
        BY <1>2 DEF Shape, Current
      <3>2. Migrated(data) \in
                {FromContractDataV0(data), FromContractDataV1(data), FromContractDataV2(data),
                 FromContractDataV3(data), FromContractDataV4(data), FromContractDataV5(data),
                 FromContractDataV6(data), FromContractDataV7(data)}
        BY <3>1 DEF Migrated, Current
      <3>3. QED
        BY <3>2 DEF FromContractDataV0, FromContractDataV1, FromContractDataV2,
                    FromContractDataV3, FromContractDataV4, FromContractDataV5,
                    FromContractDataV6, FromContractDataV7
    <2>3. QED
      BY <2>1, <2>2
  <1>3. QED
    BY <1>1, <1>2

\* The views that a field decides.
LEMMA AccountsDecide == data'.accounts = data.accounts => SameEntries
  BY DEF SameEntries, Waiting, Signed, EntryOf

LEMMA RequestsDecide == data'.refund_requests = data.refund_requests => Refunds' = Refunds
  BY DEF Refunds

LEMMA OrdersDecide ==
    /\ data'.pending_tx_limits = data.pending_tx_limits
    /\ \A l \in Lists : data'[l] = data[l]
    => SameOrders
  BY DEF SameOrders, Limits, Listed

\* An upgrade with migrate_state.
Upgrade == data' = Migrated(data) /\ version' = Current /\ zcash' = zcash

LEMMA UpgradeLayout ==
    ASSUME LayoutInv, Upgrade
    PROVE  LayoutInv'
  <1>0. Shape' 
    BY UpgradedShape DEF LayoutInv, Shape, Upgrade, Current
  <1>1. \A f \in Registers : Present(f)'
    BY <1>0, FieldList DEF Upgrade, Present, FieldsOf, BaseFields, Current, Registers, Lists, Shape
  <1>2. \A f \in Registers : data'[f] = IF Present(f) THEN data[f] ELSE Start(f)
    BY MigratedRegister DEF Upgrade, LayoutInv
  <1>3. /\ "pending_tx_limits" \in Registers /\ "refund_requests" \in Registers
        /\ Lists \subseteq Registers
    BY DEF Registers
  <1>4. LimitsOK'
    <2>1. Start("pending_tx_limits") \in [Account -> Limit \cup {None}]
      BY DEF Start
    <2>2. QED
      BY <1>1, <1>2, <1>3, <2>1 DEF LayoutInv, LimitsOK
  <1>5. RequestsOK'
    <2>1. Start("refund_requests") \in [Output -> VRefundRequest \cup {None}]
      BY DEF Start
    <2>2. QED
      BY <1>1, <1>2, <1>3, <2>1 DEF LayoutInv, RequestsOK
  <1>6. ListsOK'
    <2>1. \A l \in Lists : Start(l) = {}
      BY DEF Start, Lists
    <2>2. QED
      BY <1>1, <1>2, <1>3, <2>1 DEF LayoutInv, ListsOK
  <1>7. QED
    BY <1>0, <1>4, <1>5, <1>6 DEF LayoutInv

LEMMA UpgradeViews ==
    ASSUME LayoutInv, Upgrade
    PROVE  /\ data'.btc_pending_infos = data.btc_pending_infos
           /\ data'.accounts = data.accounts
           /\ SameOutputs /\ SameEntries /\ SameOrders /\ Refunds' = Refunds
  <1>1. \A f \in Registers : data'[f] = IF Present(f) THEN data[f] ELSE Start(f)
    BY MigratedRegister DEF Upgrade, LayoutInv
  <1>2. \A f \in BaseFields : Present(f)
    BY DEF Present, FieldsOf
  <1>3. /\ data'.btc_pending_infos = data.btc_pending_infos
        /\ data'.accounts = data.accounts
        /\ data'.utxos = data.utxos
        /\ data'.verified_deposit_utxo = data.verified_deposit_utxo
    BY <1>1, <1>2 DEF BaseFields, Registers
  <1>4. Limits' = Limits
    <2>1. data'.pending_tx_limits = IF Present("pending_tx_limits") THEN data.pending_tx_limits
                                    ELSE [a \in Account |-> None]
      BY <1>1 DEF Registers, Start
    <2>2. [a \in Account |-> None] # Absent
      BY ValuesAssumption
    <2>3. QED
      BY <2>1, <2>2 DEF LayoutInv, LimitsOK, Limits
  <1>5. Refunds' = Refunds
    <2>1. data'.refund_requests = IF Present("refund_requests") THEN data.refund_requests
                                  ELSE [o \in Output |-> None]
      BY <1>1 DEF Registers, Start
    <2>2. [o \in Output |-> None] # Absent
      BY ValuesAssumption
    <2>3. QED
      BY <2>1, <2>2 DEF LayoutInv, RequestsOK, Refunds
  <1>6. Listed' = Listed
    <2>1. \A l \in Lists : data'[l] = IF Present(l) THEN data[l] ELSE {}
      BY <1>1 DEF Registers, Start, Lists
    <2>2. {} # Absent
      BY ValuesAssumption
    <2>3. QED
      BY <2>1, <2>2 DEF LayoutInv, ListsOK, Listed
  <1>7. QED
    BY <1>3, <1>4, <1>5, <1>6, AccountsDecide DEF SameOutputs, SameOrders, Held, Claimed

-----------------------------------------------------------------------------
(* What a handler may leave behind.                                        *)

EntriesInv ==
    /\ data.accounts \in [Account -> VAccount \cup {None}]
    /\ data.btc_pending_infos \in [Tx -> BTCPendingInfo \cup {None}]
    /\ \A a \in Account :
        /\ Waiting[a] = IdsAt(data.btc_pending_infos, a, "PendingSign")
        /\ Signed[a] = IdsAt(data.btc_pending_infos, a, "PendingVerify")

\* Outputs whose refund is recorded.
Refunding == {o \in Output : \E t \in Tx :
    /\ data.btc_pending_infos[t] # None
    /\ data.btc_pending_infos[t].kind = "refund"
    /\ data.btc_pending_infos[t].input = o}

\* An output with a mint on its way or a lost one is claimed and not yet held,
\* and it is not refunded.
OutputsInv ==
    /\ Held \subseteq Claimed /\ Claimed \subseteq Output
    /\ callbacks \in [Output -> MintCall \cup {None}]
    /\ \A o \in Output : callbacks[o] # None => o \in Claimed \ Held
    /\ lost \subseteq {o \in Claimed \ Held : callbacks[o] = None}
    /\ \A o \in Output : Refunds[o] = "executed" \/ o \in Refunding =>
            /\ o \in Claimed /\ callbacks[o] = None /\ o \notin lost
            /\ Refunds[o] # "open"

IInv == LayoutInv /\ EntriesInv /\ OutputsInv

Frame(changed) ==
    /\ Shape' /\ version' = version /\ zcash' = zcash
    /\ \A f \in Registers \ changed : data'[f] = data[f]

LEMMA FrameLayout ==
    ASSUME LayoutInv, Ready, NEW changed, Frame(changed),
           "pending_tx_limits" \in changed =>
                data'.pending_tx_limits \in [Account -> Limit \cup {None}],
           "refund_requests" \in changed =>
                data'.refund_requests \in [Output -> VRefundRequest \cup {None}],
           \A l \in Lists \cap changed : data'[l] \in SUBSET Account
    PROVE  LayoutInv'
  <1>1. \A f \in Registers : Present(f) /\ Present(f)'
    BY ReadyHasAll DEF LayoutInv, Frame, Present
  <1>2. /\ "pending_tx_limits" \in Registers /\ "refund_requests" \in Registers
        /\ Lists \subseteq Registers
    BY DEF Registers
  <1>3. LimitsOK'
    BY <1>1, <1>2 DEF LayoutInv, LimitsOK, Frame
  <1>4. RequestsOK'
    BY <1>1, <1>2 DEF LayoutInv, RequestsOK, Frame
  <1>5. ListsOK'
    BY <1>1, <1>2 DEF LayoutInv, ListsOK, Frame
  <1>6. QED
    BY <1>3, <1>4, <1>5 DEF LayoutInv, Frame

LEMMA FrameViews ==
    ASSUME NEW changed, Frame(changed)
    PROVE  /\ "accounts" \notin changed => SameEntries
           /\ "refund_requests" \notin changed => Refunds' = Refunds
           /\ "pending_tx_limits" \notin changed => Limits' = Limits
           /\ Lists \cap changed = {} => Listed' = Listed
           /\ "utxos" \notin changed => Held' = Held
           /\ "verified_deposit_utxo" \notin changed => Claimed' = Claimed
           /\ "btc_pending_infos" \notin changed => Refunding' = Refunding
  <1>1. "accounts" \notin changed => SameEntries
    BY AccountsDecide DEF Frame, Registers
  <1>2. "refund_requests" \notin changed => Refunds' = Refunds
    BY RequestsDecide DEF Frame, Registers
  <1>3. "pending_tx_limits" \notin changed => Limits' = Limits
    BY DEF Frame, Registers, Limits
  <1>4. Lists \cap changed = {} => Listed' = Listed
    BY DEF Frame, Registers, Listed
  <1>5. /\ "utxos" \notin changed => Held' = Held
        /\ "verified_deposit_utxo" \notin changed => Claimed' = Claimed
    BY DEF Frame, Registers, Held, Claimed
  <1>6. "btc_pending_infos" \notin changed => Refunding' = Refunding
    BY DEF Frame, Registers, Refunding
  <1>7. QED
    BY <1>1, <1>2, <1>3, <1>4, <1>5, <1>6

LEMMA EntriesKept ==
    ASSUME EntriesInv, SameEntries,
           data'.accounts \in [Account -> VAccount \cup {None}],
           data'.btc_pending_infos = data.btc_pending_infos
    PROVE  EntriesInv'
  BY DEF EntriesInv, SameEntries

\* An account that is made has no transactions.
LEMMA WithAccountEntries ==
    ASSUME EntriesInv, NEW a \in Account, data'.accounts = WithAccount(data.accounts, a),
           data'.btc_pending_infos = data.btc_pending_infos
    PROVE  EntriesInv' /\ SameEntries
  <1>1. NewAccount \in VAccount /\ NewAccount # None
    BY ValuesAssumption DEF NewAccount, CurrentAccount, VAccount
  <1>2. data'.accounts \in [Account -> VAccount \cup {None}]
    BY <1>1 DEF WithAccount, EntriesInv
  <1>3. ASSUME NEW b \in Account PROVE EntryOf(b)' = EntryOf(b)
    <2>1. CASE data'.accounts[b] = data.accounts[b]
      BY <2>1 DEF EntryOf
    <2>2. CASE data'.accounts[b] # data.accounts[b]
      <3>1. data.accounts[b] = None /\ data'.accounts[b] = NewAccount
        BY <2>2 DEF WithAccount, EntriesInv
      <3>2. NewAccount.layout = 1 /\ NewAccount.btc_pending_sign_ids = {}
              /\ NewAccount.btc_pending_verify_list = {}
        BY DEF NewAccount, CurrentAccount
      <3>3. QED
        BY <3>1, <3>2, <1>1 DEF EntryOf
    <2>3. QED
      BY <2>1, <2>2
  <1>4. SameEntries
    BY <1>3 DEF SameEntries, Waiting, Signed
  <1>5. QED
    BY <1>2, <1>4, EntriesKept

CurrentAccounts ==
    [layout : {1}, btc_pending_sign_ids : SUBSET Tx, btc_pending_verify_list : SUBSET Tx]

\* The conversion keeps the entry that the account is for.
LEMMA Conversion ==
    ASSUME NEW a \in Account, data.accounts[a] \in VAccount
    PROVE  /\ AccountFrom(data.accounts[a]) \in CurrentAccounts
           /\ AccountFrom(data.accounts[a]).btc_pending_sign_ids = Waiting[a]
           /\ AccountFrom(data.accounts[a]).btc_pending_verify_list = Signed[a]
  <1> DEFINE v == data.accounts[a]
  <1>0. v # None
    BY ValuesAssumption
  <1>1. CASE v \in CurrentAccounts
    BY <1>0, <1>1 DEF AccountFrom, CurrentAccounts, Waiting, Signed, EntryOf
  <1>2. CASE v \in [layout : {0}, btc_pending_sign_id : Tx \cup {None},
                    btc_pending_verify_list : SUBSET Tx]
    <2>1. AccountFrom(v) =
            CurrentAccount({v.btc_pending_sign_id} \ {None}, v.btc_pending_verify_list)
      BY <1>2 DEF AccountFrom
    <2>2. /\ v.layout = 0 /\ v.btc_pending_sign_id \in Tx \cup {None}
          /\ v.btc_pending_verify_list \in SUBSET Tx
      BY <1>2
    <2>3. Waiting[a] = {v.btc_pending_sign_id} \ {None} /\ Signed[a] = v.btc_pending_verify_list
      BY <1>0, <2>2 DEF Waiting, Signed, EntryOf
    <2>4. QED
      BY <2>1, <2>2, <2>3 DEF CurrentAccount, CurrentAccounts
  <1>3. QED
    BY <1>1, <1>2 DEF VAccount, CurrentAccounts

\* What an entry of the current layout shows.
LEMMA CurrentEntry ==
    ASSUME NEW a \in Account, data'.accounts[a] \in CurrentAccounts
    PROVE  /\ Waiting'[a] = data'.accounts[a].btc_pending_sign_ids
           /\ Signed'[a] = data'.accounts[a].btc_pending_verify_list
  <1>1. data'.accounts[a] # None
    BY ValuesAssumption DEF CurrentAccounts, VAccount
  <1>2. QED
    BY <1>1 DEF CurrentAccounts, Waiting, Signed, EntryOf

LEMMA OtherEntries ==
    ASSUME NEW a \in Account, NEW entry, EntriesInv,
           data'.accounts = [data.accounts EXCEPT ![a] = entry],
           entry \in CurrentAccounts
    PROVE  /\ data'.accounts \in [Account -> VAccount \cup {None}]
           /\ Waiting' = [Waiting EXCEPT ![a] = entry.btc_pending_sign_ids]
           /\ Signed' = [Signed EXCEPT ![a] = entry.btc_pending_verify_list]
  <1>1. data'.accounts \in [Account -> VAccount \cup {None}]
    BY DEF EntriesInv, VAccount, CurrentAccounts
  <1>2. /\ data'.accounts[a] = entry
        /\ \A b \in Account \ {a} : data'.accounts[b] = data.accounts[b]
    BY DEF EntriesInv
  <1>3. Waiting'[a] = entry.btc_pending_sign_ids /\ Signed'[a] = entry.btc_pending_verify_list
    BY <1>2, CurrentEntry
  <1>4. \A b \in Account \ {a} : Waiting'[b] = Waiting[b] /\ Signed'[b] = Signed[b]
    BY <1>2 DEF Waiting, Signed, EntryOf
  <1>5. QED
    BY <1>1, <1>3, <1>4 DEF Waiting, Signed

\* The entry that a handler works on, which it makes if there is none.
LEMMA Opened ==
    ASSUME EntriesInv, NEW a \in Account
    PROVE  /\ AccountFrom(WithAccount(data.accounts, a)[a]) \in CurrentAccounts
           /\ AccountFrom(WithAccount(data.accounts, a)[a]).btc_pending_sign_ids = Waiting[a]
           /\ AccountFrom(WithAccount(data.accounts, a)[a]).btc_pending_verify_list = Signed[a]
  <1>1. CASE data.accounts[a] = None
    <2>1. WithAccount(data.accounts, a)[a] = NewAccount
      BY <1>1 DEF WithAccount, EntriesInv
    <2>2. Waiting[a] = {} /\ Signed[a] = {}
      BY <1>1 DEF Waiting, Signed, EntryOf
    <2>3. QED
      BY <2>1, <2>2 DEF AccountFrom, NewAccount, CurrentAccount, CurrentAccounts
  <1>2. CASE data.accounts[a] # None
    <2>1. WithAccount(data.accounts, a)[a] = data.accounts[a] /\ data.accounts[a] \in VAccount
      BY <1>2 DEF WithAccount, EntriesInv
    <2>2. QED
      BY <2>1, Conversion
  <1>3. QED
    BY <1>1, <1>2

LEMMA AddEntries ==
    ASSUME EntriesInv, NEW a \in Account, NEW t \in Tx, NEW i \in BTCPendingInfo,
           i.account_id = a, i.stage = "PendingSign",
           data.btc_pending_infos[t] = None,
           data'.accounts = AddId(data.accounts, a, t),
           data'.btc_pending_infos = [data.btc_pending_infos EXCEPT ![t] = i]
    PROVE  /\ EntriesInv'
           /\ Waiting' = [Waiting EXCEPT ![a] = @ \cup {t}]
           /\ Signed' = Signed
           /\ \A b \in Account : t \notin Waiting[b] \cup Signed[b]
  <1> DEFINE old == AccountFrom(WithAccount(data.accounts, a)[a])
             entry == [old EXCEPT !.btc_pending_sign_ids = @ \cup {t}]
  <1>1. /\ old \in CurrentAccounts
        /\ old.btc_pending_sign_ids = Waiting[a] /\ old.btc_pending_verify_list = Signed[a]
    BY Opened
  <1>2. data'.accounts = [data.accounts EXCEPT ![a] = entry]
    BY DEF AddId
  <1> HIDE DEF old
  <1>3. /\ entry \in CurrentAccounts
        /\ entry.btc_pending_sign_ids = Waiting[a] \cup {t}
        /\ entry.btc_pending_verify_list = Signed[a]
    BY <1>1 DEF CurrentAccounts
  <1> HIDE DEF entry
  <1>4. /\ data'.accounts \in [Account -> VAccount \cup {None}]
        /\ Waiting' = [Waiting EXCEPT ![a] = Waiting[a] \cup {t}]
        /\ Signed' = [Signed EXCEPT ![a] = Signed[a]]
    BY <1>2, <1>3, OtherEntries
  <1>5. Signed' = Signed
    BY <1>4 DEF Signed
  <1>6. i # None /\ data'.btc_pending_infos \in [Tx -> BTCPendingInfo \cup {None}]
    BY ValuesAssumption DEF EntriesInv
  <1>7. \A b \in Account : t \notin Waiting[b] \cup Signed[b]
    BY DEF EntriesInv, IdsAt
  <1>8. ASSUME NEW b \in Account
        PROVE  /\ Waiting'[b] = IdsAt(data'.btc_pending_infos, b, "PendingSign")
               /\ Signed'[b] = IdsAt(data'.btc_pending_infos, b, "PendingVerify")
    <2>1. /\ Waiting[b] = IdsAt(data.btc_pending_infos, b, "PendingSign")
          /\ Signed[b] = IdsAt(data.btc_pending_infos, b, "PendingVerify")
          /\ data.btc_pending_infos \in [Tx -> BTCPendingInfo \cup {None}]
      BY DEF EntriesInv
    <2>2. /\ IdsAt(data'.btc_pending_infos, b, "PendingSign") =
                IF a = b THEN Waiting[b] \cup {t} ELSE Waiting[b] \ {t}
          /\ IdsAt(data'.btc_pending_infos, b, "PendingVerify") = Signed[b] \ {t}
      <3>1. /\ data'.btc_pending_infos[t] = i
            /\ \A u \in Tx \ {t} : data'.btc_pending_infos[u] = data.btc_pending_infos[u]
        BY <2>1
      <3>2. \A stage : IdsAt(data'.btc_pending_infos, b, stage) =
                IF i # None /\ i.account_id = b /\ i.stage = stage
                THEN IdsAt(data.btc_pending_infos, b, stage) \cup {t}
                ELSE IdsAt(data.btc_pending_infos, b, stage) \ {t}
        BY ONLY <3>1, t \in Tx DEF IdsAt
      <3>3. i # None /\ (i.account_id = b <=> a = b) /\ i.stage = "PendingSign"
        BY <1>6
      <3>4. IdsAt(data'.btc_pending_infos, b, "PendingSign") =
                IF a = b THEN Waiting[b] \cup {t} ELSE Waiting[b] \ {t}
        BY ONLY <2>1, <3>2, <3>3
      <3>5. IdsAt(data'.btc_pending_infos, b, "PendingVerify") = Signed[b] \ {t}
        BY ONLY <2>1, <3>2, <3>3
      <3>6. QED
        BY <3>4, <3>5
    <2>3. Waiting'[b] = IF a = b THEN Waiting[b] \cup {t} ELSE Waiting[b]
      BY <1>4 DEF Waiting
    <2>4. QED
      BY <2>2, <2>3, <1>5, <1>7
  <1>9. QED
    BY <1>4, <1>5, <1>6, <1>7, <1>8 DEF EntriesInv

\* A transaction that leaves its account, or passes to the list (`listed`).
LEMMA RemoveEntries ==
    ASSUME EntriesInv, NEW a \in Account, NEW t \in Tx, NEW i \in BTCPendingInfo \cup {None},
           NEW listed,
           data.btc_pending_infos[t] # None, data.btc_pending_infos[t].account_id = a,
           \/ i = None /\ listed = {}
           \/ i # None /\ i.account_id = a /\ i.stage = "PendingVerify" /\ listed = {t},
           data'.accounts = RemoveId(data.accounts, a, t, listed),
           data'.btc_pending_infos = [data.btc_pending_infos EXCEPT ![t] = i]
    PROVE  /\ EntriesInv'
           /\ Waiting' = [Waiting EXCEPT ![a] = @ \ {t}]
           /\ Signed' = [Signed EXCEPT ![a] = (@ \ {t}) \cup listed]
           /\ t \in Waiting[a] \cup Signed[a]
  <1> DEFINE old == AccountFrom(data.accounts[a])
             entry == CurrentAccount(old.btc_pending_sign_ids \ {t},
                                     (old.btc_pending_verify_list \ {t}) \cup listed)
  <1>0. data.btc_pending_infos[t] \in BTCPendingInfo
    BY DEF EntriesInv
  <1>1. t \in Waiting[a] \cup Signed[a]
    <2>1. data.btc_pending_infos[t].stage \in {"PendingSign", "PendingVerify"}
      BY <1>0 DEF BTCPendingInfo
    <2>2. QED
      BY <2>1 DEF EntriesInv, IdsAt
  <1>2. data.accounts[a] \in VAccount
    <2>1. data.accounts[a] # None
      BY <1>1 DEF Waiting, Signed, EntryOf
    <2>2. QED
      BY <2>1 DEF EntriesInv
  <1>3. /\ old \in CurrentAccounts
        /\ old.btc_pending_sign_ids = Waiting[a] /\ old.btc_pending_verify_list = Signed[a]
    BY <1>2, Conversion
  <1>4. data'.accounts = [data.accounts EXCEPT ![a] = entry]
    BY DEF RemoveId
  <1> HIDE DEF old
  <1>5. listed \subseteq Tx
    OBVIOUS
  <1>6. /\ entry \in CurrentAccounts
        /\ entry.btc_pending_sign_ids = Waiting[a] \ {t}
        /\ entry.btc_pending_verify_list = (Signed[a] \ {t}) \cup listed
    BY <1>3, <1>5 DEF CurrentAccounts, CurrentAccount
  <1> HIDE DEF entry
  <1>7. /\ data'.accounts \in [Account -> VAccount \cup {None}]
        /\ Waiting' = [Waiting EXCEPT ![a] = Waiting[a] \ {t}]
        /\ Signed' = [Signed EXCEPT ![a] = (Signed[a] \ {t}) \cup listed]
    BY <1>4, <1>6, OtherEntries
  <1>8. data'.btc_pending_infos \in [Tx -> BTCPendingInfo \cup {None}]
    BY DEF EntriesInv
  <1>9. ASSUME NEW b \in Account
        PROVE  /\ Waiting'[b] = IdsAt(data'.btc_pending_infos, b, "PendingSign")
               /\ Signed'[b] = IdsAt(data'.btc_pending_infos, b, "PendingVerify")
    <2>1. /\ Waiting[b] = IdsAt(data.btc_pending_infos, b, "PendingSign")
          /\ Signed[b] = IdsAt(data.btc_pending_infos, b, "PendingVerify")
          /\ data.btc_pending_infos \in [Tx -> BTCPendingInfo \cup {None}]
      BY DEF EntriesInv
    <2>2. /\ IdsAt(data'.btc_pending_infos, b, "PendingSign") = Waiting[b] \ {t}
          /\ IdsAt(data'.btc_pending_infos, b, "PendingVerify") =
                IF i # None /\ a = b THEN Signed[b] \cup {t} ELSE Signed[b] \ {t}
      <3>1. /\ data'.btc_pending_infos[t] = i
            /\ \A u \in Tx \ {t} : data'.btc_pending_infos[u] = data.btc_pending_infos[u]
        BY <2>1
      <3>2. \A stage : IdsAt(data'.btc_pending_infos, b, stage) =
                IF i # None /\ i.account_id = b /\ i.stage = stage
                THEN IdsAt(data.btc_pending_infos, b, stage) \cup {t}
                ELSE IdsAt(data.btc_pending_infos, b, stage) \ {t}
        BY ONLY <3>1, t \in Tx DEF IdsAt
      <3>3. QED
        BY <2>1, <3>2
    <2>3. /\ Waiting'[b] = IF a = b THEN Waiting[b] \ {t} ELSE Waiting[b]
          /\ Signed'[b] = IF a = b THEN (Signed[b] \ {t}) \cup listed ELSE Signed[b]
      BY <1>7 DEF Waiting, Signed
    <2>4. a # b => t \notin Waiting[b] \cup Signed[b]
      BY DEF EntriesInv, IdsAt
    <2>5. QED
      BY <2>2, <2>3, <2>4
  <1>10. QED
    BY <1>1, <1>7, <1>8, <1>9 DEF EntriesInv

-----------------------------------------------------------------------------
(* Requests and limits.                                                    *)

StatusOf(request) ==
    IF request = None THEN "none"
    ELSE IF request = RefundRequest(TRUE) THEN "executed" ELSE "open"

\* A request of the first layout is open.
LEMMA RequestValues ==
    /\ StatusOf(None) = "none"
    /\ StatusOf(RefundRequest(FALSE)) = "open"
    /\ StatusOf(RefundRequest(TRUE)) = "executed"
    /\ \A v \in VRefundRequest :
          /\ StatusOf(v) # "none"
          /\ RefundRequestFrom(v).executed <=> StatusOf(v) = "executed"
  <1>1. /\ RefundRequest(TRUE) \in VRefundRequest /\ RefundRequest(FALSE) \in VRefundRequest
        /\ None \notin VRefundRequest
    BY ValuesAssumption DEF VRefundRequest
  <1>2. /\ RefundRequest(TRUE).executed = TRUE /\ RefundRequest(FALSE).executed = FALSE
        /\ RefundRequest(TRUE).layout = 1 /\ RefundRequest(FALSE).layout = 1
        /\ RefundRequestV0.layout = 0
    BY DEF RefundRequest, RefundRequestV0
  <1>3. RefundRequest(TRUE) # RefundRequest(FALSE) /\ RefundRequest(TRUE) # RefundRequestV0
    <2>1. RefundRequest(TRUE).layout # RefundRequestV0.layout
      BY DEF RefundRequest, RefundRequestV0
    <2>2. RefundRequest(TRUE).executed # RefundRequest(FALSE).executed
      BY Zenon DEF RefundRequest
    <2>3. QED
      BY <2>1, <2>2, Zenon
  <1>4. \A v \in VRefundRequest :
            v = RefundRequestV0 \/ v = RefundRequest(TRUE) \/ v = RefundRequest(FALSE)
    BY DEF VRefundRequest
  <1>5. /\ RefundRequestFrom(RefundRequestV0) = RefundRequest(FALSE)
        /\ RefundRequestFrom(RefundRequest(TRUE)) = RefundRequest(TRUE)
        /\ RefundRequestFrom(RefundRequest(FALSE)) = RefundRequest(FALSE)
    BY <1>2 DEF RefundRequestFrom
  <1>6. /\ StatusOf(None) = "none" /\ StatusOf(RefundRequest(TRUE)) = "executed"
        /\ StatusOf(RefundRequest(FALSE)) = "open" /\ StatusOf(RefundRequestV0) = "open"
    <2>1. RefundRequestV0 \in VRefundRequest
      BY DEF VRefundRequest
    <2>2. QED
      BY <1>1, <1>3, <2>1 DEF StatusOf
  <1>7. QED
    BY <1>2, <1>4, <1>5, <1>6

LEMMA ReadyValues ==
    ASSUME LayoutInv, Ready
    PROVE  /\ data.refund_requests \in [Output -> VRefundRequest \cup {None}]
           /\ Refunds = [o \in Output |-> StatusOf(data.refund_requests[o])]
           /\ data.pending_tx_limits \in [Account -> Limit \cup {None}]
           /\ Limits = [a \in Account |-> get_max_pending_sign_txs(a)]
           /\ \A l \in Lists : data[l] \in SUBSET Account
           /\ Listed = [l \in Lists |-> data[l]]
  <1>1. \A f \in Registers : Present(f)
    BY ReadyHasAll DEF LayoutInv
  <1>2. /\ "pending_tx_limits" \in Registers /\ "refund_requests" \in Registers
        /\ Lists \subseteq Registers
    BY DEF Registers
  <1>3. /\ data.refund_requests \in [Output -> VRefundRequest \cup {None}]
        /\ data.pending_tx_limits \in [Account -> Limit \cup {None}]
        /\ \A l \in Lists : data[l] \in SUBSET Account
    BY <1>1, <1>2 DEF LayoutInv, LimitsOK, RequestsOK, ListsOK
  <1>4. /\ data.refund_requests # Absent /\ data.pending_tx_limits # Absent
        /\ \A l \in Lists : data[l] # Absent
    BY <1>3, ValuesAssumption
  <1>5. Refunds = [o \in Output |-> StatusOf(data.refund_requests[o])]
    BY <1>4 DEF Refunds, StatusOf
  <1>6. Limits = [a \in Account |-> get_max_pending_sign_txs(a)]
    BY <1>4 DEF Limits, get_max_pending_sign_txs
  <1>7. Listed = [l \in Lists |-> data[l]]
    BY <1>4 DEF Listed
  <1>8. QED
    BY <1>3, <1>5, <1>6, <1>7

LEMMA Capacity ==
    ASSUME IInv, Ready, NEW a \in Account, HasCapacity(a)
    PROVE  Cardinality(Waiting[a]) < Limits[a]
  <1>1. AccountFrom(WithAccount(data.accounts, a)[a]).btc_pending_sign_ids = Waiting[a]
    BY Opened DEF IInv
  <1>2. Limits[a] = get_max_pending_sign_txs(a)
    BY ReadyValues DEF IInv
  <1>3. QED
    BY <1>1, <1>2 DEF HasCapacity

LEMMA PutRequest ==
    ASSUME LayoutInv, Ready, NEW changed, Frame(changed), NEW o \in Output,
           NEW r \in VRefundRequest \cup {None},
           "pending_tx_limits" \notin changed, Lists \cap changed = {},
           data'.refund_requests = [data.refund_requests EXCEPT ![o] = r]
    PROVE  LayoutInv' /\ Refunds' = [Refunds EXCEPT ![o] = StatusOf(r)]
  <1>1. /\ data.refund_requests \in [Output -> VRefundRequest \cup {None}]
        /\ Refunds = [p \in Output |-> StatusOf(data.refund_requests[p])]
    BY ReadyValues
  <1>2. data'.refund_requests \in [Output -> VRefundRequest \cup {None}]
    BY <1>1
  <1>3. LayoutInv'
    BY <1>2, FrameLayout
  <1>4. Refunds' = [p \in Output |-> StatusOf(data'.refund_requests[p])]
    <2>1. Ready'
      BY DEF Frame, Ready
    <2>2. data'.refund_requests # Absent
      BY <1>2, ValuesAssumption
    <2>3. QED
      BY <2>2 DEF Refunds, StatusOf
  <1>5. QED
    BY <1>1, <1>3, <1>4

-----------------------------------------------------------------------------
(* The handlers, one by one.                                               *)

Good == IInv' /\ (R!Next \/ R!vars' = R!vars)

LEMMA FieldsInside == \A f \in Registers : f \in Fields
  BY FieldList

LEMMA RegisterAccountGood ==
    ASSUME IInv, NEW a \in Account, RegisterAccount(a)
    PROVE  Good
  <1> DEFINE accounts == WithAccount(data.accounts, a)
  <1>1. /\ Ready /\ version' = version /\ zcash' = zcash
        /\ data' = [data EXCEPT !.accounts = accounts]
        /\ callbacks' = callbacks /\ lost' = lost
    BY DEF RegisterAccount, Handled, NoCallback
  <1> HIDE DEF accounts
  <1>2. Frame({"accounts"}) /\ data'.accounts = accounts
    BY <1>1, FieldList DEF IInv, LayoutInv, Shape, Frame, Registers, Lists
  <1>3. LayoutInv'
    BY <1>1, <1>2, FrameLayout DEF IInv, Lists
  <1>4. EntriesInv' /\ SameEntries
    BY <1>2, WithAccountEntries DEF IInv, Frame, Registers, accounts
  <1>5. /\ Refunds' = Refunds /\ SameOrders /\ SameOutputs /\ Refunding' = Refunding
    BY <1>2, FrameViews DEF SameOrders, SameOutputs, Lists
  <1>6. OutputsInv'
    BY <1>1, <1>5 DEF IInv, OutputsInv, SameOutputs
  <1>7. QED
    BY <1>3, <1>4, <1>5, <1>6, SameRegistersStutter DEF Good, IInv

LEMMA SetPendingTxLimitGood ==
    ASSUME IInv, NEW a \in Account, NEW n \in Limit \cup {None}, SetPendingTxLimit(a, n)
    PROVE  Good
  <1> DEFINE limits == [data.pending_tx_limits EXCEPT ![a] = n]
  <1>1. /\ Ready /\ version' = version /\ zcash' = zcash
        /\ data' = [data EXCEPT !.pending_tx_limits = limits]
        /\ callbacks' = callbacks /\ lost' = lost
    BY DEF SetPendingTxLimit, Handled, NoCallback
  <1>2. limits \in [Account -> Limit \cup {None}]
    BY <1>1, ReadyValues DEF IInv
  <1> HIDE DEF limits
  <1>3. Frame({"pending_tx_limits"}) /\ data'.pending_tx_limits = limits
    BY <1>1, FieldList DEF IInv, LayoutInv, Shape, Frame, Registers, Lists
  <1>4. LayoutInv'
    BY <1>1, <1>2, <1>3, FrameLayout DEF IInv, Lists
  <1>5. /\ Refunds' = Refunds /\ Listed' = Listed /\ SameOutputs /\ SameEntries
        /\ Refunding' = Refunding
    BY <1>3, FrameViews DEF SameOutputs, Lists
  <1>6. EntriesInv'
    BY <1>3, <1>5, EntriesKept DEF IInv, EntriesInv, Frame, Registers
  <1>7. OutputsInv'
    BY <1>1, <1>5 DEF IInv, OutputsInv, SameOutputs
  <1>8. \E m \in Limit \cup {1} : Limits' = [Limits EXCEPT ![a] = m]
    <2>1. Limits = [b \in Account |-> get_max_pending_sign_txs(b)]
      BY <1>1, ReadyValues DEF IInv
    <2>2. limits # Absent
      BY <1>2, ValuesAssumption
    <2>3. Limits' = [b \in Account |-> IF limits[b] = None THEN 1 ELSE limits[b]]
      BY <1>3, <2>2 DEF Limits
    <2>4. \A b \in Account : limits[b] = IF b = a THEN n ELSE data.pending_tx_limits[b]
      BY <1>1, ReadyValues DEF IInv, limits
    <2> DEFINE m == IF n = None THEN 1 ELSE n
    <2>5. m \in Limit \cup {1}
      BY ConstantsAssumption
    <2>6. Limits' = [Limits EXCEPT ![a] = m]
      BY <2>1, <2>3, <2>4 DEF get_max_pending_sign_txs
    <2>7. QED
      BY <2>5, <2>6
  <1>9. R!Next
    BY <1>5, <1>8, OrderStep
  <1>10. QED
    BY <1>4, <1>6, <1>7, <1>9 DEF Good, IInv

LEMMA ListGood ==
    ASSUME IInv, NEW a \in Account, NEW list \in Lists, Extend(list, a) \/ Remove(list, a)
    PROVE  Good
  <1>1. PICK members \in {data[list] \cup {a}, data[list] \ {a}} :
            /\ Ready /\ version' = version /\ zcash' = zcash
            /\ data' = [data EXCEPT ![list] = members]
            /\ callbacks' = callbacks /\ lost' = lost
    BY DEF Extend, Remove, Handled, NoCallback
  <1>2. Frame({list}) /\ data'[list] = members
    BY <1>1, FieldList DEF IInv, LayoutInv, Shape, Frame, Registers
  <1>3. \A l \in Lists : data[l] \in SUBSET Account
    BY <1>1, ReadyValues DEF IInv
  <1>4. list \notin {"accounts", "utxos", "verified_deposit_utxo", "btc_pending_infos",
                     "pending_tx_limits", "refund_requests"}
    BY DEF Lists
  <1>5. LayoutInv'
    BY <1>1, <1>2, <1>3, <1>4, FrameLayout DEF IInv
  <1>6. /\ Refunds' = Refunds /\ Limits' = Limits /\ SameOutputs /\ SameEntries
        /\ Refunding' = Refunding
    BY <1>2, <1>4, FrameViews DEF SameOutputs
  <1>7. EntriesInv'
    BY <1>2, <1>4, <1>6, EntriesKept DEF IInv, EntriesInv, Frame, Registers
  <1>8. OutputsInv'
    BY <1>1, <1>6 DEF IInv, OutputsInv, SameOutputs
  <1>9. Listed' = [Listed EXCEPT ![list] = members] /\ Listed[list] = data[list]
    <2>1. \A l \in Lists \ {list} : data'[l] = data[l]
      BY <1>2 DEF Frame, Registers
    <2>2. \A l \in Lists : data[l] # Absent /\ data'[l] # Absent
      BY <1>2, <1>3, <2>1, ValuesAssumption
    <2>3. QED
      BY <1>2, <2>1, <2>2 DEF Listed
  <1>10. R!Next
    BY <1>6, <1>9, OrderStep
  <1>11. QED
    BY <1>5, <1>7, <1>8, <1>10 DEF Good, IInv

LEMMA VerifyDepositCallbackGood ==
    ASSUME IInv, NEW o \in Output, VerifyDepositCallback(o)
    PROVE  Good
  <1> DEFINE claims == data.verified_deposit_utxo \cup {o}
             progress == data.utxos_in_progress \cup {o}
             ring == [data.block_bridge_amounts EXCEPT !.sats = @ + Balance[o]]
  <1>1. /\ Ready /\ version' = version /\ zcash' = zcash
        /\ data' = [data EXCEPT !.verified_deposit_utxo = claims, !.utxos_in_progress = progress,
                                !.block_bridge_amounts = ring]
        /\ lost' = lost /\ o \notin Claimed
        /\ \E ok \in BOOLEAN : callbacks' = [callbacks EXCEPT ![o] = [bumped |-> TRUE, ok |-> ok]]
    BY DEF VerifyDepositCallback, Handled, Claimed
  <1> HIDE DEF progress, ring
  <1>2. Frame({"verified_deposit_utxo"}) /\ data'.verified_deposit_utxo = claims
    BY <1>1, FieldList DEF IInv, LayoutInv, Shape, Frame, Registers, Lists
  <1>3. LayoutInv'
    BY <1>1, <1>2, FrameLayout DEF IInv, Lists
  <1>4. /\ Refunds' = Refunds /\ SameOrders /\ SameEntries /\ Held' = Held
        /\ Refunding' = Refunding /\ Claimed' = Claimed \cup {o}
    BY <1>2, FrameViews DEF SameOrders, Lists, Claimed
  <1>5. EntriesInv'
    BY <1>2, <1>4, EntriesKept DEF IInv, EntriesInv, Frame, Registers
  <1>6. PICK call \in MintCall : callbacks' = [callbacks EXCEPT ![o] = call]
    <2>1. \A ok \in BOOLEAN : [bumped |-> TRUE, ok |-> ok] \in MintCall
      BY DEF MintCall
    <2>2. QED
      BY <1>1, <2>1
  <1>7. OutputsInv'
    BY <1>1, <1>4, <1>6 DEF IInv, OutputsInv
  <1>8. R!Next
    BY <1>1, <1>4, OutputStep
  <1>9. QED
    BY <1>3, <1>5, <1>7, <1>8 DEF Good, IInv

\* A mint that succeeded: the account is made if need be, the output is held.
LEMMA MintGood ==
    ASSUME IInv, NEW o \in Output, NEW a \in Account, NEW progress,
           Ready, version' = version, zcash' = zcash,
           data' = [data EXCEPT !.utxos_in_progress = progress,
                                !.accounts = WithAccount(@, a),
                                !.utxos = @ \cup {o}],
           o \in Claimed \ Held, Refunds[o] # "executed", o \notin Refunding,
           callbacks' = [callbacks EXCEPT ![o] = None],
           lost' = lost \ {o}
    PROVE  Good
  <1> DEFINE accounts == WithAccount(data.accounts, a)
             utxos == data.utxos \cup {o}
  <1>1. data' = [data EXCEPT !.utxos_in_progress = progress, !.accounts = accounts,
                             !.utxos = utxos]
    OBVIOUS
  <1> HIDE DEF accounts
  <1>2. Frame({"accounts", "utxos"}) /\ data'.accounts = accounts /\ data'.utxos = utxos
    BY <1>1, FieldList DEF IInv, LayoutInv, Shape, Frame, Registers, Lists
  <1>3. LayoutInv'
    BY <1>2, FrameLayout DEF IInv, Lists
  <1>4. EntriesInv' /\ SameEntries
    BY <1>2, WithAccountEntries DEF IInv, Frame, Registers, accounts
  <1>5. /\ Refunds' = Refunds /\ SameOrders /\ Claimed' = Claimed
        /\ Refunding' = Refunding /\ Held' = Held \cup {o}
    BY <1>2, FrameViews DEF SameOrders, Lists, Held
  <1>6. OutputsInv'
    BY <1>5 DEF IInv, OutputsInv
  <1>7. R!Next
    BY <1>4, <1>5, OutputStep
  <1>8. QED
    BY <1>3, <1>4, <1>6, <1>7 DEF Good, IInv

LEMMA MintCallbackGood ==
    ASSUME IInv, NEW o \in Output, NEW a \in Account, MintCallback(o, a)
    PROVE  Good
  <1>1. /\ callbacks[o] # None /\ callbacks' = [callbacks EXCEPT ![o] = None] /\ lost' = lost
    BY DEF MintCallback
  <1>2. /\ o \in Claimed \ Held /\ o \notin lost
        /\ Refunds[o] # "executed" /\ o \notin Refunding
    BY <1>1 DEF IInv, OutputsInv
  <1>3. CASE callbacks[o].ok
    <2>1. /\ Ready /\ version' = version /\ zcash' = zcash
          /\ data' = [data EXCEPT !.utxos_in_progress = @ \ {o},
                                  !.accounts = WithAccount(@, a),
                                  !.utxos = @ \cup {o}]
      BY <1>3 DEF MintCallback, Handled
    <2>2. lost' = lost \ {o}
      BY <1>1, <1>2
    <2> DEFINE progress == data.utxos_in_progress \ {o}
    <2>3. data' = [data EXCEPT !.utxos_in_progress = progress,
                               !.accounts = WithAccount(@, a),
                               !.utxos = @ \cup {o}]
      BY <2>1
    <2> HIDE DEF progress
    <2>4. QED
      BY <1>1, <1>2, <2>1, <2>2, <2>3, MintGood
  <1>4. CASE ~callbacks[o].ok
    <2> DEFINE progress == data.utxos_in_progress \ {o}
               claims == data.verified_deposit_utxo \ {o}
               ring == Unbumped(data.block_bridge_amounts, o, callbacks[o].bumped)
    <2>1. /\ Ready /\ version' = version /\ zcash' = zcash
          /\ data' = [data EXCEPT !.utxos_in_progress = progress,
                                  !.verified_deposit_utxo = claims,
                                  !.block_bridge_amounts = ring]
      BY <1>4 DEF MintCallback, Handled
    <2> HIDE DEF progress, ring
    <2>2. Frame({"verified_deposit_utxo"}) /\ data'.verified_deposit_utxo = claims
      BY <2>1, FieldList DEF IInv, LayoutInv, Shape, Frame, Registers, Lists
    <2>3. LayoutInv'
      BY <2>1, <2>2, FrameLayout DEF IInv, Lists
    <2>4. /\ Refunds' = Refunds /\ SameOrders /\ SameEntries /\ Held' = Held
          /\ Refunding' = Refunding /\ Claimed' = Claimed \ {o}
      BY <2>2, FrameViews DEF SameOrders, Lists, Claimed
    <2>5. EntriesInv'
      BY <2>2, <2>4, EntriesKept DEF IInv, EntriesInv, Frame, Registers
    <2>6. OutputsInv'
      BY <1>1, <1>2, <2>4 DEF IInv, OutputsInv
    <2>7. R!Next
      BY <1>2, <2>4, OutputStep
    <2>8. QED
      BY <2>3, <2>5, <2>6, <2>7 DEF Good, IInv
  <1>5. QED
    BY <1>3, <1>4

LEMMA CompleteFailedDepositMintGood ==
    ASSUME IInv, NEW o \in Output, NEW a \in Account, CompleteFailedDepositMint(o, a)
    PROVE  Good
  <1> DEFINE progress == data.utxos_in_progress \ {o}
  <1>1. /\ Ready /\ version' = version /\ zcash' = zcash
        /\ data' = [data EXCEPT !.utxos_in_progress = progress,
                                !.accounts = WithAccount(@, a),
                                !.utxos = @ \cup {o}]
        /\ o \in lost /\ lost' = lost \ {o} /\ callbacks' = callbacks
    BY DEF CompleteFailedDepositMint, Handled
  <1>2. /\ o \in Claimed \ Held /\ callbacks[o] = None
        /\ Refunds[o] # "executed" /\ o \notin Refunding
    BY <1>1 DEF IInv, OutputsInv
  <1>3. callbacks' = [callbacks EXCEPT ![o] = None]
    BY <1>1, <1>2 DEF IInv, OutputsInv
  <1> HIDE DEF progress
  <1>4. QED
    BY <1>1, <1>2, <1>3, MintGood

\* A record of a refund counts its output among those being refunded.
LEMMA RefundingPut ==
    ASSUME NEW t \in Tx, NEW i,
           \A u \in Tx \ {t} : data'.btc_pending_infos[u] = data.btc_pending_infos[u],
           data'.btc_pending_infos[t] = i
    PROVE  \A o \in Refunding' :
               o \in Refunding \/ (o \in Output /\ i # None /\ i.kind = "refund" /\ i.input = o)
  BY DEF Refunding

LEMMA PendingInfo ==
    ASSUME EntriesInv, NEW a \in Account, NEW t \in Tx, NEW o \in Output,
           NEW kind \in {"withdraw", "refund"}
    PROVE  \E i \in BTCPendingInfo :
               /\ Pending(a, t, o, kind) = [data.btc_pending_infos EXCEPT ![t] = i]
               /\ i.account_id = a /\ i.stage = "PendingSign" /\ i.kind = kind /\ i.input = o
  <1> DEFINE i == [account_id |-> a, input |-> o, kind |-> kind, stage |-> "PendingSign"]
  <1>1. i \in BTCPendingInfo
    BY DEF BTCPendingInfo
  <1>2. QED
    BY <1>1 DEF Pending

LEMMA CreateBtcPendingInfoGood ==
    ASSUME IInv, NEW a \in Account, NEW t \in Tx, NEW o \in Output, CreateBtcPendingInfo(a, t, o)
    PROVE  Good
  <1>0. PICK i \in BTCPendingInfo :
            /\ Pending(a, t, o, "withdraw") = [data.btc_pending_infos EXCEPT ![t] = i]
            /\ i.account_id = a /\ i.stage = "PendingSign" /\ i.kind = "withdraw" /\ i.input = o
    BY PendingInfo DEF IInv
  <1> DEFINE accounts == AddId(data.accounts, a, t)
             infos == [data.btc_pending_infos EXCEPT ![t] = i]
             utxos == data.utxos \ {o}
  <1>1. /\ Ready /\ version' = version /\ zcash' = zcash
        /\ data' = [data EXCEPT !.accounts = accounts, !.btc_pending_infos = infos,
                                !.utxos = utxos]
        /\ o \in Held /\ HasCapacity(a) /\ data.btc_pending_infos[t] = None
        /\ callbacks' = callbacks /\ lost' = lost
    BY <1>0 DEF CreateBtcPendingInfo, Handled, NoCallback, Held
  <1> HIDE DEF accounts, infos
  <1>2. /\ Frame({"accounts", "btc_pending_infos", "utxos"})
        /\ data'.accounts = accounts /\ data'.btc_pending_infos = infos /\ data'.utxos = utxos
    BY <1>1, FieldList DEF IInv, LayoutInv, Shape, Frame, Registers, Lists
  <1>3. LayoutInv'
    BY <1>1, <1>2, FrameLayout DEF IInv, Lists
  <1>4. /\ EntriesInv'
        /\ Waiting' = [Waiting EXCEPT ![a] = @ \cup {t}] /\ Signed' = Signed
        /\ \A b \in Account : t \notin Waiting[b] \cup Signed[b]
    BY <1>0, <1>1, <1>2, AddEntries DEF IInv, accounts, infos
  <1>5. /\ Refunds' = Refunds /\ SameOrders /\ Claimed' = Claimed /\ Held' = Held \ {o}
    BY <1>2, FrameViews DEF SameOrders, Lists, Held
  <1>6. \A p \in Refunding' : p \in Refunding
    <2>1. /\ data'.btc_pending_infos[t] = i
          /\ \A u \in Tx \ {t} : data'.btc_pending_infos[u] = data.btc_pending_infos[u]
      BY <1>2 DEF infos, IInv, EntriesInv
    <2>2. QED
      BY <1>0, <2>1, RefundingPut
  <1>7. OutputsInv'
    BY <1>1, <1>5, <1>6 DEF IInv, OutputsInv
  <1>8. Cardinality(Waiting[a]) < Limits[a]
    BY <1>1, Capacity
  <1>9. R!Next
    BY <1>1, <1>4, <1>5, <1>8, WithdrawStep
  <1>10. QED
    BY <1>3, <1>4, <1>7, <1>9 DEF Good, IInv

LEMMA ExecuteRefundGood ==
    ASSUME IInv, NEW a \in Account, NEW t \in Tx, NEW o \in Output, ExecuteRefund(a, t, o)
    PROVE  Good
  <1>0. PICK i \in BTCPendingInfo :
            /\ Pending(a, t, o, "refund") = [data.btc_pending_infos EXCEPT ![t] = i]
            /\ i.account_id = a /\ i.stage = "PendingSign" /\ i.kind = "refund" /\ i.input = o
    BY PendingInfo DEF IInv
  <1> DEFINE accounts == AddId(data.accounts, a, t)
             infos == [data.btc_pending_infos EXCEPT ![t] = i]
             claims == data.verified_deposit_utxo \cup {o}
             requests == [data.refund_requests EXCEPT ![o] = RefundRequest(TRUE)]
  <1>1. /\ Ready /\ version' = version /\ zcash' = zcash
        /\ data' = [data EXCEPT !.accounts = accounts, !.btc_pending_infos = infos,
                                !.verified_deposit_utxo = claims, !.refund_requests = requests]
        /\ Refundable(o) /\ HasCapacity(a) /\ data.btc_pending_infos[t] = None
        /\ callbacks' = callbacks /\ lost' = lost
    BY <1>0 DEF ExecuteRefund, Handled, NoCallback
  <1> HIDE DEF accounts, infos, requests
  <1>2. /\ Frame({"accounts", "btc_pending_infos", "verified_deposit_utxo", "refund_requests"})
        /\ data'.accounts = accounts /\ data'.btc_pending_infos = infos
        /\ data'.verified_deposit_utxo = claims /\ data'.refund_requests = requests
    BY <1>1, FieldList DEF IInv, LayoutInv, Shape, Frame, Registers, Lists
  <1>3. LayoutInv' /\ Refunds' = [Refunds EXCEPT ![o] = "executed"]
    <2>1. RefundRequest(TRUE) \in VRefundRequest /\ StatusOf(RefundRequest(TRUE)) = "executed"
      BY RequestValues DEF VRefundRequest
    <2> DEFINE r == RefundRequest(TRUE)
               changed == {"accounts", "btc_pending_infos", "verified_deposit_utxo",
                           "refund_requests"}
    <2>2. /\ LayoutInv /\ Ready /\ Frame(changed)
          /\ "pending_tx_limits" \notin changed /\ Lists \cap changed = {}
          /\ r \in VRefundRequest \cup {None}
          /\ data'.refund_requests = [data.refund_requests EXCEPT ![o] = r]
      BY <1>1, <1>2, <2>1 DEF IInv, Lists, requests
    <2> HIDE DEF r, changed
    <2>3. LayoutInv' /\ Refunds' = [Refunds EXCEPT ![o] = StatusOf(r)]
      BY ONLY <2>2, o \in Output, PutRequest
    <2>4. QED
      BY <2>1, <2>3 DEF r
  <1>4. /\ EntriesInv'
        /\ Waiting' = [Waiting EXCEPT ![a] = @ \cup {t}] /\ Signed' = Signed
        /\ \A b \in Account : t \notin Waiting[b] \cup Signed[b]
    BY <1>0, <1>1, <1>2, AddEntries DEF IInv, accounts, infos
  <1>5. /\ SameOrders /\ Held' = Held /\ Claimed' = Claimed \cup {o}
    BY <1>2, FrameViews DEF SameOrders, Lists, Claimed
  <1>6. \A p \in Refunding' : p \in Refunding \/ p = o
    <2>1. /\ data'.btc_pending_infos[t] = i
          /\ \A u \in Tx \ {t} : data'.btc_pending_infos[u] = data.btc_pending_infos[u]
      BY <1>2 DEF infos, IInv, EntriesInv
    <2>2. QED
      BY <1>0, <2>1, RefundingPut
  <1>7. \/ Refunds[o] = "open" /\ o \notin Claimed
        \/ Refunds[o] = "executed"
    <2>1. /\ data.refund_requests[o] \in VRefundRequest
          /\ Refunds[o] = StatusOf(data.refund_requests[o])
      BY <1>1, ReadyValues DEF IInv, Refundable
    <2>2. Refunds[o] \in {"open", "executed"}
      BY <2>1, RequestValues DEF StatusOf
    <2>3. RefundRequestFrom(data.refund_requests[o]).executed <=> Refunds[o] = "executed"
      BY <2>1, RequestValues
    <2>4. QED
      BY <1>1, <2>2, <2>3 DEF Refundable, Claimed
  <1>8. OutputsInv'
    <2>1. callbacks[o] = None /\ o \notin lost
      BY <1>7 DEF IInv, OutputsInv
    <2>2. \A p \in Output : Refunds'[p] = IF p = o THEN "executed" ELSE Refunds[p]
      BY <1>3 DEF Refunds
    <2>3. QED
      BY <1>1, <1>5, <1>6, <2>1, <2>2 DEF IInv, OutputsInv
  <1>9. R!Next
    <2>1. Cardinality(Waiting[a]) < Limits[a]
      BY <1>1, Capacity
    <2>2. QED
      BY <1>3, <1>4, <1>5, <1>7, <2>1, RefundStep
  <1>10. QED
    BY <1>3, <1>4, <1>8, <1>9 DEF Good, IInv

LEMMA FinishSigningGood ==
    ASSUME IInv, NEW t \in Tx, FinishSigning(t)
    PROVE  Good
  <1> DEFINE info == data.btc_pending_infos[t]
             a == info.account_id
             i == [info EXCEPT !.stage = "PendingVerify"]
             accounts == RemoveId(data.accounts, a, t, {t})
             infos == [data.btc_pending_infos EXCEPT ![t] = i]
  <1>1. /\ Ready /\ version' = version /\ zcash' = zcash
        /\ data' = [data EXCEPT !.btc_pending_infos = infos, !.accounts = accounts]
        /\ info # None /\ info.stage = "PendingSign"
        /\ callbacks' = callbacks /\ lost' = lost
    BY DEF FinishSigning, Handled, NoCallback, At
  <1>2. info \in BTCPendingInfo
    BY <1>1 DEF IInv, EntriesInv
  <1>3. /\ i \in BTCPendingInfo /\ i.account_id = a /\ i.stage = "PendingVerify"
        /\ i.kind = info.kind /\ i.input = info.input /\ a \in Account
    BY <1>2 DEF BTCPendingInfo
  <1>4. i # None
    BY <1>3, ValuesAssumption
  <1> HIDE DEF accounts, infos, i
  <1>5. /\ Frame({"accounts", "btc_pending_infos"})
        /\ data'.accounts = accounts /\ data'.btc_pending_infos = infos
    BY <1>1, FieldList DEF IInv, LayoutInv, Shape, Frame, Registers, Lists
  <1>6. LayoutInv'
    BY <1>1, <1>5, FrameLayout DEF IInv, Lists
  <1>7. /\ EntriesInv'
        /\ Waiting' = [Waiting EXCEPT ![a] = @ \ {t}]
        /\ Signed' = [Signed EXCEPT ![a] = (@ \ {t}) \cup {t}]
    <2>1. /\ EntriesInv /\ a \in Account /\ i \in BTCPendingInfo \cup {None}
          /\ data.btc_pending_infos[t] # None /\ data.btc_pending_infos[t].account_id = a
          /\ i # None /\ i.account_id = a /\ i.stage = "PendingVerify"
          /\ data'.accounts = RemoveId(data.accounts, a, t, {t})
          /\ data'.btc_pending_infos = [data.btc_pending_infos EXCEPT ![t] = i]
      BY <1>1, <1>3, <1>4, <1>5 DEF IInv, accounts, infos
    <2> HIDE DEF a
    <2>2. QED
      BY ONLY <2>1, t \in Tx, RemoveEntries
  <1>8. /\ Refunds' = Refunds /\ SameOrders /\ SameOutputs
    BY <1>5, FrameViews DEF SameOrders, SameOutputs, Lists
  <1>9. \A p \in Refunding' : p \in Refunding
    <2>1. /\ data'.btc_pending_infos[t] = i
          /\ \A u \in Tx \ {t} : data'.btc_pending_infos[u] = data.btc_pending_infos[u]
      BY <1>5 DEF infos, IInv, EntriesInv
    <2>2. info.kind = "refund" /\ info.input \in Output => info.input \in Refunding
      BY <1>1 DEF Refunding
    <2>3. QED
      BY <1>3, <2>1, <2>2, RefundingPut
  <1>10. OutputsInv'
    BY <1>1, <1>8, <1>9 DEF IInv, OutputsInv, SameOutputs
  <1>11. R!Next
    <2>1. t \in Waiting[a]
      BY <1>1, <1>3 DEF IInv, EntriesInv, IdsAt
    <2>2. Signed' = [Signed EXCEPT ![a] = @ \cup {t}]
      BY <1>7
    <2>3. QED
      BY <1>3, <1>7, <1>8, <2>1, <2>2, SignStep
  <1>12. QED
    BY <1>6, <1>7, <1>10, <1>11 DEF Good, IInv

\* What removing a record does to accounts and outputs.
LEMMA InfoRemoved ==
    ASSUME IInv, NEW t \in Tx, NEW changed, Frame(changed),
           data.btc_pending_infos[t] # None,
           data'.accounts = RemoveId(data.accounts, data.btc_pending_infos[t].account_id, t, {}),
           data'.btc_pending_infos = [data.btc_pending_infos EXCEPT ![t] = None]
    PROVE  LET a == data.btc_pending_infos[t].account_id IN
           /\ a \in Account
           /\ EntriesInv'
           /\ Waiting' = [Waiting EXCEPT ![a] = @ \ {t}]
           /\ Signed' = [Signed EXCEPT ![a] = @ \ {t}]
           /\ t \in Waiting[a] \cup Signed[a]
           /\ \A p \in Refunding' : p \in Refunding
  <1> DEFINE a == data.btc_pending_infos[t].account_id
  <1>1. a \in Account
    BY DEF IInv, EntriesInv, BTCPendingInfo
  <1>2. /\ EntriesInv'
        /\ Waiting' = [Waiting EXCEPT ![a] = @ \ {t}]
        /\ Signed' = [Signed EXCEPT ![a] = (@ \ {t}) \cup {}]
        /\ t \in Waiting[a] \cup Signed[a]
    BY <1>1, RemoveEntries DEF IInv
  <1>3. \A p \in Refunding' : p \in Refunding
    <2>1. /\ data'.btc_pending_infos[t] = None
          /\ \A u \in Tx \ {t} : data'.btc_pending_infos[u] = data.btc_pending_infos[u]
      BY DEF IInv, EntriesInv
    <2>2. QED
      BY <2>1, RefundingPut
  <1>4. Signed' = [Signed EXCEPT ![a] = @ \ {t}]
    BY <1>2
  <1>5. QED
    BY <1>1, <1>2, <1>3, <1>4

LEMMA FinishGood ==
    ASSUME IInv, NEW t \in Tx, Finish(t)
    PROVE  Good
  <1> DEFINE info == data.btc_pending_infos[t]
             a == info.account_id
             o == info.input
             r == IF info.kind = "refund" THEN None ELSE data.refund_requests[o]
             accounts == RemoveId(data.accounts, a, t, {})
             infos == [data.btc_pending_infos EXCEPT ![t] = None]
             requests == [data.refund_requests EXCEPT ![o] = r]
             changed == {"accounts", "btc_pending_infos", "refund_requests"}
  <1>1. /\ Ready /\ version' = version /\ zcash' = zcash
        /\ data' = [data EXCEPT !.btc_pending_infos = infos, !.accounts = accounts,
                                !.refund_requests = requests]
        /\ info # None /\ info.stage = "PendingVerify"
        /\ callbacks' = callbacks /\ lost' = lost
    BY DEF Finish, Handled, NoCallback, At
  <1>2. o \in Output
    BY <1>1 DEF IInv, EntriesInv, BTCPendingInfo
  <1>3. /\ data.refund_requests \in [Output -> VRefundRequest \cup {None}]
        /\ Refunds[o] = StatusOf(data.refund_requests[o])
    BY <1>1, <1>2, ReadyValues DEF IInv
  <1>4. /\ r \in VRefundRequest \cup {None}
        /\ StatusOf(r) = IF info.kind = "refund" THEN "none" ELSE Refunds[o]
    BY <1>2, <1>3, RequestValues
  <1> HIDE DEF accounts, infos, requests, r
  <1>5. /\ Frame(changed)
        /\ data'.accounts = accounts /\ data'.btc_pending_infos = infos
        /\ data'.refund_requests = requests
    BY <1>1, FieldList DEF IInv, LayoutInv, Shape, Frame, Registers, Lists
  <1>6. LayoutInv' /\ Refunds' = [Refunds EXCEPT ![o] = StatusOf(r)]
    <2>1. /\ LayoutInv /\ Ready /\ Frame(changed)
          /\ "pending_tx_limits" \notin changed /\ Lists \cap changed = {}
          /\ data'.refund_requests = [data.refund_requests EXCEPT ![o] = r]
      BY <1>1, <1>5 DEF IInv, Lists, requests
    <2> HIDE DEF o, changed
    <2>2. QED
      BY ONLY <2>1, <1>2, <1>4, PutRequest
  <1>7. /\ a \in Account
        /\ EntriesInv'
        /\ Waiting' = [Waiting EXCEPT ![a] = @ \ {t}]
        /\ Signed' = [Signed EXCEPT ![a] = @ \ {t}]
        /\ \A p \in Refunding' : p \in Refunding
    <2>1. /\ Frame(changed) /\ data.btc_pending_infos[t] # None
          /\ data'.accounts =
                RemoveId(data.accounts, data.btc_pending_infos[t].account_id, t, {})
          /\ data'.btc_pending_infos = [data.btc_pending_infos EXCEPT ![t] = None]
      BY <1>1, <1>5 DEF accounts, infos
    <2> HIDE DEF changed
    <2>2. QED
      BY <2>1, InfoRemoved
  <1>8. SameOrders /\ SameOutputs
    BY <1>5, FrameViews DEF SameOrders, SameOutputs, Lists
  <1>9. info.kind = "refund" => o \in Claimed /\ Refunds[o] # "open"
    <2>1. info.kind = "refund" => o \in Refunding
      BY <1>1, <1>2 DEF Refunding
    <2>2. QED
      BY <2>1, <1>2 DEF IInv, OutputsInv
  <1>10. \A p \in Output : Refunds'[p] = Refunds[p] \/ Refunds'[p] = "none"
    BY <1>4, <1>6 DEF Refunds
  <1>11. OutputsInv'
    BY <1>1, <1>7, <1>8, <1>10 DEF IInv, OutputsInv, SameOutputs
  <1>12. R!Next
    <2>1. t \in Signed[a] /\ t \notin Waiting[a]
      BY <1>1, <1>7 DEF IInv, EntriesInv, IdsAt
    <2>2. Waiting' = Waiting
      <3>1. Waiting[a] \ {t} = Waiting[a]
        BY <2>1
      <3>2. [Waiting EXCEPT ![a] = Waiting[a]] = Waiting
        BY DEF Waiting
      <3>3. QED
        BY <1>7, <3>1, <3>2
    <2>3. Refunds[o] \in {"none", "open", "executed"}
      BY <1>3 DEF StatusOf
    <2>4. \/ Refunds' = Refunds
          \/ Refunds[o] = "executed" /\ Refunds' = [Refunds EXCEPT ![o] = "none"]
      <3>1. CASE Refunds[o] = "executed" /\ info.kind = "refund"
        BY <1>4, <1>6, <3>1
      <3>2. CASE ~(Refunds[o] = "executed" /\ info.kind = "refund")
        <4>1. StatusOf(r) = Refunds[o]
          BY <1>4, <1>9, <2>3, <3>2
        <4>2. QED
          BY <4>1, <1>6 DEF Refunds
      <3>3. QED
        BY <3>1, <3>2
    <2> HIDE DEF a, o
    <2>5. QED
      BY <1>2, <1>7, <1>8, <2>1, <2>2, <2>4, SettleStep
  <1>13. QED
    BY <1>6, <1>7, <1>11, <1>12 DEF Good, IInv

LEMMA RemoveRefundPendingTxIdGood ==
    ASSUME IInv, NEW t \in Tx, RemoveRefundPendingTxId(t)
    PROVE  Good
  <1> DEFINE info == data.btc_pending_infos[t]
             a == info.account_id
             accounts == RemoveId(data.accounts, a, t, {})
             infos == [data.btc_pending_infos EXCEPT ![t] = None]
  <1>1. /\ Ready /\ version' = version /\ zcash' = zcash
        /\ data' = [data EXCEPT !.btc_pending_infos = infos, !.accounts = accounts]
        /\ info # None
        /\ callbacks' = callbacks /\ lost' = lost
    BY DEF RemoveRefundPendingTxId, Handled, NoCallback, At
  <1> HIDE DEF accounts, infos
  <1>2. /\ Frame({"accounts", "btc_pending_infos"})
        /\ data'.accounts = accounts /\ data'.btc_pending_infos = infos
    BY <1>1, FieldList DEF IInv, LayoutInv, Shape, Frame, Registers, Lists
  <1>3. LayoutInv'
    BY <1>1, <1>2, FrameLayout DEF IInv, Lists
  <1>4. /\ a \in Account
        /\ EntriesInv'
        /\ Waiting' = [Waiting EXCEPT ![a] = @ \ {t}]
        /\ Signed' = [Signed EXCEPT ![a] = @ \ {t}]
        /\ t \in Waiting[a] \cup Signed[a]
        /\ \A p \in Refunding' : p \in Refunding
    BY <1>1, <1>2, InfoRemoved DEF accounts, infos
  <1>5. /\ Refunds' = Refunds /\ SameOrders /\ SameOutputs
    BY <1>2, FrameViews DEF SameOrders, SameOutputs, Lists
  <1>6. OutputsInv'
    BY <1>1, <1>4, <1>5 DEF IInv, OutputsInv, SameOutputs
  <1> HIDE DEF a
  <1>7. R!Next
    BY <1>4, <1>5, DropStep
  <1>8. QED
    BY <1>3, <1>4, <1>6, <1>7 DEF Good, IInv

LEMMA RequestGood ==
    ASSUME IInv, NEW o \in Output,
           RequestRefundCallback(o) \/ \E is_privileged \in BOOLEAN : RejectRefund(o, is_privileged)
    PROVE  Good
  <1>1. PICK r \in VRefundRequest \cup {None} :
            /\ Ready /\ version' = version /\ zcash' = zcash
            /\ data' = [data EXCEPT !.refund_requests[o] = r]
            /\ callbacks' = callbacks /\ lost' = lost
            /\ \/ /\ o \notin Claimed /\ Refunds[o] = "none" /\ StatusOf(r) = "open"
               \/ Refunds[o] = "open" /\ StatusOf(r) = "none"
    <2>0. Ready
      BY DEF RequestRefundCallback, RejectRefund, Handled
    <2>1. /\ data.refund_requests[o] \in VRefundRequest \cup {None}
          /\ Refunds[o] = StatusOf(data.refund_requests[o])
      BY <2>0, ReadyValues DEF IInv
    <2>2. CASE RequestRefundCallback(o)
      <3>1. RefundRequest(FALSE) \in VRefundRequest /\ StatusOf(RefundRequest(FALSE)) = "open"
        BY RequestValues DEF VRefundRequest
      <3>2. o \notin Claimed /\ Refunds[o] = "none"
        BY <2>1, <2>2, RequestValues DEF RequestRefundCallback, Claimed
      <3> DEFINE r == RefundRequest(FALSE)
      <3>3. /\ Ready /\ version' = version /\ zcash' = zcash
            /\ data' = [data EXCEPT !.refund_requests[o] = r]
            /\ callbacks' = callbacks /\ lost' = lost
        BY <2>2 DEF RequestRefundCallback, Handled, NoCallback
      <3>4. r \in VRefundRequest \cup {None} /\ StatusOf(r) = "open"
        BY <3>1
      <3> HIDE DEF r
      <3>5. QED
        BY <3>2, <3>3, <3>4
    <2>3. ASSUME NEW is_privileged \in BOOLEAN, RejectRefund(o, is_privileged)
          PROVE  /\ Refunds[o] = "open"
                 /\ version' = version /\ zcash' = zcash
                 /\ data' = [data EXCEPT !.refund_requests[o] = None]
                 /\ callbacks' = callbacks /\ lost' = lost
      <3>1. data.refund_requests[o] \in VRefundRequest
        BY <2>1, <2>3 DEF RejectRefund
      <3>2. ~RefundRequestFrom(data.refund_requests[o]).executed
        BY <2>3 DEF RejectRefund
      <3>3. Refunds[o] # "none" /\ Refunds[o] # "executed"
        BY <2>1, <3>1, <3>2, RequestValues
      <3>4. Refunds[o] = "open"
        BY <2>1, <3>3 DEF StatusOf
      <3>5. QED
        BY <2>3, <3>4 DEF RejectRefund, Handled, NoCallback
    <2>4. QED
      BY <2>0, <2>2, <2>3, RequestValues
  <1> DEFINE requests == [data.refund_requests EXCEPT ![o] = r]
  <1>2. data' = [data EXCEPT !.refund_requests = requests]
    BY <1>1
  <1> HIDE DEF requests
  <1>3. Frame({"refund_requests"}) /\ data'.refund_requests = requests
    BY <1>1, <1>2, FieldList DEF IInv, LayoutInv, Shape, Frame, Registers, Lists
  <1>4. LayoutInv' /\ Refunds' = [Refunds EXCEPT ![o] = StatusOf(r)]
    BY <1>1, <1>3, PutRequest DEF IInv, Lists, requests
  <1>5. /\ SameEntries /\ SameOrders /\ SameOutputs /\ Refunding' = Refunding
    BY <1>3, FrameViews DEF SameOrders, SameOutputs, Lists
  <1>6. EntriesInv'
    BY <1>3, <1>5, EntriesKept DEF IInv, EntriesInv, Frame, Registers
  <1>7. OutputsInv'
    <2>1. o \notin Claimed \/ Refunds[o] = "open"
      BY <1>1
    <2>2. o \notin Refunding /\ Refunds[o] # "executed"
      BY <1>1, <2>1 DEF IInv, OutputsInv
    <2>3. \A p \in Output : p # o => Refunds'[p] = Refunds[p]
      BY <1>4 DEF Refunds
    <2>4. Refunds'[o] # "executed"
      BY <1>1, <1>4 DEF Refunds
    <2>5. QED
      BY <1>1, <1>5, <2>2, <2>3, <2>4 DEF IInv, OutputsInv, SameOutputs
  <1>8. R!Next
    BY <1>1, <1>4, <1>5, RequestStep
  <1>9. QED
    BY <1>4, <1>6, <1>7, <1>8 DEF Good, IInv

\* A callback that finds no state loses the mint that succeeded.
LEMMA MintCallbackPanicsGood ==
    ASSUME IInv, NEW o \in Output, MintCallbackPanics(o)
    PROVE  Good
  <1>1. /\ version' = version /\ zcash' = zcash /\ data' = data
        /\ callbacks[o] # None /\ callbacks' = [callbacks EXCEPT ![o] = None]
        /\ lost' \in {lost, lost \cup {o}}
    BY DEF MintCallbackPanics
  <1>2. LayoutInv'
    BY <1>1 DEF IInv, LayoutInv, Shape, LimitsOK, RequestsOK, ListsOK, Present
  <1>3. /\ SameEntries /\ SameOrders /\ SameOutputs /\ Refunds' = Refunds
        /\ Refunding' = Refunding
    BY <1>1, AccountsDecide, RequestsDecide, OrdersDecide
    DEF SameOutputs, Held, Claimed, Refunding
  <1>4. EntriesInv'
    BY <1>1, <1>3 DEF IInv, EntriesInv, SameEntries
  <1>5. OutputsInv'
    BY <1>1, <1>3 DEF IInv, OutputsInv, SameOutputs
  <1>6. QED
    BY <1>2, <1>3, <1>4, <1>5, SameRegistersStutter DEF Good, IInv

LEMMA UpDeployCodeGood ==
    ASSUME IInv, NEW migrate \in BOOLEAN, UpDeployCode(migrate)
    PROVE  Good
  <1>0. callbacks' = callbacks /\ lost' = lost /\ zcash' = zcash
    BY DEF UpDeployCode
  <1>1. /\ LayoutInv' /\ SameEntries /\ SameOrders /\ SameOutputs /\ Refunds' = Refunds
        /\ data'.accounts = data.accounts
        /\ data'.btc_pending_infos = data.btc_pending_infos
    <2>1. CASE migrate
      <3>1. Upgrade
        BY <2>1 DEF UpDeployCode, Upgrade
      <3>2. QED
        BY <3>1, UpgradeLayout, UpgradeViews DEF IInv
    <2>2. CASE ~migrate
      <3>1. version' = version /\ data' = data
        BY <2>2 DEF UpDeployCode
      <3>2. LayoutInv'
        BY <1>0, <3>1 DEF IInv, LayoutInv, Shape, LimitsOK, RequestsOK, ListsOK, Present
      <3>3. QED
        BY <3>1, <3>2, AccountsDecide, RequestsDecide, OrdersDecide
        DEF SameOutputs, Held, Claimed
    <2>3. QED
      BY <2>1, <2>2
  <1>2. Refunding' = Refunding
    BY <1>1 DEF Refunding
  <1>3. EntriesInv'
    BY <1>1 DEF IInv, EntriesInv, SameEntries
  <1>4. OutputsInv'
    BY <1>0, <1>1, <1>2 DEF IInv, OutputsInv, SameOutputs
  <1>5. QED
    BY <1>1, <1>3, <1>4, SameRegistersStutter DEF Good, IInv

LEMMA NextGood ==
    ASSUME IInv, [Next]_vars
    PROVE  Good
  <1>1. CASE vars' = vars
    <2>1. /\ version' = version /\ zcash' = zcash /\ data' = data
          /\ callbacks' = callbacks /\ lost' = lost
      BY <1>1 DEF vars
    <2>2. /\ SameEntries /\ SameOrders /\ SameOutputs /\ Refunds' = Refunds
          /\ Refunding' = Refunding
      BY <2>1, AccountsDecide, RequestsDecide, OrdersDecide
      DEF SameOutputs, Held, Claimed, Refunding
    <2>3. LayoutInv'
      BY <2>1 DEF IInv, LayoutInv, Shape, LimitsOK, RequestsOK, ListsOK, Present
    <2>4. EntriesInv'
      BY <2>1, <2>2 DEF IInv, EntriesInv, SameEntries
    <2>5. OutputsInv'
      BY <2>1, <2>2 DEF IInv, OutputsInv, SameOutputs
    <2>6. QED
      BY <2>2, <2>3, <2>4, <2>5, SameRegistersStutter DEF Good, IInv
  <1>2. CASE \E migrate \in BOOLEAN : UpDeployCode(migrate)
    BY <1>2, UpDeployCodeGood
  <1>3. ASSUME NEW a \in Account,
               \/ RegisterAccount(a)
               \/ \E n \in Limit \cup {None} : SetPendingTxLimit(a, n)
               \/ \E list \in Lists : Extend(list, a) \/ Remove(list, a)
        PROVE  Good
    BY <1>3, RegisterAccountGood, SetPendingTxLimitGood, ListGood
  <1>4. ASSUME NEW a \in Account, NEW o \in Output,
               MintCallback(o, a) \/ CompleteFailedDepositMint(o, a)
        PROVE  Good
    BY <1>4, MintCallbackGood, CompleteFailedDepositMintGood
  <1>5. ASSUME NEW a \in Account, NEW o \in Output, NEW t \in Tx,
               CreateBtcPendingInfo(a, t, o) \/ ExecuteRefund(a, t, o)
        PROVE  Good
    BY <1>5, CreateBtcPendingInfoGood, ExecuteRefundGood
  <1>6. ASSUME NEW t \in Tx, FinishSigning(t) \/ Finish(t) \/ RemoveRefundPendingTxId(t)
        PROVE  Good
    BY <1>6, FinishSigningGood, FinishGood, RemoveRefundPendingTxIdGood
  <1>7. ASSUME NEW o \in Output,
               \/ MintCallbackPanics(o) \/ VerifyDepositCallback(o) \/ RequestRefundCallback(o)
               \/ \E is_privileged \in BOOLEAN : RejectRefund(o, is_privileged)
        PROVE  Good
    BY <1>7, MintCallbackPanicsGood, VerifyDepositCallbackGood, RequestGood
  <1>8. QED
    BY <1>1, <1>2, <1>3, <1>4, <1>5, <1>6, <1>7 DEF Next

-----------------------------------------------------------------------------
(* The config, the mints under way and the ring, in states of every age.   *)

ConfigInv ==
    /\ data.config = [g \in ConfigFields |-> data.config[g]]
    /\ \A g \in ConfigFieldsOf(ConfigLayout(version, zcash)) :
        IF g = "chain" THEN data.config[g] = HomeChain ELSE data.config[g] \in Nat

ProgressInv == Present("utxos_in_progress") => data.utxos_in_progress \in SUBSET Output

FreshRing(config) == [capacity |-> capacity_for(config), sats |-> 0]

Ring(config, S) ==
    [capacity |-> capacity_for(config), sats |-> SumFunctionOnSet(Balance, S)]

\* A mint under way is counted just if its callback will take it back, and a
\* state that is not migrated has counted nothing.
RingInv ==
    /\ counted \subseteq Claimed /\ IsFiniteSet(counted)
    /\ IF Ready THEN data.block_bridge_amounts = Ring(data.config, counted) ELSE counted = {}
    /\ \A o \in Output : callbacks[o] # None => (callbacks[o].bumped <=> o \in counted)

KeptInv == ConfigInv /\ ProgressInv /\ RingInv

\* What most handlers do to these parts: nothing, but end a mint or claim more.
Quiet ==
    /\ version' = version /\ zcash' = zcash /\ counted' = counted
    /\ data'.config = data.config
    /\ data'.block_bridge_amounts = data.block_bridge_amounts
    /\ data'.utxos_in_progress \in {data.utxos_in_progress}
            \cup {data.utxos_in_progress \ {o} : o \in Output}
    /\ Claimed \subseteq Claimed'
    /\ \A o \in Output : callbacks'[o] # None => callbacks'[o] = callbacks[o]

LEMMA QuietKeeps ==
    ASSUME KeptInv, Quiet
    PROVE  KeptInv'
  <1>1. ConfigInv'
    BY DEF KeptInv, ConfigInv, Quiet
  <1>2. ProgressInv'
    BY DEF KeptInv, ProgressInv, Quiet, Present
  <1>3. RingInv'
    <2>1. counted' \subseteq Claimed' /\ IsFiniteSet(counted')
      BY DEF KeptInv, RingInv, Quiet
    <2>2. Ready' <=> Ready
      BY DEF Quiet, Ready
    <2>3. Ring(data.config, counted)' = Ring(data.config, counted)
      BY DEF Quiet, Ring, capacity_for
    <2>4. IF Ready' THEN data'.block_bridge_amounts = Ring(data.config, counted)'
          ELSE counted' = {}
      BY <2>2, <2>3 DEF KeptInv, RingInv, Quiet
    <2>5. \A o \in Output : callbacks'[o] # None => (callbacks'[o].bumped <=> o \in counted')
      BY DEF KeptInv, RingInv, Quiet
    <2>6. QED
      BY <2>1, <2>4, <2>5 DEF RingInv
  <1>4. QED
    BY <1>1, <1>2, <1>3 DEF KeptInv

\* A step that writes this value to this field.
WritesField(f, value) ==
    /\ version' = version /\ zcash' = zcash /\ counted' = counted /\ callbacks' = callbacks
    /\ data' = [data EXCEPT ![f] = value]

\* The calls that write neither the deposits nor the ring.
LEMMA AccountCallsQuiet ==
    ASSUME Shape, NEW a \in Account,
           \/ RegisterAccount(a)
           \/ \E n \in Limit \cup {None} : SetPendingTxLimit(a, n)
           \/ \E list \in Lists : Extend(list, a) \/ Remove(list, a)
    PROVE  Quiet
  <1>1. PICK f, value : f \in {"accounts", "pending_tx_limits"} \cup Lists /\ WritesField(f, value)
    <2>1. CASE RegisterAccount(a)
      <3>1. WritesField("accounts", WithAccount(data.accounts, a))
        BY <2>1 DEF RegisterAccount, Handled, NoCallback, WritesField
      <3>2. QED
        BY <3>1
    <2>2. ASSUME NEW n \in Limit \cup {None}, SetPendingTxLimit(a, n)
          PROVE  \E value : WritesField("pending_tx_limits", value)
      <3>1. WritesField("pending_tx_limits", [data.pending_tx_limits EXCEPT ![a] = n])
        BY <2>2 DEF SetPendingTxLimit, Handled, NoCallback, WritesField
      <3>2. QED
        BY ONLY <3>1
    <2>3. ASSUME NEW list \in Lists, Extend(list, a) \/ Remove(list, a)
          PROVE  \E value : WritesField(list, value)
      <3>1. WritesField(list, data[list] \cup {a}) \/ WritesField(list, data[list] \ {a})
        BY <2>3 DEF Extend, Remove, Handled, NoCallback, WritesField
      <3>2. QED
        BY ONLY <3>1
    <2>4. QED
      BY <2>1, <2>2, <2>3
  <1>2. f \notin {"config", "block_bridge_amounts", "utxos_in_progress", "verified_deposit_utxo"}
    BY <1>1 DEF Lists
  <1>3. QED
    BY <1>1, <1>2, FieldList DEF Shape, Quiet, Claimed, Registers, WritesField

LEMMA CreateBtcPendingInfoQuiet ==
    ASSUME Shape, NEW a \in Account, NEW t \in Tx, NEW o \in Output,
           CreateBtcPendingInfo(a, t, o)
    PROVE  Quiet
  <1> DEFINE accounts == AddId(data.accounts, a, t)
             infos == Pending(a, t, o, "withdraw")
             utxos == data.utxos \ {o}
  <1>1. /\ version' = version /\ zcash' = zcash /\ counted' = counted
        /\ callbacks' = callbacks
        /\ data' = [data EXCEPT !.accounts = accounts, !.btc_pending_infos = infos,
                                !.utxos = utxos]
    BY DEF CreateBtcPendingInfo, Handled, NoCallback
  <1> HIDE DEF accounts, infos, utxos
  <1>2. QED
    BY <1>1, FieldList DEF Shape, Quiet, Claimed, Registers

LEMMA ExecuteRefundQuiet ==
    ASSUME Shape, NEW a \in Account, NEW t \in Tx, NEW o \in Output, ExecuteRefund(a, t, o)
    PROVE  Quiet
  <1> DEFINE accounts == AddId(data.accounts, a, t)
             infos == Pending(a, t, o, "refund")
             requests == [data.refund_requests EXCEPT ![o] = RefundRequest(TRUE)]
             claims == data.verified_deposit_utxo \cup {o}
  <1>1. /\ version' = version /\ zcash' = zcash /\ counted' = counted
        /\ callbacks' = callbacks
        /\ data' = [data EXCEPT !.accounts = accounts, !.btc_pending_infos = infos,
                                !.verified_deposit_utxo = claims,
                                !.refund_requests = requests]
    BY DEF ExecuteRefund, Handled, NoCallback
  <1>2. Claimed \subseteq claims
    BY DEF Claimed
  <1> HIDE DEF accounts, infos, requests, claims
  <1>3. QED
    BY <1>1, <1>2, FieldList DEF Shape, Quiet, Claimed, Registers

\* A step that writes these values; a call with no business in the requests
\* names no value of theirs.
Writes(accounts, infos, requests) ==
    /\ version' = version /\ zcash' = zcash /\ counted' = counted /\ callbacks' = callbacks
    /\ \/ data' = [data EXCEPT !.btc_pending_infos = infos, !.accounts = accounts]
       \/ data' = [data EXCEPT !.btc_pending_infos = infos, !.accounts = accounts,
                               !.refund_requests = requests]

LEMMA TransactionCallsQuiet ==
    ASSUME Shape, NEW t \in Tx, FinishSigning(t) \/ Finish(t) \/ RemoveRefundPendingTxId(t)
    PROVE  Quiet
  <1>1. PICK accounts, infos, requests : Writes(accounts, infos, requests)
    <2> DEFINE info == data.btc_pending_infos[t]
               dropped == [data.btc_pending_infos EXCEPT ![t] = None]
               without == RemoveId(data.accounts, info.account_id, t, {})
    <2>1. CASE FinishSigning(t)
      <3> DEFINE infos == [data.btc_pending_infos EXCEPT ![t].stage = "PendingVerify"]
                 accounts == RemoveId(data.accounts, info.account_id, t, {t})
      <3>1. Writes(accounts, infos, {})
        BY <2>1 DEF FinishSigning, Handled, NoCallback, Writes
      <3>2. QED
        BY ONLY <3>1
    <2>2. CASE Finish(t)
      <3> DEFINE requests == [data.refund_requests EXCEPT
                    ![info.input] = IF info.kind = "refund" THEN None ELSE @]
      <3>1. Writes(without, dropped, requests)
        BY <2>2 DEF Finish, Handled, NoCallback, Writes
      <3>2. QED
        BY ONLY <3>1
    <2>3. CASE RemoveRefundPendingTxId(t)
      <3>1. Writes(without, dropped, {})
        BY <2>3 DEF RemoveRefundPendingTxId, Handled, NoCallback, Writes
      <3>2. QED
        BY ONLY <3>1
    <2>4. QED
      BY <2>1, <2>2, <2>3
  <1>2. QED
    BY <1>1, FieldList DEF Shape, Quiet, Claimed, Registers, Writes

LEMMA RequestCallsQuiet ==
    ASSUME Shape, NEW o \in Output,
           RequestRefundCallback(o) \/ \E is_privileged \in BOOLEAN : RejectRefund(o, is_privileged)
    PROVE  Quiet
  <1>1. PICK request :
            /\ version' = version /\ zcash' = zcash /\ counted' = counted
            /\ callbacks' = callbacks
            /\ data' = [data EXCEPT !.refund_requests[o] = request]
    BY DEF RequestRefundCallback, RejectRefund, Handled, NoCallback
  <1> DEFINE requests == [data.refund_requests EXCEPT ![o] = request]
  <1>2. data' = [data EXCEPT !.refund_requests = requests]
    BY <1>1
  <1> HIDE DEF requests
  <1>3. QED
    BY <1>1, <1>2, FieldList DEF Shape, Quiet, Claimed, Registers

LEMMA MintCallbackPanicsQuiet ==
    ASSUME OutputsInv, NEW o \in Output, MintCallbackPanics(o)
    PROVE  Quiet
  BY DEF MintCallbackPanics, Quiet, OutputsInv, Claimed

LEMMA MintEndsQuiet ==
    ASSUME Shape, OutputsInv, NEW a \in Account, NEW o \in Output,
           (callbacks[o].ok /\ MintCallback(o, a)) \/ CompleteFailedDepositMint(o, a)
    PROVE  Quiet
  <1> DEFINE accounts == WithAccount(data.accounts, a)
             progress == data.utxos_in_progress \ {o}
             utxos == data.utxos \cup {o}
  <1>1. /\ version' = version /\ zcash' = zcash /\ counted' = counted
        /\ callbacks' \in {callbacks, [callbacks EXCEPT ![o] = None]}
        /\ data' = [data EXCEPT !.utxos_in_progress = progress, !.accounts = accounts,
                                !.utxos = utxos]
    BY DEF MintCallback, CompleteFailedDepositMint, Handled
  <1>2. progress \in {data.utxos_in_progress \ {p} : p \in Output}
    OBVIOUS
  <1>3. \A p \in Output : callbacks'[p] # None => callbacks'[p] = callbacks[p]
    BY <1>1 DEF OutputsInv
  <1> HIDE DEF accounts, progress, utxos
  <1>4. QED
    BY <1>1, <1>2, <1>3, FieldList DEF Shape, Quiet, Claimed, Registers

LEMMA MaxOfTwo ==
    ASSUME NEW m \in Int, NEW n \in Int
    PROVE  Max({m, n}) = IF m >= n THEN m ELSE n
  <1> DEFINE max == IF m >= n THEN m ELSE n
  <1>1. max \in {m, n} /\ \A k \in {m, n} : max >= k
    OBVIOUS
  <1>2. \A k \in {m, n} : (\A l \in {m, n} : k >= l) => k = max
    OBVIOUS
  <1> HIDE DEF max
  <1>3. Max({m, n}) = max
    BY <1>1, <1>2 DEF Max
  <1>4. QED
    BY <1>3 DEF max

LEMMA CountedSums ==
    ASSUME RingInv, Claimed \subseteq Output
    PROVE  /\ \A o \in Output : Balance[o] \in Nat
           /\ SumFunctionOnSet(Balance, counted) \in Nat
           /\ \A o \in Output \ counted :
                SumFunctionOnSet(Balance, counted \cup {o})
                    = SumFunctionOnSet(Balance, counted) + Balance[o]
           /\ \A o \in counted :
                /\ Balance[o] <= SumFunctionOnSet(Balance, counted)
                /\ SumFunctionOnSet(Balance, counted \ {o})
                    = SumFunctionOnSet(Balance, counted) - Balance[o]
  <1>1. IsFiniteSet(counted) /\ counted \subseteq Output
    BY DEF RingInv
  <1>2. \A o \in Output : Balance[o] \in Nat /\ Balance[o] \in Int
    BY ConstantsAssumption
  <1>3. SumFunctionOnSet(Balance, counted) \in Nat
    BY <1>1, <1>2, SumNat
  <1>4. ASSUME NEW o \in Output \ counted
        PROVE  SumFunctionOnSet(Balance, counted \cup {o})
                = SumFunctionOnSet(Balance, counted) + Balance[o]
    BY <1>1, <1>2, SumAdd
  <1>5. ASSUME NEW o \in counted
        PROVE  /\ Balance[o] <= SumFunctionOnSet(Balance, counted)
               /\ SumFunctionOnSet(Balance, counted \ {o})
                    = SumFunctionOnSet(Balance, counted) - Balance[o]
    <2>1. Balance[o] <= SumFunctionOnSet(Balance, counted)
      BY <1>1, <1>2, SumElement
    <2>2. SumFunctionOnSet(Balance, counted)
            = Balance[o] + SumFunctionOnSet(Balance, counted \ {o})
      BY <1>1, <1>2, SumRemove
    <2>3. SumFunctionOnSet(Balance, counted \ {o}) \in Nat
      <3>1. IsFiniteSet(counted \ {o})
        BY <1>1, FS_Subset
      <3>2. QED
        BY <1>1, <1>2, <3>1, SumNat
    <2>4. Balance[o] \in Nat
      BY <1>1, <1>2
    <2>5. QED
      BY <1>3, <2>1, <2>2, <2>3, <2>4
  <1>6. QED
    BY <1>2, <1>3, <1>4, <1>5

LEMMA VerifyDepositCallbackKeeps ==
    ASSUME IInv, KeptInv, NEW o \in Output, VerifyDepositCallback(o)
    PROVE  KeptInv'
  <1> DEFINE claims == data.verified_deposit_utxo \cup {o}
             progress == data.utxos_in_progress \cup {o}
             ring == [data.block_bridge_amounts EXCEPT !.sats = @ + Balance[o]]
  <1>1. /\ Ready /\ version' = version /\ zcash' = zcash
        /\ data' = [data EXCEPT !.verified_deposit_utxo = claims, !.utxos_in_progress = progress,
                                !.block_bridge_amounts = ring]
        /\ o \notin Claimed /\ counted' = counted \cup {o}
        /\ \E ok \in BOOLEAN : callbacks' = [callbacks EXCEPT ![o] = [bumped |-> TRUE, ok |-> ok]]
    BY DEF VerifyDepositCallback, Handled, Claimed
  <1>2. Present("utxos_in_progress") => progress \in SUBSET Output
    BY DEF KeptInv, ProgressInv
  <1>3. claims = Claimed \cup {o}
    BY DEF Claimed
  <1>4. ring = Ring(data.config, counted \cup {o})
    <2>1. SumFunctionOnSet(Balance, counted \cup {o})
            = SumFunctionOnSet(Balance, counted) + Balance[o]
      BY <1>1, CountedSums DEF KeptInv, RingInv, IInv, OutputsInv
    <2>2. data.block_bridge_amounts = Ring(data.config, counted)
      BY <1>1 DEF KeptInv, RingInv
    <2>3. QED
      BY <2>1, <2>2 DEF Ring
  <1> HIDE DEF claims, progress, ring
  <1>5. /\ data'.config = data.config /\ Claimed' = Claimed \cup {o}
        /\ data'.utxos_in_progress = progress /\ data'.block_bridge_amounts = ring
    BY <1>1, <1>3, FieldList DEF IInv, LayoutInv, Shape, Claimed, Registers
  <1>6. ConfigInv' /\ ProgressInv'
    BY <1>1, <1>2, <1>5 DEF KeptInv, ConfigInv, ProgressInv, Present
  <1>7. counted' \subseteq Claimed' /\ IsFiniteSet(counted')
    BY <1>1, <1>5, FS_AddElement DEF KeptInv, RingInv
  <1>8. Ready' /\ data'.block_bridge_amounts = Ring(data.config, counted)'
    BY <1>1, <1>4, <1>5 DEF Ready, Ring, capacity_for
  <1>9. \A p \in Output : callbacks'[p] # None => (callbacks'[p].bumped <=> p \in counted')
    BY <1>1 DEF KeptInv, RingInv, IInv, OutputsInv
  <1>10. QED
    BY <1>6, <1>7, <1>8, <1>9 DEF KeptInv, RingInv

\* The callback of a failed mint takes back what was counted, if it was.
LEMMA MintCallbackKeeps ==
    ASSUME IInv, KeptInv, NEW o \in Output, NEW a \in Account,
           MintCallback(o, a), ~callbacks[o].ok
    PROVE  KeptInv'
  <1> DEFINE progress == data.utxos_in_progress \ {o}
             claims == data.verified_deposit_utxo \ {o}
             ring == Unbumped(data.block_bridge_amounts, o, callbacks[o].bumped)
  <1>1. /\ Ready /\ version' = version /\ zcash' = zcash
        /\ data' = [data EXCEPT !.utxos_in_progress = progress,
                                !.verified_deposit_utxo = claims,
                                !.block_bridge_amounts = ring]
        /\ counted' = counted \ {o}
        /\ callbacks[o] # None /\ callbacks' = [callbacks EXCEPT ![o] = None]
    BY DEF MintCallback, Handled
  <1>2. Present("utxos_in_progress") => progress \in SUBSET Output
    BY DEF KeptInv, ProgressInv
  <1>3. claims = Claimed \ {o}
    BY DEF Claimed
  <1>4. ring = Ring(data.config, counted \ {o})
    <2>1. data.block_bridge_amounts = Ring(data.config, counted)
      BY <1>1 DEF KeptInv, RingInv
    <2>2. callbacks[o].bumped <=> o \in counted
      BY <1>1 DEF KeptInv, RingInv
    <2>3. CASE o \notin counted
      <3>1. counted \ {o} = counted
        BY <2>3
      <3>2. QED
        BY <2>1, <2>2, <2>3, <3>1 DEF Unbumped
    <2>4. CASE o \in counted
      <3> DEFINE sats == SumFunctionOnSet(Balance, counted)
      <3>1. /\ Balance[o] \in Nat /\ sats \in Nat /\ Balance[o] <= sats
            /\ SumFunctionOnSet(Balance, counted \ {o}) = sats - Balance[o]
        BY <2>4, CountedSums DEF KeptInv, RingInv, IInv, OutputsInv
      <3> HIDE DEF sats
      <3>2. Max({0, sats - Balance[o]}) = sats - Balance[o]
        BY <3>1, MaxOfTwo
      <3>3. Ring(data.config, counted).sats = sats
        BY DEF Ring, sats
      <3>4. ring = [Ring(data.config, counted) EXCEPT !.sats = sats - Balance[o]]
        BY <2>1, <2>2, <2>4, <3>2, <3>3 DEF Unbumped
      <3>5. QED
        BY <3>1, <3>4 DEF Ring
    <2>5. QED
      BY <2>3, <2>4
  <1> HIDE DEF claims, progress, ring
  <1>5. /\ data'.config = data.config /\ Claimed' = Claimed \ {o}
        /\ data'.utxos_in_progress = progress /\ data'.block_bridge_amounts = ring
    BY <1>1, <1>3, FieldList DEF IInv, LayoutInv, Shape, Claimed, Registers
  <1>6. ConfigInv' /\ ProgressInv'
    BY <1>1, <1>2, <1>5 DEF KeptInv, ConfigInv, ProgressInv, Present
  <1>7. counted' \subseteq Claimed' /\ IsFiniteSet(counted')
    BY <1>1, <1>5, FS_Subset DEF KeptInv, RingInv
  <1>8. Ready' /\ data'.block_bridge_amounts = Ring(data.config, counted)'
    BY <1>1, <1>4, <1>5 DEF Ready, Ring, capacity_for
  <1>9. \A p \in Output : callbacks'[p] # None => (callbacks'[p].bumped <=> p \in counted')
    BY <1>1 DEF KeptInv, RingInv, IInv, OutputsInv
  <1>10. QED
    BY <1>6, <1>7, <1>8, <1>9 DEF KeptInv, RingInv

-----------------------------------------------------------------------------
(* The upgrades complete the config and start the ring.                    *)

Complete(config) ==
    /\ config = [g \in ConfigFields |-> config[g]]
    /\ config.chain = HomeChain
    /\ \A g \in ConfigFields \ {"chain"} : config[g] \in Nat

LEMMA ConfigFieldList ==
    /\ ConfigFieldsOf(0) = {"confirmations", "confirmations_delta"}
    /\ ConfigFieldsOf(1) = ConfigFieldsOf(0) \cup {"extra_msg_confirmations_delta"}
    /\ ConfigFieldsOf(2) = ConfigFieldsOf(1) \cup {"chain"}
    /\ ConfigFieldsOf(3) = ConfigFieldsOf(2) \cup {"refund_timelock_sec"}
    /\ ConfigFields = ConfigFieldsOf(3) \cup {"unsafe_refund_timelock_sec"}
  BY DEF ConfigFields, ConfigFieldsOf

\* The config of each layout, and what its conversion adds.
ConfigOf(layout, c) ==
    /\ c = [g \in ConfigFields |-> c[g]]
    /\ \A g \in ConfigFieldsOf(layout) : IF g = "chain" THEN c[g] = HomeChain ELSE c[g] \in Nat

LEMMA Conversions ==
    ASSUME NEW c
    PROVE  /\ ConfigOf(4, c) => Complete(c)
           /\ ConfigOf(3, c) => Complete(FromConfigV3(c))
           /\ ConfigOf(2, c) => Complete(FromConfigV2(c))
           /\ ConfigOf(1, c) => Complete(FromConfigV1(c))
           /\ ConfigOf(0, c) => Complete(FromConfigV0(c))
  <1>1. ConfigOf(4, c) => Complete(c)
    BY ConfigFieldList DEF ConfigOf, Complete, ConfigFields
  <1>2. ConfigOf(3, c) => Complete(FromConfigV3(c))
    BY ConfigFieldList DEF ConfigOf, Complete, FromConfigV3, DEFAULT_UNSAFE_REFUND_TIMELOCK_SEC
  <1>d. /\ DEFAULT_REFUND_TIMELOCK_SEC \in Nat /\ DEFAULT_UNSAFE_REFUND_TIMELOCK_SEC \in Nat
        /\ 1 \in Nat
    BY DEF DEFAULT_REFUND_TIMELOCK_SEC, DEFAULT_UNSAFE_REFUND_TIMELOCK_SEC
  <1>3. ASSUME ConfigOf(2, c) PROVE Complete(FromConfigV2(c))
    <2> DEFINE c1 == [c EXCEPT !.refund_timelock_sec = DEFAULT_REFUND_TIMELOCK_SEC]
               c2 == [c1 EXCEPT !.unsafe_refund_timelock_sec = DEFAULT_UNSAFE_REFUND_TIMELOCK_SEC]
    <2>0. c = [g \in ConfigFields |-> c[g]]
      BY <1>3 DEF ConfigOf
    <2>1. /\ c1 = [g \in ConfigFields |-> c1[g]]
          /\ \A g \in ConfigFields : c1[g] =
                IF g = "refund_timelock_sec" THEN DEFAULT_REFUND_TIMELOCK_SEC ELSE c[g]
      BY <2>0
    <2> HIDE DEF c1
    <2>2. /\ c2 = [g \in ConfigFields |-> c2[g]]
          /\ \A g \in ConfigFields : c2[g] =
                IF g = "unsafe_refund_timelock_sec"
                THEN DEFAULT_UNSAFE_REFUND_TIMELOCK_SEC ELSE c1[g]
      BY <2>1
    <2> HIDE DEF c2
    <2>3. FromConfigV2(c) = c2
      BY DEF FromConfigV2, c1, c2
    <2>4. Complete(c2)
      BY <1>d, <1>3, <2>1, <2>2, ConfigFieldList DEF ConfigOf, Complete
    <2>5. QED
      BY <2>3, <2>4
  <1>4. ASSUME ConfigOf(1, c) PROVE Complete(FromConfigV1(c))
    <2> DEFINE c1 == [c EXCEPT !.chain = HomeChain]
               c2 == [c1 EXCEPT !.refund_timelock_sec = DEFAULT_REFUND_TIMELOCK_SEC]
               c3 == [c2 EXCEPT !.unsafe_refund_timelock_sec = DEFAULT_UNSAFE_REFUND_TIMELOCK_SEC]
    <2>0. c = [g \in ConfigFields |-> c[g]]
      BY <1>4 DEF ConfigOf
    <2>1. /\ c1 = [g \in ConfigFields |-> c1[g]]
          /\ \A g \in ConfigFields : c1[g] = IF g = "chain" THEN HomeChain ELSE c[g]
      BY <2>0
    <2> HIDE DEF c1
    <2>2. /\ c2 = [g \in ConfigFields |-> c2[g]]
          /\ \A g \in ConfigFields : c2[g] =
                IF g = "refund_timelock_sec" THEN DEFAULT_REFUND_TIMELOCK_SEC ELSE c1[g]
      BY <2>1
    <2> HIDE DEF c2
    <2>3. /\ c3 = [g \in ConfigFields |-> c3[g]]
          /\ \A g \in ConfigFields : c3[g] =
                IF g = "unsafe_refund_timelock_sec"
                THEN DEFAULT_UNSAFE_REFUND_TIMELOCK_SEC ELSE c2[g]
      BY <2>2
    <2> HIDE DEF c3
    <2>4. FromConfigV1(c) = c3
      BY DEF FromConfigV1, c1, c2, c3
    <2>5. Complete(c3)
      BY <1>d, <1>4, <2>1, <2>2, <2>3, ConfigFieldList DEF ConfigOf, Complete
    <2>6. QED
      BY <2>4, <2>5
  <1>5. ASSUME ConfigOf(0, c) PROVE Complete(FromConfigV0(c))
    <2> DEFINE c1 == [c EXCEPT !.chain = HomeChain]
               c2 == [c1 EXCEPT !.extra_msg_confirmations_delta = 1]
               c3 == [c2 EXCEPT !.refund_timelock_sec = DEFAULT_REFUND_TIMELOCK_SEC]
               c4 == [c3 EXCEPT !.unsafe_refund_timelock_sec = DEFAULT_UNSAFE_REFUND_TIMELOCK_SEC]
    <2>0. c = [g \in ConfigFields |-> c[g]]
      BY <1>5 DEF ConfigOf
    <2>1. /\ c1 = [g \in ConfigFields |-> c1[g]]
          /\ \A g \in ConfigFields : c1[g] = IF g = "chain" THEN HomeChain ELSE c[g]
      BY <2>0
    <2> HIDE DEF c1
    <2>2. /\ c2 = [g \in ConfigFields |-> c2[g]]
          /\ \A g \in ConfigFields :
                c2[g] = IF g = "extra_msg_confirmations_delta" THEN 1 ELSE c1[g]
      BY <2>1
    <2> HIDE DEF c2
    <2>3. /\ c3 = [g \in ConfigFields |-> c3[g]]
          /\ \A g \in ConfigFields : c3[g] =
                IF g = "refund_timelock_sec" THEN DEFAULT_REFUND_TIMELOCK_SEC ELSE c2[g]
      BY <2>2
    <2> HIDE DEF c3
    <2>4. /\ c4 = [g \in ConfigFields |-> c4[g]]
          /\ \A g \in ConfigFields : c4[g] =
                IF g = "unsafe_refund_timelock_sec"
                THEN DEFAULT_UNSAFE_REFUND_TIMELOCK_SEC ELSE c3[g]
      BY <2>3
    <2> HIDE DEF c4
    <2>5. FromConfigV0(c) = c4
      BY DEF FromConfigV0, c1, c2, c3, c4
    <2>6. Complete(c4)
      BY <1>d, <1>5, <2>1, <2>2, <2>3, <2>4, ConfigFieldList DEF ConfigOf, Complete
    <2>7. QED
      BY <2>5, <2>6
  <1>6. QED
    BY <1>1, <1>2, <1>3, <1>4, <1>5

\* The state that an upgrade leaves has this config, and starts the mints under
\* way if the layout does not keep them.
MigratesWith(config, fields) ==
    /\ Migrated(data) = Upgraded(data, config, fields)
    /\ Complete(config) /\ "config" \notin fields
    /\ "utxos_in_progress" \in fields \/ Present("utxos_in_progress")

LEMMA MigrationOfEachLayout ==
    ASSUME Shape, ConfigInv, version # Current
    PROVE  \E config, fields : MigratesWith(config, fields)
  <1> DEFINE c == data.config
  <1>c. version \in {0, 1, 2, 3, 4, 5, 6, 7} /\ zcash \in BOOLEAN
    BY DEF Shape, Current
  <1>l. ConfigOf(ConfigLayout(version, zcash), c)
    BY DEF ConfigInv, ConfigOf
  <1>0. CASE version = 0
    <2>1. Complete(c)
      BY <1>0, <1>l, Conversions DEF ConfigLayout
    <2>2. MigratesWith(c, SinceV4 \cup {"extra_msg_relayer_white_list",
                                        "post_action_msg_templates"})
      BY <1>0, <2>1 DEF MigratesWith, Migrated, Current, FromContractDataV0, SinceV4
    <2>3. QED
      BY ONLY <2>2
  <1>1. CASE version = 1
    <2>1. Complete(FromConfigV0(c))
      BY <1>1, <1>l, Conversions DEF ConfigLayout
    <2>2. MigratesWith(FromConfigV0(c), SinceV4 \cup {"extra_msg_relayer_white_list"})
      BY <1>1, <2>1 DEF MigratesWith, Migrated, Current, FromContractDataV1, SinceV4
    <2>3. QED
      BY ONLY <2>2
  <1>2. CASE version = 2
    <2> DEFINE config == IF zcash THEN FromConfigV2(c) ELSE FromConfigV1(c)
    <2>1. Complete(config)
      BY <1>2, <1>c, <1>l, Conversions DEF ConfigLayout
    <2>2. MigratesWith(config, SinceV4)
      BY <1>2, <2>1 DEF MigratesWith, Migrated, Current, FromContractDataV2, SinceV4
    <2>3. QED
      BY ONLY <2>2
  <1>3. CASE version = 3
    <2>1. Complete(FromConfigV2(c))
      BY <1>3, <1>l, Conversions DEF ConfigLayout
    <2>2. MigratesWith(FromConfigV2(c), SinceV4)
      BY <1>3, <2>1 DEF MigratesWith, Migrated, Current, FromContractDataV3, SinceV4
    <2>3. QED
      BY ONLY <2>2
  <1>4. CASE version = 4
    <2>1. Complete(FromConfigV3(c))
      BY <1>4, <1>l, Conversions DEF ConfigLayout
    <2>2. MigratesWith(FromConfigV3(c), {"utxos_in_progress"} \cup RefundRequestsIfZcash)
      BY <1>4, <2>1 DEF MigratesWith, Migrated, Current, FromContractDataV4,
                               RefundRequestsIfZcash
    <2>3. QED
      BY ONLY <2>2
  <1>5. CASE version = 5
    <2>1. Complete(c)
      BY <1>5, <1>l, Conversions DEF ConfigLayout
    <2>2. MigratesWith(c, {"utxos_in_progress"} \cup RefundRequestsIfZcash)
      BY <1>5, <2>1 DEF MigratesWith, Migrated, Current, FromContractDataV5,
                               RefundRequestsIfZcash
    <2>3. QED
      BY ONLY <2>2
  <1>6. CASE version = 6
    <2>1. Complete(c)
      BY <1>6, <1>l, Conversions DEF ConfigLayout
    <2>2. MigratesWith(c, {"utxos_in_progress"})
      BY <1>6, <2>1 DEF MigratesWith, Migrated, Current, FromContractDataV6
    <2>3. QED
      BY ONLY <2>2
  <1>7. CASE version = 7
    <2>1. Complete(c)
      BY <1>7, <1>l, Conversions DEF ConfigLayout
    <2>2. MigratesWith(c, {})
      BY <1>7, <2>1 DEF MigratesWith, Migrated, Current, FromContractDataV7, Present, FieldsOf
    <2>3. QED
      BY ONLY <2>2
  <1>8. QED
    BY <1>c, <1>0, <1>1, <1>2, <1>3, <1>4, <1>5, <1>6, <1>7

LEMMA UpgradedFields ==
    ASSUME NEW c, NEW config, NEW fields,
           {"config", "block_bridge_amounts", "utxos_in_progress"} \subseteq Fields,
           "config" \notin fields
    PROVE  /\ Upgraded(c, config, fields).config = config
           /\ Upgraded(c, config, fields).block_bridge_amounts
                = New("block_bridge_amounts", config)
           /\ Upgraded(c, config, fields).utxos_in_progress =
                IF "utxos_in_progress" \in fields THEN New("utxos_in_progress", config)
                ELSE c.utxos_in_progress
  <1>1. ASSUME NEW f \in Fields, f = "config"
        PROVE  Upgraded(c, config, fields)[f] = config
    <2>1. f \notin fields \cup {"block_bridge_amounts"}
      BY <1>1
    <2>2. QED
      BY <1>1, <2>1 DEF Upgraded
  <1>2. ASSUME NEW f \in Fields, f # "config"
        PROVE  Upgraded(c, config, fields)[f] =
                IF f \in fields \cup {"block_bridge_amounts"} THEN New(f, config) ELSE c[f]
    BY <1>2 DEF Upgraded
  <1>3. QED
    BY <1>1, <1>2

LEMMA UpDeployCodeKeeps ==
    ASSUME IInv, KeptInv, NEW migrate \in BOOLEAN, UpDeployCode(migrate)
    PROVE  KeptInv'
  <1>0. /\ zcash' = zcash /\ callbacks' = callbacks /\ counted' = counted
        /\ Shape
    BY DEF UpDeployCode, IInv, LayoutInv
  <1>1. CASE ~migrate \/ version = Current
    <2>1. version' = version /\ data' = data
      BY <1>1 DEF UpDeployCode, Migrated, Current
    <2>2. Quiet
      BY <1>0, <2>1 DEF Quiet, Claimed
    <2>3. QED
      BY <2>2, QuietKeeps
  <1>2. CASE migrate /\ version # Current
    <2>1. data' = Migrated(data) /\ version' = Current
      BY <1>2 DEF UpDeployCode
    <2>2. PICK config, fields : MigratesWith(config, fields)
      BY <1>0, <1>2, MigrationOfEachLayout DEF KeptInv
    <2>3. /\ data'.config = config
          /\ data'.block_bridge_amounts = New("block_bridge_amounts", config)
          /\ data'.utxos_in_progress =
                IF "utxos_in_progress" \in fields THEN New("utxos_in_progress", config)
                ELSE data.utxos_in_progress
      <3>1. {"config", "block_bridge_amounts", "utxos_in_progress"} \subseteq Fields
        BY FieldList
      <3>2. data' = Upgraded(data, config, fields)
        BY <2>1, <2>2 DEF MigratesWith
      <3>3. QED
        BY <2>2, <3>1, <3>2, UpgradedFields DEF MigratesWith
    <2>4. ConfigInv'
      <3>1. ConfigFieldsOf(ConfigLayout(version, zcash))' = ConfigFields
        BY <2>1 DEF ConfigLayout, ConfigFields, Current
      <3>2. QED
        BY <2>2, <2>3, <3>1 DEF MigratesWith, Complete, ConfigInv
    <2>5. ProgressInv'
      <3>1. data'.utxos_in_progress \in SUBSET Output
        BY <2>2, <2>3 DEF MigratesWith, New, KeptInv, ProgressInv
      <3>2. QED
        BY <3>1 DEF ProgressInv
    <2>6. RingInv'
      <3>1. counted' = {} /\ Ready'
        BY <1>0, <1>2, <2>1 DEF KeptInv, RingInv, Ready
      <3>2. data'.block_bridge_amounts = Ring(data.config, counted)'
        BY <2>3, <3>1, SumEmpty DEF New, Ring, capacity_for
      <3>3. \A o \in Output : callbacks'[o] # None => (callbacks'[o].bumped <=> o \in counted')
        BY <1>0 DEF KeptInv, RingInv
      <3>4. counted' \subseteq Claimed' /\ IsFiniteSet(counted')
        BY <3>1, FS_EmptySet
      <3>5. QED
        BY <3>1, <3>2, <3>3, <3>4 DEF RingInv
    <2>7. QED
      BY <2>4, <2>5, <2>6 DEF KeptInv
  <1>3. QED
    BY <1>1, <1>2

LEMMA NextKeeps ==
    ASSUME IInv, KeptInv, [Next]_vars
    PROVE  KeptInv'
  <1>0. Shape /\ OutputsInv
    BY DEF IInv, LayoutInv
  <1>1. CASE vars' = vars
    <2>1. Quiet
      BY <1>1 DEF vars, Quiet, Claimed
    <2>2. QED
      BY <2>1, QuietKeeps
  <1>2. CASE \E migrate \in BOOLEAN : UpDeployCode(migrate)
    BY <1>2, UpDeployCodeKeeps
  <1>3. ASSUME NEW a \in Account,
               \/ RegisterAccount(a)
               \/ \E n \in Limit \cup {None} : SetPendingTxLimit(a, n)
               \/ \E list \in Lists : Extend(list, a) \/ Remove(list, a)
        PROVE  KeptInv'
    BY <1>0, <1>3, AccountCallsQuiet, QuietKeeps
  <1>4. ASSUME NEW a \in Account, NEW o \in Output,
               MintCallback(o, a) \/ CompleteFailedDepositMint(o, a)
        PROVE  KeptInv'
    BY <1>0, <1>4, MintEndsQuiet, MintCallbackKeeps, QuietKeeps
  <1>5. ASSUME NEW a \in Account, NEW o \in Output, NEW t \in Tx,
               CreateBtcPendingInfo(a, t, o) \/ ExecuteRefund(a, t, o)
        PROVE  KeptInv'
    BY <1>0, <1>5, CreateBtcPendingInfoQuiet, ExecuteRefundQuiet, QuietKeeps
  <1>6. ASSUME NEW t \in Tx, FinishSigning(t) \/ Finish(t) \/ RemoveRefundPendingTxId(t)
        PROVE  KeptInv'
    BY <1>0, <1>6, TransactionCallsQuiet, QuietKeeps
  <1>7. ASSUME NEW o \in Output,
               \/ VerifyDepositCallback(o) \/ RequestRefundCallback(o)
               \/ \E is_privileged \in BOOLEAN : RejectRefund(o, is_privileged)
        PROVE  KeptInv'
    BY <1>0, <1>7, VerifyDepositCallbackKeeps, RequestCallsQuiet, QuietKeeps
  <1>8. ASSUME NEW o \in Output, MintCallbackPanics(o)
        PROVE  KeptInv'
    BY <1>0, <1>8, MintCallbackPanicsQuiet, QuietKeeps
  <1>9. QED
    BY <1>1, <1>2, <1>3, <1>4, <1>5, <1>6, <1>7, <1>8 DEF Next

-----------------------------------------------------------------------------
(* The states an upgrade may find.                                         *)

LEMMA StoredEntries ==
    ASSUME NEW a \in Account, NEW infos \in Infos, NEW v \in 0..Current,
           data.accounts[a] \in AccountEntries(v,
                IdsAt(infos, a, "PendingSign"), IdsAt(infos, a, "PendingVerify"))
    PROVE  /\ data.accounts[a] \in VAccount \cup {None}
           /\ Waiting[a] = IdsAt(infos, a, "PendingSign")
           /\ Signed[a] = IdsAt(infos, a, "PendingVerify")
  <1> DEFINE entry == data.accounts[a]
             ids == IdsAt(infos, a, "PendingSign")
             list == IdsAt(infos, a, "PendingVerify")
  <1>1. ids \in SUBSET Tx /\ list \in SUBSET Tx
    BY DEF IdsAt
  <1> HIDE DEF entry, ids, list
  <1>2. CASE entry = None /\ ids \cup list = {}
    BY <1>2 DEF Waiting, Signed, EntryOf, entry, ids, list
  <1>3. CASE entry = CurrentAccount(ids, list)
    <2>1. /\ entry \in VAccount /\ entry.layout = 1
          /\ entry.btc_pending_sign_ids = ids /\ entry.btc_pending_verify_list = list
      BY <1>1, <1>3 DEF CurrentAccount, VAccount
    <2>2. entry # None
      BY <2>1, ValuesAssumption
    <2>3. QED
      BY <2>1, <2>2 DEF Waiting, Signed, EntryOf, entry, ids, list
  <1>4. ASSUME NEW id \in Tx \cup {None}, {id} \ {None} = ids, entry = AccountV0(id, list)
        PROVE  /\ entry \in VAccount \cup {None}
               /\ Waiting[a] = ids /\ Signed[a] = list
    <2>1. /\ entry \in VAccount /\ entry.layout = 0
          /\ entry.btc_pending_sign_id = id /\ entry.btc_pending_verify_list = list
      BY <1>1, <1>4 DEF AccountV0, VAccount
    <2>2. entry # None
      BY <2>1, ValuesAssumption
    <2>3. QED
      BY <1>4, <2>1, <2>2 DEF Waiting, Signed, EntryOf, entry
  <1>5. \/ entry = None /\ ids \cup list = {}
        \/ entry = CurrentAccount(ids, list)
        \/ \E id \in Tx \cup {None} : {id} \ {None} = ids /\ entry = AccountV0(id, list)
    BY DEF AccountEntries, entry, ids, list
  <1>6. QED
    BY <1>2, <1>3, <1>4, <1>5 DEF entry, ids, list

LEMMA InitGood == Init => IInv /\ KeptInv /\ R!Init
  <1> SUFFICES ASSUME Init PROVE IInv /\ KeptInv /\ R!Init
    OBVIOUS
  <1>0. /\ zcash \in BOOLEAN /\ version \in 0..Current /\ lost = {} /\ counted = {}
    BY DEF Init
  <1>a. PICK infos \in Infos, requests \in [Output -> RequestsOf(version, zcash)] :
          /\ RefundsAgree(infos, requests)
          /\ \E held \in SUBSET (Output \ Spending(infos)) :
             \E minting \in SUBSET (Output \ (Spending(infos) \cup held)),
                limits \in [Account -> Limit \cup {None}],
                lists \in [Lists -> SUBSET Account], extra \in ExtraDelta :
                  Stored(infos, held, minting, requests, limits, lists, extra)
    BY Zenon DEF Init
  <1>b. PICK held \in SUBSET (Output \ Spending(infos)) :
          \E minting \in SUBSET (Output \ (Spending(infos) \cup held)),
             limits \in [Account -> Limit \cup {None}],
             lists \in [Lists -> SUBSET Account], extra \in ExtraDelta :
               Stored(infos, held, minting, requests, limits, lists, extra)
    BY <1>a, Zenon
  <1>1. PICK minting \in SUBSET (Output \ (Spending(infos) \cup held)),
            limits \in [Account -> Limit \cup {None}],
            lists \in [Lists -> SUBSET Account], extra \in ExtraDelta :
          Stored(infos, held, minting, requests, limits, lists, extra)
    BY <1>b, Zenon
  <1> DEFINE spending == Spending(infos)
  <1>2. /\ held \cap minting = {} /\ spending \cap (held \cup minting) = {}
        /\ callbacks \in [Output -> {None} \cup [bumped : {FALSE}, ok : BOOLEAN]]
        /\ \A o \in Output : callbacks[o] # None <=> o \in minting
    BY <1>1 DEF Stored
  <1>3. PICK accounts :
        /\ accounts \in [Account -> UNION {AccountEntries(version,
                IdsAt(infos, a, "PendingSign"), IdsAt(infos, a, "PendingVerify")) : a \in Account}]
        /\ \A a \in Account : accounts[a] \in AccountEntries(version,
                IdsAt(infos, a, "PendingSign"), IdsAt(infos, a, "PendingVerify"))
        /\ data = Only(FieldsOf(version, zcash),
            [config |-> Only(ConfigFieldsOf(ConfigLayout(version, zcash)), StoredConfig(extra)),
             accounts |-> accounts,
             utxos |-> held,
             utxos_in_progress |-> minting,
             verified_deposit_utxo |-> held \cup minting \cup spending,
             btc_pending_infos |-> infos,
             pending_tx_limits |-> limits,
             refund_requests |-> requests,
             relayer_white_list |-> lists["relayer_white_list"],
             extra_msg_relayer_white_list |-> lists["extra_msg_relayer_white_list"],
             post_action_msg_templates |-> lists["post_action_msg_templates"],
             block_bridge_amounts |-> New("block_bridge_amounts", StoredConfig(extra))])
    BY <1>1, Zenon DEF Stored
  <1>4. /\ spending \subseteq Output
        /\ InputsOf(infos, {"refund"}) \subseteq spending
    BY DEF Infos, BTCPendingInfo, Spending, InputsOf
  <1>5. requests \in [Output -> VRefundRequest \cup {None}]
    BY DEF RequestsOf, VRefundRequest
  <1> HIDE DEF spending
  <1>6. /\ Shape
        /\ data.accounts = accounts /\ data.utxos = held
        /\ data.verified_deposit_utxo = held \cup minting \cup spending
        /\ data.btc_pending_infos = infos
        /\ data.pending_tx_limits = IF Present("pending_tx_limits") THEN limits ELSE Absent
        /\ data.refund_requests = IF Present("refund_requests") THEN requests ELSE Absent
        /\ \A l \in Lists : data[l] = IF Present(l) THEN lists[l] ELSE Absent
        /\ data.config = Only(ConfigFieldsOf(ConfigLayout(version, zcash)), StoredConfig(extra))
        /\ data.utxos_in_progress = IF Present("utxos_in_progress") THEN minting ELSE Absent
        /\ Ready => data.block_bridge_amounts
                        = New("block_bridge_amounts", StoredConfig(extra))
    <2> DEFINE config == Only(ConfigFieldsOf(ConfigLayout(version, zcash)), StoredConfig(extra))
               ring == New("block_bridge_amounts", StoredConfig(extra))
               claims == held \cup minting \cup spending
               whitelist == lists["relayer_white_list"]
               extras == lists["extra_msg_relayer_white_list"]
               templates == lists["post_action_msg_templates"]
               record ==
                 [config |-> config,
                  accounts |-> accounts,
                  utxos |-> held,
                  utxos_in_progress |-> minting,
                  verified_deposit_utxo |-> claims,
                  btc_pending_infos |-> infos,
                  pending_tx_limits |-> limits,
                  refund_requests |-> requests,
                  relayer_white_list |-> whitelist,
                  extra_msg_relayer_white_list |-> extras,
                  post_action_msg_templates |-> templates,
                  block_bridge_amounts |-> ring]
    <2>1. data = Only(FieldsOf(version, zcash), record)
      BY <1>3
    <2> HIDE DEF config, ring
    <2>2. DOMAIN record = Fields
      BY FieldList DEF Registers, Lists
    <2>3. data = [f \in Fields |-> IF Present(f) THEN record[f] ELSE Absent]
      BY <2>1, <2>2 DEF Only, Present
    <2>4. \A f \in BaseFields : Present(f) /\ f \in Fields
      BY DEF Present, FieldsOf, Fields
    <2>5. Shape
      BY <1>0, <2>3 DEF Shape
    <2>6. /\ data.accounts = accounts /\ data.utxos = held
          /\ data.verified_deposit_utxo = claims
          /\ data.btc_pending_infos = infos /\ data.config = config
      BY <2>3, <2>4 DEF BaseFields
    <2>7. /\ data.pending_tx_limits = IF Present("pending_tx_limits") THEN limits ELSE Absent
          /\ data.refund_requests = IF Present("refund_requests") THEN requests ELSE Absent
          /\ data.utxos_in_progress = IF Present("utxos_in_progress") THEN minting ELSE Absent
          /\ data.block_bridge_amounts = IF Present("block_bridge_amounts") THEN ring ELSE Absent
      BY <2>3, FieldList DEF Registers
    <2>8. \A l \in Lists : record[l] = lists[l]
      BY DEF Lists
    <2> HIDE DEF record
    <2>9. \A l \in Lists : data[l] = IF Present(l) THEN lists[l] ELSE Absent
      <3>1. Lists \subseteq Fields
        BY FieldList DEF Registers
      <3>2. ASSUME NEW l \in Lists
            PROVE  data[l] = IF Present(l) THEN record[l] ELSE Absent
        BY ONLY <2>3, <3>1
      <3>3. QED
        BY <2>8, <3>2
    <2>10. Ready => Present("block_bridge_amounts")
      BY DEF Ready, Present, FieldsOf, Current
    <2>11. QED
      BY <2>5, <2>6, <2>7, <2>9, <2>10 DEF config, ring
  <1>7. LayoutInv
    <2>2. LimitsOK /\ RequestsOK /\ ListsOK
      BY <1>5, <1>6 DEF LimitsOK, RequestsOK, ListsOK
    <2>3. QED
      BY <1>6, <2>2 DEF LayoutInv
  <1>8. EntriesInv
    <2>1. ASSUME NEW a \in Account
          PROVE  /\ data.accounts[a] \in VAccount \cup {None}
                 /\ Waiting[a] = IdsAt(infos, a, "PendingSign")
                 /\ Signed[a] = IdsAt(infos, a, "PendingVerify")
      BY <1>0, <1>3, <1>6, StoredEntries
    <2>2. infos \in [Tx -> BTCPendingInfo \cup {None}]
      BY DEF Infos
    <2>3. QED
      BY <1>3, <1>6, <2>1, <2>2 DEF EntriesInv
  <1>9. ASSUME NEW o \in Output, Refunds[o] = "executed" \/ o \in Refunding
        PROVE  o \in spending /\ Refunds[o] # "open"
    <2>1. Refunding = InputsOf(infos, {"refund"}) \cap Output
      BY <1>6 DEF Refunding, InputsOf
    <2>2. CASE data.refund_requests = Absent
      BY <1>4, <1>9, <2>1, <2>2 DEF Refunds
    <2>3. CASE data.refund_requests # Absent
      <3>1. Refunds[o] = StatusOf(requests[o])
        BY <1>6, <2>3 DEF Refunds, StatusOf
      <3>2. requests[o] = RefundRequest(TRUE) \/ o \in Refunding
        BY <1>5, <1>9, <3>1, RequestValues DEF StatusOf
      <3>3. o \in InputsOf(infos, {"refund"})
        BY <1>a, <2>1, <3>2 DEF RefundsAgree
      <3>4. requests[o] \in {None, RefundRequest(TRUE)}
        BY <1>a, <3>3 DEF RefundsAgree
      <3>5. QED
        BY <1>4, <3>1, <3>3, <3>4, RequestValues DEF StatusOf
    <2>4. QED
      BY <2>2, <2>3
  <1>10. OutputsInv
    <2>1. callbacks \in [Output -> MintCall \cup {None}]
      BY <1>2 DEF MintCall
    <2>2. QED
      BY <1>0, <1>2, <1>4, <1>6, <1>9, <2>1 DEF OutputsInv, Held, Claimed
  <1>11. /\ Waiting \in [Account -> SUBSET Tx] /\ Signed \in [Account -> SUBSET Tx]
    BY <1>8 DEF EntriesInv, IdsAt, Waiting, Signed
  <1>12. Limits \in [Account -> Limit \cup {1}]
    <2>1. \A a \in Account : Limits[a] \in Limit \cup {1}
      BY <1>6, ConstantsAssumption DEF Limits
    <2>2. QED
      BY <2>1 DEF Limits
  <1>13. Listed \in [Lists -> SUBSET Account]
    BY <1>6 DEF Listed
  <1>14. Refunds \in [Output -> {"none", "open", "executed"}]
    BY DEF Refunds
  <1>15. Claimed \in SUBSET Output /\ Held \in SUBSET Claimed
    BY <1>10 DEF OutputsInv
  <1>16. R!Init
    BY <1>11, <1>12, <1>13, <1>14, <1>15
    DEF R!Init, Waiting, Signed, Limits, Listed, Refunds, Claimed, Held
  <1>17. ConfigInv
    <2> DEFINE config == StoredConfig(extra)
    <2>1. /\ DOMAIN config = ConfigFields
          /\ \A g \in ConfigFields : IF g = "chain" THEN config[g] = HomeChain
                                     ELSE config[g] \in Nat
      BY ConstantsAssumption, ConfigFieldList
      DEF StoredConfig, DEFAULT_REFUND_TIMELOCK_SEC, DEFAULT_UNSAFE_REFUND_TIMELOCK_SEC
    <2> HIDE DEF config
    <2>2. data.config = [g \in ConfigFields |->
                IF g \in ConfigFieldsOf(ConfigLayout(version, zcash)) THEN config[g] ELSE Absent]
      BY <1>6, <2>1 DEF Only, config
    <2>3. ConfigFieldsOf(ConfigLayout(version, zcash)) \subseteq ConfigFields
      BY DEF ConfigFieldsOf, ConfigFields
    <2>4. QED
      BY <2>1, <2>2, <2>3 DEF ConfigInv
  <1>18. ProgressInv
    BY <1>6 DEF ProgressInv
  <1>19. RingInv
    <2>1. ASSUME Ready PROVE data.block_bridge_amounts = Ring(data.config, counted)
      <3> DEFINE config == StoredConfig(extra)
      <3>1. data.block_bridge_amounts = [capacity |-> capacity_for(config), sats |-> 0]
        BY <1>6, <2>1 DEF New
      <3>2. /\ {"confirmations", "confirmations_delta", "extra_msg_confirmations_delta"}
                    \subseteq ConfigFieldsOf(ConfigLayout(version, zcash))
            /\ {"confirmations", "confirmations_delta", "extra_msg_confirmations_delta"}
                    \subseteq DOMAIN config
        BY <2>1 DEF Ready, Current, ConfigLayout, ConfigFieldsOf, StoredConfig
      <3>3. \A g \in {"confirmations", "confirmations_delta", "extra_msg_confirmations_delta"} :
                data.config[g] = config[g]
        BY <1>6, <3>2 DEF Only
      <3> HIDE DEF config
      <3>4. capacity_for(data.config) = capacity_for(config)
        BY <3>3 DEF capacity_for
      <3>5. SumFunctionOnSet(Balance, counted) = 0
        BY <1>0, SumEmpty
      <3>6. QED
        BY <3>1, <3>4, <3>5 DEF Ring
    <2>2. \A o \in Output : callbacks[o] # None => callbacks[o].bumped = FALSE
      BY <1>2
    <2>3. counted \subseteq Claimed /\ IsFiniteSet(counted)
      BY <1>0, FS_EmptySet
    <2>4. QED
      BY <1>0, <2>1, <2>2, <2>3 DEF RingInv
  <1>20. QED
    BY <1>7, <1>8, <1>10, <1>16, <1>17, <1>18, <1>19 DEF IInv, KeptInv

-----------------------------------------------------------------------------
(* Theorems.                                                               *)

\* Entries agree with records, and mints under way or lost hold their outputs.
LEMMA MigrationInv == Spec => []IInv
  <1>1. Init => IInv
    BY InitGood
  <1>2. IInv /\ [Next]_vars => IInv'
    BY NextGood DEF Good
  <1>3. QED
    BY <1>1, <1>2, PTL DEF Spec

\* The config of every layout is what it says, and the ring what was counted.
LEMMA MigrationKeeps == Spec => []KeptInv
  <1>1. Init => KeptInv
    BY InitGood
  <1>2. IInv /\ KeptInv /\ [Next]_vars => KeptInv'
    BY NextKeeps
  <1>3. QED
    BY <1>1, <1>2, MigrationInv, PTL DEF Spec

\* Mints that the old contract started fail in the new one without taking from
\* the ring what it never counted (mint_callback and unbump_block_amount).
THEOREM RingCounts == Spec => []RingCountsAccepted
  <1>1. KeptInv => RingCountsAccepted
    BY DEF KeptInv, RingInv, RingCountsAccepted, Ring
  <1>2. QED
    BY <1>1, MigrationKeeps, PTL

\* After migrate_state from any layout, no field is left out, and the ring has a
\* slot for every block whose depth may still be too small for someone.
THEOREM StatesComplete == Spec => []TypeOK
  <1>1. IInv /\ KeptInv => TypeOK
    <2> SUFFICES ASSUME IInv, KeptInv, Ready
                 PROVE  /\ \A f \in Fields : data[f] # Absent
                        /\ \A g \in ConfigFields : data.config[g] # Absent
                        /\ data.block_bridge_amounts.capacity >= data.config.confirmations
                             + Max({data.config.confirmations_delta,
                                    data.config.extra_msg_confirmations_delta})
      BY DEF TypeOK
    <2>1. /\ data.config = [g \in ConfigFields |-> data.config[g]]
          /\ \A g \in ConfigFields : IF g = "chain" THEN data.config[g] = HomeChain
                                     ELSE data.config[g] \in Nat
      <3>1. ConfigFieldsOf(ConfigLayout(version, zcash)) = ConfigFields
        BY DEF Ready, Current, ConfigLayout, ConfigFields
      <3>2. QED
        BY <3>1 DEF KeptInv, ConfigInv
    <2>2. \A g \in ConfigFields : data.config[g] # Absent
      BY <2>1, ValuesAssumption
    <2>3. data.block_bridge_amounts =
            [capacity |-> capacity_for(data.config), sats |-> SumFunctionOnSet(Balance, counted)]
      BY DEF KeptInv, RingInv, Ring
    <2>4. /\ data.config.confirmations \in Nat /\ data.config.confirmations_delta \in Nat
          /\ data.config.extra_msg_confirmations_delta \in Nat /\ SLACK \in Nat
      BY <2>1, ConfigFieldList, ConstantsAssumption
    <2>5. data.block_bridge_amounts.capacity = capacity_for(data.config)
            /\ capacity_for(data.config) \in Nat
      BY <2>3, <2>4 DEF capacity_for
    <2>6. data.block_bridge_amounts.capacity >= data.config.confirmations
             + Max({data.config.confirmations_delta, data.config.extra_msg_confirmations_delta})
      BY <2>4, <2>5, MaxOfTwo DEF capacity_for
    <2>7. \A f \in Registers : data[f] # Absent
      <3>1. /\ data.refund_requests # Absent /\ data.pending_tx_limits # Absent
            /\ \A l \in Lists : data[l] # Absent
        BY ReadyValues, ValuesAssumption DEF IInv
      <3>2. data.accounts # Absent /\ data.btc_pending_infos # Absent
        BY ValuesAssumption DEF IInv, EntriesInv
      <3>3. data.utxos # Absent /\ data.verified_deposit_utxo # Absent
        BY ValuesAssumption DEF IInv, OutputsInv, Held, Claimed
      <3>4. QED
        BY <3>1, <3>2, <3>3 DEF Registers
    <2>8. data.config # Absent
      <3>1. data.config \in [ConfigFields -> Nat \cup {HomeChain}]
        BY <2>1
      <3>2. QED
        BY <3>1, ValuesAssumption
    <2>9. data.utxos_in_progress # Absent
      <3>1. Present("utxos_in_progress")
        BY DEF Ready, Current, Present, FieldsOf
      <3>2. QED
        BY <3>1, ValuesAssumption DEF KeptInv, ProgressInv
    <2>10. data.block_bridge_amounts # Absent
      <3>1. SumFunctionOnSet(Balance, counted) \in Nat
        BY CountedSums DEF KeptInv, RingInv, IInv, OutputsInv
      <3>2. data.block_bridge_amounts \in [capacity : Nat, sats : Nat]
        BY <2>3, <2>5, <3>1
      <3>3. QED
        BY <3>2, ValuesAssumption
    <2>11. \A f \in Fields : data[f] # Absent
      BY <2>7, <2>8, <2>9, <2>10, FieldList
    <2>12. QED
      BY <2>2, <2>6, <2>11
  <1>2. QED
    BY <1>1, MigrationInv, MigrationKeeps, PTL

\* Whatever layout an upgrade finds, and whatever was under way, the contract
\* keeps the promise of Registry: migrate_state is a stutter of it, and so is
\* the conversion of an account or a request by the handler that meets it.
THEOREM RegistryRefined == Spec => RegistrySpec
  <1>1. Init => R!Init
    BY InitGood
  <1>2. IInv /\ [Next]_vars => [R!Next]_(R!vars)
    BY NextGood DEF Good
  <1>3. QED
    BY <1>1, <1>2, MigrationInv, PTL DEF Spec, RegistrySpec, R!Spec

\* No upgrade moves a transaction, a claim, a request, a limit or a member of a
\* list (the From impls of legacy.rs).
THEOREM UpgradesChangeNothing == Spec => UpgradeIsInvisible
  <1>1. IInv /\ [Next]_vars => [version' # version => R!vars' = R!vars]_vars
    <2> SUFFICES ASSUME IInv, Next, version' # version PROVE R!vars' = R!vars
      OBVIOUS
    <2>1. \E migrate \in BOOLEAN : UpDeployCode(migrate)
      <3>1. \A a \in Account :
                /\ ~RegisterAccount(a)
                /\ \A n : ~SetPendingTxLimit(a, n)
                /\ \A list : ~Extend(list, a) /\ ~Remove(list, a)
        BY DEF RegisterAccount, SetPendingTxLimit, Extend, Remove, Handled
      <3>2. \A a \in Account, o \in Output : ~MintCallback(o, a)
        BY DEF MintCallback, Handled
      <3>3. \A a \in Account, o \in Output : ~CompleteFailedDepositMint(o, a)
        BY DEF CompleteFailedDepositMint, Handled
      <3>4. \A a \in Account, o \in Output, t \in Tx :
                ~CreateBtcPendingInfo(a, t, o) /\ ~ExecuteRefund(a, t, o)
        BY DEF CreateBtcPendingInfo, ExecuteRefund, Handled
      <3>5. \A t \in Tx : ~FinishSigning(t) /\ ~Finish(t) /\ ~RemoveRefundPendingTxId(t)
        BY DEF FinishSigning, Finish, RemoveRefundPendingTxId, Handled
      <3>6. \A o \in Output :
                /\ ~MintCallbackPanics(o) /\ ~VerifyDepositCallback(o) /\ ~RequestRefundCallback(o)
                /\ \A is_privileged : ~RejectRefund(o, is_privileged)
        BY DEF MintCallbackPanics, VerifyDepositCallback, RequestRefundCallback,
               RejectRefund, Handled
      <3>7. QED
        BY <3>1, <3>2, <3>3, <3>4, <3>5, <3>6 DEF Next
    <2>2. Upgrade
      BY <2>1 DEF UpDeployCode, Upgrade
    <2>3. QED
      BY <2>2, UpgradeViews, SameRegistersStutter DEF IInv
  <1>2. QED
    BY <1>1, MigrationInv, PTL DEF Spec, UpgradeIsInvisible

\* A mint whose callback met a state that was not migrated yet is claimed, not
\* held and not refunded, so that complete_failed_deposit_mint can finish it.
THEOREM LostMintsAreRecoverable == Spec => []LostIsRecoverable
  <1>1. IInv => LostIsRecoverable
    <2> SUFFICES ASSUME IInv, NEW o \in lost
                 PROVE  /\ o \in data.verified_deposit_utxo /\ o \notin data.utxos
                        /\ data.refund_requests # Absent =>
                                data.refund_requests[o]
                                    \in {None, RefundRequestV0, RefundRequest(FALSE)}
      BY DEF LostIsRecoverable
    <2>1. o \in Claimed \ Held /\ o \in Output /\ Refunds[o] # "executed"
      BY DEF IInv, OutputsInv
    <2>2. ASSUME data.refund_requests # Absent
          PROVE  data.refund_requests[o] \in {None, RefundRequestV0, RefundRequest(FALSE)}
      <3>1. data.refund_requests[o] \in VRefundRequest \cup {None}
        BY <2>1, <2>2 DEF IInv, LayoutInv, RequestsOK
      <3>2. data.refund_requests[o] # RefundRequest(TRUE)
        <4>1. RefundRequest(TRUE) # None
          BY ValuesAssumption DEF VRefundRequest
        <4>2. QED
          BY <2>1, <2>2, <4>1 DEF Refunds
      <3>3. QED
        BY <3>1, <3>2 DEF VRefundRequest
    <2>3. QED
      BY <2>1, <2>2 DEF Claimed, Held
  <1>2. QED
    BY <1>1, MigrationInv, PTL
=============================================================================
