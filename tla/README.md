# The satoshi-bridge in TLA+

The satoshi-bridge is a NEAR contract that holds outputs (UTXOs) on the Bitcoin or Zcash chain
and issues nBTC (nZEC) for them. This directory models its core in TLA+, checks the models with
TLC on small instances, and proves the most important invariants with TLAPS for every value of
the constants. `contracts/satoshi-bridge/src/` is abbreviated `B/` here.

## 1. Inventory

### How the parts interact

The contract is sequential, but hardly any of its operations is one step. An *entry point*
starts a promise to another contract (the light client, nBTC, the MPC signer), and a private
*callback* finishes the operation in a later receipt. Between the two, any number of other
receipts may run. A receipt that panics is reverted on its own: what the entry point changed
stays changed. A callback may also die for lack of gas. Everything that is hard in this code
comes from there; there are no threads and no shared memory.

| Component | State | Operations | Talks to |
|---|---|---|---|
| Deposits (`B/btc_light_client/deposit.rs`, `B/nbtc/mint.rs`) | `verified_deposit_utxo`, `utxos_in_progress`, `utxos` | `verify_deposit`, its safe variant, their callbacks, `mint_callback`, `safe_mint_callback`, `complete_failed_deposit_mint` | light client, nBTC, the ring |
| Refunds (`B/refund.rs`, `B/*_utils/refund.rs`) | `refund_requests`, pending infos | request, reject, execute (asynchronous on Zcash), finalise, remove leftovers | light client, chain signatures |
| Confirmation ring (`B/block_amount_ring.rs`, `B/config.rs`) | `block_bridge_amounts`, confirmation tiers | `bump`, `unbump`, `resize`, three setters | deposits |
| Withdrawals (`B/api/token_receiver.rs`, `B/btc_pending_info.rs`, `B/btc_light_client/withdraw.rs`, `B/nbtc/burn.rs`) | `btc_pending_infos`, the lists of an account, `utxos` | `ft_on_transfer`, sign, verify, burn callback | nBTC, light client, chain signatures |
| Replace-by-fee (`B/rbf/`) | `rbf_txs`, `max_gas_fee`, `cancel_rbf_reserved` | four kinds of replacement, clearing of leftovers | withdrawals, protocol fee |
| Active UTXO management (`B/btc_light_client/active_utxo_management.rs`) | the same as withdrawals | create, replace, cancel, settle | protocol fee |
| Protocol fee, lost and found (`B/token_transfer.rs`) | the `*_protocol_fee` counters, `lost_found` | donate, reserve, claim, roll back | nBTC |
| Chain signatures (`B/chain_signature.rs`) | `signatures` of a pending info | sign an input, callback | MPC contract (external) |
| nBTC (`contracts/nbtc/src/lib.rs`) | balances, supply, the relayer of withdrawals by memo | `mint` with post actions, `safe_mint`, `burn`, transfers and transfer calls with their resolution, registration and closing of accounts | the bridge, receivers |
| Light client (external) | the best chain it knows | inclusion, height | |
| Relayers, roles, pausing | registrations, whitelists, limits | setters | every entry point |
| Zcash transactions (`B/zcash_utils/`, `B/network.rs`) | inside the pending infos: branch, expiry, inputs, bundle, signatures | building, checking, hashing, storing and sending; the height is asked for first | light client, chain signatures |
| Other encodings: PSBTs, compact ids, addresses (`B/psbt.rs`) | none | checks and parsers | withdrawals, refunds |
| Migration (`B/upgrade.rs`, `B/legacy.rs`) | the version of every layout | `migrate_state`, lazy conversion of accounts and refund requests | calls that were under way |
| Views, events | | | |

### What must be right

* **Deposits and refunds.** An output is credited as nBTC at most once, never both credited and
  refunded, and credited only if the bridge keeps the output. `verified_deposit_utxo` is the
  only arbiter between flows that each take several receipts. A failed mint releases the output;
  an executed refund is irrevocable and gets to its end, whichever of its candidate transactions
  is confirmed; an address the depositor did not fix waits for the long timelock.
* **Ring.** The confirmations asked for depend on the sum a block brought to the bridge, so the
  ring must know that sum, forget only blocks for which it no longer matters, and survive
  changes of its size.
* **Withdrawals.** nBTC is burned once per family of transactions, and for exactly what left the
  bridge. The bridge holds the nBTC it owes. The protocol fee that families reserve covers
  whichever of their transactions is confirmed, and all that is not used returns. The burn
  callback, which runs after an irrevocable burn, cannot panic. The lists by which relayers find
  their work agree with the records, and what replacements leave behind can be cleared.
* **nBTC.** Tokens move before the receiver is asked, and part of the bridge's balance is
  promised to a detached burn, to withdrawals and to claims. All of these must find their tokens
  whatever receivers return and whoever closes an account; every token is backed by a deposit.
* **Zcash.** The branch and the expiry of a transaction are fixed when it is written, its
  signatures come later, and an upgrade may lie between. What is signed must be what is sent,
  under the id the record has; the user is paid what the record says; no upgrade and no expiry
  strands the coins.
* **Migration.** From any of the older layouts nobody's transactions, claims, requests or limits
  change by an upgrade, and a mint under way across it can be brought to its end.

`PROJECT.json` lists the hazards line by line with the properties aimed at each.

## 2. Modules

| Module | Models | State |
|---|---|---|
| `DepositClaim` | abstract: one output is open, minting, deposited, refunding or refunded | one variable |
| `DepositRefund` | the life of deposit outputs in every flow, refines `DepositClaim` | contract, promises, chain |
| `BlockAmountRing` | the ring, the tiers, deposits as they pass it, the DAO's changes | ring, configuration, answers in flight |
| `Withdrawal` | withdrawals, replacements, UTXO management, protocol fee, lost and found | contract, chain, token, calls |
| `NbtcToken` | the token's ledger together with what the bridge owes from its own balance | token, receipts, bridge |
| `ZcashTransactions` | what the Zcash transactions contain, from their making to the block | light client, records, chain |
| `Registry` | abstract: what accounts are promised of the registers, in no layout | registers |
| `Migration` | layouts of all versions, their conversion, the handlers that meet them; refines `Registry` | stored state, callbacks |
| `MC*` | values of the constants for TLC and symmetry | |
| `*Proofs` | theorems | |

The models meet in what they share. `DepositRefund` decides which flow may claim an output;
`NbtcToken` takes over where it calls the token. `Withdrawal` and `DepositRefund` keep the
records and lists, and `ZcashTransactions` says what is in the transactions of these records.
`Migration` repeats of all of them only which register a handler touches and how.

### DepositRefund

Each entry point and each callback is an action. A call in flight is a record in `promises`, so
the number of calls in flight is bounded by `PromiseId`; a callback that panics
(`CallbackPanics`) frees the call and changes nothing. The outcome of nBTC's mint is `used`,
`returned` (a safe mint whose receiver returned all) or `error`; `IsSuccess` is what the
callback of each kind of deposit makes of it. `MintCallbackDies` is the callback that runs out
of gas, after which `CompleteFailedDepositMint` is the DAO's remedy; with `TrustedDAO` it is
used only in its documented case. Its check of `unavailable_utxos`
(`B/api/management.rs:330-336`) is left out: nothing in the contract writes that map. On Bitcoin
`ExecuteRefund` is one step; on Zcash `ExecuteRefundAsync` resolves the timelock and
`ExecuteRefundCallback` uses it. `Variant` are the distinct transactions that one request can
produce (on Zcash the transaction depends on the height). Each is written for the consensus
branch given by `BranchOf`; the chain changes its branch at the `UpgradeTimes`, and `Confirm`
mines on Zcash only what was written for the branch in force, so an upgrade strands the
candidates made before it and the request has to be executed again. Refund transactions never
expire (`B/zcash_utils/refund.rs:12`). `GenerateVutxos` stands for a withdrawal that spends the
output.

A mint and the bridge's own callback are separate steps; what happens inside the token is in
`NbtcToken`. Storage deposits in NEAR are not modelled. The clock ticks up to `MaxTime`.

`ClaimOf(u)` is the refinement mapping: it reads the claim of an output off the registers, and
`Claim` is `DepositClaim` with it.

### BlockAmountRing

The ring is the function from slots to cells it is in the code, with `slot` as the remainder of
the height. `VerifyDeposit` is the light client's answer with the tip it saw; the callback uses
that tip, which may be up to `MaxStale` blocks old. `MintCallback` takes the bump back when the
mint failed. The three setters validate the configuration and resize the ring. `reconfigured` is
a history variable that distinguishes what holds for a fixed configuration from what holds
across changes. Saturation of the sums at `u128::MAX` is not modelled: it is beyond the supply
of bitcoin.

### Withdrawal

A *family* is an original transaction and its replacements; they have the same inputs, so the
chain confirms at most one. `info` are the `btc_pending_infos`, `body` what a transaction spends
and returns, which is fixed once it is created. The hash of a transaction is its identity: a new
record needs a fresh id. Fees, reserves and amounts are exact integers.

* The checks of a transaction keep the arithmetic: inputs come from `utxos`, the fee is
  deducted, the gas is in the configured range, the change is what is left. All change outputs
  of a transaction are one coin.
* `ft_on_transfer` runs in one step with the token's transfer; the states between the two, and
  what a receiver may return, are in `NbtcToken`.
* The Zcash versions ask the light client for a height first; their entry points read only
  constants, so each is one step here, at its callback. `ZcashTransactions` separates them.
* The time after which an operator may cancel is left open: cancelling is possible at once,
  which allows more behaviours than the code.
* The burn, the callback after it and their failures are separate steps. A failed burn and its
  callback are one step, and so are a failed transfer and its callback: in each case the first
  changes nothing.
* The protocol's share of plain deposits enters by `DepositProtocolFee`.
* `GasMustRise` tells Bitcoin (a replacement pays more gas) from Zcash (it need not).

### NbtcToken

`accounts` maps each registered account to its balance, so closing an account takes it out of
the domain. A receipt under way is a record in `receipts`, named for the method it will run:
`ft_on_transfer`, `ft_resolve_transfer`, `safe_mint_callback`, `collect`, `handle_post_action`,
`burn_refused`, `claim`. The receiver of a transfer call answers what it likes
(`ReceiverAnswers`); the bridge as a receiver takes everything or panics (`BridgeAnswers`). What
is returned is limited by what the receiver still has when `ft_resolve_transfer` runs, and is
burned if the sender is gone. A safe mint that was refused in full releases the deposit and
sends a detached burn (`BurnRefused`), whose failure nobody would see.

Of the bridge only its promises on the balance are kept: withdrawals that are not burned,
`available` as the protocol fee, and `custody`, the bitcoin of the deposits it counts as its
own. The split of a withdrawal's fee is computed with the rate of the day the burn is sent
(`VerifyWithdrawBurnPromise`), which may differ from that of the withdrawal. A plain mint that
fails changes nothing by the end of its callback and is left out; a safe mint that fails leaves
the deposit in custody, as the code does.

### ZcashTransactions

A record keeps a serialised PSBT with the branch and the format it was made for; `serialize` and
`deserialize` are modelled by what they keep and drop. The light client's answer fixes the
branch and the expiry: `Ask` starts a call with the height answered, and the callback of each of
the four methods (`ft_on_transfer`, `withdraw_rbf`, `cancel_withdraw`, `execute_refund`) builds
the transaction and checks its outputs, change, amounts, gas and bundle. `sign_btc_transaction`
sends the digest of the moment to the signer, its callback stores what came back. An id, a
digest and a signature are records of what they commit to, so two of them are equal exactly when
the bytes hashed are.

The network (`Includible`) takes a transaction of the branch of the block, in a format that
exists there, before its expiry; this part is external. Branches are 1 to 5, Nu6 to Nu7. A call
that does not fit when it starts is left out, since what it lacks never comes back; a behaviour
is about one withdrawal or one refund and ends with the block that spends the coins.

### Registry and Migration

`Migration` starts in states that a version before may have left: each of the eight older
layouts, in both builds, with withdrawals and refunds to sign and to prove, held outputs, mints
under way, requests and lists. A pending refund has an executed request from version 6 on, and
none if an earlier version executed it, which removed the request (`RefundsAgree`). Outputs
whose withdrawal or refund was finished, and mints whose callback was lost, before the upgrade
are not among the initial states; they are left only in `verified_deposit_utxo`, with a lost
mint also in `utxos_in_progress`, which every conversion passes on unchanged. The new contract
is deployed with or without `migrate_state` (`UpDeployCode`). While the stored layout is old
every handler panics (`Ready`), also the callback of a mint that was under way
(`MintCallbackPanics`). `Migrated` is the chain of `From` conversions; accounts and refund
requests are versioned on their own and are converted by the handlers that touch them. `Absent`
is the value of a field that a layout does not have.

`Registry` is the same system without layouts. Migration refines it with the mapping `R`, which
reads an entry of any layout, and an upgrade is a stutter of it.

## 3. What TLC checks

All runs are exhaustive. Deadlock is checked for the deposits, where the clock can always tick
and calls can always be made; in the other models the bounds on transactions, heights and
amounts make the system stop.

| Run | Question | Bounds |
|---|---|---|
| `deposit_bitcoin` | Is every output claimed once, for one purpose, in all interleavings? Does the contract refine `DepositClaim`? | two outputs (one safe), three calls in flight, an ordinary and a privileged account |
| `refund_zcash` | Do stale timelocks, several candidates, rejection and cleanup keep requests, lists and timelocks right? | one output, two candidates, three calls |
| `deposit_live` | Is every mint resolved, and does an executed refund get to its end? | one output, two candidates, one before and one after an upgrade of the branch, one pending transaction per account, two calls, no callback dies |
| `complete_after_refund` (violation) | Can the DAO complete a "failed mint" of a refunded output? | one output, one call |
| `ring` | Do the tiers apply to the sum of each block, and does the ring survive changes of the configuration? | four deposits in blocks 1, 4 and 6, two tiers of two depths, two deltas, seven blocks |
| `ring_grow` (violation) | Do the tiers apply to the sum, also across changes? | adds a depth of eight |
| `withdrawal_bitcoin` | Is nBTC solvent and backed, are the lists right, and is what is offered for spending there? | one coin and its changes, four transactions, two gas fees |
| `withdrawal_zcash` | Is the reserve exact and enough when gas falls and rises? | three transactions, cancellations below, above and at the user's balance |
| `withdrawal_live` | Is every confirmed transaction paid for? | three transactions |
| `nbtc_token` | Does the bridge have the tokens it owes, and is the supply backed, whatever receivers do? | two users, two receipts, one withdrawal, three tokens in custody, two protocol rates |
| `migration` | Does an upgrade from any layout change nothing that anyone can see? | all versions and both builds, one account, two transactions, two outputs, limits 1 and 2, one white list or template list in use at a time |
| `zcash_transactions` | Is what is signed what is sent, is everybody paid, and is nothing stranded by upgrades and expiry? | two inputs or one refund, two records, one upgrade of the format and one after it, four heights, a lag of one |

Why the bounds are enough. Three calls in flight let two deposits and a refund of one output, or
a refund executed twice and its cleanup, be anywhere in their flows at the same time; two
outputs show that they do not interfere. In the ring, blocks 1 and 6 share a slot of the initial
ring of five, and 1 and 4 one of the smallest ring the DAO can make; two deposits of block 1
reach the second tier together, seven blocks satisfy the deepest tier, and a slack of one with
answers two blocks old is the tight case of the assumption of `EvictionIsFree`. Four
transactions are an original with three replacements, or a family of up to three and one that
spends the change of whichever was confirmed; transactions with several inputs and unrelated
families are beyond what TLC can exhaust here and are covered by the theorems, which hold for
all of them. The gas of a cancellation is below and above what the user's balance covers, by
different amounts.

In the token, two receipts let a refused safe mint wait for its burn while a withdrawal is
burned, a claim is on its way or an account is closed; three tokens let a deposit of two be
refused next to another deposit. In the migration, the two outputs have different balances, so a
wrong subtraction from the ring cannot cancel out; two transactions are one to sign and one to
prove, or one more than `AccountV0` could hold. One list in use at a time (`OneListAtATime`)
shows which list a member is in before and after; the lists do not affect each other, and the
theorems have them all in use. In the Zcash model, an expiry gap of one makes transactions
expire within the behaviour, and the heights 2 to 5 hold the upgrade to the new format (NU6.3)
at 3 and NU7 at 5, each before, between and after the making, the signing and the block. Two
records at the time of a call let a third be made, so that an original, its replacement and a
cancellation exist together.

Fairness. `FairSpec` of `DepositRefund` assumes that NEAR answers every call and runs every
callback; `MintResolves` needs no more, although its run checks it under `DrivenSpec`.
`DrivenSpec` adds what no code guarantees, that somebody acts on an executed refund. Anyone may
execute it again, sign it (`B/api/chain_signatures.rs:24`) and broadcast it. Only a trusted
relayer may prove its inclusion (`verify_withdraw_v2` is `#[trusted_relayer]`,
`B/api/bridge.rs:82-84`), so the depositor depends on at least one relayer that keeps submitting
proofs. Executing again, signing and proving are strongly fair, since other calls may take the
bounded slots, the MPC may refuse and the light client may lag; a signed candidate of the branch
in force that keeps being broadcast is mined (weak fairness of `Confirm`). Nothing is assumed of
candidates of a branch that is over: that the request stays executable is what saves the refund,
and the mutant that lets a request be executed only once loses it. In `Withdrawal`, relayers go
on signing and proving transactions that are confirmed; the steps that may fail and be retried
(signing, proof, burn) are strongly fair, the callback after a successful burn weakly fair.
Nothing makes a transaction be signed or confirmed in the first place.

`NeverStranded` of the Zcash model is not a liveness property: it says that in every state
somebody still can bring the coins home, by waiting, by signing or by a call that the contract
would accept.

### Disagreements with comments

* `complete_after_refund`: `complete_failed_deposit_mint` promises that the output is not
  claimed by a refund (`B/api/management.rs:337`), and looks for the request; a finalised refund
  has removed it. The DAO is trusted to complete only failed mints, which `TrustedDAO` states.
* `ring_grow`: tiers "apply to the per-block sum" (`B/block_amount_ring.rs:13`), but a block
  that was evicted may be let in again, empty, when the ring grows for a deeper tier.
* Not a run: a pending refund whose request is gone "can never confirm", since a candidate of it
  did (`B/refund.rs:460-463`, `B/api/bridge.rs:401-408`). Before the field `executed` the
  execution itself removed the request (`B/refund.rs:83-84`), so a refund that was pending at
  such an upgrade can be removed by `remove_refund_pending_tx_id` (`B/refund.rs:474-480`)
  although it may still confirm. `Migration` reaches these states; the output stays verified, so
  no property there fails. `StaleOnlyAfterRefund` of `DepositRefund` is about requests of this
  version.
* Not a run: `doc/refund-no-withdraw-flow.md` has `verify_withdraw` panic on a refund
  transaction, while `verify_withdraw_v2` (`B/api/bridge.rs:84-107`) hands it to the refund's
  finalisation.

## 4. What is proved

All theorems hold for every value of the constants that satisfies the `ASSUME`s of the modules.
These say of a constant what its type says in the code, that the sets of accounts, transactions,
coins, outputs, receipts and deposits are finite, as everything stored is, and that `None` and
`Absent` are no values of what they stand in for. A theorem that needs more says so in its
statement, and here.

**SumTheorems.** Balances are sums over sets, written with the folds of the community modules.
`SumFunction` shows that such a sum is the value of a recursive function on the subsets of its
set; what a sum obeys is then shown on a smallest subset for which it would fail, which a finite
set has. So no induction theorem is needed. The facts that the other modules cite are how a sum
changes when a term is added, removed or changed, that it splits over a partition and is
monotone.

**DepositRefundProofs.** `TypeCorrect` is the type invariant. `Inductive` proves `IInv`, under
`TrustedDAO`. The safety properties are not inductive: that a mint in flight holds its output
alone (`MintCallsHoldTheirUtxo`), that nothing was credited before it or by one that is given up
(`UncreditedUntilMinted`), and that whatever deals with a refund transaction comes from an
executed refund (`RefundTxHasRefund`) are needed in addition, and `IInv` is their conjunction.
From it follow `NoDoublePayment`, `MintsAreSingle`, `MintsAreBacked` and `OneReason`.

`ClaimRefined` shows that `DepositRefund` implements `DepositClaim`, under `TrustedDAO`. For
each action there is a lemma that says which claim it can move and how; an action moves the
claim of at most one output (`OneClaimMoves`), and the others are seen unchanged (`SameClaim`).
`IInv` rules out the moves that would be none of `DepositClaim`'s, such as the proof of a refund
that was not executed.

**RefundProofs.** `ExecutionIsIrrevocable` and `UnsafeRefundsWait` follow from two facts about
every step: what it does to requests (`RequestsAfterNext`), and that an asynchronous execution
of a request without a preset address carries the long timelock (`AsyncWaits`); the latter is
the inductive part, since the request may be rejected and made anew between the two receipts.
`ListsFollowStages` is proved transaction by transaction: each step leaves a transaction's
stage, owner and place in the lists alone, or moves them together. `StaleCandidatesLost` follows
from `IInv`. Only the last needs `TrustedDAO`.

**BlockAmountRingProofs.** `IInv` says that the ring has the capacity of the configuration and
cells of the right slot (`RingOK`), that nothing in it or accepted is above the tip, and that an
answer is at most `MaxStale` blocks old. The argument is one fact about remainders: two heights
of one slot are equal or a whole ring apart (`SameSlotApart`). So a block that loses its slot is
as deep as the capacity, which covers every tier and delta (`CapacityCovers`). This gives
`TypeCorrect`, `DropsOnlyDeep` for a resize between any two configurations, and
`EvictionIsFree`. The last assumes `MaxStale <= SLACK + 1`: the slack is what makes up for the
blocks found while a callback is under way.

The sums of the blocks need `SumsInv` on top: the cell of a block is at most what was accepted
from it; while the configuration is the same it is exactly that, and a block with accepted
deposits that has no cell is older than the block in its slot. The second half is what makes it
inductive: an older block than the one in its slot is asked for the depth of the highest tier
and never let in again with an empty cell, and a mint that fails after its block was evicted
takes nothing from the block that came instead. This gives `SumsExact`, `NoOvercount` for any
changes of the configuration, and `TierOfWholeBlock`, about the step in which a deposit is
accepted. A resize breaks the second half, which is what `ring_grow` shows.

**WithdrawalProofs.** `FamilyInductive` proves `FamilyInv`. `ListsMatchStages` alone is not
inductive: the settlement removes two records and the list of a family, so one has to know that
the original of a replacement is signed and of the same account, and settled only once. The
latter comes from the chain: transactions of one family have the same, nonempty inputs
(`InFamily`), the chain confirms no two transactions with a common input (`NoDoubleSpend`), and
only what is confirmed is burned for (`BurnsMatchStages`). `ListsFollowStages` and
`NoFamilyBurnsTwice` follow. `LedgerAlwaysBalances` proves the ledger of the protocol fee, with
the facts that no counter but that of the claims can fall below zero and that every transfer in
flight has a natural amount. `OfferedUtxosExist` needs that a change output which is offered or
was spent is confirmed and its record is gone (`SpentInv`): only so is it offered but once.

`RecordsInductive` proves `RecordInv`: what each record says of amounts fits what its
transaction spends, returns and pays (`AmountsFit`), and the family (`FamilyFits`: the gas of
every replacement is covered by the original's reserve or by the user's balance), and a
replacement without its original lost to a confirmed sibling (`OrphansLost`). On it stands
`MoneyInductive`: the reserve, the nBTC of the bridge, the nBTC of everybody and the value of
the coins are each an equation between totals, over all records, coins, calls and transfers, and
every step is shown to change both sides by the same. Most steps touch none of the terms
(`QuietStep`), which is proved once. `Solvent`, `Backed` and `ReservedIsExact` follow
(`SolventAlways`, `BackedAlways`, `ReserveExact`). `SettlementSafe` takes from the reserve's
equation that each family's share is there when it settles, and from `FamilyInv` that both its
records are. `TypesHold` adds the types of the calls; `OrphansCleared` that a record waits for
its burn only while the burn is under way (`BurnsUnderWay`).

**NbtcTokenProofs.** The supply is the sum of the balances (`SupplyExact`). That the bridge's
balance covers what it owes is inductive only as `Covered`, which also counts the post actions
of a deposit made to the bridge itself: they will move tokens that are on its balance already.
`BackedByCustody` sets the supply against the bitcoin in custody and the burns under way, those
of refused deposits and those of withdrawals. Both are shown for a step that changes one call,
one withdrawal, both or neither (`SendKeeps` and its like), and each action is such a step.
`BalanceCovers` and `TokensBacked` follow.

**ZcashProofs.** `IdsAreKept` and `SignedIsSent`. A transaction is built once and then read back
from its stored form at every signature and when it is sent, so the argument is what a round
trip keeps (`StoredForm`), that saving a signature changes nothing that is committed to
(`SaveSignature`), and that the contract's digest is the network's for what a record may contain
(`SignedIsChecked`). That is inductive only with the types of records and of what is being
signed, and with the bundles of the calls that wait for a height: `InfosOK`, `SigningOK` and
`CallbacksOK`, which with `MinedUnderItsId` make `IInv`. The upgrades of the network are
arbitrary; the branch is in the stored transaction, so none of them can come between.

`PaymentsAreRecorded` needs, next to what a round trip keeps, that each record spends exactly
the inputs of its kind, and that the calls that wait for a height bring outputs and bundles of
the right types (`MoneyInv`): the checks of a callback say nothing about the inputs.

`CoinsNeverStranded` looks for a height within one block of the tip at which the contract takes
the branch that the next block has, and at the transaction that a refund or a cancellation
written there would be. If its id is new, the contract accepts it and the network includes it;
if a record has the id already, that record is the same transaction and can itself be mined. The
theorem has three hypotheses, which `MCZcashTransactions` asserts of the instance. No two
upgrades that are still to come are one block apart (`UpgradesApart`; upgrades are months
apart), else there might be no such height. There are change outputs that a cancellation may
write (`CancellationPossible`): with coins below the least change and gas there are none. And
the address of the refund has a transparent receiver, so that the refund needs no bundle that a
caller has to bring.

**MigrationProofs.** `RegistryRefined` shows that the contract with entries of every layout
implements `Registry`, `UpgradesChangeNothing` that an upgrade is nothing to see there. The
heart is one lemma over the nine versions and two builds: a migration starts the registers that
its layout lacks and no other (`MigratedRegister`). For the handlers, `Conversion` says that a
converted account shows what the old one did, `AddEntries` and `RemoveEntries` what a write to
it changes. The registers alone are not inductive: `Registry` lets nobody release an output that
is held or being refunded, so `IInv` also says that a mint under way or lost has claimed its
output, which is not held, executed or refunded by any recorded transaction (`OutputsInv`), and
that the entries of accounts are the records at their stage (`EntriesInv`).
`LostMintsAreRecoverable` is a consequence.

`RingCounts` and `StatesComplete` stand on `KeptInv`: the configuration has each field its
layout has, and valid values (`ConfigInv`), and `RingInv`: the ring is the sum of the balances
of the mints that are counted, a mint under way is counted just if its callback will take it
back, and a state that is not migrated has counted none. So the callback of a mint that an older
contract began finds itself not counted.

**Only model-checked.** What needs fairness: `MintResolves`, `RefundCompletes` and
`ConfirmedIsSettled`. The two violations are shown by TLC's counterexamples. Every other
property of a run is a theorem.

## 5. What is not modelled

* Encodings: the bytes of PSBTs, transactions, addresses and messages. What a conversion keeps
  or drops is modelled for the Zcash transactions. `compact_txid.rs` is a pure parser without
  state.
* Records in the older PSBT encodings (v1 to v3), the user's `max_gas_fee`, the passive
  management of the number of UTXOs, the role that may write larger change, and a cancellation
  whose gas exceeds the user's balance are not in `ZcashTransactions`; the caps on gas and the
  reserves are in `Withdrawal`. Active UTXO management on Zcash writes the same kind of
  transaction and has no content model of its own.
* On Bitcoin, scripts: which output goes where is taken as checked.
* Keys, notes and proofs of Zcash, key derivation, the MPC's root key: taken as sound.
* Staking of relayers, pausing and roles, which come from plugins. Who may call is kept where
  the effect depends on it.
* Storage deposits in NEAR, events, views, metadata, and `contracts/nbtc/src/migrate.rs`, which
  touches no state of the ledger.
* A callback that dies for lack of gas, except for the mint callback, for which the code has a
  remedy. If the burn callback died, the record would stay in `PendingBurn` for good.
* In `Migration`, the DAO completes only mints that were lost, as it is documented.

## 6. Plan

Done: deposits and refunds, the ring, withdrawals with replacements and UTXO management, the
token with the bridge's balance, the contents of Zcash transactions, and migration; the
refinements of `DepositClaim` and `Registry`; theorems for all safety and action properties.

Left, in this order:

1. An abstract specification of the withdrawals (a family is open, burned or settled; coins move
   once) that `Withdrawal` refines, as `DepositRefund` refines `DepositClaim`. `FamilyInv` and
   `SpentInv` have the facts it needs.
2. The checks of `B/psbt.rs` on Bitcoin (change outputs, dust, the amounts UTXO management
   splits into) against a reference definition of a balanced transaction.
3. The compact size of `compact_txid.rs` over bounded inputs, as an operator.
