--------------------------- MODULE BlockAmountRing --------------------------
(***************************************************************************)
(* How deep a deposit must be before it is accepted.  The confirmations    *)
(* tier is chosen by the sum of what the bridge accepted from the same     *)
(* block, and these sums are kept in a ring of fixed capacity, one slot    *)
(* per block height modulo the capacity.  A newer block evicts an older    *)
(* one from its slot; the older block then needs the highest tier.  The    *)
(* capacity follows the configuration, so changing that resizes the ring.  *)
(***************************************************************************)
EXTENDS Integers, FiniteSets, FiniteSetsExt

CONSTANTS
    Deposit,         \* deposit transactions
    Height,          \* per deposit, the height of its block
    Amount,          \* and what it pays
    SLACK,           \* BLOCK_AMOUNT_RING_CAPACITY_SLACK
    Tier,            \* bounds of the tiers of a strategy,
    Confirmations,   \* the depths the DAO may ask for them,
    Delta,           \* and the deltas it may set
    InitialConfig,
    MayReconfigure,  \* the DAO changes the configuration
    MaxHeight,       \* bound on the chain's length
    MaxStale,        \* bound on the blocks found while a callback is under way
    None

Config == [strategy : UNION {[S -> Confirmations] : S \in (SUBSET Tier) \ {{}}},
           confirmations_delta : Delta,
           extra_msg_confirmations_delta : Delta]

Cell == [block_height : Nat, cumulative_sats : Nat]

ASSUME ConstantsAssumption ==
    /\ Height \in [Deposit -> Nat]
    /\ Amount \in [Deposit -> Nat \ {0}]
    /\ Tier \subseteq Nat /\ IsFiniteSet(Tier)
    /\ Confirmations \subseteq 2..100
    /\ Delta \subseteq Nat
    /\ MayReconfigure \in BOOLEAN
    /\ SLACK \in Nat \ {0}
    /\ MaxHeight \in Nat
    /\ MaxStale \in Nat
    /\ InitialConfig \in Config
    /\ None \notin Cell

VARIABLES
    cells,         \* the ring
    config,
    reconfigured,  \* history: has the DAO changed the configuration?
    status,        \* per deposit, how far its verification got
    delta,         \* the extra confirmations asked of its relayer
    seen_tip,      \* the tip its light-client answer reported
    tip            \* of the main chain

vars == <<cells, config, reconfigured, status, delta, seen_tip, tip>>

-----------------------------------------------------------------------------
(* The configuration.                                                      *)

MaxOf(S) == IF S = {} THEN 0 ELSE Max(S)

max_tier_confirmations(c) == MaxOf({c.strategy[b] : b \in DOMAIN c.strategy})

\* The tier of an amount is that of the least bound above it.
get_confirmations(c, amount) ==
    LET above == {b \in DOMAIN c.strategy : b > amount} IN
    c.strategy[IF above # {} THEN Min(above) ELSE Max(DOMAIN c.strategy)]

\* The range of the confirmations is that of their constant.
assert_valid(c) ==
    \A a, b \in DOMAIN c.strategy : a <= b => c.strategy[a] <= c.strategy[b]

ASSUME InitialConfigIsValid == assert_valid(InitialConfig)

\* Mutant: the capacity covers the tiers and nothing else.
capacity_for_tiers(c) == max_tier_confirmations(c)

capacity_for(c) ==
    max_tier_confirmations(c) + c.confirmations_delta
        + c.extra_msg_confirmations_delta + SLACK

-----------------------------------------------------------------------------
(* The ring.  A ring is a function from slots to cells.                    *)

new(capacity) == [i \in 0..(capacity - 1) |-> None]

capacity(ring) == Cardinality(DOMAIN ring)

slot(ring, h) == h % capacity(ring)

Holds(ring, h)    == ring[slot(ring, h)] # None /\ ring[slot(ring, h)].block_height = h
Shadowed(ring, h) == ring[slot(ring, h)] # None /\ ring[slot(ring, h)].block_height > h

\* Mutant: a bump restarts the sum of its block.
bump_restarting(ring, h, amount) ==
    IF Shadowed(ring, h) THEN ring
    ELSE [ring EXCEPT ![slot(ring, h)] = [block_height |-> h, cumulative_sats |-> amount]]

\* A block that a newer one shadows is not counted.
bump(ring, h, amount) ==
    IF Shadowed(ring, h) THEN ring
    ELSE [ring EXCEPT ![slot(ring, h)] =
            [block_height |-> h,
             cumulative_sats |-> amount + IF Holds(ring, h) THEN @.cumulative_sats ELSE 0]]

\* Mutant: a failed mint stays counted.
unbump_nothing(ring, h, amount) == ring

\* The subtraction saturates.
unbump(ring, h, amount) ==
    IF Holds(ring, h)
    THEN [ring EXCEPT ![slot(ring, h)].cumulative_sats = MaxOf({0, @ - amount})]
    ELSE ring

\* Mutant: colliding cells resolve to the older block.
resize_keeping_older(ring, new_capacity) ==
    [i \in 0..(new_capacity - 1) |->
        LET candidates == {ring[j] : j \in DOMAIN ring} \ {None}
            here == {c \in candidates : c.block_height % new_capacity = i}
        IN IF here = {} THEN None
           ELSE CHOOSE c \in here : \A other \in here : c.block_height <= other.block_height]

\* Of the cells that collide in the new ring, the newest block's is kept.
resize(ring, new_capacity) ==
    [i \in 0..(new_capacity - 1) |->
        LET candidates == {ring[j] : j \in DOMAIN ring} \ {None}
            here == {c \in candidates : c.block_height % new_capacity = i}
        IN IF here = {} THEN None
           ELSE CHOOSE c \in here : \A other \in here : c.block_height >= other.block_height]

\* The tier a deposit of `amount` in block h has to reach.  The bumped sum of a
\* shadowed block counts as u128::MAX.
RequiredTier(c, ring, h, amount) ==
    IF Shadowed(ring, h) THEN c.strategy[Max(DOMAIN c.strategy)]
    ELSE get_confirmations(c, bump(ring, h, amount)[slot(ring, h)].cumulative_sats)

Depth(seen, h) == seen - h + 1

-----------------------------------------------------------------------------
(* Deposits.                                                               *)

Init ==
    /\ config = InitialConfig
    /\ reconfigured = FALSE
    /\ cells = new(capacity_for(InitialConfig))
    /\ status = [d \in Deposit |-> "idle"]
    /\ delta = [d \in Deposit |-> 0]
    /\ seen_tip = [d \in Deposit |-> 0]
    /\ tip = 0

\* White-listed relayers need no extra confirmations.  The light client answers
\* with the tip it sees.
VerifyDeposit(d) ==
    /\ status[d] = "idle"
    /\ tip >= Height[d]
    /\ \E extra \in {0, config.confirmations_delta, config.extra_msg_confirmations_delta} :
        delta' = [delta EXCEPT ![d] = extra]
    /\ seen_tip' = [seen_tip EXCEPT ![d] = tip]
    /\ status' = [status EXCEPT ![d] = "answered"]
    /\ UNCHANGED <<cells, config, reconfigured, tip>>

\* Mutant: the depth is compared with the tier of this deposit alone.
DeepEnoughAlone(d) ==
    Depth(seen_tip[d], Height[d]) >= get_confirmations(config, Amount[d]) + delta[d]

DeepEnough(d) ==
    Depth(seen_tip[d], Height[d])
        >= RequiredTier(config, cells, Height[d], Amount[d]) + delta[d]

\* What the call carried is gone with it.
Answered(d, next) ==
    /\ status' = [status EXCEPT ![d] = next]
    /\ delta' = [delta EXCEPT ![d] = 0]
    /\ seen_tip' = [seen_tip EXCEPT ![d] = 0]

VerifyDepositCallback(d) ==
    /\ status[d] = "answered"
    /\ DeepEnough(d)
    /\ cells' = bump(cells, Height[d], Amount[d])
    /\ Answered(d, "minting")
    /\ UNCHANGED <<config, reconfigured, tip>>

\* The callback panics and its bump is reverted: the deposit can be tried again.
VerifyDepositFails(d) ==
    /\ status[d] = "answered"
    /\ ~DeepEnough(d)
    /\ Answered(d, "idle")
    /\ UNCHANGED <<cells, config, reconfigured, tip>>

MintCallback(d, is_success) ==
    /\ status[d] = "minting"
    /\ cells' = IF is_success THEN cells ELSE unbump(cells, Height[d], Amount[d])
    /\ status' = [status EXCEPT ![d] = IF is_success THEN "minted" ELSE "idle"]
    /\ UNCHANGED <<config, reconfigured, delta, seen_tip, tip>>

-----------------------------------------------------------------------------
(* The DAO.                                                                *)

\* Mutant: the ring keeps its old capacity.
ReconfigureOnly(c) ==
    MayReconfigure /\ config' = c /\ reconfigured' = TRUE /\ UNCHANGED cells

Reconfigure(c) ==
    /\ MayReconfigure
    /\ config' = c
    /\ reconfigured' = TRUE
    /\ cells' = IF capacity_for(c) = capacity(cells) THEN cells
                ELSE resize(cells, capacity_for(c))

UpdateConfig(confirmations_delta, extra_msg_confirmations_delta) ==
    /\ Reconfigure([config EXCEPT
            !.confirmations_delta = confirmations_delta,
            !.extra_msg_confirmations_delta = extra_msg_confirmations_delta])
    /\ assert_valid(config')
    /\ UNCHANGED <<status, delta, seen_tip, tip>>

SetConfirmationsStrategy(range_upper_bound, confirmations) ==
    /\ Reconfigure([config EXCEPT !.strategy =
            [b \in DOMAIN @ \cup {range_upper_bound} |->
                IF b = range_upper_bound THEN confirmations ELSE @[b]]])
    /\ assert_valid(config')
    /\ UNCHANGED <<status, delta, seen_tip, tip>>

RemoveConfirmationsStrategy(range_upper_bound) ==
    /\ range_upper_bound \in DOMAIN config.strategy
    /\ DOMAIN config.strategy # {range_upper_bound}
    /\ Reconfigure([config EXCEPT !.strategy =
            [b \in DOMAIN @ \ {range_upper_bound} |-> @[b]]])
    /\ assert_valid(config')
    /\ UNCHANGED <<status, delta, seen_tip, tip>>

-----------------------------------------------------------------------------
\* The chain grows; a callback runs a few NEAR blocks after its answer, so
\* hardly a Bitcoin block is found in between.
NewBlock ==
    /\ tip < MaxHeight
    /\ \A d \in Deposit : status[d] = "answered" => tip + 1 - seen_tip[d] <= MaxStale
    /\ tip' = tip + 1
    /\ UNCHANGED <<cells, config, reconfigured, status, delta, seen_tip>>

Next ==
    \/ \E d \in Deposit :
        \/ VerifyDeposit(d)
        \/ VerifyDepositCallback(d)
        \/ VerifyDepositFails(d)
        \/ \E is_success \in BOOLEAN : MintCallback(d, is_success)
    \/ \E c, e \in Delta : UpdateConfig(c, e)
    \/ \E b \in Tier, n \in Confirmations : SetConfirmationsStrategy(b, n)
    \/ \E b \in Tier : RemoveConfirmationsStrategy(b)
    \/ NewBlock

Spec == Init /\ [][Next]_vars

-----------------------------------------------------------------------------
(* Properties.                                                             *)

\* What the bridge accepted from block h and did not give up.
Accepted(h) == {d \in Deposit : Height[d] = h /\ status[d] \in {"minting", "minted"}}
BlockSum(h) == SumFunctionOnSet(Amount, Accepted(h))

Heights == {Height[d] : d \in Deposit}

\* The types of the variables, and the layout that lookups rely on: the ring has
\* the capacity the configuration asks for, a cell sits in the slot its height
\* maps to, and its sum is no negative number (resize and unbump).
TypeOK ==
    /\ cells \in [0..capacity_for(config) - 1 -> Cell \cup {None}]
    /\ \A i \in DOMAIN cells : cells[i] # None => slot(cells, cells[i].block_height) = i
    /\ config \in Config
    /\ reconfigured \in BOOLEAN
    /\ status \in [Deposit -> {"idle", "answered", "minting", "minted"}]
    /\ delta \in [Deposit -> Nat]
    /\ seen_tip \in [Deposit -> Nat]
    /\ tip \in Nat

\* While the configuration stays as it is, the ring knows the sum of every block
\* it holds, and has forgotten only blocks that a newer one shadows, whatever
\* mints fail in the meantime (bump and unbump).
SumsAreExact ==
    ~reconfigured =>
    \A h \in Heights :
        /\ Holds(cells, h) => cells[slot(cells, h)].cumulative_sats = BlockSum(h)
        /\ ~Holds(cells, h) /\ Accepted(h) # {} => Shadowed(cells, h)

\* No block is charged for more than the bridge accepted from it, through
\* evictions, failed mints and resizes.
NeverOvercounted ==
    \A h \in Heights : Holds(cells, h) => cells[slot(cells, h)].cumulative_sats <= BlockSum(h)

\* A deposit is accepted only at the depth that the whole of its block's
\* accepted amount, itself included, asks for (bump_and_check_confirmations).
AsDeepAsItsBlockNeeds(d) ==
    status[d] = "answered" /\ status'[d] = "minting" =>
        Depth(tip, Height[d]) >= get_confirmations(config, BlockSum(Height[d])') + delta[d]

TierOfBlockSum == [][\A d \in Deposit : AsDeepAsItsBlockNeeds(d)]_vars

\* The same while the configuration stays as it is: what the code does keep of
\* the comment on the ring, through evictions, failed mints and retries.
TierOfBlockSumUnchanged ==
    [][~reconfigured' => \A d \in Deposit : AsDeepAsItsBlockNeeds(d)]_vars

\* Being evicted costs a deposit nothing as long as the configuration is the
\* same: a block is shadowed only when it is so deep that the highest tier is
\* satisfied, also in the eyes of an answer that is MaxStale blocks old
\* (capacity_for).
EvictedIsDeep ==
    ~reconfigured =>
    \A d \in Deposit :
        status[d] = "answered" /\ Shadowed(cells, Height[d]) => DeepEnough(d)

\* A resize drops only blocks that need no more than the depth they have.
ResizeDropsOnlyDeep ==
    [][\A h \in Heights :
        Holds(cells, h) /\ ~Holds(cells', h) =>
            tip - h + 1 >= max_tier_confirmations(config')
                            + MaxOf({config'.confirmations_delta,
                                     config'.extra_msg_confirmations_delta})]_vars
=============================================================================
