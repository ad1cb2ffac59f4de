------------------------ MODULE BlockAmountRingProofs -----------------------
(* Proofs about BlockAmountRing, for every value of its constants.         *)
EXTENDS BlockAmountRing, SumTheorems

-----------------------------------------------------------------------------
(* Maxima and remainders.                                                  *)

\* A finite set of numbers that is not empty has a greatest one.
LEMMA FiniteSetHasMax ==
    ASSUME NEW S, S \subseteq Nat, IsFiniteSet(S), S # {}
    PROVE  Max(S) \in S /\ \A x \in S : Max(S) >= x
  <1> DEFINE HasMax(T) == \E m \in T : \A x \in T : m >= x
             Bad == {T \in SUBSET S : T # {} /\ ~HasMax(T)}
  <1>1. Bad = {}
    <2> SUFFICES ASSUME Bad # {} PROVE FALSE
      OBVIOUS
    <2>1. IsWellFoundedOn(StrictSubsetOrdering(S), SUBSET S)
      BY FS_StrictSubsetOrderingWellFounded, FS_FiniteSubsetsOfFinite
    <2>2. PICK T \in Bad : \A U \in Bad : <<U, T>> \notin StrictSubsetOrdering(S)
      BY <2>1, WFMin
    <2>3. PICK x \in T : TRUE
      OBVIOUS
    <2>4. T \ {x} \notin Bad
      BY <2>2, <2>3 DEF StrictSubsetOrdering
    <2>5. CASE T = {x}
      BY <2>5
    <2>6. CASE T # {x}
      <3>1. HasMax(T \ {x})
        BY <2>3, <2>4, <2>6
      <3>2. PICK m \in T \ {x} : \A y \in T \ {x} : m >= y
        BY <3>1
      <3>3. m \in Nat /\ x \in Nat /\ T \subseteq Nat
        OBVIOUS
      <3>4. CASE m >= x
        BY <3>2, <3>3, <3>4
      <3>5. CASE x > m
        BY <3>2, <3>3, <3>5
      <3>6. QED
        BY <3>3, <3>4, <3>5
    <2>7. QED
      BY <2>5, <2>6
  <1>2. HasMax(S)
    BY <1>1
  <1>3. QED
    BY <1>2 DEF Max

\* A set of numbers that is not empty has a least one.
LEMMA NatHasMin ==
    ASSUME NEW S, S \subseteq Nat, S # {}
    PROVE  Min(S) \in S
  <1>1. IsWellFoundedOn(OpToRel(<, Nat), Nat)
    BY NatLessThanWellFounded
  <1>2. PICK m \in S : \A x \in S : <<x, m>> \notin OpToRel(<, Nat)
    BY <1>1, WFMin
  <1>3. ASSUME NEW x \in S PROVE m <= x
    <2>1. <<x, m>> \in Nat \X Nat /\ <<x, m>>[1] = x /\ <<x, m>>[2] = m
      OBVIOUS
    <2>2. ~ (x < m)
      BY <1>2, <2>1 DEF OpToRel
    <2>3. QED
      BY <2>2
  <1>4. QED
    BY <1>3 DEF Min

LEMMA Division ==
    ASSUME NEW n \in Nat \ {0}, NEW a \in Nat
    PROVE  \E p \in Int : a = n * p + (a % n) /\ a % n \in 0..(n - 1)
  <1>1. a \div n \in Int /\ a % n \in 0..(n - 1)
    OBVIOUS
  <1>2. a = n * (a \div n) + (a % n)
    OBVIOUS
  <1>3. QED
    BY <1>1, <1>2

\* Two heights of one slot are at least a whole ring apart.
LEMMA SameSlotApart ==
    ASSUME NEW n \in Nat \ {0}, NEW a \in Nat, NEW b \in Nat, a % n = b % n, a < b
    PROVE  b >= a + n
  <1>1. PICK p \in Int : a = n * p + (a % n) /\ a % n \in 0..(n - 1)
    BY Division
  <1>2. PICK q \in Int : b = n * q + (b % n)
    BY Division
  <1>3. PICK d \in Int : d = q - p
    OBVIOUS
  <1>4. n * q - n * p = n * d
    BY <1>3
  <1>5. n * d = b - a
    <2>1. PICK r \in Int : r = a % n /\ r = b % n
      BY <1>1
    <2>2. a = n * p + r /\ b = n * q + r
      BY <1>1, <1>2, <2>1
    <2>3. n * p \in Int /\ n * q \in Int /\ n * d \in Int
      OBVIOUS
    <2>4. QED
      BY <1>4, <2>2, <2>3
  <1>6. d >= 1
    <2>1. CASE d <= 0
      <3>1. n * d <= 0
        BY <2>1
      <3>2. QED
        BY <1>5, <3>1
    <2>2. QED
      BY <2>1
  <1>7. n * d >= n
    BY <1>6
  <1>8. QED
    BY <1>5, <1>7

LEMMA MaxOfTwo ==
    ASSUME NEW a \in Int, NEW b \in Int
    PROVE  MaxOf({a, b}) = IF a >= b THEN a ELSE b
  <1>1. MaxOf({a, b}) = Max({a, b})
    BY DEF MaxOf
  <1>2. \E x \in {a, b} : \A y \in {a, b} : x >= y
    OBVIOUS
  <1>3. Max({a, b}) \in {a, b} /\ \A y \in {a, b} : Max({a, b}) >= y
    BY <1>2 DEF Max
  <1>4. QED
    BY <1>1, <1>3

-----------------------------------------------------------------------------
(* Configurations.                                                         *)

\* The highest tier asks for no less than any other.
LEMMA TiersOfConfig ==
    ASSUME NEW c \in Config
    PROVE  /\ max_tier_confirmations(c) \in 2..100
           /\ \A b \in DOMAIN c.strategy : c.strategy[b] <= max_tier_confirmations(c)
           /\ c.strategy[Max(DOMAIN c.strategy)] \in 2..max_tier_confirmations(c)
           /\ c.confirmations_delta \in Nat
           /\ c.extra_msg_confirmations_delta \in Nat
  <1> DEFINE S == DOMAIN c.strategy
             R == {c.strategy[b] : b \in S}
  <1>1. PICK T \in (SUBSET Tier) \ {{}} : c.strategy \in [T -> Confirmations]
    BY DEF Config
  <1>2. S # {} /\ S \subseteq Tier /\ \A b \in S : c.strategy[b] \in 2..100
    <2>1. S = T
      BY <1>1
    <2>2. \A b \in S : c.strategy[b] \in Confirmations
      BY <1>1, <2>1
    <2>3. T # {} /\ T \subseteq Tier /\ Confirmations \subseteq 2..100
      BY ConstantsAssumption
    <2>4. ASSUME NEW b \in S PROVE c.strategy[b] \in 2..100
      BY <2>2, <2>3
    <2>5. QED
      BY <2>1, <2>3, <2>4
  <1>3. R # {} /\ R \subseteq Nat /\ \A x \in R : x <= 100
    <2>1. \A x \in R : x \in 2..100
      BY <1>2
    <2>2. R # {}
      BY <1>2
    <2>3. QED
      BY <2>1, <2>2
  <1>4. IsFiniteSet(R)
    BY <1>3, FS_BoundedSetOfNaturals
  <1>5. Max(R) \in R /\ \A x \in R : Max(R) >= x
    <2> HIDE DEF R
    <2>1. QED
      BY <1>3, <1>4, FiniteSetHasMax
  <1>6. max_tier_confirmations(c) = Max(R)
    BY <1>3 DEF max_tier_confirmations, MaxOf
  <1>7. S \subseteq Nat /\ IsFiniteSet(S)
    BY <1>2, FS_Subset, ConstantsAssumption
  <1>8. Max(S) \in S
    <2> HIDE DEF S
    <2>1. QED
      BY <1>2, <1>7, FiniteSetHasMax
  <1>9. c.confirmations_delta \in Nat /\ c.extra_msg_confirmations_delta \in Nat
    BY ConstantsAssumption DEF Config
  <1>10. QED
    BY <1>2, <1>3, <1>5, <1>6, <1>8, <1>9

\* The capacity exceeds what any deposit may be asked to wait for.
LEMMA CapacityCovers ==
    ASSUME NEW c \in Config
    PROVE  /\ capacity_for(c) \in Nat \ {0}
           /\ capacity_for(c) = max_tier_confirmations(c) + c.confirmations_delta
                                + c.extra_msg_confirmations_delta + SLACK
           /\ capacity_for(c) >= max_tier_confirmations(c)
                + MaxOf({c.confirmations_delta, c.extra_msg_confirmations_delta})
  <1>1. /\ max_tier_confirmations(c) \in 2..100
        /\ c.confirmations_delta \in Nat
        /\ c.extra_msg_confirmations_delta \in Nat
        /\ SLACK \in Nat \ {0}
    BY TiersOfConfig, ConstantsAssumption
  <1>2. MaxOf({c.confirmations_delta, c.extra_msg_confirmations_delta})
            \in {c.confirmations_delta, c.extra_msg_confirmations_delta}
    BY <1>1, MaxOfTwo
  <1>3. QED
    BY <1>1, <1>2 DEF capacity_for

-----------------------------------------------------------------------------
(* Rings.                                                                  *)

\* A ring of n slots, whose cells sit where their heights map to, of blocks
\* that are on the chain.
Ring(ring, n, t) ==
    /\ ring \in [0..(n - 1) -> Cell \cup {None}]
    /\ \A i \in 0..(n - 1) : ring[i] # None => /\ ring[i].block_height % n = i
                                             /\ ring[i].block_height <= t

LEMMA CapacityOfRing ==
    ASSUME NEW n \in Nat \ {0}, NEW t, NEW ring, Ring(ring, n, t), NEW h \in Nat
    PROVE  capacity(ring) = n /\ slot(ring, h) = h % n /\ h % n \in 0..(n - 1)
  <1>1. DOMAIN ring = 0..(n - 1)
    BY DEF Ring
  <1>2. Cardinality(0..(n - 1)) = n
    BY FS_Interval
  <1>3. QED
    BY <1>1, <1>2, Division DEF capacity, slot

LEMMA NewRing ==
    ASSUME NEW n \in Nat \ {0}, NEW t
    PROVE  Ring(new(n), n, t)
  BY DEF Ring, new

LEMMA PutCell ==
    ASSUME NEW n \in Nat \ {0}, NEW t \in Nat, NEW ring, Ring(ring, n, t),
           NEW h \in Nat, h <= t, NEW sats \in Nat
    PROVE  Ring([ring EXCEPT ![h % n] = [block_height |-> h, cumulative_sats |-> sats]], n, t)
  <1>1. h % n \in 0..(n - 1)
    BY Division
  <1> DEFINE cell == [block_height |-> h, cumulative_sats |-> sats]
  <1>2. cell \in Cell /\ cell.block_height = h
    BY DEF Cell
  <1> HIDE DEF cell
  <1>3. Ring([ring EXCEPT ![h % n] = cell], n, t)
    BY <1>1, <1>2 DEF Ring
  <1>4. QED
    BY <1>3 DEF cell

\* Bumping a block writes its own cell, and only over an older block's.
LEMMA BumpWrites ==
    ASSUME NEW n \in Nat \ {0}, NEW t \in Nat, NEW ring, Ring(ring, n, t),
           NEW h \in Nat, NEW sats \in Nat, ~Shadowed(ring, h)
    PROVE  \E sum \in Nat :
            bump(ring, h, sats) =
                [ring EXCEPT ![h % n] = [block_height |-> h, cumulative_sats |-> sum]]
  <1>1. PICK s \in 0..(n - 1) : s = h % n /\ slot(ring, h) = s
    BY CapacityOfRing
  <1>2. PICK sum : sum = sats + IF Holds(ring, h) THEN ring[s].cumulative_sats ELSE 0
    OBVIOUS
  <1>3. sum \in Nat
    <2>1. CASE Holds(ring, h)
      <3>1. ring[s] \in Cell
        BY <1>1, <2>1 DEF Holds, Ring
      <3>2. ring[s].cumulative_sats \in Nat
        BY <3>1 DEF Cell
      <3>3. QED
        BY <1>2, <2>1, <3>2
    <2>2. QED
      BY <1>2, <2>1
  <1>4. bump(ring, h, sats) =
            [ring EXCEPT ![s] = [block_height |-> h, cumulative_sats |-> sum]]
    BY <1>1, <1>2 DEF bump
  <1>5. QED
    BY <1>1, <1>3, <1>4

LEMMA BumpRing ==
    ASSUME NEW n \in Nat \ {0}, NEW t \in Nat, NEW ring, Ring(ring, n, t),
           NEW h \in Nat, h <= t, NEW sats \in Nat
    PROVE  Ring(bump(ring, h, sats), n, t)
  <1>1. CASE Shadowed(ring, h)
    BY <1>1 DEF bump
  <1>2. CASE ~Shadowed(ring, h)
    <2>1. PICK sum \in Nat :
            bump(ring, h, sats) =
                [ring EXCEPT ![h % n] = [block_height |-> h, cumulative_sats |-> sum]]
      BY <1>2, BumpWrites
    <2>2. Ring([ring EXCEPT ![h % n] = [block_height |-> h, cumulative_sats |-> sum]], n, t)
      BY PutCell
    <2>3. QED
      BY <2>1, <2>2
  <1>3. QED
    BY <1>1, <1>2

\* A failed mint leaves every block in its cell.
LEMMA UnbumpWrites ==
    ASSUME NEW n \in Nat \ {0}, NEW t \in Nat, NEW ring, Ring(ring, n, t),
           NEW h \in Nat, NEW sats \in Nat, Holds(ring, h)
    PROVE  \E sum \in Nat :
            unbump(ring, h, sats) =
                [ring EXCEPT ![h % n] = [block_height |-> h, cumulative_sats |-> sum]]
  <1>1. PICK s \in 0..(n - 1) : s = h % n /\ slot(ring, h) = s
    BY CapacityOfRing
  <1>2. ring[s] \in Cell /\ ring[s].block_height = h
    BY <1>1 DEF Holds, Ring
  <1>3. PICK old \in Nat : ring[s] = [block_height |-> h, cumulative_sats |-> old]
    BY <1>2 DEF Cell
  <1>4. PICK sum \in Nat : sum = MaxOf({0, old - sats})
    BY MaxOfTwo
  <1>5. ring[s].cumulative_sats = old
    BY <1>3
  <1>6. unbump(ring, h, sats) =
            [ring EXCEPT ![s] = [ring[s] EXCEPT !.cumulative_sats = sum]]
    BY <1>1, <1>4, <1>5 DEF unbump
  <1>7. [ring[s] EXCEPT !.cumulative_sats = sum]
            = [block_height |-> h, cumulative_sats |-> sum]
    BY <1>3
  <1>8. QED
    BY <1>1, <1>6, <1>7

LEMMA UnbumpRing ==
    ASSUME NEW n \in Nat \ {0}, NEW t \in Nat, NEW ring, Ring(ring, n, t),
           NEW h \in Nat, h <= t, NEW sats \in Nat
    PROVE  Ring(unbump(ring, h, sats), n, t)
  <1>1. CASE ~Holds(ring, h)
    BY <1>1 DEF unbump
  <1>2. CASE Holds(ring, h)
    <2>1. PICK sum \in Nat :
            unbump(ring, h, sats) =
                [ring EXCEPT ![h % n] = [block_height |-> h, cumulative_sats |-> sum]]
      BY <1>2, UnbumpWrites
    <2>2. Ring([ring EXCEPT ![h % n] = [block_height |-> h, cumulative_sats |-> sum]], n, t)
      BY PutCell
    <2>3. QED
      BY <2>1, <2>2
  <1>3. QED
    BY <1>1, <1>2

\* Of the cells that collide one is the newest.
LEMMA NewestCell ==
    ASSUME NEW t \in Nat, NEW H, H \subseteq Cell, H # {},
           \A x \in H : x.block_height <= t
    PROVE  \E x \in H : /\ x = CHOOSE c \in H :
                             \A other \in H : c.block_height >= other.block_height
                       /\ \A other \in H : x.block_height >= other.block_height
  <1> DEFINE B == {x.block_height : x \in H}
  <1>1. \A x \in H : x.block_height \in Nat
    BY DEF Cell
  <1>2. B \subseteq Nat /\ B # {} /\ \A b \in B : b <= t
    BY <1>1
  <1>3. IsFiniteSet(B)
    BY <1>2, FS_BoundedSetOfNaturals
  <1>4. Max(B) \in B /\ \A b \in B : Max(B) >= b
    <2> HIDE DEF B
    <2>1. QED
      BY <1>2, <1>3, FiniteSetHasMax
  <1>5. PICK x \in H : x.block_height = Max(B)
    BY <1>4
  <1>6. \A other \in H : x.block_height >= other.block_height
    BY <1>4, <1>5
  <1>7. QED
    BY <1>6

\* A resize keeps every block, or a newer one in the cell it would have.
LEMMA ResizeRing ==
    ASSUME NEW n \in Nat \ {0}, NEW m \in Nat \ {0}, NEW t \in Nat, NEW ring,
           Ring(ring, n, t)
    PROVE  /\ Ring(resize(ring, m), m, t)
           /\ \A i \in 0..(n - 1) :
                ring[i] # None =>
                    /\ resize(ring, m)[ring[i].block_height % m] # None
                    /\ resize(ring, m)[ring[i].block_height % m].block_height
                            >= ring[i].block_height
  <1> DEFINE candidates == {ring[j] : j \in DOMAIN ring} \ {None}
             here(i) == {c \in candidates : c.block_height % m = i}
             kept(i) == CHOOSE c \in here(i) :
                            \A other \in here(i) : c.block_height >= other.block_height
             after == resize(ring, m)
  <1>1. candidates \subseteq Cell /\ \A c \in candidates : c.block_height <= t
    BY DEF Ring
  <1>2. after = [i \in 0..(m - 1) |-> IF here(i) = {} THEN None ELSE kept(i)]
    BY DEF resize
  <1>3. ASSUME NEW i \in 0..(m - 1), here(i) # {}
        PROVE  /\ kept(i) \in here(i)
               /\ \A other \in here(i) : kept(i).block_height >= other.block_height
    <2>1. here(i) \subseteq Cell /\ \A c \in here(i) : c.block_height <= t
      BY <1>1
    <2> HIDE DEF here
    <2>2. QED
      BY <1>3, <2>1, NewestCell
  <1>4. ASSUME NEW i \in 0..(m - 1), here(i) # {}
        PROVE  /\ after[i] \in Cell /\ after[i] # None
               /\ after[i].block_height % m = i /\ after[i].block_height <= t
               /\ \A other \in here(i) : after[i].block_height >= other.block_height
    <2>1. after[i] = kept(i)
      BY <1>2, <1>4
    <2>2. kept(i) \in here(i)
      BY <1>3, <1>4
    <2>3. kept(i) \in candidates /\ kept(i).block_height % m = i
      BY <2>2
    <2>4. kept(i) \in Cell /\ kept(i) # None /\ kept(i).block_height <= t
      BY <1>1, <2>3
    <2>5. \A other \in here(i) : kept(i).block_height >= other.block_height
      BY <1>3, <1>4
    <2> HIDE DEF after, kept, here
    <2>6. QED
      BY <2>1, <2>3, <2>4, <2>5
  <1>5. Ring(after, m, t)
    <2>1. \A i \in 0..(m - 1) : here(i) = {} => after[i] = None
      BY <1>2
    <2>2. DOMAIN after = 0..(m - 1) /\ after = [i \in DOMAIN after |-> after[i]]
      BY <1>2
    <2> HIDE DEF after, here
    <2>3. ASSUME NEW i \in 0..(m - 1)
          PROVE  /\ after[i] \in Cell \cup {None}
                 /\ after[i] # None => /\ after[i].block_height % m = i
                                       /\ after[i].block_height <= t
      BY <1>4, <2>1
    <2>4. QED
      BY <2>2, <2>3 DEF Ring
  <1>6. ASSUME NEW i \in 0..(n - 1), ring[i] # None
        PROVE  /\ after[ring[i].block_height % m] # None
               /\ after[ring[i].block_height % m].block_height >= ring[i].block_height
    <2>1. ring[i] \in candidates /\ ring[i].block_height \in Nat
      BY <1>6 DEF Ring, Cell
    <2>2. PICK j \in 0..(m - 1) : j = ring[i].block_height % m
      BY <2>1, Division
    <2>3. ring[i] \in here(j)
      BY <2>1, <2>2
    <2> HIDE DEF after, here
    <2>4. QED
      BY <1>4, <2>2, <2>3
  <1>7. QED
    BY <1>5, <1>6

-----------------------------------------------------------------------------
(* The inductive invariant.                                                *)

StateOK ==
    /\ config \in Config
    /\ reconfigured \in BOOLEAN
    /\ status \in [Deposit -> {"idle", "answered", "minting", "minted"}]
    /\ delta \in [Deposit -> Nat]
    /\ seen_tip \in [Deposit -> Nat]
    /\ tip \in Nat

\* The ring fits the configuration and holds blocks of the chain.
RingOK == Ring(cells, capacity_for(config), tip)

\* An accepted deposit is on the chain.
OnChain == \A d \in Deposit : status[d] # "idle" => Height[d] <= tip

\* An answer is at most MaxStale blocks old, and asks for one of the deltas.
AnswersOK ==
    \A d \in Deposit :
        status[d] = "answered" =>
            /\ seen_tip[d] <= tip
            /\ tip - seen_tip[d] <= MaxStale
            /\ ~reconfigured => delta[d] <= config.confirmations_delta
                                             + config.extra_msg_confirmations_delta

IInv == StateOK /\ RingOK /\ OnChain /\ AnswersOK

LEMMA DepositTypes ==
    ASSUME NEW d \in Deposit
    PROVE  Height[d] \in Nat /\ Amount[d] \in Nat
  BY ConstantsAssumption

LEMMA RingLater ==
    ASSUME NEW n \in Nat \ {0}, NEW t \in Nat, NEW ring, Ring(ring, n, t)
    PROVE  Ring(ring, n, t + 1)
  BY DEF Ring, Cell

LEMMA IInvTypeOK == IInv => TypeOK
  <1> SUFFICES ASSUME IInv PROVE TypeOK
    OBVIOUS
  <1>1. PICK n \in Nat \ {0} : n = capacity_for(config)
    BY CapacityCovers DEF IInv, StateOK
  <1>2. Ring(cells, n, tip)
    BY <1>1 DEF IInv, RingOK
  <1>3. cells \in [0..(n - 1) -> Cell \cup {None}]
    BY <1>2 DEF Ring
  <1>4. ASSUME NEW i \in DOMAIN cells, cells[i] # None
        PROVE  slot(cells, cells[i].block_height) = i
    <2>1. i \in 0..(n - 1) /\ cells[i] \in Cell /\ cells[i].block_height \in Nat
      BY <1>3, <1>4 DEF Cell
    <2>2. slot(cells, cells[i].block_height) = cells[i].block_height % n
      BY <1>2, <2>1, CapacityOfRing DEF IInv, StateOK
    <2>3. QED
      BY <1>2, <1>4, <2>1, <2>2 DEF Ring
  <1>5. QED
    BY <1>1, <1>3, <1>4 DEF IInv, StateOK, TypeOK

LEMMA InitIInv == Init => IInv
  <1> SUFFICES ASSUME Init PROVE IInv
    OBVIOUS
  <1>1. StateOK
    BY ConstantsAssumption DEF Init, StateOK
  <1>2. RingOK
    <2>1. capacity_for(config) \in Nat \ {0}
      BY <1>1, CapacityCovers DEF StateOK
    <2>2. cells = new(capacity_for(config))
      BY DEF Init
    <2>3. QED
      BY <2>1, <2>2, NewRing DEF RingOK
  <1>3. OnChain /\ AnswersOK
    BY DEF Init, OnChain, AnswersOK
  <1>4. QED
    BY <1>1, <1>2, <1>3 DEF IInv

\* Steps of one deposit.
LEMMA DepositIInv ==
    ASSUME IInv, NEW d \in Deposit,
           \/ VerifyDeposit(d)
           \/ VerifyDepositCallback(d)
           \/ VerifyDepositFails(d)
           \/ \E is_success \in BOOLEAN : MintCallback(d, is_success)
    PROVE  IInv'
  <1>1. /\ UNCHANGED <<config, reconfigured, tip>>
        /\ StateOK
    BY DEF VerifyDeposit, VerifyDepositCallback, VerifyDepositFails, MintCallback, IInv
  <1>2. PICK n \in Nat \ {0} : n = capacity_for(config)
    BY <1>1, CapacityCovers DEF StateOK
  <1>3. Ring(cells, n, tip) /\ Height[d] \in Nat /\ Amount[d] \in Nat /\ tip \in Nat
    BY <1>1, <1>2, DepositTypes DEF IInv, RingOK, StateOK
  <1>4. /\ config.confirmations_delta \in Nat
        /\ config.extra_msg_confirmations_delta \in Nat
    BY <1>1, TiersOfConfig DEF StateOK
  <1>5. CASE VerifyDeposit(d)
    <2>1. PICK extra \in {0, config.confirmations_delta, config.extra_msg_confirmations_delta} :
            delta' = [delta EXCEPT ![d] = extra]
      BY <1>5 DEF VerifyDeposit
    <2>2. /\ seen_tip' = [seen_tip EXCEPT ![d] = tip]
          /\ status' = [status EXCEPT ![d] = "answered"]
          /\ tip >= Height[d]
          /\ UNCHANGED cells
      BY <1>5 DEF VerifyDeposit
    <2>3. StateOK'
      BY <1>1, <1>4, <2>1, <2>2 DEF StateOK
    <2>4. RingOK'
      BY <1>1, <2>2 DEF IInv, RingOK
    <2>5. OnChain'
      BY <1>1, <2>2 DEF IInv, OnChain, StateOK
    <2>6. AnswersOK'
      BY <1>1, <1>4, <2>1, <2>2, ConstantsAssumption DEF IInv, AnswersOK, StateOK
    <2>7. QED
      BY <2>3, <2>4, <2>5, <2>6 DEF IInv
  <1>6. CASE VerifyDepositCallback(d) \/ VerifyDepositFails(d)
    <2>1. PICK next \in {"idle", "minting"} : Answered(d, next)
      BY <1>6 DEF VerifyDepositCallback, VerifyDepositFails
    <2>2. status[d] = "answered" /\ Height[d] <= tip
      BY <1>6 DEF VerifyDepositCallback, VerifyDepositFails, IInv, OnChain
    <2>3. StateOK'
      BY <1>1, <2>1 DEF StateOK, Answered
    <2>4. RingOK'
      <3>1. cells' = cells \/ cells' = bump(cells, Height[d], Amount[d])
        BY <1>6 DEF VerifyDepositCallback, VerifyDepositFails
      <3>2. Ring(cells', n, tip)
        BY <1>3, <2>2, <3>1, BumpRing
      <3>3. QED
        BY <1>1, <1>2, <3>2 DEF RingOK
    <2>5. OnChain'
      BY <1>1, <2>1, <2>2 DEF IInv, OnChain, StateOK, Answered
    <2>6. AnswersOK'
      BY <1>1, <2>1 DEF IInv, AnswersOK, StateOK, Answered
    <2>7. QED
      BY <2>3, <2>4, <2>5, <2>6 DEF IInv
  <1>7. ASSUME NEW is_success \in BOOLEAN, MintCallback(d, is_success) PROVE IInv'
    <2>1. PICK next \in {"idle", "minted"} : status' = [status EXCEPT ![d] = next]
      BY <1>7 DEF MintCallback
    <2>2. status[d] = "minting" /\ Height[d] <= tip /\ UNCHANGED <<delta, seen_tip>>
      BY <1>7 DEF MintCallback, IInv, OnChain
    <2>3. StateOK'
      BY <1>1, <2>1, <2>2 DEF StateOK
    <2>4. RingOK'
      <3>1. cells' = cells \/ cells' = unbump(cells, Height[d], Amount[d])
        BY <1>7 DEF MintCallback
      <3>2. Ring(cells', n, tip)
        BY <1>3, <2>2, <3>1, UnbumpRing
      <3>3. QED
        BY <1>1, <1>2, <3>2 DEF RingOK
    <2>5. OnChain'
      BY <1>1, <2>1, <2>2 DEF IInv, OnChain, StateOK
    <2>6. AnswersOK'
      BY <1>1, <2>1, <2>2 DEF IInv, AnswersOK, StateOK
    <2>7. QED
      BY <2>3, <2>4, <2>5, <2>6 DEF IInv
  <1>8. QED
    BY <1>5, <1>6, <1>7

\* The DAO sets a configuration that is one.
LEMMA ReconfigureIInv ==
    ASSUME IInv, NEW c \in Config, Reconfigure(c), UNCHANGED <<status, delta, seen_tip, tip>>
    PROVE  IInv'
  <1>1. StateOK /\ config' = c /\ reconfigured' = TRUE
    BY DEF IInv, Reconfigure
  <1>2. PICK n \in Nat \ {0}, m \in Nat \ {0} :
            n = capacity_for(config) /\ m = capacity_for(c)
    BY <1>1, CapacityCovers DEF StateOK
  <1>3. Ring(cells, n, tip) /\ tip \in Nat
    BY <1>1, <1>2 DEF IInv, RingOK, StateOK
  <1>4. Ring(cells', m, tip)
    <2>1. capacity(cells) = n
      BY <1>3, CapacityOfRing
    <2>2. CASE m = n
      BY <1>2, <1>3, <2>1, <2>2 DEF Reconfigure
    <2>3. CASE m # n
      BY <1>2, <1>3, <2>1, <2>3, ResizeRing DEF Reconfigure
    <2>4. QED
      BY <2>2, <2>3
  <1>5. StateOK' /\ OnChain' /\ AnswersOK'
    BY <1>1 DEF IInv, StateOK, OnChain, AnswersOK
  <1>6. RingOK'
    BY <1>1, <1>2, <1>4 DEF RingOK, capacity_for
  <1>7. QED
    BY <1>5, <1>6 DEF IInv

\* The configurations the DAO can set.
LEMMA ConfigFields ==
    ASSUME NEW strategy, NEW T \in (SUBSET Tier) \ {{}}, strategy \in [T -> Confirmations],
           NEW c \in Delta, NEW e \in Delta
    PROVE  [strategy |-> strategy, confirmations_delta |-> c,
            extra_msg_confirmations_delta |-> e] \in Config
  BY DEF Config

LEMMA ConfigShape ==
    ASSUME NEW c \in Config
    PROVE  /\ c = [strategy |-> c.strategy, confirmations_delta |-> c.confirmations_delta,
                   extra_msg_confirmations_delta |-> c.extra_msg_confirmations_delta]
           /\ c.confirmations_delta \in Delta /\ c.extra_msg_confirmations_delta \in Delta
           /\ \E T \in (SUBSET Tier) \ {{}} : c.strategy \in [T -> Confirmations]
  BY DEF Config

LEMMA DeltasConfig ==
    ASSUME NEW old \in Config, NEW c \in Delta, NEW e \in Delta, NEW r,
           r = [old EXCEPT !.confirmations_delta = c, !.extra_msg_confirmations_delta = e]
    PROVE  r \in Config
  <1>1. PICK S : old \in [strategy : S, confirmations_delta : Delta,
                          extra_msg_confirmations_delta : Delta]
               /\ S = UNION {[T -> Confirmations] : T \in (SUBSET Tier) \ {{}}}
    BY DEF Config
  <1>2. r \in [strategy : S, confirmations_delta : Delta,
               extra_msg_confirmations_delta : Delta]
    BY <1>1
  <1>3. QED
    BY <1>1, <1>2 DEF Config

LEMMA StrategyConfig ==
    ASSUME NEW old \in Config, NEW T \in (SUBSET Tier) \ {{}}, NEW f \in [T -> Confirmations]
    PROVE  [old EXCEPT !.strategy = f] \in Config
  <1>1. [old EXCEPT !.strategy = f]
            = [strategy |-> f, confirmations_delta |-> old.confirmations_delta,
               extra_msg_confirmations_delta |-> old.extra_msg_confirmations_delta]
    BY ConfigShape
  <1>2. QED
    BY <1>1, ConfigShape, ConfigFields

LEMMA DaoReconfigures ==
    ASSUME StateOK,
           \/ \E c, e \in Delta : UpdateConfig(c, e)
           \/ \E b \in Tier, n \in Confirmations : SetConfirmationsStrategy(b, n)
           \/ \E b \in Tier : RemoveConfirmationsStrategy(b)
    PROVE  /\ \E c \in Config : Reconfigure(c)
           /\ UNCHANGED <<status, delta, seen_tip, tip>>
  <1>1. PICK T \in (SUBSET Tier) \ {{}} : config.strategy \in [T -> Confirmations]
    BY ConfigShape DEF StateOK
  <1>2. ASSUME NEW c \in Delta, NEW e \in Delta, UpdateConfig(c, e)
        PROVE  \E new_config \in Config : Reconfigure(new_config)
    <2>1. PICK r : /\ r = [config EXCEPT !.confirmations_delta = c,
                                       !.extra_msg_confirmations_delta = e]
                   /\ Reconfigure(r)
      BY <1>2 DEF UpdateConfig
    <2>2. r \in Config
      BY <2>1, DeltasConfig DEF StateOK
    <2>3. QED
      BY <2>1, <2>2
  <1>3. ASSUME NEW b \in Tier, NEW n \in Confirmations, SetConfirmationsStrategy(b, n)
        PROVE  \E new_config \in Config : Reconfigure(new_config)
    <2> DEFINE f == [x \in DOMAIN config.strategy \cup {b} |->
                        IF x = b THEN n ELSE config.strategy[x]]
    <2>1. f \in [T \cup {b} -> Confirmations] /\ T \cup {b} \in (SUBSET Tier) \ {{}}
      BY <1>1
    <2>2. Reconfigure([config EXCEPT !.strategy = f])
      BY <1>3 DEF SetConfirmationsStrategy
    <2> HIDE DEF f
    <2>3. [config EXCEPT !.strategy = f] \in Config
      BY <2>1, StrategyConfig DEF StateOK
    <2>4. QED
      BY <2>2, <2>3
  <1>4. ASSUME NEW b \in Tier, RemoveConfirmationsStrategy(b)
        PROVE  \E new_config \in Config : Reconfigure(new_config)
    <2> DEFINE f == [x \in DOMAIN config.strategy \ {b} |-> config.strategy[x]]
    <2>1. T \ {b} \in (SUBSET Tier) \ {{}}
      BY <1>1, <1>4 DEF RemoveConfirmationsStrategy
    <2>2. f \in [T \ {b} -> Confirmations]
      BY <1>1
    <2>3. Reconfigure([config EXCEPT !.strategy = f])
      BY <1>4 DEF RemoveConfirmationsStrategy
    <2> HIDE DEF f
    <2>4. [config EXCEPT !.strategy = f] \in Config
      BY <2>1, <2>2, StrategyConfig DEF StateOK
    <2>5. QED
      BY <2>3, <2>4
  <1>5. UNCHANGED <<status, delta, seen_tip, tip>>
    BY DEF UpdateConfig, SetConfirmationsStrategy, RemoveConfirmationsStrategy
  <1>6. QED
    BY <1>2, <1>3, <1>4, <1>5

LEMMA NextIInv ==
    ASSUME IInv, [Next]_vars
    PROVE  IInv'
  <1>1. ASSUME NEW d \in Deposit,
               \/ VerifyDeposit(d)
               \/ VerifyDepositCallback(d)
               \/ VerifyDepositFails(d)
               \/ \E is_success \in BOOLEAN : MintCallback(d, is_success)
        PROVE  IInv'
    BY <1>1, DepositIInv
  <1>2. CASE \/ \E c, e \in Delta : UpdateConfig(c, e)
             \/ \E b \in Tier, n \in Confirmations : SetConfirmationsStrategy(b, n)
             \/ \E b \in Tier : RemoveConfirmationsStrategy(b)
    <2>1. PICK c \in Config : Reconfigure(c)
      BY <1>2, DaoReconfigures DEF IInv
    <2>2. UNCHANGED <<status, delta, seen_tip, tip>>
      BY <1>2, DaoReconfigures DEF IInv
    <2>3. QED
      BY <2>1, <2>2, ReconfigureIInv
  <1>3. CASE NewBlock
    <2>1. /\ tip' = tip + 1 /\ tip \in Nat
          /\ \A d \in Deposit : status[d] = "answered" => tip + 1 - seen_tip[d] <= MaxStale
          /\ UNCHANGED <<cells, config, reconfigured, status, delta, seen_tip>>
      BY <1>3 DEF NewBlock, IInv, StateOK
    <2>2. StateOK'
      BY <2>1 DEF IInv, StateOK
    <2>3. RingOK'
      <3>1. PICK n \in Nat \ {0} : n = capacity_for(config)
        BY CapacityCovers DEF IInv, StateOK
      <3>2. Ring(cells, n, tip + 1)
        BY <2>1, <3>1, RingLater DEF IInv, RingOK
      <3>3. QED
        BY <2>1, <3>1, <3>2 DEF RingOK, capacity_for, Ring
    <2>4. OnChain'
      BY <2>1, DepositTypes DEF IInv, OnChain
    <2>5. AnswersOK'
      BY <2>1 DEF IInv, AnswersOK, StateOK
    <2>6. QED
      BY <2>2, <2>3, <2>4, <2>5 DEF IInv
  <1>4. CASE UNCHANGED vars
    <2>1. UNCHANGED <<cells, config, reconfigured, status, delta, seen_tip, tip>>
      BY <1>4 DEF vars
    <2>2. RingOK'
      BY <2>1 DEF IInv, RingOK
    <2>3. StateOK' /\ OnChain' /\ AnswersOK'
      BY <2>1 DEF IInv, StateOK, OnChain, AnswersOK
    <2>4. QED
      BY <2>2, <2>3 DEF IInv
  <1>5. QED
    BY <1>1, <1>2, <1>3, <1>4 DEF Next

LEMMA RingInv == Spec => []IInv
  <1>1. IInv /\ [Next]_vars => IInv'
    BY NextIInv
  <1>2. QED
    BY <1>1, InitIInv, PTL DEF Spec

\* Whatever is accepted, given up and reconfigured, the ring has the capacity
\* of the configuration and each block is in the cell its height maps to, so a
\* lookup never takes one block's sum for another's.
THEOREM TypeCorrect == Spec => []TypeOK
  BY RingInv, IInvTypeOK, PTL

-----------------------------------------------------------------------------
(* Eviction.                                                               *)

\* A block that shadows another is a whole ring above it, and on the chain.
LEMMA ShadowedIsDeep ==
    ASSUME NEW n \in Nat \ {0}, NEW t \in Nat, NEW ring, Ring(ring, n, t),
           NEW h \in Nat, Shadowed(ring, h)
    PROVE  t >= h + n
  <1>1. PICK s \in 0..(n - 1) : s = h % n /\ slot(ring, h) = s
    BY CapacityOfRing
  <1>2. ring[s] \in Cell /\ ring[s].block_height > h /\ ring[s] # None
    BY <1>1 DEF Shadowed, Ring
  <1>3. PICK b \in Nat : b = ring[s].block_height
    BY <1>2 DEF Cell
  <1>4. b % n = h % n /\ b <= t /\ h < b
    BY <1>1, <1>2, <1>3 DEF Ring
  <1>5. b >= h + n
    BY <1>4, SameSlotApart
  <1>6. QED
    BY <1>4, <1>5

LEMMA IInvEvictedIsDeep ==
    ASSUME MaxStale <= SLACK + 1, IInv
    PROVE  EvictedIsDeep
  <1> SUFFICES ASSUME ~reconfigured, NEW d \in Deposit, status[d] = "answered",
                      Shadowed(cells, Height[d])
               PROVE  DeepEnough(d)
    BY DEF EvictedIsDeep
  <1>1. /\ config \in Config /\ tip \in Nat /\ seen_tip[d] \in Nat /\ delta[d] \in Nat
        /\ Height[d] \in Nat /\ MaxStale \in Nat /\ SLACK \in Nat
    BY DepositTypes, ConstantsAssumption DEF IInv, StateOK
  <1>2. PICK n \in Nat \ {0} : n = capacity_for(config)
    BY <1>1, CapacityCovers
  <1>3. tip >= Height[d] + n
    BY <1>1, <1>2, ShadowedIsDeep DEF IInv, RingOK
  <1>4. /\ tip - seen_tip[d] <= MaxStale
        /\ delta[d] <= config.confirmations_delta + config.extra_msg_confirmations_delta
    BY DEF IInv, AnswersOK
  <1>5. PICK m \in Nat, top \in Nat :
            /\ m = max_tier_confirmations(config)
            /\ top = config.strategy[Max(DOMAIN config.strategy)]
            /\ top <= m
    BY <1>1, TiersOfConfig
  <1>6. PICK x \in Nat, y \in Nat : /\ x = config.confirmations_delta
                                   /\ y = config.extra_msg_confirmations_delta
    BY <1>1, TiersOfConfig
  <1>7. n = m + x + y + SLACK
    BY <1>1, <1>2, <1>5, <1>6, CapacityCovers
  <1>8. RequiredTier(config, cells, Height[d], Amount[d]) = top
    BY <1>5 DEF RequiredTier
  <1>9. seen_tip[d] - Height[d] + 1 >= top + delta[d]
    BY <1>1, <1>3, <1>4, <1>5, <1>6, <1>7
  <1>10. QED
    BY <1>8, <1>9 DEF DeepEnough, Depth

\* A block loses its cell only to a newer one, a whole ring above it.
LostToNewer(h) ==
    Holds(cells, h) /\ ~Holds(cells', h) => tip >= h + capacity_for(config')

LEMMA WriteLosesOnlyOld ==
    ASSUME NEW n \in Nat \ {0}, tip \in Nat, Ring(cells, n, tip), NEW g \in Nat,
           g <= tip, ~Shadowed(cells, g), NEW sats \in Nat,
           cells' = [cells EXCEPT ![g % n] = [block_height |-> g, cumulative_sats |-> sats]],
           NEW h \in Nat, Holds(cells, h), ~Holds(cells', h)
    PROVE  tip >= h + n
  <1>1. PICK s \in 0..(n - 1) : s = h % n /\ slot(cells, h) = s
    BY CapacityOfRing
  <1>2. PICK r \in 0..(n - 1) : r = g % n /\ slot(cells, g) = r
    BY CapacityOfRing
  <1>3. Ring(cells', n, tip)
    BY PutCell
  <1>4. slot(cells', h) = s
    BY <1>1, <1>3, CapacityOfRing
  <1>5. cells[s] # None /\ cells[s].block_height = h
    BY <1>1 DEF Holds
  <1>6. r = s
    <2>1. CASE r # s
      <3>1. cells'[s] = cells[s]
        BY <1>1, <1>2, <2>1 DEF Ring
      <3>2. QED
        BY <1>4, <1>5, <3>1 DEF Holds
    <2>2. QED
      BY <2>1
  <1>7. h <= g
    BY <1>2, <1>5, <1>6 DEF Shadowed
  <1>8. h # g
    <2>1. CASE h = g
      <3>1. cells'[s] = [block_height |-> g, cumulative_sats |-> sats]
        BY <1>2, <1>6 DEF Ring
      <3>2. cells'[s] \in Cell /\ cells'[s].block_height = h
        BY <2>1, <3>1 DEF Cell
      <3>3. cells'[s] # None
        BY <3>2, ConstantsAssumption
      <3>4. QED
        BY <1>4, <3>2, <3>3 DEF Holds
    <2>2. QED
      BY <2>1
  <1>9. g >= h + n
    BY <1>1, <1>2, <1>6, <1>7, <1>8, SameSlotApart
  <1>10. QED
    BY <1>9

LEMMA ResizeLosesOnlyOld ==
    ASSUME NEW n \in Nat \ {0}, NEW m \in Nat \ {0}, NEW t \in Nat, NEW ring,
           Ring(ring, n, t), NEW h \in Nat, Holds(ring, h), ~Holds(resize(ring, m), h)
    PROVE  t >= h + m
  <1>1. PICK s \in 0..(n - 1) : s = h % n /\ slot(ring, h) = s
    BY CapacityOfRing
  <1>2. ring[s] # None /\ ring[s].block_height = h
    BY <1>1 DEF Holds
  <1>3. PICK after : after = resize(ring, m)
    OBVIOUS
  <1>4. Ring(after, m, t)
    BY <1>3, ResizeRing
  <1>5. PICK r \in 0..(m - 1) : r = h % m /\ slot(after, h) = r
    BY <1>4, CapacityOfRing
  <1>6. after[r] # None /\ after[r].block_height >= h
    BY <1>2, <1>3, <1>5, ResizeRing
  <1>7. after[r] \in Cell /\ after[r].block_height \in Nat
    BY <1>4, <1>6 DEF Ring, Cell
  <1>8. after[r].block_height # h
    BY <1>3, <1>5, <1>6 DEF Holds
  <1>9. Shadowed(after, h)
    BY <1>5, <1>6, <1>7, <1>8 DEF Shadowed
  <1>10. QED
    BY <1>4, <1>9, ShadowedIsDeep

LEMMA NextLosesOnlyOld ==
    ASSUME IInv, [Next]_vars, NEW h \in Nat
    PROVE  LostToNewer(h)
  <1>1. PICK n \in Nat \ {0} : n = capacity_for(config)
    BY CapacityCovers DEF IInv, StateOK
  <1>2. Ring(cells, n, tip) /\ tip \in Nat /\ config \in Config
    BY <1>1 DEF IInv, RingOK, StateOK
  <1>3. SUFFICES ASSUME Holds(cells, h), ~Holds(cells', h)
                 PROVE  tip >= h + capacity_for(config')
    BY DEF LostToNewer
  <1>4. cells' # cells
    BY <1>3
  <1>5. ASSUME NEW d \in Deposit, VerifyDepositCallback(d)
        PROVE  tip >= h + capacity_for(config')
    <2>1. /\ Height[d] \in Nat /\ Amount[d] \in Nat /\ Height[d] <= tip
          /\ cells' = bump(cells, Height[d], Amount[d])
          /\ config' = config
      BY <1>5, DepositTypes DEF VerifyDepositCallback, IInv, OnChain
    <2>2. ~Shadowed(cells, Height[d])
      BY <1>4, <2>1 DEF bump
    <2>3. PICK g \in Nat, amount \in Nat : g = Height[d] /\ amount = Amount[d]
      BY <2>1
    <2>4. g <= tip /\ ~Shadowed(cells, g)
      BY <2>1, <2>2, <2>3
    <2>5. PICK sum \in Nat :
            bump(cells, g, amount) =
                [cells EXCEPT ![g % n] = [block_height |-> g, cumulative_sats |-> sum]]
      BY <1>2, <2>4, BumpWrites
    <2>6. cells' = [cells EXCEPT ![g % n] = [block_height |-> g, cumulative_sats |-> sum]]
      BY <2>1, <2>3, <2>5
    <2>7. tip >= h + n
      BY <1>2, <1>3, <2>4, <2>6, WriteLosesOnlyOld
    <2>8. capacity_for(config') = n
      BY <1>1, <2>1
    <2>9. QED
      BY <2>7, <2>8
  <1>6. ASSUME NEW d \in Deposit, NEW is_success \in BOOLEAN, MintCallback(d, is_success)
        PROVE  tip >= h + capacity_for(config')
    <2>1. /\ Height[d] \in Nat /\ Amount[d] \in Nat /\ Height[d] <= tip
          /\ cells' = unbump(cells, Height[d], Amount[d])
          /\ config' = config
      BY <1>4, <1>6, DepositTypes DEF MintCallback, IInv, OnChain
    <2>2. Holds(cells, Height[d])
      BY <1>4, <2>1 DEF unbump
    <2>3. ~Shadowed(cells, Height[d])
      BY <2>1, <2>2 DEF Holds, Shadowed
    <2>4. PICK g \in Nat, amount \in Nat : g = Height[d] /\ amount = Amount[d]
      BY <2>1
    <2>5. g <= tip /\ ~Shadowed(cells, g) /\ Holds(cells, g)
      BY <2>1, <2>2, <2>3, <2>4
    <2>6. PICK sum \in Nat :
            unbump(cells, g, amount) =
                [cells EXCEPT ![g % n] = [block_height |-> g, cumulative_sats |-> sum]]
      BY <1>2, <2>5, UnbumpWrites
    <2>7. cells' = [cells EXCEPT ![g % n] = [block_height |-> g, cumulative_sats |-> sum]]
      BY <2>1, <2>4, <2>6
    <2>8. tip >= h + n
      BY <1>2, <1>3, <2>5, <2>7, WriteLosesOnlyOld
    <2>9. capacity_for(config') = n
      BY <1>1, <2>1
    <2>10. QED
      BY <2>8, <2>9
  <1>7. CASE \/ \E c, e \in Delta : UpdateConfig(c, e)
             \/ \E b \in Tier, k \in Confirmations : SetConfirmationsStrategy(b, k)
             \/ \E b \in Tier : RemoveConfirmationsStrategy(b)
    <2>1. PICK c \in Config : Reconfigure(c)
      BY <1>7, DaoReconfigures DEF IInv
    <2>2. PICK m \in Nat \ {0} : m = capacity_for(c)
      BY CapacityCovers
    <2>3. config' = c /\ cells' = resize(cells, m)
      BY <1>4, <2>1, <2>2 DEF Reconfigure
    <2>4. tip >= h + m
      BY <1>2, <1>3, <2>3, ResizeLosesOnlyOld
    <2>5. QED
      BY <2>2, <2>3, <2>4
  <1>8. CASE \/ \E d \in Deposit : VerifyDeposit(d) \/ VerifyDepositFails(d)
             \/ NewBlock
             \/ UNCHANGED vars
    BY <1>4, <1>8 DEF VerifyDeposit, VerifyDepositFails, NewBlock, vars
  <1>9. QED
    BY <1>5, <1>6, <1>7, <1>8 DEF Next

LEMMA NextResizes ==
    ASSUME IInv, [Next]_vars, NEW h \in Heights, Holds(cells, h), ~Holds(cells', h)
    PROVE  tip - h + 1 >= max_tier_confirmations(config')
                            + MaxOf({config'.confirmations_delta,
                                     config'.extra_msg_confirmations_delta})
  <1>1. h \in Nat
    BY DepositTypes DEF Heights
  <1>2. tip >= h + capacity_for(config')
    BY <1>1, NextLosesOnlyOld DEF LostToNewer
  <1>3. PICK c \in Config : c = config'
    BY NextIInv DEF IInv, StateOK
  <1>4. tip \in Nat
    BY DEF IInv, StateOK
  <1>5. PICK n \in Nat, m \in Nat, d \in Nat :
            /\ n = capacity_for(c)
            /\ m = max_tier_confirmations(c)
            /\ d = MaxOf({c.confirmations_delta, c.extra_msg_confirmations_delta})
            /\ n >= m + d
    <2>1. /\ max_tier_confirmations(c) \in Nat
          /\ c.confirmations_delta \in Nat /\ c.extra_msg_confirmations_delta \in Nat
      BY TiersOfConfig
    <2>2. MaxOf({c.confirmations_delta, c.extra_msg_confirmations_delta}) \in Nat
      BY <2>1, MaxOfTwo
    <2>3. QED
      BY <2>1, <2>2, CapacityCovers
  <1>6. capacity_for(config') = n
    BY <1>3, <1>5
  <1>7. tip - h + 1 >= m + d
    BY <1>1, <1>2, <1>4, <1>5, <1>6
  <1>8. QED
    BY <1>3, <1>5, <1>7

\* Whatever the tiers and deltas, being evicted costs a deposit nothing while
\* the configuration is the same, if the slack makes up for the blocks that are
\* found between an answer and its callback; with less slack it would.
THEOREM EvictionIsFree ==
    ASSUME MaxStale <= SLACK + 1
    PROVE  Spec => []EvictedIsDeep
  <1>1. IInv => EvictedIsDeep
    BY IInvEvictedIsDeep
  <1>2. QED
    BY <1>1, RingInv, PTL

\* Through every bump, failed mint and resize, for every pair of configurations,
\* a block is dropped only once it is as deep as anything asks for.
THEOREM DropsOnlyDeep == Spec => ResizeDropsOnlyDeep
  <1>1. IInv /\ [Next]_vars =>
            [\A h \in Heights :
                Holds(cells, h) /\ ~Holds(cells', h) =>
                    tip - h + 1 >= max_tier_confirmations(config')
                                    + MaxOf({config'.confirmations_delta,
                                             config'.extra_msg_confirmations_delta})]_vars
    BY NextResizes
  <1>2. QED
    BY <1>1, RingInv, PTL DEF Spec, ResizeDropsOnlyDeep

-----------------------------------------------------------------------------
(* Sums of blocks.                                                         *)

\* The ring knows of block h: it holds it, or a newer one in its place.
Known(ring, h) == Holds(ring, h) \/ Shadowed(ring, h)

Written(ring, n, h, sum) ==
    [ring EXCEPT ![h % n] = [block_height |-> h, cumulative_sats |-> sum]]

\* A write to a block's cell leaves every other cell alone, and forgets no
\* block but for a newer one.
LEMMA WriteReads ==
    ASSUME NEW n \in Nat \ {0}, NEW t \in Nat, NEW ring, Ring(ring, n, t),
           NEW h \in Nat, h <= t, ~Shadowed(ring, h), NEW sum \in Nat,
           NEW after, after = Written(ring, n, h, sum)
    PROVE  /\ Holds(after, h)
           /\ after[slot(after, h)].cumulative_sats = sum
           /\ \A g \in Nat :
                /\ g # h /\ Holds(after, g) =>
                        Holds(ring, g) /\ after[slot(after, g)] = ring[slot(ring, g)]
                /\ Known(ring, g) => Known(after, g)
  <1> DEFINE cell == [block_height |-> h, cumulative_sats |-> sum]
  <1>1. Ring(after, n, t)
    BY PutCell DEF Written
  <1>2. PICK s \in 0..(n - 1) : s = h % n /\ slot(ring, h) = s /\ slot(after, h) = s
    BY <1>1, CapacityOfRing
  <1>3. cell \in Cell /\ cell.block_height = h /\ cell.cumulative_sats = sum /\ cell # None
    BY ConstantsAssumption DEF Cell
  <1>4. after = [ring EXCEPT ![s] = cell]
    BY <1>2 DEF Written
  <1> HIDE DEF cell
  <1>5. after[s] = cell /\ \A i \in 0..(n - 1) : i # s => after[i] = ring[i]
    BY <1>4 DEF Ring
  <1>6. Holds(after, h) /\ after[slot(after, h)].cumulative_sats = sum
    BY <1>2, <1>3, <1>5 DEF Holds
  <1>7. ASSUME NEW g \in Nat
        PROVE  /\ g # h /\ Holds(after, g) =>
                        Holds(ring, g) /\ after[slot(after, g)] = ring[slot(ring, g)]
               /\ Known(ring, g) => Known(after, g)
    <2>1. PICK r \in 0..(n - 1) : slot(ring, g) = r /\ slot(after, g) = r
      BY <1>1, CapacityOfRing
    <2>2. CASE r # s
      BY <1>5, <2>1, <2>2 DEF Holds, Shadowed, Known
    <2>3. CASE r = s
      <3>1. after[r] = cell
        BY <1>5, <2>3
      <3>2. g # h => ~Holds(after, g)
        BY <1>3, <2>1, <3>1 DEF Holds
      <3>3. ASSUME Known(ring, g) PROVE Known(after, g)
        <4>1. ring[s] # None /\ (ring[s].block_height = g \/ ring[s].block_height > g)
          BY <2>1, <2>3, <3>3 DEF Known, Holds, Shadowed
        <4>2. ring[s] \in Cell
          BY <4>1 DEF Ring
        <4>3. ring[s].block_height \in Nat
          BY <4>2 DEF Cell
        <4>4. ring[s].block_height <= h
          BY <1>2, <4>1, <4>3 DEF Shadowed
        <4>5. h = g \/ h > g
          BY <4>1, <4>3, <4>4
        <4>6. QED
          BY <1>3, <2>1, <3>1, <4>5 DEF Known, Holds, Shadowed
      <3>4. QED
        BY <3>2, <3>3
    <2>4. QED
      BY <2>2, <2>3
  <1>8. QED
    BY <1>6, <1>7

\* What a bump and an unbump leave to be read.
LEMMA BumpReads ==
    ASSUME NEW n \in Nat \ {0}, NEW t \in Nat, NEW ring, Ring(ring, n, t),
           NEW h \in Nat, h <= t, ~Shadowed(ring, h), NEW sats \in Nat,
           NEW after, after = bump(ring, h, sats)
    PROVE  /\ Holds(after, h)
           /\ after[slot(after, h)].cumulative_sats
                = sats + IF Holds(ring, h) THEN ring[slot(ring, h)].cumulative_sats ELSE 0
           /\ \A g \in Nat :
                /\ g # h /\ Holds(after, g) =>
                        Holds(ring, g) /\ after[slot(after, g)] = ring[slot(ring, g)]
                /\ Known(ring, g) => Known(after, g)
  <1>1. PICK s \in 0..(n - 1) : s = h % n /\ slot(ring, h) = s
    BY CapacityOfRing
  <1>2. PICK sum : sum = sats + IF Holds(ring, h) THEN ring[s].cumulative_sats ELSE 0
    OBVIOUS
  <1>3. sum \in Nat
    <2>1. CASE Holds(ring, h)
      <3>1. ring[s] \in Cell
        BY <1>1, <2>1 DEF Holds, Ring
      <3>2. ring[s].cumulative_sats \in Nat
        BY <3>1 DEF Cell
      <3>3. QED
        BY <1>2, <2>1, <3>2
    <2>2. QED
      BY <1>2, <2>1
  <1>4. after = Written(ring, n, h, sum)
    BY <1>1, <1>2 DEF bump, Written
  <1>5. /\ Holds(after, h)
        /\ after[slot(after, h)].cumulative_sats = sum
        /\ \A g \in Nat :
            /\ g # h /\ Holds(after, g) =>
                    Holds(ring, g) /\ after[slot(after, g)] = ring[slot(ring, g)]
            /\ Known(ring, g) => Known(after, g)
    BY <1>3, <1>4, WriteReads
  <1>6. QED
    BY <1>1, <1>2, <1>5

LEMMA UnbumpReads ==
    ASSUME NEW n \in Nat \ {0}, NEW t \in Nat, NEW ring, Ring(ring, n, t),
           NEW h \in Nat, h <= t, Holds(ring, h), NEW sats \in Nat,
           NEW after, after = unbump(ring, h, sats)
    PROVE  /\ ring[slot(ring, h)].cumulative_sats \in Nat
           /\ Holds(after, h)
           /\ after[slot(after, h)].cumulative_sats
                = IF ring[slot(ring, h)].cumulative_sats >= sats
                  THEN ring[slot(ring, h)].cumulative_sats - sats ELSE 0
           /\ \A g \in Nat :
                /\ g # h /\ Holds(after, g) =>
                        Holds(ring, g) /\ after[slot(after, g)] = ring[slot(ring, g)]
                /\ Known(ring, g) => Known(after, g)
  <1>1. PICK s \in 0..(n - 1) : s = h % n /\ slot(ring, h) = s
    BY CapacityOfRing
  <1>2. ring[s] \in Cell /\ ring[s].block_height = h
    BY <1>1 DEF Holds, Ring
  <1>3. PICK old \in Nat : ring[s] = [block_height |-> h, cumulative_sats |-> old]
    BY <1>2 DEF Cell
  <1>4. PICK sum \in Nat :
            sum = MaxOf({0, old - sats}) /\ sum = IF old >= sats THEN old - sats ELSE 0
    BY MaxOfTwo
  <1>5. ring[s].cumulative_sats = old
    BY <1>3
  <1>6. after = [ring EXCEPT ![s] = [ring[s] EXCEPT !.cumulative_sats = sum]]
    BY <1>1, <1>4, <1>5 DEF unbump
  <1>7. [ring[s] EXCEPT !.cumulative_sats = sum]
            = [block_height |-> h, cumulative_sats |-> sum]
    BY <1>3
  <1>8. after = Written(ring, n, h, sum)
    BY <1>1, <1>6, <1>7 DEF Written
  <1>9. ~Shadowed(ring, h)
    BY DEF Holds, Shadowed
  <1>10. /\ Holds(after, h)
         /\ after[slot(after, h)].cumulative_sats = sum
         /\ \A g \in Nat :
             /\ g # h /\ Holds(after, g) =>
                     Holds(ring, g) /\ after[slot(after, g)] = ring[slot(ring, g)]
             /\ Known(ring, g) => Known(after, g)
    BY <1>8, <1>9, WriteReads
  <1>11. QED
    BY <1>1, <1>4, <1>5, <1>10

\* A resize moves cells and changes none.
LEMMA ResizeReads ==
    ASSUME NEW n \in Nat \ {0}, NEW m \in Nat \ {0}, NEW t \in Nat, NEW ring,
           Ring(ring, n, t), NEW after, after = resize(ring, m),
           NEW h \in Nat, Holds(after, h)
    PROVE  Holds(ring, h) /\ after[slot(after, h)] = ring[slot(ring, h)]
  <1> DEFINE candidates == {ring[j] : j \in DOMAIN ring} \ {None}
             here(i) == {c \in candidates : c.block_height % m = i}
             kept(i) == CHOOSE c \in here(i) :
                            \A other \in here(i) : c.block_height >= other.block_height
  <1>1. Ring(after, m, t)
    BY ResizeRing
  <1>2. PICK r \in 0..(m - 1) : slot(after, h) = r
    BY <1>1, CapacityOfRing
  <1>3. after[r] # None /\ after[r].block_height = h
    BY <1>2 DEF Holds
  <1>4. after[r] = IF here(r) = {} THEN None ELSE kept(r)
    BY DEF resize
  <1>5. here(r) # {} /\ after[r] = kept(r)
    BY <1>3, <1>4
  <1>6. here(r) \subseteq Cell /\ \A c \in here(r) : c.block_height <= t
    BY DEF Ring
  <1>7. kept(r) \in here(r)
    <2> HIDE DEF here
    <2>1. QED
      BY <1>5, <1>6, NewestCell
  <1>8. after[r] \in candidates
    BY <1>5, <1>7
  <1>9. PICK j \in 0..(n - 1) : ring[j] = after[r]
    BY <1>8 DEF Ring
  <1>10. slot(ring, h) = j
    <2>1. ring[j].block_height % n = j
      BY <1>3, <1>9 DEF Ring
    <2>2. QED
      BY <1>3, <1>9, <2>1, CapacityOfRing
  <1>11. QED
    BY <1>2, <1>3, <1>9, <1>10 DEF Holds

\* A deposit that is accepted or given up adds to its block or leaves it, and
\* concerns no other.
LEMMA AcceptedMore ==
    ASSUME StateOK, NEW d \in Deposit, status[d] \notin {"minting", "minted"},
           status' = [status EXCEPT ![d] = "minting"],
           NEW h, IsFiniteSet(Accepted(h))
    PROVE  /\ IsFiniteSet(Accepted(h)')
           /\ BlockSum(h) \in Nat
           /\ BlockSum(h)' = BlockSum(h) + IF Height[d] = h THEN Amount[d] ELSE 0
           /\ Height[d] # h => Accepted(h)' = Accepted(h)
  <1>1. Accepted(h)' = Accepted(h) \cup IF Height[d] = h THEN {d} ELSE {}
    BY DEF Accepted, StateOK
  <1>2. d \notin Accepted(h)
    BY DEF Accepted
  <1>3. Amount[d] \in Nat /\ \A x \in Accepted(h) : Amount[x] \in Nat
    BY DepositTypes DEF Accepted
  <1>4. BlockSum(h) \in Nat
    BY <1>3, SumNat DEF BlockSum
  <1>5. CASE Height[d] = h
    <2>1. Accepted(h)' = Accepted(h) \cup {d}
      BY <1>1, <1>5
    <2>2. SumFunctionOnSet(Amount, Accepted(h) \cup {d})
            = SumFunctionOnSet(Amount, Accepted(h)) + Amount[d]
      <3>1. \A x \in Accepted(h) : Amount[x] \in Int
        BY <1>3
      <3>2. Amount[d] \in Int
        BY <1>3
      <3> HIDE DEF Accepted
      <3>3. QED
        BY ONLY <3>1, <3>2, <1>2, IsFiniteSet(Accepted(h)), SumAdd
    <2>3. IsFiniteSet(Accepted(h) \cup {d})
      BY FS_AddElement
    <2>4. QED
      BY <1>4, <1>5, <2>1, <2>2, <2>3 DEF BlockSum
  <1>6. CASE Height[d] # h
    BY <1>1, <1>4, <1>6 DEF BlockSum
  <1>7. QED
    BY <1>5, <1>6

LEMMA AcceptedLess ==
    ASSUME StateOK, NEW d \in Deposit, status[d] \in {"minting", "minted"},
           status' = [status EXCEPT ![d] = "idle"],
           NEW h, IsFiniteSet(Accepted(h))
    PROVE  /\ IsFiniteSet(Accepted(h)')
           /\ BlockSum(h)' \in Nat
           /\ BlockSum(h) = BlockSum(h)' + IF Height[d] = h THEN Amount[d] ELSE 0
           /\ Accepted(h)' \subseteq Accepted(h)
  <1>1. Accepted(h)' = Accepted(h) \ {d}
    BY DEF Accepted, StateOK
  <1>2. Height[d] = h <=> d \in Accepted(h)
    BY DEF Accepted
  <1>3. Amount[d] \in Nat /\ \A x \in Accepted(h) : Amount[x] \in Nat
    BY DepositTypes DEF Accepted
  <1>4. IsFiniteSet(Accepted(h)')
    BY <1>1, FS_Subset
  <1>5. BlockSum(h)' \in Nat
    <2>1. \A x \in Accepted(h)' : Amount[x] \in Nat
      BY <1>1, <1>3
    <2>2. SumFunctionOnSet(Amount, Accepted(h)') \in Nat
      BY <1>4, <2>1, SumNat
    <2>3. QED
      BY <2>2 DEF BlockSum
  <1>6. CASE Height[d] = h
    <2>1. d \in Accepted(h)
      BY <1>2, <1>6
    <2>2. \A x \in Accepted(h) : Amount[x] \in Int
      BY <1>3
    <2>3. SumFunctionOnSet(Amount, Accepted(h))
            = Amount[d] + SumFunctionOnSet(Amount, Accepted(h) \ {d})
      BY ONLY <2>1, <2>2, IsFiniteSet(Accepted(h)), SumRemove
    <2>4. BlockSum(h) = Amount[d] + BlockSum(h)'
      BY <1>1, <2>3 DEF BlockSum
    <2>5. QED
      BY <1>1, <1>3, <1>4, <1>5, <1>6, <2>4
  <1>7. CASE Height[d] # h
    <2>1. Accepted(h)' = Accepted(h)
      BY <1>1, <1>2, <1>7
    <2>2. BlockSum(h) = BlockSum(h)'
      BY <2>1 DEF BlockSum
    <2>3. QED
      BY <1>1, <1>4, <1>5, <1>7, <2>2
  <1>8. QED
    BY <1>6, <1>7

\* Only finitely much was accepted from a block.
FiniteBlocks == \A h \in Heights : IsFiniteSet(Accepted(h))

SumsInv == FiniteBlocks /\ SumsAreExact /\ NeverOvercounted /\ assert_valid(config)

LEMMA HeightIsNat == \A h \in Heights : h \in Nat
  BY DepositTypes DEF Heights

LEMMA InitSums == Init => SumsInv
  <1> SUFFICES ASSUME Init PROVE SumsInv
    OBVIOUS
  <1>1. \A h : Accepted(h) = {}
    BY DEF Init, Accepted
  <1>2. FiniteBlocks
    BY <1>1, FS_EmptySet DEF FiniteBlocks
  <1>3. ASSUME NEW h \in Heights PROVE ~Holds(cells, h)
    <2>1. PICK n \in Nat \ {0} : n = capacity_for(InitialConfig)
      BY CapacityCovers, ConstantsAssumption
    <2>2. cells = new(n) /\ Ring(cells, n, tip)
      BY <2>1, NewRing DEF Init
    <2>3. slot(cells, h) \in 0..(n - 1)
      BY <2>2, HeightIsNat, CapacityOfRing
    <2>4. QED
      BY <2>2, <2>3 DEF new, Holds
  <1>4. SumsAreExact /\ NeverOvercounted
    BY <1>1, <1>3 DEF SumsAreExact, NeverOvercounted
  <1>5. QED
    BY <1>2, <1>4, InitialConfigIsValid DEF SumsInv, Init

\* Nothing is accepted or given up, and the ring is left alone.
LEMMA QuietSums ==
    ASSUME SumsInv, UNCHANGED <<cells, config, reconfigured>>,
           \A h \in Heights : Accepted(h)' = Accepted(h)
    PROVE  SumsInv'
  <1>1. \A h \in Heights : BlockSum(h)' = BlockSum(h)
    BY DEF BlockSum
  <1>2. FiniteBlocks'
    BY DEF SumsInv, FiniteBlocks, Heights
  <1>3. SumsAreExact'
    BY <1>1 DEF SumsInv, SumsAreExact, Heights, Holds, Shadowed, slot
  <1>4. NeverOvercounted'
    BY <1>1 DEF SumsInv, NeverOvercounted, Heights, Holds, Shadowed, slot
  <1>5. assert_valid(config)'
    BY DEF SumsInv, assert_valid
  <1>6. QED
    BY <1>2, <1>3, <1>4, <1>5 DEF SumsInv

LEMMA CallbackSums ==
    ASSUME IInv, SumsInv, NEW d \in Deposit, VerifyDepositCallback(d)
    PROVE  SumsInv'
  <1>1. /\ status[d] = "answered" /\ status' = [status EXCEPT ![d] = "minting"]
        /\ cells' = bump(cells, Height[d], Amount[d])
        /\ UNCHANGED <<config, reconfigured, tip>>
    BY DEF VerifyDepositCallback, Answered
  <1>2. StateOK /\ Height[d] \in Nat /\ Amount[d] \in Nat /\ tip \in Nat /\ Height[d] <= tip
    BY <1>1, DepositTypes DEF IInv, StateOK, OnChain
  <1>3. PICK n \in Nat \ {0} : Ring(cells, n, tip)
    BY CapacityCovers DEF IInv, StateOK, RingOK
  <1>4. ASSUME NEW h \in Heights
        PROVE  /\ h \in Nat
               /\ IsFiniteSet(Accepted(h)')
               /\ BlockSum(h) \in Nat
               /\ BlockSum(h)' = BlockSum(h) + IF Height[d] = h THEN Amount[d] ELSE 0
               /\ Height[d] # h => Accepted(h)' = Accepted(h)
    BY <1>1, <1>2, HeightIsNat, AcceptedMore DEF SumsInv, FiniteBlocks
  <1>5. FiniteBlocks'
    BY <1>4 DEF FiniteBlocks, Heights
  <1>6. CASE Shadowed(cells, Height[d])
    <2>1. cells' = cells /\ ~Holds(cells, Height[d])
      <3>1. cells' = cells
        BY <1>1, <1>6 DEF bump
      <3>2. ~Holds(cells, Height[d])
        BY <1>2, <1>6 DEF Shadowed, Holds
      <3>3. QED
        BY <3>1, <3>2
    <2>2. NeverOvercounted'
      <3> SUFFICES ASSUME NEW h \in Heights, Holds(cells, h)
                   PROVE  cells[slot(cells, h)].cumulative_sats <= BlockSum(h)'
        BY <2>1 DEF NeverOvercounted, Heights
      <3>1. h # Height[d]
        BY <2>1
      <3>2. QED
        BY <1>4, <3>1 DEF SumsInv, NeverOvercounted
    <2>3. SumsAreExact'
      <3> SUFFICES ASSUME ~reconfigured, NEW h \in Heights
                   PROVE  /\ Holds(cells, h) =>
                                cells[slot(cells, h)].cumulative_sats = BlockSum(h)'
                          /\ ~Holds(cells, h) /\ Accepted(h)' # {} => Shadowed(cells, h)
        BY <1>1, <2>1 DEF SumsAreExact, Heights
      <3>1. CASE h = Height[d]
        BY <1>6, <2>1, <3>1
      <3>2. CASE h # Height[d]
        BY <1>4, <3>2 DEF SumsInv, SumsAreExact
      <3>3. QED
        BY <3>1, <3>2
    <2>4. QED
      BY <1>1, <1>5, <2>2, <2>3 DEF SumsInv, assert_valid
  <1>7. CASE ~Shadowed(cells, Height[d])
    <2> DEFINE g == Height[d]
    <2>1. g \in Heights
      BY DEF Heights
    <2>2. /\ Holds(cells', g)
          /\ cells'[slot(cells', g)].cumulative_sats
                = Amount[d] + IF Holds(cells, g)
                              THEN cells[slot(cells, g)].cumulative_sats ELSE 0
          /\ \A h \in Nat :
                /\ h # g /\ Holds(cells', h) =>
                        Holds(cells, h) /\ cells'[slot(cells', h)] = cells[slot(cells, h)]
                /\ Known(cells, h) => Known(cells', h)
      BY <1>1, <1>2, <1>3, <1>7, BumpReads
    <2>3. Holds(cells, g) => cells[slot(cells, g)].cumulative_sats \in Nat
      <3>1. slot(cells, g) \in 0..(n - 1)
        BY <1>2, <1>3, CapacityOfRing
      <3>2. Holds(cells, g) => cells[slot(cells, g)] \in Cell
        BY <1>3, <3>1 DEF Holds, Ring
      <3>3. QED
        BY <3>2 DEF Cell
    <2>4. NeverOvercounted'
      <3> SUFFICES ASSUME NEW h \in Heights, Holds(cells', h)
                   PROVE  cells'[slot(cells', h)].cumulative_sats <= BlockSum(h)'
        BY DEF NeverOvercounted, Heights
      <3>1. CASE h = g
        <4>1. Holds(cells, g) => cells[slot(cells, g)].cumulative_sats <= BlockSum(g)
          BY <2>1 DEF SumsInv, NeverOvercounted
        <4>2. BlockSum(g)' = BlockSum(g) + Amount[d] /\ BlockSum(g) \in Nat
          BY <1>4, <2>1
        <4>3. QED
          BY <1>2, <2>2, <2>3, <3>1, <4>1, <4>2
      <3>2. CASE h # g
        <4>1. Holds(cells, h) /\ cells'[slot(cells', h)] = cells[slot(cells, h)]
          BY <1>4, <2>2, <3>2
        <4>2. BlockSum(h)' = BlockSum(h)
          BY <1>4, <3>2
        <4>3. QED
          BY <4>1, <4>2 DEF SumsInv, NeverOvercounted
      <3>3. QED
        BY <3>1, <3>2
    <2>5. SumsAreExact'
      <3> SUFFICES ASSUME ~reconfigured, NEW h \in Heights
                   PROVE  /\ Holds(cells', h) =>
                                cells'[slot(cells', h)].cumulative_sats = BlockSum(h)'
                          /\ ~Holds(cells', h) /\ Accepted(h)' # {} => Shadowed(cells', h)
        BY <1>1 DEF SumsAreExact, Heights
      <3>1. CASE h = g
        <4>1. BlockSum(g)' = BlockSum(g) + Amount[d] /\ BlockSum(g) \in Nat
          BY <1>4, <2>1
        <4>2. CASE Holds(cells, g)
          <5>1. cells[slot(cells, g)].cumulative_sats = BlockSum(g)
            BY <2>1, <4>2 DEF SumsInv, SumsAreExact
          <5>2. QED
            BY <1>2, <2>2, <3>1, <4>1, <4>2, <5>1
        <4>3. CASE ~Holds(cells, g)
          <5>1. Accepted(g) = {}
            BY <1>7, <2>1, <4>3 DEF SumsInv, SumsAreExact
          <5>2. BlockSum(g) = 0
            BY <5>1, SumEmpty DEF BlockSum
          <5>3. QED
            BY <1>2, <2>2, <3>1, <4>1, <4>3, <5>2
        <4>4. QED
          BY <4>2, <4>3
      <3>2. CASE h # g
        <4>1. BlockSum(h)' = BlockSum(h) /\ Accepted(h)' = Accepted(h) /\ h \in Nat
          BY <1>4, <3>2
        <4>2. Holds(cells', h) => cells'[slot(cells', h)].cumulative_sats = BlockSum(h)'
          BY <2>2, <3>2, <4>1 DEF SumsInv, SumsAreExact
        <4>3. ASSUME ~Holds(cells', h), Accepted(h)' # {} PROVE Shadowed(cells', h)
          <5>1. Known(cells, h)
            BY <4>1, <4>3 DEF SumsInv, SumsAreExact, Known
          <5>2. Known(cells', h)
            BY <2>2, <4>1, <5>1
          <5>3. QED
            BY <4>3, <5>2 DEF Known
        <4>4. QED
          BY <4>2, <4>3
      <3>3. QED
        BY <3>1, <3>2
    <2>6. QED
      BY <1>1, <1>5, <2>4, <2>5 DEF SumsInv, assert_valid
  <1>8. QED
    BY <1>6, <1>7

\* A mint that fails: the block is charged for one deposit less.
LEMMA FailedMintSums ==
    ASSUME IInv, SumsInv, NEW d \in Deposit, MintCallback(d, FALSE)
    PROVE  SumsInv'
  <1>1. /\ status[d] = "minting" /\ status' = [status EXCEPT ![d] = "idle"]
        /\ cells' = unbump(cells, Height[d], Amount[d])
        /\ UNCHANGED <<config, reconfigured, tip>>
    BY DEF MintCallback
  <1>2. StateOK /\ Height[d] \in Nat /\ Amount[d] \in Nat /\ tip \in Nat /\ Height[d] <= tip
    BY <1>1, DepositTypes DEF IInv, StateOK, OnChain
  <1>3. PICK n \in Nat \ {0} : Ring(cells, n, tip)
    BY CapacityCovers DEF IInv, StateOK, RingOK
  <1>4. ASSUME NEW h \in Heights
        PROVE  /\ h \in Nat
               /\ IsFiniteSet(Accepted(h)')
               /\ BlockSum(h)' \in Nat
               /\ BlockSum(h) = BlockSum(h)' + IF Height[d] = h THEN Amount[d] ELSE 0
               /\ Accepted(h)' \subseteq Accepted(h)
    BY <1>1, <1>2, HeightIsNat, AcceptedLess DEF SumsInv, FiniteBlocks
  <1>5. FiniteBlocks'
    BY <1>4 DEF FiniteBlocks, Heights
  <1>6. CASE ~Holds(cells, Height[d])
    <2>1. cells' = cells
      BY <1>1, <1>6 DEF unbump
    <2>2. ASSUME NEW h \in Heights, Holds(cells, h) PROVE BlockSum(h)' = BlockSum(h)
      <3>1. h # Height[d]
        BY <1>6, <2>2
      <3>2. QED
        BY <1>4, <3>1
    <2>3. NeverOvercounted'
      BY <2>1, <2>2 DEF SumsInv, NeverOvercounted, Heights
    <2>4. SumsAreExact'
      BY <1>1, <1>4, <2>1, <2>2 DEF SumsInv, SumsAreExact, Heights
    <2>5. QED
      BY <1>1, <1>5, <2>3, <2>4 DEF SumsInv, assert_valid
  <1>7. CASE Holds(cells, Height[d])
    <2> DEFINE g == Height[d]
    <2>1. g \in Heights
      BY DEF Heights
    <2>2. /\ cells[slot(cells, g)].cumulative_sats \in Nat
          /\ Holds(cells', g)
          /\ cells'[slot(cells', g)].cumulative_sats
                = IF cells[slot(cells, g)].cumulative_sats >= Amount[d]
                  THEN cells[slot(cells, g)].cumulative_sats - Amount[d] ELSE 0
          /\ \A h \in Nat :
                /\ h # g /\ Holds(cells', h) =>
                        Holds(cells, h) /\ cells'[slot(cells', h)] = cells[slot(cells, h)]
                /\ Known(cells, h) => Known(cells', h)
      BY ONLY <1>1, <1>2, <1>3, <1>7, UnbumpReads
    <2>3. BlockSum(g) = BlockSum(g)' + Amount[d] /\ BlockSum(g)' \in Nat
      BY <1>4, <2>1
    <2>4. NeverOvercounted'
      <3> SUFFICES ASSUME NEW h \in Heights, Holds(cells', h)
                   PROVE  cells'[slot(cells', h)].cumulative_sats <= BlockSum(h)'
        BY DEF NeverOvercounted, Heights
      <3>1. CASE h = g
        <4>1. cells[slot(cells, g)].cumulative_sats <= BlockSum(g)
          BY <1>7, <2>1 DEF SumsInv, NeverOvercounted
        <4>2. QED
          BY <1>2, <2>2, <2>3, <3>1, <4>1
      <3>2. CASE h # g
        <4>1. Holds(cells, h) /\ cells'[slot(cells', h)] = cells[slot(cells, h)]
          BY <1>4, <2>2, <3>2
        <4>2. BlockSum(h)' = BlockSum(h)
          BY <1>4, <3>2
        <4>3. QED
          BY <4>1, <4>2 DEF SumsInv, NeverOvercounted
      <3>3. QED
        BY <3>1, <3>2
    <2>5. SumsAreExact'
      <3> SUFFICES ASSUME ~reconfigured, NEW h \in Heights
                   PROVE  /\ Holds(cells', h) =>
                                cells'[slot(cells', h)].cumulative_sats = BlockSum(h)'
                          /\ ~Holds(cells', h) /\ Accepted(h)' # {} => Shadowed(cells', h)
        BY <1>1 DEF SumsAreExact, Heights
      <3>1. CASE h = g
        <4>1. cells[slot(cells, g)].cumulative_sats = BlockSum(g)
          BY <1>7, <2>1 DEF SumsInv, SumsAreExact
        <4>2. QED
          BY <1>2, <2>2, <2>3, <3>1, <4>1
      <3>2. CASE h # g
        <4>1. BlockSum(h)' = BlockSum(h) /\ Accepted(h)' \subseteq Accepted(h) /\ h \in Nat
          BY <1>4, <3>2
        <4>2. Holds(cells', h) => cells'[slot(cells', h)].cumulative_sats = BlockSum(h)'
          BY <2>2, <3>2, <4>1 DEF SumsInv, SumsAreExact
        <4>3. ASSUME ~Holds(cells', h), Accepted(h)' # {} PROVE Shadowed(cells', h)
          <5>1. Known(cells, h)
            BY <4>1, <4>3 DEF SumsInv, SumsAreExact, Known
          <5>2. Known(cells', h)
            BY <2>2, <4>1, <5>1
          <5>3. QED
            BY <4>3, <5>2 DEF Known
        <4>4. QED
          BY <4>2, <4>3
      <3>3. QED
        BY <3>1, <3>2
    <2>6. QED
      BY <1>1, <1>5, <2>4, <2>5 DEF SumsInv, assert_valid
  <1>8. QED
    BY <1>6, <1>7

\* A resize forgets sums and charges nobody for more.
LEMMA ReconfigureSums ==
    ASSUME IInv, SumsInv, NEW c \in Config, Reconfigure(c), assert_valid(c),
           UNCHANGED <<status, delta, seen_tip, tip>>
    PROVE  SumsInv'
  <1>1. config' = c /\ reconfigured' = TRUE
    BY DEF Reconfigure
  <1>2. PICK n \in Nat \ {0} : Ring(cells, n, tip) /\ tip \in Nat
    BY CapacityCovers DEF IInv, StateOK, RingOK
  <1>3. PICK m \in Nat \ {0} : m = capacity_for(c)
    BY CapacityCovers
  <1>4. ASSUME NEW h \in Heights, Holds(cells', h)
        PROVE  Holds(cells, h) /\ cells'[slot(cells', h)] = cells[slot(cells, h)]
    <2>1. CASE cells' = cells
      BY <1>4, <2>1
    <2>2. CASE cells' = resize(cells, m)
      BY <1>2, <1>4, <2>2, HeightIsNat, ResizeReads
    <2>3. QED
      BY <1>3, <2>1, <2>2 DEF Reconfigure
  <1>5. \A h : Accepted(h)' = Accepted(h) /\ BlockSum(h)' = BlockSum(h)
    BY DEF Accepted, BlockSum
  <1>6. FiniteBlocks'
    BY <1>5 DEF SumsInv, FiniteBlocks, Heights
  <1>7. NeverOvercounted'
    BY <1>4, <1>5 DEF SumsInv, NeverOvercounted, Heights
  <1>8. SumsAreExact'
    BY <1>1 DEF SumsAreExact
  <1>9. assert_valid(config)'
    BY <1>1 DEF assert_valid
  <1>10. QED
    BY <1>6, <1>7, <1>8, <1>9 DEF SumsInv

LEMMA NextSums ==
    ASSUME IInv, SumsInv, [Next]_vars
    PROVE  SumsInv'
  <1>1. ASSUME NEW d \in Deposit, VerifyDepositCallback(d) PROVE SumsInv'
    BY <1>1, CallbackSums
  <1>2. ASSUME NEW d \in Deposit, MintCallback(d, FALSE) PROVE SumsInv'
    BY <1>2, FailedMintSums
  <1>3. ASSUME NEW d \in Deposit,
               VerifyDeposit(d) \/ VerifyDepositFails(d) \/ MintCallback(d, TRUE)
        PROVE  SumsInv'
    <2>1. UNCHANGED <<cells, config, reconfigured>>
      BY <1>3 DEF VerifyDeposit, VerifyDepositFails, MintCallback
    <2>2. \E next \in {"idle", "answered", "minting", "minted"} :
            /\ status' = [status EXCEPT ![d] = next]
            /\ next \in {"minting", "minted"} <=> status[d] \in {"minting", "minted"}
      BY <1>3 DEF VerifyDeposit, VerifyDepositFails, MintCallback, Answered
    <2>3. \A h \in Heights : Accepted(h)' = Accepted(h)
      BY <2>2 DEF IInv, StateOK, Accepted
    <2>4. QED
      BY <2>1, <2>3, QuietSums
  <1>4. CASE \/ \E c, e \in Delta : UpdateConfig(c, e)
             \/ \E b \in Tier, n \in Confirmations : SetConfirmationsStrategy(b, n)
             \/ \E b \in Tier : RemoveConfirmationsStrategy(b)
    <2>1. PICK c \in Config : Reconfigure(c)
      BY <1>4, DaoReconfigures DEF IInv
    <2>2. UNCHANGED <<status, delta, seen_tip, tip>>
      BY <1>4, DaoReconfigures DEF IInv
    <2>3. assert_valid(config')
      BY <1>4 DEF UpdateConfig, SetConfirmationsStrategy, RemoveConfirmationsStrategy
    <2>4. assert_valid(c)
      BY <2>1, <2>3 DEF Reconfigure
    <2>5. QED
      BY <2>1, <2>2, <2>4, ReconfigureSums
  <1>5. CASE NewBlock \/ UNCHANGED vars
    <2>1. UNCHANGED <<cells, config, reconfigured, status>>
      BY <1>5 DEF NewBlock, vars
    <2>2. QED
      BY <2>1, QuietSums DEF Accepted
  <1>6. QED
    BY <1>1, <1>2, <1>3, <1>4, <1>5 DEF Next

LEMMA SumsInvariant == Spec => []SumsInv
  <1>1. IInv /\ SumsInv /\ [Next]_vars => SumsInv'
    BY NextSums
  <1>2. QED
    BY <1>1, InitSums, RingInv, PTL DEF Spec

\* Whatever deposits, in whatever order they are bumped, given up and evicted:
\* while the configuration is the same, the ring knows to the satoshi what was
\* accepted from each block it holds, and the others are shadowed.
THEOREM SumsExact == Spec => []SumsAreExact
  <1>1. SumsInv => SumsAreExact
    BY DEF SumsInv
  <1>2. QED
    BY <1>1, SumsInvariant, PTL

\* Also through resizes no block is charged for more than was accepted from it.
THEOREM NoOvercount == Spec => []NeverOvercounted
  <1>1. SumsInv => NeverOvercounted
    BY DEF SumsInv
  <1>2. QED
    BY <1>1, SumsInvariant, PTL

-----------------------------------------------------------------------------
(* The tier of the whole block.                                            *)

\* No amount asks for more than the highest tier does.
LEMMA HighestTier ==
    ASSUME NEW c \in Config, assert_valid(c), NEW amount \in Nat
    PROVE  /\ get_confirmations(c, amount) \in Nat
           /\ get_confirmations(c, amount) <= c.strategy[Max(DOMAIN c.strategy)]
  <1> DEFINE S == DOMAIN c.strategy
             above == {b \in S : b > amount}
  <1>1. PICK T \in (SUBSET Tier) \ {{}} : c.strategy \in [T -> Confirmations]
    BY ConfigShape
  <1>2. S = T /\ S \subseteq Nat /\ S # {} /\ IsFiniteSet(S)
    BY <1>1, FS_Subset, ConstantsAssumption
  <1>3. Max(S) \in S /\ \A x \in S : Max(S) >= x
    <2> HIDE DEF S
    <2>1. QED
      BY <1>2, FiniteSetHasMax
  <1>4. PICK b \in S : get_confirmations(c, amount) = c.strategy[b]
    <2>1. CASE above = {}
      BY <1>3, <2>1 DEF get_confirmations
    <2>2. CASE above # {}
      <3>1. Min(above) \in above
        <4>1. above \subseteq Nat
          BY <1>2
        <4> HIDE DEF above
        <4>2. QED
          BY <2>2, <4>1, NatHasMin
      <3>2. QED
        BY <2>2, <3>1 DEF get_confirmations
    <2>3. QED
      BY <2>1, <2>2
  <1>5. b <= Max(S) /\ c.strategy[b] <= c.strategy[Max(S)]
    BY <1>2, <1>3 DEF assert_valid
  <1>6. c.strategy[b] \in Nat /\ c.strategy[Max(S)] \in Nat
    <2>1. \A x \in S : c.strategy[x] \in Confirmations
      BY <1>1, <1>2
    <2>2. Confirmations \subseteq Nat
      BY ConstantsAssumption
    <2>3. QED
      BY <1>3, <1>4, <2>1, <2>2
  <1>7. QED
    BY <1>4, <1>5, <1>6

LEMMA AcceptedAsDeep ==
    ASSUME IInv, SumsInv, [Next]_vars, ~reconfigured', NEW d \in Deposit
    PROVE  AsDeepAsItsBlockNeeds(d)
  <1> SUFFICES ASSUME status[d] = "answered", status'[d] = "minting"
               PROVE  Depth(tip, Height[d])
                        >= get_confirmations(config, BlockSum(Height[d])') + delta[d]
    BY DEF AsDeepAsItsBlockNeeds
  <1>1. VerifyDepositCallback(d)
    <2>1. ASSUME NEW e \in Deposit,
                 VerifyDeposit(e) \/ VerifyDepositFails(e)
                     \/ \E is_success \in BOOLEAN : MintCallback(e, is_success)
          PROVE  FALSE
      <3>1. \E next \in {"idle", "answered", "minted"} : status' = [status EXCEPT ![e] = next]
        BY <2>1 DEF VerifyDeposit, VerifyDepositFails, MintCallback, Answered
      <3>2. QED
        BY <3>1 DEF IInv, StateOK
    <2>2. ASSUME NEW e \in Deposit, VerifyDepositCallback(e), e # d PROVE FALSE
      BY <2>2 DEF VerifyDepositCallback, Answered, IInv, StateOK
    <2>3. status' # status
      OBVIOUS
    <2>4. QED
      BY <2>1, <2>2, <2>3
         DEF Next, UpdateConfig, SetConfirmationsStrategy, RemoveConfirmationsStrategy,
             NewBlock, vars
  <1> DEFINE h == Height[d]
             sum == BlockSum(h)'
  <1>2. /\ DeepEnough(d) /\ cells' = bump(cells, h, Amount[d])
        /\ UNCHANGED <<config, reconfigured, tip>>
        /\ status' = [status EXCEPT ![d] = "minting"]
    BY <1>1 DEF VerifyDepositCallback, Answered
  <1>3. /\ StateOK /\ h \in Nat /\ Amount[d] \in Nat /\ tip \in Nat /\ h <= tip
        /\ seen_tip[d] \in Nat /\ delta[d] \in Nat /\ seen_tip[d] <= tip
        /\ config \in Config /\ h \in Heights
    BY DepositTypes DEF IInv, StateOK, OnChain, AnswersOK, Heights
  <1>4. sum \in Nat
    <2>1. BlockSum(h) \in Nat /\ sum = BlockSum(h) + Amount[d]
      BY <1>2, <1>3, AcceptedMore DEF SumsInv, FiniteBlocks
    <2>2. QED
      BY <1>3, <2>1
  <1>5. /\ get_confirmations(config, sum) \in Nat
        /\ get_confirmations(config, sum) <= config.strategy[Max(DOMAIN config.strategy)]
    BY <1>3, <1>4, HighestTier DEF SumsInv
  <1>6. config.strategy[Max(DOMAIN config.strategy)] \in Nat
    BY <1>3, TiersOfConfig
  <1>7. PICK required \in Nat : /\ required = RequiredTier(config, cells, h, Amount[d])
                               /\ get_confirmations(config, sum) <= required
    <2>1. CASE Shadowed(cells, h)
      BY <1>5, <1>6, <2>1 DEF RequiredTier
    <2>2. CASE ~Shadowed(cells, h)
      <3>1. PICK n \in Nat \ {0} : Ring(cells, n, tip)
        BY CapacityCovers DEF IInv, StateOK, RingOK
      <3>2. Holds(cells', h)
        BY <1>2, <1>3, <2>2, <3>1, BumpReads
      <3>3. SumsInv'
        BY NextSums
      <3>4. cells'[slot(cells', h)].cumulative_sats = sum
        BY <1>2, <1>3, <3>2, <3>3 DEF SumsInv, SumsAreExact, Heights
      <3>5. slot(cells', h) = slot(cells, h)
        <4>1. h \in Nat /\ tip \in Nat /\ h <= tip /\ Amount[d] \in Nat
          BY <1>3
        <4>2. Ring(bump(cells, h, Amount[d]), n, tip)
          BY <3>1, <4>1, BumpRing
        <4>3. Ring(cells', n, tip)
          BY <1>2, <4>2
        <4>4. slot(cells, h) = h % n
          BY <3>1, <4>1, CapacityOfRing
        <4>5. slot(cells', h) = h % n
          BY <4>1, <4>3, CapacityOfRing
        <4>6. QED
          BY <4>4, <4>5
      <3>6. RequiredTier(config, cells, h, Amount[d]) = get_confirmations(config, sum)
        BY <1>2, <2>2, <3>4, <3>5 DEF RequiredTier
      <3>7. QED
        BY <1>5, <3>6
    <2>3. QED
      BY <2>1, <2>2
  <1>8. seen_tip[d] - h + 1 >= required + delta[d]
    BY <1>2, <1>7 DEF DeepEnough, Depth
  <1>9. tip - h + 1 >= get_confirmations(config, sum) + delta[d]
    BY <1>3, <1>5, <1>7, <1>8
  <1>10. QED
    BY <1>9 DEF Depth

\* Unless the configuration was ever changed, each deposit is as deep, when it
\* is accepted, as the tier of the whole of its block's accepted amount asks,
\* itself included, for every chain of blocks, amounts and tiers.
THEOREM TierOfWholeBlock == Spec => TierOfBlockSumUnchanged
  <1>1. IInv /\ SumsInv /\ [Next]_vars =>
            [~reconfigured' => \A d \in Deposit : AsDeepAsItsBlockNeeds(d)]_vars
    BY AcceptedAsDeep
  <1>2. QED
    BY <1>1, RingInv, SumsInvariant, PTL DEF Spec, TierOfBlockSumUnchanged
=============================================================================
