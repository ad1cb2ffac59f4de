--------------------------- MODULE NbtcTokenProofs --------------------------
(***************************************************************************)
(* Proofs about NbtcToken, for every value of its constants: the supply is *)
(* the sum of the balances, and the bridge's balance covers all that       *)
(* counts on it, whatever is under way.                                    *)
(***************************************************************************)
EXTENDS NbtcToken, SumTheorems

-----------------------------------------------------------------------------
(* Ledgers.                                                                *)

\* Balances of some accounts, the bridge's among them.
Ledger(b) ==
    /\ b \in [DOMAIN b -> Nat]
    /\ DOMAIN b \subseteq Account
    /\ Bridge \in DOMAIN b

LEMMA FiniteLedger ==
    ASSUME NEW b, Ledger(b)
    PROVE  /\ IsFiniteSet(DOMAIN b)
           /\ SumFunction(b) = SumFunctionOnSet(b, DOMAIN b)
           /\ SumFunction(b) \in Nat
           /\ \A a \in DOMAIN b : b[a] <= SumFunction(b)
  <1>1. IsFiniteSet(Account)
    <2>1. Account = (User \cup {Bridge}) \cup {Token}
      BY DEF Account
    <2>2. QED
      BY <2>1, FS_AddElement, ConstantsAssumption
  <1>2. IsFiniteSet(DOMAIN b)
    BY <1>1, FS_Subset DEF Ledger
  <1>3. SumFunction(b) = SumFunctionOnSet(b, DOMAIN b)
    BY DEF SumFunction
  <1>4. \A a \in DOMAIN b : b[a] \in Nat
    BY DEF Ledger
  <1>5. SumFunctionOnSet(b, DOMAIN b) \in Nat
    BY <1>2, <1>4, SumNat
  <1>6. \A a \in DOMAIN b : b[a] <= SumFunctionOnSet(b, DOMAIN b)
    BY <1>2, <1>4, SumElement
  <1>7. QED
    BY <1>2, <1>3, <1>5, <1>6

\* Setting one balance changes the sum by the difference.
LEMMA SetBalance ==
    ASSUME NEW b, Ledger(b), NEW a \in DOMAIN b, NEW x \in Nat,
           NEW after, DOMAIN after = DOMAIN b, after = [y \in DOMAIN after |-> after[y]],
           after[a] = x, \A y \in DOMAIN b : y # a => after[y] = b[y]
    PROVE  /\ Ledger(after)
           /\ SumFunction(after) = SumFunction(b) - b[a] + x
  <1>1. Ledger(after)
    BY DEF Ledger
  <1>2. IsFiniteSet(DOMAIN b) /\ SumFunction(b) = SumFunctionOnSet(b, DOMAIN b)
        /\ SumFunction(after) = SumFunctionOnSet(after, DOMAIN b)
    BY <1>1, FiniteLedger
  <1>3. (\A y \in DOMAIN b : b[y] \in Int) /\ after[a] \in Int
    BY DEF Ledger
  <1>4. SumFunctionOnSet(after, DOMAIN b) = SumFunctionOnSet(b, DOMAIN b) - b[a] + after[a]
    BY <1>2, <1>3, SumChange
  <1>5. QED
    BY <1>1, <1>2, <1>4

LEMMA DepositedLedger ==
    ASSUME NEW b, Ledger(b), NEW a \in Account, NEW x \in Nat
    PROVE  /\ Ledger(Deposited(b, a, x))
           /\ DOMAIN Deposited(b, a, x) = DOMAIN b \cup {a}
           /\ SumFunction(Deposited(b, a, x)) = SumFunction(b) + x
           /\ Deposited(b, a, x)[Bridge] = b[Bridge] + IF a = Bridge THEN x ELSE 0
           /\ \A y \in DOMAIN b : Deposited(b, a, x)[y] >= b[y]
           /\ \A y \in DOMAIN b : y # a => Deposited(b, a, x)[y] = b[y]
  <1> DEFINE after == Deposited(b, a, x)
  <1>1. /\ DOMAIN after = DOMAIN b \cup {a}
        /\ after = [y \in DOMAIN after |-> after[y]]
        /\ \A y \in DOMAIN b : after[y] = b[y] + IF y = a THEN x ELSE 0
        /\ a \notin DOMAIN b => after[a] = 0 + x
    BY DEF Deposited
  <1>2. \A y \in DOMAIN b : b[y] \in Nat
    BY DEF Ledger
  <1> HIDE DEF after
  <1>3. Ledger(after)
    <2>1. \A y \in DOMAIN after : after[y] \in Nat
      BY <1>1, <1>2
    <2>2. DOMAIN after \subseteq Account /\ Bridge \in DOMAIN after
      BY <1>1 DEF Ledger
    <2>3. QED
      BY <1>1, <2>1, <2>2 DEF Ledger
  <1>4. /\ after[Bridge] = b[Bridge] + IF a = Bridge THEN x ELSE 0
        /\ \A y \in DOMAIN b : after[y] >= b[y]
        /\ \A y \in DOMAIN b : y # a => after[y] = b[y]
    BY <1>1, <1>2 DEF Ledger
  <1>5. SumFunction(after) = SumFunction(b) + x
    <2>1. CASE a \in DOMAIN b
      <3>1. DOMAIN after = DOMAIN b /\ after[a] = b[a] + x /\ b[a] + x \in Nat /\ b[a] \in Nat
        BY <1>1, <1>2, <2>1
      <3>2. SumFunction(after) = SumFunction(b) - b[a] + (b[a] + x)
        BY <1>1, <1>4, <2>1, <3>1, SetBalance
      <3>3. QED
        BY <3>1, <3>2, FiniteLedger
    <2>2. CASE a \notin DOMAIN b
      <3>1. after[a] = x /\ \A y \in DOMAIN b : after[y] = b[y]
        BY <1>1, <1>4, <2>2
      <3>2. IsFiniteSet(DOMAIN b) /\ SumFunction(b) = SumFunctionOnSet(b, DOMAIN b)
            /\ SumFunction(after) = SumFunctionOnSet(after, DOMAIN after)
        BY <1>3, FiniteLedger
      <3>3. SumFunctionOnSet(after, DOMAIN b) = SumFunctionOnSet(b, DOMAIN b)
        BY <3>1, <3>2, SumSame
      <3>4. SumFunctionOnSet(after, DOMAIN b \cup {a})
                = SumFunctionOnSet(after, DOMAIN b) + after[a]
        <4>1. (\A y \in DOMAIN b : after[y] \in Int) /\ after[a] \in Int
          BY <1>2, <3>1
        <4>2. QED
          BY <2>2, <3>2, <4>1, SumAdd
      <3>5. QED
        BY <1>1, <3>1, <3>2, <3>3, <3>4
    <2>3. QED
      BY <2>1, <2>2
  <1>6. QED
    BY <1>1, <1>3, <1>4, <1>5 DEF after

\* Burning takes from the sum, a transfer does not.
LEMMA BurnedLedger ==
    ASSUME NEW b, Ledger(b), NEW a \in DOMAIN b, NEW x \in Nat, x <= b[a]
    PROVE  /\ Ledger([b EXCEPT ![a] = @ - x])
           /\ DOMAIN [b EXCEPT ![a] = @ - x] = DOMAIN b
           /\ SumFunction([b EXCEPT ![a] = @ - x]) = SumFunction(b) - x
           /\ [b EXCEPT ![a] = @ - x][Bridge] = b[Bridge] - IF a = Bridge THEN x ELSE 0
  <1> DEFINE after == [b EXCEPT ![a] = @ - x]
  <1>1. DOMAIN after = DOMAIN b /\ after = [y \in DOMAIN after |-> after[y]]
        /\ after[a] = b[a] - x /\ \A y \in DOMAIN b : y # a => after[y] = b[y]
    OBVIOUS
  <1>2. b[a] \in Nat /\ b[a] - x \in Nat /\ Bridge \in DOMAIN b /\ b[Bridge] \in Nat
    BY DEF Ledger
  <1> HIDE DEF after
  <1>3. Ledger(after) /\ SumFunction(after) = SumFunction(b) - b[a] + (b[a] - x)
    BY <1>1, <1>2, SetBalance
  <1>4. SumFunction(after) = SumFunction(b) - x
    BY <1>2, <1>3, FiniteLedger
  <1>5. after[Bridge] = b[Bridge] - IF a = Bridge THEN x ELSE 0
    BY <1>1, <1>2
  <1>6. QED
    BY <1>1, <1>3, <1>4, <1>5 DEF after

LEMMA TransferredLedger ==
    ASSUME NEW b, Ledger(b), NEW s \in DOMAIN b, NEW t \in DOMAIN b, s # t,
           NEW x \in Nat, x <= b[s]
    PROVE  /\ Ledger(Transferred(b, s, t, x))
           /\ SumFunction(Transferred(b, s, t, x)) = SumFunction(b)
           /\ Transferred(b, s, t, x)[Bridge]
                = b[Bridge] - (IF s = Bridge THEN x ELSE 0) + (IF t = Bridge THEN x ELSE 0)
  <1> DEFINE after == Transferred(b, s, t, x)
             burned == [b EXCEPT ![s] = @ - x]
  <1>1. /\ Ledger(burned) /\ DOMAIN burned = DOMAIN b
        /\ SumFunction(burned) = SumFunction(b) - x
        /\ burned[Bridge] = b[Bridge] - IF s = Bridge THEN x ELSE 0
    BY BurnedLedger
  <1>2. DOMAIN after = DOMAIN b /\ after = [y \in DOMAIN after |-> after[y]]
        /\ after[t] = burned[t] + x /\ \A y \in DOMAIN b : y # t => after[y] = burned[y]
    BY DEF Transferred
  <1> HIDE DEF after, burned
  <1>3. burned[t] \in Nat /\ burned[t] + x \in Nat /\ Bridge \in DOMAIN b
        /\ burned[Bridge] \in Nat /\ b[Bridge] \in Nat
    BY <1>1 DEF Ledger
  <1>4. Ledger(after) /\ SumFunction(after) = SumFunction(burned) - burned[t] + (burned[t] + x)
    BY <1>1, <1>2, <1>3, SetBalance
  <1>5. SumFunction(after) = SumFunction(b)
    BY <1>1, <1>3, <1>4, FiniteLedger
  <1>6. after[Bridge] = burned[Bridge] + IF t = Bridge THEN x ELSE 0
    BY <1>2, <1>3
  <1>7. after[Bridge]
            = b[Bridge] - (IF s = Bridge THEN x ELSE 0) + (IF t = Bridge THEN x ELSE 0)
    BY <1>1, <1>3, <1>6
  <1>8. QED
    BY <1>4, <1>5, <1>7 DEF after

LEMMA ClosedLedger ==
    ASSUME NEW b, Ledger(b), NEW a \in DOMAIN b, a # Bridge
    PROVE  /\ Ledger([y \in DOMAIN b \ {a} |-> b[y]])
           /\ SumFunction([y \in DOMAIN b \ {a} |-> b[y]]) = SumFunction(b) - b[a]
           /\ [y \in DOMAIN b \ {a} |-> b[y]][Bridge] = b[Bridge]
           /\ b[a] \in Nat
  <1> DEFINE after == [y \in DOMAIN b \ {a} |-> b[y]]
  <1>1. Ledger(after) /\ after[Bridge] = b[Bridge] /\ b[a] \in Nat
    BY DEF Ledger
  <1>2. DOMAIN after = DOMAIN b \ {a} /\ \A y \in DOMAIN b \ {a} : after[y] = b[y]
    OBVIOUS
  <1> HIDE DEF after
  <1>3. /\ IsFiniteSet(DOMAIN b) /\ SumFunction(b) = SumFunctionOnSet(b, DOMAIN b)
        /\ IsFiniteSet(DOMAIN after)
        /\ SumFunction(after) = SumFunctionOnSet(after, DOMAIN after)
        /\ SumFunction(after) \in Nat
    BY <1>1, FiniteLedger
  <1>4. \A y \in DOMAIN b : b[y] \in Int
    BY DEF Ledger
  <1>5. SumFunctionOnSet(b, DOMAIN b) = b[a] + SumFunctionOnSet(b, DOMAIN b \ {a})
    BY <1>3, <1>4, SumRemove
  <1>6. SumFunctionOnSet(b, DOMAIN b \ {a}) = SumFunctionOnSet(after, DOMAIN b \ {a})
    BY <1>2, <1>3, SumSame
  <1>7. SumFunction(after) = SumFunction(b) - b[a]
    BY <1>1, <1>2, <1>3, <1>5, <1>6
  <1>8. QED
    BY <1>1, <1>7 DEF after

-----------------------------------------------------------------------------
(* The inductive invariant.                                                *)

\* A transfer call is between two accounts, and a safe one comes from the
\* bridge.  Not more is returned than was sent.
CallOK(c) ==
    /\ c.kind \in {"ft_on_transfer", "ft_resolve_transfer"} =>
            c.sender # c.receiver /\ (c.safe => c.sender = Bridge)
    /\ c.kind = "ft_resolve_transfer" => c.unused <= c.amount

\* The relayer's share is part of the fee, the fee part of the amount.
PendingOK(p) == p.relayer_fee <= p.withdraw_fee /\ p.withdraw_fee <= p.amount

TypesOK ==
    /\ Ledger(accounts)
    /\ total_supply \in Int
    /\ withdraw_relayer \in User \cup {None}
    /\ receipts \in [Receipt -> Call \cup {None}]
    /\ \A r \in Receipt : receipts[r] # None => CallOK(receipts[r])
    /\ withdrawals \in [Withdrawals -> PendingInfo \cup {None}]
    /\ \A w \in Withdrawals : withdrawals[w] # None => PendingOK(withdrawals[w])
    /\ available \in Nat
    /\ protocol_fee_rate \in 0..MAX_RATIO
    /\ custody \in Int

\* What a call, or its absence, counts on in the balance of the bridge, the
\* post actions of a deposit to the bridge itself included; and what it burns.
DueAt(c) ==
    IF c = None THEN 0
    ELSE IF c.kind = "handle_post_action" /\ c.sender = Bridge THEN c.amount ELSE OwedBy(c)
BurningAt(c) == IF c # None /\ c.kind = "burn_refused" THEN c.amount ELSE 0

\* The same for a withdrawal.
HeldAt(p)   == IF p = None THEN 0 ELSE p.amount
ToBurnAt(p) == IF p # None /\ p.stage # "pending" THEN BurnAmount(p) ELSE 0

Due     == [r \in Receipt |-> DueAt(receipts[r])]
Burning == [r \in Receipt |-> BurningAt(receipts[r])]
Held    == [w \in Withdrawals |-> HeldAt(withdrawals[w])]
ToBurn  == [w \in Withdrawals |-> ToBurnAt(withdrawals[w])]

TotalDue     == SumFunctionOnSet(Due, Receipt)
TotalBurning == SumFunctionOnSet(Burning, Receipt)
TotalHeld    == SumFunctionOnSet(Held, Withdrawals)
TotalToBurn  == SumFunctionOnSet(ToBurn, Withdrawals)

\* The bridge holds what anybody counts on.
Covered == accounts[Bridge] >= available + TotalHeld + TotalDue

BackedByCustody == total_supply <= custody + TotalBurning + TotalToBurn

IInv == TypesOK /\ SupplyIsSum /\ Covered /\ BackedByCustody

-----------------------------------------------------------------------------
(* Calls under way and withdrawals.                                        *)

LEMMA CallFields ==
    ASSUME NEW c \in Call
    PROVE  /\ c # None /\ c.amount \in Nat
           /\ c.kind \in {"collect", "burn_refused", "claim", "handle_post_action",
                          "ft_on_transfer", "ft_resolve_transfer", "safe_mint_callback"}
           /\ c.kind \in {"claim", "handle_post_action"} => c.receiver \in User
           /\ c.kind = "handle_post_action" => c.sender \in Account
           /\ c.kind \in {"ft_on_transfer", "ft_resolve_transfer"} =>
                c.sender \in Account /\ c.receiver \in Account /\ c.safe \in BOOLEAN
           /\ c.kind = "ft_resolve_transfer" => c.unused \in Nat
           /\ c.kind = "safe_mint_callback" => c.used \in Nat \cup {None}
  <1>1. c # None
    BY NoneAssumption
  <1>2. QED
    BY <1>1 DEF Call

\* What each kind of call counts on.
LEMMA DueOf ==
    ASSUME NEW c \in Call
    PROVE  /\ DueAt(c) =
                IF \/ c.kind \in {"collect", "burn_refused", "claim"}
                   \/ c.kind = "handle_post_action" /\ c.sender = Bridge
                   \/ c.kind = "safe_mint_callback" /\ c.used = 0
                   \/ c.kind = "ft_on_transfer" /\ c.receiver = Bridge
                THEN c.amount
                ELSE IF c.kind = "ft_resolve_transfer" /\ c.receiver = Bridge
                THEN c.unused ELSE 0
           /\ DueAt(c) \in Nat
           /\ BurningAt(c) = IF c.kind = "burn_refused" THEN c.amount ELSE 0
           /\ BurningAt(c) \in Nat
  <1>1. DueAt(c) =
            IF \/ c.kind \in {"collect", "burn_refused", "claim"}
               \/ c.kind = "handle_post_action" /\ c.sender = Bridge
               \/ c.kind = "safe_mint_callback" /\ c.used = 0
               \/ c.kind = "ft_on_transfer" /\ c.receiver = Bridge
            THEN c.amount
            ELSE IF c.kind = "ft_resolve_transfer" /\ c.receiver = Bridge
            THEN c.unused ELSE 0
    BY CallFields DEF DueAt, OwedBy
  <1>2. BurningAt(c) = IF c.kind = "burn_refused" THEN c.amount ELSE 0
    BY CallFields DEF BurningAt
  <1>3. QED
    BY <1>1, <1>2, CallFields

LEMMA DueOfNone == DueAt(None) = 0 /\ BurningAt(None) = 0
  BY DEF DueAt, BurningAt

\* One call that takes the place of another moves the totals by what they differ.
LEMMA SendTotals ==
    ASSUME TypesOK, NEW r \in Receipt, NEW c \in Call \cup {None}, c # None => CallOK(c),
           Send(r, c)
    PROVE  /\ receipts' \in [Receipt -> Call \cup {None}]
           /\ \A q \in Receipt : receipts'[q] # None => CallOK(receipts'[q])
           /\ TotalDue \in Nat /\ TotalBurning \in Nat
           /\ TotalDue' = TotalDue - DueAt(receipts[r]) + DueAt(c)
           /\ TotalBurning' = TotalBurning - BurningAt(receipts[r]) + BurningAt(c)
  <1>1. \A x \in Call \cup {None} : DueAt(x) \in Nat /\ BurningAt(x) \in Nat
    BY DueOf, DueOfNone
  <1>2. /\ receipts' = [receipts EXCEPT ![r] = c]
        /\ receipts \in [Receipt -> Call \cup {None}]
    BY DEF Send, TypesOK
  <1>3. /\ receipts' \in [Receipt -> Call \cup {None}]
        /\ receipts'[r] = c /\ \A q \in Receipt : q # r => receipts'[q] = receipts[q]
    BY <1>2
  <1>4. \A q \in Receipt : receipts'[q] # None => CallOK(receipts'[q])
    BY <1>3 DEF TypesOK
  <1>5. /\ \A q \in Receipt : Due[q] = DueAt(receipts[q]) /\ Due[q] \in Nat
        /\ \A q \in Receipt : Burning[q] = BurningAt(receipts[q]) /\ Burning[q] \in Nat
    BY <1>1, <1>2 DEF Due, Burning
  <1>6. /\ \A q \in Receipt : Due'[q] = DueAt(receipts'[q])
        /\ \A q \in Receipt : Burning'[q] = BurningAt(receipts'[q])
    BY DEF Due, Burning, DueAt, BurningAt, OwedBy
  <1>7. IsFiniteSet(Receipt)
    BY ConstantsAssumption
  <1>8. TotalDue \in Nat /\ TotalBurning \in Nat
    BY <1>5, <1>7, SumNat DEF TotalDue, TotalBurning
  <1>9. SumFunctionOnSet(Due', Receipt) = SumFunctionOnSet(Due, Receipt) - Due[r] + Due'[r]
    <2>1. /\ \A q \in Receipt : Due[q] \in Int
          /\ Due'[r] \in Int
          /\ \A q \in Receipt : q # r => Due'[q] = Due[q]
      BY <1>1, <1>3, <1>5, <1>6
    <2>2. QED
      BY <1>7, <2>1, SumChange
  <1>10. SumFunctionOnSet(Burning', Receipt)
            = SumFunctionOnSet(Burning, Receipt) - Burning[r] + Burning'[r]
    <2>1. /\ \A q \in Receipt : Burning[q] \in Int
          /\ Burning'[r] \in Int
          /\ \A q \in Receipt : q # r => Burning'[q] = Burning[q]
      BY <1>1, <1>3, <1>5, <1>6
    <2>2. QED
      BY <1>7, <2>1, SumChange
  <1>11. QED
    BY <1>3, <1>4, <1>5, <1>6, <1>8, <1>9, <1>10 DEF TotalDue, TotalBurning

LEMMA PendingFields ==
    ASSUME NEW p \in PendingInfo, PendingOK(p)
    PROVE  /\ p # None
           /\ p.amount \in Nat /\ p.withdraw_fee \in Nat /\ p.relayer_fee \in Nat
           /\ p.relayer_fee <= p.withdraw_fee /\ p.withdraw_fee <= p.amount
           /\ p.stage \in {"pending", "confirmed", "burning"}
           /\ BurnAmount(p) = p.amount - p.withdraw_fee /\ BurnAmount(p) \in Nat
           /\ HeldAt(p) = p.amount
           /\ ToBurnAt(p) = IF p.stage = "pending" THEN 0 ELSE BurnAmount(p)
  <1>1. p # None
    BY NoneAssumption
  <1>2. p.amount \in Nat /\ p.withdraw_fee \in Nat /\ p.relayer_fee \in Nat
        /\ p.stage \in {"pending", "confirmed", "burning"}
    BY DEF PendingInfo
  <1>3. QED
    BY <1>1, <1>2 DEF PendingOK, BurnAmount, HeldAt, ToBurnAt

LEMMA HeldIsNat ==
    ASSUME NEW p \in PendingInfo \cup {None}, p # None => PendingOK(p)
    PROVE  HeldAt(p) \in Nat /\ ToBurnAt(p) \in Nat
  <1>1. CASE p = None
    BY <1>1 DEF HeldAt, ToBurnAt
  <1>2. CASE p # None
    BY <1>2, PendingFields
  <1>3. QED
    BY <1>1, <1>2

LEMMA WithdrawalTotals ==
    ASSUME TypesOK, NEW w \in Withdrawals, NEW p \in PendingInfo \cup {None},
           p # None => PendingOK(p), withdrawals' = [withdrawals EXCEPT ![w] = p]
    PROVE  /\ withdrawals' \in [Withdrawals -> PendingInfo \cup {None}]
           /\ \A v \in Withdrawals : withdrawals'[v] # None => PendingOK(withdrawals'[v])
           /\ TotalHeld \in Nat /\ TotalToBurn \in Nat
           /\ TotalHeld' = TotalHeld - HeldAt(withdrawals[w]) + HeldAt(p)
           /\ TotalToBurn' = TotalToBurn - ToBurnAt(withdrawals[w]) + ToBurnAt(p)
  <1>1. \A x \in PendingInfo \cup {None} : (x # None => PendingOK(x)) =>
            HeldAt(x) \in Nat /\ ToBurnAt(x) \in Nat
    BY HeldIsNat
  <1>2. withdrawals \in [Withdrawals -> PendingInfo \cup {None}]
    BY DEF TypesOK
  <1>3. /\ withdrawals' \in [Withdrawals -> PendingInfo \cup {None}]
        /\ withdrawals'[w] = p
        /\ \A v \in Withdrawals : v # w => withdrawals'[v] = withdrawals[v]
    BY <1>2
  <1>4. \A v \in Withdrawals : withdrawals'[v] # None => PendingOK(withdrawals'[v])
    BY <1>3 DEF TypesOK
  <1>5. /\ \A v \in Withdrawals : Held[v] = HeldAt(withdrawals[v]) /\ Held[v] \in Nat
        /\ \A v \in Withdrawals : ToBurn[v] = ToBurnAt(withdrawals[v]) /\ ToBurn[v] \in Nat
    BY <1>1, <1>2 DEF Held, ToBurn, TypesOK
  <1>6. /\ \A v \in Withdrawals : Held'[v] = HeldAt(withdrawals'[v])
        /\ \A v \in Withdrawals : ToBurn'[v] = ToBurnAt(withdrawals'[v])
    BY DEF Held, ToBurn, HeldAt, ToBurnAt
  <1>7. IsFiniteSet(Withdrawals)
    BY ConstantsAssumption
  <1>8. TotalHeld \in Nat /\ TotalToBurn \in Nat
    BY <1>5, <1>7, SumNat DEF TotalHeld, TotalToBurn
  <1>9. SumFunctionOnSet(Held', Withdrawals)
            = SumFunctionOnSet(Held, Withdrawals) - Held[w] + Held'[w]
    <2>1. /\ \A v \in Withdrawals : Held[v] \in Int
          /\ Held'[w] \in Int
          /\ \A v \in Withdrawals : v # w => Held'[v] = Held[v]
      BY <1>1, <1>3, <1>5, <1>6
    <2>2. QED
      BY <1>7, <2>1, SumChange
  <1>10. SumFunctionOnSet(ToBurn', Withdrawals)
            = SumFunctionOnSet(ToBurn, Withdrawals) - ToBurn[w] + ToBurn'[w]
    <2>1. /\ \A v \in Withdrawals : ToBurn[v] \in Int
          /\ ToBurn'[w] \in Int
          /\ \A v \in Withdrawals : v # w => ToBurn'[v] = ToBurn[v]
      BY <1>1, <1>3, <1>5, <1>6
    <2>2. QED
      BY <1>7, <2>1, SumChange
  <1>11. QED
    BY <1>3, <1>4, <1>5, <1>6, <1>8, <1>9, <1>10 DEF TotalHeld, TotalToBurn

\* What was not touched adds up to what it did.
LEMMA TotalsKept ==
    /\ UNCHANGED receipts => TotalDue' = TotalDue /\ TotalBurning' = TotalBurning
    /\ UNCHANGED withdrawals => TotalHeld' = TotalHeld /\ TotalToBurn' = TotalToBurn
  BY DEF TotalDue, TotalBurning, TotalHeld, TotalToBurn, Due, Burning, Held, ToBurn,
         DueAt, BurningAt, OwedBy, HeldAt, ToBurnAt

LEMMA TotalsAreNat ==
    ASSUME TypesOK
    PROVE  TotalDue \in Nat /\ TotalBurning \in Nat /\ TotalHeld \in Nat /\ TotalToBurn \in Nat
  <1>1. \A q \in Receipt : Due[q] \in Nat /\ Burning[q] \in Nat
    BY DueOf, DueOfNone DEF Due, Burning, TypesOK
  <1>2. \A v \in Withdrawals : Held[v] \in Nat /\ ToBurn[v] \in Nat
    <2> SUFFICES ASSUME NEW v \in Withdrawals PROVE Held[v] \in Nat /\ ToBurn[v] \in Nat
      OBVIOUS
    <2>1. CASE withdrawals[v] = None
      BY <2>1 DEF Held, ToBurn, HeldAt, ToBurnAt
    <2>2. CASE withdrawals[v] # None
      <3>1. withdrawals[v] \in PendingInfo /\ PendingOK(withdrawals[v])
        BY <2>2 DEF TypesOK
      <3>2. QED
        BY <3>1, PendingFields DEF Held, ToBurn
    <2>3. QED
      BY <2>1, <2>2
  <1>3. QED
    BY <1>1, <1>2, SumNat, ConstantsAssumption DEF TotalDue, TotalBurning, TotalHeld, TotalToBurn

LEMMA OfKind ==
    ASSUME TypesOK, NEW k, NEW r \in Of(k)
    PROVE  r \in Receipt /\ receipts[r] \in Call /\ CallOK(receipts[r]) /\ receipts[r].kind = k
  BY DEF Of, TypesOK

LEMMA IdleReceipt ==
    ASSUME NEW r \in Idle
    PROVE  r \in Receipt /\ receipts[r] = None
  BY DEF Idle

\* The calls that are made, and what they count on.
LEMMA NewCalls ==
    ASSUME NEW x \in Nat
    PROVE  /\ LET c == [kind |-> "collect", amount |-> x] IN
              c \in Call /\ CallOK(c) /\ DueAt(c) = x /\ BurningAt(c) = 0
           /\ LET c == [kind |-> "burn_refused", amount |-> x] IN
              c \in Call /\ CallOK(c) /\ DueAt(c) = x /\ BurningAt(c) = x
           /\ \A u \in User :
              LET c == [kind |-> "claim", receiver |-> u, amount |-> x] IN
              c \in Call /\ CallOK(c) /\ DueAt(c) = x /\ BurningAt(c) = 0
  <1>1. ASSUME NEW k \in {"collect", "burn_refused"}
        PROVE  LET c == [kind |-> k, amount |-> x] IN
               /\ c \in Call /\ CallOK(c) /\ DueAt(c) = x
               /\ BurningAt(c) = IF k = "burn_refused" THEN x ELSE 0
    <2> DEFINE c == [kind |-> k, amount |-> x]
    <2>1. c \in Call /\ c.kind = k /\ c.amount = x
      BY DEF Call
    <2> HIDE DEF c
    <2>2. c \in Call /\ CallOK(c) /\ DueAt(c) = x
          /\ BurningAt(c) = IF k = "burn_refused" THEN x ELSE 0
      BY <2>1, DueOf DEF CallOK
    <2> QED
      BY <2>2 DEF c
  <1>2. ASSUME NEW u \in User
        PROVE  LET c == [kind |-> "claim", receiver |-> u, amount |-> x] IN
               c \in Call /\ CallOK(c) /\ DueAt(c) = x /\ BurningAt(c) = 0
    <2> DEFINE c == [kind |-> "claim", receiver |-> u, amount |-> x]
    <2>1. c \in Call /\ c.kind = "claim" /\ c.amount = x
      BY DEF Call
    <2> HIDE DEF c
    <2>2. c \in Call /\ CallOK(c) /\ DueAt(c) = x /\ BurningAt(c) = 0
      BY <2>1, DueOf DEF CallOK
    <2> QED
      BY <2>2 DEF c
  <1>3. QED
    BY <1>1, <1>2

LEMMA NewPostAction ==
    ASSUME NEW x \in Nat, NEW s \in Account, NEW u \in User, NEW c,
           c = [kind |-> "handle_post_action", sender |-> s, receiver |-> u, amount |-> x]
    PROVE  c \in Call /\ CallOK(c) /\ BurningAt(c) = 0
           /\ DueAt(c) = IF s = Bridge THEN x ELSE 0
  <1>1. c \in Call /\ c.kind = "handle_post_action" /\ c.amount = x /\ c.sender = s
    BY DEF Call
  <1>2. QED
    BY ONLY <1>1, DueOf DEF CallOK

LEMMA NewTransfer ==
    ASSUME NEW x \in Nat, NEW s \in Account, NEW t \in Account, s # t
    PROVE  /\ OnTransfer(s, t, x, FALSE) \in Call
           /\ CallOK(OnTransfer(s, t, x, FALSE))
           /\ BurningAt(OnTransfer(s, t, x, FALSE)) = 0
           /\ DueAt(OnTransfer(s, t, x, FALSE)) = IF t = Bridge THEN x ELSE 0
  <1> DEFINE c == OnTransfer(s, t, x, FALSE)
  <1>1. c \in Call /\ c.kind = "ft_on_transfer"
    BY DEF Call, OnTransfer
  <1>2. c.amount = x /\ c.sender = s /\ c.receiver = t /\ c.safe = FALSE
    BY DEF OnTransfer
  <1> HIDE DEF c
  <1>3. CallOK(c)
    BY <1>1, <1>2 DEF CallOK
  <1>4. BurningAt(c) = 0 /\ DueAt(c) = IF t = Bridge THEN x ELSE 0
    BY ONLY <1>1, <1>2, DueOf
  <1>5. QED
    BY <1>1, <1>3, <1>4 DEF c

LEMMA NewSafeTransfer ==
    ASSUME NEW x \in Nat, NEW u \in User
    PROVE  /\ OnTransfer(Bridge, u, x, TRUE) \in Call
           /\ CallOK(OnTransfer(Bridge, u, x, TRUE))
           /\ BurningAt(OnTransfer(Bridge, u, x, TRUE)) = 0
           /\ DueAt(OnTransfer(Bridge, u, x, TRUE)) = 0
  <1> DEFINE c == OnTransfer(Bridge, u, x, TRUE)
  <1>1. Bridge \in Account /\ u \in Account /\ Bridge # u
    BY ConstantsAssumption DEF Account
  <1>2. c \in Call /\ c.kind = "ft_on_transfer"
    BY <1>1 DEF Call, OnTransfer
  <1>3. c.amount = x /\ c.sender = Bridge /\ c.receiver = u /\ c.safe = TRUE
    BY DEF OnTransfer
  <1> HIDE DEF c
  <1>4. CallOK(c)
    BY <1>1, <1>2, <1>3 DEF CallOK
  <1>5. BurningAt(c) = 0 /\ DueAt(c) = IF u = Bridge THEN x ELSE 0
    BY ONLY <1>2, <1>3, DueOf
  <1>6. QED
    BY <1>1, <1>2, <1>4, <1>5 DEF c

LEMMA NewAnswer ==
    ASSUME NEW x \in Nat, NEW used \in Nat \cup {None}
    PROVE  /\ SafeMintAnswer(x, used) \in Call
           /\ CallOK(SafeMintAnswer(x, used))
           /\ BurningAt(SafeMintAnswer(x, used)) = 0
           /\ DueAt(SafeMintAnswer(x, used)) = IF used = 0 THEN x ELSE 0
  <1> DEFINE c == SafeMintAnswer(x, used)
  <1>1. c \in Call /\ c.kind = "safe_mint_callback" /\ c.amount = x /\ c.used = used
    BY DEF Call, SafeMintAnswer
  <1> HIDE DEF c
  <1>2. c \in Call /\ CallOK(c) /\ BurningAt(c) = 0 /\ DueAt(c) = IF used = 0 THEN x ELSE 0
    BY ONLY <1>1, DueOf DEF CallOK
  <1>3. QED
    BY <1>2 DEF c

\* A transfer that was answered keeps who sent what to whom.
LEMMA Resolved ==
    ASSUME TypesOK, NEW r \in Of("ft_on_transfer"), NEW unused \in Nat,
           unused <= receipts[r].amount, Resolve(r, unused)
    PROVE  \E c \in Call :
            /\ Send(r, c) /\ CallOK(c) /\ BurningAt(c) = 0
            /\ DueAt(c) = IF receipts[r].receiver = Bridge THEN unused ELSE 0
  <1> DEFINE old == receipts[r]
             c == [kind |-> "ft_resolve_transfer", sender |-> old.sender,
                   receiver |-> old.receiver, amount |-> old.amount,
                   safe |-> old.safe, unused |-> unused]
  <1>1. old \in Call /\ CallOK(old) /\ old.kind = "ft_on_transfer"
    BY OfKind
  <1>2. /\ old.amount \in Nat /\ old.sender \in Account /\ old.receiver \in Account
        /\ old.safe \in BOOLEAN
    BY <1>1, CallFields
  <1>3. old.sender # old.receiver /\ (old.safe => old.sender = Bridge)
    BY <1>1 DEF CallOK
  <1>4. Send(r, c)
    BY DEF Resolve
  <1> HIDE DEF old
  <1>5. c \in Call /\ c.kind = "ft_resolve_transfer"
    BY <1>2 DEF Call
  <1>6. /\ c.amount = old.amount /\ c.sender = old.sender /\ c.receiver = old.receiver
        /\ c.safe = old.safe /\ c.unused = unused
    OBVIOUS
  <1>7. unused <= old.amount
    BY DEF old
  <1> HIDE DEF c
  <1>8. CallOK(c)
    BY <1>3, <1>5, <1>6, <1>7 DEF CallOK
  <1>9. BurningAt(c) = 0 /\ DueAt(c) = IF old.receiver = Bridge THEN unused ELSE 0
    BY ONLY <1>5, <1>6, DueOf
  <1>10. QED
    BY <1>4, <1>5, <1>8, <1>9 DEF old

-----------------------------------------------------------------------------
(* Deposits.                                                               *)

LEMMA PostActionsFit ==
    ASSUME NEW amount, NEW actions \in PostActions(amount)
    PROVE  /\ \A q \in DOMAIN actions : actions[q].receiver \in User /\ actions[q].amount \in Nat
           /\ SumFunctionOnSet([q \in DOMAIN actions |-> actions[q].amount], DOMAIN actions)
                    <= amount
  <1>1. PICK R : /\ actions \in [R -> [receiver : User, amount : TransferAmount]]
                 /\ SumFunction([r \in R |-> actions[r].amount]) <= amount
    BY DEF PostActions
  <1>2. DOMAIN actions = R
    BY <1>1
  <1>3. SumFunction([r \in R |-> actions[r].amount])
            = SumFunctionOnSet([r \in R |-> actions[r].amount], R)
    BY DEF SumFunction
  <1>4. \A q \in R : actions[q].receiver \in User /\ actions[q].amount \in Nat
    BY <1>1, ConstantsAssumption
  <1>5. QED
    BY <1>1, <1>2, <1>3, <1>4

\* Amounts that sit on one receipt, and on some, add up to what they are.
LEMMA SumOfOne ==
    ASSUME NEW S, IsFiniteSet(S), NEW y \in S, NEW x \in Nat
    PROVE  SumFunctionOnSet([q \in S |-> IF q = y THEN x ELSE 0], S) = x
  <1> DEFINE f == [q \in S |-> IF q = y THEN x ELSE 0]
  <1>1. (\A q \in S : f[q] \in Int) /\ f[y] = x /\ \A q \in S \ {y} : f[q] = 0
    OBVIOUS
  <1> HIDE DEF f
  <1>2. SumFunctionOnSet(f, S) = f[y] + SumFunctionOnSet(f, S \ {y})
    BY <1>1, SumRemove
  <1>3. IsFiniteSet(S \ {y})
    BY FS_Subset
  <1>4. SumFunctionOnSet(f, S \ {y}) = 0
    BY <1>1, <1>3, SumZero
  <1>5. SumFunctionOnSet(f, S) = x
    BY <1>1, <1>2, <1>4
  <1>6. QED
    BY <1>5 DEF f

LEMMA SumOfSome ==
    ASSUME NEW S, IsFiniteSet(S), NEW R \in SUBSET S, NEW g, \A q \in R : g[q] \in Nat
    PROVE  SumFunctionOnSet([q \in S |-> IF q \in R THEN g[q] ELSE 0], S)
                = SumFunctionOnSet(g, R)
  <1> DEFINE f == [q \in S |-> IF q \in R THEN g[q] ELSE 0]
  <1>1. /\ \A q \in R : f[q] \in Nat /\ g[q] = f[q]
        /\ \A q \in S \ R : f[q] = 0
    OBVIOUS
  <1> HIDE DEF f
  <1>2. SumFunctionOnSet(f, S) = SumFunctionOnSet(g, R)
    BY ONLY <1>1, IsFiniteSet(S), R \in SUBSET S, SumOnPart
  <1>3. QED
    BY <1>2 DEF f

\* A mint's callback counts on the protocol's fee, and the post actions of a
\* deposit to the bridge itself count on no more than was deposited.
LEMMA MintTotals ==
    ASSUME TypesOK, NEW a \in Account, NEW amount \in Nat, NEW fee \in Nat,
           NEW callback \in Idle, NEW actions \in PostActions(amount),
           DOMAIN actions \subseteq Idle \ {callback},
           receipts' = [r \in Receipt |->
                IF r = callback THEN [kind |-> "collect", amount |-> fee]
                ELSE IF r \in DOMAIN actions
                THEN [kind |-> "handle_post_action", sender |-> a,
                      receiver |-> actions[r].receiver, amount |-> actions[r].amount]
                ELSE receipts[r]]
    PROVE  /\ receipts' \in [Receipt -> Call \cup {None}]
           /\ \A r \in Receipt : receipts'[r] # None => CallOK(receipts'[r])
           /\ TotalDue' <= TotalDue + fee + IF a = Bridge THEN amount ELSE 0
           /\ TotalBurning' = TotalBurning
           /\ TotalDue' \in Nat
  <1> DEFINE R == DOMAIN actions
             collect == [kind |-> "collect", amount |-> fee]
             action(r) == [kind |-> "handle_post_action", sender |-> a,
                           receiver |-> actions[r].receiver, amount |-> actions[r].amount]
             g == [r \in R |-> actions[r].amount]
             A == [r \in Receipt |-> IF r = callback THEN fee ELSE 0]
             B == [r \in Receipt |-> IF r \in R THEN g[r] ELSE 0]
             E == [r \in Receipt |-> A[r] + IF a = Bridge THEN B[r] ELSE 0]
  <1>1. /\ callback \in Receipt /\ receipts[callback] = None
        /\ \A r \in R : r \in Receipt /\ receipts[r] = None /\ r # callback
    BY IdleReceipt
  <1>2. /\ \A r \in R : actions[r].receiver \in User /\ actions[r].amount \in Nat
        /\ SumFunctionOnSet(g, R) <= amount
    BY PostActionsFit
  <1>3. collect \in Call /\ CallOK(collect) /\ DueAt(collect) = fee /\ BurningAt(collect) = 0
    BY NewCalls
  <1>4. ASSUME NEW r \in R
        PROVE  /\ action(r) \in Call /\ CallOK(action(r)) /\ BurningAt(action(r)) = 0
               /\ DueAt(action(r)) = IF a = Bridge THEN actions[r].amount ELSE 0
    BY <1>2, NewPostAction
  <1>5. /\ receipts'[callback] = collect
        /\ \A r \in R : receipts'[r] = action(r)
        /\ \A r \in Receipt \ R : r # callback => receipts'[r] = receipts[r]
        /\ receipts' = [r \in Receipt |-> receipts'[r]]
    BY <1>1
  <1>6. receipts \in [Receipt -> Call \cup {None}]
        /\ \A r \in Receipt : receipts[r] # None => CallOK(receipts[r])
    BY DEF TypesOK
  <1> HIDE DEF action, collect
  <1>7. \A r \in Receipt : receipts'[r] \in Call \cup {None}
                           /\ (receipts'[r] # None => CallOK(receipts'[r]))
    BY <1>3, <1>4, <1>5, <1>6
  <1>8. IsFiniteSet(Receipt) /\ R \in SUBSET Receipt /\ (\A r \in R : g[r] \in Nat)
    BY <1>1, <1>2, ConstantsAssumption
  <1>9. \A r \in Receipt : Due[r] \in Nat /\ Due'[r] = Due[r] + E[r]
                           /\ Burning'[r] = Burning[r]
    <2> SUFFICES ASSUME NEW r \in Receipt
                 PROVE  /\ Due[r] \in Nat /\ Due'[r] = Due[r] + E[r]
                        /\ Burning'[r] = Burning[r]
      OBVIOUS
    <2>1. /\ Due[r] = DueAt(receipts[r]) /\ Burning[r] = BurningAt(receipts[r])
          /\ Due'[r] = DueAt(receipts'[r]) /\ Burning'[r] = BurningAt(receipts'[r])
      BY DEF Due, Burning, DueAt, BurningAt, OwedBy
    <2>2. Due[r] \in Nat
      BY <1>6, <2>1, DueOf, DueOfNone
    <2>3. CASE r = callback
      <3>1. E[r] = fee + 0
        BY <1>1, <2>3
      <3>2. Due[r] = 0 /\ Burning[r] = 0 /\ Due'[r] = fee /\ Burning'[r] = 0
        BY <1>1, <1>3, <1>5, <2>1, <2>3, DueOfNone
      <3>3. QED
        BY <3>1, <3>2
    <2>4. CASE r \in R
      <3>1. E[r] = 0 + IF a = Bridge THEN actions[r].amount ELSE 0
        BY <1>1, <2>4
      <3>2. Due[r] = 0 /\ Burning[r] = 0 /\ Burning'[r] = 0
            /\ Due'[r] = IF a = Bridge THEN actions[r].amount ELSE 0
        BY <1>1, <1>4, <1>5, <2>1, <2>4, DueOfNone
      <3>3. actions[r].amount \in Nat
        BY <1>2, <2>4
      <3>4. QED
        BY <3>1, <3>2, <3>3
    <2>5. CASE r # callback /\ r \notin R
      <3>1. E[r] = 0
        BY <2>5
      <3>2. receipts'[r] = receipts[r]
        BY <1>5, <2>5
      <3>3. QED
        BY <2>1, <2>2, <3>1, <3>2
    <2>6. QED
      BY <2>3, <2>4, <2>5
  <1>10. SumFunctionOnSet(A, Receipt) = fee
    BY <1>1, <1>8, SumOfOne
  <1>11. SumFunctionOnSet(B, Receipt) = SumFunctionOnSet(g, R)
    <2> HIDE DEF g, R
    <2>1. QED
      BY <1>8, SumOfSome
  <1>12. \A r \in Receipt : A[r] \in Nat /\ B[r] \in Nat /\ E[r] \in Nat
            /\ E[r] = A[r] + IF a = Bridge THEN B[r] ELSE 0
    BY <1>8
  <1> HIDE DEF A, B, E, g, R
  <1>13. SumFunctionOnSet(E, Receipt) <= fee + IF a = Bridge THEN amount ELSE 0
    <2>1. CASE a = Bridge
      <3>1. \A r \in Receipt : A[r] \in Int /\ B[r] \in Int /\ E[r] = A[r] + B[r]
        BY <1>12, <2>1
      <3>2. SumFunctionOnSet(E, Receipt)
                = SumFunctionOnSet(A, Receipt) + SumFunctionOnSet(B, Receipt)
        BY <1>8, <3>1, SumPlus
      <3>3. SumFunctionOnSet(B, Receipt) \in Nat
        BY <1>8, <1>12, SumNat
      <3>4. QED
        BY <1>2, <1>10, <1>11, <2>1, <3>2, <3>3
    <2>2. CASE a # Bridge
      <3>1. \A r \in Receipt : E[r] = A[r]
        BY <1>12, <2>2
      <3>2. SumFunctionOnSet(E, Receipt) = SumFunctionOnSet(A, Receipt)
        BY <1>8, <3>1, SumSame
      <3>3. QED
        BY <1>10, <2>2, <3>2
    <2>3. QED
      BY <2>1, <2>2
  <1>14. SumFunctionOnSet(Due', Receipt)
            = SumFunctionOnSet(Due, Receipt) + SumFunctionOnSet(E, Receipt)
    <2>1. \A r \in Receipt : Due[r] \in Int /\ E[r] \in Int /\ Due'[r] = Due[r] + E[r]
      BY <1>9, <1>12
    <2>2. QED
      BY <1>8, <2>1, SumPlus
  <1>15. SumFunctionOnSet(Burning', Receipt) = SumFunctionOnSet(Burning, Receipt)
    BY <1>8, <1>9, SumSame
  <1>16. SumFunctionOnSet(E, Receipt) \in Nat /\ SumFunctionOnSet(Due, Receipt) \in Nat
    BY <1>8, <1>9, <1>12, SumNat
  <1>17. QED
    BY <1>5, <1>7, <1>13, <1>14, <1>15, <1>16 DEF TotalDue, TotalBurning

-----------------------------------------------------------------------------
(* What the invariant says of the amounts. *)

LEMMA Amounts ==
    ASSUME IInv
    PROVE  /\ TypesOK /\ Ledger(accounts) /\ Bridge \in DOMAIN accounts
           /\ accounts[Bridge] \in Nat /\ total_supply \in Nat
           /\ total_supply = SumFunction(accounts)
           /\ available \in Nat /\ custody \in Int
           /\ TotalDue \in Nat /\ TotalBurning \in Nat
           /\ TotalHeld \in Nat /\ TotalToBurn \in Nat
           /\ accounts[Bridge] >= available + TotalHeld + TotalDue
           /\ total_supply <= custody + TotalBurning + TotalToBurn
  <1>1. TypesOK /\ Ledger(accounts)
    BY DEF IInv, TypesOK
  <1>2. Bridge \in DOMAIN accounts /\ accounts[Bridge] \in Nat
    BY <1>1 DEF Ledger
  <1>3. total_supply = SumFunction(accounts) /\ total_supply \in Nat
    BY <1>1, FiniteLedger DEF IInv, SupplyIsSum
  <1>4. available \in Nat /\ custody \in Int
    BY <1>1 DEF TypesOK
  <1>5. /\ accounts[Bridge] >= available + TotalHeld + TotalDue
        /\ total_supply <= custody + TotalBurning + TotalToBurn
    BY DEF IInv, Covered, BackedByCustody
  <1>6. QED
    BY <1>1, <1>2, <1>3, <1>4, <1>5, TotalsAreNat

\* What most steps need of Amounts.
LEMMA LedgerOfState == IInv => Ledger(accounts)
  BY Amounts

\* Steps that change one call, one withdrawal, both or neither keep the invariant
\* if the bridge's balance falls by no more than what counts on it, and the supply
\* grows by no more than what backs it.
LEMMA SendKeeps ==
    ASSUME IInv, NEW r \in Receipt, NEW c \in Call \cup {None}, c # None => CallOK(c),
           Send(r, c), UNCHANGED <<withdrawals, protocol_fee_rate>>,
           Ledger(accounts'), total_supply' = SumFunction(accounts'),
           withdraw_relayer' \in User \cup {None}, available' \in Nat, custody' \in Int,
           accounts'[Bridge] - available' - DueAt(c)
                >= accounts[Bridge] - available - DueAt(receipts[r]),
           total_supply' - custody' - BurningAt(c)
                <= total_supply - custody - BurningAt(receipts[r])
    PROVE  IInv'
  <1>1. /\ receipts' \in [Receipt -> Call \cup {None}]
        /\ \A q \in Receipt : receipts'[q] # None => CallOK(receipts'[q])
        /\ TotalDue' = TotalDue - DueAt(receipts[r]) + DueAt(c)
        /\ TotalBurning' = TotalBurning - BurningAt(receipts[r]) + BurningAt(c)
    BY Amounts, SendTotals
  <1>2. TotalHeld' = TotalHeld /\ TotalToBurn' = TotalToBurn
    BY TotalsKept
  <1>3. total_supply' \in Nat /\ accounts'[Bridge] \in Nat
    BY FiniteLedger DEF Ledger
  <1>4. TypesOK'
    BY <1>1, <1>3, Amounts DEF TypesOK
  <1>5. /\ DueAt(c) \in Nat /\ BurningAt(c) \in Nat
        /\ DueAt(receipts[r]) \in Nat /\ BurningAt(receipts[r]) \in Nat
    BY Amounts, DueOf, DueOfNone DEF TypesOK
  <1>6. Covered' /\ BackedByCustody'
    BY <1>1, <1>2, <1>3, <1>5, Amounts DEF Covered, BackedByCustody
  <1>7. QED
    BY <1>4, <1>6 DEF IInv, SupplyIsSum

LEMMA BookKeeps ==
    ASSUME IInv, NEW w \in Withdrawals, NEW p \in PendingInfo \cup {None},
           p # None => PendingOK(p), withdrawals' = [withdrawals EXCEPT ![w] = p],
           UNCHANGED <<token, receipts, protocol_fee_rate>>,
           available' \in Nat, custody' \in Int,
           available' + HeldAt(p) <= available + HeldAt(withdrawals[w]),
           custody' + ToBurnAt(p) >= custody + ToBurnAt(withdrawals[w])
    PROVE  IInv'
  <1>1. /\ withdrawals' \in [Withdrawals -> PendingInfo \cup {None}]
        /\ \A v \in Withdrawals : withdrawals'[v] # None => PendingOK(withdrawals'[v])
        /\ TotalHeld' = TotalHeld - HeldAt(withdrawals[w]) + HeldAt(p)
        /\ TotalToBurn' = TotalToBurn - ToBurnAt(withdrawals[w]) + ToBurnAt(p)
    BY Amounts, WithdrawalTotals
  <1>2. /\ TotalDue' = TotalDue /\ TotalBurning' = TotalBurning
        /\ accounts' = accounts /\ total_supply' = total_supply
    BY TotalsKept DEF token
  <1>3. TypesOK'
    BY <1>1, Amounts DEF TypesOK, token
  <1>4. /\ HeldAt(p) \in Nat /\ ToBurnAt(p) \in Nat
        /\ HeldAt(withdrawals[w]) \in Nat /\ ToBurnAt(withdrawals[w]) \in Nat
    BY Amounts, HeldIsNat DEF TypesOK
  <1>5. Covered' /\ BackedByCustody' /\ SupplyIsSum'
    BY <1>1, <1>2, <1>4, Amounts DEF Covered, BackedByCustody, SupplyIsSum
  <1>6. QED
    BY <1>3, <1>5 DEF IInv

LEMMA BothKeeps ==
    ASSUME IInv, NEW r \in Receipt, NEW c \in Call, CallOK(c), Send(r, c),
           NEW w \in Withdrawals, NEW p \in PendingInfo \cup {None},
           p # None => PendingOK(p), withdrawals' = [withdrawals EXCEPT ![w] = p],
           UNCHANGED <<withdraw_relayer, available, protocol_fee_rate, custody>>,
           Ledger(accounts'), total_supply' = SumFunction(accounts'),
           accounts'[Bridge] - DueAt(c) - HeldAt(p)
                >= accounts[Bridge] - DueAt(receipts[r]) - HeldAt(withdrawals[w]),
           total_supply' - BurningAt(c) - ToBurnAt(p)
                <= total_supply - BurningAt(receipts[r]) - ToBurnAt(withdrawals[w])
    PROVE  IInv'
  <1>1. /\ receipts' \in [Receipt -> Call \cup {None}]
        /\ \A q \in Receipt : receipts'[q] # None => CallOK(receipts'[q])
        /\ TotalDue' = TotalDue - DueAt(receipts[r]) + DueAt(c)
        /\ TotalBurning' = TotalBurning - BurningAt(receipts[r]) + BurningAt(c)
    BY Amounts, SendTotals
  <1>2. /\ withdrawals' \in [Withdrawals -> PendingInfo \cup {None}]
        /\ \A v \in Withdrawals : withdrawals'[v] # None => PendingOK(withdrawals'[v])
        /\ TotalHeld' = TotalHeld - HeldAt(withdrawals[w]) + HeldAt(p)
        /\ TotalToBurn' = TotalToBurn - ToBurnAt(withdrawals[w]) + ToBurnAt(p)
    BY Amounts, WithdrawalTotals
  <1>3. total_supply' \in Nat /\ accounts'[Bridge] \in Nat
    BY FiniteLedger DEF Ledger
  <1>4. TypesOK'
    BY <1>1, <1>2, <1>3, Amounts DEF TypesOK
  <1>5. /\ HeldAt(p) \in Nat /\ ToBurnAt(p) \in Nat
        /\ HeldAt(withdrawals[w]) \in Nat /\ ToBurnAt(withdrawals[w]) \in Nat
    BY Amounts, HeldIsNat DEF TypesOK
  <1>6. /\ DueAt(c) \in Nat /\ BurningAt(c) \in Nat
        /\ DueAt(receipts[r]) \in Nat /\ BurningAt(receipts[r]) \in Nat
    BY Amounts, DueOf, DueOfNone DEF TypesOK
  <1>7. Covered' /\ BackedByCustody'
    BY <1>1, <1>2, <1>3, <1>5, <1>6, Amounts DEF Covered, BackedByCustody
  <1>8. QED
    BY <1>4, <1>7 DEF IInv, SupplyIsSum

LEMMA LedgerKeeps ==
    ASSUME IInv, UNCHANGED <<receipts, withdrawals, available, custody>>,
           Ledger(accounts'), total_supply' = SumFunction(accounts'),
           withdraw_relayer' \in User \cup {None}, protocol_fee_rate' \in 0..MAX_RATIO,
           accounts'[Bridge] >= accounts[Bridge], total_supply' <= total_supply
    PROVE  IInv'
  <1>1. /\ TotalDue' = TotalDue /\ TotalBurning' = TotalBurning
        /\ TotalHeld' = TotalHeld /\ TotalToBurn' = TotalToBurn
    BY TotalsKept
  <1>2. total_supply' \in Nat /\ accounts'[Bridge] \in Nat
    BY FiniteLedger DEF Ledger
  <1>3. TypesOK'
    BY <1>2, Amounts DEF TypesOK
  <1>4. Covered' /\ BackedByCustody'
    BY <1>1, <1>2, Amounts DEF Covered, BackedByCustody
  <1>5. QED
    BY <1>3, <1>4 DEF IInv, SupplyIsSum

LEMMA MintKeeps ==
    ASSUME IInv, NEW a \in User \cup {Bridge}, NEW amount \in Nat, NEW fee \in Nat,
           NEW relayer \in User, NEW relayer_fee \in Nat, NEW callback \in Receipt,
           NEW actions \in PostActions(amount),
           mint(a, amount, fee, relayer, relayer_fee, callback, actions)
    PROVE  IInv'
  <1> DEFINE minted == Deposited(accounts, a, amount)
             collected == IF fee > 0 THEN Deposited(minted, Bridge, fee) ELSE minted
             paid == IF relayer_fee > 0 THEN Deposited(collected, relayer, relayer_fee)
                     ELSE collected
  <1>1. /\ callback \in Idle /\ DOMAIN actions \subseteq Idle \ {callback}
        /\ accounts' = paid /\ total_supply' = total_supply + (amount + fee + relayer_fee)
        /\ custody' = custody + (amount + fee + relayer_fee)
        /\ UNCHANGED <<withdraw_relayer, withdrawals, available, protocol_fee_rate>>
    BY DEF mint
  <1>2. a \in Account /\ relayer \in Account /\ Bridge \in Account /\ relayer # Bridge
    BY ConstantsAssumption DEF Account
  <1>3. /\ Ledger(minted) /\ SumFunction(minted) = SumFunction(accounts) + amount
        /\ minted[Bridge] = accounts[Bridge] + IF a = Bridge THEN amount ELSE 0
    BY <1>2, LedgerOfState, DepositedLedger
  <1>4. minted[Bridge] \in Nat /\ SumFunction(minted) \in Nat
    BY <1>3, Amounts
  <1> HIDE DEF minted
  <1>5. /\ Ledger(collected) /\ SumFunction(collected) = SumFunction(minted) + fee
        /\ collected[Bridge] = minted[Bridge] + fee
    <2>1. CASE fee > 0
      BY <1>2, <1>3, <2>1, DepositedLedger
    <2>2. CASE fee = 0
      BY <1>3, <1>4, <2>2
    <2>3. QED
      BY <2>1, <2>2
  <1> HIDE DEF collected
  <1>6. collected[Bridge] \in Nat /\ SumFunction(collected) \in Nat
    BY <1>4, <1>5
  <1>7. /\ Ledger(paid) /\ SumFunction(paid) = SumFunction(collected) + relayer_fee
        /\ paid[Bridge] = collected[Bridge]
    <2>1. CASE relayer_fee > 0
      <3>1. /\ Ledger(Deposited(collected, relayer, relayer_fee))
            /\ SumFunction(Deposited(collected, relayer, relayer_fee))
                    = SumFunction(collected) + relayer_fee
            /\ Deposited(collected, relayer, relayer_fee)[Bridge] = collected[Bridge] + 0
        BY <1>2, <1>5, DepositedLedger
      <3>2. QED
        BY <1>6, <2>1, <3>1
    <2>2. CASE relayer_fee = 0
      BY <1>5, <1>6, <2>2
    <2>3. QED
      BY <2>1, <2>2
  <1> HIDE DEF paid
  <1>8. /\ receipts' \in [Receipt -> Call \cup {None}]
        /\ \A r \in Receipt : receipts'[r] # None => CallOK(receipts'[r])
        /\ TotalDue' <= TotalDue + fee + IF a = Bridge THEN amount ELSE 0
        /\ TotalBurning' = TotalBurning
        /\ TotalDue' \in Nat
    <2>1. receipts' = [r \in Receipt |->
                IF r = callback THEN [kind |-> "collect", amount |-> fee]
                ELSE IF r \in DOMAIN actions
                THEN [kind |-> "handle_post_action", sender |-> a,
                      receiver |-> actions[r].receiver, amount |-> actions[r].amount]
                ELSE receipts[r]]
      BY DEF mint
    <2>2. TypesOK
      BY Amounts
    <2>3. QED
      BY ONLY <1>1, <1>2, <2>1, <2>2, amount \in Nat, fee \in Nat,
              actions \in PostActions(amount), MintTotals
  <1>9. TotalHeld' = TotalHeld /\ TotalToBurn' = TotalToBurn
    BY <1>1, TotalsKept
  <1>10. TypesOK'
    BY <1>1, <1>7, <1>8, Amounts DEF TypesOK
  <1>11. SupplyIsSum'
    BY <1>1, <1>3, <1>5, <1>7, Amounts DEF SupplyIsSum
  <1>12. Covered'
    BY <1>1, <1>3, <1>5, <1>7, <1>8, <1>9, Amounts DEF Covered
  <1>13. BackedByCustody'
    BY <1>1, <1>8, <1>9, Amounts DEF BackedByCustody
  <1>14. QED
    BY <1>10, <1>11, <1>12, <1>13 DEF IInv

\* A post action moves tokens that were deposited; whether it runs or not, it
\* counts on nothing afterwards.
LEMMA HandlePostActionKeeps ==
    ASSUME IInv, NEW r \in Receipt, HandlePostAction(r)
    PROVE  IInv'
  <1> DEFINE action == receipts[r]
             call == OnTransfer(action.sender, action.receiver, action.amount, FALSE)
  <1>1. /\ r \in Of("handle_post_action")
        /\ UNCHANGED <<total_supply, withdraw_relayer, withdrawals, available,
                       protocol_fee_rate, custody>>
    BY DEF HandlePostAction, bridge
  <1>2. action \in Call /\ action.kind = "handle_post_action"
    BY <1>1, Amounts, OfKind
  <1>3. /\ action.amount \in Nat /\ action.receiver \in User /\ action.sender \in Account
        /\ DueAt(action) = IF action.sender = Bridge THEN action.amount ELSE 0
        /\ BurningAt(action) = 0
    BY <1>2, CallFields, DueOf
  <1>4. withdraw_relayer' \in User \cup {None} /\ available' \in Nat /\ custody' \in Int
    BY <1>1, Amounts DEF TypesOK
  <1>5. CASE /\ action.receiver # Bridge
             /\ CanTransfer(action.sender, action.receiver, action.amount)
             /\ accounts' = Transferred(accounts, action.sender, action.receiver, action.amount)
             /\ Send(r, call)
    <2>1. /\ action.sender # action.receiver /\ action.sender \in DOMAIN accounts
          /\ action.receiver \in DOMAIN accounts /\ action.amount <= accounts[action.sender]
      BY <1>5 DEF CanTransfer, Registered
    <2>2. /\ Ledger(accounts') /\ SumFunction(accounts') = SumFunction(accounts)
          /\ accounts'[Bridge]
                = accounts[Bridge] - (IF action.sender = Bridge THEN action.amount ELSE 0) + 0
      BY <1>3, <1>5, <2>1, Amounts, TransferredLedger
    <2>3. action.receiver \in Account /\ action.receiver # Bridge
      BY <1>3, <1>5 DEF Account
    <2>4. call \in Call /\ CallOK(call) /\ BurningAt(call) = 0 /\ DueAt(call) = 0
      <3> HIDE DEF action
      <3>1. QED
        BY ONLY <1>3, <2>1, <2>3, NewTransfer
    <2>5. Send(r, call)
      BY <1>5
    <2> HIDE DEF call
    <2>6. QED
      BY <1>1, <1>3, <1>4, <2>2, <2>4, <2>5, Amounts, SendKeeps
  <1>6. CASE Done(r) /\ UNCHANGED accounts
    <2>1. Send(r, None)
      BY <1>6 DEF Send, Done
    <2>2. QED
      BY <1>1, <1>3, <1>4, <1>6, <2>1, Amounts, DueOfNone, SendKeeps
  <1>7. QED
    BY <1>5, <1>6 DEF HandlePostAction

\* What is minted for a receiver that is not registered stays with the bridge and
\* is due at once; otherwise the tokens go through the bridge's balance.
LEMMA SafeMintKeeps ==
    ASSUME IInv, NEW r \in Receipt, NEW u \in User, NEW amount \in Nat \ {0},
           NEW with_msg \in BOOLEAN, SafeMint(r, u, amount, with_msg)
    PROVE  IInv'
  <1> DEFINE minted == Deposited(accounts, Bridge, amount)
  <1>1. /\ r \in Idle /\ u # Bridge
        /\ total_supply' = total_supply + amount /\ custody' = custody + amount
        /\ UNCHANGED <<withdraw_relayer, withdrawals, available, protocol_fee_rate>>
    BY DEF SafeMint
  <1>2. withdraw_relayer' \in User \cup {None} /\ available' \in Nat /\ custody' \in Int
    BY <1>1, Amounts DEF TypesOK
  <1>3. DueAt(receipts[r]) = 0 /\ BurningAt(receipts[r]) = 0
    BY <1>1, IdleReceipt, DueOfNone
  <1>4. Bridge \in Account
    BY DEF Account
  <1>5. /\ Ledger(minted) /\ DOMAIN minted = DOMAIN accounts \cup {Bridge}
        /\ SumFunction(minted) = SumFunction(accounts) + amount
        /\ minted[Bridge] = accounts[Bridge] + amount
    BY <1>4, Amounts, DepositedLedger
  <1>6. CASE ~Registered(u)
    <2> DEFINE answer == SafeMintAnswer(amount, 0)
    <2>1. accounts' = minted /\ Send(r, answer)
      BY <1>6 DEF SafeMint
    <2>2. answer \in Call /\ CallOK(answer) /\ BurningAt(answer) = 0 /\ DueAt(answer) = amount
      BY NewAnswer
    <2> HIDE DEF answer, minted
    <2>3. QED
      BY <1>1, <1>2, <1>3, <1>5, <2>1, <2>2, Amounts, SendKeeps
  <1>7. CASE Registered(u)
    <2> DEFINE call == IF with_msg THEN OnTransfer(Bridge, u, amount, TRUE)
                       ELSE SafeMintAnswer(amount, amount)
    <2>1. accounts' = Transferred(minted, Bridge, u, amount) /\ Send(r, call)
      BY <1>7 DEF SafeMint
    <2>2. call \in Call /\ CallOK(call) /\ BurningAt(call) = 0 /\ DueAt(call) = 0
      <3>1. CASE with_msg
        BY <3>1, NewSafeTransfer
      <3>2. CASE ~with_msg
        <4>1. amount \in Nat /\ amount \in Nat \cup {None} /\ amount # 0
          OBVIOUS
        <4>2. /\ SafeMintAnswer(amount, amount) \in Call
              /\ CallOK(SafeMintAnswer(amount, amount))
              /\ BurningAt(SafeMintAnswer(amount, amount)) = 0
              /\ DueAt(SafeMintAnswer(amount, amount)) = 0
          BY ONLY <4>1, NewAnswer
        <4>3. QED
          BY <3>2, <4>2
      <3>3. QED
        BY <3>1, <3>2
    <2>3. u \in DOMAIN minted /\ Bridge \in DOMAIN minted /\ amount <= minted[Bridge]
      BY <1>5, <1>7, Amounts DEF Registered
    <2> HIDE DEF call, minted
    <2>4. /\ Ledger(accounts') /\ SumFunction(accounts') = SumFunction(minted)
          /\ accounts'[Bridge] = minted[Bridge] - amount + 0
      BY <1>1, <1>5, <2>1, <2>3, TransferredLedger
    <2>5. QED
      BY <1>1, <1>2, <1>3, <1>5, <2>1, <2>2, <2>4, Amounts, SendKeeps
  <1>8. QED
    BY <1>6, <1>7

LEMMA SafeMintFailsKeeps ==
    ASSUME IInv, NEW r \in Receipt, NEW amount \in Nat, SafeMintFails(r, amount)
    PROVE  IInv'
  <1> DEFINE answer == SafeMintAnswer(amount, None)
  <1>1. /\ r \in Idle /\ custody' = custody + amount /\ Send(r, answer)
        /\ UNCHANGED <<accounts, total_supply, withdraw_relayer, withdrawals, available,
                       protocol_fee_rate>>
    BY DEF SafeMintFails, token
  <1>2. withdraw_relayer' \in User \cup {None} /\ available' \in Nat /\ custody' \in Int
    BY <1>1, Amounts DEF TypesOK
  <1>3. DueAt(receipts[r]) = 0 /\ BurningAt(receipts[r]) = 0
    BY <1>1, IdleReceipt, DueOfNone
  <1>4. None # 0 /\ None \in Nat \cup {None}
    BY NoneAssumption
  <1>5. answer \in Call /\ CallOK(answer) /\ BurningAt(answer) = 0 /\ DueAt(answer) = 0
    BY <1>4, NewAnswer
  <1> HIDE DEF answer
  <1>6. QED
    BY <1>1, <1>2, <1>3, <1>5, Amounts, SendKeeps

\* A refused deposit is released, and the tokens due are now those to burn.
LEMMA SafeMintCallbackKeeps ==
    ASSUME IInv, NEW r \in Receipt, SafeMintCallback(r)
    PROVE  IInv'
  <1> DEFINE answer == receipts[r]
             burning == [kind |-> "burn_refused", amount |-> answer.amount]
  <1>1. /\ r \in Of("safe_mint_callback")
        /\ UNCHANGED <<accounts, total_supply, withdraw_relayer, withdrawals, available,
                       protocol_fee_rate>>
    BY DEF SafeMintCallback, token
  <1>2. answer \in Call /\ answer.kind = "safe_mint_callback"
    BY <1>1, Amounts, OfKind
  <1>3. /\ answer.amount \in Nat /\ BurningAt(answer) = 0
        /\ DueAt(answer) = IF answer.used = 0 THEN answer.amount ELSE 0
    BY <1>2, CallFields, DueOf
  <1>4. withdraw_relayer' \in User \cup {None} /\ available' \in Nat
    BY <1>1, Amounts DEF TypesOK
  <1>5. CASE answer.used = 0
    <2>1. custody' = custody - answer.amount /\ Send(r, burning)
      BY <1>5 DEF SafeMintCallback, is_refund_required
    <2>2. /\ burning \in Call /\ CallOK(burning) /\ DueAt(burning) = answer.amount
          /\ BurningAt(burning) = answer.amount
      <3> HIDE DEF answer
      <3>1. QED
        BY <1>3, NewCalls
    <2>3. custody' \in Int
      BY <1>3, <2>1, Amounts
    <2> HIDE DEF burning
    <2>4. QED
      BY <1>1, <1>3, <1>4, <1>5, <2>1, <2>2, <2>3, Amounts, SendKeeps
  <1>6. CASE answer.used # 0
    <2>1. UNCHANGED custody /\ Send(r, None)
      BY <1>6 DEF SafeMintCallback, is_refund_required, Send, Done
    <2>2. QED
      BY <1>1, <1>3, <1>4, <1>6, <2>1, Amounts, DueOfNone, SendKeeps
  <1>7. QED
    BY <1>5, <1>6

\* No call counts on more than the bridge has.
LEMMA DueIsCovered ==
    ASSUME IInv, NEW r \in Receipt
    PROVE  DueAt(receipts[r]) \in Nat /\ DueAt(receipts[r]) <= accounts[Bridge]
  <1>1. IsFiniteSet(Receipt)
    BY ConstantsAssumption
  <1>2. \A q \in Receipt : Due[q] \in Nat
    BY Amounts, DueOf, DueOfNone DEF Due, TypesOK
  <1>3. Due[r] <= TotalDue
    BY <1>1, <1>2, SumElement DEF TotalDue
  <1>4. Due[r] = DueAt(receipts[r])
    BY DEF Due
  <1>5. QED
    BY <1>2, <1>3, <1>4, Amounts

\* The detached burn finds its tokens, so that it always burns.
LEMMA BurnRefusedKeeps ==
    ASSUME IInv, NEW r \in Receipt, BurnRefused(r)
    PROVE  IInv'
  <1> DEFINE amount == receipts[r].amount
  <1>1. /\ r \in Of("burn_refused") /\ Send(r, None)
        /\ UNCHANGED <<withdraw_relayer, withdrawals, available, protocol_fee_rate, custody>>
    BY DEF BurnRefused, bridge, Send, Done
  <1>2. receipts[r] \in Call /\ receipts[r].kind = "burn_refused"
    BY <1>1, Amounts, OfKind
  <1>3. amount \in Nat /\ DueAt(receipts[r]) = amount /\ BurningAt(receipts[r]) = amount
    BY <1>2, CallFields, DueOf
  <1>4. amount <= accounts[Bridge]
    BY <1>3, DueIsCovered
  <1>5. CanBurn(amount, 0)
    BY <1>3, <1>4, Amounts DEF CanBurn
  <1>6. burn(amount, Bridge, 0)
    BY <1>5 DEF BurnRefused
  <1>7. /\ accounts' = [accounts EXCEPT ![Bridge] = @ - amount]
        /\ total_supply' = total_supply - amount
    BY <1>6 DEF burn
  <1> HIDE DEF amount
  <1>8. /\ Ledger(accounts') /\ SumFunction(accounts') = SumFunction(accounts) - amount
        /\ accounts'[Bridge] = accounts[Bridge] - amount
    BY <1>3, <1>4, <1>7, Amounts, BurnedLedger
  <1>9. withdraw_relayer' \in User \cup {None} /\ available' \in Nat /\ custody' \in Int
    BY <1>1, Amounts DEF TypesOK
  <1>10. /\ total_supply' = SumFunction(accounts')
         /\ accounts'[Bridge] - available' - DueAt(None)
                >= accounts[Bridge] - available - DueAt(receipts[r])
         /\ total_supply' - custody' - BurningAt(None)
                <= total_supply - custody - BurningAt(receipts[r])
    BY <1>1, <1>3, <1>7, <1>8, <1>9, Amounts, DueOfNone
  <1>11. QED
    BY <1>1, <1>8, <1>9, <1>10, SendKeeps

LEMMA CollectKeeps ==
    ASSUME IInv, NEW r \in Receipt, Collect(r)
    PROVE  IInv'
  <1>1. /\ r \in Of("collect") /\ Send(r, None)
        /\ available' = available + receipts[r].amount
        /\ UNCHANGED <<accounts, total_supply, withdraw_relayer, withdrawals,
                       protocol_fee_rate, custody>>
    BY DEF Collect, token, Send, Done
  <1>2. receipts[r] \in Call /\ receipts[r].kind = "collect"
    BY <1>1, Amounts, OfKind
  <1>3. /\ receipts[r].amount \in Nat /\ DueAt(receipts[r]) = receipts[r].amount
        /\ BurningAt(receipts[r]) = 0
    BY <1>2, CallFields, DueOf
  <1>4. withdraw_relayer' \in User \cup {None} /\ available' \in Nat /\ custody' \in Int
    BY <1>1, <1>3, Amounts DEF TypesOK
  <1>5. QED
    BY <1>1, <1>3, <1>4, Amounts, DueOfNone, SendKeeps

-----------------------------------------------------------------------------
(* Transfers. *)

\* A user moves what it has; the bridge can only gain.
LEMMA FtTransferKeeps ==
    ASSUME IInv, NEW a \in User, NEW t \in Account, NEW amount \in Nat, NEW memo,
           ft_transfer(a, t, amount, memo)
    PROVE  IInv'
  <1> DEFINE to == Receiver(t, memo)
  <1>1. /\ CanTransfer(a, to, amount) /\ accounts' = Transferred(accounts, a, to, amount)
        /\ UNCHANGED <<total_supply, withdraw_relayer, receipts, withdrawals, available,
                       protocol_fee_rate, custody>>
    BY DEF ft_transfer, bridge
  <1> HIDE DEF to
  <1>2. a # to /\ a \in DOMAIN accounts /\ to \in DOMAIN accounts /\ amount <= accounts[a]
    BY <1>1 DEF CanTransfer, Registered
  <1>3. a # Bridge
    BY ConstantsAssumption
  <1>4. /\ Ledger(accounts') /\ SumFunction(accounts') = SumFunction(accounts)
        /\ accounts'[Bridge] = accounts[Bridge] - 0 + IF to = Bridge THEN amount ELSE 0
    BY <1>1, <1>2, <1>3, Amounts, TransferredLedger
  <1>5. withdraw_relayer' \in User \cup {None} /\ protocol_fee_rate' \in 0..MAX_RATIO
    BY <1>1, Amounts DEF TypesOK
  <1>6. QED
    BY <1>1, <1>4, <1>5, Amounts, LedgerKeeps

\* What is sent to the bridge is due until it answers.
LEMMA FtTransferCallKeeps ==
    ASSUME IInv, NEW r \in Receipt, NEW a \in User, NEW t \in Account, NEW amount \in Nat,
           ft_transfer_call(r, a, t, amount)
    PROVE  IInv'
  <1> DEFINE call == OnTransfer(a, t, amount, FALSE)
  <1>1. /\ r \in Idle /\ CanTransfer(a, t, amount) /\ Send(r, call)
        /\ accounts' = Transferred(accounts, a, t, amount)
        /\ UNCHANGED <<total_supply, withdraw_relayer, withdrawals, available,
                       protocol_fee_rate, custody>>
    BY DEF ft_transfer_call, bridge
  <1>2. a # t /\ a \in DOMAIN accounts /\ t \in DOMAIN accounts /\ amount <= accounts[a]
    BY <1>1 DEF CanTransfer, Registered
  <1>3. a # Bridge /\ a \in Account
    BY ConstantsAssumption DEF Account
  <1>4. /\ Ledger(accounts') /\ SumFunction(accounts') = SumFunction(accounts)
        /\ accounts'[Bridge] = accounts[Bridge] - 0 + IF t = Bridge THEN amount ELSE 0
    BY <1>1, <1>2, <1>3, Amounts, TransferredLedger
  <1>5. /\ call \in Call /\ CallOK(call) /\ BurningAt(call) = 0
        /\ DueAt(call) = IF t = Bridge THEN amount ELSE 0
    BY <1>2, <1>3, NewTransfer
  <1> HIDE DEF call
  <1>6. DueAt(receipts[r]) = 0 /\ BurningAt(receipts[r]) = 0
    BY <1>1, IdleReceipt, DueOfNone
  <1>7. withdraw_relayer' \in User \cup {None} /\ available' \in Nat /\ custody' \in Int
    BY <1>1, Amounts DEF TypesOK
  <1>8. QED
    BY <1>1, <1>4, <1>5, <1>6, <1>7, Amounts, SendKeeps

LEMMA ReceiverAnswersKeeps ==
    ASSUME IInv, NEW r \in Receipt, NEW unused \in Nat, ReceiverAnswers(r, unused)
    PROVE  IInv'
  <1> DEFINE sent == receipts[r]
  <1>1. /\ r \in Of("ft_on_transfer") /\ sent.receiver # Bridge /\ unused <= sent.amount
        /\ Resolve(r, unused)
        /\ UNCHANGED <<accounts, total_supply, withdraw_relayer, withdrawals, available,
                       protocol_fee_rate, custody>>
    BY DEF ReceiverAnswers, token, bridge
  <1>2. sent \in Call /\ sent.kind = "ft_on_transfer"
    BY <1>1, Amounts, OfKind
  <1>3. DueAt(sent) = 0 /\ BurningAt(sent) = 0
    BY <1>1, <1>2, DueOf
  <1>4. PICK c \in Call : Send(r, c) /\ CallOK(c) /\ BurningAt(c) = 0 /\ DueAt(c) = 0
    BY <1>1, Amounts, Resolved
  <1>5. withdraw_relayer' \in User \cup {None} /\ available' \in Nat /\ custody' \in Int
    BY <1>1, Amounts DEF TypesOK
  <1>6. QED
    BY <1>1, <1>3, <1>4, <1>5, Amounts, SendKeeps

\* Tokens that came count as available, or for the withdrawal they pay, or are
\* due back.
LEMMA BridgeAnswersKeeps ==
    ASSUME IInv, NEW r \in Receipt, BridgeAnswers(r)
    PROVE  IInv'
  <1> DEFINE sent == receipts[r]
             amount == sent.amount
  <1>1. /\ r \in Of("ft_on_transfer") /\ sent.receiver = Bridge
        /\ UNCHANGED <<accounts, total_supply, withdraw_relayer, protocol_fee_rate, custody>>
    BY DEF BridgeAnswers, token
  <1>2. sent \in Call /\ sent.kind = "ft_on_transfer"
    BY <1>1, Amounts, OfKind
  <1>3. amount \in Nat /\ DueAt(sent) = amount /\ BurningAt(sent) = 0
    BY <1>1, <1>2, CallFields, DueOf
  <1>4. ASSUME NEW unused \in Nat, unused <= amount, Resolve(r, unused)
        PROVE  \E c \in Call : /\ Send(r, c) /\ CallOK(c) /\ BurningAt(c) = 0
                               /\ DueAt(c) = unused
    BY <1>1, <1>4, Amounts, Resolved
  <1>5. withdraw_relayer' \in User \cup {None} /\ custody' \in Int
    BY <1>1, Amounts DEF TypesOK
  <1>6. CASE available' = available + amount /\ Resolve(r, 0) /\ UNCHANGED withdrawals
    <2>1. PICK c \in Call : Send(r, c) /\ CallOK(c) /\ BurningAt(c) = 0 /\ DueAt(c) = 0
      BY <1>3, <1>4, <1>6
    <2>2. available' \in Nat
      BY <1>3, <1>6, Amounts
    <2>3. QED
      BY <1>1, <1>3, <1>5, <1>6, <2>1, <2>2, Amounts, SendKeeps
  <1>7. ASSUME NEW w \in Withdrawals, withdrawals[w] = None, fee_min < amount,
               withdrawals' = [withdrawals EXCEPT ![w] =
                    [stage |-> "pending", amount |-> amount, withdraw_fee |-> fee_min,
                     relayer_fee |-> 0]],
               Resolve(r, 0), UNCHANGED available
        PROVE  IInv'
    <2> DEFINE p == [stage |-> "pending", amount |-> amount, withdraw_fee |-> fee_min,
                     relayer_fee |-> 0]
    <2>1. PICK c \in Call : Send(r, c) /\ CallOK(c) /\ BurningAt(c) = 0 /\ DueAt(c) = 0
      BY <1>3, <1>4, <1>7
    <2>2. p \in PendingInfo /\ PendingOK(p) /\ p.stage = "pending" /\ p.amount = amount
      <3> HIDE DEF sent, amount
      <3>1. fee_min \in Nat
        BY ConstantsAssumption
      <3>2. QED
        BY <1>3, <1>7, <3>1 DEF PendingInfo, PendingOK
    <2>3. withdrawals' = [withdrawals EXCEPT ![w] = p]
      BY <1>7
    <2> HIDE DEF p
    <2>4. HeldAt(p) = amount /\ ToBurnAt(p) = 0
      BY <2>2, PendingFields
    <2>5. HeldAt(withdrawals[w]) = 0 /\ ToBurnAt(withdrawals[w]) = 0
      BY <1>7 DEF HeldAt, ToBurnAt
    <2>6. /\ Ledger(accounts') /\ total_supply' = SumFunction(accounts')
          /\ accounts'[Bridge] - DueAt(c) - HeldAt(p)
                >= accounts[Bridge] - DueAt(receipts[r]) - HeldAt(withdrawals[w])
          /\ total_supply' - BurningAt(c) - ToBurnAt(p)
                <= total_supply - BurningAt(receipts[r]) - ToBurnAt(withdrawals[w])
      BY <1>1, <1>3, <2>1, <2>4, <2>5, Amounts
    <2>7. QED
      BY <1>1, <1>7, <2>1, <2>2, <2>3, <2>6, BothKeeps
  <1>8. CASE Resolve(r, amount) /\ UNCHANGED <<withdrawals, available>>
    <2>1. PICK c \in Call : Send(r, c) /\ CallOK(c) /\ BurningAt(c) = 0 /\ DueAt(c) = amount
      BY <1>3, <1>4, <1>8
    <2>2. available' \in Nat
      BY <1>8, Amounts
    <2>3. QED
      BY <1>1, <1>3, <1>5, <1>8, <2>1, <2>2, Amounts, SendKeeps
  <1>9. QED
    BY <1>6, <1>7, <1>8 DEF BridgeAnswers

\* What is taken back: not more than was left unused or than the receiver has,
\* and from the bridge all that was left unused, because it still has it.
LEMMA RefundFits ==
    ASSUME IInv, NEW r \in Of("ft_resolve_transfer")
    PROVE  LET receipt == receipts[r]
               refund == RefundOf(receipt)
           IN
           /\ refund \in Nat /\ refund <= receipt.unused
           /\ refund > 0 => Registered(receipt.receiver)
                            /\ refund <= accounts[receipt.receiver]
           /\ receipt.receiver = Bridge => refund = receipt.unused
  <1> DEFINE receipt == receipts[r]
             refund == RefundOf(receipt)
  <1>1. receipt \in Call /\ receipt.kind = "ft_resolve_transfer" /\ r \in Receipt
    BY Amounts, OfKind
  <1>2. receipt.unused \in Nat
    BY <1>1, CallFields
  <1>3. receipt.receiver = Bridge => receipt.unused <= accounts[Bridge]
    <2>1. receipt.receiver = Bridge => DueAt(receipt) = receipt.unused
      BY <1>1, DueOf
    <2>2. DueAt(receipts[r]) <= accounts[Bridge]
      BY <1>1, DueIsCovered
    <2>3. QED
      BY <2>1, <2>2
  <1>4. ASSUME NEW x \in Nat, NEW y \in Nat
        PROVE  Min({x, y}) = IF x <= y THEN x ELSE y
    <2> DEFINE m == IF x <= y THEN x ELSE y
    <2>1. m \in {x, y} /\ \A z \in {x, y} : m <= z
      OBVIOUS
    <2>2. \A z \in {x, y} : (\A v \in {x, y} : z <= v) => z = m
      OBVIOUS
    <2> HIDE DEF m
    <2>3. Min({x, y}) = m
      BY <2>1, <2>2 DEF Min
    <2>4. QED
      BY <2>3 DEF m
  <1>5. CASE Registered(receipt.receiver)
    <2>1. accounts[receipt.receiver] \in Nat
      BY <1>5, Amounts DEF Registered, Ledger
    <2>2. refund = IF receipt.unused <= accounts[receipt.receiver]
                   THEN receipt.unused ELSE accounts[receipt.receiver]
      BY <1>2, <1>4, <1>5, <2>1 DEF RefundOf
    <2> HIDE DEF refund, receipt
    <2>3. /\ refund \in Nat /\ refund <= receipt.unused
          /\ refund > 0 => Registered(receipt.receiver)
                           /\ refund <= accounts[receipt.receiver]
          /\ receipt.receiver = Bridge => refund = receipt.unused
      BY <1>2, <1>3, <1>5, <2>1, <2>2
    <2>4. QED
      BY <2>3 DEF refund, receipt
  <1>6. CASE ~Registered(receipt.receiver)
    <2>1. refund = 0 /\ receipt.receiver # Bridge
      BY <1>6, Amounts DEF RefundOf, Registered
    <2>2. QED
      BY <1>2, <2>1
  <1>7. QED
    BY <1>5, <1>6

\* The transfer that is taken back in full is the only one whose answer says that
\* nothing was used, and then the bridge has the tokens again.
LEMMA FtResolveTransferKeeps ==
    ASSUME IInv, NEW r \in Receipt, ft_resolve_transfer(r)
    PROVE  IInv'
  <1> DEFINE receipt == receipts[r]
             refund == RefundOf(receipt)
             Finish(used) == IF receipt.safe THEN SafeMintAnswer(receipt.amount, used) ELSE None
             amount == receipt.amount
             sender == receipt.sender
             receiver == receipt.receiver
  <1>1. /\ r \in Of("ft_resolve_transfer")
        /\ UNCHANGED <<withdraw_relayer, withdrawals, available, protocol_fee_rate, custody>>
    BY DEF ft_resolve_transfer, bridge
  <1>2. receipt \in Call /\ CallOK(receipt) /\ receipt.kind = "ft_resolve_transfer"
    BY <1>1, Amounts, OfKind
  <1>3. /\ amount \in Nat /\ receipt.unused \in Nat /\ receipt.safe \in BOOLEAN
        /\ sender # receiver /\ (receipt.safe => sender = Bridge)
        /\ receipt.unused <= amount
        /\ DueAt(receipt) = (IF receiver = Bridge THEN receipt.unused ELSE 0)
        /\ BurningAt(receipt) = 0
    BY <1>2, CallFields, DueOf DEF CallOK
  <1>4. /\ refund \in Nat /\ refund <= receipt.unused
        /\ refund > 0 => Registered(receiver) /\ refund <= accounts[receiver]
        /\ receiver = Bridge => refund = receipt.unused
    BY <1>1, RefundFits
  <1>5. ASSUME NEW used \in Nat
        PROVE  /\ Finish(used) \in Call \cup {None}
               /\ Finish(used) # None => CallOK(Finish(used))
               /\ BurningAt(Finish(used)) = 0
               /\ DueAt(Finish(used)) = IF receipt.safe /\ used = 0 THEN amount ELSE 0
    <2>1. CASE receipt.safe
      <3> HIDE DEF receipt, amount
      <3>1. used \in Nat \cup {None}
        OBVIOUS
      <3>2. receipt.amount = amount
        BY DEF amount
      <3>3. /\ SafeMintAnswer(amount, used) \in Call /\ CallOK(SafeMintAnswer(amount, used))
            /\ BurningAt(SafeMintAnswer(amount, used)) = 0
            /\ DueAt(SafeMintAnswer(amount, used)) = IF used = 0 THEN amount ELSE 0
        BY <1>3, <3>1, NewAnswer
      <3>4. QED
        BY <2>1, <3>2, <3>3
    <2>2. CASE ~receipt.safe
      BY <2>2, DueOfNone
    <2>3. QED
      BY <2>1, <2>2
  <1>6. withdraw_relayer' \in User \cup {None} /\ available' \in Nat /\ custody' \in Int
    BY <1>1, Amounts DEF TypesOK
  <1>7. CASE refund = 0
    <2> DEFINE c == Finish(amount)
    <2>1. Send(r, c) /\ UNCHANGED <<accounts, total_supply>>
      BY <1>7 DEF ft_resolve_transfer, Send, Done
    <2>2. /\ c \in Call \cup {None} /\ (c # None => CallOK(c))
          /\ BurningAt(c) = 0 /\ DueAt(c) = 0
      <3> HIDE DEF receipt, sender, receiver, refund, amount, Finish
      <3>1. /\ c \in Call \cup {None} /\ (c # None => CallOK(c)) /\ BurningAt(c) = 0
            /\ DueAt(c) = IF receipt.safe /\ amount = 0 THEN amount ELSE 0
        BY <1>3, <1>5
      <3>2. QED
        BY <3>1
    <2>3. DueAt(receipts[r]) = 0 /\ BurningAt(receipts[r]) = 0
      BY <1>3, <1>4, <1>7
    <2> HIDE DEF c
    <2>4. QED
      BY <1>1, <1>6, <2>1, <2>2, <2>3, Amounts, SendKeeps
  <1>8. CASE refund # 0 /\ Registered(sender)
    <2> DEFINE c == Finish(amount - refund)
    <2>1. Send(r, c) /\ UNCHANGED total_supply
          /\ accounts' = Transferred(accounts, receiver, sender, refund)
      BY <1>8 DEF ft_resolve_transfer, Send, Done
    <2>2. amount - refund \in Nat /\ refund > 0
      BY <1>3, <1>4, <1>8
    <2>3. /\ c \in Call \cup {None} /\ (c # None => CallOK(c))
          /\ BurningAt(c) = 0
          /\ DueAt(c) = IF receipt.safe /\ amount - refund = 0 THEN amount ELSE 0
      <3> HIDE DEF receipt, sender, receiver, refund, amount, Finish
      <3>1. QED
        BY <2>2, <1>5
    <2> HIDE DEF c, receipt, sender, receiver, refund, amount, Finish
    <2>4. sender \in DOMAIN accounts /\ receiver \in DOMAIN accounts
          /\ refund <= accounts[receiver]
      BY <1>4, <1>8, <2>2 DEF Registered
    <2>5. /\ Ledger(accounts') /\ SumFunction(accounts') = SumFunction(accounts)
          /\ accounts'[Bridge] = accounts[Bridge] - (IF receiver = Bridge THEN refund ELSE 0)
                                    + (IF sender = Bridge THEN refund ELSE 0)
      BY <1>3, <1>4, <2>1, <2>4, Amounts, TransferredLedger
    <2>6. accounts'[Bridge] - available' - DueAt(c)
                >= accounts[Bridge] - available - DueAt(receipt)
      <3>1. CASE receiver = Bridge
        <4>1. ~receipt.safe /\ sender # Bridge
          BY <1>3, <3>1
        <4>2. DueAt(c) = 0 /\ DueAt(receipt) = refund
          BY <1>3, <1>4, <2>3, <3>1, <4>1
        <4>3. accounts'[Bridge] = accounts[Bridge] - refund
          BY <1>4, <2>5, <3>1, <4>1, Amounts
        <4>4. QED
          BY <1>1, <1>4, <4>2, <4>3, Amounts
      <3>2. CASE receiver # Bridge
        <4>1. DueAt(receipt) = 0
          BY <1>3, <3>2
        <4>2. CASE receipt.safe
          <5>1. sender = Bridge
            BY <1>3, <4>2
          <5>2. accounts'[Bridge] = accounts[Bridge] + refund
            BY <1>4, <2>5, <3>2, <5>1, Amounts
          <5>3. DueAt(c) <= refund /\ DueAt(c) \in Nat
            BY <1>3, <1>4, <2>3, <2>2
          <5>4. QED
            BY <1>1, <1>4, <4>1, <5>2, <5>3, Amounts
        <4>3. CASE ~receipt.safe
          <5>1. DueAt(c) = 0
            BY <2>3, <4>3
          <5>2. accounts'[Bridge] >= accounts[Bridge] /\ accounts'[Bridge] \in Nat
            BY <1>4, <2>5, <3>2, Amounts
          <5>3. QED
            BY <1>1, <4>1, <5>1, <5>2, Amounts
        <4>4. QED
          BY <1>3, <4>2, <4>3
      <3>3. QED
        BY <3>1, <3>2
    <2>7. /\ total_supply' = SumFunction(accounts')
          /\ total_supply' - custody' - BurningAt(c)
                <= total_supply - custody - BurningAt(receipt)
      BY <1>1, <1>3, <2>1, <2>3, <2>5, Amounts
    <2>8. receipt = receipts[r]
      BY DEF receipt
    <2>9. QED
      BY <1>1, <1>6, <2>1, <2>3, <2>5, <2>6, <2>7, <2>8, SendKeeps
  <1>9. CASE refund # 0 /\ ~Registered(sender)
    <2> DEFINE c == Finish(amount)
    <2>1. /\ Send(r, c) /\ total_supply' = total_supply - refund
          /\ accounts' = [accounts EXCEPT ![receiver] = @ - refund]
      BY <1>9 DEF ft_resolve_transfer, Send, Done
    <2>2. ~receipt.safe /\ sender # Bridge
      BY <1>3, <1>9, Amounts DEF Registered
    <2>3. c = None
      BY <2>2
    <2> HIDE DEF c, receipt, sender, receiver, refund, amount, Finish
    <2>4. receiver \in DOMAIN accounts /\ refund <= accounts[receiver]
      BY <1>4, <1>9 DEF Registered
    <2>5. /\ Ledger(accounts') /\ SumFunction(accounts') = SumFunction(accounts) - refund
          /\ accounts'[Bridge] = accounts[Bridge] - IF receiver = Bridge THEN refund ELSE 0
      BY <1>4, <2>1, <2>4, LedgerOfState, BurnedLedger
    <2>6. receipt = receipts[r] /\ Send(r, None)
      BY <2>1, <2>3 DEF receipt
    <2>7. /\ total_supply' = SumFunction(accounts')
          /\ accounts'[Bridge] - available' - DueAt(None)
                >= accounts[Bridge] - available - DueAt(receipt)
          /\ total_supply' - custody' - BurningAt(None)
                <= total_supply - custody - BurningAt(receipt)
      BY <1>1, <1>3, <1>4, <2>1, <2>5, Amounts, DueOfNone
    <2>8. QED
      BY <1>1, <1>6, <2>5, <2>6, <2>7, SendKeeps
  <1>10. QED
    BY <1>7, <1>8, <1>9

-----------------------------------------------------------------------------
(* Accounts, and the bridge's own use of its balance. *)

LEMMA StorageDepositKeeps ==
    ASSUME IInv, NEW a \in User, StorageDeposit(a)
    PROVE  IInv'
  <1>1. /\ accounts' = Deposited(accounts, a, 0)
        /\ UNCHANGED <<total_supply, withdraw_relayer, receipts, withdrawals, available,
                       protocol_fee_rate, custody>>
    BY DEF StorageDeposit, bridge
  <1>2. a \in Account /\ a # Bridge
    BY ConstantsAssumption DEF Account
  <1>3. /\ Ledger(accounts') /\ SumFunction(accounts') = SumFunction(accounts)
        /\ accounts'[Bridge] = accounts[Bridge]
    <2> DEFINE after == Deposited(accounts, a, 0)
    <2>1. Ledger(accounts)
      BY Amounts
    <2>2. /\ Ledger(after) /\ SumFunction(after) = SumFunction(accounts) + 0
          /\ after[Bridge] = accounts[Bridge] + IF a = Bridge THEN 0 ELSE 0
      BY ONLY <1>2, <2>1, 0 \in Nat, DepositedLedger
    <2> HIDE DEF after
    <2>3. accounts' = after
      BY <1>1 DEF after
    <2>4. QED
      BY <2>2, <2>3, Amounts
  <1>4. withdraw_relayer' \in User \cup {None} /\ protocol_fee_rate' \in 0..MAX_RATIO
    BY <1>1, Amounts DEF TypesOK
  <1>5. QED
    BY <1>1, <1>3, <1>4, Amounts, LedgerKeeps

\* The balance goes with the account, and out of the supply.
LEMMA StorageUnregisterKeeps ==
    ASSUME IInv, NEW a \in User, NEW force, StorageUnregister(a, force)
    PROVE  IInv'
  <1>1. /\ a \in DOMAIN accounts /\ total_supply' = total_supply - accounts[a]
        /\ accounts' = [x \in DOMAIN accounts \ {a} |-> accounts[x]]
        /\ UNCHANGED <<withdraw_relayer, receipts, withdrawals, available,
                       protocol_fee_rate, custody>>
    BY DEF StorageUnregister, RemoveAccount, Registered, bridge
  <1>2. a # Bridge
    BY ConstantsAssumption
  <1>3. /\ Ledger(accounts') /\ SumFunction(accounts') = SumFunction(accounts) - accounts[a]
        /\ accounts'[Bridge] = accounts[Bridge] /\ accounts[a] \in Nat
    BY <1>1, <1>2, Amounts, ClosedLedger
  <1>4. withdraw_relayer' \in User \cup {None} /\ protocol_fee_rate' \in 0..MAX_RATIO
    BY <1>1, Amounts DEF TypesOK
  <1>5. QED
    BY <1>1, <1>3, <1>4, Amounts, LedgerKeeps

LEMMA SettingsKeep ==
    ASSUME IInv, \/ \E a \in User : set_withdraw_relayer_address(a)
                 \/ \E rate \in ProtocolRate : SetProtocolFeeRate(rate)
    PROVE  IInv'
  <1>1. /\ UNCHANGED <<accounts, total_supply, receipts, withdrawals, available, custody>>
        /\ withdraw_relayer' \in User \cup {None} /\ protocol_fee_rate' \in 0..MAX_RATIO
    BY Amounts, ConstantsAssumption
       DEF set_withdraw_relayer_address, SetProtocolFeeRate, TypesOK, token, bridge
  <1>2. QED
    BY <1>1, Amounts, LedgerKeeps

\* The withdrawal that is confirmed leaves the custody and is to be burned.
LEMMA ConfirmKeeps ==
    ASSUME IInv, NEW w \in Withdrawals, Confirm(w)
    PROVE  IInv'
  <1> DEFINE old == withdrawals[w]
             p == [old EXCEPT !.stage = "confirmed"]
  <1>1. /\ old # None /\ old.stage = "pending"
        /\ withdrawals' = [withdrawals EXCEPT ![w].stage = "confirmed"]
        /\ custody' = custody - BurnAmount(old)
        /\ UNCHANGED <<token, receipts, available, protocol_fee_rate>>
    BY DEF Confirm
  <1>2. old \in PendingInfo /\ PendingOK(old)
    BY <1>1, Amounts DEF TypesOK
  <1>3. withdrawals' = [withdrawals EXCEPT ![w] = p]
    BY <1>1
  <1> HIDE DEF old
  <1>4. /\ p \in PendingInfo /\ p.amount = old.amount /\ p.withdraw_fee = old.withdraw_fee
        /\ p.relayer_fee = old.relayer_fee /\ p.stage = "confirmed"
    BY <1>2 DEF PendingInfo
  <1> HIDE DEF p
  <1>5. PendingOK(p) /\ BurnAmount(p) = BurnAmount(old)
    BY <1>2, <1>4 DEF PendingOK, BurnAmount
  <1>6. /\ BurnAmount(old) \in Nat /\ old.amount \in Nat
        /\ HeldAt(p) = old.amount /\ HeldAt(old) = old.amount
        /\ ToBurnAt(p) = BurnAmount(old) /\ ToBurnAt(old) = 0
    BY <1>1, <1>2, <1>4, <1>5, PendingFields
  <1>7. /\ available' \in Nat /\ custody' \in Int
        /\ available' + HeldAt(p) <= available + HeldAt(old)
        /\ custody' + ToBurnAt(p) >= custody + ToBurnAt(old)
    BY <1>1, <1>6, Amounts
  <1>8. old = withdrawals[w]
    BY DEF old
  <1>9. QED
    BY <1>1, <1>3, <1>4, <1>5, <1>7, <1>8, BookKeeps

\* The relayer's share is part of the fee at any rate.
LEMMA FeeIsSplit ==
    ASSUME IInv, NEW fee \in Nat
    PROVE  RelayerFee(fee) \in Nat /\ RelayerFee(fee) <= fee
  <1>1. protocol_fee_rate \in Nat /\ protocol_fee_rate <= MAX_RATIO
        /\ MAX_RATIO \in Nat /\ MAX_RATIO > 0
    BY ConstantsAssumption DEF IInv, TypesOK
  <1>2. ASSUME NEW x \in Nat, NEW rate \in Nat, NEW max \in Nat, rate <= max, max > 0
        PROVE  (x * rate) \div max \in Nat /\ (x * rate) \div max <= x
    <2>1. x * rate \in Nat /\ x * rate <= x * max
      BY <1>2
    <2>2. QED
      BY <1>2, <2>1
  <1>3. ProtocolFee(fee) \in Nat /\ ProtocolFee(fee) <= fee
    BY <1>1, <1>2 DEF ProtocolFee
  <1>4. QED
    BY <1>3 DEF RelayerFee

LEMMA VerifyKeeps ==
    ASSUME IInv, NEW w \in Withdrawals, \/ VerifyWithdrawBurnPromise(w)
                                        \/ BurnFails(w)
    PROVE  IInv'
  <1> DEFINE old == withdrawals[w]
  <1>1. PICK s \in {"confirmed", "burning"}, fee \in {0, RelayerFee(old.withdraw_fee)} :
            /\ old # None /\ old.stage # "pending"
            /\ withdrawals' = [withdrawals EXCEPT ![w] =
                                    [old EXCEPT !.stage = s, !.relayer_fee = fee]]
            /\ UNCHANGED <<token, receipts, available, protocol_fee_rate, custody>>
    <2>1. CASE VerifyWithdrawBurnPromise(w)
      BY <2>1, Amounts DEF VerifyWithdrawBurnPromise, TypesOK
    <2>2. CASE BurnFails(w)
      BY <2>2, Amounts DEF BurnFails, TypesOK
    <2>3. QED
      BY <2>1, <2>2
  <1>2. old \in PendingInfo /\ PendingOK(old)
    BY <1>1, Amounts DEF TypesOK
  <1> DEFINE p == [old EXCEPT !.stage = s, !.relayer_fee = fee]
  <1>3. withdrawals' = [withdrawals EXCEPT ![w] = p]
    BY <1>1
  <1>4. old = withdrawals[w]
    OBVIOUS
  <1> HIDE DEF old
  <1>5. fee \in Nat /\ fee <= old.withdraw_fee
    BY <1>1, <1>2, PendingFields, FeeIsSplit
  <1>6. /\ p \in PendingInfo /\ p.amount = old.amount /\ p.withdraw_fee = old.withdraw_fee
        /\ p.relayer_fee = fee /\ p.stage = s
    BY <1>2, <1>5 DEF PendingInfo
  <1> HIDE DEF p
  <1>7. PendingOK(p) /\ BurnAmount(p) = BurnAmount(old)
    BY <1>2, <1>5, <1>6 DEF PendingOK, BurnAmount
  <1>8. /\ BurnAmount(old) \in Nat /\ old.amount \in Nat
        /\ HeldAt(p) = old.amount /\ HeldAt(old) = old.amount
        /\ ToBurnAt(p) = BurnAmount(old) /\ ToBurnAt(old) = BurnAmount(old)
    BY <1>1, <1>2, <1>6, <1>7, PendingFields
  <1>9. /\ available' \in Nat /\ custody' \in Int
        /\ available' + HeldAt(p) <= available + HeldAt(old)
        /\ custody' + ToBurnAt(p) >= custody + ToBurnAt(old)
    BY <1>1, <1>8, Amounts
  <1>10. QED
    BY <1>1, <1>3, <1>4, <1>6, <1>7, <1>9, BookKeeps

\* What is burned, what the relayer is paid and what the protocol keeps add up to
\* what was sent to the bridge.
LEMMA BurnWithdrawalKeeps ==
    ASSUME IInv, NEW r \in Receipt, NEW w \in Withdrawals, NEW relayer \in User,
           BurnWithdrawal(r, w, relayer)
    PROVE  IInv'
  <1> DEFINE old == withdrawals[w]
             burnt == BurnAmount(old)
             fee == old.relayer_fee
             share == old.withdraw_fee - fee
             burned == [accounts EXCEPT ![Bridge] = @ - burnt]
             opened == Deposited(burned, relayer, 0)
             collect == [kind |-> "collect", amount |-> share]
  <1>1. /\ r \in Idle /\ old # None /\ old.stage = "burning"
        /\ burn(burnt, relayer, fee) /\ Send(r, collect)
        /\ withdrawals' = [withdrawals EXCEPT ![w] = None]
        /\ UNCHANGED <<withdraw_relayer, available, protocol_fee_rate, custody>>
    BY DEF BurnWithdrawal
  <1>2. /\ burnt + fee <= accounts[Bridge] /\ total_supply' = total_supply - burnt
        /\ accounts' = IF fee > 0 THEN Transferred(opened, Bridge, relayer, fee) ELSE burned
    BY <1>1 DEF burn, CanBurn
  <1>3. old \in PendingInfo /\ PendingOK(old)
    BY <1>1, Amounts DEF TypesOK
  <1>4. /\ burnt \in Nat /\ fee \in Nat /\ fee <= old.withdraw_fee
        /\ old.withdraw_fee \in Nat /\ old.amount \in Nat
        /\ burnt = old.amount - old.withdraw_fee
        /\ HeldAt(old) = old.amount /\ ToBurnAt(old) = burnt
    BY <1>1, <1>3, PendingFields
  <1>5. old = withdrawals[w] /\ share = old.withdraw_fee - fee /\ share \in Nat
    BY <1>4
  <1> HIDE DEF old, burnt, fee, share
  <1>6. burnt <= accounts[Bridge]
    BY <1>2, <1>4, Amounts
  <1>7. /\ Ledger(burned) /\ DOMAIN burned = DOMAIN accounts
        /\ SumFunction(burned) = SumFunction(accounts) - burnt
        /\ burned[Bridge] = accounts[Bridge] - burnt
    BY <1>4, <1>6, Amounts, BurnedLedger
  <1>8. relayer \in Account /\ relayer # Bridge /\ Bridge \in Account
    BY ConstantsAssumption DEF Account
  <1> HIDE DEF burned
  <1>9. /\ Ledger(opened) /\ DOMAIN opened = DOMAIN burned \cup {relayer}
        /\ SumFunction(opened) = SumFunction(burned) + 0
        /\ opened[Bridge] = burned[Bridge] + 0
    <2>1. opened[Bridge] = burned[Bridge] + IF relayer = Bridge THEN 0 ELSE 0
      BY <1>7, <1>8, DepositedLedger
    <2>2. QED
      BY <1>7, <1>8, <2>1, DepositedLedger
  <1> HIDE DEF opened
  <1>10. /\ Ledger(accounts') /\ SumFunction(accounts') = SumFunction(accounts) - burnt
         /\ accounts'[Bridge] = accounts[Bridge] - burnt - fee
    <2>1. CASE fee > 0
      <3>1. /\ Bridge \in DOMAIN opened /\ relayer \in DOMAIN opened /\ fee <= opened[Bridge]
        BY <1>2, <1>4, <1>7, <1>8, <1>9, Amounts
      <3>2. /\ Ledger(accounts') /\ SumFunction(accounts') = SumFunction(opened)
            /\ accounts'[Bridge] = opened[Bridge] - fee + 0
        BY <1>2, <1>4, <1>8, <1>9, <2>1, <3>1, TransferredLedger
      <3>3. QED
        BY <1>4, <1>7, <1>9, <3>2, Amounts
    <2>2. CASE fee = 0
      BY <1>2, <1>4, <1>7, <2>2, Amounts
    <2>3. QED
      BY <1>4, <2>1, <2>2
  <1>11. collect \in Call /\ CallOK(collect) /\ DueAt(collect) = share /\ BurningAt(collect) = 0
    BY <1>5, NewCalls
  <1>12. Send(r, collect)
    BY <1>1
  <1> HIDE DEF collect
  <1>13. DueAt(receipts[r]) = 0 /\ BurningAt(receipts[r]) = 0
    BY <1>1, IdleReceipt, DueOfNone
  <1>14. HeldAt(None) = 0 /\ ToBurnAt(None) = 0
    BY DEF HeldAt, ToBurnAt
  <1>15. /\ total_supply' = SumFunction(accounts')
         /\ accounts'[Bridge] - DueAt(collect) - HeldAt(None)
                >= accounts[Bridge] - DueAt(receipts[r]) - HeldAt(withdrawals[w])
         /\ total_supply' - BurningAt(collect) - ToBurnAt(None)
                <= total_supply - BurningAt(receipts[r]) - ToBurnAt(withdrawals[w])
    BY <1>2, <1>4, <1>5, <1>10, <1>11, <1>13, <1>14, Amounts
  <1>16. QED
    BY <1>1, <1>10, <1>11, <1>12, <1>15, BothKeeps

LEMMA WithdrawProtocolFeeKeeps ==
    ASSUME IInv, NEW r \in Receipt, NEW claimer \in User, NEW amount \in Nat,
           WithdrawProtocolFee(r, claimer, amount)
    PROVE  IInv'
  <1> DEFINE claim == [kind |-> "claim", receiver |-> claimer, amount |-> amount]
  <1>1. /\ r \in Idle /\ amount <= available /\ available' = available - amount
        /\ Send(r, claim)
        /\ UNCHANGED <<accounts, total_supply, withdraw_relayer, withdrawals,
                       protocol_fee_rate, custody>>
    BY DEF WithdrawProtocolFee, token
  <1>2. claim \in Call /\ CallOK(claim) /\ DueAt(claim) = amount /\ BurningAt(claim) = 0
    BY NewCalls
  <1> HIDE DEF claim
  <1>3. DueAt(receipts[r]) = 0 /\ BurningAt(receipts[r]) = 0
    BY <1>1, IdleReceipt, DueOfNone
  <1>4. withdraw_relayer' \in User \cup {None} /\ available' \in Nat /\ custody' \in Int
    BY <1>1, Amounts DEF TypesOK
  <1>5. QED
    BY <1>1, <1>2, <1>3, <1>4, Amounts, SendKeeps

\* A claim is paid, or is available again.
LEMMA TransferClaimKeeps ==
    ASSUME IInv, NEW r \in Receipt, TransferClaim(r)
    PROVE  IInv'
  <1> DEFINE claim == receipts[r]
  <1>1. /\ r \in Of("claim") /\ Send(r, None)
        /\ UNCHANGED <<total_supply, withdraw_relayer, withdrawals, protocol_fee_rate, custody>>
    BY DEF TransferClaim, Send, Done
  <1>2. claim \in Call /\ claim.kind = "claim"
    BY <1>1, Amounts, OfKind
  <1>3. /\ claim.amount \in Nat /\ claim.receiver \in User
        /\ DueAt(claim) = claim.amount /\ BurningAt(claim) = 0
    BY <1>2, CallFields, DueOf
  <1>4. withdraw_relayer' \in User \cup {None} /\ custody' \in Int
    BY <1>1, Amounts DEF TypesOK
  <1>5. CASE CanTransfer(Bridge, claim.receiver, claim.amount)
    <2>1. /\ accounts' = Transferred(accounts, Bridge, claim.receiver, claim.amount)
          /\ UNCHANGED available
      BY <1>5 DEF TransferClaim
    <2>2. /\ Bridge # claim.receiver /\ claim.receiver \in DOMAIN accounts
          /\ claim.amount <= accounts[Bridge]
      BY <1>5 DEF CanTransfer, Registered
    <2>3. /\ Ledger(accounts') /\ SumFunction(accounts') = SumFunction(accounts)
          /\ accounts'[Bridge] = accounts[Bridge] - claim.amount + 0
      BY <1>3, <2>1, <2>2, Amounts, TransferredLedger
    <2>4. /\ total_supply' = SumFunction(accounts') /\ available' \in Nat
          /\ accounts'[Bridge] - available' - DueAt(None)
                >= accounts[Bridge] - available - DueAt(receipts[r])
          /\ total_supply' - custody' - BurningAt(None)
                <= total_supply - custody - BurningAt(receipts[r])
      BY <1>1, <1>3, <2>1, <2>3, Amounts, DueOfNone
    <2>5. QED
      BY <1>1, <1>4, <2>3, <2>4, SendKeeps
  <1>6. CASE ~CanTransfer(Bridge, claim.receiver, claim.amount)
    <2>1. UNCHANGED accounts /\ available' = available + claim.amount
      BY <1>6 DEF TransferClaim
    <2>2. available' \in Nat
      BY <1>3, <2>1, Amounts
    <2>3. QED
      BY <1>1, <1>3, <1>4, <2>1, <2>2, Amounts, DueOfNone, SendKeeps
  <1>7. QED
    BY <1>5, <1>6

-----------------------------------------------------------------------------
(* The invariant. *)

LEMMA InitInv == Init => IInv
  <1> SUFFICES ASSUME Init PROVE IInv
    OBVIOUS
  <1>1. /\ accounts = [a \in User \cup {Bridge} |-> 0] /\ total_supply = 0
        /\ withdraw_relayer = None /\ receipts = [r \in Receipt |-> None]
        /\ withdrawals = [w \in Withdrawals |-> None] /\ available = 0
        /\ protocol_fee_rate \in ProtocolRate /\ custody = 0
    BY DEF Init
  <1>2. Ledger(accounts) /\ accounts[Bridge] = 0 /\ \A a \in DOMAIN accounts : accounts[a] = 0
    BY <1>1 DEF Ledger, Account
  <1>3. SumFunction(accounts) = 0
    BY <1>2, FiniteLedger, SumZero
  <1>4. TypesOK
    BY <1>1, <1>2, ConstantsAssumption DEF TypesOK
  <1>5. \A r \in Receipt : Due[r] = 0 /\ Burning[r] = 0
    BY <1>1, DueOfNone DEF Due, Burning
  <1>6. \A w \in Withdrawals : Held[w] = 0 /\ ToBurn[w] = 0
    BY <1>1 DEF Held, ToBurn, HeldAt, ToBurnAt
  <1>7. TotalDue = 0 /\ TotalBurning = 0 /\ TotalHeld = 0 /\ TotalToBurn = 0
    BY <1>5, <1>6, SumZero, ConstantsAssumption
       DEF TotalDue, TotalBurning, TotalHeld, TotalToBurn
  <1>8. QED
    BY <1>1, <1>2, <1>3, <1>4, <1>7 DEF IInv, SupplyIsSum, Covered, BackedByCustody

LEMMA NextInv == IInv /\ [Next]_vars => IInv'
  <1> SUFFICES ASSUME IInv, [Next]_vars PROVE IInv'
    OBVIOUS
  <1> USE ConstantsAssumption
  <1>1. ASSUME NEW a \in User \cup {Bridge}, NEW amount \in MintAmount, NEW relayer \in User,
               NEW fee \in FeeAmount, NEW relayer_fee \in FeeAmount, NEW callback \in Receipt,
               NEW actions \in PostActions(amount),
               mint(a, amount, fee, relayer, relayer_fee, callback, actions)
        PROVE  IInv'
    <2>1. amount \in Nat /\ fee \in Nat /\ relayer_fee \in Nat
      OBVIOUS
    <2>2. QED
      BY <1>1, <2>1, MintKeeps
  <1>2. ASSUME NEW r \in Receipt, NEW a \in User, NEW amount \in MintAmount,
               \/ \E with_msg \in BOOLEAN : SafeMint(r, a, amount, with_msg)
               \/ SafeMintFails(r, amount)
        PROVE  IInv'
    <2>1. amount \in Nat \ {0} /\ amount \in Nat
      OBVIOUS
    <2>2. CASE \E with_msg \in BOOLEAN : SafeMint(r, a, amount, with_msg)
      <3>1. PICK with_msg \in BOOLEAN : SafeMint(r, a, amount, with_msg)
        BY <2>2
      <3>2. QED
        BY <2>1, <3>1, SafeMintKeeps
    <2>3. QED
      BY <1>2, <2>1, <2>2, SafeMintFailsKeeps
  <1>3. ASSUME NEW r \in Receipt,
               \/ HandlePostAction(r) \/ SafeMintCallback(r) \/ BurnRefused(r) \/ Collect(r)
               \/ BridgeAnswers(r) \/ ft_resolve_transfer(r) \/ TransferClaim(r)
        PROVE  IInv'
    BY <1>3, HandlePostActionKeeps, SafeMintCallbackKeeps, BurnRefusedKeeps, CollectKeeps,
       BridgeAnswersKeeps, FtResolveTransferKeeps, TransferClaimKeeps
  <1>4. ASSUME NEW r \in Receipt, NEW unused \in 0..MaxCustody, ReceiverAnswers(r, unused)
        PROVE  IInv'
    <2>1. unused \in Nat
      OBVIOUS
    <2>2. QED
      BY <1>4, <2>1, ReceiverAnswersKeeps
  <1>5. ASSUME NEW a \in User, NEW to \in Account, NEW amount \in TransferAmount,
               \/ \E memo \in BOOLEAN : ft_transfer(a, to, amount, memo)
               \/ \E r \in Receipt : ft_transfer_call(r, a, to, amount)
        PROVE  IInv'
    <2>1. amount \in Nat
      OBVIOUS
    <2>2. QED
      BY <1>5, <2>1, FtTransferKeeps, FtTransferCallKeeps
  <1>6. ASSUME NEW a \in User,
               \/ StorageDeposit(a)
               \/ \E force \in BOOLEAN : StorageUnregister(a, force)
               \/ set_withdraw_relayer_address(a)
        PROVE  IInv'
    BY <1>6, StorageDepositKeeps, StorageUnregisterKeeps, SettingsKeep
  <1>7. ASSUME NEW a \in User, NEW r \in Receipt, NEW amount \in FeeAmount \ {0},
               WithdrawProtocolFee(r, a, amount)
        PROVE  IInv'
    <2>1. amount \in Nat
      OBVIOUS
    <2>2. QED
      BY <1>7, <2>1, WithdrawProtocolFeeKeeps
  <1>8. ASSUME NEW w \in Withdrawals,
               \/ Confirm(w) \/ VerifyWithdrawBurnPromise(w) \/ BurnFails(w)
               \/ \E r \in Receipt, relayer \in User : BurnWithdrawal(r, w, relayer)
        PROVE  IInv'
    BY <1>8, ConfirmKeeps, VerifyKeeps, BurnWithdrawalKeeps
  <1>9. CASE \E rate \in ProtocolRate : SetProtocolFeeRate(rate)
    BY <1>9, SettingsKeep
  <1>10. CASE UNCHANGED vars
    <2>1. /\ UNCHANGED <<receipts, withdrawals, available, custody>>
          /\ UNCHANGED <<accounts, total_supply, withdraw_relayer, protocol_fee_rate>>
      BY <1>10 DEF vars, token, bridge
    <2>2. withdraw_relayer' \in User \cup {None} /\ protocol_fee_rate' \in 0..MAX_RATIO
      BY <2>1, Amounts DEF TypesOK
    <2>3. QED
      BY <2>1, <2>2, Amounts, LedgerKeeps
  <1>11. QED
    BY <1>1, <1>2, <1>3, <1>4, <1>5, <1>6, <1>7, <1>8, <1>9, <1>10 DEF Next

LEMMA Invariance == Spec => []IInv
  <1>1. QED
    BY InitInv, NextInv, PTL DEF Spec

-----------------------------------------------------------------------------
(* What the invariant implies. *)

\* What the withdrawals hold, and what is to be burned, in the model's own terms.
LEMMA TotalsOf ==
    ASSUME IInv
    PROVE  /\ SumFunction([w \in Open |-> withdrawals[w].amount]) = TotalHeld
           /\ SumFunction([r \in Busy |-> OwedBy(receipts[r])]) \in Nat
           /\ SumFunction([r \in Busy |-> OwedBy(receipts[r])]) <= TotalDue
           /\ SumFunction([r \in Of("burn_refused") |-> receipts[r].amount]) = TotalBurning
           /\ SumFunction([w \in {v \in Open : withdrawals[v].stage # "pending"} |->
                                BurnAmount(withdrawals[w])]) = TotalToBurn
  <1> DEFINE L == {v \in Open : withdrawals[v].stage # "pending"}
             h == [w \in Open |-> withdrawals[w].amount]
             d == [r \in Busy |-> OwedBy(receipts[r])]
             b == [r \in Of("burn_refused") |-> receipts[r].amount]
             t == [w \in L |-> BurnAmount(withdrawals[w])]
  <1>1. IsFiniteSet(Withdrawals) /\ IsFiniteSet(Receipt)
    BY ConstantsAssumption
  <1>2. Open \in SUBSET Withdrawals /\ L \in SUBSET Withdrawals
        /\ Busy \in SUBSET Receipt /\ Of("burn_refused") \in SUBSET Receipt
    BY DEF Open, Busy, Of
  <1>3. \A w \in Open : withdrawals[w] \in PendingInfo /\ PendingOK(withdrawals[w])
    BY Amounts DEF Open, TypesOK
  <1>4. SumFunctionOnSet(Held, Withdrawals) = SumFunctionOnSet(h, Open)
    <2>1. \A w \in Open : Held[w] \in Nat /\ h[w] = Held[w]
      BY <1>2, <1>3, PendingFields DEF Held
    <2>2. \A w \in Withdrawals \ Open : Held[w] = 0
      BY DEF Held, HeldAt, Open
    <2>3. QED
      BY ONLY <1>1, <1>2, <2>1, <2>2, SumOnPart
  <1>5. SumFunctionOnSet(ToBurn, Withdrawals) = SumFunctionOnSet(t, L)
    <2>1. ASSUME NEW w \in L PROVE ToBurn[w] \in Nat /\ t[w] = ToBurn[w]
      <3>1. /\ w \in Withdrawals /\ withdrawals[w] \in PendingInfo /\ PendingOK(withdrawals[w])
            /\ withdrawals[w].stage # "pending"
        BY <1>2, <1>3
      <3>2. BurnAmount(withdrawals[w]) \in Nat
            /\ ToBurnAt(withdrawals[w]) = BurnAmount(withdrawals[w])
        BY <3>1, PendingFields
      <3>3. QED
        BY <3>1, <3>2 DEF ToBurn
    <2>2. \A w \in Withdrawals \ L : ToBurn[w] = 0
      BY DEF ToBurn, ToBurnAt, Open
    <2> HIDE DEF t, L
    <2>3. QED
      BY ONLY <1>1, <1>2, <2>1, <2>2, SumOnPart
  <1>6. \A r \in Busy : receipts[r] \in Call /\ receipts[r] # None /\ r \in Receipt
    BY Amounts DEF Busy, TypesOK
  <1>7. SumFunctionOnSet(Burning, Receipt) = SumFunctionOnSet(b, Of("burn_refused"))
    <2>1. ASSUME NEW r \in Of("burn_refused") PROVE Burning[r] \in Nat /\ b[r] = Burning[r]
      <3>1. r \in Receipt /\ receipts[r] \in Call /\ receipts[r].kind = "burn_refused"
        BY Amounts, OfKind
      <3>2. BurningAt(receipts[r]) = receipts[r].amount /\ BurningAt(receipts[r]) \in Nat
        BY <3>1, DueOf
      <3>3. QED
        BY <3>1, <3>2 DEF Burning
    <2>2. \A r \in Receipt \ Of("burn_refused") : Burning[r] = 0
      BY DEF Burning, BurningAt, Of
    <2>3. QED
      BY ONLY <1>1, <1>2, <2>1, <2>2, SumOnPart
  <1>8. SumFunctionOnSet(d, Busy) \in Nat
        /\ SumFunctionOnSet(d, Busy) <= SumFunctionOnSet(Due, Receipt)
    <2>1. ASSUME NEW r \in Busy PROVE d[r] \in Nat /\ Due[r] \in Nat /\ d[r] <= Due[r]
      <3>1. receipts[r] \in Call /\ receipts[r] # None /\ r \in Receipt
        BY <1>6
      <3>2. DueAt(receipts[r]) \in Nat /\ receipts[r].amount \in Nat
        BY <3>1, DueOf, CallFields
      <3>3. d[r] = OwedBy(receipts[r]) /\ Due[r] = DueAt(receipts[r])
        BY <3>1 DEF Due
      <3>4. CASE receipts[r].kind = "handle_post_action" /\ receipts[r].sender = Bridge
        BY <3>2, <3>3, <3>4 DEF OwedBy
      <3>5. CASE ~(receipts[r].kind = "handle_post_action" /\ receipts[r].sender = Bridge)
        BY <3>1, <3>2, <3>3, <3>5 DEF DueAt
      <3>6. QED
        BY <3>4, <3>5
    <2>2. \A r \in Receipt : Due[r] \in Nat
      BY Amounts, DueOf, DueOfNone DEF Due, TypesOK
    <2>3. IsFiniteSet(Busy)
      BY <1>1, <1>2, FS_Subset
    <2> HIDE DEF d
    <2>4. SumFunctionOnSet(d, Busy) \in Nat
          /\ SumFunctionOnSet(d, Busy) <= SumFunctionOnSet(Due, Busy)
      BY ONLY <2>1, <2>3, SumNat, SumAtMost
    <2>5. IsFiniteSet(Receipt) /\ Busy \in SUBSET Receipt
      BY <1>1, <1>2
    <2>6. /\ SumFunctionOnSet(Due, Busy) \in Nat
          /\ SumFunctionOnSet(Due, Receipt \ Busy) \in Nat
          /\ SumFunctionOnSet(Due, Receipt)
                = SumFunctionOnSet(Due, Busy) + SumFunctionOnSet(Due, Receipt \ Busy)
      BY ONLY <2>2, <2>5, SumPart
    <2>7. QED
      BY <2>4, <2>6
  <1>9. /\ SumFunction(h) = SumFunctionOnSet(h, Open)
        /\ SumFunction(d) = SumFunctionOnSet(d, Busy)
        /\ SumFunction(b) = SumFunctionOnSet(b, Of("burn_refused"))
        /\ SumFunction(t) = SumFunctionOnSet(t, L)
    BY DEF SumFunction
  <1>10. QED
    BY <1>4, <1>5, <1>7, <1>8, <1>9 DEF TotalHeld, TotalDue, TotalBurning, TotalToBurn

\* The ledger is exact: mints, transfers, refunds to accounts that are gone, burns
\* and closed accounts leave the supply equal to the sum of the balances.
THEOREM SupplyExact == Spec => []SupplyIsSum
  <1>1. IInv => SupplyIsSum
    BY DEF IInv
  <1>2. QED
    BY <1>1, Invariance, PTL

\* The bridge's balance covers the protocol fee it may pay out, the withdrawals it
\* still has to burn and every call under way that counts on it.
THEOREM BalanceCovers == Spec => []BridgeCovers
  <1>1. IInv => BridgeCovers
    BY Amounts, TotalsOf DEF BridgeCovers
  <1>2. QED
    BY <1>1, Invariance, PTL

\* No more tokens exist than the bridge keeps bitcoin for, but for those whose
\* burn is on its way.
THEOREM TokensBacked == Spec => []SupplyIsBacked
  <1>1. IInv => SupplyIsBacked
    BY Amounts, TotalsOf DEF SupplyIsBacked
  <1>2. QED
    BY <1>1, Invariance, PTL
=============================================================================
