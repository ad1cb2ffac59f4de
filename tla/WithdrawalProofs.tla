-------------------------- MODULE WithdrawalProofs --------------------------
(* Proofs about Withdrawal, for every value of its constants.              *)
EXTENDS Withdrawal, SumTheorems

-----------------------------------------------------------------------------
(* Families.                                                               *)

FamilyTypes ==
    /\ info \in [Tx -> Info \cup {None}]
    /\ sign_ids \in [Account -> SUBSET Tx]
    /\ verify_list \in [Account -> SUBSET Tx]
    /\ rbf_txs \in [Tx -> SUBSET Tx]
    /\ burning \in [Tx -> {"none", "called", "burned"}]

\* A record is that of a transaction that was created.  The original of a
\* replacement has the same account and was signed, or is settled for good.
InFamily(t) ==
    /\ t \in DOMAIN body
    /\ info[t].original_tx_id \in DOMAIN body
    /\ body[info[t].original_tx_id].inputs = body[t].inputs
    /\ info[t].role = "original" => info[t].original_tx_id = t
    /\ info[t].role # "original" =>
        \A o \in Tx : o = info[t].original_tx_id /\ Exists(o) =>
            /\ info[o].role = "original"
            /\ info[o].account_id = info[t].account_id
            /\ info[o].stage # "PendingSign"

Families == \A t \in Tx : Exists(t) => InFamily(t)

\* What is being burned for was confirmed, and its record says so.
BurnsMatchStages ==
    \A t \in Tx : burning[t] # "none" =>
        Exists(t) /\ info[t].stage = "PendingBurn" /\ t \in confirmed

\* The chain confirms no two transactions with a common input.
NoDoubleSpend ==
    /\ confirmed \subseteq DOMAIN body
    /\ \A t \in DOMAIN body : body[t].inputs # {}
    /\ \A t, s \in confirmed : t # s => body[t].inputs \cap body[s].inputs = {}

FamilyInv == FamilyTypes /\ ListsMatchStages /\ Families /\ BurnsMatchStages /\ NoDoubleSpend

LEMMA InitFamilyInv == Init => FamilyInv
  BY NoneAssumption DEF Init, FamilyInv, FamilyTypes, ListsMatchStages, Families, BurnsMatchStages,
        NoDoubleSpend, Exists, IsOriginal

LEMMA FeeTypes ==
    ASSUME NEW amount \in Nat, NEW withdraw_fee \in Nat
    PROVE  /\ get_fee(amount) \in Nat
           /\ ProtocolFee(withdraw_fee) \in Nat
  BY ConstantsAssumption DEF get_fee, ProtocolFee, max

\* A new transaction is not confirmed: nothing is spent twice by writing it.
LEMMA WriteNoDoubleSpend ==
    ASSUME NoDoubleSpend, confirmed' = confirmed, NEW t, t \notin DOMAIN body,
           DOMAIN body' = DOMAIN body \cup {t}, body'[t].inputs # {},
           \A x \in DOMAIN body : body'[x] = body[x]
    PROVE  NoDoubleSpend'
  <1>1. confirmed' \subseteq DOMAIN body'
    BY DEF NoDoubleSpend
  <1>2. ASSUME NEW x \in DOMAIN body'
        PROVE  body'[x].inputs # {}
    <2>1. CASE x = t
      BY <2>1
    <2>2. CASE x \in DOMAIN body
      BY <2>2 DEF NoDoubleSpend
    <2>3. QED
      BY <1>2, <2>1, <2>2
  <1>3. ASSUME NEW x \in confirmed', NEW y \in confirmed', x # y
        PROVE  body'[x].inputs \cap body'[y].inputs = {}
    <2>1. body'[x] = body[x] /\ body'[y] = body[y]
      BY <1>3 DEF NoDoubleSpend
    <2>2. body[x].inputs \cap body[y].inputs = {}
      BY <1>3 DEF NoDoubleSpend
    <2>3. QED
      BY <2>1, <2>2
  <1>4. QED
    BY <1>1, <1>2, <1>3 DEF NoDoubleSpend

LEMMA CreateOriginalFamilyInv ==
    ASSUME FamilyInv, NEW t \in Tx, NEW kind \in {"withdraw", "manage"}, NEW a \in Account,
           NEW amount \in Nat, NEW withdraw_fee \in Nat, NEW inputs, NEW gas_fee \in Nat,
           NEW burn_amount \in Nat,
           CreateOriginal(t, kind, a, amount, withdraw_fee, inputs, gas_fee, burn_amount)
    PROVE  FamilyInv'
  <1> USE DEF FamilyInv
  <1>1. /\ info[t] = None
        /\ burning[t] = "none"
        /\ burning' = burning
        /\ rbf_txs' = rbf_txs /\ verify_list' = verify_list /\ confirmed' = confirmed
        /\ inputs # {} /\ t \notin DOMAIN body
    BY DEF chain, CreateOriginal, Families, InFamily, Fresh, Exists, BurnsMatchStages, calls
  <1>2. PICK r \in Info :
            /\ r.role = "original" /\ r.original_tx_id = t /\ r.account_id = a
            /\ r.stage = "PendingSign"
            /\ info' = [info EXCEPT ![t] = r]
    BY DEF CreateOriginal, Info, Stage
  <1>3. /\ sign_ids' = [sign_ids EXCEPT ![a] = @ \cup {t}]
        /\ DOMAIN body' = DOMAIN body \cup {t}
        /\ body'[t].inputs = inputs
        /\ \A x \in DOMAIN body : x # t => body'[x] = body[x]
    BY DEF CreateOriginal, Write
  <1>4. FamilyTypes'
    BY <1>1, <1>2, <1>3 DEF FamilyTypes
  <1>5. r # None /\ info'[t] = r /\ \A x \in Tx : x # t => info'[x] = info[x]
    BY <1>2, NoneAssumption DEF FamilyTypes
  <1>6. Families'
    <2> SUFFICES ASSUME NEW x \in Tx, Exists(x)' PROVE InFamily(x)'
      BY DEF Families
    <2>1. CASE x = t
      BY <2>1, <1>2, <1>3, <1>5 DEF InFamily
    <2>2. CASE x # t
      <3>1. info'[x] = info[x] /\ Exists(x) /\ InFamily(x)
        BY <2>2, <1>5 DEF Exists, Families
      <3>2. info[x].original_tx_id # t
        BY <3>1 DEF CreateOriginal, Fresh, InFamily
      <3>3. body'[x] = body[x] /\ body'[info[x].original_tx_id] = body[info[x].original_tx_id]
        BY <2>2, <3>1, <3>2, <1>3 DEF InFamily
      <3>4. QED
        BY <3>1, <3>2, <3>3, <1>3, <1>5 DEF InFamily, Exists
    <2>3. QED
      BY <2>1, <2>2
  <1>7. BurnsMatchStages'
    BY <1>1, <1>5 DEF BurnsMatchStages, Exists
  <1>8. ASSUME NEW x \in Tx, NEW b \in Account
        PROVE  /\ (x \in sign_ids[b] <=>
                    Exists(x) /\ info[x].account_id = b /\ info[x].stage = "PendingSign")'
               /\ (x \in verify_list[b] <=>
                    IsOriginal(x) /\ info[x].account_id = b /\ info[x].stage # "PendingSign")'
    BY <1>1, <1>2, <1>3, <1>5 DEF ListsMatchStages, FamilyTypes, Exists, IsOriginal
  <1>9. ASSUME NEW x \in Tx, NEW y \in Tx
        PROVE  (y \in rbf_txs[x] <=>
                    Exists(x) /\ Exists(y) /\ info[y].role # "original"
                        /\ info[y].original_tx_id = x)'
    BY <1>1, <1>2, <1>5
    DEF ListsMatchStages, Families, InFamily, Exists, Info, CreateOriginal, Fresh
  <1>12. \A x \in DOMAIN body : body'[x] = body[x]
    BY <1>1, <1>3
  <1>10. NoDoubleSpend'
    BY <1>1, <1>3, <1>12, WriteNoDoubleSpend
  <1>11. QED
    BY <1>4, <1>6, <1>7, <1>8, <1>9, <1>10 DEF ListsMatchStages

\* FamilyInv, from its parts.
LEMMA FamilyInvParts ==
    ASSUME FamilyTypes',
           \A x \in Tx : Exists(x)' => InFamily(x)',
           BurnsMatchStages', NoDoubleSpend',
           \A x \in Tx, b \in Account :
             /\ (x \in sign_ids[b] <=>
                    Exists(x) /\ info[x].account_id = b /\ info[x].stage = "PendingSign")'
             /\ (x \in verify_list[b] <=>
                    IsOriginal(x) /\ info[x].account_id = b /\ info[x].stage # "PendingSign")',
           \A x \in Tx, y \in Tx :
             (y \in rbf_txs[x] <=>
                Exists(x) /\ Exists(y) /\ info[y].role # "original" /\ info[y].original_tx_id = x)'
    PROVE  FamilyInv'
  BY DEF FamilyInv, Families, ListsMatchStages

LEMMA CreateReplacementFamilyInv ==
    ASSUME FamilyInv, NEW t \in Tx, NEW o \in Tx, NEW role \in {"rbf", "cancel"},
           NEW kind \in {"withdraw", "manage"}, Replaceable(o, kind),
           NEW cost \in Nat, NEW burn_amount \in Nat, NEW max_gas_fee \in Nat,
           NEW cancel_rbf_reserved \in Nat \cup {None},
           CreateReplacement(t, o, role, cost, burn_amount, max_gas_fee, cancel_rbf_reserved)
    PROVE  FamilyInv'
  <1> USE DEF FamilyInv
  <1>1. /\ info[t] = None
        /\ t # o
        /\ t \notin DOMAIN body
        /\ o \in DOMAIN body
        /\ burning[t] = "none"
        /\ burning' = burning
        /\ verify_list' = verify_list
        /\ info[o] \in Info
        /\ info[o].role = "original"
        /\ info[o].stage = "PendingVerify"
        /\ confirmed' = confirmed
    BY DEF chain, CreateReplacement, Replaceable, IsOriginal, Families, InFamily, Fresh, Exists,
           BurnsMatchStages, FamilyTypes, calls
  <1>2. PICK r \in Info :
            /\ r.role # "original" /\ r.original_tx_id = o
            /\ r.account_id = info[o].account_id /\ r.stage = "PendingSign"
            /\ info'[t] = r
    <2> DEFINE r == [info[o] EXCEPT !.role = role, !.original_tx_id = o,
                                    !.burn_amount = burn_amount, !.signatures = {},
                                    !.stage = "PendingSign", !.max_gas_fee = 0,
                                    !.cancel_rbf_reserved = None]
    <2>1. info'[t] = r
      BY <1>1 DEF CreateReplacement, FamilyTypes
    <2>2. r \in Info
      BY <1>1 DEF Info, Stage
    <2>3. /\ r.role # "original" /\ r.original_tx_id = o
          /\ r.account_id = info[o].account_id /\ r.stage = "PendingSign"
      BY <1>1 DEF Info
    <2> HIDE DEF r
    <2>4. QED
      BY <2>1, <2>2, <2>3
  <1>3. PICK q \in Info :
            /\ q.role = "original" /\ q.original_tx_id = info[o].original_tx_id
            /\ q.account_id = info[o].account_id /\ q.stage = "PendingVerify"
            /\ info'[o] = q
    BY <1>1 DEF CreateReplacement, Info, FamilyTypes
  <1>4. \A x \in Tx : x # t /\ x # o => info'[x] = info[x]
    BY DEF CreateReplacement, FamilyTypes
  <1>5. /\ sign_ids' = [sign_ids EXCEPT ![info[o].account_id] = @ \cup {t}]
        /\ rbf_txs' = [rbf_txs EXCEPT ![o] = @ \cup {t}]
        /\ DOMAIN body' = DOMAIN body \cup {t}
        /\ body'[t] = [body[o] EXCEPT !.change = body[o].value - cost]
        /\ \A x \in DOMAIN body : x # t => body'[x] = body[x]
    BY DEF CreateReplacement, Write
  <1>13. body'[t].inputs = body[o].inputs
    BY <1>5
  <1>6. FamilyTypes'
    <2>1. info' \in [Tx -> Info \cup {None}]
      <3>1. \A x \in Tx : info'[x] \in Info \cup {None}
        BY <1>2, <1>3, <1>4 DEF FamilyTypes
      <3>2. DOMAIN info' = Tx /\ info' = [x \in DOMAIN info' |-> info'[x]]
        BY DEF CreateReplacement, FamilyTypes
      <3>3. QED
        BY <3>1, <3>2
    <2>2. QED
      BY <2>1, <1>1, <1>5 DEF FamilyTypes
  <1>7. r # None /\ q # None /\ info[o] # None
    BY <1>1, NoneAssumption
  <1>8. ASSUME NEW x \in Tx, Exists(x)'
        PROVE  InFamily(x)'
    <2>1. CASE x = t
      BY <2>1, <1>1, <1>2, <1>3, <1>5, <1>13 DEF InFamily
    <2>2. CASE x = o
      BY <2>2, <1>1, <1>3, <1>5, <1>7 DEF InFamily, Families, Exists
    <2>3. CASE x # t /\ x # o
      <3>1. info'[x] = info[x] /\ Exists(x) /\ InFamily(x)
        BY <2>3, <1>4, <1>8 DEF Exists, Families
      <3>2. info[x].original_tx_id # t
        BY <3>1, <1>1 DEF InFamily
      <3>3. ASSUME NEW p \in Tx, p = info[x].original_tx_id, Exists(p)',
                   info[x].role # "original"
            PROVE  /\ info'[p].role = "original"
                   /\ info'[p].account_id = info[x].account_id
                   /\ info'[p].stage # "PendingSign"
        BY <3>1, <3>2, <3>3, <1>1, <1>3, <1>4, <1>7 DEF InFamily, Exists
      <3>4. body'[x] = body[x] /\ body'[info[x].original_tx_id] = body[info[x].original_tx_id]
        BY <2>3, <3>1, <3>2, <1>5 DEF InFamily
      <3>5. QED
        BY <3>1, <3>3, <3>4, <1>5 DEF InFamily
    <2>4. QED
      BY <2>1, <2>2, <2>3
  <1>9. BurnsMatchStages'
    BY <1>1, <1>3, <1>4, <1>7 DEF BurnsMatchStages, Exists
  <1>10. ASSUME NEW x \in Tx, NEW b \in Account
         PROVE  /\ (x \in sign_ids[b] <=>
                     Exists(x) /\ info[x].account_id = b /\ info[x].stage = "PendingSign")'
                /\ (x \in verify_list[b] <=>
                     IsOriginal(x) /\ info[x].account_id = b /\ info[x].stage # "PendingSign")'
    BY <1>1, <1>2, <1>3, <1>4, <1>5, <1>7 DEF ListsMatchStages, FamilyTypes, Exists, IsOriginal
  <1>11. ASSUME NEW x \in Tx, NEW y \in Tx
         PROVE  (y \in rbf_txs[x] <=>
                    Exists(x) /\ Exists(y) /\ info[y].role # "original"
                        /\ info[y].original_tx_id = x)'
    <2>1. y \in rbf_txs[x] <=>
            Exists(x) /\ Exists(y) /\ info[y].role # "original" /\ info[y].original_tx_id = x
      BY DEF ListsMatchStages
    <2>2. ~(t \in DOMAIN body) /\ (Exists(y) => info[y].original_tx_id # t)
      BY <1>1 DEF Families, InFamily
    <2>3. QED
      BY <2>1, <2>2, <1>1, <1>2, <1>3, <1>4, <1>5, <1>7 DEF Exists, FamilyTypes
  <1>15. /\ body'[t].inputs # {}
         /\ \A x \in DOMAIN body : body'[x] = body[x]
    BY <1>1, <1>5, <1>13 DEF NoDoubleSpend
  <1>12. NoDoubleSpend'
    BY <1>1, <1>5, <1>15, WriteNoDoubleSpend
  <1>14. QED
    BY <1>6, <1>8, <1>9, <1>10, <1>11, <1>12, FamilyInvParts

\* Forgetting a replacement whose family is settled.
LEMMA ForgetFamilyInv ==
    ASSUME FamilyInv, NEW t \in Tx, Exists(t), info[t].role # "original",
           info[t].stage # "PendingBurn", t \notin rbf_txs[info[t].original_tx_id], Forget(t)
    PROVE  FamilyInv'
  <1> USE DEF FamilyInv
  <1>1. /\ info' = [info EXCEPT ![t] = None]
        /\ sign_ids' = [sign_ids EXCEPT ![info[t].account_id] = @ \ {t}]
        /\ verify_list' = verify_list /\ rbf_txs' = rbf_txs
        /\ body' = body /\ burning' = burning /\ confirmed' = confirmed
    BY DEF Forget, calls, chain
  <1>2. info'[t] = None /\ \A x \in Tx : x # t => info'[x] = info[x]
    BY <1>1 DEF FamilyTypes
  <1>3. FamilyTypes'
    BY <1>1 DEF FamilyTypes, Exists
  <1>4. ASSUME NEW x \in Tx, Exists(x)'
        PROVE  InFamily(x)'
    <2>1. info'[x] = info[x] /\ Exists(x) /\ InFamily(x)
      BY <1>2, <1>4 DEF Exists, Families
    <2>2. QED
      BY <2>1, <1>1, <1>2 DEF InFamily, Exists
  <1>5. BurnsMatchStages'
    BY <1>1, <1>2 DEF BurnsMatchStages, Exists
  <1>6. ASSUME NEW x \in Tx, NEW b \in Account
        PROVE  /\ (x \in sign_ids[b] <=>
                    Exists(x) /\ info[x].account_id = b /\ info[x].stage = "PendingSign")'
               /\ (x \in verify_list[b] <=>
                    IsOriginal(x) /\ info[x].account_id = b /\ info[x].stage # "PendingSign")'
    BY <1>1, <1>2 DEF ListsMatchStages, FamilyTypes, Exists, IsOriginal
  <1>7. ASSUME NEW x \in Tx, NEW y \in Tx
        PROVE  (y \in rbf_txs[x] <=>
                    Exists(x) /\ Exists(y) /\ info[y].role # "original"
                        /\ info[y].original_tx_id = x)'
    <2>1. y \in rbf_txs[x] <=>
            Exists(x) /\ Exists(y) /\ info[y].role # "original" /\ info[y].original_tx_id = x
      BY DEF ListsMatchStages
    <2>2. x = t => ~(Exists(y) /\ info[y].role # "original" /\ info[y].original_tx_id = x)
      BY DEF Families, InFamily
    <2>3. QED
      BY <2>1, <2>2, <1>1, <1>2 DEF Exists
  <1>8. NoDoubleSpend'
    BY <1>1 DEF NoDoubleSpend
  <1>9. QED
    BY <1>3, <1>4, <1>5, <1>6, <1>7, <1>8, FamilyInvParts
\* A record changes its stage, and the lists change with it.
LEMMA StageFamilyInv ==
    ASSUME FamilyInv, NEW t \in Tx, Exists(t), NEW r \in Info, info' = [info EXCEPT ![t] = r],
           r.role = info[t].role, r.original_tx_id = info[t].original_tx_id,
           r.account_id = info[t].account_id,
           info[t].stage # "PendingSign" => r.stage # "PendingSign",
           NEW b \in {"none", "called", "burned"}, burning' = [burning EXCEPT ![t] = b],
           b # "none" => r.stage = "PendingBurn" /\ t \in confirmed,
           rbf_txs' = rbf_txs, body' = body, confirmed' = confirmed,
           sign_ids' \in [Account -> SUBSET Tx], verify_list' \in [Account -> SUBSET Tx],
           \A x \in Tx, a \in Account :
             /\ x \in sign_ids'[a] <=> IF x = t /\ a = r.account_id THEN r.stage = "PendingSign"
                                                                  ELSE x \in sign_ids[a]
             /\ x \in verify_list'[a] <=> IF x = t /\ a = r.account_id /\ r.stage # "PendingSign"
                                          THEN r.role = "original" ELSE x \in verify_list[a]
    PROVE  FamilyInv'
  <1> USE DEF FamilyInv
  <1>1. r # None /\ info'[t] = r /\ \A x \in Tx : x # t => info'[x] = info[x]
    BY NoneAssumption DEF FamilyTypes
  <1>2. \A x \in Tx : Exists(x)' <=> Exists(x)
    BY <1>1 DEF Exists
  <1>3. FamilyTypes'
    BY DEF FamilyTypes
  <1>4. ASSUME NEW x \in Tx, Exists(x)'
        PROVE  InFamily(x)'
    <2>1. Exists(x) /\ InFamily(x)
      BY <1>2, <1>4 DEF Families
    <2>2. /\ info'[x].role = info[x].role
          /\ info'[x].original_tx_id = info[x].original_tx_id
          /\ info'[x].account_id = info[x].account_id
      BY <1>1
    <2>3. ASSUME NEW o \in Tx, o = info[x].original_tx_id, Exists(o), info[x].role # "original"
          PROVE  /\ info'[o].role = "original"
                 /\ info'[o].account_id = info[x].account_id
                 /\ info'[o].stage # "PendingSign"
      BY <2>1, <2>3, <1>1 DEF InFamily
    <2>4. QED
      BY <2>1, <2>2, <2>3, <1>2 DEF InFamily
  <1>5. BurnsMatchStages'
    BY <1>1, <1>2 DEF BurnsMatchStages, FamilyTypes
  <1>6. ASSUME NEW x \in Tx, NEW a \in Account
        PROVE  /\ (x \in sign_ids[a] <=>
                    Exists(x) /\ info[x].account_id = a /\ info[x].stage = "PendingSign")'
               /\ (x \in verify_list[a] <=>
                    IsOriginal(x) /\ info[x].account_id = a /\ info[x].stage # "PendingSign")'
    BY <1>1, <1>2 DEF ListsMatchStages, IsOriginal
  <1>7. ASSUME NEW x \in Tx, NEW y \in Tx
        PROVE  (y \in rbf_txs[x] <=>
                    Exists(x) /\ Exists(y) /\ info[y].role # "original"
                        /\ info[y].original_tx_id = x)'
    BY <1>1, <1>2 DEF ListsMatchStages
  <1>8. NoDoubleSpend'
    BY DEF NoDoubleSpend
  <1>9. QED
    BY <1>3, <1>4, <1>5, <1>6, <1>7, <1>8, FamilyInvParts
LEMMA SignFamilyInv ==
    ASSUME FamilyInv, NEW t \in Tx, NEW u \in Utxo, SignBtcTransactionCallback(t, u)
    PROVE  FamilyInv'
  <1> USE DEF FamilyInv
  <1> DEFINE all_signed == body[t].inputs \subseteq info[t].signatures \cup {u}
             a == info[t].account_id
             r == [info[t] EXCEPT !.signatures = @ \cup {u},
                                  !.stage = IF all_signed THEN "PendingVerify" ELSE @]
  <1>1. Exists(t) /\ info[t] \in Info /\ (all_signed => t \in sign_ids[a])
    BY DEF SignBtcTransactionCallback, FamilyTypes, Exists
  <1>2. /\ r \in Info
        /\ r.role = info[t].role /\ r.original_tx_id = info[t].original_tx_id
        /\ r.account_id = info[t].account_id
        /\ r.stage = IF all_signed THEN "PendingVerify" ELSE info[t].stage
    BY <1>1 DEF Info, Stage
  <1>3. info' = [info EXCEPT ![t] = r]
    BY <1>1 DEF SignBtcTransactionCallback, FamilyTypes
  <1>4. burning[t] = "none" \/ info[t].stage = "PendingBurn"
    BY DEF BurnsMatchStages
  <1>5. all_signed => info[t].stage = "PendingSign"
    BY <1>1 DEF ListsMatchStages, Info
  <1>6. /\ sign_ids' = [sign_ids EXCEPT ![a] = IF all_signed THEN @ \ {t} ELSE @]
        /\ verify_list' = [verify_list EXCEPT ![a] =
                            IF all_signed /\ IsOriginal(t) THEN @ \cup {t} ELSE @]
        /\ rbf_txs' = rbf_txs /\ body' = body /\ confirmed' = confirmed /\ burning' = burning
    BY DEF SignBtcTransactionCallback, chain
  <1>7. a \in Account
    BY <1>1 DEF Info
  <1>8. burning' = [burning EXCEPT ![t] = burning[t]] /\ burning[t] \in {"none", "called", "burned"}
    BY <1>6 DEF FamilyTypes
  <1>9. burning[t] # "none" => r.stage = "PendingBurn" /\ t \in confirmed
    BY <1>2, <1>4, <1>5 DEF BurnsMatchStages
  <1>10. /\ sign_ids' \in [Account -> SUBSET Tx]
         /\ verify_list' \in [Account -> SUBSET Tx]
    BY <1>6, <1>7 DEF FamilyTypes
  <1>11. ASSUME NEW x \in Tx, NEW c \in Account
         PROVE  /\ x \in sign_ids'[c] <=>
                    IF x = t /\ c = r.account_id THEN r.stage = "PendingSign"
                                                 ELSE x \in sign_ids[c]
                /\ x \in verify_list'[c] <=>
                    IF x = t /\ c = r.account_id /\ r.stage # "PendingSign"
                    THEN r.role = "original" ELSE x \in verify_list[c]
    <2>1. CASE x = t /\ c = a
      <3>1. /\ t \in sign_ids[a] <=> info[t].stage = "PendingSign"
            /\ t \in verify_list[a] <=> info[t].role = "original" /\ info[t].stage # "PendingSign"
        BY <1>1, <1>7 DEF ListsMatchStages, IsOriginal
      <3> HIDE DEF r
      <3>2. QED
        BY <2>1, <3>1, <1>1, <1>2, <1>5, <1>6, <1>7 DEF FamilyTypes, IsOriginal
    <2>2. CASE ~(x = t /\ c = a)
      <3>1. /\ x \in sign_ids'[c] <=> x \in sign_ids[c]
            /\ x \in verify_list'[c] <=> x \in verify_list[c]
        BY <2>2, <1>6, <1>7 DEF FamilyTypes
      <3> HIDE DEF r
      <3>2. QED
        BY <2>2, <3>1, <1>2
    <2>3. QED
      BY <2>1, <2>2
  <1> HIDE DEF r
  <1>12. PICK b \in {"none", "called", "burned"} :
            /\ burning' = [burning EXCEPT ![t] = b]
            /\ b # "none" => r.stage = "PendingBurn" /\ t \in confirmed
    BY <1>8, <1>9
  <1>13. info[t].stage # "PendingSign" => r.stage # "PendingSign"
    BY <1>2
  <1>14. rbf_txs' = rbf_txs /\ body' = body /\ confirmed' = confirmed
    BY <1>6
  <1>15. /\ r \in Info
         /\ r.role = info[t].role /\ r.original_tx_id = info[t].original_tx_id
         /\ r.account_id = info[t].account_id
    BY <1>2
  <1>16. Exists(t)
    BY <1>1
  <1> HIDE DEF all_signed, a
  <1>17. QED
    BY <1>3, <1>10, <1>11, <1>12, <1>13, <1>14, <1>15, <1>16, StageFamilyInv

\* A proof is accepted, or the burn after it failed.
LEMMA VerifyFamilyInv ==
    ASSUME FamilyInv, NEW t \in Tx, VerifyWithdrawCallback(t) \/ BurnFails(t)
    PROVE  FamilyInv'
  <1> USE DEF FamilyInv
  <1>1. PICK stage \in {"PendingVerify", "PendingBurn"}, b \in {"none", "called"} :
            /\ info' = [info EXCEPT ![t].stage = stage]
            /\ burning' = [burning EXCEPT ![t] = b]
            /\ b # "none" => stage = "PendingBurn" /\ t \in confirmed
    BY DEF VerifyWithdrawCallback, BurnFails, Included
  <1>2. /\ Exists(t) /\ info[t] \in Info
        /\ info[t].stage # "PendingSign"
        /\ sign_ids' = sign_ids /\ verify_list' = verify_list
        /\ rbf_txs' = rbf_txs /\ body' = body /\ confirmed' = confirmed
    BY DEF VerifyWithdrawCallback, BurnFails, AwaitsProof, Exists, FamilyTypes, chain,
           BurnsMatchStages
  <1>3. PICK r \in Info :
            /\ r.role = info[t].role /\ r.original_tx_id = info[t].original_tx_id
            /\ r.account_id = info[t].account_id /\ r.stage = stage
            /\ info' = [info EXCEPT ![t] = r]
    <2> DEFINE r == [info[t] EXCEPT !.stage = stage]
    <2>1. info' = [info EXCEPT ![t] = r]
      BY <1>1 DEF FamilyTypes
    <2>2. r \in Info
      BY <1>2 DEF Info, Stage
    <2>3. /\ r.role = info[t].role /\ r.original_tx_id = info[t].original_tx_id
          /\ r.account_id = info[t].account_id /\ r.stage = stage
      BY <1>2 DEF Info
    <2> HIDE DEF r
    <2>4. QED
      BY <2>1, <2>2, <2>3
  <1>4. \A x \in Tx, c \in Account :
            /\ x \in sign_ids'[c] <=>
                IF x = t /\ c = r.account_id THEN r.stage = "PendingSign" ELSE x \in sign_ids[c]
            /\ x \in verify_list'[c] <=>
                IF x = t /\ c = r.account_id /\ r.stage # "PendingSign"
                THEN r.role = "original" ELSE x \in verify_list[c]
    BY <1>2, <1>3 DEF ListsMatchStages, IsOriginal
  <1>5. sign_ids' \in [Account -> SUBSET Tx] /\ verify_list' \in [Account -> SUBSET Tx]
    BY <1>2 DEF FamilyTypes
  <1>6. r.stage # "PendingSign"
    BY <1>3
  <1>7. /\ b \in {"none", "called", "burned"}
        /\ burning' = [burning EXCEPT ![t] = b]
        /\ b # "none" => r.stage = "PendingBurn" /\ t \in confirmed
    BY <1>1, <1>3
  <1>8. /\ FamilyInv /\ Exists(t)
        /\ rbf_txs' = rbf_txs /\ body' = body /\ confirmed' = confirmed
    BY <1>2
  <1> HIDE DEF FamilyInv
  <1>9. QED
    BY <1>3, <1>4, <1>5, <1>6, <1>7, <1>8, StageFamilyInv

\* The burn is settled: the confirmed transaction and its original are gone, and no
\* other transaction of the family can be in its burn.
LEMMA SettleFamilyInv ==
    ASSUME FamilyInv, NEW t \in Tx, VerifyWithdrawBurnCallback(t)
    PROVE  FamilyInv'
  <1> USE DEF FamilyInv
  <1> DEFINE o == info[t].original_tx_id
             a == info[t].account_id
  <1>1. /\ Exists(t) /\ Exists(o) /\ InFamily(t) /\ info[t] \in Info
        /\ t \in confirmed /\ info[t].stage = "PendingBurn" /\ o \in Tx /\ a \in Account
    BY DEF VerifyWithdrawBurnCallback, Settleable, BurnsMatchStages, Families, FamilyTypes,
           Exists, Info
  <1>2. /\ info' = [info EXCEPT ![t] = None, ![o] = None]
        /\ rbf_txs' = [rbf_txs EXCEPT ![o] = {}]
        /\ verify_list' = [verify_list EXCEPT ![a] = @ \ {o}]
        /\ burning' = [burning EXCEPT ![t] = "none"]
        /\ sign_ids' = sign_ids /\ body' = body /\ confirmed' = confirmed
    BY DEF VerifyWithdrawBurnCallback, DropRbfTxs, chain
  <1>3. /\ info'[t] = None /\ info'[o] = None
        /\ \A x \in Tx : x # t /\ x # o => info'[x] = info[x]
    BY <1>1, <1>2 DEF FamilyTypes
  <1>4. /\ info[o].role = "original" /\ info[o].account_id = a
        /\ info[o].stage # "PendingSign" /\ IsOriginal(o)
        /\ info[o].original_tx_id = o
        /\ (o # t => info[t].role # "original")
    <2>1. CASE info[t].role = "original"
      BY <2>1, <1>1 DEF InFamily, IsOriginal
    <2>2. CASE info[t].role # "original"
      BY <2>2, <1>1 DEF InFamily, IsOriginal, Families
    <2>3. QED
      BY <2>1, <2>2
  <1>5. o # t => burning[o] = "none"
    <2> SUFFICES ASSUME o # t, burning[o] # "none" PROVE FALSE
      OBVIOUS
    <2>1. o \in confirmed
      BY <1>1 DEF BurnsMatchStages
    <2>2. body[o].inputs = body[t].inputs /\ body[t].inputs # {}
      BY <1>1 DEF InFamily, NoDoubleSpend
    <2>3. QED
      BY <2>1, <2>2, <1>1 DEF NoDoubleSpend
  <1> HIDE DEF o, a
  <1>6. FamilyTypes'
    BY <1>1, <1>2 DEF FamilyTypes
  <1>7. ASSUME NEW x \in Tx, Exists(x)'
        PROVE  InFamily(x)'
    <2>1. x # t /\ x # o /\ info'[x] = info[x] /\ Exists(x) /\ InFamily(x)
      BY <1>3, <1>7 DEF Exists, Families
    <2>2. QED
      BY <2>1, <1>2, <1>3 DEF InFamily, Exists
  <1>8. BurnsMatchStages'
    BY <1>1, <1>2, <1>3, <1>5 DEF BurnsMatchStages, Exists, FamilyTypes
  <1>9. ASSUME NEW x \in Tx, NEW b \in Account
        PROVE  /\ (x \in sign_ids[b] <=>
                    Exists(x) /\ info[x].account_id = b /\ info[x].stage = "PendingSign")'
               /\ (x \in verify_list[b] <=>
                    IsOriginal(x) /\ info[x].account_id = b /\ info[x].stage # "PendingSign")'
    <2>1. /\ x \in sign_ids[b] <=>
                Exists(x) /\ info[x].account_id = b /\ info[x].stage = "PendingSign"
          /\ x \in verify_list[b] <=>
                IsOriginal(x) /\ info[x].account_id = b /\ info[x].stage # "PendingSign"
      BY DEF ListsMatchStages
    <2>2. IsOriginal(t) => t = o
      BY <1>4 DEF IsOriginal
    <2>3. x \in verify_list'[b] <=> x \in verify_list[b] /\ ~(b = a /\ x = o)
      BY <1>1, <1>2 DEF FamilyTypes
    <2>4. QED
      BY <2>1, <2>2, <2>3, <1>1, <1>2, <1>3, <1>4 DEF Exists, IsOriginal
  <1>10. ASSUME NEW x \in Tx, NEW y \in Tx
         PROVE  (y \in rbf_txs[x] <=>
                    Exists(x) /\ Exists(y) /\ info[y].role # "original"
                        /\ info[y].original_tx_id = x)'
    <2>1. y \in rbf_txs[x] <=>
            Exists(x) /\ Exists(y) /\ info[y].role # "original" /\ info[y].original_tx_id = x
      BY DEF ListsMatchStages
    <2>2. rbf_txs'[x] = IF x = o THEN {} ELSE rbf_txs[x]
      BY <1>2 DEF FamilyTypes
    <2>3. (t # o => \A z \in Tx : ~(Exists(z) /\ info[z].role # "original"
                                      /\ info[z].original_tx_id = t))
          /\ info[t].original_tx_id = o
      BY <1>4, <1>1 DEF Families, InFamily, o
    <2>4. QED
      BY <2>1, <2>2, <2>3, <1>1, <1>3, <1>4 DEF Exists
  <1>11. NoDoubleSpend'
    BY <1>2 DEF NoDoubleSpend
  <1>12. QED
    BY <1>6, <1>7, <1>8, <1>9, <1>10, <1>11, FamilyInvParts
LEMMA ConfirmFamilyInv ==
    ASSUME FamilyInv, NEW t \in Tx, Confirm(t)
    PROVE  FamilyInv'
  <1> USE DEF FamilyInv
  <1>1. /\ info' = info /\ sign_ids' = sign_ids /\ verify_list' = verify_list
        /\ rbf_txs' = rbf_txs /\ body' = body /\ burning' = burning
        /\ confirmed' = confirmed \cup {t} /\ t \in DOMAIN body
        /\ \A other \in confirmed : body[t].inputs \cap body[other].inputs = {}
    BY DEF Confirm, contract, calls, Fresh
  <1>2. FamilyTypes' /\ ListsMatchStages' /\ Families'
    BY <1>1 DEF FamilyTypes, ListsMatchStages, Families, InFamily, Exists, IsOriginal
  <1>3. BurnsMatchStages'
    BY <1>1 DEF BurnsMatchStages, Exists
  <1>4. NoDoubleSpend'
    BY <1>1 DEF NoDoubleSpend
  <1>5. QED
    BY <1>2, <1>3, <1>4

\* A burn goes on, without a record being touched.
LEMMA BurnFamilyInv ==
    ASSUME FamilyInv, NEW t \in Tx, NbtcBurn(t)
    PROVE  FamilyInv'
  <1> USE DEF FamilyInv
  <1>1. /\ info' = info /\ sign_ids' = sign_ids /\ verify_list' = verify_list
        /\ rbf_txs' = rbf_txs /\ body' = body /\ confirmed' = confirmed
        /\ burning[t] = "called" /\ burning' = [burning EXCEPT ![t] = "burned"]
    BY DEF NbtcBurn, contract, chain
  <1>2. FamilyTypes' /\ ListsMatchStages' /\ Families'
    BY <1>1 DEF FamilyTypes, ListsMatchStages, Families, InFamily, Exists, IsOriginal
  <1>3. BurnsMatchStages'
    BY <1>1 DEF BurnsMatchStages, Exists, FamilyTypes
  <1>4. NoDoubleSpend'
    BY <1>1 DEF NoDoubleSpend
  <1>5. QED
    BY <1>2, <1>3, <1>4

families == <<info, sign_ids, verify_list, rbf_txs, body, burning, confirmed>>

LEMMA StutterFamilyInv ==
    ASSUME FamilyInv, UNCHANGED families
    PROVE  FamilyInv'
  BY DEF families, FamilyInv, FamilyTypes, ListsMatchStages, Families, InFamily, Exists,
         IsOriginal, BurnsMatchStages, NoDoubleSpend

LEMMA CreateFamilyInv ==
    ASSUME FamilyInv, NEW t \in Tx, Create(t)
    PROVE  FamilyInv'
  <1>1. Gas \subseteq Nat /\ CancelGas \subseteq Nat /\ Amount \subseteq Nat
    BY ConstantsAssumption
  <1>2. ASSUME NEW a \in Account, NEW inputs \in SUBSET DOMAIN utxos, NEW gas_fee \in Gas,
               NEW amount \in Amount, Withdraw(t, a, amount, inputs, gas_fee)
        PROVE  FamilyInv'
    <2>1. get_fee(amount) \in Nat /\ amount - get_fee(amount) \in Nat
      <3>1. get_fee(amount) \in Nat /\ gas_fee <= amount - get_fee(amount)
        BY <1>1, <1>2, FeeTypes DEF Withdraw
      <3>2. QED
        BY <3>1, <1>1
    <2>2. CreateOriginal(t, "withdraw", a, amount, get_fee(amount), inputs, gas_fee,
                         amount - get_fee(amount))
      BY <1>2 DEF Withdraw
    <2>3. QED
      BY <2>1, <2>2, <1>1, CreateOriginalFamilyInv
  <1>3. ASSUME NEW a \in Account, NEW inputs \in SUBSET DOMAIN utxos, NEW gas_fee \in Gas,
               ActiveUtxoManagement(t, a, inputs, gas_fee)
        PROVE  FamilyInv'
    <2>1. CreateOriginal(t, "manage", a, 0, 0, inputs, gas_fee, gas_fee)
      BY <1>3 DEF ActiveUtxoManagement
    <2>2. QED
      BY <2>1, <1>1, CreateOriginalFamilyInv
  <1>4. ASSUME NEW o \in Tx, NEW kind \in {"withdraw", "manage"}, Replaceable(o, kind)
        PROVE  /\ info[o].transfer_amount \in Nat /\ info[o].withdraw_fee \in Nat
               /\ info[o].max_gas_fee \in Nat /\ PrevReserved(o) \in Nat
               /\ \A gas_fee \in Nat : ExcessGas(o, gas_fee) \in Nat
               /\ \A gas_fee \in Nat : CancelReserve(o, gas_fee) \in Nat
    <2>1. info[o] \in Info
      BY <1>4 DEF FamilyInv, FamilyTypes, Replaceable, IsOriginal, Exists
    <2>2. /\ info[o].transfer_amount \in Nat /\ info[o].withdraw_fee \in Nat
          /\ info[o].max_gas_fee \in Nat /\ PrevReserved(o) \in Nat
      BY <2>1 DEF Info, PrevReserved
    <2>3. \A gas_fee \in Nat : ExcessGas(o, gas_fee) \in Nat
      BY <2>2 DEF ExcessGas, monus
    <2>4. QED
      BY <2>2, <2>3 DEF CancelReserve, max
  <1>5. ASSUME NEW o \in Tx, NEW gas_fee \in Gas, WithdrawRbf(t, o, gas_fee)
        PROVE  FamilyInv'
    <2> DEFINE paid == info[o].transfer_amount - info[o].withdraw_fee
    <2>1. Replaceable(o, "withdraw") /\ gas_fee <= paid
          /\ CreateReplacement(t, o, "rbf", paid, paid, gas_fee, None)
      BY <1>5 DEF WithdrawRbf
    <2>2. paid \in Nat
      BY <2>1, <1>1, <1>4
    <2> HIDE DEF paid
    <2>3. QED
      BY <2>1, <2>2, <1>1, CreateReplacementFamilyInv
  <1>6. ASSUME NEW o \in Tx, NEW gas_fee \in Gas, ActiveUtxoManagementRbf(t, o, gas_fee)
        PROVE  FamilyInv'
    <2>1. /\ Replaceable(o, "manage")
          /\ CreateReplacement(t, o, "rbf", gas_fee, gas_fee, gas_fee, None)
      BY <1>6 DEF ActiveUtxoManagementRbf
    <2>2. QED
      BY <2>1, <1>1, CreateReplacementFamilyInv
  <1>7. ASSUME NEW o \in Tx, NEW gas_fee \in CancelGas, NEW caller \in Account,
               CancelWithdraw(t, o, caller, gas_fee)
        PROVE  FamilyInv'
    <2> DEFINE max_gas_fee == max(info[o].max_gas_fee, gas_fee)
    <2>1. /\ Replaceable(o, "withdraw")
          /\ CreateReplacement(t, o, "cancel", gas_fee, gas_fee, max_gas_fee,
                               CancelReserve(o, gas_fee))
      BY <1>7 DEF CancelWithdraw
    <2>2. max_gas_fee \in Nat /\ CancelReserve(o, gas_fee) \in Nat
      BY <2>1, <1>1, <1>4 DEF max
    <2> HIDE DEF max_gas_fee
    <2>3. QED
      BY <2>1, <2>2, <1>1, CreateReplacementFamilyInv
  <1>8. ASSUME NEW o \in Tx, NEW gas_fee \in CancelGas, CancelActiveUtxoManagement(t, o, gas_fee)
        PROVE  FamilyInv'
    <2>1. /\ Replaceable(o, "manage")
          /\ CreateReplacement(t, o, "cancel", gas_fee, gas_fee, gas_fee, 0)
      BY <1>8 DEF CancelActiveUtxoManagement
    <2>2. QED
      BY <2>1, <1>1, CreateReplacementFamilyInv
  <1>9. QED
    BY <1>2, <1>3, <1>5, <1>6, <1>7, <1>8 DEF Create

LEMMA SignStepFamilyInv ==
    ASSUME FamilyInv, NEW t \in Tx, SignStep(t)
    PROVE  FamilyInv'
  <1>1. CASE SignOrphan(t)
    <2>1. /\ Exists(t) /\ ~Exists(info[t].original_tx_id) /\ info[t].stage = "PendingSign"
          /\ Forget(t) /\ InFamily(t) /\ info[t] \in Info
      BY <1>1 DEF SignOrphan, Orphan, FamilyInv, Families, FamilyTypes, Exists
    <2>2. info[t].role # "original" /\ info[t].original_tx_id \in Tx
      BY <2>1 DEF InFamily, Info
    <2>3. t \notin rbf_txs[info[t].original_tx_id]
      BY <2>1, <2>2 DEF FamilyInv, ListsMatchStages
    <2>4. QED
      BY <2>1, <2>2, <2>3, ForgetFamilyInv
  <1>2. ASSUME NEW u \in Utxo, SignBtcTransactionCallback(t, u)
        PROVE  FamilyInv'
    BY <1>2, SignFamilyInv
  <1>3. ASSUME NEW u \in Utxo, SignBtcTransaction(t, u) \/ MpcSign(t, u) \/ SignFails(t, u)
        PROVE  FamilyInv'
    <2>1. UNCHANGED families
      BY <1>3 DEF SignBtcTransaction, MpcSign, SignFails, contract, chain, calls, families
    <2>2. QED
      BY <2>1, StutterFamilyInv
  <1>4. QED
    BY <1>1, <1>2, <1>3 DEF SignStep

LEMMA BurnStepFamilyInv ==
    ASSUME FamilyInv, NEW t \in Tx, BurnStep(t)
    PROVE  FamilyInv'
  <1>1. CASE VerifyWithdraw(t) \/ VerifyFails(t)
    <2>1. UNCHANGED families
      BY <1>1 DEF VerifyWithdraw, VerifyFails, contract, chain, families
    <2>2. QED
      BY <2>1, StutterFamilyInv
  <1>2. CASE VerifyWithdrawCallback(t) \/ BurnFails(t)
    BY <1>2, VerifyFamilyInv
  <1>3. CASE NbtcBurn(t)
    BY <1>3, BurnFamilyInv
  <1>4. CASE VerifyWithdrawBurnCallback(t)
    BY <1>4, SettleFamilyInv
  <1>5. QED
    BY <1>1, <1>2, <1>3, <1>4 DEF BurnStep

LEMMA ClearFamilyInv ==
    ASSUME FamilyInv, NEW t \in Tx, ClearInvalidPendingVerifyRbf(t)
    PROVE  FamilyInv'
  BY ForgetFamilyInv DEF ClearInvalidPendingVerifyRbf, Clearable

LEMMA TokenStepFamilyInv ==
    ASSUME FamilyInv, TokenStep
    PROVE  FamilyInv'
  <1>1. UNCHANGED families
    BY DEF TokenStep, TransferSucceeds, TransferFails, ClaimLostFound, WithdrawProtocolFee,
           DepositProtocolFee, contract, chain, calls, families
  <1>2. QED
    BY <1>1, StutterFamilyInv

\* Every step of the contract, the MPC, the chain and the token preserves FamilyInv.
THEOREM FamilyInductive == Spec => []FamilyInv
  <1>1. FamilyInv /\ [Next]_vars => FamilyInv'
    <2> SUFFICES ASSUME FamilyInv, [Next]_vars PROVE FamilyInv'
      OBVIOUS
    <2>1. CASE UNCHANGED vars
      <3>1. UNCHANGED families
        BY <2>1 DEF vars, contract, chain, calls, families
      <3>2. QED
        BY <3>1, StutterFamilyInv
    <2>2. CASE Next
      BY <2>2, CreateFamilyInv, SignStepFamilyInv, ConfirmFamilyInv, BurnStepFamilyInv,
         ClearFamilyInv, TokenStepFamilyInv DEF Next
    <2>3. QED
      BY <2>1, <2>2
  <1>2. QED
    BY InitFamilyInv, <1>1, PTL DEF Spec

\* btc_pending_sign_ids, btc_pending_verify_list and rbf_txs say of every account and
\* every family what the stages of the records say, whatever races with the settlement.
THEOREM ListsFollowStages == Spec => []ListsMatchStages
  <1>1. FamilyInv => ListsMatchStages
    BY DEF FamilyInv
  <1>2. QED
    BY FamilyInductive, <1>1, PTL

\* A family is settled once: as its transactions share their inputs, no two of them
\* are in their burns, and the one that is was confirmed and waits for its callback.
BurnsAreExclusive ==
    \A t, s \in Tx :
        burning[t] # "none" /\ burning[s] # "none"
            /\ info[t].original_tx_id = info[s].original_tx_id => t = s

THEOREM NoFamilyBurnsTwice == Spec => []BurnsAreExclusive
  <1>1. FamilyInv => BurnsAreExclusive
    <2> SUFFICES ASSUME FamilyInv, NEW t \in Tx, NEW s \in Tx, t # s,
                        burning[t] # "none", burning[s] # "none",
                        info[t].original_tx_id = info[s].original_tx_id
                 PROVE  FALSE
      BY DEF BurnsAreExclusive
    <2>1. /\ t \in confirmed /\ s \in confirmed /\ InFamily(t) /\ InFamily(s)
      BY DEF FamilyInv, BurnsMatchStages, Families
    <2>2. body[t].inputs = body[s].inputs /\ body[t].inputs # {}
      BY <2>1 DEF InFamily, FamilyInv, NoDoubleSpend
    <2>3. body[t].inputs \cap body[s].inputs = {}
      BY <2>1 DEF FamilyInv, NoDoubleSpend
    <2>4. QED
      BY <2>2, <2>3
  <1>2. QED
    BY FamilyInductive, <1>1, PTL
-----------------------------------------------------------------------------
(* The ledger of the protocol fee.                                         *)

Fee == [acc_collected : Nat, cur_available : Nat, cur_reserved : Nat, acc_for_gas : Nat,
        acc_claimed : Int]

LedgerInv ==
    /\ fee \in Fee
    /\ lost_found \in [Account -> Nat]
    /\ \A t \in BagToSet(transfers) : t.to \in Account /\ t.amount \in Nat
    /\ LedgerBalances

LEMMA InitLedgerInv == Init => LedgerInv
  BY DEF Init, LedgerInv, Fee, LedgerBalances, BagToSet, EmptyBag, SetToBag

\* Adding a transfer to the bag, or taking one out, brings in no other.
LEMMA TransfersInBag ==
    ASSUME NEW bag, NEW t
    PROVE  /\ BagToSet(bag (+) SetToBag({t})) \subseteq BagToSet(bag) \cup {t}
           /\ BagToSet(bag (-) SetToBag({t})) \subseteq BagToSet(bag)
  BY DEF (+), (-), BagToSet, SetToBag

\* One step of the ledger, to fields that still balance.
LEMMA LedgerStep ==
    ASSUME NEW collected \in Nat, NEW available \in Nat, NEW reserved \in Nat,
           NEW for_gas \in Nat, NEW claimed \in Int,
           collected = available + reserved + for_gas + claimed,
           fee' = [acc_collected |-> collected, cur_available |-> available,
                   cur_reserved |-> reserved, acc_for_gas |-> for_gas, acc_claimed |-> claimed]
    PROVE  fee' \in Fee /\ LedgerBalances'
  BY DEF Fee, LedgerBalances

LEMMA FeeFields ==
    ASSUME LedgerInv
    PROVE  /\ fee.acc_collected \in Nat /\ fee.cur_available \in Nat /\ fee.cur_reserved \in Nat
           /\ fee.acc_for_gas \in Nat /\ fee.acc_claimed \in Int
           /\ fee.acc_collected =
                fee.cur_available + fee.cur_reserved + fee.acc_for_gas + fee.acc_claimed
  BY DEF LedgerInv, Fee, LedgerBalances

LEMMA ReserveLedgerInv ==
    ASSUME LedgerInv, NEW amount \in Nat, Reserve(amount), UNCHANGED <<lost_found, transfers>>
    PROVE  LedgerInv'
  <1>1. fee' = [acc_collected |-> fee.acc_collected,
                cur_available |-> fee.cur_available - amount,
                cur_reserved  |-> fee.cur_reserved + amount,
                acc_for_gas   |-> fee.acc_for_gas,
                acc_claimed   |-> fee.acc_claimed]
    BY DEF Reserve, LedgerInv, Fee
  <1>2. fee' \in Fee /\ LedgerBalances'
    <2>1. /\ fee.cur_available - amount \in Nat /\ fee.cur_reserved + amount \in Nat
          /\ fee.acc_collected = (fee.cur_available - amount) + (fee.cur_reserved + amount)
                                    + fee.acc_for_gas + fee.acc_claimed
      BY FeeFields DEF Reserve
    <2>2. QED
      BY <1>1, <2>1, FeeFields, LedgerStep
  <1>3. QED
    BY <1>2 DEF LedgerInv

\* An amount of a record, of its family's reserve or of its gas is a natural number.
LEMMA AmountTypes ==
    ASSUME FamilyInv, NEW t \in Tx, Exists(t)
    PROVE  /\ info[t] \in Info
           /\ PrevReserved(t) \in Nat /\ Reserved(t) \in Nat
           /\ \A gas_fee \in Nat : ExcessGas(t, gas_fee) \in Nat
           /\ \A gas_fee \in Nat : AdditionalReserve(t, gas_fee) \in Nat
           /\ UsedReserve(t) \in Nat
           /\ RefundOf(t) \in Nat
  <1>1. info[t] \in Info
    BY DEF FamilyInv, FamilyTypes, Exists
  <1>2. PrevReserved(t) \in Nat /\ Reserved(t) \in Nat
    BY <1>1 DEF PrevReserved, Reserved, Info
  <1>3. \A gas_fee \in Nat : ExcessGas(t, gas_fee) \in Nat
    BY <1>1 DEF ExcessGas, monus, Info
  <1>4. \A gas_fee \in Nat : AdditionalReserve(t, gas_fee) \in Nat
    BY <1>2, <1>3 DEF AdditionalReserve, monus
  <1>5. info[t].burn_amount \in Nat
    BY <1>1 DEF Info
  <1>6. UsedReserve(t) \in Nat
    BY <1>3, <1>5 DEF UsedReserve
  <1>7. RefundOf(t) \in Nat
    BY <1>1 DEF RefundOf, monus, Info
  <1>8. QED
    BY <1>1, <1>2, <1>3, <1>4, <1>6, <1>7

LEMMA CreateLedgerInv ==
    ASSUME FamilyInv, LedgerInv, NEW t \in Tx, Create(t)
    PROVE  LedgerInv'
  <1>1. Gas \subseteq Nat /\ CancelGas \subseteq Nat
    BY ConstantsAssumption
  <1>2. ASSUME NEW a \in Account, NEW inputs \in SUBSET DOMAIN utxos, NEW gas_fee \in Gas,
               NEW amount \in Amount, Withdraw(t, a, amount, inputs, gas_fee)
        PROVE  LedgerInv'
    BY <1>2 DEF Withdraw, CreateOriginal, calls, LedgerInv, LedgerBalances
  <1>3. ASSUME NEW a \in Account, NEW inputs \in SUBSET DOMAIN utxos, NEW gas_fee \in Gas,
               ActiveUtxoManagement(t, a, inputs, gas_fee)
        PROVE  LedgerInv'
    BY <1>1, <1>3, ReserveLedgerInv DEF ActiveUtxoManagement, CreateOriginal, calls
  <1>4. ASSUME NEW o \in Tx, NEW gas_fee \in Gas, WithdrawRbf(t, o, gas_fee)
        PROVE  LedgerInv'
    BY <1>4 DEF WithdrawRbf, CreateReplacement, calls, LedgerInv, LedgerBalances
  <1>5. ASSUME NEW o \in Tx, NEW kind \in {"withdraw", "manage"}, Replaceable(o, kind)
        PROVE  /\ info[o].max_gas_fee \in Nat
               /\ \A gas_fee \in Nat : AdditionalReserve(o, gas_fee) \in Nat
    BY <1>5, AmountTypes DEF Replaceable, IsOriginal, Info
  <1>6. ASSUME NEW o \in Tx, NEW gas_fee \in Nat,
               ActiveUtxoManagementRbf(t, o, gas_fee) \/ CancelActiveUtxoManagement(t, o, gas_fee)
        PROVE  LedgerInv'
    <2>1. /\ Replaceable(o, "manage") /\ gas_fee > info[o].max_gas_fee
          /\ Reserve(gas_fee - info[o].max_gas_fee)
          /\ UNCHANGED <<lost_found, transfers>>
      BY <1>6 DEF ActiveUtxoManagementRbf, CancelActiveUtxoManagement, CreateReplacement, calls
    <2>2. gas_fee - info[o].max_gas_fee \in Nat
      BY <2>1, <1>5
    <2>3. QED
      BY <2>1, <2>2, ReserveLedgerInv
  <1>7. ASSUME NEW o \in Tx, NEW gas_fee \in CancelGas, NEW caller \in Account,
               CancelWithdraw(t, o, caller, gas_fee)
        PROVE  LedgerInv'
    <2>1. /\ Replaceable(o, "withdraw")
          /\ Reserve(AdditionalReserve(o, gas_fee))
          /\ UNCHANGED <<lost_found, transfers>>
      BY <1>7 DEF CancelWithdraw, CreateReplacement, calls
    <2>2. AdditionalReserve(o, gas_fee) \in Nat
      BY <2>1, <1>1, <1>5
    <2>3. QED
      BY <2>1, <2>2, ReserveLedgerInv
  <1>8. QED
    BY <1>1, <1>2, <1>3, <1>4, <1>6, <1>7 DEF Create

\* What the reserve of a settled family did not use becomes available again.
LEMMA SettleLedgerInv ==
    ASSUME FamilyInv, LedgerInv, NEW t \in Tx, VerifyWithdrawBurnCallback(t)
    PROVE  LedgerInv'
  <1> DEFINE o == info[t].original_tx_id
             protocol_fee == ProtocolFee(info[t].withdraw_fee)
             reserved == Reserved(o)
             used == UsedReserve(t)
             refund == [to |-> info[t].account_id, amount |-> RefundOf(t), purpose |-> "refund"]
  <1>1. /\ Exists(t) /\ Exists(o) /\ reserved <= fee.cur_reserved /\ used <= reserved
        /\ fee' = [fee EXCEPT !.cur_reserved  = @ - reserved,
                              !.acc_for_gas   = @ + used,
                              !.acc_collected = @ + protocol_fee,
                              !.cur_available = @ + reserved - used + protocol_fee]
        /\ transfers' = IF RefundOf(t) = 0 THEN transfers ELSE transfers (+) SetToBag({refund})
        /\ lost_found' = lost_found
    BY DEF VerifyWithdrawBurnCallback, Settleable
  <1>2. /\ info[t] \in Info /\ o \in Tx /\ reserved \in Nat /\ used \in Nat
        /\ RefundOf(t) \in Nat
    <2>1. info[t] \in Info /\ used \in Nat /\ RefundOf(t) \in Nat
      BY <1>1, AmountTypes
    <2>2. o \in Tx
      BY <2>1 DEF Info
    <2>3. QED
      BY <2>1, <2>2, <1>1, AmountTypes
  <1>3. protocol_fee \in Nat
    BY <1>2, FeeTypes DEF Info
  <1>4. refund.to \in Account /\ refund.amount \in Nat
    BY <1>2 DEF Info
  <1> HIDE DEF o, protocol_fee, reserved, used, refund
  <1>5. fee' \in Fee /\ LedgerBalances'
    <2>1. fee' = [acc_collected |-> fee.acc_collected + protocol_fee,
                  cur_available |-> fee.cur_available + reserved - used + protocol_fee,
                  cur_reserved  |-> fee.cur_reserved - reserved,
                  acc_for_gas   |-> fee.acc_for_gas + used,
                  acc_claimed   |-> fee.acc_claimed]
      BY <1>1, <1>2, <1>3 DEF LedgerInv, Fee
    <2>2. QED
      BY <2>1, <1>1, <1>2, <1>3, FeeFields, LedgerStep
  <1>6. BagToSet(transfers') \subseteq BagToSet(transfers) \cup {refund}
    BY <1>1, TransfersInBag
  <1>7. QED
    BY <1>1, <1>4, <1>5, <1>6 DEF LedgerInv

LEMMA TokenLedgerInv ==
    ASSUME LedgerInv, TokenStep
    PROVE  LedgerInv'
  <1>1. ASSUME NEW t \in BagToSet(transfers), TransferSucceeds(t)
        PROVE  LedgerInv'
    <2>1. /\ fee' = fee /\ lost_found' = lost_found
          /\ BagToSet(transfers') \subseteq BagToSet(transfers)
      BY <1>1, TransfersInBag DEF TransferSucceeds, contract
    <2>2. QED
      BY <2>1 DEF LedgerInv, LedgerBalances
  <1>2. ASSUME NEW t \in BagToSet(transfers), TransferFails(t)
        PROVE  LedgerInv'
    <2>1. /\ t.to \in Account /\ t.amount \in Nat
          /\ BagToSet(transfers') \subseteq BagToSet(transfers)
      BY <1>2, TransfersInBag DEF TransferFails, LedgerInv
    <2>2. CASE t.purpose = "fee"
      <3>1. fee' = [acc_collected |-> fee.acc_collected,
                    cur_available |-> fee.cur_available + t.amount,
                    cur_reserved  |-> fee.cur_reserved,
                    acc_for_gas   |-> fee.acc_for_gas,
                    acc_claimed   |-> fee.acc_claimed - t.amount]
        <4>1. fee' = [fee EXCEPT !.cur_available = @ + t.amount, !.acc_claimed = @ - t.amount]
          BY <1>2, <2>2 DEF TransferFails
        <4>2. fee \in Fee
          BY DEF LedgerInv
        <4>3. QED
          BY <4>1, <4>2 DEF Fee
      <3>2. fee' \in Fee /\ LedgerBalances'
        <4>1. /\ fee.cur_available + t.amount \in Nat /\ fee.acc_claimed - t.amount \in Int
              /\ fee.acc_collected = (fee.cur_available + t.amount) + fee.cur_reserved
                                        + fee.acc_for_gas + (fee.acc_claimed - t.amount)
          BY <2>1, FeeFields
        <4>2. QED
          BY <3>1, <4>1, FeeFields, LedgerStep
      <3>3. lost_found' = lost_found
        BY <1>2, <2>2 DEF TransferFails
      <3>4. QED
        BY <2>1, <3>2, <3>3 DEF LedgerInv
    <2>3. CASE t.purpose # "fee"
      <3>1. lost_found' = [lost_found EXCEPT ![t.to] = @ + t.amount] /\ fee' = fee
        BY <1>2, <2>3 DEF TransferFails
      <3>2. lost_found' \in [Account -> Nat]
        BY <2>1, <3>1, SMTT(30) DEF LedgerInv
      <3>3. QED
        BY <2>1, <3>1, <3>2 DEF LedgerInv, LedgerBalances
    <2>4. QED
      BY <2>2, <2>3
  <1>3. ASSUME NEW a \in Account, ClaimLostFound(a)
        PROVE  LedgerInv'
    <2> DEFINE sent == [to |-> a, amount |-> lost_found[a], purpose |-> "refund"]
    <2>1. /\ BagToSet(transfers') \subseteq BagToSet(transfers) \cup {sent}
          /\ lost_found' = [lost_found EXCEPT ![a] = 0] /\ fee' = fee
      BY <1>3, TransfersInBag DEF ClaimLostFound, Send
    <2>2. sent.to \in Account /\ sent.amount \in Nat
      BY DEF LedgerInv
    <2> HIDE DEF sent
    <2>3. QED
      BY <2>1, <2>2 DEF LedgerInv, LedgerBalances
  <1>4. ASSUME NEW a \in Account, NEW amount \in 1..fee.cur_available,
               WithdrawProtocolFee(a, amount)
        PROVE  LedgerInv'
    <2> DEFINE sent == [to |-> a, amount |-> amount, purpose |-> "fee"]
    <2>1. /\ BagToSet(transfers') \subseteq BagToSet(transfers) \cup {sent}
          /\ lost_found' = lost_found
      BY <1>4, TransfersInBag DEF WithdrawProtocolFee, Send
    <2>2. sent.to \in Account /\ sent.amount \in Nat
      BY FeeFields
    <2>3. fee' \in Fee /\ LedgerBalances'
      <3>1. fee' = [acc_collected |-> fee.acc_collected,
                    cur_available |-> fee.cur_available - amount,
                    cur_reserved  |-> fee.cur_reserved,
                    acc_for_gas   |-> fee.acc_for_gas,
                    acc_claimed   |-> fee.acc_claimed + amount]
        BY <1>4 DEF WithdrawProtocolFee, LedgerInv, Fee
      <3>2. /\ fee.cur_available - amount \in Nat /\ fee.acc_claimed + amount \in Int
            /\ fee.acc_collected = (fee.cur_available - amount) + fee.cur_reserved
                                      + fee.acc_for_gas + (fee.acc_claimed + amount)
        BY FeeFields
      <3>3. QED
        BY <3>1, <3>2, FeeFields, LedgerStep
    <2> HIDE DEF sent
    <2>4. QED
      BY <2>1, <2>2, <2>3 DEF LedgerInv
  <1>5. ASSUME NEW amount \in FeeDeposit, DepositProtocolFee(amount)
        PROVE  LedgerInv'
    <2>1. amount \in Nat
      BY ConstantsAssumption
    <2>2. fee' = [acc_collected |-> fee.acc_collected + amount,
                  cur_available |-> fee.cur_available + amount,
                  cur_reserved  |-> fee.cur_reserved,
                  acc_for_gas   |-> fee.acc_for_gas,
                  acc_claimed   |-> fee.acc_claimed]
      BY <1>5 DEF DepositProtocolFee, LedgerInv, Fee
    <2>3. fee' \in Fee /\ LedgerBalances'
      <3>1. /\ fee.acc_collected + amount \in Nat /\ fee.cur_available + amount \in Nat
            /\ fee.acc_collected + amount = (fee.cur_available + amount) + fee.cur_reserved
                                              + fee.acc_for_gas + fee.acc_claimed
        BY <2>1, FeeFields
      <3>2. QED
        BY <2>2, <3>1, FeeFields, LedgerStep
    <2>4. QED
      BY <1>5, <2>3 DEF DepositProtocolFee, calls, LedgerInv
  <1>6. QED
    BY <1>1, <1>2, <1>3, <1>4, <1>5 DEF TokenStep

\* No step unbalances the ledger, or makes a field of it negative.
THEOREM LedgerInductive == Spec => []LedgerInv
  <1>1. FamilyInv /\ LedgerInv /\ [Next]_vars => LedgerInv'
    <2> SUFFICES ASSUME FamilyInv, LedgerInv, [Next]_vars PROVE LedgerInv'
      OBVIOUS
    <2>1. ASSUME UNCHANGED <<fee, lost_found, transfers>>
          PROVE  LedgerInv'
      BY <2>1 DEF LedgerInv, LedgerBalances
    <2>2. CASE UNCHANGED vars
      BY <2>1, <2>2 DEF vars, contract, calls
    <2>3. ASSUME NEW t \in Tx, Create(t) PROVE LedgerInv'
      BY <2>3, CreateLedgerInv
    <2>4. ASSUME NEW t \in Tx, SignStep(t) \/ Confirm(t) \/ ClearInvalidPendingVerifyRbf(t)
          PROVE  LedgerInv'
      BY <2>1, <2>4 DEF SignStep, SignOrphan, Forget, SignBtcTransaction, MpcSign, SignFails,
         SignBtcTransactionCallback, Confirm, ClearInvalidPendingVerifyRbf, contract, calls
    <2>5. ASSUME NEW t \in Tx, BurnStep(t) PROVE LedgerInv'
      BY <2>1, <2>5, SettleLedgerInv DEF BurnStep, VerifyWithdraw, VerifyWithdrawCallback,
         VerifyFails, NbtcBurn, BurnFails, contract, calls
    <2>6. QED
      BY <2>2, <2>3, <2>4, <2>5, TokenLedgerInv DEF Next
  <1>2. QED
    BY InitLedgerInv, FamilyInductive, <1>1, PTL DEF Spec

\* acc_collected is the sum of cur_available, cur_reserved, acc_for_gas and acc_claimed,
\* whatever is reserved, cancelled, settled, claimed and rolled back, in whatever order.
THEOREM LedgerAlwaysBalances == Spec => []LedgerBalances
  <1>1. LedgerInv => LedgerBalances
    BY DEF LedgerInv
  <1>2. QED
    BY LedgerInductive, <1>1, PTL
-----------------------------------------------------------------------------
(* UTXOs.                                                                  *)

Spends(s, u) == s \in DOMAIN body /\ u \in body[s].inputs

\* A change output that is offered or was spent is on the chain, and its record is gone.
SpentInv ==
    /\ \A u \in DOMAIN utxos : \A s \in DOMAIN body : ~Spends(s, u)
    /\ \A u \in Tx :
        u \in DOMAIN utxos \/ (\E s \in DOMAIN body : Spends(s, u)) =>
            u \in confirmed /\ ~Exists(u)

LEMMA InitSpentInv == Init => SpentInv
  BY ConstantsAssumption DEF Init, SpentInv, Spends

\* A step that offers no other UTXO, writes no transaction and adds no record.
LEMMA QuietSpentInv ==
    ASSUME SpentInv, body' = body, DOMAIN utxos' \subseteq DOMAIN utxos,
           confirmed \subseteq confirmed', \A x \in Tx : Exists(x)' => Exists(x)
    PROVE  SpentInv'
  BY DEF SpentInv, Spends

\* A new transaction spends what was offered and no longer is, or what its original spends.
LEMMA CreateSpentInv ==
    ASSUME FamilyInv, SpentInv, NEW t \in Tx, Create(t)
    PROVE  SpentInv'
  <1>1. ASSUME NEW inputs, t \notin DOMAIN body, DOMAIN body' = DOMAIN body \cup {t},
               body'[t].inputs = inputs, \A x \in DOMAIN body : body'[x] = body[x],
               DOMAIN utxos' \subseteq DOMAIN utxos \ inputs,
               inputs \subseteq DOMAIN utxos \/ \E o \in DOMAIN body : inputs = body[o].inputs,
               \A x \in Tx : Exists(x)' => Exists(x) \/ x = t, confirmed' = confirmed
        PROVE  SpentInv'
    <2>1. \A s, u : Spends(s, u)' <=> Spends(s, u) \/ (s = t /\ u \in inputs)
      BY <1>1 DEF Spends
    <2>2. \A u \in inputs : u \in DOMAIN utxos \/ \E s \in DOMAIN body : Spends(s, u)
      BY <1>1 DEF Spends
    <2>3. t \notin confirmed
      BY <1>1 DEF FamilyInv, NoDoubleSpend
    <2>4. ASSUME NEW u \in DOMAIN utxos', NEW s \in DOMAIN body'
          PROVE  ~Spends(s, u)'
      BY <1>1, <2>1 DEF SpentInv, Spends
    <2>5. ASSUME NEW u \in Tx, u \in DOMAIN utxos' \/ \E s \in DOMAIN body' : Spends(s, u)'
          PROVE  u \in confirmed' /\ ~Exists(u)'
      <3>1. u \in DOMAIN utxos \/ \E s \in DOMAIN body : Spends(s, u)
        BY <1>1, <2>1, <2>2, <2>5 DEF Spends
      <3>2. QED
        BY <1>1, <2>3, <3>1 DEF SpentInv
    <2>6. QED
      BY <2>4, <2>5 DEF SpentInv
  <1>2. ASSUME NEW kind, NEW a, NEW amount, NEW withdraw_fee, NEW inputs \in SUBSET DOMAIN utxos,
               NEW gas_fee, NEW burn_amount,
               CreateOriginal(t, kind, a, amount, withdraw_fee, inputs, gas_fee, burn_amount)
        PROVE  SpentInv'
    <2>1. /\ t \notin DOMAIN body /\ DOMAIN body' = DOMAIN body \cup {t}
          /\ body'[t].inputs = inputs /\ \A x \in DOMAIN body : body'[x] = body[x]
          /\ DOMAIN utxos' = DOMAIN utxos \ inputs /\ confirmed' = confirmed
      BY <1>2 DEF CreateOriginal, Fresh, Write, chain
    <2>2. \A x \in Tx : Exists(x)' => Exists(x) \/ x = t
      BY <1>2 DEF CreateOriginal, Exists, FamilyInv, FamilyTypes
    <2>3. QED
      BY <1>1, <2>1, <2>2
  <1>3. ASSUME NEW o \in Tx, NEW role, NEW kind, NEW cost, NEW burn_amount, NEW max_gas_fee,
               NEW cancel_rbf_reserved, Replaceable(o, kind),
               CreateReplacement(t, o, role, cost, burn_amount, max_gas_fee, cancel_rbf_reserved)
        PROVE  SpentInv'
    <2>1. /\ t \notin DOMAIN body /\ DOMAIN body' = DOMAIN body \cup {t}
          /\ body'[t] = [body[o] EXCEPT !.change = body[o].value - cost]
          /\ \A x \in DOMAIN body : body'[x] = body[x]
          /\ utxos' = utxos /\ confirmed' = confirmed
      BY <1>3 DEF CreateReplacement, Fresh, Write, chain
    <2>2. Exists(o) /\ o \in DOMAIN body
      BY <1>3 DEF Replaceable, IsOriginal, FamilyInv, Families, InFamily
    <2>3. body'[t].inputs = body[o].inputs
      BY <2>1
    <2>4. \A x \in Tx : Exists(x)' => Exists(x) \/ x = t
      <3>1. \A x \in Tx : x # t /\ x # o => info'[x] = info[x]
        BY <1>3 DEF CreateReplacement, FamilyInv, FamilyTypes
      <3>2. QED
        BY <2>2, <3>1 DEF Exists
    <2>5. DOMAIN utxos' \subseteq DOMAIN utxos \ body[o].inputs
      BY <2>1, <2>2 DEF SpentInv, Spends
    <2>6. QED
      BY <1>1, <2>1, <2>2, <2>3, <2>4, <2>5
  <1>4. QED
    BY <1>2, <1>3 DEF Create, Withdraw, ActiveUtxoManagement, WithdrawRbf, ActiveUtxoManagementRbf,
       CancelWithdraw, CancelActiveUtxoManagement

\* Only the settlement offers a UTXO, the change of the transaction that was confirmed.
LEMMA SettleSpentInv ==
    ASSUME FamilyInv, SpentInv, NEW t \in Tx, VerifyWithdrawBurnCallback(t)
    PROVE  SpentInv'
  <1>1. Exists(t) /\ t \in confirmed
    BY DEF VerifyWithdrawBurnCallback, FamilyInv, BurnsMatchStages
  <1>2. /\ body' = body /\ confirmed' = confirmed
        /\ DOMAIN utxos' \subseteq DOMAIN utxos \cup {t}
    BY DEF VerifyWithdrawBurnCallback, chain
  <1>3. info' = [info EXCEPT ![t] = None, ![info[t].original_tx_id] = None]
    BY DEF VerifyWithdrawBurnCallback
  <1>4. ~Exists(t)' /\ \A x \in Tx : Exists(x)' => Exists(x)
    BY <1>3 DEF Exists, FamilyInv, FamilyTypes
  <1>5. \A s \in DOMAIN body : ~Spends(s, t)
    BY <1>1 DEF SpentInv
  <1>6. QED
    BY <1>1, <1>2, <1>4, <1>5 DEF SpentInv, Spends

\* Every step keeps what is offered apart from what was spent or could be.
THEOREM SpentInductive == Spec => []SpentInv
  <1>1. FamilyInv /\ SpentInv /\ [Next]_vars => SpentInv'
    <2> SUFFICES ASSUME FamilyInv, SpentInv, [Next]_vars PROVE SpentInv'
      OBVIOUS
    <2>1. CASE UNCHANGED vars
      <3>1. body' = body /\ utxos' = utxos /\ confirmed' = confirmed /\ info' = info
        BY <2>1 DEF vars, contract, chain
      <3>2. QED
        BY <3>1, QuietSpentInv DEF Exists
    <2>2. ASSUME NEW t \in Tx, Create(t) PROVE SpentInv'
      BY <2>2, CreateSpentInv
    <2>3. ASSUME NEW t \in Tx, SignStep(t) \/ ClearInvalidPendingVerifyRbf(t) PROVE SpentInv'
      <3>1. body' = body /\ utxos' = utxos /\ confirmed' = confirmed
        BY <2>3 DEF SignStep, SignOrphan, Forget, SignBtcTransaction, MpcSign, SignFails,
           SignBtcTransactionCallback, ClearInvalidPendingVerifyRbf, contract, chain
      <3>2. \A x \in Tx : Exists(x)' => Exists(x)
        BY <2>3 DEF SignStep, SignOrphan, Forget, SignBtcTransaction, MpcSign, SignFails,
           SignBtcTransactionCallback, ClearInvalidPendingVerifyRbf, contract, Exists,
           FamilyInv, FamilyTypes
      <3>3. QED
        BY <3>1, <3>2, QuietSpentInv
    <2>4. ASSUME NEW t \in Tx, Confirm(t) PROVE SpentInv'
      <3>1. body' = body /\ utxos' = utxos /\ confirmed \subseteq confirmed' /\ info' = info
        BY <2>4 DEF Confirm, contract
      <3>2. QED
        BY <3>1, QuietSpentInv DEF Exists
    <2>5. ASSUME NEW t \in Tx, BurnStep(t) PROVE SpentInv'
      <3>1. CASE VerifyWithdrawBurnCallback(t)
        BY <3>1, SettleSpentInv
      <3>2. CASE VerifyWithdraw(t) \/ VerifyWithdrawCallback(t) \/ VerifyFails(t) \/ NbtcBurn(t)
                    \/ BurnFails(t)
        <4>1. body' = body /\ utxos' = utxos /\ confirmed' = confirmed
          BY <3>2 DEF VerifyWithdraw, VerifyWithdrawCallback, VerifyFails, NbtcBurn, BurnFails,
             contract, chain
        <4>2. \A x \in Tx : Exists(x)' => Exists(x)
          BY <3>2 DEF VerifyWithdraw, VerifyWithdrawCallback, VerifyFails, NbtcBurn, BurnFails,
             AwaitsProof, contract, Exists, FamilyInv, FamilyTypes
        <4>3. QED
          BY <4>1, <4>2, QuietSpentInv
      <3>3. QED
        BY <2>5, <3>1, <3>2 DEF BurnStep
    <2>6. CASE TokenStep
      <3>1. body' = body /\ utxos' = utxos /\ confirmed' = confirmed /\ info' = info
        BY <2>6 DEF TokenStep, TransferSucceeds, TransferFails, ClaimLostFound,
           WithdrawProtocolFee, DepositProtocolFee, contract, chain
      <3>2. QED
        BY <3>1, QuietSpentInv DEF Exists
    <2>7. QED
      BY <2>1, <2>2, <2>3, <2>4, <2>5, <2>6 DEF Next
  <1>2. QED
    BY InitSpentInv, FamilyInductive, <1>1, PTL DEF Spec

\* The change of a transaction is offered once, when it was confirmed, and no UTXO is
\* offered that a transaction of the bridge spends, whatever is replaced and settled.
THEOREM OfferedUtxosExist == Spec => []UtxosExist
  <1>1. SpentInv => UtxosExist
    BY DEF SpentInv, UtxosExist, Spends, Fresh
  <1>2. QED
    BY SpentInductive, <1>1, PTL

-----------------------------------------------------------------------------
(* Records, and what a family costs.                                       *)

\* ExcessGas and PrevReserved of a record.
Excess(r, gas_fee) == monus(gas_fee, r.transfer_amount - r.withdraw_fee)
Prev(r)            == IF r.cancel_rbf_reserved = None THEN 0 ELSE r.cancel_rbf_reserved

\* The amounts of a record fit each other and its transaction.
AmountsFit(r, b) ==
    /\ r.withdraw_fee <= r.transfer_amount
    /\ r.kind = "manage" => r.transfer_amount = 0
    /\ r.kind = "withdraw" /\ r.role # "cancel" =>
            r.burn_amount = r.transfer_amount - r.withdraw_fee
    /\ b.change + r.burn_amount = b.value

\* They fit the original q as well, which reserved what r may cost.
FamilyFits(r, b, q, p) ==
    /\ b.value = p.value
    /\ r.kind = q.kind /\ r.transfer_amount = q.transfer_amount
    /\ r.withdraw_fee = q.withdraw_fee
    /\ r.kind = "manage" => r.burn_amount <= q.max_gas_fee
    /\ r.kind = "withdraw" /\ r.role = "cancel" => Excess(r, r.burn_amount) <= Prev(q)

RecordOK(t) ==
    /\ AmountsFit(info[t], body[t])
    /\ \A o \in Tx : o = info[t].original_tx_id /\ Exists(o) =>
            FamilyFits(info[t], body[t], info[o], body[o])

\* Once the original is settled, by another transaction with the same inputs, what
\* is left of the family can never be confirmed.
OrphanIsLost(t) ==
    Orphan(t) => /\ t \notin confirmed
                 /\ \E s \in confirmed : body[s].inputs = body[t].inputs

\* UTXOs that are offered, and those that transactions spend and return.
BodiesOK ==
    /\ DOMAIN utxos \subseteq Utxo /\ \A u \in DOMAIN utxos : utxos[u] \in Nat
    /\ DOMAIN body \subseteq Tx /\ body \in [DOMAIN body -> Body]

RecordsOK   == \A t \in Tx : Exists(t) => RecordOK(t)
OrphansLost == \A t \in Tx : Exists(t) => OrphanIsLost(t)

RecordInv == BodiesOK /\ RecordsOK /\ OrphansLost

LEMMA RecordFields ==
    ASSUME NEW r \in Info
    PROVE  /\ r # None
           /\ r.kind \in {"withdraw", "manage"} /\ r.role \in {"original", "rbf", "cancel"}
           /\ r.original_tx_id \in Tx /\ r.account_id \in Account
           /\ r.transfer_amount \in Nat /\ r.withdraw_fee \in Nat /\ r.burn_amount \in Nat
           /\ r.max_gas_fee \in Nat /\ r.cancel_rbf_reserved \in Nat \cup {None}
           /\ Prev(r) \in Nat /\ \A gas_fee \in Nat : Excess(r, gas_fee) \in Nat
  BY NoneAssumption DEF Info, Prev, Excess, monus

LEMMA InitRecordInv == Init => RecordInv
  <1> SUFFICES ASSUME Init PROVE RecordInv
    OBVIOUS
  <1>1. /\ utxos = Value /\ body = [t \in {} |-> None] /\ \A t \in Tx : ~Exists(t)
    BY DEF Init, Exists
  <1>2. BodiesOK
    BY <1>1, ConstantsAssumption DEF BodiesOK, Utxo
  <1>3. QED
    BY <1>1, <1>2 DEF RecordInv, RecordsOK, OrphansLost

\* The record q says of the family what r said, and reserves at least as much.
Covers(q, r) ==
    /\ q.kind = r.kind /\ q.role = r.role /\ q.original_tx_id = r.original_tx_id
    /\ q.transfer_amount = r.transfer_amount /\ q.withdraw_fee = r.withdraw_fee
    /\ q.burn_amount = r.burn_amount
    /\ r.kind = "manage" => r.max_gas_fee <= q.max_gas_fee
    /\ r.kind = "withdraw" => Prev(r) <= Prev(q)

LEMMA CoversSame ==
    ASSUME NEW r \in Info
    PROVE  Covers(r, r)
  BY RecordFields DEF Covers

LEMMA CoverFits ==
    ASSUME NEW r \in Info, NEW q \in Info, NEW r2 \in Info, NEW q2 \in Info, NEW b, NEW p,
           Covers(r2, r), Covers(q2, q)
    PROVE  /\ AmountsFit(r, b) => AmountsFit(r2, b)
           /\ FamilyFits(r, b, q, p) => FamilyFits(r2, b, q2, p)
  <1>1. AmountsFit(r, b) => AmountsFit(r2, b)
    BY DEF Covers, AmountsFit
  <1>2. ASSUME FamilyFits(r, b, q, p)
        PROVE  FamilyFits(r2, b, q2, p)
    <2>1. /\ r.burn_amount \in Nat /\ q.max_gas_fee \in Nat /\ q2.max_gas_fee \in Nat
          /\ Prev(q) \in Nat /\ Prev(q2) \in Nat /\ Excess(r, r.burn_amount) \in Nat
      BY RecordFields
    <2>2. Excess(r2, r2.burn_amount) = Excess(r, r.burn_amount)
      BY DEF Covers, Excess
    <2>3. r.kind = "manage" => r.burn_amount <= q2.max_gas_fee
      BY <1>2, <2>1 DEF FamilyFits, Covers
    <2>4. r.kind = "withdraw" /\ r.role = "cancel" => Excess(r, r.burn_amount) <= Prev(q2)
      BY <1>2, <2>1 DEF FamilyFits, Covers
    <2>5. QED
      BY <1>2, <2>2, <2>3, <2>4 DEF FamilyFits, Covers
  <1>3. QED
    BY <1>1, <1>2

\* A step that adds records of new transactions only, and takes back nothing that is reserved.
LEMMA RecordsStep ==
    ASSUME FamilyInv, FamilyTypes', RecordInv, \A x \in DOMAIN body : body'[x] = body[x],
           \A x \in Tx : Exists(x)' => \/ Exists(x) /\ Covers(info'[x], info[x])
                                       \/ x \notin DOMAIN body /\ RecordOK(x)'
    PROVE  RecordsOK'
  <1> SUFFICES ASSUME NEW t \in Tx, Exists(t)', Exists(t), Covers(info'[t], info[t])
               PROVE  RecordOK(t)'
    BY DEF RecordsOK
  <1>1. info[t] \in Info /\ info'[t] \in Info
    BY DEF FamilyInv, FamilyTypes, Exists
  <1>2. /\ RecordOK(t) /\ body'[t] = body[t] /\ info[t].original_tx_id \in DOMAIN body
        /\ info'[t].original_tx_id = info[t].original_tx_id
    BY DEF RecordInv, RecordsOK, FamilyInv, Families, InFamily, Covers
  <1>3. AmountsFit(info'[t], body'[t])
    BY <1>1, <1>2, CoverFits DEF RecordOK
  <1>4. ASSUME NEW o \in Tx, o = info'[t].original_tx_id, Exists(o)'
        PROVE  FamilyFits(info'[t], body'[t], info'[o], body'[o])
    <2>1. Exists(o) /\ Covers(info'[o], info[o]) /\ body'[o] = body[o]
      BY <1>2, <1>4
    <2>2. info[o] \in Info /\ info'[o] \in Info
      BY <1>4, <2>1 DEF FamilyInv, FamilyTypes, Exists
    <2>3. FamilyFits(info[t], body[t], info[o], body[o])
      BY <1>2, <1>4, <2>1 DEF RecordOK
    <2>4. QED
      BY <1>1, <1>2, <2>1, <2>2, <2>3, CoverFits
  <1>5. QED
    BY <1>3, <1>4 DEF RecordOK

\* A step that settles no family and confirms nothing.
LEMMA OrphansStep ==
    ASSUME FamilyInv, RecordInv, \A x \in DOMAIN body : body'[x] = body[x],
           confirmed' = confirmed,
           \A x \in Tx : IsOriginal(x) => Exists(x)',
           \A x \in Tx : Exists(x)' =>
                \/ Exists(x) /\ info'[x].original_tx_id = info[x].original_tx_id
                \/ x \notin DOMAIN body /\ ~Orphan(x)'
    PROVE  OrphansLost'
  <1> SUFFICES ASSUME NEW t \in Tx, Exists(t)', Orphan(t)', Exists(t),
                      info'[t].original_tx_id = info[t].original_tx_id
               PROVE  /\ t \notin confirmed'
                      /\ \E s \in confirmed' : body'[s].inputs = body'[t].inputs
    BY DEF OrphansLost, OrphanIsLost
  <1> DEFINE o == info[t].original_tx_id
  <1>1. o \in Tx /\ InFamily(t)
    BY DEF FamilyInv, FamilyTypes, Families, Exists, Info
  <1>2. ~Exists(o)'
    BY DEF Orphan
  <1>3. ~Exists(o)
    BY <1>1, <1>2 DEF InFamily, IsOriginal
  <1>4. t \notin confirmed /\ \E s \in confirmed : body[s].inputs = body[t].inputs
    BY <1>3 DEF RecordInv, OrphansLost, OrphanIsLost, Orphan
  <1>5. \A s \in confirmed : body'[s] = body[s]
    BY DEF FamilyInv, NoDoubleSpend
  <1>6. body'[t] = body[t]
    BY <1>1 DEF InFamily
  <1>7. QED
    BY <1>4, <1>5, <1>6

LEMMA ValueOfType ==
    ASSUME BodiesOK, NEW inputs \in SUBSET DOMAIN utxos
    PROVE  ValueOf(inputs) \in Nat
  <1>1. IsFiniteSet(Utxo)
    BY ConstantsAssumption, FS_Union DEF Utxo
  <1>2. IsFiniteSet(inputs)
    BY <1>1, FS_Subset DEF BodiesOK
  <1>3. \A u \in inputs : utxos[u] \in Nat
    BY DEF BodiesOK
  <1>4. QED
    BY <1>2, <1>3, SumNat DEF ValueOf

\* What a withdrawal, or a management of the bridge's UTXOs, writes.
WritesOriginal(t, kind, amount, withdraw_fee, inputs, gas_fee, burn_amount) ==
    /\ t \notin DOMAIN body /\ info[t] = None /\ burning[t] = "none"
    /\ info'[t] \in Info
    /\ info'[t].kind = kind /\ info'[t].role = "original"
    /\ info'[t].original_tx_id = t
    /\ info'[t].transfer_amount = amount /\ info'[t].withdraw_fee = withdraw_fee
    /\ info'[t].burn_amount = burn_amount /\ info'[t].max_gas_fee = gas_fee
    /\ info'[t].cancel_rbf_reserved = None
    /\ \A x \in Tx : x # t => info'[x] = info[x]
    /\ DOMAIN body' = DOMAIN body \cup {t}
    /\ \A x \in DOMAIN body : body'[x] = body[x]
    /\ ValueOf(inputs) \in Nat
    /\ body'[t].inputs = inputs /\ body'[t].value = ValueOf(inputs)
    /\ body'[t].change + burn_amount = ValueOf(inputs)
    /\ utxos' = [u \in DOMAIN utxos \ inputs |-> utxos[u]]
    /\ burning' = burning /\ confirmed' = confirmed
    /\ BodiesOK'

LEMMA OriginalCreated ==
    ASSUME FamilyInv, BodiesOK, NEW t \in Tx, NEW kind \in {"withdraw", "manage"},
           NEW a \in Account, NEW amount \in Nat, NEW withdraw_fee \in Nat,
           NEW inputs \in SUBSET DOMAIN utxos, NEW gas_fee \in Nat, NEW burn_amount \in Nat,
           CreateOriginal(t, kind, a, amount, withdraw_fee, inputs, gas_fee, burn_amount)
    PROVE  WritesOriginal(t, kind, amount, withdraw_fee, inputs, gas_fee, burn_amount)
  <1> DEFINE r == [kind |-> kind, role |-> "original", original_tx_id |-> t, account_id |-> a,
                   transfer_amount |-> amount, withdraw_fee |-> withdraw_fee,
                   burn_amount |-> burn_amount, signatures |-> {}, stage |-> "PendingSign",
                   max_gas_fee |-> gas_fee, cancel_rbf_reserved |-> None]
             b == [inputs |-> inputs, value |-> ValueOf(inputs),
                   change |-> ValueOf(inputs) - burn_amount]
  <1>1. /\ r \in Info
        /\ r.kind = kind /\ r.role = "original" /\ r.original_tx_id = t
        /\ r.transfer_amount = amount /\ r.withdraw_fee = withdraw_fee
        /\ r.burn_amount = burn_amount /\ r.max_gas_fee = gas_fee
        /\ r.cancel_rbf_reserved = None
    BY DEF Info, Stage
  <1>2. /\ Fresh(t) /\ info' = [info EXCEPT ![t] = r] /\ Write(t, b)
        /\ utxos' = [u \in DOMAIN utxos \ inputs |-> utxos[u]]
        /\ burn_amount <= ValueOf(inputs)
        /\ burning' = burning /\ confirmed' = confirmed
    BY DEF CreateOriginal, calls, chain
  <1> HIDE DEF r
  <1>3. t \notin DOMAIN body /\ info[t] = None /\ burning[t] = "none"
    BY <1>2 DEF Fresh, FamilyInv, Families, InFamily, BurnsMatchStages, Exists
  <1>4. info'[t] = r /\ \A x \in Tx : x # t => info'[x] = info[x]
    BY <1>2 DEF FamilyInv, FamilyTypes
  <1>5. ValueOf(inputs) \in Nat
    BY ValueOfType
  <1>6. ValueOf(inputs) - burn_amount \in Nat
    BY <1>2, <1>5
  <1>7. b \in Body
    BY <1>5, <1>6 DEF Body, BodiesOK
  <1>8. /\ b.inputs = inputs /\ b.value = ValueOf(inputs)
        /\ b.change + burn_amount = ValueOf(inputs)
    BY <1>5
  <1> HIDE DEF b
  <1>9. /\ DOMAIN body' = DOMAIN body \cup {t} /\ body'[t] = b
        /\ \A x \in DOMAIN body : body'[x] = body[x]
        /\ body' = [x \in DOMAIN body' |-> body'[x]]
    BY <1>2, <1>3 DEF Write
  <1>10. BodiesOK'
    BY <1>2, <1>7, <1>9 DEF BodiesOK
  <1>11. QED
    BY <1>1, <1>2, <1>3, <1>4, <1>5, <1>8, <1>9, <1>10 DEF WritesOriginal

\* What a replacement writes.
WritesReplacement(t, o, role, kind, cost, burn_amount, max_gas_fee, cancel_rbf_reserved) ==
    /\ t # o /\ t \notin DOMAIN body /\ info[t] = None /\ burning[t] = "none"
    /\ burning[o] = "none"
    /\ info[o] \in Info /\ info[o].role = "original" /\ info[o].original_tx_id = o
    /\ info[o].kind = kind
    /\ info'[t] \in Info
    /\ info'[t].kind = kind /\ info'[t].role = role /\ info'[t].original_tx_id = o
    /\ info'[t].transfer_amount = info[o].transfer_amount
    /\ info'[t].withdraw_fee = info[o].withdraw_fee
    /\ info'[t].burn_amount = burn_amount
    /\ info'[o] \in Info
    /\ info'[o].kind = kind /\ info'[o].role = "original"
    /\ info'[o].original_tx_id = o
    /\ info'[o].transfer_amount = info[o].transfer_amount
    /\ info'[o].withdraw_fee = info[o].withdraw_fee
    /\ info'[o].burn_amount = info[o].burn_amount
    /\ info'[o].max_gas_fee = max_gas_fee
    /\ info'[o].cancel_rbf_reserved = cancel_rbf_reserved
    /\ \A x \in Tx : x # t /\ x # o => info'[x] = info[x]
    /\ DOMAIN body' = DOMAIN body \cup {t} /\ o \in DOMAIN body
    /\ \A x \in DOMAIN body : body'[x] = body[x]
    /\ body[o].value \in Nat /\ body'[t].value = body[o].value
    /\ body'[t].change + cost = body[o].value
    /\ utxos' = utxos /\ burning' = burning /\ confirmed' = confirmed
    /\ BodiesOK'

LEMMA ReplacementCreated ==
    ASSUME FamilyInv, BodiesOK, NEW t \in Tx, NEW o \in Tx, NEW role \in {"rbf", "cancel"},
           NEW kind \in {"withdraw", "manage"}, Replaceable(o, kind),
           NEW cost \in Nat, NEW burn_amount \in Nat, NEW max_gas_fee \in Nat,
           NEW cancel_rbf_reserved \in Nat \cup {None},
           CreateReplacement(t, o, role, cost, burn_amount, max_gas_fee, cancel_rbf_reserved)
    PROVE  WritesReplacement(t, o, role, kind, cost, burn_amount, max_gas_fee, cancel_rbf_reserved)
  <1> DEFINE r == [info[o] EXCEPT !.role = role, !.original_tx_id = o,
                                  !.burn_amount = burn_amount, !.signatures = {},
                                  !.stage = "PendingSign", !.max_gas_fee = 0,
                                  !.cancel_rbf_reserved = None]
             q == [info[o] EXCEPT !.max_gas_fee = max_gas_fee,
                                  !.cancel_rbf_reserved = cancel_rbf_reserved]
             b == [body[o] EXCEPT !.change = body[o].value - cost]
  <1>1. /\ Fresh(t) /\ cost <= body[o].value
        /\ info' = [info EXCEPT ![t] = r, ![o].max_gas_fee = max_gas_fee,
                                ![o].cancel_rbf_reserved = cancel_rbf_reserved]
        /\ Write(t, b)
        /\ utxos' = utxos /\ burning' = burning /\ confirmed' = confirmed
    BY DEF CreateReplacement, calls, chain
  <1>2. /\ Exists(o) /\ info[o] \in Info /\ info[o].role = "original" /\ info[o].kind = kind
        /\ info[o].stage = "PendingVerify"
    BY DEF Replaceable, IsOriginal, Exists, FamilyInv, FamilyTypes
  <1>3. /\ t \notin DOMAIN body /\ info[t] = None /\ burning[t] = "none"
        /\ o \in DOMAIN body /\ info[o].original_tx_id = o /\ t # o /\ burning[o] = "none"
    BY <1>1, <1>2
       DEF Fresh, FamilyInv, Families, InFamily, BurnsMatchStages, Exists
  <1>4. /\ r \in Info /\ r.kind = kind /\ r.role = role /\ r.original_tx_id = o
        /\ r.transfer_amount = info[o].transfer_amount /\ r.withdraw_fee = info[o].withdraw_fee
        /\ r.burn_amount = burn_amount
    BY <1>2 DEF Info, Stage
  <1>5. /\ q \in Info /\ q.kind = kind /\ q.role = "original" /\ q.original_tx_id = o
        /\ q.transfer_amount = info[o].transfer_amount /\ q.withdraw_fee = info[o].withdraw_fee
        /\ q.burn_amount = info[o].burn_amount
        /\ q.max_gas_fee = max_gas_fee /\ q.cancel_rbf_reserved = cancel_rbf_reserved
    BY <1>2, <1>3 DEF Info
  <1>6. /\ info'[t] = r /\ info'[o] = q
        /\ \A x \in Tx : x # t /\ x # o => info'[x] = info[x]
    BY <1>1, <1>2, <1>3 DEF FamilyInv, FamilyTypes, Info
  <1> HIDE DEF r, q
  <1>7. body[o] \in Body
    BY <1>3 DEF BodiesOK
  <1>8. body[o].value \in Nat /\ body[o].value - cost \in Nat
    BY <1>1, <1>7 DEF Body
  <1>9. /\ b \in Body /\ b.value = body[o].value /\ b.change + cost = body[o].value
    BY <1>7, <1>8 DEF Body
  <1> HIDE DEF b
  <1>10. /\ DOMAIN body' = DOMAIN body \cup {t} /\ body'[t] = b
         /\ \A x \in DOMAIN body : body'[x] = body[x]
         /\ body' = [x \in DOMAIN body' |-> body'[x]]
    BY <1>1, <1>3 DEF Write
  <1>11. BodiesOK'
    BY <1>1, <1>9, <1>10 DEF BodiesOK
  <1>12. QED
    BY <1>1, <1>2, <1>3, <1>4, <1>5, <1>6, <1>8, <1>9, <1>10, <1>11 DEF WritesReplacement

\* An original fits itself.
LEMMA OriginalRecordInv ==
    ASSUME FamilyInv, FamilyInv', RecordInv, NEW t \in Tx, NEW kind, NEW amount \in Nat,
           NEW withdraw_fee \in Nat, NEW inputs, NEW gas_fee \in Nat, NEW burn_amount \in Nat,
           WritesOriginal(t, kind, amount, withdraw_fee, inputs, gas_fee, burn_amount),
           withdraw_fee <= amount,
           kind = "withdraw" => burn_amount = amount - withdraw_fee,
           kind = "manage" => amount = 0 /\ burn_amount = gas_fee
    PROVE  RecordInv'
  <1>1. info'[t] \in Info /\ info'[t] # None
    BY RecordFields DEF WritesOriginal
  <1>2. AmountsFit(info'[t], body'[t])
    BY DEF AmountsFit, WritesOriginal
  <1>3. FamilyFits(info'[t], body'[t], info'[t], body'[t])
    BY DEF FamilyFits, WritesOriginal
  <1>4. RecordOK(t)' /\ ~Orphan(t)' /\ Exists(t)'
    BY <1>1, <1>2, <1>3 DEF RecordOK, Orphan, Exists, WritesOriginal
  <1>5. ASSUME NEW x \in Tx, Exists(x)', x # t
        PROVE  /\ Exists(x) /\ Covers(info'[x], info[x])
               /\ info'[x].original_tx_id = info[x].original_tx_id
    <2>1. info'[x] = info[x]
      BY <1>5 DEF WritesOriginal
    <2>2. Exists(x) /\ info[x] \in Info
      BY <1>5, <2>1 DEF Exists, FamilyInv, FamilyTypes
    <2>3. QED
      BY <2>1, <2>2, CoversSame
  <1>6. \A x \in Tx : IsOriginal(x) => Exists(x)'
    BY <1>4 DEF IsOriginal, Exists, WritesOriginal
  <1>7. /\ t \notin DOMAIN body /\ \A x \in DOMAIN body : body'[x] = body[x]
        /\ confirmed' = confirmed /\ FamilyTypes'
    BY DEF WritesOriginal, FamilyInv
  <1>8. RecordsOK'
    BY <1>4, <1>5, <1>7, RecordsStep
  <1>9. OrphansLost'
    BY <1>4, <1>5, <1>6, <1>7, OrphansStep
  <1>10. QED
    BY <1>8, <1>9 DEF RecordInv, WritesOriginal

\* A replacement fits its original, which reserves what the replacement may cost.
LEMMA ReplacementRecordInv ==
    ASSUME FamilyInv, FamilyInv', RecordInv, NEW t \in Tx, NEW o \in Tx, NEW role, NEW kind,
           NEW burn_amount \in Nat, NEW max_gas_fee \in Nat, NEW cancel_rbf_reserved,
           WritesReplacement(t, o, role, kind, burn_amount, burn_amount, max_gas_fee,
                             cancel_rbf_reserved),
           kind = "withdraw" => Prev(info[o]) <= Prev(info'[o]),
           kind = "manage" => info[o].max_gas_fee <= max_gas_fee /\ burn_amount <= max_gas_fee,
           kind = "withdraw" /\ role # "cancel" =>
                burn_amount = info[o].transfer_amount - info[o].withdraw_fee,
           kind = "withdraw" /\ role = "cancel" =>
                Excess(info[o], burn_amount) <= Prev(info'[o])
    PROVE  RecordInv'
  <1>1. /\ info[o] \in Info /\ info[o] # None /\ info'[o] # None /\ info'[t] # None
        /\ Exists(o) /\ Exists(o)' /\ Exists(t)'
    BY RecordFields DEF WritesReplacement, Exists
  <1>2. AmountsFit(info[o], body[o])
    BY <1>1 DEF RecordInv, RecordsOK, RecordOK
  <1>3. AmountsFit(info'[t], body'[t])
    BY <1>2 DEF AmountsFit, WritesReplacement
  <1>4. Excess(info'[t], burn_amount) = Excess(info[o], burn_amount)
    BY DEF Excess, WritesReplacement
  <1>5. FamilyFits(info'[t], body'[t], info'[o], body'[o])
    BY <1>4 DEF FamilyFits, WritesReplacement
  <1>6. Covers(info'[o], info[o])
    BY DEF Covers, WritesReplacement
  <1>7. RecordOK(t)' /\ ~Orphan(t)'
    BY <1>1, <1>3, <1>5 DEF RecordOK, Orphan, WritesReplacement
  <1>8. ASSUME NEW x \in Tx, Exists(x)', x # t
        PROVE  /\ Exists(x) /\ Covers(info'[x], info[x])
               /\ info'[x].original_tx_id = info[x].original_tx_id
    <2>1. CASE x = o
      BY <2>1, <1>1, <1>6 DEF WritesReplacement
    <2>2. CASE x # o
      <3>1. info'[x] = info[x]
        BY <1>8, <2>2 DEF WritesReplacement
      <3>2. Exists(x) /\ info[x] \in Info
        BY <1>8, <3>1 DEF Exists, FamilyInv, FamilyTypes
      <3>3. QED
        BY <3>1, <3>2, CoversSame
    <2>3. QED
      BY <2>1, <2>2
  <1>9. \A x \in Tx : IsOriginal(x) => Exists(x)'
    BY <1>1 DEF IsOriginal, Exists, WritesReplacement
  <1>10. /\ t \notin DOMAIN body /\ \A x \in DOMAIN body : body'[x] = body[x]
         /\ confirmed' = confirmed /\ FamilyTypes'
    BY DEF WritesReplacement, FamilyInv
  <1>11. RecordsOK'
    BY <1>7, <1>8, <1>10, RecordsStep
  <1>12. OrphansLost'
    BY <1>7, <1>8, <1>9, <1>10, OrphansStep
  <1>13. QED
    BY <1>11, <1>12 DEF RecordInv, WritesReplacement

-----------------------------------------------------------------------------
(* The transactions that are created, and what they do to the records.     *)

LEMMA WithdrawWrites ==
    ASSUME FamilyInv, BodiesOK, NEW t \in Tx, NEW a \in Account, NEW amount \in Amount,
           NEW inputs \in SUBSET DOMAIN utxos, NEW gas_fee \in Gas,
           Withdraw(t, a, amount, inputs, gas_fee)
    PROVE  /\ amount \in Nat /\ gas_fee \in Nat
           /\ get_fee(amount) \in Nat /\ get_fee(amount) <= amount
           /\ amount - get_fee(amount) \in Nat
           /\ WritesOriginal(t, "withdraw", amount, get_fee(amount), inputs, gas_fee,
                             amount - get_fee(amount))
  <1>1. amount \in Nat /\ gas_fee \in Nat
    BY ConstantsAssumption
  <1>2. get_fee(amount) \in Nat /\ gas_fee <= amount - get_fee(amount)
    BY <1>1, FeeTypes DEF Withdraw
  <1>3. get_fee(amount) <= amount /\ amount - get_fee(amount) \in Nat
    BY <1>1, <1>2
  <1>4. CreateOriginal(t, "withdraw", a, amount, get_fee(amount), inputs, gas_fee,
                       amount - get_fee(amount))
    BY DEF Withdraw
  <1>5. QED
    BY <1>1, <1>2, <1>3, <1>4, OriginalCreated

LEMMA ManagementWrites ==
    ASSUME FamilyInv, BodiesOK, NEW t \in Tx, NEW a \in Account,
           NEW inputs \in SUBSET DOMAIN utxos, NEW gas_fee \in Gas,
           ActiveUtxoManagement(t, a, inputs, gas_fee)
    PROVE  /\ gas_fee \in Nat
           /\ WritesOriginal(t, "manage", 0, 0, inputs, gas_fee, gas_fee)
  <1>1. gas_fee \in Nat
    BY ConstantsAssumption
  <1>2. CreateOriginal(t, "manage", a, 0, 0, inputs, gas_fee, gas_fee)
    BY DEF ActiveUtxoManagement
  <1>3. QED
    BY <1>1, <1>2, OriginalCreated

LEMMA ReplaceableFields ==
    ASSUME FamilyInv, NEW o \in Tx, NEW kind, Replaceable(o, kind)
    PROVE  /\ Exists(o) /\ info[o] \in Info /\ info[o].kind = kind
           /\ info[o].max_gas_fee \in Nat
           /\ Prev(info[o]) \in Nat /\ PrevReserved(o) = Prev(info[o])
           /\ \A gas_fee \in Nat : /\ Excess(info[o], gas_fee) \in Nat
                                   /\ ExcessGas(o, gas_fee) = Excess(info[o], gas_fee)
  <1>1. Exists(o) /\ info[o] \in Info /\ info[o].kind = kind
    BY DEF Replaceable, IsOriginal, Exists, FamilyInv, FamilyTypes
  <1>2. QED
    BY <1>1, RecordFields DEF Prev, PrevReserved, Excess, ExcessGas

LEMMA RbfWrites ==
    ASSUME FamilyInv, RecordInv, NEW t \in Tx, NEW o \in Tx, NEW gas_fee \in Gas,
           WithdrawRbf(t, o, gas_fee)
    PROVE  \E paid \in Nat :
            /\ WritesReplacement(t, o, "rbf", "withdraw", paid, paid, gas_fee, None)
            /\ paid = info[o].transfer_amount - info[o].withdraw_fee
            /\ gas_fee \in Nat /\ Prev(info[o]) = 0 /\ Prev(info'[o]) = 0
  <1> DEFINE paid == info[o].transfer_amount - info[o].withdraw_fee
  <1>1. /\ Replaceable(o, "withdraw") /\ NotCanceled(o) /\ gas_fee <= paid
        /\ CreateReplacement(t, o, "rbf", paid, paid, gas_fee, None)
    BY DEF WithdrawRbf
  <1>2. gas_fee \in Nat /\ BodiesOK
    BY ConstantsAssumption DEF RecordInv
  <1>3. paid \in Nat
    BY <1>1, <1>2, ReplaceableFields, RecordFields
  <1> HIDE DEF paid
  <1>4. WritesReplacement(t, o, "rbf", "withdraw", paid, paid, gas_fee, None)
    BY <1>1, <1>2, <1>3, ReplacementCreated
  <1>5. Prev(info[o]) = 0
    BY <1>1 DEF NotCanceled, Prev
  <1>6. Prev(info'[o]) = 0
    BY <1>4 DEF WritesReplacement, Prev
  <1>7. QED
    BY <1>2, <1>3, <1>4, <1>5, <1>6 DEF paid

LEMMA CancelWrites ==
    ASSUME FamilyInv, RecordInv, NEW t \in Tx, NEW o \in Tx, NEW gas_fee \in CancelGas,
           NEW caller, CancelWithdraw(t, o, caller, gas_fee)
    PROVE  \E max_gas_fee \in Nat, reserved \in Nat :
            /\ WritesReplacement(t, o, "cancel", "withdraw", gas_fee, gas_fee, max_gas_fee,
                                 reserved)
            /\ gas_fee \in Nat /\ Prev(info'[o]) = reserved
            /\ reserved = max(Prev(info[o]), Excess(info[o], gas_fee))
            /\ AdditionalReserve(o, gas_fee) = reserved - Prev(info[o])
            /\ Prev(info[o]) \in Nat /\ Excess(info[o], gas_fee) \in Nat
  <1> DEFINE max_gas_fee == max(info[o].max_gas_fee, gas_fee)
             reserved == CancelReserve(o, gas_fee)
  <1>1. /\ Replaceable(o, "withdraw")
        /\ CreateReplacement(t, o, "cancel", gas_fee, gas_fee, max_gas_fee, reserved)
    BY DEF CancelWithdraw
  <1>2. gas_fee \in Nat /\ BodiesOK
    BY ConstantsAssumption DEF RecordInv
  <1>3. /\ info[o].max_gas_fee \in Nat /\ Prev(info[o]) \in Nat
        /\ Excess(info[o], gas_fee) \in Nat
        /\ PrevReserved(o) = Prev(info[o]) /\ ExcessGas(o, gas_fee) = Excess(info[o], gas_fee)
    BY <1>1, <1>2, ReplaceableFields
  <1>4. /\ max_gas_fee \in Nat /\ reserved \in Nat
        /\ reserved = max(Prev(info[o]), Excess(info[o], gas_fee))
        /\ AdditionalReserve(o, gas_fee) = reserved - Prev(info[o])
    BY <1>2, <1>3 DEF max, CancelReserve, AdditionalReserve, monus
  <1> HIDE DEF max_gas_fee, reserved
  <1>5. WritesReplacement(t, o, "cancel", "withdraw", gas_fee, gas_fee, max_gas_fee, reserved)
    BY <1>1, <1>2, <1>4, ReplacementCreated
  <1>6. Prev(info'[o]) = reserved
    BY <1>4, <1>5, NoneAssumption, RecordFields DEF WritesReplacement, Prev
  <1>7. QED
    BY <1>2, <1>3, <1>4, <1>5, <1>6

\* Management is replaced and cancelled alike.
LEMMA ManagementRbfWrites ==
    ASSUME FamilyInv, RecordInv, NEW t \in Tx, NEW o \in Tx, NEW gas_fee \in Nat,
           ActiveUtxoManagementRbf(t, o, gas_fee) \/ CancelActiveUtxoManagement(t, o, gas_fee)
    PROVE  \E role \in {"rbf", "cancel"}, reserved \in Nat \cup {None} :
            /\ WritesReplacement(t, o, role, "manage", gas_fee, gas_fee, gas_fee, reserved)
            /\ info[o].max_gas_fee \in Nat /\ info[o].max_gas_fee <= gas_fee
            /\ gas_fee - info[o].max_gas_fee \in Nat
            /\ Reserve(gas_fee - info[o].max_gas_fee)
  <1>1. /\ Replaceable(o, "manage") /\ gas_fee > info[o].max_gas_fee
        /\ Reserve(gas_fee - info[o].max_gas_fee)
    BY DEF ActiveUtxoManagementRbf, CancelActiveUtxoManagement
  <1>2. BodiesOK
    BY DEF RecordInv
  <1>3. info[o].max_gas_fee \in Nat
    BY <1>1, ReplaceableFields
  <1>4. PICK role \in {"rbf", "cancel"}, reserved \in Nat \cup {None} :
            CreateReplacement(t, o, role, gas_fee, gas_fee, gas_fee, reserved)
    <2>1. CASE ActiveUtxoManagementRbf(t, o, gas_fee)
      <3>1. CreateReplacement(t, o, "rbf", gas_fee, gas_fee, gas_fee, None)
        BY <2>1 DEF ActiveUtxoManagementRbf
      <3>2. QED
        BY <3>1
    <2>2. CASE CancelActiveUtxoManagement(t, o, gas_fee)
      <3>1. CreateReplacement(t, o, "cancel", gas_fee, gas_fee, gas_fee, 0)
        BY <2>2 DEF CancelActiveUtxoManagement
      <3>2. 0 \in Nat
        OBVIOUS
      <3>3. QED
        BY <3>1, <3>2
    <2>3. QED
      BY <2>1, <2>2
  <1>5. WritesReplacement(t, o, role, "manage", gas_fee, gas_fee, gas_fee, reserved)
    BY <1>1, <1>2, <1>4, ReplacementCreated
  <1>6. info[o].max_gas_fee <= gas_fee /\ gas_fee - info[o].max_gas_fee \in Nat
    BY <1>1, <1>3
  <1>7. QED
    BY <1>1, <1>3, <1>5, <1>6

LEMMA CreateRecordInv ==
    ASSUME FamilyInv, FamilyInv', RecordInv, NEW t \in Tx, Create(t)
    PROVE  RecordInv'
  <1>1. Gas \subseteq Nat /\ CancelGas \subseteq Nat /\ BodiesOK /\ 0 \in Nat
    BY ConstantsAssumption DEF RecordInv
  <1>2. ASSUME NEW a \in Account, NEW inputs \in SUBSET DOMAIN utxos, NEW gas_fee \in Gas,
               NEW amount \in Amount, Withdraw(t, a, amount, inputs, gas_fee)
        PROVE  RecordInv'
    BY <1>1, <1>2, WithdrawWrites, OriginalRecordInv
  <1>3. ASSUME NEW a \in Account, NEW inputs \in SUBSET DOMAIN utxos, NEW gas_fee \in Gas,
               ActiveUtxoManagement(t, a, inputs, gas_fee)
        PROVE  RecordInv'
    BY <1>1, <1>3, ManagementWrites, OriginalRecordInv
  <1>4. ASSUME NEW o \in Tx, NEW gas_fee \in Gas, WithdrawRbf(t, o, gas_fee)
        PROVE  RecordInv'
    <2>1. PICK paid \in Nat :
            /\ WritesReplacement(t, o, "rbf", "withdraw", paid, paid, gas_fee, None)
            /\ paid = info[o].transfer_amount - info[o].withdraw_fee
            /\ gas_fee \in Nat /\ Prev(info[o]) = 0 /\ Prev(info'[o]) = 0
      BY <1>4, RbfWrites
    <2>2. Prev(info[o]) <= Prev(info'[o])
      BY <2>1
    <2>3. QED
      BY <2>1, <2>2, ReplacementRecordInv
  <1>5. ASSUME NEW o \in Tx, NEW gas_fee \in Nat,
               ActiveUtxoManagementRbf(t, o, gas_fee) \/ CancelActiveUtxoManagement(t, o, gas_fee)
        PROVE  RecordInv'
    <2>1. PICK role \in {"rbf", "cancel"}, reserved \in Nat \cup {None} :
            /\ WritesReplacement(t, o, role, "manage", gas_fee, gas_fee, gas_fee, reserved)
            /\ info[o].max_gas_fee <= gas_fee
      BY <1>5, ManagementRbfWrites
    <2>2. gas_fee <= gas_fee
      OBVIOUS
    <2>3. QED
      BY <2>1, <2>2, ReplacementRecordInv
  <1>6. ASSUME NEW o \in Tx, NEW gas_fee \in CancelGas, NEW caller \in Account,
               CancelWithdraw(t, o, caller, gas_fee)
        PROVE  RecordInv'
    <2>1. PICK max_gas_fee \in Nat, reserved \in Nat :
            /\ WritesReplacement(t, o, "cancel", "withdraw", gas_fee, gas_fee, max_gas_fee,
                                 reserved)
            /\ gas_fee \in Nat /\ Prev(info'[o]) = reserved
            /\ reserved = max(Prev(info[o]), Excess(info[o], gas_fee))
            /\ Prev(info[o]) \in Nat /\ Excess(info[o], gas_fee) \in Nat
      BY <1>6, CancelWrites
    <2>2. Prev(info[o]) <= Prev(info'[o]) /\ Excess(info[o], gas_fee) <= Prev(info'[o])
      BY <2>1 DEF max
    <2>3. QED
      BY <2>1, <2>2, ReplacementRecordInv
  <1>7. QED
    BY <1>1, <1>2, <1>3, <1>4, <1>5, <1>6 DEF Create

\* A step that changes no amount of a record, and drops replacements only.
LEMMA QuietRecordInv ==
    ASSUME FamilyInv, FamilyInv', RecordInv, body' = body, utxos' = utxos,
           confirmed' = confirmed,
           \A x \in Tx : IsOriginal(x) => Exists(x)',
           \A x \in Tx : Exists(x)' => Exists(x) /\ Covers(info'[x], info[x])
    PROVE  RecordInv'
  <1>1. FamilyTypes' /\ \A x \in DOMAIN body : body'[x] = body[x]
    BY DEF FamilyInv
  <1>2. BodiesOK'
    BY DEF RecordInv, BodiesOK
  <1>3. RecordsOK'
    BY <1>1, RecordsStep
  <1>4. \A x \in Tx : Exists(x)' =>
            Exists(x) /\ info'[x].original_tx_id = info[x].original_tx_id
    BY DEF Covers
  <1>5. OrphansLost'
    BY <1>1, <1>4, OrphansStep
  <1>6. QED
    BY <1>2, <1>3, <1>5 DEF RecordInv

\* The amounts of a record say what its family costs.
SameCosts(q, r) ==
    /\ q.kind = r.kind /\ q.role = r.role /\ q.original_tx_id = r.original_tx_id
    /\ q.transfer_amount = r.transfer_amount /\ q.withdraw_fee = r.withdraw_fee
    /\ q.burn_amount = r.burn_amount /\ q.max_gas_fee = r.max_gas_fee
    /\ q.cancel_rbf_reserved = r.cancel_rbf_reserved

\* A step that moves no record but in its stage and signatures.
QuietStep ==
    /\ body' = body /\ utxos' = utxos
    /\ \A x \in Tx : (Exists(x)' <=> Exists(x)) /\ (Exists(x) => SameCosts(info'[x], info[x]))

LEMMA SameCostsCover ==
    ASSUME NEW r \in Info, NEW q, SameCosts(q, r)
    PROVE  Covers(q, r)
  <1>1. Prev(q) = Prev(r)
    BY DEF SameCosts, Prev
  <1>2. QED
    BY <1>1, RecordFields DEF SameCosts, Covers

LEMMA QuietStepRecordInv ==
    ASSUME FamilyInv, FamilyInv', RecordInv, QuietStep, confirmed' = confirmed
    PROVE  RecordInv'
  <1>1. \A x \in Tx : Exists(x)' => Exists(x) /\ Covers(info'[x], info[x])
    BY SameCostsCover DEF QuietStep, FamilyInv, FamilyTypes, Exists
  <1>2. \A x \in Tx : IsOriginal(x) => Exists(x)'
    BY DEF QuietStep, IsOriginal
  <1>3. QED
    BY <1>1, <1>2, QuietRecordInv DEF QuietStep

LEMMA QuietWhenRecordsKept ==
    ASSUME info' = info, body' = body, utxos' = utxos
    PROVE  QuietStep
  BY DEF QuietStep, SameCosts, Exists

\* A record moves in its stage and signatures only.
LEMMA QuietWhenStaged ==
    ASSUME FamilyInv, body' = body, utxos' = utxos, NEW t \in Tx, Exists(t), NEW r,
           info' = [info EXCEPT ![t] = r], r # None, SameCosts(r, info[t])
    PROVE  QuietStep
  <1>1. info'[t] = r /\ \A x \in Tx : x # t => info'[x] = info[x]
    BY DEF FamilyInv, FamilyTypes
  <1>2. QED
    BY <1>1 DEF QuietStep, SameCosts, Exists

LEMMA QuietSigning ==
    ASSUME FamilyInv, NEW t \in Tx, NEW u \in Utxo,
           \/ SignBtcTransaction(t, u) \/ MpcSign(t, u) \/ SignFails(t, u)
           \/ SignBtcTransactionCallback(t, u)
    PROVE  QuietStep /\ confirmed' = confirmed
  <1>1. CASE SignBtcTransaction(t, u) \/ MpcSign(t, u) \/ SignFails(t, u)
    BY <1>1, QuietWhenRecordsKept
       DEF SignBtcTransaction, MpcSign, SignFails, contract, chain
  <1>2. CASE SignBtcTransactionCallback(t, u)
    <2> DEFINE r == [info[t] EXCEPT !.signatures = @ \cup {u},
                        !.stage = IF body[t].inputs \subseteq info[t].signatures \cup {u}
                                  THEN "PendingVerify" ELSE @]
    <2>1. /\ Exists(t) /\ info[t] \in Info /\ confirmed' = confirmed
          /\ body' = body /\ utxos' = utxos
      BY <1>2 DEF SignBtcTransactionCallback, Exists, FamilyInv, FamilyTypes, chain
    <2>2. info' = [info EXCEPT ![t] = r]
      BY <1>2, <2>1 DEF SignBtcTransactionCallback, FamilyInv, FamilyTypes
    <2>3. r \in Info /\ SameCosts(r, info[t])
      BY <2>1 DEF Info, SameCosts, Stage
    <2> HIDE DEF r
    <2>4. r # None
      BY <2>3, RecordFields
    <2>5. QED
      BY <2>1, <2>2, <2>3, <2>4, QuietWhenStaged
  <1>3. QED
    BY <1>1, <1>2

LEMMA QuietVerifying ==
    ASSUME FamilyInv, NEW t \in Tx,
           \/ VerifyWithdraw(t) \/ VerifyWithdrawCallback(t) \/ VerifyFails(t)
           \/ NbtcBurn(t) \/ BurnFails(t)
    PROVE  QuietStep /\ confirmed' = confirmed
  <1>1. CASE VerifyWithdraw(t) \/ VerifyFails(t) \/ NbtcBurn(t)
    BY <1>1, QuietWhenRecordsKept DEF VerifyWithdraw, VerifyFails, NbtcBurn, contract, chain
  <1>2. CASE VerifyWithdrawCallback(t) \/ BurnFails(t)
    <2>1. PICK stage \in {"PendingVerify", "PendingBurn"} :
            info' = [info EXCEPT ![t].stage = stage]
      BY <1>2 DEF VerifyWithdrawCallback, BurnFails
    <2> DEFINE r == [info[t] EXCEPT !.stage = stage]
    <2>2. /\ Exists(t) /\ info[t] \in Info /\ confirmed' = confirmed
          /\ body' = body /\ utxos' = utxos
      BY <1>2 DEF VerifyWithdrawCallback, BurnFails, AwaitsProof, Exists, FamilyInv, FamilyTypes,
         chain
    <2>3. info' = [info EXCEPT ![t] = r]
      BY <2>1, <2>2 DEF FamilyInv, FamilyTypes
    <2>4. r \in Info /\ SameCosts(r, info[t])
      BY <2>2 DEF Info, SameCosts, Stage
    <2> HIDE DEF r
    <2>5. r # None
      BY <2>4, RecordFields
    <2>6. QED
      BY <2>2, <2>3, <2>4, <2>5, QuietWhenStaged
  <1>3. QED
    BY <1>1, <1>2

LEMMA QuietTokens ==
    ASSUME TokenStep
    PROVE  QuietStep /\ confirmed' = confirmed
  <1>1. info' = info /\ body' = body /\ utxos' = utxos /\ confirmed' = confirmed
    BY DEF TokenStep, TransferSucceeds, TransferFails, ClaimLostFound, WithdrawProtocolFee,
       DepositProtocolFee, contract, chain
  <1>2. QED
    BY <1>1, QuietWhenRecordsKept

\* Forgetting a replacement whose family is settled.
LEMMA ForgetWrites ==
    ASSUME FamilyInv, NEW t \in Tx, SignOrphan(t) \/ ClearInvalidPendingVerifyRbf(t)
    PROVE  /\ Exists(t) /\ info[t].role # "original" /\ burning[t] = "none"
           /\ info'[t] = None /\ \A x \in Tx : x # t => info'[x] = info[x]
           /\ body' = body /\ utxos' = utxos /\ confirmed' = confirmed
           /\ burning' = burning
           /\ UNCHANGED <<fee, lost_found, token, transfers>>
  <1>1. Exists(t) /\ Forget(t) /\ info[t].stage \in {"PendingSign", "PendingVerify"}
    BY DEF SignOrphan, Orphan, ClearInvalidPendingVerifyRbf, Clearable
  <1>2. info[t].role # "original"
    BY <1>1
    DEF SignOrphan, Orphan, ClearInvalidPendingVerifyRbf, Clearable, FamilyInv, Families,
        InFamily
  <1>3. burning[t] = "none"
    BY <1>1 DEF FamilyInv, BurnsMatchStages
  <1>4. info'[t] = None /\ \A x \in Tx : x # t => info'[x] = info[x]
    BY <1>1 DEF Forget, FamilyInv, FamilyTypes
  <1>5. QED
    BY <1>1, <1>2, <1>3, <1>4 DEF Forget, chain, calls

LEMMA ForgetRecordInv ==
    ASSUME FamilyInv, FamilyInv', RecordInv, NEW t \in Tx,
           SignOrphan(t) \/ ClearInvalidPendingVerifyRbf(t)
    PROVE  RecordInv'
  <1>1. /\ info[t].role # "original"
        /\ info'[t] = None /\ \A x \in Tx : x # t => info'[x] = info[x]
        /\ body' = body /\ utxos' = utxos /\ confirmed' = confirmed
    BY ForgetWrites
  <1>2. \A x \in Tx : IsOriginal(x) => Exists(x)'
    BY <1>1 DEF IsOriginal, Exists
  <1>3. \A x \in Tx : Exists(x)' => Exists(x) /\ Covers(info'[x], info[x])
    BY <1>1, CoversSame DEF Exists, FamilyInv, FamilyTypes
  <1>4. QED
    BY <1>1, <1>2, <1>3, QuietRecordInv

\* What an orphan spends is spent: the chain does not confirm it.
LEMMA ConfirmRecordInv ==
    ASSUME FamilyInv, FamilyInv', RecordInv, NEW t \in Tx, Confirm(t)
    PROVE  RecordInv'
  <1>1. /\ info' = info /\ body' = body /\ utxos' = utxos
        /\ confirmed' = confirmed \cup {t} /\ t \in DOMAIN body
        /\ \A s \in confirmed : body[t].inputs \cap body[s].inputs = {}
    BY DEF Confirm, contract, Fresh
  <1>2. BodiesOK' /\ RecordsOK'
    BY <1>1 DEF RecordInv, BodiesOK, RecordsOK, RecordOK, Exists
  <1>3. ASSUME NEW x \in Tx, Exists(x), Orphan(x)
        PROVE  x # t /\ x \notin confirmed /\ \E s \in confirmed : body[s].inputs = body[x].inputs
    <2>1. x \notin confirmed /\ \E s \in confirmed : body[s].inputs = body[x].inputs
      BY <1>3 DEF RecordInv, OrphansLost, OrphanIsLost
    <2>2. body[t].inputs # {}
      BY <1>1 DEF FamilyInv, NoDoubleSpend
    <2>3. QED
      BY <1>1, <2>1, <2>2
  <1>4. OrphansLost'
    BY <1>1, <1>3 DEF OrphansLost, OrphanIsLost, Orphan, Exists
  <1>5. QED
    BY <1>2, <1>4 DEF RecordInv

\* What the settlement of t, in the family of o, writes.
WritesSettlement(t, o) ==
    /\ o \in Tx /\ o = info[t].original_tx_id
    /\ Exists(t) /\ Exists(o) /\ info[t] \in Info /\ info[o] \in Info
    /\ info[o].role = "original" /\ (t # o => info[t].role # "original")
    /\ burning[t] = "burned" /\ (t # o => burning[o] = "none")
    /\ t \in confirmed /\ t \in DOMAIN body /\ body[t] \in Body
    /\ body[o].inputs = body[t].inputs
    /\ info'[t] = None /\ info'[o] = None
    /\ \A x \in Tx : x # t /\ x # o => info'[x] = info[x]
    /\ burning'[t] = "none" /\ \A x \in Tx : x # t => burning'[x] = burning[x]
    /\ body' = body /\ confirmed' = confirmed
    /\ utxos' = IF body[t].change = 0 THEN utxos
                ELSE [u \in DOMAIN utxos \cup {t} |->
                        IF u = t THEN body[t].change ELSE utxos[u]]

LEMMA SettlementWrites ==
    ASSUME FamilyInv, BodiesOK, NEW t \in Tx, VerifyWithdrawBurnCallback(t)
    PROVE  WritesSettlement(t, info[t].original_tx_id)
  <1> DEFINE o == info[t].original_tx_id
  <1>1. /\ Exists(t) /\ Exists(o) /\ InFamily(t) /\ info[t] \in Info
        /\ t \in confirmed /\ o \in Tx /\ info[o] \in Info /\ t \in DOMAIN body
        /\ burning[t] = "burned"
    BY DEF VerifyWithdrawBurnCallback, Settleable, FamilyInv, BurnsMatchStages, Families,
           FamilyTypes, Exists, Info, InFamily
  <1>2. /\ info' = [info EXCEPT ![t] = None, ![o] = None]
        /\ burning' = [burning EXCEPT ![t] = "none"]
        /\ body' = body /\ confirmed' = confirmed
        /\ utxos' = IF body[t].change = 0 THEN utxos
                    ELSE [u \in DOMAIN utxos \cup {t} |->
                            IF u = t THEN body[t].change ELSE utxos[u]]
    BY DEF VerifyWithdrawBurnCallback, chain
  <1>3. /\ info'[t] = None /\ info'[o] = None
        /\ \A x \in Tx : x # t /\ x # o => info'[x] = info[x]
        /\ burning'[t] = "none" /\ \A x \in Tx : x # t => burning'[x] = burning[x]
    BY <1>1, <1>2 DEF FamilyInv, FamilyTypes
  <1>4. /\ body[o].inputs = body[t].inputs /\ body[t].inputs # {}
        /\ info[o].role = "original" /\ (t # o => info[t].role # "original")
    BY <1>1 DEF InFamily, FamilyInv, NoDoubleSpend
  <1>5. t # o => burning[o] = "none"
    BY <1>1, <1>4 DEF FamilyInv, BurnsMatchStages, NoDoubleSpend
  <1>6. body[t] \in Body
    BY <1>1 DEF BodiesOK
  <1> HIDE DEF o
  <1>7. QED
    BY <1>1, <1>2, <1>3, <1>4, <1>5, <1>6 DEF WritesSettlement, o

\* The rest of the family shares its inputs with the transaction that was confirmed.
LEMMA SettleRecordInv ==
    ASSUME FamilyInv, FamilyInv', RecordInv, NEW t \in Tx, NEW o, WritesSettlement(t, o)
    PROVE  RecordInv'
  <1>1. BodiesOK'
    <2>1. body[t].change \in Nat
      BY DEF WritesSettlement, Body
    <2> DEFINE change == body[t].change
    <2>2. utxos' = IF change = 0 THEN utxos
                   ELSE [u \in DOMAIN utxos \cup {t} |-> IF u = t THEN change ELSE utxos[u]]
      BY DEF WritesSettlement
    <2> HIDE DEF change
    <2>3. /\ DOMAIN utxos' \subseteq DOMAIN utxos \cup {t}
          /\ \A u \in DOMAIN utxos' :
                utxos'[u] = change \/ (u \in DOMAIN utxos /\ utxos'[u] = utxos[u])
      BY <2>2
    <2>4. body' = body
      BY DEF WritesSettlement
    <2>5. QED
      BY <2>1, <2>3, <2>4 DEF RecordInv, BodiesOK, Utxo, change
  <1>2. ASSUME NEW x \in Tx, Exists(x)'
        PROVE  x # t /\ x # o /\ info'[x] = info[x] /\ Exists(x) /\ info[x] \in Info
    BY <1>2 DEF WritesSettlement, Exists, FamilyInv, FamilyTypes
  <1>3. RecordsOK'
    <2>1. FamilyTypes' /\ \A x \in DOMAIN body : body'[x] = body[x]
      BY DEF FamilyInv, WritesSettlement
    <2>2. \A x \in Tx : Exists(x)' => Exists(x) /\ Covers(info'[x], info[x])
      BY <1>2, CoversSame
    <2>3. QED
      BY <2>1, <2>2, RecordsStep
  <1>4. ASSUME NEW x \in Tx, Exists(x)', Orphan(x)'
        PROVE  x \notin confirmed /\ \E s \in confirmed : body[s].inputs = body[x].inputs
    <2> DEFINE p == info[x].original_tx_id
    <2>1. /\ x # t /\ x # o /\ Exists(x) /\ ~Exists(p)' /\ p \in Tx /\ InFamily(x)
      BY <1>2, <1>4 DEF Orphan, FamilyInv, Families, Info
    <2>2. CASE ~Exists(p)
      BY <2>1, <2>2 DEF RecordInv, OrphansLost, OrphanIsLost, Orphan
    <2>3. CASE Exists(p)
      <3>1. p = t \/ p = o
        BY <2>1, <2>3 DEF WritesSettlement, Exists
      <3>2. info[p].role = "original"
        BY <2>1, <2>3 DEF InFamily
      <3>3. p = o
        BY <3>1, <3>2 DEF WritesSettlement
      <3>4. body[x].inputs = body[t].inputs /\ t \in confirmed /\ x \in DOMAIN body
        BY <2>1, <3>3 DEF InFamily, WritesSettlement
      <3>5. body[t].inputs # {} /\ (x \in confirmed => body[t].inputs \cap body[x].inputs = {})
        BY <2>1, <3>4 DEF FamilyInv, NoDoubleSpend
      <3>6. QED
        BY <3>4, <3>5
    <2>4. QED
      BY <2>2, <2>3
  <1>5. OrphansLost'
    BY <1>2, <1>4 DEF OrphansLost, OrphanIsLost, WritesSettlement
  <1>6. QED
    BY <1>1, <1>3, <1>5 DEF RecordInv

\* The amounts of every record fit its transaction and its family, in every state.
THEOREM RecordsInductive == Spec => []RecordInv
  <1>1. FamilyInv /\ FamilyInv' /\ RecordInv /\ [Next]_vars => RecordInv'
    <2> SUFFICES ASSUME FamilyInv, FamilyInv', RecordInv, [Next]_vars PROVE RecordInv'
      OBVIOUS
    <2>1. CASE UNCHANGED vars
      <3>1. QuietStep /\ confirmed' = confirmed
        BY <2>1, QuietWhenRecordsKept DEF vars, contract, chain
      <3>2. QED
        BY <3>1, QuietStepRecordInv
    <2>2. ASSUME NEW t \in Tx, Create(t) PROVE RecordInv'
      BY <2>2, CreateRecordInv
    <2>3. ASSUME NEW t \in Tx, SignStep(t) PROVE RecordInv'
      BY <2>3, QuietSigning, QuietStepRecordInv, ForgetRecordInv DEF SignStep
    <2>4. ASSUME NEW t \in Tx, Confirm(t) PROVE RecordInv'
      BY <2>4, ConfirmRecordInv
    <2>5. ASSUME NEW t \in Tx, BurnStep(t) PROVE RecordInv'
      <3>1. CASE VerifyWithdrawBurnCallback(t)
        <4>1. WritesSettlement(t, info[t].original_tx_id)
          BY <3>1, SettlementWrites DEF RecordInv
        <4>2. QED
          BY <4>1, SettleRecordInv
      <3>2. CASE ~VerifyWithdrawBurnCallback(t)
        BY <2>5, <3>2, QuietVerifying, QuietStepRecordInv DEF BurnStep
      <3>3. QED
        BY <3>1, <3>2
    <2>6. ASSUME NEW t \in Tx, ClearInvalidPendingVerifyRbf(t) PROVE RecordInv'
      BY <2>6, ForgetRecordInv
    <2>7. CASE TokenStep
      BY <2>7, QuietTokens, QuietStepRecordInv
    <2>8. QED
      BY <2>1, <2>2, <2>3, <2>4, <2>5, <2>6, <2>7 DEF Next
  <1>2. QED
    BY InitRecordInv, FamilyInductive, <1>1, PTL DEF Spec

-----------------------------------------------------------------------------
(* What is reserved, owed and locked for each record.                      *)

\* What a record reserves, what the bridge owes for it and what UTXOs it locks for
\* it, given how far its burn got and the value of its transaction's inputs.
ReserveOf(r) ==
    IF r = None \/ r.role # "original" THEN 0
    ELSE IF r.kind = "manage" THEN r.max_gas_fee ELSE Prev(r)
OwedFor(r, b) ==
    IF r = None THEN 0
    ELSE (IF r.role = "original" THEN r.transfer_amount ELSE 0)
            - (IF b = "burned" THEN r.burn_amount + RelayerFee(r.withdraw_fee) ELSE 0)
LockedFor(r, b, value) ==
    IF r = None THEN 0
    ELSE (IF r.role = "original" THEN value ELSE 0)
            - (IF b = "burned" THEN r.burn_amount ELSE 0)

Reserves == [t \in Tx |-> ReserveOf(info[t])]
Owed     == [t \in Tx |-> OwedFor(info[t], burning[t])]
Locked   == [t \in Tx |-> LockedFor(info[t], burning[t], body[t].value)]

TotalReserved == SumFunctionOnSet(Reserves, Tx)
TotalOwed     == SumFunctionOnSet(Owed, Tx)
TotalLocked   == SumFunctionOnSet(Locked, Tx)

LEMMA TxFinite == IsFiniteSet(Tx)
  BY ConstantsAssumption

LEMMA RelayerFeeType ==
    ASSUME NEW withdraw_fee \in Nat
    PROVE  /\ ProtocolFee(withdraw_fee) \in Nat
           /\ RelayerFee(withdraw_fee) \in Int
           /\ RelayerFee(withdraw_fee) + ProtocolFee(withdraw_fee) = withdraw_fee
  BY FeeTypes DEF RelayerFee

LEMMA EntryTypes ==
    ASSUME NEW r \in Info \cup {None}, NEW b, NEW value \in Nat
    PROVE  ReserveOf(r) \in Nat /\ OwedFor(r, b) \in Int /\ LockedFor(r, b, value) \in Int
  <1>1. CASE r = None
    BY <1>1 DEF ReserveOf, OwedFor, LockedFor
  <1>2. CASE r \in Info
    <2>1. /\ r # None /\ r.transfer_amount \in Nat /\ r.burn_amount \in Nat
          /\ r.max_gas_fee \in Nat /\ Prev(r) \in Nat
          /\ RelayerFee(r.withdraw_fee) \in Int
      BY <1>2, RecordFields, RelayerFeeType
    <2>2. QED
      BY <2>1 DEF ReserveOf, OwedFor, LockedFor
  <1>3. QED
    BY <1>1, <1>2

LEMMA TableTypes ==
    ASSUME FamilyInv, BodiesOK
    PROVE  /\ \A t \in Tx : Reserves[t] \in Nat /\ Owed[t] \in Int /\ Locked[t] \in Int
           /\ TotalReserved \in Nat /\ TotalOwed \in Int /\ TotalLocked \in Int
  <1>1. ASSUME NEW t \in Tx
        PROVE  Reserves[t] \in Nat /\ Owed[t] \in Int /\ Locked[t] \in Int
    <2>1. /\ Reserves[t] = ReserveOf(info[t]) /\ Owed[t] = OwedFor(info[t], burning[t])
          /\ Locked[t] = LockedFor(info[t], burning[t], body[t].value)
      BY DEF Reserves, Owed, Locked
    <2>2. CASE ~Exists(t)
      BY <2>1, <2>2 DEF Exists, ReserveOf, OwedFor, LockedFor
    <2>3. CASE Exists(t)
      <3>1. info[t] \in Info /\ t \in DOMAIN body
        BY <2>3 DEF FamilyInv, FamilyTypes, Families, InFamily, Exists
      <3>2. body[t].value \in Nat
        BY <3>1 DEF BodiesOK, Body
      <3>3. QED
        BY <2>1, <3>1, <3>2, EntryTypes
    <2>4. QED
      BY <2>2, <2>3
  <1>2. QED
    BY <1>1, TxFinite, SumNat, SumType DEF TotalReserved, TotalOwed, TotalLocked

\* The same, after a step.
LEMMA TableTypesAfter ==
    ASSUME FamilyInv', BodiesOK'
    PROVE  /\ \A t \in Tx : Reserves'[t] \in Nat /\ Owed'[t] \in Int /\ Locked'[t] \in Int
           /\ TotalReserved' \in Nat /\ TotalOwed' \in Int /\ TotalLocked' \in Int
  <1>1. ASSUME NEW t \in Tx
        PROVE  Reserves'[t] \in Nat /\ Owed'[t] \in Int /\ Locked'[t] \in Int
    <2>1. /\ Reserves'[t] = ReserveOf(info'[t]) /\ Owed'[t] = OwedFor(info'[t], burning'[t])
          /\ Locked'[t] = LockedFor(info'[t], burning'[t], body'[t].value)
      BY DEF Reserves, Owed, Locked
    <2>2. CASE ~Exists(t)'
      BY <2>1, <2>2 DEF Exists, ReserveOf, OwedFor, LockedFor
    <2>3. CASE Exists(t)'
      <3>1. info'[t] \in Info /\ t \in DOMAIN body'
        BY <2>3 DEF FamilyInv, FamilyTypes, Families, InFamily, Exists
      <3>2. body'[t].value \in Nat
        BY <3>1 DEF BodiesOK, Body
      <3>3. QED
        BY <2>1, <3>1, <3>2, EntryTypes
    <2>4. QED
      BY <2>2, <2>3
  <1>2. QED
    BY <1>1, TxFinite, SumNat, SumType DEF TotalReserved, TotalOwed, TotalLocked

\* The entries of x stay as they are.
SameEntries(x) ==
    Reserves'[x] = Reserves[x] /\ Owed'[x] = Owed[x] /\ Locked'[x] = Locked[x]

\* The totals change as do the entries of the two records that a step changes at most.
LEMMA TotalsStep ==
    ASSUME FamilyInv, BodiesOK, FamilyInv', BodiesOK', NEW t \in Tx, NEW o \in Tx,
           \A x \in Tx : x # t /\ x # o => SameEntries(x),
           NEW reserved \in Int, NEW owed \in Int, NEW locked \in Int,
           t = o => /\ Reserves'[t] = Reserves[t] + reserved
                    /\ Owed'[t] = Owed[t] + owed
                    /\ Locked'[t] = Locked[t] + locked,
           t # o => /\ Reserves'[t] + Reserves'[o] = Reserves[t] + Reserves[o] + reserved
                    /\ Owed'[t] + Owed'[o] = Owed[t] + Owed[o] + owed
                    /\ Locked'[t] + Locked'[o] = Locked[t] + Locked[o] + locked
    PROVE  /\ TotalReserved' = TotalReserved + reserved
           /\ TotalOwed' = TotalOwed + owed
           /\ TotalLocked' = TotalLocked + locked
  <1>1. \A x \in Tx : Reserves[x] \in Nat /\ Owed[x] \in Int /\ Locked[x] \in Int
    BY TableTypes
  <1>2. \A x \in Tx : Reserves'[x] \in Nat /\ Owed'[x] \in Int /\ Locked'[x] \in Int
    BY TableTypesAfter
  <1>3. TotalReserved' = TotalReserved + reserved
    <2>1. /\ \A x \in Tx : Reserves[x] \in Int /\ Reserves'[x] \in Int
          /\ \A x \in Tx : x # t /\ x # o => Reserves'[x] = Reserves[x]
      BY <1>1, <1>2 DEF SameEntries
    <2>2. /\ t = o => Reserves'[t] = Reserves[t] + reserved
          /\ t # o => Reserves'[t] + Reserves'[o] = Reserves[t] + Reserves[o] + reserved
      OBVIOUS
    <2>3. SumFunctionOnSet(Reserves', Tx) = SumFunctionOnSet(Reserves, Tx) + reserved
      BY ONLY <2>1, <2>2, TxFinite, t \in Tx, o \in Tx, reserved \in Int, SumChangeTwo
    <2>4. QED
      BY <2>3 DEF TotalReserved
  <1>4. TotalOwed' = TotalOwed + owed
    <2>1. /\ \A x \in Tx : Owed[x] \in Int /\ Owed'[x] \in Int
          /\ \A x \in Tx : x # t /\ x # o => Owed'[x] = Owed[x]
      BY <1>1, <1>2 DEF SameEntries
    <2>2. /\ t = o => Owed'[t] = Owed[t] + owed
          /\ t # o => Owed'[t] + Owed'[o] = Owed[t] + Owed[o] + owed
      OBVIOUS
    <2>3. SumFunctionOnSet(Owed', Tx) = SumFunctionOnSet(Owed, Tx) + owed
      BY ONLY <2>1, <2>2, TxFinite, t \in Tx, o \in Tx, owed \in Int, SumChangeTwo
    <2>4. QED
      BY <2>3 DEF TotalOwed
  <1>5. TotalLocked' = TotalLocked + locked
    <2>1. /\ \A x \in Tx : Locked[x] \in Int /\ Locked'[x] \in Int
          /\ \A x \in Tx : x # t /\ x # o => Locked'[x] = Locked[x]
      BY <1>1, <1>2 DEF SameEntries
    <2>2. /\ t = o => Locked'[t] = Locked[t] + locked
          /\ t # o => Locked'[t] + Locked'[o] = Locked[t] + Locked[o] + locked
      OBVIOUS
    <2>3. SumFunctionOnSet(Locked', Tx) = SumFunctionOnSet(Locked, Tx) + locked
      BY ONLY <2>1, <2>2, TxFinite, t \in Tx, o \in Tx, locked \in Int, SumChangeTwo
    <2>4. QED
      BY <2>3 DEF TotalLocked
  <1>6. QED
    BY <1>3, <1>4, <1>5

\* The entries of a record, and of the record after a step.
LEMMA Entries ==
    ASSUME NEW t \in Tx
    PROVE  /\ Reserves[t] = ReserveOf(info[t]) /\ Owed[t] = OwedFor(info[t], burning[t])
           /\ Locked[t] = LockedFor(info[t], burning[t], body[t].value)
           /\ Reserves'[t] = ReserveOf(info'[t]) /\ Owed'[t] = OwedFor(info'[t], burning'[t])
           /\ Locked'[t] = LockedFor(info'[t], burning'[t], body'[t].value)
  BY DEF Reserves, Owed, Locked

LEMMA EntriesKept ==
    ASSUME FamilyInv, NEW t \in Tx, info'[t] = info[t], burning'[t] = burning[t],
           t \in DOMAIN body => body'[t] = body[t]
    PROVE  SameEntries(t)
  <1>1. Reserves'[t] = Reserves[t] /\ Owed'[t] = Owed[t]
    BY Entries
  <1>2. Locked'[t] = Locked[t]
    <2>1. CASE info[t] = None
      BY <2>1, Entries DEF LockedFor
    <2>2. CASE info[t] # None
      BY <2>2, Entries DEF FamilyInv, Families, InFamily, Exists
    <2>3. QED
      BY <2>1, <2>2
  <1>3. QED
    BY <1>1, <1>2 DEF SameEntries

\* A step that moves records in their stages and signatures, and burns nothing.
LEMMA QuietTotals ==
    ASSUME FamilyInv, BodiesOK, FamilyInv', BodiesOK', QuietStep,
           \A x \in Tx : burning'[x] = "burned" <=> burning[x] = "burned"
    PROVE  /\ TotalReserved' = TotalReserved /\ TotalOwed' = TotalOwed
           /\ TotalLocked' = TotalLocked
  <1>1. ASSUME NEW x \in Tx
        PROVE  /\ Reserves'[x] = Reserves[x] /\ Owed'[x] = Owed[x] /\ Locked'[x] = Locked[x]
    <2>1. CASE info[x] = None
      <3>1. info'[x] = None
        BY <2>1 DEF QuietStep, Exists
      <3>2. QED
        BY <2>1, <3>1, Entries DEF ReserveOf, OwedFor, LockedFor
    <2>2. CASE info[x] # None
      <3>1. info'[x] # None /\ SameCosts(info'[x], info[x]) /\ body'[x] = body[x]
        BY <2>2 DEF QuietStep, Exists
      <3>2. Prev(info'[x]) = Prev(info[x])
        BY <3>1 DEF SameCosts, Prev
      <3>3. ReserveOf(info'[x]) = ReserveOf(info[x])
        BY <2>2, <3>1, <3>2 DEF ReserveOf, SameCosts
      <3>4. OwedFor(info'[x], burning'[x]) = OwedFor(info[x], burning[x])
        BY <2>2, <3>1 DEF OwedFor, SameCosts
      <3>5. LockedFor(info'[x], burning'[x], body'[x].value)
                = LockedFor(info[x], burning[x], body[x].value)
        BY <2>2, <3>1 DEF LockedFor, SameCosts
      <3>6. QED
        BY <3>3, <3>4, <3>5, Entries
    <2>3. QED
      BY <2>1, <2>2
  <1>2. /\ SumFunctionOnSet(Reserves', Tx) = SumFunctionOnSet(Reserves, Tx)
        /\ SumFunctionOnSet(Owed', Tx) = SumFunctionOnSet(Owed, Tx)
        /\ SumFunctionOnSet(Locked', Tx) = SumFunctionOnSet(Locked, Tx)
    BY <1>1, TxFinite, SumSame
  <1>3. QED
    BY <1>2 DEF TotalReserved, TotalOwed, TotalLocked

LEMMA OriginalTotals ==
    ASSUME FamilyInv, BodiesOK, FamilyInv', BodiesOK', NEW t \in Tx,
           NEW kind \in {"withdraw", "manage"}, NEW amount \in Nat, NEW withdraw_fee,
           NEW inputs, NEW gas_fee \in Nat, NEW burn_amount,
           WritesOriginal(t, kind, amount, withdraw_fee, inputs, gas_fee, burn_amount)
    PROVE  /\ TotalReserved' = TotalReserved + (IF kind = "manage" THEN gas_fee ELSE 0)
           /\ TotalOwed' = TotalOwed + amount
           /\ TotalLocked' = TotalLocked + ValueOf(inputs)
  <1> DEFINE reserved == IF kind = "manage" THEN gas_fee ELSE 0
  <1>1. /\ info[t] = None /\ t \notin DOMAIN body /\ burning'[t] = "none"
        /\ info'[t] # None /\ info'[t].role = "original" /\ info'[t].kind = kind
        /\ info'[t].transfer_amount = amount /\ info'[t].max_gas_fee = gas_fee
        /\ Prev(info'[t]) = 0
        /\ body'[t].value = ValueOf(inputs) /\ ValueOf(inputs) \in Nat
    BY RecordFields DEF WritesOriginal, Prev
  <1>2. ASSUME NEW x \in Tx, x # t
        PROVE  SameEntries(x)
    <2>1. /\ info'[x] = info[x] /\ burning'[x] = burning[x]
          /\ (x \in DOMAIN body => body'[x] = body[x])
      BY <1>2 DEF WritesOriginal
    <2>2. QED
      BY <2>1, EntriesKept
  <1>3. Reserves[t] = 0 /\ Owed[t] = 0 /\ Locked[t] = 0
    BY <1>1, Entries DEF ReserveOf, OwedFor, LockedFor
  <1>4. Reserves'[t] = reserved /\ Owed'[t] = amount /\ Locked'[t] = ValueOf(inputs)
    BY <1>1, Entries DEF ReserveOf, OwedFor, LockedFor
  <1>5. reserved \in Int /\ amount \in Int /\ ValueOf(inputs) \in Int
    BY <1>1
  <1>6. /\ Reserves'[t] = Reserves[t] + reserved /\ Owed'[t] = Owed[t] + amount
        /\ Locked'[t] = Locked[t] + ValueOf(inputs)
    BY <1>3, <1>4, <1>5
  <1> HIDE DEF reserved
  <1>7. /\ TotalReserved' = TotalReserved + reserved
        /\ TotalOwed' = TotalOwed + amount
        /\ TotalLocked' = TotalLocked + ValueOf(inputs)
    BY <1>2, <1>5, <1>6, TotalsStep
  <1>8. QED
    BY <1>7 DEF reserved

LEMMA ReplacementTotals ==
    ASSUME FamilyInv, BodiesOK, FamilyInv', BodiesOK', NEW t \in Tx, NEW o \in Tx,
           NEW role \in {"rbf", "cancel"}, NEW kind, NEW cost, NEW burn_amount,
           NEW max_gas_fee \in Nat, NEW reserved,
           WritesReplacement(t, o, role, kind, cost, burn_amount, max_gas_fee, reserved)
    PROVE  /\ TotalReserved' = TotalReserved
                + (IF kind = "manage" THEN max_gas_fee - info[o].max_gas_fee
                                      ELSE Prev(info'[o]) - Prev(info[o]))
           /\ TotalOwed' = TotalOwed /\ TotalLocked' = TotalLocked
  <1> DEFINE d == IF kind = "manage" THEN max_gas_fee - info[o].max_gas_fee
                                     ELSE Prev(info'[o]) - Prev(info[o])
  <1>1. /\ t # o /\ info[t] = None /\ t \notin DOMAIN body /\ o \in DOMAIN body
        /\ burning'[t] = "none" /\ burning'[o] = "none" /\ burning[o] = "none"
        /\ info'[t].role = role /\ body'[o] = body[o] /\ body[o].value \in Nat
        /\ info[o].role = "original" /\ info[o].kind = kind
        /\ info'[o].role = "original" /\ info'[o].kind = kind
        /\ info'[o].max_gas_fee = max_gas_fee
        /\ info'[o].transfer_amount = info[o].transfer_amount
    BY DEF WritesReplacement
  <1>2. /\ info'[t] # None /\ info[o] # None /\ info'[o] # None
        /\ info[o].max_gas_fee \in Nat /\ info[o].transfer_amount \in Nat
        /\ Prev(info[o]) \in Nat /\ Prev(info'[o]) \in Nat
    BY RecordFields DEF WritesReplacement
  <1>3. ASSUME NEW x \in Tx, x # t, x # o
        PROVE  SameEntries(x)
    <2>1. /\ info'[x] = info[x] /\ burning'[x] = burning[x]
          /\ (x \in DOMAIN body => body'[x] = body[x])
      BY <1>3 DEF WritesReplacement
    <2>2. QED
      BY <2>1, EntriesKept
  <1>4. /\ Reserves[t] = 0 /\ Owed[t] = 0 /\ Locked[t] = 0
        /\ Reserves'[t] = 0 /\ Owed'[t] = 0 /\ Locked'[t] = 0
    BY <1>1, <1>2, Entries DEF ReserveOf, OwedFor, LockedFor
  <1>5. /\ Reserves[o] = IF kind = "manage" THEN info[o].max_gas_fee ELSE Prev(info[o])
        /\ Reserves'[o] = IF kind = "manage" THEN max_gas_fee ELSE Prev(info'[o])
    BY <1>1, <1>2, Entries DEF ReserveOf
  <1>6. /\ Owed[o] = info[o].transfer_amount /\ Owed'[o] = info[o].transfer_amount
        /\ Locked[o] = body[o].value /\ Locked'[o] = body[o].value
    BY <1>1, <1>2, Entries DEF OwedFor, LockedFor
  <1>7. d \in Int /\ 0 \in Int
    BY <1>2
  <1>8. /\ Reserves'[t] + Reserves'[o] = Reserves[t] + Reserves[o] + d
        /\ Owed'[t] + Owed'[o] = Owed[t] + Owed[o] + 0
        /\ Locked'[t] + Locked'[o] = Locked[t] + Locked[o] + 0
    BY <1>1, <1>2, <1>4, <1>5, <1>6
  <1> HIDE DEF d
  <1>9. /\ TotalReserved' = TotalReserved + d
        /\ TotalOwed' = TotalOwed + 0 /\ TotalLocked' = TotalLocked + 0
    BY <1>1, <1>3, <1>7, <1>8, TotalsStep
  <1>10. QED
    BY <1>9, TableTypes DEF d

LEMMA BurnTotals ==
    ASSUME FamilyInv, BodiesOK, FamilyInv', BodiesOK', NEW t \in Tx, NbtcBurn(t)
    PROVE  /\ info[t] \in Info
           /\ TotalReserved' = TotalReserved
           /\ TotalOwed' = TotalOwed - (info[t].burn_amount + RelayerFee(info[t].withdraw_fee))
           /\ TotalLocked' = TotalLocked - info[t].burn_amount
  <1> DEFINE burnt == info[t].burn_amount
             relayed == RelayerFee(info[t].withdraw_fee)
  <1>1. /\ info' = info /\ body' = body /\ burning[t] = "called"
        /\ burning'[t] = "burned" /\ \A x \in Tx : x # t => burning'[x] = burning[x]
    BY DEF NbtcBurn, contract, FamilyInv, FamilyTypes
  <1>2. info[t] \in Info /\ info[t] # None /\ t \in DOMAIN body
    BY <1>1 DEF FamilyInv, FamilyTypes, BurnsMatchStages, Families, InFamily, Exists
  <1>3. burnt \in Nat /\ relayed \in Int /\ info[t].transfer_amount \in Nat /\ body[t].value \in Nat
    BY <1>2, RecordFields, RelayerFeeType DEF BodiesOK, Body
  <1>4. ASSUME NEW x \in Tx, x # t
        PROVE  SameEntries(x)
    BY <1>1, <1>4, EntriesKept
  <1>5. /\ Reserves'[t] = ReserveOf(info[t]) /\ Reserves[t] = ReserveOf(info[t])
        /\ ReserveOf(info[t]) \in Nat
    BY <1>1, <1>2, <1>3, Entries, EntryTypes
  <1>6. /\ Owed[t] = IF info[t].role = "original" THEN info[t].transfer_amount ELSE 0
        /\ Owed'[t] = (IF info[t].role = "original" THEN info[t].transfer_amount ELSE 0)
                        - (burnt + relayed)
        /\ Locked[t] = IF info[t].role = "original" THEN body[t].value ELSE 0
        /\ Locked'[t] = (IF info[t].role = "original" THEN body[t].value ELSE 0) - burnt
    BY <1>1, <1>2, <1>3, Entries DEF OwedFor, LockedFor
  <1> HIDE DEF burnt, relayed
  <1>7. /\ 0 \in Int /\ 0 - (burnt + relayed) \in Int /\ 0 - burnt \in Int
    BY <1>3
  <1>8. /\ Reserves'[t] = Reserves[t] + 0
        /\ Owed'[t] = Owed[t] + (0 - (burnt + relayed))
        /\ Locked'[t] = Locked[t] + (0 - burnt)
    BY <1>3, <1>5, <1>6
  <1>9. /\ TotalReserved' = TotalReserved + 0
        /\ TotalOwed' = TotalOwed + (0 - (burnt + relayed))
        /\ TotalLocked' = TotalLocked + (0 - burnt)
    BY <1>4, <1>7, <1>8, TotalsStep
  <1>10. /\ TotalReserved' = TotalReserved
         /\ TotalOwed' = TotalOwed - (burnt + relayed)
         /\ TotalLocked' = TotalLocked - burnt
    BY <1>3, <1>9, TableTypes
  <1>11. QED
    BY <1>2, <1>10 DEF burnt, relayed

LEMMA SettlementTotals ==
    ASSUME FamilyInv, RecordInv, FamilyInv', BodiesOK', NEW t \in Tx, NEW o \in Tx,
           WritesSettlement(t, o)
    PROVE  /\ TotalReserved' = TotalReserved - ReserveOf(info[o])
           /\ TotalOwed' = TotalOwed - info[t].transfer_amount
                            + (info[t].burn_amount + RelayerFee(info[t].withdraw_fee))
           /\ TotalLocked' = TotalLocked - body[t].change
  <1> DEFINE burnt == info[t].burn_amount
             relayed == RelayerFee(info[t].withdraw_fee)
             amount == info[t].transfer_amount
             change == body[t].change
             value == body[t].value
             reserve == ReserveOf(info[o])
  <1>1. /\ info[t] \in Info /\ info[t] # None /\ info[o] \in Info /\ info[o] # None
        /\ info[o].role = "original" /\ (t # o => info[t].role # "original")
        /\ burning[t] = "burned" /\ (t # o => burning[o] = "none")
        /\ info'[t] = None /\ info'[o] = None
        /\ BodiesOK
    BY RecordFields DEF WritesSettlement, RecordInv
  <1>2. RecordOK(t) /\ o = info[t].original_tx_id /\ Exists(o) /\ body[t] \in Body
    BY DEF WritesSettlement, RecordInv, RecordsOK
  <1>3. /\ AmountsFit(info[t], body[t]) /\ FamilyFits(info[t], body[t], info[o], body[o])
    BY <1>2 DEF RecordOK
  <1>4. change + burnt = value /\ body[o].value = value /\ info[o].transfer_amount = amount
    BY <1>3 DEF AmountsFit, FamilyFits
  <1>5. /\ burnt \in Nat /\ relayed \in Int /\ amount \in Nat
        /\ change \in Nat /\ value \in Nat /\ reserve \in Nat
    BY <1>1, <1>2, RecordFields, RelayerFeeType, EntryTypes DEF Body
  <1>6. ASSUME NEW x \in Tx, x # t, x # o
        PROVE  SameEntries(x)
    <2>1. info'[x] = info[x] /\ burning'[x] = burning[x] /\ body' = body
      BY <1>6 DEF WritesSettlement
    <2>2. QED
      BY <2>1, EntriesKept
  <1>7. /\ Reserves'[t] = 0 /\ Owed'[t] = 0 /\ Locked'[t] = 0
        /\ Reserves'[o] = 0 /\ Owed'[o] = 0 /\ Locked'[o] = 0
    BY <1>1, Entries DEF ReserveOf, OwedFor, LockedFor
  <1>8. /\ Reserves[o] = reserve
        /\ t # o => Reserves[t] = 0
    BY <1>1, Entries DEF ReserveOf
  <1>9. /\ t = o => Owed[t] = amount - (burnt + relayed) /\ Locked[t] = value - burnt
        /\ t # o => /\ Owed[t] = 0 - (burnt + relayed) /\ Owed[o] = amount
                    /\ Locked[t] = 0 - burnt /\ Locked[o] = value
    BY <1>1, <1>4, <1>5, Entries DEF OwedFor, LockedFor
  <1> HIDE DEF burnt, relayed, amount, change, value, reserve
  <1>10. /\ 0 - reserve \in Int /\ (burnt + relayed) - amount \in Int /\ 0 - change \in Int
    BY <1>5
  <1>11. /\ t = o => /\ Reserves'[t] = Reserves[t] + (0 - reserve)
                     /\ Owed'[t] = Owed[t] + ((burnt + relayed) - amount)
                     /\ Locked'[t] = Locked[t] + (0 - change)
         /\ t # o => /\ Reserves'[t] + Reserves'[o] = Reserves[t] + Reserves[o] + (0 - reserve)
                     /\ Owed'[t] + Owed'[o] = Owed[t] + Owed[o] + ((burnt + relayed) - amount)
                     /\ Locked'[t] + Locked'[o] = Locked[t] + Locked[o] + (0 - change)
    BY <1>4, <1>5, <1>7, <1>8, <1>9
  <1>12. /\ TotalReserved' = TotalReserved + (0 - reserve)
         /\ TotalOwed' = TotalOwed + ((burnt + relayed) - amount)
         /\ TotalLocked' = TotalLocked + (0 - change)
    BY <1>1, <1>6, <1>10, <1>11, TotalsStep
  <1>13. /\ TotalReserved \in Nat /\ TotalOwed \in Int /\ TotalLocked \in Int
    BY <1>1, TableTypes
  <1>14. /\ TotalReserved' = TotalReserved - reserve
         /\ TotalOwed' = TotalOwed - amount + (burnt + relayed)
         /\ TotalLocked' = TotalLocked - change
    BY <1>5, <1>12, <1>13
  <1>15. QED
    BY <1>14 DEF burnt, relayed, amount, change, reserve

-----------------------------------------------------------------------------
(* The nBTC in flight.                                                     *)

Transfer == [to : Account, amount : Nat \ {0}, purpose : {"refund", "fee"}]

TransfersOK(bag) ==
    /\ IsFiniteSet(DOMAIN bag) /\ DOMAIN bag \subseteq Transfer
    /\ \A t \in DOMAIN bag : bag[t] \in Nat \ {0}

\* The sum of a bag, each element of which weighs as w says.
Weight(bag, w) == SumFunctionOnSet([t \in DOMAIN bag |-> w[t] * bag[t]], DOMAIN bag)

\* All that is in flight, and of this what was claimed of the protocol fee.
AmountOf == [t \in Transfer |-> t.amount]
FeeOf    == [t \in Transfer |-> IF t.purpose = "fee" THEN t.amount ELSE 0]

AmountInFlight == Weight(transfers, AmountOf)
FeesInFlight   == Weight(transfers, FeeOf)

LEMMA WeightsAreNat ==
    ASSUME NEW t \in Transfer
    PROVE  /\ AmountOf[t] = t.amount
           /\ FeeOf[t] = IF t.purpose = "fee" THEN t.amount ELSE 0
           /\ AmountOf[t] \in Nat /\ FeeOf[t] \in Nat
           /\ t.to \in Account /\ t.amount \in Nat /\ t.amount > 0
           /\ t.purpose \in {"refund", "fee"}
  BY DEF AmountOf, FeeOf, Transfer

LEMMA InFlightIsWeight ==
    ASSUME TransfersOK(transfers)
    PROVE  InFlight = Weight(transfers, AmountOf)
  <1>1. \A t \in DOMAIN transfers : t.amount * transfers[t] = AmountOf[t] * transfers[t]
    BY WeightsAreNat DEF TransfersOK
  <1>2. [t \in DOMAIN transfers |-> t.amount * transfers[t]]
            = [t \in DOMAIN transfers |-> AmountOf[t] * transfers[t]]
    BY <1>1
  <1>3. BagToSet(transfers) = DOMAIN transfers
    BY DEF BagToSet
  <1>4. InFlight = SumFunctionOnSet([t \in DOMAIN transfers |-> t.amount * transfers[t]],
                                    DOMAIN transfers)
    BY <1>3 DEF InFlight, SumFunction
  <1>5. QED
    BY <1>2, <1>4 DEF Weight

LEMMA WeightIsNat ==
    ASSUME NEW bag, TransfersOK(bag), NEW w, \A t \in Transfer : w[t] \in Nat
    PROVE  Weight(bag, w) \in Nat
  <1> DEFINE D == DOMAIN bag
             f == [t \in D |-> w[t] * bag[t]]
  <1>1. IsFiniteSet(D) /\ \A t \in D : w[t] \in Nat /\ bag[t] \in Nat
    BY DEF TransfersOK
  <1>2. \A m, n \in Nat : m * n \in Nat
    OBVIOUS
  <1>3. \A t \in D : f[t] \in Nat
    BY <1>1, <1>2
  <1>4. SumFunctionOnSet(f, D) \in Nat
    BY <1>1, <1>3, SumNat
  <1>5. QED
    BY <1>4 DEF Weight

LEMMA BagAdd ==
    ASSUME NEW bag, NEW e
    PROVE  /\ DOMAIN (bag (+) SetToBag({e})) = DOMAIN bag \cup {e}
           /\ \A x \in DOMAIN bag : x # e => (bag (+) SetToBag({e}))[x] = bag[x] + 0
           /\ (bag (+) SetToBag({e}))[e] = (IF e \in DOMAIN bag THEN bag[e] ELSE 0) + 1
  BY DEF (+), SetToBag

LEMMA BagRemove ==
    ASSUME NEW bag, NEW e \in DOMAIN bag, \A t \in DOMAIN bag : bag[t] \in Nat \ {0}
    PROVE  /\ bag[e] > 1 => DOMAIN (bag (-) SetToBag({e})) = DOMAIN bag
           /\ bag[e] = 1 => DOMAIN (bag (-) SetToBag({e})) = DOMAIN bag \ {e}
           /\ \A x \in DOMAIN bag : x # e => (bag (-) SetToBag({e}))[x] = bag[x]
           /\ bag[e] > 1 => (bag (-) SetToBag({e}))[e] = bag[e] - 1
  <1> DEFINE B == [x \in DOMAIN bag |->
                    IF x \in DOMAIN SetToBag({e}) THEN bag[x] - SetToBag({e})[x] ELSE bag[x]]
             R == [x \in {d \in DOMAIN B : B[d] > 0} |-> B[x]]
  <1>1. bag (-) SetToBag({e}) = R
    BY DEF (-)
  <1>2. DOMAIN SetToBag({e}) = {e} /\ SetToBag({e})[e] = 1
    BY DEF SetToBag
  <1>3. /\ DOMAIN B = DOMAIN bag
        /\ \A x \in DOMAIN bag : x # e => B[x] = bag[x]
        /\ B[e] = bag[e] - 1
    BY <1>2
  <1> HIDE DEF B
  <1>4. /\ \A x \in DOMAIN bag : x # e => B[x] > 0
        /\ bag[e] > 1 => B[e] > 0
        /\ bag[e] = 1 => ~(B[e] > 0)
    BY <1>3
  <1>5. /\ DOMAIN R = {d \in DOMAIN bag : B[d] > 0}
        /\ \A x \in DOMAIN R : R[x] = B[x]
    BY <1>3
  <1> HIDE DEF R
  <1>6. QED
    BY <1>1, <1>3, <1>4, <1>5

\* A transfer is sent.
LEMMA TransferAdded ==
    ASSUME NEW bag, TransfersOK(bag), NEW e \in Transfer, NEW w,
           \A t \in Transfer : w[t] \in Nat
    PROVE  /\ TransfersOK(bag (+) SetToBag({e}))
           /\ Weight(bag (+) SetToBag({e}), w) = Weight(bag, w) + w[e]
           /\ Weight(bag, w) \in Nat
  <1> DEFINE new == bag (+) SetToBag({e})
             D == DOMAIN bag
             f == [t \in D |-> w[t] * bag[t]]
             g == [t \in DOMAIN new |-> w[t] * new[t]]
  <1>1. /\ DOMAIN new = D \cup {e}
        /\ \A x \in D : x # e => new[x] = bag[x] + 0
        /\ new[e] = (IF e \in D THEN bag[e] ELSE 0) + 1
    BY BagAdd
  <1>2. /\ IsFiniteSet(D) /\ D \subseteq Transfer
        /\ \A t \in D : bag[t] \in Nat \ {0}
    BY DEF TransfersOK
  <1> HIDE DEF new, D
  <1>3. \A x \in D : x # e => new[x] = bag[x]
    BY <1>1, <1>2
  <1>4. \A t \in DOMAIN new : new[t] \in Nat \ {0}
    BY <1>1, <1>2, <1>3
  <1>5. IsFiniteSet(DOMAIN new) /\ DOMAIN new \subseteq Transfer
    BY <1>1, <1>2, FS_AddElement
  <1>6. TransfersOK(new)
    BY <1>4, <1>5 DEF TransfersOK
  <1>7. \A a, b \in Nat : a * b \in Nat /\ a * (b + 1) = a * b + a /\ a * 1 = a
    OBVIOUS
  <1>8. /\ \A t \in D : f[t] = w[t] * bag[t] /\ f[t] \in Nat
        /\ \A t \in DOMAIN new : g[t] = w[t] * new[t] /\ g[t] \in Nat
    BY <1>2, <1>4, <1>5, <1>7
  <1>9. w[e] \in Nat
    OBVIOUS
  <1> HIDE DEF f, g
  <1>10. SumFunctionOnSet(f, D) \in Nat
    BY <1>2, <1>8, SumNat
  <1>11. SumFunctionOnSet(g, DOMAIN new) = SumFunctionOnSet(f, D) + w[e]
    <2>1. CASE e \in D
      <3>1. DOMAIN new = D
        BY <1>1, <2>1
      <3>2. g[e] = f[e] + w[e]
        <4>1. new[e] = bag[e] + 1 /\ bag[e] \in Nat
          BY <1>1, <1>2, <2>1
        <4>2. QED
          BY <2>1, <3>1, <4>1, <1>7, <1>8, <1>9
      <3>3. \A x \in D : x # e => g[x] = f[x]
        BY <1>3, <1>8, <3>1
      <3>4. /\ \A x \in D : f[x] \in Int
            /\ f[e] \in Int /\ g[e] \in Int
        BY <1>8, <2>1, <3>1
      <3>5. SumFunctionOnSet(g, D) = SumFunctionOnSet(f, D) - f[e] + g[e]
        BY <1>2, <2>1, <3>3, <3>4, SumChange
      <3>6. QED
        BY <1>9, <1>10, <3>1, <3>2, <3>4, <3>5
    <2>2. CASE e \notin D
      <3>1. e \in DOMAIN new /\ DOMAIN new \ {e} = D
        BY <1>1, <2>2
      <3>2. \A x \in DOMAIN new : g[x] \in Int
        BY <1>8
      <3>3. SumFunctionOnSet(g, DOMAIN new) = g[e] + SumFunctionOnSet(g, D)
        BY <1>5, <3>1, <3>2, SumRemove
      <3>4. g[e] = w[e]
        <4>1. new[e] = 1
          BY <1>1, <2>2
        <4>2. QED
          BY <3>1, <4>1, <1>7, <1>8, <1>9
      <3>5. \A x \in D : g[x] = f[x]
        BY <1>1, <1>3, <1>8, <2>2
      <3>6. SumFunctionOnSet(g, D) = SumFunctionOnSet(f, D)
        BY <1>2, <3>5, SumSame
      <3>7. QED
        BY <1>9, <1>10, <3>3, <3>4, <3>6
    <2>3. QED
      BY <2>1, <2>2
  <1>12. /\ Weight(bag, w) = SumFunctionOnSet(f, D)
         /\ Weight(new, w) = SumFunctionOnSet(g, DOMAIN new)
    BY DEF Weight, f, g, D
  <1>13. QED
    BY <1>6, <1>10, <1>11, <1>12 DEF new

\* A transfer arrives, or is taken back.
LEMMA TransferRemoved ==
    ASSUME NEW bag, TransfersOK(bag), NEW e \in DOMAIN bag, NEW w,
           \A t \in Transfer : w[t] \in Nat
    PROVE  /\ TransfersOK(bag (-) SetToBag({e}))
           /\ Weight(bag (-) SetToBag({e}), w) = Weight(bag, w) - w[e]
           /\ Weight(bag, w) \in Nat /\ w[e] <= Weight(bag, w)
  <1> DEFINE new == bag (-) SetToBag({e})
             D == DOMAIN bag
             f == [t \in D |-> w[t] * bag[t]]
             g == [t \in DOMAIN new |-> w[t] * new[t]]
  <1>1. /\ IsFiniteSet(D) /\ D \subseteq Transfer
        /\ \A t \in D : bag[t] \in Nat \ {0}
    BY DEF TransfersOK
  <1>2. /\ bag[e] > 1 => DOMAIN new = D /\ new[e] = bag[e] - 1
        /\ bag[e] = 1 => DOMAIN new = D \ {e}
        /\ \A x \in D : x # e => new[x] = bag[x]
    BY <1>1, BagRemove
  <1>3. e \in D
    OBVIOUS
  <1> HIDE DEF new, D
  <1>4. bag[e] \in Nat /\ (bag[e] = 1 \/ bag[e] > 1)
    BY <1>1, <1>3
  <1>5. \A t \in DOMAIN new : t \in D /\ new[t] \in Nat \ {0}
    BY <1>1, <1>2, <1>3, <1>4
  <1>6. IsFiniteSet(DOMAIN new) /\ DOMAIN new \subseteq D
    BY <1>1, <1>5, FS_Subset
  <1>7. TransfersOK(new)
    BY <1>1, <1>5, <1>6 DEF TransfersOK
  <1>8. \A a, b \in Nat : a * b \in Nat /\ a * (b + 1) = a * b + a /\ a * 1 = a
    OBVIOUS
  <1>9. /\ \A t \in D : f[t] = w[t] * bag[t] /\ f[t] \in Nat
        /\ \A t \in DOMAIN new : g[t] = w[t] * new[t] /\ g[t] \in Nat
    BY <1>1, <1>5, <1>8
  <1>10. w[e] \in Nat
    BY <1>1, <1>3
  <1> HIDE DEF f, g
  <1>11. SumFunctionOnSet(f, D) \in Nat /\ f[e] <= SumFunctionOnSet(f, D)
    BY <1>1, <1>3, <1>9, SumNat, SumElement
  <1>12. w[e] <= f[e] /\ f[e] \in Nat
    <2>1. bag[e] - 1 \in Nat /\ bag[e] = (bag[e] - 1) + 1
      BY <1>4
    <2>2. w[e] * bag[e] = w[e] * (bag[e] - 1) + w[e] /\ w[e] * (bag[e] - 1) \in Nat
      BY <1>8, <1>10, <2>1
    <2>3. QED
      BY <1>3, <1>9, <1>10, <2>2
  <1>13. SumFunctionOnSet(g, DOMAIN new) = SumFunctionOnSet(f, D) - w[e]
    <2>1. CASE bag[e] > 1
      <3>1. DOMAIN new = D /\ new[e] = bag[e] - 1
        BY <1>2, <2>1
      <3>2. f[e] = g[e] + w[e]
        <4>1. new[e] \in Nat /\ bag[e] = new[e] + 1
          BY <1>4, <3>1, <2>1
        <4>2. w[e] * bag[e] = w[e] * new[e] + w[e]
          BY <4>1, <1>8, <1>10
        <4>3. f[e] = w[e] * bag[e] /\ g[e] = w[e] * new[e]
          BY <1>3, <1>9, <3>1
        <4>4. QED
          BY <4>2, <4>3
      <3>3. \A x \in D : x # e => g[x] = f[x]
        BY <1>2, <1>9, <3>1
      <3>4. /\ \A x \in D : f[x] \in Int
            /\ f[e] \in Int /\ g[e] \in Int
        BY <1>3, <1>9, <3>1
      <3>5. SumFunctionOnSet(g, D) = SumFunctionOnSet(f, D) - f[e] + g[e]
        BY <1>1, <1>3, <3>3, <3>4, SumChange
      <3>6. QED
        BY <1>10, <1>11, <3>1, <3>2, <3>4, <3>5
    <2>2. CASE bag[e] = 1
      <3>1. DOMAIN new = D \ {e}
        BY <1>2, <2>2
      <3>2. \A x \in D : f[x] \in Int
        BY <1>9
      <3>3. SumFunctionOnSet(f, D) = f[e] + SumFunctionOnSet(f, DOMAIN new)
        BY <1>1, <1>3, <3>1, <3>2, SumRemove
      <3>4. f[e] = w[e]
        BY <1>3, <1>8, <1>9, <1>10, <2>2
      <3>5. \A x \in DOMAIN new : g[x] = f[x] /\ f[x] \in Nat
        BY <1>2, <1>9, <3>1
      <3>6. SumFunctionOnSet(g, DOMAIN new) = SumFunctionOnSet(f, DOMAIN new)
        BY <1>6, <3>5, SumSame
      <3>7. SumFunctionOnSet(f, DOMAIN new) \in Nat
        BY <1>6, <3>5, SumNat
      <3>8. QED
        BY <1>10, <3>3, <3>4, <3>6, <3>7
    <2>3. QED
      BY <1>4, <2>1, <2>2
  <1>14. /\ Weight(bag, w) = SumFunctionOnSet(f, D)
         /\ Weight(new, w) = SumFunctionOnSet(g, DOMAIN new)
    BY DEF Weight, f, g, D
  <1>15. QED
    BY <1>7, <1>10, <1>11, <1>12, <1>13, <1>14 DEF new

-----------------------------------------------------------------------------
(* UTXOs and nBTC.                                                         *)

LEMMA UtxosFinite ==
    ASSUME BodiesOK
    PROVE  IsFiniteSet(DOMAIN utxos) /\ TotalUtxos \in Nat
  <1>1. IsFiniteSet(Utxo)
    BY ConstantsAssumption, FS_Union DEF Utxo
  <1>2. IsFiniteSet(DOMAIN utxos)
    BY <1>1, FS_Subset DEF BodiesOK
  <1>3. \A u \in DOMAIN utxos : utxos[u] \in Nat
    BY DEF BodiesOK
  <1>4. SumFunctionOnSet(utxos, DOMAIN utxos) \in Nat
    BY <1>2, <1>3, SumNat
  <1>5. QED
    BY <1>2, <1>4 DEF TotalUtxos, SumFunction

LEMMA UtxosLocked ==
    ASSUME BodiesOK, NEW inputs \in SUBSET DOMAIN utxos,
           utxos' = [u \in DOMAIN utxos \ inputs |-> utxos[u]]
    PROVE  TotalUtxos' = TotalUtxos - ValueOf(inputs)
  <1> DEFINE R == DOMAIN utxos \ inputs
  <1>1. IsFiniteSet(inputs) /\ IsFiniteSet(R)
    BY UtxosFinite, FS_Subset
  <1>2. inputs \cap R = {} /\ inputs \cup R = DOMAIN utxos
    OBVIOUS
  <1>3. /\ \A u \in inputs \cup R : utxos[u] \in Int
        /\ \A u \in inputs : utxos[u] \in Nat
        /\ \A u \in R : utxos[u] \in Nat
    BY DEF BodiesOK
  <1>4. DOMAIN utxos' = R /\ \A u \in R : utxos'[u] = utxos[u]
    OBVIOUS
  <1> HIDE DEF R
  <1>5. SumFunctionOnSet(utxos, inputs \cup R)
            = SumFunctionOnSet(utxos, inputs) + SumFunctionOnSet(utxos, R)
    BY ONLY <1>1, <1>2, <1>3, SumUnion
  <1>6. SumFunctionOnSet(utxos, inputs) \in Nat /\ SumFunctionOnSet(utxos, R) \in Nat
    BY <1>1, <1>3, SumNat
  <1>7. SumFunctionOnSet(utxos', R) = SumFunctionOnSet(utxos, R)
    BY <1>1, <1>4, SumSame
  <1>8. /\ TotalUtxos = SumFunctionOnSet(utxos, inputs \cup R)
        /\ TotalUtxos' = SumFunctionOnSet(utxos', R)
    BY <1>2, <1>4 DEF TotalUtxos, SumFunction
  <1>9. QED
    BY <1>5, <1>6, <1>7, <1>8 DEF ValueOf

\* The change of a settled transaction is offered, unless there is none.
LEMMA UtxoOffered ==
    ASSUME BodiesOK, NEW t, t \notin DOMAIN utxos, NEW change \in Nat,
           utxos' = IF change = 0 THEN utxos
                    ELSE [u \in DOMAIN utxos \cup {t} |-> IF u = t THEN change ELSE utxos[u]]
    PROVE  TotalUtxos' = TotalUtxos + change
  <1>1. CASE change = 0
    BY <1>1, UtxosFinite DEF TotalUtxos
  <1>2. CASE change # 0
    <2> DEFINE D == DOMAIN utxos
               E == D \cup {t}
    <2>1. /\ IsFiniteSet(D) /\ IsFiniteSet(E)
          /\ \A u \in D : utxos[u] \in Nat
      BY UtxosFinite, FS_AddElement DEF BodiesOK
    <2>2. /\ DOMAIN utxos' = E /\ utxos'[t] = change
          /\ \A u \in D : utxos'[u] = utxos[u]
      BY <1>2
    <2>3. /\ t \in E /\ E \ {t} = D /\ \A u \in E : utxos'[u] \in Int
      BY <2>1, <2>2
    <2> HIDE DEF E
    <2>4. SumFunctionOnSet(utxos', E) = utxos'[t] + SumFunctionOnSet(utxos', D)
      BY <2>1, <2>3, SumRemove
    <2>5. SumFunctionOnSet(utxos', D) = SumFunctionOnSet(utxos, D)
      BY <2>1, <2>2, SumSame
    <2>6. TotalUtxos = SumFunctionOnSet(utxos, D) /\ TotalUtxos' = SumFunctionOnSet(utxos', E)
      BY <2>2 DEF TotalUtxos, SumFunction
    <2>7. QED
      BY <2>2, <2>4, <2>5, <2>6, UtxosFinite
  <1>3. QED
    BY <1>1, <1>2

TotalLost == SumFunctionOnSet(lost_found, Account)

LEMMA LostTypes ==
    ASSUME LedgerInv
    PROVE  /\ TotalLost = SumFunction(lost_found) /\ TotalLost \in Nat
           /\ \A a \in Account : lost_found[a] \in Nat
  <1>1. DOMAIN lost_found = Account /\ \A a \in Account : lost_found[a] \in Nat
    BY DEF LedgerInv
  <1>2. QED
    BY <1>1, ConstantsAssumption, SumNat DEF TotalLost, SumFunction

LEMMA LostChange ==
    ASSUME LedgerInv, NEW a \in Account, NEW n \in Nat, lost_found' = [lost_found EXCEPT ![a] = n]
    PROVE  TotalLost' = TotalLost - lost_found[a] + n
  <1>1. /\ lost_found'[a] = n /\ \A b \in Account : b # a => lost_found'[b] = lost_found[b]
        /\ \A b \in Account : lost_found[b] \in Int
        /\ IsFiniteSet(Account)
    BY ConstantsAssumption DEF LedgerInv
  <1>2. lost_found'[a] \in Int
    BY <1>1
  <1>3. SumFunctionOnSet(lost_found', Account)
            = SumFunctionOnSet(lost_found, Account) - lost_found[a] + lost_found'[a]
    BY ONLY <1>1, <1>2, a \in Account, SumChange
  <1>4. QED
    BY <1>1, <1>3 DEF TotalLost

-----------------------------------------------------------------------------
(* Every satoshi.                                                          *)

\* ReservedIsExact, Solvent and Backed, in totals over all records.
ReservedInv == fee.cur_reserved = TotalReserved
SolventInv  ==
    bridge_balance = TotalOwed + fee.cur_available + fee.cur_reserved
                        + AmountInFlight + TotalLost
BackedInv   == wallets + bridge_balance = TotalUtxos + TotalLocked

MoneyInv ==
    /\ wallets \in Nat /\ bridge_balance \in Nat
    /\ TransfersOK(transfers)
    /\ FeesInFlight <= fee.acc_claimed
    /\ ReservedInv /\ SolventInv /\ BackedInv

MoneyTypes ==
    /\ TotalReserved \in Int /\ TotalOwed \in Int /\ TotalLocked \in Int
    /\ TotalUtxos \in Nat /\ TotalLost \in Nat
    /\ AmountInFlight \in Nat /\ FeesInFlight \in Nat

LEMMA MoneyTyped ==
    ASSUME FamilyInv, LedgerInv, BodiesOK, TransfersOK(transfers)
    PROVE  MoneyTypes
  <1>1. TotalReserved \in Int /\ TotalOwed \in Int /\ TotalLocked \in Int
    BY TableTypes
  <1>2. TotalUtxos \in Nat /\ TotalLost \in Nat
    BY UtxosFinite, LostTypes
  <1>3. \A t \in Transfer : AmountOf[t] \in Nat /\ FeeOf[t] \in Nat
    BY WeightsAreNat
  <1>4. AmountInFlight \in Nat /\ FeesInFlight \in Nat
    BY <1>3, WeightIsNat DEF AmountInFlight, FeesInFlight
  <1>5. QED
    BY <1>1, <1>2, <1>4 DEF MoneyTypes

\* What a step does to the sums, when it leaves alone what they are sums of.
LEMMA MoneyFrame ==
    /\ lost_found' = lost_found => TotalLost' = TotalLost
    /\ utxos' = utxos => TotalUtxos' = TotalUtxos
    /\ transfers' = transfers => /\ AmountInFlight' = AmountInFlight
                                 /\ FeesInFlight' = FeesInFlight
                                 /\ TransfersOK(transfers) => TransfersOK(transfers')
  BY DEF TotalLost, TotalUtxos, AmountInFlight, FeesInFlight

\* How a step moves nBTC and UTXOs, in changes of each sum.
Moves(reserved, owed, available, sent, lost, locked, offered, received, paid) ==
    /\ TotalReserved' = TotalReserved + reserved
    /\ fee'.cur_reserved = fee.cur_reserved + reserved
    /\ TotalOwed' = TotalOwed + owed
    /\ fee'.cur_available = fee.cur_available + available
    /\ AmountInFlight' = AmountInFlight + sent
    /\ TotalLost' = TotalLost + lost
    /\ TotalLocked' = TotalLocked + locked
    /\ TotalUtxos' = TotalUtxos + offered
    /\ bridge_balance' = bridge_balance + received
    /\ wallets' = wallets + paid

\* The sums stay what they have to be when their changes add up.
LEMMA MoneyMoves ==
    ASSUME MoneyInv, MoneyTypes, LedgerInv,
           NEW reserved \in Int, NEW owed \in Int, NEW available \in Int, NEW sent \in Int,
           NEW lost \in Int, NEW locked \in Int, NEW offered \in Int, NEW received \in Int,
           NEW paid \in Int,
           Moves(reserved, owed, available, sent, lost, locked, offered, received, paid),
           received = owed + available + reserved + sent + lost,
           received + paid = locked + offered,
           wallets + paid \in Nat, bridge_balance + received \in Nat,
           TransfersOK(transfers'), FeesInFlight' <= fee'.acc_claimed
    PROVE  MoneyInv'
  <1>1. fee.cur_available \in Nat /\ fee.cur_reserved \in Nat
    BY FeeFields
  <1>2. ReservedInv'
    BY DEF MoneyInv, ReservedInv, Moves
  <1>3. SolventInv'
    BY <1>1 DEF MoneyInv, MoneyTypes, SolventInv, Moves
  <1>4. BackedInv'
    BY DEF MoneyInv, MoneyTypes, BackedInv, Moves
  <1>5. wallets' \in Nat /\ bridge_balance' \in Nat
    BY DEF Moves
  <1>6. QED
    BY <1>2, <1>3, <1>4, <1>5 DEF MoneyInv

LEMMA InitMoneyInv == Init => MoneyInv
  <1> SUFFICES ASSUME Init PROVE MoneyInv
    OBVIOUS
  <1>1. /\ fee.cur_available = 0 /\ fee.cur_reserved = 0 /\ fee.acc_claimed = 0
        /\ transfers = EmptyBag /\ bridge_balance = 0 /\ utxos = Value
        /\ wallets = SumFunctionOnSet(Value, Coin)
    BY DEF Init
  <1>2. \A t \in Tx : info[t] = None
    BY DEF Init
  <1>3. \A t \in Tx : Reserves[t] = 0 /\ Owed[t] = 0 /\ Locked[t] = 0
    BY <1>2, Entries DEF ReserveOf, OwedFor, LockedFor
  <1>4. TotalReserved = 0 /\ TotalOwed = 0 /\ TotalLocked = 0
    BY <1>3, TxFinite, SumZero DEF TotalReserved, TotalOwed, TotalLocked
  <1>5. DOMAIN transfers = {}
    BY <1>1 DEF EmptyBag, SetToBag
  <1>6. AmountInFlight = 0 /\ FeesInFlight = 0
    BY <1>5, SumEmpty DEF AmountInFlight, FeesInFlight, Weight
  <1>7. TransfersOK(transfers)
    BY <1>5, FS_EmptySet DEF TransfersOK
  <1>8. TotalLost = 0
    BY ConstantsAssumption, SumZero DEF Init, TotalLost
  <1>9. DOMAIN utxos = Coin
    BY <1>1, ConstantsAssumption
  <1>10. TotalUtxos = SumFunctionOnSet(Value, Coin)
    BY <1>1, <1>9 DEF TotalUtxos, SumFunction
  <1>11. wallets \in Nat
    BY <1>1, ConstantsAssumption, SumNat
  <1>12. QED
    BY <1>1, <1>4, <1>6, <1>7, <1>8, <1>10, <1>11
       DEF MoneyInv, ReservedInv, SolventInv, BackedInv

\* A step that moves no nBTC, and no record but in its stage and signatures.
LEMMA StillMoneyInv ==
    ASSUME FamilyInv, FamilyInv', RecordInv, LedgerInv, MoneyInv, BodiesOK',
           UNCHANGED <<fee, lost_found, token, transfers, utxos>>,
           TotalReserved' = TotalReserved, TotalOwed' = TotalOwed, TotalLocked' = TotalLocked
    PROVE  MoneyInv'
  <1>1. MoneyTypes
    BY MoneyTyped DEF RecordInv, MoneyInv
  <1>2. /\ AmountInFlight' = AmountInFlight /\ TotalLost' = TotalLost
        /\ TotalUtxos' = TotalUtxos /\ FeesInFlight' <= fee'.acc_claimed
        /\ TransfersOK(transfers') /\ wallets' = wallets /\ bridge_balance' = bridge_balance
    BY MoneyFrame DEF MoneyInv, token
  <1>3. QED
    BY <1>1, <1>2 DEF MoneyInv, ReservedInv, SolventInv, BackedInv

LEMMA QuietMoneyInv ==
    ASSUME FamilyInv, FamilyInv', RecordInv, LedgerInv, MoneyInv, QuietStep,
           UNCHANGED <<fee, lost_found, token, transfers>>,
           \A x \in Tx : burning'[x] = "burned" <=> burning[x] = "burned"
    PROVE  MoneyInv'
  <1>1. BodiesOK /\ utxos' = utxos /\ body' = body
    BY DEF RecordInv, QuietStep
  <1>2. BodiesOK'
    BY <1>1 DEF BodiesOK
  <1>3. /\ TotalReserved' = TotalReserved /\ TotalOwed' = TotalOwed
        /\ TotalLocked' = TotalLocked
    BY <1>1, <1>2, QuietTotals
  <1>4. QED
    BY <1>1, <1>2, <1>3, StillMoneyInv

\* The user's nBTC comes in, and UTXOs of the bridge are locked.
LEMMA WithdrawMoneyInv ==
    ASSUME FamilyInv, FamilyInv', RecordInv, LedgerInv, MoneyInv, NEW t \in Tx,
           NEW a \in Account, NEW amount \in Amount, NEW inputs \in SUBSET DOMAIN utxos,
           NEW gas_fee \in Gas, Withdraw(t, a, amount, inputs, gas_fee)
    PROVE  MoneyInv'
  <1>1. BodiesOK /\ MoneyTypes
    BY MoneyTyped DEF RecordInv, MoneyInv
  <1>2. /\ amount \in Nat /\ gas_fee \in Nat
        /\ get_fee(amount) \in Nat /\ amount - get_fee(amount) \in Nat
        /\ WritesOriginal(t, "withdraw", amount, get_fee(amount), inputs, gas_fee,
                          amount - get_fee(amount))
    BY <1>1, WithdrawWrites
  <1>3. /\ BodiesOK' /\ ValueOf(inputs) \in Nat
        /\ utxos' = [u \in DOMAIN utxos \ inputs |-> utxos[u]]
    BY <1>2 DEF WritesOriginal
  <1>4. /\ TotalReserved' = TotalReserved + 0
        /\ TotalOwed' = TotalOwed + amount
        /\ TotalLocked' = TotalLocked + ValueOf(inputs)
    BY <1>1, <1>2, <1>3, OriginalTotals
  <1>5. TotalUtxos' = TotalUtxos - ValueOf(inputs)
    BY <1>1, <1>3, UtxosLocked
  <1>6. /\ fee' = fee /\ lost_found' = lost_found /\ transfers' = transfers
        /\ amount <= wallets /\ wallets' = wallets - amount
        /\ bridge_balance' = bridge_balance + amount
    BY DEF Withdraw, Receive, CreateOriginal, calls
  <1>7. /\ AmountInFlight' = AmountInFlight /\ TotalLost' = TotalLost
        /\ FeesInFlight' <= fee'.acc_claimed /\ TransfersOK(transfers')
    BY <1>6, MoneyFrame DEF MoneyInv
  <1>8. fee.cur_reserved \in Nat /\ fee.cur_available \in Nat
    BY FeeFields
  <1> DEFINE v == ValueOf(inputs)
  <1> HIDE DEF v
  <1>9. v \in Nat /\ v = ValueOf(inputs)
    BY <1>3 DEF v
  <1>10. Moves(0, amount, 0, 0, 0, v, -v, amount, -amount)
    BY <1>1, <1>2, <1>4, <1>5, <1>6, <1>7, <1>8, <1>9 DEF Moves, MoneyTypes, MoneyInv
  <1>11. wallets + (-amount) \in Nat /\ bridge_balance + amount \in Nat
    BY <1>2, <1>6 DEF MoneyInv
  <1>12. amount = amount + 0 + 0 + 0 + 0 /\ amount + (-amount) = v + (-v)
    BY <1>2, <1>9
  <1>13. 0 \in Int /\ amount \in Int /\ -amount \in Int /\ v \in Int /\ -v \in Int
    BY <1>2, <1>9
  <1>14. QED
    BY ONLY <1>1, <1>7, <1>10, <1>11, <1>12, <1>13, MoneyMoves, MoneyInv, LedgerInv

\* Gas is set aside, and the UTXOs of an original are locked.
LEMMA ReservingMoneyInv ==
    ASSUME FamilyInv, RecordInv, LedgerInv, MoneyInv, NEW extra \in Nat, Reserve(extra),
           UNCHANGED <<lost_found, token, transfers>>, NEW v \in Nat,
           TotalReserved' = TotalReserved + extra, TotalOwed' = TotalOwed,
           TotalLocked' = TotalLocked + v, TotalUtxos' = TotalUtxos - v
    PROVE  MoneyInv'
  <1>1. MoneyTypes
    BY MoneyTyped DEF RecordInv, MoneyInv
  <1>2. /\ fee.cur_reserved \in Nat /\ fee.cur_available \in Nat
        /\ fee'.cur_reserved = fee.cur_reserved + extra
        /\ fee'.cur_available = fee.cur_available - extra
        /\ fee'.acc_claimed = fee.acc_claimed
    BY FeeFields DEF Reserve, LedgerInv, Fee
  <1>3. /\ AmountInFlight' = AmountInFlight /\ TotalLost' = TotalLost
        /\ FeesInFlight' <= fee'.acc_claimed /\ TransfersOK(transfers')
        /\ wallets' = wallets /\ bridge_balance' = bridge_balance
    BY <1>2, MoneyFrame DEF MoneyInv, token
  <1>4. Moves(extra, 0, -extra, 0, 0, v, -v, 0, 0)
    BY <1>1, <1>2, <1>3 DEF Moves, MoneyTypes, MoneyInv
  <1>5. wallets + 0 \in Nat /\ bridge_balance + 0 \in Nat
    BY DEF MoneyInv
  <1>6. 0 = 0 + (-extra) + extra + 0 + 0 /\ 0 + 0 = v + (-v)
    OBVIOUS
  <1>7. 0 \in Int /\ extra \in Int /\ -extra \in Int /\ v \in Int /\ -v \in Int
    OBVIOUS
  <1>8. QED
    BY ONLY <1>1, <1>3, <1>4, <1>5, <1>6, <1>7, MoneyMoves, MoneyInv, LedgerInv

LEMMA ManagementMoneyInv ==
    ASSUME FamilyInv, FamilyInv', RecordInv, LedgerInv, MoneyInv, NEW t \in Tx,
           NEW a \in Account, NEW inputs \in SUBSET DOMAIN utxos, NEW gas_fee \in Gas,
           ActiveUtxoManagement(t, a, inputs, gas_fee)
    PROVE  MoneyInv'
  <1>1. BodiesOK /\ MoneyTypes
    BY MoneyTyped DEF RecordInv, MoneyInv
  <1>2. gas_fee \in Nat /\ WritesOriginal(t, "manage", 0, 0, inputs, gas_fee, gas_fee)
    BY <1>1, ManagementWrites
  <1>3. /\ BodiesOK' /\ ValueOf(inputs) \in Nat
        /\ utxos' = [u \in DOMAIN utxos \ inputs |-> utxos[u]]
    BY <1>2 DEF WritesOriginal
  <1>4. /\ TotalReserved' = TotalReserved + gas_fee
        /\ TotalOwed' = TotalOwed + 0
        /\ TotalLocked' = TotalLocked + ValueOf(inputs)
    BY <1>1, <1>2, <1>3, OriginalTotals
  <1>5. TotalUtxos' = TotalUtxos - ValueOf(inputs)
    BY <1>1, <1>3, UtxosLocked
  <1>6. Reserve(gas_fee) /\ UNCHANGED <<lost_found, token, transfers>>
    BY DEF ActiveUtxoManagement, CreateOriginal, calls
  <1>7. TotalOwed' = TotalOwed
    BY <1>1, <1>4 DEF MoneyTypes
  <1>8. QED
    BY <1>2, <1>3, <1>4, <1>5, <1>6, <1>7, ReservingMoneyInv

\* What a replacement adds to the reserve of its family.
RaisesReserve(o, kind, max_gas_fee, extra) ==
    extra = IF kind = "manage" THEN max_gas_fee - info[o].max_gas_fee
                               ELSE Prev(info'[o]) - Prev(info[o])

\* A replacement locks nothing, and what it may cost is reserved.
LEMMA ReplacementMoneyInv ==
    ASSUME FamilyInv, FamilyInv', RecordInv, LedgerInv, MoneyInv, NEW t \in Tx, NEW o \in Tx,
           NEW role \in {"rbf", "cancel"}, NEW kind, NEW cost, NEW burn_amount,
           NEW max_gas_fee \in Nat, NEW reserved,
           WritesReplacement(t, o, role, kind, cost, burn_amount, max_gas_fee, reserved),
           NEW extra \in Nat, Reserve(extra) \/ (extra = 0 /\ fee' = fee),
           RaisesReserve(o, kind, max_gas_fee, extra),
           UNCHANGED <<lost_found, token, transfers>>
    PROVE  MoneyInv'
  <1>1. BodiesOK /\ MoneyTypes
    BY MoneyTyped DEF RecordInv, MoneyInv
  <1>2. BodiesOK' /\ utxos' = utxos
    BY DEF WritesReplacement
  <1>3. /\ TotalReserved' = TotalReserved + extra
        /\ TotalOwed' = TotalOwed /\ TotalLocked' = TotalLocked
    BY <1>1, <1>2, ReplacementTotals DEF RaisesReserve
  <1>4. TotalUtxos' = TotalUtxos - 0 /\ TotalLocked' = TotalLocked + 0
    BY <1>1, <1>2, <1>3, MoneyFrame DEF MoneyTypes
  <1>5. CASE Reserve(extra)
    BY <1>3, <1>4, <1>5, ReservingMoneyInv
  <1>6. CASE extra = 0 /\ fee' = fee
    <2>1. TotalReserved' = TotalReserved
      BY <1>1, <1>3, <1>6 DEF MoneyTypes
    <2>2. QED
      BY <1>2, <1>3, <1>6, <2>1, StillMoneyInv
  <1>7. QED
    BY <1>5, <1>6

LEMMA RbfMoneyInv ==
    ASSUME FamilyInv, FamilyInv', RecordInv, LedgerInv, MoneyInv, NEW t \in Tx, NEW o \in Tx,
           NEW gas_fee \in Gas, WithdrawRbf(t, o, gas_fee)
    PROVE  MoneyInv'
  <1>1. PICK paid \in Nat :
            /\ WritesReplacement(t, o, "rbf", "withdraw", paid, paid, gas_fee, None)
            /\ gas_fee \in Nat /\ Prev(info[o]) = 0 /\ Prev(info'[o]) = 0
    BY RbfWrites
  <1>2. fee' = fee /\ UNCHANGED <<lost_found, token, transfers>>
    BY DEF WithdrawRbf, CreateReplacement, calls
  <1>3. RaisesReserve(o, "withdraw", gas_fee, 0)
    BY <1>1 DEF RaisesReserve
  <1>4. QED
    BY <1>1, <1>2, <1>3, ReplacementMoneyInv

LEMMA CancelMoneyInv ==
    ASSUME FamilyInv, FamilyInv', RecordInv, LedgerInv, MoneyInv, NEW t \in Tx, NEW o \in Tx,
           NEW gas_fee \in CancelGas, NEW caller, CancelWithdraw(t, o, caller, gas_fee)
    PROVE  MoneyInv'
  <1>1. PICK max_gas_fee \in Nat, reserved \in Nat :
            /\ WritesReplacement(t, o, "cancel", "withdraw", gas_fee, gas_fee, max_gas_fee,
                                 reserved)
            /\ Prev(info'[o]) = reserved
            /\ reserved = max(Prev(info[o]), Excess(info[o], gas_fee))
            /\ AdditionalReserve(o, gas_fee) = reserved - Prev(info[o])
            /\ Prev(info[o]) \in Nat /\ Excess(info[o], gas_fee) \in Nat
    BY CancelWrites
  <1>2. UNCHANGED <<lost_found, token, transfers>>
    BY DEF CancelWithdraw, CreateReplacement, calls
  <1>3. AdditionalReserve(o, gas_fee) \in Nat /\ Reserve(AdditionalReserve(o, gas_fee))
    BY <1>1 DEF max, CancelWithdraw
  <1>4. RaisesReserve(o, "withdraw", max_gas_fee, AdditionalReserve(o, gas_fee))
    BY <1>1 DEF max, RaisesReserve
  <1>5. WritesReplacement(t, o, "cancel", "withdraw", gas_fee, gas_fee, max_gas_fee, reserved)
    BY <1>1
  <1>6. QED
    BY ONLY <1>2, <1>3, <1>4, <1>5, ReplacementMoneyInv, FamilyInv, FamilyInv', RecordInv,
            LedgerInv, MoneyInv

LEMMA ManagementRbfMoneyInv ==
    ASSUME FamilyInv, FamilyInv', RecordInv, LedgerInv, MoneyInv, NEW t \in Tx, NEW o \in Tx,
           NEW gas_fee \in Nat,
           ActiveUtxoManagementRbf(t, o, gas_fee) \/ CancelActiveUtxoManagement(t, o, gas_fee)
    PROVE  MoneyInv'
  <1>1. PICK role \in {"rbf", "cancel"}, reserved \in Nat \cup {None} :
            /\ WritesReplacement(t, o, role, "manage", gas_fee, gas_fee, gas_fee, reserved)
            /\ gas_fee - info[o].max_gas_fee \in Nat
            /\ Reserve(gas_fee - info[o].max_gas_fee)
    BY ManagementRbfWrites
  <1>2. UNCHANGED <<lost_found, token, transfers>>
    BY DEF ActiveUtxoManagementRbf, CancelActiveUtxoManagement, CreateReplacement, calls
  <1>3. gas_fee - info[o].max_gas_fee \in Nat /\ Reserve(gas_fee - info[o].max_gas_fee)
    BY <1>1
  <1>4. RaisesReserve(o, "manage", gas_fee, gas_fee - info[o].max_gas_fee)
    BY <1>1 DEF RaisesReserve
  <1>5. WritesReplacement(t, o, role, "manage", gas_fee, gas_fee, gas_fee, reserved)
    BY <1>1
  <1>6. QED
    BY ONLY <1>2, <1>3, <1>4, <1>5, ReplacementMoneyInv, FamilyInv, FamilyInv', RecordInv,
            LedgerInv, MoneyInv

LEMMA CreateMoneyInv ==
    ASSUME FamilyInv, FamilyInv', RecordInv, LedgerInv, MoneyInv, NEW t \in Tx, Create(t)
    PROVE  MoneyInv'
  <1>1. \A gas_fee : gas_fee \in Gas \cup CancelGas => gas_fee \in Nat
    BY ConstantsAssumption
  <1>2. ASSUME NEW a \in Account, NEW inputs \in SUBSET DOMAIN utxos, NEW gas_fee \in Gas,
               NEW amount \in Amount, Withdraw(t, a, amount, inputs, gas_fee)
        PROVE  MoneyInv'
    BY <1>2, WithdrawMoneyInv
  <1>3. ASSUME NEW a \in Account, NEW inputs \in SUBSET DOMAIN utxos, NEW gas_fee \in Gas,
               ActiveUtxoManagement(t, a, inputs, gas_fee)
        PROVE  MoneyInv'
    BY <1>3, ManagementMoneyInv
  <1>4. ASSUME NEW o \in Tx, NEW gas_fee \in Gas, WithdrawRbf(t, o, gas_fee)
        PROVE  MoneyInv'
    BY <1>4, RbfMoneyInv
  <1>5. ASSUME NEW o \in Tx, NEW gas_fee \in Gas \cup CancelGas,
               ActiveUtxoManagementRbf(t, o, gas_fee) \/ CancelActiveUtxoManagement(t, o, gas_fee)
        PROVE  MoneyInv'
    BY <1>1, <1>5, ManagementRbfMoneyInv
  <1>6. ASSUME NEW o \in Tx, NEW gas_fee \in CancelGas, NEW caller,
               CancelWithdraw(t, o, caller, gas_fee)
        PROVE  MoneyInv'
    BY <1>6, CancelMoneyInv
  <1>7. QED
    BY <1>2, <1>3, <1>4, <1>5, <1>6 DEF Create

\* A replacement that is forgotten reserves nothing, owes nothing and locks nothing.
LEMMA ForgetMoneyInv ==
    ASSUME FamilyInv, FamilyInv', RecordInv, LedgerInv, MoneyInv, NEW t \in Tx,
           SignOrphan(t) \/ ClearInvalidPendingVerifyRbf(t)
    PROVE  MoneyInv'
  <1>1. BodiesOK /\ MoneyTypes
    BY MoneyTyped DEF RecordInv, MoneyInv
  <1>2. /\ Exists(t) /\ info[t].role # "original" /\ burning[t] = "none"
        /\ info'[t] = None /\ \A x \in Tx : x # t => info'[x] = info[x]
        /\ body' = body /\ utxos' = utxos /\ burning' = burning
        /\ UNCHANGED <<fee, lost_found, token, transfers>>
    BY ForgetWrites
  <1>3. BodiesOK'
    BY <1>1, <1>2 DEF BodiesOK
  <1>4. /\ Reserves[t] = 0 /\ Owed[t] = 0 /\ Locked[t] = 0
        /\ Reserves'[t] = 0 /\ Owed'[t] = 0 /\ Locked'[t] = 0
    BY <1>2, Entries DEF Exists, ReserveOf, OwedFor, LockedFor
  <1>5. \A x \in Tx : x # t => SameEntries(x)
    BY <1>2, EntriesKept
  <1>6. /\ TotalReserved' = TotalReserved + 0 /\ TotalOwed' = TotalOwed + 0
        /\ TotalLocked' = TotalLocked + 0
    BY <1>1, <1>3, <1>4, <1>5, TotalsStep
  <1>7. /\ TotalReserved' = TotalReserved /\ TotalOwed' = TotalOwed
        /\ TotalLocked' = TotalLocked
    BY <1>1, <1>6 DEF MoneyTypes
  <1>8. QED
    BY <1>2, <1>3, <1>7, StillMoneyInv

LEMMA QuotientBound ==
    ASSUME NEW a \in Nat, NEW b \in Nat, b > 0, NEW c \in Nat, a <= c * b
    PROVE  a \div b <= c
  OBVIOUS

\* The protocol's share of a fee is not more than the fee.
LEMMA RelayerFeeIsNat ==
    ASSUME NEW withdraw_fee \in Nat
    PROVE  RelayerFee(withdraw_fee) \in Nat
  <1>1. /\ protocol_fee_rate \in Nat /\ MAX_RATIO \in Nat /\ MAX_RATIO > 0
        /\ protocol_fee_rate <= MAX_RATIO
    BY ConstantsAssumption
  <1>2. withdraw_fee * protocol_fee_rate <= withdraw_fee * MAX_RATIO
    BY <1>1
  <1>3. withdraw_fee * protocol_fee_rate \in Nat
    BY <1>1
  <1>4. (withdraw_fee * protocol_fee_rate) \div MAX_RATIO <= withdraw_fee
    BY <1>1, <1>2, <1>3, QuotientBound
  <1>5. (withdraw_fee * protocol_fee_rate) \div MAX_RATIO \in Nat
    BY <1>1, <1>3
  <1>6. QED
    BY <1>4, <1>5 DEF RelayerFee, ProtocolFee

LEMMA SignMoneyInv ==
    ASSUME FamilyInv, FamilyInv', RecordInv, LedgerInv, MoneyInv, NEW t \in Tx, SignStep(t)
    PROVE  MoneyInv'
  <1>1. CASE SignOrphan(t)
    BY <1>1, ForgetMoneyInv
  <1>2. ASSUME NEW u \in Utxo,
               \/ SignBtcTransaction(t, u) \/ MpcSign(t, u) \/ SignFails(t, u)
               \/ SignBtcTransactionCallback(t, u)
        PROVE  MoneyInv'
    <2>1. QuietStep
      BY <1>2, QuietSigning
    <2>2. burning' = burning /\ UNCHANGED <<fee, lost_found, token, transfers>>
      BY <1>2 DEF SignBtcTransaction, MpcSign, SignFails, SignBtcTransactionCallback, calls,
                  contract
    <2>3. QED
      BY <2>1, <2>2, QuietMoneyInv
  <1>3. QED
    BY <1>1, <1>2 DEF SignStep

LEMMA VerifyMoneyInv ==
    ASSUME FamilyInv, FamilyInv', RecordInv, LedgerInv, MoneyInv, NEW t \in Tx,
           \/ VerifyWithdraw(t) \/ VerifyWithdrawCallback(t) \/ VerifyFails(t) \/ BurnFails(t)
    PROVE  MoneyInv'
  <1>1. QuietStep
    BY QuietVerifying
  <1>2. UNCHANGED <<fee, lost_found, token, transfers>>
    BY DEF VerifyWithdraw, VerifyWithdrawCallback, VerifyFails, BurnFails, calls, contract
  <1>3. \A x \in Tx : burning[x] \in {"none", "called", "burned"}
    BY DEF FamilyInv, FamilyTypes
  <1>4. \A x \in Tx : burning'[x] = "burned" <=> burning[x] = "burned"
    <2>1. CASE VerifyWithdraw(t) \/ VerifyFails(t)
      BY <2>1 DEF VerifyWithdraw, VerifyFails
    <2>2. CASE VerifyWithdrawCallback(t)
      <3>1. info[t].stage = "PendingVerify" /\ burning' = [burning EXCEPT ![t] = "called"]
        BY <2>2 DEF VerifyWithdrawCallback, AwaitsProof
      <3>2. burning[t] = "none"
        BY <3>1 DEF FamilyInv, BurnsMatchStages
      <3>3. QED
        BY <3>1, <3>2 DEF FamilyInv, FamilyTypes
    <2>3. CASE BurnFails(t)
      BY <2>3 DEF BurnFails, FamilyInv, FamilyTypes
    <2>4. QED
      BY <2>1, <2>2, <2>3
  <1>5. QED
    BY <1>1, <1>2, <1>4, QuietMoneyInv

\* The token burns what the transaction took out of the bridge, and pays the relayer.
LEMMA BurnMoneyInv ==
    ASSUME FamilyInv, FamilyInv', RecordInv, LedgerInv, MoneyInv, NEW t \in Tx, NbtcBurn(t)
    PROVE  MoneyInv'
  <1>1. BodiesOK /\ MoneyTypes
    BY MoneyTyped DEF RecordInv, MoneyInv
  <1>2. utxos' = utxos /\ body' = body
    BY DEF NbtcBurn, contract
  <1>3. BodiesOK'
    BY <1>1, <1>2 DEF BodiesOK
  <1> DEFINE r == RelayerFee(info[t].withdraw_fee)
             n == info[t].burn_amount
  <1>4. /\ info[t] \in Info
        /\ TotalReserved' = TotalReserved
        /\ TotalOwed' = TotalOwed - (n + r)
        /\ TotalLocked' = TotalLocked - n
    BY <1>1, <1>3, BurnTotals
  <1>5. n \in Nat /\ info[t].withdraw_fee \in Nat
    BY <1>4, RecordFields
  <1>6. r \in Nat
    BY <1>5, RelayerFeeIsNat
  <1>7. /\ n + r <= bridge_balance
        /\ bridge_balance' = bridge_balance - n - r /\ wallets' = wallets + r
        /\ fee' = fee /\ lost_found' = lost_found /\ transfers' = transfers
    BY DEF NbtcBurn, contract
  <1> HIDE DEF n, r
  <1>8. /\ AmountInFlight' = AmountInFlight /\ TotalLost' = TotalLost
        /\ TotalUtxos' = TotalUtxos
        /\ FeesInFlight' <= fee'.acc_claimed /\ TransfersOK(transfers')
    BY <1>2, <1>7, MoneyFrame DEF MoneyInv
  <1>9. fee.cur_reserved \in Nat /\ fee.cur_available \in Nat
    BY FeeFields
  <1>10. Moves(0, -(n + r), 0, 0, 0, -n, 0, -(n + r), r)
    BY <1>1, <1>4, <1>5, <1>6, <1>7, <1>8, <1>9 DEF Moves, MoneyTypes, MoneyInv
  <1>11. wallets + r \in Nat /\ bridge_balance + (-(n + r)) \in Nat
    BY <1>5, <1>6, <1>7 DEF MoneyInv
  <1>12. -(n + r) = -(n + r) + 0 + 0 + 0 + 0 /\ -(n + r) + r = -n + 0
    BY <1>5, <1>6
  <1>13. -(n + r) \in Int /\ -n \in Int /\ r \in Int /\ 0 \in Int
    BY <1>5, <1>6
  <1>14. QED
    BY ONLY <1>1, <1>8, <1>10, <1>11, <1>12, <1>13, MoneyMoves, MoneyInv, LedgerInv

\* A transfer is sent, for the protocol fee or not.
LEMMA SentTransfer ==
    ASSUME TransfersOK(transfers), NEW a \in Account, NEW amount \in Nat, amount > 0,
           NEW purpose \in {"refund", "fee"},
           transfers' = transfers (+)
                SetToBag({[to |-> a, amount |-> amount, purpose |-> purpose]})
    PROVE  /\ TransfersOK(transfers')
           /\ AmountInFlight' = AmountInFlight + amount
           /\ FeesInFlight' = FeesInFlight + (IF purpose = "fee" THEN amount ELSE 0)
           /\ FeesInFlight \in Nat
  <1> DEFINE e == [to |-> a, amount |-> amount, purpose |-> purpose]
  <1>1. e \in Transfer /\ e.amount = amount /\ e.purpose = purpose
    BY DEF Transfer
  <1>2. transfers' = transfers (+) SetToBag({e})
    OBVIOUS
  <1> HIDE DEF e
  <1>3. \A x \in Transfer : AmountOf[x] \in Nat /\ FeeOf[x] \in Nat
    BY WeightsAreNat
  <1>4. AmountOf[e] = amount /\ FeeOf[e] = IF purpose = "fee" THEN amount ELSE 0
    BY <1>1, WeightsAreNat
  <1>5. /\ TransfersOK(transfers')
        /\ Weight(transfers', AmountOf) = Weight(transfers, AmountOf) + AmountOf[e]
    BY <1>1, <1>2, <1>3, TransferAdded
  <1>6. /\ Weight(transfers', FeeOf) = Weight(transfers, FeeOf) + FeeOf[e]
        /\ Weight(transfers, FeeOf) \in Nat
    BY <1>1, <1>2, <1>3, TransferAdded
  <1>7. QED
    BY <1>4, <1>5, <1>6 DEF AmountInFlight, FeesInFlight

\* What a settled transaction burned, the fee and the refund are what was withdrawn, and
\* what its gas took of the reserve; the reserve covers it.
LEMMA SettlementAmounts ==
    ASSUME FamilyInv, RecordInv, NEW t \in Tx, NEW o \in Tx, Exists(t), Exists(o),
           o = info[t].original_tx_id
    PROVE  /\ RefundOf(t) + info[t].burn_amount + info[t].withdraw_fee
                = info[t].transfer_amount + UsedReserve(t)
           /\ UsedReserve(t) <= Reserved(o)
  <1> DEFINE r == info[t]
             q == info[o]
             T == r.transfer_amount
             W == r.withdraw_fee
             B == r.burn_amount
  <1>1. r \in Info /\ q \in Info
    BY DEF FamilyInv, FamilyTypes, Exists
  <1>2. AmountsFit(r, body[t]) /\ FamilyFits(r, body[t], q, body[o])
    BY DEF RecordInv, RecordsOK, RecordOK
  <1>3. PrevReserved(o) = Prev(q) /\ ExcessGas(t, B) = Excess(r, B)
    BY DEF PrevReserved, Prev, ExcessGas, Excess
  <1>4. /\ RefundOf(t) = IF r.kind = "withdraw" /\ r.role = "cancel" THEN monus(T, W + B) ELSE 0
        /\ Reserved(o) = IF q.kind = "manage" THEN q.max_gas_fee ELSE Prev(q)
    BY <1>3 DEF RefundOf, Reserved
  <1>5. /\ r.kind = "manage" => UsedReserve(t) = B
        /\ r.kind = "withdraw" /\ r.role = "cancel" /\ Prev(q) > 0
            => UsedReserve(t) = Excess(r, B)
        /\ r.kind = "withdraw" /\ ~(r.role = "cancel" /\ Prev(q) > 0) => UsedReserve(t) = 0
    BY <1>3 DEF UsedReserve
  <1>6. /\ T \in Nat /\ W \in Nat /\ B \in Nat /\ Prev(q) \in Nat /\ q.max_gas_fee \in Nat
        /\ r.kind \in {"withdraw", "manage"}
    BY <1>1, RecordFields
  <1>7. Excess(r, B) = monus(B, T - W)
    BY DEF Excess
  <1>8. /\ W <= T /\ r.kind = q.kind
        /\ r.kind = "manage" => T = 0 /\ B <= q.max_gas_fee
        /\ r.kind = "withdraw" /\ r.role # "cancel" => B = T - W
        /\ r.kind = "withdraw" /\ r.role = "cancel" => Excess(r, B) <= Prev(q)
    BY <1>2 DEF AmountsFit, FamilyFits
  <1> HIDE DEF r, q, T, W, B
  <1>9. CASE r.kind = "manage"
    <2>1. RefundOf(t) = 0 /\ UsedReserve(t) = B /\ Reserved(o) = q.max_gas_fee
      BY <1>4, <1>5, <1>8, <1>9
    <2>2. RefundOf(t) + B + W = T + UsedReserve(t) /\ UsedReserve(t) <= Reserved(o)
      BY <1>6, <1>8, <1>9, <2>1
    <2>3. QED
      BY <2>2 DEF r, T, W, B
  <1>10. CASE r.kind = "withdraw" /\ r.role # "cancel"
    <2>1. RefundOf(t) = 0 /\ UsedReserve(t) = 0 /\ Reserved(o) = Prev(q)
      BY <1>4, <1>5, <1>8, <1>10
    <2>2. RefundOf(t) + B + W = T + UsedReserve(t) /\ UsedReserve(t) <= Reserved(o)
      BY <1>6, <1>8, <1>10, <2>1
    <2>3. QED
      BY <2>2 DEF r, T, W, B
  <1>11. CASE r.kind = "withdraw" /\ r.role = "cancel"
    <2>1. RefundOf(t) = monus(T, W + B) /\ Reserved(o) = Prev(q)
      BY <1>4, <1>8, <1>11
    <2>2. monus(B, T - W) <= Prev(q)
      BY <1>7, <1>8, <1>11
    <2>3. UsedReserve(t) = monus(B, T - W)
      <3>1. CASE Prev(q) > 0
        BY <1>5, <1>7, <1>11, <3>1
      <3>2. CASE Prev(q) = 0
        BY <1>5, <1>6, <1>8, <1>11, <2>2, <3>2 DEF monus
      <3>3. QED
        BY <1>6, <3>1, <3>2
    <2>4. monus(T, W + B) + B + W = T + monus(B, T - W)
      BY <1>6, <1>8 DEF monus
    <2>5. QED
      BY <2>1, <2>2, <2>3, <2>4 DEF r, T, W, B
  <1>12. QED
    BY <1>6, <1>9, <1>10, <1>11

\* The family leaves the books: what it reserved becomes available or is spent as gas,
\* the rest of the amount is refunded, and the change replaces the UTXOs it locked.
LEMMA SettleMoneyInv ==
    ASSUME FamilyInv, FamilyInv', RecordInv, LedgerInv, SpentInv, MoneyInv, NEW t \in Tx,
           VerifyWithdrawBurnCallback(t)
    PROVE  MoneyInv'
  <1> DEFINE o == info[t].original_tx_id
  <1>1. BodiesOK /\ MoneyTypes
    BY MoneyTyped DEF RecordInv, MoneyInv
  <1>2. WritesSettlement(t, o)
    BY <1>1, SettlementWrites
  <1>3. BodiesOK'
    BY <1>2, SettleRecordInv DEF RecordInv
  <1>4. /\ o \in Tx /\ Exists(t) /\ Exists(o) /\ info[t] \in Info /\ info[o] \in Info
        /\ info[o].role = "original" /\ body[t] \in Body
        /\ utxos' = IF body[t].change = 0 THEN utxos
                    ELSE [u \in DOMAIN utxos \cup {t} |->
                            IF u = t THEN body[t].change ELSE utxos[u]]
    BY <1>2 DEF WritesSettlement
  <1> DEFINE T == info[t].transfer_amount
             W == info[t].withdraw_fee
             B == info[t].burn_amount
             R == RelayerFee(W)
             P == ProtocolFee(W)
             Refund == RefundOf(t)
             Res == Reserved(o)
             Used == UsedReserve(t)
             change == body[t].change
  <1>5. /\ T \in Nat /\ W \in Nat /\ B \in Nat /\ R \in Int /\ P \in Nat /\ R + P = W
        /\ Refund \in Nat /\ Res \in Nat /\ Used \in Nat /\ change \in Nat
        /\ info[t].account_id \in Account
    <2>1. T \in Nat /\ W \in Nat /\ B \in Nat /\ info[t].account_id \in Account
      BY <1>4, RecordFields
    <2>2. R \in Int /\ P \in Nat /\ R + P = W
      BY <2>1, RelayerFeeType
    <2>3. Refund \in Nat /\ Used \in Nat
      BY <1>4, AmountTypes
    <2>4. Res \in Nat
      BY <1>4, AmountTypes
    <2>5. change \in Nat
      BY <1>4 DEF Body
    <2>6. QED
      BY <2>1, <2>2, <2>3, <2>4, <2>5
  <1>6. Refund + B + W = T + Used
    BY <1>4, SettlementAmounts
  <1>7. /\ TotalReserved' = TotalReserved - Res
        /\ TotalOwed' = TotalOwed - T + (B + R)
        /\ TotalLocked' = TotalLocked - change
    <2>1. ReserveOf(info[o]) = Res
      BY <1>4 DEF ReserveOf, Reserved, PrevReserved, Prev, Exists
    <2>2. QED
      BY <1>2, <1>3, <1>4, <2>1, SettlementTotals
  <1>8. TotalUtxos' = TotalUtxos + change
    <2>1. t \notin DOMAIN utxos
      BY <1>4 DEF SpentInv
    <2>2. QED
      BY <1>1, <1>4, <1>5, <2>1, UtxoOffered
  <1>9. /\ wallets' = wallets /\ bridge_balance' = bridge_balance
        /\ lost_found' = lost_found
        /\ transfers' = IF Refund = 0 THEN transfers
                        ELSE transfers (+) SetToBag({[to |-> info[t].account_id,
                                                      amount |-> Refund, purpose |-> "refund"]})
        /\ fee' = [fee EXCEPT !.cur_reserved  = @ - Res,
                              !.acc_for_gas   = @ + Used,
                              !.acc_collected = @ + P,
                              !.cur_available = @ + Res - Used + P]
    BY DEF VerifyWithdrawBurnCallback, token
  <1> HIDE DEF o, T, W, B, R, P, Refund, Res, Used, change
  <1>10. /\ fee.cur_reserved \in Nat /\ fee.cur_available \in Nat
         /\ fee'.cur_reserved = fee.cur_reserved - Res
         /\ fee'.cur_available = fee.cur_available + Res - Used + P
         /\ fee'.acc_claimed = fee.acc_claimed
    BY <1>9, FeeFields DEF LedgerInv, Fee
  <1>11. /\ AmountInFlight' = AmountInFlight + Refund
         /\ FeesInFlight' = FeesInFlight /\ TransfersOK(transfers')
    <2>1. CASE Refund = 0
      BY <1>1, <1>9, <2>1, MoneyFrame DEF MoneyInv, MoneyTypes
    <2>2. CASE Refund # 0
      <3>1. Refund > 0 /\ TransfersOK(transfers)
        BY <1>5, <2>2 DEF MoneyInv
      <3>2. transfers' = transfers (+) SetToBag({[to |-> info[t].account_id,
                                                  amount |-> Refund, purpose |-> "refund"]})
        BY <1>9, <2>2
      <3>3. /\ TransfersOK(transfers')
            /\ AmountInFlight' = AmountInFlight + Refund
            /\ FeesInFlight' = FeesInFlight + (IF "refund" = "fee" THEN Refund ELSE 0)
        BY <1>5, <3>1, <3>2, SentTransfer
      <3>4. QED
        BY <1>1, <3>3 DEF MoneyTypes
    <2>3. QED
      BY <2>1, <2>2
  <1>12. TotalLost' = TotalLost
    BY <1>9, MoneyFrame
  <1> DEFINE available == Res - Used + P
             owed == -T + (B + R)
  <1>13. available \in Int /\ owed \in Int /\ -Res \in Int /\ -change \in Int
    BY <1>5
  <1>14. 0 = owed + available + (-Res) + Refund + 0
    BY <1>5, <1>6
  <1>15. 0 + 0 = (-change) + change
    BY <1>5
  <1>16. Moves(-Res, owed, available, Refund, 0, -change, change, 0, 0)
    BY <1>1, <1>5, <1>7, <1>8, <1>9, <1>10, <1>11, <1>12 DEF Moves, MoneyTypes, MoneyInv
  <1> HIDE DEF available, owed
  <1>17. /\ wallets + 0 \in Nat /\ bridge_balance + 0 \in Nat
         /\ FeesInFlight' <= fee'.acc_claimed
    BY <1>10, <1>11 DEF MoneyInv
  <1>18. Refund \in Int /\ change \in Int /\ 0 \in Int
    BY <1>5
  <1>19. QED
    BY ONLY <1>1, <1>11, <1>13, <1>14, <1>15, <1>16, <1>17, <1>18, MoneyMoves, MoneyInv,
            LedgerInv

\* A transfer leaves the bag, having arrived or failed.
LEMMA TakenTransfer ==
    ASSUME TransfersOK(transfers), NEW e \in BagToSet(transfers),
           transfers' = transfers (-) SetToBag({e})
    PROVE  /\ e \in Transfer
           /\ TransfersOK(transfers')
           /\ AmountInFlight' = AmountInFlight - e.amount
           /\ FeesInFlight' = FeesInFlight - (IF e.purpose = "fee" THEN e.amount ELSE 0)
           /\ FeesInFlight \in Nat
           /\ (IF e.purpose = "fee" THEN e.amount ELSE 0) <= FeesInFlight
  <1>1. e \in DOMAIN transfers /\ e \in Transfer
    BY DEF TransfersOK, BagToSet
  <1>2. \A x \in Transfer : AmountOf[x] \in Nat /\ FeeOf[x] \in Nat
    BY WeightsAreNat
  <1>3. AmountOf[e] = e.amount /\ FeeOf[e] = IF e.purpose = "fee" THEN e.amount ELSE 0
    BY <1>1, WeightsAreNat
  <1>4. /\ TransfersOK(transfers')
        /\ Weight(transfers', AmountOf) = Weight(transfers, AmountOf) - AmountOf[e]
    BY <1>1, <1>2, TransferRemoved
  <1>5. /\ Weight(transfers', FeeOf) = Weight(transfers, FeeOf) - FeeOf[e]
        /\ Weight(transfers, FeeOf) \in Nat /\ FeeOf[e] <= Weight(transfers, FeeOf)
    BY <1>1, <1>2, TransferRemoved
  <1>6. QED
    BY <1>1, <1>3, <1>4, <1>5 DEF AmountInFlight, FeesInFlight

\* The nBTC that comes in and goes out, without a record being touched.
LEMMA TokenMoneyInv ==
    ASSUME FamilyInv, FamilyInv', RecordInv, LedgerInv, MoneyInv, TokenStep
    PROVE  MoneyInv'
  <1>1. BodiesOK /\ MoneyTypes
    BY MoneyTyped DEF RecordInv, MoneyInv
  <1>2. QuietStep /\ burning' = burning
    BY QuietTokens DEF TokenStep, TransferSucceeds, TransferFails, ClaimLostFound,
                       WithdrawProtocolFee, DepositProtocolFee, calls
  <1>3. body' = body /\ utxos' = utxos
    BY <1>2 DEF QuietStep
  <1>4. BodiesOK'
    BY <1>1, <1>3 DEF BodiesOK
  <1>5. /\ TotalReserved' = TotalReserved /\ TotalOwed' = TotalOwed
        /\ TotalLocked' = TotalLocked /\ TotalUtxos' = TotalUtxos
    BY <1>1, <1>2, <1>3, <1>4, QuietTotals, MoneyFrame
  <1>6. fee.cur_available \in Nat /\ fee.cur_reserved \in Nat /\ fee.acc_claimed \in Int
    BY FeeFields
  <1>7. wallets \in Nat /\ bridge_balance \in Nat /\ TransfersOK(transfers)
        /\ FeesInFlight <= fee.acc_claimed
    BY DEF MoneyInv
  <1>8. ASSUME NEW e \in BagToSet(transfers), TransferSucceeds(e)
        PROVE  MoneyInv'
    <2>1. /\ transfers' = transfers (-) SetToBag({e}) /\ e.amount <= bridge_balance
          /\ bridge_balance' = bridge_balance - e.amount /\ wallets' = wallets + e.amount
          /\ fee' = fee /\ lost_found' = lost_found
      BY <1>8 DEF TransferSucceeds, contract
    <2>2. /\ e \in Transfer /\ TransfersOK(transfers')
          /\ AmountInFlight' = AmountInFlight - e.amount
          /\ FeesInFlight' = FeesInFlight - (IF e.purpose = "fee" THEN e.amount ELSE 0)
          /\ FeesInFlight \in Nat
      BY <1>7, <2>1, TakenTransfer
    <2> DEFINE n == e.amount
    <2>3. n \in Nat
      BY <2>2, WeightsAreNat
    <2>4. TotalLost' = TotalLost
      BY <2>1, MoneyFrame
    <2>5. FeesInFlight' <= fee'.acc_claimed
      BY <1>6, <1>7, <2>1, <2>2, <2>3
    <2>6. Moves(0, 0, 0, -n, 0, 0, 0, -n, n)
      BY <1>1, <1>5, <1>6, <1>7, <2>1, <2>2, <2>3, <2>4 DEF Moves, MoneyTypes
    <2>7. bridge_balance + (-n) \in Nat /\ wallets + n \in Nat
      BY <1>7, <2>1, <2>3
    <2> HIDE DEF n
    <2>8. -n = 0 + 0 + 0 + (-n) + 0 /\ -n + n = 0 + 0 /\ n \in Int /\ -n \in Int /\ 0 \in Int
      BY <2>3
    <2>9. QED
      BY ONLY <1>1, <2>2, <2>5, <2>6, <2>7, <2>8, MoneyMoves, MoneyInv, LedgerInv
  <1>9. ASSUME NEW e \in BagToSet(transfers), TransferFails(e)
        PROVE  MoneyInv'
    <2>1. /\ transfers' = transfers (-) SetToBag({e})
          /\ bridge_balance' = bridge_balance /\ wallets' = wallets
          /\ IF e.purpose = "fee"
             THEN /\ fee' = [fee EXCEPT !.cur_available = @ + e.amount,
                                        !.acc_claimed = @ - e.amount]
                  /\ lost_found' = lost_found
             ELSE /\ lost_found' = [lost_found EXCEPT ![e.to] = @ + e.amount]
                  /\ fee' = fee
      BY <1>9 DEF TransferFails, token
    <2>2. /\ e \in Transfer /\ TransfersOK(transfers')
          /\ AmountInFlight' = AmountInFlight - e.amount
          /\ FeesInFlight' = FeesInFlight - (IF e.purpose = "fee" THEN e.amount ELSE 0)
          /\ FeesInFlight \in Nat
      BY <1>7, <2>1, TakenTransfer
    <2> DEFINE n == e.amount
    <2>3. n \in Nat /\ e.to \in Account
      BY <2>2, WeightsAreNat
    <2>4. n \in Int /\ -n \in Int /\ 0 \in Int /\ 0 + 0 = 0 + 0
          /\ 0 = 0 + n + 0 + (-n) + 0 /\ 0 = 0 + 0 + 0 + (-n) + n
          /\ bridge_balance + 0 \in Nat /\ wallets + 0 \in Nat
      BY <1>7, <2>3
    <2>5. CASE e.purpose = "fee"
      <3>1. /\ fee'.cur_reserved = fee.cur_reserved
            /\ fee'.cur_available = fee.cur_available + n
            /\ fee'.acc_claimed = fee.acc_claimed - n
            /\ lost_found' = lost_found
        BY <2>1, <2>5 DEF LedgerInv, Fee
      <3>2. TotalLost' = TotalLost
        BY <3>1, MoneyFrame
      <3>3. FeesInFlight' <= fee'.acc_claimed
        BY <1>6, <1>7, <2>2, <2>3, <2>5, <3>1
      <3>4. Moves(0, 0, n, -n, 0, 0, 0, 0, 0)
        BY <1>1, <1>5, <1>6, <1>7, <2>1, <2>2, <2>3, <3>1, <3>2 DEF Moves, MoneyTypes
      <3> HIDE DEF n
      <3>5. QED
        BY ONLY <1>1, <2>2, <2>4, <3>3, <3>4, MoneyMoves, MoneyInv, LedgerInv
    <2>6. CASE e.purpose # "fee"
      <3>1. fee' = fee /\ lost_found' = [lost_found EXCEPT ![e.to] = lost_found[e.to] + n]
        BY <2>1, <2>6
      <3>2. lost_found[e.to] \in Nat
        BY <2>3, LostTypes
      <3> DEFINE m == lost_found[e.to] + n
      <3>3. m \in Nat /\ lost_found' = [lost_found EXCEPT ![e.to] = m]
        BY <2>3, <3>1, <3>2
      <3> HIDE DEF m
      <3>4. TotalLost' = TotalLost - lost_found[e.to] + m
        BY <2>3, <3>3, LostChange
      <3>5. TotalLost' = TotalLost + n
        BY <1>1, <2>3, <3>2, <3>4 DEF m, MoneyTypes
      <3>6. FeesInFlight' <= fee'.acc_claimed
        BY <1>6, <1>7, <2>2, <2>6, <3>1
      <3>7. Moves(0, 0, 0, -n, n, 0, 0, 0, 0)
        BY <1>1, <1>5, <1>6, <1>7, <2>1, <2>2, <2>3, <3>1, <3>5 DEF Moves, MoneyTypes
      <3> HIDE DEF n
      <3>8. QED
        BY ONLY <1>1, <2>2, <2>4, <3>6, <3>7, MoneyMoves, MoneyInv, LedgerInv
    <2>7. QED
      BY <2>5, <2>6
  <1>10. ASSUME NEW a \in Account, ClaimLostFound(a)
         PROVE  MoneyInv'
    <2> DEFINE n == lost_found[a]
    <2>1. /\ n > 0 /\ lost_found' = [lost_found EXCEPT ![a] = 0]
          /\ transfers' = transfers (+)
                SetToBag({[to |-> a, amount |-> n, purpose |-> "refund"]})
          /\ fee' = fee /\ bridge_balance' = bridge_balance /\ wallets' = wallets
      BY <1>10 DEF ClaimLostFound, Send, token
    <2>2. n \in Nat
      BY LostTypes
    <2>3. TotalLost' = TotalLost - n + 0
      BY <2>1, LostChange
    <2> HIDE DEF n
    <2>4. /\ TransfersOK(transfers') /\ AmountInFlight' = AmountInFlight + n
          /\ FeesInFlight' = FeesInFlight + (IF "refund" = "fee" THEN n ELSE 0)
          /\ FeesInFlight \in Nat
      BY <1>7, <2>1, <2>2, SentTransfer
    <2>5. FeesInFlight' <= fee'.acc_claimed
      BY <1>6, <1>7, <2>1, <2>4
    <2>6. Moves(0, 0, 0, n, -n, 0, 0, 0, 0)
      BY <1>1, <1>5, <1>6, <1>7, <2>1, <2>2, <2>3, <2>4 DEF Moves, MoneyTypes
    <2>7. n \in Int /\ -n \in Int /\ 0 \in Int /\ 0 = 0 + 0 + 0 + n + (-n) /\ 0 + 0 = 0 + 0
          /\ bridge_balance + 0 \in Nat /\ wallets + 0 \in Nat
      BY <1>7, <2>2
    <2>8. QED
      BY ONLY <1>1, <2>4, <2>5, <2>6, <2>7, MoneyMoves, MoneyInv, LedgerInv
  <1>11. ASSUME NEW a \in Account, NEW n \in 1..fee.cur_available, WithdrawProtocolFee(a, n)
         PROVE  MoneyInv'
    <2>1. /\ fee' = [fee EXCEPT !.cur_available = @ - n, !.acc_claimed = @ + n]
          /\ transfers' = transfers (+)
                SetToBag({[to |-> a, amount |-> n, purpose |-> "fee"]})
          /\ lost_found' = lost_found /\ bridge_balance' = bridge_balance
          /\ wallets' = wallets
      BY <1>11 DEF WithdrawProtocolFee, Send, token
    <2>2. n \in Nat /\ n > 0
      BY <1>6
    <2>3. /\ TransfersOK(transfers') /\ AmountInFlight' = AmountInFlight + n
          /\ FeesInFlight' = FeesInFlight + (IF "fee" = "fee" THEN n ELSE 0)
          /\ FeesInFlight \in Nat
      BY <1>7, <2>1, <2>2, SentTransfer
    <2>4. /\ fee'.cur_reserved = fee.cur_reserved
          /\ fee'.cur_available = fee.cur_available - n
          /\ fee'.acc_claimed = fee.acc_claimed + n
      BY <2>1 DEF LedgerInv, Fee
    <2>5. FeesInFlight' <= fee'.acc_claimed
      BY <1>6, <1>7, <2>2, <2>3, <2>4
    <2>6. TotalLost' = TotalLost
      BY <2>1, MoneyFrame
    <2>7. Moves(0, 0, -n, n, 0, 0, 0, 0, 0)
      BY <1>1, <1>5, <1>6, <1>7, <2>1, <2>2, <2>3, <2>4, <2>6 DEF Moves, MoneyTypes
    <2>8. n \in Int /\ -n \in Int /\ 0 \in Int /\ 0 = 0 + (-n) + 0 + n + 0 /\ 0 + 0 = 0 + 0
          /\ bridge_balance + 0 \in Nat /\ wallets + 0 \in Nat
      BY <1>7, <2>2
    <2>9. QED
      BY ONLY <1>1, <2>3, <2>5, <2>7, <2>8, MoneyMoves, MoneyInv, LedgerInv
  <1>12. ASSUME NEW n \in FeeDeposit, DepositProtocolFee(n)
         PROVE  MoneyInv'
    <2>1. /\ n <= wallets /\ wallets' = wallets - n /\ bridge_balance' = bridge_balance + n
          /\ fee' = [fee EXCEPT !.acc_collected = @ + n, !.cur_available = @ + n]
          /\ lost_found' = lost_found /\ transfers' = transfers
      BY <1>12 DEF DepositProtocolFee, Receive, calls
    <2>2. n \in Nat
      BY ConstantsAssumption
    <2>3. /\ fee'.cur_reserved = fee.cur_reserved
          /\ fee'.cur_available = fee.cur_available + n
          /\ fee'.acc_claimed = fee.acc_claimed
      BY <2>1 DEF LedgerInv, Fee
    <2>4. /\ TotalLost' = TotalLost /\ AmountInFlight' = AmountInFlight
          /\ FeesInFlight' <= fee'.acc_claimed /\ TransfersOK(transfers')
      BY <1>7, <2>1, <2>3, MoneyFrame
    <2>5. Moves(0, 0, n, 0, 0, 0, 0, n, -n)
      BY <1>1, <1>5, <1>6, <1>7, <2>1, <2>2, <2>3, <2>4 DEF Moves, MoneyTypes
    <2>6. n \in Int /\ -n \in Int /\ 0 \in Int /\ n = 0 + n + 0 + 0 + 0 /\ n + (-n) = 0 + 0
          /\ bridge_balance + n \in Nat /\ wallets + (-n) \in Nat
      BY <1>7, <2>1, <2>2
    <2>7. QED
      BY ONLY <1>1, <2>4, <2>5, <2>6, MoneyMoves, MoneyInv, LedgerInv
  <1>13. QED
    BY <1>8, <1>9, <1>10, <1>11, <1>12 DEF TokenStep

LEMMA ConfirmMoneyInv ==
    ASSUME FamilyInv, FamilyInv', RecordInv, LedgerInv, MoneyInv, NEW t \in Tx, Confirm(t)
    PROVE  MoneyInv'
  <1>1. /\ info' = info /\ body' = body /\ utxos' = utxos /\ burning' = burning
        /\ UNCHANGED <<fee, lost_found, token, transfers>>
    BY DEF Confirm, contract, calls
  <1>2. QuietStep
    BY <1>1, QuietWhenRecordsKept
  <1>3. QED
    BY <1>1, <1>2, QuietMoneyInv

\* Every satoshi is accounted for in every state.
THEOREM MoneyInductive == Spec => []MoneyInv
  <1>1. FamilyInv /\ FamilyInv' /\ RecordInv /\ LedgerInv /\ SpentInv /\ MoneyInv /\ [Next]_vars
            => MoneyInv'
    <2> SUFFICES ASSUME FamilyInv, FamilyInv', RecordInv, LedgerInv, SpentInv, MoneyInv,
                        [Next]_vars
                 PROVE  MoneyInv'
      OBVIOUS
    <2>1. CASE UNCHANGED vars
      <3>1. /\ info' = info /\ body' = body /\ utxos' = utxos /\ burning' = burning
            /\ UNCHANGED <<fee, lost_found, token, transfers>>
        BY <2>1 DEF vars, contract, calls
      <3>2. QuietStep
        BY <3>1, QuietWhenRecordsKept
      <3>3. QED
        BY <3>1, <3>2, QuietMoneyInv
    <2>2. ASSUME NEW t \in Tx, Create(t) PROVE MoneyInv'
      BY <2>2, CreateMoneyInv
    <2>3. ASSUME NEW t \in Tx, SignStep(t) PROVE MoneyInv'
      BY <2>3, SignMoneyInv
    <2>4. ASSUME NEW t \in Tx, Confirm(t) PROVE MoneyInv'
      BY <2>4, ConfirmMoneyInv
    <2>5. ASSUME NEW t \in Tx, BurnStep(t) PROVE MoneyInv'
      <3>1. CASE VerifyWithdrawBurnCallback(t)
        BY <3>1, SettleMoneyInv
      <3>2. CASE NbtcBurn(t)
        BY <3>2, BurnMoneyInv
      <3>3. CASE VerifyWithdraw(t) \/ VerifyWithdrawCallback(t) \/ VerifyFails(t)
                    \/ BurnFails(t)
        BY <3>3, VerifyMoneyInv
      <3>4. QED
        BY <2>5, <3>1, <3>2, <3>3 DEF BurnStep
    <2>6. ASSUME NEW t \in Tx, ClearInvalidPendingVerifyRbf(t) PROVE MoneyInv'
      BY <2>6, ForgetMoneyInv
    <2>7. CASE TokenStep
      BY <2>7, TokenMoneyInv
    <2>8. QED
      BY <2>1, <2>2, <2>3, <2>4, <2>5, <2>6, <2>7 DEF Next
  <1>2. QED
    BY InitMoneyInv, FamilyInductive, RecordsInductive, LedgerInductive, SpentInductive, <1>1,
       PTL DEF Spec

-----------------------------------------------------------------------------
(* What the sums say.                                                      *)

\* The facts that every state has.
Accounted == FamilyInv /\ RecordInv /\ LedgerInv /\ MoneyInv

LEMMA AlwaysAccounted == Spec => []Accounted
  BY FamilyInductive, RecordsInductive, LedgerInductive, MoneyInductive, PTL DEF Accounted

\* The protocol fee has reserved, to the satoshi, what the unsettled families may still
\* cost it, however often their transactions were replaced and cancelled.
THEOREM ReserveExact == Spec => []ReservedIsExact
  <1>1. Accounted => ReservedIsExact
    <2> SUFFICES ASSUME Accounted PROVE ReservedIsExact
      OBVIOUS
    <2> DEFINE g == [o \in Originals |-> Reserved(o)]
    <2>1. /\ FamilyInv /\ BodiesOK /\ fee.cur_reserved = TotalReserved
      BY DEF Accounted, RecordInv, MoneyInv, ReservedInv
    <2>2. \A o \in Originals : Reserves[o] \in Nat /\ g[o] = Reserves[o]
      <3> TAKE o \in Originals
      <3>1. o \in Tx /\ info[o] # None /\ info[o].role = "original"
        BY DEF Originals, IsOriginal, Exists
      <3>2. Reserves[o] = ReserveOf(info[o])
        BY <3>1, Entries
      <3>3. ReserveOf(info[o]) = Reserved(o)
        BY <3>1 DEF ReserveOf, Reserved, PrevReserved, Prev
      <3>4. QED
        BY <2>1, <3>1, <3>2, <3>3, TableTypes
    <2>3. \A o \in Tx \ Originals : Reserves[o] = 0
      <3> TAKE o \in Tx \ Originals
      <3>1. info[o] = None \/ info[o].role # "original"
        BY DEF Originals, IsOriginal, Exists
      <3>2. QED
        BY <3>1, Entries DEF ReserveOf
    <2>4. Originals \in SUBSET Tx /\ DOMAIN g = Originals
      BY DEF Originals
    <2> HIDE DEF g
    <2>5. TotalReserved = SumFunctionOnSet(g, Originals)
      BY <2>2, <2>3, <2>4, TxFinite, SumOnPart DEF TotalReserved
    <2>6. SumFunction(g) = SumFunctionOnSet(g, Originals)
      BY <2>4 DEF SumFunction
    <2>7. QED
      BY <2>1, <2>5, <2>6 DEF ReservedIsExact, g
  <1>2. QED
    BY AlwaysAccounted, <1>1, PTL

\* The callback of a burn finds both records of the family and enough reserve for each of
\* its subtractions: it does not panic and lose what the token burned.
THEOREM SettlementSafe == Spec => []SettlementCannotPanic
  <1>1. Accounted => SettlementCannotPanic
    <2> SUFFICES ASSUME Accounted, NEW t \in Tx, burning[t] = "burned" PROVE Settleable(t)
      BY DEF SettlementCannotPanic, InBurn
    <2> DEFINE o == info[t].original_tx_id
    <2>1. FamilyInv /\ RecordInv /\ BodiesOK /\ fee.cur_reserved = TotalReserved
      BY DEF Accounted, RecordInv, MoneyInv, ReservedInv
    <2>2. Exists(t) /\ t \in confirmed
      BY <2>1 DEF FamilyInv, BurnsMatchStages
    <2>3. info[t] \in Info /\ o \in Tx
      BY <2>1, <2>2, RecordFields DEF FamilyInv, FamilyTypes, Exists
    <2>4. Exists(o)
      BY <2>1, <2>2 DEF RecordInv, OrphansLost, OrphanIsLost, Orphan
    <2>5. info[o].role = "original"
      BY <2>1, <2>2, <2>3, <2>4 DEF FamilyInv, Families, InFamily
    <2>6. Reserves[o] = Reserved(o)
      BY <2>3, <2>4, <2>5, Entries DEF Exists, ReserveOf, Reserved, PrevReserved, Prev
    <2>7. Reserves[o] <= TotalReserved
      BY <2>1, <2>3, TableTypes, TxFinite, SumElement DEF TotalReserved
    <2>8. UsedReserve(t) <= Reserved(o)
      BY <2>1, <2>2, <2>3, <2>4, SettlementAmounts
    <2>9. QED
      BY <2>1, <2>2, <2>4, <2>6, <2>7, <2>8 DEF Settleable
  <1>2. QED
    BY AlwaysAccounted, <1>1, PTL

\* The total of a table splits into that of the originals and that of the burns.
LEMMA SplitTotal ==
    ASSUME NEW F, NEW a, NEW b, DOMAIN a = Originals, DOMAIN b = InBurn,
           \A t \in Originals : a[t] \in Nat, \A t \in InBurn : b[t] \in Nat,
           \A t \in Tx : F[t] = (IF t \in Originals THEN a[t] ELSE 0)
                                    - (IF t \in InBurn THEN b[t] ELSE 0)
    PROVE  SumFunctionOnSet(F, Tx) + SumFunction(b) = SumFunction(a)
  <1> DEFINE A == [t \in Tx |-> IF t \in Originals THEN a[t] ELSE 0]
             B == [t \in Tx |-> IF t \in InBurn THEN b[t] ELSE 0]
  <1>1. Originals \in SUBSET Tx /\ InBurn \in SUBSET Tx
    BY DEF Originals, InBurn
  <1>2. \A t \in Tx : A[t] \in Nat /\ B[t] \in Nat /\ F[t] = A[t] - B[t]
    OBVIOUS
  <1>3. /\ \A t \in Originals : A[t] \in Nat /\ a[t] = A[t]
        /\ \A t \in Tx \ Originals : A[t] = 0
    BY <1>1
  <1>4. /\ \A t \in InBurn : B[t] \in Nat /\ b[t] = B[t]
        /\ \A t \in Tx \ InBurn : B[t] = 0
    BY <1>1
  <1> HIDE DEF A, B
  <1>5. \A t \in Tx : F[t] \in Int /\ B[t] \in Int /\ A[t] = F[t] + B[t]
    BY <1>2
  <1>6. SumFunctionOnSet(A, Tx) = SumFunctionOnSet(F, Tx) + SumFunctionOnSet(B, Tx)
    BY <1>5, TxFinite, SumPlus
  <1>7. SumFunctionOnSet(A, Tx) = SumFunctionOnSet(a, Originals)
    BY <1>1, <1>3, TxFinite, SumOnPart
  <1>8. SumFunctionOnSet(B, Tx) = SumFunctionOnSet(b, InBurn)
    BY <1>1, <1>4, TxFinite, SumOnPart
  <1>9. QED
    BY <1>6, <1>7, <1>8 DEF SumFunction

\* What the entries of a transaction are made of.
LEMMA EntryParts ==
    ASSUME Accounted, NEW t \in Tx
    PROVE  /\ t \in Originals => /\ info[t].transfer_amount \in Nat /\ body[t].value \in Nat
           /\ t \in InBurn => /\ info[t].burn_amount \in Nat
                              /\ RelayerFee(info[t].withdraw_fee) \in Nat
           /\ Owed[t] = (IF t \in Originals THEN info[t].transfer_amount ELSE 0)
                - (IF t \in InBurn THEN info[t].burn_amount + RelayerFee(info[t].withdraw_fee)
                                   ELSE 0)
           /\ Locked[t] = (IF t \in Originals THEN body[t].value ELSE 0)
                - (IF t \in InBurn THEN info[t].burn_amount ELSE 0)
  <1>1. FamilyInv /\ BodiesOK
    BY DEF Accounted, RecordInv
  <1>2. /\ t \in Originals <=> info[t] # None /\ info[t].role = "original"
        /\ t \in InBurn <=> burning[t] = "burned"
    BY DEF Originals, IsOriginal, Exists, InBurn
  <1>3. t \in InBurn => info[t] # None
    BY <1>1, <1>2 DEF FamilyInv, BurnsMatchStages, Exists
  <1>4. info[t] # None => info[t] \in Info /\ t \in DOMAIN body
    BY <1>1 DEF FamilyInv, FamilyTypes, Families, InFamily, Exists
  <1>5. info[t] # None => /\ info[t].transfer_amount \in Nat /\ info[t].burn_amount \in Nat
                          /\ info[t].withdraw_fee \in Nat /\ body[t].value \in Nat
    BY <1>1, <1>4, RecordFields DEF BodiesOK, Body
  <1>6. info[t] # None => RelayerFee(info[t].withdraw_fee) \in Nat
    BY <1>5, RelayerFeeIsNat
  <1>7. Owed[t] = OwedFor(info[t], burning[t])
        /\ Locked[t] = LockedFor(info[t], burning[t], body[t].value)
    BY Entries
  <1>8. CASE info[t] = None
    BY <1>2, <1>3, <1>7, <1>8 DEF OwedFor, LockedFor
  <1>9. CASE info[t] # None
    BY <1>2, <1>5, <1>6, <1>7, <1>9 DEF OwedFor, LockedFor
  <1>10. QED
    BY <1>8, <1>9

\* The bridge holds, to the satoshi, what it owes to the users, the protocol and the
\* relayers, whatever transfers, burns and callbacks are under way.
THEOREM SolventAlways == Spec => []Solvent
  <1>1. Accounted => Solvent
    <2> SUFFICES ASSUME Accounted PROVE Solvent
      OBVIOUS
    <2> DEFINE a == [o \in Originals |-> info[o].transfer_amount]
               b == [t \in InBurn |-> info[t].burn_amount + RelayerFee(info[t].withdraw_fee)]
    <2>1. /\ FamilyInv /\ BodiesOK /\ LedgerInv /\ TransfersOK(transfers) /\ SolventInv
      BY DEF Accounted, RecordInv, MoneyInv
    <2>2. Originals \subseteq Tx /\ InBurn \subseteq Tx
      BY DEF Originals, InBurn
    <2>3. \A t \in Tx :
            /\ t \in Originals => a[t] \in Nat
            /\ t \in InBurn => b[t] \in Nat
            /\ Owed[t] = (IF t \in Originals THEN a[t] ELSE 0)
                            - (IF t \in InBurn THEN b[t] ELSE 0)
      BY EntryParts
    <2>4. DOMAIN a = Originals /\ DOMAIN b = InBurn
      OBVIOUS
    <2> HIDE DEF a, b
    <2>5. SumFunctionOnSet(Owed, Tx) + SumFunction(b) = SumFunction(a)
      <3>1. /\ \A t \in Originals : a[t] \in Nat
            /\ \A t \in InBurn : b[t] \in Nat
        BY <2>2, <2>3
      <3>2. QED
        BY <2>3, <2>4, <3>1, SplitTotal
    <2>6. \A t \in InBurn : b[t] \in Nat
      BY <2>2, <2>3
    <2>7. SumFunction(b) \in Nat
      <3>1. IsFiniteSet(InBurn)
        BY <2>2, TxFinite, FS_Subset
      <3>2. QED
        BY <2>4, <2>6, <3>1, SumNat DEF SumFunction
    <2>8. InFlight = AmountInFlight /\ TotalLost = SumFunction(lost_found)
      BY <2>1, InFlightIsWeight, LostTypes DEF AmountInFlight
    <2>9. MoneyTypes
      BY <2>1, MoneyTyped
    <2>10. TotalOwed + SumFunction(b) = SumFunction(a)
      BY <2>5 DEF TotalOwed
    <2>11. fee.cur_available \in Nat /\ fee.cur_reserved \in Nat
      BY <2>1, FeeFields
    <2>12. bridge_balance + SumFunction(b)
            = SumFunction(a) + fee.cur_available + fee.cur_reserved + InFlight
                + SumFunction(lost_found)
      BY <2>1, <2>7, <2>8, <2>9, <2>10, <2>11 DEF SolventInv, MoneyTypes
    <2>13. QED
      BY <2>12 DEF Solvent, a, b
  <1>2. QED
    BY AlwaysAccounted, <1>1, PTL

\* All nBTC is backed, to the satoshi, by UTXOs that the bridge offers or has locked.
THEOREM BackedAlways == Spec => []Backed
  <1>1. Accounted => Backed
    <2> SUFFICES ASSUME Accounted PROVE Backed
      OBVIOUS
    <2> DEFINE a == [o \in Originals |-> body[o].value]
               b == [t \in InBurn |-> info[t].burn_amount]
    <2>1. /\ FamilyInv /\ BodiesOK /\ LedgerInv /\ TransfersOK(transfers) /\ BackedInv
          /\ wallets \in Nat /\ bridge_balance \in Nat
      BY DEF Accounted, RecordInv, MoneyInv
    <2>2. Originals \subseteq Tx /\ InBurn \subseteq Tx
      BY DEF Originals, InBurn
    <2>3. \A t \in Tx :
            /\ t \in Originals => a[t] \in Nat
            /\ t \in InBurn => b[t] \in Nat
            /\ Locked[t] = (IF t \in Originals THEN a[t] ELSE 0)
                            - (IF t \in InBurn THEN b[t] ELSE 0)
      BY EntryParts
    <2>4. DOMAIN a = Originals /\ DOMAIN b = InBurn
      OBVIOUS
    <2> HIDE DEF a, b
    <2>5. TotalLocked + SumFunction(b) = SumFunction(a)
      <3>1. /\ \A t \in Originals : a[t] \in Nat
            /\ \A t \in InBurn : b[t] \in Nat
        BY <2>2, <2>3
      <3>2. QED
        BY <2>3, <2>4, <3>1, SplitTotal DEF TotalLocked
    <2>6. SumFunction(b) \in Nat
      <3>1. IsFiniteSet(InBurn) /\ \A t \in InBurn : b[t] \in Nat
        BY <2>2, <2>3, TxFinite, FS_Subset
      <3>2. QED
        BY <2>4, <3>1, SumNat DEF SumFunction
    <2>7. MoneyTypes
      BY <2>1, MoneyTyped
    <2>8. wallets + bridge_balance + SumFunction(b) = TotalUtxos + SumFunction(a)
      BY <2>1, <2>5, <2>6, <2>7 DEF BackedInv, MoneyTypes
    <2>9. QED
      BY <2>8 DEF Backed, a, b
  <1>2. QED
    BY AlwaysAccounted, <1>1, PTL

-----------------------------------------------------------------------------
(* Types.                                                                  *)

CallTypes ==
    mpc_signed \subseteq Tx \X Utxo /\ signing \subseteq Tx \X Utxo /\ verifying \subseteq Tx

LEMMA CallTypesInductive == Spec => []CallTypes
  <1>1. Init => CallTypes
    BY DEF Init, CallTypes
  <1>2. CallTypes /\ [Next]_vars => CallTypes'
    <2> SUFFICES ASSUME CallTypes, [Next]_vars PROVE CallTypes'
      OBVIOUS
    <2>1. CASE UNCHANGED vars
      BY <2>1 DEF vars, chain, calls, CallTypes
    <2>2. ASSUME NEW t \in Tx, SignStep(t) PROVE CallTypes'
      <3>1. CASE SignOrphan(t)
        BY <3>1 DEF SignOrphan, Forget, chain, calls, CallTypes
      <3>2. ASSUME NEW u \in Utxo,
                   \/ SignBtcTransaction(t, u) \/ MpcSign(t, u) \/ SignFails(t, u)
                   \/ SignBtcTransactionCallback(t, u)
            PROVE  CallTypes'
        BY <3>2 DEF SignBtcTransaction, MpcSign, SignFails, SignBtcTransactionCallback, chain,
                    calls, CallTypes
      <3>3. QED
        BY <2>2, <3>1, <3>2 DEF SignStep
    <2>3. ASSUME NEW t \in Tx, BurnStep(t) PROVE CallTypes'
      BY <2>3 DEF BurnStep, VerifyWithdraw, VerifyWithdrawCallback, VerifyFails, NbtcBurn,
                  BurnFails, VerifyWithdrawBurnCallback, chain, CallTypes
    <2>4. ASSUME NEW t \in Tx, Create(t) PROVE CallTypes'
      <3>1. \A kind, a, amount, withdraw_fee, inputs, gas_fee, burn_amount :
              CreateOriginal(t, kind, a, amount, withdraw_fee, inputs, gas_fee, burn_amount)
                => chain' = chain /\ calls' = calls
        BY DEF CreateOriginal
      <3>2. \A o, role, cost, burn_amount, max_gas_fee, reserved :
              CreateReplacement(t, o, role, cost, burn_amount, max_gas_fee, reserved)
                => chain' = chain /\ calls' = calls
        BY DEF CreateReplacement
      <3>3. chain' = chain /\ calls' = calls
        BY <2>4, <3>1, <3>2 DEF Create, Withdraw, ActiveUtxoManagement, WithdrawRbf,
           ActiveUtxoManagementRbf, CancelWithdraw, CancelActiveUtxoManagement
      <3>4. QED
        BY <3>3 DEF chain, calls, CallTypes
    <2>5. ASSUME NEW t \in Tx, Confirm(t) \/ ClearInvalidPendingVerifyRbf(t) PROVE CallTypes'
      BY <2>5 DEF Confirm, ClearInvalidPendingVerifyRbf, Forget, chain, calls, CallTypes
    <2>6. CASE TokenStep
      BY <2>6 DEF TokenStep, TransferSucceeds, TransferFails, ClaimLostFound,
                  WithdrawProtocolFee, DepositProtocolFee, chain, calls, CallTypes
    <2>7. QED
      BY <2>1, <2>2, <2>3, <2>4, <2>5, <2>6 DEF Next
  <1>3. QED
    BY <1>1, <1>2, PTL DEF Spec

\* The records, the ledger and the calls have their types; no amount, and no field of the
\* ledger, is ever below zero, acc_claimed included, which failed claims are taken from.
THEOREM TypesHold == Spec => []TypeOK
  <1>1. Accounted /\ CallTypes => TypeOK
    <2> SUFFICES ASSUME Accounted, CallTypes PROVE TypeOK
      OBVIOUS
    <2>1. FamilyInv /\ BodiesOK /\ LedgerInv /\ MoneyInv
      BY DEF Accounted, RecordInv
    <2>2. FamilyTypes /\ confirmed \subseteq Tx
      BY <2>1 DEF FamilyInv, NoDoubleSpend, BodiesOK
    <2>3. fee.acc_claimed \in Nat
      <3>1. FeesInFlight \in Nat
        BY <2>1, MoneyTyped DEF MoneyTypes, MoneyInv
      <3>2. QED
        BY <2>1, <3>1, FeeFields DEF MoneyInv
    <2>4. fee \in [{"acc_collected", "cur_available", "cur_reserved", "acc_for_gas",
                    "acc_claimed"} -> Nat]
      <3>1. fee = [k \in {"acc_collected", "cur_available", "cur_reserved", "acc_for_gas",
                          "acc_claimed"} |-> fee[k]]
        BY <2>1 DEF LedgerInv, Fee
      <3>2. /\ fee.acc_collected \in Nat /\ fee.cur_available \in Nat
            /\ fee.cur_reserved \in Nat /\ fee.acc_for_gas \in Nat
        BY <2>1, FeeFields
      <3>3. QED
        BY <2>3, <3>1, <3>2
    <2>5. \A t \in BagToSet(transfers) :
            t \in [to : Account, amount : Nat \ {0}, purpose : {"refund", "fee"}]
      BY <2>1 DEF MoneyInv, TransfersOK, Transfer, BagToSet
    <2>6. lost_found \in [Account -> Nat] /\ wallets \in Nat /\ bridge_balance \in Nat
      BY <2>1 DEF LedgerInv, MoneyInv
    <2>7. QED
      BY <2>1, <2>2, <2>4, <2>5, <2>6 DEF TypeOK, FamilyTypes, BodiesOK, CallTypes
  <1>2. QED
    BY AlwaysAccounted, CallTypesInductive, <1>1, PTL

-----------------------------------------------------------------------------
(* Orphans.                                                                *)

\* A record waits for its burn only while the burn is under way.
BurnsUnderWay == \A t \in Tx : Exists(t) /\ info[t].stage = "PendingBurn" => burning[t] # "none"

\* A step that puts no record into the stage of burning, and ends no burn.
LEMMA BurnsUnderWayStep ==
    ASSUME BurnsUnderWay, burning' = burning,
           \A x \in Tx : Exists(x)' => \/ Exists(x) /\ info'[x].stage = info[x].stage
                                       \/ info'[x].stage # "PendingBurn"
    PROVE  BurnsUnderWay'
  BY DEF BurnsUnderWay

LEMMA CreateBurnsUnderWay ==
    ASSUME FamilyInv, BurnsUnderWay, NEW t \in Tx, Create(t)
    PROVE  BurnsUnderWay'
  <1>1. info \in [Tx -> Info \cup {None}]
    BY DEF FamilyInv, FamilyTypes
  <1>2. ASSUME NEW kind, NEW a, NEW amount, NEW withdraw_fee, NEW inputs, NEW gas_fee,
               NEW burn_amount,
               CreateOriginal(t, kind, a, amount, withdraw_fee, inputs, gas_fee, burn_amount)
        PROVE  BurnsUnderWay'
    <2>1. burning' = burning
      BY <1>2 DEF CreateOriginal, calls
    <2>2. info'[t].stage = "PendingSign" /\ \A x \in Tx : x # t => info'[x] = info[x]
      BY <1>1, <1>2 DEF CreateOriginal
    <2>3. QED
      BY <2>1, <2>2, BurnsUnderWayStep DEF Exists
  <1>3. ASSUME NEW o \in Tx, NEW kind, Replaceable(o, kind), NEW role, NEW cost,
               NEW burn_amount, NEW max_gas_fee, NEW reserved,
               CreateReplacement(t, o, role, cost, burn_amount, max_gas_fee, reserved)
        PROVE  BurnsUnderWay'
    <2>1. burning' = burning
      BY <1>3 DEF CreateReplacement, calls
    <2>2. /\ info[o].stage = "PendingVerify" /\ info[o] \in Info /\ o \in DOMAIN body
      BY <1>1, <1>3 DEF Replaceable, IsOriginal, Exists, FamilyInv, Families, InFamily
    <2>3. t # o
      BY <1>3, <2>2 DEF CreateReplacement, Fresh
    <2>4. /\ info'[t].stage = "PendingSign" /\ info'[o].stage = "PendingVerify"
          /\ \A x \in Tx : x # t /\ x # o => info'[x] = info[x]
      BY <1>1, <1>3, <2>2, <2>3 DEF CreateReplacement, Info
    <2>5. QED
      BY <2>1, <2>4, BurnsUnderWayStep DEF Exists
  <1>4. QED
    BY <1>2, <1>3 DEF Create, Withdraw, ActiveUtxoManagement, WithdrawRbf,
       ActiveUtxoManagementRbf, CancelWithdraw, CancelActiveUtxoManagement

LEMMA BurnsUnderWayInductive == Spec => []BurnsUnderWay
  <1>1. Init => BurnsUnderWay
    BY DEF Init, BurnsUnderWay, Exists
  <1>2. FamilyInv /\ BurnsUnderWay /\ [Next]_vars => BurnsUnderWay'
    <2> SUFFICES ASSUME FamilyInv, BurnsUnderWay, [Next]_vars PROVE BurnsUnderWay'
      OBVIOUS
    <2>1. /\ info \in [Tx -> Info \cup {None}]
          /\ burning \in [Tx -> {"none", "called", "burned"}]
      BY DEF FamilyInv, FamilyTypes
    <2>2. CASE UNCHANGED vars
      <3>1. info' = info /\ burning' = burning
        BY <2>2 DEF vars, contract, calls
      <3>2. QED
        BY <3>1, BurnsUnderWayStep DEF Exists
    <2>3. ASSUME NEW t \in Tx, Create(t) PROVE BurnsUnderWay'
      BY <2>3, CreateBurnsUnderWay
    <2>4. ASSUME NEW t \in Tx, SignStep(t) PROVE BurnsUnderWay'
      <3>1. CASE SignOrphan(t)
        <4>1. burning' = burning /\ info' = [info EXCEPT ![t] = None]
          BY <3>1 DEF SignOrphan, Forget, calls
        <4>2. QED
          BY <2>1, <4>1, BurnsUnderWayStep DEF Exists
      <3>2. ASSUME NEW u \in Utxo, SignBtcTransactionCallback(t, u) PROVE BurnsUnderWay'
        <4>1. burning' = burning /\ info[t] \in Info
          BY <2>1, <3>2 DEF SignBtcTransactionCallback, Exists
        <4>2. /\ info'[t].stage = info[t].stage \/ info'[t].stage = "PendingVerify"
              /\ \A x \in Tx : x # t => info'[x] = info[x]
          BY <2>1, <3>2, <4>1 DEF SignBtcTransactionCallback, Info
        <4>3. Exists(t)
          BY <3>2 DEF SignBtcTransactionCallback
        <4>4. QED
          BY <4>1, <4>2, <4>3, BurnsUnderWayStep DEF Exists
      <3>3. ASSUME NEW u \in Utxo, SignBtcTransaction(t, u) \/ MpcSign(t, u) \/ SignFails(t, u)
            PROVE  BurnsUnderWay'
        <4>1. info' = info /\ burning' = burning
          BY <3>3 DEF SignBtcTransaction, MpcSign, SignFails, contract, calls
        <4>2. QED
          BY <4>1, BurnsUnderWayStep DEF Exists
      <3>4. QED
        BY <2>4, <3>1, <3>2, <3>3 DEF SignStep
    <2>5. ASSUME NEW t \in Tx, Confirm(t) PROVE BurnsUnderWay'
      <3>1. info' = info /\ burning' = burning
        BY <2>5 DEF Confirm, contract, calls
      <3>2. QED
        BY <3>1, BurnsUnderWayStep DEF Exists
    <2>6. ASSUME NEW t \in Tx, BurnStep(t) PROVE BurnsUnderWay'
      <3>1. CASE VerifyWithdraw(t) \/ VerifyFails(t)
        <4>1. info' = info /\ burning' = burning
          BY <3>1 DEF VerifyWithdraw, VerifyFails, contract
        <4>2. QED
          BY <4>1, BurnsUnderWayStep DEF Exists
      <3>2. CASE VerifyWithdrawCallback(t)
        BY <2>1, <3>2 DEF VerifyWithdrawCallback, BurnsUnderWay, Exists
      <3>3. CASE NbtcBurn(t)
        BY <2>1, <3>3 DEF NbtcBurn, contract, BurnsUnderWay, Exists
      <3>4. CASE BurnFails(t)
        <4>1. info[t] \in Info
          BY <2>1, <3>4 DEF BurnFails, Exists
        <4>2. info'[t].stage = "PendingVerify"
          BY <2>1, <3>4, <4>1 DEF BurnFails, Info
        <4>3. /\ \A x \in Tx : x # t => info'[x] = info[x] /\ burning'[x] = burning[x]
          BY <2>1, <3>4 DEF BurnFails
        <4>4. QED
          BY <4>2, <4>3 DEF BurnsUnderWay, Exists
      <3>5. CASE VerifyWithdrawBurnCallback(t)
        <4>1. info'[t] = None
          BY <2>1, <3>5 DEF VerifyWithdrawBurnCallback
        <4>2. \A x \in Tx : x # t => /\ info'[x] = info[x] \/ info'[x] = None
                                     /\ burning'[x] = burning[x]
          BY <2>1, <3>5 DEF VerifyWithdrawBurnCallback
        <4>3. QED
          BY <4>1, <4>2 DEF BurnsUnderWay, Exists
      <3>6. QED
        BY <2>6, <3>1, <3>2, <3>3, <3>4, <3>5 DEF BurnStep
    <2>7. ASSUME NEW t \in Tx, ClearInvalidPendingVerifyRbf(t) PROVE BurnsUnderWay'
      <3>1. burning' = burning /\ info' = [info EXCEPT ![t] = None]
        BY <2>7 DEF ClearInvalidPendingVerifyRbf, Forget, calls
      <3>2. QED
        BY <2>1, <3>1, BurnsUnderWayStep DEF Exists
    <2>8. CASE TokenStep
      <3>1. info' = info /\ burning' = burning
        BY <2>8 DEF TokenStep, TransferSucceeds, TransferFails, ClaimLostFound,
           WithdrawProtocolFee, DepositProtocolFee, contract, calls
      <3>2. QED
        BY <3>1, BurnsUnderWayStep DEF Exists
    <2>9. QED
      BY <2>2, <2>3, <2>4, <2>5, <2>6, <2>7, <2>8 DEF Next
  <1>3. QED
    BY FamilyInductive, <1>1, <1>2, PTL DEF Spec

\* What a settled family leaves behind is a replacement that did not win, so it is in no
\* burn, and its family has no list: it meets every condition of the operation that clears it.
THEOREM OrphansCleared == Spec => []OrphansClearable
  <1>1. Accounted /\ BurnsUnderWay => OrphansClearable
    <2> SUFFICES ASSUME Accounted, BurnsUnderWay, NEW t \in Tx, Orphan(t) PROVE Clearable(t)
      BY DEF OrphansClearable
    <2> DEFINE o == info[t].original_tx_id
    <2>1. FamilyInv /\ RecordInv
      BY DEF Accounted
    <2>2. Exists(t) /\ ~Exists(o)
      BY DEF Orphan
    <2>3. info[t] \in Info /\ o \in Tx /\ info[t].account_id \in Account /\ info[t].stage \in Stage
      BY <2>1, <2>2 DEF FamilyInv, FamilyTypes, Exists, Info
    <2>4. info[t].role # "original"
      BY <2>1, <2>2 DEF FamilyInv, Families, InFamily
    <2>5. rbf_txs[o] = {}
      BY <2>1, <2>2, <2>3 DEF FamilyInv, FamilyTypes, ListsMatchStages
    <2>6. t \notin confirmed
      BY <2>1, <2>2 DEF RecordInv, OrphansLost, OrphanIsLost
    <2>7. burning[t] = "none"
      BY <2>1, <2>6 DEF FamilyInv, BurnsMatchStages
    <2>8. info[t].stage # "PendingBurn"
      BY <2>2, <2>7 DEF BurnsUnderWay
    <2>9. t \in sign_ids[info[t].account_id] <=> info[t].stage = "PendingSign"
      BY <2>1, <2>2, <2>3 DEF FamilyInv, ListsMatchStages
    <2>10. QED
      BY <2>2, <2>3, <2>4, <2>5, <2>8, <2>9 DEF Clearable, Stage
  <1>2. QED
    BY AlwaysAccounted, BurnsUnderWayInductive, <1>1, PTL
=============================================================================
