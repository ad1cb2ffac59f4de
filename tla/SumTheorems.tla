---------------------------- MODULE SumTheorems -----------------------------
(***************************************************************************)
(* Facts about sums over finite sets: SumFunctionOnSet(f, S) adds f[x] for *)
(* all x in S.  The operator is a fold, that is the value at S of a        *)
(* function defined recursively on the subsets of S.  Each fact is proved  *)
(* on a smallest subset of S for which it fails: there is one, because no  *)
(* chain of finite subsets descends for ever.                              *)
(***************************************************************************)
EXTENDS Integers, Functions, FiniteSetTheorems, TLAPS

-----------------------------------------------------------------------------
(* The recursive function exists.                                          *)

(* The element a fold takes out of s first. *)
Pick(s) == CHOOSE x \in s : TRUE

(* g tabulates the partial sums of f over the subsets of S. *)
IsFold(g, f, S) ==
    g = [s \in SUBSET S |-> IF s = {} THEN 0 ELSE f[Pick(s)] + g[s \ {Pick(s)}]]

Fold(f, S) == CHOOSE g : IsFold(g, f, S)

(* The library's fold is this function at S. *)
LEMMA SumIsFold ==
    ASSUME NEW f, NEW S
    PROVE  SumFunctionOnSet(f, S) = Fold(f, S)[S]
BY DEF SumFunctionOnSet, FoldFunctionOnSet, MapThenFoldSet, Fold, IsFold, Pick

(* The element picked is one of the set's. *)
LEMMA PickIn ==
    ASSUME NEW s, s # {}
    PROVE  Pick(s) \in s
BY DEF Pick

(* Of any subsets of a finite set, some contains none of the others. *)
LEMMA SmallestSubset ==
    ASSUME NEW S, IsFiniteSet(S), NEW B \in SUBSET (SUBSET S), B # {}
    PROVE  \E T \in B : \A U \in B : U \subseteq T => U = T
<1> DEFINE R == StrictSubsetOrdering(S)
<1>1. FiniteSubsetsOf(S) = SUBSET S
  BY FS_FiniteSubsetsOfFinite
<1>2. IsWellFoundedOn(R, SUBSET S)
  BY <1>1, FS_StrictSubsetOrderingWellFounded
<1>3. PICK T \in B : \A U \in B : ~ (<<U, T>> \in R)
  <2> HIDE DEF R
  <2> QED BY ONLY <1>2, B \subseteq SUBSET S, B # {}, WFMin
<1>4. \A U \in B : U \subseteq T => U = T
  <2> SUFFICES ASSUME NEW U \in B, U \subseteq T, U # T PROVE FALSE
    OBVIOUS
  <2>1. <<U, T>> \in (SUBSET S) \X (SUBSET S)
    OBVIOUS
  <2>2. <<U, T>>[1] \subseteq <<U, T>>[2] /\ <<U, T>>[1] # <<U, T>>[2]
    OBVIOUS
  <2>3. <<U, T>> \in R
    BY <2>1, <2>2 DEF StrictSubsetOrdering
  <2> QED BY <2>3, <1>3
<1> QED BY <1>4

(* The tables for a set and for a part of it agree on the part. *)
LEMMA FoldsAgree ==
    ASSUME NEW f, NEW S, IsFiniteSet(S), NEW T \in SUBSET S,
           NEW g, IsFold(g, f, S), NEW h, IsFold(h, f, T)
    PROVE  \A s \in SUBSET T : g[s] = h[s]
<1> DEFINE B == {s \in SUBSET T : g[s] # h[s]}
<1> SUFFICES ASSUME B # {} PROVE FALSE
  OBVIOUS
<1>1. IsFiniteSet(T)
  BY FS_Subset
<1>2. B \in SUBSET (SUBSET T)
  OBVIOUS
<1>3. PICK s \in B : \A u \in B : u \subseteq s => u = s
  <2> HIDE DEF B
  <2> QED BY <1>1, <1>2, SmallestSubset
<1>4. s \in SUBSET T /\ s \in SUBSET S /\ g[s] # h[s]
  OBVIOUS
<1>5. g[s] = IF s = {} THEN 0 ELSE f[Pick(s)] + g[s \ {Pick(s)}]
  BY <1>4 DEF IsFold
<1>6. h[s] = IF s = {} THEN 0 ELSE f[Pick(s)] + h[s \ {Pick(s)}]
  BY <1>4 DEF IsFold
<1>7. s # {}
  BY <1>4, <1>5, <1>6
<1>8. g[s \ {Pick(s)}] = h[s \ {Pick(s)}]
  BY <1>3, <1>4, <1>7, PickIn
<1> QED BY <1>4, <1>5, <1>6, <1>7, <1>8

(* There is a table for every finite set, built from those of its parts. *)
LEMMA FoldExists ==
    ASSUME NEW f, NEW S, IsFiniteSet(S)
    PROVE  IsFold(Fold(f, S), f, S)
<1> DEFINE B == {s \in SUBSET S : ~ \E g : IsFold(g, f, s)}
<1>1. ASSUME B # {} PROVE FALSE
  <2>1. B \in SUBSET (SUBSET S)
    OBVIOUS
  <2>2. PICK T \in B : \A u \in B : u \subseteq T => u = T
    <3> HIDE DEF B
    <3> QED BY <1>1, <2>1, SmallestSubset
  <2>3. T \in SUBSET S /\ ~ \E g : IsFold(g, f, T)
    OBVIOUS
  <2>4. ASSUME NEW U \in SUBSET T, U # T PROVE IsFold(Fold(f, U), f, U)
    <3>1. U \notin B
      BY <2>2, <2>4
    <3>2. \E g : IsFold(g, f, U)
      BY <3>1, <2>3
    <3> QED BY <3>2 DEF Fold
  <2> DEFINE V(s) == Fold(f, s)[s]
             e(s) == IF s = {} THEN 0 ELSE f[Pick(s)] + V(s \ {Pick(s)})
             g == [s \in SUBSET T |-> e(s)]
  <2>5. ASSUME NEW s \in SUBSET T, s # T PROVE g[s] = V(s)
    <3>1. IsFold(Fold(f, s), f, s)
      BY <2>4, <2>5
    <3>2. V(s) = IF s = {} THEN 0 ELSE f[Pick(s)] + Fold(f, s)[s \ {Pick(s)}]
      BY <3>1 DEF IsFold
    <3>3. ASSUME s # {} PROVE Fold(f, s)[s \ {Pick(s)}] = V(s \ {Pick(s)})
      <4> DEFINE u == s \ {Pick(s)}
      <4>1. u \in SUBSET s /\ u \in SUBSET T /\ u # T
        BY <3>3, <2>5, PickIn
      <4>2. IsFold(Fold(f, u), f, u)
        BY <4>1, <2>4
      <4>3. IsFiniteSet(s)
        BY <2>3, FS_Subset
      <4>4. u \in SUBSET u
        OBVIOUS
      <4> HIDE DEF u
      <4>5. Fold(f, s)[u] = Fold(f, u)[u]
        BY ONLY <3>1, <4>1, <4>2, <4>3, <4>4, FoldsAgree
      <4> QED BY <4>5 DEF u
    <3> QED BY <3>2, <3>3
  <2>6. ASSUME NEW s \in SUBSET T, s # {} PROVE g[s \ {Pick(s)}] = V(s \ {Pick(s)})
    <3>1. s \ {Pick(s)} \in SUBSET T /\ s \ {Pick(s)} # T
      BY <2>6, PickIn
    <3> HIDE DEF g, V
    <3> QED BY <3>1, <2>5
  <2>7. g = [s \in SUBSET T |-> IF s = {} THEN 0 ELSE f[Pick(s)] + g[s \ {Pick(s)}]]
    <3>1. ASSUME NEW s \in SUBSET T
          PROVE  e(s) = IF s = {} THEN 0 ELSE f[Pick(s)] + g[s \ {Pick(s)}]
      <4> HIDE DEF g, V
      <4> QED BY <2>6
    <3> QED BY <3>1
  <2> QED BY <2>3, <2>7 DEF IsFold
<1>2. \E g : IsFold(g, f, S)
  BY <1>1
<1> QED BY <1>2 DEF Fold

-----------------------------------------------------------------------------
(* Sums.                                                                   *)

(* Nothing adds up to zero. *)
LEMMA SumEmpty ==
    ASSUME NEW f
    PROVE  SumFunctionOnSet(f, {}) = 0
<1>1. IsFold(Fold(f, {}), f, {})
  BY FS_EmptySet, FoldExists
<1> QED BY <1>1, SumIsFold DEF IsFold

(* The recursion, as the definition of the fold unfolds it. *)
LEMMA SumPick ==
    ASSUME NEW f, NEW S, IsFiniteSet(S), S # {}
    PROVE  SumFunctionOnSet(f, S) = f[Pick(S)] + SumFunctionOnSet(f, S \ {Pick(S)})
<1> DEFINE T == S \ {Pick(S)}
<1>1. IsFiniteSet(T) /\ T \in SUBSET S /\ T \in SUBSET T
  BY FS_Subset
<1>2. IsFold(Fold(f, S), f, S) /\ IsFold(Fold(f, T), f, T)
  BY <1>1, FoldExists
<1>3. Fold(f, S)[S] = f[Pick(S)] + Fold(f, S)[T]
  BY <1>2 DEF IsFold
<1> HIDE DEF T
<1>4. Fold(f, S)[T] = Fold(f, T)[T]
  BY ONLY <1>1, <1>2, IsFiniteSet(S), FoldsAgree
<1>5. SumFunctionOnSet(f, S) = Fold(f, S)[S] /\ SumFunctionOnSet(f, T) = Fold(f, T)[T]
  BY SumIsFold
<1>6. SumFunctionOnSet(f, S) = f[Pick(S)] + SumFunctionOnSet(f, T)
  BY <1>3, <1>4, <1>5
<1> QED BY <1>6 DEF T

(* Integers add up to an integer. *)
THEOREM SumType ==
    ASSUME NEW f, NEW S, IsFiniteSet(S), \A x \in S : f[x] \in Int
    PROVE  SumFunctionOnSet(f, S) \in Int
<1> DEFINE B == {T \in SUBSET S : SumFunctionOnSet(f, T) \notin Int}
<1> SUFFICES ASSUME B # {} PROVE FALSE
  OBVIOUS
<1>1. B \in SUBSET (SUBSET S)
  OBVIOUS
<1>2. PICK T \in B : \A U \in B : U \subseteq T => U = T
  <2> HIDE DEF B
  <2> QED BY <1>1, SmallestSubset
<1>3. T \in SUBSET S /\ SumFunctionOnSet(f, T) \notin Int
  OBVIOUS
<1>4. IsFiniteSet(T)
  BY <1>3, FS_Subset
<1>5. T # {}
  BY <1>3, SumEmpty
<1>6. Pick(T) \in T
  BY <1>5, PickIn
<1>7. SumFunctionOnSet(f, T \ {Pick(T)}) \in Int
  BY <1>2, <1>3, <1>6
<1>8. SumFunctionOnSet(f, T) = f[Pick(T)] + SumFunctionOnSet(f, T \ {Pick(T)})
  BY <1>4, <1>5, SumPick
<1> QED BY <1>3, <1>6, <1>7, <1>8

(* Any element may be taken out of a sum first. *)
THEOREM SumRemove ==
    ASSUME NEW f, NEW S, IsFiniteSet(S), \A x \in S : f[x] \in Int, NEW y \in S
    PROVE  SumFunctionOnSet(f, S) = f[y] + SumFunctionOnSet(f, S \ {y})
<1> DEFINE B == {T \in SUBSET S : \E x \in T :
                    SumFunctionOnSet(f, T) # f[x] + SumFunctionOnSet(f, T \ {x})}
<1>1. ASSUME B # {} PROVE FALSE
  <2>1. B \in SUBSET (SUBSET S)
    OBVIOUS
  <2>2. PICK T \in B : \A U \in B : U \subseteq T => U = T
    <3> HIDE DEF B
    <3> QED BY <1>1, <2>1, SmallestSubset
  <2>3. PICK x \in T : SumFunctionOnSet(f, T) # f[x] + SumFunctionOnSet(f, T \ {x})
    OBVIOUS
  <2> DEFINE p == Pick(T)
  <2>4. T \in SUBSET S /\ T # {}
    BY <2>3
  <2>5. p \in T
    BY <2>4, PickIn
  <2>6. \A U \in SUBSET T : IsFiniteSet(U) /\ SumFunctionOnSet(f, U) \in Int
    <3> TAKE U \in SUBSET T
    <3>1. IsFiniteSet(U) /\ \A z \in U : f[z] \in Int
      BY <2>4, FS_Subset
    <3> QED BY <3>1, SumType
  <2>7. SumFunctionOnSet(f, T) = f[p] + SumFunctionOnSet(f, T \ {p})
    BY <2>4, <2>6, SumPick
  <2> HIDE DEF p
  <2>8. x # p
    BY <2>3, <2>7
  <2>9. /\ SumFunctionOnSet(f, T \ {p}) = f[x] + SumFunctionOnSet(f, (T \ {p}) \ {x})
        /\ SumFunctionOnSet(f, T \ {x}) = f[p] + SumFunctionOnSet(f, (T \ {x}) \ {p})
    <3>1. \A U \in SUBSET T : U # T => \A z \in U :
              SumFunctionOnSet(f, U) = f[z] + SumFunctionOnSet(f, U \ {z})
      BY <2>2, <2>4
    <3>2. /\ T \ {p} \in SUBSET T /\ T \ {p} # T /\ x \in T \ {p}
          /\ T \ {x} \in SUBSET T /\ T \ {x} # T /\ p \in T \ {x}
      BY <2>5, <2>8
    <3> QED BY ONLY <3>1, <3>2
  <2>10. (T \ {p}) \ {x} = (T \ {x}) \ {p}
    OBVIOUS
  <2> DEFINE n == SumFunctionOnSet(f, (T \ {x}) \ {p})
  <2>11. n \in Int /\ f[x] \in Int /\ f[p] \in Int
    BY <2>4, <2>5, <2>6
  <2>12. /\ SumFunctionOnSet(f, T) = f[p] + (f[x] + n)
         /\ SumFunctionOnSet(f, T \ {x}) = f[p] + n
    BY <2>7, <2>9, <2>10
  <2> HIDE DEF n
  <2> QED BY <2>3, <2>11, <2>12
<1> QED BY <1>1

(* One more element adds its value. *)
THEOREM SumAdd ==
    ASSUME NEW f, NEW S, IsFiniteSet(S), \A x \in S : f[x] \in Int,
           NEW y, y \notin S, f[y] \in Int
    PROVE  SumFunctionOnSet(f, S \cup {y}) = SumFunctionOnSet(f, S) + f[y]
<1> DEFINE T == S \cup {y}
<1>1. IsFiniteSet(T)
  BY FS_AddElement
<1>2. y \in T /\ T \ {y} = S /\ \A x \in T : f[x] \in Int
  OBVIOUS
<1>3. SumFunctionOnSet(f, S) \in Int
  BY SumType
<1> HIDE DEF T
<1>4. SumFunctionOnSet(f, T) = f[y] + SumFunctionOnSet(f, T \ {y})
  BY ONLY <1>1, <1>2, SumRemove
<1>5. SumFunctionOnSet(f, T) = f[y] + SumFunctionOnSet(f, S)
  BY <1>2, <1>4
<1>6. SumFunctionOnSet(f, T) = SumFunctionOnSet(f, S) + f[y]
  BY <1>3, <1>5
<1> QED BY <1>6 DEF T

(* A sum depends on the values at the elements it ranges over, and on nothing else. *)
THEOREM SumSame ==
    ASSUME NEW f, NEW g, NEW S, IsFiniteSet(S), \A x \in S : f[x] = g[x]
    PROVE  SumFunctionOnSet(f, S) = SumFunctionOnSet(g, S)
<1> DEFINE B == {T \in SUBSET S : SumFunctionOnSet(f, T) # SumFunctionOnSet(g, T)}
<1>1. ASSUME B # {} PROVE FALSE
  <2>1. B \in SUBSET (SUBSET S)
    OBVIOUS
  <2>2. PICK T \in B : \A U \in B : U \subseteq T => U = T
    <3> HIDE DEF B
    <3> QED BY <1>1, <2>1, SmallestSubset
  <2>3. T \in SUBSET S /\ SumFunctionOnSet(f, T) # SumFunctionOnSet(g, T)
    OBVIOUS
  <2>4. IsFiniteSet(T)
    BY <2>3, FS_Subset
  <2>5. T # {}
    BY <2>3, SumEmpty
  <2>6. Pick(T) \in T
    BY <2>5, PickIn
  <2>7. SumFunctionOnSet(f, T \ {Pick(T)}) = SumFunctionOnSet(g, T \ {Pick(T)})
    BY <2>2, <2>3, <2>6
  <2>8. /\ SumFunctionOnSet(f, T) = f[Pick(T)] + SumFunctionOnSet(f, T \ {Pick(T)})
        /\ SumFunctionOnSet(g, T) = g[Pick(T)] + SumFunctionOnSet(g, T \ {Pick(T)})
    BY <2>4, <2>5, SumPick
  <2> QED BY <2>3, <2>6, <2>7, <2>8
<1> QED BY <1>1

(* A change at one element changes the sum by the difference. *)
THEOREM SumChange ==
    ASSUME NEW f, NEW g, NEW S, IsFiniteSet(S), NEW y \in S,
           \A x \in S : f[x] \in Int, g[y] \in Int,
           \A x \in S : x # y => g[x] = f[x]
    PROVE  SumFunctionOnSet(g, S) = SumFunctionOnSet(f, S) - f[y] + g[y]
<1> DEFINE T == S \ {y}
<1>1. IsFiniteSet(T) /\ (\A x \in T : f[x] \in Int) /\ (\A x \in T : f[x] = g[x])
  BY FS_Subset
<1>2. \A x \in S : g[x] \in Int
  OBVIOUS
<1>3. SumFunctionOnSet(f, S) = f[y] + SumFunctionOnSet(f, T)
  BY SumRemove
<1>4. SumFunctionOnSet(g, S) = g[y] + SumFunctionOnSet(g, T)
  BY <1>2, SumRemove
<1> HIDE DEF T
<1>5. SumFunctionOnSet(f, T) = SumFunctionOnSet(g, T) /\ SumFunctionOnSet(f, T) \in Int
  BY <1>1, SumSame, SumType
<1> QED BY <1>3, <1>4, <1>5

(* Naturals add up to a natural. *)
THEOREM SumNat ==
    ASSUME NEW f, NEW S, IsFiniteSet(S), \A x \in S : f[x] \in Nat
    PROVE  SumFunctionOnSet(f, S) \in Nat
<1> DEFINE B == {T \in SUBSET S : SumFunctionOnSet(f, T) \notin Nat}
<1> SUFFICES ASSUME B # {} PROVE FALSE
  OBVIOUS
<1>1. B \in SUBSET (SUBSET S)
  OBVIOUS
<1>2. PICK T \in B : \A U \in B : U \subseteq T => U = T
  <2> HIDE DEF B
  <2> QED BY <1>1, SmallestSubset
<1>3. T \in SUBSET S /\ SumFunctionOnSet(f, T) \notin Nat
  OBVIOUS
<1>4. IsFiniteSet(T)
  BY <1>3, FS_Subset
<1>5. T # {}
  BY <1>3, SumEmpty
<1>6. Pick(T) \in T
  BY <1>5, PickIn
<1>7. SumFunctionOnSet(f, T \ {Pick(T)}) \in Nat
  BY <1>2, <1>3, <1>6
<1>8. SumFunctionOnSet(f, T) = f[Pick(T)] + SumFunctionOnSet(f, T \ {Pick(T)})
  BY <1>4, <1>5, SumPick
<1> QED BY <1>3, <1>6, <1>7, <1>8

(* The sum over two disjoint sets is the sum of their sums. *)
THEOREM SumUnion ==
    ASSUME NEW f, NEW S, NEW R, IsFiniteSet(S), IsFiniteSet(R), S \cap R = {},
           \A x \in S \cup R : f[x] \in Int
    PROVE  SumFunctionOnSet(f, S \cup R) = SumFunctionOnSet(f, S) + SumFunctionOnSet(f, R)
<1> DEFINE B == {T \in SUBSET R :
                    SumFunctionOnSet(f, S \cup T)
                      # SumFunctionOnSet(f, S) + SumFunctionOnSet(f, T)}
<1>1. ASSUME B # {} PROVE FALSE
  <2>1. B \in SUBSET (SUBSET R)
    OBVIOUS
  <2>2. PICK T \in B : \A U \in B : U \subseteq T => U = T
    <3> HIDE DEF B
    <3> QED BY <1>1, <2>1, SmallestSubset
  <2>3. T \in SUBSET R
        /\ SumFunctionOnSet(f, S \cup T) # SumFunctionOnSet(f, S) + SumFunctionOnSet(f, T)
    OBVIOUS
  <2>4. SumFunctionOnSet(f, S) \in Int
    BY SumType
  <2>5. T # {}
    <3> SUFFICES ASSUME T = {} PROVE FALSE
      OBVIOUS
    <3>1. S \cup T = S
      OBVIOUS
    <3> QED BY <2>3, <2>4, <3>1, SumEmpty
  <2> DEFINE p == Pick(T)
  <2>6. p \in T
    BY <2>5, PickIn
  <2> HIDE DEF p
  <2> DEFINE U == T \ {p}
             W == S \cup U
  <2>7. SumFunctionOnSet(f, W) = SumFunctionOnSet(f, S) + SumFunctionOnSet(f, U)
    BY <2>2, <2>3, <2>6
  <2>8. IsFiniteSet(U)
    BY <2>3, FS_Subset
  <2>9. IsFiniteSet(W)
    BY <2>8, FS_Union
  <2>10. /\ p \notin W /\ p \notin U
         /\ W \cup {p} = S \cup T /\ U \cup {p} = T
         /\ (\A x \in W : f[x] \in Int) /\ (\A x \in U : f[x] \in Int) /\ f[p] \in Int
    BY <2>3, <2>6
  <2> HIDE DEF U, W
  <2>11. SumFunctionOnSet(f, W \cup {p}) = SumFunctionOnSet(f, W) + f[p]
    BY ONLY <2>9, <2>10, SumAdd
  <2>12. SumFunctionOnSet(f, U \cup {p}) = SumFunctionOnSet(f, U) + f[p]
    BY ONLY <2>8, <2>10, SumAdd
  <2>13. SumFunctionOnSet(f, U) \in Int
    BY <2>8, <2>10, SumType
  <2>14. SumFunctionOnSet(f, W \cup {p})
            = SumFunctionOnSet(f, S) + SumFunctionOnSet(f, U \cup {p})
    BY ONLY <2>4, <2>7, <2>10, <2>11, <2>12, <2>13
  <2> QED BY <2>3, <2>10, <2>14
<1>2. R \notin B
  BY <1>1
<1> QED BY <1>2

(* Sums add point by point. *)
THEOREM SumPlus ==
    ASSUME NEW f, NEW g, NEW h, NEW S, IsFiniteSet(S),
           \A x \in S : f[x] \in Int /\ g[x] \in Int /\ h[x] = f[x] + g[x]
    PROVE  SumFunctionOnSet(h, S) = SumFunctionOnSet(f, S) + SumFunctionOnSet(g, S)
<1> DEFINE B == {T \in SUBSET S :
                    SumFunctionOnSet(h, T)
                      # SumFunctionOnSet(f, T) + SumFunctionOnSet(g, T)}
<1>1. ASSUME B # {} PROVE FALSE
  <2>1. B \in SUBSET (SUBSET S)
    OBVIOUS
  <2>2. PICK T \in B : \A U \in B : U \subseteq T => U = T
    <3> HIDE DEF B
    <3> QED BY <1>1, <2>1, SmallestSubset
  <2>3. T \in SUBSET S
        /\ SumFunctionOnSet(h, T) # SumFunctionOnSet(f, T) + SumFunctionOnSet(g, T)
    OBVIOUS
  <2>4. IsFiniteSet(T)
    BY <2>3, FS_Subset
  <2>5. T # {}
    BY <2>3, SumEmpty
  <2> DEFINE p == Pick(T)
             U == T \ {p}
  <2>6. p \in T
    BY <2>5, PickIn
  <2>7. SumFunctionOnSet(h, U) = SumFunctionOnSet(f, U) + SumFunctionOnSet(g, U)
    BY <2>2, <2>3, <2>6
  <2>8. /\ SumFunctionOnSet(f, T) = f[p] + SumFunctionOnSet(f, U)
        /\ SumFunctionOnSet(g, T) = g[p] + SumFunctionOnSet(g, U)
        /\ SumFunctionOnSet(h, T) = h[p] + SumFunctionOnSet(h, U)
    BY <2>4, <2>5, SumPick
  <2>9. f[p] \in Int /\ g[p] \in Int /\ h[p] = f[p] + g[p]
    BY <2>3, <2>6
  <2>10. IsFiniteSet(U) /\ (\A x \in U : f[x] \in Int) /\ (\A x \in U : g[x] \in Int)
    BY <2>3, FS_Subset
  <2>11. SumFunctionOnSet(f, U) \in Int /\ SumFunctionOnSet(g, U) \in Int
    BY <2>10, SumType
  <2> HIDE DEF U, p
  <2> QED BY <2>3, <2>7, <2>8, <2>9, <2>11
<1>2. S \notin B
  BY <1>1
<1> QED BY <1>2

(* Zeros add up to zero. *)
THEOREM SumZero ==
    ASSUME NEW f, NEW S, IsFiniteSet(S), \A x \in S : f[x] = 0
    PROVE  SumFunctionOnSet(f, S) = 0
<1>1. SumFunctionOnSet(f, S) = SumFunctionOnSet(f, S) + SumFunctionOnSet(f, S)
  <2>1. \A x \in S : f[x] \in Int /\ f[x] \in Int /\ f[x] = f[x] + f[x]
    OBVIOUS
  <2> QED BY ONLY IsFiniteSet(S), <2>1, SumPlus
<1>2. SumFunctionOnSet(f, S) \in Int
  BY SumType
<1>3. \A x \in Int : x = x + x => x = 0
  OBVIOUS
<1> QED BY ONLY <1>1, <1>2, <1>3

(* A sum of naturals is what any part of it comes to and what the rest comes to. *)
THEOREM SumPart ==
    ASSUME NEW f, NEW S, IsFiniteSet(S), \A x \in S : f[x] \in Nat, NEW T \in SUBSET S
    PROVE  /\ SumFunctionOnSet(f, T) \in Nat
           /\ SumFunctionOnSet(f, S \ T) \in Nat
           /\ SumFunctionOnSet(f, S) = SumFunctionOnSet(f, T) + SumFunctionOnSet(f, S \ T)
<1> DEFINE R == S \ T
<1>1. /\ IsFiniteSet(T) /\ IsFiniteSet(R)
      /\ (\A x \in T : f[x] \in Nat) /\ (\A x \in R : f[x] \in Nat)
  BY FS_Subset
<1>2. T \cap R = {} /\ T \cup R = S /\ \A x \in T \cup R : f[x] \in Int
  OBVIOUS
<1> HIDE DEF R
<1>3. SumFunctionOnSet(f, T \cup R) = SumFunctionOnSet(f, T) + SumFunctionOnSet(f, R)
  BY ONLY <1>1, <1>2, SumUnion
<1>4. SumFunctionOnSet(f, T) \in Nat /\ SumFunctionOnSet(f, R) \in Nat
  BY <1>1, SumNat
<1> QED BY <1>2, <1>3, <1>4 DEF R

(* No element of a sum of naturals exceeds the sum. *)
THEOREM SumElement ==
    ASSUME NEW f, NEW S, IsFiniteSet(S), \A x \in S : f[x] \in Nat, NEW y \in S
    PROVE  f[y] <= SumFunctionOnSet(f, S)
<1> DEFINE T == S \ {y}
<1>1. IsFiniteSet(T) /\ \A x \in T : f[x] \in Nat
  BY FS_Subset
<1>2. SumFunctionOnSet(f, S) = f[y] + SumFunctionOnSet(f, T)
  BY SumRemove
<1> HIDE DEF T
<1> QED BY <1>1, <1>2, SumNat

(* Elements that count for nothing may be left out. *)
THEOREM SumOnPart ==
    ASSUME NEW f, NEW g, NEW S, IsFiniteSet(S), NEW R \in SUBSET S,
           \A x \in R : f[x] \in Nat /\ g[x] = f[x],
           \A x \in S \ R : f[x] = 0
    PROVE  SumFunctionOnSet(f, S) = SumFunctionOnSet(g, R)
  <1>1. \A x \in S : f[x] \in Nat
    OBVIOUS
  <1>2. IsFiniteSet(R) /\ IsFiniteSet(S \ R)
    BY FS_Subset
  <1>3. /\ SumFunctionOnSet(f, R) \in Nat
        /\ SumFunctionOnSet(f, S \ R) \in Nat
        /\ SumFunctionOnSet(f, S) = SumFunctionOnSet(f, R) + SumFunctionOnSet(f, S \ R)
    BY ONLY <1>1, IsFiniteSet(S), R \in SUBSET S, SumPart
  <1>4. SumFunctionOnSet(f, S \ R) = 0
    BY <1>2, SumZero
  <1>5. SumFunctionOnSet(f, R) = SumFunctionOnSet(g, R)
    BY <1>2, SumSame
  <1>6. QED
    BY <1>3, <1>4, <1>5

(* Smaller naturals have a smaller sum. *)
THEOREM SumAtMost ==
    ASSUME NEW f, NEW g, NEW S, IsFiniteSet(S),
           \A x \in S : f[x] \in Nat /\ g[x] \in Nat /\ f[x] <= g[x]
    PROVE  SumFunctionOnSet(f, S) <= SumFunctionOnSet(g, S)
  <1> DEFINE d == [x \in S |-> g[x] - f[x]]
  <1>1. \A x \in S : d[x] \in Nat /\ d[x] \in Int /\ f[x] \in Int /\ g[x] = f[x] + d[x]
    OBVIOUS
  <1> HIDE DEF d
  <1>2. SumFunctionOnSet(g, S) = SumFunctionOnSet(f, S) + SumFunctionOnSet(d, S)
    BY ONLY <1>1, IsFiniteSet(S), SumPlus
  <1>3. SumFunctionOnSet(f, S) \in Nat /\ SumFunctionOnSet(d, S) \in Nat
    BY <1>1, SumNat
  <1>4. QED
    BY <1>2, <1>3

(* A change at two elements, or at one, changes the sum by what they come to. *)
THEOREM SumChangeTwo ==
    ASSUME NEW f, NEW g, NEW S, IsFiniteSet(S), NEW y \in S, NEW z \in S,
           \A x \in S : f[x] \in Int /\ g[x] \in Int,
           \A x \in S : x # y /\ x # z => g[x] = f[x],
           NEW d \in Int,
           y = z => g[y] = f[y] + d,
           y # z => g[y] + g[z] = f[y] + f[z] + d
    PROVE  SumFunctionOnSet(g, S) = SumFunctionOnSet(f, S) + d
  <1>1. SumFunctionOnSet(f, S) \in Int
    BY SumType
  <1>2. CASE y = z
    <2>1. SumFunctionOnSet(g, S) = SumFunctionOnSet(f, S) - f[y] + g[y]
      BY <1>2, SumChange
    <2>2. QED
      BY <1>1, <1>2, <2>1
  <1>3. CASE y # z
    <2> DEFINE h == [x \in S |-> IF x = y THEN g[x] ELSE f[x]]
    <2>1. /\ \A x \in S : x # y => h[x] = f[x]
          /\ h[y] = g[y] /\ h[z] = f[z] /\ \A x \in S : h[x] \in Int
          /\ \A x \in S : x # z => g[x] = h[x]
      BY <1>3
    <2> HIDE DEF h
    <2>2. SumFunctionOnSet(h, S) = SumFunctionOnSet(f, S) - f[y] + h[y]
      BY <2>1, SumChange
    <2>3. SumFunctionOnSet(g, S) = SumFunctionOnSet(h, S) - h[z] + g[z]
      BY <2>1, SumChange
    <2>4. QED
      BY <1>1, <1>3, <2>1, <2>2, <2>3
  <1>4. QED
    BY <1>2, <1>3

(* The sum over one element. *)
THEOREM SumOne ==
    ASSUME NEW f, NEW x, f[x] \in Int
    PROVE  SumFunctionOnSet(f, {x}) = f[x]
<1>1. SumFunctionOnSet(f, {} \cup {x}) = SumFunctionOnSet(f, {}) + f[x]
  BY FS_EmptySet, SumAdd
<1>2. {} \cup {x} = {x}
  OBVIOUS
<1>3. QED
  BY <1>1, <1>2, SumEmpty
=============================================================================
