---------------------------------- MODULE Sums ----------------------------------
(***************************************************************************)
(* Sums of finitely many integers, and that the folds the modules add up   *)
(* with compute them.  A family of amounts is a heap of coins, so many for *)
(* each of its members, and its sum is how many they are; what is negative *)
(* is on a heap of its own.                                                *)
(***************************************************************************)
EXTENDS Integers, SequencesExt, FiniteSetsExt, TLAPS, FiniteSetTheorems,
        WellFoundedInduction, NaturalsInduction, SequenceTheorems

Heap(P, f) == {z \in P \X Nat : z[2] \in 1 .. f[z[1]]}
Sum(P, f) == Cardinality(Heap(P, f))
Slice(f, p) == {p} \X (1 .. f[p])

LEMMA SliceIs ==
  ASSUME NEW f, NEW p, f[p] \in Nat
  PROVE  IsFiniteSet(Slice(f, p)) /\ Cardinality(Slice(f, p)) = f[p]
<1>1. PICK n \in Nat : n = f[p]
  OBVIOUS
<1>2. IsFiniteSet(1 .. n) /\ Cardinality(1 .. n) = n
  BY FS_Interval
<1>3. IsFiniteSet({p}) /\ Cardinality({p}) = 1
  BY FS_Singleton
<1>4. /\ IsFiniteSet({p} \X (1 .. n))
      /\ Cardinality({p} \X (1 .. n)) = Cardinality({p}) * Cardinality(1 .. n)
  BY <1>2, <1>3, FS_Product
<1>5. Cardinality({p}) * Cardinality(1 .. n) = n
  BY <1>2, <1>3
<1> QED
  BY <1>1, <1>4, <1>5 DEF Slice

\* Taking out the coins of one member.
LEMMA HeapSplits ==
  ASSUME NEW P, NEW f, NEW p \in P, f[p] \in Nat,
         IsFiniteSet(Heap(P \ {p}, f)) \/ IsFiniteSet(Heap(P, f))
  PROVE  /\ IsFiniteSet(Heap(P, f)) /\ IsFiniteSet(Heap(P \ {p}, f))
         /\ Sum(P \ {p}, f) \in Nat
         /\ Sum(P, f) = f[p] + Sum(P \ {p}, f)
<1> DEFINE rest == Heap(P \ {p}, f)
           slice == Slice(f, p)
<1>1. Heap(P, f) = rest \cup slice /\ rest \cap slice = {}
  BY DEF Slice, Heap
<1> HIDE DEF rest, slice
<1>2. IsFiniteSet(slice) /\ Cardinality(slice) = f[p]
  BY SliceIs DEF slice
<1>3. IsFiniteSet(rest)
  <2>1. rest \subseteq Heap(P, f)
    BY <1>1
  <2> QED
    BY <2>1, FS_Subset DEF rest
<1>4. /\ IsFiniteSet(rest \cup slice)
      /\ Cardinality(rest \cup slice)
           = Cardinality(rest) + Cardinality(slice) - Cardinality(rest \cap slice)
  BY <1>2, <1>3, FS_Union
<1>5. Cardinality(rest \cap slice) = 0
  BY <1>1, FS_EmptySet
<1>6. Cardinality(rest) \in Nat
  BY <1>3, FS_CardinalityType
<1>7. Cardinality(Heap(P, f)) = f[p] + Cardinality(rest)
  BY <1>1, <1>2, <1>4, <1>5, <1>6
<1> QED
  BY <1>1, <1>3, <1>4, <1>6, <1>7 DEF Sum, rest

\* Changing the amount of one member changes the sum by as much.
LEMMA SumChanges ==
  ASSUME NEW P, NEW f \in [P -> Nat], NEW g \in [P -> Nat], IsFiniteSet(Heap(P, f)),
         NEW p \in P, \A q \in P \ {p} : g[q] = f[q]
  PROVE  /\ IsFiniteSet(Heap(P, g))
         /\ Sum(P, f) \in Nat /\ Sum(P, g) \in Nat
         /\ Sum(P, g) + f[p] = Sum(P, f) + g[p]
<1>1. Heap(P \ {p}, f) = Heap(P \ {p}, g)
  BY DEF Heap
<1>2. f[p] \in Nat /\ g[p] \in Nat
  OBVIOUS
<1>3. /\ IsFiniteSet(Heap(P \ {p}, f)) /\ Sum(P \ {p}, f) \in Nat
      /\ Sum(P, f) = f[p] + Sum(P \ {p}, f)
  BY <1>2, HeapSplits
<1>4. IsFiniteSet(Heap(P, g)) /\ Sum(P, g) = g[p] + Sum(P \ {p}, g)
  BY <1>1, <1>2, <1>3, HeapSplits
<1>5. Sum(P \ {p}, f) = Sum(P \ {p}, g)
  BY <1>1 DEF Sum
<1> QED
  BY <1>2, <1>3, <1>4, <1>5

LEMMA NothingSums ==
  ASSUME NEW P, NEW f, \A p \in P : f[p] = 0
  PROVE  Heap(P, f) = {} /\ IsFiniteSet(Heap(P, f)) /\ Sum(P, f) = 0
<1>1. Heap(P, f) = {}
  BY DEF Heap
<1> QED
  BY <1>1, FS_EmptySet DEF Sum

\* Of some subsets of a finite set, one has no smaller one among them.
LEMMA LeastSubset ==
  ASSUME NEW S, IsFiniteSet(S), NEW K \in SUBSET SUBSET S, K # {}
  PROVE  \E T \in K : \A U \in K : U \subseteq T => U = T
<1>1. FiniteSubsetsOf(S) = SUBSET S
  BY FS_FiniteSubsetsOfFinite
<1>2. IsWellFoundedOn(StrictSubsetOrdering(S), SUBSET S)
  BY <1>1, FS_StrictSubsetOrderingWellFounded
<1>3. \E T \in K : \A U \in K : ~(<<U, T>> \in StrictSubsetOrdering(S))
  BY <1>2, WFMin
<1> QED
  BY <1>3 DEF StrictSubsetOrdering

LEMMA HeapIsFinite ==
  ASSUME NEW P, IsFiniteSet(P), NEW f \in [P -> Nat], NEW S \in SUBSET P
  PROVE  IsFiniteSet(Heap(S, f))
<1> DEFINE K == {T \in SUBSET P : ~IsFiniteSet(Heap(T, f))}
<1>1. SUFFICES ASSUME K # {} PROVE FALSE
  OBVIOUS
<1>2. K \in SUBSET SUBSET P
  OBVIOUS
<1>3. PICK T \in K : \A U \in K : U \subseteq T => U = T
  <2> HIDE DEF K
  <2> QED
    BY <1>1, <1>2, LeastSubset
<1>4. CASE T = {}
  <2>1. IsFiniteSet(Heap({}, f))
    BY NothingSums
  <2> QED
    BY <1>3, <1>4, <2>1
<1>5. CASE T # {}
  <2>1. PICK p \in T : TRUE
    BY <1>5
  <2>2. T \ {p} \notin K
    BY <1>3, <2>1
  <2>3. IsFiniteSet(Heap(T \ {p}, f)) /\ f[p] \in Nat
    BY <1>3, <2>2
  <2>4. IsFiniteSet(Heap(T, f))
    BY <2>1, <2>3, HeapSplits
  <2> QED
    BY <1>3, <2>4
<1> QED
  BY <1>4, <1>5

-------------------------------------------------------------------------------
(***************************************************************************)
(* Integers: gains less losses.                                            *)
(***************************************************************************)
Gain(f) == [p \in DOMAIN f |-> IF f[p] > 0 THEN f[p] ELSE 0]
Loss(f) == [p \in DOMAIN f |-> IF f[p] < 0 THEN -f[p] ELSE 0]

Balance(P, f) == Sum(P, Gain(f)) - Sum(P, Loss(f))

LEMMA GainAndLoss ==
  ASSUME NEW P, NEW f \in [P -> Int]
  PROVE  /\ Gain(f) \in [P -> Nat] /\ Loss(f) \in [P -> Nat]
         /\ \A p \in P : Gain(f)[p] - Loss(f)[p] = f[p]
BY DEF Gain, Loss

LEMMA SumIsNat ==
  ASSUME NEW P, IsFiniteSet(P), NEW f \in [P -> Nat], NEW S \in SUBSET P
  PROVE  IsFiniteSet(Heap(S, f)) /\ Sum(S, f) \in Nat
BY HeapIsFinite, FS_CardinalityType DEF Sum

\* The balance of a part, and without one of its members.
LEMMA BalanceSplits ==
  ASSUME NEW P, IsFiniteSet(P), NEW f \in [P -> Int], NEW S \in SUBSET P
  PROVE  /\ Balance(S, f) \in Int
         /\ \A p \in S : Balance(S, f) = Balance(S \ {p}, f) + f[p]
<1>1. /\ Gain(f) \in [P -> Nat] /\ Loss(f) \in [P -> Nat]
      /\ \A p \in P : Gain(f)[p] - Loss(f)[p] = f[p]
  BY GainAndLoss
<1>2. Sum(S, Gain(f)) \in Nat /\ Sum(S, Loss(f)) \in Nat
  BY <1>1, SumIsNat
<1>3. ASSUME NEW p \in S PROVE Balance(S, f) = Balance(S \ {p}, f) + f[p]
  <2>1. Gain(f)[p] \in Nat /\ Loss(f)[p] \in Nat
    BY <1>1
  <2>2. IsFiniteSet(Heap(S, Gain(f))) /\ IsFiniteSet(Heap(S, Loss(f)))
    BY <1>1, SumIsNat
  <2>3. /\ Sum(S \ {p}, Gain(f)) \in Nat
        /\ Sum(S, Gain(f)) = Gain(f)[p] + Sum(S \ {p}, Gain(f))
    BY <2>1, <2>2, HeapSplits
  <2>4. /\ Sum(S \ {p}, Loss(f)) \in Nat
        /\ Sum(S, Loss(f)) = Loss(f)[p] + Sum(S \ {p}, Loss(f))
    BY <2>1, <2>2, HeapSplits
  <2>5. f[p] = Gain(f)[p] - Loss(f)[p]
    BY <1>1
  <2> QED
    BY <2>1, <2>3, <2>4, <2>5 DEF Balance
<1> QED
  BY <1>2, <1>3 DEF Balance

LEMMA NothingBalances ==
  ASSUME NEW f
  PROVE  Balance({}, f) = 0
<1>1. Sum({}, Gain(f)) = 0 /\ Sum({}, Loss(f)) = 0
  BY NothingSums
<1> QED
  BY <1>1 DEF Balance

\* Natural numbers have no losses.
LEMMA BalanceOfNaturals ==
  ASSUME NEW P, IsFiniteSet(P), NEW f \in [P -> Nat]
  PROVE  Balance(P, f) = Sum(P, f)
<1>1. Gain(f) = f /\ \A p \in P : Loss(f)[p] = 0
  BY DEF Gain, Loss
<1>2. Sum(P, Loss(f)) = 0
  BY <1>1, NothingSums
<1>3. Sum(P, f) \in Nat
  BY SumIsNat
<1> QED
  BY <1>1, <1>2, <1>3 DEF Balance

(***************************************************************************)
(* What a fold computes, in whatever order it picks the members: the       *)
(* balances of the parts solve its recursion, and nothing else does.       *)
(***************************************************************************)
Picks(P, pick) == \A S \in SUBSET P : S # {} => pick[S] \in S

LEMMA BalancesSolve ==
  ASSUME NEW P, IsFiniteSet(P), NEW f \in [P -> Int], NEW pick, Picks(P, pick)
  PROVE  /\ Balance({}, f) = 0
         /\ \A S \in SUBSET P : S # {} =>
              /\ f[pick[S]] \in Int /\ Balance(S \ {pick[S]}, f) \in Int
              /\ Balance(S, f) = Balance(S \ {pick[S]}, f) + f[pick[S]]
<1>1. ASSUME NEW S \in SUBSET P, S # {}
      PROVE  /\ f[pick[S]] \in Int /\ Balance(S \ {pick[S]}, f) \in Int
             /\ Balance(S, f) = Balance(S \ {pick[S]}, f) + f[pick[S]]
  <2>1. PICK p \in S : p = pick[S]
    BY <1>1 DEF Picks
  <2>2. S \ {p} \in SUBSET P /\ f[p] \in Int
    OBVIOUS
  <2>3. Balance(S \ {p}, f) \in Int
    BY <2>2, BalanceSplits
  <2> QED
    BY <2>1, <2>2, <2>3, BalanceSplits
<1> QED
  BY <1>1, NothingBalances

\* Where the fold of the rest is a number, whichever side of it is added to.
AddsUp(P, f, pick, fold) ==
  /\ fold[{}] = 0
  /\ \A S \in SUBSET P : S # {} /\ fold[S \ {pick[S]}] \in Int
                           => fold[S] = fold[S \ {pick[S]}] + f[pick[S]]

LEMMA FoldIsBalance ==
  ASSUME NEW P, IsFiniteSet(P), NEW f \in [P -> Int], NEW pick, Picks(P, pick),
         NEW fold, AddsUp(P, f, pick, fold)
  PROVE  fold[P] = Balance(P, f)
<1> DEFINE K == {S \in SUBSET P : fold[S] # Balance(S, f)}
<1>1. SUFFICES ASSUME K # {} PROVE FALSE
  OBVIOUS
<1>2. K \in SUBSET SUBSET P
  OBVIOUS
<1>3. PICK T \in K : \A U \in K : U \subseteq T => U = T
  <2> HIDE DEF K
  <2> QED
    BY <1>1, <1>2, LeastSubset
<1>4. T # {}
  BY <1>3, NothingBalances DEF AddsUp
<1>5. PICK t \in T : t = pick[T]
  BY <1>3, <1>4 DEF Picks
<1>6. T \ {t} \in SUBSET P /\ fold[T \ {t}] = Balance(T \ {t}, f)
  BY <1>3, <1>5
<1>7. Balance(T \ {t}, f) \in Int /\ Balance(T, f) = Balance(T \ {t}, f) + f[t]
  BY <1>3, <1>5, BalanceSplits
<1>8. fold[T] = fold[T \ {t}] + f[t]
  BY <1>3, <1>4, <1>5, <1>6, <1>7 DEF AddsUp
<1> QED
  BY <1>3, <1>6, <1>7, <1>8

\* The two forms of the recursion, with the new amount behind and in front.
Behind(P, f, pick, g) ==
  g = [S \in SUBSET P |-> IF S = {} THEN 0 ELSE g[S \ {pick[S]}] + f[pick[S]]]

InFront(P, f, pick, g) ==
  g = [S \in SUBSET P |-> IF S = {} THEN 0 ELSE f[pick[S]] + g[S \ {pick[S]}]]

LEMMA Solution ==
  ASSUME NEW P, IsFiniteSet(P), NEW f \in [P -> Int], NEW pick, Picks(P, pick)
  PROVE  /\ (CHOOSE g : Behind(P, f, pick, g))[P] = Balance(P, f)
         /\ (CHOOSE g : InFront(P, f, pick, g))[P] = Balance(P, f)
<1> DEFINE h == [S \in SUBSET P |-> Balance(S, f)]
<1>1. /\ Balance({}, f) = 0
      /\ \A S \in SUBSET P : S # {} =>
           /\ f[pick[S]] \in Int /\ Balance(S \ {pick[S]}, f) \in Int
           /\ Balance(S, f) = Balance(S \ {pick[S]}, f) + f[pick[S]]
  BY BalancesSolve
<1>2. ASSUME NEW S \in SUBSET P
      PROVE  /\ h[S] = IF S = {} THEN 0 ELSE h[S \ {pick[S]}] + f[pick[S]]
             /\ h[S] = IF S = {} THEN 0 ELSE f[pick[S]] + h[S \ {pick[S]}]
  <2>1. h[S] = Balance(S, f) /\ h[S \ {pick[S]}] = Balance(S \ {pick[S]}, f)
    OBVIOUS
  <2> HIDE DEF h
  <2>2. CASE S = {}
    BY <1>1, <2>1, <2>2
  <2>3. CASE S # {}
    <3>1. /\ f[pick[S]] \in Int /\ Balance(S \ {pick[S]}, f) \in Int
          /\ Balance(S, f) = Balance(S \ {pick[S]}, f) + f[pick[S]]
      BY <1>1, <2>3
    <3>2. h[S] = h[S \ {pick[S]}] + f[pick[S]] /\ h[S] = f[pick[S]] + h[S \ {pick[S]}]
      BY <2>1, <3>1
    <3> QED
      BY <2>3, <3>2
  <2> QED
    BY <2>2, <2>3
<1>3. Behind(P, f, pick, h) /\ InFront(P, f, pick, h)
  BY <1>2 DEF Behind, InFront
<1>4. ASSUME NEW g, Behind(P, f, pick, g) \/ InFront(P, f, pick, g)
      PROVE  g[P] = Balance(P, f)
  <2>1. ASSUME NEW S \in SUBSET P
        PROVE  /\ S = {} => g[S] = 0
               /\ S # {} => \/ g[S] = g[S \ {pick[S]}] + f[pick[S]]
                            \/ g[S] = f[pick[S]] + g[S \ {pick[S]}]
    BY <1>4 DEF Behind, InFront
  <2>2. g[{}] = 0
    BY <2>1
  <2>3. ASSUME NEW S \in SUBSET P, S # {}, g[S \ {pick[S]}] \in Int
        PROVE  g[S] = g[S \ {pick[S]}] + f[pick[S]]
    <3>1. f[pick[S]] \in Int
      BY <1>1, <2>3
    <3> QED
      BY <2>1, <2>3, <3>1
  <2>4. AddsUp(P, f, pick, g)
    BY <2>2, <2>3 DEF AddsUp
  <2> QED
    BY <2>4, FoldIsBalance
<1> HIDE DEF h
<1> QED
  BY <1>3, <1>4

\* The fold of the community modules over a set, in the order of CHOOSE.
LEMMA SetFoldIsBalance ==
  ASSUME NEW P, IsFiniteSet(P), NEW f \in [P -> Int]
  PROVE  FoldFunctionOnSet(LAMBDA x, y : x + y, 0, f, P) = Balance(P, f)
<1> DEFINE pick == [S \in SUBSET P |-> CHOOSE x \in S : TRUE]
           Folds(g) == g = [S \in SUBSET P |-> IF S = {} THEN 0
                              ELSE f[CHOOSE x \in S : TRUE] + g[S \ {CHOOSE x \in S : TRUE}]]
<1>1. FoldFunctionOnSet(LAMBDA x, y : x + y, 0, f, P) = (CHOOSE g : Folds(g))[P]
  BY DEF FoldFunctionOnSet, MapThenFoldSet
<1>2. Picks(P, pick)
  BY DEF Picks
<1>3. \A g : InFront(P, f, pick, g) <=> Folds(g)
  BY DEF InFront
<1>4. (CHOOSE g : InFront(P, f, pick, g)) = CHOOSE g : Folds(g)
  <2> HIDE DEF Folds, pick
  <2> QED
    BY <1>3
<1>5. (CHOOSE g : InFront(P, f, pick, g))[P] = Balance(P, f)
  <2> HIDE DEF pick
  <2> QED
    BY <1>2, Solution
<1> QED
  BY <1>1, <1>4, <1>5

-------------------------------------------------------------------------------
(***************************************************************************)
(* Sequences, summed from the front: the fold picks the last index first.  *)
(***************************************************************************)
Adds(v, g) == g = [S \in SUBSET DOMAIN v |->
                     IF S = {} THEN 0 ELSE g[S \ {Max(S)}] + v[Max(S)]]

SeqSum(v) == (CHOOSE g : Adds(v, g))[DOMAIN v]

LEMMA MaxIsLast ==
  ASSUME NEW n \in Nat, NEW S \in SUBSET (1 .. n), S # {}
  PROVE  Max(S) \in S /\ \A i \in S : i <= Max(S)
<1> DEFINE K == {m \in Nat : \A i \in S : i <= m}
<1>1. K \in SUBSET Nat /\ n \in K
  OBVIOUS
<1>2. PICK m \in K : \A k \in K : ~(<<k, m>> \in OpToRel(<, Nat))
  <2> HIDE DEF K
  <2> QED
    BY <1>1, NatLessThanWellFounded, WFMin
<1>3. m \in Nat /\ \A i \in S : i <= m
  OBVIOUS
<1>4. \A k \in K : ~(k < m)
  BY <1>1, <1>2, <1>3 DEF OpToRel
<1>5. m \in S
  <2> SUFFICES ASSUME m \notin S PROVE FALSE
    OBVIOUS
  <2>1. \A i \in S : i \in Nat /\ 1 <= i /\ i <= m /\ i # m
    BY <1>3
  <2>2. m - 1 \in Nat /\ \A i \in S : i <= m - 1
    <3>1. PICK i \in S : TRUE
      OBVIOUS
    <3>2. m >= 1
      BY <1>3, <2>1, <3>1
    <3> QED
      BY <1>3, <2>1, <3>2
  <2>3. m - 1 \in K
    BY <2>2
  <2> HIDE DEF K
  <2> QED
    BY <1>3, <1>4, <2>3
<1>6. m \in S /\ \A i \in S : m >= i
  BY <1>3, <1>5
<1>7. Max(S) \in S /\ \A i \in S : Max(S) >= i
  BY <1>6 DEF Max
<1> QED
  BY <1>7

LEMMA SeqSumIs ==
  ASSUME NEW n \in Nat, NEW v \in [1 .. n -> Int]
  PROVE  SeqSum(v) = Balance(1 .. n, v)
<1> DEFINE pick == [S \in SUBSET (1 .. n) |-> Max(S)]
<1>1. DOMAIN v = 1 .. n /\ IsFiniteSet(1 .. n)
  BY FS_Interval
<1>2. Picks(1 .. n, pick)
  BY MaxIsLast DEF Picks
<1>3. \A g : Behind(1 .. n, v, pick, g) <=> Adds(v, g)
  BY <1>1 DEF Behind, Adds
<1> HIDE DEF pick
<1>4. (CHOOSE g : Behind(1 .. n, v, pick, g)) = CHOOSE g : Adds(v, g)
  BY <1>3
<1>5. (CHOOSE g : Behind(1 .. n, v, pick, g))[1 .. n] = Balance(1 .. n, v)
  BY <1>1, <1>2, Solution
<1> QED
  BY <1>1, <1>4, <1>5 DEF SeqSum

\* The balance depends on the amounts of the members only.
LEMMA SameAmounts ==
  ASSUME NEW P, NEW S \in SUBSET P, NEW f \in [P -> Int], NEW h \in [S -> Int],
         \A p \in S : f[p] = h[p]
  PROVE  Balance(S, f) = Balance(S, h)
<1>1. \A p \in S : Gain(f)[p] = Gain(h)[p] /\ Loss(f)[p] = Loss(h)[p]
  BY DEF Gain, Loss
<1>2. Heap(S, Gain(f)) = Heap(S, Gain(h)) /\ Heap(S, Loss(f)) = Heap(S, Loss(h))
  BY <1>1 DEF Heap
<1> QED
  BY <1>2 DEF Balance, Sum

LEMMA AppendSum ==
  ASSUME NEW n \in Nat, NEW v \in [1 .. n -> Int], NEW w \in [1 .. n + 1 -> Int],
         \A i \in 1 .. n : w[i] = v[i]
  PROVE  SeqSum(v) \in Int /\ SeqSum(w) = SeqSum(v) + w[n + 1]
<1>1. IsFiniteSet(1 .. n) /\ IsFiniteSet(1 .. n + 1)
  BY FS_Interval
<1>2. SeqSum(v) = Balance(1 .. n, v) /\ SeqSum(w) = Balance(1 .. n + 1, w)
  BY SeqSumIs
<1>3. Balance(1 .. n, v) \in Int
  BY <1>1, BalanceSplits
<1>4. n + 1 \in 1 .. n + 1 /\ (1 .. n + 1) \ {n + 1} = 1 .. n
  OBVIOUS
<1>5. Balance(1 .. n + 1, w) = Balance(1 .. n, w) + w[n + 1]
  BY <1>1, <1>4, BalanceSplits
<1>6. Balance(1 .. n, w) = Balance(1 .. n, v)
  <2> DEFINE P == 1 .. n + 1
             Q == 1 .. n
  <2>1. w \in [P -> Int] /\ v \in [Q -> Int] /\ Q \in SUBSET P
    OBVIOUS
  <2>2. \A i \in Q : w[i] = v[i]
    OBVIOUS
  <2> HIDE DEF P, Q
  <2>3. Balance(Q, w) = Balance(Q, v)
    BY <2>1, <2>2, SameAmounts
  <2> QED
    BY <2>3 DEF Q
<1> QED
  BY <1>2, <1>3, <1>5, <1>6

LEMMA EmptySum == ASSUME NEW v, DOMAIN v = {}, v = [i \in {} |-> 0] PROVE SeqSum(v) = 0
<1>1. v \in [1 .. 0 -> Int] /\ 1 .. 0 = {}
  OBVIOUS
<1>2. SeqSum(v) = Balance({}, v)
  BY <1>1, SeqSumIs
<1> QED
  BY <1>2, NothingBalances

\* Coins that are moved one to one are as many.
LEMMA MovedSum ==
  ASSUME NEW P, NEW Q, NEW f, NEW h, NEW b \in Bijection(P, Q), IsFiniteSet(Heap(P, f)),
         \A p \in P : f[p] = h[b[p]]
  PROVE  Sum(P, f) = Sum(Q, h)
<1> DEFINE move == [z \in Heap(P, f) |-> <<b[z[1]], z[2]>>]
<1>1. /\ \A p \in P : b[p] \in Q
      /\ \A p, q \in P : b[p] = b[q] => p = q
      /\ \A q \in Q : \E p \in P : b[p] = q
  BY DEF Bijection, Injection, Surjection, IsInjective
<1>2. ASSUME NEW z \in Heap(P, f)
      PROVE  move[z] \in Heap(Q, h)
  <2>1. z[1] \in P /\ z[2] \in Nat /\ z[2] \in 1 .. f[z[1]] /\ z = <<z[1], z[2]>>
    BY DEF Heap
  <2> QED
    BY <1>1, <2>1 DEF Heap
<1>3. ASSUME NEW y \in Heap(P, f), NEW z \in Heap(P, f), move[y] = move[z]
      PROVE  y = z
  <2>1. /\ z[1] \in P /\ z = <<z[1], z[2]>>
        /\ y[1] \in P /\ y = <<y[1], y[2]>>
    BY DEF Heap
  <2>2. b[y[1]] = b[z[1]] /\ y[2] = z[2]
    BY <1>3
  <2> QED
    BY <1>1, <2>1, <2>2
<1>4. ASSUME NEW z \in Heap(Q, h)
      PROVE  \E y \in Heap(P, f) : move[y] = z
  <2>1. z[1] \in Q /\ z[2] \in Nat /\ z[2] \in 1 .. h[z[1]] /\ z = <<z[1], z[2]>>
    BY DEF Heap
  <2>2. PICK p \in P : b[p] = z[1]
    BY <1>1, <2>1
  <2>3. <<p, z[2]>> \in Heap(P, f)
    BY <2>1, <2>2 DEF Heap
  <2>4. move[<<p, z[2]>>] = z
    BY <2>1, <2>2, <2>3
  <2> QED
    BY <2>3, <2>4
<1>5. move \in Bijection(Heap(P, f), Heap(Q, h))
  <2>1. move \in [Heap(P, f) -> Heap(Q, h)]
    BY <1>2
  <2> HIDE DEF move
  <2> QED
    BY <1>3, <1>4, <2>1 DEF Bijection, Injection, Surjection, IsInjective
<1>6. ExistsBijection(Heap(P, f), Heap(Q, h))
  BY <1>5 DEF ExistsBijection
<1> QED
  BY <1>6, FS_Bijection DEF Sum

LEMMA MovedBalance ==
  ASSUME NEW P, NEW Q, NEW R, IsFiniteSet(P), IsFiniteSet(R), Q \subseteq R,
         NEW f \in [P -> Int], NEW h \in [R -> Int],
         NEW b \in Bijection(P, Q), \A p \in P : f[p] = h[b[p]]
  PROVE  Balance(P, f) = Balance(Q, h)
<1>1. \A p \in P : b[p] \in Q
  BY DEF Bijection, Injection
<1>2. \A p \in P : Gain(f)[p] = Gain(h)[b[p]] /\ Loss(f)[p] = Loss(h)[b[p]]
  BY <1>1 DEF Gain, Loss
<1>3. Gain(f) \in [P -> Nat] /\ Loss(f) \in [P -> Nat]
  BY GainAndLoss
<1>4. IsFiniteSet(Heap(P, Gain(f))) /\ IsFiniteSet(Heap(P, Loss(f)))
  BY <1>3, HeapIsFinite
<1>5. Sum(P, Gain(f)) = Sum(Q, Gain(h)) /\ Sum(P, Loss(f)) = Sum(Q, Loss(h))
  BY <1>2, <1>4, MovedSum
<1> QED
  BY <1>5 DEF Balance

\* Without one of its elements, as RemoveAt leaves it.
LEMMA RemoveSum ==
  ASSUME NEW n \in Nat, NEW v \in [1 .. n + 1 -> Int], NEW w \in [1 .. n -> Int],
         NEW k \in 1 .. n + 1,
         \A i \in 1 .. n : w[i] = IF i < k THEN v[i] ELSE v[i + 1]
  PROVE  SeqSum(v) \in Int /\ SeqSum(w) = SeqSum(v) - v[k]
<1> DEFINE P == 1 .. n
           R == 1 .. n + 1
           b == [i \in P |-> IF i < k THEN i ELSE i + 1]
<1>1. IsFiniteSet(P) /\ IsFiniteSet(R)
  BY FS_Interval
<1>2. SeqSum(v) = Balance(R, v) /\ SeqSum(w) = Balance(P, w)
  BY SeqSumIs
<1>3. Balance(R, v) \in Int /\ Balance(R, v) = Balance(R \ {k}, v) + v[k]
  <2>1. v \in [R -> Int] /\ k \in R /\ R \in SUBSET R
    OBVIOUS
  <2> HIDE DEF R
  <2> QED
    BY <1>1, <2>1, BalanceSplits
<1>4. b \in Bijection(P, R \ {k})
  <2>1. b \in [P -> R \ {k}]
    OBVIOUS
  <2>2. \A i, j \in P : b[i] = b[j] => i = j
    OBVIOUS
  <2>3. ASSUME NEW j \in R \ {k} PROVE \E i \in P : b[i] = j
    <3>1. CASE j < k
      <4>1. j \in P /\ b[j] = j
        BY <3>1
      <4> QED
        BY <4>1
    <3>2. CASE ~(j < k)
      <4>1. j - 1 \in P /\ ~(j - 1 < k)
        BY <3>2
      <4>2. b[j - 1] = j
        BY <4>1
      <4> QED
        BY <4>1, <4>2
    <3> QED
      BY <3>1, <3>2
  <2> HIDE DEF b
  <2> QED
    BY <2>1, <2>2, <2>3 DEF Bijection, Injection, Surjection, IsInjective
<1>5. \A i \in P : w[i] = v[b[i]]
  OBVIOUS
<1>6. R \ {k} \subseteq R
  OBVIOUS
<1>7. Balance(P, w) = Balance(R \ {k}, v)
  <2> HIDE DEF P, R, b
  <2>1. w \in [P -> Int] /\ v \in [R -> Int]
    BY DEF P, R
  <2> QED
    BY <1>1, <1>4, <1>5, <1>6, <2>1, MovedBalance
<1>8. v[k] \in Int /\ Balance(R \ {k}, v) \in Int
  <2>1. v \in [R -> Int] /\ k \in R /\ R \ {k} \in SUBSET R
    OBVIOUS
  <2> HIDE DEF R
  <2> QED
    BY <1>1, <2>1, BalanceSplits
<1> HIDE DEF P, R
<1> QED
  BY <1>2, <1>3, <1>7, <1>8

\* A sum of eleven, one after another.
LEMMA ElevenSum ==
  ASSUME NEW v \in [1 .. 11 -> Int]
  PROVE  SeqSum(v) = v[1] + v[2] + v[3] + v[4] + v[5] + v[6] + v[7] + v[8] + v[9] + v[10] + v[11]
<1> DEFINE pre(k) == [i \in 1 .. k |-> v[i]]
           s(k) == SeqSum(pre(k))
<1>1. ASSUME NEW k \in 0 .. 10
      PROVE  s(k) \in Int /\ s(k + 1) = s(k) + v[k + 1]
  <2>1. k \in Nat /\ 1 .. k \subseteq 1 .. k + 1 /\ 1 .. k + 1 \subseteq 1 .. 11 /\ k + 1 \in 1 .. k + 1
    OBVIOUS
  <2>2. pre(k) \in [1 .. k -> Int] /\ pre(k + 1) \in [1 .. k + 1 -> Int]
    BY <2>1
  <2>3. (\A i \in 1 .. k : pre(k + 1)[i] = pre(k)[i]) /\ pre(k + 1)[k + 1] = v[k + 1]
    BY <2>1
  <2> HIDE DEF pre
  <2> QED
    BY <2>1, <2>2, <2>3, AppendSum
<1>2. s(0) = 0
  <2>1. pre(0) = [i \in {} |-> 0] /\ DOMAIN pre(0) = {}
    OBVIOUS
  <2> HIDE DEF pre
  <2> QED
    BY <2>1, EmptySum
<1>3. pre(11) = v
  OBVIOUS
<1> HIDE DEF pre
<1>4. s(11) = SeqSum(v)
  BY <1>3
<1> HIDE DEF s
<1>5. /\ s(1) = s(0) + v[1] /\ s(2) = s(1) + v[2] /\ s(3) = s(2) + v[3] /\ s(4) = s(3) + v[4]
      /\ s(5) = s(4) + v[5] /\ s(6) = s(5) + v[6] /\ s(7) = s(6) + v[7] /\ s(8) = s(7) + v[8]
      /\ s(9) = s(8) + v[9] /\ s(10) = s(9) + v[10] /\ s(11) = s(10) + v[11]
  BY <1>1
<1> QED
  BY <1>2, <1>4, <1>5

-------------------------------------------------------------------------------
(***************************************************************************)
(* The greatest and the least of finitely many integers.                   *)
(***************************************************************************)
IntSet(S) == S \subseteq Int

LEMMA Extremes ==
  ASSUME NEW S, IsFiniteSet(S), IntSet(S), S # {}
  PROVE  /\ Max(S) \in S /\ \A x \in S : x <= Max(S)
         /\ Min(S) \in S /\ \A x \in S : Min(S) <= x
<1> DEFINE High(T) == \E m \in T : \A x \in T : m >= x
           Low(T) == \E m \in T : \A x \in T : m =< x
           K == {T \in SUBSET S : T # {} /\ ~(High(T) /\ Low(T))}
<1>1. High(S) /\ Low(S)
  <2>0. SUFFICES ASSUME K # {} PROVE FALSE
    OBVIOUS
  <2>1. PICK T \in K : \A U \in K : U \subseteq T => U = T
    <3>1. K \in SUBSET SUBSET S
      OBVIOUS
    <3> HIDE DEF K, High, Low
    <3> QED
      BY <2>0, <3>1, LeastSubset
  <2>2. PICK p \in T : TRUE
    OBVIOUS
  <2>3. T \ {p} \notin K /\ T \ {p} \in SUBSET S /\ p \in Int
    BY <2>1, <2>2 DEF IntSet
  <2>4. CASE T \ {p} = {}
    <3>1. T = {p}
      BY <2>2, <2>4
    <3>2. High(T) /\ Low(T)
      BY <2>3, <3>1
    <3> QED
      BY <2>1, <3>2
  <2>5. CASE T \ {p} # {}
    <3>1. High(T \ {p}) /\ Low(T \ {p})
      BY <2>3, <2>5
    <3>2. PICK a \in T \ {p} : \A x \in T \ {p} : a >= x
      BY <3>1
    <3>3. PICK b \in T \ {p} : \A x \in T \ {p} : b =< x
      BY <3>1
    <3>4. T \subseteq Int /\ a \in Int /\ b \in Int
      BY <2>1 DEF IntSet
    <3>5. High(T)
      <4>1. CASE a >= p
        BY <3>2, <3>4, <4>1
      <4>2. CASE ~(a >= p)
        <5>1. \A x \in T : p >= x
          BY <2>3, <3>2, <3>4, <4>2
        <5> QED
          BY <2>2, <5>1
      <4> QED
        BY <4>1, <4>2
    <3>6. Low(T)
      <4>1. CASE b =< p
        BY <3>3, <3>4, <4>1
      <4>2. CASE ~(b =< p)
        <5>1. \A x \in T : p =< x
          BY <2>3, <3>3, <3>4, <4>2
        <5> QED
          BY <2>2, <5>1
      <4> QED
        BY <4>1, <4>2
    <3> QED
      BY <2>1, <3>5, <3>6
  <2> QED
    BY <2>4, <2>5
<1>2. Max(S) \in S /\ \A x \in S : Max(S) >= x
  BY <1>1 DEF Max
<1>3. Min(S) \in S /\ \A x \in S : Min(S) =< x
  BY <1>1 DEF Min
<1> QED
  BY <1>2, <1>3

LEMMA PairExtremes ==
  ASSUME NEW x \in Int, NEW y \in Int
  PROVE  /\ Max({x, y}) \in Int /\ Max({x, y}) >= x /\ Max({x, y}) >= y
         /\ Min({x, y}) \in Int /\ Min({x, y}) <= x /\ Min({x, y}) <= y
         /\ Min({x, y}) = x \/ Min({x, y}) = y
<1>1. IsFiniteSet({x, y})
  <2>1. IsFiniteSet({x}) /\ {x} \cup {y} = {x, y}
    BY FS_Singleton
  <2> QED
    BY <2>1, FS_AddElement
<1> QED
  BY <1>1, Extremes DEF IntSet

-------------------------------------------------------------------------------
(***************************************************************************)
(* Sorting: in a strict order of a finite set each place is one member's.  *)
(***************************************************************************)
StrictOrder(R, S) ==
  /\ \A i \in S : <<i, i>> \notin R
  /\ \A i, j \in S : i # j => <<i, j>> \in R \/ <<j, i>> \in R
  /\ \A i, j, k \in S : <<i, j>> \in R /\ <<j, k>> \in R => <<i, k>> \in R

Rank(R, S) == [i \in S |-> Cardinality({j \in S : <<j, i>> \in R}) + 1]

LEMMA RanksAreTaken ==
  ASSUME NEW D, IsFiniteSet(D), NEW R, StrictOrder(R, D)
  PROVE  /\ Rank(R, D) \in Bijection(D, 1 .. Cardinality(D))
         /\ \A i, j \in D : <<i, j>> \in R => Rank(R, D)[i] < Rank(R, D)[j]
<1> DEFINE Before(i) == {j \in D : <<j, i>> \in R}
           rank == Rank(R, D)
           n == Cardinality(D)
<1>1. n \in Nat /\ IsFiniteSet(1 .. n) /\ Cardinality(1 .. n) = n
  BY FS_CardinalityType, FS_Interval
<1>2. \A i \in D : IsFiniteSet(Before(i)) /\ Cardinality(Before(i)) \in Nat
                   /\ IsFiniteSet(D \ {i}) /\ Cardinality(D \ {i}) = n - 1
  BY <1>1, FS_Subset, FS_CardinalityType, FS_RemoveElement
<1>3. \A i \in D : rank[i] = Cardinality(Before(i)) + 1
  BY DEF Rank
<1>4. \A i \in D : Cardinality(Before(i)) + 1 \in 1 .. n
  <2>1. TAKE i \in D
  <2>2. Before(i) \in SUBSET (D \ {i})
    BY DEF StrictOrder
  <2> HIDE DEF Before
  <2>3. Cardinality(Before(i)) <= Cardinality(D \ {i})
    BY <2>2, <1>2, FS_Subset
  <2>4. Cardinality(Before(i)) \in Nat /\ Cardinality(D \ {i}) = n - 1
    BY <1>2
  <2> HIDE DEF n
  <2> QED
    BY <1>1, <2>3, <2>4
<1>5. rank \in [D -> 1 .. n]
  BY <1>4 DEF Rank
<1>6. ASSUME NEW i \in D, NEW j \in D, <<i, j>> \in R
      PROVE  rank[i] < rank[j]
  <2>1. Before(i) \cup {i} \in SUBSET Before(j)
    BY <1>6 DEF StrictOrder
  <2>2. i \notin Before(i)
    BY DEF StrictOrder
  <2> HIDE DEF Before
  <2>3. Cardinality(Before(i) \cup {i}) <= Cardinality(Before(j))
    BY <2>1, <1>2, FS_Subset
  <2>4. Cardinality(Before(i) \cup {i}) = Cardinality(Before(i)) + 1
    BY <2>2, <1>2, FS_AddElement
  <2>5. Cardinality(Before(i)) \in Nat /\ Cardinality(Before(j)) \in Nat
    BY <1>2
  <2> HIDE DEF rank
  <2> QED
    BY <1>3, <2>3, <2>4, <2>5
<1>7. \A i, j \in D : i # j => rank[i] # rank[j]
  <2> SUFFICES ASSUME NEW i \in D, NEW j \in D, i # j PROVE rank[i] # rank[j]
    OBVIOUS
  <2>1. rank[i] < rank[j] \/ rank[j] < rank[i]
    <3> HIDE DEF rank
    <3> QED
      BY <1>6 DEF StrictOrder
  <2>2. rank[i] \in Nat /\ rank[j] \in Nat
    BY <1>5
  <2> HIDE DEF rank
  <2> QED
    BY <2>1, <2>2
<1> HIDE DEF rank, n
<1>8. rank \in Injection(D, 1 .. n)
  BY <1>5, <1>7 DEF Injection, IsInjective
<1>9. rank \in Surjection(D, 1 .. n)
  BY <1>1, <1>8, FS_Injection DEF n
<1> QED
  BY <1>6, <1>8, <1>9 DEF Bijection, rank, n

-------------------------------------------------------------------------------
LEMMA DisjointBalances ==
  ASSUME NEW P, IsFiniteSet(P), NEW f \in [P -> Int], NEW S \in SUBSET P, NEW T \in SUBSET P,
         S \cap T = {}
  PROVE  Balance(S \cup T, f) = Balance(S, f) + Balance(T, f)
<1>1. ASSUME NEW g \in [P -> Nat] PROVE Sum(S \cup T, g) = Sum(S, g) + Sum(T, g)
                                       /\ Sum(S, g) \in Nat /\ Sum(T, g) \in Nat
  <2> DEFINE A == Heap(S, g)
             B == Heap(T, g)
  <2>1. Heap(S \cup T, g) = A \cup B /\ A \cap B = {}
    BY DEF Heap
  <2>2. IsFiniteSet(A) /\ IsFiniteSet(B)
    BY HeapIsFinite
  <2> HIDE DEF A, B
  <2>3. Cardinality(A \cup B) = Cardinality(A) + Cardinality(B) - Cardinality(A \cap B)
    BY <2>2, FS_Union
  <2>4. Cardinality(A) \in Nat /\ Cardinality(B) \in Nat /\ Cardinality(A \cap B) = 0
    BY <2>1, <2>2, FS_CardinalityType, FS_EmptySet
  <2>5. Cardinality(A \cup B) = Cardinality(A) + Cardinality(B)
    BY <2>3, <2>4
  <2> QED
    BY <2>1, <2>4, <2>5 DEF Sum, A, B
<1>2. Gain(f) \in [P -> Nat] /\ Loss(f) \in [P -> Nat]
  BY GainAndLoss
<1>3. /\ Sum(S \cup T, Gain(f)) = Sum(S, Gain(f)) + Sum(T, Gain(f))
      /\ Sum(S \cup T, Loss(f)) = Sum(S, Loss(f)) + Sum(T, Loss(f))
      /\ Sum(S, Gain(f)) \in Nat /\ Sum(T, Gain(f)) \in Nat
      /\ Sum(S, Loss(f)) \in Nat /\ Sum(T, Loss(f)) \in Nat
  BY <1>1, <1>2
<1> QED
  BY <1>3 DEF Balance

\* Sums over the parts of a set.
LEMMA PartsAddUp ==
  ASSUME NEW P, IsFiniteSet(P), NEW f \in [P -> Int], NEW F, IsFiniteSet(F),
         NEW B \in [F -> SUBSET P], \A i, j \in F : i # j => B[i] \cap B[j] = {},
         NEW g \in [F -> Int], \A i \in F : g[i] = Balance(B[i], f)
  PROVE  Balance(UNION {B[i] : i \in F}, f) = Balance(F, g)
<1> DEFINE Of(T) == UNION {B[i] : i \in T}
           K == {T \in SUBSET F : Balance(Of(T), f) # Balance(T, g)}
<1>1. SUFFICES ASSUME K # {} PROVE FALSE
  OBVIOUS
<1>2. K \in SUBSET SUBSET F
  OBVIOUS
<1>3. PICK T \in K : \A U \in K : U \subseteq T => U = T
  <2> HIDE DEF K
  <2> QED
    BY <1>1, <1>2, LeastSubset
<1>4. T # {}
  <2>1. Of({}) = {}
    OBVIOUS
  <2> QED
    BY <1>3, <2>1, NothingBalances
<1>5. PICK t \in T : TRUE
  BY <1>4
<1> DEFINE U == T \ {t}
<1>6. U \in SUBSET F /\ T \in SUBSET F /\ Balance(Of(U), f) = Balance(U, g)
  BY <1>3, <1>5
<1>7. Of(T) = Of(U) \cup B[t] /\ Of(U) \cap B[t] = {}
  BY <1>5, <1>6
<1>8. Of(U) \in SUBSET P /\ B[t] \in SUBSET P
  BY <1>5, <1>6
<1>9. Balance(T, g) = Balance(U, g) + g[t] /\ Balance(U, g) \in Int
  BY <1>5, <1>6, BalanceSplits
<1>10. Balance(Of(T), f) # Balance(T, g)
  BY <1>3
<1> HIDE DEF Of, U, K
<1>11. Balance(Of(T), f) = Balance(Of(U), f) + Balance(B[t], f)
  BY <1>7, <1>8, DisjointBalances
<1> QED
  BY <1>5, <1>6, <1>9, <1>10, <1>11

\* The order of what is added does not matter.
LEMMA OrderOfAdding ==
  ASSUME NEW A, IsFiniteSet(A), NEW F, NEW s \in Bijection(A, F), NEW g \in [F -> Int],
         NEW h \in [A -> Int], \A a \in A : h[a] = g[s[a]]
  PROVE  Balance(A, h) = Balance(F, g)
<1> DEFINE At(T) == {s[a] : a \in T}
           K == {T \in SUBSET A : Balance(T, h) # Balance(At(T), g)}
<1>1. At(A) = F /\ \A a \in A : s[a] \in F
  BY DEF Bijection, Injection, Surjection
<1>2. \A a, b \in A : s[a] = s[b] => a = b
  BY DEF Bijection, Injection, IsInjective
<1>3. IsFiniteSet(F)
  BY FS_Surjection DEF Bijection
<1>4. SUFFICES ASSUME K # {} PROVE FALSE
  BY <1>1
<1>5. K \in SUBSET SUBSET A
  OBVIOUS
<1>6. PICK T \in K : \A U \in K : U \subseteq T => U = T
  <2> HIDE DEF K
  <2> QED
    BY <1>4, <1>5, LeastSubset
<1>7. T # {}
  <2>1. At({}) = {}
    OBVIOUS
  <2> QED
    BY <1>6, <2>1, NothingBalances
<1>8. PICK t \in T : TRUE
  BY <1>7
<1> DEFINE U == T \ {t}
<1>9. U \in SUBSET A /\ T \in SUBSET A /\ Balance(U, h) = Balance(At(U), g)
  BY <1>6, <1>8
<1>10. At(U) = At(T) \ {s[t]} /\ s[t] \in At(T) /\ At(T) \in SUBSET F
  BY <1>1, <1>2, <1>8, <1>9
<1>11. Balance(T, h) # Balance(At(T), g)
  BY <1>6
<1>12. Balance(T, h) = Balance(U, h) + h[t]
  BY <1>8, <1>9, BalanceSplits
<1> HIDE DEF At, K
<1>13. Balance(At(T), g) = Balance(At(T) \ {s[t]}, g) + g[s[t]]
  BY <1>3, <1>10, BalanceSplits
<1> QED
  BY <1>8, <1>9, <1>10, <1>11, <1>12, <1>13

\* One for each member is how many there are.
LEMMA OnesAddUp ==
  ASSUME NEW P, IsFiniteSet(P), NEW f \in [P -> Int], \A p \in P : f[p] = 1, NEW S \in SUBSET P
  PROVE  Balance(S, f) = Cardinality(S)
<1> DEFINE K == {T \in SUBSET P : Balance(T, f) # Cardinality(T)}
<1>1. SUFFICES ASSUME K # {} PROVE FALSE
  OBVIOUS
<1>2. K \in SUBSET SUBSET P
  OBVIOUS
<1>3. PICK T \in K : \A U \in K : U \subseteq T => U = T
  <2> HIDE DEF K
  <2> QED
    BY <1>1, <1>2, LeastSubset
<1>4. T # {}
  BY <1>3, NothingBalances, FS_EmptySet
<1>5. PICK t \in T : TRUE
  BY <1>4
<1> DEFINE U == T \ {t}
<1>6. U \in SUBSET P /\ T \in SUBSET P /\ Balance(U, f) = Cardinality(U)
  BY <1>3, <1>5
<1>7. Balance(T, f) = Balance(U, f) + f[t]
  BY <1>5, <1>6, BalanceSplits
<1>8. IsFiniteSet(T) /\ Cardinality(T) \in Nat
  BY <1>6, FS_Subset, FS_CardinalityType
<1>9. Cardinality(U) = Cardinality(T) - 1
  BY <1>5, <1>8, FS_RemoveElement
<1>10. Balance(T, f) # Cardinality(T) /\ f[t] = 1
  BY <1>3, <1>5, <1>6
<1> HIDE DEF U, K
<1> QED
  BY <1>6, <1>7, <1>8, <1>9, <1>10

\* What lies between two bounds adds up to between so many times each.
LEMMA BoundsAddUp ==
  ASSUME NEW P, IsFiniteSet(P), NEW f \in [P -> Int], NEW lo \in Int, NEW hi \in Int,
         \A p \in P : lo <= f[p] /\ f[p] <= hi, NEW S \in SUBSET P
  PROVE  /\ Balance(S, f) \in Int /\ Cardinality(S) \in Nat
         /\ lo * Cardinality(S) <= Balance(S, f) /\ Balance(S, f) <= hi * Cardinality(S)
<1> DEFINE In(T) == /\ lo * Cardinality(T) <= Balance(T, f)
                    /\ Balance(T, f) <= hi * Cardinality(T)
           K == {T \in SUBSET P : ~In(T)}
<1>1. \A T \in SUBSET P : Balance(T, f) \in Int /\ IsFiniteSet(T) /\ Cardinality(T) \in Nat
  BY BalanceSplits, FS_Subset, FS_CardinalityType
<1>2. K = {}
  <2>1. SUFFICES ASSUME K # {} PROVE FALSE
    OBVIOUS
  <2>2. K \in SUBSET SUBSET P
    OBVIOUS
  <2>3. PICK T \in K : \A U \in K : U \subseteq T => U = T
    <3> HIDE DEF K
    <3> QED
      BY <2>1, <2>2, LeastSubset
  <2>4. T \in SUBSET P /\ ~In(T)
    BY <2>3
  <2>5. T # {}
    <3>1. Balance({}, f) = 0 /\ Cardinality({}) = 0
      BY NothingBalances, FS_EmptySet
    <3> QED
      BY <2>4, <3>1
  <2>6. PICK t \in T : TRUE
    BY <2>5
  <2>7. T \ {t} \in SUBSET P /\ In(T \ {t})
    BY <2>3, <2>4, <2>6
  <2>8. Balance(T, f) = Balance(T \ {t}, f) + f[t]
    BY <2>4, <2>6, BalanceSplits
  <2>9. Cardinality(T \ {t}) = Cardinality(T) - 1
    BY <1>1, <2>4, <2>6, FS_RemoveElement
  <2>10. PICK n \in Nat, b \in Int, x \in Int :
           /\ n = Cardinality(T) /\ b = Balance(T \ {t}, f) /\ x = f[t]
           /\ lo <= x /\ x <= hi
    BY <1>1, <2>4, <2>6, <2>7
  <2>11. lo * (n - 1) = lo * n - lo /\ hi * (n - 1) = hi * n - hi
    OBVIOUS
  <2>12. lo * n \in Int /\ hi * n \in Int
    OBVIOUS
  <2>13. lo * n - lo <= b /\ b <= hi * n - hi
    BY <2>7, <2>9, <2>10, <2>11
  <2>14. lo * n <= b + x /\ b + x <= hi * n
    BY <2>10, <2>12, <2>13
  <2> QED
    BY <2>4, <2>8, <2>10, <2>14
<1> QED
  BY <1>1, <1>2
================================================================================
