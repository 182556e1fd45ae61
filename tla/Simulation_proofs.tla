--------------------------- MODULE Simulation_proofs ---------------------------
(***************************************************************************)
(* The simulation for every market, profile and schedule: that no sale is  *)
(* passed over by the loop that settles them, and that what the ledger     *)
(* holds is what was put in and what the flips say they made.  What is     *)
(* shown of it at the end agrees with it; the learner reads the flips and  *)
(* changes none of it.                                                     *)
(***************************************************************************)
EXTENDS Learning, Sums

\* A sequence, whatever its elements are.
IsRow(s) == s \in Seq(Range(s))

LEMMA RowIs ==
  ASSUME NEW s, IsRow(s)
  PROVE  /\ Len(s) \in Nat /\ DOMAIN s = 1 .. Len(s)
         /\ \A i \in 1 .. Len(s) : s[i] \in Range(s)
BY DEF IsRow, Range

LEMMA RowIsFinite ==
  ASSUME NEW s, IsRow(s)
  PROVE  IsFiniteSet(DOMAIN s) /\ Cardinality(DOMAIN s) = Len(s)
<1> DEFINE n == Len(s)
<1>1. n \in Nat /\ DOMAIN s = 1 .. n
  BY RowIs
<1> HIDE DEF n
<1>2. IsFiniteSet(1 .. n) /\ Cardinality(1 .. n) = n
  BY <1>1, FS_Interval
<1> QED
  BY <1>1, <1>2 DEF n

LEMMA SeqIsRow ==
  ASSUME NEW S, NEW s \in Seq(S)
  PROVE  IsRow(s)
<1>1. \A i \in 1 .. Len(s) : s[i] \in Range(s)
  BY DEF Range
<1>2. Len(s) \in Nat /\ s = [i \in 1 .. Len(s) |-> s[i]]
  OBVIOUS
<1>3. s \in [1 .. Len(s) -> Range(s)]
  BY <1>1, <1>2
<1> QED
  BY <1>2, <1>3 DEF IsRow

\* Two ends put together again, whatever was between them.
LEMMA CutIs ==
  ASSUME NEW s, IsRow(s), NEW i \in 1 .. Len(s) + 1, NEW k \in 1 .. Len(s) + 1
  PROVE  /\ SubSeq(s, 1, i - 1) \in Seq(Range(s)) /\ Len(SubSeq(s, 1, i - 1)) = i - 1
         /\ \A j \in 1 .. i - 1 : SubSeq(s, 1, i - 1)[j] = s[j]
         /\ SubSeq(s, k, Len(s)) \in Seq(Range(s)) /\ Len(SubSeq(s, k, Len(s))) = Len(s) - k + 1
         /\ \A j \in 1 .. Len(s) - k + 1 : SubSeq(s, k, Len(s))[j] = s[k + j - 1]
<1>1. Len(s) \in Nat /\ \A j \in 1 .. Len(s) : s[j] \in Range(s)
  BY RowIs
<1>2. /\ SubSeq(s, 1, i - 1) \in Seq(Range(s)) /\ Len(SubSeq(s, 1, i - 1)) = i - 1
      /\ \A j \in 1 .. i - 1 : SubSeq(s, 1, i - 1)[j] = s[j]
  BY <1>1, SubSeqProperties
<1>3. /\ SubSeq(s, k, Len(s)) \in Seq(Range(s)) /\ Len(SubSeq(s, k, Len(s))) = Len(s) - k + 1
      /\ \A j \in 1 .. Len(s) - k + 1 : SubSeq(s, k, Len(s))[j] = s[k + j - 1]
  BY <1>1, SubSeqProperties
<1> QED
  BY <1>2, <1>3

LEMMA AppendIs ==
  ASSUME NEW s, IsRow(s), NEW x
  PROVE  /\ IsRow(Append(s, x))
         /\ Len(Append(s, x)) = Len(s) + 1
         /\ \A i \in 1 .. Len(s) : Append(s, x)[i] = s[i]
         /\ Append(s, x)[Len(s) + 1] = x
<1>1. s \in Seq(Range(s) \cup {x})
  BY SeqMonotonic DEF IsRow
<1>2. Append(s, x) \in Seq(Range(s) \cup {x})
  BY <1>1
<1>3. IsRow(Append(s, x))
  BY <1>2, SeqIsRow
<1> QED
  BY <1>1, <1>3

LEMMA RemoveIs ==
  ASSUME NEW s, IsRow(s), NEW k \in 1 .. Len(s)
  PROVE  /\ IsRow(RemoveAt(s, k))
         /\ Len(RemoveAt(s, k)) = Len(s) - 1
         /\ \A i \in 1 .. Len(s) - 1 : /\ i < k => RemoveAt(s, k)[i] = s[i]
                                       /\ i >= k => RemoveAt(s, k)[i] = s[i + 1]
<1> DEFINE a == SubSeq(s, 1, k - 1)
           b == SubSeq(s, k + 1, Len(s))
<1>1. Len(s) \in Nat /\ k \in 1 .. Len(s) + 1 /\ k + 1 \in 1 .. Len(s) + 1
  BY RowIs
<1>2. /\ a \in Seq(Range(s)) /\ Len(a) = k - 1 /\ \A j \in 1 .. k - 1 : a[j] = s[j]
      /\ b \in Seq(Range(s)) /\ Len(b) = Len(s) - (k + 1) + 1
      /\ \A j \in 1 .. Len(s) - (k + 1) + 1 : b[j] = s[(k + 1) + j - 1]
  BY <1>1, CutIs
<1>3. RemoveAt(s, k) = a \o b
  BY DEF RemoveAt
<1> HIDE DEF a, b
<1>4. /\ a \o b \in Seq(Range(s)) /\ Len(a \o b) = Len(s) - 1
      /\ \A i \in 1 .. Len(s) - 1 : /\ i < k => (a \o b)[i] = a[i]
                                    /\ i >= k => (a \o b)[i] = b[i - (k - 1)]
  <2>1. /\ a \o b \in Seq(Range(s)) /\ Len(a \o b) = Len(a) + Len(b)
        /\ \A i \in 1 .. Len(a) + Len(b) :
             (a \o b)[i] = IF i <= Len(a) THEN a[i] ELSE b[i - Len(a)]
    BY <1>2, ConcatProperties
  <2>2. Len(a) + Len(b) = Len(s) - 1
    BY <1>1, <1>2
  <2> QED
    BY <1>1, <1>2, <2>1, <2>2
<1>5. \A i \in 1 .. Len(s) - 1 : i >= k => b[i - (k - 1)] = s[i + 1]
  BY <1>1, <1>2
<1>6. \A i \in 1 .. Len(s) - 1 : i < k => a[i] = s[i]
  BY <1>1, <1>2
<1> QED
  BY <1>3, <1>4, <1>5, <1>6, SeqIsRow

LEMMA InsertIs ==
  ASSUME NEW s, IsRow(s), NEW k \in 1 .. Len(s) + 1, NEW x
  PROVE  /\ IsRow(InsertAt(s, k, x))
         /\ \A i \in DOMAIN InsertAt(s, k, x) :
              \/ InsertAt(s, k, x)[i] = x
              \/ \E j \in DOMAIN s : InsertAt(s, k, x)[i] = s[j]
<1> DEFINE R == Range(s) \cup {x}
           a == SubSeq(s, 1, k - 1)
           b == SubSeq(s, k, Len(s))
<1>1. a \in Seq(Range(s)) /\ b \in Seq(Range(s))
  BY CutIs
<1>2. a \in Seq(R) /\ b \in Seq(R) /\ <<x>> \in Seq(R)
  BY <1>1, SeqMonotonic
<1>3. InsertAt(s, k, x) \in Seq(R)
  <2> HIDE DEF a, b, R
  <2>1. (a \o <<x>>) \o b \in Seq(R)
    BY <1>2
  <2> QED
    BY <2>1 DEF InsertAt, a, b
<1>4. \A i \in DOMAIN InsertAt(s, k, x) : InsertAt(s, k, x)[i] \in R
  BY <1>3, LenProperties, ElementOfSeq
<1> QED
  BY <1>3, <1>4, SeqIsRow DEF Range

LEMMA TailIs ==
  ASSUME NEW s, IsRow(s), s # <<>>
  PROVE  /\ IsRow(Tail(s)) /\ Head(s) = s[1] /\ 1 \in DOMAIN s
         /\ \A i \in DOMAIN Tail(s) : i + 1 \in DOMAIN s /\ Tail(s)[i] = s[i + 1]
<1>1. /\ Tail(s) \in Seq(Range(s)) /\ Len(Tail(s)) = Len(s) - 1
      /\ \A i \in 1 .. Len(Tail(s)) : Tail(s)[i] = s[i + 1]
  BY HeadTailProperties DEF IsRow
<1>2. Len(s) \in Nat \ {0} /\ DOMAIN s = 1 .. Len(s)
  BY EmptySeq, RowIs DEF IsRow
<1>3. Head(s) = s[1]
  BY DEF IsRow
<1>4. DOMAIN Tail(s) = 1 .. Len(s) - 1
  BY <1>1, LenProperties
<1>5. IsRow(Tail(s))
  BY <1>1, SeqIsRow
<1> QED
  BY <1>1, <1>2, <1>3, <1>4, <1>5

-------------------------------------------------------------------------------
(***************************************************************************)
(* The sums of the books, each a fold over rows, are sums of their         *)
(* amounts.                                                                *)
(***************************************************************************)
Nets(rows) == [i \in DOMAIN rows |-> rows[i].net]
Amounts(rows) == [i \in DOMAIN rows |-> rows[i].amount]
Costs(rows) == [i \in DOMAIN rows |-> rows[i].cost]

\* A fold over a row is the sum of its amounts.
LEMMA RowSum ==
  ASSUME NEW s, IsRow(s), NEW v \in [DOMAIN s -> Int]
  PROVE  /\ FoldFunctionOnSet(LAMBDA x, y : x + y, 0, v, DOMAIN s) = SeqSum(v)
         /\ SeqSum(v) = Balance(DOMAIN s, v)
<1> DEFINE n == Len(s)
<1>1. n \in Nat /\ DOMAIN s = 1 .. n /\ IsFiniteSet(1 .. n)
  BY RowIs, FS_Interval
<1>2. v \in [1 .. n -> Int]
  BY <1>1
<1> HIDE DEF n
<1>3. FoldFunctionOnSet(LAMBDA x, y : x + y, 0, v, 1 .. n) = Balance(1 .. n, v)
  BY <1>1, <1>2, SetFoldIsBalance
<1>4. SeqSum(v) = Balance(1 .. n, v)
  BY <1>1, <1>2, SeqSumIs
<1> QED
  BY <1>1, <1>3, <1>4

LEMMA NetIsSum ==
  ASSUME NEW s, IsRow(s), \A i \in DOMAIN s : s[i].net \in Int
  PROVE  TotalNet(s) = SeqSum(Nets(s))
<1>1. TotalNet(s) = FoldFunctionOnSet(LAMBDA x, y : x + y, 0, Nets(s), DOMAIN s)
  BY DEF TotalNet, SumOver, FoldFunction, Nets
<1>2. Nets(s) \in [DOMAIN s -> Int]
  BY DEF Nets
<1> QED
  BY <1>1, <1>2, RowSum

LEMMA AmountIsSum ==
  ASSUME NEW s, IsRow(s), \A i \in DOMAIN s : s[i].amount \in Int
  PROVE  TotalContributions(s) = SeqSum(Amounts(s))
<1>1. TotalContributions(s) = FoldFunctionOnSet(LAMBDA x, y : x + y, 0, Amounts(s), DOMAIN s)
  BY DEF TotalContributions, SumOver, FoldFunction, Amounts
<1>2. Amounts(s) \in [DOMAIN s -> Int]
  BY DEF Amounts
<1> QED
  BY <1>1, <1>2, RowSum

LEMMA CostIsSum ==
  ASSUME NEW s, IsRow(s), \A i \in DOMAIN s : s[i].cost \in Int
  PROVE  SumOver(s, LAMBDA p : p.cost) = SeqSum(Costs(s))
<1>1. SumOver(s, LAMBDA p : p.cost) = FoldFunctionOnSet(LAMBDA x, y : x + y, 0, Costs(s), DOMAIN s)
  BY DEF SumOver, FoldFunction, Costs
<1>2. Costs(s) \in [DOMAIN s -> Int]
  BY DEF Costs
<1> QED
  BY <1>1, <1>2, RowSum

\* A row that is appended adds its amount.
LEMMA NetGrows ==
  ASSUME NEW s, IsRow(s), \A i \in DOMAIN s : s[i].net \in Int, NEW x, x.net \in Int
  PROVE  /\ SeqSum(Nets(s)) \in Int
         /\ SeqSum(Nets(Append(s, x))) = SeqSum(Nets(s)) + x.net
<1> DEFINE n == Len(s)
           v == Nets(s)
           w == Nets(Append(s, x))
<1>1. n \in Nat /\ DOMAIN s = 1 .. n /\ DOMAIN Append(s, x) = 1 .. n + 1
  BY RowIs, AppendIs
<1>2. v \in [1 .. n -> Int]
  BY <1>1 DEF Nets
<1>3. \A i \in 1 .. n : w[i] = v[i]
  BY <1>1, AppendIs DEF Nets
<1>4. w[n + 1] = x.net
  BY <1>1, AppendIs DEF Nets
<1>5. w \in [1 .. n + 1 -> Int]
  <2>1. w = [i \in 1 .. n + 1 |-> w[i]]
    BY <1>1 DEF Nets
  <2>2. \A i \in 1 .. n + 1 : w[i] \in Int
    BY <1>1, <1>2, <1>3, <1>4
  <2> HIDE DEF w
  <2> QED
    BY <2>1, <2>2
<1> HIDE DEF n, v, w
<1>6. SeqSum(v) \in Int /\ SeqSum(w) = SeqSum(v) + w[n + 1]
  BY <1>1, <1>2, <1>3, <1>5, AppendSum
<1> QED
  BY <1>4, <1>6 DEF v, w

LEMMA AmountGrows ==
  ASSUME NEW s, IsRow(s), \A i \in DOMAIN s : s[i].amount \in Int, NEW x, x.amount \in Int
  PROVE  /\ SeqSum(Amounts(s)) \in Int
         /\ SeqSum(Amounts(Append(s, x))) = SeqSum(Amounts(s)) + x.amount
<1> DEFINE n == Len(s)
           v == Amounts(s)
           w == Amounts(Append(s, x))
<1>1. n \in Nat /\ DOMAIN s = 1 .. n /\ DOMAIN Append(s, x) = 1 .. n + 1
  BY RowIs, AppendIs
<1>2. v \in [1 .. n -> Int]
  BY <1>1 DEF Amounts
<1>3. \A i \in 1 .. n : w[i] = v[i]
  BY <1>1, AppendIs DEF Amounts
<1>4. w[n + 1] = x.amount
  BY <1>1, AppendIs DEF Amounts
<1>5. w \in [1 .. n + 1 -> Int]
  <2>1. w = [i \in 1 .. n + 1 |-> w[i]]
    BY <1>1 DEF Amounts
  <2>2. \A i \in 1 .. n + 1 : w[i] \in Int
    BY <1>1, <1>2, <1>3, <1>4
  <2> HIDE DEF w
  <2> QED
    BY <2>1, <2>2
<1> HIDE DEF n, v, w
<1>6. SeqSum(v) \in Int /\ SeqSum(w) = SeqSum(v) + w[n + 1]
  BY <1>1, <1>2, <1>3, <1>5, AppendSum
<1> QED
  BY <1>4, <1>6 DEF v, w

LEMMA CostGrows ==
  ASSUME NEW s, IsRow(s), \A i \in DOMAIN s : s[i].cost \in Int, NEW x, x.cost \in Int
  PROVE  /\ SeqSum(Costs(s)) \in Int
         /\ SeqSum(Costs(Append(s, x))) = SeqSum(Costs(s)) + x.cost
<1> DEFINE n == Len(s)
           v == Costs(s)
           w == Costs(Append(s, x))
<1>1. n \in Nat /\ DOMAIN s = 1 .. n /\ DOMAIN Append(s, x) = 1 .. n + 1
  BY RowIs, AppendIs
<1>2. v \in [1 .. n -> Int]
  BY <1>1 DEF Costs
<1>3. \A i \in 1 .. n : w[i] = v[i]
  BY <1>1, AppendIs DEF Costs
<1>4. w[n + 1] = x.cost
  BY <1>1, AppendIs DEF Costs
<1>5. w \in [1 .. n + 1 -> Int]
  <2>1. w = [i \in 1 .. n + 1 |-> w[i]]
    BY <1>1 DEF Costs
  <2>2. \A i \in 1 .. n + 1 : w[i] \in Int
    BY <1>1, <1>2, <1>3, <1>4
  <2> HIDE DEF w
  <2> QED
    BY <2>1, <2>2
<1> HIDE DEF n, v, w
<1>6. SeqSum(v) \in Int /\ SeqSum(w) = SeqSum(v) + w[n + 1]
  BY <1>1, <1>2, <1>3, <1>5, AppendSum
<1> QED
  BY <1>4, <1>6 DEF v, w

\* And one that is taken out takes it away.
LEMMA CostFalls ==
  ASSUME NEW s, IsRow(s), \A i \in DOMAIN s : s[i].cost \in Int, NEW k \in DOMAIN s
  PROVE  SeqSum(Costs(RemoveAt(s, k))) = SeqSum(Costs(s)) - s[k].cost
<1> DEFINE n == Len(s) - 1
           v == Costs(s)
           w == Costs(RemoveAt(s, k))
<1>1. /\ n \in Nat /\ k \in 1 .. n + 1 /\ k \in 1 .. Len(s)
      /\ DOMAIN s = 1 .. n + 1
  BY RowIs
<1>2. /\ DOMAIN RemoveAt(s, k) = 1 .. n
      /\ \A i \in 1 .. n : /\ i < k => RemoveAt(s, k)[i] = s[i]
                           /\ i >= k => RemoveAt(s, k)[i] = s[i + 1]
  BY <1>1, RemoveIs, RowIs
<1>3. v \in [1 .. n + 1 -> Int]
  BY <1>1 DEF Costs
<1>4. \A i \in 1 .. n : w[i] = IF i < k THEN v[i] ELSE v[i + 1]
  BY <1>1, <1>2 DEF Costs
<1>5. w \in [1 .. n -> Int]
  <2>1. w = [i \in 1 .. n |-> w[i]]
    BY <1>2 DEF Costs
  <2> HIDE DEF v, w
  <2>2. ASSUME NEW i \in 1 .. n PROVE w[i] \in Int
    <3>1. i \in 1 .. n + 1 /\ i + 1 \in 1 .. n + 1
      BY <1>1
    <3>2. v[i] \in Int /\ v[i + 1] \in Int
      BY <1>3, <3>1
    <3> QED
      BY <1>4, <3>2
  <2> QED
    BY <2>1, <2>2
<1>6. v[k] = s[k].cost
  BY DEF Costs
<1> HIDE DEF n, v, w
<1>7. SeqSum(w) = SeqSum(v) - v[k]
  BY <1>1, <1>3, <1>4, <1>5, RemoveSum
<1> QED
  BY <1>6, <1>7 DEF v, w

LEMMA NoRows ==
  /\ IsRow(<<>>) /\ DOMAIN <<>> = {}
  /\ SeqSum(Nets(<<>>)) = 0 /\ SeqSum(Amounts(<<>>)) = 0 /\ SeqSum(Costs(<<>>)) = 0
<1>1. IsRow(<<>>)
  BY EmptySeq DEF IsRow
<1>2. DOMAIN <<>> = {}
  BY <1>1, EmptySeq, RowIs
<1>3. ASSUME NEW v, v = [i \in {} |-> 0] PROVE SeqSum(v) = 0
  BY <1>3, EmptySum
<1>4. /\ Nets(<<>>) = [i \in {} |-> 0] /\ Amounts(<<>>) = [i \in {} |-> 0]
      /\ Costs(<<>>) = [i \in {} |-> 0]
  BY <1>2 DEF Nets, Amounts, Costs
<1> QED
  BY <1>1, <1>2, <1>3, <1>4

-------------------------------------------------------------------------------
(***************************************************************************)
(* The cent arithmetic: what is rounded is within a half.                  *)
(***************************************************************************)
LEMMA DivisionIs ==
  ASSUME NEW n \in Int, NEW d \in Nat \ {0}
  PROVE  n \div d \in Int /\ (n \div d) * d <= n /\ n < (n \div d) * d + d
OBVIOUS

LEMMA RoundDivIs ==
  ASSUME NEW n \in Int, NEW d \in Nat \ {0}
  PROVE  /\ RoundDiv(n, d) \in Int
         /\ 2 * (RoundDiv(n, d) * d - n) <= d /\ -d <= 2 * (RoundDiv(n, d) * d - n)
<1> DEFINE m == IF n < 0 THEN -n ELSE n
           h == d \div 2
           q == (m + h) \div d
<1>1. m \in Int /\ h \in Int /\ 2 * h <= d /\ d <= 2 * h + 1
  OBVIOUS
<1>2. q \in Int /\ q * d <= m + h /\ m + h < q * d + d
  <2>1. m + h \in Int
    BY <1>1
  <2> HIDE DEF m, h
  <2> QED
    BY <2>1, DivisionIs
<1>3. RoundDiv(n, d) = IF n < 0 THEN -q ELSE q
  BY DEF RoundDiv
<1>4. (-q) * d = -(q * d)
  <2> HIDE DEF q
  <2> QED
    BY <1>2
<1>5. m = IF n < 0 THEN -n ELSE n
  OBVIOUS
<1> DEFINE qd == q * d
<1>6. qd \in Int /\ qd = q * d
  <2> HIDE DEF q
  <2> QED
    BY <1>2
<1> HIDE DEF m, h, q, qd
<1>7. 2 * (qd - m) <= d /\ -d <= 2 * (qd - m)
  BY <1>1, <1>2, <1>6
<1>8. RoundDiv(n, d) * d = IF n < 0 THEN -qd ELSE qd
  BY <1>3, <1>4, <1>6
<1> QED
  BY <1>1, <1>2, <1>3, <1>5, <1>6, <1>7, <1>8

-------------------------------------------------------------------------------
(***************************************************************************)
(* An appraisal: filtered, transformed and weighed, comps with whole       *)
(* prices give quantiles that are whole.                                   *)
(***************************************************************************)
LEMMA QuantileIsInt ==
  ASSUME NEW points, IsFiniteSet(DOMAIN points), \A i \in DOMAIN points : points[i].price \in Int,
         NEW pct
  PROVE  WeightedQuantile(points, pct) \in Int
<1> DEFINE prices == {points[i].price : i \in DOMAIN points}
           total == SumOver(points, LAMBDA q : DecayWeight(q.age))
           upTo(v) == SumOver(RestrictValues(points, LAMBDA q : q.price <= v),
                              LAMBDA q : DecayWeight(q.age))
           low == {v \in prices : 100 * upTo(v) >= pct * total}
<1>1. IsFiniteSet(prices) /\ IntSet(prices)
  <2> DEFINE price == [i \in DOMAIN points |-> points[i].price]
  <2>2. IntSet(prices)
    BY DEF IntSet
  <2>3. price \in Surjection(DOMAIN points, prices)
    BY DEF Surjection
  <2> HIDE DEF price, prices
  <2>4. IsFiniteSet(prices)
    BY <2>3, FS_Surjection
  <2> QED
    BY <2>2, <2>4
<1>2. WeightedQuantile(points, pct) = IF prices = {} THEN 0 ELSE Min(low \cup {Max(prices)})
  BY DEF WeightedQuantile
<1>3. low \subseteq prices
  OBVIOUS
<1> HIDE DEF prices, low
<1>4. ASSUME prices # {} PROVE Min(low \cup {Max(prices)}) \in Int
  <2>1. Max(prices) \in prices
    BY <1>1, <1>4, Extremes
  <2>2. low \cup {Max(prices)} \subseteq prices
    BY <1>3, <2>1
  <2>3. IsFiniteSet(low \cup {Max(prices)}) /\ IntSet(low \cup {Max(prices)})
    BY <1>1, <2>2, FS_Subset DEF IntSet
  <2>4. Min(low \cup {Max(prices)}) \in low \cup {Max(prices)}
    BY <2>3, Extremes
  <2> QED
    BY <1>1, <2>2, <2>4 DEF IntSet
<1> QED
  BY <1>2, <1>4

PricedPoints(points) ==
  /\ IsFiniteSet(DOMAIN points)
  /\ \A i \in DOMAIN points : points[i].price \in Int /\ points[i].age \in Nat

LEMMA WeightIsNat ==
  ASSUME NEW age \in Nat
  PROVE  DecayWeight(age) \in Nat
<1> DEFINE q == age \div HalfLife
           last == 8
           k == Min({last, q})
<1>1. q \in Nat
  BY SimulationAssumption, DivisionIs
<1>2. last \in Int /\ q \in Int /\ last = 8
  BY <1>1
<1> HIDE DEF q, last
<1>3. k \in Int /\ (k = last \/ k = q) /\ k <= last
  BY <1>2, PairExtremes
<1>4. 1 + k \in 1 .. 9
  BY <1>1, <1>2, <1>3
<1>5. \A i \in 1 .. 9 : Halvings[i] \in Nat
  BY DEF Halvings
<1> QED
  BY <1>2, <1>4, <1>5 DEF DecayWeight, q, last, k

\* What is below a price weighs a whole number, and all of it no less than nothing.
LEMMA WeighingIs ==
  ASSUME NEW points, PricedPoints(points), NEW S \in SUBSET DOMAIN points
  PROVE  SumOver([i \in S |-> points[i]], LAMBDA q : DecayWeight(q.age)) \in Nat
<1> DEFINE w == [i \in S |-> DecayWeight(points[i].age)]
<1>1. SumOver([i \in S |-> points[i]], LAMBDA q : DecayWeight(q.age))
        = FoldFunctionOnSet(LAMBDA x, y : x + y, 0, w, S)
  BY DEF SumOver, FoldFunction
<1>2. IsFiniteSet(S)
  BY FS_Subset DEF PricedPoints
<1>3. w \in [S -> Nat]
  BY WeightIsNat DEF PricedPoints
<1> HIDE DEF w
<1>4. w \in [S -> Int]
  BY <1>3
<1>5. FoldFunctionOnSet(LAMBDA x, y : x + y, 0, w, S) = Balance(S, w)
  BY <1>2, <1>4, SetFoldIsBalance
<1>6. Balance(S, w) = Sum(S, w) /\ Sum(S, w) \in Nat
  BY <1>2, <1>3, BalanceOfNaturals, SumIsNat
<1> QED
  BY <1>1, <1>5, <1>6

\* With more of the weight at or below it a quantile is no lower.
LEMMA QuantilesAscend ==
  ASSUME NEW points, PricedPoints(points)
  PROVE  WeightedQuantile(points, 10) <= WeightedQuantile(points, 90)
<1> DEFINE prices == {points[i].price : i \in DOMAIN points}
           total == SumOver(points, LAMBDA q : DecayWeight(q.age))
           upTo(v) == SumOver(RestrictValues(points, LAMBDA q : q.price <= v),
                              LAMBDA q : DecayWeight(q.age))
           low(pct) == {v \in prices : 100 * upTo(v) >= pct * total} \cup {Max(prices)}
<1>1. IsFiniteSet(prices) /\ IntSet(prices)
  <2> DEFINE price == [i \in DOMAIN points |-> points[i].price]
  <2>2. IntSet(prices)
    BY DEF IntSet, PricedPoints
  <2>3. price \in Surjection(DOMAIN points, prices)
    BY DEF Surjection
  <2> HIDE DEF price, prices
  <2>4. IsFiniteSet(prices)
    BY <2>3, FS_Surjection DEF PricedPoints
  <2> QED
    BY <2>2, <2>4
<1>2. \A pct : WeightedQuantile(points, pct) = IF prices = {} THEN 0 ELSE Min(low(pct))
  BY DEF WeightedQuantile
<1>3. total \in Nat
  <2> DEFINE D == DOMAIN points
             same == [i \in D |-> points[i]]
  <2>1. total = SumOver(same, LAMBDA q : DecayWeight(q.age))
    BY DEF SumOver, FoldFunction
  <2>2. D \in SUBSET DOMAIN points
    OBVIOUS
  <2> HIDE DEF total
  <2> QED
    BY <2>1, <2>2, WeighingIs
<1>4. ASSUME NEW v PROVE upTo(v) \in Nat
  <2> DEFINE S == {i \in DOMAIN points : points[i].price <= v}
  <2>1. RestrictValues(points, LAMBDA q : q.price <= v) = [i \in S |-> points[i]]
    BY DEF RestrictValues, Restrict
  <2>2. S \in SUBSET DOMAIN points
    OBVIOUS
  <2> HIDE DEF S
  <2>3. upTo(v) = SumOver([i \in S |-> points[i]], LAMBDA q : DecayWeight(q.age))
    BY <2>1
  <2> HIDE DEF upTo
  <2> QED
    BY <2>2, <2>3, WeighingIs
<1> HIDE DEF prices, total, upTo
<1>5. \A v \in prices : 100 * upTo(v) >= 90 * total => 100 * upTo(v) >= 10 * total
  BY <1>3, <1>4
<1>6. low(90) \subseteq low(10)
  BY <1>5
<1>7. CASE prices # {}
  <2>1. Max(prices) \in prices
    BY <1>1, <1>7, Extremes
  <2>2. \A pct : low(pct) \subseteq prices /\ low(pct) # {}
    BY <2>1
  <2> HIDE DEF low
  <2>3. \A pct : IsFiniteSet(low(pct)) /\ IntSet(low(pct))
    BY <1>1, <2>2, FS_Subset DEF IntSet
  <2>4. Min(low(90)) \in low(90) /\ \A x \in low(10) : Min(low(10)) <= x
    BY <2>2, <2>3, Extremes
  <2> QED
    BY <1>2, <1>6, <1>7, <2>4
<1>8. CASE prices = {}
  BY <1>2, <1>8
<1> QED
  BY <1>7, <1>8

LEMMA FilterKeeps ==
  ASSUME NEW points, PricedPoints(points)
  PROVE  PricedPoints(MadFilter(points))
<1>1. ASSUME NEW m2, NEW mad4
      PROVE  PricedPoints(Near(points, m2, mad4))
  <2> DEFINE S == {i \in DOMAIN points : 10000 * Dev2(points[i], m2) <= 22239 * mad4}
             kept == [i \in S |-> points[i]]
  <2>1. Near(points, m2, mad4) = IF mad4 = 0 THEN points ELSE kept
    BY DEF Near, RestrictValues, Restrict
  <2>2. S \subseteq DOMAIN points
    OBVIOUS
  <2> HIDE DEF S
  <2>3. PricedPoints(kept)
    BY <2>2, FS_Subset DEF PricedPoints
  <2> QED
    BY <2>1, <2>3
<1>2. ASSUME NEW m2 PROVE PricedPoints(Around(points, m2))
  BY <1>1 DEF Around
<1> QED
  BY <1>2 DEF MadFilter

LEMMA TransformIsPriced ==
  ASSUME NEW comps, IsFiniteSet(DOMAIN comps), NEW asOf \in Int, NEW window,
         \A i \in DOMAIN comps : /\ comps[i].price \in Nat /\ comps[i].sold \in Int
                                 /\ comps[i].band \in Range(Band)
  PROVE  PricedPoints(TransformedAt(comps, "good", asOf, window))
<1> DEFINE A == {i \in DOMAIN comps : Abs(BandIndex(comps[i].band) - BandIndex("good")) <= 1}
           near == [i \in A |-> comps[i]]
           R == {i \in A : asOf - near[i].sold <= window}
           recent == [i \in R |-> near[i]]
<1>1. Admissible(comps, "good") = near
  BY DEF Admissible, RestrictValues, Restrict
<1>2. RestrictValues(near, LAMBDA c : asOf - c.sold <= window) = recent
  BY DEF RestrictValues, Restrict
<1>3. R \subseteq A /\ A \subseteq DOMAIN comps
  OBVIOUS
<1>4. \A i \in R : recent[i] = comps[i]
  OBVIOUS
<1> HIDE DEF A, R, near
<1> DEFINE price(i) == RoundDiv(recent[i].price * Multiplier["good"], Multiplier[recent[i].band])
<1>5. ASSUME NEW i \in R PROVE price(i) \in Int
  <2>1. recent[i].price \in Nat /\ recent[i].band \in {"new", "like_new", "good", "fair", "parts"}
    <3>1. Range(Band) \subseteq {"new", "like_new", "good", "fair", "parts"}
      BY DEF Range, Band
    <3> QED
      BY <1>3, <1>4, <3>1
  <2>2. Multiplier["good"] \in Int /\ Multiplier[recent[i].band] \in Nat \ {0}
    BY <2>1 DEF Multiplier
  <2> HIDE DEF recent
  <2>3. recent[i].price * Multiplier["good"] \in Int
    BY <2>1, <2>2
  <2> QED
    BY <2>2, <2>3, RoundDivIs
<1> DEFINE age(i) == Max({0, asOf - recent[i].sold})
<1>9. ASSUME NEW i \in R PROVE age(i) \in Nat
  <2> DEFINE none == 0
             days == asOf - comps[i].sold
  <2>1. i \in DOMAIN comps /\ recent[i].sold = comps[i].sold
    BY <1>3, <1>4
  <2>2. none \in Int /\ days \in Int /\ none = 0 /\ age(i) = Max({none, days})
    <3> HIDE DEF recent
    <3> QED
      BY <2>1
  <2> HIDE DEF none, days, age
  <2>3. Max({none, days}) \in Int /\ Max({none, days}) >= none
    BY <2>2, PairExtremes
  <2> QED
    BY <2>2, <2>3
<1> HIDE DEF price, age
<1> DEFINE points == [i \in R |-> [seller |-> recent[i].seller, provider |-> recent[i].provider,
                                   price |-> price(i), age |-> age(i)]]
<1>6. TransformedAt(comps, "good", asOf, window) = points
  BY <1>1, <1>2 DEF TransformedAt, price, age
<1>7. IsFiniteSet(R)
  BY <1>3, FS_Subset
<1>8. DOMAIN points = R /\ \A i \in R : points[i].price = price(i) /\ points[i].age = age(i)
  OBVIOUS
<1> HIDE DEF points
<1> QED
  BY <1>5, <1>6, <1>7, <1>8, <1>9 DEF PricedPoints

LEMMA AppraisalIs ==
  ASSUME NEW comps, IsFiniteSet(DOMAIN comps), NEW asOf \in Int, ActiveCount \in Nat,
         \A i \in DOMAIN comps : /\ comps[i].price \in Nat /\ comps[i].sold \in Int
                                 /\ comps[i].band \in Range(Band)
  PROVE  LET v == Appraise(comps, "good", asOf)
         IN /\ v.p50 \in Int /\ v.tts \in Int
            /\ v.p10 \in Int /\ v.p90 \in Int /\ v.p10 <= v.p90
<1> DEFINE kept == Kept(comps, "good", asOf)
           sold == Sold90(comps, "good", asOf)
<1>1. PricedPoints(kept)
  BY TransformIsPriced, FilterKeeps DEF Kept
<1>2. sold \in Nat
  <2> DEFINE A == {i \in DOMAIN comps : Abs(BandIndex(comps[i].band) - BandIndex("good")) <= 1}
             near == [i \in A |-> comps[i]]
             R == {i \in A : asOf - near[i].sold <= 90}
             recent == [i \in R |-> near[i]]
  <2>1. Admissible(comps, "good") = near
    BY DEF Admissible, RestrictValues, Restrict
  <2>2. RestrictValues(near, LAMBDA c : asOf - c.sold <= 90) = recent
    BY DEF RestrictValues, Restrict
  <2>3. R \subseteq DOMAIN comps /\ DOMAIN recent = R
    OBVIOUS
  <2>4. sold = Cardinality(DOMAIN recent)
    BY <2>1, <2>2 DEF Sold90, Size
  <2> HIDE DEF R, recent
  <2> QED
    BY <2>3, <2>4, FS_Subset, FS_CardinalityType
<1>3. /\ Appraise(comps, "good", asOf).p10 = WeightedQuantile(kept, 10)
      /\ Appraise(comps, "good", asOf).p50 = WeightedQuantile(kept, 50)
      /\ Appraise(comps, "good", asOf).p90 = WeightedQuantile(kept, 90)
      /\ Appraise(comps, "good", asOf).tts = TimeToSale(sold)
  BY DEF Appraise, Estimated, Estimate
<1> HIDE DEF kept, sold
<1>4. /\ WeightedQuantile(kept, 10) \in Int /\ WeightedQuantile(kept, 50) \in Int
      /\ WeightedQuantile(kept, 90) \in Int
      /\ WeightedQuantile(kept, 10) <= WeightedQuantile(kept, 90)
  BY <1>1, QuantileIsInt, QuantilesAscend DEF PricedPoints
<1>5. TimeToSale(sold) \in Int
  <2>1. CASE sold = 0
    BY <2>1 DEF TimeToSale, NoEstimate
  <2>2. CASE sold # 0
    <3>1. RoundDiv(90 * (ActiveCount + 1), sold) \in Int
      BY <1>2, <2>2, RoundDivIs
    <3> DEFINE year == 365
               days == RoundDiv(90 * (ActiveCount + 1), sold)
    <3>2. days \in Int /\ year \in Int /\ TimeToSale(sold) = Min({year, days})
      BY <2>2, <3>1 DEF TimeToSale
    <3> HIDE DEF year, days
    <3> QED
      BY <3>2, PairExtremes
  <2> QED
    BY <2>1, <2>2
<1> QED
  BY <1>3, <1>4, <1>5

-------------------------------------------------------------------------------
(***************************************************************************)
(* The underwriter.  At the break-even the four roundings are all that is  *)
(* left: half a cent each for the three shares, and half of the slope,     *)
(* which is less than one.                                                 *)
(***************************************************************************)
Rounded(x, bp) ==
  /\ MulBp(x, bp) \in Int /\ x * bp \in Int
  /\ 10000 * MulBp(x, bp) - x * bp <= 5000 /\ -5000 <= 10000 * MulBp(x, bp) - x * bp
  /\ bp = 0 => MulBp(x, bp) = 0

LEMMA ShareIs == ASSUME NEW x \in Int, NEW bp \in Nat PROVE Rounded(x, bp)
<1> DEFINE n == x * bp
           d == 10000
<1>1. n \in Int /\ d \in Nat \ {0} /\ d = 10000
  OBVIOUS
<1>2. MulBp(x, bp) = RoundDiv(n, d)
  BY DEF MulBp
<1>3. bp = 0 => n = 0
  OBVIOUS
<1> HIDE DEF n
<1>4. /\ RoundDiv(n, d) \in Int
      /\ 2 * (RoundDiv(n, d) * d - n) <= d /\ -d <= 2 * (RoundDiv(n, d) * d - n)
  <2> HIDE DEF d
  <2> QED
    BY <1>1, RoundDivIs
<1>5. n = 0 => RoundDiv(n, d) = 0
  BY DEF RoundDiv
<1>6. /\ 10000 * RoundDiv(n, d) - n <= 5000 /\ -5000 <= 10000 * RoundDiv(n, d) - n
  <2> DEFINE q == RoundDiv(n, d)
  <2>1. q \in Int /\ 2 * (q * 10000 - n) <= 10000 /\ -10000 <= 2 * (q * 10000 - n)
    BY <1>4
  <2> HIDE DEF q, d
  <2>2. 10000 * q - n <= 5000 /\ -5000 <= 10000 * q - n
    BY <1>1, <2>1
  <2> QED
    BY <2>2 DEF q
<1> QED
  BY <1>1, <1>2, <1>3, <1>4, <1>5, <1>6 DEF n, Rounded

\* The costs of a sale that do not depend on its price.
Fixed(p, ask, days) == p.fixed + p.payFixed + FixedSellCosts(p) + BelowLine(p, ask, days) + Labor(p)

LEMMA CostsAreInts ==
  ASSUME NEW p, Resells(p), NEW ask \in Nat, NEW days \in Int
  PROVE  /\ FixedSellCosts(p) \in Int /\ BelowLine(p, ask, days) \in Int /\ Labor(p) \in Int
         /\ ReturnsReserve(p) \in Int /\ CashAtRisk(p, ask) \in Int
         /\ CarryCost(CashAtRisk(p, ask), p.aprBp, days) \in Int
         /\ Fixed(p, ask, days) \in Int
<1>1. /\ p.pctBp \in Nat /\ p.fixed \in Nat /\ p.payBp \in Nat /\ p.payFixed \in Nat
      /\ p.promoBp \in Nat /\ p.ship \in Nat /\ p.packaging \in Nat /\ p.returnLoss \in Nat
      /\ p.returnBp \in Nat /\ p.travel \in Nat /\ p.aprBp \in Nat /\ p.minutes \in Nat
  BY DEF Resells
<1>2. ReturnsReserve(p) \in Int
  <2>1. p.returnLoss \in Int /\ p.returnBp \in Nat
    BY <1>1
  <2>2. Rounded(p.returnLoss, p.returnBp)
    BY <2>1, ShareIs
  <2> QED
    BY <2>2 DEF ReturnsReserve, Rounded
<1>3. FixedSellCosts(p) \in Int
  BY <1>1, <1>2 DEF FixedSellCosts
<1>4. CashAtRisk(p, ask) \in Int
  BY <1>1 DEF CashAtRisk
<1>5. CarryCost(CashAtRisk(p, ask), p.aprBp, days) \in Int
  <2> DEFINE n == CashAtRisk(p, ask) * p.aprBp * days
             d == 3650000
  <2>1. n \in Int /\ d \in Nat \ {0}
    BY <1>1, <1>4
  <2>2. CarryCost(CashAtRisk(p, ask), p.aprBp, days) = RoundDiv(n, d)
    BY DEF CarryCost
  <2> HIDE DEF n, d
  <2> QED
    BY <2>1, <2>2, RoundDivIs
<1>6. BelowLine(p, ask, days) \in Int
  BY <1>4, <1>5 DEF BelowLine
<1>7. Labor(p) \in Int
  <2> DEFINE n == 2500 * p.minutes
             d == 60
  <2>1. n \in Int /\ d \in Nat \ {0}
    BY <1>1
  <2>2. Labor(p) = RoundDiv(n, d)
    BY DEF Labor, LaborCost
  <2> HIDE DEF n, d
  <2> QED
    BY <2>1, <2>2, RoundDivIs
<1>8. Fixed(p, ask, days) \in Int
  BY <1>1, <1>3, <1>6, <1>7 DEF Fixed
<1> QED
  BY <1>2, <1>3, <1>4, <1>5, <1>6, <1>7, <1>8

\* The net of a sale at x, with the two parts of the payment fee as one.
LEMMA NetIs ==
  ASSUME NEW p, Resells(p), NEW ask \in Nat, NEW days \in Int, NEW x \in Int
  PROVE  /\ Net(p, ask, days, x) \in Int
         /\ Net(p, ask, days, x) = x - MulBp(x, p.pctBp) - MulBp(x, p.payBp) - MulBp(x, p.promoBp)
                                     - Fixed(p, ask, days)
<1>1. /\ p.pctBp \in Nat /\ p.fixed \in Nat /\ p.payBp \in Nat /\ p.payFixed \in Nat
      /\ p.promoBp \in Nat
  BY DEF Resells
<1> DEFINE a == MulBp(x, p.pctBp)
           b == MulBp(x, p.payBp)
           c == MulBp(x, p.promoBp)
           f == FixedSellCosts(p)
           g == BelowLine(p, ask, days)
           h == Labor(p)
<1>2. a \in Int /\ b \in Int /\ c \in Int /\ (p.payBp = 0 => b = 0)
  <2>1. Rounded(x, p.pctBp) /\ Rounded(x, p.payBp) /\ Rounded(x, p.promoBp)
    BY <1>1, ShareIs
  <2> QED
    BY <2>1 DEF Rounded
<1>3. f \in Int /\ g \in Int /\ h \in Int
  BY CostsAreInts
<1>4. PaymentFee(p, x) = b + p.payFixed
  <2>1. PaymentFee(p, x) = IF p.payBp = 0 THEN 0 ELSE b + p.payFixed
    BY DEF PaymentFee
  <2>2. p.payBp = 0 => p.payFixed = 0
    BY DEF Resells
  <2> HIDE DEF b
  <2> QED
    BY <1>1, <1>2, <2>1, <2>2
<1>5. Net(p, ask, days, x) = (x - (a + p.fixed) - (b + p.payFixed) - c - f) - g - h
  BY <1>4 DEF Net, NetProceeds, PlatformFee, Promo
<1>6. Fixed(p, ask, days) = p.fixed + p.payFixed + f + g + h
  BY DEF Fixed
<1> HIDE DEF a, b, c, f, g, h
<1>7. /\ Net(p, ask, days, x) \in Int
      /\ Net(p, ask, days, x) = x - a - b - c - Fixed(p, ask, days)
  BY <1>1, <1>2, <1>3, <1>5, <1>6
<1> QED
  BY <1>7 DEF a, b, c

LEMMA BreakEvenIsExact ==
  ASSUME NEW p, Resells(p), NEW ask \in Nat, NEW days \in Int
  PROVE  /\ Net(p, ask, days, BreakEven(p, ask, days)) \in Int
         /\ Abs(Net(p, ask, days, BreakEven(p, ask, days))) <= 2
<1>1. p.pctBp \in Nat /\ p.payBp \in Nat /\ p.promoBp \in Nat
  BY DEF Resells
<1> DEFINE k == Fixed(p, ask, days)
           d == 10000 - p.pctBp - p.payBp - p.promoBp
           n == k * 10000
           x == BreakEven(p, ask, days)
           a == MulBp(x, p.pctBp)
           b == MulBp(x, p.payBp)
           c == MulBp(x, p.promoBp)
           net == Net(p, ask, days, x)
<1>2. k \in Int /\ n \in Int
  BY CostsAreInts
<1>3. d \in Nat \ {0} /\ d <= 10000
  BY <1>1 DEF Resells
<1>4. x = RoundDiv(n, d)
  BY DEF BreakEven, Fixed
<1>5. x \in Int /\ 2 * (x * d - n) <= d /\ -d <= 2 * (x * d - n)
  <2> HIDE DEF x, d, n
  <2> QED
    BY <1>2, <1>3, <1>4, RoundDivIs
<1>6. net \in Int /\ net = x - a - b - c - k
  <2> HIDE DEF x
  <2> QED
    BY <1>5, NetIs
<1> DEFINE xa == x * p.pctBp
           xb == x * p.payBp
           xc == x * p.promoBp
           xd == x * d
<1>7. /\ a \in Int /\ xa \in Int /\ 10000 * a - xa <= 5000 /\ -5000 <= 10000 * a - xa
      /\ b \in Int /\ xb \in Int /\ 10000 * b - xb <= 5000 /\ -5000 <= 10000 * b - xb
      /\ c \in Int /\ xc \in Int /\ 10000 * c - xc <= 5000 /\ -5000 <= 10000 * c - xc
  <2> HIDE DEF x
  <2>1. Rounded(x, p.pctBp) /\ Rounded(x, p.payBp) /\ Rounded(x, p.promoBp)
    BY <1>1, <1>5, ShareIs
  <2> QED
    BY <2>1 DEF Rounded
<1>8. xd \in Int /\ xd = 10000 * x - xa - xb - xc
  <2> HIDE DEF x
  <2>1. ASSUME NEW i \in Nat, NEW j \in Nat, NEW l \in Nat
        PROVE  x * (10000 - i - j - l) = 10000 * x - x * i - x * j - x * l
    BY <1>5
  <2>2. x * d = 10000 * x - x * p.pctBp - x * p.payBp - x * p.promoBp
    BY <1>1, <2>1
  <2>3. x * d \in Int
    BY <1>3, <1>5
  <2> QED
    BY <2>2, <2>3
<1>9. 2 * (xd - n) <= d /\ -d <= 2 * (xd - n)
  BY <1>5
<1>10. n = k * 10000
  OBVIOUS
<1> HIDE DEF x, a, b, c, k, d, n, xa, xb, xc, xd, net
<1>11. net <= 2 /\ -2 <= net
  BY <1>2, <1>3, <1>5, <1>6, <1>7, <1>8, <1>9, <1>10
<1>12. Abs(net) <= 2
  BY <1>6, <1>11 DEF Abs
<1> QED
  BY <1>6, <1>12 DEF net, x

LEMMA PlainSum ==
  ASSUME NEW n \in Nat, NEW v \in [1 .. n -> Int]
  PROVE  SumOver(v, LAMBDA x : x) = SeqSum(v)
<1>1. SumOver(v, LAMBDA x : x) = FoldFunctionOnSet(LAMBDA x, y : x + y, 0, v, 1 .. n)
  BY DEF SumOver, FoldFunction
<1>2. IsFiniteSet(1 .. n)
  BY FS_Interval
<1>3. FoldFunctionOnSet(LAMBDA x, y : x + y, 0, v, 1 .. n) = Balance(1 .. n, v)
  BY <1>2, SetFoldIsBalance
<1> QED
  BY <1>1, <1>3, SeqSumIs

LEMMA WaterfallAddsUp ==
  ASSUME NEW p, Resells(p), NEW ask \in Nat, NEW days \in Int, NEW x \in Int
  PROVE  SumOver(Waterfall(p, ask, days, x), LAMBDA y : y) = Net(p, ask, days, x)
<1> DEFINE platform == PlatformFee(p, x)
           payment == PaymentFee(p, x)
           promo == Promo(p, x)
           reserve == ReturnsReserve(p)
           carry == CarryCost(CashAtRisk(p, ask), p.aprBp, days)
           labor == Labor(p)
           w == <<x, -platform, -payment, -promo, -p.ship, -p.packaging, -reserve, -ask, -p.travel,
                  -carry, -labor>>
<1>1. p.ship \in Int /\ p.packaging \in Int /\ p.travel \in Int
  BY DEF Resells
<1>2. platform \in Int /\ payment \in Int /\ promo \in Int
  <2>1. p.pctBp \in Nat /\ p.payBp \in Nat /\ p.promoBp \in Nat /\ p.fixed \in Nat
        /\ p.payFixed \in Nat
    BY DEF Resells
  <2>2. Rounded(x, p.pctBp) /\ Rounded(x, p.payBp) /\ Rounded(x, p.promoBp)
    BY <2>1, ShareIs
  <2> QED
    BY <2>1, <2>2 DEF Rounded, PlatformFee, PaymentFee, Promo
<1>3. reserve \in Int /\ carry \in Int /\ labor \in Int
  BY CostsAreInts
<1>4. Waterfall(p, ask, days, x) = w
  BY DEF Waterfall
<1>5. Net(p, ask, days, x) = x - platform - payment - promo - (p.ship + p.packaging + reserve)
                             - (ask + p.travel + carry) - labor
  BY DEF Net, NetProceeds, FixedSellCosts, BelowLine, CashAtRisk
<1> HIDE DEF platform, payment, promo, reserve, carry, labor
<1>6. w \in [1 .. 11 -> Int]
  BY <1>1, <1>2, <1>3
<1>7. /\ w[1] = x /\ w[2] = -platform /\ w[3] = -payment /\ w[4] = -promo /\ w[5] = -p.ship
      /\ w[6] = -p.packaging /\ w[7] = -reserve /\ w[8] = -ask /\ w[9] = -p.travel
      /\ w[10] = -carry /\ w[11] = -labor
  OBVIOUS
<1> HIDE DEF w
<1>8. w[1] + w[2] + w[3] + w[4] + w[5] + w[6] + w[7] + w[8] + w[9] + w[10] + w[11]
        = x - platform - payment - promo - (p.ship + p.packaging + reserve)
          - (ask + p.travel + carry) - labor
  BY <1>1, <1>2, <1>3, <1>7
<1>9. SumOver(w, LAMBDA y : y) = SeqSum(w)
  BY <1>6, PlainSum
<1> QED
  BY <1>4, <1>5, <1>6, <1>8, <1>9, ElevenSum

-------------------------------------------------------------------------------
(***************************************************************************)
(* The inductive invariant.  Nothing that is held was due before today,    *)
(* and what the loop has been past is due later; a position carries the    *)
(* basis that its sale takes off the inventory account.                    *)
(***************************************************************************)
Clock ==
  /\ market \in Market /\ day \in Nat /\ cursor \in Nat
  /\ phase \in {"contribute", "settle", "underwrite", "acquire", "done", "threw"}
  /\ phase \in {"contribute", "underwrite"} => cursor > 0
  /\ phase \in {"contribute", "settle", "underwrite", "acquire"} => day + 1 \in DOMAIN market

Ledger == /\ balance \in [Books!Account -> Int]
          /\ costBasis \in [1 .. MaxSku -> Nat \cup {NoBasis}]
          /\ skuSeq \in 0 .. MaxSku /\ capital \in Int

Banded(x) == x.hold \in Nat /\ x.p10 \in Int /\ x.p90 \in Int /\ x.p10 <= x.p90

Held(p) == /\ p.sku \in 1 .. skuSeq /\ p.cost \in Nat /\ costBasis[p.sku] = p.cost
           /\ p.realized \in Nat /\ p.sellDay \in Int /\ p.sellDay = p.buyDay + p.hold
           /\ p.p50 \in Nat \ {0} /\ Banded(p)

Flipped(f) == /\ f.net \in Int /\ f.sellDay = f.buyDay + f.hold
              /\ f.sale \in Nat /\ f.p50 \in Nat \ {0} /\ Banded(f)

\* What was underwritten for a purchase was appraised, at something and in a band.
Wanted(t) == /\ t.ask \in Nat /\ t.realized \in Nat /\ t.hold \in Nat \ {0}
             /\ t.p50 \in Nat \ {0} /\ Banded(t)

Rows == /\ IsRow(open) /\ \A i \in DOMAIN open : Held(open[i])
        /\ IsRow(takes) /\ \A i \in DOMAIN takes : Wanted(takes[i])
        /\ IsRow(flips) /\ \A i \in DOMAIN flips : Flipped(flips[i])
        /\ IsRow(contribs) /\ \A i \in DOMAIN contribs : contribs[i].amount \in Int

Due ==
  /\ phase \in {"contribute", "settle"} => \A i \in DOMAIN open : open[i].sellDay >= day
  /\ phase = "settle" => /\ cursor <= Len(open)
                         /\ \A i \in DOMAIN open : i > cursor => open[i].sellDay > day
  /\ phase \in {"underwrite", "acquire"} => \A i \in DOMAIN open : open[i].sellDay > day

Accounted == /\ cash + inventory = capital + SeqSum(Nets(flips))
             /\ capital = SeqSum(Amounts(contribs))
             /\ inventory = SeqSum(Costs(open))

SimInv == Clock /\ Ledger /\ Rows /\ Due /\ Accounted

-------------------------------------------------------------------------------
\* What the three calls of the bookkeeper do to cash and stock.
LEMMA Accounts ==
  /\ "cash" \in Books!Account /\ "inventory" \in Books!Account /\ "cogs" \in Books!Account
  /\ "revenue" \in Books!Account /\ "platform_fees" \in Books!Account
  /\ "ad_fees" \in Books!Account /\ "shipping_expense" \in Books!Account
  /\ "shipping_income" \in Books!Account /\ "mileage" \in Books!Account
  /\ "sales_tax_payable" \in Books!Account /\ "write_off" \in Books!Account
  /\ "capital" \in Books!Account
BY DEF Books!Account

LEMMA InjectionIs ==
  ASSUME Ledger, NEW x \in Int, Inject(x)
  PROVE  /\ balance' \in [Books!Account -> Int] /\ cash' = cash + x /\ inventory' = inventory
         /\ capital' = capital + x /\ contribs' = Append(contribs, [day |-> day, amount |-> x])
         /\ UNCHANGED costBasis
<1> DEFINE legs == Books!CapitalLegs(x)
<1>1. legs \in [Books!Account -> Int] /\ legs["cash"] = x /\ legs["inventory"] = 0
  BY Accounts DEF Books!CapitalLegs
<1>2. balance' = [a \in Books!Account |-> balance[a] + legs[a]]
  BY DEF Inject, Books!InjectCapital, Books!Post
<1> HIDE DEF legs
<1>3. balance' \in [Books!Account -> Int] /\ cash' = cash + x /\ inventory' = inventory
  <2>1. balance \in [Books!Account -> Int]
    BY DEF Ledger
  <2>2. balance' \in [Books!Account -> Int]
    BY <1>1, <1>2, <2>1
  <2>3. balance'["cash"] = balance["cash"] + x /\ balance'["inventory"] = balance["inventory"]
    BY <1>1, <1>2, <2>1, Accounts
  <2> QED
    BY <2>2, <2>3 DEF cash, inventory
<1> QED
  BY <1>3 DEF Inject, Books!InjectCapital

LEMMA PurchaseIs ==
  ASSUME Ledger, NEW x \in Nat, NEW s,
         Books!RecordPurchase(s, [price |-> x, tax |-> 0, shipIn |-> 0, travel |-> 0])
  PROVE  /\ balance' \in [Books!Account -> Int] /\ cash' = cash - x /\ inventory' = inventory + x
         /\ costBasis' = [costBasis EXCEPT ![s] = x]
<1> DEFINE i == [price |-> x, tax |-> 0, shipIn |-> 0, travel |-> 0]
           legs == Books!PurchaseLegs(i)
<1>1. Books!Basis(i) = x /\ i.travel = 0
  BY DEF Books!Basis
<1>2. legs \in [Books!Account -> Int] /\ legs["cash"] = -x /\ legs["inventory"] = x
  <2> HIDE DEF i
  <2> QED
    BY <1>1, Accounts DEF Books!PurchaseLegs
<1>3. /\ balance' = [a \in Books!Account |-> balance[a] + legs[a]]
      /\ costBasis' = [costBasis EXCEPT ![s] = x]
  BY <1>1 DEF Books!RecordPurchase, Books!Post
<1> HIDE DEF legs
<1>4. balance \in [Books!Account -> Int]
  BY DEF Ledger
<1>5. balance' \in [Books!Account -> Int]
  BY <1>2, <1>3, <1>4
<1>6. /\ balance'["cash"] = balance["cash"] - x
      /\ balance'["inventory"] = balance["inventory"] + x
  BY <1>2, <1>3, <1>4, Accounts
<1> QED
  BY <1>3, <1>5, <1>6 DEF cash, inventory

LEMMA FeesAreInts ==
  ASSUME NEW x \in Nat
  PROVE  MulBp(x, FeeBp) + FeeFixed \in Int /\ ShipLabel \in Int
<1>1. x * FeeBp \in Nat
  BY SimulationAssumption
<1>2. MulBp(x, FeeBp) \in Int
  BY <1>1 DEF MulBp, RoundDiv
<1> QED
  BY <1>2, SimulationAssumption

LEMMA SaleIs ==
  ASSUME Ledger, NEW p, Held(p), Books!RecordSale(p.sku, SaleOf(p))
  PROVE  /\ balance' \in [Books!Account -> Int] /\ UNCHANGED costBasis
         /\ Flip(p).net \in Int
         /\ cash' + inventory' = cash + inventory + Flip(p).net
         /\ inventory' = inventory - p.cost
<1> DEFINE i == SaleOf(p)
           legs == Books!SaleLegs(i, costBasis[p.sku])
<1>1. /\ i.gross \in Int /\ i.fees \in Int /\ i.label \in Int /\ i.adFees = 0
      /\ i.income = 0 /\ i.tax = 0
      /\ Flip(p).net = i.gross - i.fees - i.label - p.cost
  BY FeesAreInts DEF SaleOf, Flip, Held
<1>2. costBasis[p.sku] = p.cost /\ p.cost \in Int
  BY DEF Held
<1> HIDE DEF i
<1>3. /\ legs \in [Books!Account -> Int]
      /\ legs["cash"] = i.gross - i.fees - i.label
      /\ legs["inventory"] = -p.cost
      /\ Books!Total(legs) = 0
  BY <1>1, <1>2, Accounts DEF Books!SaleLegs, Books!Total
<1>4. balance' = [a \in Books!Account |-> balance[a] + legs[a]] /\ UNCHANGED costBasis
  BY <1>3 DEF Books!RecordSale, Books!Post, i
<1> HIDE DEF legs
<1>5. /\ balance' \in [Books!Account -> Int]
      /\ cash' = cash + (i.gross - i.fees - i.label) /\ inventory' = inventory + (-p.cost)
      /\ cash \in Int /\ inventory \in Int
  <2>1. balance \in [Books!Account -> Int]
    BY DEF Ledger
  <2>2. balance' \in [Books!Account -> Int] /\ balance["cash"] \in Int /\ balance["inventory"] \in Int
    BY <1>3, <1>4, <2>1, Accounts
  <2>3. /\ balance'["cash"] = balance["cash"] + (i.gross - i.fees - i.label)
        /\ balance'["inventory"] = balance["inventory"] + (-p.cost)
    BY <1>3, <1>4, <2>1, Accounts
  <2> QED
    BY <2>2, <2>3 DEF cash, inventory
<1> QED
  BY <1>1, <1>2, <1>4, <1>5

-------------------------------------------------------------------------------
LEMMA MarketIsListed ==
  ASSUME Clock, day + 1 \in DOMAIN market
  PROVE  IsRow(Today) /\ \A i \in DOMAIN Today : Listed(Today[i])
BY SimulationAssumption DEF Clock, Today, IsRow

LEMMA InitIsSound == Init => SimInv
<1> SUFFICES ASSUME Init PROVE SimInv
  OBVIOUS
<1> USE DEF Init, Books!Init
<1>1. IsRow(market) /\ market # <<>> /\ market \in Market
  BY SimulationAssumption DEF IsRow
<1>2. 1 \in DOMAIN market
  BY <1>1, TailIs
<1>3. Clock
  BY <1>1, <1>2 DEF Clock
<1>4. balance = [a \in Books!Account |-> 0] /\ cash = 0 /\ inventory = 0
  BY Accounts DEF cash, inventory
<1>5. Ledger
  BY <1>4, SimulationAssumption DEF Ledger
<1>6. Rows
  BY NoRows DEF Rows
<1>7. Due
  BY NoRows DEF Due
<1>8. Accounted
  BY <1>4, NoRows DEF Accounted
<1> QED
  BY <1>3, <1>5, <1>6, <1>7, <1>8 DEF SimInv

LEMMA SumsAreInts ==
  ASSUME Rows
  PROVE  /\ SeqSum(Nets(flips)) \in Int /\ SeqSum(Costs(open)) \in Int
         /\ SeqSum(Amounts(contribs)) \in Int
<1> DEFINE row == [net |-> 0, cost |-> 0, amount |-> 0]
<1>1. row.net \in Int /\ row.cost \in Int /\ row.amount \in Int
  OBVIOUS
<1> HIDE DEF row
<1>2. SeqSum(Nets(flips)) \in Int
  BY <1>1, NetGrows DEF Rows, Flipped
<1>3. SeqSum(Costs(open)) \in Int
  BY <1>1, CostGrows DEF Rows, Held
<1>4. SeqSum(Amounts(contribs)) \in Int
  BY <1>1, AmountGrows DEF Rows
<1> QED
  BY <1>2, <1>3, <1>4

\* Capital comes in, and the books account for it.
LEMMA InjectionKeeps ==
  ASSUME SimInv, NEW x \in Int, Inject(x), UNCHANGED <<market, day, phase, tradeVars, flips>>
  PROVE  Ledger' /\ Rows' /\ Accounted'
<1> USE DEF SimInv, tradeVars
<1>1. /\ balance' \in [Books!Account -> Int] /\ cash' = cash + x /\ inventory' = inventory
      /\ capital' = capital + x /\ contribs' = Append(contribs, [day |-> day, amount |-> x])
      /\ UNCHANGED costBasis
  BY InjectionIs
<1>2. Ledger'
  BY <1>1 DEF Ledger
<1> DEFINE c == [day |-> day, amount |-> x]
<1>3. c.amount = x
  OBVIOUS
<1> HIDE DEF c
<1>4. /\ IsRow(contribs') /\ \A i \in DOMAIN contribs' : contribs'[i].amount \in Int
      /\ SeqSum(Amounts(contribs')) = SeqSum(Amounts(contribs)) + x
  <2>1. IsRow(contribs) /\ \A i \in DOMAIN contribs : contribs[i].amount \in Int
    BY DEF Rows
  <2>2. contribs' = Append(contribs, c)
    BY <1>1 DEF c
  <2>3. SeqSum(Amounts(contribs')) = SeqSum(Amounts(contribs)) + x
    BY <1>3, <2>1, <2>2, AmountGrows
  <2>4. /\ IsRow(contribs') /\ Len(contribs') = Len(contribs) + 1
        /\ \A i \in 1 .. Len(contribs) : contribs'[i] = contribs[i]
        /\ contribs'[Len(contribs) + 1] = c
    BY <2>1, <2>2, AppendIs
  <2>5. Len(contribs) \in Nat /\ DOMAIN contribs = 1 .. Len(contribs)
        /\ DOMAIN contribs' = 1 .. Len(contribs) + 1
    BY <2>1, <2>4, RowIs
  <2>6. ASSUME NEW i \in DOMAIN contribs' PROVE contribs'[i].amount \in Int
    BY <1>3, <2>1, <2>4, <2>5
  <2> QED
    BY <2>3, <2>4, <2>6
<1>5. Rows'
  BY <1>1, <1>4 DEF Rows, Held
<1>6. Accounted'
  <2>1. /\ cash + inventory = capital + SeqSum(Nets(flips))
        /\ capital = SeqSum(Amounts(contribs)) /\ inventory = SeqSum(Costs(open))
    BY DEF Accounted
  <2>2. SeqSum(Nets(flips)) \in Int
    BY SumsAreInts
  <2>3. cash \in Int /\ inventory \in Int /\ capital \in Int
    BY Accounts DEF Ledger, cash, inventory
  <2>4. cash' + inventory' = capital' + SeqSum(Nets(flips))
    <3> DEFINE net == SeqSum(Nets(flips))
    <3> HIDE DEF net
    <3>1. cash' = cash + x /\ inventory' = inventory /\ capital' = capital + x
      BY <1>1
    <3>2. cash + inventory = capital + net /\ net \in Int
      BY <2>1, <2>2 DEF net
    <3>3. cash' + inventory' = capital' + net
      BY <2>3, <3>1, <3>2
    <3> QED
      BY <3>3 DEF net
  <2> QED
    BY <1>1, <1>4, <2>1, <2>4 DEF Accounted
<1> QED
  BY <1>2, <1>5, <1>6

LEMMA ContributeKeeps ==
  ASSUME SimInv, Contribute
  PROVE  SimInv'
<1> USE DEF Contribute, Stay, Goto
<1>1. Clock /\ Ledger /\ Rows /\ Due /\ Accounted
  BY DEF SimInv
<1>2. market' = market /\ day' = day /\ UNCHANGED tradeVars /\ flips' = flips
  BY DEF reportVars
<1>3. Len(open) \in Nat /\ DOMAIN open = 1 .. Len(open)
  BY <1>1, RowIs DEF Rows
<1>4. Clock'
  BY <1>1, <1>2, <1>3 DEF Clock
<1>5. Due'
  BY <1>1, <1>2, <1>3 DEF Due, tradeVars
<1>6. CASE UNCHANGED <<capitalVars, bookVars>>
  <2> USE <1>2, <1>6 DEF capitalVars, bookVars, tradeVars
  <2>1. Ledger' /\ Rows' /\ Accounted'
    BY <1>1 DEF Ledger, Rows, Held, Accounted, cash, inventory
  <2> QED
    BY <1>4, <1>5, <2>1 DEF SimInv
<1>7. CASE cursor <= Len(Schedule) /\ Inject(Schedule[cursor].amount)
  <2>1. Schedule[cursor].amount \in Int
    <3>1. cursor \in 1 .. Len(Schedule)
      BY <1>1, <1>7, SimulationAssumption DEF Clock
    <3>2. Schedule[cursor] \in [day : Nat, amount : Nat]
      BY <3>1, SimulationAssumption, ElementOfSeq
    <3> QED
      BY <3>2
  <2>2. phase' = phase
    BY <1>1, <1>7, SimulationAssumption DEF Clock
  <2>3. Ledger' /\ Rows' /\ Accounted'
    BY <1>2, <1>7, <2>1, <2>2, InjectionKeeps
  <2> QED
    BY <1>4, <1>5, <2>3 DEF SimInv
<1> QED
  BY <1>1, <1>6, <1>7, SimulationAssumption DEF Clock

LEMMA SettleKeeps ==
  ASSUME SimInv, Settle
  PROVE  SimInv'
<1> USE DEF Stay, Goto
<1>1. Clock /\ Ledger /\ Rows /\ Due /\ Accounted /\ phase = "settle"
  BY DEF SimInv, Settle
<1>2. /\ market' = market /\ day' = day /\ capital' = capital /\ contribs' = contribs
      /\ takes' = takes /\ skuSeq' = skuSeq
  BY DEF Settle, capitalVars
<1>3. Len(open) \in Nat /\ DOMAIN open = 1 .. Len(open) /\ IsRow(open)
  BY <1>1, RowIs DEF Rows
<1>4. ASSUME UNCHANGED <<open, flips, bookVars>> PROVE Ledger' /\ Rows' /\ Accounted'
  BY <1>1, <1>2, <1>4 DEF bookVars, Ledger, Rows, Held, Accounted, cash, inventory
<1>5. CASE cursor = 0
  <2>1. phase' = "underwrite" /\ cursor' = 1 /\ UNCHANGED <<open, flips, bookVars>>
    BY <1>5 DEF Settle, Settled
  <2>2. Clock'
    BY <1>1, <1>2, <2>1 DEF Clock
  <2>3. Due'
    BY <1>1, <1>2, <1>3, <1>5, <2>1 DEF Due
  <2> QED
    BY <1>4, <2>1, <2>2, <2>3 DEF SimInv
<1>6. CASE cursor # 0 /\ open[cursor].sellDay # day
  <2>1. phase' = "settle" /\ cursor' = cursor - 1 /\ UNCHANGED <<open, flips, bookVars>>
    BY <1>6 DEF Settle
  <2>2. Clock'
    BY <1>1, <1>2, <1>6, <2>1 DEF Clock
  <2>3. Due'
    <3>1. cursor \in DOMAIN open /\ open[cursor].sellDay >= day /\ open[cursor].sellDay \in Int
      BY <1>1, <1>3, <1>6 DEF Due, Clock, Rows, Held
    <3>2. open[cursor].sellDay > day
      BY <1>1, <1>6, <3>1 DEF Clock
    <3>3. ASSUME NEW i \in DOMAIN open, i > cursor - 1 PROVE open[i].sellDay > day
      BY <1>1, <1>3, <3>1, <3>2, <3>3 DEF Due, Clock
    <3>4. cursor - 1 <= Len(open)
      BY <1>1, <1>3 DEF Due, Clock
    <3> QED
      BY <1>1, <1>2, <2>1, <3>3, <3>4 DEF Due
  <2> QED
    BY <1>4, <2>1, <2>2, <2>3 DEF SimInv
<1>7. CASE cursor # 0 /\ open[cursor].sellDay = day
  <2> DEFINE p == open[cursor]
  <2>1. Sell(p, cursor - 1)
    BY <1>7 DEF Settle
  <2>2. cursor \in DOMAIN open /\ Held(p)
    BY <1>1, <1>3, <1>7 DEF Due, Clock, Rows
  <2>3. p.sellDay = day
    BY <1>7
  <2> HIDE DEF p
  <2>4. CASE ~Books!SaleIsLegal(p.sku, SaleOf(p))
    <3>1. phase' = "threw" /\ cursor' = cursor /\ UNCHANGED <<open, flips, bookVars>>
      BY <2>1, <2>4 DEF Sell
    <3>2. Clock' /\ Due'
      BY <1>1, <1>2, <3>1 DEF Clock, Due
    <3> QED
      BY <1>4, <3>1, <3>2 DEF SimInv
  <2>5. CASE Books!SaleIsLegal(p.sku, SaleOf(p))
    <3>1. /\ Books!RecordSale(p.sku, SaleOf(p)) /\ flips' = Append(flips, Flip(p))
          /\ open' = RemoveAt(open, cursor) /\ phase' = "settle" /\ cursor' = cursor - 1
      BY <2>1, <2>5 DEF Sell
    <3>2. /\ balance' \in [Books!Account -> Int] /\ UNCHANGED costBasis
          /\ Flip(p).net \in Int
          /\ cash' + inventory' = cash + inventory + Flip(p).net
          /\ inventory' = inventory - p.cost
      BY <1>1, <2>2, <3>1, SaleIs
    <3>3. /\ IsRow(open') /\ DOMAIN open' = 1 .. Len(open) - 1 /\ Len(open') = Len(open) - 1
          /\ \A i \in 1 .. Len(open) - 1 : /\ i < cursor => open'[i] = open[i]
                                           /\ i >= cursor => open'[i] = open[i + 1]
      BY <1>3, <2>2, <3>1, RemoveIs, RowIs
    <3>4. /\ IsRow(flips') /\ Len(flips') = Len(flips) + 1
          /\ DOMAIN flips = 1 .. Len(flips) /\ DOMAIN flips' = 1 .. Len(flips) + 1
          /\ \A i \in 1 .. Len(flips) : flips'[i] = flips[i]
          /\ flips'[Len(flips) + 1] = Flip(p) /\ Len(flips) \in Nat
      BY <1>1, <3>1, AppendIs, RowIs DEF Rows
    <3>5. Clock'
      BY <1>1, <1>2, <1>7, <3>1 DEF Clock
    <3>6. Ledger'
      BY <1>1, <1>2, <3>2 DEF Ledger
    <3>7. Rows'
      <4>1. ASSUME NEW i \in DOMAIN open' PROVE Held(open[i])'
        <5>1. PICK j \in DOMAIN open : open'[i] = open[j]
          <6>1. i \in DOMAIN open /\ i + 1 \in DOMAIN open
            BY <1>3, <3>3
          <6> QED
            BY <1>1, <2>2, <3>3, <6>1 DEF Clock
        <5>2. Held(open[j])
          BY <1>1 DEF Rows
        <5> QED
          BY <1>2, <3>2, <5>1, <5>2 DEF Held
      <4>2. Flipped(Flip(p))
        <5>1. /\ Flip(p).sale = p.realized /\ Flip(p).p50 = p.p50 /\ Flip(p).sellDay = day
              /\ Flip(p).buyDay = p.buyDay /\ Flip(p).hold = p.hold
              /\ Flip(p).p10 = p.p10 /\ Flip(p).p90 = p.p90
          BY DEF Flip, SaleOf
        <5> QED
          BY <2>2, <2>3, <3>2, <5>1 DEF Flipped, Held, Banded
      <4>3. ASSUME NEW i \in DOMAIN flips' PROVE Flipped(flips'[i])
        BY <1>1, <3>4, <4>2 DEF Rows
      <4> QED
        BY <1>1, <1>2, <3>3, <3>4, <4>1, <4>3 DEF Rows
    <3>8. Due'
      <4>1. ASSUME NEW i \in DOMAIN open'
            PROVE  open'[i].sellDay >= day /\ (i > cursor - 1 => open'[i].sellDay > day)
        <5>1. i \in DOMAIN open /\ i + 1 \in DOMAIN open
          BY <1>3, <3>3
        <5> QED
          BY <1>1, <1>3, <2>2, <3>3, <5>1 DEF Due, Clock
      <4>2. cursor - 1 <= Len(open')
        BY <1>1, <1>3, <3>3 DEF Due, Clock
      <4> QED
        BY <1>2, <3>1, <4>1, <4>2 DEF Due
    <3>9. Accounted'
      <4> DEFINE net == SeqSum(Nets(flips))
                 stock == SeqSum(Costs(open))
      <4>1. net \in Int /\ stock \in Int
        BY <1>1, SumsAreInts
      <4>2. SeqSum(Nets(flips')) = net + Flip(p).net
        BY <1>1, <3>1, <3>2, NetGrows DEF Rows, Flipped
      <4>3. SeqSum(Costs(open')) = stock - p.cost
        BY <1>1, <2>2, <3>1, CostFalls DEF Rows, Held, p
      <4>4. cash + inventory = capital + net /\ inventory = stock
        BY <1>1 DEF Accounted
      <4>5. cash \in Int /\ inventory \in Int /\ capital \in Int
        BY <1>1, Accounts DEF Ledger, cash, inventory
      <4> HIDE DEF net, stock
      <4>6. cash' + inventory' = capital + (net + Flip(p).net)
        BY <3>2, <4>1, <4>4, <4>5
      <4> QED
        BY <1>1, <1>2, <3>2, <4>2, <4>3, <4>4, <4>6 DEF Accounted
    <3> QED
      BY <3>5, <3>6, <3>7, <3>8, <3>9 DEF SimInv
  <2> QED
    BY <2>4, <2>5
<1> QED
  BY <1>5, <1>6, <1>7

LEMMA ListedIsAppraised ==
  ASSUME NEW l, Listed(l), day \in Nat
  PROVE  LET v == Appraise(l.comps, "good", day)
         IN /\ v.p50 \in Int /\ v.tts \in Int
            /\ v.p10 \in Int /\ v.p90 \in Int /\ v.p10 <= v.p90
<1>1. IsRow(l.comps)
  BY DEF Listed, IsRow
<1>2. Len(l.comps) \in Nat /\ DOMAIN l.comps = 1 .. Len(l.comps)
  BY <1>1, RowIs
<1> DEFINE comps == l.comps
           v == Appraise(comps, "good", day)
<1>3. IsFiniteSet(DOMAIN comps) /\ day \in Int /\ ActiveCount \in Nat
  <2>1. IsFiniteSet(DOMAIN comps)
    BY <1>2, FS_Interval
  <2>2. day \in Int
    OBVIOUS
  <2>3. ActiveCount \in Nat
    BY SimulationAssumption
  <2> QED
    BY <2>1, <2>2, <2>3
<1>5. \A i \in DOMAIN comps : /\ comps[i].price \in Nat /\ comps[i].sold \in Int
                              /\ comps[i].band \in Range(Band)
  BY DEF Listed
<1> HIDE DEF comps
<1>4. v.p50 \in Int /\ v.tts \in Int /\ v.p10 \in Int /\ v.p90 \in Int /\ v.p10 <= v.p90
  BY <1>3, <1>5, AppraisalIs
<1> QED
  BY <1>4 DEF comps

LEMMA VerdictIsPriced ==
  ASSUME NEW l, Listed(l), Verdict(l).taken, day \in Nat
  PROVE  /\ Verdict(l).p50 \in Nat \ {0}
         /\ Verdict(l).p10 \in Int /\ Verdict(l).p90 \in Int
         /\ Verdict(l).p10 <= Verdict(l).p90
<1> DEFINE v == Appraise(l.comps, "good", day)
<1>1. v.p50 \in Int /\ v.p10 \in Int /\ v.p90 \in Int /\ v.p10 <= v.p90
  BY ListedIsAppraised
<1>2. ~Untaken.taken /\ ~[Untaken EXCEPT !.identified = TRUE].taken
  BY DEF Untaken
<1>3. Verdict(l) = Underwritten(Profile, l, l.ask, v)
  <2> HIDE DEF v
  <2>1. \/ Verdict(l) = Untaken \/ Verdict(l) = [Untaken EXCEPT !.identified = TRUE]
        \/ Verdict(l) = Underwritten(Profile, l, l.ask, v)
    BY DEF Verdict, Opportunity, v
  <2> QED
    BY <1>2, <2>1
<1> HIDE DEF v
<1>4. /\ v.p50 > 0 /\ Verdict(l).p50 = v.p50
      /\ Verdict(l).p10 = v.p10 /\ Verdict(l).p90 = v.p90
  <2> DEFINE risks == Risks(l)
             u == UnderwriteResult(Profile, l.ask, Days(Profile, v), v)
             score == Score(v, u, Profile.minutes, risks)
  <2>1. Underwritten(Profile, l, l.ask, v) = IF v.p50 <= 0 THEN [Untaken EXCEPT !.identified = TRUE]
                                             ELSE Judged(v, u, score, risks)
    BY DEF Underwritten, Scored
  <2> HIDE DEF risks, u, score
  <2>2. /\ Judged(v, u, score, risks).p50 = v.p50 /\ Judged(v, u, score, risks).p10 = v.p10
        /\ Judged(v, u, score, risks).p90 = v.p90
    BY DEF Judged
  <2>3. ~(v.p50 <= 0)
    BY <1>2, <1>3, <2>1
  <2> QED
    BY <1>1, <1>3, <2>1, <2>2, <2>3
<1> QED
  BY <1>1, <1>4

LEMMA UpToIs ==
  ASSUME NEW n \in Nat
  PROVE  IsFiniteSet(1 .. n) /\ Cardinality(1 .. n) = n
BY FS_Interval

LEMMA UnderwriteKeeps ==
  ASSUME SimInv, Underwrite
  PROVE  SimInv'
<1> USE DEF Stay, Goto
<1>1. Clock /\ Ledger /\ Rows /\ Due /\ Accounted /\ phase = "underwrite"
  BY DEF SimInv, Underwrite
<1>2. UNCHANGED <<market, day, capital, contribs, open, skuSeq, flips, balance, costBasis>>
  BY DEF Underwrite, capitalVars, reportVars, bookVars
<1>3. Clock' /\ phase' \in {"underwrite", "acquire"}
  BY <1>1, <1>2 DEF Underwrite, Clock
<1>4. Ledger' /\ Accounted'
  BY <1>1, <1>2 DEF Ledger, Accounted, cash, inventory
<1>5. Due'
  BY <1>1, <1>2, <1>3 DEF Due
<1>6. Rows'
  <2>1. ASSUME takes' = takes PROVE Rows'
    BY <1>1, <1>2, <2>1 DEF Rows, Held
  <2>2. CASE takes' # takes
    <3> DEFINE l == Today[cursor]
               t == Take(l, Verdict(l))
               above == {i \in DOMAIN takes : takes[i].score >= t.score}
    <3>1. ~(cursor > Len(Today)) /\ takes' = InScoreOrder(t)
      <4> HIDE DEF above
      <4> QED
        BY <2>2 DEF Underwrite
    <3>2. Listed(l)
      <4>1. IsRow(Today) /\ \A i \in DOMAIN Today : Listed(Today[i])
        BY <1>1, MarketIsListed DEF Clock
      <4>2. cursor \in DOMAIN Today
        BY <1>1, <3>1, <4>1, RowIs DEF Clock
      <4> QED
        BY <4>1, <4>2
    <3>3. Wanted(t)
      <4>1. Verdict(l).taken
        BY <2>2 DEF Underwrite
      <4>2. /\ Verdict(l).p50 \in Nat \ {0}
            /\ Verdict(l).p10 \in Int /\ Verdict(l).p90 \in Int
            /\ Verdict(l).p10 <= Verdict(l).p90
        BY <1>1, <3>2, <4>1, VerdictIsPriced DEF Clock
      <4> QED
        BY <3>2, <4>2 DEF Take, Listed, Wanted, Banded
    <3>4. IsRow(takes) /\ Len(takes) \in Nat /\ DOMAIN takes = 1 .. Len(takes)
      BY <1>1, RowIs DEF Rows
    <3>5. 1 + Cardinality(above) \in 1 .. Len(takes) + 1
      <4>1. IsFiniteSet(1 .. Len(takes)) /\ Cardinality(1 .. Len(takes)) = Len(takes)
        BY <3>4, UpToIs
      <4>2. above \subseteq 1 .. Len(takes)
        BY <3>4
      <4> HIDE DEF above
      <4>3. Cardinality(above) <= Len(takes) /\ Cardinality(above) \in Nat
        BY <4>1, <4>2, FS_Subset, FS_CardinalityType
      <4> QED
        BY <3>4, <4>3
    <3>6. takes' = InsertAt(takes, 1 + Cardinality(above), t)
      BY <3>1 DEF InScoreOrder
    <3> HIDE DEF t, above
    <3>7. IsRow(takes') /\ \A i \in DOMAIN takes' : \/ takes'[i] = t
                                                    \/ \E j \in DOMAIN takes : takes'[i] = takes[j]
      BY <3>4, <3>5, <3>6, InsertIs
    <3>8. \A i \in DOMAIN takes' : Wanted(takes'[i])
      BY <1>1, <3>3, <3>7 DEF Rows
    <3> QED
      BY <1>1, <1>2, <3>7, <3>8 DEF Rows, Held
  <2> QED
    BY <2>1, <2>2
<1> QED
  BY <1>3, <1>4, <1>5, <1>6 DEF SimInv

\* The positions, once one more is bought at the price that was asked.
LEMMA PurchaseKeeps ==
  ASSUME Ledger, Rows, NEW t, Wanted(t), day \in Nat, skuSeq < MaxSku,
         Books!RecordPurchase(skuSeq + 1, [price |-> t.ask, tax |-> 0, shipIn |-> 0, travel |-> 0]),
         skuSeq' = skuSeq + 1, UNCHANGED <<market, day, capital, contribs, flips>>,
         NEW p, p.sku = skuSeq + 1, p.cost = t.ask, p.realized = t.realized,
         p.buyDay = day, p.hold = t.hold, p.sellDay = day + t.hold, p.p50 = t.p50,
         p.p10 = t.p10, p.p90 = t.p90,
         open' = Append(open, p)
  PROVE  /\ Ledger' /\ (Accounted => Accounted')
         /\ IsRow(open') /\ \A i \in DOMAIN open' : Held(open[i])'
         /\ \A i \in DOMAIN open' : \/ i \in DOMAIN open /\ open'[i] = open[i]
                                    \/ open'[i] = p
<1>1. /\ balance' \in [Books!Account -> Int] /\ cash' = cash - t.ask
      /\ inventory' = inventory + t.ask
      /\ costBasis' = [costBasis EXCEPT ![skuSeq + 1] = t.ask] /\ t.ask \in Nat
  BY PurchaseIs DEF Wanted
<1>2. skuSeq \in 0 .. MaxSku /\ skuSeq + 1 \in 1 .. MaxSku
      /\ costBasis \in [1 .. MaxSku -> Nat \cup {NoBasis}] /\ capital \in Int
  BY SimulationAssumption DEF Ledger
<1>3. costBasis' \in [1 .. MaxSku -> Nat \cup {NoBasis}]
  BY <1>1, <1>2
<1>4. Ledger'
  BY <1>1, <1>2, <1>3 DEF Ledger
<1>5. IsRow(open) /\ Len(open) \in Nat /\ DOMAIN open = 1 .. Len(open)
  BY RowIs DEF Rows
<1>6. /\ IsRow(open') /\ DOMAIN open' = 1 .. Len(open) + 1
      /\ \A i \in 1 .. Len(open) : open'[i] = open[i]
      /\ open'[Len(open) + 1] = p
  BY <1>5, AppendIs, RowIs
<1>7. \A i \in DOMAIN open' : \/ i \in DOMAIN open /\ open'[i] = open[i]
                              \/ open'[i] = p
  BY <1>5, <1>6
<1>8. ASSUME NEW i \in DOMAIN open' PROVE Held(open[i])'
  <2>1. CASE i \in DOMAIN open /\ open'[i] = open[i]
    <3>1. Held(open[i])
      BY <2>1 DEF Rows
    <3>2. costBasis'[open[i].sku] = costBasis[open[i].sku] /\ open[i].sku \in 1 .. skuSeq + 1
      BY <1>1, <1>2, <3>1 DEF Held
    <3> QED
      BY <2>1, <3>1, <3>2 DEF Held
  <2>2. CASE open'[i] = p
    <3>1. costBasis'[p.sku] = t.ask /\ p.sku \in 1 .. skuSeq + 1
      BY <1>1, <1>2
    <3>2. t.realized \in Nat /\ p.sellDay \in Int /\ p.p50 \in Nat \ {0} /\ Banded(p)
      BY DEF Wanted, Banded
    <3> QED
      BY <1>1, <2>2, <3>1, <3>2 DEF Held
  <2> QED
    BY <1>7, <2>1, <2>2
<1>9. ASSUME Accounted PROVE Accounted'
  <2> DEFINE net == SeqSum(Nets(flips))
             stock == SeqSum(Costs(open))
  <2>1. stock \in Int /\ SeqSum(Costs(open')) = stock + t.ask
    BY <1>1, CostGrows DEF Rows, Held
  <2>2. cash + inventory = capital + net /\ inventory = stock
        /\ capital = SeqSum(Amounts(contribs))
    BY <1>9 DEF Accounted
  <2>3. cash \in Int /\ inventory \in Int
    BY Accounts DEF Ledger, cash, inventory
  <2> HIDE DEF net, stock
  <2>4. cash' + inventory' = capital + net
    BY <1>1, <2>2, <2>3
  <2> QED
    BY <1>1, <2>1, <2>2, <2>4 DEF Accounted, net
<1> QED
  BY <1>4, <1>6, <1>7, <1>8, <1>9

LEMMA AcquireKeeps ==
  ASSUME SimInv, Acquire
  PROVE  SimInv'
<1> DEFINE t == Head(takes)
<1>1. Clock /\ Ledger /\ Rows /\ Due /\ Accounted /\ phase = "acquire"
  BY DEF SimInv, Acquire
<1>2. UNCHANGED <<market, day, phase, flips>>
  BY DEF Acquire, Stay, reportVars
<1>3. Wanted(t) /\ IsRow(Tail(takes)) /\ \A i \in DOMAIN Tail(takes) : Wanted(Tail(takes)[i])
  BY <1>1, TailIs DEF Acquire, Rows
<1>4. CASE /\ takes' = Tail(takes)
           /\ UNCHANGED <<cursor, capitalVars, open, spentToday, skuSeq, bookVars>>
  <2>1. UNCHANGED <<cursor, capital, contribs, open, skuSeq, balance, costBasis>>
    BY <1>4 DEF capitalVars, bookVars
  <2>2. Clock' /\ Ledger' /\ Due' /\ Accounted'
    BY <1>1, <1>2, <2>1 DEF Clock, Ledger, Due, Accounted, cash, inventory
  <2>3. Rows'
    BY <1>1, <1>2, <1>3, <1>4, <2>1 DEF Rows, Held
  <2> QED
    BY <2>2, <2>3 DEF SimInv
<1>5. CASE /\ Inject(TopUp(t.ask - cash)) /\ cursor' = 2
           /\ UNCHANGED <<open, takes, spentToday, skuSeq>>
  <2>1. TopUp(t.ask - cash) \in Int
    <3>1. t.ask - cash \in Int
      BY <1>1, <1>3, Accounts DEF Wanted, Ledger, cash
    <3> HIDE DEF t
    <3> QED
      BY <3>1 DEF TopUp
  <2>2. Ledger' /\ Rows' /\ Accounted'
    BY <1>2, <1>5, <2>1, InjectionKeeps DEF tradeVars
  <2>3. Clock' /\ Due'
    BY <1>1, <1>2, <1>5 DEF Clock, Due
  <2> QED
    BY <2>2, <2>3 DEF SimInv
<1> DEFINE p == [sku |-> skuSeq + 1, category |-> t.category, buyDay |-> day,
                 sellDay |-> day + t.hold, cost |-> t.ask, realized |-> t.realized,
                 hold |-> t.hold, p10 |-> t.p10, p50 |-> t.p50, p90 |-> t.p90]
<1>6. CASE /\ skuSeq < MaxSku
           /\ Books!RecordPurchase(skuSeq + 1,
                                   [price |-> t.ask, tax |-> 0, shipIn |-> 0, travel |-> 0])
           /\ skuSeq' = skuSeq + 1 /\ open' = Append(open, p)
           /\ takes' = Tail(takes) /\ cursor' = 1 /\ UNCHANGED capitalVars
  <2>1. /\ p.sku = skuSeq + 1 /\ p.cost = t.ask /\ p.realized = t.realized
        /\ p.buyDay = day /\ p.hold = t.hold /\ p.sellDay = day + t.hold /\ p.p50 = t.p50
        /\ p.p10 = t.p10 /\ p.p90 = t.p90
    OBVIOUS
  <2>2. UNCHANGED <<capital, contribs>> /\ day \in Nat
    BY <1>1, <1>6 DEF capitalVars, Clock
  <2> HIDE DEF t, p
  <2>3. /\ Ledger' /\ Accounted' /\ IsRow(open') /\ \A i \in DOMAIN open' : Held(open[i])'
        /\ \A i \in DOMAIN open' : \/ i \in DOMAIN open /\ open'[i] = open[i]
                                   \/ open'[i] = p
    BY <1>1, <1>2, <1>3, <1>6, <2>1, <2>2, PurchaseKeeps
  <2>4. Clock'
    BY <1>1, <1>2, <1>6 DEF Clock
  <2>5. Rows'
    BY <1>1, <1>2, <1>3, <1>6, <2>2, <2>3 DEF Rows
  <2>6. p.sellDay > day
    BY <1>3, <2>1, <2>2 DEF Wanted
  <2>7. Due'
    BY <1>1, <1>2, <2>3, <2>6 DEF Due
  <2> QED
    BY <2>3, <2>4, <2>5, <2>7 DEF SimInv
<1> QED
  BY <1>4, <1>5, <1>6 DEF Acquire

LEMMA MarkKeeps ==
  ASSUME SimInv, Mark
  PROVE  SimInv'
<1>1. Clock /\ Ledger /\ Rows /\ Due /\ Accounted /\ phase = "acquire"
  BY DEF SimInv, Mark
<1>2. UNCHANGED <<market, capital, contribs, open, takes, skuSeq, flips, balance, costBasis>>
  BY DEF Mark, capitalVars, tradeVars, bookVars
<1>3. day' = day + 1 /\ cursor' = 1
      /\ phase' = IF day + 1 = Len(market) THEN "done" ELSE "contribute"
  BY DEF Mark, Goto
<1>4. IsRow(market) /\ DOMAIN market = 1 .. Len(market) /\ Len(market) \in Nat
  BY <1>1, SimulationAssumption, RowIs DEF Clock, IsRow
<1>5. Clock'
  <2>1. day \in Nat /\ day + 1 \in 1 .. Len(market) /\ market \in Market
    BY <1>1, <1>4 DEF Clock
  <2>2. phase' = "contribute" => day' + 1 \in DOMAIN market'
    <3> SUFFICES ASSUME phase' = "contribute" PROVE day' + 1 \in DOMAIN market
      BY <1>2
    <3>1. day + 1 # Len(market)
      BY <1>3
    <3>2. (day + 1) + 1 \in 1 .. Len(market)
      <4> DEFINE n == Len(market)
      <4>1. n \in Nat /\ day \in Nat /\ day + 1 \in 1 .. n /\ day + 1 # n
        BY <1>4, <2>1, <3>1
      <4> HIDE DEF n
      <4>2. (day + 1) + 1 \in 1 .. n
        BY <4>1
      <4> QED
        BY <4>2 DEF n
    <3> QED
      BY <1>3, <1>4, <3>2
  <2> QED
    BY <1>2, <1>3, <2>1, <2>2 DEF Clock
<1>6. Ledger' /\ Rows' /\ Accounted'
  BY <1>1, <1>2 DEF Ledger, Rows, Held, Accounted, cash, inventory
<1>7. Due'
  BY <1>1, <1>2, <1>3 DEF Due, Clock, Rows, Held
<1> QED
  BY <1>5, <1>6, <1>7 DEF SimInv

-------------------------------------------------------------------------------
(***************************************************************************)
(* The invariant holds throughout, for any market, profile and schedule.   *)
(***************************************************************************)
THEOREM SimulationInductive == Spec => []SimInv
<1>1. Init => SimInv
  BY InitIsSound
<1>2. SimInv /\ [Next]_vars => SimInv'
  <2> SUFFICES ASSUME SimInv, [Next]_vars PROVE SimInv'
    OBVIOUS
  <2>1. CASE UNCHANGED vars
    BY <2>1 DEF vars, clockVars, capitalVars, tradeVars, reportVars, bookVars, SimInv, Clock,
                Ledger, Rows, Held, Due, Accounted, cash, inventory
  <2> QED
    BY <2>1, ContributeKeeps, SettleKeeps, UnderwriteKeeps, AcquireKeeps, MarkKeeps DEF Next
<1> QED
  BY <1>1, <1>2, PTL DEF Spec

(***************************************************************************)
(* NothingIsOverdue: the loop that settles the day runs from the back, so  *)
(* that removing a position moves none it has yet to look at, and every    *)
(* hold is a day or longer (simulate.ts:77-108).                           *)
(***************************************************************************)
THEOREM SalesAreOnTime == Spec => []NothingIsOverdue
<1>1. SimInv => NothingIsOverdue
  BY DEF SimInv, Rows, Flipped, Due, NothingIsOverdue
<1> QED
  BY SimulationInductive, <1>1, PTL

(***************************************************************************)
(* EquityIsExplained: "the accounting closes" (docs/SIMULATION.md).  A     *)
(* sale takes off the inventory account the basis that the position was    *)
(* bought at, and the flip counts the same four amounts as the ledger      *)
(* (simulate.ts:80-108, 121-148).                                          *)
(***************************************************************************)
THEOREM TheBooksClose == Spec => []EquityIsExplained
<1>1. SimInv => EquityIsExplained
  <2> SUFFICES ASSUME SimInv PROVE EquityIsExplained
    OBVIOUS
  <2>1. IsRow(flips) /\ IsRow(contribs) /\ IsRow(open) /\ Accounted
    BY DEF SimInv, Rows
  <2>2. /\ TotalNet(flips) = SeqSum(Nets(flips))
        /\ TotalContributions(contribs) = SeqSum(Amounts(contribs))
        /\ SumOver(open, LAMBDA p : p.cost) = SeqSum(Costs(open))
    <3>1. /\ \A i \in DOMAIN flips : flips[i].net \in Int
          /\ \A i \in DOMAIN contribs : contribs[i].amount \in Int
          /\ \A i \in DOMAIN open : open[i].cost \in Int
      BY DEF SimInv, Rows, Flipped, Held
    <3> QED
      BY <2>1, <3>1, NetIsSum, AmountIsSum, CostIsSum
  <2> QED
    BY <2>1, <2>2 DEF Accounted, EquityIsExplained
<1> QED
  BY SimulationInductive, <1>1, PTL

(***************************************************************************)
(* WaterfallIsExact: the lines shown add up to the net the deal was        *)
(* decided on, and at the break-even resale the net is the rounding of     *)
(* three fees and of the break-even itself, two cents or less, for every   *)
(* profile whose rates leave something of the price                        *)
(* (underwrite.ts:135-143, 163-182).                                       *)
(***************************************************************************)
THEOREM EveryWaterfallIsExact == Spec => []WaterfallIsExact
<1>1. SimInv => WaterfallIsExact
  <2> SUFFICES ASSUME SimInv, phase = "underwrite", cursor <= Len(Today),
                      NEW v, v = Appraise(Today[cursor].comps, "good", day),
                      NEW p \in Profiles \cup {Profile}
               PROVE  LET l == Today[cursor]
                          d == Days(p, v)
                          even == BreakEven(p, l.ask, d)
                      IN  /\ SumOver(Waterfall(p, l.ask, d, v.p50), LAMBDA x : x)
                               = Net(p, l.ask, d, v.p50)
                          /\ Abs(Net(p, l.ask, d, even)) <= 2
    BY DEF WaterfallIsExact
  <2> DEFINE l == Today[cursor]
             d == Days(p, v)
  <2>1. Listed(l)
    <3>1. IsRow(Today) /\ \A i \in DOMAIN Today : Listed(Today[i])
      BY MarketIsListed DEF SimInv, Clock
    <3>2. cursor \in DOMAIN Today
      BY <3>1, RowIs DEF SimInv, Clock
    <3> QED
      BY <3>1, <3>2
  <2> HIDE DEF l
  <2>2. v.p50 \in Int /\ v.tts \in Int
    <3>1. day \in Nat
      BY DEF SimInv, Clock
    <3> QED
      BY <2>1, <3>1, ListedIsAppraised DEF l
  <2>3. Resells(p) /\ l.ask \in Nat
    BY <2>1, SimulationAssumption DEF Listed
  <2>4. d \in Int
    BY <2>2, <2>3 DEF Days, Resells
  <2> HIDE DEF d
  <2>5. SumOver(Waterfall(p, l.ask, d, v.p50), LAMBDA x : x) = Net(p, l.ask, d, v.p50)
    BY <2>2, <2>3, <2>4, WaterfallAddsUp
  <2>6. Abs(Net(p, l.ask, d, BreakEven(p, l.ask, d))) <= 2
    BY <2>3, <2>4, BreakEvenIsExact
  <2> QED
    BY <2>5, <2>6 DEF l, d
<1> QED
  BY SimulationInductive, <1>1, PTL

-------------------------------------------------------------------------------
(***************************************************************************)
(* The report of a simulation that is over, and what its measures are.     *)
(***************************************************************************)
Reported ==
  /\ IsRow(daily) /\ \A i \in DOMAIN daily : daily[i].equity \in Int
  /\ phase = "done" => Len(daily) > 0 /\ daily[Len(daily)].equity = cash + inventory

LEMMA MarkReports ==
  ASSUME SimInv, Reported, Mark
  PROVE  Reported'
<1> DEFINE point == [equity |-> cash + inventory, inventory |-> inventory]
           n == Len(daily)
<1>1. daily' = Append(daily, point) /\ balance' = balance
  BY DEF Mark, bookVars
<1>2. cash + inventory \in Int /\ point.equity = cash + inventory
  BY Accounts DEF SimInv, Ledger, cash, inventory
<1>3. cash' + inventory' = cash + inventory
  BY <1>1 DEF cash, inventory
<1> HIDE DEF point
<1>4. /\ IsRow(daily') /\ n \in Nat /\ DOMAIN daily = 1 .. n /\ DOMAIN daily' = 1 .. n + 1
      /\ Len(daily') = n + 1
      /\ \A i \in 1 .. n : daily'[i] = daily[i]
      /\ daily'[n + 1] = point
  BY <1>1, AppendIs, RowIs DEF Reported
<1>5. ASSUME NEW i \in DOMAIN daily' PROVE daily'[i].equity \in Int
  <2>1. CASE i = n + 1
    BY <2>1, <1>2, <1>4
  <2>2. CASE i # n + 1
    <3>1. i \in DOMAIN daily /\ daily'[i] = daily[i]
      BY <2>2, <1>4
    <3> QED
      BY <3>1 DEF Reported
  <2> QED
    BY <2>1, <2>2
<1>6. Len(daily') > 0 /\ daily'[Len(daily')].equity = cash' + inventory'
  BY <1>2, <1>3, <1>4
<1> QED
  BY <1>4, <1>5, <1>6 DEF Reported

LEMMA ReportedHolds == Spec => []Reported
<1>1. Init => Reported
  <2> SUFFICES ASSUME Init PROVE Reported
    OBVIOUS
  <2>1. daily = <<>> /\ phase = "contribute"
    BY DEF Init
  <2> QED
    BY <2>1, NoRows DEF Reported
<1>2. SimInv /\ Reported /\ [Next]_vars => Reported'
  <2> SUFFICES ASSUME SimInv, Reported, [Next]_vars PROVE Reported'
    OBVIOUS
  <2>1. CASE UNCHANGED vars
    BY <2>1 DEF Reported, vars, clockVars, reportVars, bookVars, cash, inventory
  <2>2. ASSUME daily' = daily, phase' # "done" PROVE Reported'
    BY <2>2 DEF Reported
  <2>3. CASE Contribute
    BY <2>2, <2>3 DEF Contribute, Goto, reportVars
  <2>4. CASE Settle
    BY <2>2, <2>4 DEF Settle, Settled, Sell, Goto
  <2>5. CASE Underwrite
    BY <2>2, <2>5 DEF Underwrite, Goto, reportVars
  <2>6. CASE Acquire
    BY <2>2, <2>6 DEF Acquire, Goto, reportVars
  <2>7. CASE Mark
    BY <2>7, MarkReports
  <2> QED
    BY <2>1, <2>3, <2>4, <2>5, <2>6, <2>7 DEF Next
<1> QED
  BY <1>1, <1>2, SimulationInductive, PTL DEF Spec

\* The indices of finitely many values, in ascending order of the values.
LEMMA SortedIs ==
  ASSUME NEW v, v \in [DOMAIN v -> Int], IsFiniteSet(DOMAIN v), IntSet(DOMAIN v)
  PROVE  /\ Sorted(v) \in Bijection(1 .. Cardinality(DOMAIN v), DOMAIN v)
         /\ \A a, b \in 1 .. Cardinality(DOMAIN v) :
              a < b => v[Sorted(v)[a]] <= v[Sorted(v)[b]]
<1> DEFINE D == DOMAIN v
           R == {z \in D \X D : v[z[1]] < v[z[2]] \/ (v[z[1]] = v[z[2]] /\ z[1] < z[2])}
           before(i) == {j \in D : v[j] < v[i] \/ (v[j] = v[i] /\ j < i)}
           n == Cardinality(D)
           s == Sorted(v)
           rank == Rank(R, D)
<1>1. \A j, i \in D : <<j, i>> \in R <=> v[j] < v[i] \/ (v[j] = v[i] /\ j < i)
  OBVIOUS
<1>2. \A i \in D : v[i] \in Int /\ i \in Int
  BY DEF IntSet
<1>3. s = [k \in 1 .. n |-> CHOOSE i \in D : Cardinality(before(i)) + 1 = k]
  BY DEF Sorted, Size
<1>4. IsFiniteSet(D)
  OBVIOUS
<1> HIDE DEF s, n
<1>5. ASSUME NEW i \in D PROVE rank[i] = Cardinality(before(i)) + 1
  <2>1. before(i) = {j \in D : <<j, i>> \in R}
    BY <1>1
  <2> HIDE DEF D
  <2> QED
    BY <2>1 DEF Rank
<1> HIDE DEF D, R, before
<1>6. StrictOrder(R, D)
  <2>1. \A i \in D : <<i, i>> \notin R
    BY <1>1, <1>2
  <2>2. \A i, j \in D : i # j => <<i, j>> \in R \/ <<j, i>> \in R
    BY <1>1, <1>2
  <2>3. ASSUME NEW i \in D, NEW j \in D, NEW k \in D, <<i, j>> \in R, <<j, k>> \in R
        PROVE  <<i, k>> \in R
    <3>1. /\ v[i] \in Int /\ v[j] \in Int /\ v[k] \in Int
          /\ i \in Int /\ j \in Int /\ k \in Int
      BY <1>2
    <3>2. /\ v[i] < v[j] \/ (v[i] = v[j] /\ i < j)
          /\ v[j] < v[k] \/ (v[j] = v[k] /\ j < k)
      BY <1>1, <2>3
    <3>3. v[i] < v[k] \/ (v[i] = v[k] /\ i < k)
      BY <3>1, <3>2
    <3> QED
      BY <1>1, <3>3
  <2> QED
    BY <2>1, <2>2, <2>3 DEF StrictOrder
<1>7. rank \in Bijection(D, 1 .. n) /\ \A i, j \in D : <<i, j>> \in R => rank[i] < rank[j]
  BY <1>4, <1>6, RanksAreTaken DEF n
<1> HIDE DEF rank
<1>8. /\ \A i \in D : rank[i] \in 1 .. n
      /\ \A i, j \in D : rank[i] = rank[j] => i = j
      /\ \A k \in 1 .. n : \E i \in D : rank[i] = k
  BY <1>7 DEF Bijection, Injection, Surjection, IsInjective
<1>9. ASSUME NEW k \in 1 .. n PROVE s[k] \in D /\ rank[s[k]] = k
  <2>1. \E i \in D : Cardinality(before(i)) + 1 = k
    BY <1>5, <1>8
  <2>2. s[k] = CHOOSE i \in D : Cardinality(before(i)) + 1 = k
    BY <1>3
  <2>3. s[k] \in D /\ Cardinality(before(s[k])) + 1 = k
    BY <2>1, <2>2
  <2> QED
    BY <1>5, <2>3
<1>10. DOMAIN s = 1 .. n /\ s = [k \in 1 .. n |-> s[k]]
  BY <1>3
<1>11. s \in Bijection(1 .. n, D)
  <2>1. s \in [1 .. n -> D]
    BY <1>9, <1>10
  <2>2. \A a, b \in 1 .. n : s[a] = s[b] => a = b
    BY <1>9
  <2>3. \A i \in D : \E k \in 1 .. n : s[k] = i
    BY <1>8, <1>9
  <2> QED
    BY <2>1, <2>2, <2>3 DEF Bijection, Injection, Surjection, IsInjective
<1>12. \A a, b \in 1 .. n : a < b => v[s[a]] <= v[s[b]]
  <2> SUFFICES ASSUME NEW a \in 1 .. n, NEW b \in 1 .. n, a < b
               PROVE  v[s[a]] <= v[s[b]]
    OBVIOUS
  <2>1. /\ s[a] \in D /\ s[b] \in D /\ rank[s[a]] = a /\ rank[s[b]] = b
        /\ v[s[a]] \in Int /\ v[s[b]] \in Int
    BY <1>2, <1>9
  <2>2. SUFFICES ASSUME v[s[b]] < v[s[a]] PROVE FALSE
    BY <2>1
  <2>3. <<s[b], s[a]>> \in R
    BY <1>1, <2>1, <2>2
  <2>4. b < a
    BY <1>7, <2>1, <2>3
  <2>5. a \in Int /\ b \in Int
    OBVIOUS
  <2> QED
    BY <2>4, <2>5
<1> QED
  BY <1>11, <1>12 DEF s, n, D

(***************************************************************************)
(* The rollup: each category begins with its first flip, the categories    *)
(* part the flips between them, and whatever adds up over each of them,    *)
(* in the order they are shown in, adds up over the flips.                 *)
(***************************************************************************)
Category(rows, i) == {j \in DOMAIN rows : rows[j].category = rows[i].category}
Firsts(rows) == {i \in DOMAIN rows : \A j \in Category(rows, i) : i <= j}
ByProfit(rows) == Sorted([i \in Firsts(rows) |-> -TotalNet(Alike(rows, i))])

LEMMA AlikeIs ==
  ASSUME NEW rows, NEW i
  PROVE  Alike(rows, i) = [j \in Category(rows, i) |-> rows[j]]
BY DEF Alike, RestrictValues, Restrict, Category

LEMMA CategoriesPart ==
  ASSUME NEW rows, IsRow(rows)
  PROVE  /\ UNION {Category(rows, i) : i \in Firsts(rows)} = DOMAIN rows
         /\ \A i, j \in Firsts(rows) : i # j => Category(rows, i) \cap Category(rows, j) = {}
         /\ IsFiniteSet(DOMAIN rows) /\ IntSet(DOMAIN rows)
         /\ IsFiniteSet(Firsts(rows)) /\ IntSet(Firsts(rows)) /\ Firsts(rows) \subseteq DOMAIN rows
<1>1. IsFiniteSet(DOMAIN rows) /\ IntSet(DOMAIN rows)
  BY RowIs, FS_Interval DEF IntSet
<1>2. Firsts(rows) \subseteq DOMAIN rows
  BY DEF Firsts
<1>3. IsFiniteSet(Firsts(rows)) /\ IntSet(Firsts(rows))
  BY <1>1, <1>2, FS_Subset DEF IntSet
<1>4. ASSUME NEW i \in DOMAIN rows
      PROVE  \E first \in Firsts(rows) : i \in Category(rows, first)
  <2> DEFINE C == Category(rows, i)
             m == Min(C)
  <2>1. C \subseteq DOMAIN rows /\ i \in C
    BY DEF Category
  <2> HIDE DEF C
  <2>2. IsFiniteSet(C) /\ IntSet(C) /\ C # {}
    BY <1>1, <2>1, FS_Subset DEF IntSet
  <2>3. m \in C /\ \A j \in C : m <= j
    BY <2>2, Extremes
  <2> HIDE DEF m
  <2>4. Category(rows, m) = C /\ m \in DOMAIN rows
    BY <2>1, <2>3 DEF C, Category
  <2> QED
    BY <2>1, <2>3, <2>4 DEF Firsts
<1>5. UNION {Category(rows, i) : i \in Firsts(rows)} = DOMAIN rows
  <2>1. \A i : Category(rows, i) \subseteq DOMAIN rows
    BY DEF Category
  <2> QED
    BY <1>4, <2>1
<1>6. ASSUME NEW i \in Firsts(rows), NEW j \in Firsts(rows), NEW k,
             k \in Category(rows, i) \cap Category(rows, j)
      PROVE  i = j
  <2>1. i \in Category(rows, j) /\ j \in Category(rows, i)
    BY <1>2, <1>6 DEF Category
  <2>2. i <= j /\ j <= i /\ i \in Int /\ j \in Int
    BY <1>3, <2>1 DEF Firsts, IntSet
  <2> QED
    BY <2>2
<1> QED
  BY <1>1, <1>2, <1>3, <1>5, <1>6

LEMMA PartSum ==
  ASSUME NEW rows, IsRow(rows), NEW f \in [DOMAIN rows -> Int], NEW i
  PROVE  /\ FoldFunctionOnSet(LAMBDA x, y : x + y, 0, [j \in Category(rows, i) |-> f[j]],
                              Category(rows, i))
              = Balance(Category(rows, i), f)
         /\ Balance(Category(rows, i), f) \in Int
<1> DEFINE P == DOMAIN rows
           S == Category(rows, i)
           h == [j \in S |-> f[j]]
<1>1. S \in SUBSET P
  BY DEF Category
<1>2. IsFiniteSet(P)
  BY CategoriesPart
<1>3. f \in [P -> Int]
  OBVIOUS
<1> HIDE DEF P, S
<1>4. IsFiniteSet(S)
  BY <1>1, <1>2, FS_Subset
<1>5. h \in [S -> Int] /\ \A j \in S : f[j] = h[j]
  BY <1>1, <1>3
<1> HIDE DEF h
<1>6. FoldFunctionOnSet(LAMBDA x, y : x + y, 0, h, S) = Balance(S, h)
  BY <1>4, <1>5, SetFoldIsBalance
<1>7. Balance(S, f) = Balance(S, h)
  BY <1>1, <1>3, <1>5, SameAmounts
<1>8. Balance(S, f) \in Int
  BY <1>1, <1>2, <1>3, BalanceSplits
<1> QED
  BY <1>6, <1>7, <1>8 DEF S, h

LEMMA RollupAddsUp ==
  ASSUME NEW rows, IsRow(rows), NEW f \in [DOMAIN rows -> Int],
         NEW A, IsFiniteSet(A), NEW order \in Bijection(A, Firsts(rows)),
         NEW h \in [A -> Int], \A a \in A : h[a] = Balance(Category(rows, order[a]), f)
  PROVE  Balance(A, h) = Balance(DOMAIN rows, f)
<1> DEFINE P == DOMAIN rows
           F == Firsts(rows)
           B == [i \in F |-> Category(rows, i)]
           g == [i \in F |-> Balance(Category(rows, i), f)]
<1>1. IsFiniteSet(P) /\ IsFiniteSet(F)
  BY CategoriesPart
<1>2. B \in [F -> SUBSET P] /\ \A i \in F : B[i] = Category(rows, i)
  BY DEF Category
<1>3. g \in [F -> Int] /\ \A i \in F : g[i] = Balance(Category(rows, i), f)
  BY PartSum
<1>4. UNION {B[i] : i \in F} = P
  <2>1. UNION {Category(rows, i) : i \in F} = P
    BY CategoriesPart
  <2> QED
    BY <2>1
<1>5. \A i, j \in F : i # j => B[i] \cap B[j] = {}
  BY CategoriesPart
<1>6. \A a \in A : order[a] \in F
  BY DEF Bijection, Injection
<1>7. f \in [P -> Int] /\ order \in Bijection(A, F)
  OBVIOUS
<1> HIDE DEF P, F, B, g
<1>8. \A i \in F : g[i] = Balance(B[i], f)
  BY <1>2, <1>3
<1>9. Balance(UNION {B[i] : i \in F}, f) = Balance(F, g)
  BY <1>1, <1>2, <1>3, <1>5, <1>7, <1>8, PartsAddUp
<1>10. Balance(A, h) = Balance(F, g)
  <2>1. \A a \in A : h[a] = g[order[a]]
    BY <1>3, <1>6
  <2> QED
    BY <1>3, <1>7, <2>1, OrderOfAdding
<1> QED
  BY <1>4, <1>9, <1>10 DEF P

\* The places of the categories in the rollup.
Places(rows) == 1 .. Cardinality(Firsts(rows))
Sales(rows) == [i \in DOMAIN rows |-> rows[i].sale]

LEMMA PlacesAre ==
  ASSUME NEW rows, IsRow(rows), \A i \in DOMAIN rows : rows[i].net \in Int
  PROVE  /\ IsFiniteSet(Places(rows)) /\ ByProfit(rows) \in Bijection(Places(rows), Firsts(rows))
         /\ DOMAIN ByProfit(rows) = Places(rows)
         /\ \A i : TotalNet(Alike(rows, i)) = Balance(Category(rows, i), Nets(rows))
                   /\ TotalNet(Alike(rows, i)) \in Int
<1>1. ASSUME NEW i
      PROVE  /\ TotalNet(Alike(rows, i)) = Balance(Category(rows, i), Nets(rows))
             /\ TotalNet(Alike(rows, i)) \in Int
  <2> DEFINE S == Category(rows, i)
             v == Nets(rows)
  <2>1. v \in [DOMAIN rows -> Int]
    BY DEF Nets
  <2>2. \A j \in S : v[j] = rows[j].net
    BY DEF Nets, Category
  <2>3. [j \in S |-> v[j]] = [j \in S |-> rows[j].net]
    BY <2>2
  <2>4. TotalNet(Alike(rows, i)) = FoldFunctionOnSet(LAMBDA x, y : x + y, 0, [j \in S |-> rows[j].net], S)
    BY AlikeIs DEF TotalNet, SumOver, FoldFunction
  <2> HIDE DEF v
  <2>5. /\ FoldFunctionOnSet(LAMBDA x, y : x + y, 0, [j \in S |-> v[j]], S) = Balance(S, v)
        /\ Balance(S, v) \in Int
    BY <2>1, PartSum
  <2> HIDE DEF S
  <2> QED
    BY <2>3, <2>4, <2>5 DEF S, v
<1> DEFINE values == [i \in Firsts(rows) |-> -TotalNet(Alike(rows, i))]
<1>2. values \in [DOMAIN values -> Int] /\ DOMAIN values = Firsts(rows)
  BY <1>1
<1>3. IsFiniteSet(Firsts(rows)) /\ IntSet(Firsts(rows))
  BY CategoriesPart
<1>4. Sorted(values) = ByProfit(rows)
  BY DEF ByProfit
<1> HIDE DEF values
<1>5. Sorted(values) \in Bijection(Places(rows), Firsts(rows))
  BY <1>2, <1>3, SortedIs DEF Places
<1>6. DOMAIN Sorted(values) = Places(rows)
  BY <1>5 DEF Bijection, Injection
<1>7. IsFiniteSet(Places(rows))
  BY <1>3, FS_CardinalityType, FS_Interval DEF Places
<1> QED
  BY <1>1, <1>4, <1>5, <1>6, <1>7

LEMMA RevenueOfAlike ==
  ASSUME NEW rows, IsRow(rows), \A i \in DOMAIN rows : rows[i].sale \in Int
  PROVE  /\ \A i : TotalRevenue(Alike(rows, i)) = Balance(Category(rows, i), Sales(rows))
                   /\ TotalRevenue(Alike(rows, i)) \in Int
         /\ TotalRevenue(rows) = Balance(DOMAIN rows, Sales(rows))
<1> DEFINE v == Sales(rows)
<1>1. v \in [DOMAIN rows -> Int]
  BY DEF Sales
<1>2. ASSUME NEW i
      PROVE  /\ TotalRevenue(Alike(rows, i)) = Balance(Category(rows, i), v)
             /\ TotalRevenue(Alike(rows, i)) \in Int
  <2> DEFINE S == Category(rows, i)
  <2>2. \A j \in S : v[j] = rows[j].sale
    BY DEF Sales, Category
  <2>3. [j \in S |-> v[j]] = [j \in S |-> rows[j].sale]
    BY <2>2
  <2>4. TotalRevenue(Alike(rows, i))
          = FoldFunctionOnSet(LAMBDA x, y : x + y, 0, [j \in S |-> rows[j].sale], S)
    BY AlikeIs DEF TotalRevenue, SumOver, FoldFunction
  <2> HIDE DEF v
  <2>5. /\ FoldFunctionOnSet(LAMBDA x, y : x + y, 0, [j \in S |-> v[j]], S) = Balance(S, v)
        /\ Balance(S, v) \in Int
    BY <1>1, PartSum
  <2> HIDE DEF S
  <2> QED
    BY <2>3, <2>4, <2>5 DEF S, v
<1>3. TotalRevenue(rows) = FoldFunctionOnSet(LAMBDA x, y : x + y, 0, v, DOMAIN rows)
  BY DEF TotalRevenue, SumOver, FoldFunction, Sales
<1> HIDE DEF v
<1>4. FoldFunctionOnSet(LAMBDA x, y : x + y, 0, v, DOMAIN rows) = Balance(DOMAIN rows, v)
  BY <1>1, RowSum
<1> QED
  BY <1>2, <1>3, <1>4 DEF v

LEMMA RollupIs ==
  ASSUME NEW rows, IsRow(rows), \A i \in DOMAIN rows : rows[i].net \in Int
  PROVE  /\ DOMAIN Rollup(rows) = Places(rows)
         /\ \A k \in Places(rows) :
              /\ Rollup(rows)[k].net = TotalNet(Alike(rows, ByProfit(rows)[k]))
              /\ Rollup(rows)[k].revenue = TotalRevenue(Alike(rows, ByProfit(rows)[k]))
              /\ Rollup(rows)[k].flips = Cardinality(Category(rows, ByProfit(rows)[k]))
<1> DEFINE firsts == {i \in DOMAIN rows : \A j \in DOMAIN Alike(rows, i) : i <= j}
           order == Sorted([i \in firsts |-> -TotalNet(Alike(rows, i))])
           row(i) == [category |-> rows[i].category, flips |-> Size(Alike(rows, i)),
                      cost |-> SumOver(Alike(rows, i), LAMBDA f : f.cost),
                      revenue |-> TotalRevenue(Alike(rows, i)), net |-> TotalNet(Alike(rows, i))]
<1>1. Rollup(rows) = [k \in DOMAIN order |-> row(order[k])]
  BY DEF Rollup
<1>2. \A i : DOMAIN Alike(rows, i) = Category(rows, i)
  BY AlikeIs
<1>3. firsts = Firsts(rows)
  BY <1>2 DEF Firsts
<1>4. order = ByProfit(rows)
  BY <1>3 DEF ByProfit
<1>5. \A i : /\ row(i).net = TotalNet(Alike(rows, i))
             /\ row(i).revenue = TotalRevenue(Alike(rows, i))
             /\ row(i).flips = Cardinality(Category(rows, i))
  BY <1>2 DEF Size
<1> HIDE DEF firsts, order, row
<1>6. DOMAIN order = Places(rows)
  BY <1>4, PlacesAre
<1> QED
  BY <1>1, <1>4, <1>5, <1>6

LEMMA RollupTotals ==
  ASSUME NEW rows, IsRow(rows),
         \A i \in DOMAIN rows : rows[i].net \in Int /\ rows[i].sale \in Int
  PROVE  /\ SumOver(Rollup(rows), LAMBDA c : c.net) = TotalNet(rows)
         /\ SumOver(Rollup(rows), LAMBDA c : c.revenue) = TotalRevenue(rows)
         /\ SumOver(Rollup(rows), LAMBDA c : c.flips) = Len(rows)
<1> DEFINE A == Places(rows)
           D == DOMAIN rows
           order == ByProfit(rows)
           net == [k \in A |-> TotalNet(Alike(rows, order[k]))]
           revenue == [k \in A |-> TotalRevenue(Alike(rows, order[k]))]
           count == [k \in A |-> Cardinality(Category(rows, order[k]))]
           ones == [i \in D |-> 1]
<1>1. IsFiniteSet(A) /\ order \in Bijection(A, Firsts(rows))
  BY PlacesAre
<1>2. /\ DOMAIN Rollup(rows) = A
      /\ \A k \in A : /\ Rollup(rows)[k].net = TotalNet(Alike(rows, order[k]))
                      /\ Rollup(rows)[k].revenue = TotalRevenue(Alike(rows, order[k]))
                      /\ Rollup(rows)[k].flips = Cardinality(Category(rows, order[k]))
  BY RollupIs
<1>3. IsFiniteSet(D)
  BY CategoriesPart
<1>4. Nets(rows) \in [D -> Int] /\ Sales(rows) \in [D -> Int] /\ ones \in [D -> Int]
  BY DEF Nets, Sales
<1>5. /\ [k \in DOMAIN Rollup(rows) |-> Rollup(rows)[k].net] = net
      /\ [k \in DOMAIN Rollup(rows) |-> Rollup(rows)[k].revenue] = revenue
      /\ [k \in DOMAIN Rollup(rows) |-> Rollup(rows)[k].flips] = count
  <2> HIDE DEF A, order
  <2> QED
    BY <1>2
<1>6. /\ SumOver(Rollup(rows), LAMBDA c : c.net)
           = FoldFunctionOnSet(LAMBDA x, y : x + y, 0, net, A)
      /\ SumOver(Rollup(rows), LAMBDA c : c.revenue)
           = FoldFunctionOnSet(LAMBDA x, y : x + y, 0, revenue, A)
      /\ SumOver(Rollup(rows), LAMBDA c : c.flips)
           = FoldFunctionOnSet(LAMBDA x, y : x + y, 0, count, A)
  <2> HIDE DEF A, order, net, revenue, count
  <2> QED
    BY <1>2, <1>5 DEF SumOver, FoldFunction
<1>7. /\ net \in [A -> Int] /\ \A k \in A : net[k] = Balance(Category(rows, order[k]), Nets(rows))
  <2>1. \A i : /\ TotalNet(Alike(rows, i)) = Balance(Category(rows, i), Nets(rows))
               /\ TotalNet(Alike(rows, i)) \in Int
    BY PlacesAre
  <2> HIDE DEF A, order
  <2> QED
    BY <2>1
<1>8. /\ revenue \in [A -> Int]
      /\ \A k \in A : revenue[k] = Balance(Category(rows, order[k]), Sales(rows))
  <2>1. \A i : /\ TotalRevenue(Alike(rows, i)) = Balance(Category(rows, i), Sales(rows))
               /\ TotalRevenue(Alike(rows, i)) \in Int
    BY RevenueOfAlike
  <2> HIDE DEF A, order
  <2> QED
    BY <2>1
<1>9. /\ count \in [A -> Int]
      /\ \A k \in A : count[k] = Balance(Category(rows, order[k]), ones)
  <2>1. \A i \in D : ones[i] = 1
    OBVIOUS
  <2>2. ASSUME NEW i
        PROVE  /\ Cardinality(Category(rows, i)) \in Int
               /\ Cardinality(Category(rows, i)) = Balance(Category(rows, i), ones)
    <3> DEFINE C == Category(rows, i)
    <3>1. C \in SUBSET D
      BY DEF Category
    <3> HIDE DEF C, D, ones
    <3>2. Balance(C, ones) = Cardinality(C)
      BY <1>3, <1>4, <2>1, <3>1, OnesAddUp
    <3>3. Cardinality(C) \in Nat
      BY <1>3, <3>1, FS_Subset, FS_CardinalityType
    <3> QED
      BY <3>2, <3>3 DEF C
  <2> HIDE DEF A, order, ones
  <2> QED
    BY <2>2
<1>10. Balance(D, ones) = Len(rows)
  <2>1. \A i \in D : ones[i] = 1
    OBVIOUS
  <2> HIDE DEF ones
  <2>2. D \in SUBSET D
    OBVIOUS
  <2>3. D = 1 .. Len(rows) /\ Len(rows) \in Nat
    BY RowIs
  <2>4. Cardinality(1 .. Len(rows)) = Len(rows)
    BY <2>3, FS_Interval
  <2>5. Cardinality(D) = Len(rows)
    BY <2>3, <2>4
  <2> HIDE DEF D
  <2> QED
    BY <1>3, <1>4, <2>1, <2>2, <2>5, OnesAddUp
<1> HIDE DEF A, order, net, revenue, count, ones
<1>11. /\ Balance(A, net) = Balance(D, Nets(rows))
       /\ Balance(A, revenue) = Balance(D, Sales(rows))
       /\ Balance(A, count) = Balance(D, ones)
  BY <1>1, <1>4, <1>7, <1>8, <1>9, RollupAddsUp
<1> HIDE DEF D
<1>12. /\ FoldFunctionOnSet(LAMBDA x, y : x + y, 0, net, A) = Balance(A, net)
       /\ FoldFunctionOnSet(LAMBDA x, y : x + y, 0, revenue, A) = Balance(A, revenue)
       /\ FoldFunctionOnSet(LAMBDA x, y : x + y, 0, count, A) = Balance(A, count)
  BY <1>1, <1>7, <1>8, <1>9, SetFoldIsBalance
<1>13. Balance(D, Nets(rows)) = TotalNet(rows)
  <2>1. TotalNet(rows) = SeqSum(Nets(rows))
    BY NetIsSum
  <2>2. SeqSum(Nets(rows)) = Balance(DOMAIN rows, Nets(rows))
    BY <1>4, RowSum DEF D
  <2> QED
    BY <2>1, <2>2 DEF D
<1>14. Balance(D, Sales(rows)) = TotalRevenue(rows)
  BY RevenueOfAlike DEF D
<1> QED
  BY <1>6, <1>10, <1>11, <1>12, <1>13, <1>14

(***************************************************************************)
(* A sale is in, below or above its band, and in one only.                 *)
(***************************************************************************)
LEMMA CalibrationIs ==
  ASSUME NEW rows, IsRow(rows),
         \A i \in DOMAIN rows : rows[i].sale \in Int /\ Banded(rows[i])
  PROVE  /\ Calibration(rows).n = Len(rows)
         /\ Calibration(rows).inside = Cardinality({i \in DOMAIN rows : Inside(rows[i])})
         /\ Calibration(rows).n = Calibration(rows).inside + Calibration(rows).below
                                    + Calibration(rows).above
<1> DEFINE D == DOMAIN rows
           I == {i \in D : Inside(rows[i])}
           B == {i \in D : rows[i].sale < rows[i].p10}
           A == {i \in D : rows[i].sale > rows[i].p90}
<1>1. /\ Calibration(rows).n = Len(rows) /\ Calibration(rows).inside = Cardinality(I)
      /\ Calibration(rows).below = Cardinality(B) /\ Calibration(rows).above = Cardinality(A)
  BY DEF Calibration, Size, RestrictValues, Restrict
<1>2. /\ I \cup B \cup A = D /\ I \cap B = {} /\ (I \cup B) \cap A = {}
  BY DEF Inside, Banded
<1>3. IsFiniteSet(D) /\ Cardinality(D) = Len(rows)
  BY RowIsFinite
<1>4. I \in SUBSET D /\ B \in SUBSET D /\ A \in SUBSET D /\ I \cup B \in SUBSET D
  OBVIOUS
<1> HIDE DEF D, I, B, A
<1>5. /\ IsFiniteSet(I) /\ IsFiniteSet(B) /\ IsFiniteSet(A) /\ IsFiniteSet(I \cup B)
      /\ Cardinality(I) \in Nat /\ Cardinality(B) \in Nat /\ Cardinality(A) \in Nat
  BY <1>3, <1>4, FS_Subset, FS_CardinalityType
<1>6. Cardinality({}) = 0
  BY FS_EmptySet
<1>7. Cardinality(I \cup B) = Cardinality(I) + Cardinality(B)
  <2>1. Cardinality(I \cup B) = Cardinality(I) + Cardinality(B) - Cardinality(I \cap B)
    BY <1>5, FS_Union
  <2>2. Cardinality(I \cap B) = 0
    BY <1>2, <1>6
  <2> QED
    BY <1>5, <2>1, <2>2
<1>8. Cardinality(D) = Cardinality(I \cup B) + Cardinality(A)
  <2>1. Cardinality((I \cup B) \cup A)
          = Cardinality(I \cup B) + Cardinality(A) - Cardinality((I \cup B) \cap A)
    BY <1>5, FS_Union
  <2>2. Cardinality((I \cup B) \cap A) = 0 /\ (I \cup B) \cup A = D
    BY <1>2, <1>6
  <2> DEFINE x == Cardinality(I \cup B)
             y == Cardinality(A)
             z == Cardinality((I \cup B) \cap A)
  <2>3. Cardinality(D) = x + y - z /\ z = 0
    BY <2>1, <2>2
  <2>4. x \in Int /\ y \in Int
    BY <1>5, FS_CardinalityType
  <2> HIDE DEF x, y, z
  <2>5. Cardinality(D) = x + y
    BY <2>3, <2>4
  <2> QED
    BY <2>5 DEF x, y
<1> QED
  BY <1>1, <1>3, <1>5, <1>7, <1>8 DEF I, D

(***************************************************************************)
(* The drawdown: short of ruin, a fall to an equity is the deeper the      *)
(* higher it is from, and the peak is as high as any day before.           *)
(***************************************************************************)
LEMMA ShareIsInt ==
  ASSUME NEW part \in Int, NEW whole \in Int
  PROVE  Share(part, whole) \in Int
<1>1. CASE whole > 0
  <2> DEFINE n == part * 10000
  <2>1. n \in Int /\ Share(part, whole) = n \div whole
    BY <1>1 DEF Share
  <2> HIDE DEF n
  <2> QED
    BY <1>1, <2>1, DivisionIs
<1>2. CASE ~(whole > 0)
  BY <1>2 DEF Share
<1> QED
  BY <1>1, <1>2

LEMMA DeeperFromHigher ==
  ASSUME NEW low \in Nat, NEW from \in Nat \ {0}, NEW peak \in Int, from <= peak
  PROVE  Share(from - low, from) <= Share(peak - low, peak)
<1> DEFINE a == (from - low) * 10000
           b == (peak - low) * 10000
           q == a \div from
           r == b \div peak
<1>1. a \in Int /\ b \in Int /\ peak \in Nat \ {0}
  OBVIOUS
<1>2. a = 10000 * from - 10000 * low /\ b = 10000 * peak - 10000 * low
  OBVIOUS
<1>3. Share(from - low, from) = q /\ Share(peak - low, peak) = r
  BY DEF Share
<1>4. q \in Int /\ q * from <= a
  <2> HIDE DEF a
  <2> QED
    BY <1>1, DivisionIs
<1>5. r \in Int /\ b < r * peak + peak
  <2> HIDE DEF b
  <2> QED
    BY <1>1, DivisionIs
<1> HIDE DEF a, b, q, r
<1>6. SUFFICES ASSUME r + 1 <= q PROVE FALSE
  BY <1>3, <1>4, <1>5
<1> DEFINE left == 10000 - q
<1>7. left \in Int
  BY <1>4
<1>8. left >= 0
  <2> SUFFICES ASSUME q > 10000 PROVE FALSE
    BY <1>4
  <2>1. q * from > 10000 * from
    BY <1>4
  <2> QED
    BY <1>1, <1>2, <1>4, <2>1
<1>9. left * peak >= left * from
  <2>1. left * (peak - from) >= 0
    BY <1>7, <1>8
  <2>2. left * (peak - from) = left * peak - left * from
    BY <1>7
  <2> QED
    BY <1>7, <2>1, <2>2
<1>10. left * from = 10000 * from - q * from /\ left * peak = 10000 * peak - q * peak
  BY <1>4
<1>11. q * peak >= r * peak + peak
  <2>1. (q - r - 1) * peak >= 0
    BY <1>1, <1>4, <1>5, <1>6
  <2>2. (q - r - 1) * peak = q * peak - r * peak - peak
    BY <1>1, <1>4, <1>5
  <2> QED
    BY <1>1, <1>4, <1>5, <2>1, <2>2
<1> DEFINE qf == q * from
           qp == q * peak
           rp == r * peak
           lf == left * from
           lp == left * peak
<1>12. qf \in Int /\ qp \in Int /\ rp \in Int /\ lf \in Int /\ lp \in Int
  BY <1>1, <1>4, <1>5, <1>7
<1> HIDE DEF qf, qp, rp, lf, lp, left
<1>13. /\ qf <= a /\ b < rp + peak /\ lp >= lf /\ lf = 10000 * from - qf
       /\ lp = 10000 * peak - qp /\ qp >= rp + peak
  BY <1>4, <1>5, <1>9, <1>10, <1>11 DEF qf, qp, rp, lf, lp
<1> QED
  BY <1>1, <1>2, <1>12, <1>13

LEMMA DrawdownIs ==
  ASSUME NEW rows, IsRow(rows), \A i \in DOMAIN rows : rows[i].equity \in Int,
         NEW a \in DOMAIN rows, NEW b \in DOMAIN rows, a < b,
         rows[a].equity > 0, rows[b].equity >= 0
  PROVE  Share(rows[a].equity - rows[b].equity, rows[a].equity) <= MaxDrawdown(rows)
<1> DEFINE n == Len(rows)
           worth == [i \in 1 .. n |-> rows[i].equity]
           upTo(d) == {0} \cup {rows[i].equity : i \in 1 .. d}
           peak(d) == PeakAt(rows, d)
           fall(d) == Share(peak(d) - rows[d].equity, peak(d))
           falls == {0} \cup {fall(d) : d \in DOMAIN rows}
<1>1. n \in Nat /\ DOMAIN rows = 1 .. n
  BY RowIs
<1>2. ASSUME NEW d \in DOMAIN rows
      PROVE  peak(d) \in Int /\ \A i \in 1 .. d : rows[i].equity <= peak(d)
  <2> DEFINE T == {rows[i].equity : i \in 1 .. d}
  <2>1. d \in Nat /\ 1 .. d \subseteq DOMAIN rows
    BY <1>1
  <2>2. IsFiniteSet(T)
    <3> DEFINE f == [i \in 1 .. d |-> rows[i].equity]
    <3>1. f \in Surjection(1 .. d, T)
      BY DEF Surjection
    <3>2. IsFiniteSet(1 .. d)
      BY <2>1, FS_Interval
    <3> HIDE DEF f, T
    <3> QED
      BY <3>1, <3>2, FS_Surjection
  <2>3. T \subseteq Int
    BY <2>1
  <2>4. upTo(d) = T \cup {0} /\ \A i \in 1 .. d : rows[i].equity \in T
    OBVIOUS
  <2>5. peak(d) = Max(upTo(d))
    BY DEF PeakAt
  <2> HIDE DEF T, upTo, peak
  <2>6. IsFiniteSet(upTo(d)) /\ IntSet(upTo(d)) /\ upTo(d) # {}
    BY <2>2, <2>3, <2>4, FS_AddElement DEF IntSet
  <2>7. Max(upTo(d)) \in upTo(d) /\ \A x \in upTo(d) : x <= Max(upTo(d))
    BY <2>6, Extremes
  <2>8. peak(d) \in Int
    BY <2>5, <2>6, <2>7 DEF IntSet
  <2>9. ASSUME NEW i \in 1 .. d PROVE rows[i].equity <= peak(d)
    BY <2>4, <2>5, <2>7
  <2> QED
    BY <2>8, <2>9
<1>3. fall(b) \in Int /\ MaxDrawdown(rows) \in Int /\ fall(b) <= MaxDrawdown(rows)
  <2> DEFINE T == {fall(d) : d \in DOMAIN rows}
  <2>1. ASSUME NEW d \in DOMAIN rows PROVE fall(d) \in Int
    <3>1. peak(d) \in Int
      BY <1>2
    <3>2. rows[d].equity \in Int
      OBVIOUS
    <3> HIDE DEF peak
    <3> QED
      BY <3>1, <3>2, ShareIsInt
  <2>2. MaxDrawdown(rows) = Max(falls)
    BY DEF MaxDrawdown
  <2> HIDE DEF fall
  <2>3. IsFiniteSet(T)
    <3> DEFINE f == [d \in DOMAIN rows |-> fall(d)]
    <3>1. f \in Surjection(DOMAIN rows, T)
      BY DEF Surjection
    <3>2. IsFiniteSet(DOMAIN rows)
      BY CategoriesPart
    <3> HIDE DEF f, T
    <3> QED
      BY <3>1, <3>2, FS_Surjection
  <2>4. T \subseteq Int /\ fall(b) \in T /\ falls = T \cup {0}
    BY <2>1
  <2> HIDE DEF T, falls
  <2>5. IsFiniteSet(falls) /\ IntSet(falls) /\ falls # {}
    BY <2>3, <2>4, FS_AddElement DEF IntSet
  <2>6. Max(falls) \in falls /\ fall(b) <= Max(falls)
    BY <2>4, <2>5, Extremes
  <2> QED
    BY <2>1, <2>2, <2>5, <2>6 DEF IntSet
<1>4. rows[a].equity <= peak(b) /\ peak(b) \in Int
  <2>1. a \in 1 .. b
    BY <1>1
  <2> HIDE DEF peak
  <2> QED
    BY <1>2, <2>1
<1>5. Share(rows[a].equity - rows[b].equity, rows[a].equity) <= fall(b)
  <2> DEFINE from == rows[a].equity
             low == rows[b].equity
             top == peak(b)
  <2>1. from \in Nat \ {0} /\ low \in Nat /\ top \in Int /\ from <= top /\ fall(b) = Share(top - low, top)
    BY <1>4
  <2> HIDE DEF from, low, top, fall, peak
  <2>2. Share(from - low, from) <= Share(top - low, top)
    BY <2>1, DeeperFromHigher
  <2> QED
    BY <2>1, <2>2 DEF from, low
<1>6. Share(rows[a].equity - rows[b].equity, rows[a].equity) \in Int
  <2>1. rows[a].equity - rows[b].equity \in Int /\ rows[a].equity \in Int
    OBVIOUS
  <2> QED
    BY <2>1, ShareIsInt
<1> HIDE DEF fall
<1> QED
  BY <1>3, <1>5, <1>6

(***************************************************************************)
(* A quantile lies between the two values it is interpolated from, and     *)
(* further up the line none is lower.                                      *)
(***************************************************************************)
Ascends(at, n) == \A a, b \in 1 .. n : a < b => at[a] <= at[b]
Interpolated(at, idx) ==
  10 * at[1 + idx \div 10]
    + (IF idx % 10 = 0 THEN 0 ELSE (at[1 + idx \div 10 + 1] - at[1 + idx \div 10]) * (idx % 10))

LEMMA TenthsAre ==
  ASSUME NEW i \in Nat
  PROVE  /\ i \div 10 \in Nat /\ i % 10 \in 0 .. 9 /\ i = 10 * (i \div 10) + (i % 10)
<1>1. i \div 10 \in Nat
  OBVIOUS
<1>2. i % 10 \in 0 .. 9
  OBVIOUS
<1>3. i = 10 * (i \div 10) + (i % 10)
  OBVIOUS
<1> QED
  BY <1>1, <1>2, <1>3

LEMMA BetweenIs ==
  ASSUME NEW x \in Int, NEW y \in Int, x <= y, NEW r \in 0 .. 9, NEW s \in 0 .. 9, r <= s
  PROVE  /\ (y - x) * r \in Int /\ (y - x) * s \in Int
         /\ 0 <= (y - x) * r /\ (y - x) * r <= (y - x) * s /\ (y - x) * s <= 10 * (y - x)
<1> DEFINE w == y - x
<1>1. w \in Nat
  OBVIOUS
<1> HIDE DEF w
<1>2. w * r \in Int /\ w * s \in Int /\ 0 <= w * r /\ w * r <= w * s /\ w * s <= 10 * w
  <2>1. w * (s - r) >= 0 /\ w * (10 - s) >= 0 /\ w * r >= 0
    BY <1>1
  <2>2. w * (s - r) = w * s - w * r /\ w * (10 - s) = 10 * w - w * s
    BY <1>1
  <2>3. w * s \in Int /\ w * r \in Int
    BY <1>1
  <2> QED
    BY <1>1, <2>1, <2>2, <2>3
<1> QED
  BY <1>2 DEF w

LEMMA QuantilesGrow ==
  ASSUME NEW m \in Nat, NEW at \in [1 .. m + 1 -> Int], Ascends(at, m + 1),
         NEW i \in Nat, NEW j \in Nat, i <= j, j <= 9 * m
  PROVE  Interpolated(at, i) <= Interpolated(at, j)
<1> DEFINE p == i \div 10
           q == j \div 10
           r == i % 10
           s == j % 10
<1>1. /\ p \in Nat /\ q \in Nat /\ r \in 0 .. 9 /\ s \in 0 .. 9
      /\ i = 10 * p + r /\ j = 10 * q + s
  BY TenthsAre
<1>2. /\ Interpolated(at, i) = 10 * at[1 + p] + (IF r = 0 THEN 0 ELSE (at[1 + p + 1] - at[1 + p]) * r)
      /\ Interpolated(at, j) = 10 * at[1 + q] + (IF s = 0 THEN 0 ELSE (at[1 + q + 1] - at[1 + q]) * s)
  BY DEF Interpolated
<1> HIDE DEF p, q, r, s
<1>3. \A a, b \in 1 .. m + 1 : a <= b => at[a] <= at[b] /\ at[a] \in Int /\ at[b] \in Int
  <2> SUFFICES ASSUME NEW a \in 1 .. m + 1, NEW b \in 1 .. m + 1, a <= b
               PROVE  at[a] <= at[b] /\ at[a] \in Int /\ at[b] \in Int
    OBVIOUS
  <2>1. at[a] \in Int /\ at[b] \in Int
    OBVIOUS
  <2>2. CASE a = b
    BY <2>1, <2>2
  <2>3. CASE a < b
    BY <2>1, <2>3 DEF Ascends
  <2> QED
    BY <2>1, <2>2, <2>3
<1>4. 1 + p \in 1 .. m + 1 /\ 1 + q \in 1 .. m + 1 /\ p <= q /\ 1 + p <= 1 + q
  BY <1>1
<1>5. r # 0 => 1 + p + 1 \in 1 .. m + 1
  BY <1>1
<1>6. s # 0 => 1 + q + 1 \in 1 .. m + 1
  BY <1>1
<1> DEFINE x == at[1 + p]
           y == at[1 + p + 1]
           u == at[1 + q]
           v == at[1 + q + 1]
<1>7. x \in Int /\ u \in Int /\ x <= u
  BY <1>3, <1>4
<1>8. s # 0 => v \in Int /\ u <= v
  BY <1>3, <1>4, <1>6
<1>9. r # 0 => y \in Int /\ x <= y
  BY <1>3, <1>4, <1>5
<1>10. Interpolated(at, j) \in Int /\ 10 * u <= Interpolated(at, j)
  <2>1. CASE s = 0
    BY <1>2, <1>7, <2>1
  <2>2. CASE s # 0
    <3>1. u \in Int /\ v \in Int /\ u <= v /\ Interpolated(at, j) = 10 * u + (v - u) * s
      BY <1>2, <1>7, <1>8, <2>2
    <3> HIDE DEF u, v
    <3>2. (v - u) * s \in Int /\ 0 <= (v - u) * s
      BY <1>1, <3>1, BetweenIs
    <3> DEFINE d == (v - u) * s
    <3> HIDE DEF d
    <3>3. d \in Int /\ 0 <= d /\ Interpolated(at, j) = 10 * u + d
      BY <3>1, <3>2 DEF d
    <3>4. Interpolated(at, j) \in Int /\ 10 * u <= Interpolated(at, j)
      BY <3>1, <3>3
    <3> QED
      BY <3>4
  <2> QED
    BY <2>1, <2>2
<1>11. CASE r = 0
  <2>1. Interpolated(at, i) = 10 * x
    BY <1>2, <1>7, <1>11
  <2> HIDE DEF x, u
  <2> QED
    BY <1>7, <1>10, <2>1
<1>12. CASE r # 0 /\ p < q
  <2>1. x \in Int /\ y \in Int /\ x <= y /\ Interpolated(at, i) = 10 * x + (y - x) * r
    BY <1>2, <1>7, <1>9, <1>12
  <2>2. y <= u
    <3>1. 1 + p + 1 <= 1 + q
      BY <1>1, <1>12
    <3> QED
      BY <1>3, <1>4, <1>5, <1>12, <3>1
  <2> HIDE DEF x, y, u
  <2>3. (y - x) * r \in Int /\ (y - x) * r <= 10 * (y - x)
    BY <1>1, <2>1, BetweenIs
  <2> DEFINE d == (y - x) * r
  <2> HIDE DEF d
  <2>4. d \in Int /\ d <= 10 * (y - x) /\ Interpolated(at, i) = 10 * x + d
    BY <2>1, <2>3 DEF d
  <2> QED
    BY <1>7, <1>10, <2>1, <2>2, <2>4
<1>13. CASE r # 0 /\ p = q
  <2>1. s # 0 /\ r <= s
    BY <1>1, <1>13
  <2>2. /\ x \in Int /\ y \in Int /\ x <= y
        /\ Interpolated(at, i) = 10 * x + (y - x) * r
        /\ Interpolated(at, j) = 10 * x + (y - x) * s
    BY <1>2, <1>7, <1>9, <1>13, <2>1
  <2> HIDE DEF x, y
  <2>3. (y - x) * r \in Int /\ (y - x) * s \in Int /\ (y - x) * r <= (y - x) * s
    BY <1>1, <2>1, <2>2, BetweenIs
  <2> DEFINE d == (y - x) * r
             e == (y - x) * s
  <2> HIDE DEF d, e
  <2>4. /\ d \in Int /\ e \in Int /\ d <= e
        /\ Interpolated(at, i) = 10 * x + d /\ Interpolated(at, j) = 10 * x + e
    BY <2>2, <2>3 DEF d, e
  <2> QED
    BY <2>2, <2>4
<1> QED
  <2>1. p < q \/ p = q
    BY <1>1, <1>4
  <2> QED
    BY <2>1, <1>11, <1>12, <1>13

LEMMA HoldsAscend ==
  ASSUME NEW rows, IsRow(rows), \A i \in DOMAIN rows : rows[i].hold \in Int
  PROVE  HoldQuantile(rows, 5) <= HoldQuantile(rows, 9)
<1> DEFINE n == Len(rows)
           hold == [i \in DOMAIN rows |-> rows[i].hold]
           s == Sorted(hold)
           at == [k \in 1 .. n |-> rows[s[k]].hold]
<1>1. n \in Nat /\ DOMAIN rows = 1 .. n
  BY RowIs
<1>2. CASE rows = <<>>
  <2>1. HoldQuantile(rows, 5) = 0 /\ HoldQuantile(rows, 9) = 0
    BY <1>2 DEF HoldQuantile
  <2> QED
    BY <2>1
<1>3. CASE rows # <<>>
  <2>1. n # 0
    BY <1>3, EmptySeq DEF IsRow
  <2>2. DOMAIN hold = 1 .. n /\ hold \in [1 .. n -> Int] /\ \A i \in 1 .. n : hold[i] = rows[i].hold
    BY <1>1
  <2>3. IsFiniteSet(1 .. n) /\ Cardinality(1 .. n) = n /\ IntSet(1 .. n)
    BY <1>1, FS_Interval DEF IntSet
  <2> HIDE DEF hold
  <2>4. /\ Sorted(hold) \in Bijection(1 .. n, 1 .. n)
        /\ \A a, b \in 1 .. n : a < b => hold[Sorted(hold)[a]] <= hold[Sorted(hold)[b]]
    BY <2>2, <2>3, SortedIs
  <2>5. \A k \in 1 .. n : s[k] \in 1 .. n /\ at[k] = hold[s[k]]
    <3>1. \A k \in 1 .. n : s[k] \in 1 .. n
      BY <2>4 DEF Bijection, Injection
    <3> HIDE DEF s
    <3> QED
      BY <2>2, <3>1
  <2>6. at \in [1 .. n -> Int]
    BY <2>2, <2>5
  <2>7. Ascends(at, n)
    BY <2>4, <2>5 DEF Ascends
  <2> DEFINE m == n - 1
             Quantile(tenths) == Interpolated(at, tenths * m)
  <2>8. m \in Nat /\ n = m + 1
    BY <1>1, <2>1
  <2>9. ASSUME NEW tenths \in 1 .. 9 PROVE HoldQuantile(rows, tenths) = Quantile(tenths)
    <3> DEFINE idx == tenths * m
               lo == 1 + idx \div 10
               value(k) == rows[s[k]].hold
    <3>1. HoldQuantile(rows, tenths)
            = 10 * value(lo) + (IF idx % 10 = 0 THEN 0 ELSE (value(lo + 1) - value(lo)) * (idx % 10))
      BY <1>3 DEF HoldQuantile, hold
    <3>2. idx \in Nat /\ idx <= 9 * m
      BY <2>8
    <3>3. lo \in 1 .. n /\ (idx % 10 # 0 => lo + 1 \in 1 .. n)
      <4> HIDE DEF idx, m
      <4>1. /\ idx \div 10 \in Nat /\ idx % 10 \in 0 .. 9
            /\ idx = 10 * (idx \div 10) + (idx % 10)
        BY <3>2, TenthsAre
      <4> QED
        BY <2>8, <3>2, <4>1
    <3>4. \A k \in 1 .. n : at[k] = value(k)
      OBVIOUS
    <3> HIDE DEF at, value, idx
    <3>5. HoldQuantile(rows, tenths) = Interpolated(at, idx)
      BY <3>1, <3>3, <3>4 DEF Interpolated
    <3> QED
      BY <3>5 DEF idx
  <2> HIDE DEF at, m
  <2>10. Interpolated(at, 5 * m) <= Interpolated(at, 9 * m)
    <3> DEFINE i == 5 * m
               j == 9 * m
    <3>1. i \in Nat /\ j \in Nat /\ i <= j /\ j <= 9 * m
      BY <2>8
    <3>2. at \in [1 .. m + 1 -> Int] /\ Ascends(at, m + 1)
      BY <2>6, <2>7, <2>8
    <3> HIDE DEF i, j
    <3>3. Interpolated(at, i) <= Interpolated(at, j)
      BY <2>8, <3>1, <3>2, QuantilesGrow
    <3> QED
      BY <3>3 DEF i, j
  <2> QED
    BY <2>9, <2>10
<1> QED
  BY <1>2, <1>3

\* What the page is given, named by what it was computed from.
LEMMA PageIs ==
  ASSUME NEW days, IsRow(daily), NEW t, t = ComputeTearsheet(daily, flips, contribs, days),
         NEW page, page = Analytics(daily, t)
  PROVE  /\ page.kpis.netProfit = TotalNet(flips)
         /\ page.kpis.totalContributions = TotalContributions(contribs)
         /\ page.kpis.maxDrawdown = MaxDrawdown(daily)
         /\ page.kpis.medianHold = HoldQuantile(flips, 5)
         /\ page.kpis.p90Hold = HoldQuantile(flips, 9)
         /\ page.categories = Rollup(flips) /\ t.totalRevenue = TotalRevenue(flips)
         /\ page.calibration.n = Calibration(flips).n
         /\ t.calibration = Calibration(flips)
         /\ {i \in DOMAIN t.points : t.points[i].inside} = {i \in DOMAIN flips : Inside(flips[i])}
         /\ DOMAIN page.equity = DOMAIN daily /\ Len(page.equity) = Len(daily)
         /\ \A d \in DOMAIN daily : page.equity[d].equity = daily[d].equity
<1>1. /\ page.kpis.netProfit = t.netProfit /\ page.kpis.totalContributions = t.totalContributions
      /\ page.kpis.maxDrawdown = t.maxDrawdown /\ page.kpis.medianHold = t.medianHold
      /\ page.kpis.p90Hold = t.p90Hold /\ page.categories = t.categories
      /\ page.calibration.n = t.calibration.n
  BY DEF Analytics
<1>2. page.equity = [d \in DOMAIN daily |-> [day |-> d - 1, equity |-> daily[d].equity,
                                             inventory |-> daily[d].inventory,
                                             cash |-> daily[d].equity - daily[d].inventory]]
  BY DEF Analytics
<1>3. /\ t.netProfit = TotalNet(flips) /\ t.totalContributions = TotalContributions(contribs)
      /\ t.maxDrawdown = MaxDrawdown(daily) /\ t.medianHold = HoldQuantile(flips, 5)
      /\ t.p90Hold = HoldQuantile(flips, 9) /\ t.categories = Rollup(flips)
      /\ t.totalRevenue = TotalRevenue(flips) /\ t.calibration = Calibration(flips)
      /\ t.points = [i \in DOMAIN flips |-> [realized |-> flips[i].sale, p10 |-> flips[i].p10,
                                             p90 |-> flips[i].p90, inside |-> Inside(flips[i])]]
  BY DEF ComputeTearsheet
<1>4. {i \in DOMAIN t.points : t.points[i].inside} = {i \in DOMAIN flips : Inside(flips[i])}
  BY <1>3
<1>5. DOMAIN page.equity = DOMAIN daily /\ \A d \in DOMAIN daily : page.equity[d].equity = daily[d].equity
  BY <1>2
<1>6. Len(page.equity) = Len(daily)
  <2> DEFINE n == Len(daily)
             curve == page.equity
             R == {curve[d] : d \in 1 .. n}
  <2>1. n \in Nat /\ DOMAIN daily = 1 .. n
    BY RowIs
  <2>2. curve = [d \in 1 .. n |-> curve[d]]
    BY <1>2, <2>1
  <2> HIDE DEF n, curve
  <2>3. curve \in [1 .. n -> R]
    BY <2>2
  <2>4. curve \in Seq(R) /\ Len(curve) = n
    BY <2>1, <2>3
  <2> QED
    BY <2>4 DEF n, curve
<1> QED
  BY <1>1, <1>3, <1>4, <1>5, <1>6

(***************************************************************************)
(* TearsheetAgrees: what the page shows agrees with the ledger and with    *)
(* itself, for every market, profile and schedule (metrics.ts:120-248,     *)
(* analytics.ts:77-142).                                                   *)
(***************************************************************************)
THEOREM TearsheetsAgree == Spec => []TearsheetAgrees
<1>1. SimInv /\ EquityIsExplained /\ Reported => TearsheetAgrees
  <2> SUFFICES ASSUME SimInv, EquityIsExplained, Reported, phase = "done",
                      NEW t, t = ComputeTearsheet(daily, flips, contribs, Len(market)),
                      NEW page, page = Analytics(daily, t)
               PROVE  LET curve == page.equity IN
                      /\ page.kpis.netProfit
                           = curve[Len(curve)].equity - page.kpis.totalContributions
                      /\ page.kpis.netProfit = SumOver(page.categories, LAMBDA c : c.net)
                      /\ t.totalRevenue = SumOver(page.categories, LAMBDA c : c.revenue)
                      /\ page.calibration.n = SumOver(page.categories, LAMBDA c : c.flips)
                      /\ page.calibration.n
                           = t.calibration.inside + t.calibration.below + t.calibration.above
                      /\ t.calibration.inside
                           = Cardinality({i \in DOMAIN t.points : t.points[i].inside})
                      /\ \A a, b \in DOMAIN curve :
                           a < b /\ curve[a].equity > 0 /\ curve[b].equity >= 0 =>
                             Share(curve[a].equity - curve[b].equity, curve[a].equity)
                               <= page.kpis.maxDrawdown
                      /\ page.kpis.medianHold <= page.kpis.p90Hold
    BY DEF TearsheetAgrees
  <2> DEFINE curve == page.equity
             days == Len(market)
  <2>1. IsRow(daily) /\ (\A i \in DOMAIN daily : daily[i].equity \in Int) /\ Len(daily) > 0
        /\ daily[Len(daily)].equity = cash + inventory
    BY DEF Reported
  <2>2. /\ page.kpis.netProfit = TotalNet(flips)
        /\ page.kpis.totalContributions = TotalContributions(contribs)
        /\ page.kpis.maxDrawdown = MaxDrawdown(daily)
        /\ page.kpis.medianHold = HoldQuantile(flips, 5)
        /\ page.kpis.p90Hold = HoldQuantile(flips, 9)
        /\ page.categories = Rollup(flips) /\ t.totalRevenue = TotalRevenue(flips)
        /\ page.calibration.n = Calibration(flips).n
        /\ t.calibration = Calibration(flips)
        /\ {i \in DOMAIN t.points : t.points[i].inside} = {i \in DOMAIN flips : Inside(flips[i])}
        /\ DOMAIN curve = DOMAIN daily /\ Len(curve) = Len(daily)
        /\ \A d \in DOMAIN daily : curve[d].equity = daily[d].equity
    <3> HIDE DEF days
    <3>1. t = ComputeTearsheet(daily, flips, contribs, days)
      BY DEF days
    <3> QED
      BY <2>1, <3>1, PageIs
  <2>3. /\ IsRow(flips)
        /\ \A i \in DOMAIN flips : /\ flips[i].net \in Int /\ flips[i].sale \in Int
                                   /\ flips[i].hold \in Int /\ Banded(flips[i])
    BY DEF SimInv, Rows, Flipped, Banded
  <2>4. TotalNet(flips) \in Int
    BY <2>3, NetIsSum, SumsAreInts DEF SimInv
  <2>5. TotalNet(flips) = (cash + inventory) - TotalContributions(contribs)
    <3>1. cash \in Int /\ inventory \in Int /\ capital \in Int
      BY Accounts DEF SimInv, Ledger, cash, inventory
    <3>2. cash + inventory = capital + TotalNet(flips) /\ capital = TotalContributions(contribs)
      BY DEF EquityIsExplained
    <3> DEFINE net == TotalNet(flips)
               put == TotalContributions(contribs)
    <3> HIDE DEF net, put
    <3>3. net \in Int /\ cash + inventory = capital + net /\ capital = put
      BY <2>4, <3>2 DEF net, put
    <3>4. net = (cash + inventory) - put
      BY <3>1, <3>3
    <3> QED
      BY <3>4 DEF net, put
  <2>6. curve[Len(curve)].equity = cash + inventory
    <3>1. Len(daily) \in DOMAIN daily
      BY <2>1, RowIs
    <3> QED
      BY <2>1, <2>2, <3>1
  <2>7. page.kpis.netProfit = curve[Len(curve)].equity - page.kpis.totalContributions
    BY <2>2, <2>5, <2>6
  <2>8. /\ page.kpis.netProfit = SumOver(page.categories, LAMBDA c : c.net)
        /\ t.totalRevenue = SumOver(page.categories, LAMBDA c : c.revenue)
        /\ Len(flips) = SumOver(page.categories, LAMBDA c : c.flips)
    BY <2>2, <2>3, RollupTotals
  <2>9. /\ page.calibration.n = Len(flips)
        /\ page.calibration.n = t.calibration.inside + t.calibration.below + t.calibration.above
        /\ t.calibration.inside = Cardinality({i \in DOMAIN t.points : t.points[i].inside})
    BY <2>2, <2>3, CalibrationIs
  <2>10. ASSUME NEW a \in DOMAIN curve, NEW b \in DOMAIN curve,
                a < b, curve[a].equity > 0, curve[b].equity >= 0
         PROVE  Share(curve[a].equity - curve[b].equity, curve[a].equity) <= page.kpis.maxDrawdown
    <3> HIDE DEF curve
    <3>1. /\ a \in DOMAIN daily /\ b \in DOMAIN daily
          /\ curve[a].equity = daily[a].equity /\ curve[b].equity = daily[b].equity
      BY <2>2
    <3>2. Share(daily[a].equity - daily[b].equity, daily[a].equity) <= MaxDrawdown(daily)
      BY <2>1, <2>10, <3>1, DrawdownIs
    <3> QED
      BY <2>2, <3>1, <3>2
  <2>11. page.kpis.medianHold <= page.kpis.p90Hold
    BY <2>2, <2>3, HoldsAscend
  <2> QED
    BY <2>7, <2>8, <2>9, <2>10, <2>11
<1> QED
  BY SimulationInductive, TheBooksClose, ReportedHolds, <1>1, PTL

-------------------------------------------------------------------------------
(***************************************************************************)
(* Learning from the flips is no step of the simulation, so what holds of  *)
(* every simulation holds of one that is learnt from.                      *)
(***************************************************************************)
THEOREM LearningOnlyReads == LearnSpec => Spec
<1>1. LearnInit => Init
  BY DEF LearnInit
<1>2. [LearnNext]_<<vars, learnVars>> => [Next]_vars
  BY DEF LearnNext, ProposeChallenger, TryPromote
<1> QED
  BY <1>1, <1>2, PTL DEF LearnSpec, Spec
-------------------------------------------------------------------------------
(***************************************************************************)
(* The learner.  The score of a model is a natural number, a refit lies    *)
(* between the sales it was made from, and whoever beats a champion in the *)
(* window it had won beats by more what that one had beaten there.  Models *)
(* are only made when the simulation is over, so that the sales they are   *)
(* about stay.                                                             *)
(***************************************************************************)
IsModel(m) == \A c \in DOMAIN m : m[c] \in Int
IsSale(f) == f.p50 \in Nat \ {0} /\ f.sale \in Nat

Misses(model, data) == [i \in DOMAIN data |-> Miss(model, data[i])]

\* Rounding keeps the order, and so does the worth of a unit.
LEMMA RoundingKeepsOrder ==
  ASSUME NEW x \in Int, NEW y \in Int, x <= y
  PROVE  RoundDiv(x, 10000) <= RoundDiv(y, 10000)
BY DEF RoundDiv

LEMMA WorthGrows ==
  ASSUME NEW f, f.p50 \in Nat, NEW x \in Int
  PROVE  /\ Worth(f, x) \in Int
         /\ \A y \in Int : x <= y => Worth(f, x) <= Worth(f, y)
<1>1. PICK p \in Nat : p = f.p50
  OBVIOUS
<1>2. \A y \in Int : p * y \in Int /\ (x <= y => p * x <= p * y)
  <2> SUFFICES ASSUME NEW y \in Int, x <= y PROVE p * x <= p * y
    OBVIOUS
  <2>1. p * y - p * x = p * (y - x) /\ p * (y - x) >= 0
    OBVIOUS
  <2> QED
    BY <2>1
<1>3. Worth(f, x) \in Int
  <2> DEFINE n == p * x
             d == 10000
  <2>1. n \in Int /\ d \in Nat \ {0} /\ Worth(f, x) = RoundDiv(n, d)
    BY <1>1, <1>2 DEF Worth
  <2> HIDE DEF n, d
  <2> QED
    BY <2>1, RoundDivIs
<1>4. ASSUME NEW y \in Int, x <= y
      PROVE  Worth(f, x) <= Worth(f, y)
  <2> DEFINE a == p * x
             b == p * y
  <2>1. a \in Int /\ b \in Int /\ a <= b
    BY <1>2, <1>4
  <2>2. Worth(f, x) = RoundDiv(a, 10000) /\ Worth(f, y) = RoundDiv(b, 10000)
    BY <1>1 DEF Worth
  <2> HIDE DEF a, b
  <2> QED
    BY <2>1, <2>2, RoundingKeepsOrder
<1> QED
  BY <1>3, <1>4

LEMMA MissIsNat ==
  ASSUME NEW m, IsModel(m), NEW f, IsSale(f)
  PROVE  Miss(m, f) \in Nat
<1> DEFINE factor == IF f.category \in DOMAIN m THEN m[f.category] ELSE 10000
           guess == Worth(f, factor)
           off == Abs(guess - f.sale) * 10000
           top == Max({1, f.sale})
<1>1. f.p50 \in Nat /\ f.sale \in Nat
  BY DEF IsSale
<1>2. factor \in Int
  BY DEF IsModel
<1>3. Predict(m, f) = guess
  BY DEF Predict
<1> HIDE DEF factor
<1>4. guess \in Int
  BY <1>1, <1>2, WorthGrows
<1>5. Miss(m, f) = off \div top
  BY <1>3 DEF Miss
<1> HIDE DEF guess
<1>6. off \in Nat
  BY <1>1, <1>4 DEF Abs
<1>7. top \in Nat \ {0}
  <2> DEFINE x == 1
             y == f.sale
  <2>1. x \in Int /\ y \in Int /\ x = 1
    BY <1>1
  <2> HIDE DEF x, y
  <2>2. Max({x, y}) \in Int /\ Max({x, y}) >= x
    BY <2>1, PairExtremes
  <2>3. Max({x, y}) \in Nat \ {0}
    BY <2>1, <2>2
  <2> QED
    BY <2>3 DEF x, y
<1> HIDE DEF off, top
<1>8. off \div top \in Nat
  BY <1>6, <1>7
<1> QED
  BY <1>5, <1>8 DEF off, top

LEMMA MissesAddUp ==
  ASSUME NEW m, NEW data, IsRow(data), Misses(m, data) \in [DOMAIN data -> Int]
  PROVE  Mape(m, data) = IF data = <<>> THEN 0 ELSE SeqSum(Misses(m, data)) \div Len(data)
<1> DEFINE total == FoldFunctionOnSet(LAMBDA x, y : x + y, 0, Misses(m, data), DOMAIN data)
<1>1. Mape(m, data) = IF data = <<>> THEN 0 ELSE total \div Len(data)
  BY DEF Mape, SumOver, FoldFunction, Misses
<1>2. total = SeqSum(Misses(m, data))
  BY RowSum
<1> QED
  BY <1>1, <1>2

LEMMA MapeIsNat ==
  ASSUME NEW m, IsModel(m), NEW data, IsRow(data), \A i \in DOMAIN data : IsSale(data[i])
  PROVE  Mape(m, data) \in Nat
<1> DEFINE n == Len(data)
           v == Misses(m, data)
<1>1. n \in Nat /\ DOMAIN data = 1 .. n
  BY RowIs
<1>2. v \in [1 .. n -> Nat]
  BY <1>1, MissIsNat DEF Misses
<1>3. n # 0 \/ data = <<>>
  <2>1. data \in Seq(Range(data))
    BY DEF IsRow
  <2> QED
    BY <2>1, EmptySeq
<1>4. Mape(m, data) = IF data = <<>> THEN 0 ELSE SeqSum(v) \div n
  <2>1. v \in [DOMAIN data -> Int]
    BY <1>1, <1>2
  <2> QED
    BY <2>1, MissesAddUp
<1> HIDE DEF n, v
<1>5. SeqSum(v) \in Nat
  <2>1. v \in [1 .. n -> Int] /\ IsFiniteSet(1 .. n)
    BY <1>1, <1>2, FS_Interval
  <2>2. SeqSum(v) = Sum(1 .. n, v)
    BY <1>1, <1>2, <2>1, SeqSumIs, BalanceOfNaturals
  <2> QED
    BY <1>2, <2>1, <2>2, SumIsNat
<1>6. n # 0 => SeqSum(v) \div n \in Nat
  BY <1>1, <1>5
<1> QED
  BY <1>3, <1>4, <1>6

LEMMA RatiosAddUp ==
  ASSUME NEW obs, IsFiniteSet(DOMAIN obs), NEW lo \in Int, NEW hi \in Int,
         \A i \in DOMAIN obs : obs[i].ratio \in lo .. hi
  PROVE  /\ Ratios(obs) \in Int /\ Size(obs) \in Nat /\ (DOMAIN obs # {} => Size(obs) > 0)
         /\ lo * Size(obs) <= Ratios(obs) /\ Ratios(obs) <= hi * Size(obs)
<1> DEFINE f == [i \in DOMAIN obs |-> obs[i].ratio]
           I == DOMAIN obs
<1>1. Ratios(obs) = FoldFunctionOnSet(LAMBDA x, y : x + y, 0, f, I)
  BY DEF Ratios, SumOver, FoldFunction
<1>2. f \in [I -> Int] /\ (\A i \in I : lo <= f[i] /\ f[i] <= hi)
  OBVIOUS
<1>3. Size(obs) = Cardinality(I) /\ IsFiniteSet(I) /\ (I # {} => Size(obs) > 0)
  BY FS_CardinalityType, FS_EmptySet DEF Size
<1> HIDE DEF f, I
<1>4. Ratios(obs) = Balance(I, f)
  BY <1>1, <1>2, <1>3, SetFoldIsBalance
<1>5. /\ Balance(I, f) \in Int /\ Cardinality(I) \in Nat
      /\ lo * Cardinality(I) <= Balance(I, f) /\ Balance(I, f) <= hi * Cardinality(I)
  BY <1>2, <1>3, BoundsAddUp
<1> QED
  BY <1>3, <1>4, <1>5 DEF I

\* A mean is between the bounds of what it is the mean of.
LEMMA QuotientBetween ==
  ASSUME NEW n \in Int, NEW d \in Nat \ {0}, NEW lo \in Int, NEW hi \in Int,
         lo * d <= n, n <= hi * d
  PROVE  n \div d \in lo .. hi
<1>1. PICK q \in Int : q = n \div d /\ q * d <= n /\ n < q * d + d
  BY DivisionIs
<1>2. q >= lo
  <2>1. SUFFICES ASSUME lo - q - 1 >= 0 PROVE FALSE
    OBVIOUS
  <2>2. (lo - q - 1) * d >= 0 /\ (lo - q - 1) * d = lo * d - q * d - d
    BY <2>1
  <2>3. lo * d \in Int /\ q * d \in Int
    OBVIOUS
  <2> QED
    BY <1>1, <2>2, <2>3
<1>3. q <= hi
  <2>1. SUFFICES ASSUME q - hi - 1 >= 0 PROVE FALSE
    OBVIOUS
  <2>2. (q - hi - 1) * d >= 0 /\ (q - hi - 1) * d = q * d - hi * d - d
    BY <2>1
  <2>3. hi * d \in Int /\ q * d \in Int
    OBVIOUS
  <2> QED
    BY <1>1, <2>2, <2>3
<1> QED
  BY <1>1, <1>2, <1>3

LEMMA ShrinkIsBetween ==
  ASSUME NEW group, IsFiniteSet(DOMAIN group), DOMAIN group # {},
         NEW lo \in Int, NEW hi \in Int, \A i \in DOMAIN group : group[i].ratio \in lo .. hi,
         NEW prior \in lo .. hi, NEW k \in Nat
  PROVE  Shrink(group, prior, k) \in lo .. hi
<1>1. PICK sum \in Int, n \in Nat :
        /\ sum = Ratios(group) /\ n = Size(group) /\ n > 0
        /\ lo * n <= sum /\ sum <= hi * n
  BY RatiosAddUp
<1>2. lo * k <= k * prior /\ k * prior <= hi * k /\ k * prior \in Int
  <2>1. k * prior - lo * k = k * (prior - lo) /\ k * (prior - lo) >= 0
    OBVIOUS
  <2>2. hi * k - k * prior = k * (hi - prior) /\ k * (hi - prior) >= 0
    OBVIOUS
  <2>3. lo * k \in Int /\ hi * k \in Int /\ k * prior \in Int
    OBVIOUS
  <2> QED
    BY <2>1, <2>2, <2>3
<1>3. PICK part \in Int : part = k * prior /\ lo * k <= part /\ part <= hi * k
  BY <1>2
<1>4. lo * (n + k) = lo * n + lo * k /\ hi * (n + k) = hi * n + hi * k
  OBVIOUS
<1>5. lo * n \in Int /\ lo * k \in Int /\ hi * n \in Int /\ hi * k \in Int
  OBVIOUS
<1>6. lo * (n + k) <= sum + part /\ sum + part <= hi * (n + k)
  BY <1>1, <1>3, <1>4, <1>5
<1>7. sum + part \in Int /\ n + k \in Nat \ {0}
  BY <1>1
<1>8. (sum + part) \div (n + k) \in lo .. hi
  BY <1>6, <1>7, QuotientBetween
<1> QED
  BY <1>1, <1>3, <1>8 DEF Shrink

\* Ratios are integers.
LEMMA RatioIs ==
  ASSUME NEW f, IsSale(f)
  PROVE  Ratio(f) \in Int
<1> DEFINE n == f.sale * 10000
           d == f.p50
<1>1. n \in Int /\ d \in Nat \ {0} /\ Ratio(f) = n \div d
  BY DEF IsSale, Ratio
<1> HIDE DEF n, d
<1> QED
  BY <1>1, DivisionIs

\* A refit lies between the least and the most its sales brought of their appraisal.
LEMMA RefitIsBetween ==
  ASSUME NEW sold, IsRow(sold), NEW k \in Nat, NEW lo \in Int, NEW hi \in Int,
         \A i \in DOMAIN sold : Ratio(sold[i]) \in lo .. hi
  PROVE  LET refit == RefitMultipliers(Observations(sold), k)
         IN \A c \in DOMAIN refit : refit[c] \in lo .. hi
<1> DEFINE obs == Observations(sold)
           I == DOMAIN sold
           of(c) == {i \in I : obs[i].category = c}
           under(p) == {i \in I : obs[i].parent = p}
           only(S) == [i \in S |-> obs[i]]
<1>1. IsFiniteSet(I)
  BY RowIsFinite
<1>2. DOMAIN obs = I
  BY DEF Observations
<1>3. \A i \in I : obs[i].ratio \in lo .. hi /\ obs[i].parent = Parent[obs[i].category]
  BY DEF Observations
<1> HIDE DEF obs, I
<1>4. \A c : RestrictValues(obs, LAMBDA o : o.category = c) = only(of(c))
  BY <1>2 DEF RestrictValues, Restrict
<1>5. \A p : RestrictValues(obs, LAMBDA o : o.parent = p) = only(under(p))
  BY <1>2 DEF RestrictValues, Restrict
<1>6. ASSUME NEW S \in SUBSET I, S # {}, NEW prior \in lo .. hi
      PROVE  Shrink(only(S), prior, k) \in lo .. hi
  <2> DEFINE group == only(S)
  <2>1. DOMAIN group = S /\ \A i \in S : group[i].ratio \in lo .. hi
    BY <1>3
  <2> HIDE DEF group
  <2>2. IsFiniteSet(S)
    BY <1>1, FS_Subset
  <2>3. Shrink(group, prior, k) \in lo .. hi
    BY <1>6, <2>1, <2>2, ShrinkIsBetween
  <2> QED
    BY <2>3 DEF group
<1> HIDE DEF only
<1>7. ASSUME NEW c \in {obs[i].category : i \in I}
      PROVE  Shrink(only(of(c)), ParentEstimate(obs, Parent[c], k), k) \in lo .. hi
  <2>1. PICK i \in I : obs[i].category = c
    OBVIOUS
  <2>2. i \in of(c) /\ i \in under(Parent[c])
    BY <1>3, <2>1
  <2>3. GlobalMean(obs) \in lo .. hi
    <3>0. IsFiniteSet(DOMAIN obs) /\ (\A j \in DOMAIN obs : obs[j].ratio \in lo .. hi)
          /\ DOMAIN obs # {}
      BY <1>1, <1>2, <1>3, <2>1
    <3>1. PICK sum \in Int, n \in Nat :
            /\ sum = Ratios(obs) /\ n = Size(obs) /\ n > 0
            /\ lo * n <= sum /\ sum <= hi * n
      BY <3>0, RatiosAddUp
    <3>2. sum \div n \in lo .. hi
      BY <3>1, QuotientBetween
    <3> QED
      BY <3>0, <3>1, <3>2 DEF GlobalMean
  <2>4. ParentEstimate(obs, Parent[c], k) = Shrink(only(under(Parent[c])), GlobalMean(obs), k)
    BY <1>5 DEF ParentEstimate
  <2>5. of(c) \in SUBSET I /\ of(c) # {} /\ under(Parent[c]) \in SUBSET I /\ under(Parent[c]) # {}
    BY <2>2
  <2> HIDE DEF of, under
  <2>6. ParentEstimate(obs, Parent[c], k) \in lo .. hi
    BY <1>6, <2>3, <2>4, <2>5
  <2> QED
    BY <1>6, <2>5, <2>6
<1> DEFINE refit == [c \in {obs[i].category : i \in I} |->
                       Shrink(only(of(c)), ParentEstimate(obs, Parent[c], k), k)]
<1>8. RefitMultipliers(obs, k) = refit
  BY <1>2, <1>4 DEF RefitMultipliers
<1>9. \A c \in DOMAIN refit : refit[c] \in lo .. hi
  BY <1>7
<1> QED
  BY <1>8, <1>9 DEF obs

\* Any window of the flips is a row of sales, each of them realized.
LEMMA WindowIs ==
  ASSUME Rows, NEW w \in Windows
  PROVE  /\ IsRow(SoldIn(w))
         /\ \A i \in DOMAIN SoldIn(w) : IsSale(SoldIn(w)[i]) /\ Ratio(SoldIn(w)[i]) \in Realized
<1>1. IsRow(flips) /\ \A i \in DOMAIN flips : IsSale(flips[i])
  BY DEF Rows, Flipped, IsSale
<1>2. Len(flips) \in Nat /\ DOMAIN flips = 1 .. Len(flips)
  BY <1>1, RowIs
<1>3. PICK a \in Int, b \in Int : a = w[1] /\ b = w[2] /\ 1 <= a /\ a <= b /\ b <= Len(flips)
  BY <1>2 DEF Windows
<1> DEFINE s == SubSeq(flips, a, b)
           n == b - a + 1
<1>4. \A i \in a .. b : flips[i] \in Range(flips)
  BY <1>1, <1>2, <1>3, RowIs
<1>5. s \in Seq(Range(flips)) /\ Len(s) = n /\ \A i \in 1 .. n : s[i] = flips[a + i - 1]
  <2>1. /\ s \in Seq(Range(flips)) /\ Len(s) = IF a <= b THEN n ELSE 0
        /\ \A i \in 1 .. b - a + 1 : s[i] = flips[a + i - 1]
    BY <1>4, SubSeqProperties
  <2> QED
    BY <1>3, <2>1
<1>6. SoldIn(w) = s
  BY <1>3 DEF SoldIn
<1> HIDE DEF s
<1>7. IsRow(s) /\ DOMAIN s = 1 .. n
  BY <1>5, SeqIsRow, RowIs
<1>8. \A i \in 1 .. n : a + i - 1 \in DOMAIN flips
  BY <1>2, <1>3
<1>9. \A i \in DOMAIN s : IsSale(s[i]) /\ Ratio(s[i]) \in Realized
  <2> SUFFICES ASSUME NEW i \in DOMAIN s PROVE IsSale(s[i]) /\ Ratio(s[i]) \in Realized
    OBVIOUS
  <2>1. PICK j \in DOMAIN flips : s[i] = flips[j]
    BY <1>5, <1>7, <1>8
  <2>2. Ratio(flips[j]) \in Realized
    BY DEF Realized
  <2> QED
    BY <1>1, <2>1, <2>2
<1> QED
  BY <1>6, <1>7, <1>9

\* What was realized is a finite set of integers.
LEMMA RealizedIs ==
  ASSUME Rows
  PROVE  /\ IsFiniteSet(Realized) /\ IntSet(Realized) /\ 10000 \in Realized
<1>1. IsRow(flips) /\ \A i \in DOMAIN flips : IsSale(flips[i])
  BY DEF Rows, Flipped, IsSale
<1>2. IsFiniteSet(DOMAIN flips)
  BY <1>1, RowIsFinite
<1> DEFINE I == DOMAIN flips
           R == {Ratio(flips[i]) : i \in I}
<1>3. IsFiniteSet(R)
  <2> DEFINE f == [i \in I |-> Ratio(flips[i])]
  <2>1. f \in Surjection(I, R)
    BY DEF Surjection
  <2> HIDE DEF f, R
  <2> QED
    BY <1>2, <2>1, FS_Surjection
<1>4. IsFiniteSet({10000} \cup R)
  <2> HIDE DEF R
  <2>1. IsFiniteSet(R \cup {10000})
    BY <1>3, FS_AddElement
  <2> QED
    BY <2>1
<1>5. \A i \in DOMAIN flips : Ratio(flips[i]) \in Int
  BY <1>1, RatioIs
<1> QED
  BY <1>4, <1>5 DEF Realized, IntSet

\* A model within what was realized, as the prior and every refit are.
Within(m) == \A c \in DOMAIN m : \E low, high \in Realized : m[c] \in low .. high

LEMMA RefitIsWithin ==
  ASSUME Rows, NEW w \in Windows, NEW k \in Nat
  PROVE  Within(RefitMultipliers(Observations(SoldIn(w)), k))
<1>1. PICK lo \in Realized, hi \in Realized : \A x \in Realized : lo <= x /\ x <= hi
  <2>1. IsFiniteSet(Realized) /\ IntSet(Realized) /\ Realized # {}
    BY RealizedIs
  <2>2. /\ Max(Realized) \in Realized /\ \A x \in Realized : x <= Max(Realized)
        /\ Min(Realized) \in Realized /\ \A x \in Realized : Min(Realized) <= x
    BY <2>1, Extremes
  <2> QED
    BY <2>2
<1>2. lo \in Int /\ hi \in Int /\ (\A x \in Realized : x \in lo .. hi)
  BY <1>1, RealizedIs DEF IntSet
<1>3. PICK sold : /\ sold = SoldIn(w) /\ IsRow(sold)
                  /\ \A i \in DOMAIN sold : Ratio(sold[i]) \in Realized
  BY WindowIs
<1>4. \A i \in DOMAIN sold : Ratio(sold[i]) \in lo .. hi
  BY <1>2, <1>3
<1> DEFINE refit == RefitMultipliers(Observations(sold), k)
<1>5. \A c \in DOMAIN refit : refit[c] \in lo .. hi
  BY <1>2, <1>3, <1>4, RefitIsBetween
<1> QED
  BY <1>1, <1>3, <1>5 DEF Within

LEMMA WithinIsModel ==
  ASSUME Rows, NEW m, Within(m)
  PROVE  IsModel(m)
BY RealizedIs DEF Within, IsModel, IntSet

(***************************************************************************)
(* The models in the order they were champion, and the promotions between  *)
(* them.  From i to j the window stayed the same; then j is better in it   *)
(* than i, by the margin of each promotion on the way.                     *)
(***************************************************************************)
Same(row, i, j) == \A k \in i .. j - 1 : row[k].window = row[i].window

Outdoes(data, new, old, row, i, j) ==
  /\ Mape(new, data) < Mape(old, data)
  /\ \A k \in i .. j - 1 : Mape(new, data) * 10000 <= Mape(old, data) * (10000 - row[k].margin)

RankedIn(sold, ms, row) ==
  \A i, j \in DOMAIN ms : i < j /\ Same(row, i, j) =>
    LET w == row[i].window
    IN Outdoes(SubSeq(sold, w[1], w[2]), ms[j], ms[i], row, i, j)

Registered == /\ Within(champion) /\ (challenger # NoModel => Within(challenger))
              /\ IsRow(archive) /\ \A i \in DOMAIN archive : Within(archive[i])

JudgedOK == /\ IsRow(judged) /\ Len(judged) = Len(archive)
            /\ \A i \in DOMAIN judged : judged[i].window \in Windows /\ judged[i].margin \in Nat

LearnInv == /\ phase # "done" => champion = Prior /\ challenger = NoModel /\ archive = <<>>
            /\ Registered /\ JudgedOK /\ RankedIn(flips, Champions, judged)

\* A margin over one that was ahead is a margin over what that one was ahead of.
LEMMA MarginsAdd ==
  ASSUME NEW a \in Nat, NEW b \in Nat, NEW c \in Nat, NEW m \in Nat,
         b < a, c < b, c * 10000 <= b * (10000 - m)
  PROVE  c * 10000 <= a * (10000 - m)
<1> DEFINE k == 10000 - m
<1>1. k \in Int /\ c * 10000 <= b * k
  OBVIOUS
<1> HIDE DEF k
<1>2. k >= 0
  <2>1. SUFFICES ASSUME k < 0 PROVE FALSE
    BY <1>1
  <2>2. b * k < 0
    BY <1>1, <2>1
  <2> QED
    BY <1>1, <2>2
<1>3. a * k - b * k = (a - b) * k /\ (a - b) * k >= 0
  BY <1>1, <1>2
<1>4. a * k \in Int /\ b * k \in Int
  BY <1>1
<1>5. c * 10000 <= a * k
  BY <1>1, <1>3, <1>4
<1> QED
  BY <1>5 DEF k

LEMMA PromotionWins ==
  ASSUME NEW data, Mape(champion, data) \in Nat, Mape(challenger, data) \in Nat,
         NEW margin \in Nat, Promote(data, margin)
  PROVE  /\ Mape(challenger, data) < Mape(champion, data)
         /\ Mape(challenger, data) * 10000 <= Mape(champion, data) * (10000 - margin)
<1> DEFINE old == Mape(champion, data)
           new == Mape(challenger, data)
<1>1. new < old /\ (old - new) * 10000 >= margin * old
  BY DEF Promote
<1>2. old \in Nat /\ new \in Nat
  OBVIOUS
<1> HIDE DEF old, new
<1>3. new * 10000 <= old * (10000 - margin)
  BY <1>1, <1>2
<1> QED
  BY <1>1, <1>3 DEF old, new

\* One more promotion, after n: ms and row become ns and rows, with the window data.
Promoted(sold, n, ms, row, ns, rows, data) ==
  /\ DOMAIN ms = 1 .. n + 1 /\ DOMAIN ns = 1 .. n + 2 /\ \A i \in 1 .. n + 1 : ns[i] = ms[i]
  /\ \A i \in 1 .. n : rows[i] = row[i]
  /\ \A i \in 1 .. n + 1 : rows[i].margin \in Nat
  /\ data = SubSeq(sold, rows[n + 1].window[1], rows[n + 1].window[2])
  /\ \A i \in 1 .. n + 2 : Mape(ns[i], data) \in Nat
  /\ Mape(ns[n + 2], data) < Mape(ns[n + 1], data)
  /\ Mape(ns[n + 2], data) * 10000 <= Mape(ns[n + 1], data) * (10000 - rows[n + 1].margin)

\* Only the promotions on the way count.
LEMMA OutdoesMoves ==
  ASSUME NEW data, NEW new, NEW old, NEW row, NEW rows, NEW i, NEW j,
         \A k \in i .. j - 1 : rows[k] = row[k], Outdoes(data, new, old, row, i, j)
  PROVE  Outdoes(data, new, old, rows, i, j)
<1>1. Mape(new, data) < Mape(old, data)
  BY DEF Outdoes
<1>2. ASSUME NEW k \in i .. j - 1
      PROVE  Mape(new, data) * 10000 <= Mape(old, data) * (10000 - rows[k].margin)
  <2>1. Mape(new, data) * 10000 <= Mape(old, data) * (10000 - row[k].margin)
    BY DEF Outdoes
  <2>2. rows[k] = row[k]
    OBVIOUS
  <2> QED
    BY <2>1, <2>2
<1> QED
  BY <1>1, <1>2 DEF Outdoes

\* It keeps the ranks: whom the last champion had beaten in the window is beaten by the
\* new one.
LEMMA RanksExtend ==
  ASSUME NEW sold, NEW n \in Nat, NEW ms, NEW row, RankedIn(sold, ms, row),
         NEW ns, NEW rows, NEW data, Promoted(sold, n, ms, row, ns, rows, data)
  PROVE  RankedIn(sold, ns, rows)
<1>0. /\ DOMAIN ms = 1 .. n + 1 /\ DOMAIN ns = 1 .. n + 2
      /\ \A i \in 1 .. n + 1 : ns[i] = ms[i]
      /\ \A i \in 1 .. n : rows[i] = row[i]
      /\ \A i \in 1 .. n + 1 : rows[i].margin \in Nat
  BY DEF Promoted
<1> SUFFICES ASSUME NEW i \in 1 .. n + 2, NEW j \in 1 .. n + 2, i < j, Same(rows, i, j)
             PROVE  Outdoes(SubSeq(sold, rows[i].window[1], rows[i].window[2]),
                            ns[j], ns[i], rows, i, j)
  BY <1>0 DEF RankedIn
<1>1. CASE j # n + 2
  <2>1. i \in DOMAIN ms /\ j \in DOMAIN ms /\ i \in 1 .. n /\ ns[i] = ms[i] /\ ns[j] = ms[j]
    BY <1>0, <1>1
  <2>2. \A k \in i .. j - 1 : k \in 1 .. n
    BY <1>1
  <2>3. \A k \in i .. j - 1 : rows[k] = row[k]
    BY <1>0, <2>2
  <2>4. rows[i] = row[i]
    BY <1>0, <2>1
  <2>5. Same(row, i, j)
    BY <2>3, <2>4, Zenon DEF Same
  <2>6. Outdoes(SubSeq(sold, row[i].window[1], row[i].window[2]), ms[j], ms[i], row, i, j)
    BY <2>1, <2>5, Zenon DEF RankedIn
  <2>7. Outdoes(SubSeq(sold, row[i].window[1], row[i].window[2]), ms[j], ms[i], rows, i, j)
    BY <2>3, <2>6, OutdoesMoves
  <2> QED
    BY <2>1, <2>4, <2>7
<1>2. CASE j = n + 2
  <2>1. n + 1 \in i .. j - 1
    BY <1>2
  <2>2. rows[n + 1].window = rows[i].window
    BY <2>1, Zenon DEF Same
  <2>3. SubSeq(sold, rows[i].window[1], rows[i].window[2]) = data
    BY <2>2 DEF Promoted
  <2>4. PICK b \in Nat, c \in Nat :
          /\ b = Mape(ns[n + 1], data) /\ c = Mape(ns[n + 2], data)
          /\ c < b /\ c * 10000 <= b * (10000 - rows[n + 1].margin)
    BY DEF Promoted
  <2>5. CASE i = n + 1
    <3>1. \A k \in i .. j - 1 : k = n + 1
      BY <1>2, <2>5
    <3>2. \A k \in i .. j - 1 : c * 10000 <= b * (10000 - rows[k].margin)
      BY <2>4, <3>1
    <3>3. Outdoes(data, ns[n + 2], ns[n + 1], rows, i, j)
      BY <2>4, <3>2 DEF Outdoes
    <3> QED
      BY <1>2, <2>3, <2>5, <3>3
  <2>6. CASE i # n + 1
    <3>1. i \in 1 .. n /\ i < n + 1 /\ n + 1 \in DOMAIN ms /\ i \in DOMAIN ms
          /\ ns[i] = ms[i] /\ ns[n + 1] = ms[n + 1] /\ rows[i] = row[i]
      BY <1>0, <1>2, <2>6
    <3>2. \A k \in i .. n : k \in 1 .. n /\ k \in i .. j - 1
      BY <1>2, <3>1
    <3>3. \A k \in i .. n : rows[k] = row[k] /\ rows[k].window = rows[i].window
      BY <1>0, <3>2, Zenon DEF Same
    <3>4. (n + 1) - 1 = n
      OBVIOUS
    <3>5. Same(row, i, n + 1)
      BY <3>1, <3>3, <3>4, Zenon DEF Same
    <3>6. Outdoes(SubSeq(sold, row[i].window[1], row[i].window[2]), ms[n + 1], ms[i],
                  row, i, n + 1)
      BY <3>1, <3>5, Zenon DEF RankedIn
    <3>7. Outdoes(data, ns[n + 1], ns[i], rows, i, n + 1)
      <4>1. Outdoes(data, ns[n + 1], ns[i], row, i, n + 1)
        BY <2>3, <3>1, <3>6
      <4>2. \A k \in i .. (n + 1) - 1 : rows[k] = row[k]
        BY <3>3, <3>4
      <4> QED
        BY <4>1, <4>2, OutdoesMoves
    <3>8. PICK a \in Nat : a = Mape(ns[i], data)
      BY DEF Promoted
    <3>9. b < a /\ \A k \in i .. n : b * 10000 <= a * (10000 - rows[k].margin)
      BY <2>4, <3>4, <3>7, <3>8 DEF Outdoes
    <3>10. ASSUME NEW k \in i .. j - 1
           PROVE  c * 10000 <= a * (10000 - rows[k].margin)
      <4>1. k \in 1 .. n + 1 /\ (k # n + 1 => k \in i .. n)
        BY <1>2, <3>1
      <4>2. PICK m \in Nat : m = rows[k].margin
        BY <1>0, <4>1
      <4>3. CASE k = n + 1
        <5>1. c * 10000 <= b * (10000 - m)
          BY <2>4, <4>2, <4>3
        <5>2. c * 10000 <= a * (10000 - m)
          BY <2>4, <3>9, <5>1, MarginsAdd
        <5> QED
          BY <4>2, <5>2
      <4>4. CASE k # n + 1
        <5>1. b * 10000 <= a * (10000 - m)
          BY <3>9, <4>1, <4>2, <4>4
        <5>2. a * (10000 - m) \in Int
          OBVIOUS
        <5> QED
          BY <2>4, <4>2, <5>1, <5>2
      <4> QED
        BY <4>3, <4>4
    <3>11. c < a
      BY <2>4, <3>9
    <3>12. Outdoes(data, ns[n + 2], ns[i], rows, i, j)
      BY <2>4, <3>8, <3>10, <3>11 DEF Outdoes
    <3> QED
      BY <1>2, <2>3, <3>12
  <2> QED
    BY <2>5, <2>6
<1> QED
  BY <1>1, <1>2

\* Until the simulation is over nothing was learnt, and any flips rank it.
Unlearnt == /\ champion = Prior /\ challenger = NoModel /\ archive = <<>>
            /\ IsRow(judged) /\ Len(judged) = Len(archive)

LEMMA NothingLearnt == Unlearnt => LearnInv
<1> SUFFICES ASSUME Unlearnt PROVE LearnInv
  OBVIOUS
<1>0. /\ champion = Prior /\ challenger = NoModel /\ archive = <<>>
      /\ IsRow(judged) /\ Len(judged) = Len(archive)
  BY DEF Unlearnt
<1>1. IsRow(<<>>) /\ DOMAIN <<>> = {} /\ Len(<<>>) = 0
  BY NoRows, RowIs
<1>2. DOMAIN judged = {}
  BY <1>0, <1>1, RowIs
<1>3. Registered /\ JudgedOK
  BY <1>0, <1>1, <1>2 DEF Registered, JudgedOK, Within, Prior
<1>4. DOMAIN Champions = 1 .. 1
  <2>1. IsRow(Champions) /\ Len(Champions) = 1
    <3>1. IsRow(archive) /\ Len(archive) = 0
      BY <1>0, <1>1
    <3>2. IsRow(Append(archive, champion)) /\ Len(Append(archive, champion)) = Len(archive) + 1
      BY <3>1, AppendIs
    <3> QED
      BY <3>1, <3>2 DEF Champions
  <2> QED
    BY <2>1, RowIs
<1>5. RankedIn(flips, Champions, judged)
  BY <1>4 DEF RankedIn
<1> QED
  BY <1>0, <1>3, <1>5 DEF LearnInv

LEMMA LearnStutters ==
  ASSUME LearnInv, UNCHANGED <<flips, phase, learnVars>>
  PROVE  LearnInv'
<1>1. UNCHANGED <<flips, phase, champion, challenger, archive, judged>>
  BY DEF learnVars, modelVars
<1>2. Realized' = Realized /\ Windows' = Windows /\ Champions' = Champions
  BY <1>1 DEF Realized, Windows, Champions
<1>3. Registered'
  BY <1>1, <1>2 DEF LearnInv, Registered, Within
<1>4. JudgedOK'
  BY <1>1, <1>2 DEF LearnInv, JudgedOK
<1>5. RankedIn(flips, Champions, judged)'
  BY <1>1, <1>2 DEF LearnInv
<1> QED
  BY <1>1, <1>3, <1>4, <1>5 DEF LearnInv

LEMMA ProposeKeeps ==
  ASSUME LearnInv, Rows, NEW w \in Windows, NEW k \in Strengths, ProposeChallenger(w, k)
  PROVE  LearnInv'
<1>1. UNCHANGED <<flips, phase, champion, archive, judged>> /\ phase = "done"
  BY DEF ProposeChallenger, vars, clockVars, reportVars
<1>2. Realized' = Realized /\ Windows' = Windows /\ Champions' = Champions
  BY <1>1 DEF Realized, Windows, Champions
<1>3. challenger' = RefitMultipliers(Observations(SoldIn(w)), k)
  BY DEF ProposeChallenger
<1>4. Within(challenger')
  BY <1>3, RefitIsWithin, LearningAssumption
<1>5. Registered'
  BY <1>1, <1>2, <1>4 DEF LearnInv, Registered, Within
<1>6. JudgedOK'
  BY <1>1, <1>2 DEF LearnInv, JudgedOK
<1>7. RankedIn(flips, Champions, judged)'
  BY <1>1, <1>2 DEF LearnInv
<1> QED
  BY <1>1, <1>5, <1>6, <1>7 DEF LearnInv

LEMMA PromoteKeeps ==
  ASSUME LearnInv, Rows, NEW w \in Windows, NEW margin \in Margins, TryPromote(w, margin)
  PROVE  LearnInv'
<1> DEFINE data == SoldIn(w)
           r == [window |-> w, margin |-> margin]
           n == Len(archive)
           ms == Champions
           ns == Append(ms, challenger)
           row == judged
           rows == Append(row, r)
<1>1. /\ UNCHANGED <<flips, phase>> /\ challenger # NoModel
      /\ archive' = ms /\ champion' = challenger /\ challenger' = NoModel
      /\ judged' = rows /\ Promote(data, margin)
  BY DEF TryPromote, vars, clockVars, reportVars, Champions
<1>2. Realized' = Realized /\ Windows' = Windows /\ Champions' = ns
  BY <1>1 DEF Realized, Windows, Champions
<1>3. phase = "done" /\ margin \in Nat
  BY <1>1, LearningAssumption DEF LearnInv
<1>4. /\ IsRow(ms) /\ n \in Nat /\ DOMAIN ms = 1 .. n + 1 /\ Len(ms) = n + 1
      /\ \A i \in 1 .. n : i \in DOMAIN archive /\ ms[i] = archive[i]
      /\ ms[n + 1] = champion
  BY RowIs, AppendIs DEF LearnInv, Registered, Champions
<1>5. \A i \in 1 .. n + 1 : Within(ms[i])
  <2>1. \A i \in 1 .. n : Within(ms[i])
    BY <1>4 DEF LearnInv, Registered
  <2>2. Within(ms[n + 1])
    BY <1>4 DEF LearnInv, Registered
  <2>3. \A i \in 1 .. n + 1 : i \in 1 .. n \/ i = n + 1
    BY <1>4
  <2> QED
    BY <2>1, <2>2, <2>3
<1> HIDE DEF ms
<1>6. /\ IsRow(ns) /\ DOMAIN ns = 1 .. n + 2 /\ \A i \in 1 .. n + 1 : ns[i] = ms[i]
      /\ ns[n + 2] = challenger
  <2>1. /\ IsRow(ns) /\ Len(ns) = n + 2 /\ \A i \in 1 .. n + 1 : ns[i] = ms[i]
        /\ ns[(n + 1) + 1] = challenger
    BY <1>4, AppendIs
  <2>2. DOMAIN ns = 1 .. n + 2 /\ (n + 1) + 1 = n + 2
    BY <1>4, <2>1, RowIs
  <2> QED
    BY <2>1, <2>2
<1>7. /\ IsRow(row) /\ Len(row) = n
      /\ \A i \in 1 .. n : row[i].window \in Windows /\ row[i].margin \in Nat
  BY RowIs DEF LearnInv, JudgedOK
<1>8. RankedIn(flips, ms, row)
  BY DEF LearnInv, ms
<1> HIDE DEF n, row, r
<1>9. /\ IsRow(rows) /\ Len(rows) = n + 1 /\ DOMAIN rows = 1 .. n + 1
      /\ \A i \in 1 .. n : rows[i] = row[i]
      /\ rows[n + 1] = r
  BY <1>4, <1>7, AppendIs, RowIs
<1> HIDE DEF ns, rows
<1>10. \A i \in 1 .. n + 1 : i \in 1 .. n \/ i = n + 1
  BY <1>4
<1>11. \A i \in 1 .. n + 1 : rows[i].window \in Windows /\ rows[i].margin \in Nat
  BY <1>3, <1>7, <1>9, <1>10 DEF r
<1>12. Within(challenger)
  BY <1>1 DEF LearnInv, Registered
<1>13. \A m : Within(m) => Mape(m, data) \in Nat
  BY WindowIs, WithinIsModel, MapeIsNat
<1>14. \A i \in 1 .. n + 2 : Mape(ns[i], data) \in Nat
  <2>1. \A i \in 1 .. n + 2 : i \in 1 .. n + 1 \/ i = n + 2
    BY <1>4
  <2> QED
    BY <1>5, <1>6, <1>12, <1>13, <2>1
<1>15. data = SubSeq(flips, rows[n + 1].window[1], rows[n + 1].window[2])
  <2>1. rows[n + 1].window = w
    BY <1>9 DEF r
  <2> QED
    BY <2>1 DEF SoldIn
<1>16. /\ Mape(ns[n + 2], data) < Mape(ns[n + 1], data)
       /\ Mape(ns[n + 2], data) * 10000 <= Mape(ns[n + 1], data) * (10000 - rows[n + 1].margin)
  <2>1. Within(champion) /\ rows[n + 1].margin = margin /\ ns[n + 1] = champion
        /\ ns[n + 2] = challenger
    BY <1>4, <1>6, <1>9 DEF LearnInv, Registered, r
  <2>2. Mape(champion, data) \in Nat /\ Mape(challenger, data) \in Nat
    BY <1>12, <1>13, <2>1
  <2> HIDE DEF data
  <2> QED
    BY <1>1, <1>3, <2>1, <2>2, PromotionWins
<1> HIDE DEF data
<1>17. RankedIn(flips, ns, rows)
  <2>1. Promoted(flips, n, ms, row, ns, rows, data)
    <3>1. DOMAIN ms = 1 .. n + 1 /\ DOMAIN ns = 1 .. n + 2 /\ \A i \in 1 .. n + 1 : ns[i] = ms[i]
      BY <1>4, <1>6
    <3>2. \A i \in 1 .. n : rows[i] = row[i]
      BY <1>9
    <3>3. \A i \in 1 .. n + 1 : rows[i].margin \in Nat
      BY <1>11
    <3> QED
      BY <3>1, <3>2, <3>3, <1>14, <1>15, <1>16 DEF Promoted
  <2> QED
    BY <1>4, <1>8, <2>1, RanksExtend
<1>18. Registered'
  <2>1. \A i \in DOMAIN ms : Within(ms[i])
    BY <1>4, <1>5
  <2> QED
    BY <1>1, <1>2, <1>4, <1>12, <2>1 DEF Registered, Within
<1>19. JudgedOK'
  BY <1>1, <1>2, <1>4, <1>9, <1>11 DEF JudgedOK
<1> QED
  BY <1>1, <1>2, <1>3, <1>17, <1>18, <1>19 DEF LearnInv

LEMMA LearnInvHolds == LearnSpec => []LearnInv
<1>1. LearnInit => LearnInv
  <2> SUFFICES ASSUME LearnInit PROVE LearnInv
    OBVIOUS
  <2>1. champion = Prior /\ challenger = NoModel /\ archive = <<>> /\ judged = <<>>
    BY DEF LearnInit
  <2> QED
    BY <2>1, NoRows, NothingLearnt DEF Unlearnt
<1>2. SimInv /\ LearnInv /\ [LearnNext]_<<vars, learnVars>> => LearnInv' \/ Unlearnt'
  <2> SUFFICES ASSUME SimInv, LearnInv, [LearnNext]_<<vars, learnVars>>
               PROVE  LearnInv' \/ Unlearnt'
    OBVIOUS
  <2>1. Rows
    BY DEF SimInv
  <2>2. CASE UNCHANGED <<vars, learnVars>>
    BY <2>2, LearnStutters DEF vars, clockVars, reportVars
  <2>3. CASE Next /\ UNCHANGED learnVars
    <3>1. phase # "done"
      BY <2>3 DEF Next, Contribute, Settle, Underwrite, Acquire, Mark
    <3>2. /\ champion = Prior /\ challenger = NoModel /\ archive = <<>>
          /\ IsRow(judged) /\ Len(judged) = Len(archive)
      BY <3>1 DEF LearnInv, JudgedOK
    <3>3. UNCHANGED <<champion, challenger, archive, judged>>
      BY <2>3 DEF learnVars, modelVars
    <3>4. /\ champion' = Prior /\ challenger' = NoModel /\ archive' = <<>>
          /\ IsRow(judged') /\ Len(judged') = Len(archive')
      BY <3>2, <3>3
    <3> QED
      BY <3>4 DEF Unlearnt
  <2>4. ASSUME NEW w \in Windows, NEW k \in Strengths, ProposeChallenger(w, k) PROVE LearnInv'
    BY <2>1, <2>4, ProposeKeeps
  <2>5. ASSUME NEW w \in Windows, NEW margin \in Margins, TryPromote(w, margin) PROVE LearnInv'
    BY <2>1, <2>5, PromoteKeeps
  <2> QED
    BY <2>2, <2>3, <2>4, <2>5 DEF LearnNext
<1>3. LearnSpec => []SimInv
  BY LearningOnlyReads, SimulationInductive, PTL
<1> QED
  BY <1>1, <1>2, <1>3, NothingLearnt, PTL DEF LearnSpec

(***************************************************************************)
(* DriftIsBounded for every history of sales, windows, margins and priors: *)
(* no champion values a unit outside what sales and appraisals brought,    *)
(* and while the window stays no replaced model is as good as the champion *)
(* (registry.ts:95-104, multipliers.ts:3-8).                               *)
(***************************************************************************)
THEOREM DriftsAreBounded == LearnSpec => []DriftIsBounded
<1>1. ASSUME SimInv, LearnInv
      PROVE  DriftIsBounded
  <2> DEFINE n == Len(archive)
  <2>1. Rows
    BY <1>1 DEF SimInv
  <2>2. /\ n \in Nat /\ DOMAIN Champions = 1 .. n + 1 /\ DOMAIN archive = 1 .. n
        /\ \A i \in 1 .. n : Champions[i] = archive[i]
        /\ Champions[n + 1] = champion
    BY <1>1, RowIs, AppendIs DEF LearnInv, Registered, Champions
  <2>3. \A i \in DOMAIN Champions : Within(Champions[i])
    <3>1. \A i \in 1 .. n + 1 : i \in 1 .. n \/ i = n + 1
      BY <2>2
    <3> QED
      BY <1>1, <2>2, <3>1 DEF LearnInv, Registered
  <2>4. ASSUME NEW m, Within(m), NEW k \in DOMAIN flips
        PROVE  \E low, high \in Realized :
                 Predict(m, flips[k]) \in Worth(flips[k], low) .. Worth(flips[k], high)
    <3>1. flips[k].p50 \in Nat
      BY <2>1 DEF Rows, Flipped
    <3> DEFINE f == flips[k]
               x == IF f.category \in DOMAIN m THEN m[f.category] ELSE 10000
    <3>2. PICK low \in Realized, high \in Realized : x \in low .. high
      BY <2>1, <2>4, RealizedIs DEF Within
    <3>3. low \in Int /\ high \in Int /\ x \in Int /\ low <= x /\ x <= high
      BY <2>1, <3>2, RealizedIs DEF IntSet
    <3>4. Predict(m, f) = Worth(f, x)
      BY DEF Predict
    <3> HIDE DEF f, x
    <3>5. /\ Worth(f, low) \in Int /\ Worth(f, x) \in Int /\ Worth(f, high) \in Int
          /\ Worth(f, low) <= Worth(f, x) /\ Worth(f, x) <= Worth(f, high)
      BY <3>1, <3>3, WorthGrows DEF f
    <3> QED
      BY <3>4, <3>5 DEF f
  <2>5. ASSUME NEW i \in DOMAIN Champions, NEW j \in DOMAIN Champions, i < j,
               \A k \in i .. j - 1 : judged[k].window = judged[i].window
        PROVE  IsAhead(i, j)
    <3> DEFINE data == SoldIn(judged[i].window)
    <3>1. Outdoes(data, Champions[j], Champions[i], judged, i, j)
      BY <1>1, <2>5 DEF LearnInv, RankedIn, Same, SoldIn
    <3>2. judged[i].window \in Windows
      <4>1. DOMAIN judged = 1 .. n
        BY <1>1, RowIs DEF LearnInv, JudgedOK
      <4>2. i \in 1 .. n
        BY <2>2, <2>5
      <4> QED
        BY <1>1, <4>1, <4>2 DEF LearnInv, JudgedOK
    <3>3. Mape(Champions[i], data) \in Nat
      BY <2>1, <2>3, <3>2, WindowIs, WithinIsModel, MapeIsNat
    <3>4. Champions[i] # Champions[j]
      <4> SUFFICES ASSUME Champions[i] = Champions[j] PROVE FALSE
        OBVIOUS
      <4>1. Mape(Champions[i], data) < Mape(Champions[i], data)
        BY <3>1 DEF Outdoes
      <4> QED
        BY <3>3, <4>1
    <3> QED
      BY <3>1, <3>4 DEF Outdoes, IsAhead
  <2>6. ASSUME NEW i \in DOMAIN Champions
        PROVE  StaysWithin(Champions[i])
    <3>1. Within(Champions[i])
      BY <2>3
    <3> QED
      BY <2>4, <3>1 DEF StaysWithin
  <2> QED
    BY <2>5, <2>6 DEF DriftIsBounded
<1>2. LearnSpec => []SimInv
  BY LearningOnlyReads, SimulationInductive, PTL
<1> QED
  BY <1>1, <1>2, LearnInvHolds, PTL
===============================================================================
