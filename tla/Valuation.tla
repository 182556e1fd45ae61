------------------------------- MODULE Valuation -------------------------------
(***************************************************************************)
(* The appraiser, packages/appraise/src/appraise.ts, on the robust         *)
(* statistics of packages/stats/src/index.ts.                              *)
(*                                                                         *)
(* Prices are whole cents, ages whole days, and every share and confidence *)
(* is in basis points, cut down.  A recency weight halves every half-life: *)
(* between two halvings it is that of the younger one.  A list that was    *)
(* filtered keeps its indices: nothing here depends on the order of one.   *)
(***************************************************************************)
EXTENDS Integers, FiniteSetsExt, SequencesExt

CONSTANTS MinComps, Window, HalfLife,  \* minComps, windowDays, halfLifeDays
          ActiveCount,                 \* the competing listings
          Certainty   \* matchConfidence by conditionCertainty

Band == <<"new", "like_new", "good", "fair", "parts">>
BandIndex(b) == CHOOSE i \in DOMAIN Band : Band[i] = b

\* DEFAULT_BAND_MULTIPLIERS, in percent of like_new
Multiplier == [new |-> 115, like_new |-> 100, good |-> 80, fair |-> 60, parts |-> 30]

Abs(x) == IF x < 0 THEN -x ELSE x
Clamp(x, lo, hi) == Min({hi, Max({lo, x})})

\* roundDivToNearest: half away from zero.
RoundDiv(n, d) == IF n < 0 THEN -((-n + d \div 2) \div d) ELSE (n + d \div 2) \div d

Size(xs) == Cardinality(DOMAIN xs)

\* Twice the median, which lies between two values of an even count.
Smallest(xs, k) == Min({v \in Range(xs) : Size(RestrictValues(xs, LAMBDA x : x <= v)) >= k})
Median2(xs) == Smallest(xs, (Size(xs) + 1) \div 2) + Smallest(xs, (Size(xs) + 2) \div 2)

(***************************************************************************)
(* madFilter(items, value, 3): with 1.4826 MADs to a sigma, and a MAD of   *)
(* zero when most of the values are equal.                                 *)
(***************************************************************************)
Dev2(p, m2) == Abs(2 * p.price - m2)

Near(points, m2, mad4) ==
  IF mad4 = 0 THEN points
  ELSE RestrictValues(points, LAMBDA p : 10000 * Dev2(p, m2) <= 22239 * mad4)

Around(points, m2) ==
  Near(points, m2, Median2([i \in DOMAIN points |-> Dev2(points[i], m2)]))

MadFilter(points) ==
  IF DOMAIN points = {} THEN points
  ELSE Around(points, Median2([i \in DOMAIN points |-> points[i].price]))

Halvings == <<256, 128, 64, 32, 16, 8, 4, 2, 1>>
DecayWeight(age) == Halvings[1 + Min({8, age \div HalfLife})]

SumOver(points, f(_)) ==
  FoldFunction(LAMBDA x, y : x + y, 0, [i \in DOMAIN points |-> f(points[i])])

\* The least value with its share q of the weight at or below it, or else the last.
WeightedQuantile(points, pct) ==
  LET weight(some) == SumOver(some, LAMBDA p : DecayWeight(p.age))
      upTo(v) == weight(RestrictValues(points, LAMBDA p : p.price <= v))
      prices == {points[i].price : i \in DOMAIN points}
  IN IF prices = {} THEN 0
     ELSE Min({v \in prices : 100 * upTo(v) >= pct * weight(points)} \cup {Max(prices)})

(***************************************************************************)
(* appraise(input), of comps with the band, price, day of sale, seller and *)
(* provider of each, for an item of band target on day asOf                *)
(***************************************************************************)
Admissible(comps, target) ==
  RestrictValues(comps, LAMBDA c : Abs(BandIndex(c.band) - BandIndex(target)) <= 1)

TransformedAt(comps, target, asOf, window) ==
  LET recent == RestrictValues(Admissible(comps, target), LAMBDA c : asOf - c.sold <= window)
  IN [i \in DOMAIN recent |->
        [seller |-> recent[i].seller,
         provider |-> recent[i].provider,
         price |-> RoundDiv(recent[i].price * Multiplier[target], Multiplier[recent[i].band]),
         age |-> Max({0, asOf - recent[i].sold})]]

Stale(comps, target, asOf) ==
  Size(TransformedAt(comps, target, asOf, Window)) < MinComps /\ Window < 180

Kept(comps, target, asOf) ==
  MadFilter(TransformedAt(comps, target, asOf,
              IF Stale(comps, target, asOf) THEN 180 ELSE Window))

Sellers(points) == Cardinality({points[i].seller : i \in DOMAIN points})

Dispersion(p10, p50, p90) == IF p50 > 0 THEN ((p90 - p10) * 10000) \div p50 ELSE 10000

Flags(stale, n, sellers, spread) ==
  (IF stale THEN {"stale_comps"} ELSE {})
  \cup (IF sellers < 3 THEN {"low_seller_diversity"} ELSE {})
  \cup (IF n < MinComps THEN {"thin_comps"} ELSE {})
  \cup (IF spread > 8000 THEN {"high_dispersion"} ELSE {})

Haircut(c, bp) == (c * bp) \div 10000

Confidence(n, spread, flags) ==
  LET counted == Haircut(Haircut(Clamp((n * 10000) \div 12, 3000, 10000),
                                 Clamp(10000 - spread \div 2, 3000, 10000)), Certainty)
      diverse == IF "low_seller_diversity" \in flags THEN Haircut(counted, 7000) ELSE counted
  IN IF "stale_comps" \in flags THEN Haircut(diverse, 8500) ELSE diverse

NoEstimate == -1  \* undefined: nothing was sold in ninety days

Sold90(comps, target, asOf) ==
  Size(RestrictValues(Admissible(comps, target), LAMBDA c : asOf - c.sold <= 90))

SellThrough(sold) == IF sold + ActiveCount > 0
                     THEN (sold * 10000) \div (sold + ActiveCount) ELSE NoEstimate

TimeToSale(sold) == IF sold = 0 THEN NoEstimate
                    ELSE Min({365, RoundDiv(90 * (ActiveCount + 1), sold)})

Estimate(kept, p10, p50, p90, stale, sold) ==
  LET spread == Dispersion(p10, p50, p90)
      flags == Flags(stale, Size(kept), Sellers(kept), spread)
  IN [n |-> Size(kept), p10 |-> p10, p50 |-> p50, p90 |-> p90, flags |-> flags,
      providers |-> {kept[i].provider : i \in DOMAIN kept},
      confidence |-> Confidence(Size(kept), spread, flags),
      sellThrough |-> SellThrough(sold), tts |-> TimeToSale(sold)]

Estimated(kept, stale, sold) ==
  Estimate(kept, WeightedQuantile(kept, 10), WeightedQuantile(kept, 50),
           WeightedQuantile(kept, 90), stale, sold)

Appraise(comps, target, asOf) ==
  Estimated(Kept(comps, target, asOf), Stale(comps, target, asOf), Sold90(comps, target, asOf))
================================================================================
