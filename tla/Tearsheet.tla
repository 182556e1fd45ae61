------------------------------- MODULE Tearsheet -------------------------------
(***************************************************************************)
(* The measures of packages/sim/src/metrics.ts, of the flips, the daily    *)
(* points and the contributions of a simulation, and what the analytics    *)
(* page is given of them (packages/api/src/analytics.ts).  Ratios are in   *)
(* basis points; the annualized IRR, a bisection over reals, is left out.  *)
(***************************************************************************)
EXTENDS Valuation

Share(part, whole) == IF whole > 0 THEN (part * 10000) \div whole ELSE 0

TotalContributions(contribs) == SumOver(contribs, LAMBDA c : c.amount)
TotalRevenue(flips) == SumOver(flips, LAMBDA f : f.sale)
TotalFees(flips) == SumOver(flips, LAMBDA f : f.fees)
TotalNet(flips) == SumOver(flips, LAMBDA f : f.net)
Wins(flips) == Size(RestrictValues(flips, LAMBDA f : f.net > 0))

TotalReturn(contribs, equity) ==
  Share(equity - TotalContributions(contribs), TotalContributions(contribs))

\* modifiedDietz: each contribution weighs by the days it was invested.
WeightedCapital(contribs, days) == SumOver(contribs, LAMBDA c : (days - c.day) * c.amount) \div days

ModifiedDietz(contribs, equity, days) ==
  Share(equity - TotalContributions(contribs), WeightedCapital(contribs, days))

\* The peak of the equity curve so far, and the deepest fall from one.
PeakAt(daily, d) == Max({0} \cup {daily[i].equity : i \in 1 .. d})

\* Faulty: the fall is from the day before and not from the peak.
MaxDrawdownDaily(daily) ==
  Max({0} \cup {Share(daily[d - 1].equity - daily[d].equity, daily[d - 1].equity)
                : d \in 2 .. Len(daily)})

MaxDrawdown(daily) ==
  Max({0} \cup {Share(PeakAt(daily, d) - daily[d].equity, PeakAt(daily, d))
                : d \in DOMAIN daily})

Utilization(daily) ==
  LET up == RestrictValues(daily, LAMBDA d : d.equity > 0)
  IN IF DOMAIN up = {} THEN 0
     ELSE SumOver(up, LAMBDA d : Share(d.inventory, d.equity)) \div Size(up)

\* Array.sort is stable: the indices of the values in ascending order.
Sorted(values) ==
  LET before(i) == {j \in DOMAIN values : \/ values[j] < values[i]
                                          \/ values[j] = values[i] /\ j < i}
  IN [k \in 1 .. Size(values) |-> CHOOSE i \in DOMAIN values : Cardinality(before(i)) + 1 = k]

\* quantile(sorted, q), interpolated, in tenths of a day
HoldQuantile(flips, tenths) ==
  LET s == Sorted([i \in DOMAIN flips |-> flips[i].hold])
      at(i) == flips[s[i]].hold
      idx == tenths * (Len(flips) - 1)
      lo == 1 + idx \div 10
  IN IF flips = <<>> THEN 0
     ELSE 10 * at(lo) + (IF idx % 10 = 0 THEN 0 ELSE (at(lo + 1) - at(lo)) * (idx % 10))

\* The rollup by category, in the order of their first flips, the most profitable first.
Alike(flips, i) == RestrictValues(flips, LAMBDA f : f.category = flips[i].category)

Rollup(flips) ==
  LET firsts == {i \in DOMAIN flips : \A j \in DOMAIN Alike(flips, i) : i <= j}
      row(i) == [category |-> flips[i].category, flips |-> Size(Alike(flips, i)),
                 cost |-> SumOver(Alike(flips, i), LAMBDA f : f.cost),
                 revenue |-> TotalRevenue(Alike(flips, i)), net |-> TotalNet(Alike(flips, i))]
      order == Sorted([i \in firsts |-> -TotalNet(Alike(flips, i))])
  IN [k \in DOMAIN order |-> row(order[k])]

\* Where the realized price fell in the band predicted at the purchase.
Inside(f) == f.sale >= f.p10 /\ f.sale <= f.p90
Calibration(flips) ==
  [n |-> Len(flips),
   inside |-> Size(RestrictValues(flips, Inside)),
   below |-> Size(RestrictValues(flips, LAMBDA f : f.sale < f.p10)),
   above |-> Size(RestrictValues(flips, LAMBDA f : f.sale > f.p90))]

(***************************************************************************)
(* computeTearsheet(result), of a run of so many days; a share of nothing  *)
(* is nothing.                                                             *)
(***************************************************************************)
ComputeTearsheet(daily, flips, contribs, days) ==
  LET equity == IF daily = <<>> THEN 0 ELSE daily[Len(daily)].equity IN
  [totalReturn |-> TotalReturn(contribs, equity),
   moneyWeightedReturn |-> ModifiedDietz(contribs, equity, days),
   hitRate |-> Share(Wins(flips), Len(flips)), flips |-> Len(flips),
   medianHold |-> HoldQuantile(flips, 5), p90Hold |-> HoldQuantile(flips, 9),
   maxDrawdown |-> MaxDrawdown(daily), utilization |-> Utilization(daily),
   feeBurden |-> Share(TotalFees(flips), TotalRevenue(flips)),
   totalContributions |-> TotalContributions(contribs), finalEquity |-> equity,
   netProfit |-> TotalNet(flips), totalRevenue |-> TotalRevenue(flips),
   totalFees |-> TotalFees(flips), categories |-> Rollup(flips),
   calibration |-> Calibration(flips),
   points |-> [i \in DOMAIN flips |-> [realized |-> flips[i].sale, p10 |-> flips[i].p10,
                                       p90 |-> flips[i].p90, inside |-> Inside(flips[i])]]]

\* computeDemoAnalytics: the figures and the series of the page, from the tearsheet.
Analytics(daily, t) ==
  LET share(n) == Share(n, t.calibration.n)
  IN [kpis |-> [moneyWeightedReturn |-> t.moneyWeightedReturn, totalReturn |-> t.totalReturn,
                hitRate |-> t.hitRate, maxDrawdown |-> t.maxDrawdown,
                capitalDeployed |-> t.utilization, feeBurden |-> t.feeBurden,
                medianHold |-> t.medianHold, p90Hold |-> t.p90Hold,
                netProfit |-> t.netProfit, finalEquity |-> t.finalEquity,
                totalContributions |-> t.totalContributions],
      equity |-> [d \in DOMAIN daily |-> [day |-> d - 1, equity |-> daily[d].equity,
                                          inventory |-> daily[d].inventory,
                                          cash |-> daily[d].equity - daily[d].inventory]],
      calibration |-> [n |-> t.calibration.n, coverage |-> share(t.calibration.inside),
                       below |-> share(t.calibration.below), above |-> share(t.calibration.above),
                       points |-> t.points],
      categories |-> t.categories]
================================================================================
