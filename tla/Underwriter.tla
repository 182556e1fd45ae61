------------------------------ MODULE Underwriter ------------------------------
(***************************************************************************)
(* The underwriter, packages/underwrite/src/underwrite.ts and fees.ts, on  *)
(* the cent arithmetic of packages/money, and the score of                 *)
(* packages/rank/src/score.ts, in the order engine.ts puts them together.  *)
(*                                                                         *)
(* A profile is a CategoryProfile with the fee row of its channel.  The    *)
(* probability of a profit is read off the line through the three          *)
(* quantiles a lognormal is fitted to.                                     *)
(***************************************************************************)
EXTENDS Valuation

CONSTANTS NetFloor, RoiFloorBp, HourFloor  \* UnderwriteFloors

MulBp(base, bp) == RoundDiv(base * bp, 10000)

CarryCost(principal, aprBp, days) == RoundDiv(principal * aprBp * days, 3650000)
LaborCost(minutes, perHour) == RoundDiv(perHour * minutes, 60)

(***************************************************************************)
(* underwrite(input), for a purchase at ask of an item resold at resale.   *)
(***************************************************************************)
PlatformFee(p, resale) == MulBp(resale, p.pctBp) + p.fixed
PaymentFee(p, resale) == IF p.payBp = 0 THEN 0 ELSE MulBp(resale, p.payBp) + p.payFixed
Promo(p, resale) == MulBp(resale, p.promoBp)
ReturnsReserve(p) == MulBp(p.returnLoss, p.returnBp)
FixedSellCosts(p) == p.ship + p.packaging + ReturnsReserve(p)

NetProceeds(p, resale) ==
  resale - PlatformFee(p, resale) - PaymentFee(p, resale) - Promo(p, resale)
  - FixedSellCosts(p)

CashAtRisk(p, ask) == ask + p.travel

BelowLine(p, ask, days) ==
  CashAtRisk(p, ask) + CarryCost(CashAtRisk(p, ask), p.aprBp, days)

Labor(p) == LaborCost(p.minutes, 2500)

Net(p, ask, days, resale) == NetProceeds(p, resale) - BelowLine(p, ask, days) - Labor(p)

CashNet(p, ask, days, resale) == Net(p, ask, days, resale) + Labor(p)

\* A purchase that risks no cash has no return.
MeetsRoi(net, cash) == IF cash > 0 THEN net * 100 >= (RoiFloorBp \div 100) * cash
                       ELSE RoiFloorBp <= 0

PerHour(p, cashNet) == IF p.minutes > 0 THEN RoundDiv(cashNet * 60, p.minutes) ELSE cashNet

FloorsPass(p, ask, days, resale) ==
  LET net == Net(p, ask, days, resale) IN
  /\ net >= NetFloor
  /\ MeetsRoi(net, CashAtRisk(p, ask))
  /\ PerHour(p, CashNet(p, ask, days, resale)) >= HourFloor

\* Faulty: the fixed part of the payment fee is forgotten.
BreakEvenNoPayment(p, ask, days) ==
  RoundDiv((p.fixed + FixedSellCosts(p) + BelowLine(p, ask, days) + Labor(p)) * 10000,
           10000 - p.pctBp - p.payBp - p.promoBp)

\* K over the slope: the resale at which the net is nothing
BreakEven(p, ask, days) ==
  RoundDiv((p.fixed + p.payFixed + FixedSellCosts(p) + BelowLine(p, ask, days) + Labor(p)) * 10000,
           10000 - p.pctBp - p.payBp - p.promoBp)

\* The lines shown, but for the subtotal and the total; a line of zero is no line.
Waterfall(p, ask, days, resale) ==
  <<resale, -PlatformFee(p, resale), -PaymentFee(p, resale), -Promo(p, resale), -p.ship,
    -p.packaging, -ReturnsReserve(p), -ask, -p.travel,
    -CarryCost(CashAtRisk(p, ask), p.aprBp, days), -Labor(p)>>

(***************************************************************************)
(* The share of resales at or below x: half of them at the median, a tenth *)
(* and nine tenths at the two other quantiles, and a profit is what is     *)
(* above the break-even.                                                   *)
(***************************************************************************)
BelowShare(v, x) ==
  IF x <= v.p10 THEN 1000
  ELSE IF x <= v.p50 THEN 1000 + (4000 * (x - v.p10)) \div (v.p50 - v.p10)
  ELSE IF x <= v.p90 THEN 5000 + (4000 * (x - v.p50)) \div (v.p90 - v.p50)
  ELSE 9000

ProfitProbability(v, breakEven) == 10000 - BelowShare(v, breakEven)

\* What underwrite returns, for a valuation v of the item.
UnderwriteResult(p, ask, days, v) ==
  LET cashNet == CashNet(p, ask, days, v.p50)
      even == BreakEven(p, ask, days)
  IN [netProceeds |-> NetProceeds(p, v.p50), cashAtRisk |-> CashAtRisk(p, ask),
      net |-> Net(p, ask, days, v.p50), cashNet |-> cashNet, netP10 |-> Net(p, ask, days, v.p10),
      perHour |-> PerHour(p, cashNet), breakEven |-> even,
      pProfit |-> ProfitProbability(v, even), pass |-> FloorsPass(p, ask, days, v.p50)]

(***************************************************************************)
(* score(input), in basis points of a hundred                              *)
(***************************************************************************)
Penalty == [stolen_risk |-> 2500, counterfeit_risk |-> 2000, condition_conflict |-> 1000,
            untested |-> 800, oversize |-> 600, single_provider_comps |-> 500,
            no_return_exit |-> 500]

HardBlock(risks) == "stolen_risk" \in risks

Liquidity(v) ==
  LET slow == Clamp(10000 - (v.tts * 10000) \div 60, 0, 10000)
  IN IF v.tts # NoEstimate /\ v.sellThrough # NoEstimate
     THEN (6 * v.sellThrough + 4 * slow) \div 10
     ELSE IF v.sellThrough # NoEstimate THEN v.sellThrough ELSE 5000

RoiPart(net, cash) == IF cash > 0 THEN (Clamp(((net * 1000) \div cash) * 10, 0, 15000) * 2) \div 3
                      ELSE 0

Score(v, u, minutes, risks) ==
  LET base == (35 * RoiPart(u.net, u.cashAtRisk) + 25 * u.pProfit
               + 20 * Liquidity(v) + 10 * v.confidence
               + 10 * (10000 - Clamp((minutes * 10000) \div 120, 0, 10000))) \div 100
  IN Clamp(base - FoldSet(LAMBDA r, acc : acc + Penalty[r], 0, risks), 0, 10000)

BandFor(score, risks) == IF HardBlock(risks) THEN "archive"
                         ELSE IF score >= 8500 THEN "push"
                         ELSE IF score >= 7000 THEN "feed"
                         ELSE IF score >= 5500 THEN "digest"
                         ELSE "archive"

(***************************************************************************)
(* Engine.process, from the comps of a product to OpportunityResult, with  *)
(* the price window of the F0 filter before it                             *)
(***************************************************************************)
CONSTANTS MinPrice, MaxPrice  \* FilterConfig

\* f0Filter: a price outside the window is dropped before anything is spent on it.
F0Filter(ask) == ask >= MinPrice /\ ask <= MaxPrice

Untaken == [identified |-> FALSE, taken |-> FALSE, score |-> 0, p10 |-> 0, p50 |-> 0, p90 |-> 0,
            net |-> 0]

Days(p, v) == IF v.tts = NoEstimate THEN p.days ELSE v.tts

Risks(l) == l.risks \cup IF Cardinality({l.comps[i].provider : i \in DOMAIN l.comps}) < 2
                         THEN {"single_provider_comps"} ELSE {}

Judged(v, u, s, risks) ==
  [identified |-> TRUE,
   taken |-> ~HardBlock(risks) /\ u.pass /\ BandFor(s, risks) # "archive",
   score |-> s, p10 |-> v.p10, p50 |-> v.p50, p90 |-> v.p90, net |-> u.net]

Scored(p, v, u, risks) == Judged(v, u, Score(v, u, p.minutes, risks), risks)

Underwritten(p, l, ask, v) ==
  IF v.p50 <= 0 THEN [Untaken EXCEPT !.identified = TRUE]
  ELSE Scored(p, v, UnderwriteResult(p, ask, Days(p, v), v), Risks(l))

Opportunity(p, l, ask, asOf) ==
  IF ~F0Filter(ask) THEN Untaken
  ELSE IF l.comps = <<>> THEN [Untaken EXCEPT !.identified = TRUE]
  ELSE Underwritten(p, l, ask, Appraise(l.comps, "good", asOf))
================================================================================
