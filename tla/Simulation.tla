------------------------------ MODULE Simulation ------------------------------
(***************************************************************************)
(* The market simulation, packages/sim/src/simulate.ts: the engine and the *)
(* double-entry books driven together, day after day, over a market that   *)
(* is generated up front (market.ts, harness.ts).                          *)
(*                                                                         *)
(* Each listing is underwritten and each position settled in a step of its *)
(* own.  A call of the bookkeeper that throws rejects the whole run.       *)
(***************************************************************************)
EXTENDS Underwriter, Tearsheet

CONSTANTS Market,          \* markets that may be generated, a listing sequence a day
          Profile,         \* the profile every category resolves to, with its fee row
          Profiles,       \* other profiles a category may have
          Schedule,        \* contributionSchedule
          MaxCapital, PerDayCap, FeeBp, FeeFixed, ShipLabel,  \* SimConfig
          MaxSku,          \* purchases (a bound)
          NoBasis, NoRegion

\* What market.ts generates: a hold is geometric, a day or longer (rng.ts:49-53).
Listed(l) ==
  /\ l.ask \in Nat /\ l.realized \in Nat /\ l.hold \in Nat \ {0}
  /\ l.comps \in Seq(Range(l.comps))
  /\ \A i \in DOMAIN l.comps : /\ l.comps[i].price \in Nat /\ l.comps[i].sold \in Int
                               /\ l.comps[i].band \in Range(Band)

\* A profile with its fee row: no negative cost, and a sale leaves something of its price.
Resells(p) ==
  /\ {p.pctBp, p.fixed, p.payBp, p.payFixed, p.promoBp, p.ship, p.packaging, p.returnLoss,
      p.returnBp, p.travel, p.aprBp, p.minutes, p.days} \subseteq Nat
  /\ p.pctBp + p.payBp + p.promoBp < 10000
  /\ p.payBp = 0 => p.payFixed = 0

ASSUME SimulationAssumption ==
  /\ \A m \in Market : /\ m \in Seq(Range(m)) /\ m # <<>>
                       /\ \A d \in DOMAIN m : /\ m[d] \in Seq(Range(m[d]))
                                             /\ \A i \in DOMAIN m[d] : Listed(m[d][i])
  /\ \A p \in Profiles \cup {Profile} : Resells(p)
  /\ ActiveCount \in Nat /\ HalfLife \in Nat \ {0}
  /\ Schedule \in Seq([day : Nat, amount : Nat])
  /\ {FeeBp, FeeFixed, ShipLabel, MaxSku} \subseteq Nat
  /\ NoBasis \notin Nat

VARIABLES market, day, phase, cursor,  \* cursor: the index of the loop under way
          capital, contribs,           \* cumulativeCapital, contributions
          open, takes, spentToday, skuSeq,
          flips, daily,
          balance, costBasis, taxByState, posts,      \* the bookkeeper
          carried, copies, orderly, untagged          \* and its history

bookVars == <<balance, costBasis, taxByState, posts, carried, copies, orderly, untagged>>
clockVars == <<market, day, phase, cursor>>
capitalVars == <<capital, contribs>>
tradeVars == <<open, takes, spentToday, skuSeq>>
reportVars == <<flips, daily>>
vars == <<clockVars, capitalVars, tradeVars, reportVars, bookVars>>

Books == INSTANCE Bookkeeper WITH Sku <- 1 .. MaxSku, Region <- {}, Amount <- {},
           Purchase <- {}, Sale <- {}, Return <- {}, MaxPosts <- 4 * MaxSku + 4

cash == balance["cash"]
inventory == balance["inventory"]

Init == /\ market \in Market
        /\ day = 0 /\ phase = "contribute" /\ cursor = 1
        /\ capital = 0 /\ contribs = <<>>
        /\ open = <<>> /\ takes = <<>> /\ spentToday = 0 /\ skuSeq = 0
        /\ flips = <<>> /\ daily = <<>>
        /\ Books!Init

Goto(p, c) == phase' = p /\ cursor' = c
Stay == UNCHANGED <<market, day>>

(***************************************************************************)
(* 0) inject: the contributions scheduled for the day, within the cap.     *)
(***************************************************************************)
Inject(x) == /\ Books!InjectCapital(x)
             /\ capital' = capital + x
             /\ contribs' = Append(contribs, [day |-> day, amount |-> x])

Contribute ==
  /\ phase = "contribute"
  /\ Stay
  /\ IF cursor > Len(Schedule)
     THEN Goto("settle", Len(open)) /\ UNCHANGED <<capitalVars, bookVars>>
     ELSE /\ Goto("contribute", cursor + 1)
          /\ IF /\ Schedule[cursor].day = day
                /\ capital + Schedule[cursor].amount <= MaxCapital
             THEN Inject(Schedule[cursor].amount)
             ELSE UNCHANGED <<capitalVars, bookVars>>
  /\ UNCHANGED <<tradeVars, reportVars>>

(***************************************************************************)
(* 1) Settle what is due, from the back, so that splice(i, 1) moves        *)
(* nothing the loop has yet to look at.                                    *)
(***************************************************************************)
SaleOf(p) == [gross |-> p.realized, fees |-> MulBp(p.realized, FeeBp) + FeeFixed,
              adFees |-> 0, label |-> ShipLabel, income |-> 0, tax |-> 0, region |-> NoRegion]

\* Faulty: the label is booked and not counted.
FlipNoLabel(p) == LET s == SaleOf(p) IN
  [category |-> p.category, buyDay |-> p.buyDay, sellDay |-> day, hold |-> p.hold,
   cost |-> p.cost, sale |-> s.gross, fees |-> s.fees,
   net |-> s.gross - s.fees - p.cost, p10 |-> p.p10, p50 |-> p.p50, p90 |-> p.p90]

Flip(p) == LET s == SaleOf(p) IN
  [category |-> p.category, buyDay |-> p.buyDay, sellDay |-> day, hold |-> p.hold,
   cost |-> p.cost, sale |-> s.gross, fees |-> s.fees,
   net |-> s.gross - s.fees - ShipLabel - p.cost, p10 |-> p.p10, p50 |-> p.p50, p90 |-> p.p90]

Settled == /\ Goto("underwrite", 1)
           /\ UNCHANGED <<open, flips, bookVars>>

Sell(p, next) ==
  IF Books!SaleIsLegal(p.sku, SaleOf(p))
  THEN /\ Books!RecordSale(p.sku, SaleOf(p))
       /\ flips' = Append(flips, Flip(p))
       /\ open' = RemoveAt(open, cursor)
       /\ Goto("settle", next)
  ELSE Goto("threw", cursor) /\ UNCHANGED <<open, flips, bookVars>>

\* Faulty: the loop runs forwards, past what splice moves into the gap.
SettleForwards ==
  /\ phase = "settle"
  /\ Stay
  /\ IF open = <<>> THEN Settled
     ELSE IF open[1 + Len(open) - cursor].sellDay # day
     THEN IF cursor = 1 THEN Settled
          ELSE Goto("settle", cursor - 1) /\ UNCHANGED <<open, flips, bookVars>>
     ELSE LET at == 1 + Len(open) - cursor
              p == open[at] IN
          IF ~Books!SaleIsLegal(p.sku, SaleOf(p))
          THEN Goto("threw", cursor) /\ UNCHANGED <<open, flips, bookVars>>
          ELSE /\ Books!RecordSale(p.sku, SaleOf(p))
               /\ flips' = Append(flips, Flip(p))
               /\ open' = RemoveAt(open, at)
               /\ IF cursor <= 2 THEN Goto("underwrite", 1) ELSE Goto("settle", cursor - 2)
  /\ UNCHANGED <<capitalVars, takes, spentToday, skuSeq, daily>>

Settle ==
  /\ phase = "settle"
  /\ Stay
  /\ IF cursor = 0 THEN Settled
     ELSE IF open[cursor].sellDay # day
     THEN Goto("settle", cursor - 1) /\ UNCHANGED <<open, flips, bookVars>>
     ELSE Sell(open[cursor], cursor - 1)
  /\ UNCHANGED <<capitalVars, takes, spentToday, skuSeq, daily>>

(***************************************************************************)
(* 2) Underwrite the listings of the day; takes are kept in score order.   *)
(***************************************************************************)
Today == market[day + 1]

Take(l, o) == [ask |-> l.ask, realized |-> l.realized, hold |-> l.hold,
               category |-> l.category, score |-> o.score, p10 |-> o.p10, p50 |-> o.p50,
               p90 |-> o.p90]

\* Behind those that score as high: the sort is stable.
InScoreOrder(t) ==
  InsertAt(takes, 1 + Cardinality({i \in DOMAIN takes : takes[i].score >= t.score}), t)

Verdict(l) == Opportunity(Profile, l, l.ask, day)

Underwrite ==
  /\ phase = "underwrite"
  /\ Stay
  /\ IF cursor > Len(Today)
     THEN Goto("acquire", 1) /\ spentToday' = 0 /\ UNCHANGED takes
     ELSE LET l == Today[cursor]
              o == Verdict(l) IN
          /\ Goto("underwrite", cursor + 1)
          /\ takes' = IF o.taken THEN InScoreOrder(Take(l, o)) ELSE takes
          /\ UNCHANGED spentToday
  /\ UNCHANGED <<capitalVars, open, skuSeq, reportVars, bookVars>>

(***************************************************************************)
(* 3) Buy in score order, with capital topped up in whole hundreds of      *)
(* dollars when cash is short.                                             *)
(***************************************************************************)
TopUp(shortfall) == 10000 * ((shortfall + 9999) \div 10000)

Acquire ==
  LET t == Head(takes)
      shortfall == t.ask - cash
      topUp == TopUp(shortfall)
      short == cash < t.ask
  IN
  /\ phase = "acquire" /\ takes # <<>>
  /\ \/ /\ \/ spentToday + t.ask > PerDayCap
           \/ short /\ cursor = 1 /\ capital + topUp > MaxCapital
        /\ takes' = Tail(takes)
        /\ UNCHANGED <<cursor, capitalVars, open, spentToday, skuSeq, bookVars>>
     \/ /\ spentToday + t.ask <= PerDayCap
        /\ short /\ cursor = 1
        /\ capital + topUp <= MaxCapital
        /\ Inject(topUp)
        /\ cursor' = 2  \* topped up: the purchase is next
        /\ UNCHANGED <<open, takes, spentToday, skuSeq>>
     \/ /\ spentToday + t.ask <= PerDayCap
        /\ ~short \/ cursor = 2
        /\ skuSeq < MaxSku
        /\ Books!RecordPurchase(skuSeq + 1, [price |-> t.ask, tax |-> 0, shipIn |-> 0, travel |-> 0])
        /\ skuSeq' = skuSeq + 1
        /\ open' = Append(open, [sku |-> skuSeq + 1, category |-> t.category, buyDay |-> day,
                                 sellDay |-> day + t.hold, cost |-> t.ask, realized |-> t.realized,
                                 hold |-> t.hold, p10 |-> t.p10, p50 |-> t.p50, p90 |-> t.p90])
        /\ spentToday' = spentToday + t.ask
        /\ takes' = Tail(takes)
        /\ cursor' = 1
        /\ UNCHANGED capitalVars
  /\ Stay
  /\ UNCHANGED <<phase, reportVars>>

(***************************************************************************)
(* 4) Mark to market, and the next day.                                    *)
(***************************************************************************)
Mark == /\ phase = "acquire" /\ takes = <<>>
        /\ daily' = Append(daily, [equity |-> cash + inventory, inventory |-> inventory])
        /\ day' = day + 1
        /\ Goto(IF day + 1 = Len(market) THEN "done" ELSE "contribute", 1)
        /\ UNCHANGED <<market, capitalVars, tradeVars, flips, bookVars>>

Next == Contribute \/ Settle \/ Underwrite \/ Acquire \/ Mark

Spec == Init /\ [][Next]_vars

-------------------------------------------------------------------------------
(***************************************************************************)
(* "The accounting closes: final equity = total contributions + realized   *)
(* net profit" (docs/SIMULATION.md), and at every step between: what the   *)
(* ledger holds is what was put in and what the flips, which keep accounts *)
(* of their own, say they made.                                            *)
(***************************************************************************)
EquityIsExplained ==
  /\ cash + inventory = capital + TotalNet(flips)
  /\ capital = TotalContributions(contribs)
  /\ inventory = SumOver(open, LAMBDA p : p.cost)

(***************************************************************************)
(* No position is left behind: once the sales of a day are settled, all    *)
(* that is open sells later, and what sold did on its day                  *)
(* (simulate.ts:77-108).                                                   *)
(***************************************************************************)
NothingIsOverdue ==
  phase \in {"underwrite", "acquire"} =>
    /\ \A i \in DOMAIN open : open[i].sellDay > day
    /\ \A i \in DOMAIN flips : flips[i].sellDay = flips[i].buyDay + flips[i].hold

(***************************************************************************)
(* What the page shows agrees with the ledger and with itself: its profit  *)
(* is the gain in equity, the categories add up to it, every flip is in,   *)
(* below or above its band, the curve ends at the final equity, and no     *)
(* fall between two of its days, short of ruin, is deeper than the         *)
(* drawdown (metrics.ts:120-248, analytics.ts:77-142).                     *)
(***************************************************************************)
TearsheetAgrees ==
  phase = "done" =>
  \A t \in {ComputeTearsheet(daily, flips, contribs, Len(market))} :
  \A page \in {Analytics(daily, t)} :
    LET curve == page.equity IN
    /\ page.kpis.netProfit = curve[Len(curve)].equity - page.kpis.totalContributions
    /\ page.kpis.netProfit = SumOver(page.categories, LAMBDA c : c.net)
    /\ t.totalRevenue = SumOver(page.categories, LAMBDA c : c.revenue)
    /\ page.calibration.n = SumOver(page.categories, LAMBDA c : c.flips)
    /\ page.calibration.n = t.calibration.inside + t.calibration.below + t.calibration.above
    /\ t.calibration.inside = Cardinality({i \in DOMAIN t.points : t.points[i].inside})
    /\ \A a, b \in DOMAIN curve : a < b /\ curve[a].equity > 0 /\ curve[b].equity >= 0 =>
         Share(curve[a].equity - curve[b].equity, curve[a].equity) <= page.kpis.maxDrawdown
    /\ page.kpis.medianHold <= page.kpis.p90Hold

(***************************************************************************)
(* The waterfall shown for a deal adds up to the net it was decided on     *)
(* (underwrite.ts:163-182), and at the break-even resale, which is         *)
(* computed apart from it, nothing is gained or lost but the rounding      *)
(* (underwrite.ts:135-143), under every profile and fee row.               *)
(***************************************************************************)
WaterfallIsExact ==
  phase = "underwrite" /\ cursor <= Len(Today) =>
    LET l == Today[cursor] IN
    \A v \in {Appraise(l.comps, "good", day)}, p \in Profiles \cup {Profile} :
      LET d == Days(p, v)
          even == BreakEven(p, l.ask, d) IN
      /\ SumOver(Waterfall(p, l.ask, d, v.p50), LAMBDA x : x) = Net(p, l.ask, d, v.p50)
      /\ Abs(Net(p, l.ask, d, even)) <= 2
===============================================================================
