----------------------------- MODULE MCPurchasing -----------------------------
(***************************************************************************)
(* Deals on both sides of every rule, over two categories and a bankroll   *)
(* of twenty: a game to check out at once, a tool on a marketplace that    *)
(* needs the T3 ceremony, an unsure one, a blocked one, one in T5 and a    *)
(* second game, with the sellers that accept, counter and decline.         *)
(* Either the operator's edits come in, or the outcomes of earlier         *)
(* purchases, with an edit between.                                        *)
(***************************************************************************)
EXTENDS Purchasing

CONSTANTS global, market, games, tools

MkDeal(id, a, c, s, t) ==
  [id |-> id, amount |-> a, category |-> c, scope |-> s, unsure |-> id = 3,
   sure |-> id # 3, hardBlock |-> id = 4, tier |-> t,
   gate |-> IF id \in {1, 6} THEN "checkout" ELSE "pickup",
   reserve |-> IF id = 2 THEN 3 ELSE a,
   walkAway |-> IF id = 6 THEN 3 ELSE IF id = 2 THEN 2 ELSE a]

Game == MkDeal(1, 4, games, {market}, "T0")
Ceremonial == MkDeal(2, 5, games, {market}, "T3")
Unsure == MkDeal(3, 2, tools, {}, "T0")
Blocked == MkDeal(4, 2, tools, {}, "T0")
Excluded == MkDeal(5, 3, tools, {}, "T5")
Second == MkDeal(6, 4, games, {}, "T0")

Deals == {Game, Ceremonial, Unsure, Blocked, Excluded, Second}

MkPolicy(cap, autonomy, tiers, signed) ==
  [cap |-> cap, autonomy |-> [g \in {"checkout"} |-> autonomy],
   tiers |-> tiers, signed |-> signed]

Policies == {MkPolicy(6, "L3", Tier, {"T3"}), MkPolicy(4, "L4", Tier, {}),
             MkPolicy(5, "L2", {"T0"}, {"T3"})}

Load(deals, sellers, edits, outcomes, initial) ==
  [deals |-> deals, sellers |-> sellers, edits |-> edits, outcomes |-> outcomes,
   initialLevel |-> initial]

Loads == {Load(Deals \ {Second}, {Ceremonial}, 4, 0, "L3"),
          Load({Game, Second}, {Game, Second}, 1, 3, "L2"),
          Load({Game, Second}, {}, 0, 3, "L4")}

Anchors == [c \in {games, tools} |-> 2000]
===============================================================================
