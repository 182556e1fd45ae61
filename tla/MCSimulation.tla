---------------------------- MODULE MCSimulation ----------------------------
(***************************************************************************)
(* Every market of three days with up to two listings on the first and one *)
(* on the second, drawn from a steal, two deals that sell at a loss, a     *)
(* fair price, a deal on thin and stale comps that sells for less than its *)
(* fees, one that makes too little for its return, one that the price      *)
(* filter drops and one that is blocked.                                   *)
(***************************************************************************)
EXTENDS Learning

CONSTANTS games, gear, media

Comp(price, sold, seller, band) ==
  [price |-> price, sold |-> sold, seller |-> seller, band |-> band,
   provider |-> IF seller = 1 THEN "keepa" ELSE "terapeak"]

Retro == <<Comp(30000, -1, 1, "good"), Comp(33000, -9, 2, "good"), Comp(28500, -31, 3, "good"),
           Comp(38000, -62, 4, "like_new"), Comp(21000, -20, 5, "fair"), Comp(90000, -3, 6, "good"),
           Comp(31000, -5, 7, "good"), Comp(50000, -5, 8, "new")>>

Thin == <<Comp(9000, -10, 2, "good"), Comp(8000, -100, 3, "good"), Comp(9500, -40, 2, "good"),
          Comp(9900, -170, 4, "good")>>

Cheap == [i \in DOMAIN Retro |-> [Retro[i] EXCEPT !.price = @ \div 7]]

Listing(ask, comps, realized, hold, category, risks) ==
  [ask |-> ask, comps |-> comps, realized |-> realized, hold |-> hold,
   category |-> category, risks |-> risks]

Kinds == {Listing(12000, Retro, 31000, 1, games, {}),
          Listing(9500, Retro, 3000, 2, gear, {}),
          Listing(9500, Retro, 4000, 1, games, {}),
          Listing(20500, Retro, 31000, 1, games, {}),
          Listing(1500, Thin, 30, 1, gear, {"untested"}),
          Listing(1000, Cheap, 4700, 1, games, {}),
          Listing(90, Retro, 20000, 1, games, {}),
          Listing(7000, Retro, 31000, 1, gear, {"stolen_risk"})}

Short == {<<>>} \cup {<<a>> : a \in Kinds}
Day == Short \cup {<<a, b>> : a, b \in Kinds}

Markets == {<<a, b, <<>>>> : a \in Day, b \in Short}

GamesProfile == [pctBp |-> 1360, fixed |-> 30, payBp |-> 0, payFixed |-> 0, promoBp |-> 300,
                 ship |-> 900, packaging |-> 150, returnLoss |-> 3000, returnBp |-> 600,
                 travel |-> 0, aprBp |-> 800, minutes |-> 20, days |-> 12]

\* The Etsy, Depop and Reverb rows of the schedule, for goods fetched by car.
Etsy == [GamesProfile EXCEPT !.pctBp = 650, !.fixed = 20, !.payBp = 300, !.payFixed = 25,
                             !.promoBp = 0, !.travel = 700, !.minutes = 30]
Depop == [Etsy EXCEPT !.pctBp = 0, !.fixed = 0, !.payBp = 330, !.payFixed = 45]
Reverb == [Etsy EXCEPT !.pctBp = 500, !.fixed = 0, !.payBp = 320, !.payFixed = 0]

OtherProfiles == {Etsy, Depop, Reverb}

Parents == [c \in {games, gear} |-> media]

Contributions == <<[day |-> 0, amount |-> 1000], [day |-> 1, amount |-> 2000],
                   [day |-> 2, amount |-> 38000]>>
===============================================================================
