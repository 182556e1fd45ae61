-------------------------------- MODULE MCGoods --------------------------------
(***************************************************************************)
(* Loads of one kind each: a parcel, two of which one or both have to be   *)
(* screened, a stolen phone where there is no blacklist, a parcel and a    *)
(* correction by hand, and nothing but entries by hand.  The parcels are a *)
(* game that sells at its own pace, a phone worth less than its floor that *)
(* is to be put in the bin numbered first, and a console and phones that   *)
(* do not pass.                                                            *)
(*                                                                         *)
(* The entries by hand are on both sides of every check: a purchase with   *)
(* and without travel and one of nothing, sales with every optional leg,   *)
(* with none and with fees over the price, and returns at the full value,  *)
(* at a haircut and at nothing.                                            *)
(***************************************************************************)
EXTENDS Goods

CONSTANT tx

Bought(p, t, s, v) == [price |-> p, tax |-> t, shipIn |-> s, travel |-> v]
Purchases == {Bought(2, 1, 0, 1), Bought(1, 0, 1, 0), Bought(0, 0, 0, 1)}

Sold(g, f, a, l, in, t, r) == [gross |-> g, fees |-> f, adFees |-> a, label |-> l,
                               income |-> in, tax |-> t, region |-> r]
Sales == {Sold(5, 1, 1, 1, 1, 1, tx), Sold(3, 1, 0, 0, 0, 1, NoRegion),
          Sold(1, 1, 1, 0, 0, 0, tx), Sold(2, 2, 0, 2, 0, 0, NoRegion)}

Returned(v, w) == [refund |-> v, restock |-> w]
Returns == {Returned(5, 2), Returned(3, 1), Returned(2, 0), Returned(2, 4)}

Imei(last) == <<4, 9, 0, 1, 5, 4, 2, 0, 3, 2, 3, 7, 5, 1, last>>

Phone(last, screening, battery) ==
  [category |-> "phone", photos |-> 5, imei |-> Imei(last), screening |-> screening,
   tests |-> [k \in {"powers_on", "imei_clean", "screen_ok", "battery_health"} |->
                k \in {"powers_on", "imei_clean"} \/ (k = "battery_health" /\ battery)],
   price |-> 4000, value |-> 4300, tts |-> 0, tax |-> 80, region |-> tx, hint |-> NoBin]

Game == [category |-> "games", photos |-> 4, imei |-> <<>>, screening |-> "none",
         tests |-> [k \in {"disc_reads", "no_deep_scratches", "case_and_art"} |-> TRUE],
         price |-> 4000, value |-> 5200, tts |-> 2, tax |-> 0, region |-> NoRegion, hint |-> NoBin]

Console == [Game EXCEPT !.category = "console", !.photos = 6,
                        !.tests = [k \in {"powers_on", "no_cracks"} |-> TRUE]]

Worn == [Phone(8, "clean", FALSE) EXCEPT !.hint = 1]
Stolen == Phone(8, "blacklisted", TRUE)
Filed == Phone(7, "unknown", TRUE)

Parcels == {Game, Console, Worn, Stolen, Filed}

Load(parcels, entries, screens) ==
  [parcels |-> parcels, entries |-> entries, screens |-> screens]
Loads == {Load({Game}, 0, TRUE), Load({Worn, Stolen}, 0, TRUE), Load({Stolen}, 0, FALSE),
          Load({Console, Filed}, 0, TRUE), Load({Worn}, 1, TRUE), Load({}, 6, TRUE)}
===============================================================================
