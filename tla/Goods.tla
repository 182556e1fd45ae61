--------------------------------- MODULE Goods ---------------------------------
(***************************************************************************)
(* A unit from the parcel to the books: received by the Intake             *)
(* (packages/intake), repriced by the Pricer (packages/pricer), shipped    *)
(* and taken back by Ops (packages/ops), and recorded by the bookkeeper.   *)
(* They are called in the order of flows/test/e2e.exit.test.ts, by callers *)
(* of their own, so that what they await may overlap.                      *)
(*                                                                         *)
(* A unit is known by its parcel: what was bought and what the bench, the  *)
(* blacklist and the appraiser say of it.  Days are counted from the       *)
(* listing of each unit.                                                   *)
(***************************************************************************)
EXTENDS Bookkeeper, Sequences, FiniteSetsExt

CONSTANTS Parcel,
          Workload,   \* what may come in: parcels, and entries made by hand
          LabelCost,  \* FakeShippingProvider.buyLabel, for one weight
          MaxAge, MaxCalls,  \* days listed, and fulfilments of a unit in flight (bounds)
          NoOffer, NoBin

\* There are skus enough.  A hint n > 0 names the bin the sequence calls A-n,
\* any other a bin that it does not reach; an Intake screens when it was made
\* with a blacklist.
ASSUME GoodsAssumption ==
  /\ LabelCost \in Nat
  /\ Workload \subseteq [parcels : SUBSET Parcel, entries : Nat, screens : BOOLEAN]
  /\ \A w \in Workload : IsFiniteSet(w.parcels) /\ 1 .. Cardinality(w.parcels) \subseteq Sku
  /\ NoOffer \notin [at : Nat, price : Nat] /\ NoBin \notin Int
  /\ \A p \in Parcel : /\ {p.price, p.value, p.tax, p.tts} \subseteq Nat
                       /\ p.region \in Region \cup {NoRegion}
                       /\ p.hint \in Int \cup {NoBin}
                       /\ p.screening = "blacklisted" => p.imei # <<>>
                       /\ {"category", "tests"} \subseteq DOMAIN p

VARIABLES load,         \* the workload still to come, and whether it is screened
          stage,        \* where each unit is
          skuOf, bin,   \* IntakeResult.sku and .bin
          seq, binSeq,  \* Intake.#seq, #binSeq
          price, age, offer,   \* of its listing; offer: the last to its watchers
          gross,        \* of its sale
          shipment,     \* Ops.#shipments has the unit
          calls,        \* fulfilments that await a label
          till,         \* history: the money that moved
          odd           \* history: units whose label or sale went astray

intakeVars == <<skuOf, bin, seq, binSeq>>
listingVars == <<price, age, offer>>
opsVars == <<shipment, calls>>
flowVars == <<load, stage, intakeVars, listingVars, gross, opsVars, till, odd>>
goodsVars == <<flowVars, vars>>

GoodsInit == /\ Init
             /\ load \in Workload
             /\ stage = [p \in Parcel |-> "bought"]
             /\ skuOf = [p \in Parcel |-> 0] /\ bin = [p \in Parcel |-> NoBin]
             /\ seq = 0 /\ binSeq = 0
             /\ price = [p \in Parcel |-> 0] /\ age = [p \in Parcel |-> 0]
             /\ offer = [p \in Parcel |-> NoOffer]
             /\ gross = [p \in Parcel |-> 0]
             /\ shipment = [p \in Parcel |-> FALSE] /\ calls = [p \in Parcel |-> 0]
             /\ till = 0 /\ odd = {}

Move(p, s) == stage' = [stage EXCEPT ![p] = s]

(***************************************************************************)
(* CATEGORY_CHECKLISTS and CATEGORY_SHOTLISTS.  p.tests is a function on   *)
(* the checks that were done.                                              *)
(***************************************************************************)
Check(key, required, severity) == [key |-> key, required |-> required, severity |-> severity]

Checklist == [
  games |-> {Check("disc_reads", TRUE, "functional"),
             Check("no_deep_scratches", FALSE, "cosmetic"),
             Check("case_and_art", FALSE, "cosmetic")},
  console |-> {Check("powers_on", TRUE, "functional"),
               Check("hdmi_output", TRUE, "functional"),
               Check("ports_and_reader", FALSE, "functional"),
               Check("no_cracks", FALSE, "cosmetic")},
  phone |-> {Check("powers_on", TRUE, "functional"),
             Check("imei_clean", TRUE, "functional"),
             Check("screen_ok", TRUE, "cosmetic"),
             Check("battery_health", FALSE, "functional")},
  other |-> {Check("powers_on_or_functions", TRUE, "functional"),
             Check("cosmetics_ok", FALSE, "cosmetic")}]

Shots == [games |-> 4, console |-> 6, phone |-> 5, other |-> 4]

Done(p, c) == c.key \in DOMAIN p.tests
Failed(p) == {c \in Checklist[p.category] : Done(p, c) /\ ~p.tests[c.key]}
MissingChecks(p) == {c \in Checklist[p.category] : c.required /\ ~Done(p, c)}

Condition(p) ==
  IF \E c \in Failed(p) : c.required /\ c.severity = "functional" THEN "parts"
  ELSE IF \E c \in Failed(p) : c.severity = "functional" THEN "fair"
  ELSE IF Failed(p) # {} THEN "good"
  ELSE IF \A c \in Checklist[p.category] : Done(p, c) THEN "like_new"
  ELSE "good"

(***************************************************************************)
(* imeiValid: fifteen digits, of which every other one counts twice.       *)
(***************************************************************************)
Twice(d) == IF 2 * d > 9 THEN 2 * d - 9 ELSE 2 * d

LuhnValid(s) ==
  LET worth(i) == IF (Len(s) - i) % 2 = 1 THEN Twice(s[i]) ELSE s[i]
  IN MapThenSumSet(worth, DOMAIN s) % 10 = 0

ImeiValid(s) == Len(s) = 15 /\ LuhnValid(s)

Screens(p) == load.screens /\ p.imei # <<>>
Blacklisted(p) == Screens(p) /\ p.screening = "blacklisted"

RiskFlags(p) ==
  (IF MissingChecks(p) # {} THEN {"untested"} ELSE {})
  \cup (IF Blacklisted(p) \/ (p.imei # <<>> /\ ~ImeiValid(p.imei)) THEN {"stolen_risk"} ELSE {})

Status(p) == IF Blacklisted(p) THEN "blocked"
             ELSE IF MissingChecks(p) # {} \/ p.photos < Shots[p.category] THEN "testing"
             ELSE "photographed"

(***************************************************************************)
(* receive(input), which awaits the blacklist when there are one and an    *)
(* IMEI, and the booking of the purchase that follows it.                  *)
(***************************************************************************)
\* `input.binHint ?? this.#nextBin()`: a hinted bin takes no number.
TakeBin(p) == /\ binSeq' = IF p.hint = NoBin THEN binSeq + 1 ELSE binSeq
              /\ bin' = [bin EXCEPT ![p] = IF p.hint = NoBin THEN binSeq + 1 ELSE p.hint]

\* Faulty: a blocked unit takes no number.
ShelveBlockedFree(p) ==
  /\ seq' = IF Status(p) = "blocked" THEN seq ELSE seq + 1
  /\ TakeBin(p)
  /\ skuOf' = [skuOf EXCEPT ![p] = seq + 1]
  /\ Move(p, Status(p))
  /\ RecordPurchase(seq + 1, [price |-> p.price, tax |-> 0, shipIn |-> 0, travel |-> 0])

Shelve(p) ==
  /\ seq' = seq + 1
  /\ TakeBin(p)
  /\ skuOf' = [skuOf EXCEPT ![p] = seq + 1]
  /\ Move(p, Status(p))
  /\ RecordPurchase(seq + 1, [price |-> p.price, tax |-> 0, shipIn |-> 0, travel |-> 0])

Receive(p) == /\ p \in load.parcels /\ stage[p] = "bought"
              /\ till' = till - p.price
              /\ IF Screens(p) THEN Move(p, "screening") /\ UNCHANGED <<intakeVars, vars>>
                 ELSE Shelve(p)
              /\ UNCHANGED <<load, listingVars, gross, opsVars, odd>>

Screened(p) == /\ stage[p] = "screening"
               /\ Shelve(p)
               /\ UNCHANGED <<load, listingVars, gross, opsVars, till, odd>>

(***************************************************************************)
(* The listing, at the appraised price, and its days.                      *)
(***************************************************************************)
List(p) == /\ stage[p] = "photographed"
           /\ Move(p, "listed")
           /\ price' = [price EXCEPT ![p] = p.value]
           /\ age' = [age EXCEPT ![p] = 0]
           /\ offer' = [offer EXCEPT ![p] = NoOffer]
           /\ UNCHANGED <<load, intakeVars, gross, opsVars, till, odd, vars>>

Wait(p) == /\ stage[p] = "listed" /\ age[p] < MaxAge
           /\ age' = [age EXCEPT ![p] = @ + 1]
           /\ UNCHANGED <<load, stage, intakeVars, price, offer, gross, opsVars, till, odd, vars>>

(***************************************************************************)
(* reprice(input, now) under DEFAULT_PRICE_POLICY, and the listing updated *)
(* to the price and the offer it decides on.                               *)
(***************************************************************************)
MulBp(base, bp) == (base * bp + 5000) \div 10000

Margin(basis) == Max({MulBp(basis, 1000), 500})
FloorPrice(basis) == basis + Margin(basis)

\* The age is at least r hundredths of the days it was expected to take.
Past(p, r) == age[p] * 100 >= r * (IF p.tts > 0 THEN p.tts ELSE 1)

LadderCut(p) == IF Past(p, 200) THEN 2500 ELSE IF Past(p, 150) THEN 1500
                ELSE IF Past(p, 100) THEN 800 ELSE 0

\* Faulty: the last cut is made whatever the unit cost.
NewPriceUnbounded(p) == Min({MulBp(p.value, 10000 - LadderCut(p)), price[p]})

NewPrice(p) == Max({Min({MulBp(p.value, 10000 - LadderCut(p)), price[p]}), FloorPrice(p.price)})

OfferPrice(p) == Max({MulBp(NewPrice(p), 9000), FloorPrice(p.price)})

Eligible(p, watchers) ==
  /\ watchers >= 2
  /\ Past(p, 75)
  /\ offer[p] = NoOffer \/ age[p] - offer[p].at >= 3
  /\ OfferPrice(p) < NewPrice(p)

Reprice(p, watchers) ==
  /\ stage[p] = "listed"
  /\ price' = [price EXCEPT ![p] = NewPrice(p)]
  /\ offer' = IF Eligible(p, watchers)
              THEN [offer EXCEPT ![p] = [at |-> age[p], price |-> OfferPrice(p)]]
              ELSE offer
  /\ UNCHANGED <<load, stage, intakeVars, age, gross, opsVars, till, odd, vars>>

(***************************************************************************)
(* A sale, at the price or at the offer, and what the marketplace pays.    *)
(***************************************************************************)
SaleOf(p) == [gross |-> gross[p], fees |-> MulBp(gross[p], 1360) + 30,
              adFees |-> MulBp(gross[p], 300), label |-> LabelCost, income |-> 0,
              tax |-> p.tax, region |-> p.region]

Prices(p) == {price[p]} \cup IF offer[p] = NoOffer THEN {} ELSE {offer[p].price}

Sell(p) == /\ stage[p] = "listed"
           /\ \E g \in Prices(p) :
                /\ gross' = [gross EXCEPT ![p] = g]
                /\ till' = till + g - MulBp(g, 1360) - 30 - MulBp(g, 300) + p.tax
           /\ Move(p, "sold")
           /\ UNCHANGED <<load, intakeVars, listingVars, opsVars, odd, vars>>

(***************************************************************************)
(* fulfill(req): an existing shipment is returned, or a label is awaited.  *)
(* A sale may be fulfilled twice.                                          *)
(***************************************************************************)
\* Faulty: whether there is a shipment is not asked.
FulfillAlways(p) ==
  /\ stage[p] \in {"sold", "shipped"}
  /\ calls[p] < MaxCalls
  /\ calls' = [calls EXCEPT ![p] = @ + 1]
  /\ odd' = IF calls[p] > 0 THEN odd \cup {p} ELSE odd
  /\ UNCHANGED <<load, stage, intakeVars, listingVars, gross, shipment, till, vars>>

Fulfill(p) ==
  /\ stage[p] \in {"sold", "shipped"}
  /\ IF shipment[p]
     THEN /\ Move(p, "shipped")
          /\ odd' = IF stage[p] = "sold" THEN odd \cup {p} ELSE odd
          /\ UNCHANGED calls
     ELSE /\ calls[p] < MaxCalls
          /\ calls' = [calls EXCEPT ![p] = @ + 1]
          /\ odd' = IF calls[p] > 0 THEN odd \cup {p} ELSE odd
          /\ UNCHANGED stage
  /\ UNCHANGED <<load, intakeVars, listingVars, gross, shipment, till, vars>>

Labelled(p) == /\ calls[p] > 0
               /\ calls' = [calls EXCEPT ![p] = @ - 1]
               /\ shipment' = [shipment EXCEPT ![p] = TRUE]
               /\ till' = till - LabelCost
               /\ Move(p, IF stage[p] = "sold" THEN "shipped" ELSE stage[p])
               /\ UNCHANGED <<load, intakeVars, listingVars, gross, odd, vars>>

\* buyLabel rejects, and so does fulfill.
LabelFails(p) == /\ calls[p] > 0
                 /\ calls' = [calls EXCEPT ![p] = @ - 1]
                 /\ UNCHANGED <<load, stage, intakeVars, listingVars, gross, shipment, till,
                                odd, vars>>

(***************************************************************************)
(* The sale is booked, which throws for a unit restocked at nothing.       *)
(***************************************************************************)
BookSale(p) ==
  /\ stage[p] = "shipped"
  /\ Move(p, "settled")
  /\ IF SaleIsLegal(skuOf[p], SaleOf(p))
     THEN RecordSale(skuOf[p], SaleOf(p)) /\ UNCHANGED odd
     ELSE odd' = odd \cup {p} /\ UNCHANGED vars
  /\ UNCHANGED <<load, intakeVars, listingVars, gross, opsVars, till>>

(***************************************************************************)
(* handleReturn(req): the price is refunded, and the unit goes back on the *)
(* shelf when it may be restocked.                                         *)
(***************************************************************************)
TakeBack(p, restockable) ==
  /\ stage[p] = "settled"
  /\ \E worth \in {0, costBasis[skuOf[p]] \div 2, costBasis[skuOf[p]]} :
       RecordReturn(skuOf[p], [refund |-> gross[p], restock |-> worth])
  /\ till' = till - gross[p]
  /\ Move(p, IF restockable THEN "photographed" ELSE "scrapped")
  /\ UNCHANGED <<load, intakeVars, listingVars, gross, opsVars, odd>>

(***************************************************************************)
(* What the operator enters by hand, of units of any kind and order.       *)
(***************************************************************************)
ByHand == /\ load.entries > 0
          /\ load' = [load EXCEPT !.entries = @ - 1]
          /\ Next
          /\ till' = till + balance'["cash"] - balance["cash"]
          /\ UNCHANGED <<stage, intakeVars, listingVars, gross, opsVars, odd>>

GoodsNext == \/ ByHand
             \/ \E p \in Parcel :
                  \/ Receive(p) \/ Screened(p) \/ List(p) \/ Wait(p) \/ Sell(p)
                  \/ \E watchers \in {0, 2} : Reprice(p, watchers)
                  \/ Fulfill(p) \/ Labelled(p) \/ LabelFails(p) \/ BookSale(p)
                  \/ \E restockable \in BOOLEAN : TakeBack(p, restockable)

GoodsSpec == GoodsInit /\ [][GoodsNext]_goodsVars

-------------------------------------------------------------------------------
(***************************************************************************)
(* "NEVER below the floor" (pricer.ts:5-6), to the sale: what a unit sold  *)
(* for covers the basis the books carry it at and the least margin, by the *)
(* ladder and by every offer, but for one appraised below its floor that   *)
(* sold before the Pricer saw it.  And the price is raised in no other     *)
(* case, and the watchers have three days of peace (pricer.ts:84-102).     *)
(***************************************************************************)
MarginIsProtected ==
  [][\A p \in Parcel :
       /\ stage'[p] = "sold" /\ stage[p] = "listed" =>
            \/ gross'[p] >= FloorPrice(costBasis[skuOf[p]])
            \/ gross'[p] = p.value /\ p.value < FloorPrice(p.price)
       /\ stage[p] = "listed" /\ price'[p] > price[p] =>
            p.value < FloorPrice(p.price) /\ price'[p] = FloorPrice(p.price)
       /\ stage[p] = "listed" /\ offer[p] # NoOffer /\ offer'[p] # offer[p] =>
            offer'[p].at >= offer[p].at + 3]_goodsVars

(***************************************************************************)
(* The books say what happened: once every sale is booked, the cash in     *)
(* them is the money that moved, unless two fulfilments of a sale          *)
(* overlapped, a unit was sold again under its first label, or it was      *)
(* restocked at nothing (ops.ts:60-76, postings.ts:59).                    *)
(***************************************************************************)
BooksMatchTheTill ==
  /\ \A p \in Parcel : stage[p] \notin {"screening", "sold", "shipped"} /\ calls[p] = 0
  /\ odd = {}
  => till = balance["cash"]

(***************************************************************************)
(* What is for sale was received once: its sku is its own however the      *)
(* receptions overlapped, and so is its bin among those the Intake chose;  *)
(* a hinted bin is used as given and may be one that another unit is in    *)
(* (intake.ts:98).  Its IMEI is not blacklisted where there is a blacklist *)
(* to ask (intake.ts:84), and no test it has yet to pass would lower its   *)
(* grade (intake.ts:54-109).                                               *)
(***************************************************************************)
Grades == <<"parts", "fair", "good", "like_new">>
GradeOf(p) == CHOOSE i \in DOMAIN Grades : Grades[i] = Condition(p)

UnitsAreSound ==
  \A p \in Parcel : stage[p] \in {"listed", "sold"} =>
    /\ \A q \in Parcel \ {p} : /\ skuOf[q] # skuOf[p]
                               /\ bin[q] = bin[p] => {p.hint, q.hint} # {NoBin}
    /\ p.hint # NoBin => bin[p] = p.hint
    /\ load.screens => p.screening # "blacklisted"
    /\ "untested" \notin RiskFlags(p)
    /\ \A c \in Checklist[p.category] :
         LET better == [p EXCEPT !.tests = [k \in DOMAIN p.tests \cup {c.key} |->
                                              IF k = c.key THEN TRUE ELSE p.tests[k]]]
         IN GradeOf(better) >= GradeOf(p)
===============================================================================
