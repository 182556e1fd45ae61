------------------------------ MODULE Bookkeeper ------------------------------
(***************************************************************************)
(* The bookkeeper, packages/bookkeeper/src/bookkeeper.ts, over the posting *)
(* rules and the double-entry ledger of packages/money.                    *)
(*                                                                         *)
(* The ledger is kept as its balances: a transaction is a function that    *)
(* gives each account its debits less its credits.  Every call is          *)
(* synchronous and either posts one transaction or throws; a call that     *)
(* throws before it changes anything is no step.                           *)
(***************************************************************************)
EXTENDS Integers, FiniteSets, Functions

CONSTANTS Sku, Region,  \* Region: the US states sales tax is collected for
          Amount, Purchase, Sale, Return,  \* the inputs that may come in
          MaxPosts,                        \* transactions (a bound)
          NoBasis, NoRegion

Account == {"cash", "inventory", "cogs", "revenue", "platform_fees", "ad_fees",
            "shipping_expense", "shipping_income", "mileage",
            "sales_tax_payable", "write_off", "capital"}

ASSUME BookkeeperAssumption ==
  /\ Amount \subseteq Nat
  /\ Purchase \subseteq [price : Nat, tax : Nat, shipIn : Nat, travel : Nat]
  /\ Sale \subseteq [gross : Nat, fees : Nat, adFees : Nat, label : Nat,
                     income : Nat, tax : Nat, region : Region \cup {NoRegion}]
  /\ Return \subseteq [refund : Nat, restock : Nat]
  /\ MaxPosts \in Nat
  /\ NoBasis \notin Nat
  /\ NoRegion \notin Region /\ IsFiniteSet(Region)

VARIABLES balance,     \* balanceOf(account)
          costBasis,   \* #costBasis
          taxByState,  \* #salesTaxByState
          posts,       \* transactions in the ledger
          carried,     \* history: the inventory legs posted for each sku
          copies,      \* history: units of a sku on hand
          orderly,     \* history: skus never sold or returned out of turn
          untagged     \* history: sales tax of sales that named no state

bookVars == <<balance, costBasis, taxByState, posts>>
history == <<carried, copies, orderly, untagged>>
vars == <<bookVars, history>>

Init == /\ balance = [a \in Account |-> 0]
        /\ costBasis = [s \in Sku |-> NoBasis]
        /\ taxByState = [r \in Region |-> 0]
        /\ posts = 0
        /\ carried = [s \in Sku |-> 0]
        /\ copies = [s \in Sku |-> 0]
        /\ orderly = Sku
        /\ untagged = 0

(***************************************************************************)
(* validateTransaction and Ledger.post: debits equal credits, or it throws *)
(***************************************************************************)
Total(T) == T["cash"] + T["inventory"] + T["cogs"] + T["revenue"]
            + T["platform_fees"] + T["ad_fees"] + T["shipping_expense"]
            + T["shipping_income"] + T["mileage"] + T["sales_tax_payable"]
            + T["write_off"] + T["capital"]

Post(T) == /\ posts < MaxPosts
           /\ Total(T) = 0
           /\ posts' = posts + 1
           /\ balance' = [a \in Account |-> balance[a] + T[a]]

\* What the step does to the history of the units of s.
Moves(s, units, legs, inTurn) ==
  /\ copies' = [copies EXCEPT ![s] = @ + units]
  /\ carried' = [carried EXCEPT ![s] = @ + legs]
  /\ orderly' = IF inTurn THEN orderly ELSE orderly \ {s}

(***************************************************************************)
(* injectCapital(amount)                                                   *)
(***************************************************************************)
CapitalLegs(x) == [a \in Account |->
  CASE a = "cash" -> x [] a = "capital" -> -x [] OTHER -> 0]

InjectCapital(x) ==
  /\ x > 0
  /\ Post(CapitalLegs(x))
  /\ UNCHANGED <<costBasis, taxByState, history>>

(***************************************************************************)
(* recordPurchase(input).  An inventory leg of zero is not a legal entry.  *)
(***************************************************************************)
Basis(i) == i.price + i.tax + i.shipIn

PurchaseLegs(i) == [a \in Account |->
  CASE a = "inventory" -> Basis(i)
    [] a = "mileage" -> i.travel
    [] a = "cash" -> -(Basis(i) + i.travel)
    [] OTHER -> 0]

RecordPurchase(s, i) ==
  /\ Basis(i) > 0
  /\ Post(PurchaseLegs(i))
  /\ costBasis' = [costBasis EXCEPT ![s] = Basis(i)]
  /\ Moves(s, 1, PurchaseLegs(i)["inventory"], copies[s] = 0)
  /\ UNCHANGED <<taxByState, untagged>>

(***************************************************************************)
(* recordSale(input): sale() throws first, then the tax is accrued, then   *)
(* the ledger may still refuse the transaction.                            *)
(***************************************************************************)
SaleIsLegal(s, i) == /\ costBasis[s] # NoBasis
                     /\ costBasis[s] > 0
                     /\ i.gross > 0
                     /\ i.fees + i.adFees <= i.gross

\* Faulty: the label is paid and never expensed, so the ledger throws.
SaleLegsNoLabel(i, basis) == [a \in Account |->
  CASE a = "cash" -> i.gross - i.fees - i.adFees - i.label + i.income + i.tax
    [] a = "platform_fees" -> i.fees
    [] a = "ad_fees" -> i.adFees
    [] a = "revenue" -> -i.gross
    [] a = "cogs" -> basis
    [] a = "inventory" -> -basis
    [] a = "shipping_income" -> -i.income
    [] a = "sales_tax_payable" -> -i.tax
    [] OTHER -> 0]

SaleLegs(i, basis) == [a \in Account |->
  CASE a = "cash" -> i.gross - i.fees - i.adFees - i.label + i.income + i.tax
    [] a = "platform_fees" -> i.fees
    [] a = "ad_fees" -> i.adFees
    [] a = "revenue" -> -i.gross
    [] a = "cogs" -> basis
    [] a = "inventory" -> -basis
    [] a = "shipping_expense" -> i.label
    [] a = "shipping_income" -> -i.income
    [] a = "sales_tax_payable" -> -i.tax
    [] OTHER -> 0]

Accrue(i) == IF i.tax > 0 /\ i.region # NoRegion
             THEN /\ taxByState' = [taxByState EXCEPT ![i.region] = @ + i.tax]
                  /\ UNCHANGED untagged
             ELSE /\ untagged' = untagged + i.tax
                  /\ UNCHANGED taxByState

RecordSale(s, i) == LET legs == SaleLegs(i, costBasis[s]) IN
  /\ SaleIsLegal(s, i)
  /\ posts < MaxPosts
  /\ Accrue(i)
  /\ IF Total(legs) = 0
     THEN /\ Post(legs)
          /\ Moves(s, -1, legs["inventory"], copies[s] = 1)
     ELSE UNCHANGED <<balance, posts, carried, copies, orderly>>
  /\ UNCHANGED costBasis

(***************************************************************************)
(* recordReturn(input)                                                     *)
(***************************************************************************)
ReturnIsLegal(s, i) == /\ costBasis[s] # NoBasis
                       /\ costBasis[s] > 0
                       /\ i.refund > 0
                       /\ i.restock <= costBasis[s]

\* Faulty: the item comes back at what it cost, and nothing is written off.
ReturnLegsAtCost(i, basis) == [a \in Account |->
  CASE a = "revenue" -> i.refund
    [] a = "cash" -> -i.refund
    [] a = "cogs" -> -basis
    [] a = "inventory" -> basis
    [] OTHER -> 0]

ReturnLegs(i, basis) == [a \in Account |->
  CASE a = "revenue" -> i.refund
    [] a = "cash" -> -i.refund
    [] a = "cogs" -> -basis
    [] a = "inventory" -> i.restock
    [] a = "write_off" -> basis - i.restock
    [] OTHER -> 0]

RecordReturn(s, i) == LET legs == ReturnLegs(i, costBasis[s]) IN
  /\ ReturnIsLegal(s, i)
  /\ Post(legs)
  /\ costBasis' = [costBasis EXCEPT ![s] = i.restock]
  /\ Moves(s, 1, legs["inventory"], copies[s] = 0)
  /\ UNCHANGED <<taxByState, untagged>>

Next == \/ \E x \in Amount : InjectCapital(x)
        \/ \E s \in Sku : \/ \E i \in Purchase : RecordPurchase(s, i)
                          \/ \E i \in Sale : RecordSale(s, i)
                          \/ \E i \in Return : RecordReturn(s, i)

Spec == Init /\ [][Next]_vars

-------------------------------------------------------------------------------
TypeOK == /\ balance \in [Account -> Int]
          /\ costBasis \in [Sku -> Nat \cup {NoBasis}]
          /\ taxByState \in [Region -> Nat]
          /\ posts \in 0 .. MaxPosts
          /\ carried \in [Sku -> Int]
          /\ copies \in [Sku -> Int]
          /\ orderly \in SUBSET Sku
          /\ untagged \in Nat

(***************************************************************************)
(* scheduleC().netProfitCents                                              *)
(***************************************************************************)
\* Faulty: write-offs are left out of the profit.
NetProfitUnwritten ==
  -balance["revenue"] - balance["shipping_income"] - balance["cogs"]
  - balance["platform_fees"] - balance["ad_fees"] - balance["shipping_expense"]
  - balance["mileage"]

NetProfit == -balance["revenue"] - balance["shipping_income"] - balance["cogs"]
             - balance["platform_fees"] - balance["ad_fees"]
             - balance["shipping_expense"] - balance["mileage"]
             - balance["write_off"]

(***************************************************************************)
(* The profit reported is the one that happened: what the desk owns, cash  *)
(* and unsold stock, is what was put in, the sales tax it owes and the net *)
(* profit of Schedule C.  It fails when a posting rule uses an account the *)
(* report forgets, or a transaction does not balance (bookkeeper.ts:169).  *)
(***************************************************************************)
ProfitIsWealth ==
  balance["cash"] + balance["inventory"]
  = -balance["capital"] - balance["sales_tax_payable"] + NetProfit

(***************************************************************************)
(* "Exact COGS": a unit that was bought, sold and returned in turn, any    *)
(* number of times and at any haircut, carries its recorded cost basis in  *)
(* the inventory account while it is on hand and nothing once it is sold   *)
(* (bookkeeper.ts:138, 155, 159).                                          *)
(***************************************************************************)
StockIsAtBasis ==
  \A s \in orderly : carried[s] = IF copies[s] = 1 THEN costBasis[s] ELSE 0

(***************************************************************************)
(* The sales tax report never claims more, or less, than the ledger owes:  *)
(* the per-state tallies and the sales that named no state add up to the   *)
(* payable account, although the tally is taken before the transaction is  *)
(* posted and stays when that throws (bookkeeper.ts:133, 137).             *)
(***************************************************************************)
Tallied == FoldFunctionOnSet(LAMBDA x, y : x + y, 0, taxByState, Region)

SalesTaxIsOwed == Tallied + untagged = -balance["sales_tax_payable"]
===============================================================================
