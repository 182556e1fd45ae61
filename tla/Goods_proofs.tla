----------------------------- MODULE Goods_proofs -----------------------------
(***************************************************************************)
(* The books for every set of skus, regions and inputs: that the ledger    *)
(* keeps its types and foots, that Schedule C agrees with what the desk    *)
(* owns, that stock is carried at its basis and that the sales tax tallied *)
(* is the tax owed.  Then the units that are booked in it: their numbers,  *)
(* their margin and the money that moves.                                  *)
(***************************************************************************)
EXTENDS Goods, Sums

\* The ledger foots: "the whole ledger must foot" (ledger.ts:197).
Foots == Total(balance) = 0

\* A unit on hand has a basis, and units in turn are none or one.
InTurn == \A s \in orderly : /\ copies[s] \in {0, 1}
                             /\ copies[s] = 1 => costBasis[s] # NoBasis

IInv == TypeOK /\ Foots /\ InTurn /\ StockIsAtBasis /\ SalesTaxIsOwed

Legs == [Account -> Int]

\* What may be booked at all, by hand or by the flow of a unit.
PurchaseInput == [price : Nat, tax : Nat, shipIn : Nat, travel : Nat]
SaleInput == [gross : Nat, fees : Nat, adFees : Nat, label : Nat,
              income : Nat, tax : Nat, region : Region \cup {NoRegion}]
ReturnInput == [refund : Nat, restock : Nat]

-------------------------------------------------------------------------------
\* The twelve accounts.
LEMMA Accounts ==
  /\ "cash" \in Account /\ "inventory" \in Account /\ "cogs" \in Account
  /\ "revenue" \in Account /\ "platform_fees" \in Account /\ "ad_fees" \in Account
  /\ "shipping_expense" \in Account /\ "shipping_income" \in Account
  /\ "mileage" \in Account /\ "sales_tax_payable" \in Account
  /\ "write_off" \in Account /\ "capital" \in Account
BY DEF Account

\* Posting keeps the ledger typed and footing.
LEMMA PostKeeps ==
  ASSUME TypeOK, Foots, NEW T \in Legs, Post(T)
  PROVE  /\ balance' \in [Account -> Int]
         /\ posts' \in 0 .. MaxPosts
         /\ Foots'
<1>1. balance' = [a \in Account |-> balance[a] + T[a]]
  BY DEF Post
<1>2. \A a \in Account : balance[a] \in Int /\ T[a] \in Int
  BY DEF TypeOK, Legs
<1>3. balance' \in [Account -> Int]
  BY <1>1, <1>2
<1>4. posts' \in 0 .. MaxPosts
  BY BookkeeperAssumption DEF Post, TypeOK
<1>5. Foots'
  <2>1. \A a \in Account : balance'[a] = balance[a] + T[a]
    BY <1>1
  <2>2. Total(balance') = Total(balance) + Total(T)
    BY <1>2, <2>1, Accounts DEF Total
  <2> QED
    BY <2>2 DEF Foots, Post
<1> QED
  BY <1>3, <1>4, <1>5

\* The posting rules give each account an integer.
LEMMA LegsAreTyped ==
  /\ \A x \in Nat : CapitalLegs(x) \in Legs
  /\ \A i \in PurchaseInput : PurchaseLegs(i) \in Legs
  /\ \A i \in SaleInput, b \in Nat : SaleLegs(i, b) \in Legs
  /\ \A i \in ReturnInput, b \in Nat : ReturnLegs(i, b) \in Legs
<1>1. ASSUME NEW x \in Nat PROVE CapitalLegs(x) \in Legs
  BY DEF CapitalLegs, Legs
<1>2. ASSUME NEW i \in PurchaseInput PROVE PurchaseLegs(i) \in Legs
  <2>1. {i.price, i.tax, i.shipIn, i.travel} \subseteq Nat
    BY DEF PurchaseInput
  <2> QED
    BY <2>1 DEF PurchaseLegs, Basis, Legs
<1>3. ASSUME NEW i \in SaleInput, NEW b \in Nat PROVE SaleLegs(i, b) \in Legs
  <2>1. {i.gross, i.fees, i.adFees, i.label, i.income, i.tax} \subseteq Nat
    BY DEF SaleInput
  <2> QED
    BY <2>1 DEF SaleLegs, Legs
<1>4. ASSUME NEW i \in ReturnInput, NEW b \in Nat PROVE ReturnLegs(i, b) \in Legs
  <2>1. {i.refund, i.restock} \subseteq Nat
    BY DEF ReturnInput
  <2> QED
    BY <2>1 DEF ReturnLegs, Legs
<1> QED
  BY <1>1, <1>2, <1>3, <1>4

\* What each posting rule does to the inventory account.
LEMMA InventoryLegs ==
  /\ \A i \in PurchaseInput : PurchaseLegs(i)["inventory"] = Basis(i)
  /\ \A i \in SaleInput, b \in Nat : SaleLegs(i, b)["inventory"] = -b
  /\ \A i \in ReturnInput, b \in Nat : ReturnLegs(i, b)["inventory"] = i.restock
BY Accounts DEF PurchaseLegs, SaleLegs, ReturnLegs

\* Every sale the posting rule accepts balances, so a sale never throws
\* once its tax has been accrued.
LEMMA SalesBalance ==
  ASSUME NEW i \in SaleInput, NEW b \in Nat
  PROVE  Total(SaleLegs(i, b)) = 0
<1>1. {i.gross, i.fees, i.adFees, i.label, i.income, i.tax} \subseteq Nat
  BY DEF SaleInput
<1> QED
  BY <1>1, Accounts DEF SaleLegs, Total

-------------------------------------------------------------------------------
(***************************************************************************)
(* The sales tax.  The tally over the states is a fold, hence a sum, and a *)
(* sale adds to one state, or to none, what it adds to the account.        *)
(***************************************************************************)
Tally(f) == FoldFunctionOnSet(LAMBDA x, y : x + y, 0, f, Region)

LEMMA TallyIsSum ==
  ASSUME NEW f \in [Region -> Nat]
  PROVE  Tally(f) = Sum(Region, f) /\ IsFiniteSet(Heap(Region, f)) /\ Tally(f) \in Nat
<1>1. IsFiniteSet(Region)
  BY BookkeeperAssumption
<1>2. Tally(f) = Sum(Region, f)
  <2>1. f \in [Region -> Int]
    OBVIOUS
  <2> QED
    BY <1>1, <2>1, SetFoldIsBalance, BalanceOfNaturals DEF Tally
<1>3. IsFiniteSet(Heap(Region, f))
  BY <1>1, HeapIsFinite
<1> QED
  BY <1>2, <1>3, FS_CardinalityType DEF Sum

LEMMA TallyGrows ==
  ASSUME NEW f \in [Region -> Nat], NEW r \in Region, NEW x \in Nat
  PROVE  Tally([f EXCEPT ![r] = @ + x]) = Tally(f) + x
<1> DEFINE g == [f EXCEPT ![r] = @ + x]
<1>1. g \in [Region -> Nat] /\ g[r] = f[r] + x /\ \A q \in Region \ {r} : g[q] = f[q]
  OBVIOUS
<1> HIDE DEF g
<1>2. Tally(g) = Sum(Region, g) /\ Tally(g) \in Nat
  BY <1>1, TallyIsSum
<1>3. Tally(f) = Sum(Region, f) /\ Tally(f) \in Nat /\ IsFiniteSet(Heap(Region, f))
  BY TallyIsSum
<1>4. Sum(Region, g) + f[r] = Sum(Region, f) + g[r]
  BY <1>1, <1>3, SumChanges
<1>5. Tally(g) = Tally(f) + x
  BY <1>1, <1>2, <1>3, <1>4
<1> QED
  BY <1>5 DEF g

\* What is tallied stays what is owed when a step books as much as it tallies.
LEMMA TaxFollows ==
  ASSUME TypeOK, SalesTaxIsOwed, NEW x \in Int,
         Tally(taxByState') + untagged' = Tally(taxByState) + untagged + x,
         balance'["sales_tax_payable"] = balance["sales_tax_payable"] - x
  PROVE  SalesTaxIsOwed'
<1>1. /\ Tally(taxByState) + untagged = -balance["sales_tax_payable"]
      /\ SalesTaxIsOwed' <=> Tally(taxByState') + untagged' = -balance'["sales_tax_payable"]
  <2>1. Tallied = Tally(taxByState) /\ Tallied' = Tally(taxByState')
    BY DEF Tallied, Tally, FoldFunctionOnSet, MapThenFoldSet
  <2> QED
    BY <2>1 DEF SalesTaxIsOwed
<1>2. balance["sales_tax_payable"] \in Int /\ untagged \in Int
  BY Accounts DEF TypeOK
<1>3. Tally(taxByState) \in Int
  BY TallyIsSum DEF TypeOK
<1> QED
  BY <1>1, <1>2, <1>3

LEMMA TaxKept ==
  ASSUME TypeOK, SalesTaxIsOwed, UNCHANGED <<taxByState, untagged>>,
         \/ balance' = balance
         \/ \E T \in Legs : Post(T) /\ T["sales_tax_payable"] = 0
  PROVE  SalesTaxIsOwed'
<1>1. balance'["sales_tax_payable"] = balance["sales_tax_payable"] - 0
  BY Accounts DEF Post, TypeOK
<1>2. Tally(taxByState) \in Int /\ untagged \in Int
  BY TallyIsSum DEF TypeOK
<1>3. Tally(taxByState') + untagged' = Tally(taxByState) + untagged + 0
  BY <1>2
<1> QED
  BY <1>1, <1>3, TaxFollows

LEMMA TaxLegs ==
  /\ \A x \in Nat : CapitalLegs(x)["sales_tax_payable"] = 0
  /\ \A i \in PurchaseInput : PurchaseLegs(i)["sales_tax_payable"] = 0
  /\ \A i \in SaleInput, b \in Nat : SaleLegs(i, b)["sales_tax_payable"] = -i.tax
  /\ \A i \in ReturnInput, b \in Nat : ReturnLegs(i, b)["sales_tax_payable"] = 0
BY Accounts DEF CapitalLegs, PurchaseLegs, SaleLegs, ReturnLegs

\* A sale is tallied and booked together, as no legal sale is refused by the
\* ledger (bookkeeper.ts:133-137).
LEMMA SaleTax ==
  ASSUME TypeOK, SalesTaxIsOwed, NEW s \in Sku, NEW i \in SaleInput, NEW b \in Nat,
         Accrue(i), Post(SaleLegs(i, b))
  PROVE  SalesTaxIsOwed'
<1>1. i.tax \in Nat /\ i.region \in Region \cup {NoRegion}
  BY DEF SaleInput
<1>2. balance'["sales_tax_payable"] = balance["sales_tax_payable"] - i.tax
  BY <1>1, TaxLegs, Accounts DEF Post, TypeOK
<1>3. Tally(taxByState) \in Nat /\ untagged \in Nat /\ taxByState \in [Region -> Nat]
  BY TallyIsSum DEF TypeOK
<1>4. Tally(taxByState') + untagged' = Tally(taxByState) + untagged + i.tax
  <2>1. CASE i.tax > 0 /\ i.region # NoRegion
    <3>1. /\ taxByState' = [taxByState EXCEPT ![i.region] = @ + i.tax]
          /\ untagged' = untagged
      BY <2>1 DEF Accrue
    <3>2. Tally([taxByState EXCEPT ![i.region] = @ + i.tax]) = Tally(taxByState) + i.tax
      BY <1>1, <1>3, <2>1, TallyGrows
    <3> QED
      BY <1>1, <1>3, <3>1, <3>2
  <2>2. CASE ~(i.tax > 0 /\ i.region # NoRegion)
    <3>1. taxByState' = taxByState /\ untagged' = untagged + i.tax
      BY <2>2 DEF Accrue
    <3> QED
      BY <1>1, <1>3, <3>1
  <2> QED
    BY <2>1, <2>2
<1> QED
  BY <1>1, <1>2, <1>4, TaxFollows

-------------------------------------------------------------------------------
LEMMA InitInv == Init => IInv
<1> SUFFICES ASSUME Init PROVE IInv
  OBVIOUS
<1>1. TypeOK
  BY BookkeeperAssumption DEF Init, TypeOK
<1>2. Foots
  BY Accounts DEF Init, Foots, Total
<1>3. InTurn /\ StockIsAtBasis
  BY DEF Init, InTurn, StockIsAtBasis
<1>4. SalesTaxIsOwed
  <2>1. Sum(Region, taxByState) = 0
    BY NothingSums DEF Init
  <2>2. Tally(taxByState) = 0
    BY <1>1, <2>1, TallyIsSum DEF TypeOK
  <2>3. Tallied = 0
    BY <2>2 DEF Tally, Tallied
  <2>4. balance["sales_tax_payable"] = 0 /\ untagged = 0
    BY Accounts DEF Init
  <2>5. \A m, n \in Int : m + n = 0 => m = -n
    OBVIOUS
  <2>6. /\ Tallied + untagged \in Int /\ balance["sales_tax_payable"] \in Int
        /\ (Tallied + untagged) + balance["sales_tax_payable"] = 0
    BY <2>3, <2>4
  <2> QED
    BY <2>5, <2>6 DEF SalesTaxIsOwed
<1> QED
  BY <1>1, <1>2, <1>3, <1>4 DEF IInv

LEMMA InjectKeeps ==
  ASSUME IInv, NEW x \in Amount, InjectCapital(x)
  PROVE  IInv'
<1>1. x \in Nat
  BY BookkeeperAssumption
<1>2. balance' \in [Account -> Int] /\ posts' \in 0 .. MaxPosts /\ Foots'
  BY <1>1, PostKeeps, LegsAreTyped DEF IInv, InjectCapital
<1>3. UNCHANGED <<taxByState, untagged>> /\ Post(CapitalLegs(x))
  BY DEF InjectCapital, history
<1>4. SalesTaxIsOwed'
  BY <1>1, <1>3, LegsAreTyped, TaxLegs, TaxKept DEF IInv
<1> QED
  BY <1>2, <1>4 DEF IInv, InjectCapital, history, TypeOK, InTurn, StockIsAtBasis

LEMMA PurchaseKeeps ==
  ASSUME IInv, NEW s \in Sku, NEW i \in PurchaseInput, RecordPurchase(s, i)
  PROVE  IInv'
<1>1. balance' \in [Account -> Int] /\ posts' \in 0 .. MaxPosts /\ Foots'
  BY PostKeeps, LegsAreTyped DEF IInv, RecordPurchase
<1>2. Basis(i) \in Nat
  BY DEF Basis, PurchaseInput
<1>3. /\ costBasis' = [costBasis EXCEPT ![s] = Basis(i)]
      /\ copies' = [copies EXCEPT ![s] = @ + 1]
      /\ carried' = [carried EXCEPT ![s] = @ + Basis(i)]
      /\ orderly' = IF copies[s] = 0 THEN orderly ELSE orderly \ {s}
      /\ taxByState' = taxByState /\ untagged' = untagged
  BY InventoryLegs DEF RecordPurchase, Moves
<1>4. TypeOK'
  BY <1>1, <1>2, <1>3 DEF IInv, TypeOK
<1>5. InTurn' /\ StockIsAtBasis'
  <2> SUFFICES ASSUME NEW u \in orderly'
               PROVE  /\ copies'[u] \in {0, 1}
                      /\ copies'[u] = 1 => costBasis'[u] # NoBasis
                      /\ carried'[u] = IF copies'[u] = 1 THEN costBasis'[u] ELSE 0
    BY DEF InTurn, StockIsAtBasis
  <2>1. u \in orderly /\ u \in Sku
    BY <1>3 DEF IInv, TypeOK
  <2>2. CASE u = s
    BY <1>2, <1>3, <2>1, <2>2, BookkeeperAssumption DEF IInv, TypeOK, StockIsAtBasis
  <2>3. CASE u # s
    BY <1>3, <2>1, <2>3 DEF IInv, TypeOK, InTurn, StockIsAtBasis
  <2> QED
    BY <2>2, <2>3
<1>6. SalesTaxIsOwed'
  BY <1>3, LegsAreTyped, TaxLegs, TaxKept DEF IInv, RecordPurchase
<1> QED
  BY <1>1, <1>4, <1>5, <1>6 DEF IInv

LEMMA SaleKeeps ==
  ASSUME IInv, NEW s \in Sku, NEW i \in SaleInput, RecordSale(s, i)
  PROVE  IInv'
<1> DEFINE b == costBasis[s]
<1>1. b \in Nat
  BY DEF IInv, TypeOK, RecordSale, SaleIsLegal
<1>2. Post(SaleLegs(i, b)) /\ Moves(s, -1, SaleLegs(i, b)["inventory"], copies[s] = 1)
  BY <1>1, SalesBalance DEF RecordSale
<1>3. balance' \in [Account -> Int] /\ posts' \in 0 .. MaxPosts /\ Foots'
  BY <1>1, <1>2, PostKeeps, LegsAreTyped DEF IInv
<1>4. /\ copies' = [copies EXCEPT ![s] = @ - 1]
      /\ carried' = [carried EXCEPT ![s] = @ - b]
      /\ orderly' = IF copies[s] = 1 THEN orderly ELSE orderly \ {s}
      /\ costBasis' = costBasis
  <2>1. SaleLegs(i, b)["inventory"] = -b
    BY <1>1, InventoryLegs
  <2>2. copies[s] \in Int /\ carried[s] \in Int
    BY DEF IInv, TypeOK
  <2> QED
    BY <1>1, <1>2, <2>1, <2>2 DEF Moves, RecordSale
<1>5. taxByState' \in [Region -> Nat] /\ untagged' \in Nat
  <2>1. i.tax \in Nat /\ i.region \in Region \cup {NoRegion}
    BY DEF SaleInput
  <2> QED
    BY <2>1 DEF RecordSale, Accrue, IInv, TypeOK
<1>6. TypeOK'
  BY <1>1, <1>3, <1>4, <1>5 DEF IInv, TypeOK
<1>7. InTurn' /\ StockIsAtBasis'
  <2> SUFFICES ASSUME NEW u \in orderly'
               PROVE  /\ copies'[u] \in {0, 1}
                      /\ copies'[u] = 1 => costBasis'[u] # NoBasis
                      /\ carried'[u] = IF copies'[u] = 1 THEN costBasis'[u] ELSE 0
    BY DEF InTurn, StockIsAtBasis
  <2>1. u \in orderly /\ u \in Sku
    BY <1>4 DEF IInv, TypeOK
  <2>2. CASE u = s
    BY <1>1, <1>4, <2>1, <2>2 DEF IInv, TypeOK, StockIsAtBasis
  <2>3. CASE u # s
    BY <1>4, <2>1, <2>3 DEF IInv, TypeOK, InTurn, StockIsAtBasis
  <2> QED
    BY <2>2, <2>3
<1>8. SalesTaxIsOwed'
  BY <1>1, <1>2, SaleTax DEF IInv, RecordSale
<1> QED
  BY <1>3, <1>6, <1>7, <1>8 DEF IInv

LEMMA ReturnKeeps ==
  ASSUME IInv, NEW s \in Sku, NEW i \in ReturnInput, RecordReturn(s, i)
  PROVE  IInv'
<1>1. costBasis[s] \in Nat
  BY DEF IInv, TypeOK, RecordReturn, ReturnIsLegal
<1>2. balance' \in [Account -> Int] /\ posts' \in 0 .. MaxPosts /\ Foots'
  BY <1>1, PostKeeps, LegsAreTyped DEF IInv, RecordReturn
<1>3. i.restock \in Nat
  BY DEF ReturnInput
<1>4. /\ costBasis' = [costBasis EXCEPT ![s] = i.restock]
      /\ copies' = [copies EXCEPT ![s] = @ + 1]
      /\ carried' = [carried EXCEPT ![s] = @ + i.restock]
      /\ orderly' = IF copies[s] = 0 THEN orderly ELSE orderly \ {s}
      /\ taxByState' = taxByState /\ untagged' = untagged
  BY <1>1, InventoryLegs DEF RecordReturn, Moves
<1>5. TypeOK'
  BY <1>2, <1>3, <1>4 DEF IInv, TypeOK
<1>6. InTurn' /\ StockIsAtBasis'
  <2> SUFFICES ASSUME NEW u \in orderly'
               PROVE  /\ copies'[u] \in {0, 1}
                      /\ copies'[u] = 1 => costBasis'[u] # NoBasis
                      /\ carried'[u] = IF copies'[u] = 1 THEN costBasis'[u] ELSE 0
    BY DEF InTurn, StockIsAtBasis
  <2>1. u \in orderly /\ u \in Sku
    BY <1>4 DEF IInv, TypeOK
  <2>2. CASE u = s
    BY <1>3, <1>4, <2>1, <2>2, BookkeeperAssumption DEF IInv, TypeOK, StockIsAtBasis
  <2>3. CASE u # s
    BY <1>4, <2>1, <2>3 DEF IInv, TypeOK, InTurn, StockIsAtBasis
  <2> QED
    BY <2>2, <2>3
<1>7. SalesTaxIsOwed'
  BY <1>1, <1>4, LegsAreTyped, TaxLegs, TaxKept DEF IInv, RecordReturn
<1> QED
  BY <1>2, <1>5, <1>6, <1>7 DEF IInv

LEMMA NextKeeps ==
  ASSUME IInv, Next
  PROVE  IInv'
<1>1. /\ Purchase \subseteq PurchaseInput
      /\ Sale \subseteq SaleInput
      /\ Return \subseteq ReturnInput
  BY BookkeeperAssumption DEF PurchaseInput, SaleInput, ReturnInput
<1> QED
  BY <1>1, InjectKeeps, PurchaseKeeps, SaleKeeps, ReturnKeeps DEF Next

LEMMA BooksStutter ==
  ASSUME IInv, UNCHANGED vars
  PROVE  IInv'
<1>1. /\ balance' = balance /\ costBasis' = costBasis
      /\ taxByState' = taxByState /\ posts' = posts
  BY DEF vars, bookVars
<1>2. /\ carried' = carried /\ copies' = copies
      /\ orderly' = orderly /\ untagged' = untagged
  BY DEF vars, history
<1>3. TypeOK' /\ Foots'
  BY <1>1, <1>2 DEF IInv, TypeOK, Foots
<1>4. InTurn' /\ StockIsAtBasis'
  BY <1>1, <1>2 DEF IInv, InTurn, StockIsAtBasis
<1>5. SalesTaxIsOwed'
  BY <1>1, <1>2, TaxKept DEF IInv
<1> QED
  BY <1>3, <1>4, <1>5 DEF IInv

-------------------------------------------------------------------------------
\* IInv holds in every reachable state of the books.
THEOREM Inductive == Spec => []IInv
<1>1. IInv /\ [Next]_vars => IInv'
  BY NextKeeps, BooksStutter
<1> QED
  BY InitInv, <1>1, PTL DEF Spec

\* TypeOK holds in every reachable state.
THEOREM TypeCorrect == Spec => []TypeOK
BY Inductive, PTL DEF IInv

LEMMA ProfitFollows ==
  ASSUME IInv
  PROVE  ProfitIsWealth
<1>1. \A a \in Account : balance[a] \in Int
  BY DEF IInv, TypeOK
<1>2. /\ balance["cash"] \in Int /\ balance["inventory"] \in Int
      /\ balance["cogs"] \in Int /\ balance["revenue"] \in Int
      /\ balance["platform_fees"] \in Int /\ balance["ad_fees"] \in Int
      /\ balance["shipping_expense"] \in Int
      /\ balance["shipping_income"] \in Int
      /\ balance["mileage"] \in Int /\ balance["write_off"] \in Int
      /\ balance["sales_tax_payable"] \in Int /\ balance["capital"] \in Int
  BY <1>1, Accounts
<1>3. Total(balance) = 0
  BY DEF IInv, Foots
<1> DEFINE loss == balance["revenue"] + balance["shipping_income"] + balance["cogs"]
                   + balance["platform_fees"] + balance["ad_fees"]
                   + balance["shipping_expense"] + balance["mileage"] + balance["write_off"]
<1>4. loss \in Int /\ NetProfit = -loss
  BY <1>2 DEF NetProfit
<1>5. balance["cash"] + balance["inventory"] + balance["sales_tax_payable"]
      + balance["capital"] + loss = 0
  BY <1>2, <1>3 DEF Total
<1> HIDE DEF loss
<1> QED
  BY <1>2, <1>4, <1>5 DEF ProfitIsWealth

\* ProfitIsWealth: because the ledger foots and Schedule C leaves no income
\* or expense account out, its profit is what the desk came to own.
THEOREM ProfitIsReal == Spec => []ProfitIsWealth
<1>1. IInv => ProfitIsWealth
  BY ProfitFollows
<1> QED
  BY Inductive, <1>1, PTL

\* StockIsAtBasis: exact COGS, for every haircut and number of returns.
THEOREM ExactCogs == Spec => []StockIsAtBasis
BY Inductive, PTL DEF IInv

-------------------------------------------------------------------------------
(***************************************************************************)
(* The arithmetic of the Pricer: cents are natural, and floors grow with   *)
(* the basis they protect (pricer.ts:66-72).                               *)
(***************************************************************************)
LEMMA MulBpIsNat ==
  ASSUME NEW base \in Nat, NEW bp \in Nat
  PROVE  MulBp(base, bp) \in Nat
<1> DEFINE n == base * bp + 5000
<1>1. n \in Nat
  OBVIOUS
<1> HIDE DEF n
<1>2. n \div 10000 \in Nat
  BY <1>1
<1> QED
  BY <1>2 DEF n, MulBp

LEMMA TenthGrows ==
  ASSUME NEW x \in Nat, NEW y \in Nat, x <= y
  PROVE  MulBp(x, 1000) <= MulBp(y, 1000)
BY DEF MulBp

LEMMA MaxOfTwo ==
  ASSUME NEW x \in Int, NEW y \in Int
  PROVE  LET m == Max({x, y}) IN m \in {x, y} /\ m >= x /\ m >= y
<1>1. \E m \in {x, y} : \A n \in {x, y} : m >= n
  OBVIOUS
<1>2. Max({x, y}) \in {x, y} /\ \A n \in {x, y} : Max({x, y}) >= n
  BY <1>1 DEF Max
<1> QED
  BY <1>2

LEMMA MinOfTwo ==
  ASSUME NEW x \in Int, NEW y \in Int
  PROVE  LET m == Min({x, y}) IN m \in {x, y} /\ m <= x /\ m <= y
<1>1. \E m \in {x, y} : \A n \in {x, y} : m <= n
  OBVIOUS
<1>2. Min({x, y}) \in {x, y} /\ \A n \in {x, y} : Min({x, y}) <= n
  BY <1>1 DEF Min
<1> QED
  BY <1>2

LEMMA MarginIs ==
  ASSUME NEW basis \in Nat
  PROVE  /\ Margin(basis) \in {MulBp(basis, 1000), 500}
         /\ Margin(basis) >= MulBp(basis, 1000) /\ Margin(basis) >= 500
<1>1. PICK x \in Int, y \in Int : x = MulBp(basis, 1000) /\ y = 500
  <2>1. MulBp(basis, 1000) \in Nat
    BY MulBpIsNat
  <2> QED
    BY <2>1
<1>2. Max({x, y}) \in {x, y} /\ Max({x, y}) >= x /\ Max({x, y}) >= y
  BY MaxOfTwo
<1> QED
  BY <1>1, <1>2 DEF Margin

LEMMA FloorGrows ==
  ASSUME NEW x \in Nat, NEW y \in Nat, x <= y
  PROVE  /\ FloorPrice(x) \in Nat /\ FloorPrice(y) \in Nat
         /\ FloorPrice(x) <= FloorPrice(y)
<1>1. PICK a \in Nat, b \in Nat : a = MulBp(x, 1000) /\ b = MulBp(y, 1000)
  <2>1. MulBp(x, 1000) \in Nat
    BY MulBpIsNat
  <2>2. MulBp(y, 1000) \in Nat
    BY MulBpIsNat
  <2> QED
    BY <2>1, <2>2
<1>2. a <= b
  BY <1>1, TenthGrows
<1>3. Margin(x) \in {a, 500} /\ Margin(x) >= a /\ Margin(x) >= 500
  BY <1>1, MarginIs
<1>4. Margin(y) \in {b, 500} /\ Margin(y) >= b /\ Margin(y) >= 500
  BY <1>1, MarginIs
<1>5. Margin(x) \in Nat /\ Margin(y) \in Nat /\ Margin(x) <= Margin(y)
  BY <1>2, <1>3, <1>4
<1> QED
  BY <1>5 DEF FloorPrice

-------------------------------------------------------------------------------
(***************************************************************************)
(* The units.  Each has its number from the moment it is shelved, was      *)
(* accepted before it is for sale, and is priced at what it was appraised  *)
(* for or above its floor, offers included.                                *)
(***************************************************************************)
Stage == {"bought", "screening", "blocked", "testing", "photographed", "listed", "sold",
          "shipped", "settled", "scrapped"}

Received == {p \in Parcel : stage[p] \notin {"bought", "screening"}}

UnitTypeOK ==
  /\ load \in [parcels : SUBSET Parcel, entries : Int, screens : BOOLEAN]
  /\ \E w \in Workload : load.parcels = w.parcels
  /\ stage \in [Parcel -> Stage]
  /\ skuOf \in [Parcel -> Nat] /\ bin \in [Parcel -> Int \cup {NoBin}]
  /\ seq \in Nat /\ binSeq \in Nat
  /\ price \in [Parcel -> Nat] /\ gross \in [Parcel -> Nat] /\ age \in [Parcel -> Nat]
  /\ offer \in [Parcel -> [at : Nat, price : Nat] \cup {NoOffer}]
  /\ shipment \in [Parcel -> BOOLEAN] /\ calls \in [Parcel -> Nat]
  /\ till \in Int /\ odd \in SUBSET Parcel

Numbered ==
  /\ \A p \in Parcel : stage[p] # "bought" => p \in load.parcels
  /\ seq = Cardinality(Received)
  /\ \A p \in Received : skuOf[p] \in 1 .. seq
  /\ \A p \in Parcel \ Received : skuOf[p] = 0 /\ bin[p] = NoBin
  /\ \A p, q \in Received : p # q => skuOf[p] # skuOf[q]
  /\ \A p \in Received : bin[p] \in IF p.hint = NoBin THEN 1 .. binSeq ELSE {p.hint}
  /\ \A p, q \in Received : p.hint = NoBin /\ q.hint = NoBin /\ p # q => bin[p] # bin[q]

Accepted == \A p \in Parcel :
  stage[p] \in {"photographed", "listed", "sold", "shipped", "settled"}
    => Status(p) = "photographed"

Priced == \A p \in Parcel : stage[p] = "listed" =>
  /\ price[p] = p.value \/ price[p] >= FloorPrice(p.price)
  /\ offer[p] # NoOffer => offer[p].at <= age[p] /\ offer[p].price >= FloorPrice(p.price)

UnitsInv == UnitTypeOK /\ Numbered /\ Accepted /\ Priced

\* The ways of a unit that has its number.
Flow == {<<"photographed", "listed">>, <<"listed", "sold">>, <<"sold", "shipped">>,
         <<"shipped", "settled">>, <<"settled", "photographed">>, <<"settled", "scrapped">>}

MovesOn(p) == \E s \in Stage : /\ stage' = [stage EXCEPT ![p] = s]
                               /\ s = stage[p] \/ <<stage[p], s>> \in Flow

\* A step after the shelf gives and takes no number, and passes no unit.
LEMMA FlowKeeps ==
  ASSUME UnitTypeOK, Numbered, Accepted, NEW p \in Parcel, MovesOn(p),
         load' = load, UNCHANGED intakeVars
  PROVE  /\ Received' = Received
         /\ Numbered' /\ Accepted'
<1>1. PICK s \in Stage : /\ stage' = [stage EXCEPT ![p] = s]
                         /\ s = stage[p] \/ <<stage[p], s>> \in Flow
  BY DEF MovesOn
<1>2. /\ \A q \in Parcel \ {p} : stage'[q] = stage[q]
      /\ stage'[p] = s /\ stage[p] \in Stage
  BY <1>1 DEF UnitTypeOK
<1>3. CASE s = stage[p]
  <2>1. stage' = stage
    BY <1>1, <1>3 DEF UnitTypeOK
  <2>2. Received' = Received
    BY <2>1 DEF Received
  <2>3. Accepted'
    BY <2>1 DEF Accepted, Status, MissingChecks, Blacklisted, Screens
  <2>4. Numbered'
    BY <2>1, <2>2 DEF Numbered, intakeVars
  <2> QED
    BY <2>2, <2>3, <2>4
<1>4. CASE <<stage[p], s>> \in Flow
  <2>1. /\ stage[p] \in {"photographed", "listed", "sold", "shipped", "settled"}
        /\ s \in {"photographed", "listed", "sold", "shipped", "settled", "scrapped"}
    BY <1>4 DEF Flow
  <2>2. Received' = Received
    BY <1>2, <2>1 DEF Received
  <2>3. Accepted'
    BY <1>2, <2>1 DEF Accepted, Status, MissingChecks, Blacklisted, Screens
  <2>4. \A q \in Parcel : stage'[q] # "bought" => stage[q] # "bought"
    BY <1>2, <2>1
  <2>5. Numbered'
    BY <2>2, <2>4 DEF Numbered, intakeVars
  <2> QED
    BY <2>2, <2>3, <2>5
<1> QED
  BY <1>1, <1>3, <1>4

\* Where a unit is shelved there is a sku for it.
LEMMA ShelfHasRoom ==
  ASSUME UnitTypeOK, Numbered, NEW p \in load.parcels, p \notin Received
  PROVE  /\ IsFiniteSet(Received) /\ p \in Parcel /\ seq + 1 \in Sku
         /\ Cardinality(Received \cup {p}) = seq + 1
<1>1. PICK w \in Workload : load.parcels = w.parcels
  BY DEF UnitTypeOK
<1>2. IsFiniteSet(load.parcels) /\ 1 .. Cardinality(load.parcels) \subseteq Sku
  BY <1>1, GoodsAssumption
<1>3. p \in Parcel /\ Received \cup {p} \subseteq load.parcels
  BY DEF UnitTypeOK, Numbered, Received
<1>4. /\ IsFiniteSet(Received)
      /\ IsFiniteSet(Received \cup {p})
      /\ Cardinality(Received \cup {p}) <= Cardinality(load.parcels)
      /\ Cardinality(load.parcels) \in Nat
  BY <1>2, <1>3, FS_Subset, FS_CardinalityType
<1>5. Cardinality(Received \cup {p}) = seq + 1
  BY <1>4, FS_AddElement DEF Numbered
<1>6. seq + 1 \in 1 .. Cardinality(load.parcels)
  BY <1>4, <1>5 DEF UnitTypeOK
<1> QED
  BY <1>2, <1>3, <1>4, <1>5, <1>6

\* A unit is put in the bin it was hinted, or in the next of the sequence
\* (intake.ts:98).
LEMMA BinIsTaken ==
  ASSUME UnitTypeOK, Numbered, NEW p \in Parcel, p \notin Received, TakeBin(p),
         Received' = Received \cup {p}
  PROVE  /\ bin' \in [Parcel -> Int \cup {NoBin}] /\ binSeq' \in Nat
         /\ \A q \in Parcel \ Received' : bin'[q] = NoBin
         /\ \A q \in Received' :
              bin'[q] \in IF q.hint = NoBin THEN 1 .. binSeq' ELSE {q.hint}
         /\ \A q, r \in Received' :
              q.hint = NoBin /\ r.hint = NoBin /\ q # r => bin'[q] # bin'[r]
<1>1. /\ p.hint \in Int \cup {NoBin} /\ NoBin \notin Int /\ binSeq \in Nat
      /\ bin \in [Parcel -> Int \cup {NoBin}] /\ Received \subseteq Parcel
  BY GoodsAssumption DEF UnitTypeOK, Received
<1>2. /\ bin'[p] = IF p.hint = NoBin THEN binSeq + 1 ELSE p.hint
      /\ \A q \in Parcel \ {p} : bin'[q] = bin[q]
      /\ bin' \in [Parcel -> Int \cup {NoBin}]
      /\ binSeq' = IF p.hint = NoBin THEN binSeq + 1 ELSE binSeq
  BY <1>1 DEF TakeBin
<1>3. binSeq' \in Nat /\ binSeq <= binSeq'
  BY <1>1, <1>2
<1>4. \A q \in Parcel \ Received' : bin'[q] = NoBin
  BY <1>2 DEF Numbered
<1>5. \A q \in Received : bin[q] \in IF q.hint = NoBin THEN 1 .. binSeq ELSE {q.hint}
  BY DEF Numbered
<1>6. ASSUME NEW q \in Received'
      PROVE  bin'[q] \in IF q.hint = NoBin THEN 1 .. binSeq' ELSE {q.hint}
  <2>1. CASE q = p
    BY <1>1, <1>2, <2>1
  <2>2. CASE q # p
    <3>1. q \in Received /\ bin'[q] = bin[q]
      BY <1>1, <1>2, <2>2
    <3>2. CASE q.hint = NoBin
      <4>1. bin[q] \in 1 .. binSeq
        BY <1>5, <3>1, <3>2
      <4>2. bin'[q] \in 1 .. binSeq'
        BY <1>1, <1>3, <3>1, <4>1
      <4> QED
        BY <3>2, <4>2
    <3>3. CASE q.hint # NoBin
      BY <1>5, <3>1, <3>3
    <3> QED
      BY <3>2, <3>3
  <2> QED
    BY <2>1, <2>2
<1>7. ASSUME NEW q \in Received', NEW r \in Received',
             q.hint = NoBin, r.hint = NoBin, q # r
      PROVE  bin'[q] # bin'[r]
  <2>1. ASSUME NEW x \in Received, x.hint = NoBin, p.hint = NoBin
        PROVE  bin'[x] # bin'[p]
    <3>1. x # p /\ x \in Parcel /\ bin[x] \in 1 .. binSeq
      BY <1>1, <1>5, <2>1
    <3> QED
      BY <1>1, <1>2, <2>1, <3>1
  <2>2. CASE q = p
    BY <1>7, <2>1, <2>2
  <2>3. CASE r = p
    BY <1>7, <2>1, <2>3
  <2>4. CASE q # p /\ r # p
    <3>1. q \in Received /\ r \in Received /\ bin'[q] = bin[q] /\ bin'[r] = bin[r]
      BY <1>1, <1>2, <2>4
    <3> QED
      BY <1>7, <3>1 DEF Numbered
  <2> QED
    BY <2>2, <2>3, <2>4
<1> QED
  BY <1>2, <1>3, <1>4, <1>6, <1>7

\* A unit is shelved under a number of its own, at the verdict of its checks
\* (intake.ts:54-109).
LEMMA ShelveNumbers ==
  ASSUME UnitTypeOK, Numbered, Accepted, NEW p \in load.parcels, p \notin Received, Shelve(p),
         load' = load
  PROVE  Numbered' /\ Accepted' /\ stage' \in [Parcel -> Stage]
         /\ skuOf' \in [Parcel -> Nat] /\ bin' \in [Parcel -> Int \cup {NoBin}]
         /\ seq' \in Nat /\ binSeq' \in Nat
<1>1. /\ IsFiniteSet(Received) /\ p \in Parcel
      /\ Cardinality(Received \cup {p}) = seq + 1
  BY ShelfHasRoom
<1>2. /\ seq' = seq + 1 /\ TakeBin(p)
      /\ skuOf' = [skuOf EXCEPT ![p] = seq + 1]
      /\ stage' = [stage EXCEPT ![p] = Status(p)]
  BY DEF Shelve, Move
<1>3. Status(p) \in {"blocked", "testing", "photographed"}
  BY DEF Status
<1>4. Received' = Received \cup {p}
  BY <1>1, <1>2, <1>3 DEF Received, UnitTypeOK
<1>5. /\ stage' \in [Parcel -> Stage]
      /\ skuOf' \in [Parcel -> Nat] /\ seq' \in Nat
  BY <1>1, <1>2, <1>3 DEF UnitTypeOK, Stage
<1>6. Accepted'
  BY <1>1, <1>2, <1>3
  DEF Accepted, UnitTypeOK, Status, MissingChecks, Blacklisted, Screens
<1>7. /\ bin' \in [Parcel -> Int \cup {NoBin}] /\ binSeq' \in Nat
      /\ \A q \in Parcel \ Received' : bin'[q] = NoBin
      /\ \A q \in Received' :
           bin'[q] \in IF q.hint = NoBin THEN 1 .. binSeq' ELSE {q.hint}
      /\ \A q, r \in Received' :
           q.hint = NoBin /\ r.hint = NoBin /\ q # r => bin'[q] # bin'[r]
  BY <1>1, <1>2, <1>4, BinIsTaken
<1>8. Numbered'
  <2>1. seq' = Cardinality(Received')
    BY <1>1, <1>2, <1>4 DEF Numbered
  <2>2. \A q \in Parcel : stage'[q] # "bought" => q \in load'.parcels
    BY <1>1, <1>2 DEF Numbered, UnitTypeOK
  <2>3. skuOf'[p] = seq + 1
    BY <1>1, <1>2 DEF UnitTypeOK
  <2>4. \A q \in Parcel \ {p} : skuOf'[q] = skuOf[q]
    BY <1>2 DEF UnitTypeOK
  <2>5. \A q \in Received : skuOf[q] \in 1 .. seq /\ q \in Parcel
    BY DEF Numbered, Received
  <2>6. \A q \in Received' : skuOf'[q] \in 1 .. seq'
    BY <1>2, <1>4, <2>3, <2>4, <2>5 DEF UnitTypeOK
  <2>7. \A q \in Parcel \ Received' : skuOf'[q] = 0
    BY <1>4, <2>4 DEF Numbered
  <2>8. ASSUME NEW q \in Received', NEW r \in Received', q # r
        PROVE  skuOf'[q] # skuOf'[r]
    <3>1. \A x \in Received : skuOf'[x] # seq + 1
      BY <2>4, <2>5 DEF UnitTypeOK
    <3>2. CASE q = p
      BY <1>4, <2>3, <2>8, <3>1, <3>2
    <3>3. CASE r = p
      BY <1>4, <2>3, <2>8, <3>1, <3>3
    <3>4. CASE q # p /\ r # p
      BY <1>4, <2>4, <2>5, <2>8, <3>4 DEF Numbered
    <3> QED
      BY <3>2, <3>3, <3>4
  <2> QED
    BY <1>7, <2>1, <2>2, <2>6, <2>7, <2>8 DEF Numbered
<1> QED
  BY <1>5, <1>6, <1>7, <1>8

\* The price a unit is put at: its floor, or no more than it was (pricer.ts:84-102).
LEMMA NewPriceIs ==
  ASSUME UnitTypeOK, NEW p \in Parcel
  PROVE  /\ NewPrice(p) \in Nat /\ FloorPrice(p.price) \in Nat
         /\ NewPrice(p) >= FloorPrice(p.price)
         /\ NewPrice(p) = FloorPrice(p.price) \/ NewPrice(p) <= price[p]
<1>1. p.value \in Nat /\ p.price \in Nat /\ price[p] \in Nat
  BY GoodsAssumption DEF UnitTypeOK
<1>2. PICK cut \in Nat : cut = 10000 - LadderCut(p)
  BY DEF LadderCut
<1>3. PICK x \in Nat : x = MulBp(p.value, cut)
  BY <1>1, MulBpIsNat
<1>4. PICK f \in Nat : f = FloorPrice(p.price)
  BY <1>1, FloorGrows
<1>5. PICK y \in Nat : y = price[p]
  BY <1>1
<1>6. Min({x, y}) \in {x, y} /\ Min({x, y}) <= y
  BY MinOfTwo
<1>7. PICK m \in Nat : m = Min({x, y}) /\ m <= y
  BY <1>6
<1>8. Max({m, f}) \in {m, f} /\ Max({m, f}) >= f
  BY MaxOfTwo
<1>9. NewPrice(p) = Max({m, f})
  BY <1>2, <1>3, <1>4, <1>5, <1>7 DEF NewPrice
<1> QED
  BY <1>4, <1>5, <1>7, <1>8, <1>9

\* No offer is below the floor (pricer.ts:95-100).
LEMMA OfferPriceIs ==
  ASSUME UnitTypeOK, NEW p \in Parcel
  PROVE  OfferPrice(p) \in Nat /\ OfferPrice(p) >= FloorPrice(p.price)
<1>1. PICK n \in Nat, f \in Nat : n = NewPrice(p) /\ f = FloorPrice(p.price)
  BY NewPriceIs
<1>2. MulBp(n, 9000) \in Nat
  BY MulBpIsNat
<1>3. PICK x \in Nat : x = MulBp(n, 9000)
  BY <1>2
<1>4. Max({x, f}) \in {x, f} /\ Max({x, f}) >= f
  BY MaxOfTwo
<1>5. OfferPrice(p) = Max({x, f})
  BY <1>1, <1>3 DEF OfferPrice
<1> QED
  BY <1>1, <1>4, <1>5

\* What the marketplace keeps of a sale.
Charge(g) == MulBp(g, 1360) + 30 + MulBp(g, 300)

LEMMA ChargeIsNat ==
  ASSUME NEW g \in Nat
  PROVE  MulBp(g, 1360) \in Nat /\ MulBp(g, 300) \in Nat /\ Charge(g) \in Nat
<1>1. MulBp(g, 1360) \in Nat
  BY MulBpIsNat
<1>2. MulBp(g, 300) \in Nat
  BY MulBpIsNat
<1> QED
  BY <1>1, <1>2 DEF Charge

\* The steps of a unit after the shelf leave its numbers and its acceptance alone.
LEMMA ListStep ==
  ASSUME UnitsInv, NEW p \in Parcel, List(p)
  PROVE  UnitTypeOK' /\ MovesOn(p) /\ Priced'
<1>1. /\ stage[p] = "photographed" /\ stage' = [stage EXCEPT ![p] = "listed"]
      /\ price' = [price EXCEPT ![p] = p.value] /\ age' = [age EXCEPT ![p] = 0]
      /\ offer' = [offer EXCEPT ![p] = NoOffer]
      /\ UNCHANGED <<load, skuOf, bin, seq, binSeq, gross, shipment, calls, till, odd>>
  BY DEF List, Move, intakeVars, opsVars
<1>2. p.value \in Nat /\ "listed" \in Stage
  BY GoodsAssumption DEF Stage
<1>3. UnitTypeOK'
  BY <1>1, <1>2 DEF UnitsInv, UnitTypeOK
<1>4. MovesOn(p)
  BY <1>1, <1>2 DEF MovesOn, Flow
<1>5. Priced'
  BY <1>1 DEF UnitsInv, UnitTypeOK, Priced
<1> QED
  BY <1>3, <1>4, <1>5

LEMMA WaitStep ==
  ASSUME UnitsInv, NEW p \in Parcel, Wait(p)
  PROVE  UnitTypeOK' /\ MovesOn(p) /\ Priced'
<1>1. /\ stage' = stage /\ age' = [age EXCEPT ![p] = @ + 1]
      /\ UNCHANGED <<load, skuOf, bin, seq, binSeq, price, offer, gross, shipment, calls,
                     till, odd>>
  BY DEF Wait, intakeVars, opsVars
<1>2. UnitTypeOK'
  BY <1>1 DEF UnitsInv, UnitTypeOK
<1>3. MovesOn(p)
  BY <1>1 DEF MovesOn, UnitsInv, UnitTypeOK
<1>4. Priced'
  <2>1. \A q \in Parcel : age'[q] \in Nat /\ age[q] \in Nat /\ age[q] <= age'[q]
    BY <1>1 DEF UnitsInv, UnitTypeOK
  <2>2. \A q \in Parcel : offer[q] # NoOffer => offer[q].at \in Nat
    BY DEF UnitsInv, UnitTypeOK
  <2> QED
    BY <1>1, <2>1, <2>2 DEF UnitsInv, Priced
<1> QED
  BY <1>2, <1>3, <1>4

LEMMA RepriceStep ==
  ASSUME UnitsInv, NEW p \in Parcel, NEW watchers \in {0, 2}, Reprice(p, watchers)
  PROVE  UnitTypeOK' /\ MovesOn(p) /\ Priced'
<1> DEFINE made == [at |-> age[p], price |-> OfferPrice(p)]
<1>1. /\ stage' = stage /\ price' = [price EXCEPT ![p] = NewPrice(p)]
      /\ offer' = offer \/ offer' = [offer EXCEPT ![p] = made]
      /\ UNCHANGED <<load, skuOf, bin, seq, binSeq, age, gross, shipment, calls, till, odd>>
  BY DEF Reprice, intakeVars, opsVars
<1>2. NewPrice(p) \in Nat /\ NewPrice(p) >= FloorPrice(p.price)
  BY NewPriceIs DEF UnitsInv
<1>3. /\ made \in [at : Nat, price : Nat] /\ made.at <= age[p]
      /\ made.price >= FloorPrice(p.price)
  BY OfferPriceIs DEF UnitsInv, UnitTypeOK
<1> HIDE DEF made
<1>4. UnitTypeOK'
  BY <1>1, <1>2, <1>3 DEF UnitsInv, UnitTypeOK
<1>5. MovesOn(p)
  BY <1>1 DEF MovesOn, UnitsInv, UnitTypeOK
<1>6. Priced'
  BY <1>1, <1>2, <1>3 DEF UnitsInv, UnitTypeOK, Priced
<1> QED
  BY <1>4, <1>5, <1>6

LEMMA SellStep ==
  ASSUME UnitsInv, NEW p \in Parcel, Sell(p)
  PROVE  UnitTypeOK' /\ MovesOn(p) /\ Priced'
<1>1. PICK g \in Prices(p) :
        /\ gross' = [gross EXCEPT ![p] = g]
        /\ till' = till + g - MulBp(g, 1360) - 30 - MulBp(g, 300) + p.tax
  BY DEF Sell
<1>2. /\ stage[p] = "listed" /\ stage' = [stage EXCEPT ![p] = "sold"]
      /\ UNCHANGED <<load, skuOf, bin, seq, binSeq, price, age, offer, shipment, calls, odd>>
  BY DEF Sell, Move, intakeVars, listingVars, opsVars
<1>3. g \in Nat /\ p.tax \in Nat
  BY GoodsAssumption DEF Prices, UnitsInv, UnitTypeOK
<1>4. till' \in Int
  BY <1>1, <1>3, ChargeIsNat DEF UnitsInv, UnitTypeOK
<1>5. UnitTypeOK'
  BY <1>1, <1>2, <1>3, <1>4 DEF UnitsInv, UnitTypeOK, Stage
<1>6. MovesOn(p)
  BY <1>2 DEF MovesOn, Flow, Stage
<1>7. Priced'
  BY <1>2 DEF UnitsInv, UnitTypeOK, Priced
<1> QED
  BY <1>5, <1>6, <1>7

LEMMA OpsStep ==
  ASSUME UnitsInv, NEW p \in Parcel, Fulfill(p) \/ Labelled(p) \/ LabelFails(p)
  PROVE  UnitTypeOK' /\ MovesOn(p) /\ Priced'
<1>1. UNCHANGED <<load, skuOf, bin, seq, binSeq, price, age, offer, gross>>
  BY DEF Fulfill, Labelled, LabelFails, intakeVars, listingVars
<1>2. \/ stage' = stage
      \/ stage[p] = "shipped" /\ stage' = [stage EXCEPT ![p] = stage[p]]
      \/ stage' = [stage EXCEPT ![p] = stage[p]]
      \/ stage[p] = "sold" /\ stage' = [stage EXCEPT ![p] = "shipped"]
  BY DEF Fulfill, Labelled, LabelFails, Move
<1>3. stage' = stage \/ (stage[p] = "sold" /\ stage' = [stage EXCEPT ![p] = "shipped"])
  BY <1>2 DEF UnitsInv, UnitTypeOK
<1>4. calls' \in [Parcel -> Nat] /\ shipment' \in [Parcel -> BOOLEAN]
  <2>1. CASE Fulfill(p)
    BY <2>1 DEF Fulfill, UnitsInv, UnitTypeOK
  <2>2. CASE Labelled(p) \/ LabelFails(p)
    <3>1. /\ calls[p] > 0 /\ calls' = [calls EXCEPT ![p] = @ - 1]
          /\ shipment' = shipment \/ shipment' = [shipment EXCEPT ![p] = TRUE]
      BY <2>2 DEF Labelled, LabelFails
    <3>2. calls[p] - 1 \in Nat
      BY <3>1 DEF UnitsInv, UnitTypeOK
    <3> QED
      BY <3>1, <3>2 DEF UnitsInv, UnitTypeOK
  <2> QED
    BY <2>1, <2>2
<1>5. till' \in Int /\ odd' \in SUBSET Parcel
  BY GoodsAssumption DEF Fulfill, Labelled, LabelFails, UnitsInv, UnitTypeOK
<1>6. UnitTypeOK'
  BY <1>1, <1>3, <1>4, <1>5 DEF UnitsInv, UnitTypeOK, Stage
<1>7. MovesOn(p)
  BY <1>3 DEF MovesOn, Flow, Stage, UnitsInv, UnitTypeOK
<1>8. Priced'
  BY <1>1, <1>3 DEF UnitsInv, UnitTypeOK, Priced
<1> QED
  BY <1>6, <1>7, <1>8

-------------------------------------------------------------------------------
(***************************************************************************)
(* The units and the books.  Everything a unit does to the books is a      *)
(* posting of a kind the bookkeeper's invariant covers.                    *)
(***************************************************************************)
BooksInv == IInv /\ UnitsInv

LEMMA SkuIs ==
  ASSUME UnitsInv, NEW p \in Received
  PROVE  skuOf[p] \in Sku /\ p \in Parcel
<1>1. PICK w \in Workload : load.parcels = w.parcels
  BY DEF UnitsInv, UnitTypeOK
<1>2. IsFiniteSet(load.parcels) /\ 1 .. Cardinality(load.parcels) \subseteq Sku
  BY <1>1, GoodsAssumption
<1>3. Received \subseteq load.parcels
  BY DEF UnitsInv, Numbered, Received
<1>4. /\ Cardinality(Received) <= Cardinality(load.parcels)
      /\ Cardinality(load.parcels) \in Nat
  BY <1>2, <1>3, FS_Subset, FS_CardinalityType
<1>5. skuOf[p] \in 1 .. seq /\ seq = Cardinality(Received) /\ seq \in Nat
  BY DEF UnitsInv, UnitTypeOK, Numbered
<1>6. skuOf[p] \in 1 .. Cardinality(load.parcels)
  BY <1>4, <1>5
<1> QED
  BY <1>2, <1>6 DEF Received

\* What a reception, a sale and a return put to the bookkeeper.
PurchaseOf(p) == [price |-> p.price, tax |-> 0, shipIn |-> 0, travel |-> 0]

LEMMA InputsAreInputs ==
  ASSUME UnitsInv, NEW p \in Parcel
  PROVE  PurchaseOf(p) \in PurchaseInput /\ SaleOf(p) \in SaleInput
<1>1. p.price \in Nat /\ p.tax \in Nat /\ p.region \in Region \cup {NoRegion}
  BY GoodsAssumption
<1>2. gross[p] \in Nat /\ LabelCost \in Nat
  BY GoodsAssumption DEF UnitsInv, UnitTypeOK
<1>3. MulBp(gross[p], 1360) + 30 \in Nat /\ MulBp(gross[p], 300) \in Nat
  BY <1>2, ChargeIsNat
<1> QED
  BY <1>1, <1>2, <1>3 DEF PurchaseOf, SaleOf, PurchaseInput, SaleInput

LEMMA ReceptionStep ==
  ASSUME BooksInv, NEW p \in Parcel, Receive(p) \/ Screened(p)
  PROVE  BooksInv'
<1>1. /\ UNCHANGED <<load, price, age, offer, gross, shipment, calls, odd>>
      /\ till' \in Int
  BY GoodsAssumption DEF Receive, Screened, listingVars, opsVars, BooksInv, UnitsInv, UnitTypeOK
<1>2. p \in load.parcels /\ p \notin Received
  BY DEF Receive, Screened, Received, BooksInv, UnitsInv, Numbered
<1>3. CASE Shelve(p)
  <2>1. /\ Numbered' /\ Accepted' /\ stage' \in [Parcel -> Stage]
        /\ skuOf' \in [Parcel -> Nat] /\ bin' \in [Parcel -> Int \cup {NoBin}]
        /\ seq' \in Nat /\ binSeq' \in Nat
    BY <1>1, <1>2, <1>3, ShelveNumbers DEF BooksInv, UnitsInv
  <2>2. UnitTypeOK'
    BY <1>1, <2>1 DEF BooksInv, UnitsInv, UnitTypeOK
  <2>3. stage' = [stage EXCEPT ![p] = Status(p)] /\ Status(p) # "listed"
    BY <1>3 DEF Shelve, Move, Status
  <2>4. Priced'
    BY <1>1, <2>3 DEF BooksInv, UnitsInv, UnitTypeOK, Priced
  <2>5. seq + 1 \in Sku
    BY <1>2, ShelfHasRoom DEF BooksInv, UnitsInv
  <2>6. IInv'
    BY <1>3, <2>5, InputsAreInputs, PurchaseKeeps DEF Shelve, BooksInv, PurchaseOf
  <2> QED
    BY <2>1, <2>2, <2>4, <2>6 DEF BooksInv, UnitsInv
<1>4. CASE stage[p] = "bought" /\ Move(p, "screening") /\ UNCHANGED <<intakeVars, vars>>
  <2>1. /\ stage' = [stage EXCEPT ![p] = "screening"]
        /\ UNCHANGED <<skuOf, bin, seq, binSeq>>
    BY <1>4 DEF Move, intakeVars
  <2>2. UnitTypeOK'
    BY <1>1, <2>1 DEF BooksInv, UnitsInv, UnitTypeOK, Stage
  <2>3. Received' = Received
    BY <1>4, <2>1 DEF Received, BooksInv, UnitsInv, UnitTypeOK
  <2>4. Numbered'
    BY <1>1, <1>2, <2>1, <2>3 DEF Numbered, BooksInv, UnitsInv, UnitTypeOK
  <2>5. Accepted' /\ Priced'
    BY <1>1, <2>1
    DEF BooksInv, UnitsInv, UnitTypeOK, Accepted, Priced, Status, MissingChecks, Blacklisted,
        Screens
  <2>6. IInv'
    BY <1>4, BooksStutter DEF BooksInv
  <2> QED
    BY <2>2, <2>4, <2>5, <2>6 DEF BooksInv, UnitsInv
<1> QED
  BY <1>3, <1>4 DEF Receive, Screened

\* A sale is booked, or thrown out and the unit marked (bookkeeper.ts:129-140).
LEMMA BookSaleStep ==
  ASSUME BooksInv, NEW p \in Parcel, BookSale(p)
  PROVE  IInv' /\ UnitTypeOK' /\ MovesOn(p) /\ Priced'
<1>1. /\ stage[p] = "shipped" /\ stage' = [stage EXCEPT ![p] = "settled"]
      /\ UNCHANGED <<load, skuOf, bin, seq, binSeq, price, age, offer, gross, shipment, calls,
                     till>>
      /\ odd' = odd \/ odd' = odd \cup {p}
  BY DEF BookSale, Move, intakeVars, listingVars, opsVars
<1>2. UnitTypeOK'
  BY <1>1 DEF BooksInv, UnitsInv, UnitTypeOK, Stage
<1>3. MovesOn(p)
  BY <1>1 DEF MovesOn, Flow, Stage
<1>4. Priced'
  BY <1>1 DEF BooksInv, UnitsInv, UnitTypeOK, Priced
<1>5. skuOf[p] \in Sku
  BY <1>1, SkuIs DEF BooksInv, Received
<1>6. IInv'
  <2>1. SaleOf(p) \in SaleInput
    BY InputsAreInputs DEF BooksInv
  <2>2. RecordSale(skuOf[p], SaleOf(p)) \/ UNCHANGED vars
    BY DEF BookSale
  <2> QED
    BY <1>5, <2>1, <2>2, SaleKeeps, BooksStutter DEF BooksInv
<1> QED
  BY <1>2, <1>3, <1>4, <1>6

LEMMA TakeBackStep ==
  ASSUME BooksInv, NEW p \in Parcel, NEW restockable \in BOOLEAN, TakeBack(p, restockable)
  PROVE  IInv' /\ UnitTypeOK' /\ MovesOn(p) /\ Priced'
<1>1. /\ stage[p] = "settled"
      /\ stage' = [stage EXCEPT ![p] = IF restockable THEN "photographed" ELSE "scrapped"]
      /\ UNCHANGED <<load, skuOf, bin, seq, binSeq, price, age, offer, gross, shipment, calls,
                     odd>>
      /\ till' = till - gross[p]
  BY DEF TakeBack, Move, intakeVars, listingVars, opsVars
<1>2. UnitTypeOK'
  BY <1>1 DEF BooksInv, UnitsInv, UnitTypeOK, Stage
<1>3. MovesOn(p)
  BY <1>1 DEF MovesOn, Flow, Stage
<1>4. Priced'
  BY <1>1 DEF BooksInv, UnitsInv, UnitTypeOK, Priced
<1>5. skuOf[p] \in Sku
  BY <1>1, SkuIs DEF BooksInv, Received
<1>6. PICK worth \in {0, costBasis[skuOf[p]] \div 2, costBasis[skuOf[p]]} :
        RecordReturn(skuOf[p], [refund |-> gross[p], restock |-> worth])
  BY DEF TakeBack
<1>7. costBasis[skuOf[p]] \in Nat
  BY <1>5, <1>6 DEF BooksInv, IInv, TypeOK, RecordReturn, ReturnIsLegal
<1>8. worth \in Nat
  <2>1. costBasis[skuOf[p]] \div 2 \in Nat
    BY <1>7
  <2> QED
    BY <1>7, <2>1
<1>9. [refund |-> gross[p], restock |-> worth] \in ReturnInput
  BY <1>8 DEF ReturnInput, BooksInv, UnitsInv, UnitTypeOK
<1>10. IInv'
  BY <1>5, <1>6, <1>9, ReturnKeeps DEF BooksInv
<1> QED
  BY <1>2, <1>3, <1>4, <1>10

\* What is entered by hand keeps the books, and does nothing to the units.
LEMMA ByHandStep ==
  ASSUME BooksInv, ByHand
  PROVE  BooksInv'
<1>1. IInv'
  BY NextKeeps DEF BooksInv, ByHand
<1>2. balance["cash"] \in Int /\ balance'["cash"] \in Int
  BY <1>1, Accounts DEF BooksInv, IInv, TypeOK
<1>3. /\ load' = [load EXCEPT !.entries = @ - 1]
      /\ till' = till + balance'["cash"] - balance["cash"]
      /\ UNCHANGED <<stage, skuOf, bin, seq, binSeq, price, age, offer, gross, shipment, calls,
                     odd>>
  BY DEF ByHand, intakeVars, listingVars, opsVars
<1>4. /\ load'.parcels = load.parcels /\ load'.screens = load.screens
      /\ load' \in [parcels : SUBSET Parcel, entries : Int, screens : BOOLEAN]
  BY <1>3 DEF BooksInv, UnitsInv, UnitTypeOK
<1>5. UnitTypeOK'
  BY <1>2, <1>3, <1>4 DEF BooksInv, UnitsInv, UnitTypeOK
<1>6. Received' = Received
  BY <1>3 DEF Received
<1>7. Numbered' /\ Accepted' /\ Priced'
  <2>1. \A p \in Parcel : Status(p) = Status(p)'
    BY <1>4 DEF Status, Blacklisted, Screens
  <2>2. Accepted'
    BY <1>3, <2>1 DEF BooksInv, UnitsInv, Accepted
  <2> QED
    BY <1>3, <1>4, <1>6, <2>2 DEF BooksInv, UnitsInv, Numbered, Priced
<1> QED
  BY <1>1, <1>5, <1>7 DEF BooksInv, UnitsInv

\* A step of a unit after the shelf that leaves the books alone, or posts to them.
LEMMA AfterShelf ==
  ASSUME BooksInv, NEW p \in Parcel, UnitTypeOK', MovesOn(p), Priced', IInv',
         load' = load, UNCHANGED intakeVars
  PROVE  BooksInv'
BY FlowKeeps DEF BooksInv, UnitsInv

LEMMA BooksStep ==
  ASSUME BooksInv, [GoodsNext]_goodsVars
  PROVE  BooksInv'
<1>1. ASSUME NEW p \in Parcel,
             \/ List(p) \/ Wait(p) \/ Sell(p) \/ Fulfill(p) \/ Labelled(p) \/ LabelFails(p)
             \/ \E watchers \in {0, 2} : Reprice(p, watchers)
      PROVE  BooksInv'
  <2>1. UnitTypeOK' /\ MovesOn(p) /\ Priced'
    BY <1>1, ListStep, WaitStep, SellStep, OpsStep, RepriceStep DEF BooksInv
  <2>2. UNCHANGED vars /\ load' = load /\ UNCHANGED intakeVars
    BY <1>1 DEF List, Wait, Sell, Fulfill, Labelled, LabelFails, Reprice
  <2> QED
    BY <2>1, <2>2, BooksStutter, AfterShelf DEF BooksInv
<1>2. ASSUME NEW p \in Parcel, BookSale(p) \/ \E r \in BOOLEAN : TakeBack(p, r)
      PROVE  BooksInv'
  <2>1. IInv' /\ UnitTypeOK' /\ MovesOn(p) /\ Priced'
    BY <1>2, BookSaleStep, TakeBackStep
  <2>2. load' = load /\ UNCHANGED intakeVars
    BY <1>2 DEF BookSale, TakeBack
  <2> QED
    BY <2>1, <2>2, AfterShelf
<1>3. CASE UNCHANGED goodsVars
  <2>1. UNCHANGED <<load, stage, skuOf, bin, seq, binSeq, price, age, offer, gross, shipment,
                    calls, till, odd, vars>>
    BY <1>3 DEF goodsVars, flowVars, intakeVars, listingVars, opsVars
  <2>2. UnitTypeOK' /\ Accepted' /\ Priced'
    BY <2>1 DEF BooksInv, UnitsInv, UnitTypeOK, Accepted, Priced, Status, Blacklisted, Screens
  <2>3. Received' = Received
    BY <2>1 DEF Received
  <2>4. Numbered'
    BY <2>1, <2>3 DEF BooksInv, UnitsInv, Numbered
  <2> QED
    BY <2>1, <2>2, <2>4, BooksStutter DEF BooksInv, UnitsInv
<1> QED
  BY <1>1, <1>2, <1>3, ReceptionStep, ByHandStep DEF GoodsNext

LEMMA BooksBegin ==
  ASSUME GoodsInit
  PROVE  BooksInv
<1>1. /\ Init /\ load \in Workload /\ seq = 0 /\ binSeq = 0 /\ till = 0 /\ odd = {}
      /\ stage = [p \in Parcel |-> "bought"]
      /\ skuOf = [p \in Parcel |-> 0] /\ bin = [p \in Parcel |-> NoBin]
      /\ price = [p \in Parcel |-> 0] /\ age = [p \in Parcel |-> 0]
      /\ offer = [p \in Parcel |-> NoOffer] /\ gross = [p \in Parcel |-> 0]
      /\ shipment = [p \in Parcel |-> FALSE] /\ calls = [p \in Parcel |-> 0]
  BY DEF GoodsInit
<1>2. load \in [parcels : SUBSET Parcel, entries : Int, screens : BOOLEAN]
  BY <1>1, GoodsAssumption
<1>3. UnitTypeOK
  BY <1>1, <1>2 DEF UnitTypeOK, Stage
<1>4. Received = {} /\ Cardinality({}) = 0
  BY <1>1, FS_EmptySet DEF Received
<1>5. Numbered
  BY <1>1, <1>4 DEF Numbered
<1>6. Accepted /\ Priced
  BY <1>1 DEF Accepted, Priced
<1> QED
  BY <1>1, <1>3, <1>5, <1>6, InitInv DEF BooksInv, UnitsInv

\* The books and the units hold together in every reachable state of the flow.
THEOREM GoodsInductive == GoodsSpec => []BooksInv
BY BooksBegin, BooksStep, PTL DEF GoodsSpec

\* ProfitIsWealth of the books a flow of units is booked in: receptions, sales
\* and returns of any load, among entries by hand (bookkeeper.ts:169).
THEOREM ProfitIsRealForGoods == GoodsSpec => []ProfitIsWealth
<1>1. BooksInv => ProfitIsWealth
  BY ProfitFollows DEF BooksInv
<1> QED
  BY <1>1, GoodsInductive, PTL

\* StockIsAtBasis of the same books (bookkeeper.ts:138, 155, 159).
THEOREM ExactCogsForGoods == GoodsSpec => []StockIsAtBasis
<1>1. BooksInv => StockIsAtBasis
  BY DEF BooksInv, IInv
<1> QED
  BY <1>1, GoodsInductive, PTL

\* SalesTaxIsOwed of the same books: however many states, sales and returns, the
\* tax report and the payable account agree (bookkeeper.ts:133, 137).
THEOREM TaxOwed == GoodsSpec => []SalesTaxIsOwed
<1>1. BooksInv => SalesTaxIsOwed
  BY DEF BooksInv, IInv
<1> QED
  BY <1>1, GoodsInductive, PTL

-------------------------------------------------------------------------------
(***************************************************************************)
(* The margin.  A unit is carried at no more than was paid for it: it is   *)
(* restocked at no more than it was carried at (bookkeeper.ts:150), and    *)
(* only a purchase entered by hand under its sku could raise that.  What   *)
(* the operator enters is taken to be cheaper than any unit of the flow.   *)
(***************************************************************************)
CheaperByHand == \A i \in Purchase, p \in Parcel : Basis(i) <= p.price

BasisKept == \A p \in Received : /\ costBasis[skuOf[p]] \in Nat
                                 /\ costBasis[skuOf[p]] <= p.price

\* Every posting leaves the basis of a sku, lowers it, or sets it to a purchase.
LEMMA HandKeepsBasis ==
  ASSUME IInv, Next, NEW s \in Sku, costBasis[s] \in Nat, NEW most \in Nat,
         costBasis[s] <= most, \A i \in Purchase : Basis(i) <= most
  PROVE  costBasis'[s] \in Nat /\ costBasis'[s] <= most
<1>1. ASSUME NEW x \in Amount, InjectCapital(x)
      PROVE  costBasis' = costBasis
  BY <1>1 DEF InjectCapital
<1>2. ASSUME NEW t \in Sku, NEW i \in Purchase, RecordPurchase(t, i)
      PROVE  costBasis'[s] \in Nat /\ costBasis'[s] <= most
  <2>1. costBasis' = [costBasis EXCEPT ![t] = Basis(i)]
    BY <1>2 DEF RecordPurchase
  <2>2. i.price \in Nat /\ i.tax \in Nat /\ i.shipIn \in Nat
    BY BookkeeperAssumption
  <2>3. Basis(i) \in Nat /\ Basis(i) <= most
    BY <2>2 DEF Basis
  <2> QED
    BY <2>1, <2>3 DEF IInv, TypeOK
<1>3. ASSUME NEW t \in Sku, NEW i \in Sale, RecordSale(t, i)
      PROVE  costBasis' = costBasis
  BY <1>3 DEF RecordSale
<1>4. ASSUME NEW t \in Sku, NEW i \in Return, RecordReturn(t, i)
      PROVE  costBasis'[s] \in Nat /\ costBasis'[s] <= most
  <2>1. costBasis' = [costBasis EXCEPT ![t] = i.restock] /\ i.restock <= costBasis[t]
    BY <1>4 DEF RecordReturn, ReturnIsLegal
  <2>2. i.restock \in Nat
    BY BookkeeperAssumption
  <2> QED
    BY <2>1, <2>2 DEF IInv, TypeOK
<1> QED
  BY <1>1, <1>2, <1>3, <1>4 DEF Next

LEMMA BasisBegins ==
  ASSUME GoodsInit
  PROVE  BasisKept
<1>1. Received = {}
  BY DEF GoodsInit, Received
<1> QED
  BY <1>1 DEF BasisKept

\* A unit that is shelved is carried at what was paid for it.
LEMMA ShelfKeepsBasis ==
  ASSUME BooksInv, BooksInv', BasisKept, NEW p \in load.parcels, p \notin Received,
         Shelve(p)
  PROVE  BasisKept'
<1>0. p \in Parcel
  BY DEF BooksInv, UnitsInv, UnitTypeOK
<1>1. /\ skuOf' = [skuOf EXCEPT ![p] = seq + 1]
      /\ stage' = [stage EXCEPT ![p] = Status(p)]
      /\ RecordPurchase(seq + 1, PurchaseOf(p))
  BY DEF Shelve, Move, PurchaseOf
<1>2. Received' = Received \cup {p}
  BY <1>0, <1>1 DEF Received, Status, BooksInv, UnitsInv, UnitTypeOK
<1>3. p.price \in Nat
  BY <1>0, GoodsAssumption
<1>4. costBasis' = [costBasis EXCEPT ![seq + 1] = p.price]
  <2>1. Basis(PurchaseOf(p)) = p.price
    BY <1>3 DEF Basis, PurchaseOf
  <2> QED
    BY <1>1, <2>1 DEF RecordPurchase
<1>5. ASSUME NEW q \in Received
      PROVE  costBasis'[skuOf'[q]] \in Nat /\ costBasis'[skuOf'[q]] <= q.price
  <2>1. skuOf'[q] = skuOf[q] /\ skuOf[q] \in Sku
    BY <1>1, SkuIs DEF BooksInv, UnitsInv, UnitTypeOK, Received
  <2>2. skuOf[q] # seq + 1
    BY DEF BooksInv, UnitsInv, UnitTypeOK, Numbered
  <2>3. costBasis'[skuOf'[q]] = costBasis[skuOf[q]]
    BY <1>4, <2>1, <2>2 DEF BooksInv, IInv, TypeOK
  <2> QED
    BY <2>3 DEF BasisKept
<1>6. costBasis'[skuOf'[p]] = p.price
  <2>1. skuOf'[p] = seq + 1
    BY <1>0, <1>1 DEF BooksInv, UnitsInv, UnitTypeOK
  <2>2. seq + 1 \in Sku
    BY ShelfHasRoom DEF BooksInv, UnitsInv
  <2> QED
    BY <1>4, <2>1, <2>2 DEF BooksInv, IInv, TypeOK
<1> QED
  BY <1>2, <1>3, <1>5, <1>6 DEF BasisKept

LEMMA BasisStep ==
  ASSUME BooksInv, BooksInv', BasisKept, CheaperByHand, [GoodsNext]_goodsVars
  PROVE  BasisKept'
<1>1. ASSUME UNCHANGED <<skuOf, costBasis>>, Received' = Received
      PROVE  BasisKept'
  BY <1>1 DEF BasisKept
<1>2. CASE UNCHANGED goodsVars
  BY <1>1, <1>2
  DEF goodsVars, flowVars, intakeVars, vars, bookVars, Received
<1>3. CASE ByHand
  <2>1. skuOf' = skuOf /\ stage' = stage /\ Next
    BY <1>3 DEF ByHand, intakeVars
  <2>2. Received' = Received
    BY <2>1 DEF Received
  <2> SUFFICES ASSUME NEW p \in Received
               PROVE  costBasis'[skuOf[p]] \in Nat /\ costBasis'[skuOf[p]] <= p.price
    BY <2>1, <2>2 DEF BasisKept
  <2>3. skuOf[p] \in Sku /\ p \in Parcel
    BY SkuIs DEF BooksInv
  <2>4. p.price \in Nat
    BY <2>3, GoodsAssumption
  <2>5. \A i \in Purchase : Basis(i) <= p.price
    BY <2>3 DEF CheaperByHand
  <2>6. costBasis[skuOf[p]] \in Nat /\ costBasis[skuOf[p]] <= p.price
    BY DEF BasisKept
  <2> QED
    BY <2>1, <2>3, <2>4, <2>5, <2>6, HandKeepsBasis DEF BooksInv
<1>4. ASSUME NEW p \in Parcel, Receive(p) \/ Screened(p)
      PROVE  BasisKept'
  <2>1. p \in load.parcels /\ p \notin Received
    BY <1>4 DEF Receive, Screened, Received, BooksInv, UnitsInv, Numbered
  <2>2. CASE Shelve(p)
    BY <2>1, <2>2, ShelfKeepsBasis
  <2>3. CASE stage[p] = "bought" /\ Move(p, "screening") /\ UNCHANGED <<intakeVars, vars>>
    <3>1. UNCHANGED <<skuOf, costBasis>> /\ stage' = [stage EXCEPT ![p] = "screening"]
      BY <2>3 DEF Move, intakeVars, vars, bookVars
    <3>2. Received' = Received
      BY <2>3, <3>1 DEF Received, BooksInv, UnitsInv, UnitTypeOK
    <3> QED
      BY <1>1, <3>1, <3>2
  <2> QED
    BY <1>4, <2>2, <2>3 DEF Receive, Screened
<1>5. ASSUME NEW p \in Parcel,
             \/ List(p) \/ Wait(p) \/ Sell(p) \/ Fulfill(p) \/ Labelled(p) \/ LabelFails(p)
             \/ \E watchers \in {0, 2} : Reprice(p, watchers)
      PROVE  BasisKept'
  <2>1. MovesOn(p)
    BY <1>5, ListStep, WaitStep, SellStep, OpsStep, RepriceStep DEF BooksInv
  <2>2. UNCHANGED <<vars, intakeVars>> /\ load' = load
    BY <1>5 DEF List, Wait, Sell, Fulfill, Labelled, LabelFails, Reprice
  <2>3. Received' = Received
    BY <2>1, <2>2, FlowKeeps DEF BooksInv, UnitsInv
  <2> QED
    BY <1>1, <2>2, <2>3 DEF vars, bookVars, intakeVars
<1>6. ASSUME NEW p \in Parcel, BookSale(p)
      PROVE  BasisKept'
  <2>1. MovesOn(p) /\ UNCHANGED intakeVars /\ load' = load
    BY <1>6, BookSaleStep DEF BookSale
  <2>2. Received' = Received
    BY <2>1, FlowKeeps DEF BooksInv, UnitsInv
  <2>3. costBasis' = costBasis
    BY <1>6 DEF BookSale, RecordSale, vars, bookVars
  <2> QED
    BY <1>1, <2>1, <2>2, <2>3 DEF intakeVars
<1>7. ASSUME NEW p \in Parcel, NEW restockable \in BOOLEAN, TakeBack(p, restockable)
      PROVE  BasisKept'
  <2>1. MovesOn(p) /\ UNCHANGED intakeVars /\ load' = load
    BY <1>7, TakeBackStep DEF TakeBack
  <2>2. Received' = Received /\ skuOf' = skuOf
    BY <2>1, FlowKeeps DEF BooksInv, UnitsInv, intakeVars
  <2>3. PICK worth : /\ worth \in {0, costBasis[skuOf[p]] \div 2, costBasis[skuOf[p]]}
                     /\ RecordReturn(skuOf[p], [refund |-> gross[p], restock |-> worth])
    BY <1>7 DEF TakeBack
  <2>4. costBasis' = [costBasis EXCEPT ![skuOf[p]] = worth] /\ worth <= costBasis[skuOf[p]]
    BY <2>3 DEF RecordReturn, ReturnIsLegal
  <2>5. p \in Received
    BY <1>7 DEF TakeBack, Received
  <2>6. costBasis[skuOf[p]] \in Nat
    BY <2>5 DEF BasisKept
  <2>7. worth \in Nat
    <3>1. costBasis[skuOf[p]] \div 2 \in Nat
      BY <2>6
    <3> QED
      BY <2>3, <2>6, <3>1
  <2>8. ASSUME NEW q \in Received
        PROVE  costBasis'[skuOf[q]] \in Nat /\ costBasis'[skuOf[q]] <= q.price
    <3>1. costBasis[skuOf[q]] \in Nat /\ costBasis[skuOf[q]] <= q.price /\ q.price \in Nat
      BY GoodsAssumption DEF BasisKept, Received
    <3>2. skuOf[q] \in Sku
      BY SkuIs DEF BooksInv
    <3>3. CASE skuOf[q] = skuOf[p]
      <4>1. costBasis'[skuOf[q]] = worth
        BY <2>4, <3>2, <3>3 DEF BooksInv, IInv, TypeOK
      <4> QED
        BY <2>4, <2>7, <3>1, <3>3, <4>1
    <3>4. CASE skuOf[q] # skuOf[p]
      BY <2>4, <3>1, <3>2, <3>4 DEF BooksInv, IInv, TypeOK
    <3> QED
      BY <3>3, <3>4
  <2> QED
    BY <2>2, <2>8 DEF BasisKept
<1> QED
  BY <1>2, <1>3, <1>4, <1>5, <1>6, <1>7 DEF GoodsNext

\* The price of a unit is what it was appraised for, or covers the margin of
\* whatever basis it is carried at.
LEMMA PricesCover ==
  ASSUME BooksInv, BasisKept, NEW p \in Parcel, stage[p] = "listed", NEW g \in Prices(p)
  PROVE  \/ g >= FloorPrice(costBasis[skuOf[p]])
         \/ g = p.value /\ p.value < FloorPrice(p.price)
<1>1. p \in Received
  BY DEF Received
<1>2. costBasis[skuOf[p]] \in Nat /\ costBasis[skuOf[p]] <= p.price
  BY <1>1 DEF BasisKept
<1>3. p.price \in Nat /\ p.value \in Nat
  BY GoodsAssumption
<1>4. PICK carriedFloor \in Nat, floor \in Nat :
        /\ carriedFloor = FloorPrice(costBasis[skuOf[p]]) /\ floor = FloorPrice(p.price)
        /\ carriedFloor <= floor
  BY <1>2, <1>3, FloorGrows
<1>5. g = p.value \/ g >= floor
  BY <1>4 DEF Prices, BooksInv, UnitsInv, Priced
<1>6. g \in Nat
  BY <1>4 DEF Prices, BooksInv, UnitsInv, UnitTypeOK
<1> QED
  BY <1>3, <1>4, <1>5, <1>6

\* What a step does to a listed unit: it is sold at one of its prices, put at a
\* new price and perhaps offered, or left as it is.
LEMMA ListedSteps ==
  ASSUME UnitTypeOK, GoodsNext, NEW p \in Parcel, stage[p] = "listed"
  PROVE  \/ UNCHANGED <<price, offer>> /\ \E g \in Prices(p) : gross'[p] = g
         \/ \E watchers \in {0, 2} : Reprice(p, watchers)
         \/ price'[p] = price[p] /\ offer'[p] = offer[p] /\ stage'[p] = "listed"
<1>1. CASE ByHand
  BY <1>1 DEF ByHand, listingVars
<1>2. ASSUME NEW q \in Parcel, q # p,
             \/ Receive(q) \/ Screened(q) \/ List(q) \/ Wait(q) \/ Sell(q)
             \/ Fulfill(q) \/ Labelled(q) \/ LabelFails(q) \/ BookSale(q)
             \/ \E watchers \in {0, 2} : Reprice(q, watchers)
             \/ \E restockable \in BOOLEAN : TakeBack(q, restockable)
      PROVE  price'[p] = price[p] /\ offer'[p] = offer[p] /\ stage'[p] = "listed"
  <2>1. stage'[p] = stage[p]
    <3>1. \A s : Move(q, s) => stage'[p] = stage[p]
      BY <1>2 DEF Move, UnitTypeOK
    <3>2. CASE Receive(q) \/ Screened(q)
      BY <3>1, <3>2 DEF Receive, Shelve, Screened
    <3>3. CASE List(q) \/ Wait(q) \/ Sell(q) \/ \E watchers \in {0, 2} : Reprice(q, watchers)
      BY <3>1, <3>3 DEF List, Wait, Sell, Reprice
    <3>4. CASE Fulfill(q) \/ Labelled(q) \/ LabelFails(q)
      BY <3>1, <3>4 DEF Fulfill, Labelled, LabelFails
    <3>5. CASE BookSale(q) \/ \E restockable \in BOOLEAN : TakeBack(q, restockable)
      BY <3>1, <3>5 DEF BookSale, TakeBack
    <3> QED
      BY <1>2, <3>2, <3>3, <3>4, <3>5
  <2>2. price'[p] = price[p] /\ offer'[p] = offer[p]
    BY <1>2 DEF Receive, Screened, List, Wait, Sell, Fulfill, Labelled, LabelFails, BookSale,
                Reprice, TakeBack, listingVars, UnitTypeOK
  <2> QED
    BY <2>1, <2>2
<1>3. CASE Sell(p)
  BY <1>3 DEF Sell, listingVars, UnitTypeOK
<1>4. CASE Wait(p)
  BY <1>4 DEF Wait
<1>5. ASSUME \/ Labelled(p) \/ LabelFails(p)
      PROVE  price'[p] = price[p] /\ offer'[p] = offer[p] /\ stage'[p] = "listed"
  BY <1>5 DEF Labelled, LabelFails, Move, listingVars, UnitTypeOK
<1>6. ~(\/ Receive(p) \/ Screened(p) \/ List(p) \/ Fulfill(p) \/ BookSale(p)
        \/ \E restockable \in BOOLEAN : TakeBack(p, restockable))
  BY DEF Receive, Screened, List, Fulfill, BookSale, TakeBack
<1> QED
  BY <1>1, <1>2, <1>3, <1>4, <1>5, <1>6 DEF GoodsNext

LEMMA MarginStep ==
  ASSUME BooksInv, BasisKept, [GoodsNext]_goodsVars, NEW p \in Parcel
  PROVE  /\ stage'[p] = "sold" /\ stage[p] = "listed" =>
              \/ gross'[p] >= FloorPrice(costBasis[skuOf[p]])
              \/ gross'[p] = p.value /\ p.value < FloorPrice(p.price)
         /\ stage[p] = "listed" /\ price'[p] > price[p] =>
              p.value < FloorPrice(p.price) /\ price'[p] = FloorPrice(p.price)
         /\ stage[p] = "listed" /\ offer[p] # NoOffer /\ offer'[p] # offer[p] =>
              offer'[p].at >= offer[p].at + 3
<1> SUFFICES ASSUME stage[p] = "listed"
             PROVE  /\ stage'[p] = "sold" =>
                         \/ gross'[p] >= FloorPrice(costBasis[skuOf[p]])
                         \/ gross'[p] = p.value /\ p.value < FloorPrice(p.price)
                    /\ price'[p] > price[p] =>
                         p.value < FloorPrice(p.price) /\ price'[p] = FloorPrice(p.price)
                    /\ offer[p] # NoOffer /\ offer'[p] # offer[p] =>
                         offer'[p].at >= offer[p].at + 3
  OBVIOUS
<1>1. price[p] \in Nat /\ p.value \in Nat /\ UnitTypeOK
  BY GoodsAssumption DEF BooksInv, UnitsInv, UnitTypeOK
<1>2. CASE UNCHANGED goodsVars
  BY <1>1, <1>2 DEF goodsVars, flowVars, listingVars
<1>3. ASSUME UNCHANGED <<price, offer>>, NEW g \in Prices(p), gross'[p] = g
      PROVE  /\ \/ gross'[p] >= FloorPrice(costBasis[skuOf[p]])
                \/ gross'[p] = p.value /\ p.value < FloorPrice(p.price)
             /\ ~(price'[p] > price[p]) /\ offer'[p] = offer[p]
  BY <1>1, <1>3, PricesCover
<1>4. ASSUME NEW watchers \in {0, 2}, Reprice(p, watchers)
      PROVE  /\ stage'[p] # "sold"
             /\ price'[p] > price[p] =>
                  p.value < FloorPrice(p.price) /\ price'[p] = FloorPrice(p.price)
             /\ offer[p] # NoOffer /\ offer'[p] # offer[p] =>
                  offer'[p].at >= offer[p].at + 3
  <2>1. /\ stage' = stage /\ price' = [price EXCEPT ![p] = NewPrice(p)]
        /\ offer' = IF Eligible(p, watchers)
                    THEN [offer EXCEPT ![p] = [at |-> age[p], price |-> OfferPrice(p)]]
                    ELSE offer
    BY <1>4 DEF Reprice
  <2>2. stage'[p] # "sold" /\ price'[p] = NewPrice(p)
    BY <1>1, <2>1 DEF UnitTypeOK
  <2>3. PICK new \in Nat, floor \in Nat : /\ new = NewPrice(p) /\ floor = FloorPrice(p.price)
                                          /\ new >= floor
                                          /\ new = floor \/ new <= price[p]
    BY <1>1, NewPriceIs
  <2>4. price[p] = p.value \/ price[p] >= floor
    BY <2>3 DEF BooksInv, UnitsInv, Priced
  <2>5. price'[p] > price[p] =>
          p.value < FloorPrice(p.price) /\ price'[p] = FloorPrice(p.price)
    BY <1>1, <2>2, <2>3, <2>4
  <2>6. ASSUME offer[p] # NoOffer, offer'[p] # offer[p]
        PROVE  offer'[p].at >= offer[p].at + 3
    <3>1. Eligible(p, watchers)
      BY <2>1, <2>6
    <3>2. age[p] - offer[p].at >= 3
      BY <2>6, <3>1 DEF Eligible
    <3>3. offer'[p].at = age[p]
      BY <1>1, <2>1, <3>1 DEF UnitTypeOK
    <3>4. age[p] \in Nat /\ offer[p].at \in Nat
      BY <1>1, <2>6 DEF UnitTypeOK
    <3> QED
      BY <3>2, <3>3, <3>4
  <2> QED
    BY <2>2, <2>5, <2>6
<1>5. ASSUME price'[p] = price[p], offer'[p] = offer[p], stage'[p] = "listed"
      PROVE  stage'[p] # "sold" /\ ~(price'[p] > price[p])
  BY <1>1, <1>5
<1>6. CASE GoodsNext
  BY <1>1, <1>3, <1>4, <1>5, <1>6, ListedSteps
<1> QED
  BY <1>2, <1>6

\* MarginIsProtected for every load and every interleaving: no unit is sold for
\* less than its basis and the least margin, restocked or not, by the ladder or
\* by an offer, unless it was appraised below its floor and never repriced; only
\* such a unit's price is raised; and offers are three days apart
\* (pricer.ts:5-6, 66-102).
THEOREM MarginKept ==
  ASSUME CheaperByHand
  PROVE  GoodsSpec => MarginIsProtected
<1>1. BooksInv /\ BasisKept /\ BooksInv' /\ [GoodsNext]_goodsVars => BasisKept'
  BY BasisStep
<1>2. BooksInv /\ BasisKept /\ [GoodsNext]_goodsVars
      => [\A p \in Parcel :
           /\ stage'[p] = "sold" /\ stage[p] = "listed" =>
                \/ gross'[p] >= FloorPrice(costBasis[skuOf[p]])
                \/ gross'[p] = p.value /\ p.value < FloorPrice(p.price)
           /\ stage[p] = "listed" /\ price'[p] > price[p] =>
                p.value < FloorPrice(p.price) /\ price'[p] = FloorPrice(p.price)
           /\ stage[p] = "listed" /\ offer[p] # NoOffer /\ offer'[p] # offer[p] =>
                offer'[p].at >= offer[p].at + 3]_goodsVars
  BY MarginStep
<1> QED
  BY BasisBegins, GoodsInductive, <1>1, <1>2, PTL DEF GoodsSpec, MarginIsProtected

-------------------------------------------------------------------------------
(***************************************************************************)
(* The money.  While nothing went astray, the till and the cash account    *)
(* differ by what is on its way from one to the other: the price of a unit *)
(* being screened, and the proceeds of a sale until it is booked.          *)
(***************************************************************************)
DebitOf(s, g) == [p \in Parcel |-> IF s[p] = "screening" THEN p.price
                                   ELSE IF s[p] = "sold" THEN Charge(g[p])
                                   ELSE IF s[p] = "shipped" THEN Charge(g[p]) + LabelCost
                                   ELSE 0]

CreditOf(s, g) == [p \in Parcel |-> IF s[p] \in {"sold", "shipped"} THEN g[p] + p.tax ELSE 0]

Debit == DebitOf(stage, gross)
Credit == CreditOf(stage, gross)

Even(debit, credit, ahead) == /\ IsFiniteSet(Heap(Parcel, debit))
                              /\ IsFiniteSet(Heap(Parcel, credit))
                              /\ ahead + Sum(Parcel, debit) = Sum(Parcel, credit)

Settled == odd = {} => Even(Debit, Credit, till - balance["cash"])

\* A label awaited is of a sale that has none; what is shipped has its label.
Shipping == /\ \A p \in Parcel : stage[p] = "shipped" => shipment[p]
            /\ odd = {} => \A p \in Parcel : calls[p] > 0 => calls[p] = 1 /\ stage[p] = "sold"

MoneyInv == Shipping /\ Settled

LEMMA OnItsWay ==
  ASSUME NEW s, NEW g \in [Parcel -> Nat]
  PROVE  DebitOf(s, g) \in [Parcel -> Nat] /\ CreditOf(s, g) \in [Parcel -> Nat]
<1>1. ASSUME NEW p \in Parcel
      PROVE  /\ p.price \in Nat /\ Charge(g[p]) \in Nat
             /\ Charge(g[p]) + LabelCost \in Nat /\ g[p] + p.tax \in Nat
  <2>1. Charge(g[p]) \in Nat
    BY ChargeIsNat
  <2> QED
    BY <2>1, GoodsAssumption
<1> QED
  BY <1>1 DEF DebitOf, CreditOf

\* A step of one unit keeps the balance when it moves what is on its way by as
\* much as it moves the till ahead of the cash.
LEMMA SettledStep ==
  ASSUME BooksInv, BooksInv', Settled, NEW p \in Parcel, odd' = {} => odd = {},
         \A q \in Parcel \ {p} : stage'[q] = stage[q] /\ gross'[q] = gross[q],
         odd' = {} => ((till' - balance'["cash"]) - (till - balance["cash"]))
                        + (Debit'[p] - Debit[p]) = Credit'[p] - Credit[p]
  PROVE  Settled'
<1> SUFFICES ASSUME odd' = {}
             PROVE  Even(Debit', Credit', till' - balance'["cash"])
  BY DEF Settled
<1>1. /\ Debit \in [Parcel -> Nat] /\ Credit \in [Parcel -> Nat]
      /\ Debit' \in [Parcel -> Nat] /\ Credit' \in [Parcel -> Nat]
  <2>1. gross \in [Parcel -> Nat] /\ gross' \in [Parcel -> Nat]
    BY DEF BooksInv, UnitsInv, UnitTypeOK
  <2> QED
    BY <2>1, OnItsWay DEF Debit, Credit
<1>2. /\ balance["cash"] \in Int /\ balance'["cash"] \in Int /\ till \in Int /\ till' \in Int
  BY Accounts DEF BooksInv, UnitsInv, UnitTypeOK, IInv, TypeOK
<1>3. \A q \in Parcel \ {p} : Debit'[q] = Debit[q] /\ Credit'[q] = Credit[q]
  BY DEF Debit, Credit, DebitOf, CreditOf
<1>4. Even(Debit, Credit, till - balance["cash"])
  BY DEF Settled
<1>5. till - balance["cash"] \in Int /\ till' - balance'["cash"] \in Int
  BY <1>2
<1>6. ASSUME NEW d, d = Debit, NEW c, c = Credit, NEW e, e = Debit', NEW b, b = Credit',
             NEW x, x = till - balance["cash"], NEW y, y = till' - balance'["cash"]
      PROVE  Even(e, b, y)
  <2>1. /\ d \in [Parcel -> Nat] /\ c \in [Parcel -> Nat]
        /\ e \in [Parcel -> Nat] /\ b \in [Parcel -> Nat]
    BY <1>1, <1>6
  <2>2. x \in Int /\ y \in Int
    BY <1>5, <1>6
  <2>3. /\ IsFiniteSet(Heap(Parcel, d)) /\ IsFiniteSet(Heap(Parcel, c))
        /\ x + Sum(Parcel, d) = Sum(Parcel, c)
    BY <1>4, <1>6 DEF Even
  <2>4. \A q \in Parcel \ {p} : e[q] = d[q]
    BY <1>3, <1>6
  <2>5. \A q \in Parcel \ {p} : b[q] = c[q]
    BY <1>3, <1>6
  <2>6. /\ IsFiniteSet(Heap(Parcel, e)) /\ Sum(Parcel, d) \in Nat /\ Sum(Parcel, e) \in Nat
        /\ Sum(Parcel, e) + d[p] = Sum(Parcel, d) + e[p]
    BY <2>1, <2>3, <2>4, SumChanges
  <2>7. /\ IsFiniteSet(Heap(Parcel, b)) /\ Sum(Parcel, c) \in Nat /\ Sum(Parcel, b) \in Nat
        /\ Sum(Parcel, b) + c[p] = Sum(Parcel, c) + b[p]
    BY <2>1, <2>3, <2>5, SumChanges
  <2>8. (y - x) + (e[p] - d[p]) = b[p] - c[p]
    BY <1>6
  <2>9. d[p] \in Nat /\ e[p] \in Nat /\ c[p] \in Nat /\ b[p] \in Nat
    BY <2>1
  <2>10. y + Sum(Parcel, e) = Sum(Parcel, b)
    BY <2>2, <2>3, <2>6, <2>7, <2>8, <2>9
  <2> QED
    BY <2>6, <2>7, <2>10 DEF Even
<1> QED
  BY <1>6

\* What a posting does to the cash.
LEMMA PostMovesCash ==
  ASSUME IInv, NEW T, Post(T)
  PROVE  balance'["cash"] = balance["cash"] + T["cash"]
BY Accounts DEF Post

LEMMA CashOfPurchase ==
  ASSUME IInv, NEW s, NEW p \in Parcel, RecordPurchase(s, PurchaseOf(p))
  PROVE  balance'["cash"] = balance["cash"] - p.price
<1>1. p.price \in Nat
  BY GoodsAssumption
<1>2. PurchaseLegs(PurchaseOf(p))["cash"] = -p.price
  BY <1>1, Accounts DEF PurchaseLegs, PurchaseOf, Basis
<1>3. balance'["cash"] = balance["cash"] + PurchaseLegs(PurchaseOf(p))["cash"]
  BY PostMovesCash DEF RecordPurchase
<1> QED
  BY <1>1, <1>2, <1>3, Accounts DEF IInv, TypeOK

LEMMA CashOfSale ==
  ASSUME BooksInv, NEW p \in Parcel, NEW s \in Sku, RecordSale(s, SaleOf(p))
  PROVE  balance'["cash"] = balance["cash"] + gross[p] + p.tax - Charge(gross[p]) - LabelCost
<1>1. gross[p] \in Nat /\ p.tax \in Nat /\ LabelCost \in Nat /\ balance["cash"] \in Int
  BY GoodsAssumption, Accounts DEF BooksInv, UnitsInv, UnitTypeOK, IInv, TypeOK
<1>2. MulBp(gross[p], 1360) \in Nat /\ MulBp(gross[p], 300) \in Nat
  BY <1>1, ChargeIsNat
<1>3. SaleOf(p) \in SaleInput
  BY InputsAreInputs DEF BooksInv
<1>4. costBasis[s] \in Nat
  BY DEF BooksInv, IInv, TypeOK, RecordSale, SaleIsLegal
<1>5. Post(SaleLegs(SaleOf(p), costBasis[s]))
  BY <1>3, <1>4, SalesBalance DEF RecordSale
<1>6. balance'["cash"] = balance["cash"] + SaleLegs(SaleOf(p), costBasis[s])["cash"]
  BY <1>5, PostMovesCash DEF BooksInv
<1>7. SaleLegs(SaleOf(p), costBasis[s])["cash"]
        = gross[p] - (MulBp(gross[p], 1360) + 30) - MulBp(gross[p], 300) - LabelCost + 0 + p.tax
  BY Accounts DEF SaleLegs, SaleOf
<1> QED
  BY <1>1, <1>2, <1>6, <1>7 DEF Charge

LEMMA CashOfReturn ==
  ASSUME IInv, NEW s, NEW g \in Nat, NEW worth,
         RecordReturn(s, [refund |-> g, restock |-> worth])
  PROVE  balance'["cash"] = balance["cash"] - g
<1> DEFINE legs == ReturnLegs([refund |-> g, restock |-> worth], costBasis[s])
<1>1. legs["cash"] = -g
  BY Accounts DEF ReturnLegs
<1>2. balance'["cash"] = balance["cash"] + legs["cash"]
  BY PostMovesCash DEF RecordReturn
<1> QED
  BY <1>1, <1>2, Accounts DEF IInv, TypeOK

\* A step that moves no unit between the stages of a sale, and no money.
LEMMA NothingOnItsWay ==
  ASSUME BooksInv, BooksInv', Settled, odd' = {} => odd = {}, gross' = gross, till' = till,
         UNCHANGED vars, NEW p \in Parcel, NEW s,
         stage' = [stage EXCEPT ![p] = s],
         stage[p] \notin {"screening", "sold", "shipped"} \/ s = stage[p],
         s \notin {"screening", "sold", "shipped"} \/ s = stage[p]
  PROVE  Settled'
<1>1. /\ \A q \in Parcel \ {p} : stage'[q] = stage[q] /\ gross'[q] = gross[q]
      /\ stage'[p] = s
  BY DEF BooksInv, UnitsInv, UnitTypeOK
<1>2. balance' = balance
  BY DEF vars, bookVars
<1>3. Debit'[p] = Debit[p] /\ Credit'[p] = Credit[p]
  BY <1>1 DEF Debit, Credit, DebitOf, CreditOf
<1>4. balance["cash"] \in Int /\ till \in Int
  BY Accounts DEF BooksInv, UnitsInv, UnitTypeOK, IInv, TypeOK
<1>5. Debit[p] \in Nat /\ Credit[p] \in Nat
  BY OnItsWay DEF BooksInv, UnitsInv, UnitTypeOK, Debit, Credit
<1>6. ((till' - balance'["cash"]) - (till - balance["cash"])) + (Debit'[p] - Debit[p])
        = Credit'[p] - Credit[p]
  BY <1>2, <1>3, <1>4, <1>5
<1> QED
  BY <1>1, <1>6, SettledStep

LEMMA ReceptionSettles ==
  ASSUME BooksInv, BooksInv', MoneyInv, NEW p \in Parcel, Receive(p) \/ Screened(p)
  PROVE  MoneyInv'
<1>1. /\ UNCHANGED <<gross, calls, shipment, odd>>
      /\ stage[p] \in {"bought", "screening"}
      /\ till' = IF stage[p] = "bought" THEN till - p.price ELSE till
  BY DEF Receive, Screened, opsVars
<1>2. PICK s : /\ stage' = [stage EXCEPT ![p] = s]
               /\ \/ Shelve(p) /\ s \in {"blocked", "testing", "photographed"}
                  \/ s = "screening" /\ stage[p] = "bought" /\ UNCHANGED vars
  BY DEF Receive, Screened, Shelve, Move, Status
<1>3. /\ \A q \in Parcel \ {p} : stage'[q] = stage[q] /\ gross'[q] = gross[q]
      /\ stage'[p] = s
  BY <1>1, <1>2 DEF BooksInv, UnitsInv, UnitTypeOK
<1>4. balance["cash"] \in Int /\ till \in Int /\ p.price \in Nat
  BY GoodsAssumption, Accounts DEF BooksInv, UnitsInv, UnitTypeOK, IInv, TypeOK
<1>5. balance'["cash"] = IF s = "screening" THEN balance["cash"] ELSE balance["cash"] - p.price
  BY <1>2, CashOfPurchase DEF Shelve, PurchaseOf, BooksInv, vars, bookVars
<1>6. /\ Debit[p] = IF stage[p] = "screening" THEN p.price ELSE 0
      /\ Debit'[p] = IF s = "screening" THEN p.price ELSE 0
      /\ Credit[p] = 0 /\ Credit'[p] = 0
  BY <1>1, <1>2, <1>3 DEF Debit, Credit, DebitOf, CreditOf
<1>7. ((till' - balance'["cash"]) - (till - balance["cash"])) + (Debit'[p] - Debit[p])
        = Credit'[p] - Credit[p]
  BY <1>1, <1>2, <1>4, <1>5, <1>6
<1>8. Settled'
  BY <1>1, <1>3, <1>7, SettledStep DEF MoneyInv
<1>9. Shipping'
  BY <1>1, <1>2, <1>3 DEF MoneyInv, Shipping, UnitTypeOK, BooksInv, UnitsInv
<1> QED
  BY <1>8, <1>9 DEF MoneyInv

LEMMA ListingSettles ==
  ASSUME BooksInv, BooksInv', MoneyInv, NEW p \in Parcel,
         List(p) \/ Wait(p) \/ \E watchers \in {0, 2} : Reprice(p, watchers)
  PROVE  MoneyInv'
<1>1. UNCHANGED <<gross, calls, shipment, odd, till, vars>>
  BY DEF List, Wait, Reprice, opsVars
<1>2. /\ stage[p] \in {"photographed", "listed"}
      /\ stage' = [stage EXCEPT ![p] = "listed"]
  BY DEF List, Wait, Reprice, Move, BooksInv, UnitsInv, UnitTypeOK
<1>3. Settled'
  BY <1>1, <1>2, NothingOnItsWay DEF MoneyInv
<1>4. Shipping'
  BY <1>1, <1>2 DEF MoneyInv, Shipping, BooksInv, UnitsInv, UnitTypeOK
<1> QED
  BY <1>3, <1>4 DEF MoneyInv

LEMMA SellSettles ==
  ASSUME BooksInv, BooksInv', MoneyInv, NEW p \in Parcel, Sell(p)
  PROVE  MoneyInv'
<1>1. PICK g \in Prices(p) :
        /\ gross' = [gross EXCEPT ![p] = g]
        /\ till' = till + g - MulBp(g, 1360) - 30 - MulBp(g, 300) + p.tax
  BY DEF Sell
<1>2. /\ stage[p] = "listed" /\ stage' = [stage EXCEPT ![p] = "sold"]
      /\ UNCHANGED <<calls, shipment, odd, vars>>
  BY DEF Sell, Move, opsVars
<1>3. g \in Nat /\ p.tax \in Nat /\ balance["cash"] \in Int /\ till \in Int
  <2>1. g \in Nat
    BY <1>1 DEF Prices, BooksInv, UnitsInv, UnitTypeOK
  <2> QED
    BY <2>1, GoodsAssumption, Accounts DEF BooksInv, UnitsInv, UnitTypeOK, IInv, TypeOK
<1>4. MulBp(g, 1360) \in Nat /\ MulBp(g, 300) \in Nat
  BY <1>3, ChargeIsNat
<1>5. /\ \A q \in Parcel \ {p} : stage'[q] = stage[q] /\ gross'[q] = gross[q]
      /\ stage'[p] = "sold" /\ gross'[p] = g
  BY <1>1, <1>2 DEF BooksInv, UnitsInv, UnitTypeOK
<1>6. /\ Debit[p] = 0 /\ Debit'[p] = Charge(g)
      /\ Credit[p] = 0 /\ Credit'[p] = g + p.tax
  BY <1>2, <1>5 DEF Debit, Credit, DebitOf, CreditOf
<1>7. till' = till + g + p.tax - Charge(g) /\ Charge(g) \in Nat
  BY <1>1, <1>3, <1>4 DEF Charge
<1>8. balance'["cash"] = balance["cash"]
  BY <1>2 DEF vars, bookVars
<1>9. ((till' - balance'["cash"]) - (till - balance["cash"])) + (Debit'[p] - Debit[p])
        = Credit'[p] - Credit[p]
  BY <1>3, <1>6, <1>7, <1>8
<1>10. Settled'
  BY <1>2, <1>5, <1>9, SettledStep DEF MoneyInv
<1>11. Shipping'
  BY <1>2, <1>5 DEF MoneyInv, Shipping, BooksInv, UnitsInv, UnitTypeOK
<1> QED
  BY <1>10, <1>11 DEF MoneyInv

LEMMA FulfillSettles ==
  ASSUME BooksInv, BooksInv', MoneyInv, NEW p \in Parcel, Fulfill(p)
  PROVE  MoneyInv'
<1>1. UNCHANGED <<gross, shipment, till, vars>> /\ stage[p] \in {"sold", "shipped"}
  BY DEF Fulfill
<1>2. odd' = {} => odd = {}
  BY DEF Fulfill
<1>3. CASE shipment[p]
  <2>1. /\ stage' = [stage EXCEPT ![p] = "shipped"] /\ calls' = calls
        /\ odd' = {} => stage[p] = "shipped"
    BY <1>1, <1>3 DEF Fulfill, Move
  <2>2. CASE stage[p] = "shipped"
    <3>1. Settled'
      BY <1>1, <1>2, <2>1, <2>2, NothingOnItsWay DEF MoneyInv
    <3>2. stage' = stage
      BY <2>1, <2>2 DEF BooksInv, UnitsInv, UnitTypeOK
    <3>3. Shipping'
      BY <1>1, <1>2, <2>1, <3>2 DEF MoneyInv, Shipping
    <3> QED
      BY <3>1, <3>3 DEF MoneyInv
  <2>3. CASE stage[p] = "sold"
    <3>1. odd' # {} /\ stage'[p] = "shipped" /\ \A q \in Parcel \ {p} : stage'[q] = stage[q]
      BY <2>1, <2>3 DEF BooksInv, UnitsInv, UnitTypeOK
    <3>2. Shipping'
      BY <1>1, <1>3, <3>1 DEF MoneyInv, Shipping
    <3> QED
      BY <3>1, <3>2 DEF MoneyInv, Settled
  <2> QED
    BY <1>1, <2>2, <2>3
<1>4. CASE ~shipment[p]
  <2>1. /\ calls' = [calls EXCEPT ![p] = @ + 1] /\ stage' = stage
        /\ odd' = IF calls[p] > 0 THEN odd \cup {p} ELSE odd
    BY <1>4 DEF Fulfill
  <2>2. stage[p] = "sold"
    BY <1>1, <1>4 DEF MoneyInv, Shipping
  <2>3. Shipping'
    <3>1. calls \in [Parcel -> Nat] /\ (odd' = {} => ~(calls[p] > 0))
      BY <2>1 DEF BooksInv, UnitsInv, UnitTypeOK
    <3>2. odd' = {} => calls'[p] = 1
      BY <2>1, <3>1
    <3>3. \A q \in Parcel \ {p} : calls'[q] = calls[q]
      BY <2>1, <3>1
    <3> QED
      BY <1>1, <1>2, <2>1, <2>2, <3>2, <3>3 DEF MoneyInv, Shipping
  <2>4. stage' = [stage EXCEPT ![p] = stage[p]]
    BY <2>1 DEF BooksInv, UnitsInv, UnitTypeOK
  <2>5. Settled'
    BY <1>1, <1>2, <2>4, NothingOnItsWay DEF MoneyInv
  <2> QED
    BY <2>3, <2>5 DEF MoneyInv
<1> QED
  BY <1>3, <1>4

LEMMA LabelSettles ==
  ASSUME BooksInv, BooksInv', MoneyInv, NEW p \in Parcel, Labelled(p) \/ LabelFails(p)
  PROVE  MoneyInv'
<1>1. UNCHANGED <<gross, odd, vars>> /\ calls[p] > 0 /\ calls' = [calls EXCEPT ![p] = @ - 1]
  BY DEF Labelled, LabelFails
<1>2. odd = {} => stage[p] = "sold" /\ calls[p] = 1
  BY <1>1 DEF MoneyInv, Shipping
<1>3. CASE LabelFails(p)
  <2>1. UNCHANGED <<stage, shipment, till>>
    BY <1>3 DEF LabelFails
  <2>2. stage' = [stage EXCEPT ![p] = stage[p]]
    BY <2>1 DEF BooksInv, UnitsInv, UnitTypeOK
  <2>3. Settled'
    BY <1>1, <2>1, <2>2, NothingOnItsWay DEF MoneyInv
  <2>4. Shipping'
    BY <1>1, <1>2, <2>1 DEF MoneyInv, Shipping, BooksInv, UnitsInv, UnitTypeOK
  <2> QED
    BY <2>3, <2>4 DEF MoneyInv
<1>4. CASE Labelled(p)
  <2>1. /\ shipment' = [shipment EXCEPT ![p] = TRUE] /\ till' = till - LabelCost
        /\ stage' = [stage EXCEPT ![p] = IF stage[p] = "sold" THEN "shipped" ELSE stage[p]]
    BY <1>4 DEF Labelled, Move
  <2>2. /\ \A q \in Parcel \ {p} : stage'[q] = stage[q] /\ gross'[q] = gross[q]
        /\ \A q \in Parcel \ {p} : shipment'[q] = shipment[q] /\ calls'[q] = calls[q]
        /\ stage'[p] = IF stage[p] = "sold" THEN "shipped" ELSE stage[p]
        /\ shipment'[p] = TRUE /\ gross'[p] = gross[p]
    BY <1>1, <2>1 DEF BooksInv, UnitsInv, UnitTypeOK
  <2>3. odd = {} => calls'[p] = 0
    BY <1>1, <1>2 DEF BooksInv, UnitsInv, UnitTypeOK
  <2>4. Shipping'
    BY <1>1, <2>2, <2>3 DEF MoneyInv, Shipping, BooksInv, UnitsInv, UnitTypeOK
  <2>5. ASSUME odd' = {}
        PROVE  ((till' - balance'["cash"]) - (till - balance["cash"])) + (Debit'[p] - Debit[p])
                 = Credit'[p] - Credit[p]
    <3>1. stage[p] = "sold" /\ stage'[p] = "shipped"
      BY <1>1, <1>2, <2>2, <2>5
    <3>2. /\ Debit[p] = Charge(gross[p]) /\ Debit'[p] = Charge(gross[p]) + LabelCost
          /\ Credit'[p] = Credit[p]
      BY <2>2, <3>1 DEF Debit, Credit, DebitOf, CreditOf
    <3>3. /\ LabelCost \in Nat /\ till \in Int /\ balance["cash"] \in Int /\ gross[p] \in Nat
          /\ balance'["cash"] = balance["cash"]
      BY <1>1, GoodsAssumption, Accounts
      DEF BooksInv, UnitsInv, UnitTypeOK, IInv, TypeOK, vars, bookVars
    <3>4. Charge(gross[p]) \in Nat
      BY <3>3, ChargeIsNat
    <3>5. Credit[p] \in Nat
      BY OnItsWay DEF BooksInv, UnitsInv, UnitTypeOK, Credit
    <3> QED
      BY <2>1, <3>2, <3>3, <3>4, <3>5
  <2>6. Settled'
    BY <1>1, <2>2, <2>5, SettledStep DEF MoneyInv
  <2> QED
    BY <2>4, <2>6 DEF MoneyInv
<1> QED
  BY <1>3, <1>4

LEMMA BookSaleSettles ==
  ASSUME BooksInv, BooksInv', MoneyInv, NEW p \in Parcel, BookSale(p)
  PROVE  MoneyInv'
<1>1. /\ UNCHANGED <<gross, shipment, calls, till>>
      /\ stage[p] = "shipped" /\ stage' = [stage EXCEPT ![p] = "settled"]
      /\ \/ odd' = odd \cup {p}
         \/ odd' = odd /\ RecordSale(skuOf[p], SaleOf(p))
  BY DEF BookSale, Move, opsVars
<1>2. /\ \A q \in Parcel \ {p} : stage'[q] = stage[q] /\ gross'[q] = gross[q]
      /\ stage'[p] = "settled" /\ (odd' = {} => odd = {})
  BY <1>1 DEF BooksInv, UnitsInv, UnitTypeOK
<1>3. Shipping'
  BY <1>1, <1>2 DEF MoneyInv, Shipping
<1>4. ASSUME odd' = {}
      PROVE  ((till' - balance'["cash"]) - (till - balance["cash"])) + (Debit'[p] - Debit[p])
               = Credit'[p] - Credit[p]
  <2>1. skuOf[p] \in Sku
    BY <1>1, SkuIs DEF BooksInv, Received
  <2>2. balance'["cash"]
          = balance["cash"] + gross[p] + p.tax - Charge(gross[p]) - LabelCost
    BY <1>1, <1>4, <2>1, CashOfSale
  <2>3. /\ Debit[p] = Charge(gross[p]) + LabelCost /\ Debit'[p] = 0
        /\ Credit[p] = gross[p] + p.tax /\ Credit'[p] = 0
    BY <1>1, <1>2 DEF Debit, Credit, DebitOf, CreditOf
  <2>4. /\ LabelCost \in Nat /\ p.tax \in Nat /\ till \in Int /\ balance["cash"] \in Int
        /\ gross[p] \in Nat
    BY GoodsAssumption, Accounts DEF BooksInv, UnitsInv, UnitTypeOK, IInv, TypeOK
  <2>5. Charge(gross[p]) \in Nat
    BY <2>4, ChargeIsNat
  <2> QED
    BY <1>1, <2>2, <2>3, <2>4, <2>5
<1>5. Settled'
  BY <1>2, <1>4, SettledStep DEF MoneyInv
<1> QED
  BY <1>3, <1>5 DEF MoneyInv

LEMMA TakeBackSettles ==
  ASSUME BooksInv, BooksInv', MoneyInv, NEW p \in Parcel, NEW restockable \in BOOLEAN,
         TakeBack(p, restockable)
  PROVE  MoneyInv'
<1>1. /\ UNCHANGED <<gross, shipment, calls, odd>> /\ till' = till - gross[p]
      /\ stage[p] = "settled"
      /\ stage' = [stage EXCEPT ![p] = IF restockable THEN "photographed" ELSE "scrapped"]
  BY DEF TakeBack, Move, opsVars
<1>2. /\ \A q \in Parcel \ {p} : stage'[q] = stage[q] /\ gross'[q] = gross[q]
      /\ stage'[p] \in {"photographed", "scrapped"}
  BY <1>1 DEF BooksInv, UnitsInv, UnitTypeOK
<1>3. Shipping'
  BY <1>1, <1>2 DEF MoneyInv, Shipping
<1>4. gross[p] \in Nat /\ till \in Int /\ balance["cash"] \in Int
  BY Accounts DEF BooksInv, UnitsInv, UnitTypeOK, IInv, TypeOK
<1>5. balance'["cash"] = balance["cash"] - gross[p]
  BY <1>4, CashOfReturn DEF TakeBack, BooksInv
<1>6. Debit[p] = 0 /\ Debit'[p] = 0 /\ Credit[p] = 0 /\ Credit'[p] = 0
  BY <1>1, <1>2 DEF Debit, Credit, DebitOf, CreditOf
<1>7. ((till' - balance'["cash"]) - (till - balance["cash"])) + (Debit'[p] - Debit[p])
        = Credit'[p] - Credit[p]
  BY <1>1, <1>4, <1>5, <1>6
<1>8. Settled'
  BY <1>1, <1>2, <1>7, SettledStep DEF MoneyInv
<1> QED
  BY <1>3, <1>8 DEF MoneyInv

LEMMA MoneyBegins ==
  ASSUME GoodsInit
  PROVE  MoneyInv
<1>1. /\ stage = [p \in Parcel |-> "bought"] /\ calls = [p \in Parcel |-> 0]
      /\ till = 0 /\ balance["cash"] = 0
  BY Accounts DEF GoodsInit, Init
<1>2. Shipping
  BY <1>1 DEF Shipping
<1>3. (\A p \in Parcel : Debit[p] = 0) /\ (\A p \in Parcel : Credit[p] = 0)
  BY <1>1 DEF Debit, Credit, DebitOf, CreditOf
<1>4. IsFiniteSet(Heap(Parcel, Debit)) /\ Sum(Parcel, Debit) = 0
  BY <1>3, NothingSums
<1>5. IsFiniteSet(Heap(Parcel, Credit)) /\ Sum(Parcel, Credit) = 0
  BY <1>3, NothingSums
<1>6. Settled
  BY <1>1, <1>4, <1>5 DEF Settled, Even
<1> QED
  BY <1>2, <1>6 DEF MoneyInv

LEMMA MoneyStep ==
  ASSUME BooksInv, BooksInv', MoneyInv, [GoodsNext]_goodsVars
  PROVE  MoneyInv'
<1>1. ASSUME UNCHANGED <<stage, gross, shipment, calls, odd>>,
             till' - balance'["cash"] = till - balance["cash"]
      PROVE  MoneyInv'
  <2>1. Debit' = Debit /\ Credit' = Credit
    BY <1>1 DEF Debit, Credit
  <2>2. Shipping'
    BY <1>1 DEF MoneyInv, Shipping
  <2>3. Settled'
    BY <1>1, <2>1 DEF MoneyInv, Settled
  <2> QED
    BY <2>2, <2>3 DEF MoneyInv
<1>2. CASE UNCHANGED goodsVars
  BY <1>1, <1>2 DEF goodsVars, flowVars, opsVars, vars, bookVars
<1>3. CASE ByHand
  <2>1. /\ till' = till + balance'["cash"] - balance["cash"]
        /\ UNCHANGED <<stage, gross, shipment, calls, odd>>
    BY <1>3 DEF ByHand, opsVars
  <2>2. till \in Int /\ balance["cash"] \in Int /\ balance'["cash"] \in Int
    BY Accounts DEF BooksInv, UnitsInv, UnitTypeOK, IInv, TypeOK
  <2> QED
    BY <1>1, <2>1, <2>2
<1>4. ASSUME NEW p \in Parcel,
             \/ Receive(p) \/ Screened(p) \/ List(p) \/ Wait(p) \/ Sell(p)
             \/ \E watchers \in {0, 2} : Reprice(p, watchers)
      PROVE  MoneyInv'
  BY <1>4, ReceptionSettles, ListingSettles, SellSettles
<1>5. ASSUME NEW p \in Parcel,
             \/ Fulfill(p) \/ Labelled(p) \/ LabelFails(p) \/ BookSale(p)
             \/ \E restockable \in BOOLEAN : TakeBack(p, restockable)
      PROVE  MoneyInv'
  BY <1>5, FulfillSettles, LabelSettles, BookSaleSettles, TakeBackSettles
<1> QED
  BY <1>2, <1>3, <1>4, <1>5 DEF GoodsNext

\* BooksMatchTheTill for every load: once every sale is booked, the cash in the
\* books is the money that moved, unless fulfilments of a sale overlapped, a
\* unit was sold again under its first label, or it was restocked at nothing
\* (ops.ts:60-76, postings.ts:59).
THEOREM BooksMatch == GoodsSpec => []BooksMatchTheTill
<1>1. BooksInv /\ MoneyInv => BooksMatchTheTill
  <2> SUFFICES ASSUME BooksInv, MoneyInv, odd = {},
                      \A p \in Parcel : stage[p] \notin {"screening", "sold", "shipped"}
               PROVE  till = balance["cash"]
    BY DEF BooksMatchTheTill
  <2>1. (\A p \in Parcel : Debit[p] = 0) /\ (\A p \in Parcel : Credit[p] = 0)
    BY DEF Debit, Credit, DebitOf, CreditOf
  <2>2. Sum(Parcel, Debit) = 0
    BY <2>1, NothingSums
  <2>3. Sum(Parcel, Credit) = 0
    BY <2>1, NothingSums
  <2>4. till \in Int /\ balance["cash"] \in Int
    BY Accounts DEF BooksInv, UnitsInv, UnitTypeOK, IInv, TypeOK
  <2>5. PICK t \in Int, cash \in Int : t = till /\ cash = balance["cash"]
    BY <2>4
  <2>6. (t - cash) + Sum(Parcel, Debit) = Sum(Parcel, Credit)
    BY <2>5 DEF MoneyInv, Settled, Even
  <2>7. (t - cash) + 0 = 0
    BY <2>2, <2>3, <2>6
  <2>8. t = cash
    BY <2>7
  <2> QED
    BY <2>5, <2>8
<1>2. BooksInv /\ BooksInv' /\ MoneyInv /\ [GoodsNext]_goodsVars => MoneyInv'
  BY MoneyStep
<1> QED
  BY MoneyBegins, GoodsInductive, <1>1, <1>2, PTL DEF GoodsSpec

-------------------------------------------------------------------------------
(***************************************************************************)
(* The verdict of the bench.  One more test that passes is one failure     *)
(* less, if anything, and one check more that was done: no branch of the   *)
(* verdict (intake.ts:60-71) can put the unit lower for it.                *)
(***************************************************************************)
Passing(p, key) == [p EXCEPT !.tests = [k \in DOMAIN p.tests \cup {key} |->
                                          IF k = key THEN TRUE ELSE p.tests[k]]]

LEMMA PassingIs ==
  ASSUME NEW p \in Parcel, NEW key
  PROVE  /\ Passing(p, key).category = p.category
         /\ Failed(Passing(p, key)) = {c \in Failed(p) : c.key # key}
         /\ \A c : Done(p, c) => Done(Passing(p, key), c)
<1> DEFINE tests == [k \in DOMAIN p.tests \cup {key} |->
                       IF k = key THEN TRUE ELSE p.tests[k]]
           better == [p EXCEPT !.tests = tests]
<1>1. better.category = p.category /\ better.tests = tests
  BY GoodsAssumption
<1>2. DOMAIN tests = DOMAIN p.tests \cup {key}
  OBVIOUS
<1>3. \A k \in DOMAIN tests : ~tests[k] <=> k # key /\ ~p.tests[k]
  OBVIOUS
<1>4. better = Passing(p, key)
  BY DEF Passing
<1> HIDE DEF tests, better
<1>5. \A c : Done(better, c) <=> Done(p, c) \/ c.key = key
  BY <1>1, <1>2 DEF Done
<1>6. ASSUME NEW c \in Checklist[p.category]
      PROVE  Done(better, c) /\ ~better.tests[c.key]
             <=> (Done(p, c) /\ ~p.tests[c.key]) /\ c.key # key
  BY <1>1, <1>2, <1>3 DEF Done
<1>7. Failed(better) = {c \in Failed(p) : c.key # key}
  BY <1>1, <1>6 DEF Failed
<1> QED
  BY <1>1, <1>4, <1>5, <1>7

LEMMA GradeIs ==
  ASSUME NEW p
  PROVE  /\ Condition(p) \in {"parts", "fair", "good", "like_new"}
         /\ Condition(p) = "parts" => GradeOf(p) = 1
         /\ Condition(p) = "fair" => GradeOf(p) = 2
         /\ Condition(p) = "good" => GradeOf(p) = 3
         /\ Condition(p) = "like_new" => GradeOf(p) = 4
<1>1. Condition(p) \in {"parts", "fair", "good", "like_new"}
  BY DEF Condition
<1>2. /\ DOMAIN Grades = 1 .. 4
      /\ Grades[1] = "parts" /\ Grades[2] = "fair"
      /\ Grades[3] = "good" /\ Grades[4] = "like_new"
  BY DEF Grades
<1>3. \E i \in 1 .. 4 : Grades[i] = Condition(p)
  BY <1>1, <1>2
<1>4. GradeOf(p) \in 1 .. 4 /\ Grades[GradeOf(p)] = Condition(p)
  BY <1>2, <1>3 DEF GradeOf
<1>5. GradeOf(p) \in {1, 2, 3, 4}
  BY <1>4
<1> QED
  BY <1>1, <1>2, <1>4, <1>5

\* Passing another test never lowers the grade, whatever the checklist and
\* whichever of its checks were done (intake.ts:60-71).
LEMMA PassingNeverLowers ==
  ASSUME NEW p \in Parcel, NEW key
  PROVE  GradeOf(Passing(p, key)) >= GradeOf(p)
<1> DEFINE better == Passing(p, key)
<1>1. /\ Failed(better) \subseteq Failed(p) /\ better.category = p.category
      /\ \A c : Done(p, c) => Done(better, c)
  BY PassingIs
<1> HIDE DEF better
<1>2. Condition(better) = "parts" => Condition(p) = "parts"
  BY <1>1 DEF Condition
<1>3. Condition(better) = "fair" => Condition(p) \in {"parts", "fair"}
  BY <1>1 DEF Condition
<1>4. Condition(better) = "good" => Condition(p) \in {"parts", "fair", "good"}
  BY <1>1 DEF Condition
<1>5. GradeOf(better) >= GradeOf(p)
  BY <1>2, <1>3, <1>4, GradeIs
<1> QED
  BY <1>5 DEF better

\* UnitsAreSound for every load, hints, checklist and interleaving of
\* receptions: a unit for sale has a sku of its own, shares a bin only where one
\* was hinted, is not blacklisted if there is a blacklist, had its required
\* checks, and could not be graded lower by passing one more (intake.ts:54-109).
THEOREM UnitsSound == GoodsSpec => []UnitsAreSound
<1>1. ASSUME BooksInv, NEW p \in Parcel, stage[p] \in {"listed", "sold"}
      PROVE  /\ \A q \in Parcel \ {p} : /\ skuOf[q] # skuOf[p]
                                        /\ bin[q] = bin[p] => {p.hint, q.hint} # {NoBin}
             /\ p.hint # NoBin => bin[p] = p.hint
             /\ load.screens => p.screening # "blacklisted"
             /\ "untested" \notin RiskFlags(p)
  <2>1. p \in Received
    BY <1>1 DEF Received
  <2>2. /\ skuOf[p] \in 1 .. seq /\ seq \in Nat /\ binSeq \in Nat /\ NoBin \notin Int
        /\ bin[p] \in IF p.hint = NoBin THEN 1 .. binSeq ELSE {p.hint}
    BY <1>1, <2>1, GoodsAssumption DEF BooksInv, UnitsInv, UnitTypeOK, Numbered
  <2>3. ASSUME NEW q \in Parcel \ {p}
        PROVE  /\ skuOf[q] # skuOf[p]
               /\ bin[q] = bin[p] => {p.hint, q.hint} # {NoBin}
    <3>1. CASE q \in Received
      <4>1. skuOf[q] # skuOf[p]
        BY <1>1, <2>1, <3>1 DEF BooksInv, UnitsInv, Numbered
      <4>2. p.hint = NoBin /\ q.hint = NoBin => bin[p] # bin[q]
        BY <1>1, <2>1, <3>1 DEF BooksInv, UnitsInv, Numbered
      <4> QED
        BY <4>1, <4>2
    <3>2. CASE q \notin Received
      <4>1. skuOf[q] = 0 /\ bin[q] = NoBin
        BY <1>1, <3>2 DEF BooksInv, UnitsInv, Numbered
      <4> QED
        BY <2>2, <4>1
    <3> QED
      BY <3>1, <3>2
  <2>4. Status(p) = "photographed"
    BY <1>1 DEF BooksInv, UnitsInv, Accepted
  <2>5. ~Blacklisted(p) /\ MissingChecks(p) = {}
    BY <2>4 DEF Status
  <2>6. load.screens => p.screening # "blacklisted"
    BY <2>5, GoodsAssumption DEF Blacklisted, Screens
  <2>7. "untested" \notin RiskFlags(p)
    BY <2>5 DEF RiskFlags
  <2> QED
    BY <2>2, <2>3, <2>6, <2>7
<1>2. BooksInv => UnitsAreSound
  BY <1>1, PassingNeverLowers DEF UnitsAreSound, Passing
<1> QED
  BY <1>2, GoodsInductive, PTL
===============================================================================
