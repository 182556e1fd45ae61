--------------------------- MODULE Purchasing_proofs ---------------------------
(***************************************************************************)
(* How the verdict of the Sentinel moves, for every set of policies and    *)
(* requests, and what a purchase booked on that verdict may do: at the     *)
(* Acquirer alone, and with the negotiator, the graduation engine and the  *)
(* auto-buy envelope around it.                                            *)
(***************************************************************************)
EXTENDS Purchasing, TLAPS

\* Every operation of the Sentinel's owners keeps the types (sentinel.ts:47-69).
LEMMA SentinelTypeStep ==
  ASSUME SentinelTypeOK, [SentinelNext]_sentinelVars
  PROVE  SentinelTypeOK'
<1>1. CASE \E s \in Switch : Trip(s) \/ Reset(s)
  BY <1>1 DEF SentinelTypeOK, Trip, Reset
<1>2. CASE \E p \in Platform : Suspend(p) \/ Reinstate(p)
  BY <1>2 DEF SentinelTypeOK, Suspend, Reinstate
<1>3. CASE \E p \in Policy : EditPolicy(p)
  BY <1>3 DEF SentinelTypeOK, EditPolicy
<1>4. CASE \E a \in 1 .. MaxSpend : Spend(a)
  BY <1>4, SentinelAssumption DEF SentinelTypeOK, Spend
<1>5. CASE NewDay
  BY <1>5, SentinelAssumption DEF SentinelTypeOK, NewDay
<1>6. CASE UNCHANGED sentinelVars
  BY <1>6 DEF SentinelTypeOK, sentinelVars
<1> QED
  BY <1>1, <1>2, <1>3, <1>4, <1>5, <1>6 DEF SentinelNext, OperatorStep

\* Every variable of the Sentinel keeps its type.
THEOREM SentinelTypeCorrect == SentinelSpec => []SentinelTypeOK
<1>1. SentinelInit => SentinelTypeOK
  BY SentinelAssumption DEF SentinelInit, SentinelTypeOK
<1> QED
  BY <1>1, SentinelTypeStep, PTL DEF SentinelSpec

\* The three locked denials do not look at the policy.
LEMMA LockedIgnoresPolicy ==
  ASSUME NEW q \in Request, Verdict(q) \in Locked,
         tripped' = tripped, suspended' = suspended
  PROVE  Verdict(q)' = Verdict(q)
BY DEF Verdict, Locked, Halted, Level

\* No policy edit moves a locked denial (sentinel.ts:8-12).
THEOREM LockedInvariants == SentinelSpec => NoPolicyEditOverrides
<1>1. ASSUME [SentinelNext]_sentinelVars
      PROVE  [\A q \in Request : policy' # policy /\ Verdict(q) \in Locked
                                 => Verdict(q)' = Verdict(q)]_sentinelVars
  <2>1. SUFFICES ASSUME SentinelNext, policy' # policy, NEW q \in Request,
                        Verdict(q) \in Locked
                 PROVE  Verdict(q)' = Verdict(q)
    BY <1>1
  <2>2. tripped' = tripped /\ suspended' = suspended
    BY <2>1 DEF SentinelNext, OperatorStep, Trip, Reset, Suspend, Reinstate, EditPolicy,
                Spend, NewDay
  <2> QED
    BY <2>1, <2>2, LockedIgnoresPolicy
<1> QED
  BY <1>1, PTL DEF SentinelSpec, NoPolicyEditOverrides

\* A request that passed every rule after a tightening passed them before.
LEMMA TighteningKeepsDenials ==
  ASSUME SentinelTypeOK, SentinelTypeOK', NEW q \in Request,
         tripped \subseteq tripped', suspended \subseteq suspended',
         policy' = policy, spent <= spent'
  PROVE  Rank(Verdict(q))' <= Rank(Verdict(q))
<1>1. CASE Verdict(q)' \in {"allow", "gate"}
  <2>1. ~Halted(q) /\ q.scope \cap suspended = {}
    BY <1>1 DEF Verdict, Halted
  <2>2. Level(q)' = Level(q)
    BY DEF Level
  <2>3. q.amount = NoAmount \/ ~(spent + q.amount > policy.cap)
    <3>1. q.amount # NoAmount => /\ q.amount \in Nat /\ spent \in Nat /\ spent' \in Nat
                                 /\ policy.cap \in Nat
      BY SentinelAssumption DEF SentinelTypeOK
    <3>2. q.amount # NoAmount => ~(spent' + q.amount > policy.cap)
      BY <1>1 DEF Verdict
    <3> QED
      BY <3>1, <3>2
  <2>4. Verdict(q) = Verdict(q)'
    BY <1>1, <2>1, <2>2, <2>3 DEF Verdict
  <2> QED
    BY <2>4 DEF Rank
<1>2. CASE Verdict(q)' \notin {"allow", "gate"}
  BY <1>2 DEF Rank
<1> QED
  BY <1>1, <1>2

\* Tightening never loosens (sentinel.ts:80-109).
THEOREM Monotone == SentinelSpec => OnlyLooseningLoosens
<1>1. ASSUME SentinelTypeOK, SentinelTypeOK', [SentinelNext]_sentinelVars
      PROVE  [/\ tripped \subseteq tripped' /\ suspended \subseteq suspended'
              /\ policy' = policy /\ spent <= spent'
              => \A q \in Request : Rank(Verdict(q))' <= Rank(Verdict(q))]_sentinelVars
  BY <1>1, TighteningKeepsDenials
<1> QED
  BY <1>1, SentinelTypeCorrect, PTL DEF SentinelSpec, OnlyLooseningLoosens

-------------------------------------------------------------------------------
(***************************************************************************)
(* Position sizing.  An amount it allows fits in the room left by the      *)
(* deployment and the category limits (sizing.ts:31-60).                   *)
(***************************************************************************)
LEMMA MulBpIsNat ==
  ASSUME NEW base \in Nat, NEW bp \in Nat
  PROVE  MulBp(base, bp) \in Nat
<1> DEFINE n == base * bp + 5000
<1>1. n \in Nat
  OBVIOUS
<1> HIDE DEF n
<1>2. n \div 10000 \in Nat
  BY <1>1
<1> QED
  BY <1>2 DEF n, MulBp

LEMMA PctCentsIsNat ==
  ASSUME NEW pct \in 0 .. 100
  PROVE  PctCents(pct) \in Nat
<1>1. pct * 100 \in Nat
  OBVIOUS
<1> QED
  BY <1>1, MulBpIsNat, AcquirerAssumption DEF PctCents

\* The smallest of the three candidates is below each of them (sizing.ts:54-58).
LEMMA MinOfThree ==
  ASSUME NEW x \in Nat, NEW y \in Nat, NEW z \in Nat
  PROVE  LET m == Min({x, y, z}) IN m \in Nat /\ m <= x /\ m <= y /\ m <= z
<1>1. \E m \in {x, y, z} : \A n \in {x, y, z} : m <= n
  OBVIOUS
<1>2. Min({x, y, z}) \in {x, y, z} /\ \A n \in {x, y, z} : Min({x, y, z}) <= n
  BY <1>1 DEF Min
<1> QED
  BY <1>2

LEMMA RoomIsRoom ==
  ASSUME NEW limit \in Nat, NEW used \in Nat
  PROVE  /\ RoomAbove(limit, used) \in Nat
         /\ \A a \in Nat : a > 0 /\ a <= RoomAbove(limit, used) => used + a <= limit
BY DEF RoomAbove

LEMMA AllowedFits ==
  ASSUME TypeOK, NEW d \in Deal, Allowed(d)
  PROVE  /\ deployed + d.amount <= PctCents(DeployedPct)
         /\ inCategory[d.category] + d.amount <= PctCents(CategoryPct)
<1> DEFINE deal == IF d.unsure THEN PctCents(PerDealPct) \div 2 ELSE PctCents(PerDealPct)
           room == RoomAbove(PctCents(DeployedPct), deployed)
           kind == RoomAbove(PctCents(CategoryPct), inCategory[d.category])
<1>1. /\ PctCents(PerDealPct) \in Nat
      /\ PctCents(DeployedPct) \in Nat
      /\ PctCents(CategoryPct) \in Nat
  BY PctCentsIsNat, AcquirerAssumption
<1>2. deployed \in Nat /\ inCategory[d.category] \in Nat /\ d.amount \in Nat
  BY AcquirerAssumption DEF TypeOK, Deal
<1>3. deal \in Nat
  <2> HIDE DEF PctCents
  <2>1. PctCents(PerDealPct) \div 2 \in Nat
    BY <1>1
  <2> QED
    BY <1>1, <2>1
<1>4. room \in Nat /\ kind \in Nat
  BY <1>1, <1>2, RoomIsRoom
<1>5. CapCents(d) = Min({deal, room, kind})
  BY DEF CapCents
<1> HIDE DEF deal, room, kind
<1>6. d.amount > 0 /\ d.amount <= room /\ d.amount <= kind
  <2>1. LET m == Min({deal, room, kind}) IN m \in Nat /\ m <= room /\ m <= kind
    BY <1>3, <1>4, MinOfThree
  <2> QED
    BY <1>2, <1>4, <1>5, <2>1 DEF Allowed
<1> QED
  BY <1>1, <1>2, <1>6, RoomIsRoom DEF room, kind

-------------------------------------------------------------------------------
(***************************************************************************)
(* The Acquirer.  A deal is fresh while nothing it was prepared on has     *)
(* moved: preparing it again would stage it again.                         *)
(***************************************************************************)
Fresh == \A d \in Staged \ stale : Outcome(d) \in {"needs_approval", "auto_execute"}

\* What prepare reads (acquire.ts:60-86, sentinel.ts:80-109).
LEMMA OutcomeReads ==
  ASSUME UNCHANGED <<sentinelVars, deployed, inCategory>>, NEW d \in Deal
  PROVE  Outcome(d)' = Outcome(d)
<1>1. UNCHANGED <<tripped, suspended, policy, spent>>
  BY DEF sentinelVars
<1>2. Verdict(d)' = Verdict(d)
  BY <1>1 DEF Verdict, Halted, Level
<1>3. Allowed(d)' = Allowed(d)
  BY DEF Allowed, CapCents, PctCents
<1> QED
  BY <1>2, <1>3 DEF Outcome

\* A step that moves an input makes every staged deal stale.
LEMMA UnsettledIsStale ==
  ASSUME stage' = stage, stale' = stale \cup Staged
  PROVE  Staged' \subseteq stale'
BY DEF Staged

\* A booking moves the books, and makes every other staged deal stale.
LEMMA BookingUnsettles ==
  ASSUME TypeOK, NEW d \in Deal, Commit(d)
  PROVE  Staged' \subseteq stale'
<1>1. stage'[d] = "bought" /\ \A x \in Deal \ {d} : stage'[x] = stage[x]
  BY DEF Commit, TypeOK, Staged
<1> QED
  BY <1>1 DEF Commit, Staged

\* Preparing a deal, under the envelope or not, stages it on its own outcome.
LEMMA PreparedIsFresh ==
  ASSUME TypeOK, Fresh, NEW d \in Deal,
         UNCHANGED <<sentinelVars, deployed, inCategory>>, stale' = stale \ {d},
         NEW s, stage' = [stage EXCEPT ![d] = s],
         s \in {"needs_approval", "auto_execute"} =>
           Outcome(d) \in {"needs_approval", "auto_execute"}
  PROVE  Fresh'
<1> SUFFICES ASSUME NEW x \in Deal, x \in Staged', x \notin stale'
             PROVE  Outcome(x)' \in {"needs_approval", "auto_execute"}
  BY DEF Fresh, Staged
<1>1. Outcome(x)' = Outcome(x)
  BY OutcomeReads
<1>2. CASE x = d
  BY <1>1, <1>2 DEF Staged, TypeOK
<1>3. CASE x # d
  <2>1. x \in Staged \ stale
    BY <1>3 DEF Staged, TypeOK
  <2> QED
    BY <1>1, <2>1 DEF Fresh
<1> QED
  BY <1>2, <1>3

LEMMA OperateStep ==
  ASSUME TypeOK, Operate
  PROVE  TypeOK' /\ Staged' \subseteq stale'
<1>1. SentinelTypeOK'
  BY SentinelTypeStep DEF TypeOK, Operate
<1> QED
  BY <1>1, UnsettledIsStale DEF TypeOK, Operate, Staged

LEMMA CommitTypes ==
  ASSUME TypeOK, NEW d \in Deal, Commit(d)
  PROVE  TypeOK'
<1>1. SentinelTypeOK'
  BY DEF TypeOK, Commit, SentinelTypeOK, sentinelVars
<1>2. d.amount \in Nat /\ d.category \in Category
  BY AcquirerAssumption DEF Deal
<1> QED
  BY <1>1, <1>2 DEF TypeOK, Commit, Staged

LEMMA DropTypes ==
  ASSUME TypeOK, NEW d \in Deal, Drop(d)
  PROVE  TypeOK'
<1>1. SentinelTypeOK'
  BY DEF TypeOK, Drop, SentinelTypeOK, sentinelVars
<1> QED
  BY <1>1 DEF TypeOK, Drop, Staged

LEMMA OutcomeType ==
  ASSUME NEW d \in Deal
  PROVE  Outcome(d) \in {"denied", "needs_approval", "auto_execute"}
BY DEF Outcome

LEMMA AcquirerStep ==
  ASSUME TypeOK, Fresh, [Next]_vars
  PROVE  TypeOK' /\ Fresh'
<1>1. ASSUME NEW d \in Deal, Prepare(d)
      PROVE  TypeOK' /\ Fresh'
  <2>1. SentinelTypeOK'
    BY <1>1 DEF TypeOK, Prepare, SentinelTypeOK, sentinelVars
  <2>2. TypeOK'
    BY <1>1, <2>1, OutcomeType DEF TypeOK, Prepare
  <2>3. Fresh'
    BY <1>1, PreparedIsFresh DEF Prepare
  <2> QED
    BY <2>2, <2>3
<1>2. ASSUME NEW d \in Deal, Commit(d)
      PROVE  TypeOK' /\ Fresh'
  BY <1>2, CommitTypes, BookingUnsettles DEF Fresh
<1>3. ASSUME NEW d \in Deal, Drop(d)
      PROVE  TypeOK' /\ Fresh'
  BY <1>3, DropTypes, PreparedIsFresh DEF Drop
<1>4. CASE Operate
  BY <1>4, OperateStep DEF Fresh
<1>5. CASE UNCHANGED vars
  <2>1. TypeOK'
    BY <1>5 DEF vars, purchaseVars, sentinelVars, TypeOK, SentinelTypeOK
  <2>2. UNCHANGED <<sentinelVars, deployed, inCategory>> /\ Staged' = Staged /\ stale' = stale
    BY <1>5 DEF vars, purchaseVars, Staged
  <2> QED
    BY <2>1, <2>2, OutcomeReads DEF Fresh, Staged
<1> QED
  BY <1>1, <1>2, <1>3, <1>4, <1>5 DEF Next

\* Only commit moves the money.
LEMMA OnlyCommitBuys ==
  ASSUME TypeOK, NEW d \in Deal, Bought(d), [Next]_vars
  PROVE  Commit(d)
<1>1. ASSUME NEW x \in Deal, Prepare(x)
      PROVE  FALSE
  BY <1>1, OutcomeType DEF Prepare, Bought, TypeOK
<1>2. ASSUME NEW x \in Deal, Drop(x)
      PROVE  FALSE
  BY <1>2 DEF Drop, Bought, TypeOK
<1>3. ASSUME NEW x \in Deal, Commit(x)
      PROVE  x = d
  BY <1>3 DEF Commit, Bought, TypeOK, Staged
<1>4. ~Operate /\ ~UNCHANGED vars
  BY DEF Operate, Bought, vars, purchaseVars
<1> QED
  BY <1>1, <1>2, <1>3, <1>4 DEF Next

\* The guards of the Sentinel and of sizing hold where a fresh deal is booked.
LEMMA FreshBookingIsSound ==
  ASSUME TypeOK, Fresh, NEW d \in Deal, Commit(d), d \notin stale
  PROVE  /\ ~Halted(d) /\ d.scope \cap suspended = {}
         /\ spent + d.amount <= policy.cap
         /\ deployed' <= PctCents(DeployedPct)
         /\ inCategory'[d.category] <= PctCents(CategoryPct)
<1>1. Outcome(d) \in {"needs_approval", "auto_execute"}
  BY DEF Commit, Fresh
<1>2. Verdict(d) \in {"allow", "gate"} /\ Allowed(d)
  BY <1>1 DEF Outcome
<1>3. ~Halted(d) /\ d.scope \cap suspended = {}
  BY <1>2 DEF Verdict
<1>4. spent + d.amount <= policy.cap
  <2>1. d.amount \in Nat /\ d.amount # NoAmount /\ spent \in Nat /\ policy.cap \in Nat
    BY AcquirerAssumption, SentinelAssumption DEF Deal, TypeOK, SentinelTypeOK
  <2>2. ~(spent + d.amount > policy.cap)
    BY <1>2, <2>1 DEF Verdict
  <2> QED
    BY <2>1, <2>2
<1>5. d.category \in Category
  BY AcquirerAssumption DEF Deal
<1>6. /\ deployed' = deployed + d.amount
      /\ inCategory'[d.category] = inCategory[d.category] + d.amount
  BY <1>5 DEF Commit, TypeOK
<1> QED
  BY <1>2, <1>3, <1>4, <1>6, AllowedFits

AcquirerInv == TypeOK /\ Fresh

LEMMA AcquirerStart == Init => AcquirerInv
<1>1. Init => SentinelTypeOK
  BY SentinelAssumption DEF Init, SentinelInit, SentinelTypeOK
<1> QED
  BY <1>1 DEF Init, AcquirerInv, TypeOK, Fresh, Staged

\* The types, and freshness, are kept by every operation (acquire.ts:49-110).
THEOREM AcquirerInductive == Spec => []AcquirerInv
<1>1. AcquirerInv /\ [Next]_vars => AcquirerInv'
  BY AcquirerStep DEF AcquirerInv
<1> QED
  BY <1>1, AcquirerStart, PTL DEF Spec

\* A purchase on the state it was prepared on respects every guard (acquire.ts:60-86).
THEOREM FreshPurchases == Spec => FreshPurchasesAreSound
<1>1. ASSUME AcquirerInv, [Next]_vars
      PROVE  [\A d \in Deal : Bought(d) /\ d \notin stale
                => /\ ~Halted(d) /\ d.scope \cap suspended = {}
                   /\ spent + d.amount <= policy.cap
                   /\ deployed' <= PctCents(DeployedPct)
                   /\ inCategory'[d.category] <= PctCents(CategoryPct)]_vars
  BY <1>1, OnlyCommitBuys, FreshBookingIsSound DEF AcquirerInv
<1> QED
  BY <1>1, AcquirerInductive, PTL DEF Spec, FreshPurchasesAreSound

-------------------------------------------------------------------------------
(***************************************************************************)
(* The whole purchase.  The guards of a fresh deal are those of the        *)
(* Acquirer; a fresh deal nobody approved is still within the envelope; a  *)
(* class at L3 has not failed since it was promoted; and what was agreed   *)
(* with a seller is within the walk-away or is the opening offer.          *)
(***************************************************************************)
PurchasingTypeOK ==
  /\ TypeOK
  /\ paid \in [Deal -> Int \cup {NoPrice, NoDeal}]
  /\ level \in Autonomy
  /\ {rows, followed, bad, faults, autoSpent} \subseteq Nat

Earned ==
  /\ \A d \in Deal \ stale : stage[d] = "auto_execute" => AutoBuyPermitted(d)
  /\ level = "L3" => faults = 0

Agreeable(d, price) ==
  /\ price >= d.reserve
  /\ price <= d.walkAway \/ price = OpeningOffer(d)

Priced ==
  \A d \in Deal :
    /\ stage[d] \in {"needs_approval", "auto_execute", "bought"} => paid[d] # NoDeal
    /\ paid[d] \notin {NoPrice, NoDeal} => Agreeable(d, paid[d])

PurchasingInv == PurchasingTypeOK /\ Fresh /\ Earned /\ Priced

\* The seller accepts from the reserve, and counters at it (simulate.ts:22-70).
LEMMA BargainIsAgreeable ==
  ASSUME NEW d \in Deal
  PROVE  /\ Bargain(d) \in Int \cup {NoPrice, NoDeal}
         /\ Bargain(d) \notin {NoPrice, NoDeal} => Agreeable(d, Bargain(d))
<1>1. d.reserve \in Nat /\ d.walkAway \in Nat
  BY PurchasingAssumption DEF Deal
<1>2. OpeningOffer(d) \in Nat
  <2>1. d.amount \in Nat /\ d.category \in Category
    BY AcquirerAssumption DEF Deal
  <2> DEFINE bp == 10000 - Anchor[d.category]
  <2>2. bp \in Nat
    <3>1. Anchor[d.category] \in Nat /\ Anchor[d.category] <= 10000
      BY <2>1, PurchasingAssumption
    <3> QED
      BY <3>1
  <2>3. OpeningOffer(d) = MulBp(d.amount, bp)
    BY DEF OpeningOffer
  <2> HIDE DEF bp
  <2> QED
    BY <2>1, <2>2, <2>3, MulBpIsNat
<1>3. CASE Response(d, OpeningOffer(d)) = "accept"
  <2>1. Bargain(d) = OpeningOffer(d)
    BY <1>3 DEF Bargain
  <2>2. OpeningOffer(d) >= d.reserve
    BY <1>3 DEF Response
  <2> QED
    BY <1>1, <1>2, <2>1, <2>2 DEF Agreeable
<1>4. CASE Response(d, OpeningOffer(d)) = "counter"
  <2>1. Bargain(d) = OnCounter(d, d.reserve)
    BY <1>4 DEF Bargain
  <2> QED
    BY <1>1, <2>1 DEF Agreeable, OnCounter
<1>5. CASE Response(d, OpeningOffer(d)) \notin {"accept", "counter"}
  BY <1>5 DEF Bargain
<1> QED
  BY <1>3, <1>4, <1>5

\* The day's spending and the level are what the envelope reads (autobuy.ts:36-50).
LEMMA EnvelopeReads ==
  ASSUME level' = level, autoSpent' = autoSpent, NEW d \in Deal
  PROVE  AutoBuyPermitted(d)' = AutoBuyPermitted(d)
BY DEF AutoBuyPermitted

\* What only moves inputs leaves no fresh deal to speak of.
LEMMA NoneFresh ==
  ASSUME Staged' \subseteq stale', level' = "L3" => faults' = 0
  PROVE  Fresh' /\ Earned'
BY DEF Fresh, Earned, Staged

LEMMA NegotiateStep ==
  ASSUME PurchasingInv, NEW d \in Deal, Negotiate(d)
  PROVE  PurchasingInv'
<1>1. UNCHANGED <<sentinelVars, deployed, inCategory, stage, stale, level, rows, followed,
                  bad, faults, autoSpent>>
  BY DEF Negotiate, vars, purchaseVars, gradeVars
<1>2. PurchasingTypeOK'
  <2>1. SentinelTypeOK'
    BY <1>1 DEF PurchasingInv, PurchasingTypeOK, TypeOK, SentinelTypeOK, sentinelVars
  <2> QED
    BY <1>1, <2>1, BargainIsAgreeable DEF PurchasingInv, PurchasingTypeOK, TypeOK, Negotiate
<1>3. Fresh'
  BY <1>1, OutcomeReads DEF Fresh, Staged, PurchasingInv
<1>4. Earned'
  BY <1>1, EnvelopeReads DEF Earned, PurchasingInv
<1>5. Priced'
  <2> SUFFICES ASSUME NEW x \in Deal
               PROVE  /\ stage'[x] \in {"needs_approval", "auto_execute", "bought"}
                           => paid'[x] # NoDeal
                      /\ paid'[x] \notin {NoPrice, NoDeal} => Agreeable(x, paid'[x])
    BY DEF Priced, Agreeable, OpeningOffer
  <2>1. CASE x = d
    BY <1>1, <2>1, BargainIsAgreeable DEF Negotiate, PurchasingInv, PurchasingTypeOK
  <2>2. CASE x # d
    BY <1>1, <2>2 DEF Negotiate, PurchasingInv, PurchasingTypeOK, Priced
  <2> QED
    BY <2>1, <2>2
<1> QED
  BY <1>2, <1>3, <1>4, <1>5 DEF PurchasingInv

LEMMA PrepareDealStep ==
  ASSUME PurchasingInv, NEW d \in Deal, PrepareDeal(d)
  PROVE  PurchasingInv'
<1>1. UNCHANGED <<sentinelVars, deployed, inCategory, paid, level, rows, followed, bad,
                  faults, autoSpent>>
  BY DEF PrepareDeal, gradeVars
<1> DEFINE s == IF Outcome(d) = "auto_execute" /\ ~AutoBuyPermitted(d)
                THEN "needs_approval" ELSE Outcome(d)
<1>2. stage' = [stage EXCEPT ![d] = s] /\ stale' = stale \ {d} /\ paid[d] # NoDeal
  BY DEF PrepareDeal
<1>3. /\ s \in {"denied", "needs_approval", "auto_execute"}
      /\ s \in {"needs_approval", "auto_execute"}
           => Outcome(d) \in {"needs_approval", "auto_execute"}
      /\ s = "auto_execute" => AutoBuyPermitted(d)
  BY OutcomeType
<1> HIDE DEF s
<1>4. PurchasingTypeOK'
  <2>1. SentinelTypeOK'
    BY <1>1 DEF PurchasingInv, PurchasingTypeOK, TypeOK, SentinelTypeOK, sentinelVars
  <2> QED
    BY <1>1, <1>2, <1>3, <2>1 DEF PurchasingInv, PurchasingTypeOK, TypeOK
<1>5. Fresh'
  BY <1>1, <1>2, <1>3, PreparedIsFresh DEF PurchasingInv, PurchasingTypeOK
<1>6. Earned'
  <2> SUFFICES ASSUME NEW x \in Deal, x \notin stale', stage'[x] = "auto_execute"
               PROVE  AutoBuyPermitted(x)'
    BY <1>1 DEF Earned, PurchasingInv
  <2>1. AutoBuyPermitted(x)' = AutoBuyPermitted(x)
    BY <1>1, EnvelopeReads
  <2>2. CASE x = d
    BY <1>2, <1>3, <2>1, <2>2 DEF PurchasingInv, PurchasingTypeOK, TypeOK
  <2>3. CASE x # d
    BY <1>2, <2>1, <2>3 DEF PurchasingInv, PurchasingTypeOK, TypeOK, Earned
  <2> QED
    BY <2>2, <2>3
<1>7. Priced'
  BY <1>1, <1>2 DEF PurchasingInv, PurchasingTypeOK, TypeOK, Priced, Agreeable, OpeningOffer
<1> QED
  BY <1>4, <1>5, <1>6, <1>7 DEF PurchasingInv

LEMMA CommitDealStep ==
  ASSUME PurchasingInv, NEW d \in Deal, CommitDeal(d)
  PROVE  PurchasingInv'
<1>1. UNCHANGED <<sentinelVars, load, paid, level, rows, followed, bad, faults>> /\ Commit(d)
  BY DEF CommitDeal, Commit, gradeVars
<1>2. TypeOK' /\ Staged' \subseteq stale'
  BY <1>1, CommitTypes, BookingUnsettles DEF PurchasingInv, PurchasingTypeOK
<1>3. autoSpent' \in Nat
  BY AcquirerAssumption DEF CommitDeal, PurchasingInv, PurchasingTypeOK, Deal
<1>4. PurchasingTypeOK'
  BY <1>1, <1>2, <1>3 DEF PurchasingInv, PurchasingTypeOK
<1>5. Fresh' /\ Earned'
  BY <1>1, <1>2, NoneFresh DEF PurchasingInv, Earned
<1>6. Priced'
  <2>1. stage' = [stage EXCEPT ![d] = "bought"] /\ d \in Staged /\ paid' = paid
    BY <1>1 DEF Commit
  <2> QED
    BY <2>1 DEF Priced, Agreeable, OpeningOffer, PurchasingInv, PurchasingTypeOK, TypeOK, Staged
<1> QED
  BY <1>4, <1>5, <1>6 DEF PurchasingInv

LEMMA DropDealStep ==
  ASSUME PurchasingInv, NEW d \in Deal, DropDeal(d)
  PROVE  PurchasingInv'
<1>1. UNCHANGED <<load, paid, level, rows, followed, bad, faults, autoSpent>> /\ Drop(d)
  BY DEF DropDeal, gradeVars
<1>2. /\ d \in Staged /\ stage' = [stage EXCEPT ![d] = "new"] /\ stale' = stale \ {d}
      /\ UNCHANGED <<sentinelVars, deployed, inCategory>>
  BY <1>1 DEF Drop
<1>3. TypeOK'
  BY <1>1, DropTypes DEF PurchasingInv, PurchasingTypeOK
<1>4. PurchasingTypeOK'
  BY <1>1, <1>3 DEF PurchasingInv, PurchasingTypeOK
<1>5. Fresh'
  BY <1>2, PreparedIsFresh DEF PurchasingInv, PurchasingTypeOK
<1>6. Earned'
  <2> SUFFICES ASSUME NEW x \in Deal, x \notin stale', stage'[x] = "auto_execute"
               PROVE  AutoBuyPermitted(x)'
    BY <1>1 DEF Earned, PurchasingInv
  <2>1. x # d
    BY <1>2 DEF PurchasingInv, PurchasingTypeOK, TypeOK
  <2>2. AutoBuyPermitted(x)
    BY <1>2, <2>1 DEF PurchasingInv, PurchasingTypeOK, TypeOK, Earned
  <2> QED
    BY <1>1, <2>2, EnvelopeReads
<1>7. Priced'
  BY <1>1, <1>2 DEF PurchasingInv, PurchasingTypeOK, TypeOK, Priced, Agreeable, OpeningOffer
<1> QED
  BY <1>4, <1>5, <1>6, <1>7 DEF PurchasingInv

\* A step of the owners or of the record: stages and prices stand, nothing is fresh.
LEMMA UnsettlingStep ==
  ASSUME PurchasingInv, SentinelTypeOK', UNCHANGED <<deployed, inCategory, stage, paid>>,
         stale' = stale \cup Staged, level' \in Autonomy, level' = "L3" => faults' = 0,
         {rows, followed, bad, faults, autoSpent}' \subseteq Nat
  PROVE  PurchasingInv'
<1>1. Staged' \subseteq stale'
  BY UnsettledIsStale
<1>2. PurchasingTypeOK'
  BY DEF PurchasingInv, PurchasingTypeOK, TypeOK, Staged
<1>3. Priced'
  BY DEF PurchasingInv, Priced, Agreeable, OpeningOffer
<1> QED
  BY <1>1, <1>2, <1>3, NoneFresh DEF PurchasingInv

LEMMA EditStep ==
  ASSUME PurchasingInv, Edit
  PROVE  PurchasingInv'
<1>1. /\ UNCHANGED <<deployed, inCategory, stage, paid, level, rows, followed, bad, faults>>
      /\ stale' = stale \cup Staged /\ Operate
  BY DEF Edit, Operate, gradeVars
<1>2. SentinelTypeOK'
  BY <1>1, OperateStep DEF PurchasingInv, PurchasingTypeOK, TypeOK
<1>3. autoSpent' \in Nat
  BY DEF Edit, PurchasingInv, PurchasingTypeOK
<1>4. {rows, followed, bad, faults, autoSpent}' \subseteq Nat
  BY <1>1, <1>3 DEF PurchasingInv, PurchasingTypeOK
<1>5. level' \in Autonomy /\ (level' = "L3" => faults' = 0)
  BY <1>1 DEF PurchasingInv, PurchasingTypeOK, Earned
<1> QED
  BY <1>1, <1>2, <1>4, <1>5, UnsettlingStep

\* Record, breach and promotion: a class that changes level starts without faults,
\* and at L3 a fault is what changes it (graduate.ts:55-95).
LEMMA GradeStep ==
  ASSUME PurchasingInv,
         (\E agreed, ok \in BOOLEAN : Record(agreed, ok)) \/ RecordBreach \/ TryPromote
  PROVE  PurchasingInv'
<1>1. Reconsider
  BY DEF Record, RecordBreach, TryPromote
<1>2. /\ UNCHANGED <<deployed, inCategory, stage, paid, autoSpent>>
      /\ stale' = stale \cup Staged
  BY <1>1 DEF Reconsider
<1>3. SentinelTypeOK'
  BY <1>1 DEF Reconsider, PurchasingInv, PurchasingTypeOK, TypeOK, SentinelTypeOK, sentinelVars
<1>4. level' \in Autonomy
  BY DEF Record, RecordBreach, TryPromote, Demoted, PurchasingInv, PurchasingTypeOK, Autonomy
<1>5. level' = "L3" => faults' = 0
  <2>1. ASSUME NEW agreed \in BOOLEAN, NEW ok \in BOOLEAN, Record(agreed, ok), level' = "L3"
        PROVE  faults' = 0
    BY <2>1 DEF Record, Demoted, PurchasingInv, Earned
  <2>2. ASSUME RecordBreach, level' = "L3"
        PROVE  faults' = 0
    BY <2>2 DEF RecordBreach, Demoted
  <2> QED
    BY <2>1, <2>2 DEF TryPromote
<1>6. {rows, followed, bad, faults, autoSpent}' \subseteq Nat
  <2>1. rows' \in Nat /\ followed' \in Nat /\ bad' \in Nat /\ faults' \in Nat
    <3>1. ASSUME NEW agreed \in BOOLEAN, NEW ok \in BOOLEAN, Record(agreed, ok)
          PROVE  rows' \in Nat /\ followed' \in Nat /\ bad' \in Nat /\ faults' \in Nat
      BY <3>1 DEF Record, PurchasingInv, PurchasingTypeOK
    <3> QED
      BY <3>1 DEF RecordBreach, TryPromote, PurchasingInv, PurchasingTypeOK
  <2> QED
    BY <1>2, <2>1 DEF PurchasingInv, PurchasingTypeOK
<1> QED
  BY <1>2, <1>3, <1>4, <1>5, <1>6, UnsettlingStep

LEMMA PurchasingStep ==
  ASSUME PurchasingInv, [PurchasingNext]_purchasingVars
  PROVE  PurchasingInv'
<1>1. CASE UNCHANGED purchasingVars
  <2>1. UNCHANGED <<sentinelVars, deployed, inCategory, stage, stale, paid, level, rows,
                    followed, bad, faults, autoSpent>>
    BY <1>1 DEF purchasingVars, vars, purchaseVars, gradeVars
  <2>2. PurchasingTypeOK'
    BY <2>1 DEF PurchasingInv, PurchasingTypeOK, TypeOK, SentinelTypeOK, sentinelVars
  <2>3. Fresh' /\ Earned' /\ Priced'
    BY <2>1, OutcomeReads, EnvelopeReads
    DEF PurchasingInv, Fresh, Staged, Earned, Priced, Agreeable, OpeningOffer
  <2> QED
    BY <2>2, <2>3 DEF PurchasingInv
<1> QED
  BY <1>1, NegotiateStep, PrepareDealStep, CommitDealStep, DropDealStep, EditStep, GradeStep
  DEF PurchasingNext

\* Types, freshness, the envelope and the prices, kept by every operation of the
\* purchase (acquire.ts, simulate.ts, graduate.ts, autobuy.ts).
THEOREM PurchasingInductive == PurchasingSpec => []PurchasingInv
<1>1. PurchasingInit => PurchasingInv
  <2> SUFFICES ASSUME PurchasingInit PROVE PurchasingInv
    OBVIOUS
  <2>1. TypeOK /\ Fresh
    BY AcquirerStart DEF AcquirerInv, PurchasingInit
  <2>2. PurchasingTypeOK
    BY <2>1, PurchasingAssumption DEF PurchasingTypeOK, PurchasingInit
  <2>3. Earned /\ Priced
    BY DEF PurchasingInit, Init, Earned, Priced
  <2> QED
    BY <2>1, <2>2, <2>3 DEF PurchasingInv
<1> QED
  BY <1>1, PurchasingStep, PTL DEF PurchasingSpec

\* Whatever the purchase does, the Sentinel under it is the Sentinel: its theorems
\* hold of every purchase (acquire.ts:60, sentinel.ts:80).
THEOREM PurchasingKeepsSentinel == PurchasingSpec => SentinelSpec
<1>1. PurchasingInit => SentinelInit
  BY DEF PurchasingInit, Init
<1>2. [PurchasingNext]_purchasingVars => [SentinelNext]_sentinelVars
  <2> SUFFICES ASSUME [PurchasingNext]_purchasingVars PROVE [SentinelNext]_sentinelVars
    OBVIOUS
  <2>1. ASSUME NEW d \in Deal, Negotiate(d) \/ PrepareDeal(d) \/ CommitDeal(d) \/ DropDeal(d)
        PROVE  UNCHANGED sentinelVars
    BY <2>1 DEF Negotiate, PrepareDeal, CommitDeal, Commit, DropDeal, Drop, vars
  <2>2. CASE Edit
    BY <2>2 DEF Edit, Operate
  <2>3. CASE (\E agreed, ok \in BOOLEAN : Record(agreed, ok)) \/ RecordBreach \/ TryPromote
    BY <2>3 DEF Record, RecordBreach, TryPromote, Reconsider
  <2>4. CASE UNCHANGED purchasingVars
    BY <2>4 DEF purchasingVars, vars
  <2> QED
    BY <2>1, <2>2, <2>3, <2>4 DEF PurchasingNext
<1> QED
  BY <1>1, <1>2, PTL DEF PurchasingSpec, SentinelSpec

\* No policy edit moves a locked denial, purchases in hand or not (sentinel.ts:8-12).
THEOREM LockedUnderPurchasing == PurchasingSpec => NoPolicyEditOverrides
BY PurchasingKeepsSentinel, LockedInvariants, PTL

\* Nothing but commit books a purchase.
LEMMA OnlyCommitDealBuys ==
  ASSUME TypeOK, NEW d \in Deal, Bought(d), [PurchasingNext]_purchasingVars
  PROVE  CommitDeal(d)
<1>1. ASSUME NEW x \in Deal, PrepareDeal(x)
      PROVE  FALSE
  BY <1>1, OutcomeType DEF PrepareDeal, Bought, TypeOK
<1>2. ASSUME NEW x \in Deal, DropDeal(x)
      PROVE  FALSE
  BY <1>2 DEF DropDeal, Drop, Bought, TypeOK
<1>3. ASSUME NEW x \in Deal, CommitDeal(x)
      PROVE  x = d
  BY <1>3 DEF CommitDeal, Commit, Bought, TypeOK, Staged
<1>4. ASSUME NEW x \in Deal, Negotiate(x)
      PROVE  FALSE
  BY <1>4 DEF Negotiate, Bought, vars, purchaseVars
<1>5. ~Edit /\ ~UNCHANGED purchasingVars
  BY DEF Edit, Operate, Bought, purchasingVars, vars, purchaseVars
<1>6. /\ ~\E agreed, ok \in BOOLEAN : Record(agreed, ok)
      /\ ~RecordBreach /\ ~TryPromote
  BY DEF Record, RecordBreach, TryPromote, Reconsider, Bought
<1> QED
  BY <1>1, <1>2, <1>3, <1>4, <1>5, <1>6 DEF PurchasingNext

\* The guards hold where the money moves, with the negotiator, the graduation engine
\* and the envelope around the Acquirer (acquire.ts:60-86).
THEOREM PurchasesAreSound == PurchasingSpec => FreshPurchasesAreSound
<1>1. ASSUME PurchasingInv, [PurchasingNext]_purchasingVars
      PROVE  [\A d \in Deal : Bought(d) /\ d \notin stale
                => /\ ~Halted(d) /\ d.scope \cap suspended = {}
                   /\ spent + d.amount <= policy.cap
                   /\ deployed' <= PctCents(DeployedPct)
                   /\ inCategory'[d.category] <= PctCents(CategoryPct)]_vars
  BY <1>1, OnlyCommitDealBuys, FreshBookingIsSound
  DEF CommitDeal, PurchasingInv, PurchasingTypeOK
<1> QED
  BY <1>1, PurchasingInductive, PTL DEF PurchasingSpec, FreshPurchasesAreSound

\* A fresh purchase nobody approved is within the envelope, and of a class that has
\* not failed since it earned L3 (autobuy.ts:5-10, graduate.ts:55-60).
THEOREM AutoBuys == PurchasingSpec => AutoBuysAreEarned
<1>1. ASSUME PurchasingInv, [PurchasingNext]_purchasingVars
      PROVE  [\A d \in Deal : stage[d] = "auto_execute" /\ Bought(d) /\ d \notin stale
                => /\ level = "L3" => faults = 0
                   /\ level # "L2"
                   /\ autoSpent' <= DayCap /\ d.amount <= MaxDeal]_purchasingVars
  <2> SUFFICES ASSUME NEW d \in Deal, stage[d] = "auto_execute", Bought(d), d \notin stale
               PROVE  /\ level = "L3" => faults = 0
                      /\ level # "L2"
                      /\ autoSpent' <= DayCap /\ d.amount <= MaxDeal
    BY <1>1
  <2>1. autoSpent' = autoSpent + d.amount
    BY <1>1, OnlyCommitDealBuys DEF CommitDeal, PurchasingInv, PurchasingTypeOK
  <2>2. AutoBuyPermitted(d) /\ (level = "L3" => faults = 0)
    BY <1>1 DEF PurchasingInv, Earned
  <2> QED
    BY <2>1, <2>2 DEF AutoBuyPermitted
<1> QED
  BY <1>1, PurchasingInductive, PTL DEF PurchasingSpec, AutoBuysAreEarned

\* What was agreed with a seller is within the walk-away, or is the opening offer
\* (strategy.ts:46-53, simulate.ts:33-45).
THEOREM Counters == PurchasingSpec => []CountersAreAffordable
<1>1. PurchasingInv => CountersAreAffordable
  BY DEF PurchasingInv, Priced, Agreeable, OpeningOffer, CountersAreAffordable
<1> QED
  BY <1>1, PurchasingInductive, PTL
===============================================================================
