------------------------------- MODULE Acquirer -------------------------------
(***************************************************************************)
(* The Acquirer, packages/acquire/src/acquire.ts, over the Sentinel and    *)
(* position sizing (packages/rank/src/sizing.ts).                          *)
(*                                                                         *)
(* prepare is synchronous; its tile then waits for a human, or its caller  *)
(* for nothing, and commit books the purchase.  In between other purchases *)
(* are booked and switches tripped.  A deal is an ActionRequest with the   *)
(* fields of the AcquireRequest that sizing and the checks read, and its   *)
(* bankroll is the state of the books when prepare is called.              *)
(***************************************************************************)
EXTENDS Sentinel, FiniteSetsExt

CONSTANTS Total,                                \* Bankroll.totalCents, fixed
          Category,
          PerDealPct, DeployedPct, CategoryPct  \* the SizingPolicy

ASSUME AcquirerAssumption ==
  /\ Total \in Nat
  /\ {PerDealPct, DeployedPct, CategoryPct} \subseteq 0 .. 100
  /\ \A d \in Request : /\ d.category \in Category
                        /\ {d.unsure, d.hardBlock} \subseteq BOOLEAN
                        /\ d.amount \in Nat

Deal == Request

VARIABLES deployed,     \* bankroll.deployedCents
          inCategory,   \* bankroll.categoryDeployedCents, by category
          stage,        \* where each deal is
          stale         \* history: staged deals whose inputs have changed since

purchaseVars == <<deployed, inCategory, stage, stale>>
vars == <<sentinelVars, purchaseVars>>

Init == /\ SentinelInit
        /\ deployed = 0
        /\ inCategory = [c \in Category |-> 0]
        /\ stage = [d \in Deal |-> "new"]
        /\ stale = {}

(***************************************************************************)
(* positionSize(input).  mulBp rounds half away from zero.                 *)
(***************************************************************************)
MulBp(base, bp) == (base * bp + 5000) \div 10000
PctCents(pct) == MulBp(Total, pct * 100)
RoomAbove(limit, used) == IF limit > used THEN limit - used ELSE 0

\* Faulty: the room left by what is already deployed is not a candidate.
CapCentsPerDeal(d) ==
  Min({IF d.unsure THEN PctCents(PerDealPct) \div 2 ELSE PctCents(PerDealPct),
       RoomAbove(PctCents(CategoryPct), inCategory[d.category])})

CapCents(d) ==
  Min({IF d.unsure THEN PctCents(PerDealPct) \div 2 ELSE PctCents(PerDealPct),
       RoomAbove(PctCents(DeployedPct), deployed),
       RoomAbove(PctCents(CategoryPct), inCategory[d.category])})

Allowed(d) == d.amount > 0 /\ d.amount <= CapCents(d)

(***************************************************************************)
(* prepare(req)                                                            *)
(***************************************************************************)
Outcome(d) ==
  IF d.hardBlock THEN "denied"
  ELSE IF Verdict(d) \notin {"allow", "gate"} THEN "denied"
  ELSE IF ~Allowed(d) THEN "denied"
  ELSE IF Verdict(d) = "allow" THEN "auto_execute"
  ELSE "needs_approval"

Staged == {d \in Deal : stage[d] \in {"needs_approval", "auto_execute"}}

Prepare(d) == /\ stage[d] \in {"new", "denied"}
              /\ stage' = [stage EXCEPT ![d] = Outcome(d)]
              /\ stale' = stale \ {d}
              /\ UNCHANGED <<sentinelVars, deployed, inCategory>>

(***************************************************************************)
(* commit(req, approvedBy, at), of a tile or an auto_execute decision, and *)
(* the booking of its record.  It leaves spentTodayCents alone: that field *)
(* of SentinelDeps is its owner's, and so are the bankroll's.              *)
(***************************************************************************)
Commit(d) == /\ d \in Staged
             /\ stage' = [stage EXCEPT ![d] = "bought"]
             /\ deployed' = deployed + d.amount
             /\ inCategory' = [inCategory EXCEPT ![d.category] = @ + d.amount]
             /\ stale' = (stale \cup Staged) \ {d}
             /\ UNCHANGED sentinelVars

\* A human declines the tile, or the deal goes away.
Drop(d) == /\ d \in Staged
           /\ stage' = [stage EXCEPT ![d] = "new"]
           /\ stale' = stale \ {d}
           /\ UNCHANGED <<sentinelVars, deployed, inCategory>>

Operate == /\ SentinelNext
           /\ stale' = stale \cup Staged
           /\ UNCHANGED <<deployed, inCategory, stage>>

Next == \/ \E d \in Deal : Prepare(d) \/ Commit(d) \/ Drop(d)
        \/ Operate

Spec == Init /\ [][Next]_vars

-------------------------------------------------------------------------------
TypeOK == /\ SentinelTypeOK
          /\ deployed \in Nat
          /\ inCategory \in [Category -> Nat]
          /\ stage \in [Deal -> {"new", "denied", "needs_approval", "auto_execute", "bought"}]
          /\ stale \in SUBSET Deal

Bought(d) == stage[d] # "bought" /\ stage'[d] = "bought"

(***************************************************************************)
(* A purchase booked on the state it was prepared on respects every guard  *)
(* at the moment the money moves: its scope is not halted, its platform    *)
(* not suspended, and with it the books are within the deployment and the  *)
(* category limits (acquire.ts:60-86).                                     *)
(***************************************************************************)
FreshPurchasesAreSound ==
  [][\A d \in Deal : Bought(d) /\ d \notin stale
       => /\ ~Halted(d) /\ d.scope \cap suspended = {}
          /\ spent + d.amount <= policy.cap
          /\ deployed' <= PctCents(DeployedPct)
          /\ inCategory'[d.category] <= PctCents(CategoryPct)]_vars
===============================================================================
