------------------------------ MODULE Purchasing ------------------------------
(***************************************************************************)
(* A purchase from the first offer to the commitment: the Negotiator       *)
(* (packages/negotiate), the Acquirer, and what lets it commit unattended, *)
(* the graduation engine (packages/graduate) and the auto-buy envelope     *)
(* (packages/autobuy), put together as in docs/ARCHITECTURE.md: a          *)
(* graduated class runs by itself within the envelope, and a purchase out  *)
(* of it waits for a tap.                                                  *)
(*                                                                         *)
(* The track records of two action classes have nothing in common, so one  *)
(* class is modelled, and its record as the counts evaluate() takes of it. *)
(***************************************************************************)
EXTENDS Acquirer

Autonomy == {"L0", "L1", "L2", "L3", "L4"}

CONSTANTS Anchor,        \* NegotiationPolicy, by category
          MinSamples, MinAgreementPct, MaxBadPct,  \* GraduationCriteria
          MaxDeal, DayCap, Whitelist,              \* AutoBuyEnvelope
          Workload,      \* the deals, edits and outcomes that may come (bounds)
          NoPrice, NoDeal

ASSUME PurchasingAssumption ==
  /\ \A c \in Category : Anchor[c] \in Nat /\ Anchor[c] <= 10000
  /\ {MaxDeal, DayCap} \subseteq Nat
  /\ \A d \in Request : {d.reserve, d.walkAway} \subseteq Nat
  /\ \A w \in Workload : w.initialLevel \in Autonomy

VARIABLES load,
          paid,      \* the price agreed, NoPrice for the asking price
          level, rows, followed, bad,   \* GraduationEngine
          autoSpent,                    \* daySpentCents
          faults     \* history: bad outcomes and breaches at this level

gradeVars == <<level, rows, followed, bad, faults>>
purchasingVars == <<vars, load, paid, gradeVars, autoSpent>>

PurchasingInit == /\ Init
                  /\ load \in Workload
                  /\ paid = [d \in Deal |-> NoPrice]
                  /\ level = load.initialLevel
                  /\ rows = 0 /\ followed = 0 /\ bad = 0 /\ faults = 0
                  /\ autoSpent = 0

(***************************************************************************)
(* simulateNegotiation(anchoredStrategy, DeterministicSeller, ctx)         *)
(***************************************************************************)
OpeningOffer(d) == MulBp(d.amount, 10000 - Anchor[d.category])

Response(d, offered) == IF offered >= d.reserve THEN "accept"
                        ELSE IF offered < MulBp(d.reserve, 7000) THEN "decline"
                        ELSE "counter"

\* Faulty: a counter within the asking price is accepted.
OnCounterWithinAsk(d, counter) == IF counter <= d.amount THEN counter ELSE NoDeal

OnCounter(d, counter) == IF counter <= d.walkAway THEN counter ELSE NoDeal

\* The seller counters at the reserve.
Bargain(d) == CASE Response(d, OpeningOffer(d)) = "accept" -> OpeningOffer(d)
                [] Response(d, OpeningOffer(d)) = "counter" -> OnCounter(d, d.reserve)
                [] OTHER -> NoDeal

Negotiate(d) == /\ d \in load.deals \cap load.sellers
                /\ stage[d] = "new" /\ paid[d] = NoPrice
                /\ paid' = [paid EXCEPT ![d] = Bargain(d)]
                /\ UNCHANGED <<vars, load, gradeVars, autoSpent>>

(***************************************************************************)
(* autoBuyPermitted(env, ctx)                                              *)
(***************************************************************************)
AutoBuyPermitted(d) == /\ level \in {"L3", "L4"}
                       /\ d.amount <= MaxDeal
                       /\ d.sure
                       /\ d.category \in Whitelist
                       /\ autoSpent + d.amount <= DayCap

PrepareDeal(d) ==
  /\ d \in load.deals
  /\ paid[d] # NoDeal
  /\ stage[d] \in {"new", "denied"}
  /\ stage' = [stage EXCEPT ![d] =
                 IF Outcome(d) = "auto_execute" /\ ~AutoBuyPermitted(d)
                 THEN "needs_approval" ELSE Outcome(d)]
  /\ stale' = stale \ {d}
  /\ UNCHANGED <<sentinelVars, deployed, inCategory, load, paid, gradeVars, autoSpent>>

CommitDeal(d) ==
  /\ Commit(d)
  /\ autoSpent' = IF stage[d] = "auto_execute" THEN autoSpent + d.amount ELSE autoSpent
  /\ UNCHANGED <<load, paid, gradeVars>>

DropDeal(d) == Drop(d) /\ UNCHANGED <<load, paid, gradeVars, autoSpent>>

Edit == /\ load.edits > 0
        /\ load' = [load EXCEPT !.edits = @ - 1]
        /\ Operate
        /\ autoSpent' = IF spent # 0 /\ spent' = 0 THEN 0 ELSE autoSpent
        /\ UNCHANGED <<paid, gradeVars>>

(***************************************************************************)
(* GraduationEngine: record, tryPromote and recordBreach.                  *)
(***************************************************************************)
Eligible == /\ rows >= MinSamples
            /\ 100 * followed >= MinAgreementPct * rows
            /\ 100 * bad <= MaxBadPct * rows

\* Faulty: a class whose record still holds is not demoted.
DemotedLenient == IF Eligible THEN level
                  ELSE IF level = "L4" THEN "L3" ELSE IF level = "L3" THEN "L2" ELSE level

Demoted == IF level = "L4" THEN "L3" ELSE IF level = "L3" THEN "L2" ELSE level

\* What the purchases in hand were prepared on has changed.
Reconsider == /\ stale' = stale \cup Staged
              /\ UNCHANGED <<sentinelVars, deployed, inCategory, stage, paid, autoSpent>>

Come == /\ load.outcomes > 0
        /\ load' = [load EXCEPT !.outcomes = @ - 1]

Record(agreed, ok) ==
  /\ Come
  /\ rows' = rows + 1
  /\ followed' = IF agreed THEN followed + 1 ELSE followed
  /\ bad' = IF ok THEN bad ELSE bad + 1
  /\ level' = IF ~ok /\ level = "L3" THEN Demoted ELSE level
  /\ faults' = IF level' # level THEN 0 ELSE IF ok THEN faults ELSE faults + 1
  /\ Reconsider

RecordBreach == /\ Come
                /\ level' = Demoted
                /\ faults' = IF level' # level THEN 0 ELSE faults + 1
                /\ UNCHANGED <<rows, followed, bad>>
                /\ Reconsider

TryPromote == /\ level = "L2" /\ Eligible
              /\ level' = "L3"
              /\ faults' = 0
              /\ UNCHANGED <<rows, followed, bad, load>>
              /\ Reconsider

PurchasingNext ==
  \/ \E d \in Deal : Negotiate(d) \/ PrepareDeal(d) \/ CommitDeal(d) \/ DropDeal(d)
  \/ Edit
  \/ \E agreed, ok \in BOOLEAN : Record(agreed, ok)
  \/ RecordBreach \/ TryPromote

PurchasingSpec == PurchasingInit /\ [][PurchasingNext]_purchasingVars

-------------------------------------------------------------------------------
(***************************************************************************)
(* "Small ticket, high confidence, whitelisted category, and under a daily *)
(* aggregate cap": a purchase nobody approved, on the state it was         *)
(* prepared on, keeps the day within the cap and is of a class that has    *)
(* not failed since it earned its level; only L4, which a bad outcome does *)
(* not touch, may have (autobuy.ts:5-10, graduate.ts:55-60).               *)
(***************************************************************************)
AutoBuysAreEarned ==
  [][\A d \in Deal : stage[d] = "auto_execute" /\ Bought(d) /\ d \notin stale
       => /\ level = "L3" => faults = 0
          /\ level # "L2"
          /\ autoSpent' <= DayCap /\ d.amount <= MaxDeal]_purchasingVars

(***************************************************************************)
(* No counter above the walk-away is paid: what was agreed is within it or *)
(* was the opening offer, which is anchored on the asking price alone      *)
(* (strategy.ts:46-53, simulate.ts:33-45).                                 *)
(***************************************************************************)
CountersAreAffordable ==
  \A d \in Deal : stage[d] = "bought" /\ paid[d] # NoPrice =>
    /\ paid[d] >= d.reserve
    /\ paid[d] <= d.walkAway \/ paid[d] = MulBp(d.amount, 10000 - Anchor[d.category])

(***************************************************************************)
(* "Never paying above the underwrite walk-away" (strategy.ts:5-7).  It    *)
(* does not hold: the opening offer is compared with no walk-away.         *)
(***************************************************************************)
NeverAboveWalkAway ==
  \A d \in Deal : stage[d] = "bought" /\ paid[d] # NoPrice => paid[d] <= d.walkAway
===============================================================================
