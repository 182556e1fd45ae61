------------------------------- MODULE Learning -------------------------------
(***************************************************************************)
(* The learner, packages/learn, on what a simulation leaves behind: the    *)
(* multipliers of the categories are refitted (multipliers.ts), and a      *)
(* refit becomes the champion when it is better by a margin on a window of *)
(* the sales (calibrate.ts, registry.ts).  Each call brings what it works  *)
(* on: a refit its observations and the strength of the prior, a promotion *)
(* its window and the margin.                                              *)
(*                                                                         *)
(* Ratios and errors are in basis points, cut down.  All units are in good *)
(* condition, so that a category stands for its pair with a band.          *)
(***************************************************************************)
EXTENDS Simulation

CONSTANTS Parent,        \* parentId, by category
          Strengths,     \* what ShrinkageConfig may ask for
          Margins,       \* what minImprovementBp may be
          MaxTrainings,  \* challengers that are proposed (a bound)
          NoModel

ASSUME LearningAssumption == Strengths \subseteq Nat /\ Margins \subseteq Nat

VARIABLES champion, challenger, archive,  \* ModelRegistry
          judged,     \* history: the window and the margin of each promotion
          trainings

modelVars == <<champion, challenger, archive, judged>>
learnVars == <<modelVars, trainings>>

(***************************************************************************)
(* A window is a stretch of the sales, from one to another.                *)
(***************************************************************************)
Windows == {w \in (DOMAIN flips) \X (DOMAIN flips) : w[1] <= w[2]}
SoldIn(w) == SubSeq(flips, w[1], w[2])

(***************************************************************************)
(* refitMultipliers(obs, cfg): the mean of a category, shrunk towards that *)
(* of its parent, which is shrunk towards the mean of all.                 *)
(***************************************************************************)
Ratio(f) == (f.sale * 10000) \div f.p50

Observations(sold) ==
  [i \in DOMAIN sold |-> [category |-> sold[i].category, parent |-> Parent[sold[i].category],
                          ratio |-> Ratio(sold[i])]]

Ratios(obs) == SumOver(obs, LAMBDA o : o.ratio)

GlobalMean(obs) == IF DOMAIN obs = {} THEN 10000 ELSE Ratios(obs) \div Size(obs)

Shrink(group, prior, k) == (Ratios(group) + k * prior) \div (Size(group) + k)

ParentEstimate(obs, parent, k) ==
  Shrink(RestrictValues(obs, LAMBDA o : o.parent = parent), GlobalMean(obs), k)

RefitMultipliers(obs, k) ==
  [c \in {obs[i].category : i \in DOMAIN obs} |->
     Shrink(RestrictValues(obs, LAMBDA o : o.category = c), ParentEstimate(obs, Parent[c], k), k)]

(***************************************************************************)
(* MultiplierValuationModel and its score on a dataset                     *)
(***************************************************************************)
Worth(f, multiplier) == RoundDiv(f.p50 * multiplier, 10000)

Predict(model, f) == Worth(f, IF f.category \in DOMAIN model THEN model[f.category] ELSE 10000)

Miss(model, f) == (Abs(Predict(model, f) - f.sale) * 10000) \div Max({1, f.sale})
Mape(model, data) ==
  IF data = <<>> THEN 0 ELSE SumOver(data, LAMBDA f : Miss(model, f)) \div Len(data)

\* Faulty: any improvement will do.
PromoteAny(data, margin) == Mape(challenger, data) < Mape(champion, data)

\* evaluatePromotion(champion, challenger, dataset, cfg).promote
Promote(data, margin) ==
  LET old == Mape(champion, data)
      new == Mape(challenger, data)
  IN new < old /\ (old - new) * 10000 >= margin * old

(***************************************************************************)
(* ModelRegistry: a champion that trusts the appraisal, then refits.       *)
(***************************************************************************)
Prior == <<>>

LearnInit == /\ Init
             /\ champion = Prior /\ challenger = NoModel /\ archive = <<>>
             /\ judged = <<>>
             /\ trainings = 0

ProposeChallenger(w, k) ==
  /\ phase = "done" /\ trainings < MaxTrainings
  /\ challenger' = RefitMultipliers(Observations(SoldIn(w)), k)
  /\ trainings' = trainings + 1
  /\ UNCHANGED <<vars, champion, archive, judged>>

\* A challenger that loses stays; without one, tryPromote throws.
TryPromote(w, margin) ==
  /\ challenger # NoModel
  /\ Promote(SoldIn(w), margin)
  /\ archive' = Append(archive, champion)
  /\ judged' = Append(judged, [window |-> w, margin |-> margin])
  /\ champion' = challenger
  /\ challenger' = NoModel
  /\ UNCHANGED <<vars, trainings>>

LearnNext == \/ Next /\ UNCHANGED learnVars
             \/ \E w \in Windows, k \in Strengths : ProposeChallenger(w, k)
             \/ \E w \in Windows, margin \in Margins : TryPromote(w, margin)

LearnSpec == LearnInit /\ [][LearnNext]_<<vars, learnVars>>

-------------------------------------------------------------------------------
\* The models in the order they were champion.
Champions == Append(archive, champion)

Realized == {10000} \cup {Ratio(flips[i]) : i \in DOMAIN flips}

StaysWithin(model) ==
  \A n \in DOMAIN flips : \E low, high \in Realized :
    Predict(model, flips[n]) \in Worth(flips[n], low) .. Worth(flips[n], high)

\* Of two champions with promotions in one window between them.
IsAhead(i, j) ==
  LET data == SoldIn(judged[i].window)
  IN /\ Champions[i] # Champions[j]
     /\ \A k \in i .. j - 1 :
          Mape(Champions[j], data) * 10000
            <= Mape(Champions[i], data) * (10000 - judged[k].margin)

(***************************************************************************)
(* What is left of "the safety rail that stops a noisy refit from silently *)
(* degrading valuations" when every call may bring another window and      *)
(* margin (registry.ts:5-9, 95-104).  No champion, not even one refitted   *)
(* on a single sale and promoted on another, values a unit outside what    *)
(* sales and appraisals brought: its multiplier is shrunk towards them     *)
(* (multipliers.ts:3-8).  And while the window stays the same, a champion  *)
(* is better in it than every model it replaced there, by each margin that *)
(* was asked for, so that none of them returns before the window moves.    *)
(***************************************************************************)
DriftIsBounded ==
  /\ \A i \in DOMAIN Champions : StaysWithin(Champions[i])
  /\ \A i, j \in DOMAIN Champions :
       i < j /\ (\A k \in i .. j - 1 : judged[k].window = judged[i].window) => IsAhead(i, j)

\* Not so: no model that was replaced is ever champion again.  A window that
\* moves brings one back.
ReplacedModelsStayOut ==
  \A i, j \in DOMAIN Champions : i < j => Champions[i] # Champions[j]
===============================================================================
