------------------------------- MODULE Sentinel -------------------------------
(***************************************************************************)
(* The Sentinel, packages/policy/src/sentinel.ts: the pre-flight check of  *)
(* every consequential action, and what moves under it.  An ActionScope is *)
(* the set of the switches that name one of its dimensions; a platform and *)
(* its switch are one.                                                     *)
(*                                                                         *)
(* check is a pure function of the kill switches, the account health, the  *)
(* policy and the day's spending, so what can go wrong is how its verdict  *)
(* moves when one of those changes.                                        *)
(***************************************************************************)
EXTENDS Naturals

CONSTANTS Switch, Global,  \* the kill scopes
          Platform,        \* those of kind "platform"
          Request,         \* the ActionRequests that may be checked
          Policy,          \* the policies an operator may put in force
          MaxSpend,        \* a bound on the day's spending
          NoAmount         \* an absent amountCents

Tier == {"T0", "T1", "T2", "T3", "T4", "T5"}
CeremonyTiers == {"T3", "T4"}

ASSUME SentinelAssumption ==
  /\ Global \in Switch
  /\ Platform \subseteq Switch
  /\ NoAmount \notin Nat
  /\ MaxSpend \in Nat
  /\ \A q \in Request : /\ q.scope \subseteq Switch
                        /\ q.tier \in Tier
                        /\ q.amount \in Nat \cup {NoAmount}
  /\ \A p \in Policy : p.cap \in Nat

VARIABLES tripped,    \* the kill switches
          suspended,  \* platforms whose account health is "suspended"
          policy,     \* SentinelDeps.policy
          spent       \* SentinelDeps.spentTodayCents ?? 0

sentinelVars == <<tripped, suspended, policy, spent>>

SentinelInit == /\ tripped = {}
                /\ suspended = {}
                /\ policy \in Policy
                /\ spent = 0

\* killSwitch.isHalted(req.scope)
Halted(q) == Global \in tripped \/ q.scope \cap tripped # {}

Level(q) == IF q.gate \in DOMAIN policy.autonomy THEN policy.autonomy[q.gate] ELSE "L2"

\* Faulty: an L4 action is let through before anything is checked.
VerdictL4First(q) == IF Level(q) = "L4" THEN "allow"
                     ELSE IF Halted(q) THEN "kill_switch" ELSE "gate"

\* check(req), in the order of its early returns.
Verdict(q) ==
  IF Halted(q) THEN "kill_switch"
  ELSE IF q.scope \cap suspended # {} THEN "account_suspended"
  ELSE IF q.tier = "T5" THEN "t5_excluded"
  ELSE IF q.tier \notin policy.tiers THEN "tier_not_enabled"
  ELSE IF q.tier \in CeremonyTiers \ policy.signed THEN "opt_in_required"
  ELSE IF q.amount = 0 THEN "invalid_amount"
  ELSE IF q.amount # NoAmount /\ spent + q.amount > policy.cap THEN "spend_cap_exceeded"
  ELSE IF Level(q) \in {"L3", "L4"} THEN "allow"
  ELSE "gate"

(***************************************************************************)
(* What changes the inputs of check.                                       *)
(***************************************************************************)
Trip(s) == /\ tripped' = tripped \cup {s}
           /\ UNCHANGED <<suspended, policy, spent>>

Reset(s) == /\ tripped' = tripped \ {s}
            /\ UNCHANGED <<suspended, policy, spent>>

\* The owner of the account health map.
Suspend(p) == /\ suspended' = suspended \cup {p}
              /\ UNCHANGED <<tripped, policy, spent>>

Reinstate(p) == /\ suspended' = suspended \ {p}
                /\ UNCHANGED <<tripped, policy, spent>>

\* The operator: a new policy, signatures included.
EditPolicy(p) == /\ policy' = p
                 /\ UNCHANGED <<tripped, suspended, spent>>

\* The owner of spentTodayCents; a new day starts from nothing.
Spend(a) == /\ spent + a <= MaxSpend
            /\ spent' = spent + a
            /\ UNCHANGED <<tripped, suspended, policy>>

NewDay == /\ spent' = 0
          /\ UNCHANGED <<tripped, suspended, policy>>

OperatorStep == \/ \E s \in Switch : Trip(s) \/ Reset(s)
                \/ \E p \in Platform : Suspend(p) \/ Reinstate(p)
                \/ \E p \in Policy : EditPolicy(p)

SentinelNext == \/ OperatorStep
                \/ \E a \in 1 .. MaxSpend : Spend(a)
                \/ NewDay

SentinelSpec == SentinelInit /\ [][SentinelNext]_sentinelVars

-------------------------------------------------------------------------------
SentinelTypeOK == /\ tripped \in SUBSET Switch
                  /\ suspended \in SUBSET Platform
                  /\ policy \in Policy
                  /\ spent \in 0 .. MaxSpend

Locked == {"kill_switch", "account_suspended", "t5_excluded"}

Rank(v) == IF v = "allow" THEN 2 ELSE IF v = "gate" THEN 1 ELSE 0

(***************************************************************************)
(* "The locked invariants that no policy edit may override": whatever the  *)
(* operator puts in force, a request that a switch, a suspension or the T5 *)
(* exclusion denies stays denied, for that reason (sentinel.ts:8-12).      *)
(***************************************************************************)
NoPolicyEditOverrides ==
  [][\A q \in Request : policy' # policy /\ Verdict(q) \in Locked
                        => Verdict(q)' = Verdict(q)]_sentinelVars

(***************************************************************************)
(* Tightening never loosens: a step that trips switches, suspends accounts *)
(* or spends moves no request from denied to gated or from gated to        *)
(* allowed, through whatever reasons its verdict passes (sentinel.ts:80).  *)
(***************************************************************************)
OnlyLooseningLoosens ==
  [][/\ tripped \subseteq tripped' /\ suspended \subseteq suspended'
     /\ policy' = policy /\ spent <= spent'
     => \A q \in Request : Rank(Verdict(q))' <= Rank(Verdict(q))]_sentinelVars
===============================================================================
