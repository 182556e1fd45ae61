-------------------------------- MODULE Engine --------------------------------
(***************************************************************************)
(* The engine, packages/engine/src/engine.ts: listings are ingested into   *)
(* the shared store, and fresh ones identified (packages/identify),        *)
(* valued, ranked and alerted.  The identifier's LLM is metered by the     *)
(* daily BudgetGuard (packages/llm/src/budget.ts), whose pressure() it     *)
(* reads.  Calls overlap: runs over sources, share-sheet calls of          *)
(* underwriteRaw, and the items of runAdapter, which only ingests.         *)
(*                                                                         *)
(* A listing's fate in the pure stages (appraisal, underwriting, score) is *)
(* any of the outcomes those stages distinguish.                           *)
(***************************************************************************)
EXTENDS ListingStore, FiniteSets

CONSTANTS Run, Share,        \* calls of run and of underwriteRaw
          Junk,              \* contents the F0 filter drops
          Weak,              \* contents whose best pre-match is weak
          Cap,               \* dailyCapUsd, in the unit of Costs
          Costs,             \* what one LLM call may cost
          MaxSeen,           \* items each run's source yields (a bound)
          MaxFed,            \* items runAdapter ingests (a bound)
          NoKey, NoCall

Call == Run \cup Share

ASSUME EngineAssumption ==
  /\ Run \cap Share = {}
  /\ Junk \subseteq Content /\ Weak \subseteq Content
  /\ Cap \in Nat \ {0} /\ Costs \subseteq Nat \ {0}
  /\ MaxSeen \in [Run -> Nat] /\ MaxFed \in Nat
  /\ NoKey \notin Key /\ NoCall \notin Call

\* Finitely many calls overlap, and a completion has a dearest price (budget.ts:52).
ASSUME SpendAssumption ==
  /\ IsFiniteSet(Call)
  /\ \E m \in Costs : \A n \in Costs : n <= m

VARIABLES at,       \* where each call is
          item,     \* the listing it is processing
          verdict,  \* its OpportunityResult.taken, while the alert is sent
          seen,     \* items a run took from its source
          fed,      \* items runAdapter took from its source
          opps,     \* keys of its opportunities
          alerts,   \* keys of its alerts
          taken,    \* keys it counts as taken on paper
          spent,    \* BudgetGuard.#spentUsd
          paid,     \* history: what providers charged since the reset
          creator,  \* history: the call that created each listing
          sent      \* history: times each listing was alerted

stageVars == <<at, item, verdict>>
resultVars == <<opps, alerts, taken>>
history == <<paid, creator, sent>>
sourceVars == <<seen, fed>>
vars == <<storeVars, stageVars, sourceVars, resultVars, spent, history>>

Init == /\ StoreInit
        /\ at = [c \in Call |-> IF c \in Share THEN "idle" ELSE "polling"]
        /\ item = [c \in Call |-> NoKey]
        /\ verdict = [c \in Call |-> FALSE]
        /\ seen = [r \in Run |-> 0]
        /\ fed = 0
        /\ opps = [c \in Call |-> {}]
        /\ alerts = [c \in Call |-> {}]
        /\ taken = [c \in Call |-> {}]
        /\ spent = 0
        /\ paid = 0
        /\ creator = [k \in Key |-> NoCall]
        /\ sent = [k \in Key |-> 0]

(***************************************************************************)
(* How a stage ends: with an opportunity, or by an error nobody catches.   *)
(***************************************************************************)
Goto(c, place) == at' = [at EXCEPT ![c] = place]

\* `opportunities.push(opp)`; underwriteRaw returns it.
Conclude(c, k) == /\ opps' = [opps EXCEPT ![c] = @ \cup {k}]
                  /\ Goto(c, IF c \in Share THEN "returned" ELSE "polling")
                  /\ item' = [item EXCEPT ![c] = NoKey]

Throw(c) == Goto(c, "threw") /\ UNCHANGED <<item, opps>>

(***************************************************************************)
(* BudgetedLlm.complete up to its await, in the stage that asks.  Nothing  *)
(* up to run() catches its BudgetExceededError.                            *)
(***************************************************************************)
\* Faulty: the cap is not looked at.
ExhaustedNever(s) == FALSE

Exhausted(s) == s >= Cap

AskLlm(c, k, stage, s) ==
  /\ item' = [item EXCEPT ![c] = k]
  /\ Goto(c, IF Exhausted(s) THEN "threw" ELSE stage)
  /\ UNCHANGED opps

\* pressure() > 0.8
UnderPressure == 10 * spent > 8 * Cap

\* process(listing) up to its first real wait: F0, F1, then extraction.
Process(c, k, x) == IF x \in Junk \/ (UnderPressure /\ x \in Weak)
                    THEN Conclude(c, k)
                    ELSE AskLlm(c, k, "extracting", spent)

(***************************************************************************)
(* The source yields: `for await`, the abort check, ingest, the dedupe.    *)
(***************************************************************************)
Credit(c, k) == creator' = IF Created(k) THEN [creator EXCEPT ![k] = c] ELSE creator

Arrives(r, raw) ==
  /\ at[r] = "polling"
  /\ seen[r] < MaxSeen[r]
  /\ seen' = [seen EXCEPT ![r] = @ + 1]
  /\ \/ /\ raw = Poisoned             \* quarantined
        /\ UNCHANGED <<storeVars, at, item, opps, creator>>
     \/ /\ raw # Poisoned
        /\ Upsert(raw[1], raw[2])
        /\ Credit(r, raw[1])
        /\ IF Fresh(raw[1], raw[2]) THEN Process(r, raw[1], raw[2])
                                    ELSE UNCHANGED <<at, item, opps>>
  /\ UNCHANGED <<fed, verdict, alerts, taken, spent, paid, sent>>

\* It ends, or the run was aborted and breaks out of the loop.
SourceEnds(r) == /\ at[r] = "polling"
                 /\ Goto(r, "returned")
                 /\ UNCHANGED <<storeVars, item, verdict, sourceVars, resultVars,
                                spent, history>>

SourceThrows(r) == /\ at[r] = "polling"
                   /\ Throw(r)
                   /\ UNCHANGED <<storeVars, verdict, sourceVars, alerts, taken,
                                  spent, paid, creator, sent>>

\* An item of runAdapter, whose loop keeps nothing but its counters.
Feed(k, x) == /\ fed < MaxFed
              /\ fed' = fed + 1
              /\ Upsert(k, x)
              /\ UNCHANGED <<stageVars, seen, resultVars, spent, history>>

\* underwriteRaw(raw): whether or not the listing is fresh.
Underwrite(c, raw) ==
  /\ at[c] = "idle"
  /\ IF raw = Poisoned
     THEN Throw(c) /\ UNCHANGED <<storeVars, creator>>
     ELSE /\ Upsert(raw[1], raw[2])
          /\ Credit(c, raw[1])
          /\ Process(c, raw[1], raw[2])
  /\ UNCHANGED <<verdict, sourceVars, alerts, taken, spent, paid, sent>>

(***************************************************************************)
(* The LLM answers.  The cost is recorded before the answer is parsed.     *)
(***************************************************************************)
Asking(c) == at[c] \in {"extracting", "adjudicating"}

Identified(c) == Goto(c, "routing") /\ UNCHANGED <<item, opps>>

\* Two candidates the embeddings do not tell apart: a second call chooses one or none.
Adjudicate(c, s) == /\ at[c] = "extracting"
                    /\ AskLlm(c, item[c], "adjudicating", s)

LlmAnswers(c, cost, parsed) ==
  /\ Asking(c)
  /\ spent' = spent + cost
  /\ paid' = paid + cost
  /\ IF ~parsed THEN Throw(c)
     ELSE \/ Identified(c)
          \/ Conclude(c, item[c])
          \/ Adjudicate(c, spent + cost)
  /\ UNCHANGED <<storeVars, verdict, sourceVars, alerts, taken, creator, sent>>

LlmRejects(c) == /\ Asking(c)
                 /\ Throw(c)
                 /\ UNCHANGED <<storeVars, verdict, sourceVars, alerts, taken, 
                                spent, paid, creator, sent>>

\* The owner of the guard, once a day.
ResetBudget == /\ spent' = 0 /\ paid' = 0
               /\ UNCHANGED <<storeVars, stageVars, sourceVars, resultVars,
                              creator, sent>>

(***************************************************************************)
(* CompRouter.fetch never rejects; what follows it is synchronous.         *)
(***************************************************************************)
NothingToValue(c) == /\ at[c] = "routing"
                     /\ Conclude(c, item[c])
                     /\ UNCHANGED <<storeVars, verdict, sourceVars, alerts, taken,
                                    spent, paid, creator, sent>>

Taken(hardBlock, floors, high) == ~hardBlock /\ floors /\ high

\* bandFor: high is a score of at least 55; an archived band has no channel.
Rank(c, hardBlock, floors, high) ==
  LET k == item[c]
      take == Taken(hardBlock, floors, high)
  IN
  /\ at[c] = "routing"
  /\ IF c \in Run /\ high /\ ~hardBlock
     THEN /\ opps' = [opps EXCEPT ![c] = @ \cup {k}]
          /\ Goto(c, "alerting")
          /\ verdict' = [verdict EXCEPT ![c] = take]
          /\ UNCHANGED <<item, taken>>
     ELSE /\ Conclude(c, k)
          /\ taken' = IF c \in Run /\ take
                      THEN [taken EXCEPT ![c] = @ \cup {k}] ELSE taken
          /\ UNCHANGED verdict
  /\ UNCHANGED <<storeVars, sourceVars, alerts, spent, paid, creator, sent>>

(***************************************************************************)
(* `await this.alerter.maybeAlert(...)`, then the paper trade.             *)
(***************************************************************************)
Alerted(c) ==
  /\ at[c] = "alerting"
  /\ sent' = [sent EXCEPT ![item[c]] = @ + 1]
  /\ alerts' = [alerts EXCEPT ![c] = @ \cup {item[c]}]
  /\ taken' = IF verdict[c] THEN [taken EXCEPT ![c] = @ \cup {item[c]}] ELSE taken
  /\ verdict' = [verdict EXCEPT ![c] = FALSE]
  /\ item' = [item EXCEPT ![c] = NoKey]
  /\ Goto(c, "polling")
  /\ UNCHANGED <<storeVars, sourceVars, opps, spent, paid, creator>>

\* send() rejects, delivered or not.
NotifierThrows(c) ==
  /\ at[c] = "alerting"
  /\ sent' \in {sent, [sent EXCEPT ![item[c]] = @ + 1]}
  /\ Throw(c)
  /\ UNCHANGED <<storeVars, verdict, sourceVars, alerts, taken, spent, paid, creator>>

SourceStep(r) == (\E raw \in Raw : Arrives(r, raw)) \/ SourceEnds(r) \/ SourceThrows(r)

StageStep(c) == \/ \E cost \in Costs, parsed \in BOOLEAN : LlmAnswers(c, cost, parsed)
                \/ LlmRejects(c)
                \/ NothingToValue(c)
                \/ \E b, f, h \in BOOLEAN : Rank(c, b, f, h)
                \/ Alerted(c) \/ NotifierThrows(c)

Next == \/ \E r \in Run : SourceStep(r)
        \/ \E s \in Share, raw \in Raw : Underwrite(s, raw)
        \/ \E c \in Call : StageStep(c)
        \/ \E raw \in Raw \ {Poisoned} : Feed(raw[1], raw[2])
        \/ ResetBudget

Spec == Init /\ [][Next]_vars

-------------------------------------------------------------------------------
Working == {"extracting", "adjudicating", "routing", "alerting"}
Settled == {"returned", "threw"}

TypeOK == /\ StoreTypeOK
          /\ at \in [Call -> {"idle", "polling"} \cup Working \cup Settled]
          /\ item \in [Call -> Key \cup {NoKey}]
          /\ verdict \in [Call -> BOOLEAN]
          /\ seen \in [Run -> Nat] /\ \A r \in Run : seen[r] <= MaxSeen[r]
          /\ fed \in 0 .. MaxFed
          /\ opps \in [Call -> SUBSET Key]
          /\ alerts \in [Call -> SUBSET Key]
          /\ taken \in [Call -> SUBSET Key]
          /\ spent \in Nat /\ paid \in Nat
          /\ creator \in [Key -> Call \cup {NoCall}]
          /\ sent \in [Key -> Nat]

(***************************************************************************)
(* A listing is taken up once: over all overlapping runs, the one that     *)
(* found it fresh has it as an opportunity, is at work on it or threw over *)
(* it; no other run touches it, and it is alerted at most once.  A listing *)
(* a run forgets is never seen again, because the next observation is a    *)
(* duplicate (engine.ts:93-110).                                           *)
(***************************************************************************)
TakesUp(r, k) == k \in opps[r] \/ item[r] = k

ListingsAreTakenUpOnce ==
  \A k \in Key : /\ {r \in Run : TakesUp(r, k)} = {creator[k]} \cap Run
                 /\ sent[k] <= 1

(***************************************************************************)
(* Nothing is taken on paper in silence: what a run counts as taken is one *)
(* of its opportunities and one of its alerts, and those were delivered    *)
(* (engine.ts:106-113, 209).                                               *)
(***************************************************************************)
TakenIsAlerted == \A r \in Run : /\ taken[r] \subseteq alerts[r]
                                 /\ alerts[r] \subseteq opps[r]
                                 /\ \A k \in alerts[r] : sent[k] = 1

(***************************************************************************)
(* The daily cap holds up to the calls that overlap: each may pass the     *)
(* check before the others are charged, so the day costs at most one call  *)
(* of each more than the cap, also across a reset and with answers that    *)
(* are paid for and cannot be parsed (budget.ts:49-51).                    *)
(***************************************************************************)
MaxCost == CHOOSE m \in Costs : \A n \in Costs : n <= m

SpendIsBounded == paid <= Cap - 1 + MaxCost * Cardinality(Run \cup Share)
===============================================================================
