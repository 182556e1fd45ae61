-------------------------------- MODULE Outbox --------------------------------
(***************************************************************************)
(* The idempotency store of packages/exit/src/outbox.ts.                   *)
(*                                                                         *)
(* `once(key, fn)` looks in #done, then in #inflight, and only then runs   *)
(* fn.  The look-up and the insertion of the new promise happen in one     *)
(* synchronous stretch, so Once is one action.  fn itself runs across      *)
(* awaits: FnReturns and FnThrows are the moments it settles, and a caller *)
(* that shares the promise resumes in a step of its own (Resume).          *)
(*                                                                         *)
(* A rejected fn never reaches `#inflight.delete(key)`: its promise stays  *)
(* in the map, settled, for the life of the store.                         *)
(***************************************************************************)
EXTENDS Naturals

CONSTANTS Caller,    \* the calls of once() that are made
          Key,       \* the natural keys they name
          Value,     \* what fn may resolve to
          Threw,     \* the outcome of an fn that rejected
          NoKey,     \* a caller that has not called
          NoOutcome  \* no outcome yet

Outcome == Value \cup {Threw}

ASSUME OutboxAssumption == /\ Threw \notin Value
                           /\ NoOutcome \notin Outcome
                           /\ NoKey \notin Key

VARIABLES done,      \* #done: key -> the cached result
          inflight,  \* #inflight: key -> state of the promise kept for it
          asked,     \* asked[c]: the key caller c passed
          answer,    \* answer[c]: how the promise returned to c settled
          runs       \* runs[k]: how often fn has been started for k

outboxVars == <<done, inflight, asked, answer, runs>>

OutboxInit == /\ done = [k \in Key |-> NoOutcome]
              /\ inflight = [k \in Key |-> "absent"]
              /\ asked = [c \in Caller |-> NoKey]
              /\ answer = [c \in Caller |-> NoOutcome]
              /\ runs = [k \in Key |-> 0]

(***************************************************************************)
(* once(key, fn), up to its first await.                                   *)
(***************************************************************************)
Ask(c, k) == /\ asked[c] = NoKey
             /\ asked' = [asked EXCEPT ![c] = k]

\* `if (this.#done.has(key)) return this.#done.get(key)`
Replay(c, k) == /\ done[k] # NoOutcome
                /\ answer' = [answer EXCEPT ![c] = done[k]]
                /\ UNCHANGED <<done, inflight, runs>>

\* `if (existing) return existing`
Share(k) == /\ done[k] = NoOutcome
            /\ inflight[k] # "absent"
            /\ UNCHANGED <<done, inflight, answer, runs>>

\* Faulty: the cache of results is not consulted.
StartUncached(k) == /\ inflight[k] = "absent"
                    /\ inflight' = [inflight EXCEPT ![k] = "pending"]
                    /\ runs' = [runs EXCEPT ![k] = @ + 1]
                    /\ UNCHANGED <<done, answer>>

\* fn is started and its promise put in #inflight.
Start(k) == /\ done[k] = NoOutcome
            /\ inflight[k] = "absent"
            /\ inflight' = [inflight EXCEPT ![k] = "pending"]
            /\ runs' = [runs EXCEPT ![k] = @ + 1]
            /\ UNCHANGED <<done, answer>>

Once(c, k) == Ask(c, k) /\ (Replay(c, k) \/ Share(k) \/ Start(k))

(***************************************************************************)
(* The promise made for k settles.                                         *)
(***************************************************************************)
FnReturns(k, v) == /\ inflight[k] = "pending"
                   /\ done' = [done EXCEPT ![k] = v]
                   /\ inflight' = [inflight EXCEPT ![k] = "absent"]
                   /\ UNCHANGED <<asked, answer, runs>>

\* Faulty: the promise is forgotten before those who share it have seen it.
FnThrowsForgotten(k) == /\ inflight[k] = "pending"
                        /\ inflight' = [inflight EXCEPT ![k] = "absent"]
                        /\ UNCHANGED <<done, asked, answer, runs>>

\* `await fn()` throws: neither #done.set nor #inflight.delete is reached.
FnThrows(k) == /\ inflight[k] = "pending"
               /\ inflight' = [inflight EXCEPT ![k] = "rejected"]
               /\ UNCHANGED <<done, asked, answer, runs>>

\* How the one promise ever made for k settled.
OutcomeOf(k) == IF inflight[k] = "rejected" THEN Threw ELSE done[k]

\* The continuation of a caller that holds the shared promise.
Resume(c) == /\ asked[c] # NoKey
             /\ answer[c] = NoOutcome
             /\ OutcomeOf(asked[c]) # NoOutcome
             /\ answer' = [answer EXCEPT ![c] = OutcomeOf(asked[c])]
             /\ UNCHANGED <<done, inflight, asked, runs>>

Settle(k) == (\E v \in Value : FnReturns(k, v)) \/ FnThrows(k)

OutboxNext == \/ \E c \in Caller, k \in Key : Once(c, k)
              \/ \E k \in Key : Settle(k)
              \/ \E c \in Caller : Resume(c)

OutboxSpec == OutboxInit /\ [][OutboxNext]_outboxVars

(***************************************************************************)
(* Every fn settles (an assumption on what is passed to once), and the     *)
(* runtime resumes every continuation whose promise is settled.            *)
(***************************************************************************)
Fairness == /\ \A k \in Key : WF_outboxVars(Settle(k))
            /\ \A c \in Caller : WF_outboxVars(Resume(c))

OutboxFairSpec == OutboxSpec /\ Fairness

-------------------------------------------------------------------------------
OutboxTypeOK == /\ done \in [Key -> Value \cup {NoOutcome}]
                /\ inflight \in [Key -> {"absent", "pending", "rejected"}]
                /\ asked \in [Caller -> Key \cup {NoKey}]
                /\ answer \in [Caller -> Outcome \cup {NoOutcome}]
                /\ runs \in [Key -> Nat]

(***************************************************************************)
(* The effect of a key is started at most once however many callers name   *)
(* it and however their calls interleave with its end, whether it returned *)
(* or threw (outbox.ts:15-28, "exactly-once-effective").                   *)
(***************************************************************************)
RunsOnce == \A k \in Key : runs[k] <= 1

(***************************************************************************)
(* Two callers of the same key that have both been answered were told the  *)
(* same thing, whether one shared the promise and the other came later and *)
(* read the cache, or both met a rejection (outbox.ts:16-18).              *)
(***************************************************************************)
SameAnswer == \A c, d \in Caller :
                 /\ asked[c] = asked[d]
                 /\ answer[c] # NoOutcome
                 /\ answer[d] # NoOutcome
                 => answer[c] = answer[d]

(***************************************************************************)
(* No caller waits forever: whoever called once() is eventually answered,  *)
(* also when it arrives after a rejection (outbox.ts:17-18).               *)
(***************************************************************************)
EveryoneAnswered == \A c \in Caller :
                       asked[c] # NoKey ~> answer[c] # NoOutcome

(***************************************************************************)
(* The store implements the abstract one: the effect of k has ended when   *)
(* its promise has settled, and an answered caller is a told one.          *)
(***************************************************************************)
Cell == INSTANCE OnceCell WITH effect <- [k \in Key |-> OutcomeOf(k)],
                               told <- answer

ImplementsOnceCell == Cell!CellSpec
===============================================================================
