------------------------------- MODULE Transport -------------------------------
(***************************************************************************)
(* The edge to the network: withRetry around a call that goes through the  *)
(* circuit breaker (packages/net/src/resilience.ts), the token bucket of   *)
(* the same file, and the polls of the eBay adapter, which share the token *)
(* of EbayOAuth (packages/adapters/ebay/src/oauth.ts, adapter.ts).         *)
(*                                                                         *)
(* A tick is half of the minute token() keeps in hand.  How long a retry   *)
(* sleeps is left open: it wakes some time.  The bucket counts parts of a  *)
(* token, Parts to the token, and its clock may be set back.               *)
(***************************************************************************)
EXTENDS CircuitBreaker, FiniteSetsExt

CONSTANTS Poll,        \* polls under way at once
          Lifetime,    \* expires_in, in ticks
          Spare,       \* the ticks a token must have left to be handed out
          MaxLatency,  \* ticks a token request takes (a bound)
          MaxPolling,  \* ticks a poll takes (a bound)
          BucketCapacity, Refill, Parts,  \* a TokenBucket: tokens, parts a tick, parts a token
          MaxClock,    \* ticks of the bucket's clock (a bound)
          MaxDue,      \* parts due up to which that clock is set back (a bound)
          Workload,    \* the calls, with their maxAttempts, the polls, and whether a
                       \* source takes tokens
          NoToken

\* A token outlives its own request by more than is kept in hand.
ASSUME TransportAssumption ==
  /\ {Lifetime, Spare, MaxLatency, MaxPolling, BucketCapacity, Refill, Parts} \subseteq Nat
  /\ MaxLatency + Spare < Lifetime
  /\ Parts > 0
  /\ \A w \in Workload : w.maxAttempts \in Nat \ {0}

VARIABLES load,
          try, attempt,  \* withRetry, for each call
          cached,        \* #token: the ticks its expiresAt and its life have left
          poll,          \* where each poll is, since when, and with which token
          bucket,        \* TokenBucket: capacity, refillPerSec, #tokens and #last
          clock,         \* now()
          window         \* history: parts taken and parts due since it was opened

oauthVars == <<cached, poll>>
limitVars == <<bucket, clock, window>>
callVars == <<vars, try, attempt>>
transportVars == <<callVars, load, oauthVars, limitVars>>

Idle == [at |-> "idle", since |-> 0, live |-> 0]

TransportInit == /\ Init
                 /\ load \in Workload
                 /\ try = [c \in Call |-> "new"]
                 /\ attempt = [c \in Call |-> 0]
                 /\ cached = NoToken
                 /\ poll = [p \in Poll |-> Idle]
                 /\ bucket = [cap |-> BucketCapacity * Parts, rate |-> Refill,
                              tokens |-> BucketCapacity * Parts, last |-> 0]
                 /\ clock = 0
                 /\ window = [taken |-> 0, due |-> BucketCapacity * Parts, open |-> FALSE]

(***************************************************************************)
(* withRetry(fn, opts), where fn is an exec of the breaker.  A rejection   *)
(* by the breaker is an error like any other, and a fatal one is thrown.   *)
(***************************************************************************)
Start(c) == /\ c \in load.calls
            /\ try[c] = "new"
            /\ try' = [try EXCEPT ![c] = "trying"]
            /\ attempt' = [attempt EXCEPT ![c] = 1]
            /\ UNCHANGED <<vars, load, oauthVars, limitVars>>

Attempt(c) == /\ try[c] = "trying"
              /\ Reject(c) \/ StartProbe(c) \/ StartCall(c)
              /\ UNCHANGED <<load, try, attempt, oauthVars, limitVars>>

Answer(c) == /\ Settles(c)
             /\ UNCHANGED <<load, try, attempt, oauthVars, limitVars>>

Erred(c) == try[c] = "trying" /\ call[c] \in {"failed", "rejected"}

BackOff(c) == /\ Erred(c) /\ attempt[c] < load.maxAttempts
              /\ try' = [try EXCEPT ![c] = "sleeping"]
              /\ UNCHANGED <<vars, load, attempt, oauthVars, limitVars>>

\* A fatal error, or the last attempt.
Rethrow(c) == /\ Erred(c)
              /\ try' = [try EXCEPT ![c] = "threw"]
              /\ UNCHANGED <<vars, load, attempt, oauthVars, limitVars>>

\* Faulty: each turn of the loop begins to count anew.
WakeAnew(c) == /\ try[c] = "sleeping"
               /\ try' = [try EXCEPT ![c] = "trying"]
               /\ attempt' = [attempt EXCEPT ![c] = 1]
               /\ Moves(c, "idle")
               /\ UNCHANGED <<state, results, age, probing, load, oauthVars, limitVars>>

Wake(c) == /\ try[c] = "sleeping"
           /\ try' = [try EXCEPT ![c] = "trying"]
           /\ attempt' = [attempt EXCEPT ![c] = @ + 1]
           /\ Moves(c, "idle")
           /\ UNCHANGED <<state, results, age, probing, load, oauthVars, limitVars>>

(***************************************************************************)
(* token(), which reads the clock before it awaits the answer: the expiry  *)
(* it caches counts from there, and the token lives from when the server   *)
(* issued it.  poll() asks for it once, for all its queries.               *)
(***************************************************************************)
Usable == cached # NoToken /\ cached.left > Spare

Polling(live) == [at |-> "polling", since |-> 0, live |-> live]

Authorize(p) == /\ p \in load.polls
                /\ poll[p].at = "idle"
                /\ poll' = [poll EXCEPT ![p] = IF Usable THEN Polling(cached.live)
                                               ELSE [Idle EXCEPT !.at = "asking"]]
                /\ UNCHANGED <<callVars, load, cached, limitVars>>

\* Faulty: the expiry counts from the answer.
TokenArrivesNow(p) ==
  /\ poll[p].at = "asking"
  /\ \E ago \in 0 .. poll[p].since :
       /\ cached' = [left |-> Lifetime, live |-> Lifetime - ago]
       /\ poll' = [poll EXCEPT ![p] = Polling(Lifetime - ago)]
  /\ UNCHANGED <<callVars, load, limitVars>>

TokenArrives(p) ==
  /\ poll[p].at = "asking"
  /\ \E ago \in 0 .. poll[p].since :
       /\ cached' = [left |-> Lifetime - poll[p].since, live |-> Lifetime - ago]
       /\ poll' = [poll EXCEPT ![p] = Polling(Lifetime - ago)]
  /\ UNCHANGED <<callVars, load, limitVars>>

\* The refresh fails, which rejects the poll, or the poll has been through its queries.
PollEnds(p) == /\ poll[p].at # "idle"
               /\ poll' = [poll EXCEPT ![p] = Idle]
               /\ UNCHANGED <<callVars, load, cached, limitVars>>

(***************************************************************************)
(* The clock.                                                              *)
(***************************************************************************)
Less(n) == Max({n - 1, 0})

BreakerTicks == Tick /\ UNCHANGED <<load, try, attempt, oauthVars, limitVars>>

TokenTicks ==
  /\ \A p \in Poll : /\ poll[p].at = "asking" => poll[p].since < MaxLatency
                     /\ poll[p].at = "polling" => poll[p].since < MaxPolling
  /\ poll' = [p \in Poll |-> IF poll[p].at = "idle" THEN Idle
                             ELSE [poll[p] EXCEPT !.since = @ + 1, !.live = Less(@)]]
  /\ cached' = IF cached = NoToken THEN NoToken
               ELSE [left |-> Less(cached.left), live |-> Less(cached.live)]
  /\ UNCHANGED <<callVars, load, limitVars>>

(***************************************************************************)
(* The token bucket of a source.                                           *)
(***************************************************************************)
\* Faulty: time that was refilled once is refilled again.
RefilledAgain ==
  IF clock > bucket.last
  THEN [bucket EXCEPT !.tokens = Min({bucket.cap, @ + (clock - bucket.last) * bucket.rate})]
  ELSE bucket

\* #refill, which leaves #last alone while the clock is behind it.
Refilled ==
  IF clock > bucket.last
  THEN [bucket EXCEPT !.tokens = Min({bucket.cap, @ + (clock - bucket.last) * bucket.rate}),
                      !.last = clock]
  ELSE bucket

TakeTokens(n) ==
  /\ load.limited
  /\ IF Refilled.tokens >= n * Parts
     THEN /\ bucket' = [Refilled EXCEPT !.tokens = @ - n * Parts]
          /\ window' = [window EXCEPT !.taken = @ + n * Parts]
     ELSE bucket' = Refilled /\ UNCHANGED window
  /\ UNCHANGED <<callVars, load, oauthVars, clock>>

\* throttle(1/2): a new bucket, which is full.
Throttle ==
  LET cap == Max({1, (bucket.cap \div Parts) \div 2}) * Parts IN
  /\ load.limited /\ bucket.rate = Refill
  /\ bucket' = [cap |-> cap, rate |-> bucket.rate \div 2, tokens |-> cap, last |-> clock]
  /\ window' = [window EXCEPT !.due = @ + cap]
  /\ UNCHANGED <<callVars, load, oauthVars, clock>>

ClockMoves(t) ==
  /\ load.limited /\ t \in 0 .. MaxClock /\ t \in {clock - 1, clock + 1}
  /\ t < clock => window.due <= MaxDue
  /\ clock' = t
  /\ window' = IF t > clock THEN [window EXCEPT !.due = @ + bucket.rate] ELSE window
  /\ UNCHANGED <<callVars, load, oauthVars, bucket>>

\* From here on the tokens are counted: at most a full bucket is in hand.
OpenWindow ==
  /\ load.limited /\ ~window.open
  /\ window' = [taken |-> 0, due |-> bucket.cap, open |-> TRUE]
  /\ UNCHANGED <<callVars, load, oauthVars, bucket, clock>>

SourceNext == \/ \E n \in 1 .. BucketCapacity : TakeTokens(n)
              \/ \E t \in 0 .. MaxClock : ClockMoves(t)
              \/ Throttle \/ OpenWindow

TransportNext == \/ \E c \in Call : \/ Start(c) \/ Attempt(c) \/ Answer(c)
                                    \/ BackOff(c) \/ Rethrow(c) \/ Wake(c)
                 \/ \E p \in Poll : Authorize(p) \/ TokenArrives(p) \/ PollEnds(p)
                 \/ BreakerTicks \/ TokenTicks \/ SourceNext

(* Time passes, fn settles, and a call that has begun goes on. *)
TransportFairness ==
  /\ WF_callVars(BreakerTicks)
  /\ \A c \in Call : /\ WF_callVars(Attempt(c)) /\ WF_callVars(Answer(c))
                     /\ WF_callVars(BackOff(c) \/ Rethrow(c))
                     /\ WF_callVars(Wake(c))

TransportSpec == TransportInit /\ [][TransportNext]_transportVars /\ TransportFairness

-------------------------------------------------------------------------------
(***************************************************************************)
(* A call that retries returns in the end, whatever the breaker and the    *)
(* calls that share it do: it sleeps and tries a bounded number of times   *)
(* (resilience.ts:70-91).                                                  *)
(***************************************************************************)
CallsReturn == \A c \in Call : try[c] = "trying" ~> try[c] = "threw" \/ call[c] = "ok"

(***************************************************************************)
(* A poll is authorized for the minute token() keeps in hand, although the *)
(* token is asked for once, refreshes overlap, their answers come in any   *)
(* order and the last to arrive stays: the expiry in the cache is never    *)
(* later than the server's (oauth.ts:25-42, adapter.ts:41).                *)
(***************************************************************************)
PollsAreAuthorized ==
  /\ cached # NoToken => cached.left <= cached.live
  /\ \A p \in Poll : poll[p].at = "polling" /\ poll[p].since <= Spare => poll[p].live > 0

(***************************************************************************)
(* A source is not asked more often than its rate: from any moment on, no  *)
(* more is taken than a full bucket, what the time since then refills, and *)
(* a full bucket more for each throttle(), although the clock is set back  *)
(* and forth over the same time (resilience.ts:24-45).                     *)
(***************************************************************************)
RateIsKept == window.taken <= window.due
===============================================================================
