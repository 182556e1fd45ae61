---------------------------- MODULE CircuitBreaker ----------------------------
(***************************************************************************)
(* The circuit breaker of packages/net/src/resilience.ts.                  *)
(*                                                                         *)
(* exec reads the state and starts fn in one step.  The call then waits    *)
(* for fn, and what it does when fn settles depends on the state it was    *)
(* started in and on nothing that happened since: a call started while the *)
(* breaker was closed records its result in whatever state it finds.       *)
(* Cooldown counts the ticks of the injected clock that cooldownMs is.     *)
(***************************************************************************)
EXTENDS Naturals, Sequences, FiniteSets

CONSTANTS Call,        \* the calls of exec
          WindowSize, MinCalls,
          ErrorPct,    \* errorThreshold, in percent
          Cooldown

ASSUME BreakerAssumption == /\ WindowSize \in Nat \ {0}
                            /\ MinCalls \in Nat \ {0}
                            /\ ErrorPct \in 0 .. 100
                            /\ Cooldown \in Nat

VARIABLES state,     \* #state, "closed" or "open"
          results,   \* #results
          age,       \* now() - #openedAt, up to Cooldown
          probing,   \* #probing
          call       \* where each call of exec is

vars == <<state, results, age, probing, call>>

Init == /\ state = "closed"
        /\ results = <<>>
        /\ age = 0
        /\ probing = FALSE
        /\ call = [c \in Call |-> "idle"]

\* `get state()`
BreakerState == IF state = "open" /\ age >= Cooldown THEN "half_open" ELSE state

Moves(c, st) == call' = [call EXCEPT ![c] = st]

(***************************************************************************)
(* exec(fn), up to the await of fn.                                        *)
(***************************************************************************)
Reject(c) == /\ call[c] = "idle"
             /\ BreakerState = "open" \/ (BreakerState = "half_open" /\ probing)
             /\ Moves(c, "rejected")
             /\ UNCHANGED <<state, results, age, probing>>

StartProbe(c) == /\ call[c] = "idle"
                 /\ BreakerState = "half_open"
                 /\ ~probing
                 /\ probing' = TRUE
                 /\ Moves(c, "probing")
                 /\ UNCHANGED <<state, results, age>>

StartCall(c) == /\ call[c] = "idle"
                /\ BreakerState = "closed"
                /\ Moves(c, "calling")
                /\ UNCHANGED <<state, results, age, probing>>

(***************************************************************************)
(* fn settles.                                                             *)
(***************************************************************************)
ProbeSucceeds(c) == /\ call[c] = "probing"
                    /\ state' = "closed"
                    /\ results' = <<>>
                    /\ probing' = FALSE
                    /\ Moves(c, "ok")
                    /\ UNCHANGED age

\* Faulty: no `finally`, the flag stays up after a failure.
ProbeFailsStuck(c) == /\ call[c] = "probing"
                      /\ state' = "open"
                      /\ age' = 0
                      /\ Moves(c, "failed")
                      /\ UNCHANGED <<results, probing>>

ProbeFails(c) == /\ call[c] = "probing"
                 /\ state' = "open"
                 /\ age' = 0
                 /\ probing' = FALSE
                 /\ Moves(c, "failed")
                 /\ UNCHANGED results

\* The window after one more result.
Recorded(ok) == LET all == Append(results, ok)
                IN  IF Len(all) > WindowSize THEN Tail(all) ELSE all

Failures(w) == Cardinality({i \in DOMAIN w : ~w[i]})
TooManyErrors(w) == Len(w) >= MinCalls /\ Failures(w) * 100 > ErrorPct * Len(w)

\* #record(ok), which may #trip() whatever the state.
Record(ok) == /\ results' = Recorded(ok)
              /\ IF TooManyErrors(Recorded(ok))
                 THEN state' = "open" /\ age' = 0
                 ELSE UNCHANGED <<state, age>>

CallSettles(c, ok) == /\ call[c] = "calling"
                      /\ Record(ok)
                      /\ Moves(c, IF ok THEN "ok" ELSE "failed")
                      /\ UNCHANGED probing

\* The clock advances.
Tick == /\ state = "open"
        /\ age < Cooldown
        /\ age' = age + 1
        /\ UNCHANGED <<state, results, probing, call>>

Settles(c) == \/ ProbeSucceeds(c) \/ ProbeFails(c)
              \/ \E ok \in BOOLEAN : CallSettles(c, ok)

Next == \/ \E c \in Call : Reject(c) \/ StartProbe(c) \/ StartCall(c) \/ Settles(c)
        \/ Tick

Spec == Init /\ [][Next]_vars

(* Time passes and every fn settles, one way or the other. *)
FairSpec == Spec /\ WF_vars(Tick) /\ \A c \in Call : WF_vars(Settles(c))

-------------------------------------------------------------------------------
TypeOK == /\ state \in {"closed", "open"}
          /\ results \in Seq(BOOLEAN)
          /\ Len(results) <= WindowSize
          /\ age \in 0 .. Cooldown
          /\ probing \in BOOLEAN
          /\ call \in [Call -> {"idle", "calling", "probing", "ok", "failed", "rejected"}]

Probes == {c \in Call : call[c] = "probing"}

(***************************************************************************)
(* There is one probe at a time, and the flag that keeps others out is     *)
(* down again once it has settled, although calls of an earlier epoch may  *)
(* trip the breaker again while it is under way (resilience.ts:143-155).   *)
(***************************************************************************)
OneProbe == /\ \A c, d \in Probes : c = d
            /\ probing <=> Probes # {}

(***************************************************************************)
(* While the breaker is closed its window is not over the threshold: the   *)
(* result that takes it there opens it, whichever epoch the call belongs   *)
(* to (resilience.ts:168-175).                                             *)
(***************************************************************************)
ClosedIsHealthy == state = "closed" => ~TooManyErrors(results)

(***************************************************************************)
(* The breaker closes only on the success of a probe, never because a call *)
(* of an earlier epoch comes back with a result that brings its error rate *)
(* down (resilience.ts:147-148).                                           *)
(***************************************************************************)
OnlyProbesClose ==
  [][state = "open" /\ state' = "closed"
     => \E c \in Call : call[c] = "probing" /\ call'[c] = "ok"]_vars

(***************************************************************************)
(* A breaker that opened does not reject for ever: it comes to admit a     *)
(* probe, or closes, although probes fail and calls of an earlier epoch    *)
(* start its cooldown over (resilience.ts:135-155).                        *)
(***************************************************************************)
OpenAdmitsProbe ==
  state = "open" ~> state = "closed" \/ (BreakerState = "half_open" /\ ~probing)
===============================================================================
