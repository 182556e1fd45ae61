--------------------------- MODULE Transport_proofs ---------------------------
(***************************************************************************)
(* Proofs about what moves between the parts and over the network: the     *)
(* breaker, alone and under retried calls, the token of the polls, the     *)
(* bucket and the offers of a draft, for all their parameters; and the     *)
(* bounded channel, for every capacity and any set of calls.               *)
(***************************************************************************)
EXTENDS BoundedChannel, EbaySell, FiniteSetTheorems, SequenceTheorems, TLAPS

\* The inductive invariant: nothing has to be added to what is promised.
IInv == TypeOK /\ OneProbe /\ ClosedIsHealthy

\* The window never outgrows its size.
LEMMA RecordedType ==
  ASSUME TypeOK, NEW ok \in BOOLEAN
  PROVE  Recorded(ok) \in Seq(BOOLEAN) /\ Len(Recorded(ok)) <= WindowSize
<1> DEFINE all == Append(results, ok)
<1>1. /\ results \in Seq(BOOLEAN) /\ Len(results) <= WindowSize
      /\ Len(results) \in Nat /\ WindowSize \in Nat \ {0}
  BY BreakerAssumption DEF TypeOK
<1>2. all \in Seq(BOOLEAN) /\ Len(all) = Len(results) + 1
  BY <1>1
<1>3. Tail(all) \in Seq(BOOLEAN) /\ Len(Tail(all)) = Len(all) - 1
  BY <1>1, <1>2
<1>4. CASE Len(all) > WindowSize
  <2>1. Recorded(ok) = Tail(all)
    BY <1>4 DEF Recorded
  <2>2. Len(all) - 1 <= WindowSize
    BY <1>1, <1>2
  <2> QED
    BY <1>3, <2>1, <2>2
<1>5. CASE ~(Len(all) > WindowSize)
  <2>1. Recorded(ok) = all
    BY <1>5 DEF Recorded
  <2>2. Len(all) <= WindowSize
    BY <1>1, <1>2, <1>5
  <2> QED
    BY <1>2, <2>1, <2>2
<1> QED
  BY <1>4, <1>5

LEMMA InitInv == Init => IInv
<1> SUFFICES ASSUME Init PROVE IInv
  OBVIOUS
<1>1. <<>> \in Seq(BOOLEAN) /\ Len(<<>>) = 0
  OBVIOUS
<1>2. TypeOK
  <2>1. results \in Seq(BOOLEAN) /\ Len(results) <= WindowSize
    BY <1>1, BreakerAssumption DEF Init
  <2>2. age \in 0 .. Cooldown
    BY BreakerAssumption DEF Init
  <2> QED
    BY <2>1, <2>2 DEF Init, TypeOK
<1>3. OneProbe
  BY DEF Init, OneProbe, Probes
<1>4. ClosedIsHealthy
  BY <1>1, BreakerAssumption DEF Init, ClosedIsHealthy, TooManyErrors
<1> QED
  BY <1>2, <1>3, <1>4 DEF IInv

\* A call that was started when the breaker was closed comes back.
LEMMA SettleKeeps ==
  ASSUME IInv, NEW c \in Call, NEW ok \in BOOLEAN, CallSettles(c, ok)
  PROVE  IInv'
<1>1. TypeOK'
  BY RecordedType, BreakerAssumption DEF IInv, TypeOK, CallSettles, Record, Moves
<1>2. OneProbe'
  BY DEF IInv, TypeOK, OneProbe, Probes, CallSettles, Moves
<1>3. ClosedIsHealthy'
  <2>1. results' = Recorded(ok)
    BY DEF CallSettles, Record
  <2>2. CASE TooManyErrors(Recorded(ok))
    BY <2>2 DEF CallSettles, Record, ClosedIsHealthy
  <2>3. CASE ~TooManyErrors(Recorded(ok))
    BY <2>1, <2>3 DEF ClosedIsHealthy
  <2> QED
    BY <2>2, <2>3
<1> QED
  BY <1>1, <1>2, <1>3 DEF IInv

\* Everything else that exec and the clock do.
LEMMA OtherKeeps ==
  ASSUME IInv,
         \/ \E c \in Call : Reject(c) \/ StartProbe(c) \/ StartCall(c)
         \/ \E c \in Call : ProbeSucceeds(c) \/ ProbeFails(c)
         \/ Tick
  PROVE  IInv'
<1>1. <<>> \in Seq(BOOLEAN) /\ Len(<<>>) = 0
  OBVIOUS
<1>2. TypeOK'
  <2>1. results' \in Seq(BOOLEAN) /\ Len(results') <= WindowSize
    <3>1. results' = results \/ results' = <<>>
      BY DEF Reject, StartProbe, StartCall, ProbeSucceeds, ProbeFails, Tick
    <3>2. 0 <= WindowSize
      BY BreakerAssumption
    <3> QED
      BY <1>1, <3>1, <3>2 DEF IInv, TypeOK
  <2>2. age' \in 0 .. Cooldown
    <3>1. age' \in {age, 0} \/ (age < Cooldown /\ age' = age + 1)
      BY DEF Reject, StartProbe, StartCall, ProbeSucceeds, ProbeFails, Tick
    <3> QED
      BY <3>1, BreakerAssumption DEF IInv, TypeOK
  <2> QED
    BY <2>1, <2>2
       DEF IInv, TypeOK, Reject, StartProbe, StartCall, ProbeSucceeds, ProbeFails, Tick, Moves
<1>3. OneProbe'
  BY DEF IInv, TypeOK, OneProbe, Probes, Reject, StartProbe, StartCall, ProbeSucceeds,
         ProbeFails, Tick, Moves
<1>4. ClosedIsHealthy'
  <2>1. ~TooManyErrors(<<>>)
    <3>1. ~(0 >= MinCalls)
      BY BreakerAssumption
    <3> QED
      BY <1>1, <3>1 DEF TooManyErrors
  <2>2. \/ results' = results /\ state' = state
        \/ results' = <<>>
        \/ state' = "open"
    BY DEF Reject, StartProbe, StartCall, ProbeSucceeds, ProbeFails, Tick
  <2>3. CASE results' = results /\ state' = state
    BY <2>3 DEF IInv, ClosedIsHealthy, TooManyErrors, Failures
  <2>4. CASE results' = <<>>
    BY <2>1, <2>4 DEF ClosedIsHealthy
  <2>5. CASE state' = "open"
    BY <2>5 DEF ClosedIsHealthy
  <2> QED
    BY <2>2, <2>3, <2>4, <2>5
<1> QED
  BY <1>2, <1>3, <1>4 DEF IInv

\* IInv holds in every reachable state.
THEOREM Inductive == Spec => []IInv
<1>1. ASSUME IInv, [Next]_vars PROVE IInv'
  <2>1. CASE UNCHANGED vars
    BY <1>1, <2>1 DEF vars, IInv, TypeOK, OneProbe, Probes, ClosedIsHealthy, TooManyErrors,
                      Failures
  <2> QED
    BY <1>1, <2>1, SettleKeeps, OtherKeeps DEF Next, Settles
<1> QED
  BY <1>1, InitInv, PTL DEF Spec

\* Every variable keeps its type; the window keeps its bound.
THEOREM TypeCorrect == Spec => []TypeOK
BY Inductive, PTL DEF IInv

\* One probe at a time, and the flag goes down with it (resilience.ts:143-155).
THEOREM SingleProbe == Spec => []OneProbe
BY Inductive, PTL DEF IInv

\* A closed breaker is under its threshold (resilience.ts:168-175).
THEOREM ClosedMeansHealthy == Spec => []ClosedIsHealthy
BY Inductive, PTL DEF IInv

\* Only a successful probe closes the breaker (resilience.ts:147-148).
THEOREM ClosedByProbe == Spec => OnlyProbesClose
<1>1. ASSUME IInv, [Next]_vars
      PROVE  [state = "open" /\ state' = "closed"
              => \E c \in Call : call[c] = "probing" /\ call'[c] = "ok"]_vars
  <2>1. SUFFICES ASSUME Next, state = "open", state' = "closed"
                 PROVE  \E c \in Call : call[c] = "probing" /\ call'[c] = "ok"
    BY <1>1
  <2>2. PICK c \in Call : ProbeSucceeds(c)
    BY <2>1 DEF Next, Settles, Reject, StartProbe, StartCall, ProbeFails, CallSettles, Record,
                Tick
  <2>3. call' = [call EXCEPT ![c] = "ok"] /\ call[c] = "probing"
    BY <2>2 DEF ProbeSucceeds, Moves
  <2> QED
    BY <1>1, <2>3 DEF IInv, TypeOK
<1> QED
  BY <1>1, Inductive, PTL DEF Spec, OnlyProbesClose

-------------------------------------------------------------------------------
(***************************************************************************)
(* The breaker under withRetry.  A call goes back to the breaker only when *)
(* its last attempt has settled, so that no retry takes a probe away.      *)
(***************************************************************************)
sellAllVars == <<transportVars, sellVars>>

RetryOK ==
  /\ try \in [Call -> {"new", "trying", "sleeping", "threw"}]
  /\ attempt \in [Call -> Nat]
  /\ load \in Workload
  /\ \A c \in Call :
       /\ attempt[c] <= load.maxAttempts
       /\ try[c] = "sleeping" => /\ call[c] \in {"failed", "rejected"}
                                 /\ attempt[c] < load.maxAttempts

BreakerInv == IInv /\ RetryOK

LEMMA BreakerStutter ==
  ASSUME IInv, UNCHANGED vars
  PROVE  IInv'
BY DEF vars, IInv, TypeOK, OneProbe, Probes, ClosedIsHealthy, TooManyErrors, Failures

\* A call that sleeps is not the one that probes, and its attempts are counted on.
LEMMA WakeKeeps ==
  ASSUME BreakerInv, NEW c \in Call, Wake(c)
  PROVE  BreakerInv'
<1>1. call[c] \in {"failed", "rejected"} /\ call' = [call EXCEPT ![c] = "idle"]
  BY DEF Wake, Moves, BreakerInv, RetryOK
<1>2. UNCHANGED <<state, results, age, probing>>
  BY DEF Wake
<1>3. TypeOK'
  BY <1>1, <1>2 DEF BreakerInv, IInv, TypeOK
<1>4. Probes' = Probes
  BY <1>1 DEF BreakerInv, IInv, TypeOK, Probes
<1>5. OneProbe'
  BY <1>2, <1>4 DEF BreakerInv, IInv, OneProbe
<1>6. ClosedIsHealthy'
  BY <1>2 DEF BreakerInv, IInv, ClosedIsHealthy, TooManyErrors, Failures
<1>7. RetryOK'
  <2>1. load.maxAttempts \in Nat
    BY TransportAssumption DEF BreakerInv, RetryOK
  <2>2. /\ attempt' = [attempt EXCEPT ![c] = @ + 1] /\ try' = [try EXCEPT ![c] = "trying"]
        /\ load' = load /\ try[c] = "sleeping"
    BY DEF Wake
  <2>3. attempt[c] \in Nat /\ attempt[c] < load.maxAttempts
    BY <2>2 DEF BreakerInv, RetryOK
  <2> QED
    BY <1>1, <2>1, <2>2, <2>3 DEF BreakerInv, RetryOK
<1> QED
  BY <1>3, <1>5, <1>6, <1>7 DEF BreakerInv, IInv

\* An attempt and its answer leave the loop where it is, awaiting it.
LEMMA LoopAwaits ==
  ASSUME RetryOK, UNCHANGED <<load, try, attempt>>,
         \A c \in Call : try[c] = "sleeping" => call'[c] = call[c]
  PROVE  RetryOK'
BY DEF RetryOK

\* The call that a loop awaits is not asleep.
LEMMA SettlesAwake ==
  ASSUME BreakerInv, NEW c \in Call, Settles(c)
  PROVE  /\ IInv'
         /\ \A x \in Call : try[x] = "sleeping" => call'[x] = call[x]
<1>1. IInv'
  BY SettleKeeps, OtherKeeps DEF Settles, BreakerInv
<1>2. call[c] \in {"probing", "calling"} /\ \E st : call' = [call EXCEPT ![c] = st]
  BY DEF Settles, ProbeSucceeds, ProbeFails, CallSettles, Moves
<1> QED
  BY <1>1, <1>2 DEF BreakerInv, RetryOK, IInv, TypeOK

LEMMA CallStep ==
  ASSUME BreakerInv, NEW c \in Call,
         Start(c) \/ Attempt(c) \/ Answer(c) \/ BackOff(c) \/ Rethrow(c) \/ Wake(c)
  PROVE  BreakerInv'
<1>1. CASE Start(c)
  <2>1. IInv'
    BY <1>1, BreakerStutter DEF Start, BreakerInv
  <2>2. load.maxAttempts \in Nat \ {0} /\ call' = call
    BY <1>1, TransportAssumption DEF BreakerInv, RetryOK, Start, vars
  <2> QED
    BY <1>1, <2>1, <2>2 DEF Start, BreakerInv, RetryOK
<1>2. CASE Attempt(c)
  <2>1. IInv'
    BY <1>2, OtherKeeps DEF Attempt, BreakerInv
  <2>2. try[c] = "trying" /\ \E st : call' = [call EXCEPT ![c] = st]
    BY <1>2 DEF Attempt, Reject, StartProbe, StartCall, Moves
  <2>3. \A x \in Call : try[x] = "sleeping" => call'[x] = call[x]
    BY <2>2 DEF BreakerInv, IInv, TypeOK
  <2> QED
    BY <1>2, <2>1, <2>3, LoopAwaits DEF Attempt, BreakerInv
<1>3. CASE Answer(c)
  BY <1>3, SettlesAwake, LoopAwaits DEF Answer, BreakerInv
<1>4. CASE BackOff(c)
  <2>1. IInv' /\ call' = call
    BY <1>4, BreakerStutter DEF BackOff, BreakerInv, vars
  <2> QED
    BY <1>4, <2>1 DEF BackOff, Erred, BreakerInv, RetryOK
<1>5. CASE Rethrow(c)
  <2>1. IInv' /\ call' = call
    BY <1>5, BreakerStutter DEF Rethrow, BreakerInv, vars
  <2> QED
    BY <1>5, <2>1 DEF Rethrow, BreakerInv, RetryOK
<1> QED
  BY <1>1, <1>2, <1>3, <1>4, <1>5, WakeKeeps

LEMMA BreakerStep ==
  ASSUME BreakerInv, [SellNext]_sellAllVars
  PROVE  BreakerInv'
<1>1. CASE UNCHANGED callVars /\ UNCHANGED load
  BY <1>1, BreakerStutter DEF callVars, vars, BreakerInv, RetryOK
<1>2. CASE BreakerTicks
  <2>1. IInv' /\ call' = call
    BY <1>2, OtherKeeps DEF BreakerTicks, BreakerInv, Tick
  <2> QED
    BY <1>2, <2>1, LoopAwaits DEF BreakerTicks, BreakerInv
<1>3. \/ \E c \in Call : \/ Start(c) \/ Attempt(c) \/ Answer(c)
                         \/ BackOff(c) \/ Rethrow(c) \/ Wake(c)
      \/ BreakerTicks
      \/ UNCHANGED callVars /\ UNCHANGED load
  BY DEF SellNext, TransportNext, SourceNext, sellAllVars, transportVars, Authorize,
         TokenArrives, PollEnds, TokenTicks, TakeTokens, Throttle, ClockMoves, OpenWindow
<1> QED
  BY <1>1, <1>2, <1>3, CallStep

\* The breaker's promises under retries, and no more attempts than maxAttempts, however
\* calls that share it interleave (resilience.ts:70-91, 125-175).
THEOREM BreakerUnderRetry == SellSpec => []BreakerInv
<1>1. SellInit => BreakerInv
  <2> SUFFICES ASSUME SellInit PROVE BreakerInv
    OBVIOUS
  <2>1. IInv /\ load \in Workload
    BY InitInv DEF SellInit, TransportInit
  <2>2. load.maxAttempts \in Nat \ {0}
    BY <2>1, TransportAssumption
  <2> QED
    BY <2>1, <2>2 DEF BreakerInv, RetryOK, SellInit, TransportInit
<1> QED
  BY <1>1, BreakerStep, PTL DEF SellSpec, sellAllVars

\* One probe at a time although callers retry (resilience.ts:143-155).
THEOREM SingleProbeUnderRetry == SellSpec => []OneProbe
BY BreakerUnderRetry, PTL DEF BreakerInv, IInv

\* Neither a retry nor a call of an earlier epoch closes the breaker (resilience.ts:147-148).
THEOREM ClosedByProbeUnderRetry == SellSpec => OnlyProbesClose
<1>1. ASSUME BreakerInv, [SellNext]_sellAllVars
      PROVE  [state = "open" /\ state' = "closed"
              => \E c \in Call : call[c] = "probing" /\ call'[c] = "ok"]_vars
  <2>1. SUFFICES ASSUME state = "open", state' = "closed"
                 PROVE  \E c \in Call : call[c] = "probing" /\ call'[c] = "ok"
    BY <1>1
  <2>2. \E c \in Call : Settles(c)
    BY <1>1, <2>1 DEF SellNext, TransportNext, SourceNext, sellAllVars, transportVars, callVars,
       vars, Start, Attempt, Answer, BackOff, Rethrow, Wake, Reject, StartProbe, StartCall,
       BreakerTicks, Tick, Authorize, TokenArrives, PollEnds, TokenTicks, TakeTokens, Throttle,
       ClockMoves, OpenWindow
  <2>3. PICK c \in Call : ProbeSucceeds(c)
    BY <2>1, <2>2 DEF Settles, ProbeFails, CallSettles, Record
  <2>4. call' = [call EXCEPT ![c] = "ok"] /\ call[c] = "probing"
    BY <2>3 DEF ProbeSucceeds, Moves
  <2> QED
    BY <1>1, <2>4 DEF BreakerInv, IInv, TypeOK
<1> QED
  BY <1>1, BreakerUnderRetry, PTL DEF SellSpec, sellAllVars, OnlyProbesClose

-------------------------------------------------------------------------------
(***************************************************************************)
(* The token the polls share.  The cache never outlives the server's token *)
(* and what a poll has used of its token and what is left of it are        *)
(* together more than is kept in hand.                                     *)
(***************************************************************************)
TokenOK ==
  /\ cached # NoToken => cached \in [left : Nat, live : Nat] /\ cached.left <= cached.live
  /\ poll \in [Poll -> [at : {"idle", "asking", "polling"}, since : Nat, live : Nat]]
  /\ \A p \in Poll : /\ poll[p].at = "asking" => poll[p].since <= MaxLatency
                     /\ poll[p].at = "polling" => poll[p].since + poll[p].live > Spare

LEMMA MaxOfTwo ==
  ASSUME NEW x \in Int, NEW y \in Int
  PROVE  LET m == Max({x, y}) IN m \in {x, y} /\ m >= x /\ m >= y
<1>1. \E m \in {x, y} : \A n \in {x, y} : m >= n
  OBVIOUS
<1>2. Max({x, y}) \in {x, y} /\ \A n \in {x, y} : Max({x, y}) >= n
  BY <1>1 DEF Max
<1> QED
  BY <1>2

LEMMA MinOfTwo ==
  ASSUME NEW x \in Int, NEW y \in Int
  PROVE  LET m == Min({x, y}) IN m \in {x, y} /\ m <= x /\ m <= y
<1>1. \E m \in {x, y} : \A n \in {x, y} : m <= n
  OBVIOUS
<1>2. Min({x, y}) \in {x, y} /\ \A n \in {x, y} : Min({x, y}) <= n
  BY <1>1 DEF Min
<1> QED
  BY <1>2

LEMMA LessIs ==
  ASSUME NEW n \in Nat
  PROVE  Less(n) = IF n = 0 THEN 0 ELSE n - 1
<1>1. n - 1 \in Int
  OBVIOUS
<1>2. Max({n - 1, 0}) \in {n - 1, 0} /\ Max({n - 1, 0}) >= n - 1 /\ Max({n - 1, 0}) >= 0
  <2> DEFINE x == n - 1
  <2>1. x \in Int
    OBVIOUS
  <2> HIDE DEF x
  <2>2. Max({x, 0}) \in {x, 0} /\ Max({x, 0}) >= x /\ Max({x, 0}) >= 0
    BY <2>1, MaxOfTwo
  <2> QED
    BY <2>2 DEF x
<1> QED
  BY <1>1, <1>2 DEF Less

\* What is left of a token when its answer arrives, late but not later than MaxLatency.
LEMMA ArrivesLive ==
  ASSUME NEW since \in 0 .. MaxLatency, NEW ago \in 0 .. since
  PROVE  /\ Lifetime - since \in Nat /\ Lifetime - ago \in Nat
         /\ Lifetime - since <= Lifetime - ago
         /\ Lifetime - ago > Spare
BY TransportAssumption

LEMMA ArrivalStep ==
  ASSUME TokenOK, NEW p \in Poll, TokenArrives(p)
  PROVE  TokenOK'
<1>1. poll[p].at = "asking" /\ poll[p].since \in 0 .. MaxLatency
  BY TransportAssumption DEF TokenArrives, TokenOK
<1>2. PICK ago \in 0 .. poll[p].since :
        /\ cached' = [left |-> Lifetime - poll[p].since, live |-> Lifetime - ago]
        /\ poll' = [poll EXCEPT ![p] = Polling(Lifetime - ago)]
  BY DEF TokenArrives
<1> DEFINE live == Lifetime - ago
           left == Lifetime - poll[p].since
<1>3. live \in Nat /\ left \in Nat /\ left <= live /\ live > Spare
  BY <1>1, ArrivesLive
<1>4. cached' = [left |-> left, live |-> live]
      /\ poll' = [poll EXCEPT ![p] = [at |-> "polling", since |-> 0, live |-> live]]
  BY <1>2 DEF Polling
<1> HIDE DEF live, left
<1>5. Spare \in Nat /\ MaxLatency \in Nat
  BY TransportAssumption
<1> QED
  BY <1>3, <1>4, <1>5 DEF TokenOK

LEMMA AuthorizeStep ==
  ASSUME TokenOK, NEW p \in Poll, Authorize(p)
  PROVE  TokenOK'
<1>1. Spare \in Nat /\ MaxLatency \in Nat
  BY TransportAssumption
<1>2. CASE Usable
  <2>1. cached.live \in Nat /\ cached.live > Spare /\ cached # NoToken
    BY <1>1, <1>2 DEF Usable, TokenOK
  <2>2. poll' = [poll EXCEPT ![p] = [at |-> "polling", since |-> 0, live |-> cached.live]]
        /\ cached' = cached
    BY <1>2 DEF Authorize, Polling
  <2> QED
    BY <1>1, <2>1, <2>2 DEF TokenOK
<1>3. CASE ~Usable
  <2>1. poll' = [poll EXCEPT ![p] = [at |-> "asking", since |-> 0, live |-> 0]]
        /\ cached' = cached
    <3>1. [Idle EXCEPT !.at = "asking"] = [at |-> "asking", since |-> 0, live |-> 0]
      BY DEF Idle
    <3>2. poll' = [poll EXCEPT ![p] = [Idle EXCEPT !.at = "asking"]] /\ cached' = cached
      BY <1>3 DEF Authorize
    <3> QED
      BY <3>1, <3>2
  <2> QED
    BY <1>1, <2>1 DEF TokenOK
<1> QED
  BY <1>2, <1>3

LEMMA TokenTickStep ==
  ASSUME TokenOK, TokenTicks
  PROVE  TokenOK'
<1>1. Spare \in Nat /\ MaxLatency \in Nat
  BY TransportAssumption
<1>2. ASSUME cached' # NoToken
      PROVE  cached' \in [left : Nat, live : Nat] /\ cached'.left <= cached'.live
  <2>1. cached # NoToken /\ cached' = [left |-> Less(cached.left), live |-> Less(cached.live)]
    BY <1>2 DEF TokenTicks
  <2>2. cached.left \in Nat /\ cached.live \in Nat /\ cached.left <= cached.live
    BY <2>1 DEF TokenOK
  <2> QED
    BY <2>1, <2>2, LessIs
<1>3. ASSUME NEW p \in Poll
      PROVE  /\ poll'[p] \in [at : {"idle", "asking", "polling"}, since : Nat, live : Nat]
             /\ poll'[p].at = "asking" => poll'[p].since <= MaxLatency
             /\ poll'[p].at = "polling" => poll'[p].since + poll'[p].live > Spare
  <2>1. CASE poll[p].at = "idle"
    <3>1. poll'[p] = [at |-> "idle", since |-> 0, live |-> 0]
      BY <2>1 DEF TokenTicks, Idle
    <3> QED
      BY <3>1
  <2>2. CASE poll[p].at # "idle"
    <3>1. poll'[p] = [poll[p] EXCEPT !.since = @ + 1, !.live = Less(@)]
      BY <2>2 DEF TokenTicks
    <3>2. poll[p] \in [at : {"idle", "asking", "polling"}, since : Nat, live : Nat]
      BY DEF TokenOK
    <3>3. Less(poll[p].live) \in Nat /\ Less(poll[p].live) + 1 >= poll[p].live
      BY <3>2, LessIs
    <3>4. poll'[p] \in [at : {"idle", "asking", "polling"}, since : Nat, live : Nat]
          /\ poll'[p].at = poll[p].at /\ poll'[p].since = poll[p].since + 1
          /\ poll'[p].live = Less(poll[p].live)
      <4>1. PICK less \in Nat : less = Less(poll[p].live)
        BY <3>3
      <4>2. poll'[p] = [at |-> poll[p].at, since |-> poll[p].since + 1, live |-> less]
        BY <3>1, <3>2, <4>1
      <4> QED
        BY <3>2, <4>1, <4>2
    <3>5. poll[p].at = "asking" => poll[p].since < MaxLatency
      BY DEF TokenTicks
    <3>6. poll[p].at = "polling" => poll[p].since + poll[p].live > Spare
      BY DEF TokenOK
    <3> QED
      BY <1>1, <3>2, <3>3, <3>4, <3>5, <3>6
  <2> QED
    BY <2>1, <2>2
<1>4. poll' \in [Poll -> [at : {"idle", "asking", "polling"}, since : Nat, live : Nat]]
  <2>1. poll' = [p \in Poll |-> poll'[p]]
    BY DEF TokenTicks
  <2> QED
    BY <1>3, <2>1
<1> QED
  BY <1>2, <1>3, <1>4 DEF TokenOK

LEMMA PollEndsStep ==
  ASSUME TokenOK, NEW p \in Poll, PollEnds(p)
  PROVE  TokenOK'
<1>1. poll' = [poll EXCEPT ![p] = [at |-> "idle", since |-> 0, live |-> 0]]
      /\ cached' = cached
  BY DEF PollEnds, Idle
<1> QED
  BY <1>1 DEF TokenOK

LEMMA TokenStep ==
  ASSUME TokenOK, [SellNext]_sellAllVars
  PROVE  TokenOK'
<1>1. \/ \E p \in Poll : Authorize(p) \/ TokenArrives(p) \/ PollEnds(p)
      \/ TokenTicks
      \/ cached' = cached /\ poll' = poll
  BY DEF SellNext, TransportNext, SourceNext, sellAllVars, transportVars, oauthVars, Start,
         Attempt, Answer, BackOff, Rethrow, Wake, BreakerTicks, TakeTokens, Throttle,
         ClockMoves, OpenWindow
<1>2. CASE cached' = cached /\ poll' = poll
  BY <1>2 DEF TokenOK
<1> QED
  BY <1>1, <1>2, AuthorizeStep, ArrivalStep, PollEndsStep, TokenTickStep

\* A poll is authorized for the time kept in hand, whichever refresh its token came from
\* (oauth.ts:25-42, adapter.ts:41).
THEOREM PollsAuthorized == SellSpec => []PollsAreAuthorized
<1>1. SellInit => TokenOK
  <2> SUFFICES ASSUME SellInit PROVE TokenOK
    OBVIOUS
  <2>1. poll = [p \in Poll |-> [at |-> "idle", since |-> 0, live |-> 0]] /\ cached = NoToken
    BY DEF SellInit, TransportInit, Idle
  <2> QED
    BY <2>1 DEF TokenOK
<1>2. ASSUME TokenOK PROVE PollsAreAuthorized
  <2>1. cached # NoToken => cached.left <= cached.live
    BY <1>2 DEF TokenOK
  <2>2. ASSUME NEW p \in Poll, poll[p].at = "polling", poll[p].since <= Spare
        PROVE  poll[p].live > 0
    <3>1. /\ poll[p].since \in Nat /\ poll[p].live \in Nat /\ Spare \in Nat
          /\ poll[p].since + poll[p].live > Spare
      BY <1>2, <2>2, TransportAssumption DEF TokenOK
    <3> QED
      BY <2>2, <3>1
  <2> QED
    BY <2>1, <2>2 DEF PollsAreAuthorized
<1> QED
  BY <1>1, <1>2, TokenStep, PTL DEF SellSpec, sellAllVars

-------------------------------------------------------------------------------
(***************************************************************************)
(* The token bucket.  What was taken and what could be taken now are       *)
(* together within what was due, wherever the clock has been.              *)
(***************************************************************************)
BucketTypeOK ==
  /\ bucket \in [cap : Nat, rate : Nat, tokens : Nat, last : Nat]
  /\ clock \in Nat
  /\ window \in [taken : Nat, due : Nat, open : BOOLEAN]

InHand(b, t) == IF t > b.last THEN Min({b.cap, b.tokens + (t - b.last) * b.rate}) ELSE b.tokens

BucketOK ==
  /\ BucketTypeOK
  /\ bucket.tokens <= bucket.cap
  /\ window.taken + InHand(bucket, clock) <= window.due

\* A tick adds a tick's refill at most; a tick back takes nothing away that is kept.
LEMMA InHandMoves ==
  ASSUME NEW b \in [cap : Nat, rate : Nat, tokens : Nat, last : Nat], b.tokens <= b.cap,
         NEW t \in Nat
  PROVE  /\ InHand(b, t) \in Nat /\ InHand(b, t) <= b.cap
         /\ InHand(b, t) <= InHand(b, t + 1)
         /\ InHand(b, t + 1) <= InHand(b, t) + b.rate
<1>1. PICK cap \in Nat, rate \in Nat, tokens \in Nat, last \in Nat :
        cap = b.cap /\ rate = b.rate /\ tokens = b.tokens /\ last = b.last
  OBVIOUS
<1> DEFINE at(n) == IF n > last THEN Min({cap, tokens + (n - last) * rate}) ELSE tokens
<1>2. \A n \in Nat : InHand(b, n) = at(n)
  BY <1>1 DEF InHand
<1>3. tokens <= cap
  BY <1>1
<1>4. CASE t > last
  <2> DEFINE x == tokens + (t - last) * rate
             y == tokens + (t + 1 - last) * rate
  <2>1. PICK k \in Nat : k = t - last /\ k + 1 = t + 1 - last
    BY <1>4
  <2>2. k * rate \in Nat /\ (k + 1) * rate = k * rate + rate
    OBVIOUS
  <2>3. x \in Nat /\ y = x + rate
    BY <2>1, <2>2
  <2>4. at(t) = Min({cap, x}) /\ at(t + 1) = Min({cap, y})
    BY <1>4
  <2> HIDE DEF x, y, at
  <2>5. y \in Nat
    BY <2>3
  <2>6. /\ Min({cap, x}) \in {cap, x} /\ Min({cap, x}) <= cap /\ Min({cap, x}) <= x
        /\ Min({cap, y}) \in {cap, y} /\ Min({cap, y}) <= cap /\ Min({cap, y}) <= y
    <3> x \in Int /\ cap \in Int
      BY <2>3
    <3>1. Min({cap, x}) \in {cap, x} /\ Min({cap, x}) <= cap /\ Min({cap, x}) <= x
      BY MinOfTwo
    <3>2. Min({cap, y}) \in {cap, y} /\ Min({cap, y}) <= cap /\ Min({cap, y}) <= y
      BY <2>5, MinOfTwo
    <3> QED
      BY <3>1, <3>2
  <2>7. at(t) \in Nat /\ at(t) <= cap /\ at(t) <= at(t + 1) /\ at(t + 1) <= at(t) + rate
    BY <2>3, <2>4, <2>5, <2>6
  <2> QED
    BY <1>1, <1>2, <2>7
<1>5. CASE t = last
  <2>1. (t + 1 - last) * rate = rate
    BY <1>5
  <2>2. at(t) = tokens /\ at(t + 1) = Min({cap, tokens + rate})
    BY <1>5, <2>1
  <2> HIDE DEF at
  <2>3. /\ Min({cap, tokens + rate}) \in {cap, tokens + rate}
        /\ Min({cap, tokens + rate}) <= cap /\ Min({cap, tokens + rate}) <= tokens + rate
    <3> DEFINE z == tokens + rate
    <3>1. z \in Int
      OBVIOUS
    <3> HIDE DEF z
    <3>2. Min({cap, z}) \in {cap, z} /\ Min({cap, z}) <= cap /\ Min({cap, z}) <= z
      BY <3>1, MinOfTwo
    <3> QED
      BY <3>2 DEF z
  <2>4. at(t) \in Nat /\ at(t) <= cap /\ at(t) <= at(t + 1) /\ at(t + 1) <= at(t) + rate
    BY <1>3, <2>2, <2>3
  <2> QED
    BY <1>1, <1>2, <2>4
<1>6. CASE t < last
  <2>1. at(t) = tokens /\ at(t + 1) = tokens
    BY <1>6
  <2> HIDE DEF at
  <2>2. at(t) \in Nat /\ at(t) <= cap /\ at(t) <= at(t + 1) /\ at(t + 1) <= at(t) + rate
    BY <1>3, <2>1
  <2> QED
    BY <1>1, <1>2, <2>2
<1> QED
  BY <1>4, <1>5, <1>6

\* #refill brings the tokens up to what is in hand and the bucket up to the clock.
LEMMA RefilledIs ==
  ASSUME BucketOK
  PROVE  /\ Refilled \in [cap : Nat, rate : Nat, tokens : Nat, last : Nat]
         /\ Refilled.tokens = InHand(bucket, clock)
         /\ Refilled.tokens <= Refilled.cap
         /\ clock <= Refilled.last
<1> DEFINE hand == InHand(bucket, clock)
<1>1. bucket \in [cap : Nat, rate : Nat, tokens : Nat, last : Nat] /\ clock \in Nat
  BY DEF BucketOK, BucketTypeOK
<1>2. hand \in Nat /\ hand <= bucket.cap
  BY <1>1, InHandMoves DEF BucketOK
<1>3. CASE clock > bucket.last
  <2>1. hand = Min({bucket.cap, bucket.tokens + (clock - bucket.last) * bucket.rate})
    BY <1>3 DEF InHand
  <2>2. Refilled = [bucket EXCEPT !.tokens = hand, !.last = clock]
    BY <1>3, <2>1 DEF Refilled
  <2> HIDE DEF hand
  <2>3. Refilled = [cap |-> bucket.cap, rate |-> bucket.rate, tokens |-> hand, last |-> clock]
    BY <1>1, <2>2
  <2>4. /\ Refilled \in [cap : Nat, rate : Nat, tokens : Nat, last : Nat]
        /\ Refilled.tokens = hand /\ Refilled.tokens <= Refilled.cap /\ clock <= Refilled.last
    BY <1>1, <1>2, <2>3
  <2> QED
    BY <2>4 DEF hand
<1>4. CASE ~(clock > bucket.last)
  <2>1. Refilled = bucket /\ hand = bucket.tokens
    BY <1>4 DEF Refilled, InHand
  <2> HIDE DEF hand
  <2>2. /\ Refilled \in [cap : Nat, rate : Nat, tokens : Nat, last : Nat]
        /\ Refilled.tokens = hand /\ Refilled.tokens <= Refilled.cap /\ clock <= Refilled.last
    BY <1>1, <1>2, <1>4, <2>1
  <2> QED
    BY <2>2 DEF hand
<1> QED
  BY <1>3, <1>4

LEMMA TakeStep ==
  ASSUME BucketOK, NEW n \in 1 .. BucketCapacity, TakeTokens(n)
  PROVE  BucketOK'
<1>1. PICK r \in [cap : Nat, rate : Nat, tokens : Nat, last : Nat] :
        /\ r = Refilled /\ r.tokens = InHand(bucket, clock) /\ r.tokens <= r.cap
        /\ clock <= r.last
  BY RefilledIs
<1>2. PICK cost \in Nat : cost = n * Parts
  <2>1. n \in Nat /\ Parts \in Nat
    BY TransportAssumption
  <2>2. n * Parts \in Nat
    BY <2>1
  <2> QED
    BY <2>2
<1>3. /\ clock \in Nat /\ clock' = clock
      /\ window \in [taken : Nat, due : Nat, open : BOOLEAN]
      /\ window.taken + r.tokens <= window.due
  BY <1>1 DEF BucketOK, BucketTypeOK, TakeTokens
<1>4. CASE r.tokens >= cost
  <2>1. bucket' = [r EXCEPT !.tokens = @ - cost] /\ window' = [window EXCEPT !.taken = @ + cost]
    BY <1>1, <1>2, <1>4 DEF TakeTokens
  <2>2. bucket' = [cap |-> r.cap, rate |-> r.rate, tokens |-> r.tokens - cost, last |-> r.last]
    BY <1>1, <2>1
  <2>3. window' = [taken |-> window.taken + cost, due |-> window.due, open |-> window.open]
    BY <1>3, <2>1
  <2>4. /\ bucket' \in [cap : Nat, rate : Nat, tokens : Nat, last : Nat]
        /\ window' \in [taken : Nat, due : Nat, open : BOOLEAN]
        /\ bucket'.tokens <= bucket'.cap
    BY <1>1, <1>2, <1>3, <1>4, <2>2, <2>3
  <2>5. InHand(bucket', clock') = r.tokens - cost
    BY <1>1, <1>3, <2>2 DEF InHand
  <2>6. window'.taken + (r.tokens - cost) <= window'.due
    BY <1>1, <1>2, <1>3, <2>3
  <2> QED
    BY <1>3, <2>4, <2>5, <2>6 DEF BucketOK, BucketTypeOK, InHand
<1>5. CASE ~(r.tokens >= cost)
  <2>1. bucket' = r /\ window' = window
    BY <1>1, <1>2, <1>5 DEF TakeTokens
  <2>2. InHand(bucket', clock') = r.tokens
    BY <1>1, <1>3, <2>1 DEF InHand
  <2> QED
    BY <1>1, <1>3, <2>1, <2>2 DEF BucketOK, BucketTypeOK, InHand
<1> QED
  BY <1>4, <1>5

LEMMA ClockStep ==
  ASSUME BucketOK, NEW t \in 0 .. MaxClock, ClockMoves(t)
  PROVE  BucketOK'
<1>1. /\ bucket \in [cap : Nat, rate : Nat, tokens : Nat, last : Nat] /\ clock \in Nat
      /\ window \in [taken : Nat, due : Nat, open : BOOLEAN]
      /\ bucket.tokens <= bucket.cap
      /\ window.taken + InHand(bucket, clock) <= window.due
  BY DEF BucketOK, BucketTypeOK
<1>2. t \in Nat /\ bucket' = bucket /\ clock' = t
  BY DEF ClockMoves
<1>3. InHand(bucket, clock) \in Nat /\ InHand(bucket, t) \in Nat
  BY <1>1, <1>2, InHandMoves
<1>4. CASE t = clock + 1
  <2>1. window' = [window EXCEPT !.due = @ + bucket.rate]
    BY <1>1, <1>2, <1>4 DEF ClockMoves
  <2>2. window' = [taken |-> window.taken, due |-> window.due + bucket.rate, open |-> window.open]
    BY <1>1, <2>1
  <2>3. InHand(bucket, t) <= InHand(bucket, clock) + bucket.rate
    BY <1>1, <1>4, InHandMoves
  <2>4. window' \in [taken : Nat, due : Nat, open : BOOLEAN]
        /\ window'.taken + InHand(bucket, t) <= window'.due
    BY <1>1, <1>3, <2>2, <2>3
  <2> QED
    BY <1>1, <1>2, <2>4 DEF BucketOK, BucketTypeOK, InHand
<1>5. CASE t = clock - 1
  <2>1. window' = window /\ clock = t + 1
    BY <1>1, <1>2, <1>5 DEF ClockMoves
  <2>2. InHand(bucket, t) <= InHand(bucket, clock)
    BY <1>1, <1>2, <2>1, InHandMoves
  <2>3. window.taken + InHand(bucket, t) <= window.due
    BY <1>1, <1>3, <2>2
  <2> QED
    BY <1>1, <1>2, <2>1, <2>3 DEF BucketOK, BucketTypeOK, InHand
<1> QED
  BY <1>4, <1>5 DEF ClockMoves

LEMMA ThrottleStep ==
  ASSUME BucketOK, Throttle
  PROVE  BucketOK'
<1> DEFINE half == Max({1, (bucket.cap \div Parts) \div 2})
<1>1. /\ bucket \in [cap : Nat, rate : Nat, tokens : Nat, last : Nat] /\ clock \in Nat
      /\ window \in [taken : Nat, due : Nat, open : BOOLEAN]
      /\ window.taken + InHand(bucket, clock) <= window.due
      /\ InHand(bucket, clock) \in Nat
  BY InHandMoves DEF BucketOK, BucketTypeOK
<1>2. half \in Nat
  <2>1. PICK n \in Int : n = (bucket.cap \div Parts) \div 2
    BY <1>1, TransportAssumption
  <2>2. PICK one \in Int : one = 1
    OBVIOUS
  <2>3. Max({one, n}) \in {one, n} /\ Max({one, n}) >= one
    BY MaxOfTwo
  <2> QED
    BY <2>1, <2>2, <2>3
<1> HIDE DEF half
<1>3. PICK cap \in Nat : cap = half * Parts
  BY <1>2, TransportAssumption
<1>4. PICK rate \in Nat : rate = bucket.rate \div 2
  BY <1>1
<1>5. /\ bucket' = [cap |-> cap, rate |-> rate, tokens |-> cap, last |-> clock]
      /\ window' = [window EXCEPT !.due = @ + cap] /\ clock' = clock
  BY <1>3, <1>4 DEF Throttle, half
<1>6. window' = [taken |-> window.taken, due |-> window.due + cap, open |-> window.open]
  BY <1>1, <1>5
<1>7. InHand(bucket', clock') = cap
  BY <1>1, <1>5 DEF InHand
<1>8. window'.taken + cap <= window'.due
  BY <1>1, <1>6
<1> QED
  BY <1>1, <1>5, <1>6, <1>7, <1>8 DEF BucketOK, BucketTypeOK, InHand

LEMMA OpenStep ==
  ASSUME BucketOK, OpenWindow
  PROVE  BucketOK'
<1>1. /\ bucket \in [cap : Nat, rate : Nat, tokens : Nat, last : Nat] /\ clock \in Nat
      /\ InHand(bucket, clock) <= bucket.cap /\ InHand(bucket, clock) \in Nat
  BY InHandMoves DEF BucketOK, BucketTypeOK
<1>2. /\ bucket' = bucket /\ clock' = clock
      /\ window' = [taken |-> 0, due |-> bucket.cap, open |-> TRUE]
  BY DEF OpenWindow
<1>3. 0 + InHand(bucket, clock) <= bucket.cap
  BY <1>1
<1> QED
  BY <1>1, <1>2, <1>3 DEF BucketOK, BucketTypeOK, InHand

\* A source is not asked more often than its rate, whatever its clock does
\* (resilience.ts:24-45).
THEOREM RateKept == SellSpec => []RateIsKept
<1>1. SellInit => BucketOK
  <2> SUFFICES ASSUME SellInit PROVE BucketOK
    OBVIOUS
  <2>1. PICK cap \in Nat : cap = BucketCapacity * Parts
    BY TransportAssumption
  <2>2. /\ bucket = [cap |-> cap, rate |-> Refill, tokens |-> cap, last |-> 0]
        /\ window = [taken |-> 0, due |-> cap, open |-> FALSE] /\ clock = 0
    BY <2>1 DEF SellInit, TransportInit
  <2>3. InHand(bucket, clock) = cap
    BY <2>2 DEF InHand
  <2>4. Refill \in Nat
    BY TransportAssumption
  <2> QED
    BY <2>1, <2>2, <2>3, <2>4 DEF BucketOK, BucketTypeOK
<1>2. ASSUME BucketOK, [SellNext]_sellAllVars
      PROVE  BucketOK'
  <2>1. SourceNext \/ UNCHANGED limitVars
    BY <1>2 DEF SellNext, TransportNext, sellAllVars, transportVars, Start, Attempt, Answer,
       BackOff, Rethrow, Wake, BreakerTicks, Authorize, TokenArrives, PollEnds, TokenTicks
  <2>2. CASE UNCHANGED limitVars
    BY <1>2, <2>2 DEF limitVars, BucketOK, BucketTypeOK, InHand
  <2> QED
    BY <1>2, <2>1, <2>2, TakeStep, ClockStep, ThrottleStep, OpenStep DEF SourceNext
<1>3. ASSUME BucketOK PROVE RateIsKept
  <2>1. InHand(bucket, clock) \in Nat
    BY <1>3, InHandMoves DEF BucketOK, BucketTypeOK
  <2> QED
    BY <1>3, <2>1 DEF BucketOK, BucketTypeOK, RateIsKept
<1> QED
  BY <1>1, <1>2, <1>3, PTL DEF SellSpec, sellAllVars

-------------------------------------------------------------------------------
(***************************************************************************)
(* The offers of a draft.  Until the desk is told of one, every live offer *)
(* is one whose publication went unanswered; from then on to the answer of *)
(* its end, the only other live offer is the one the desk was told of.     *)
(***************************************************************************)
AfterListing == {"listed", "withdraw", "end_backoff", "end_failed"}

OffersOK ==
  /\ offers \in Seq({"unpublished", "live", "withdrawn"})
  /\ step = "publish" => offerId \in DOMAIN offers
  /\ step = "listed" => listed \in Live
  /\ step \in AfterListing => listed \in DOMAIN offers /\ Live \subseteq {listed} \cup unheard
  /\ step \notin AfterListing => Live \subseteq unheard

\* A new offer is live only when it is published.
LEMMA PostOfferStep ==
  ASSUME OffersOK, PostOffer
  PROVE  OffersOK'
<1>1. /\ offers \in Seq({"unpublished", "live", "withdrawn"})
      /\ offers' = Append(offers, "unpublished") /\ UNCHANGED <<listed, unheard>>
      /\ Live \subseteq unheard
  BY DEF OffersOK, PostOffer, AfterListing
<1>2. /\ offers' \in Seq({"unpublished", "live", "withdrawn"})
      /\ Len(offers') = Len(offers) + 1 /\ Len(offers) \in Nat
      /\ \A i \in 1 .. Len(offers) : offers'[i] = offers[i]
      /\ offers'[Len(offers) + 1] = "unpublished"
  BY <1>1
<1>3. /\ DOMAIN offers' = 1 .. Len(offers')
      /\ DOMAIN offers = 1 .. Len(offers)
  BY <1>1, <1>2
<1>4. Live' \subseteq Live
  <2> SUFFICES ASSUME NEW i \in DOMAIN offers', offers'[i] = "live"
               PROVE  i \in DOMAIN offers /\ offers[i] = "live"
    BY DEF Live
  <2>1. i # Len(offers) + 1
    BY <1>2
  <2>2. i \in 1 .. Len(offers)
    BY <1>2, <1>3, <2>1
  <2> QED
    BY <1>2, <1>3, <2>2
<1>5. step' = "publish" => offerId' \in DOMAIN offers'
  BY <1>2, <1>3 DEF PostOffer, PublishThrows, Throws
<1>6. step' \notin AfterListing
  BY DEF PostOffer, PublishThrows, Throws, AfterListing
<1> QED
  BY <1>1, <1>2, <1>4, <1>5, <1>6 DEF OffersOK, AfterListing

\* A publication that goes unanswered is one of the unheard.
LEMMA PostPublishStep ==
  ASSUME OffersOK, PostPublish
  PROVE  OffersOK'
<1>1. /\ offers \in Seq({"unpublished", "live", "withdrawn"}) /\ offerId \in DOMAIN offers
      /\ offers' = [offers EXCEPT ![offerId] = "live"]
      /\ Live \subseteq unheard
  BY DEF OffersOK, PostPublish, AfterListing
<1>2. /\ offers' \in Seq({"unpublished", "live", "withdrawn"}) /\ DOMAIN offers' = DOMAIN offers
      /\ offers'[offerId] = "live"
      /\ \A i \in DOMAIN offers : i # offerId => offers'[i] = offers[i]
  BY <1>1
<1>3. Live' = Live \cup {offerId}
  BY <1>1, <1>2 DEF Live
<1>4. \/ step' = "listed" /\ listed' = offerId /\ unheard' = unheard
      \/ step' \in {"publish_failed", "publish_backoff"} /\ unheard' = unheard \cup {offerId}
  BY DEF PostPublish, PublishThrows, Throws
<1> QED
  BY <1>1, <1>2, <1>3, <1>4 DEF OffersOK, AfterListing

\* A withdrawal takes down the offer the desk was told of, answered or not.
LEMMA PostWithdrawStep ==
  ASSUME OffersOK, PostWithdraw
  PROVE  OffersOK'
<1>1. /\ offers \in Seq({"unpublished", "live", "withdrawn"})
      /\ offers' = [offers EXCEPT ![listed] = "withdrawn"] /\ listed \in DOMAIN offers
      /\ Live \subseteq {listed} \cup unheard /\ UNCHANGED <<listed, unheard>>
  BY DEF OffersOK, PostWithdraw, AfterListing
<1>2. /\ offers' \in Seq({"unpublished", "live", "withdrawn"}) /\ DOMAIN offers' = DOMAIN offers
      /\ \A i \in DOMAIN offers : offers'[i] = IF i = listed THEN "withdrawn" ELSE offers[i]
  BY <1>1
<1>3. Live' = Live \ {listed}
  BY <1>1, <1>2 DEF Live
<1>4. step' \in {"ended", "end_failed", "end_backoff"}
  BY DEF PostWithdraw, EndThrows, Throws
<1> QED
  BY <1>1, <1>2, <1>3, <1>4 DEF OffersOK, AfterListing

\* The steps that create, publish and withdraw nothing.
LEMMA QuietStep ==
  ASSUME OffersOK,
         \/ Publish \/ PutItem \/ PublishRefused \/ PublishAgain
         \/ End \/ WithdrawRefused \/ EndAgain
  PROVE  OffersOK'
<1>1. offers' = offers /\ listed' = listed /\ unheard' = unheard /\ offerId' = offerId
  BY DEF Publish, PutItem, PublishRefused, PublishAgain, End, WithdrawRefused, EndAgain,
         marketVars
<1>2. Live' = Live
  BY <1>1 DEF Live
<1>3. CASE Publish \/ PutItem \/ PublishRefused \/ PublishAgain
  <2>1. step' \in {"put", "offer", "publish_failed", "publish_backoff"}
    BY <1>3 DEF Publish, PutItem, PublishRefused, PublishAgain, PublishThrows, Throws, Begin
  <2>2. step \in {"draft", "put", "offer", "publish", "publish_backoff"}
    BY <1>3 DEF Publish, PutItem, PublishRefused, PublishAgain
  <2> QED
    BY <1>1, <1>2, <2>1, <2>2 DEF OffersOK, AfterListing
<1>4. CASE End \/ WithdrawRefused \/ EndAgain
  <2>1. step' \in {"withdraw", "end_failed", "end_backoff"}
    BY <1>4 DEF End, WithdrawRefused, EndAgain, EndThrows, Throws, Begin
  <2>2. step \in AfterListing
    BY <1>4 DEF End, WithdrawRefused, EndAgain, AfterListing
  <2> QED
    BY <1>1, <1>2, <2>1, <2>2 DEF OffersOK, AfterListing
<1> QED
  BY <1>3, <1>4

\* What buyers can see is what the desk knows, but for the publications whose answer was
\* lost, for any number of attempts (sell.ts:98-141).
THEOREM OffersAccountedFor == SellSpec => []OffersAreAccountedFor
<1>1. SellInit => OffersOK
  <2>1. <<>> \in Seq({"unpublished", "live", "withdrawn"}) /\ DOMAIN <<>> = {}
    OBVIOUS
  <2> QED
    BY <2>1 DEF SellInit, OffersOK, Live, AfterListing
<1>2. ASSUME OffersOK, [SellNext]_sellAllVars
      PROVE  OffersOK'
  <2>1. SellStep \/ UNCHANGED sellVars
    BY <1>2 DEF SellNext, sellAllVars
  <2>2. CASE UNCHANGED sellVars
    BY <1>2, <2>2 DEF sellVars, marketVars, OffersOK, Live
  <2> QED
    BY <1>2, <2>1, <2>2, PostOfferStep, PostPublishStep, PostWithdrawStep, QuietStep
    DEF SellStep
<1>3. OffersOK => OffersAreAccountedFor
  BY DEF OffersOK, OffersAreAccountedFor, AfterListing
<1> QED
  BY <1>1, <1>2, <1>3, PTL DEF SellSpec, sellAllVars

-------------------------------------------------------------------------------
(***************************************************************************)
(* The bounded channel.                                                    *)
(***************************************************************************)
\* A waiting producer is paid for by an item in the buffer or by a push that
\* is on its way into it.
RoomIsTaken == pushWaiters # <<>> => Len(buf) + Len(microtasks) >= Capacity

\* The inductive invariant.
ChannelInv == ChannelTypeOK /\ RoomIsTaken

\* Appending to a sequence or taking its head off, and the lengths.
LEMMA SeqFacts ==
  ASSUME NEW S, NEW s \in Seq(S)
  PROVE  /\ s # <<>> => /\ Head(s) \in S /\ Tail(s) \in Seq(S)
                        /\ Len(s) > 0 /\ Len(Tail(s)) = Len(s) - 1
         /\ s = <<>> => Len(s) = 0
         /\ Len(s) \in Nat
         /\ \A x \in S : Append(s, x) \in Seq(S) /\ Len(Append(s, x)) = Len(s) + 1
  OBVIOUS

LEMMA ChannelInitInv == ChannelInit => ChannelInv
<1> SUFFICES ASSUME ChannelInit PROVE ChannelInv
  OBVIOUS
<1>1. <<>> \in Seq(PushCall) /\ <<>> \in Seq(PullCall)
  OBVIOUS
<1>2. ChannelTypeOK
  BY <1>1 DEF ChannelInit, ChannelTypeOK
<1>3. RoomIsTaken
  BY DEF ChannelInit, RoomIsTaken
<1> QED
  BY <1>2, <1>3 DEF ChannelInv

\* A push, whichever way it ends.
LEMMA PushKeeps ==
  ASSUME ChannelInv, NEW p \in PushCall, Push(p) \/ TryPush(p)
  PROVE  ChannelInv'
<1> USE ChannelAssumption DEF ChannelInv, ChannelTypeOK, Becomes
<1>1. CASE HandOver(p)
  <2>1. Head(pullWaiters) \in PullCall /\ Tail(pullWaiters) \in Seq(PullCall)
    BY <1>1, SeqFacts DEF HandOver
  <2> QED
    BY <1>1, <2>1 DEF HandOver, RoomIsTaken
<1>2. CASE Buffer(p)
  <2>1. Append(buf, p) \in Seq(PushCall) /\ Len(Append(buf, p)) = Len(buf) + 1
    BY SeqFacts
  <2>2. Len(buf) \in Nat /\ Len(microtasks) \in Nat
    BY SeqFacts
  <2>3. ChannelTypeOK'
    BY <1>2, <2>1 DEF Buffer
  <2>4. RoomIsTaken'
    BY <1>2, <2>1, <2>2 DEF Buffer, RoomIsTaken
  <2> QED
    BY <2>3, <2>4
<1>3. CASE Full /\ WaitForRoom(p)
  <2>1. Len(buf) \in Nat /\ Len(microtasks) \in Nat
    BY SeqFacts
  <2>2. ChannelTypeOK'
    BY <1>3, SeqFacts DEF WaitForRoom
  <2>3. RoomIsTaken'
    BY <1>3, <2>1 DEF Full, WaitForRoom, RoomIsTaken
  <2> QED
    BY <2>2, <2>3
<1>4. CASE Refuse(p)
  BY <1>4 DEF Refuse, RoomIsTaken
<1> QED
  BY <1>1, <1>2, <1>3, <1>4 DEF Push, TryPush, WaitForRoom

\* A pull: the room it makes goes to the producer it wakes.
LEMMA PullKeeps ==
  ASSUME ChannelInv, NEW c \in PullCall, Pull(c)
  PROVE  ChannelInv'
<1> USE ChannelAssumption DEF ChannelInv, ChannelTypeOK, Becomes
<1>1. CASE Take(c)
  <2>1. /\ buf # <<>> /\ buf' = Tail(buf) /\ got' = [got EXCEPT ![c] = Head(buf)]
        /\ Tail(buf) \in Seq(PushCall) /\ Head(buf) \in PushCall
        /\ Len(buf') = Len(buf) - 1 /\ Len(buf) \in Nat /\ Len(microtasks) \in Nat
    BY <1>1, SeqFacts DEF Take
  <2>2. CASE pushWaiters = <<>>
    BY <1>1, <2>1, <2>2 DEF Take, WakeProducer, RoomIsTaken
  <2>3. CASE pushWaiters # <<>>
    <3>1. /\ Head(pushWaiters) \in PushCall /\ Tail(pushWaiters) \in Seq(PushCall)
          /\ Append(microtasks, Head(pushWaiters)) \in Seq(PushCall)
          /\ Len(Append(microtasks, Head(pushWaiters))) = Len(microtasks) + 1
      BY <2>3, SeqFacts
    <3>2. microtasks' = Append(microtasks, Head(pushWaiters))
      BY <1>1, <2>3 DEF Take, WakeProducer
    <3>3. ChannelTypeOK'
      BY <1>1, <2>1, <2>3, <3>1 DEF Take, WakeProducer
    <3>4. RoomIsTaken'
      BY <2>1, <2>3, <3>1, <3>2 DEF RoomIsTaken
    <3> QED
      BY <3>3, <3>4
  <2> QED
    BY <2>2, <2>3
<1>2. CASE WaitForItem(c)
  BY <1>2, SeqFacts DEF WaitForItem, RoomIsTaken
<1> QED
  BY <1>1, <1>2 DEF Pull

\* The rest of a woken push.
LEMMA ContinueKeeps ==
  ASSUME ChannelInv, Continue
  PROVE  ChannelInv'
<1> USE ChannelAssumption DEF ChannelInv, ChannelTypeOK, Becomes
<1>1. /\ microtasks # <<>> /\ microtasks' = Tail(microtasks)
      /\ buf' = Append(buf, Head(microtasks))
      /\ pushWaiters' = pushWaiters
  BY DEF Continue
<1>2. /\ Head(microtasks) \in PushCall /\ Tail(microtasks) \in Seq(PushCall)
      /\ Len(microtasks') = Len(microtasks) - 1 /\ Len(microtasks) \in Nat
  BY <1>1, SeqFacts
<1>3. Append(buf, Head(microtasks)) \in Seq(PushCall) /\ Len(buf') = Len(buf) + 1 /\ Len(buf) \in Nat
  BY <1>1, <1>2, SeqFacts
<1>4. ChannelTypeOK'
  BY <1>1, <1>2, <1>3 DEF Continue
<1>5. RoomIsTaken'
  BY <1>1, <1>2, <1>3 DEF RoomIsTaken
<1> QED
  BY <1>4, <1>5

\* ChannelInv holds in every reachable state.
THEOREM ChannelInductive == ChannelSpec => []ChannelInv
<1>1. ASSUME ChannelInv, [ChannelNext]_channelVars PROVE ChannelInv'
  <2>1. CASE Close
    BY <1>1, <2>1 DEF Close, ChannelInv, ChannelTypeOK, RoomIsTaken
  <2>2. CASE UNCHANGED channelVars
    BY <1>1, <2>2 DEF channelVars, ChannelInv, ChannelTypeOK, RoomIsTaken
  <2> QED
    BY <1>1, <2>1, <2>2, PushKeeps, PullKeeps, ContinueKeeps DEF ChannelNext
<1> QED
  BY <1>1, ChannelInitInv, PTL DEF ChannelSpec

\* Every variable keeps its type: in particular, what a pull resolves to is
\* an item that some call pushed.
THEOREM ChannelTypeCorrect == ChannelSpec => []ChannelTypeOK
BY ChannelInductive, PTL DEF ChannelInv

\* No wake-up is lost: when no woken push is pending, a producer that waits
\* waits for a full buffer (channel.ts:56, 62-65).
THEOREM NoLostWakeup == ChannelSpec => []NoNeedlessWait
<1>1. ChannelInv => NoNeedlessWait
  BY ChannelAssumption, SeqFacts DEF ChannelInv, ChannelTypeOK, RoomIsTaken, NoNeedlessWait
<1> QED
  BY <1>1, ChannelInductive, PTL

-------------------------------------------------------------------------------
(***************************************************************************)
(* Counting in sequences: how many positions of s hold a member of T, and  *)
(* what appending an element or taking off the head does to that number.   *)
(***************************************************************************)
Where(s, T) == {i \in DOMAIN s : s[i] \in T}
Count(s, T) == Cardinality(Where(s, T))

LEMMA CountType ==
  ASSUME NEW S, NEW s \in Seq(S), NEW T
  PROVE  /\ IsFiniteSet(Where(s, T))
         /\ Count(s, T) \in Nat
         /\ Count(s, T) <= Len(s)
         /\ Count(<<>>, T) = 0
<1>1. Len(s) \in Nat /\ DOMAIN s = 1 .. Len(s)
  OBVIOUS
<1>2. IsFiniteSet(1 .. Len(s)) /\ Cardinality(1 .. Len(s)) = Len(s)
  <2>1. Len(s) \in Int /\ 1 \in Int
    BY <1>1
  <2>2. IsFiniteSet(1 .. Len(s))
        /\ Cardinality(1 .. Len(s)) = IF 1 > Len(s) THEN 0 ELSE Len(s) - 1 + 1
    BY <2>1, FS_Interval
  <2> QED
    BY <1>1, <2>2
<1>3. Where(s, T) \in SUBSET (1 .. Len(s))
  BY <1>1 DEF Where
<1>4. IsFiniteSet(Where(s, T)) /\ Count(s, T) <= Len(s)
  BY <1>2, <1>3, FS_Subset DEF Count
<1>5. Where(<<>>, T) = {}
  BY DEF Where
<1>6. Count(<<>>, T) = 0
  BY <1>5, FS_EmptySet DEF Count
<1> QED
  BY <1>4, <1>6, FS_CardinalityType DEF Count

LEMMA CountGrows ==
  ASSUME NEW S, NEW s \in Seq(S), NEW T, NEW U, \A x \in S : x \in T => x \in U
  PROVE  Count(s, T) <= Count(s, U)
<1>1. Where(s, T) \in SUBSET Where(s, U)
  BY DEF Where
<1> QED
  BY <1>1, CountType, FS_Subset DEF Count

LEMMA CountAppend ==
  ASSUME NEW S, NEW s \in Seq(S), NEW x \in S, NEW T
  PROVE  Count(Append(s, x), T) = Count(s, T) + IF x \in T THEN 1 ELSE 0
<1> DEFINE n == Len(s) + 1
<1>1. /\ Append(s, x) \in Seq(S) /\ DOMAIN Append(s, x) = 1 .. n /\ DOMAIN s = 1 .. Len(s)
      /\ \A i \in 1 .. Len(s) : Append(s, x)[i] = s[i]
      /\ Append(s, x)[n] = x /\ Len(s) \in Nat
  BY AppendProperties
<1>2. n \notin Where(s, T)
  BY <1>1 DEF Where
<1>3. CASE x \in T
  <2>1. Where(Append(s, x), T) = Where(s, T) \cup {n}
    BY <1>1, <1>3 DEF Where
  <2>2. Cardinality(Where(s, T) \cup {n}) = Cardinality(Where(s, T)) + 1
    BY <1>2, CountType, FS_AddElement
  <2> QED
    BY <1>3, <2>1, <2>2 DEF Count
<1>4. CASE x \notin T
  <2>1. Where(Append(s, x), T) = Where(s, T)
    BY <1>1, <1>4 DEF Where
  <2>2. Count(s, T) \in Nat
    BY CountType
  <2> QED
    BY <1>4, <2>1, <2>2 DEF Count
<1> QED
  BY <1>3, <1>4

LEMMA CountTail ==
  ASSUME NEW S, NEW s \in Seq(S), s # <<>>, NEW T
  PROVE  Count(s, T) = Count(Tail(s), T) + IF Head(s) \in T THEN 1 ELSE 0
<1> DEFINE J == Where(Tail(s), T)
           K == Where(s, T) \ {1}
           f == [j \in J |-> j + 1]
<1>1. /\ Tail(s) \in Seq(S) /\ Len(s) \in Nat /\ Len(s) > 0 /\ Len(Tail(s)) = Len(s) - 1
      /\ DOMAIN s = 1 .. Len(s) /\ DOMAIN Tail(s) = 1 .. Len(s) - 1
      /\ \A i \in 1 .. Len(s) - 1 : Tail(s)[i] = s[i + 1]
      /\ Head(s) = s[1]
  BY HeadTailProperties
<1>2. J \subseteq 1 .. Len(s) - 1 /\ K \subseteq 2 .. Len(s)
  BY <1>1 DEF Where
<1>3. f \in Bijection(J, K)
  <2>1. f \in [J -> K]
    <3>1. ASSUME NEW j \in J PROVE j + 1 \in K
      BY <1>1, <1>2 DEF Where
    <3> QED
      BY <3>1
  <2>2. \A a, b \in J : f[a] = f[b] => a = b
    BY <1>2
  <2>3. ASSUME NEW k \in K PROVE \E j \in J : f[j] = k
    <3>1. k - 1 \in J /\ (k - 1) + 1 = k
      BY <1>1, <1>2 DEF Where
    <3>2. f[k - 1] = (k - 1) + 1
      BY <3>1
    <3> QED
      BY <3>1, <3>2
  <2> HIDE DEF f, J, K
  <2>4. f \in Injection(J, K)
    BY <2>1, <2>2 DEF Injection, IsInjective
  <2>5. f \in Surjection(J, K)
    BY <2>1, <2>3 DEF Surjection
  <2> QED
    BY <2>4, <2>5 DEF Bijection
<1>4. Cardinality(K) = Count(Tail(s), T)
  <2>1. IsFiniteSet(J)
    BY <1>1, CountType
  <2>2. ExistsBijection(J, K)
    BY <1>3 DEF ExistsBijection
  <2> QED
    BY <2>1, <2>2, FS_Bijection DEF Count
<1>5. Cardinality(K) = IF 1 \in Where(s, T) THEN Count(s, T) - 1 ELSE Count(s, T)
  BY CountType, FS_RemoveElement DEF Count
<1>6. 1 \in Where(s, T) <=> Head(s) \in T
  BY <1>1 DEF Where
<1>7. Count(s, T) \in Nat /\ Count(Tail(s), T) \in Nat
  BY <1>1, CountType
<1> QED
  BY <1>4, <1>5, <1>6, <1>7

LEMMA PlacesIsCount ==
  ASSUME NEW S, NEW s \in Seq(S), NEW p
  PROVE  Places(s, p) = Count(s, {p})
<1>1. {i \in DOMAIN s : s[i] = p} = Where(s, {p})
  BY DEF Where
<1> QED
  BY <1>1 DEF Places, Count

-------------------------------------------------------------------------------
(***************************************************************************)
(* Conservation of items.  Beside the count itself the invariant says that *)
(* a pull in line is unanswered and in line once, so that an item handed   *)
(* over is not handed over what another item was (channel.ts:27-31, 53-60).*)
(***************************************************************************)
Takers(p) == {c \in PullCall : got[c] = p}

PullersOK == /\ \A i \in DOMAIN pullWaiters : got[pullWaiters[i]] = NoItem
             /\ \A i, j \in DOMAIN pullWaiters : pullWaiters[i] = pullWaiters[j] => i = j

Conserved == /\ ChannelTypeOK
             /\ PullersOK
             /\ \A p \in PushCall : IsFiniteSet(Takers(p))
             /\ ItemsAreConserved

\* Where the copies of an item are, by the counting above.
Held(p) == Count(buf, {p}) + Count(pushWaiters, {p}) + Count(microtasks, {p})
           + Cardinality(Takers(p))

\* How much an event on x adds to the copies of p.
One(x, p) == IF x = p THEN 1 ELSE 0

LEMMA HeldIsCopies ==
  /\ ChannelTypeOK => \A p \in PushCall : Copies(p) = Held(p)
  /\ ChannelTypeOK' => \A p \in PushCall : Copies(p)' = Held(p)'
BY PlacesIsCount DEF ChannelTypeOK, Copies, Held, Takers

\* The numbers that are added are numbers.
LEMMA HeldType ==
  ASSUME Conserved, NEW p \in PushCall
  PROVE  /\ Count(buf, {p}) \in Nat /\ Count(pushWaiters, {p}) \in Nat
         /\ Count(microtasks, {p}) \in Nat /\ Cardinality(Takers(p)) \in Nat
         /\ Held(p) = IF push[p] \in {"idle", "refused"} THEN 0 ELSE 1
BY CountType, FS_CardinalityType, HeldIsCopies DEF Conserved, ChannelTypeOK, ItemsAreConserved

\* What moves to and from an end of a sequence, for every item.
LEMMA CountsMove ==
  ASSUME NEW S, NEW s \in Seq(S), NEW p
  PROVE  /\ \A x \in S : Count(Append(s, x), {p}) = Count(s, {p}) + One(x, p)
         /\ s # <<>> => Count(s, {p}) = Count(Tail(s), {p}) + One(Head(s), p)
         /\ Count(s, {p}) \in Nat
         /\ s # <<>> => Count(Tail(s), {p}) \in Nat
<1>1. \A x : One(x, p) = IF x \in {p} THEN 1 ELSE 0
  BY DEF One
<1>2. s # <<>> => Tail(s) \in Seq(S)
  BY SeqFacts
<1>3. \A x \in S : Count(Append(s, x), {p}) = Count(s, {p}) + One(x, p)
  BY <1>1, CountAppend
<1>4. s # <<>> => Count(s, {p}) = Count(Tail(s), {p}) + One(Head(s), p)
  BY <1>1, CountTail
<1>5. Count(s, {p}) \in Nat /\ (s # <<>> => Count(Tail(s), {p}) \in Nat)
  BY <1>2, CountType
<1> QED
  BY <1>3, <1>4, <1>5

\* An unanswered pull gets item x: x has one taker more, other items none.
LEMMA TakersGrow ==
  ASSUME Conserved, NEW c \in PullCall, NEW x \in PushCall, got[c] = NoItem,
         got' = [got EXCEPT ![c] = x]
  PROVE  \A p \in PushCall : /\ IsFiniteSet(Takers(p)')
                             /\ Cardinality(Takers(p)') = Cardinality(Takers(p)) + One(x, p)
<1> SUFFICES ASSUME NEW p \in PushCall
             PROVE  /\ IsFiniteSet(Takers(p)')
                    /\ Cardinality(Takers(p)') = Cardinality(Takers(p)) + One(x, p)
  OBVIOUS
<1>1. IsFiniteSet(Takers(p)) /\ Cardinality(Takers(p)) \in Nat /\ c \notin Takers(p)
  BY ChannelAssumption, FS_CardinalityType DEF Conserved, Takers
<1>2. CASE p = x
  <2>1. Takers(p)' = Takers(p) \cup {c}
    BY <1>2 DEF Takers, Conserved, ChannelTypeOK
  <2>2. IsFiniteSet(Takers(p) \cup {c})
        /\ Cardinality(Takers(p) \cup {c}) = Cardinality(Takers(p)) + 1
    BY <1>1, FS_AddElement
  <2> QED
    BY <1>2, <2>1, <2>2 DEF One
<1>3. CASE p # x
  <2>1. Takers(p)' = Takers(p)
    BY <1>1, <1>3 DEF Takers, Conserved, ChannelTypeOK
  <2> QED
    BY <1>1, <1>3, <2>1 DEF One
<1> QED
  BY <1>2, <1>3

\* A pull that joins the line is not in it, and one that leaves it leaves it for good.
LEMMA LineMoves ==
  ASSUME Conserved
  PROVE  /\ pullWaiters # <<>> =>
              /\ Head(pullWaiters) \in PullCall /\ got[Head(pullWaiters)] = NoItem
              /\ \A x : pullWaiters' = Tail(pullWaiters)
                        /\ got' = [got EXCEPT ![Head(pullWaiters)] = x] => PullersOK'
         /\ \A c \in PullCall : ~Called(c) =>
              /\ got[c] = NoItem
              /\ pullWaiters' = Append(pullWaiters, c) /\ got' = got => PullersOK'
              /\ \A x : pullWaiters' = pullWaiters /\ got' = [got EXCEPT ![c] = x] => PullersOK'
<1> USE DEF Conserved, ChannelTypeOK
<1>1. ASSUME pullWaiters # <<>>
      PROVE  /\ Head(pullWaiters) \in PullCall /\ got[Head(pullWaiters)] = NoItem
             /\ \A x : pullWaiters' = Tail(pullWaiters)
                       /\ got' = [got EXCEPT ![Head(pullWaiters)] = x] => PullersOK'
  <2>1. /\ Head(pullWaiters) = pullWaiters[1] /\ Head(pullWaiters) \in PullCall
        /\ DOMAIN pullWaiters = 1 .. Len(pullWaiters) /\ Len(pullWaiters) \in Nat
        /\ 1 \in DOMAIN pullWaiters
        /\ DOMAIN Tail(pullWaiters) = 1 .. Len(pullWaiters) - 1
        /\ \A i \in 1 .. Len(pullWaiters) - 1 : Tail(pullWaiters)[i] = pullWaiters[i + 1]
    BY <1>1, HeadTailProperties
  <2>2. got[Head(pullWaiters)] = NoItem
    BY <2>1 DEF PullersOK
  <2>3. ASSUME NEW x, pullWaiters' = Tail(pullWaiters),
               got' = [got EXCEPT ![Head(pullWaiters)] = x]
        PROVE  PullersOK'
    <3>1. \A i \in 1 .. Len(pullWaiters) - 1 : /\ i + 1 \in DOMAIN pullWaiters
                                               /\ i + 1 # 1
                                               /\ pullWaiters[i + 1] # pullWaiters[1]
      BY <2>1 DEF PullersOK
    <3>2. \A i \in DOMAIN pullWaiters' : got'[pullWaiters'[i]] = NoItem
      <4> SUFFICES ASSUME NEW i \in 1 .. Len(pullWaiters) - 1
                   PROVE  got'[pullWaiters'[i]] = NoItem
        BY <2>1, <2>3
      <4>1. pullWaiters'[i] = pullWaiters[i + 1] /\ pullWaiters[i + 1] \in PullCall
        BY <2>1, <2>3, <3>1
      <4> QED
        BY <2>1, <2>3, <3>1, <4>1 DEF PullersOK
    <3>3. \A i, j \in DOMAIN pullWaiters' : pullWaiters'[i] = pullWaiters'[j] => i = j
      <4> SUFFICES ASSUME NEW i \in 1 .. Len(pullWaiters) - 1,
                          NEW j \in 1 .. Len(pullWaiters) - 1,
                          pullWaiters'[i] = pullWaiters'[j]
                   PROVE  i = j
        BY <2>1, <2>3
      <4>1. pullWaiters[i + 1] = pullWaiters[j + 1]
        BY <2>1, <2>3
      <4>2. i + 1 = j + 1
        BY <3>1, <4>1 DEF PullersOK
      <4> QED
        BY <4>2
    <3> QED
      BY <3>2, <3>3 DEF PullersOK
  <2> QED
    BY <2>1, <2>2, <2>3
<1>2. ASSUME NEW c \in PullCall, ~Called(c)
      PROVE  /\ got[c] = NoItem
             /\ pullWaiters' = Append(pullWaiters, c) /\ got' = got => PullersOK'
             /\ \A x : pullWaiters' = pullWaiters /\ got' = [got EXCEPT ![c] = x] => PullersOK'
  <2>1. got[c] = NoItem /\ \A i \in DOMAIN pullWaiters : pullWaiters[i] # c
    BY <1>2 DEF Called
  <2>2. ASSUME pullWaiters' = Append(pullWaiters, c), got' = got PROVE PullersOK'
    <3> DEFINE n == Len(pullWaiters) + 1
    <3>1. /\ DOMAIN pullWaiters = 1 .. Len(pullWaiters) /\ Len(pullWaiters) \in Nat
          /\ DOMAIN pullWaiters' = 1 .. n /\ pullWaiters'[n] = c
          /\ \A i \in DOMAIN pullWaiters : pullWaiters'[i] = pullWaiters[i]
      BY <2>2, AppendProperties
    <3>2. \A i \in 1 .. n : i = n \/ i \in DOMAIN pullWaiters
      BY <3>1
    <3>3. \A i \in DOMAIN pullWaiters' : got'[pullWaiters'[i]] = NoItem
      BY <2>1, <2>2, <3>1, <3>2 DEF PullersOK
    <3>4. \A i, j \in DOMAIN pullWaiters' : pullWaiters'[i] = pullWaiters'[j] => i = j
      BY <2>1, <3>1, <3>2 DEF PullersOK
    <3> QED
      BY <3>3, <3>4 DEF PullersOK
  <2>3. ASSUME NEW x, pullWaiters' = pullWaiters, got' = [got EXCEPT ![c] = x] PROVE PullersOK'
    BY <2>1, <2>3 DEF PullersOK
  <2> QED
    BY <2>1, <2>2, <2>3
<1> QED
  BY <1>1, <1>2

\* What is left to show of a step when the copies of each item are known.
LEMMA Recount ==
  ASSUME Conserved, ChannelTypeOK', PullersOK', \A p \in PushCall : IsFiniteSet(Takers(p)'),
         \A p \in PushCall : Held(p)' = IF push'[p] \in {"idle", "refused"} THEN 0 ELSE 1
  PROVE  Conserved'
<1>1. ItemsAreConserved'
  BY HeldIsCopies DEF ItemsAreConserved
<1> QED
  BY <1>1 DEF Conserved

\* An item held somewhere is one its call took.
LEMMA HeldIsTaken ==
  ASSUME Conserved, NEW p \in PushCall,
         \/ buf # <<>> /\ p = Head(buf)
         \/ pushWaiters # <<>> /\ p = Head(pushWaiters)
         \/ microtasks # <<>> /\ p = Head(microtasks)
  PROVE  push[p] \notin {"idle", "refused"}
<1>1. \A s \in Seq(PushCall) : s # <<>> /\ p = Head(s) => Count(s, {p}) >= 1
  <2> SUFFICES ASSUME NEW s \in Seq(PushCall), s # <<>>, p = Head(s) PROVE Count(s, {p}) >= 1
    OBVIOUS
  <2>1. Count(s, {p}) = Count(Tail(s), {p}) + One(p, p) /\ Count(Tail(s), {p}) \in Nat
    BY CountsMove
  <2>2. One(p, p) = 1
    BY DEF One
  <2> QED
    BY <2>1, <2>2
<1>2. Count(buf, {p}) >= 1 \/ Count(pushWaiters, {p}) >= 1 \/ Count(microtasks, {p}) >= 1
  BY <1>1 DEF Conserved, ChannelTypeOK
<1>3. /\ Count(buf, {p}) \in Nat /\ Count(pushWaiters, {p}) \in Nat
      /\ Count(microtasks, {p}) \in Nat /\ Cardinality(Takers(p)) \in Nat
  BY HeldType
<1>4. Held(p) >= 1
  BY <1>2, <1>3 DEF Held
<1>5. push[p] \in {"idle", "refused"} => Held(p) = 0
  BY HeldType
<1> QED
  BY <1>4, <1>5

(***************************************************************************)
(* A push brings its item to one place, or to none when it is refused      *)
(* (channel.ts:27-51).                                                     *)
(***************************************************************************)
LEMMA PushConserves ==
  ASSUME Conserved, ChannelTypeOK', NEW p \in PushCall, Push(p) \/ TryPush(p)
  PROVE  Conserved'
<1> USE DEF Becomes
<1>1. push[p] = "idle" /\ Held(p) = 0
  BY HeldType DEF Push, TryPush
<1>2. ASSUME push' = [push EXCEPT ![p] = push'[p]], push'[p] \notin {"idle", "refused"},
             PullersOK', \A q \in PushCall : IsFiniteSet(Takers(q)'),
             \A q \in PushCall : Held(q)' = Held(q) + One(p, q)
      PROVE  Conserved'
  <2>1. ASSUME NEW q \in PushCall
        PROVE  Held(q)' = IF push'[q] \in {"idle", "refused"} THEN 0 ELSE 1
    <3>1. CASE q = p
      BY <1>1, <1>2, <3>1 DEF One
    <3>2. CASE q # p
      <4>1. push'[q] = push[q]
        BY <1>2, <3>2 DEF Conserved, ChannelTypeOK
      <4>2. Held(q) = (IF push[q] \in {"idle", "refused"} THEN 0 ELSE 1)
        BY HeldType
      <4>3. Held(q)' = Held(q) + 0
        BY <1>2, <3>2 DEF One
      <4> QED
        BY <4>1, <4>2, <4>3
    <3> QED
      BY <3>1, <3>2
  <2> QED
    BY <1>2, <2>1, Recount
<1>3. CASE HandOver(p)
  <2>1. /\ pullWaiters # <<>> /\ UNCHANGED <<buf, pushWaiters, microtasks>>
        /\ got' = [got EXCEPT ![Head(pullWaiters)] = p] /\ pullWaiters' = Tail(pullWaiters)
        /\ push' = [push EXCEPT ![p] = "done"]
    BY <1>3 DEF HandOver
  <2>2. PullersOK' /\ Head(pullWaiters) \in PullCall /\ got[Head(pullWaiters)] = NoItem
    BY <2>1, LineMoves
  <2>3. \A q \in PushCall : /\ IsFiniteSet(Takers(q)')
                            /\ Cardinality(Takers(q)') = Cardinality(Takers(q)) + One(p, q)
    BY <2>1, <2>2, TakersGrow
  <2>4. ASSUME NEW q \in PushCall PROVE Held(q)' = Held(q) + One(p, q)
    BY <2>1, <2>3, HeldType DEF Held, One
  <2>5. push'[p] = "done"
    BY <2>1 DEF Conserved, ChannelTypeOK
  <2> QED
    BY <1>2, <2>1, <2>2, <2>3, <2>4, <2>5
<1>4. ASSUME UNCHANGED <<pullWaiters, got>>
      PROVE  PullersOK' /\ \A q \in PushCall : Takers(q)' = Takers(q) /\ IsFiniteSet(Takers(q)')
  <2>1. \A q \in PushCall : Takers(q)' = Takers(q)
    BY <1>4 DEF Takers
  <2> QED
    BY <1>4, <2>1 DEF PullersOK, Conserved
<1>5. CASE Buffer(p)
  <2>1. /\ UNCHANGED <<pushWaiters, pullWaiters, microtasks, got>> /\ buf' = Append(buf, p)
        /\ push' = [push EXCEPT ![p] = "done"] /\ push'[p] = "done"
    BY <1>5 DEF Buffer, Conserved, ChannelTypeOK
  <2>2. ASSUME NEW q \in PushCall PROVE Held(q)' = Held(q) + One(p, q)
    <3>1. Count(buf', {q}) = Count(buf, {q}) + One(p, q)
      BY <2>1, CountsMove DEF Conserved, ChannelTypeOK
    <3>2. Count(pushWaiters', {q}) = Count(pushWaiters, {q})
          /\ Count(microtasks', {q}) = Count(microtasks, {q}) /\ Takers(q)' = Takers(q)
      BY <1>4, <2>1
    <3> QED
      BY <3>1, <3>2, HeldType DEF Held, One
  <2> QED
    BY <1>2, <1>4, <2>1, <2>2
<1>6. CASE WaitForRoom(p)
  <2>1. /\ UNCHANGED <<buf, pullWaiters, microtasks, got>>
        /\ pushWaiters' = Append(pushWaiters, p)
        /\ push' = [push EXCEPT ![p] = "waiting"] /\ push'[p] = "waiting"
    BY <1>6 DEF WaitForRoom, Conserved, ChannelTypeOK
  <2>2. ASSUME NEW q \in PushCall PROVE Held(q)' = Held(q) + One(p, q)
    <3>1. Count(pushWaiters', {q}) = Count(pushWaiters, {q}) + One(p, q)
      BY <2>1, CountsMove DEF Conserved, ChannelTypeOK
    <3>2. Count(buf', {q}) = Count(buf, {q})
          /\ Count(microtasks', {q}) = Count(microtasks, {q}) /\ Takers(q)' = Takers(q)
      BY <1>4, <2>1
    <3> QED
      BY <3>1, <3>2, HeldType DEF Held, One
  <2> QED
    BY <1>2, <1>4, <2>1, <2>2
<1>7. CASE Refuse(p)
  <2>1. UNCHANGED <<buf, pushWaiters, pullWaiters, microtasks, got>>
        /\ push' = [push EXCEPT ![p] = "refused"]
    BY <1>7 DEF Refuse
  <2>2. ASSUME NEW q \in PushCall
        PROVE  Held(q)' = IF push'[q] \in {"idle", "refused"} THEN 0 ELSE 1
    <3>1. Held(q)' = Held(q)
      BY <1>4, <2>1 DEF Held
    <3> QED
      BY <1>1, <2>1, <3>1, HeldType DEF Conserved, ChannelTypeOK
  <2> QED
    BY <1>4, <2>1, <2>2, Recount
<1> QED
  BY <1>3, <1>5, <1>6, <1>7 DEF Push, TryPush

(***************************************************************************)
(* A pull moves an item from the buffer to itself, and a producer's from   *)
(* the line to the pushes that were woken (channel.ts:53-65).              *)
(***************************************************************************)
LEMMA PullConserves ==
  ASSUME Conserved, ChannelTypeOK', NEW c \in PullCall, Pull(c)
  PROVE  Conserved'
<1> USE DEF Becomes
<1>1. ~Called(c) /\ got[c] = NoItem
  BY LineMoves DEF Pull
<1>2. CASE Take(c)
  <2> DEFINE h == Head(buf)
  <2>1. /\ buf # <<>> /\ h \in PushCall /\ buf' = Tail(buf)
        /\ got' = [got EXCEPT ![c] = h] /\ pullWaiters' = pullWaiters
    BY <1>2, SeqFacts DEF Take, Conserved, ChannelTypeOK
  <2>2. PullersOK'
    BY <1>1, <2>1, LineMoves
  <2>3. \A q \in PushCall : /\ IsFiniteSet(Takers(q)')
                            /\ Cardinality(Takers(q)') = Cardinality(Takers(q)) + One(h, q)
    BY <1>1, <2>1, TakersGrow
  <2>4. \A q \in PushCall : Count(buf, {q}) = Count(buf', {q}) + One(h, q)
                            /\ Count(buf', {q}) \in Nat
    BY <2>1, CountsMove DEF Conserved, ChannelTypeOK
  <2> HIDE DEF h
  <2>5. CASE pushWaiters = <<>>
    <3>1. UNCHANGED <<pushWaiters, microtasks, push>>
      BY <1>2, <2>5 DEF Take, WakeProducer
    <3>2. ASSUME NEW q \in PushCall PROVE Held(q)' = Held(q)
      BY <2>3, <2>4, <3>1, HeldType DEF Held, One
    <3> QED
      BY <2>2, <2>3, <3>1, <3>2, HeldType, Recount
  <2>6. CASE pushWaiters # <<>>
    <3> DEFINE w == Head(pushWaiters)
    <3>1. /\ w \in PushCall /\ pushWaiters' = Tail(pushWaiters)
          /\ microtasks' = Append(microtasks, w)
          /\ push' = [push EXCEPT ![w] = "woken"] /\ push[w] \notin {"idle", "refused"}
      BY <1>2, <2>6, SeqFacts, HeldIsTaken DEF Take, WakeProducer, Conserved, ChannelTypeOK
    <3>2. \A q \in PushCall :
            /\ Count(pushWaiters, {q}) = Count(pushWaiters', {q}) + One(w, q)
            /\ Count(pushWaiters', {q}) \in Nat
            /\ Count(microtasks', {q}) = Count(microtasks, {q}) + One(w, q)
      <4> SUFFICES ASSUME NEW q \in PushCall
                   PROVE  /\ Count(pushWaiters, {q}) = Count(pushWaiters', {q}) + One(w, q)
                          /\ Count(pushWaiters', {q}) \in Nat
                          /\ Count(microtasks', {q}) = Count(microtasks, {q}) + One(w, q)
        OBVIOUS
      <4>1. pushWaiters \in Seq(PushCall) /\ microtasks \in Seq(PushCall)
        BY DEF Conserved, ChannelTypeOK
      <4>2. /\ Count(pushWaiters, {q}) = Count(Tail(pushWaiters), {q}) + One(w, q)
            /\ Count(Tail(pushWaiters), {q}) \in Nat
        BY <2>6, <4>1, CountsMove
      <4>3. Count(Append(microtasks, w), {q}) = Count(microtasks, {q}) + One(w, q)
        BY <3>1, <4>1, CountsMove
      <4> QED
        BY <3>1, <4>2, <4>3
    <3> HIDE DEF w
    <3>3. ASSUME NEW q \in PushCall PROVE Held(q)' = Held(q)
      BY <2>3, <2>4, <3>2, HeldType DEF Held, One
    <3>4. ASSUME NEW q \in PushCall
          PROVE  Held(q)' = IF push'[q] \in {"idle", "refused"} THEN 0 ELSE 1
      BY <3>1, <3>3, HeldType DEF Conserved, ChannelTypeOK
    <3> QED
      BY <2>2, <2>3, <3>4, Recount
  <2> QED
    BY <2>5, <2>6
<1>3. CASE WaitForItem(c)
  <2>1. UNCHANGED <<buf, pushWaiters, microtasks, push, got>>
        /\ pullWaiters' = Append(pullWaiters, c)
    BY <1>3 DEF WaitForItem
  <2>2. PullersOK'
    BY <1>1, <2>1, LineMoves
  <2>3. \A q \in PushCall : Takers(q)' = Takers(q) /\ Held(q)' = Held(q)
    BY <2>1 DEF Held, Takers
  <2>4. \A q \in PushCall : IsFiniteSet(Takers(q)')
    BY <2>3 DEF Conserved
  <2> QED
    BY <2>1, <2>2, <2>3, <2>4, HeldType, Recount
<1> QED
  BY <1>2, <1>3 DEF Pull

\* A woken push moves its item into the buffer (channel.ts:37).
LEMMA ContinueConserves ==
  ASSUME Conserved, ChannelTypeOK', Continue
  PROVE  Conserved'
<1> DEFINE w == Head(microtasks)
<1>1. /\ microtasks # <<>> /\ w \in PushCall /\ microtasks' = Tail(microtasks)
      /\ buf' = Append(buf, w) /\ push' = [push EXCEPT ![w] = "done"]
      /\ push[w] \notin {"idle", "refused"}
      /\ UNCHANGED <<pushWaiters, pullWaiters, got>>
  BY SeqFacts, HeldIsTaken DEF Continue, Becomes, Conserved, ChannelTypeOK
<1>2. \A q \in PushCall :
        /\ Count(microtasks, {q}) = Count(microtasks', {q}) + One(w, q)
        /\ Count(microtasks', {q}) \in Nat
        /\ Count(buf', {q}) = Count(buf, {q}) + One(w, q)
  <2> SUFFICES ASSUME NEW q \in PushCall
               PROVE  /\ Count(microtasks, {q}) = Count(microtasks', {q}) + One(w, q)
                      /\ Count(microtasks', {q}) \in Nat
                      /\ Count(buf', {q}) = Count(buf, {q}) + One(w, q)
    OBVIOUS
  <2>1. microtasks \in Seq(PushCall) /\ buf \in Seq(PushCall)
    BY DEF Conserved, ChannelTypeOK
  <2>2. /\ Count(microtasks, {q}) = Count(Tail(microtasks), {q}) + One(w, q)
        /\ Count(Tail(microtasks), {q}) \in Nat
    BY <1>1, <2>1, CountsMove
  <2>3. Count(Append(buf, w), {q}) = Count(buf, {q}) + One(w, q)
    BY <1>1, <2>1, CountsMove
  <2> QED
    BY <1>1, <2>2, <2>3
<1>3. PullersOK' /\ \A q \in PushCall : Takers(q)' = Takers(q)
  BY <1>1 DEF PullersOK, Conserved, Takers
<1>4. \A q \in PushCall : IsFiniteSet(Takers(q)')
  BY <1>3 DEF Conserved
<1> HIDE DEF w
<1>5. ASSUME NEW q \in PushCall PROVE Held(q)' = Held(q)
  BY <1>1, <1>2, <1>3, HeldType DEF Held, One
<1>6. ASSUME NEW q \in PushCall
      PROVE  Held(q)' = IF push'[q] \in {"idle", "refused"} THEN 0 ELSE 1
  BY <1>1, <1>5, HeldType DEF Conserved, ChannelTypeOK
<1> QED
  BY <1>3, <1>4, <1>6, Recount

(***************************************************************************)
(* No item is lost, duplicated or delivered after its push failed, for any *)
(* number of producers and consumers (channel.ts:27-65).                   *)
(***************************************************************************)
THEOREM Conservation == ChannelSpec => []ItemsAreConserved
<1>1. ASSUME ChannelInit, ChannelTypeOK PROVE Conserved
  <2>1. buf = <<>> /\ pushWaiters = <<>> /\ microtasks = <<>> /\ pullWaiters = <<>>
    BY <1>1 DEF ChannelInit
  <2>2. \A p \in PushCall : Takers(p) = {} /\ push[p] = "idle"
    BY <1>1, ChannelAssumption DEF ChannelInit, Takers
  <2>3. \A p \in PushCall : Count(<<>>, {p}) = 0
    <3>1. <<>> \in Seq(PushCall)
      OBVIOUS
    <3> QED
      BY <3>1, CountType
  <2>4. \A p \in PushCall : Held(p) = 0 /\ IsFiniteSet(Takers(p))
    <3> SUFFICES ASSUME NEW p \in PushCall PROVE Held(p) = 0 /\ IsFiniteSet(Takers(p))
      OBVIOUS
    <3>1. Count(buf, {p}) = 0 /\ Count(pushWaiters, {p}) = 0 /\ Count(microtasks, {p}) = 0
      BY <2>1, <2>3
    <3>2. IsFiniteSet(Takers(p)) /\ Cardinality(Takers(p)) = 0
      BY <2>2, FS_EmptySet
    <3> QED
      BY <3>1, <3>2 DEF Held
  <2>5. ItemsAreConserved
    BY <1>1, <2>2, <2>4, HeldIsCopies DEF ItemsAreConserved
  <2>6. PullersOK
    BY <2>1 DEF PullersOK
  <2> QED
    BY <1>1, <2>4, <2>5, <2>6 DEF Conserved
<1>2. ASSUME Conserved, ChannelTypeOK', [ChannelNext]_channelVars PROVE Conserved'
  <2>1. CASE Close \/ UNCHANGED channelVars
    <3>1. UNCHANGED <<buf, pushWaiters, pullWaiters, microtasks, push, got>>
      BY <2>1 DEF Close, channelVars
    <3>2. PullersOK' /\ \A q \in PushCall : Takers(q)' = Takers(q) /\ Held(q)' = Held(q)
      BY <1>2, <3>1 DEF Conserved, PullersOK, Held, Takers
    <3>3. \A q \in PushCall : IsFiniteSet(Takers(q)')
      BY <1>2, <3>2 DEF Conserved
    <3> QED
      BY <1>2, <3>1, <3>2, <3>3, HeldType, Recount
  <2> QED
    BY <1>2, <2>1, PushConserves, PullConserves, ContinueConserves DEF ChannelNext
<1>3. Conserved => ItemsAreConserved
  BY DEF Conserved
<1>4. ChannelInit /\ ChannelTypeOK => Conserved
  BY <1>1
<1>5. Conserved /\ ChannelTypeOK' /\ [ChannelNext]_channelVars => Conserved'
  BY <1>2
<1> QED
  BY <1>3, <1>4, <1>5, ChannelTypeCorrect, PTL DEF ChannelSpec

-------------------------------------------------------------------------------
(***************************************************************************)
(* The overshoot.  Producers in line and producers woken have waited; only *)
(* a push that found room adds an item that has not (channel.ts:34, 47).   *)
(***************************************************************************)
Unblocked == PushCall \ waited

Bounded == /\ \A i \in DOMAIN pushWaiters : pushWaiters[i] \in waited
           /\ \A i \in DOMAIN microtasks : microtasks[i] \in waited
           /\ Count(buf, Unblocked) <= Capacity

\* A line that grows by a member of W, or loses its head, stays within W.
LEMMA LineWithin ==
  ASSUME NEW S, NEW s \in Seq(S), NEW W, \A i \in DOMAIN s : s[i] \in W
  PROVE  /\ \A x \in S : x \in W => \A i \in DOMAIN Append(s, x) : Append(s, x)[i] \in W
         /\ s # <<>> => Head(s) \in W /\ \A i \in DOMAIN Tail(s) : Tail(s)[i] \in W
<1>1. DOMAIN s = 1 .. Len(s) /\ Len(s) \in Nat
  OBVIOUS
<1>2. ASSUME NEW x \in S, x \in W PROVE \A i \in DOMAIN Append(s, x) : Append(s, x)[i] \in W
  <2>1. /\ DOMAIN Append(s, x) = 1 .. Len(s) + 1 /\ Append(s, x)[Len(s) + 1] = x
        /\ \A i \in 1 .. Len(s) : Append(s, x)[i] = s[i]
    BY AppendProperties
  <2>2. \A i \in 1 .. Len(s) + 1 : i = Len(s) + 1 \/ i \in 1 .. Len(s)
    BY <1>1
  <2> QED
    BY <1>1, <1>2, <2>1, <2>2
<1>3. ASSUME s # <<>> PROVE Head(s) \in W /\ \A i \in DOMAIN Tail(s) : Tail(s)[i] \in W
  <2>1. /\ Head(s) = s[1] /\ 1 \in DOMAIN s /\ DOMAIN Tail(s) = 1 .. Len(s) - 1
        /\ \A i \in 1 .. Len(s) - 1 : Tail(s)[i] = s[i + 1] /\ i + 1 \in DOMAIN s
    BY <1>1, <1>3, HeadTailProperties
  <2> QED
    BY <2>1
<1> QED
  BY <1>2, <1>3

(***************************************************************************)
(* Beyond its capacity the buffer holds only items whose producers were    *)
(* blocked, for every capacity (channel.ts:34-37, 47).                     *)
(***************************************************************************)
THEOREM OvershootIsBounded == ChannelSpec => []OvershootIsWoken
<1> USE ChannelAssumption
<1>1. ASSUME ChannelInit PROVE Bounded
  <2>1. Count(<<>>, Unblocked) = 0
    <3>1. <<>> \in Seq(PushCall)
      OBVIOUS
    <3> QED
      BY <3>1, CountType
  <2> QED
    BY <1>1, <2>1 DEF ChannelInit, Bounded
<1>2. ASSUME ChannelTypeOK, ChannelTypeOK', Bounded, [ChannelNext]_channelVars PROVE Bounded'
  <2> USE <1>2 DEF ChannelTypeOK
  <2>1. ASSUME UNCHANGED <<buf, waited>>,
               \A i \in DOMAIN pushWaiters' : pushWaiters'[i] \in waited,
               \A i \in DOMAIN microtasks' : microtasks'[i] \in waited
        PROVE  Bounded'
    BY <2>1 DEF Bounded, Unblocked
  <2>2. Count(buf, Unblocked) \in Nat /\ Len(buf) \in Nat
    BY CountType
  <2>3. ASSUME NEW p \in PushCall, Push(p) \/ TryPush(p) PROVE Bounded'
    <3>1. CASE HandOver(p) \/ Refuse(p)
      BY <2>1, <3>1 DEF HandOver, Refuse, Bounded
    <3>2. CASE Buffer(p)
      <4>1. /\ buf' = Append(buf, p) /\ Len(buf) < Capacity
            /\ UNCHANGED <<pushWaiters, microtasks, waited>>
        BY <3>2 DEF Buffer
      <4>2. Len(buf') = Len(buf) + 1
        BY <4>1, SeqFacts
      <4>3. Count(buf', Unblocked') <= Len(buf')
        BY CountType
      <4>4. Count(buf', Unblocked') <= Capacity
        <5>1. Count(buf', Unblocked') \in Nat
          BY CountType
        <5> QED
          BY <2>2, <4>1, <4>2, <4>3, <5>1
      <4> QED
        BY <4>1, <4>4 DEF Bounded
    <3>3. CASE WaitForRoom(p)
      <4>1. /\ pushWaiters' = Append(pushWaiters, p) /\ waited' = waited \cup {p}
            /\ UNCHANGED <<buf, microtasks>>
        BY <3>3 DEF WaitForRoom
      <4>2. \A i \in DOMAIN pushWaiters : pushWaiters[i] \in waited'
        BY <4>1 DEF Bounded
      <4>3. \A i \in DOMAIN pushWaiters' : pushWaiters'[i] \in waited'
        BY <4>1, <4>2, LineWithin
      <4>4. Count(buf, Unblocked') <= Count(buf, Unblocked)
        <5>1. \A x \in PushCall : x \in Unblocked' => x \in Unblocked
          BY <4>1 DEF Unblocked
        <5> QED
          BY <5>1, CountGrows
      <4>5. Count(buf, Unblocked') \in Nat
        BY CountType
      <4> QED
        BY <2>2, <4>1, <4>3, <4>4, <4>5 DEF Bounded
    <3> QED
      BY <2>3, <3>1, <3>2, <3>3 DEF Push, TryPush
  <2>4. ASSUME NEW c \in PullCall, Pull(c) PROVE Bounded'
    <3>1. CASE WaitForItem(c)
      BY <2>1, <3>1 DEF WaitForItem, Bounded
    <3>2. CASE Take(c)
      <4>1. buf # <<>> /\ buf' = Tail(buf) /\ waited' = waited
        BY <3>2 DEF Take
      <4>2. Count(buf', Unblocked) <= Count(buf, Unblocked)
        <5>1. Count(buf, Unblocked)
                = Count(Tail(buf), Unblocked) + IF Head(buf) \in Unblocked THEN 1 ELSE 0
          BY <4>1, CountTail
        <5>2. Count(Tail(buf), Unblocked) \in Nat
          BY <4>1, SeqFacts, CountType
        <5> QED
          BY <4>1, <5>1, <5>2
      <4>3. Count(buf', Unblocked') <= Capacity
        <5>1. Count(buf', Unblocked) \in Nat
          BY CountType
        <5> QED
          BY <2>2, <4>1, <4>2, <5>1 DEF Bounded, Unblocked
      <4>4. /\ \A i \in DOMAIN pushWaiters' : pushWaiters'[i] \in waited
            /\ \A i \in DOMAIN microtasks' : microtasks'[i] \in waited
        <5>1. CASE pushWaiters = <<>>
          BY <3>2, <5>1 DEF Take, WakeProducer, Bounded
        <5>2. CASE pushWaiters # <<>>
          <6>1. /\ microtasks' = Append(microtasks, Head(pushWaiters))
                /\ pushWaiters' = Tail(pushWaiters) /\ Head(pushWaiters) \in PushCall
            BY <3>2, <5>2, SeqFacts DEF Take, WakeProducer
          <6>2. Head(pushWaiters) \in waited
                /\ \A i \in DOMAIN pushWaiters' : pushWaiters'[i] \in waited
            BY <5>2, <6>1, LineWithin DEF Bounded
          <6> QED
            BY <6>1, <6>2, LineWithin DEF Bounded
        <5> QED
          BY <5>1, <5>2
      <4> QED
        BY <4>1, <4>3, <4>4 DEF Bounded
    <3> QED
      BY <2>4, <3>1, <3>2 DEF Pull
  <2>5. CASE Continue
    <3>1. /\ microtasks # <<>> /\ buf' = Append(buf, Head(microtasks))
          /\ microtasks' = Tail(microtasks) /\ Head(microtasks) \in PushCall
          /\ UNCHANGED <<pushWaiters, waited>>
      BY <2>5, SeqFacts DEF Continue
    <3>2. Head(microtasks) \in waited /\ \A i \in DOMAIN microtasks' : microtasks'[i] \in waited
      BY <3>1, LineWithin DEF Bounded
    <3>3. Count(buf', Unblocked) = Count(buf, Unblocked)
      <4>1. Head(microtasks) \notin Unblocked
        BY <3>2 DEF Unblocked
      <4>2. Count(buf', Unblocked)
              = Count(buf, Unblocked) + IF Head(microtasks) \in Unblocked THEN 1 ELSE 0
        BY <3>1, CountAppend
      <4> QED
        BY <2>2, <4>1, <4>2
    <3> QED
      BY <3>1, <3>2, <3>3 DEF Bounded, Unblocked
  <2>6. CASE Close \/ UNCHANGED channelVars
    BY <2>1, <2>6 DEF Close, channelVars, Bounded
  <2> QED
    BY <2>3, <2>4, <2>5, <2>6 DEF ChannelNext
<1>3. ASSUME ChannelTypeOK, Bounded PROVE OvershootIsWoken
  <2>1. {i \in DOMAIN buf : buf[i] \notin waited} = Where(buf, Unblocked)
    BY <1>3 DEF ChannelTypeOK, Where, Unblocked
  <2> QED
    BY <1>3, <2>1 DEF OvershootIsWoken, Bounded, Count
<1>4. ChannelInit => Bounded
  BY <1>1
<1>5. ChannelTypeOK /\ ChannelTypeOK' /\ Bounded /\ [ChannelNext]_channelVars => Bounded'
  BY <1>2
<1>6. ChannelTypeOK /\ Bounded => OvershootIsWoken
  BY <1>3
<1> QED
  BY <1>4, <1>5, <1>6, ChannelTypeCorrect, PTL DEF ChannelSpec
===============================================================================
