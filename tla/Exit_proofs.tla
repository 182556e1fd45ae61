----------------------------- MODULE Exit_proofs ------------------------------
(***************************************************************************)
(* Proofs of what leaves the desk, packages/exit and crosslist: that an    *)
(* outbox runs an effect once, for any set of callers, keys and values;    *)
(* that the delist saga ships one sale and loses sight of no channel, for  *)
(* any set of platforms, calls and external ids; and what of it holds, and *)
(* more, when channels are published and rolled back at the same time.     *)
(***************************************************************************)
EXTENDS Outbox, CrosslistSaga, TLAPS

-------------------------------------------------------------------------------
(***************************************************************************)
(* The outbox.  What makes "at most one run" inductive: a key is either    *)
(* untouched, with no run behind it, or it has exactly one run and an      *)
(* entry in exactly one of the two maps.  The entry never leaves the maps  *)
(* again.                                                                  *)
(***************************************************************************)
KeyOK(k) == /\ runs[k] = 0 => done[k] = NoOutcome /\ inflight[k] = "absent"
            /\ runs[k] # 0 => /\ runs[k] = 1
                              /\ done[k] = NoOutcome <=> inflight[k] # "absent"

(* An answer is always the one way in which the promise of its key settled. *)
AnswerOK(c) == answer[c] # NoOutcome => /\ asked[c] \in Key
                                        /\ answer[c] = OutcomeOf(asked[c])

OutboxInv == /\ OutboxTypeOK
             /\ \A k \in Key : KeyOK(k)
             /\ \A c \in Caller : AnswerOK(c)

(* OutboxTypeOK holds in every reachable state of the store. *)
THEOREM OutboxTypeCorrect == OutboxSpec => []OutboxTypeOK
<1>1. OutboxInit => OutboxTypeOK
  BY DEF OutboxInit, OutboxTypeOK
<1>2. OutboxTypeOK /\ [OutboxNext]_outboxVars => OutboxTypeOK'
  <2> SUFFICES ASSUME OutboxTypeOK, [OutboxNext]_outboxVars
               PROVE  OutboxTypeOK'
    OBVIOUS
  <2> USE OutboxAssumption DEF OutboxTypeOK, Outcome
  <2>1. ASSUME NEW c \in Caller, NEW k \in Key, Once(c, k)
        PROVE  OutboxTypeOK'
    BY <2>1 DEF Once, Ask, Replay, Share, Start
  <2>2. ASSUME NEW k \in Key, Settle(k)
        PROVE  OutboxTypeOK'
    BY <2>2 DEF Settle, FnReturns, FnThrows
  <2>3. ASSUME NEW c \in Caller, Resume(c)
        PROVE  OutboxTypeOK'
    BY <2>3 DEF Resume, OutcomeOf
  <2>4. CASE UNCHANGED outboxVars
    BY <2>4 DEF outboxVars
  <2>5. QED
    BY <2>1, <2>2, <2>3, <2>4 DEF OutboxNext
<1>3. QED
  BY <1>1, <1>2, PTL DEF OutboxSpec

(* Once settled, the promise of a key keeps its outcome. *)
LEMMA SettledIsFinal ==
  ASSUME OutboxInv, [OutboxNext]_outboxVars, NEW k \in Key, OutcomeOf(k) # NoOutcome
  PROVE  OutcomeOf(k)' = OutcomeOf(k)
<1> USE OutboxAssumption DEF OutboxInv, OutboxTypeOK, KeyOK, OutcomeOf, Outcome
<1>1. ASSUME NEW c \in Caller, NEW j \in Key, Once(c, j)
      PROVE  OutcomeOf(k)' = OutcomeOf(k)
  BY <1>1 DEF Once, Ask, Replay, Share, Start
<1>2. ASSUME NEW j \in Key, Settle(j)
      PROVE  OutcomeOf(k)' = OutcomeOf(k)
  BY <1>2 DEF Settle, FnReturns, FnThrows
<1>3. ASSUME NEW c \in Caller, Resume(c)
      PROVE  OutcomeOf(k)' = OutcomeOf(k)
  BY <1>3 DEF Resume
<1>4. CASE UNCHANGED outboxVars
  BY <1>4 DEF outboxVars
<1>5. QED
  BY <1>1, <1>2, <1>3, <1>4 DEF OutboxNext

(* OutboxInv is inductive. *)
THEOREM OutboxInductive == OutboxSpec => []OutboxInv
<1>1. OutboxInit => OutboxInv
  BY OutboxAssumption DEF OutboxInit, OutboxInv, OutboxTypeOK, KeyOK, AnswerOK
<1>2. OutboxTypeOK' /\ OutboxInv /\ [OutboxNext]_outboxVars => OutboxInv'
  <2> SUFFICES ASSUME OutboxTypeOK', OutboxInv, [OutboxNext]_outboxVars
               PROVE  OutboxInv'
    OBVIOUS
  <2>1. ASSUME NEW k \in Key
        PROVE  KeyOK(k)'
    <3> USE OutboxAssumption DEF OutboxInv, OutboxTypeOK, KeyOK, Outcome
    <3>1. ASSUME NEW c \in Caller, NEW j \in Key, Once(c, j)
          PROVE  KeyOK(k)'
      BY <3>1 DEF Once, Ask, Replay, Share, Start
    <3>2. ASSUME NEW j \in Key, Settle(j)
          PROVE  KeyOK(k)'
      BY <3>2 DEF Settle, FnReturns, FnThrows
    <3>3. ASSUME NEW c \in Caller, Resume(c)
          PROVE  KeyOK(k)'
      BY <3>3 DEF Resume
    <3>4. CASE UNCHANGED outboxVars
      BY <3>4 DEF outboxVars
    <3>5. QED
      BY <3>1, <3>2, <3>3, <3>4 DEF OutboxNext
  <2>2. ASSUME NEW c \in Caller
        PROVE  AnswerOK(c)'
    <3>1. CASE answer[c] # NoOutcome
      <4>1. asked[c] \in Key /\ asked'[c] = asked[c] /\ answer'[c] = answer[c]
        BY <3>1, OutboxAssumption
           DEF OutboxInv, OutboxTypeOK, AnswerOK, OutboxNext, outboxVars, Once, Ask, Replay, Share,
               Start, Settle, FnReturns, FnThrows, Resume
      <4>2. OutcomeOf(asked[c]) # NoOutcome
        BY <3>1 DEF OutboxInv, AnswerOK
      <4>3. OutcomeOf(asked[c])' = OutcomeOf(asked[c])
        <5>1. PICK k \in Key : k = asked[c]
          BY <4>1
        <5>2. OutcomeOf(k)' = OutcomeOf(k)
          BY <4>2, <5>1, SettledIsFinal
        <5>3. QED
          BY <4>1, <5>1, <5>2 DEF OutcomeOf
      <4>4. QED
        BY <3>1, <4>1, <4>3 DEF OutboxInv, AnswerOK
    <3>2. CASE answer[c] = NoOutcome
      <4> USE OutboxAssumption
          DEF OutboxInv, OutboxTypeOK, KeyOK, AnswerOK, Outcome, OutcomeOf
      <4>1. ASSUME NEW d \in Caller, NEW j \in Key, Once(d, j)
            PROVE  AnswerOK(c)'
        BY <3>2, <4>1 DEF Once, Ask, Replay, Share, Start
      <4>2. ASSUME NEW j \in Key, Settle(j)
            PROVE  AnswerOK(c)'
        BY <3>2, <4>2 DEF Settle, FnReturns, FnThrows
      <4>3. ASSUME NEW d \in Caller, Resume(d)
            PROVE  AnswerOK(c)'
        BY <3>2, <4>3 DEF Resume
      <4>4. CASE UNCHANGED outboxVars
        BY <3>2, <4>4 DEF outboxVars
      <4>5. QED
        BY <4>1, <4>2, <4>3, <4>4 DEF OutboxNext
    <3>3. QED
      BY <3>1, <3>2
  <2>3. QED
    BY <2>1, <2>2 DEF OutboxInv
<1>3. QED
  BY <1>1, <1>2, OutboxTypeCorrect, PTL DEF OutboxSpec

(***************************************************************************)
(* The effect of a key is started at most once, for any number of callers  *)
(* and any interleaving of their calls with the end of fn                  *)
(* (outbox.ts:15-28).                                                      *)
(***************************************************************************)
THEOREM ExactlyOnce == OutboxSpec => []RunsOnce
<1>1. OutboxInv => RunsOnce
  BY DEF OutboxInv, OutboxTypeOK, KeyOK, RunsOnce
<1>2. QED
  BY <1>1, OutboxInductive, PTL

(* All the callers of a key are told the same outcome (outbox.ts:16-18). *)
THEOREM Agreement == OutboxSpec => []SameAnswer
<1>1. OutboxInv => SameAnswer
  BY DEF OutboxInv, AnswerOK, SameAnswer
<1>2. QED
  BY <1>1, OutboxInductive, PTL

(***************************************************************************)
(* The store implements OnceCell: a step of the maps is at most one        *)
(* performed effect or one caller told (outbox.ts:15-28).                  *)
(***************************************************************************)
THEOREM OutboxRefinement == OutboxSpec => ImplementsOnceCell
<1> DEFINE eff == [k \in Key |-> OutcomeOf(k)]
<1>1. OutboxInit => Cell!CellInit
  BY OutboxAssumption DEF OutboxInit, Cell!CellInit, OutcomeOf
<1>2. OutboxInv /\ OutboxInv' /\ [OutboxNext]_outboxVars => [Cell!CellNext]_(Cell!cellVars)
  <2> SUFFICES ASSUME OutboxInv, OutboxInv', [OutboxNext]_outboxVars
               PROVE  Cell!CellNext \/ UNCHANGED Cell!cellVars
    OBVIOUS
  <2> USE OutboxAssumption
  <2>1. ASSUME NEW c \in Caller, NEW k \in Key, Once(c, k)
        PROVE  Cell!CellNext \/ UNCHANGED Cell!cellVars
    <3>1. answer[c] = NoOutcome
      BY <2>1 DEF OutboxInv, OutboxTypeOK, AnswerOK, Once, Ask
    <3>2. eff' = eff
      BY <2>1 DEF OutboxInv, OutboxTypeOK, KeyOK, OutcomeOf, Once, Ask, Replay, Share, Start
    <3>3. CASE Replay(c, k)
      <4>1. eff[k] # NoOutcome /\ answer' = [answer EXCEPT ![c] = eff[k]]
        BY <3>3 DEF OutboxInv, KeyOK, OutboxTypeOK, Replay, OutcomeOf
      <4>2. Cell!Tell(c, k)
        BY <3>1, <3>2, <4>1 DEF Cell!Tell
      <4>3. QED
        BY <4>2 DEF Cell!CellNext
    <3>4. CASE Share(k) \/ Start(k)
      <4>1. UNCHANGED answer
        BY <3>4 DEF Share, Start
      <4>2. QED
        BY <3>2, <4>1 DEF Cell!cellVars
    <3>5. QED
      BY <2>1, <3>3, <3>4 DEF Once
  <2>2. ASSUME NEW k \in Key, Settle(k)
        PROVE  Cell!CellNext \/ UNCHANGED Cell!cellVars
    <3>1. eff[k] = NoOutcome /\ UNCHANGED answer
      BY <2>2 DEF OutboxInv, OutboxTypeOK, KeyOK, OutcomeOf, Settle, FnReturns, FnThrows
    <3>2. PICK o \in Outcome : eff' = [eff EXCEPT ![k] = o]
      <4>1. ASSUME NEW v \in Value, FnReturns(k, v)
            PROVE  eff' = [eff EXCEPT ![k] = v]
        BY <4>1 DEF OutboxInv, OutboxTypeOK, Outcome, OutcomeOf, FnReturns
      <4>2. ASSUME FnThrows(k)
            PROVE  eff' = [eff EXCEPT ![k] = Threw]
        BY <4>2 DEF OutboxInv, OutboxTypeOK, KeyOK, Outcome, OutcomeOf, FnThrows
      <4>3. QED
        BY <2>2, <4>1, <4>2 DEF Settle, Outcome
    <3>3. Cell!Perform(k, o)
      BY <3>1, <3>2 DEF Cell!Perform
    <3>4. QED
      BY <3>3 DEF Cell!CellNext
  <2>3. ASSUME NEW c \in Caller, Resume(c)
        PROVE  Cell!CellNext \/ UNCHANGED Cell!cellVars
    <3>1. asked[c] \in Key
      BY <2>3 DEF OutboxInv, OutboxTypeOK, Resume
    <3>2. eff' = eff
      BY <2>3 DEF Resume, OutcomeOf
    <3>3. Cell!Tell(c, asked[c])
      BY <2>3, <3>1, <3>2 DEF Resume, Cell!Tell
    <3>4. QED
      BY <3>1, <3>3 DEF Cell!CellNext
  <2>4. CASE UNCHANGED outboxVars
    BY <2>4 DEF outboxVars, Cell!cellVars, OutcomeOf
  <2>5. QED
    BY <2>1, <2>2, <2>3, <2>4 DEF OutboxNext
<1>3. QED
  BY <1>1, <1>2, OutboxInductive, PTL DEF OutboxSpec, ImplementsOnceCell, Cell!CellSpec

-------------------------------------------------------------------------------
(***************************************************************************)
(* The delist saga.  A live listing is always in its row, and that row is  *)
(* active until a job settles (LiveOK, JobOK); whoever the sale was kept   *)
(* for waits for every row that is still active (CallOK); so when it       *)
(* returns no row is active, and what is still live is in halts.           *)
(***************************************************************************)
LiveOK(k) == /\ k \in live => /\ ListingOf(k[1]) = k
                              /\ rows[k[1]].state \in {"active", "end_failed"}
             /\ k \in orders => k \notin live

RowOK(p) == rows[p].state = "end_failed" <=> ListingOf(p) \in halts

JobOK(k) == /\ job[k].st # "absent" => /\ sold # NoSale
                                       /\ k # sold
                                       /\ ListingOf(k[1]) = k
            /\ job[k].st \in {"calling", "backoff"} => rows[k[1]].state = "active"
            /\ job[k].st = "calling" => job[k].target = k[2]
            /\ job[k].st = "backoff" => job[k].attempts < MaxAttempts
            /\ job[k].st = "ended" => rows[k[1]].state = "ended"
            /\ job[k].st = "failed" => k \in halts

CallOK(c) == /\ call[c].st = "idle" <=> call[c].claim = "none"
             /\ call[c].claim # "none" =>
                  /\ sold # NoSale
                  /\ call[c].claim = "lost" <=> call[c].order # sold
             /\ call[c].claim \in {"won", "won_replay"} =>
                  \A p \in Platform : rows[p].state = "active" =>
                     /\ call[c].st = "ending"
                     /\ ListingOf(p) \in call[c].others
             /\ \A k \in call[c].others : job[k].st # "absent"

IInv == /\ SagaTypeOK
        /\ \A k \in Listing : LiveOK(k) /\ JobOK(k)
        /\ \A p \in Platform : RowOK(p)
        /\ \A c \in Call : CallOK(c)

-------------------------------------------------------------------------------
LEMMA ListingPair ==
  ASSUME NEW k \in Listing
  PROVE  k[1] \in Platform /\ k[2] \in Ext /\ k = <<k[1], k[2]>>
BY DEF Listing

LEMMA InitType == Init => SagaTypeOK
<1> SUFFICES ASSUME Init
             PROVE  SagaTypeOK
  OBVIOUS
<1> USE RegistryAssumption, SagaAssumption
<1>1. RegistryTypeOK
  BY DEF Init, ExitInit, RegistryTypeOK, NoRow, RowState
<1>2. live \in SUBSET Listing
  BY DEF Init, ActiveListings, ListingOf, Listing, NoRow
<1>3. job \in [Listing -> JobType]
  BY DEF Init, ExitInit, NoJob, JobType
<1>4. call \in [Call -> CallType]
  BY DEF Init, ExitInit, IdleCall, CallType
<1>5. QED
  BY <1>1, <1>2, <1>3, <1>4 DEF Init, ExitInit, SagaTypeOK

(* The job of a listing that is running works on the row of that listing. *)
LEMMA RunningJob ==
  ASSUME IInv, NEW k \in Listing, job[k].st \in {"calling", "backoff"}
  PROVE  /\ k[1] \in Platform
         /\ ListingOf(k[1]) = k
         /\ rows[k[1]].ext \in Ext
         /\ rows[k[1]].state = "active"
<1>1. k[1] \in Platform /\ k[2] \in Ext
  BY ListingPair
<1>2. ListingOf(k[1]) = k /\ rows[k[1]].state = "active"
  BY DEF IInv, JobOK
<1>3. QED
  BY <1>1, <1>2 DEF ListingOf

(* What keeps the types of a running job: its row names a listing, and a   *)
(* job that backed off has an attempt left (saga.ts:114-136).              *)
JobsCanRun == \A k \in Listing :
  /\ job[k].st \in {"calling", "backoff"} => rows[k[1]].ext \in Ext
  /\ job[k].st = "backoff" => job[k].attempts < MaxAttempts

LEMMA TypeStep == SagaTypeOK /\ JobsCanRun /\ [SagaNext]_sagaVars => SagaTypeOK'
<1> SUFFICES ASSUME SagaTypeOK, JobsCanRun, [SagaNext]_sagaVars
             PROVE  SagaTypeOK'
  OBVIOUS
<1> USE RegistryAssumption, SagaAssumption
<1>1. ASSUME NEW l \in Listing, Buy(l)
      PROVE  SagaTypeOK'
  BY <1>1 DEF Buy, SagaTypeOK, RegistryTypeOK, regVars
<1>2. ASSUME NEW c \in Call, NEW l \in Listing, OnSale(c, l)
      PROVE  SagaTypeOK'
  <2>1. ClaimOutcome(l) \in {"won", "won_replay", "lost"}
    BY DEF ClaimOutcome
  <2>2. CASE LoseSale(c, l)
    <3>1. call' \in [Call -> CallType]
      BY <2>2 DEF LoseSale, SagaTypeOK, CallType
    <3>2. QED
      BY <2>2, <3>1 DEF LoseSale, SagaTypeOK, RegistryTypeOK, regVars
  <2>3. CASE WinSale(c, l)
    <3>1. sold' \in Listing
      BY <1>2, <2>3 DEF OnSale, ClaimSale, SagaTypeOK, RegistryTypeOK
    <3>2. /\ rows' \in [Platform -> [ext : Ext \cup {NoExt}, state : RowState]]
          /\ \A p \in Platform : rows'[p].state # "none" => rows'[p].ext \in Ext
      <4>1. ASSUME NEW p \in Platform
            PROVE  /\ rows'[p] \in [ext : Ext \cup {NoExt}, state : RowState]
                   /\ rows'[p].state # "none" => rows'[p].ext \in Ext
        <5>1. ListingOf(p) \in ActiveListings => rows[p].ext \in Ext
          BY RegistryAssumption
             DEF SagaTypeOK, RegistryTypeOK, ActiveListings, ListingOf
        <5>2. ListingOf(p) \in Stillborn(l) => ListingOf(p) \in ActiveListings
          BY DEF Stillborn, Starts, Others
        <5>3. QED
          BY <2>3, <5>1, <5>2 DEF WinSale, SagaTypeOK, RegistryTypeOK, RowState
      <4>2. QED
        BY <2>3, <4>1 DEF WinSale
    <3>3. Others(l) \subseteq Listing
      BY DEF Others, ActiveListings, ListingOf, Listing, SagaTypeOK, RegistryTypeOK
    <3>4. halts' \in SUBSET Listing
      BY <2>3, <3>3 DEF WinSale, SagaTypeOK, Stillborn, Starts
    <3>5. job' \in [Listing -> JobType]
      <4>1. ASSUME NEW k \in Listing
            PROVE  job'[k] \in JobType
        <5>1. k \in Starts(l) /\ k \notin Stillborn(l) => 1 \in 0 .. MaxAttempts
          BY DEF Stillborn
        <5>2. QED
          BY <2>3, <5>1, ListingPair DEF WinSale, SagaTypeOK, JobType, NoJob
      <4>2. QED
        BY <2>3, <4>1 DEF WinSale
    <3>6. call' \in [Call -> CallType]
      BY <2>1, <2>3, <3>3 DEF WinSale, SagaTypeOK, CallType
    <3>7. QED
      BY <2>3, <3>1, <3>2, <3>4, <3>5, <3>6
         DEF WinSale, SagaTypeOK, RegistryTypeOK
  <2>4. QED
    BY <1>2, <2>2, <2>3 DEF OnSale
<1>3. ASSUME NEW k \in Listing, JobStep(k)
      PROVE  SagaTypeOK'
  <2>1. job[k].st \in {"calling", "backoff"}
    BY <1>3 DEF JobStep, EndSucceeds, GiveUp, BackOff, EndThrows, Retry
  <2>2. k[1] \in Platform /\ rows[k[1]].ext \in Ext /\ ListingOf(k[1]) \in Listing
    BY <2>1, ListingPair DEF JobsCanRun, ListingOf, Listing
  <2>3. CASE EndSucceeds(k)
    BY <2>2, <2>3 DEF EndSucceeds, SagaTypeOK, RegistryTypeOK, JobType, RowState
  <2>4. CASE GiveUp(k)
    BY <2>2, <2>4
       DEF GiveUp, EndThrows, SagaTypeOK, RegistryTypeOK, JobType, RowState
  <2>5. CASE BackOff(k)
    BY <2>2, <2>5 DEF BackOff, EndThrows, SagaTypeOK, RegistryTypeOK, JobType
  <2>6. CASE Retry(k)
    <3>1. job[k].attempts + 1 \in 0 .. MaxAttempts
      BY <2>6 DEF Retry, JobsCanRun, SagaTypeOK, JobType
    <3>2. QED
      BY <2>2, <2>6, <3>1 DEF Retry, SagaTypeOK, RegistryTypeOK, JobType, regVars
  <2>7. QED
    BY <1>3, <2>3, <2>4, <2>5, <2>6 DEF JobStep
<1>4. ASSUME NEW c \in Call, Return(c)
      PROVE  SagaTypeOK'
  BY <1>4 DEF Return, SagaTypeOK, RegistryTypeOK, CallType, regVars
<1>5. CASE UNCHANGED sagaVars
  BY <1>5 DEF sagaVars, regVars, exitVars, SagaTypeOK, RegistryTypeOK
<1>6. QED
  BY <1>1, <1>2, <1>3, <1>4, <1>5 DEF SagaNext

-------------------------------------------------------------------------------
LEMMA InitInv == Init => IInv
<1> SUFFICES ASSUME Init
             PROVE  IInv
  OBVIOUS
<1>1. ASSUME NEW k \in Listing
      PROVE  LiveOK(k) /\ JobOK(k)
  <2>1. JobOK(k)
    BY <1>1 DEF Init, ExitInit, JobOK, NoJob
  <2>2. ASSUME k \in live
        PROVE  ListingOf(k[1]) = k /\ rows[k[1]].state = "active"
    <3>1. PICK p \in Platform : rows[p].state = "active" /\ k = ListingOf(p)
      BY <2>2 DEF Init, ActiveListings
    <3>2. k[1] = p
      BY <3>1 DEF ListingOf
    <3>3. QED
      BY <3>1, <3>2
  <2>3. QED
    BY <2>1, <2>2 DEF LiveOK, Init, ExitInit
<1>2. ASSUME NEW p \in Platform
      PROVE  RowOK(p)
  BY DEF Init, ExitInit, RowOK, NoRow
<1>3. ASSUME NEW c \in Call
      PROVE  CallOK(c)
  BY DEF Init, ExitInit, CallOK, IdleCall
<1>4. QED
  BY <1>1, <1>2, <1>3, InitType DEF IInv

LEMMA BuyKeeps ==
  ASSUME IInv, NEW l \in Listing, Buy(l)
  PROVE  /\ \A k \in Listing : LiveOK(k)' /\ JobOK(k)'
         /\ \A p \in Platform : RowOK(p)'
         /\ \A c \in Call : CallOK(c)'
BY DEF Buy, IInv, LiveOK, JobOK, RowOK, CallOK, ListingOf, regVars

LEMMA LoseKeeps ==
  ASSUME IInv, NEW c \in Call, NEW l \in Listing, OnSale(c, l), LoseSale(c, l)
  PROVE  /\ \A k \in Listing : LiveOK(k)' /\ JobOK(k)'
         /\ \A p \in Platform : RowOK(p)'
         /\ \A d \in Call : CallOK(d)'
<1>1. /\ UNCHANGED <<rows, sold, live, orders, job, halts>>
      /\ sold # NoSale /\ sold # l
  BY DEF LoseSale, ClaimOutcome, regVars
<1>2. ASSUME NEW d \in Call
      PROVE  CallOK(d)'
  BY <1>1 DEF LoseSale, IInv, SagaTypeOK, CallOK, ListingOf
<1>3. QED
  BY <1>1, <1>2 DEF IInv, LiveOK, JobOK, RowOK, ListingOf

LEMMA WinKeeps ==
  ASSUME IInv, NEW c \in Call, NEW l \in Listing, OnSale(c, l), WinSale(c, l)
  PROVE  /\ \A k \in Listing : LiveOK(k)' /\ JobOK(k)'
         /\ \A p \in Platform : RowOK(p)'
         /\ \A d \in Call : CallOK(d)'
<1> USE RegistryAssumption
<1>1. sold' = l /\ l # NoSale /\ (sold # NoSale => sold = l)
  BY DEF OnSale, ClaimSale, WinSale, ClaimOutcome
<1>2. l \notin live /\ live' = live /\ orders' = orders
  BY DEF OnSale, WinSale, IInv, LiveOK
\* What happens to the row of a platform.
<1>3. ASSUME NEW p \in Platform
      PROVE  /\ rows'[p].ext = rows[p].ext
             /\ rows[p].state # "active" => rows'[p] = rows[p]
             /\ ListingOf(p) = l => rows'[p].state # "active"
             /\ ListingOf(p) = l => rows'[p].state # "end_failed" \/ rows'[p] = rows[p]
             /\ rows[p].state = "active" /\ ListingOf(p) \in Stillborn(l)
                  => rows'[p].state = "end_failed"
             /\ rows[p].state = "active" /\ ListingOf(p) # l /\ ListingOf(p) \notin Stillborn(l)
                  => rows'[p] = rows[p]
  <2>1. ListingOf(p) \in ActiveListings => rows[p].state = "active"
    BY DEF ActiveListings, ListingOf
  <2>2. rows[p].state = "active" => ListingOf(p) \in ActiveListings
    BY DEF ActiveListings
  <2>3. ListingOf(p) \in Stillborn(l) => /\ ListingOf(p) \in ActiveListings
                                         /\ ListingOf(p) # l
    BY DEF Stillborn, Starts, Others
  <2>4. QED
    BY <2>1, <2>2, <2>3 DEF WinSale, IInv, SagaTypeOK, RegistryTypeOK
\* What happens to the job of a listing.
<1>4. ASSUME NEW k \in Listing
      PROVE  \/ /\ k \notin Starts(l)
                /\ job'[k] = job[k]
             \/ /\ k \in Starts(l) /\ k \notin Stillborn(l)
                /\ job'[k].st = "calling" /\ job'[k].target = k[2]
             \/ /\ k \in Stillborn(l)
                /\ job'[k].st = "failed"
  BY DEF WinSale, Stillborn, NoJob
\* A job that starts is for an active row other than the one sold.
<1>5. ASSUME NEW k \in Starts(l)
      PROVE  /\ k \in Listing /\ k # l
             /\ ListingOf(k[1]) = k
             /\ rows[k[1]].state = "active"
             /\ job[k].st = "absent"
  <2>1. k \in Others(l) /\ job[k].st = "absent"
    BY DEF Starts
  <2>2. PICK p \in Platform : rows[p].state = "active" /\ k = ListingOf(p)
    BY <2>1 DEF Others, ActiveListings
  <2>3. k[1] = p
    BY <2>2 DEF ListingOf
  <2>4. k \in Listing
    BY <2>2 DEF ListingOf, Listing, IInv, SagaTypeOK, RegistryTypeOK
  <2>5. QED
    BY <2>1, <2>2, <2>3, <2>4 DEF Others
<1>6. \A p \in Platform : ListingOf(p)' = ListingOf(p)
  BY <1>3 DEF ListingOf
<1>7. halts' = halts \cup Stillborn(l) /\ Stillborn(l) \subseteq Starts(l)
  BY DEF WinSale, Stillborn
<1>8. ASSUME NEW p \in Platform
      PROVE  RowOK(p)'
  <2>1. RowOK(p)
    BY DEF IInv
  <2>2. ListingOf(p) \in Starts(l) => rows[p].state = "active" /\ ListingOf(p) # l
    BY <1>5 DEF ListingOf
  <2>3. ListingOf(p) = l => rows'[p].state = "end_failed" <=> rows[p].state = "end_failed"
    BY <1>3, <2>2, <1>7
  <2>4. QED
    BY <1>3, <1>6, <1>7, <2>1, <2>2, <2>3 DEF RowOK
<1>9. ASSUME NEW k \in Listing
      PROVE  LiveOK(k)' /\ JobOK(k)'
  <2>1. k[1] \in Platform
    BY ListingPair
  <2>2. LiveOK(k) /\ JobOK(k)
    BY DEF IInv
  <2>3. LiveOK(k)'
    BY <1>2, <1>3, <1>6, <2>1, <2>2 DEF LiveOK
  <2>4. JobOK(k)'
    <3>1. CASE k \notin Starts(l)
      <4>1. job'[k] = job[k]
        BY <1>4, <1>7, <3>1
      <4>2. ListingOf(k[1]) = k => k \notin Stillborn(l)
        BY <1>7, <3>1
      <4>3. k = sold => job[k].st = "absent"
        BY <2>2 DEF JobOK
      <4>4. job[k].st # "absent" => k # l /\ sold = l
        BY <1>1, <2>2 DEF JobOK
      <4>5. job[k].st # "absent" => rows'[k[1]] = rows[k[1]]
        BY <1>3, <2>1, <2>2, <4>2, <4>4 DEF JobOK
      <4>6. QED
        BY <1>1, <1>6, <1>7, <2>1, <2>2, <4>1, <4>4, <4>5 DEF JobOK
    <3>2. CASE k \in Starts(l)
      <4>1. k # l /\ ListingOf(k[1]) = k /\ rows[k[1]].state = "active"
        BY <1>5, <3>2
      <4>2. CASE k \notin Stillborn(l)
        <5>1. job'[k].st = "calling" /\ job'[k].target = k[2]
          BY <1>4, <1>7, <3>2, <4>2
        <5>2. rows'[k[1]].state = "active"
          BY <1>3, <2>1, <4>1, <4>2
        <5>3. QED
          BY <1>1, <1>6, <2>1, <4>1, <5>1, <5>2 DEF JobOK
      <4>3. CASE k \in Stillborn(l)
        BY <1>1, <1>4, <1>6, <1>7, <2>1, <4>1, <4>3 DEF JobOK
      <4>4. QED
        BY <4>2, <4>3
    <3>3. QED
      BY <3>1, <3>2
  <2>5. QED
    BY <2>3, <2>4
<1>10. ASSUME NEW d \in Call
       PROVE  CallOK(d)'
  <2>1. CallOK(d)
    BY DEF IInv
  <2>2. ASSUME NEW k \in Listing, job[k].st # "absent"
        PROVE  job'[k].st # "absent"
    <3>1. k \notin Starts(l)
      BY <1>5, <2>2
    <3>2. QED
      BY <1>4, <1>7, <2>2, <3>1
  <2>3. CASE d # c
    <3>1. call'[d] = call[d] /\ call[d].others \subseteq Listing
      BY <2>3 DEF WinSale, IInv, SagaTypeOK, CallType
    <3>2. call[d].claim # "none" => sold = l
      BY <1>1, <2>1 DEF CallOK
    <3>3. \A p \in Platform : rows'[p].state = "active" => rows[p].state = "active"
      BY <1>3
    <3>4. QED
      BY <1>1, <1>6, <2>1, <2>2, <3>1, <3>2, <3>3 DEF CallOK
  <2>4. CASE d = c
    <3>1. /\ call'[c].st = IF Others(l) = {} THEN "returned" ELSE "ending"
          /\ call'[c].order = l
          /\ call'[c].claim \in {"won", "won_replay"}
          /\ call'[c].others = Others(l)
      BY DEF WinSale, IInv, SagaTypeOK, ClaimOutcome
    <3>2. \A p \in Platform : rows'[p].state = "active" => ListingOf(p) \in Others(l)
      BY <1>3 DEF Others, ActiveListings
    <3>3. ASSUME NEW k \in Others(l)
          PROVE  k \in Listing /\ job'[k].st # "absent"
      <4>1. k \in Listing
        BY DEF Others, ActiveListings, ListingOf, Listing, IInv, SagaTypeOK, RegistryTypeOK
      <4>2. job[k].st = "absent" => k \in Starts(l)
        BY DEF Starts
      <4>3. k \in Starts(l) => job'[k].st \in {"calling", "failed"}
        BY <1>4, <4>1
      <4>4. QED
        BY <2>2, <4>1, <4>2, <4>3
    <3>4. QED
      BY <1>1, <1>6, <2>4, <3>1, <3>2, <3>3 DEF CallOK
  <2>5. QED
    BY <2>3, <2>4
<1>11. QED
  BY <1>8, <1>9, <1>10

LEMMA JobKeeps ==
  ASSUME IInv, NEW j \in Listing, JobStep(j)
  PROVE  /\ \A k \in Listing : LiveOK(k)' /\ JobOK(k)'
         /\ \A p \in Platform : RowOK(p)'
         /\ \A c \in Call : CallOK(c)'
<1>1. job[j].st \in {"calling", "backoff"}
  BY DEF JobStep, EndSucceeds, GiveUp, BackOff, EndThrows, Retry
<1>2. /\ j[1] \in Platform
      /\ ListingOf(j[1]) = j
      /\ rows[j[1]].state = "active"
  BY <1>1, RunningJob
<1>3. job[j].st = "calling" => <<j[1], job[j].target>> = j
  BY ListingPair DEF IInv, JobOK
<1>4. sold' = sold /\ orders' = orders /\ call' = call
  BY DEF JobStep, EndSucceeds, GiveUp, BackOff, EndThrows, Retry, regVars
\* The three ways in which a job step moves the row, the job and live.
<1>5. \/ /\ rows' = [rows EXCEPT ![j[1]].state = "ended"]
         /\ job' = [job EXCEPT ![j].st = "ended"]
         /\ live' = live \ {j}
         /\ halts' = halts
      \/ /\ rows' = [rows EXCEPT ![j[1]].state = "end_failed"]
         /\ job' = [job EXCEPT ![j].st = "failed"]
         /\ live' \subseteq live
         /\ halts' = halts \cup {j}
      \/ /\ rows' = rows
         /\ job' = [job EXCEPT ![j].st = "backoff"]
         /\ job[j].attempts < MaxAttempts
         /\ live' \subseteq live
         /\ halts' = halts
      \/ /\ rows' = rows
         /\ job' = [job EXCEPT ![j] = [st |-> "calling", attempts |-> @.attempts + 1,
                                       target |-> rows[j[1]].ext]]
         /\ live' = live
         /\ halts' = halts
  BY <1>2, <1>3 DEF JobStep, EndSucceeds, GiveUp, BackOff, EndThrows, Retry, regVars
<1>6. /\ rows \in [Platform -> [ext : Ext \cup {NoExt}, state : RowState]]
      /\ job \in [Listing -> JobType]
  BY DEF IInv, SagaTypeOK, RegistryTypeOK
<1>7. ASSUME NEW p \in Platform
      PROVE  /\ ListingOf(p)' = ListingOf(p)
             /\ p # j[1] => rows'[p] = rows[p]
  BY <1>2, <1>5, <1>6 DEF ListingOf
\* Two listings of one platform cannot both be in its row.
<1>8. ASSUME NEW k \in Listing, ListingOf(k[1]) = k, k # j
      PROVE  k[1] \in Platform /\ k[1] # j[1]
  BY <1>2, <1>8, ListingPair
<1>9. ASSUME NEW p \in Platform
      PROVE  RowOK(p)'
  <2>1. RowOK(p) /\ RowOK(j[1])
    BY <1>2 DEF IInv
  <2>2. p # j[1] => ListingOf(p) # j
    BY <1>2 DEF ListingOf
  <2>3. QED
    BY <1>2, <1>5, <1>6, <1>7, <2>1, <2>2 DEF RowOK
<1>10. ASSUME NEW k \in Listing
       PROVE  LiveOK(k)'
  <2>1. LiveOK(k) /\ k[1] \in Platform
    BY ListingPair DEF IInv
  <2>2. CASE k # j
    BY <1>4, <1>5, <1>7, <1>8, <2>1, <2>2 DEF LiveOK
  <2>3. CASE k = j
    BY <1>2, <1>4, <1>5, <1>6, <1>7, <2>1, <2>3 DEF LiveOK
  <2>4. QED
    BY <2>2, <2>3
<1>11. ASSUME NEW k \in Listing
       PROVE  JobOK(k)'
  <2>1. JobOK(k) /\ k[1] \in Platform
    BY ListingPair DEF IInv
  <2>2. CASE k # j
    <3>1. job'[k] = job[k] /\ halts \subseteq halts'
      BY <1>5, <1>6, <2>2
    <3>2. job[k].st # "absent" => rows'[k[1]] = rows[k[1]]
      BY <1>7, <1>8, <2>1, <2>2 DEF JobOK
    <3>3. QED
      BY <1>4, <1>7, <2>1, <3>1, <3>2 DEF JobOK
  <2>3. CASE k = j
    <3>1. sold # NoSale /\ j # sold
      BY <1>1, <2>1, <2>3 DEF JobOK
    <3>2. ListingOf(j[1])' = j
      BY <1>2, <1>7
    <3>3. rows[j[1]].ext = j[2]
      BY <1>2, ListingPair DEF ListingOf
    <3>4. QED
      BY <1>2, <1>4, <1>5, <1>6, <2>3, <3>1, <3>2, <3>3 DEF JobOK, JobType
  <2>4. QED
    BY <2>2, <2>3
<1>12. ASSUME NEW c \in Call
       PROVE  CallOK(c)'
  <2>1. CallOK(c) /\ call[c].others \subseteq Listing
    BY DEF IInv, SagaTypeOK, CallType
  <2>2. \A p \in Platform : rows'[p].state = "active" => rows[p].state = "active"
    BY <1>2, <1>5, <1>6
  <2>3. \A k \in Listing : job[k].st # "absent" => job'[k].st # "absent"
    <3>1. job'[j].st # "absent"
      <4>1. job[j] \in JobType
        BY <1>6
      <4>2. job'[j].st \in {"ended", "failed", "backoff", "calling"}
        BY <1>5, <1>6, <4>1 DEF JobType
      <4>3. QED
        BY <4>2
    <3>2. \A k \in Listing : k # j => job'[k] = job[k]
      BY <1>5, <1>6
    <3>3. QED
      BY <3>1, <3>2
  <2>4. QED
    BY <1>4, <1>7, <2>1, <2>2, <2>3 DEF CallOK
<1>13. QED
  BY <1>9, <1>10, <1>11, <1>12

LEMMA ReturnKeeps ==
  ASSUME IInv, NEW c \in Call, Return(c)
  PROVE  /\ \A k \in Listing : LiveOK(k)' /\ JobOK(k)'
         /\ \A p \in Platform : RowOK(p)'
         /\ \A d \in Call : CallOK(d)'
<1>1. /\ UNCHANGED <<rows, sold, live, orders, job, halts>>
      /\ call[c].st = "ending"
      /\ \A k \in call[c].others : job[k].st \in {"ended", "failed"}
      /\ call' = [call EXCEPT ![c].st = "returned"]
  BY DEF Return, regVars, Settled
\* Every row that is still active would have an unsettled job.
<1>2. ASSUME NEW p \in Platform, call[c].claim \in {"won", "won_replay"}
      PROVE  rows[p].state # "active"
  <2>1. SUFFICES ASSUME rows[p].state = "active"
                 PROVE  FALSE
    OBVIOUS
  <2>2. ListingOf(p) \in call[c].others
    BY <1>2, <2>1 DEF IInv, CallOK
  <2>3. ListingOf(p) \in Listing /\ ListingOf(p)[1] = p
    BY <2>2 DEF IInv, SagaTypeOK, CallType, ListingOf
  <2>4. job[ListingOf(p)].st \in {"ended", "failed"}
    BY <1>1, <2>2
  <2>5. JobOK(ListingOf(p)) /\ RowOK(p)
    BY <2>3 DEF IInv
  <2>6. QED
    BY <2>1, <2>3, <2>4, <2>5 DEF JobOK, RowOK
<1>3. ASSUME NEW d \in Call
      PROVE  CallOK(d)'
  <2>1. CallOK(d)
    BY DEF IInv
  <2>2. CASE d # c
    BY <1>1, <2>1, <2>2 DEF CallOK, ListingOf, IInv, SagaTypeOK
  <2>3. CASE d = c
    <3>1. /\ call'[c].st = "returned"
          /\ call'[c].claim = call[c].claim
          /\ call'[c].order = call[c].order
          /\ call'[c].others = call[c].others
      BY <1>1 DEF IInv, SagaTypeOK, CallType
    <3>2. QED
      BY <1>1, <1>2, <2>1, <2>3, <3>1 DEF CallOK
  <2>4. QED
    BY <2>2, <2>3
<1>4. QED
  BY <1>1, <1>3 DEF IInv, LiveOK, JobOK, RowOK, ListingOf

-------------------------------------------------------------------------------
(* IInv is inductive, for every instance of the saga. *)
THEOREM Inductive == Spec => []IInv
<1>1. IInv /\ [SagaNext]_sagaVars => IInv'
  <2> SUFFICES ASSUME IInv, [SagaNext]_sagaVars
               PROVE  IInv'
    OBVIOUS
  <2>1. SagaTypeOK'
    <3>1. JobsCanRun
      BY RunningJob DEF IInv, JobOK, JobsCanRun
    <3>2. QED
      BY <3>1, TypeStep DEF IInv
  <2>2. /\ \A k \in Listing : LiveOK(k)' /\ JobOK(k)'
        /\ \A p \in Platform : RowOK(p)'
        /\ \A c \in Call : CallOK(c)'
    <3>1. ASSUME NEW c \in Call, NEW l \in Listing, OnSale(c, l)
          PROVE  /\ \A k \in Listing : LiveOK(k)' /\ JobOK(k)'
                 /\ \A p \in Platform : RowOK(p)'
                 /\ \A d \in Call : CallOK(d)'
      BY <3>1, LoseKeeps, WinKeeps DEF OnSale
    <3>2. CASE UNCHANGED sagaVars
      BY <3>2 DEF sagaVars, regVars, exitVars, IInv, LiveOK, JobOK, RowOK, CallOK, ListingOf
    <3>3. QED
      BY <3>1, <3>2, BuyKeeps, JobKeeps, ReturnKeeps DEF SagaNext
  <2>3. QED
    BY <2>1, <2>2 DEF IInv
<1>2. QED
  BY <1>1, InitInv, PTL DEF Spec

(* The state keeps its types (saga.ts:63-144). *)
THEOREM TypeCorrect == Spec => []SagaTypeOK
<1>1. IInv => SagaTypeOK
  BY DEF IInv
<1>2. QED
  BY <1>1, Inductive, PTL

(***************************************************************************)
(* The oversell guard: of any number of sale events in any order, those    *)
(* that may ship name one listing, and all others must refund              *)
(* (registry.ts:49, saga.ts:82).                                           *)
(***************************************************************************)
THEOREM OversellGuard == Spec => []OneSaleShips
<1>1. IInv => OneSaleShips
  BY DEF IInv, CallOK, SagaTypeOK, CallType, OneSaleShips, RequiresRefund
<1>2. QED
  BY <1>1, Inductive, PTL

(***************************************************************************)
(* Convergence: once a sale event that was not refused has been handled,   *)
(* every listing of the item is down or a human was told, whatever failed  *)
(* and however often it was retried (saga.ts:80-144).                      *)
(***************************************************************************)
THEOREM Convergence == Spec => []HandledMeansOff
<1>1. IInv => HandledMeansOff
  <2> SUFFICES ASSUME IInv, NEW c \in Call, call[c].st = "returned", ~RequiresRefund(c),
                      NEW k \in live
               PROVE  k \in halts
    BY DEF HandledMeansOff
  <2>1. k \in Listing /\ k[1] \in Platform
    BY ListingPair DEF IInv, SagaTypeOK
  <2>2. call[c].claim \in {"won", "won_replay"} \/ call[c].claim = "none"
    BY DEF RequiresRefund, IInv, SagaTypeOK, CallType
  <2>3. call[c].claim # "none"
    BY DEF IInv, CallOK
  <2>4. rows[k[1]].state # "active"
    BY <2>1, <2>2, <2>3 DEF IInv, CallOK
  <2>5. ListingOf(k[1]) = k /\ rows[k[1]].state = "end_failed"
    BY <2>1, <2>4 DEF IInv, LiveOK
  <2>6. QED
    BY <2>1, <2>5 DEF IInv, RowOK
<1>2. QED
  BY <1>1, Inductive, PTL

(* P7: exactly what could not be ended is reported (saga.ts:139-141). *)
THEOREM NothingSilent == Spec => []FailuresAreReported
<1>1. IInv => FailuresAreReported
  BY DEF IInv, SagaTypeOK, CallType, RowOK, JobOK, FailuresAreReported, FailedBy
<1>2. QED
  BY <1>1, Inductive, PTL

(* The winning listing is never asked to end (saga.ts:98). *)
THEOREM WinnerUntouched == Spec => []WinnerIsNeverEnded
<1>1. IInv => WinnerIsNeverEnded
  BY DEF IInv, SagaTypeOK, RegistryTypeOK, JobOK, WinnerIsNeverEnded
<1>2. QED
  BY <1>1, Inductive, PTL

-------------------------------------------------------------------------------
(* A listing is open when it is in its platform's row and the row is active. *)
LEMMA OpenListing ==
  ASSUME SagaTypeOK
  PROVE  /\ ActiveListings \subseteq Listing
         /\ \A k \in Listing : k \in ActiveListings <=> /\ ListingOf(k[1]) = k
                                                        /\ rows[k[1]].state = "active"
<1>1. ActiveListings \subseteq Listing
  BY DEF ActiveListings, ListingOf, Listing, SagaTypeOK, RegistryTypeOK
<1>2. ASSUME NEW k \in Listing, k \in ActiveListings
      PROVE  ListingOf(k[1]) = k /\ rows[k[1]].state = "active"
  <2>1. PICK p \in Platform : rows[p].state = "active" /\ k = ListingOf(p)
    BY <1>2 DEF ActiveListings
  <2>2. k[1] = p
    BY <2>1 DEF ListingOf
  <2>3. QED
    BY <2>1, <2>2
<1>3. ASSUME NEW k \in Listing, ListingOf(k[1]) = k, rows[k[1]].state = "active"
      PROVE  k \in ActiveListings
  BY <1>3, ListingPair DEF ActiveListings
<1>4. QED
  BY <1>1, <1>2, <1>3

LEMMA OpenListingPrimed ==
  ASSUME SagaTypeOK'
  PROVE  /\ ActiveListings' \subseteq Listing
         /\ \A k \in Listing : k \in ActiveListings' <=> /\ ListingOf(k[1])' = k
                                                         /\ rows'[k[1]].state = "active"
<1>1. ActiveListings' \subseteq Listing
  BY DEF ActiveListings, ListingOf, Listing, SagaTypeOK, RegistryTypeOK
<1>2. ASSUME NEW k \in Listing, k \in ActiveListings'
      PROVE  ListingOf(k[1])' = k /\ rows'[k[1]].state = "active"
  <2>1. PICK p \in Platform : rows'[p].state = "active" /\ k = ListingOf(p)'
    BY <1>2 DEF ActiveListings
  <2>2. k[1] = p
    BY <2>1 DEF ListingOf
  <2>3. QED
    BY <2>1, <2>2
<1>3. ASSUME NEW k \in Listing, ListingOf(k[1])' = k, rows'[k[1]].state = "active"
      PROVE  k \in ActiveListings'
  BY <1>3, ListingPair DEF ActiveListings
<1>4. QED
  BY <1>1, <1>2, <1>3

(* An accepted sale closes its own listing and those that fail at once. *)
LEMMA WinRefines ==
  ASSUME IInv, SagaTypeOK', NEW c \in Call, NEW l \in Listing,
         OnSale(c, l), WinSale(c, l)
  PROVE  Guard!GuardNext
<1> USE RegistryAssumption
<1>1. sold' = l /\ (sold # NoSale => sold = l) /\ l # NoSale
  BY DEF OnSale, ClaimSale, WinSale, ClaimOutcome
<1>2. /\ Verdict(c) = "none"
      /\ [d \in Call |-> Verdict(d)]' = [[d \in Call |-> Verdict(d)] EXCEPT ![c] = "ships"]
  <2>1. call[c].claim = "none"
    BY DEF OnSale, IInv, CallOK
  <2>2. call'[c].claim \in {"won", "won_replay"}
    BY DEF WinSale, ClaimOutcome, IInv, SagaTypeOK
  <2>3. \A d \in Call : d # c => call'[d] = call[d]
    BY DEF WinSale, IInv, SagaTypeOK
  <2>4. Verdict(c)' = "ships" /\ \A d \in Call : d # c => Verdict(d)' = Verdict(d)
    BY <2>2, <2>3 DEF Verdict, RequiresRefund
  <2>5. QED
    BY <2>1, <2>4 DEF Verdict
<1>3. ASSUME NEW k \in Listing
      PROVE  /\ k \in ActiveListings' => k \in ActiveListings /\ k # l
             /\ k \in Stillborn(l) => k \in ActiveListings /\ k \notin ActiveListings' /\ k # l
  <2>1. k[1] \in Platform
    BY ListingPair
  <2>2. k \in Stillborn(l) => k \in ActiveListings /\ k # l
    BY DEF Stillborn, Starts, Others
  <2>3. rows'[k[1]].ext = rows[k[1]].ext
    BY <2>1 DEF WinSale, IInv, SagaTypeOK, RegistryTypeOK
  <2>4. ListingOf(k[1])' = ListingOf(k[1])
    BY <2>3 DEF ListingOf
  <2>5. ListingOf(k[1]) \in Stillborn(l) => rows'[k[1]].state # "active"
    BY <2>1 DEF WinSale, IInv, SagaTypeOK, RegistryTypeOK
  <2>6. rows'[k[1]].state = "active" => rows[k[1]].state = "active"
    BY <2>1 DEF WinSale, IInv, SagaTypeOK, RegistryTypeOK
  <2>7. rows'[k[1]].state = "active" => ~(l \in ActiveListings /\ ListingOf(k[1]) = l)
    BY <2>1 DEF WinSale, IInv, SagaTypeOK, RegistryTypeOK
  <2>8. k \in ActiveListings' => k \in ActiveListings
    BY <2>4, <2>6, OpenListing, OpenListingPrimed DEF IInv
  <2>9. k \in ActiveListings => ListingOf(k[1]) = k
    BY OpenListing DEF IInv
  <2>10. k \in ActiveListings' => rows'[k[1]].state = "active"
    BY OpenListingPrimed
  <2>11. QED
    BY <2>2, <2>5, <2>7, <2>8, <2>9, <2>10
<1>4. Guard!Close /\ l \notin ActiveListings'
  <2> DEFINE S == ActiveListings \ ActiveListings'
  <2>1. ActiveListings \subseteq Listing /\ ActiveListings' \subseteq Listing
    BY OpenListing, OpenListingPrimed DEF IInv
  <2>2. S \in SUBSET ActiveListings /\ ActiveListings' = ActiveListings \ S
    BY <1>3, <2>1
  <2>3. Stillborn(l) \in SUBSET (S \ {sold'})
    <3>1. Stillborn(l) \subseteq Listing
      BY <2>1 DEF Stillborn, Starts, Others
    <3>2. QED
      BY <1>1, <1>3, <3>1
  <2>4. halts' = halts \cup Stillborn(l)
    BY DEF WinSale
  <2>5. QED
    BY <1>3, <2>2, <2>3, <2>4 DEF Guard!Close
<1>5. CASE sold = NoSale
  <2>1. Guard!Claim(c, l)
    BY <1>1, <1>2, <1>4, <1>5 DEF Guard!Claim
  <2>2. QED
    BY <2>1 DEF Guard!GuardNext
<1>6. CASE sold # NoSale
  <2>1. Guard!Confirm(c)
    BY <1>1, <1>2, <1>4, <1>6 DEF Guard!Confirm
  <2>2. QED
    BY <2>1 DEF Guard!GuardNext
<1>7. QED
  BY <1>5, <1>6

(* A job closes its listing when it settles and changes nothing before. *)
LEMMA JobRefines ==
  ASSUME IInv, SagaTypeOK', NEW j \in Listing, JobStep(j)
  PROVE  Guard!GuardNext \/ UNCHANGED Guard!guardVars
<1>1. job[j].st \in {"calling", "backoff"}
  BY DEF JobStep, EndSucceeds, GiveUp, BackOff, EndThrows, Retry
<1>2. /\ j[1] \in Platform
      /\ ListingOf(j[1]) = j
      /\ rows[j[1]].state = "active"
      /\ sold # NoSale /\ j # sold
  BY <1>1, RunningJob DEF IInv, JobOK
<1>3. UNCHANGED <<sold, call>>
  BY DEF JobStep, EndSucceeds, GiveUp, BackOff, EndThrows, Retry, regVars
<1>4. UNCHANGED [d \in Call |-> Verdict(d)]
  BY <1>3 DEF Verdict, RequiresRefund
<1>5. CASE BackOff(j) \/ Retry(j)
  <2>1. UNCHANGED <<rows, halts>>
    BY <1>5 DEF BackOff, EndThrows, Retry, regVars
  <2>2. UNCHANGED ActiveListings
    BY <2>1 DEF ActiveListings, ListingOf
  <2>3. QED
    BY <1>3, <1>4, <2>1, <2>2 DEF Guard!guardVars
<1>6. CASE EndSucceeds(j) \/ GiveUp(j)
  <2>1. PICK s \in {"ended", "end_failed"} : rows' = [rows EXCEPT ![j[1]].state = s]
    BY <1>6 DEF EndSucceeds, GiveUp
  <2>2. halts' = halts \/ halts' = halts \cup {j}
    BY <1>2, <1>6 DEF EndSucceeds, GiveUp
  <2>3. ASSUME NEW k \in Listing
        PROVE  k \in ActiveListings' <=> k \in ActiveListings /\ k # j
    <3>1. k[1] \in Platform
      BY ListingPair
    <3>2. ListingOf(k[1])' = ListingOf(k[1])
      BY <1>2, <2>1, <3>1 DEF ListingOf, IInv, SagaTypeOK, RegistryTypeOK
    <3>3. k[1] # j[1] => rows'[k[1]] = rows[k[1]] /\ k # j
      BY <2>1, <3>1 DEF IInv, SagaTypeOK, RegistryTypeOK
    <3>4. rows'[j[1]].state # "active"
      BY <1>2, <2>1 DEF IInv, SagaTypeOK, RegistryTypeOK
    <3>5. k[1] = j[1] /\ ListingOf(k[1]) = k => k = j
      BY <1>2
    <3>6. QED
      BY <1>2, <3>2, <3>3, <3>4, <3>5, OpenListing, OpenListingPrimed DEF IInv
  <2>4. ActiveListings' = ActiveListings \ {j} /\ j \in ActiveListings
    BY <1>2, <2>3, OpenListing, OpenListingPrimed DEF IInv
  <2>5. Guard!Close
    <3>1. {j} \in SUBSET ActiveListings
      BY <2>4
    <3>2. PICK F \in {{}, {j}} : halts' = halts \cup F
      BY <2>2
    <3>3. F \in SUBSET ({j} \ {sold'})
      BY <1>2, <1>3, <3>2
    <3>4. QED
      BY <2>4, <3>1, <3>2, <3>3 DEF Guard!Close
  <2>6. Guard!Converge
    BY <1>2, <1>3, <1>4, <2>5 DEF Guard!Converge
  <2>7. QED
    BY <2>6 DEF Guard!GuardNext
<1>7. QED
  BY <1>5, <1>6 DEF JobStep

(***************************************************************************)
(* The saga implements the abstract sale guard (saga.ts:80-144): a sale    *)
(* is claimed, confirmed or refused, and once there is a winner listings   *)
(* only close, the winner's never being flagged.                           *)
(***************************************************************************)
THEOREM Refinement == Spec => ImplementsSaleGuard
<1>1. Init => Guard!GuardInit
  <2> SUFFICES ASSUME Init
               PROVE  Guard!GuardInit
    OBVIOUS
  <2>1. ActiveListings \in SUBSET Listing
    BY InitType, OpenListing
  <2>2. [c \in Call |-> Verdict(c)] = [c \in Call |-> "none"]
    BY DEF Init, ExitInit, IdleCall, Verdict
  <2>3. QED
    BY <2>1, <2>2 DEF Init, ExitInit, Guard!GuardInit
<1>2. IInv /\ IInv' /\ [SagaNext]_sagaVars => [Guard!GuardNext]_(Guard!guardVars)
  <2> SUFFICES ASSUME IInv, SagaTypeOK', [SagaNext]_sagaVars
               PROVE  Guard!GuardNext \/ UNCHANGED Guard!guardVars
    BY DEF IInv
  <2>1. ASSUME NEW l \in Listing, Buy(l)
        PROVE  UNCHANGED Guard!guardVars
    BY <2>1 DEF Buy, regVars, Guard!guardVars, ActiveListings, ListingOf, Verdict, RequiresRefund
  <2>2. ASSUME NEW c \in Call, NEW l \in Listing, OnSale(c, l), LoseSale(c, l)
        PROVE  Guard!GuardNext
    <3>1. sold # NoSale /\ UNCHANGED <<rows, sold, halts>>
      BY <2>2, RegistryAssumption DEF LoseSale, ClaimOutcome, regVars
    <3>2. UNCHANGED ActiveListings
      BY <3>1 DEF ActiveListings, ListingOf
    <3>3. call[c].claim = "none"
      BY <2>2 DEF OnSale, IInv, CallOK
    <3>4. /\ call'[c].claim = "lost"
          /\ \A d \in Call : d # c => call'[d] = call[d]
      BY <2>2 DEF LoseSale, IInv, SagaTypeOK
    <3>5. Verdict(c)' = "refund" /\ \A d \in Call : d # c => Verdict(d)' = Verdict(d)
      BY <3>4 DEF Verdict, RequiresRefund
    <3>6. Guard!Refuse(c)
      BY <3>1, <3>2, <3>3, <3>5 DEF Guard!Refuse, Verdict
    <3>7. QED
      BY <3>6 DEF Guard!GuardNext
  <2>3. ASSUME NEW c \in Call, Return(c)
        PROVE  UNCHANGED Guard!guardVars
    <3>1. /\ UNCHANGED <<rows, sold, halts>>
          /\ \A d \in Call : call'[d].claim = call[d].claim
      BY <2>3 DEF Return, regVars, IInv, SagaTypeOK, CallType
    <3>2. QED
      BY <3>1 DEF Guard!guardVars, ActiveListings, ListingOf, Verdict, RequiresRefund
  <2>4. CASE UNCHANGED sagaVars
    BY <2>4 DEF sagaVars, regVars, exitVars, Guard!guardVars, ActiveListings, ListingOf,
                Verdict, RequiresRefund
  <2>5. QED
    BY <2>1, <2>2, <2>3, <2>4, WinRefines, JobRefines DEF SagaNext, OnSale
<1>3. QED
  BY <1>1, <1>2, Inductive, PTL DEF Spec, ImplementsSaleGuard, Guard!GuardSpec

-------------------------------------------------------------------------------
(***************************************************************************)
(* Cross-listing and delisting over one registry.  A sale event's verdict  *)
(* follows the claim (ClaimOK); a delisting runs on a row that was written *)
(* and not on the winner's listing (TaskOK); a marketplace has made what   *)
(* is up or bought, and makes a listing once, so one that was taken down   *)
(* by a rollback stays down (MarketOK); rows are written by publications   *)
(* that succeeded (Written); and a call that rolls back has dealt with     *)
(* each listing it published but those it has left (PubCallOK).            *)
(***************************************************************************)
ClaimOK(c) ==
  /\ call[c].claim = "none" <=> call[c].st = "idle"
  /\ call[c].claim \in {"won", "won_replay"} => sold # NoSale /\ call[c].order = sold
  /\ call[c].claim = "lost" => sold # NoSale /\ call[c].order # sold

TaskOK(k) ==
  /\ job[k].st # "absent" => sold # NoSale /\ k # sold /\ rows[k[1]].state # "none"
  /\ job[k].st = "calling" => job[k].target \in Ext
  /\ job[k].st = "backoff" => job[k].attempts < MaxAttempts

MarketOK(k) ==
  /\ k \in live \cup orders => k \in made
  /\ k \in orders => k \notin live
  /\ k \in made => pub[k].st # "absent"
  /\ pub[k].st = "backoff" => pub[k].attempts < MaxAttempts
  /\ pub[k].st = "ok" => k \in made /\ rows[k[1]].state # "none"
  /\ undo[k] # "absent" => pub[k].st = "ok"
  /\ undo[k] = "done" => k \notin live

Written(p) == rows[p].state # "none" => pub[ListingOf(p)].st = "ok"

Undone(k) == undo[k] = "done" \/ k \in undoHalts

PubCallOK(c) ==
  /\ pcall[c].st \in {"rolling", "returned"} => \A k \in pcall[c].drafts : PubSettled(k)
  /\ pcall[c].st \in {"idle", "publishing"} => pcall[c].left = {}
  /\ pcall[c].left \subseteq PublishedBy(c)
  /\ pcall[c].turn # NoTurn => /\ pcall[c].st = "rolling"
                               /\ pcall[c].turn \in pcall[c].left
                               /\ undo[pcall[c].turn] # "absent"
  /\ pcall[c].rolledBack => pcall[c].st = "returned" /\ pcall[c].left = {}
  /\ pcall[c].st = "rolling" \/ pcall[c].rolledBack
       => \A k \in PublishedBy(c) \ pcall[c].left : Undone(k)

CrosslistInv == /\ CrosslistTypeOK
                /\ \A c \in Call : ClaimOK(c)
                /\ \A k \in Listing : TaskOK(k) /\ MarketOK(k)
                /\ \A p \in Platform : Written(p)
                /\ \A c \in PubCall : PubCallOK(c)

(* Both sagas start with nothing listed (crosslist.ts:55-62). *)
LEMMA CrosslistInitInv == CrosslistInit => CrosslistInv
<1> SUFFICES ASSUME CrosslistInit PROVE CrosslistInv
  OBVIOUS
<1> USE RegistryAssumption, SagaAssumption DEF CrosslistInit, ExitInit
<1>1. SagaTypeOK
  BY DEF SagaTypeOK, RegistryTypeOK, NoRow, RowState, NoJob, JobType, IdleCall, CallType
<1>2. CrosslistTypeOK
  BY <1>1 DEF CrosslistTypeOK, NoPub, IdlePub, PubCallType, NoTurn
<1>3. /\ \A c \in Call : ClaimOK(c)
      /\ \A k \in Listing : TaskOK(k) /\ MarketOK(k)
      /\ \A p \in Platform : Written(p)
  BY ListingPair DEF ClaimOK, TaskOK, MarketOK, Written, IdleCall, NoJob, NoPub, NoRow
<1>4. \A c \in PubCall : PubCallOK(c)
  BY DEF PubCallOK, IdlePub, NoTurn
<1> QED
  BY <1>2, <1>3, <1>4 DEF CrosslistInv

(***************************************************************************)
(* What a step of the delist saga may do: listings go down and rows that   *)
(* were written change state, neither in any other way (saga.ts:80-144).   *)
(***************************************************************************)
LEMMA DelistingOnlyEnds ==
  ASSUME CrosslistInv, SagaNext
  PROVE  /\ live' \subseteq live
         /\ \A l \in orders' : l \in orders \/ (l \in live /\ l \notin live')
         /\ \A p \in Platform : /\ rows'[p].ext = rows[p].ext
                                /\ rows'[p].state = "none" <=> rows[p].state = "none"
<1> USE DEF CrosslistInv, CrosslistTypeOK, SagaTypeOK, RegistryTypeOK
<1>1. ASSUME NEW l \in Listing, Buy(l)
      PROVE  /\ live' \subseteq live /\ UNCHANGED rows
             /\ \A m \in orders' : m \in orders \/ (m \in live /\ m \notin live')
  BY <1>1 DEF Buy, regVars
<1>2. ASSUME NEW c \in Call, NEW l \in Listing, OnSale(c, l)
      PROVE  /\ UNCHANGED <<live, orders>>
             /\ \A p \in Platform : /\ rows'[p].ext = rows[p].ext
                                    /\ rows'[p].state = "none" <=> rows[p].state = "none"
  <2>1. CASE LoseSale(c, l)
    BY <2>1 DEF LoseSale, regVars
  <2>2. CASE WinSale(c, l)
    <3>1. ASSUME NEW p \in Platform
          PROVE  /\ rows'[p].ext = rows[p].ext
                 /\ rows'[p].state = "none" <=> rows[p].state = "none"
      <4>1. ListingOf(p) \in ActiveListings => rows[p].state = "active"
        BY DEF ActiveListings, ListingOf
      <4>2. ListingOf(p) \in Stillborn(l) => ListingOf(p) \in ActiveListings
        BY DEF Stillborn, Starts, Others
      <4> QED
        BY <2>2, <4>1, <4>2 DEF WinSale
    <3> QED
      BY <2>2, <3>1 DEF WinSale
  <2> QED
    BY <1>2, <2>1, <2>2 DEF OnSale
<1>3. ASSUME NEW k \in Listing, JobStep(k)
      PROVE  /\ live' \subseteq live /\ UNCHANGED orders
             /\ \A p \in Platform : /\ rows'[p].ext = rows[p].ext
                                    /\ rows'[p].state = "none" <=> rows[p].state = "none"
  <2>1. k[1] \in Platform /\ rows[k[1]].state # "none"
    BY <1>3, ListingPair DEF JobStep, EndSucceeds, GiveUp, BackOff, EndThrows, Retry, TaskOK
  <2> QED
    BY <1>3, <2>1 DEF JobStep, EndSucceeds, GiveUp, BackOff, EndThrows, Retry, regVars
<1>4. ASSUME NEW c \in Call, Return(c)
      PROVE  UNCHANGED <<live, orders, rows>>
  BY <1>4 DEF Return, regVars
<1> QED
  BY <1>1, <1>2, <1>3, <1>4 DEF SagaNext

(* A step of the delist saga leaves the cross-listing side as it should be. *)
LEMMA DelistKeepsMarket ==
  ASSUME CrosslistInv, SagaNext, UNCHANGED listVars
  PROVE  /\ \A k \in Listing : MarketOK(k)'
         /\ \A p \in Platform : Written(p)'
         /\ \A c \in PubCall : PubCallOK(c)'
<1> USE DelistingOnlyEnds DEF CrosslistInv, listVars
<1>1. \A k \in Listing : MarketOK(k)'
  BY ListingPair DEF MarketOK
<1>2. \A p \in Platform : Written(p)'
  BY DEF Written, ListingOf
<1>3. \A c \in PubCall : PubCallOK(c)'
  BY DEF PubCallOK, PubSettled, PublishedBy, Undone
<1> QED
  BY <1>1, <1>2, <1>3

(***************************************************************************)
(* Its verdicts follow the claim, and its jobs work on written rows        *)
(* (saga.ts:82, 98, 110-144).                                              *)
(***************************************************************************)
LEMMA DelistKeepsClaims ==
  ASSUME CrosslistInv, SagaNext
  PROVE  /\ \A c \in Call : ClaimOK(c)'
         /\ \A k \in Listing : TaskOK(k)'
<1> USE RegistryAssumption, DelistingOnlyEnds
    DEF CrosslistInv, CrosslistTypeOK, SagaTypeOK, RegistryTypeOK
<1>1. ASSUME NEW l \in Listing, Buy(l)
      PROVE  (\A c \in Call : ClaimOK(c)') /\ \A k \in Listing : TaskOK(k)'
  BY <1>1 DEF Buy, regVars, ClaimOK, TaskOK
<1>2. ASSUME NEW c \in Call, NEW l \in Listing, OnSale(c, l)
      PROVE  (\A d \in Call : ClaimOK(d)') /\ \A k \in Listing : TaskOK(k)'
  <2>1. sold' = (IF sold = NoSale THEN l ELSE sold) /\ l # NoSale /\ call[c].st = "idle"
    BY <1>2 DEF OnSale, ClaimSale
  <2>2. \A d \in Call : call[d].claim # "none" => sold # NoSale /\ sold' = sold
    BY <2>1 DEF ClaimOK, CallType
  <2>3. CASE LoseSale(c, l)
    <3>1. sold # NoSale /\ sold # l /\ sold' = sold
      BY <2>1, <2>3 DEF LoseSale, ClaimOutcome
    <3>2. \A d \in Call : ClaimOK(d)'
      BY <2>3, <3>1 DEF LoseSale, ClaimOK
    <3> QED
      BY <2>3, <3>1, <3>2 DEF LoseSale, regVars, TaskOK
  <2>4. CASE WinSale(c, l)
    <3>1. sold' = l /\ ClaimOutcome(l) \in {"won", "won_replay"}
      BY <2>1, <2>4 DEF WinSale, ClaimOutcome
    <3>2. \A d \in Call : ClaimOK(d)'
      <4>1. ASSUME NEW d \in Call, d # c PROVE ClaimOK(d)'
        BY <2>2, <2>4, <4>1 DEF WinSale, ClaimOK, CallType
      <4>2. ClaimOK(c)'
        BY <2>4, <3>1 DEF WinSale, ClaimOK
      <4> QED
        BY <4>1, <4>2
    <3>3. ASSUME NEW k \in Listing PROVE TaskOK(k)'
      <4>1. k[1] \in Platform
        BY ListingPair
      <4>2. k \in Starts(l) => /\ k # l /\ rows[k[1]].state # "none"
        <5> SUFFICES ASSUME k \in Starts(l) PROVE k # l /\ rows[k[1]].state # "none"
          OBVIOUS
        <5>1. k # l
          BY DEF Starts, Others
        <5>2. PICK p \in Platform : rows[p].state = "active" /\ k = ListingOf(p)
          BY DEF Starts, Others, ActiveListings
        <5> QED
          BY <5>1, <5>2 DEF ListingOf
      <4>3. k \notin Starts(l) => job'[k] = job[k]
        BY <2>4 DEF WinSale, Stillborn
      <4>4. k \in Starts(l) =>
              job'[k].st \in {"failed", "calling"} /\ (job'[k].st = "calling" => job'[k].target \in Ext)
        BY <2>4, ListingPair DEF WinSale, NoJob
      <4>5. job[k].st # "absent" => k # l
        BY <2>1, <3>1 DEF TaskOK
      <4> QED
        BY <3>1, <4>1, <4>2, <4>3, <4>4, <4>5 DEF TaskOK
    <3> QED
      BY <3>2, <3>3
  <2> QED
    BY <1>2, <2>3, <2>4 DEF OnSale
<1>3. ASSUME NEW k \in Listing, JobStep(k)
      PROVE  (\A c \in Call : ClaimOK(c)') /\ \A j \in Listing : TaskOK(j)'
  <2>1. UNCHANGED <<sold, call>>
    BY <1>3 DEF JobStep, EndSucceeds, GiveUp, BackOff, EndThrows, Retry, regVars
  <2>2. \A c \in Call : ClaimOK(c)'
    BY <2>1 DEF ClaimOK
  <2>3. /\ k[1] \in Platform /\ job[k].st # "absent" /\ rows[k[1]].ext \in Ext
        /\ \A j \in Listing : j # k => job'[j] = job[j]
        /\ job'[k].st = "calling" => job'[k].target = rows[k[1]].ext
        /\ job'[k].st = "backoff" => job'[k].attempts < MaxAttempts
    <3>1. k[1] \in Platform /\ job[k].st # "absent"
      BY <1>3, ListingPair DEF JobStep, EndSucceeds, GiveUp, BackOff, EndThrows, Retry
    <3>2. rows[k[1]].ext \in Ext
      BY <3>1 DEF TaskOK
    <3>3. /\ \A j \in Listing : j # k => job'[j] = job[j]
          /\ job'[k].st = "calling" => job'[k].target = rows[k[1]].ext
          /\ job'[k].st = "backoff" => job'[k].attempts < MaxAttempts
      <4>1. CASE EndSucceeds(k)
        BY <4>1 DEF EndSucceeds
      <4>2. CASE GiveUp(k)
        BY <4>2 DEF GiveUp
      <4>3. CASE BackOff(k)
        BY <4>3 DEF BackOff, JobType
      <4>4. CASE Retry(k)
        BY <4>4 DEF Retry
      <4> QED
        BY <1>3, <4>1, <4>2, <4>3, <4>4 DEF JobStep
    <3> QED
      BY <3>1, <3>2, <3>3
  <2>4. ASSUME NEW j \in Listing PROVE TaskOK(j)'
    BY <2>1, <2>3, ListingPair DEF TaskOK
  <2> QED
    BY <2>2, <2>4
<1>4. ASSUME NEW c \in Call, Return(c)
      PROVE  (\A d \in Call : ClaimOK(d)') /\ \A k \in Listing : TaskOK(k)'
  BY <1>4 DEF Return, regVars, ClaimOK, TaskOK, CallType
<1> QED
  BY <1>1, <1>2, <1>3, <1>4 DEF SagaNext

-------------------------------------------------------------------------------
(* The state of the delist saga, which most steps of cross-listing leave alone. *)
LEMMA DelistUntouched ==
  ASSUME CrosslistInv, UNCHANGED <<rows, sold, job, call>>
  PROVE  /\ \A c \in Call : ClaimOK(c)'
         /\ \A k \in Listing : TaskOK(k)'
BY DEF CrosslistInv, ClaimOK, TaskOK

(***************************************************************************)
(* publish() takes up its drafts: those the outbox does not know start,    *)
(* none that it knows is touched (crosslist.ts:71-72, 110-114).            *)
(***************************************************************************)
LEMMA PublishKeeps ==
  ASSUME CrosslistInv, NEW c \in PubCall, NEW D \in Drafts, Publish(c, D)
  PROVE  CrosslistInv'
<1> USE SagaAssumption DEF CrosslistInv, Publish, sagaVars, exitVars, regVars
<1>1. D \subseteq Listing
  BY DEF Drafts
<1>2. \A k \in Listing :
        /\ pub[k].st # "absent" => pub'[k] = pub[k]
        /\ pub[k].st = "absent" => pub'[k].st \in {"absent", "calling", "failed"}
        /\ k \in D => pub'[k].st # "absent"
        /\ pub'[k] \in [st : {"absent", "calling", "backoff", "ok", "failed"},
                        attempts : 0 .. MaxAttempts]
  <2> SUFFICES ASSUME NEW k \in Listing
               PROVE  /\ pub[k].st # "absent" => pub'[k] = pub[k]
                      /\ pub[k].st = "absent" => pub'[k].st \in {"absent", "calling", "failed"}
                      /\ k \in D => pub'[k].st # "absent"
                      /\ pub'[k] \in [st : {"absent", "calling", "backoff", "ok", "failed"},
                                      attempts : 0 .. MaxAttempts]
    OBVIOUS
  <2>1. MaxAttempts > 0 => 1 \in 0 .. MaxAttempts
    OBVIOUS
  <2> QED
    BY <2>1 DEF CrosslistTypeOK, NoPub
<1>3. /\ pcall'[c] = [IdlePub EXCEPT !.st = "publishing", !.drafts = D]
      /\ \A d \in PubCall : d # c => pcall'[d] = pcall[d]
      /\ pcall' \in [PubCall -> PubCallType]
  BY <1>1 DEF CrosslistTypeOK, PubCallType, IdlePub, NoTurn
<1>4. CrosslistTypeOK'
  BY <1>2, <1>3 DEF CrosslistTypeOK, SagaTypeOK, RegistryTypeOK
<1>5. \A k \in Listing : MarketOK(k)'
  BY <1>2 DEF MarketOK
<1>6. \A p \in Platform : Written(p)'
  <2> SUFFICES ASSUME NEW p \in Platform PROVE Written(p)'
    OBVIOUS
  <2>1. rows[p].state # "none" => ListingOf(p) \in Listing
    BY DEF CrosslistTypeOK, SagaTypeOK, RegistryTypeOK, ListingOf, Listing
  <2> QED
    BY <1>2, <2>1 DEF Written, ListingOf
<1>7. \A d \in PubCall : PubCallOK(d)'
  <2>1. PubCallOK(c)'
    BY <1>3 DEF PubCallOK, IdlePub, PublishedBy
  <2>2. ASSUME NEW d \in PubCall, d # c PROVE PubCallOK(d)'
    <3>1. pcall[d].drafts \subseteq Listing
      BY DEF CrosslistTypeOK, PubCallType
    <3>2. \A k \in pcall[d].drafts : pub[k].st = "ok" => pub'[k].st = "ok"
      BY <1>2, <3>1
    <3>3. \A k \in pcall[d].drafts : pub'[k].st = "ok" => pub[k].st = "ok"
      BY <1>2, <3>1
    <3>4. PublishedBy(d)' = PublishedBy(d)
      BY <1>3, <2>2, <3>2, <3>3 DEF PublishedBy
    <3>5. \A k \in pcall[d].drafts : PubSettled(k) => PubSettled(k)'
      BY <1>2, <3>1 DEF PubSettled
    <3> QED
      BY <1>3, <2>2, <3>4, <3>5 DEF PubCallOK, Undone
  <2> QED
    BY <2>1, <2>2
<1> QED
  BY <1>4, <1>5, <1>6, <1>7, DelistUntouched

(* What publishOne does to the drafts of a call: settled ones stay settled. *)
LEMMA SettledStay ==
  ASSUME CrosslistInv, CrosslistTypeOK', NEW k \in Listing,
         pub[k].st \in {"calling", "backoff"},
         \A j \in Listing : j # k => pub'[j] = pub[j],
         UNCHANGED <<pcall, undo, undoHalts>>
  PROVE  \A c \in PubCall : PubCallOK(c)'
<1> SUFFICES ASSUME NEW c \in PubCall PROVE PubCallOK(c)'
  OBVIOUS
<1>1. pcall[c].drafts \subseteq Listing /\ PubCallOK(c)
  BY DEF CrosslistInv, CrosslistTypeOK, PubCallType
<1>2. \A j \in pcall[c].drafts : PubSettled(j) => PubSettled(j)'
  BY <1>1 DEF PubSettled
<1>3. PublishedBy(c) \subseteq PublishedBy(c)'
  BY <1>1 DEF PublishedBy
<1>4. CASE pcall[c].st \in {"rolling", "returned"}
  <2>1. k \notin pcall[c].drafts
    BY <1>1, <1>4 DEF PubCallOK, PubSettled
  <2>2. PublishedBy(c)' = PublishedBy(c)
    BY <1>1, <2>1 DEF PublishedBy
  <2> QED
    BY <1>1, <1>2, <2>2 DEF PubCallOK, Undone
<1>5. CASE pcall[c].st \in {"idle", "publishing"}
  BY <1>1, <1>2, <1>3, <1>5 DEF PubCallOK
<1>6. pcall[c].st \in {"idle", "publishing", "rolling", "returned"}
  BY DEF CrosslistInv, CrosslistTypeOK, PubCallType
<1> QED
  BY <1>4, <1>5, <1>6

(***************************************************************************)
(* One publication: the marketplace makes a listing once, and the row is   *)
(* written when the answer comes (crosslist.ts:112-133).                   *)
(***************************************************************************)
LEMMA PublishStepKeeps ==
  ASSUME CrosslistInv, NEW k \in Listing, PublishStep(k)
  PROVE  CrosslistInv'
<1> USE RegistryAssumption, SagaAssumption DEF CrosslistInv
<1>1. CASE MarketLists(k)
  <2> USE <1>1 DEF MarketLists, regVars
  <2>1. CrosslistTypeOK'
    BY DEF CrosslistTypeOK, SagaTypeOK, RegistryTypeOK
  <2>2. \A j \in Listing : MarketOK(j)'
    BY DEF MarketOK
  <2>3. \A p \in Platform : Written(p)'
    BY DEF Written, ListingOf
  <2>4. \A c \in PubCall : PubCallOK(c)'
    BY DEF PubCallOK, PubSettled, PublishedBy, Undone
  <2> QED
    BY <2>1, <2>2, <2>3, <2>4, DelistUntouched
<1>2. CASE PublishSucceeds(k)
  <2> USE <1>2 DEF PublishSucceeds, exitVars
  <2>1. k[1] \in Platform /\ k[2] \in Ext /\ k = <<k[1], k[2]>>
    BY ListingPair
  <2>2. /\ rows'[k[1]] = [ext |-> k[2], state |-> "active"]
        /\ \A p \in Platform : p # k[1] => rows'[p] = rows[p]
        /\ pub'[k].st = "ok" /\ \A j \in Listing : j # k => pub'[j] = pub[j]
    BY <2>1 DEF Published, CrosslistTypeOK, SagaTypeOK, RegistryTypeOK
  <2>3. RegistryTypeOK'
    BY <2>1, <2>2 DEF Published, CrosslistTypeOK, SagaTypeOK, RegistryTypeOK, RowState
  <2>4. CrosslistTypeOK'
    BY <2>3 DEF CrosslistTypeOK, SagaTypeOK
  <2>5. \A j \in Listing : TaskOK(j)' /\ MarketOK(j)'
    BY <2>2, ListingPair DEF TaskOK, MarketOK
  <2>6. \A p \in Platform : Written(p)'
    <3> SUFFICES ASSUME NEW p \in Platform PROVE Written(p)'
      OBVIOUS
    <3>1. CASE p = k[1]
      BY <2>1, <2>2, <3>1 DEF Written, ListingOf
    <3>2. CASE p # k[1]
      <4>1. rows[p].state # "none" => ListingOf(p) \in Listing
        BY DEF CrosslistTypeOK, SagaTypeOK, RegistryTypeOK, ListingOf, Listing
      <4> QED
        BY <2>2, <3>2, <4>1 DEF Written, ListingOf
    <3> QED
      BY <3>1, <3>2
  <2>7. \A c \in PubCall : PubCallOK(c)'
    BY <2>2, <2>4, SettledStay
  <2>8. \A c \in Call : ClaimOK(c)'
    BY DEF ClaimOK
  <2> QED
    BY <2>4, <2>5, <2>6, <2>7, <2>8
<1>3. CASE PublishThrows(k) \/ RetryPublish(k)
  <2>1. UNCHANGED <<sagaVars, mode, made, undo, pcall, pubHalts, undoHalts>>
    BY <1>3 DEF PublishThrows, RetryPublish
  <2>2. /\ pub[k].st \in {"calling", "backoff"}
        /\ pub'[k].st \in {"calling", "backoff", "failed"}
        /\ pub'[k].st = "backoff" => pub'[k].attempts < MaxAttempts
        /\ \A j \in Listing : j # k => pub'[j] = pub[j]
    BY <1>3 DEF PublishThrows, RetryPublish, CrosslistTypeOK
  <2>3. pub' \in [Listing -> [st : {"absent", "calling", "backoff", "ok", "failed"},
                              attempts : 0 .. MaxAttempts]]
    <3>1. CASE PublishThrows(k)
      BY <3>1 DEF PublishThrows, CrosslistTypeOK
    <3>2. CASE RetryPublish(k)
      <4>1. pub[k].attempts + 1 \in 0 .. MaxAttempts
        BY <3>2 DEF RetryPublish, MarketOK, CrosslistTypeOK
      <4> QED
        BY <3>2, <4>1 DEF RetryPublish, CrosslistTypeOK
    <3> QED
      BY <1>3, <3>1, <3>2
  <2> USE <2>1 DEF sagaVars, exitVars, regVars
  <2>4. CrosslistTypeOK'
    BY <2>3 DEF CrosslistTypeOK, SagaTypeOK, RegistryTypeOK
  <2>5. \A j \in Listing : MarketOK(j)'
    BY <2>2 DEF MarketOK
  <2>6. \A p \in Platform : Written(p)'
    <3> SUFFICES ASSUME NEW p \in Platform PROVE Written(p)'
      OBVIOUS
    <3>1. rows[p].state # "none" => ListingOf(p) \in Listing
      BY DEF CrosslistTypeOK, SagaTypeOK, RegistryTypeOK, ListingOf, Listing
    <3> QED
      BY <2>2, <3>1 DEF Written, ListingOf
  <2>7. \A c \in PubCall : PubCallOK(c)'
    BY <2>2, <2>4, SettledStay
  <2> QED
    BY <2>4, <2>5, <2>6, <2>7, DelistUntouched
<1> QED
  BY <1>1, <1>2, <1>3 DEF PublishStep

(* A rollback's end() settles: what it took down was up no longer than that
   (crosslist.ts:141-150). *)
LEMMA UndoKeeps ==
  ASSUME CrosslistInv, NEW k \in Listing, UndoSettles(k)
  PROVE  CrosslistInv'
<1> USE DEF CrosslistInv, UndoSettles, regVars
<1>1. /\ live' \in {live, live \ {k}} /\ undo'[k] \in {"done", "rejected"}
      /\ undo'[k] = "done" => k \notin live'
      /\ \A j \in Listing : j # k => undo'[j] = undo[j]
  BY DEF CrosslistTypeOK
<1>2. CrosslistTypeOK'
  BY <1>1 DEF CrosslistTypeOK, SagaTypeOK, RegistryTypeOK
<1>3. \A j \in Listing : MarketOK(j)'
  BY <1>1 DEF MarketOK
<1>4. \A p \in Platform : Written(p)'
  BY DEF Written, ListingOf
<1>5. \A c \in PubCall : PubCallOK(c)'
  <2> SUFFICES ASSUME NEW c \in PubCall PROVE PubCallOK(c)'
    OBVIOUS
  <2>1. pcall[c].drafts \subseteq Listing /\ pcall[c].turn \in Listing \cup {NoTurn}
    BY DEF CrosslistTypeOK, PubCallType
  <2>2. \A j \in Listing : undo[j] # "absent" => undo'[j] # "absent"
    BY <1>1
  <2>3. \A j \in Listing : Undone(j) => Undone(j)'
    BY <1>1 DEF Undone
  <2>4. PublishedBy(c)' = PublishedBy(c) /\ PublishedBy(c) \subseteq Listing
    BY <2>1 DEF PublishedBy
  <2> QED
    BY <2>1, <2>2, <2>3, <2>4 DEF PubCallOK, PubSettled
<1> QED
  BY <1>2, <1>3, <1>4, <1>5, DelistUntouched

-------------------------------------------------------------------------------
(* Only the call's own record changes, and a platform or a listing is reported. *)
LEMMA CallStepTypes ==
  ASSUME CrosslistInv, NEW c \in PubCall, pcall' \in [PubCall -> PubCallType],
         UNCHANGED <<sagaVars, mode, made, pub, undo>>,
         pubHalts' \in SUBSET Platform, undoHalts' \in SUBSET Listing
  PROVE  /\ CrosslistTypeOK'
         /\ \A d \in Call : ClaimOK(d)'
         /\ \A k \in Listing : TaskOK(k)' /\ MarketOK(k)'
         /\ \A p \in Platform : Written(p)'
<1> USE DEF CrosslistInv, sagaVars, exitVars, regVars
<1>1. CrosslistTypeOK'
  BY DEF CrosslistTypeOK, SagaTypeOK, RegistryTypeOK
<1>2. \A k \in Listing : MarketOK(k)'
  BY DEF MarketOK
<1>3. \A p \in Platform : Written(p)'
  BY DEF Written, ListingOf
<1> QED
  BY <1>1, <1>2, <1>3, DelistUntouched

(* Each platform halted is one a draft of the call was for (crosslist.ts:86, 98). *)
LEMMA HaltsArePlatforms ==
  ASSUME CrosslistInv, NEW c \in PubCall, HaltUnpublished(c)
  PROVE  pubHalts' \in SUBSET Platform
<1>1. UnpublishedBy(c) \subseteq Listing
  BY DEF CrosslistInv, CrosslistTypeOK, PubCallType, UnpublishedBy
<1> QED
  BY <1>1, ListingPair DEF HaltUnpublished, CrosslistInv, CrosslistTypeOK

(* All attempts are settled: the call returns, or sets out to roll back
   everything it published (crosslist.ts:80-98). *)
LEMMA SettleKeeps ==
  ASSUME CrosslistInv, NEW c \in PubCall, Converge(c) \/ StartRollback(c)
  PROVE  CrosslistInv'
<1> USE DEF CrosslistInv
<1>1. /\ AllAttempted(c) /\ UNCHANGED <<sagaVars, mode, made, pub, undo, undoHalts>>
      /\ pubHalts' = pubHalts \/ HaltUnpublished(c)
  BY DEF Converge, StartRollback
<1>2. PublishedBy(c) \subseteq Listing
  BY DEF CrosslistTypeOK, PubCallType, PublishedBy
<1>3. /\ pcall' \in [PubCall -> PubCallType]
      /\ \A d \in PubCall : d # c => pcall'[d] = pcall[d]
      /\ pcall'[c].drafts = pcall[c].drafts /\ pcall'[c].turn = pcall[c].turn
      /\ pcall'[c].rolledBack = pcall[c].rolledBack
      /\ \/ pcall'[c].st = "returned" /\ pcall'[c].left = pcall[c].left
         \/ pcall'[c].st = "rolling" /\ pcall'[c].left = PublishedBy(c)
  BY <1>2 DEF Converge, StartRollback, CrosslistTypeOK, PubCallType
<1>4. \A d \in PubCall : PubCallOK(d)'
  <2>1. ASSUME NEW d \in PubCall, d # c PROVE PubCallOK(d)'
    BY <1>1, <1>3, <2>1 DEF PubCallOK, PubSettled, PublishedBy, Undone
  <2>2. PubCallOK(c)'
    <3>1. /\ pcall[c].st = "publishing" /\ \A k \in pcall[c].drafts : PubSettled(k)
          /\ pcall[c].left = {} /\ pcall[c].turn = NoTurn /\ ~pcall[c].rolledBack
      BY <1>1 DEF AllAttempted, PubCallOK, CrosslistTypeOK, PubCallType
    <3>2. PublishedBy(c)' = PublishedBy(c)
      BY <1>1, <1>3 DEF PublishedBy
    <3> QED
      BY <1>1, <1>3, <3>1, <3>2 DEF PubCallOK, PubSettled
  <2> QED
    BY <2>1, <2>2
<1>5. pubHalts' \in SUBSET Platform /\ undoHalts' \in SUBSET Listing
  BY <1>1, HaltsArePlatforms DEF CrosslistTypeOK
<1> QED
  BY <1>1, <1>3, <1>4, <1>5, CallStepTypes

(* The next listing of a rollback: its end() is started, or met under way or
   settled (crosslist.ts:83, 139-141). *)
LEMMA RollbackKeeps ==
  ASSUME CrosslistInv, NEW c \in PubCall, NEW k \in Listing, Rollback(c, k)
  PROVE  CrosslistInv'
<1> USE DEF CrosslistInv, Rollback, sagaVars, exitVars, regVars
<1>1. /\ pub[k].st = "ok" /\ k # NoTurn
      /\ undo'[k] # "absent" /\ (undo[k] # "absent" => undo'[k] = undo[k])
      /\ undo'[k] # "done" \/ undo'[k] = undo[k]
      /\ \A j \in Listing : j # k => undo'[j] = undo[j]
  BY RegistryAssumption DEF PubCallOK, PublishedBy, NoTurn, CrosslistTypeOK
<1>2. /\ pcall' \in [PubCall -> PubCallType]
      /\ \A d \in PubCall : d # c => pcall'[d] = pcall[d]
      /\ pcall'[c].drafts = pcall[c].drafts /\ pcall'[c].turn = k
      /\ pcall'[c].rolledBack = pcall[c].rolledBack
      /\ pcall'[c].st = "rolling" /\ pcall'[c].left = pcall[c].left
  BY DEF CrosslistTypeOK, PubCallType
<1>3. CrosslistTypeOK'
  BY <1>2 DEF CrosslistTypeOK, SagaTypeOK, RegistryTypeOK
<1>4. \A j \in Listing : MarketOK(j)'
  BY <1>1 DEF MarketOK
<1>5. \A p \in Platform : Written(p)'
  BY DEF Written, ListingOf
<1>6. ASSUME NEW d \in PubCall PROVE PubCallOK(d)'
  <2>1. pcall[d].drafts \subseteq Listing /\ pcall[d].turn \in Listing \cup {NoTurn}
    BY DEF CrosslistTypeOK, PubCallType
  <2>2. PublishedBy(d)' = PublishedBy(d) /\ PublishedBy(d) \subseteq Listing
    BY <1>2, <2>1 DEF PublishedBy
  <2>3. \A j \in Listing : Undone(j) => Undone(j)'
    BY <1>1 DEF Undone
  <2>4. \A j \in Listing : undo[j] # "absent" => undo'[j] # "absent"
    BY <1>1
  <2>5. CASE d # c
    BY <1>2, <2>1, <2>2, <2>3, <2>4, <2>5 DEF PubCallOK, PubSettled
  <2>6. CASE d = c
    BY <1>1, <1>2, <2>1, <2>2, <2>3, <2>4, <2>6 DEF PubCallOK, PubSettled
  <2> QED
    BY <2>5, <2>6
<1> QED
  BY <1>3, <1>4, <1>5, <1>6, DelistUntouched

(* The listing is off and its row ended, or its end() threw and is reported
   (crosslist.ts:144-149). *)
LEMMA RollbackDoneKeeps ==
  ASSUME CrosslistInv, NEW c \in PubCall, RollbackDone(c)
  PROVE  CrosslistInv'
<1> USE DEF CrosslistInv
<1>0. PICK k \in Listing : k = pcall[c].turn
  BY DEF RollbackDone, CrosslistTypeOK, PubCallType
<1>1. /\ pub[k].st = "ok" /\ pcall[c].st = "rolling" /\ k \in pcall[c].left
      /\ k[1] \in Platform /\ rows[k[1]].state # "none"
  <2>1. k # NoTurn
    BY <1>0 DEF RollbackDone
  <2> QED
    BY <1>0, <2>1, ListingPair DEF PubCallOK, PublishedBy, MarketOK
<1>2. /\ pcall' \in [PubCall -> PubCallType]
      /\ \A d \in PubCall : d # c => pcall'[d] = pcall[d]
      /\ pcall'[c].drafts = pcall[c].drafts /\ pcall'[c].turn = NoTurn
      /\ pcall'[c].rolledBack = pcall[c].rolledBack
      /\ pcall'[c].st = "rolling" /\ pcall'[c].left = pcall[c].left \ {k}
  BY <1>0, <1>1 DEF RollbackDone, CrosslistTypeOK, PubCallType, NoTurn
<1>3. /\ UNCHANGED <<sold, exitVars, mode, made, pub, undo, pubHalts>>
      /\ \/ undo[k] = "done" /\ undoHalts' = undoHalts
         \/ undoHalts' = undoHalts \cup {k}
  BY <1>0 DEF RollbackDone
<1>4. \A p \in Platform : /\ rows'[p].ext = rows[p].ext
                          /\ rows'[p].state = "none" <=> rows[p].state = "none"
  BY <1>0, <1>1 DEF RollbackDone, CrosslistTypeOK, SagaTypeOK, RegistryTypeOK
<1>5. CrosslistTypeOK'
  <2>1. rows' \in [Platform -> [ext : Ext \cup {NoExt}, state : RowState]]
    BY <1>0, <1>1 DEF RollbackDone, CrosslistTypeOK, SagaTypeOK, RegistryTypeOK, RowState
  <2>2. RegistryTypeOK'
    BY <1>3, <1>4, <2>1 DEF CrosslistTypeOK, SagaTypeOK, RegistryTypeOK
  <2>3. SagaTypeOK'
    BY <1>3, <2>2 DEF CrosslistTypeOK, SagaTypeOK, exitVars
  <2> QED
    BY <1>1, <1>2, <1>3, <2>3 DEF CrosslistTypeOK, exitVars
<1> USE DEF exitVars
<1>6. \A j \in Listing : TaskOK(j)' /\ MarketOK(j)'
  BY <1>3, <1>4, ListingPair DEF TaskOK, MarketOK
<1>7. (\A p \in Platform : Written(p)') /\ \A d \in Call : ClaimOK(d)'
  BY <1>3, <1>4 DEF Written, ListingOf, ClaimOK
<1>8. ASSUME NEW d \in PubCall PROVE PubCallOK(d)'
  <2>1. PublishedBy(d)' = PublishedBy(d)
    BY <1>2, <1>3 DEF PublishedBy
  <2>2. (\A j : Undone(j) => Undone(j)') /\ Undone(k)'
    BY <1>3 DEF Undone
  <2>3. CASE d # c
    BY <1>2, <1>3, <2>1, <2>2, <2>3 DEF PubCallOK, PubSettled
  <2>4. CASE d = c
    <3>1. \A j \in PublishedBy(c)' \ pcall'[c].left : Undone(j)'
      BY <1>1, <1>2, <2>1, <2>2, <2>4 DEF PubCallOK
    <3> QED
      BY <1>1, <1>2, <1>3, <2>1, <2>4, <3>1 DEF PubCallOK, PubSettled
  <2> QED
    BY <2>3, <2>4
<1> QED
  BY <1>5, <1>6, <1>7, <1>8

(* Nothing is left to roll back: the call returns as rolled back (crosslist.ts:84-93). *)
LEMMA FinishKeeps ==
  ASSUME CrosslistInv, NEW c \in PubCall, FinishRollback(c)
  PROVE  CrosslistInv'
<1> USE DEF CrosslistInv
<1>1. /\ UNCHANGED <<sagaVars, mode, made, pub, undo, undoHalts>>
      /\ pcall[c].st = "rolling" /\ pcall[c].left = {} /\ HaltUnpublished(c)
  BY DEF FinishRollback
<1>2. /\ pcall' \in [PubCall -> PubCallType]
      /\ \A d \in PubCall : d # c => pcall'[d] = pcall[d]
      /\ pcall'[c].drafts = pcall[c].drafts /\ pcall'[c].turn = pcall[c].turn
      /\ pcall'[c].rolledBack
      /\ pcall'[c].st = "returned" /\ pcall'[c].left = pcall[c].left
  BY DEF FinishRollback, CrosslistTypeOK, PubCallType
<1>3. ASSUME NEW d \in PubCall PROVE PubCallOK(d)'
  <2>1. PublishedBy(d)' = PublishedBy(d)
    BY <1>1, <1>2 DEF PublishedBy
  <2>2. CASE d # c
    BY <1>1, <1>2, <2>1, <2>2 DEF PubCallOK, PubSettled, Undone
  <2>3. CASE d = c
    BY <1>1, <1>2, <2>1, <2>3 DEF PubCallOK, PubSettled, Undone
  <2> QED
    BY <2>2, <2>3
<1>4. pubHalts' \in SUBSET Platform /\ undoHalts' \in SUBSET Listing
  BY <1>1, HaltsArePlatforms DEF CrosslistTypeOK
<1> QED
  BY <1>1, <1>2, <1>3, <1>4, CallStepTypes

(***************************************************************************)
(* The invariant of the two sagas together holds initially and every step  *)
(* of either keeps it (saga.ts:80-144, crosslist.ts:70-152).               *)
(***************************************************************************)
THEOREM CrosslistInductive == CrosslistSpec => []CrosslistInv
<1>1. ASSUME CrosslistInv, [CrosslistNext]_vars PROVE CrosslistInv'
  <2> USE <1>1
  <2>1. CASE SagaNext /\ UNCHANGED listVars
    <3>1. SagaTypeOK'
      <4>1. JobsCanRun
        BY ListingPair DEF CrosslistInv, CrosslistTypeOK, SagaTypeOK, RegistryTypeOK, TaskOK, JobsCanRun
      <4> QED
        BY <2>1, <4>1, TypeStep DEF CrosslistInv, CrosslistTypeOK
    <3>2. CrosslistTypeOK'
      BY <2>1, <3>1 DEF CrosslistInv, CrosslistTypeOK, listVars
    <3> QED
      BY <2>1, <3>2, DelistKeepsMarket, DelistKeepsClaims DEF CrosslistInv
  <2>2. CASE \E c \in PubCall, D \in Drafts : Publish(c, D)
    BY <2>2, PublishKeeps
  <2>3. CASE \E k \in Listing : PublishStep(k) \/ UndoSettles(k)
    BY <2>3, PublishStepKeeps, UndoKeeps
  <2>4. CASE \E c \in PubCall : PubCallStep(c)
    BY <2>4, SettleKeeps, RollbackKeeps, RollbackDoneKeeps, FinishKeeps DEF PubCallStep
  <2>5. CASE UNCHANGED vars
    <3> USE <2>5 DEF vars, sagaVars, regVars, exitVars, listVars, CrosslistInv
    <3>1. CrosslistTypeOK'
      BY DEF CrosslistTypeOK, SagaTypeOK, RegistryTypeOK
    <3>2. (\A k \in Listing : MarketOK(k)') /\ \A p \in Platform : Written(p)'
      BY DEF MarketOK, Written, ListingOf
    <3>3. \A c \in PubCall : PubCallOK(c)'
      BY DEF PubCallOK, PubSettled, PublishedBy, Undone
    <3> QED
      BY <3>1, <3>2, <3>3, DelistUntouched
  <2> QED
    BY <2>1, <2>2, <2>3, <2>4, <2>5 DEF CrosslistNext
<1> QED
  BY <1>1, CrosslistInitInv, PTL DEF CrosslistSpec

(* Both sagas keep their types, whatever they do to each other's rows. *)
THEOREM CrosslistTypeCorrect == CrosslistSpec => []CrosslistTypeOK
<1>1. CrosslistInv => CrosslistTypeOK
  BY DEF CrosslistInv
<1> QED
  BY <1>1, CrosslistInductive, PTL

(***************************************************************************)
(* The oversell guard holds while listings are being published and rolled  *)
(* back as well (saga.ts:82, registry.ts:49), ...                          *)
(***************************************************************************)
THEOREM OversellGuardUnderCrosslisting == CrosslistSpec => []OneSaleShips
<1>1. CrosslistInv => OneSaleShips
  BY DEF CrosslistInv, ClaimOK, CrosslistTypeOK, SagaTypeOK, CallType, OneSaleShips, RequiresRefund
<1> QED
  BY <1>1, CrosslistInductive, PTL

(* ... and the winner's listing is not asked to end (saga.ts:98). *)
THEOREM WinnerUntouchedUnderCrosslisting == CrosslistSpec => []WinnerIsNeverEnded
<1>1. CrosslistInv => WinnerIsNeverEnded
  BY DEF CrosslistInv, TaskOK, CrosslistTypeOK, SagaTypeOK, RegistryTypeOK, WinnerIsNeverEnded
<1> QED
  BY <1>1, CrosslistInductive, PTL

(***************************************************************************)
(* After a rolled-back cross-listing each listing it had published is off  *)
(* or reported, whichever calls share its rollback and whatever is sold or *)
(* delisted meanwhile (crosslist.ts:80-93, 137-151).                       *)
(***************************************************************************)
THEOREM RollbackIsComplete == CrosslistSpec => []RolledBackIsGone
<1>1. ASSUME CrosslistInv, NEW c \in PubCall, pcall[c].rolledBack, NEW k \in PublishedBy(c)
      PROVE  k \notin live \/ k \in undoHalts
  <2>1. k \in Listing
    BY <1>1 DEF CrosslistInv, CrosslistTypeOK, PubCallType, PublishedBy
  <2>2. Undone(k)
    BY <1>1 DEF CrosslistInv, PubCallOK
  <2> QED
    BY <2>1, <2>2, <1>1 DEF CrosslistInv, MarketOK, Undone
<1>2. CrosslistInv => RolledBackIsGone
  BY <1>1 DEF RolledBackIsGone
<1> QED
  BY <1>2, CrosslistInductive, PTL

-------------------------------------------------------------------------------
(***************************************************************************)
(* No listing is lost.  The lister asks for one listing per item and       *)
(* channel (idempotencyKey `list:sku:platform`, lister.ts:54), so there is *)
(* one external id to a channel and a row is never overwritten by another  *)
(* listing's.  Without that the property fails: the registry keeps one row *)
(* per platform, and the listing whose row was overwritten is forgotten.   *)
(***************************************************************************)
OneDraftPerChannel == \A x, y \in Ext : x = y

\* A row that is not active says so truly, or a human was told.
EndOK(p) == /\ rows[p].state = "ended" => ListingOf(p) \notin live
            /\ rows[p].state = "end_failed" => ListingOf(p) \in halts

Wants(c, k) == pcall[c].st = "publishing" /\ k \in pcall[c].drafts
RollsBack(c, k) == pcall[c].st = "rolling" /\ k \in pcall[c].drafts

\* A publication under way, or one that failed, has a call that will report it.
FateOK(k) ==
  /\ pub[k].st \in {"calling", "backoff"} => \E c \in PubCall : Wants(c, k)
  /\ pub[k].st = "failed" => \/ \E c \in PubCall : Wants(c, k) \/ RollsBack(c, k)
                             \/ k[1] \in pubHalts

NoneLost == (\A p \in Platform : EndOK(p)) /\ \A k \in Listing : FateOK(k)

(* A row that was written is that of the channel's one listing. *)
LEMMA SoleListing ==
  ASSUME OneDraftPerChannel, CrosslistTypeOK, NEW k \in Listing, rows[k[1]].state # "none"
  PROVE  ListingOf(k[1]) = k
<1>1. k[1] \in Platform /\ k[2] \in Ext /\ k = <<k[1], k[2]>>
  BY ListingPair
<1>2. rows[k[1]].ext = k[2]
  BY <1>1 DEF CrosslistTypeOK, SagaTypeOK, RegistryTypeOK, OneDraftPerChannel
<1> QED
  BY <1>1, <1>2 DEF ListingOf

(* A delisting marks a row ended when the listing is off, and end_failed when
   it calls the halt (saga.ts:100, 114-142). *)
LEMMA DelistKeepsEnds ==
  ASSUME OneDraftPerChannel, CrosslistInv, NoneLost, SagaNext, NEW p \in Platform
  PROVE  EndOK(p)'
<1> USE DEF CrosslistInv, CrosslistTypeOK, SagaTypeOK, RegistryTypeOK
<1>0. /\ ListingOf(p)' = ListingOf(p) /\ live' \subseteq live /\ EndOK(p)
      /\ rows[p].state # "none" => ListingOf(p) \in Listing
  BY DelistingOnlyEnds DEF ListingOf, NoneLost, Listing
<1>1. ASSUME NEW l \in Listing, Buy(l) PROVE EndOK(p)'
  BY <1>0, <1>1 DEF Buy, regVars, EndOK
<1>2. ASSUME NEW c \in Call, NEW l \in Listing, OnSale(c, l) PROVE EndOK(p)'
  <2>1. CASE LoseSale(c, l)
    BY <1>0, <2>1 DEF LoseSale, regVars, EndOK
  <2>2. CASE WinSale(c, l)
    <3>1. l \notin live
      BY <1>2 DEF OnSale, MarketOK
    <3>2. /\ rows'[p].state = "ended" => rows[p].state = "ended" \/ ListingOf(p) = l
          /\ rows'[p].state = "end_failed" =>
               rows[p].state = "end_failed" \/ ListingOf(p) \in Stillborn(l)
      BY <2>2 DEF WinSale
    <3> QED
      BY <1>0, <2>2, <3>1, <3>2 DEF WinSale, EndOK
  <2> QED
    BY <1>2, <2>1, <2>2 DEF OnSale
<1>3. ASSUME NEW k \in Listing, JobStep(k) PROVE EndOK(p)'
  <2>1. k[1] \in Platform /\ rows[k[1]].state # "none" /\ ListingOf(k[1]) = k
        /\ k = <<k[1], k[2]>> /\ k[2] \in Ext
    BY <1>3, ListingPair, SoleListing
       DEF JobStep, EndSucceeds, GiveUp, BackOff, EndThrows, Retry, TaskOK
  <2>2. CASE EndSucceeds(k)
    <3>1. <<k[1], job[k].target>> = k
      <4>1. job[k].target = k[2]
        BY <2>1, <2>2 DEF EndSucceeds, TaskOK, OneDraftPerChannel
      <4> QED
        BY <2>1, <4>1
    <3>2. k \notin live'
      BY <2>2, <3>1 DEF EndSucceeds
    <3>3. p # k[1] => rows'[p] = rows[p] /\ halts' = halts
      BY <2>1, <2>2 DEF EndSucceeds
    <3>4. p = k[1] => rows'[p].state = "ended"
      BY <2>1, <2>2 DEF EndSucceeds
    <3> QED
      BY <1>0, <2>1, <3>2, <3>3, <3>4 DEF EndOK
  <2>3. CASE GiveUp(k)
    <3>1. p # k[1] => rows'[p] = rows[p]
      BY <2>1, <2>3 DEF GiveUp
    <3>2. p = k[1] => rows'[p].state = "end_failed"
      BY <2>1, <2>3 DEF GiveUp
    <3>3. halts' = halts \cup {k}
      BY <2>1, <2>3 DEF GiveUp
    <3> QED
      BY <1>0, <2>1, <3>1, <3>2, <3>3 DEF EndOK
  <2>4. CASE BackOff(k) \/ Retry(k)
    BY <1>0, <2>4 DEF BackOff, Retry, EndThrows, regVars, EndOK
  <2> QED
    BY <1>3, <2>2, <2>3, <2>4 DEF JobStep
<1>4. ASSUME NEW c \in Call, Return(c) PROVE EndOK(p)'
  BY <1>0, <1>4 DEF Return, regVars, EndOK
<1> QED
  BY <1>1, <1>2, <1>3, <1>4 DEF SagaNext

(* Cross-listing writes an active row, and ends one only when its listing is
   off; nothing that was taken down is put up again (crosslist.ts:120-121, 145-146). *)
LEMMA CrosslistKeepsEnds ==
  ASSUME OneDraftPerChannel, CrosslistInv, NoneLost, NEW p \in Platform,
         \/ \E c \in PubCall, D \in Drafts : Publish(c, D)
         \/ \E k \in Listing : PublishStep(k) \/ UndoSettles(k)
         \/ \E c \in PubCall : PubCallStep(c)
  PROVE  EndOK(p)'
<1> USE DEF CrosslistInv, sagaVars, exitVars, regVars
<1>0. EndOK(p)
  BY DEF NoneLost
<1>1. ASSUME UNCHANGED <<rows, halts>>, live' \subseteq live PROVE EndOK(p)'
  BY <1>0, <1>1 DEF EndOK, ListingOf
<1>2. ASSUME NEW c \in PubCall, NEW D \in Drafts, Publish(c, D) PROVE EndOK(p)'
  BY <1>1, <1>2 DEF Publish
<1>3. ASSUME NEW k \in Listing, MarketLists(k) PROVE EndOK(p)'
  <2>1. rows[p].state # "none" => ListingOf(p) \in Listing
    BY DEF CrosslistTypeOK, SagaTypeOK, RegistryTypeOK, ListingOf, Listing
  <2>2. rows[p].state # "none" => ListingOf(p) # k
    BY <1>3, <2>1 DEF MarketLists, Written, MarketOK
  <2> QED
    BY <1>0, <1>3, <2>2 DEF MarketLists, EndOK, ListingOf
<1>4. ASSUME NEW k \in Listing, PublishSucceeds(k) PROVE EndOK(p)'
  <2>1. CASE p = k[1]
    BY <1>4, <2>1 DEF PublishSucceeds, Published, EndOK, CrosslistTypeOK, SagaTypeOK, RegistryTypeOK
  <2>2. CASE p # k[1]
    <3>1. rows'[p] = rows[p]
      BY <1>4, <2>2 DEF PublishSucceeds, Published, CrosslistTypeOK, SagaTypeOK, RegistryTypeOK
    <3> QED
      BY <1>0, <1>4, <3>1 DEF PublishSucceeds, EndOK, ListingOf
  <2> QED
    BY <2>1, <2>2
<1>5. ASSUME NEW k \in Listing, PublishThrows(k) \/ RetryPublish(k) PROVE EndOK(p)'
  BY <1>1, <1>5 DEF PublishThrows, RetryPublish
<1>6. ASSUME NEW k \in Listing, UndoSettles(k) PROVE EndOK(p)'
  BY <1>1, <1>6 DEF UndoSettles
<1>7. ASSUME NEW c \in PubCall, PubCallStep(c) PROVE EndOK(p)'
  <2>1. CASE ~RollbackDone(c)
    BY <1>1, <1>7, <2>1 DEF PubCallStep, Converge, StartRollback, Rollback, FinishRollback
  <2>2. CASE RollbackDone(c)
    <3>1. PICK k \in Listing : k = pcall[c].turn /\ pub[k].st = "ok"
      BY <2>2 DEF RollbackDone, CrosslistTypeOK, PubCallType, PubCallOK, PublishedBy
    <3>2. k[1] \in Platform /\ rows[k[1]].state # "none" /\ ListingOf(k[1]) = k
      BY <3>1, ListingPair, SoleListing DEF MarketOK
    <3>3. /\ UNCHANGED <<live, halts>>
          /\ \/ undo[k] = "done" /\ rows' = [rows EXCEPT ![k[1]].state = "ended"]
             \/ UNCHANGED rows
      BY <2>2, <3>1 DEF RollbackDone
    <3>4. undo[k] = "done" => k \notin live
      BY DEF MarketOK
    <3>5. CASE UNCHANGED rows
      BY <1>1, <3>3, <3>5
    <3>6. CASE undo[k] = "done" /\ rows' = [rows EXCEPT ![k[1]].state = "ended"]
      <4>1. CASE p = k[1]
        <5>1. rows'[p].state = "ended" /\ rows'[p].ext = rows[p].ext
          BY <3>2, <3>6, <4>1 DEF CrosslistTypeOK, SagaTypeOK, RegistryTypeOK
        <5>2. ListingOf(p)' = k
          BY <3>2, <4>1, <5>1 DEF ListingOf
        <5> QED
          BY <3>3, <3>4, <3>6, <5>1, <5>2 DEF EndOK
      <4>2. CASE p # k[1]
        BY <1>0, <3>2, <3>3, <3>6, <4>2
           DEF EndOK, ListingOf, CrosslistTypeOK, SagaTypeOK, RegistryTypeOK
      <4> QED
        BY <4>1, <4>2
    <3> QED
      BY <3>3, <3>5, <3>6
  <2> QED
    BY <2>1, <2>2
<1> QED
  BY <1>2, <1>3, <1>4, <1>5, <1>6, <1>7 DEF PublishStep

(* A call that stops waiting for a draft has seen it settle, and halts its
   platform when it failed (crosslist.ts:71-98). *)
LEMMA FatesAreKept ==
  ASSUME CrosslistInv, NoneLost, NEW k \in Listing,
         \/ \E c \in PubCall, D \in Drafts : Publish(c, D)
         \/ \E j \in Listing : PublishStep(j) \/ UndoSettles(j)
         \/ \E c \in PubCall : PubCallStep(c)
  PROVE  FateOK(k)'
<1> USE DEF CrosslistInv
<1>0. FateOK(k) /\ k[1] \in Platform
  BY ListingPair DEF NoneLost
<1>1. ASSUME NEW c \in PubCall, NEW D \in Drafts, Publish(c, D) PROVE FateOK(k)'
  <2>1. /\ pcall'[c].st = "publishing" /\ pcall'[c].drafts = D /\ pcall[c].st = "idle"
        /\ \A d \in PubCall : d # c => pcall'[d] = pcall[d]
        /\ pubHalts' = pubHalts
    BY <1>1 DEF Publish, CrosslistTypeOK, IdlePub
  <2>2. \A d \in PubCall : /\ Wants(d, k) => Wants(d, k)'
                           /\ RollsBack(d, k) => RollsBack(d, k)'
    BY <2>1 DEF Wants, RollsBack
  <2>3. k \in D => Wants(c, k)'
    BY <2>1 DEF Wants
  <2>4. k \notin D => pub'[k] = pub[k]
    BY <1>1 DEF Publish
  <2> QED
    BY <1>0, <2>1, <2>2, <2>3, <2>4 DEF FateOK
<1>2. ASSUME NEW j \in Listing, PublishStep(j) \/ UndoSettles(j) PROVE FateOK(k)'
  <2>1. UNCHANGED <<pcall, pubHalts>>
    BY <1>2 DEF PublishStep, MarketLists, PublishSucceeds, PublishThrows, RetryPublish, UndoSettles
  <2>2. \/ pub'[k] = pub[k]
        \/ pub[k].st \in {"calling", "backoff"}
    BY <1>2 DEF PublishStep, MarketLists, PublishSucceeds, PublishThrows, RetryPublish,
                UndoSettles, CrosslistTypeOK
  <2>3. \A c \in PubCall : /\ Wants(c, k)' <=> Wants(c, k)
                           /\ RollsBack(c, k)' <=> RollsBack(c, k)
    BY <2>1 DEF Wants, RollsBack
  <2> QED
    BY <1>0, <2>1, <2>2, <2>3 DEF FateOK
<1>3. ASSUME NEW c \in PubCall, PubCallStep(c) PROVE FateOK(k)'
  <2>1. /\ pub' = pub
        /\ \A d \in PubCall : d # c => pcall'[d] = pcall[d]
        /\ pcall'[c].drafts = pcall[c].drafts
        /\ pubHalts' = pubHalts \/ HaltUnpublished(c)
        /\ \/ pcall'[c].st = pcall[c].st
           \/ AllAttempted(c) /\ pcall'[c].st = "rolling"
           \/ AllAttempted(c) /\ HaltUnpublished(c)
           \/ pcall[c].st = "rolling" /\ HaltUnpublished(c)
    <3>1. CASE Converge(c) \/ StartRollback(c)
      BY <3>1 DEF Converge, StartRollback, CrosslistTypeOK, PubCallType
    <3>2. CASE \E j \in Listing : Rollback(c, j)
      BY <3>2 DEF Rollback, CrosslistTypeOK, PubCallType
    <3>3. CASE RollbackDone(c)
      BY <3>3 DEF RollbackDone, CrosslistTypeOK, PubCallType
    <3>4. CASE FinishRollback(c)
      BY <3>4 DEF FinishRollback, CrosslistTypeOK, PubCallType
    <3> QED
      BY <1>3, <3>1, <3>2, <3>3, <3>4 DEF PubCallStep
  <2>2. \A d \in PubCall : d # c => /\ Wants(d, k)' <=> Wants(d, k)
                                    /\ RollsBack(d, k)' <=> RollsBack(d, k)
    BY <2>1 DEF Wants, RollsBack
  <2>3. pubHalts \subseteq pubHalts'
    BY <2>1 DEF HaltUnpublished
  <2>4. HaltUnpublished(c) /\ k \in pcall[c].drafts /\ pub[k].st = "failed" => k[1] \in pubHalts'
    BY DEF HaltUnpublished, UnpublishedBy
  <2>5. AllAttempted(c) /\ k \in pcall[c].drafts => pub[k].st \in {"ok", "failed"}
    BY DEF AllAttempted, PubSettled
  <2>6. CASE ~Wants(c, k) /\ ~RollsBack(c, k)
    BY <1>0, <2>1, <2>2, <2>3, <2>6 DEF FateOK
  <2>7. CASE Wants(c, k)
    <3>1. CASE pcall'[c].st = pcall[c].st
      BY <2>1, <2>7, <3>1, <1>0 DEF FateOK, Wants
    <3>2. CASE AllAttempted(c) /\ pcall'[c].st = "rolling"
      BY <2>1, <2>5, <2>7, <3>2 DEF FateOK, Wants, RollsBack
    <3>3. CASE AllAttempted(c) /\ HaltUnpublished(c)
      BY <2>1, <2>4, <2>5, <2>7, <3>3 DEF FateOK, Wants
    <3> QED
      BY <2>1, <2>7, <3>1, <3>2, <3>3 DEF Wants
  <2>8. CASE RollsBack(c, k)
    <3>1. pub[k].st \in {"ok", "failed"}
      BY <2>8 DEF RollsBack, PubCallOK, PubSettled
    <3>2. CASE pcall'[c].st = pcall[c].st
      BY <2>1, <2>8, <3>1, <3>2 DEF FateOK, RollsBack
    <3>3. CASE HaltUnpublished(c)
      BY <2>1, <2>4, <2>8, <3>1, <3>3 DEF FateOK, RollsBack
    <3> QED
      BY <2>1, <2>8, <3>2, <3>3 DEF RollsBack, AllAttempted
  <2> QED
    BY <2>6, <2>7, <2>8
<1> QED
  BY <1>1, <1>2, <1>3

(***************************************************************************)
(* No listing is lost: when neither saga is at work, what is up has its    *)
(* active row or was reported, through lost answers, retries, rollbacks    *)
(* and sales that race them (crosslist.ts:70-152, saga.ts:80-144).         *)
(***************************************************************************)
THEOREM NothingIsLost ==
  ASSUME OneDraftPerChannel
  PROVE  CrosslistSpec => []LiveIsAccountedFor
<1>1. CrosslistInit => NoneLost
  BY DEF CrosslistInit, NoneLost, EndOK, FateOK, NoRow, NoPub
<1>2. ASSUME CrosslistInv, NoneLost, [CrosslistNext]_vars PROVE NoneLost'
  <2> USE <1>2
  <2>1. CASE SagaNext /\ UNCHANGED listVars
    <3>1. \A k \in Listing : FateOK(k)'
      BY <2>1 DEF NoneLost, FateOK, Wants, RollsBack, listVars
    <3> QED
      BY <2>1, <3>1, DelistKeepsEnds DEF NoneLost
  <2>2. CASE \/ \E c \in PubCall, D \in Drafts : Publish(c, D)
             \/ \E k \in Listing : PublishStep(k) \/ UndoSettles(k)
             \/ \E c \in PubCall : PubCallStep(c)
    BY <2>2, CrosslistKeepsEnds, FatesAreKept DEF NoneLost
  <2>3. CASE UNCHANGED vars
    BY <2>3 DEF vars, sagaVars, regVars, exitVars, listVars, NoneLost, EndOK, FateOK,
                Wants, RollsBack, ListingOf
  <2> QED
    BY <2>1, <2>2, <2>3 DEF CrosslistNext
<1>3. ASSUME CrosslistInv, NoneLost, Quiet, NEW k \in live
      PROVE  k \in ActiveListings \/ Reported(k)
  <2> USE <1>3 DEF CrosslistInv
  <2>1. k \in Listing /\ k \in made /\ k[1] \in Platform
    BY ListingPair DEF CrosslistTypeOK, SagaTypeOK, MarketOK
  <2>2. pub[k].st \in {"ok", "failed"} /\ (pub[k].st = "failed" => k[1] \in pubHalts)
    BY <2>1 DEF MarketOK, NoneLost, FateOK, Wants, RollsBack, Quiet, CrosslistTypeOK
  <2>3. CASE pub[k].st = "failed"
    BY <2>2, <2>3 DEF Reported
  <2>4. CASE pub[k].st = "ok"
    <3>1. rows[k[1]].state # "none" /\ ListingOf(k[1]) = k
      BY <2>1, <2>4, SoleListing DEF MarketOK
    <3>2. rows[k[1]].state \in {"active", "ended", "end_failed"}
      BY <2>1, <3>1 DEF CrosslistTypeOK, SagaTypeOK, RegistryTypeOK, RowState
    <3>3. EndOK(k[1])
      BY <2>1 DEF NoneLost
    <3> QED
      BY <2>1, <3>1, <3>2, <3>3 DEF EndOK, Reported, ActiveListings
  <2> QED
    BY <2>2, <2>3, <2>4
<1>4. CrosslistInv /\ NoneLost => LiveIsAccountedFor
  BY <1>3 DEF LiveIsAccountedFor
<1>5. CrosslistInv /\ NoneLost /\ [CrosslistNext]_vars => NoneLost'
  BY <1>2
<1> QED
  BY <1>1, <1>4, <1>5, CrosslistInductive, PTL DEF CrosslistSpec
===============================================================================
