# A TLA+ model of the resale desk

This directory holds TLA+ models of the TypeScript packages under `packages/`, the TLC
configurations that check them and the TLAPS proofs about them. Every definition is
translated from the source; `PROJECT.json` names the lines each one stands for, the runs,
the mutated definitions that show a property can fail, the hazards and the theorems.

## 1. The system and its parts

The program buys underpriced goods and sells them again. Listings are polled from sources,
identified, priced, underwritten and ranked; a purchase passes the policy layer, the item is
received, listed on several channels, sold on one, taken off the others, shipped and booked.
It is one Node.js process: what runs "at once" are asynchronous calls that interleave at
their awaits, so a synchronous stretch of code is one atomic step in the models and each
`await` ends one. What outlives the process is the database file of the web desk and what
the marketplaces have; both are modelled across restarts and lost answers.

| Part (packages/) | State | Operations | Talks to | What is hard | What makes it correct |
|---|---|---|---|---|---|
| `exit` outbox | `#done`, `#inflight` | `once` | both sagas | calls during the effect, rejection | effect at most once, one answer for all |
| `exit` registry, delist saga | rows, `#sold` | `claimSale`, `publish`, `onSale`, `#endOne` | publishers, outbox, `onHalt` | two sales at once, retries, partial failure | one sale ships, every other channel off or reported |
| `crosslist` | an outbox of its own, the shared registry | `publish` in two modes, rollback | publishers, `onHalt` | lost answers, failing compensation, a sale in between | what is live is known or reported |
| `adapters/ebay-sell` | none; the offers eBay has | `publish`, `end` | the Sell API | three calls that each may lose their answer | what buyers see is what the desk knows |
| `policy` kill switch, worker | tripped scopes, registered controllers | `trip`, `reset`, `register`, `run` | sources, handlers | a trip at any await | no new work after a halt, halted runs end |
| `policy` sentinel | kill switch, health, policy, spend | `check` | acquirer | order of the checks, policy edits | locked rules win, tightening tightens |
| `acquire`, `rank/sizing` | bankroll, staged deals | `prepare`, `commit` | sentinel, ledger | stale authorization, cents rounding | money moves only within caps |
| `negotiate`, `graduate`, `autobuy` | the price agreed, the level and record of a class, the spend of the day | `simulateNegotiation`, `record`, `tryPromote`, `demote`, `autoBuyPermitted` | acquirer | demotion against promotion, checks on what is not committed | what runs unattended was earned, counters are affordable |
| `throughput` channel | buffer, waiting pushes and pulls | `push`, `tryPush`, `pull`, `close` | pipeline stages | microtasks between wake-up and continuation | items conserved, nobody waits without need |
| `net` breaker, retry, token bucket | window, state, probe flag, tokens | `exec`, `withRetry`, `take`, `throttle` | HTTP | overlapping probes, late results, clocks set back | one probe, never stuck, the rate kept |
| `adapters/ebay` | the cached token | `poll`, `token` | the OAuth server | overlapping refreshes, late answers | a poll is authorized |
| `money`, `bookkeeper` | ledger entries, cost basis, tax by state | `injectCapital`, `recordPurchase/Sale/Return`, `scheduleC` | acquirer, operations, simulation | throw after accrual, repeated returns | the report is what happened, exact COGS |
| `intake`, `pricer`, `ops` | bins and numbers, the price of a listing, shipments | `receive`, `reprice`, `fulfill`, `handleReturn` | bookkeeper, carriers | the awaits of the blacklist and of the label | screened goods, prices over the floor, books that follow the cash |
| `pipeline`, `engine`, `llm` budget | listing store, price events, the spend of the day | `ingest`, `run`, `underwriteRaw`, `complete` | sources, stages, the model provider | overlapping calls, a stage that throws, check before await | a listing taken up once, bounded spend |
| `appraise`, `stats`, `underwrite`, `rank` | none | `appraise`, `underwrite`, `score` | engine | windows, rounding, two computations of one figure | the waterfall is exact |
| `sim` | positions, capital, the day | `runSim`, `computeTearsheet` | engine stages, bookkeeper | splicing while walking, accounts kept twice | the equity is explained |
| `learn` | champion, challenger, archive | `refitMultipliers`, `tryPromote` | realized sales | several proposals and promotions, each call on data and a margin of its own | no champion leaves what was realized, and in one window it is better than all before it |
| `store`, `runtime`, `api`, the web desk | the rows of five tables, the file, the promise of `getDesk` | put, list, patch, approve, reject, migrate, seed | the browser | read-await-write, restarts, two implementations | both stores say the same, nothing runs twice |
| `core`, `identify`, `providers`, `lister`, other adapters, ... | none, or I/O | pure functions and parsers | | | not state machines |

`PROJECT.json` lists each part with its source files and its status.

## 2. The modules

Each run has an `MC` module that extends the modules it checks; a `_proofs` module extends
or instantiates the modules of one part of the system that it proves about, and `Sums` holds the
lemmas on folds and sequences the proofs share. Components that share state are composed by extension, so that
the state they share is one variable.

    OnceCell   <--refines--  Outbox
    SaleGuard  <--refines--  DelistSaga (EXTENDS ListingRegistry)  <--  CrosslistSaga
    KillSwitch <-- Worker
    Sentinel   <-- Acquirer <-- Purchasing
    CircuitBreaker <-- Transport <-- EbaySell
    Bookkeeper <-- Goods
    ListingStore <-- Engine
    MemoryStore <-- SqliteStore <-- Desk
    Valuation <-- Underwriter, Tearsheet <-- Simulation (INSTANCE Bookkeeper) <-- Learning
    BoundedChannel

**OnceCell, Outbox** (`exit/src/outbox.ts`). `OnceCell` is the promise: a key's effect is
performed once and whoever asks is told how it ended. `Outbox` has the two maps. A call
replays the cached result (`Replay`), shares the promise in flight (`Share`) or runs `fn`
(`Start`); `fn` then returns or throws. When it throws, the code reaches neither `#done.set`
nor `#inflight.delete`, so the rejected promise answers every later call: `FnThrows` keeps
that. The refinement maps a key to the outcome its cache or its promise holds.

**ListingRegistry, SaleGuard, DelistSaga** (`exit/src/registry.ts`, `saga.ts`), for one SKU,
the first key of every map. A listing is a platform and an external id. `onSale` is `WinSale` or
`LoseSale` (claim, then the ends of the active rows of the other channels, up to the first
await), `Return` when `Promise.all` has its results. `#endOne` is a *job* per outbox key:
calling, backing off, done or given up, with what the marketplace did in a failed call left
open. A duplicate of a sale event is a call with the same listing. `SaleGuard` is the
abstract oversell guard: one winner, others lost, channels closed or reported.

**CrosslistSaga** (`crosslist/src/crosslist.ts`) adds `publish` to the same state. The two
sagas have separate outboxes, as both constructors default to `new Outbox()`. The marketplace
creates a listing (`MarketLists`) apart from answering (`PublishSucceeds`) or failing to
(`PublishThrows`), which is how a lost answer looks. The publisher contract in
`core/src/interfaces.ts` deduplicates on the draft's `idempotencyKey`, so one draft has one
external id and an element of `Ext` stands for both. That is the contract: `EbaySell` shows
that one publisher keeps it only while no answer is lost. Rollback ends one listing after another.

**KillSwitch, Worker** (`policy/src/killswitch.ts`, `worker.ts`). Runs register a controller,
loop over a source and deregister in `finally`. Every await is a place: waiting for the
source, handling, closing the source. A source may yield for ever: the count of the items a
run has processed decides nothing and is left out, so a run without end is a cycle of places.

**Sentinel, Acquirer, Purchasing** (`policy/src/sentinel.ts`, `acquire/src/acquire.ts`,
`rank/src/sizing.ts`; `negotiate`, `graduate`, `autobuy`). `Verdict` is `check` in the order of
its early returns. What it reads is moved by its owners (`Trip`, `Suspend`, `EditPolicy`,
`Spend`, `NewDay`). A deal is prepared, waits and is committed; `commit` looks at nothing
again, so the history variable `stale` marks the deals that something has overtaken. Nothing
in the repository assigns `spentTodayCents` after construction; the model leaves it to its
owner. `Purchasing` puts the negotiation in front of it, lets the level of the class decide
whether a deal may run by itself within the envelope, and moves that level by the outcomes
recorded; `faults` is the history of what went wrong at the present level.

**BoundedChannel** (`throughput/src/channel.ts`). The resolved promise of a woken producer
continues in a microtask: `microtasks` is that queue, and other calls run before it.

**CircuitBreaker, Transport, EbaySell** (`net/src/resilience.ts`, `adapters/ebay/src`,
`adapters/ebay-sell/src/sell.ts`, and `onSale`'s and `publish`'s retry loops). Calls overlap, each
of which may be the probe; the sliding window; the injected clock as an age up to the cooldown.
`Transport` puts `withRetry` around `exec`, has the polls that share a token whose answer comes
late, and the token bucket, which counts parts of a token. `window` is a history variable of the
bucket: what was taken and what was due since some moment. `EbaySell` is one draft from
`publish`, three calls of the Sell API, to `end`. Calls, polls, bucket and draft share no state, so each
is a load of its own.

**Bookkeeper** (`bookkeeper/src/bookkeeper.ts`, `money/src/ledger.ts`, `postings.ts`). The
ledger is kept as its account balances, a transaction as what it adds to each. History
variables count the units of a SKU and mark the SKUs that moved out of turn (sold twice,
bought while on hand), which the code does not refuse.

**Goods** (`intake`, `pricer`, `ops`) is what the books are about: a parcel is received,
screened, shelved, listed, repriced day by day, sold, fulfilled, booked and taken back. Intake
screens an IMEI when it was given a blacklist (`load.screens`), and takes the bin it is told (`hint`)
or the next of its sequence, which hints do not advance (`TakeBin`). A bin is its number: that of
the sequence, or any other for a name the sequence never makes. `till`
is the money that really moved; `odd` marks the units whose label or sale went astray in the
ways the code allows.

**ListingStore, Engine** (`pipeline/src/store.ts`, `pipeline.ts`, `engine/src/engine.ts`,
`alert.ts`, `identify/src/identify.ts`, `llm/src/budget.ts`). Runs, share-sheet calls and
the items of `runAdapter` overlap over one store and one budget. A call is polling its source,
extracting, adjudicating, routing comps or alerting: each place is an await, and everything
between two of them is one step, from ingest through the filters F0 and F1 to the budget check
of `complete`. The stages whose result is a formula end in any of the cases the loop tells
apart. An item of `runAdapter` is a step without a place of its own, as its loop awaits only
its source. History variables: what providers charged, which call stored a listing first, how
often it was alerted.

**MemoryStore, SqliteStore, Desk** (`store`, `runtime`, `api/src/demo.ts`, `desk.ts`, and
`apps/web/app/lib/desk.ts`, `actions.ts`). Rows keep the fields the queries read. The durable
store turns optional fields into NULLs and flags into 0 and 1 and back. `Desk` opens the file,
runs the migrations each in its transaction, seeds the demo call by call and serves; it may
stop at any step and start again. `mem` is given the same calls in a process that never stops.

**Valuation, Underwriter, Tearsheet** (`appraise`, `stats`, `underwrite`, `rank/src/score.ts`,
`sim/src/metrics.ts`, `api/src/analytics.ts`). Operators: `Appraise` from the comps to quantiles,
confidence and days to sale, the waterfall with its fee rows, `Score`, and the tearsheet with
the page the desk makes of it.

**Simulation, Learning** (`sim/src/simulate.ts`, `harness.ts`; `learn`). The loop over the
days: contributions, settlement from the back of the array, underwriting of the day's listings
by the operators above, purchases in score order with capital topped up, the mark to market.
The books are an instance of `Bookkeeper`. When the days are over the learner refits the
multipliers on any window of the flips, with any strength of the prior, and tries a challenger on
any other with any margin: `refitMultipliers` and `tryPromote` take these anew on each call, and
the registry keeps the models alone. `judged` is the history of what each promotion was decided on.

## 3. The runs

| Run | Instance | What it shows |
|---|---|---|
| `Outbox` | 3 callers, 2 keys, 2 results | all are answered once the effect settles; refinement of `OnceCell` |
| `DelistSaga` | 3 channels (one without a publisher), 3 sale events, 2 attempts | handled means off or reported, failures reported, every event answered; refinement of `SaleGuard` |
| `CrosslistSaga` | 2 channels, 2 publish calls, 1 sale event, both modes | nothing live is unknown and unreported, rollbacks that report success are true, every call returns |
| `Worker` | 2 runs that share scopes, 3 switches, sources that may yield without end | no item is begun after a halt, runs that were halted, be it for a moment, end |
| `BoundedChannel` | 4 pushes, 3 pulls, capacity 2 | conservation, the overshoot is of woken producers, they are admitted after close |
| `Transport` | 4 calls with up to 3 attempts, window 3, minimum 2, 34 %; 2 polls; a bucket of 2; a draft with 3 attempts of each loop | the breaker is never stuck, calls return, polls are authorized, the rate is kept, offers are accounted for |
| `Purchasing` | 6 deals in 3 loads, 3 policies, 2 switches, bankroll 20, up to 4 edits or 3 outcomes | purchases not overtaken respect every guard, policy edits override no locked rule, unattended purchases are earned, counters are affordable |
| `Goods` | 5 parcels in loads of up to 2, one of them with a hinted bin the sequence would come to, one load without a blacklist, 5 days on the shelf, 2 labels awaited at once; or 6 entries by hand | Schedule C equals the wealth gained, stock at its basis, tax tallied is tax owed, the books match the till, units are sound, margins are protected |
| `Engine` | 2 runs (of 2 items and 1), 1 share-sheet call, 1 fed item, 2 listings, a cap of 10 and LLM calls of 9 | price histories are true, a new listing is taken up by one run and alerted at most once, the spend of a day is bounded by the overlap |
| `Desk` | 2 migrations, 3 seeded deals, 3 calls, 2 restarts | both stores answer alike, only raced patches are lost, a migration runs once |
| `Simulation` | every market of 3 days with up to 2 of 8 kinds of listing on the first and 1 on the second, 4 fee profiles, 3 challengers on any windows, margins of 0 and 1 % | the equity is explained, nothing is overdue, the tearsheet and its page agree with the ledger, the waterfall is exact, what champions may drift to is bounded |

One run is expected to find a violation:

| Run | The repository says | What happens |
|---|---|---|
| `DecisionsPersist` | "Set `FLIP_DB_PATH` and the desk persists across restarts" (README.md:186) | each process seeds the demo over the rows it finds, and a deal that was approved is new again (api/src/demo.ts:142) |

**Refuted, and stated only.** Six more statements stand in the modules. TLC refutes each of
them under the configuration named, with the statement added to its invariants:

| Statement | Where | The repository says | What happens |
|---|---|---|---|
| `ConsistentMeansUnlisted` | `MCCrosslistSaga` | `consistent: true, // nothing is listed anywhere` (crosslist.ts:92) | an `end()` of the rollback threw and its listing is still up |
| `SoldItemIsUnlisted` | `MCCrosslistSaga` | "end every OTHER channel's listing" (saga.ts:57) | a publication answered after the rows were read stays live |
| `PullsAreAnswered` | `MCBoundedChannel` | pull "resolves immediately if buffered, else awaits the next push" (channel.ts:52) | a pull between wake-up and continuation waits beside a buffered item |
| `PublishIsOnce` | `MCTransport` | "publish retries are exactly-once-effective" (core/src/interfaces.ts:51) | the retry after a lost answer creates and publishes a second offer |
| `NeverAboveWalkAway` | `MCPurchasing` | "never paying above the underwrite walk-away" (strategy.ts:6-7) | the opening offer, anchored on the asking price, is above it and accepted |
| `ReplacedModelsStayOut` | `MCSimulation` | the registry is "the safety rail that stops a noisy refit from silently degrading valuations" (registry.ts:8-9) | a window that moves brings a replaced model back: two refits beat each other by turns |

The comment of `reprice` says "never a price increase" (pricer.ts:84), and the next lines raise a
price that is below the floor to it; `MarginIsProtected` says what the code does, that the
price is raised in that case and in no other.

**Why the bounds are enough.** Two calls make a race and a third meets its settled result.
Two attempts give a first failure, a retry and a last failure; the draft of `EbaySell` gets three, as
each may leave an offer behind in another state. Three channels are a winner,
one that can be ended and one that cannot. Cross-listing is dearer, so it has one sale event
and two channels: a winner and one other. One external id per channel suffices as a
new id means a new draft, whose job and publication are independent. Capacity 2 with four
pushes and three pulls fills the buffer, leaves two producers waiting and lets a pull arrive
between their wake-ups. A window of three with a minimum of two slides. A bucket of two tokens
of four parts, of which a tick refills two, has fractions and overflows. Six entries are
two purchases, sales and returns of one unit and a capital injection. Five days on the shelf
pass every rung of the ladder for goods expected to sell in two. One LLM call of 9 under a
cap of 10 puts the funnel under pressure and leaves room for a second, so all three calls can
pass the check together and `SpendIsBounded` is met with equality. Two restarts let a process
stop in each phase and the next one finish. Three days let a position be bought, held over a
day, sold and its money used again, and three listings give up to three flips: six windows to refit
on and to be judged by, of which three challengers may take the same or others in turn. Bounds
that exist only for TLC are constants: `MaxPosts`, `MaxSpend`, `MaxSeen`, `MaxFed`, `MaxCalls`,
`MaxRestarts`, `MaxAge`, `MaxLatency`, `MaxPolling`, `MaxClock`, `MaxDue`, `MaxSku`, `MaxTrainings` and the
counts of a `Workload`; `MaxAttempts`, `Capacity`, `WindowSize`, `MaxCapital`, `MaxDeal` and the percentages are
parameters of the code. Deadlock is left unchecked where the finitely many calls of an
instance are over in the end; `Worker`, where switches can always be moved, is checked for it.

**Fairness.** Weak fairness of what the event loop must do: continuations run, timers fire,
and the promises of publishers, handlers and sources settle. A call, a sale, a trip or a
purchase is never obliged to come. `HaltedRunsEnd` needs sources that answer, by an item, the end or
an error: the worker does not listen to its signal while it waits for one, so on a source that stays
idle the run goes on. They need never end: a run whose loop does not look at the signal goes on
for ever under the same fairness, and one that asks the switch instead misses a halt that was
reset while it waited.
`TransportFairness` obliges the breaker's clock to advance and a call that has begun to be
answered, to back off or rethrow and to wake, each as a step on `callVars`; nothing obliges a
call to start, a poll, a bucket or a draft to move.

## 4. The proofs

Proved for every value of the constants, under the named `ASSUME` of each module only:

| Module | Results | Inductive invariant |
|---|---|---|
| `Exit_proofs`, of `Outbox` | `RunsOnce`, `SameAnswer`, refinement of `OnceCell` | `KeyOK`: a key is untouched with no run behind it, or has one run and an entry in exactly one of the two maps; `AnswerOK`: an answer given is the settled outcome of its key |
| the same, of `DelistSaga` | `OneSaleShips`, `HandledMeansOff`, `FailuresAreReported`, `WinnerIsNeverEnded`, refinement of `SaleGuard` | `LiveOK`: a live listing is its row's, which is active or `end_failed`, and a listing that was bought is not live; `JobOK`: a job exists only after a claim, never for the winner, and its stage agrees with the row; `RowOK`: `end_failed` means halted; `CallOK`: a call that won waits for every row still active, and each end it waits for was started |
| the same, of `CrosslistSaga` | `OneSaleShips`, `WinnerIsNeverEnded`, `RolledBackIsGone`, `LiveIsAccountedFor` | `CrosslistInv`: `ClaimOK` and `TaskOK` are what is left of the above when listings come and go; `MarketOK`: a marketplace makes a listing once, so one that was taken down stays down; `Written`: rows come of publications that succeeded; `PubCallOK`: a call that rolls back has dealt with each listing it published but those it has left. `NoneLost`: a row that is not active says so truly or a human was told, and a publication under way or failed has a call that will report it |
| `Runtime_proofs`, of `Worker` | `HaltedImpliesAborted`, `OnlyRunsAreRegistered`, `ResultIsTrue`, `HaltedRunsStartNothing` | the three invariants and `SignalsAreHistory`: a registered run's signal has fired iff its scope was halted during the run, and only settled runs have a result of one |
| the same, of `Desk` | `OnlyRacedPatchesAreLost`, `MigratedOnce`, `SameReads` | `DeskInv`: `Agree`, that file and memory hold the same rows in all but the two fields that are patched apart, and in those too unless the row was raced; `Migrated`: a migration ran once if it is recorded and never if not; `PatchesOK` and `PendingOK`: a patch that nothing raced is the only one of its row, and memory holds the row as the patch will leave it. `Dated`, for the order of the stock list |
| `Transport_proofs`, of `BoundedChannel` | `NoNeedlessWait`, `ItemsAreConserved`, `OvershootIsWoken` | `RoomIsTaken`: while producers wait, the buffer and the woken producers fill the capacity; `Conserved`: with the count of the copies, a pull in line is unanswered and in line once; `Bounded`: whoever is in line or woken has waited, and the buffer holds no more than the capacity of those who have not |
| the same, of `CircuitBreaker` and under `withRetry` | `OneProbe`, `ClosedIsHealthy`, `OnlyProbesClose` | the two invariants and the types carry themselves; `RetryOK`: a call that sleeps has settled, so no retry takes a probe away |
| the same, of `Transport` and `EbaySell` | `PollsAreAuthorized`, `RateIsKept`, `OffersAreAccountedFor` | `TokenOK`: the cache does not outlive the server's token, and what a poll has used and what is left of its token are together more than is kept in hand; `BucketOK`: what was taken and what could be taken now are together within what was due; `OffersOK`: before the desk knows of an offer all live ones went unanswered, and after that all but that one |
| `Purchasing_proofs`, of `Sentinel` and `Acquirer` | `NoPolicyEditOverrides`, `OnlyLooseningLoosens`, `FreshPurchasesAreSound` | none for the Sentinel: the verdict is a function, and the lemmas say which of its arguments each early return reads; `Fresh`: a staged deal that nothing has overtaken passes today every check it was prepared with |
| the same, of `Purchasing` | those without `OnlyLooseningLoosens`, and `AutoBuysAreEarned`, `CountersAreAffordable`; its steps implement the Sentinel's | `Fresh`; `Earned`: a fresh deal nobody approved is within the envelope, and a class at L3 has not failed there; `Priced`: an agreed price is above the reserve, and within the walk-away or the opening offer |
| `Goods_proofs`, of `Bookkeeper` | `ProfitIsWealth`, `StockIsAtBasis` | `Foots`: the balances sum to zero; `InTurn`: a unit that moves in turn is on hand once or not, with a basis; `SalesTaxIsOwed` carries itself |
| the same, of `Goods` | those, and `SalesTaxIsOwed`, `MarginIsProtected`, `BooksMatchTheTill`, `UnitsAreSound` | `UnitsInv`: a received unit has a SKU of its own up to the counter, and one that was put where no hint said a bin of its own among those (`Numbered`), passed the bench if it is for sale (`Accepted`), and costs its value or more than its floor (`Priced`); `BasisKept`: no unit is carried at more than was paid for it; `Settled`: while nothing went astray, the till and the cash account differ by the units that are being screened and the sales not yet booked |
| `Engine_proofs` | `ListingsAreTakenUpOnce`, `TakenIsAlerted`, `PriceHistoryIsTrue`, `SpendIsBounded` | `PlaceOK`: where a call is says whether it holds a listing; `UnknownIsUntouched`: a listing not stored has no creator and no alert; `AlertedOnce`: what a run is at work on was not alerted yet; `SpendOK`: what was paid and what the calls that wait for the LLM may still cost is below the cap and one call each |
| `Simulation_proofs` | `NothingIsOverdue`, `EquityIsExplained`, `WaterfallIsExact`, `TearsheetAgrees`; `DriftIsBounded` of `Learning`, whose steps leave the simulation alone (`LearningOnlyReads`) | `Clock`: where the loop is, and what it has to do; `Due`: a position is listed until its day, and in the settling loop the ones behind the cursor are not due yet; `Ledger`: capital and cash, stock, fees, revenue, cost are what the positions and flips say; `Accounted`: the day's equity is the capital and the gains less the losses; `Wanted`: what was taken was appraised at a positive whole price; `Reported`: the last point of the curve is what the books hold; `Within`: a model's multipliers are between two of what was realized (`ShrinkIsBetween`); `RankedIn`: over promotions in one window each model beats those before it there, by every margin on the way (`MarginsAdd`) |

Each also proves its type invariant. What is proved for every instance and needs no run to
say it again is stated in its module and proved only: `RunsOnce`, `SameAnswer`,
`OneSaleShips`, `WinnerIsNeverEnded`, `HaltedImpliesAborted`, `OnlyRunsAreRegistered`,
`ResultIsTrue`, `NoNeedlessWait`, `OneProbe`, `ClosedIsHealthy`, `OnlyProbesClose`,
`OnlyLooseningLoosens` and `TakenIsAlerted`. TLC checked each of them before it was proved.

**From which assumptions.** The constants are of their kinds, and the values that stand for
"none" are no members of what they stand outside of. Beyond that the assumptions say that what
is counted is finite: the calls and the prices of the LLM (`SpendAssumption`), the parcels of a
load (`GoodsAssumption`), the states a tax is tallied by (`BookkeeperAssumption`). `SimulationAssumption` says of a
listing what the generator sees to: it is held a day or longer (rng.ts:49–53) and its prices are
natural numbers (market.ts:59,66), and so are those of its comps, which were sold on a day and are of bands the appraiser
knows (appraise.ts:5). The half-life of a comp is a day or longer. Of a profile and its fee row it says, in `Resells`, that no cost is negative,
the rates leave something of the price, and nobody charges a fixed payment fee without a rate
(fees.ts:26–44, profile.ts). `LearningAssumption` says that
pseudo-counts and margins are natural numbers (multipliers.ts:25, registry.ts:48). Three
theorems have a hypothesis of their own, which is false of some instances and true of the program:

- `OneDraftPerChannel`, of `LiveIsAccountedFor`: the lister asks for one listing per item and
  channel (`list:sku:platform`, lister.ts:54). With two, the second row of a platform overwrites
  the first, whose listing is forgotten.
- `ReceivedOnce`, of `SameReads`: a unit has one time of receipt, as `receivedAt` is readonly
  (records.ts:50). With two, a raced patch could put back the earlier one, and the stock list
  is sorted by it.
- `CheaperByHand`, of `MarginIsProtected`: what is entered in the books by hand under the number
  of a unit of the flow costs no more than the unit. The code prices by what was paid and books by
  what the ledger carries, and nothing but this keeps the second below the first.

**Why the strengthenings are needed.** `OneSaleShips` does not say that a job excludes the
winner, so a step of a job could not be shown harmless without `JobOK`; `HandledMeansOff`
speaks of answered calls only, and `CallOK` carries it while they wait. `ProfitIsWealth` is
not kept by a posting unless that posting foots, and the lemma `SalesBalance` shows that
every sale the rules accept does, hence that no sale throws after its tax was tallied.
`SpendIsBounded` bounds what was paid and is not kept by an answer; what is bounded at every
moment is the payment with what may still come. `RateIsKept` speaks of a window that opens at
any moment, so `BucketOK` has to hold of the tokens a future take would find, wherever the
clock has been set back to. `BooksMatchTheTill` speaks of the moment when every sale is booked,
and `Settled` says by how much the two are apart before. `OnlyRacedPatchesAreLost` compares
rows, and a patch between its read and its put is a row to come: `PendingOK` compares that one.
`NothingIsOverdue` speaks of the end of a day; `Due` says how far the loop that splices from the
back has come. `EquityIsExplained` compares a figure of the ledger with the flips, and is not kept
by a sale unless the ledger says of each open position what was paid for it.
`RolledBackIsGone` would be lost if a marketplace could list again what it has taken down;
that it does not is the contract of the `idempotencyKey`, and `MarketOK` says it.

**Sums and sorts.** The stores' lists are sorts by rank, and the reads of the two stores agree
because each place of a list is some row's rank (by counting the ranks) and ranks are read off
fields that agree. The sums are folds, over the states a tax
is tallied by and over sequences of positions and flips. That a fold is a sum is proved in `Sums`
without an induction theorem over an operator: the sizes of heaps of the parts (`Heap`) are
exhibited as a solution of the fold's own recursion, and of two solutions a least set where they
differ is a contradiction. From it come what a sequence gains by an element appended
(`AppendSum`) and loses by one spliced out (`RemoveSum`). Heaps have no negative size, so
`EquityIsExplained` adds the gains and the losses of the flips apart.

**Prices.** `WaterfallIsExact` speaks of what the appraiser returns. A filtered list is a function on
fewer indices (`RestrictValues`), a median and a quantile are the least of a finite set of whole
prices, so that each is a whole price again (`AppraisalIs`). The break-even
resale divides the costs by what a sale leaves of its price: two cents cover three fees rounded
half away from zero and a price rounded to the next cent (`BreakEvenIsExact`).

**The report.** `TearsheetAgrees` compares what is computed twice over the same flips. A sort by rank
is a bijection of places and indices that ascends (`SortedIs`). The categories of the first flips
part the flips (`CategoriesPart`), so that the net, the revenue and the number of the flips are
those of the rows of the rollup, in whatever order they are listed (`RollupTotals`). Every flip is in,
below or above its band and nowhere twice, as no band is upside down (`CalibrationIs`). The later
quantile of one ascending list is the larger (`QuantilesGrow`). The fall from a higher peak to the same
day is the deeper one, so that the fall from the highest so far bounds all (`DeeperFromHigher`,
`DrawdownIs`). The last holds short of ruin only: from 100 to -100 is a fall of 200 %, and after a peak
of 1000 one of 110 %. The statement has that guard;
no simulation of the run is ruined, which is why TLC accepts it without. The proof also made the
rollup exact: the code sorts by net alone, and categories that tie stay in the order of their first
flips, as `Array.sort` is stable.

Model-checked only: all liveness (`EveryoneAnswered`, `EverySaleAnswered`,
`EveryPublishReturns`, `HaltedRunsEnd`, `OpenAdmitsProbe`, `CallsReturn`, `WokenAreAdmitted`),
which needs fairness and ENABLED. Every invariant and every action property that a run checks is
stated by a theorem.

## 5. Abstractions

- Time: backoff delays and the 60 s deadline of the saga are left out (a timer fires or does
  not); the clocks of the breaker and of the token are ages.
- Data: ids, memos, messages, disclosures and their hashes are left out. Policies and deals
  are small records with the fields the checks read; a row of a store has the fields its
  queries read and, in the inventory, two that are patched apart.
- `MemoryStore` keeps values where the code keeps the caller's objects; no caller under `packages/`
  puts an object again that it has changed.
- One SKU in the sagas: no map mixes keys. One action class in `Purchasing`: no record does.
- Cents are integers, and `mulBp` and `roundDivToNearest` are translated with their rounding.
  Scores, probabilities, ratios and errors, which the code keeps in floating point, are in
  basis points, cut down.
- The recency weight of a comp halves at each half-life instead of continuously, and the
  chance of a profit is read off straight lines between the quantiles where the code has a
  lognormal. Both keep the order the code has; a run compares what is built on them, and no
  property depends on their value.
- The market of a simulation is any market over eight kinds of listing where the code draws
  one from a seed. Its units are in good condition, so a category stands for its pair with a
  band in `Learning`.
- The band cap of `positionSize`, which no caller gives, and the expiry of an opt-in are left out.
- `Purchasing` counts the record of a class (`evaluate` reads nothing but counts) and lets the
  seller of `negotiate/src/simulate.ts` answer.

## 6. Not modelled

- `pipeline/src/bus.ts`: the queue loses the item of a handler that throws, but nothing under
  `packages/` fills or drains one yet.
- `throughput/src/shard.ts`: a hash that picks one of several independent channels.
- `regret`: a map of records that nothing reads but its tests.
- `lister`, the parsers of `adapters`, `analyst`, `handoff`, `flows`, `verticals`: text in, text out.
- Embeddings, grading by text, LLM prompts, the clients of the model provider and `net/src/transport.ts`: I/O
  and strings. What they return is a choice in `Engine`.
- `providers`: each is one request and a mapping of its fields.
- `sim/src/market.ts`, `rng.ts`, `render.ts` and the pages of the web app: generation and display.
- The IRR, found by bisection in floating point; the Brier score, the calibration buckets and the
  weight refit of `learn`; the drift and the probit of `appraise`.
- `refreshTracking` of `ops`, which copies the carrier's answer; `finances` and `createShippingFulfillment` of `sell.ts`.

## 7. Order of work

Modelled first, because money or a double sale depends on it: outbox, delisting,
cross-listing, kill switch and workers, sentinel and acquirer, channel, breaker, bookkeeper,
ingest and engine. Then what stands around them: the stores and the desk, goods from intake
to return, purchases from the offer to the commitment, the edge to the network, the
simulation over valuation and books, the learner. The proofs followed in the same order. What
is left of what the runs check is liveness, which stays with TLC.
