------------------------------ MODULE DelistSaga ------------------------------
(***************************************************************************)
(* The delist saga, packages/exit/src/saga.ts, over the listing registry,  *)
(* an outbox and the marketplaces, for one sku.                            *)
(*                                                                         *)
(* onSale claims the sale and reads the active rows in one synchronous     *)
(* stretch (OnSale), then waits for one endOne per other listing.  endOne  *)
(* runs under the outbox key end:sku:platform:externalId, so a duplicate   *)
(* event that meets the key shares the running job or reads its cached     *)
(* outcome.  Each await of a job (the publisher call, the backoff) ends in *)
(* an action of its own, and everything else may happen in between.        *)
(*                                                                         *)
(* The marketplaces are external: a listing that is live can be bought,    *)
(* the sale event is delivered any number of times and in any order, and   *)
(* a call of publisher.end may fail before or after it took effect.        *)
(***************************************************************************)
EXTENDS ListingRegistry, Naturals, FiniteSets

CONSTANTS Call,          \* deliveries of sale events
          HasPublisher,  \* platforms with an entry in deps.publishers
          MaxAttempts    \* RetryPolicy.maxAttempts

ASSUME SagaAssumption == HasPublisher \subseteq Platform /\ MaxAttempts \in Nat

VARIABLES live,     \* listings that are up on their marketplace
          orders,   \* listings a buyer has bought through
          job,      \* endOne of each listing, by outbox key
          call,     \* the deliveries of sale events to onSale
          halts     \* the listings named by the HaltEvents so far

exitVars == <<live, orders, job, call, halts>>
sagaVars == <<regVars, exitVars>>

NoJob == [st |-> "absent", attempts |-> 0, target |-> NoExt]
IdleCall == [st |-> "idle", order |-> NoSale, claim |-> "none", others |-> {}]

\* The outbox has an outcome for the key: a later `once` replays it.
Settled(k) == job[k].st \in {"ended", "failed"}

ExitInit == /\ sold = NoSale
            /\ orders = {}
            /\ job = [k \in Listing |-> NoJob]
            /\ call = [c \in Call |-> IdleCall]
            /\ halts = {}

\* Some of the channels list the item, each under some external id.
Init == /\ ExitInit
        /\ rows \in [Platform -> {NoRow} \cup [ext : Ext, state : {"active"}]]
        /\ live = ActiveListings

(***************************************************************************)
(* A buyer takes a live listing; the marketplace takes it down.            *)
(***************************************************************************)
Buy(l) == /\ l \in live
          /\ live' = live \ {l}
          /\ orders' = orders \cup {l}
          /\ UNCHANGED <<regVars, job, call, halts>>

(***************************************************************************)
(* onSale(sku, soldChannel, soldExternalId) up to its first await.         *)
(***************************************************************************)
\* The competing sale: the caller is told to refund, nothing is touched.
LoseSale(c, l) == /\ ClaimOutcome(l) = "lost"
                  /\ call' = [call EXCEPT ![c] = [st |-> "returned", order |-> l,
                                                  claim |-> "lost", others |-> {}]]
                  /\ UNCHANGED <<regVars, live, orders, job, halts>>

\* Faulty: platforms without a publisher are passed over.
OthersPublishable(l) == {k \in ActiveListings \ {l} : k[1] \in HasPublisher}

\* `others`: the active rows but the one it sold through.
Others(l) == ActiveListings \ {l}

\* Jobs that this stretch starts, and those of them that fail in it because
\* there is no publisher or not a single attempt is allowed.
Starts(l) == {k \in Others(l) : job[k].st = "absent"}
Stillborn(l) == {k \in Starts(l) : k[1] \notin HasPublisher \/ MaxAttempts = 0}

WinSale(c, l) ==
  /\ ClaimOutcome(l) # "lost"
  /\ rows' = [p \in Platform |->
                IF l \in ActiveListings /\ ListingOf(p) = l
                THEN [rows[p] EXCEPT !.state = "ended"]
                ELSE IF ListingOf(p) \in Stillborn(l)
                     THEN [rows[p] EXCEPT !.state = "end_failed"]
                     ELSE rows[p]]
  /\ job' = [k \in Listing |->
               IF k \in Stillborn(l) THEN [NoJob EXCEPT !.st = "failed"]
               ELSE IF k \in Starts(l)
                    THEN [st |-> "calling", attempts |-> 1, target |-> k[2]]
                    ELSE job[k]]
  /\ halts' = halts \cup Stillborn(l)
  /\ call' = [call EXCEPT
                ![c] = [st |-> IF Others(l) = {} THEN "returned" ELSE "ending",
                        order |-> l, claim |-> ClaimOutcome(l), others |-> Others(l)]]
  /\ UNCHANGED <<live, orders>>

OnSale(c, l) == /\ call[c].st = "idle"
                /\ l \in orders
                /\ ClaimSale(l)
                /\ LoseSale(c, l) \/ WinSale(c, l)

(***************************************************************************)
(* The job under key k: `await publisher.end(listing.externalId)` settles, *)
(* and the backoff of a failed attempt elapses.  The row is the object the *)
(* job was given, so its external id is read when the attempt is made.     *)
(***************************************************************************)
EndSucceeds(k) == /\ job[k].st = "calling"
                  /\ live' = live \ {<<k[1], job[k].target>>}
                  /\ rows' = [rows EXCEPT ![k[1]].state = "ended"]
                  /\ job' = [job EXCEPT ![k].st = "ended"]
                  /\ UNCHANGED <<sold, orders, call, halts>>

\* A failed call may have taken the listing down before the error.
EndThrows(k) == /\ job[k].st = "calling"
                /\ live' \in {live, live \ {<<k[1], job[k].target>>}}
                /\ UNCHANGED <<sold, orders, call>>

\* Faulty: the halt callback is not called.
GiveUpSilently(k) == /\ EndThrows(k)
                     /\ rows' = [rows EXCEPT ![k[1]].state = "end_failed"]
                     /\ job' = [job EXCEPT ![k].st = "failed"]
                     /\ UNCHANGED halts

\* `break`: the error is fatal or no attempt is left.
GiveUp(k) == /\ EndThrows(k)
             /\ rows' = [rows EXCEPT ![k[1]].state = "end_failed"]
             /\ halts' = halts \cup {ListingOf(k[1])}
             /\ job' = [job EXCEPT ![k].st = "failed"]

\* A transient error with an attempt left.
BackOff(k) == /\ EndThrows(k)
              /\ job[k].attempts < MaxAttempts
              /\ job' = [job EXCEPT ![k].st = "backoff"]
              /\ UNCHANGED <<rows, halts>>

Retry(k) == /\ job[k].st = "backoff"
            /\ job' = [job EXCEPT ![k] = [st |-> "calling", attempts |-> @.attempts + 1,
                                          target |-> rows[k[1]].ext]]
            /\ UNCHANGED <<regVars, live, orders, call, halts>>

JobStep(k) == EndSucceeds(k) \/ GiveUp(k) \/ BackOff(k) \/ Retry(k)

\* Faulty: onSale waits for every job to succeed.
ReturnOnSuccess(c) == /\ call[c].st = "ending"
                      /\ \A k \in call[c].others : job[k].st = "ended"
                      /\ call' = [call EXCEPT ![c].st = "returned"]
                      /\ UNCHANGED <<regVars, live, orders, job, halts>>

(***************************************************************************)
(* Promise.all settles and onSale returns; `ended` and `failed` of the     *)
(* result are read off the cached outcomes of the jobs it waited for.      *)
(***************************************************************************)
Return(c) == /\ call[c].st = "ending"
             /\ \A k \in call[c].others : Settled(k)
             /\ call' = [call EXCEPT ![c].st = "returned"]
             /\ UNCHANGED <<regVars, live, orders, job, halts>>

EndedBy(c) == {k \in call[c].others : job[k].st = "ended"}
FailedBy(c) == {k \in call[c].others : job[k].st = "failed"}
RequiresRefund(c) == call[c].claim = "lost"

SagaNext == \/ \E l \in Listing : Buy(l)
            \/ \E c \in Call, l \in Listing : OnSale(c, l)
            \/ \E k \in Listing : JobStep(k)
            \/ \E c \in Call : Return(c)

Spec == Init /\ [][SagaNext]_sagaVars

(***************************************************************************)
(* A publisher call settles, a timer fires and a settled promise resumes   *)
(* its caller.  Buyers and the delivery of events are under no obligation. *)
(***************************************************************************)
SagaFairness == /\ \A k \in Listing : WF_sagaVars(JobStep(k))
                /\ \A c \in Call : WF_sagaVars(Return(c))

FairSpec == Spec /\ SagaFairness

-------------------------------------------------------------------------------
JobType == [st : {"absent", "calling", "backoff", "ended", "failed"},
            attempts : 0 .. MaxAttempts, target : Ext \cup {NoExt}]
CallType == [st : {"idle", "ending", "returned"}, order : Listing \cup {NoSale},
             claim : {"none", "won", "won_replay", "lost"},
             others : SUBSET Listing]

SagaTypeOK == /\ RegistryTypeOK
              /\ live \in SUBSET Listing
              /\ orders \in SUBSET Listing
              /\ job \in [Listing -> JobType]
              /\ call \in [Call -> CallType]
              /\ halts \in SUBSET Listing

(***************************************************************************)
(* Of all the deliveries, for whatever channels, duplicated or not, those  *)
(* told to keep their order name one and the same listing, and every other *)
(* is told to refund: the item ships once (registry.ts:49, saga.ts:82).    *)
(***************************************************************************)
OneSaleShips == \A c, d \in Call :
                   /\ call[c].claim \in {"won", "won_replay"}
                   /\ call[d].claim # "none"
                   => (RequiresRefund(d) <=> call[d].order # call[c].order)

(***************************************************************************)
(* When a sale event that was not refused has been handled, no listing of  *)
(* the item is up on a marketplace unless a human was told about it.  This *)
(* is the convergence the saga exists for (saga.ts:57-60): it spans the    *)
(* claim, every retry and every duplicate delivery.                        *)
(***************************************************************************)
HandledMeansOff == \A c \in Call :
                      call[c].st = "returned" /\ ~RequiresRefund(c)
                      => live \subseteq halts

(***************************************************************************)
(* P7: what the saga could not end is always reported, and what it reports *)
(* is what it could not end; a call that returned failures has a halt for  *)
(* each of them (saga.ts:139-141).                                         *)
(***************************************************************************)
FailuresAreReported ==
  /\ \A p \in Platform : rows[p].state = "end_failed" <=> ListingOf(p) \in halts
  /\ \A c \in Call : FailedBy(c) \subseteq halts

(***************************************************************************)
(* The channel the winning sale came through is never asked to end its     *)
(* listing, by no duplicate and no loser (saga.ts:98).                     *)
(***************************************************************************)
WinnerIsNeverEnded == sold # NoSale => job[sold].st = "absent"

(* Every delivery that onSale accepted is answered (saga.ts:107). *)
EverySaleAnswered == \A c \in Call :
                        call[c].st = "ending" ~> call[c].st = "returned"

(***************************************************************************)
(* The saga implements the abstract guard: the verdict of a delivery is    *)
(* fixed when it is accepted, and only the active rows are open.           *)
(***************************************************************************)
Verdict(c) == IF call[c].claim = "none" THEN "none"
              ELSE IF RequiresRefund(c) THEN "refund" ELSE "ships"

Guard == INSTANCE SaleGuard WITH winner <- sold,
                                 verdict <- [c \in Call |-> Verdict(c)],
                                 open <- ActiveListings,
                                 flagged <- halts

ImplementsSaleGuard == Guard!GuardSpec
===============================================================================
