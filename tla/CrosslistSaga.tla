---------------------------- MODULE CrosslistSaga ----------------------------
(***************************************************************************)
(* The cross-listing engine, packages/crosslist/src/crosslist.ts, sharing  *)
(* the registry, the publishers and the marketplaces with the delist saga, *)
(* for one sku.  Each saga has an outbox of its own (both constructors     *)
(* default to `new Outbox()`).                                             *)
(*                                                                         *)
(* A draft is identified with the listing it asks for: the marketplace     *)
(* deduplicates on the draft's idempotencyKey (the Publisher contract of   *)
(* packages/core/src/interfaces.ts), so one key on one platform has one    *)
(* external id, and an element of Ext stands for both.                     *)
(***************************************************************************)
EXTENDS DelistSaga

CONSTANTS PubCall,   \* calls of publish()
          Modes      \* what CrosslistDeps.mode may be

ASSUME CrosslistAssumption == Modes \subseteq {"converge", "all_or_nothing"}

VARIABLES mode,      \* the mode this saga was constructed with
          made,      \* listings their marketplace has ever created
          pub,       \* publishOne of each draft, by outbox key
          undo,      \* end:sku:platform:externalId in this saga's outbox
          pcall,     \* the calls of publish()
          pubHalts,  \* platforms halted with an empty externalId
          undoHalts  \* listings halted with rollback_failed

listVars == <<mode, made, pub, undo, pcall, pubHalts, undoHalts>>
vars == <<sagaVars, listVars>>

NoPub == [st |-> "absent", attempts |-> 0]
NoTurn == NoSale
IdlePub == [st |-> "idle", drafts |-> {}, left |-> {}, turn |-> NoTurn,
            rolledBack |-> FALSE]

CrosslistInit == /\ ExitInit
                 /\ rows = [p \in Platform |-> NoRow]
                 /\ live = {}
                 /\ mode \in Modes
                 /\ made = {}
                 /\ pub = [k \in Listing |-> NoPub]
                 /\ undo = [k \in Listing |-> "absent"]
                 /\ pcall = [c \in PubCall |-> IdlePub]
                 /\ pubHalts = {}
                 /\ undoHalts = {}

PubSettled(k) == pub[k].st \in {"ok", "failed"}
PublishedBy(c) == {k \in pcall[c].drafts : pub[k].st = "ok"}
UnpublishedBy(c) == {k \in pcall[c].drafts : pub[k].st = "failed"}

\* At most one draft per platform.
Drafts == {D \in SUBSET Listing : D # {} /\ \A j, k \in D : j[1] = k[1] => j = k}

(***************************************************************************)
(* publish(sku, drafts) up to Promise.all: a publishOne per draft that the *)
(* outbox does not know.  Without a publisher, or without an attempt to    *)
(* make, it fails in the same stretch, and the failure is cached.          *)
(***************************************************************************)
Publish(c, D) ==
  /\ pcall[c].st = "idle"
  /\ pcall' = [pcall EXCEPT ![c] = [IdlePub EXCEPT !.st = "publishing", !.drafts = D]]
  /\ pub' = [k \in Listing |->
               IF k \in D /\ pub[k].st = "absent"
               THEN IF k[1] \in HasPublisher /\ MaxAttempts > 0
                    THEN [st |-> "calling", attempts |-> 1]
                    ELSE [NoPub EXCEPT !.st = "failed"]
               ELSE pub[k]]
  /\ UNCHANGED <<sagaVars, mode, made, undo, pubHalts, undoHalts>>

(***************************************************************************)
(* The marketplace creates the listing; its answer is still on the way.    *)
(***************************************************************************)
MarketLists(k) == /\ pub[k].st = "calling"
                  /\ k \notin made
                  /\ made' = made \cup {k}
                  /\ live' = live \cup {k}
                  /\ UNCHANGED <<regVars, orders, job, call, halts,
                                 mode, pub, undo, pcall, pubHalts, undoHalts>>

\* `await publisher.publish(...)` resolves and the row is written.
PublishSucceeds(k) == /\ pub[k].st = "calling"
                      /\ k \in made
                      /\ rows' = Published(k[1], k[2])
                      /\ pub' = [pub EXCEPT ![k].st = "ok"]
                      /\ UNCHANGED <<sold, exitVars, mode, made, undo, pcall,
                                     pubHalts, undoHalts>>

\* It throws, whether or not the marketplace has created the listing:
\* `break` on a fatal error or after the last attempt, else backoff.
PublishThrows(k) == /\ pub[k].st = "calling"
                    /\ \/ pub' = [pub EXCEPT ![k].st = "failed"]
                       \/ /\ pub[k].attempts < MaxAttempts
                          /\ pub' = [pub EXCEPT ![k].st = "backoff"]
                    /\ UNCHANGED <<sagaVars, mode, made, undo, pcall, pubHalts, undoHalts>>

RetryPublish(k) == /\ pub[k].st = "backoff"
                   /\ pub' = [pub EXCEPT ![k] = [st |-> "calling",
                                                 attempts |-> @.attempts + 1]]
                   /\ UNCHANGED <<sagaVars, mode, made, undo, pcall, pubHalts, undoHalts>>

(***************************************************************************)
(* Promise.all has all its attempts.                                       *)
(***************************************************************************)
MustRollBack(c) == /\ mode = "all_or_nothing"
                   /\ UnpublishedBy(c) # {}
                   /\ PublishedBy(c) # {}

\* Faulty: the call waits until every draft is published.
AllPublished(c) == /\ pcall[c].st = "publishing"
                   /\ \A k \in pcall[c].drafts : pub[k].st = "ok"

AllAttempted(c) == /\ pcall[c].st = "publishing"
                   /\ \A k \in pcall[c].drafts : PubSettled(k)

\* Faulty: nobody is told.
HaltNobody(c) == UNCHANGED pubHalts

\* `for (const f of failed) this.onHalt?.(...)`
HaltUnpublished(c) == pubHalts' = pubHalts \cup {k[1] : k \in UnpublishedBy(c)}

Converge(c) == /\ AllAttempted(c)
               /\ ~MustRollBack(c)
               /\ pcall' = [pcall EXCEPT ![c].st = "returned"]
               /\ HaltUnpublished(c)
               /\ UNCHANGED <<sagaVars, mode, made, pub, undo, undoHalts>>

StartRollback(c) == /\ AllAttempted(c)
                    /\ MustRollBack(c)
                    /\ pcall' = [pcall EXCEPT ![c].st = "rolling",
                                              ![c].left = PublishedBy(c)]
                    /\ UNCHANGED <<sagaVars, mode, made, pub, undo, pubHalts, undoHalts>>

(***************************************************************************)
(* `for (const p of published) await this.#rollback(...)`: one listing at  *)
(* a time.  The outbox runs publisher.end once; a rejected end stays in    *)
(* its #inflight map and is what every later rollback of the key meets.    *)
(* (A listing was published through its publisher, so there is one.)       *)
(***************************************************************************)
Rollback(c, k) == /\ pcall[c].st = "rolling"
                  /\ pcall[c].turn = NoTurn
                  /\ k \in pcall[c].left
                  /\ pcall' = [pcall EXCEPT ![c].turn = k]
                  /\ undo' = [undo EXCEPT ![k] = IF @ = "absent" THEN "calling" ELSE @]
                  /\ UNCHANGED <<sagaVars, mode, made, pub, pubHalts, undoHalts>>

UndoSettles(k) ==
  /\ undo[k] = "calling"
  /\ \/ undo' = [undo EXCEPT ![k] = "done"] /\ live' = live \ {k}
     \/ undo' = [undo EXCEPT ![k] = "rejected"] /\ live' \in {live, live \ {k}}
  /\ UNCHANGED <<regVars, orders, job, call, halts, mode, made, pub, pcall,
                 pubHalts, undoHalts>>

\* Faulty: an end() that threw is swallowed.
RollbackSwallowed(c) == LET k == pcall[c].turn IN
  /\ k # NoTurn
  /\ undo[k] \in {"done", "rejected"}
  /\ rows' = [rows EXCEPT ![k[1]].state = "ended"]
  /\ pcall' = [pcall EXCEPT ![c].turn = NoTurn, ![c].left = @ \ {k}]
  /\ UNCHANGED <<sold, exitVars, mode, made, pub, undo, pubHalts, undoHalts>>

RollbackDone(c) == LET k == pcall[c].turn IN
  /\ k # NoTurn
  /\ \/ /\ undo[k] = "done"
        /\ rows' = [rows EXCEPT ![k[1]].state = "ended"]
        /\ UNCHANGED undoHalts
     \/ /\ undo[k] = "rejected"
        /\ undoHalts' = undoHalts \cup {k}
        /\ UNCHANGED rows
  /\ pcall' = [pcall EXCEPT ![c].turn = NoTurn, ![c].left = @ \ {k}]
  /\ UNCHANGED <<sold, exitVars, mode, made, pub, undo, pubHalts>>

FinishRollback(c) == /\ pcall[c].st = "rolling"
                     /\ pcall[c].left = {}
                     /\ pcall' = [pcall EXCEPT ![c].st = "returned",
                                               ![c].rolledBack = TRUE]
                     /\ HaltUnpublished(c)
                     /\ UNCHANGED <<sagaVars, mode, made, pub, undo, undoHalts>>

PublishStep(k) == MarketLists(k) \/ PublishSucceeds(k) \/ PublishThrows(k) \/ RetryPublish(k)

PubCallStep(c) == \/ Converge(c) \/ StartRollback(c)
                  \/ (\E k \in Listing : Rollback(c, k))
                  \/ RollbackDone(c) \/ FinishRollback(c)

CrosslistNext == \/ SagaNext /\ UNCHANGED listVars
                 \/ \E c \in PubCall, D \in Drafts : Publish(c, D)
                 \/ \E k \in Listing : PublishStep(k) \/ UndoSettles(k)
                 \/ \E c \in PubCall : PubCallStep(c)

CrosslistSpec == CrosslistInit /\ [][CrosslistNext]_vars

(***************************************************************************)
(* Publisher calls settle, timers fire and continuations are resumed.      *)
(***************************************************************************)
CrosslistFairness ==
  /\ \A k \in Listing : /\ WF_vars(JobStep(k) /\ UNCHANGED listVars)
                        /\ WF_vars(PublishStep(k))
                        /\ WF_vars(UndoSettles(k))
  /\ \A c \in Call : WF_vars(Return(c) /\ UNCHANGED listVars)
  /\ \A c \in PubCall : WF_vars(PubCallStep(c))

CrosslistFairSpec == CrosslistSpec /\ CrosslistFairness

-------------------------------------------------------------------------------
PubCallType == [st : {"idle", "publishing", "rolling", "returned"},
                drafts : SUBSET Listing, left : SUBSET Listing,
                turn : Listing \cup {NoTurn}, rolledBack : BOOLEAN]

CrosslistTypeOK ==
  /\ SagaTypeOK
  /\ mode \in Modes
  /\ made \in SUBSET Listing
  /\ pub \in [Listing -> [st : {"absent", "calling", "backoff", "ok", "failed"},
                          attempts : 0 .. MaxAttempts]]
  /\ undo \in [Listing -> {"absent", "calling", "done", "rejected"}]
  /\ pcall \in [PubCall -> PubCallType]
  /\ pubHalts \in SUBSET Platform
  /\ undoHalts \in SUBSET Listing

\* No call of either saga is under way.
Quiet == /\ \A c \in PubCall : pcall[c].st \in {"idle", "returned"}
         /\ \A c \in Call : call[c].st \in {"idle", "returned"}

\* A human has been told about listing k.
Reported(k) == k \in halts \/ k \in undoHalts \/ k[1] \in pubHalts

(***************************************************************************)
(* No listing is lost: whenever neither saga is at work, a listing that is *)
(* up on a marketplace either has its active row, which is what the next   *)
(* sale will delist from, or a human was told (crosslist.ts:5, 98, 146).   *)
(* A publication whose answer was lost counts, and so does a listing whose *)
(* delisting raced its rollback.                                           *)
(***************************************************************************)
LiveIsAccountedFor == Quiet => \A k \in live : k \in ActiveListings \/ Reported(k)

(***************************************************************************)
(* After a rolled-back cross-listing, each listing it had published is off *)
(* its marketplace or was reported as rollback_failed, also when another   *)
(* call shared the rollback or a sale came in between (crosslist.ts:84).   *)
(***************************************************************************)
RolledBackIsGone == \A c \in PubCall :
                       pcall[c].rolledBack
                       => \A k \in PublishedBy(c) : k \notin live \/ k \in undoHalts

(* Every cross-listing call returns, through retries and rollbacks. *)
EveryPublishReturns ==
  \A c \in PubCall : pcall[c].st # "idle" ~> pcall[c].st = "returned"

(***************************************************************************)
(* What a rolled-back result says of itself, `consistent: true, // nothing *)
(* is listed anywhere` (crosslist.ts:92).  It does not hold: the line is   *)
(* reached as well when an end() of the rollback threw.                    *)
(***************************************************************************)
ConsistentMeansUnlisted == \A c \in PubCall :
                              pcall[c].rolledBack => pcall[c].drafts \cap live = {}

(***************************************************************************)
(* What the delist saga is for: "when an item sells on any channel, end    *)
(* every OTHER channel's listing" (saga.ts:57).  It does not hold when a   *)
(* publication is answered after onSale has read the active rows.          *)
(***************************************************************************)
SoldItemIsUnlisted == Quiet /\ sold # NoSale => \A k \in live : Reported(k)
===============================================================================
