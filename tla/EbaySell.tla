------------------------------- MODULE EbaySell -------------------------------
(***************************************************************************)
(* The eBay publisher, packages/adapters/ebay-sell/src/sell.ts, for one    *)
(* draft: publish is three calls of the Sell API and end is one, and each  *)
(* runs in the retry loop of the saga that asks for it (publishOne of the  *)
(* crosslist saga, endOne of the delist saga).                             *)
(*                                                                         *)
(* An HttpError has no `fatal`, so that every failure is tried again.      *)
(***************************************************************************)
EXTENDS Transport

VARIABLES step,     \* where the desk is in publish and end
          tries,    \* attempts of the loop under way
          item,     \* whether eBay has the inventory item
          offers,   \* the offers eBay has of it
          offerId,  \* the answer of POST /offer in this attempt
          listed,   \* the externalId the desk was told, 0 for none
          unheard   \* history: offers whose publication was not answered

marketVars == <<item, offers, unheard>>
sellVars == <<step, tries, offerId, listed, marketVars>>

SellInit == /\ TransportInit
            /\ step = "draft" /\ tries = 0
            /\ item = FALSE /\ offers = <<>>
            /\ offerId = 0 /\ listed = 0
            /\ unheard = {}

Begin(first) == step' = first /\ tries' = 1

\* call() throws, and the loop around it backs off or gives up.
Throws(gaveUp, backoff) ==
  /\ step' = IF tries < load.maxAttempts THEN backoff ELSE gaveUp
  /\ UNCHANGED tries

PublishThrows == Throws("publish_failed", "publish_backoff")

\* Faulty: a withdrawal that is refused counts as done.
EndSwallows == step' = "ended" /\ UNCHANGED tries

EndThrows == Throws("end_failed", "end_backoff")

(***************************************************************************)
(* publish(input): PUT the inventory item, which is an upsert, POST the    *)
(* offer and POST its publication.  A call that took effect may still lose *)
(* its answer, and one that is refused takes none.                         *)
(***************************************************************************)
Publish == /\ load.sells /\ step = "draft"
           /\ Begin("put")
           /\ UNCHANGED <<offerId, listed, marketVars>>

PutItem == /\ step = "put"
           /\ item' = TRUE
           /\ (step' = "offer" /\ UNCHANGED tries) \/ PublishThrows
           /\ UNCHANGED <<offerId, listed, offers, unheard>>

PostOffer == /\ step = "offer" /\ item
             /\ offers' = Append(offers, "unpublished")
             /\ \/ /\ step' = "publish" /\ UNCHANGED tries
                   /\ offerId' = Len(offers')
                \/ PublishThrows /\ UNCHANGED offerId
             /\ UNCHANGED <<listed, item, unheard>>

PostPublish == /\ step = "publish"
               /\ offers' = [offers EXCEPT ![offerId] = "live"]
               /\ \/ /\ step' = "listed" /\ UNCHANGED tries
                     /\ listed' = offerId
                     /\ UNCHANGED unheard
                  \/ /\ PublishThrows
                     /\ unheard' = unheard \cup {offerId}
                     /\ UNCHANGED listed
               /\ UNCHANGED <<offerId, item>>

PublishRefused == /\ step \in {"put", "offer", "publish"}
                  /\ PublishThrows
                  /\ UNCHANGED <<offerId, listed, marketVars>>

PublishAgain == /\ step = "publish_backoff"
                /\ step' = "put" /\ tries' = tries + 1
                /\ UNCHANGED <<offerId, listed, marketVars>>

(***************************************************************************)
(* end(offerId), on a sale elsewhere.                                      *)
(***************************************************************************)
End == /\ step = "listed"
       /\ Begin("withdraw")
       /\ UNCHANGED <<offerId, listed, marketVars>>

PostWithdraw == /\ step = "withdraw"
                /\ offers[listed] = "live"
                /\ offers' = [offers EXCEPT ![listed] = "withdrawn"]
                /\ (step' = "ended" /\ UNCHANGED tries) \/ EndThrows
                /\ UNCHANGED <<offerId, listed, item, unheard>>

\* Also what a second withdrawal meets.
WithdrawRefused == /\ step = "withdraw"
                   /\ EndThrows
                   /\ UNCHANGED <<offerId, listed, marketVars>>

EndAgain == /\ step = "end_backoff"
            /\ step' = "withdraw" /\ tries' = tries + 1
            /\ UNCHANGED <<offerId, listed, marketVars>>

SellStep == \/ Publish \/ PutItem \/ PostOffer \/ PostPublish \/ PublishRefused
            \/ PublishAgain \/ End \/ PostWithdraw \/ WithdrawRefused \/ EndAgain

SellNext == \/ TransportNext /\ UNCHANGED sellVars
            \/ SellStep /\ UNCHANGED transportVars

SellSpec == SellInit /\ [][SellNext]_<<transportVars, sellVars>> /\ TransportFairness

-------------------------------------------------------------------------------
Live == {i \in DOMAIN offers : offers[i] = "live"}

(***************************************************************************)
(* What buyers can see is what the desk knows, but for publications whose  *)
(* answer was lost: a failed publish leaves no other offer up although it  *)
(* stops between two calls and each attempt creates an offer anew, and an  *)
(* end that is answered took down the offer the desk was told of           *)
(* (sell.ts:98-141).                                                       *)
(***************************************************************************)
OffersAreAccountedFor ==
  /\ step = "listed" => listed \in Live
  /\ step \in {"withdraw", "end_backoff", "end_failed"} => Live \subseteq {listed} \cup unheard
  /\ step \notin {"listed", "withdraw", "end_backoff", "end_failed"} => Live \subseteq unheard

(***************************************************************************)
(* "Natural idempotency key so publish retries are exactly-once-effective" *)
(* (core/src/interfaces.ts:51).  It does not hold: the key is the SKU of   *)
(* the inventory item, and a retry after a lost answer creates and         *)
(* publishes a second offer of it.                                         *)
(***************************************************************************)
PublishIsOnce == Cardinality(Live) <= 1
===============================================================================
