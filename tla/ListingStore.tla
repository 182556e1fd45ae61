----------------------------- MODULE ListingStore -----------------------------
(***************************************************************************)
(* The canonical listing store and the ingest path of packages/pipeline    *)
(* (store.ts, pipeline.ts).  A Key is a source and an external id, a       *)
(* Content what a payload normalizes to; its hash is itself, as the        *)
(* normalizers hash the payload.                                           *)
(***************************************************************************)
EXTENDS Naturals, Sequences

CONSTANTS Key, Content,
          Price,       \* priceCents of a content
          NoContent,   \* no entry in #byKey
          Poisoned,    \* a payload without normalizer or that fails its schema
          Raw          \* the payloads that may come

ASSUME StoreAssumption == /\ Price \in [Content -> Nat]
                          /\ NoContent \notin Content
                          /\ Poisoned \notin Key \X Content
                          /\ Raw \subseteq (Key \X Content) \cup {Poisoned}

VARIABLES store,   \* #byKey: the content last seen under a key
          events   \* #priceEvents, by key

storeVars == <<store, events>>

StoreInit == /\ store = [k \in Key |-> NoContent]
             /\ events = [k \in Key |-> <<>>]

\* UpsertResult.created, .updated
Created(k) == store[k] = NoContent

\* Faulty: an edited listing counts as a fresh one.
FreshOrEdited(k, x) == store[k] # x

Fresh(k, x) == Created(k)

\* Faulty: only a new listing records a price event.
PriceMovedOnce(k, x) == Created(k)

PriceMoved(k, x) == \/ Created(k)
                    \/ store[k] # x /\ Price[store[k]] # Price[x]

(***************************************************************************)
(* upsert(n): a new listing, a re-observation, or an edit; all synchronous *)
(***************************************************************************)
Upsert(k, x) ==
  /\ store' = [store EXCEPT ![k] = x]
  /\ events' = IF PriceMoved(k, x)
               THEN [events EXCEPT ![k] = Append(@, Price[x])] ELSE events

StoreTypeOK == /\ store \in [Key -> Content \cup {NoContent}]
               /\ events \in [Key -> Seq(Nat)]

(***************************************************************************)
(* The price history is true: it ends in the price the store shows, holds  *)
(* no price twice in a row and is empty exactly for unknown listings,      *)
(* whichever sources re-observe and edit a listing in turn (store.ts:45-70)*)
(***************************************************************************)
PriceHistoryIsTrue ==
  \A k \in Key :
    /\ events[k] = <<>> <=> Created(k)
    /\ ~Created(k) => events[k][Len(events[k])] = Price[store[k]]
    /\ \A i \in 1 .. Len(events[k]) - 1 : events[k][i] # events[k][i + 1]
===============================================================================
