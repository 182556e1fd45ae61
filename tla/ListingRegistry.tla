--------------------------- MODULE ListingRegistry ---------------------------
(***************************************************************************)
(* The multichannel listing registry, packages/exit/src/registry.ts, for   *)
(* one sku (every map of the class is keyed by sku first).                 *)
(*                                                                         *)
(* A listing is <<platform, external id>>.  The registry has one row per   *)
(* platform and overwrites the row's external id on a new publication, so  *)
(* it knows one listing per platform at a time.                            *)
(***************************************************************************)
CONSTANTS Platform,   \* exit channels
          Ext,        \* external ids a channel may give the item's listing
          NoExt,      \* the external id of a row that was never written
          NoSale      \* no entry in #sold

Listing == Platform \X Ext

ASSUME RegistryAssumption == NoExt \notin Ext /\ NoSale \notin Listing

VARIABLES rows,       \* #items: platform -> its row
          sold        \* #sold: the listing the sale was claimed for

regVars == <<rows, sold>>

RowState == {"none", "active", "ended", "end_failed"}

NoRow == [ext |-> NoExt, state |-> "none"]

\* publish(sku, platform, externalId): an existing row is overwritten.
Published(p, x) == [rows EXCEPT ![p] = [ext |-> x, state |-> "active"]]

\* The listing a row stands for.
ListingOf(p) == <<p, rows[p].ext>>

\* activeListings(sku)
ActiveListings == {ListingOf(p) : p \in {q \in Platform : rows[q].state = "active"}}

\* Faulty: any later claim passes for a replay of the first.
ClaimOutcomeLax(l) == IF sold = NoSale THEN "won" ELSE "won_replay"

\* claimSale(sku, platform, externalId): the outcome, and #sold afterwards.
ClaimOutcome(l) == IF sold = NoSale THEN "won"
                   ELSE IF sold = l THEN "won_replay" ELSE "lost"

ClaimSale(l) == sold' = IF sold = NoSale THEN l ELSE sold

RegistryTypeOK == /\ rows \in [Platform -> [ext : Ext \cup {NoExt}, state : RowState]]
                  /\ sold \in Listing \cup {NoSale}
                  /\ \A p \in Platform : rows[p].state # "none" => rows[p].ext \in Ext
===============================================================================
