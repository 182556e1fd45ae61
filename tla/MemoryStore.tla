------------------------------ MODULE MemoryStore ------------------------------
(***************************************************************************)
(* The records of packages/store/src/records.ts, the read rules of         *)
(* query.ts and the in-memory store of store.ts.                           *)
(*                                                                         *)
(* A store is a record of tables, a table the sequence of its rows in the  *)
(* order they were first put: a Map iterates its keys in that order.  A    *)
(* row keeps its key, called id in every table, the fields the queries     *)
(* read, and for inventory two fields that are patched apart.              *)
(***************************************************************************)
EXTENDS Integers, SequencesExt

CONSTANT Absent  \* an optional field that is not there, a filter not given

Status == {"new", "approved", "rejected", "purchased", "expired"}
Band == {"push", "feed", "digest", "archive"}
InventoryStatus == {"received", "listed", "sold", "returned", "blocked"}

OpportunityRecord == [id : Nat, band : Band \cup {Absent}, score : Nat \cup {Absent},
                      taken : BOOLEAN, status : Status]
InventoryRecord == [id : Nat, at : Nat, status : InventoryStatus,
                    price : Nat \cup {Absent}]

EmptyStore == [opps |-> <<>>, inv |-> <<>>, alerts |-> <<>>, health |-> <<>>,
               pnl |-> "empty"]

Ids(table) == {table[i].id : i \in DOMAIN table}
IndexOf(table, id) == CHOOSE i \in DOMAIN table : table[i].id = id

\* Map.set(): a key that is there keeps its place.
SetRow(table, row) == IF row.id \in Ids(table)
                      THEN [table EXCEPT ![IndexOf(table, row.id)] = row]
                      ELSE Append(table, row)

(***************************************************************************)
(* query.ts: Array.sort is stable.                                         *)
(***************************************************************************)
StableSort(rows, Before(_, _)) ==
  LET First(i, j) == \/ Before(rows[i], rows[j])
                     \/ ~Before(rows[j], rows[i]) /\ i < j
      Rank(i) == Cardinality({j \in DOMAIN rows : First(j, i)}) + 1
  IN [k \in DOMAIN rows |-> rows[CHOOSE i \in DOMAIN rows : Rank(i) = k]]

BandRank(band) == CASE band = "push" -> 0 [] band = "feed" -> 1
                    [] band = "digest" -> 2 [] band \in {Absent, "archive"} -> 3
                    [] OTHER -> 9

ScoreOf(o) == IF o.score = Absent THEN 0 ELSE o.score

FeedBefore(a, b) == \/ BandRank(a.band) < BandRank(b.band)
                    \/ /\ BandRank(a.band) = BandRank(b.band)
                       /\ ScoreOf(a) > ScoreOf(b)

Admits(filter, o) == /\ filter.status \in {Absent, o.status}
                     /\ filter.band \in {Absent, o.band}
                     /\ filter.takenOnly => o.taken

ApplyFilter(rows, filter) ==
  StableSort(SelectSeq(rows, LAMBDA o : Admits(filter, o)), FeedBefore)

SortInventory(rows) == StableSort(rows, LAMBDA a, b : a.at < b.at)
SortAlerts(rows) == StableSort(rows, LAMBDA a, b : a.at > b.at)
SortHealth(rows) == StableSort(rows, LAMBDA a, b : a.id < b.id)

(***************************************************************************)
(* InMemoryStore: every method runs to its end at once.                    *)
(***************************************************************************)
MemPutOpportunity(m, o) == [m EXCEPT !.opps = SetRow(@, o)]
MemPutInventory(m, i) == [m EXCEPT !.inv = SetRow(@, i)]
MemPutAlert(m, a) == [m EXCEPT !.alerts = Append(@, a)]
MemPutHealth(m, h) == [m EXCEPT !.health = SetRow(@, h)]
MemSetPnl(m, p) == [m EXCEPT !.pnl = p]

MemSetStatus(m, id, s) ==
  IF id \in Ids(m.opps)
  THEN [m EXCEPT !.opps[IndexOf(m.opps, id)].status = s]
  ELSE m

\* { ...cur, ...patch }
Patched(row, patch) == [f \in DOMAIN row |-> IF f \in DOMAIN patch THEN patch[f] ELSE row[f]]

MemPatchInventory(m, sku, patch) ==
  IF sku \in Ids(m.inv)
  THEN MemPutInventory(m, Patched(m.inv[IndexOf(m.inv, sku)], patch))
  ELSE m

MemGetOpportunity(m, id) == m.opps[IndexOf(m.opps, id)]
MemList(m, filter) == ApplyFilter(m.opps, filter)
MemListInventory(m) == SortInventory(m.inv)
MemListAlerts(m) == SortAlerts(m.alerts)
MemListHealth(m) == SortHealth(m.health)
================================================================================
