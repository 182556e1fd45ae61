------------------------------ MODULE SqliteStore ------------------------------
(***************************************************************************)
(* The durable store, packages/store/src/sqlite.ts.                        *)
(*                                                                         *)
(* A database is a record of tables of columns: an optional field that is  *)
(* absent is a NULL, a flag is 0 or 1.  A table is the sequence of its     *)
(* rows by rowid.  better-sqlite3 is synchronous, so a statement is one    *)
(* step; patchInventory alone awaits between two of them.                  *)
(***************************************************************************)
EXTENDS MemoryStore

CONSTANT Null

ASSUME NullAssumption == Null \notin Nat \cup Band \cup {Absent, "booked"}

ToColumn(v) == IF v = Absent THEN Null ELSE v
FromColumn(c) == IF c = Null THEN Absent ELSE c
ToFlag(b) == IF b THEN 1 ELSE 0

OpportunityRow(o) == [id |-> o.id, band |-> ToColumn(o.band), score |-> ToColumn(o.score),
                      taken |-> ToFlag(o.taken), status |-> o.status]
RowToOpportunity(r) == [id |-> r.id, band |-> FromColumn(r.band),
                        score |-> FromColumn(r.score), taken |-> r.taken = 1,
                        status |-> r.status]
InventoryRow(i) == [i EXCEPT !.price = ToColumn(@)]
RowToInventory(r) == [r EXCEPT !.price = FromColumn(@)]

Rows(table, From(_)) == [i \in DOMAIN table |-> From(table[i])]

\* The file the migrations leave: a table of P&L rows without its row.
EmptyDatabase == [EmptyStore EXCEPT !.pnl = Null]

\* Faulty: insert or replace, which deletes the row and takes a new rowid.
UpsertReplaces(table, row) ==
  Append(SelectSeq(table, LAMBDA r : r.id # row.id), row)

\* insert ... on conflict do update: a row keeps its rowid.
Upsert(table, row) == IF row.id \in Ids(table)
                      THEN [table EXCEPT ![IndexOf(table, row.id)] = row]
                      ELSE Append(table, row)

SqlPutOpportunity(d, o) == [d EXCEPT !.opps = Upsert(@, OpportunityRow(o))]
SqlPutInventory(d, i) == [d EXCEPT !.inv = Upsert(@, InventoryRow(i))]
SqlPutAlert(d, a) == [d EXCEPT !.alerts = Upsert(@, a)]
SqlPutHealth(d, h) == [d EXCEPT !.health = Upsert(@, h)]
SqlSetPnl(d, p) == [d EXCEPT !.pnl = p]

SqlSetStatus(d, id, s) ==
  [d EXCEPT !.opps = [i \in DOMAIN @ |->
     IF @[i].id = id THEN [@[i] EXCEPT !.status = s] ELSE @[i]]]

SqlGetOpportunity(d, id) == RowToOpportunity(d.opps[IndexOf(d.opps, id)])
SqlList(d, filter) == ApplyFilter(Rows(d.opps, RowToOpportunity), filter)
SqlListInventory(d) == SortInventory(Rows(d.inv, RowToInventory))
SqlListAlerts(d) == SortAlerts(d.alerts)
SqlListHealth(d) == SortHealth(d.health)
SqlGetPnl(d) == IF d.pnl = Null THEN EmptyStore.pnl ELSE d.pnl
SqlGetInventory(d, sku) == RowToInventory(d.inv[IndexOf(d.inv, sku)])
================================================================================
