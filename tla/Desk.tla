--------------------------------- MODULE Desk ---------------------------------
(***************************************************************************)
(* The web desk on its durable store: apps/web/app/lib/desk.ts and         *)
(* actions.ts, packages/runtime, and seedDemo, Desk and their store of     *)
(* packages/api and packages/store.                                        *)
(*                                                                         *)
(* A process opens the database on its first request, runs the migrations, *)
(* seeds the demo and serves; it may stop at any step and be started again *)
(* on the same file.  mem is the in-memory store given the same calls in a *)
(* process that never stops: what the durable store is compared with.      *)
(***************************************************************************)
EXTENDS SqliteStore, FiniteSetsExt

CONSTANTS Migration,   \* the files of db/sqlite, by name: 1 .. n
          SeedOpps,    \* what the engine makes of the demo corpus
          Opportunity, \* rows the pipeline may put
          Inventory, Patch, Filter,  \* rows, patches and filters of the callers
          MaxCalls, MaxRestarts      \* bounds

ASSUME DeskAssumption == /\ Migration \in Nat \ {0}
                         /\ {MaxCalls, MaxRestarts} \subseteq Nat

\* Records are of their types; a patch leaves out what it does not change.
ASSUME RecordAssumption ==
  /\ SeedOpps \in Seq([band : Band \cup {Absent}, score : Nat \cup {Absent}, taken : BOOLEAN])
  /\ Opportunity \subseteq OpportunityRecord
  /\ Inventory \subseteq InventoryRecord
  /\ \A patch \in Patch :
       /\ DOMAIN patch \subseteq {"status", "price"}
       /\ "status" \in DOMAIN patch => patch["status"] \in InventoryStatus
       /\ "price" \in DOMAIN patch => patch["price"] \in Nat \cup {Absent}

VARIABLES db,        \* the database file
          mem,       \* the in-memory store given the same calls
          applied,   \* the rows of _migrations
          ran,       \* history: how often each file was executed
          handle,    \* the promise of lib/desk.ts
          seedAt,    \* the next call of seedDemo
          patching,  \* patchInventory calls between their read and their put
          raced,     \* history: skus written while a patch of them was pending
          calls, restarts

deskVars == <<db, mem, applied, ran, handle, seedAt, patching, raced, calls, restarts>>

DeskInit == /\ db = EmptyDatabase
            /\ mem = EmptyStore
            /\ applied = {}
            /\ ran = [f \in 1 .. Migration |-> 0]
            /\ handle = "none"
            /\ seedAt = 1
            /\ patching = {}
            /\ raced = {}
            /\ calls = 0
            /\ restarts = 0

(***************************************************************************)
(* getDesk(): createRuntime and seedDemo run once in a process; a promise  *)
(* that rejects stays.  runMigrations runs every file not yet recorded,    *)
(* each in a transaction with its record.                                  *)
(***************************************************************************)
Open == /\ handle = "none"
        /\ handle' = "migrating"
        /\ UNCHANGED <<db, mem, applied, ran, seedAt, patching, raced, calls, restarts>>

\* Faulty: the file is executed outside the transaction that records it.
MigrateUnrecorded ==
  LET todo == 1 .. Migration \ applied IN
  /\ handle = "migrating"
  /\ \/ /\ todo # {}
        /\ \/ /\ ran' = [ran EXCEPT ![Min(todo)] = @ + 1]
              /\ UNCHANGED applied
           \/ /\ ran[Min(todo)] > 0
              /\ applied' = applied \cup {Min(todo)}
              /\ UNCHANGED ran
        /\ UNCHANGED <<handle, seedAt>>
     \/ /\ todo = {}
        /\ handle' = "seeding"
        /\ seedAt' = 1
        /\ UNCHANGED <<applied, ran>>
  /\ UNCHANGED <<db, mem, patching, raced, calls, restarts>>

Migrate ==
  LET todo == 1 .. Migration \ applied IN
  /\ handle = "migrating"
  /\ \/ /\ todo # {}
        /\ applied' = applied \cup {Min(todo)}
        /\ ran' = [ran EXCEPT ![Min(todo)] = @ + 1]
        /\ UNCHANGED <<handle, seedAt>>
     \/ /\ todo = {}
        /\ handle' = "seeding"
        /\ seedAt' = 1
        /\ UNCHANGED <<applied, ran>>
  /\ UNCHANGED <<db, mem, patching, raced, calls, restarts>>

(***************************************************************************)
(* seedDemo(target): an opportunity with its alert for each listing, then  *)
(* the taken ones in stock at four stages, the P&L and the health rows.    *)
(***************************************************************************)
ToRecord(opp, i) == [id |-> i, band |-> opp.band, score |-> opp.score, taken |-> opp.taken,
                     status |-> "new"]

\* The calls of the first loop in turn: a row, then its alert or nothing.
SeedFeed(k) ==
  LET i == (k + 1) \div 2 IN
  IF k % 2 = 1 THEN [op |-> "opp", row |-> ToRecord(SeedOpps[i], i)]
  ELSE IF SeedOpps[i].band \in {Absent, "archive"} THEN [op |-> "none"]
  ELSE [op |-> "alert", row |-> [id |-> i, at |-> 0]]

SeedTaken == Min({4, Cardinality({i \in DOMAIN SeedOpps : SeedOpps[i].taken})})
Stage == <<"sold", "listed", "received", "listed">>

SeedInventory(i) ==
  [op |-> "inv", row |-> [id |-> i, at |-> 0, status |-> Stage[i],
                          price |-> IF Stage[i] = "received" THEN Absent ELSE 0]]

SeedCalls ==
  [k \in 1 .. 2 * Len(SeedOpps) |-> SeedFeed(k)]
  \o [i \in 1 .. SeedTaken |-> SeedInventory(i)]
  \o <<[op |-> "pnl", row |-> "booked"],
       [op |-> "health", row |-> [id |-> 1, state |-> "ok"]],
       [op |-> "health", row |-> [id |-> 2, state |-> "halted"]]>>

MemDo(m, c) == CASE c.op = "opp" -> MemPutOpportunity(m, c.row)
                 [] c.op = "alert" -> MemPutAlert(m, c.row)
                 [] c.op = "inv" -> MemPutInventory(m, c.row)
                 [] c.op = "pnl" -> MemSetPnl(m, c.row)
                 [] c.op = "health" -> MemPutHealth(m, c.row)
                 [] c.op = "none" -> m

SqlDo(d, c) == CASE c.op = "opp" -> SqlPutOpportunity(d, c.row)
                 [] c.op = "alert" -> SqlPutAlert(d, c.row)
                 [] c.op = "inv" -> SqlPutInventory(d, c.row)
                 [] c.op = "pnl" -> SqlSetPnl(d, c.row)
                 [] c.op = "health" -> SqlPutHealth(d, c.row)
                 [] c.op = "none" -> d

SeedDemo ==
  /\ handle = "seeding"
  /\ IF seedAt <= Len(SeedCalls)
     THEN /\ mem' = MemDo(mem, SeedCalls[seedAt])
          /\ db' = SqlDo(db, SeedCalls[seedAt])
          /\ seedAt' = seedAt + 1
          /\ UNCHANGED handle
     ELSE /\ handle' = "ready"
          /\ UNCHANGED <<mem, db, seedAt>>
  /\ UNCHANGED <<applied, ran, patching, raced, calls, restarts>>

OpenFails == /\ handle \in {"migrating", "seeding"}
             /\ handle' = "failed"
             /\ UNCHANGED <<db, mem, applied, ran, seedAt, patching, raced, calls, restarts>>

(***************************************************************************)
(* The calls a ready desk serves                                           *)
(***************************************************************************)
Serve == /\ handle = "ready"
         /\ calls < MaxCalls
         /\ calls' = calls + 1
         /\ UNCHANGED <<applied, ran, handle, seedAt, restarts>>

\* Desk.approve and Desk.reject, from the two server actions.
Decide(id, s) == /\ Serve
                 /\ db' = SqlSetStatus(db, id, s)
                 /\ mem' = MemSetStatus(mem, id, s)
                 /\ UNCHANGED <<patching, raced>>

PutOpportunity(o) == /\ Serve
                     /\ db' = SqlPutOpportunity(db, o)
                     /\ mem' = MemPutOpportunity(mem, o)
                     /\ UNCHANGED <<patching, raced>>

Pending == {p.sku : p \in patching}

PutInventory(i) == /\ Serve
                   /\ db' = SqlPutInventory(db, i)
                   /\ mem' = MemPutInventory(mem, i)
                   /\ raced' = raced \cup (Pending \cap {i.id})
                   /\ UNCHANGED patching

\* patchInventory(sku, patch): the read, and the put after the await.
ReadForPatch(sku, patch) ==
  /\ Serve
  /\ mem' = MemPatchInventory(mem, sku, patch)
  /\ raced' = raced \cup (Pending \cap {sku})
  /\ patching' = IF sku \in Ids(db.inv)
                 THEN patching \cup {[sku |-> sku, patch |-> patch, cur |-> SqlGetInventory(db, sku)]}
                 ELSE patching
  /\ UNCHANGED db

\* Faulty: the fields the patch leaves out are written as absent.
WritePatchOnly(p) ==
  /\ p \in patching
  /\ db' = SqlPutInventory(db, Patched([p.cur EXCEPT !.price = Absent], p.patch))
  /\ patching' = patching \ {p}
  /\ UNCHANGED <<mem, applied, ran, handle, seedAt, raced, calls, restarts>>

WritePatch(p) ==
  /\ p \in patching
  /\ db' = SqlPutInventory(db, Patched(p.cur, p.patch))
  /\ patching' = patching \ {p}
  /\ UNCHANGED <<mem, applied, ran, handle, seedAt, raced, calls, restarts>>

\* The process stops; the next one finds the file as it was left.
Restart == /\ restarts < MaxRestarts
           /\ handle # "none"
           /\ restarts' = restarts + 1
           /\ handle' = "none"
           /\ seedAt' = 1
           /\ patching' = {}
           /\ raced' = raced \cup Pending
           /\ UNCHANGED <<db, mem, applied, ran, calls>>

DeskNext == \/ Open \/ Migrate \/ SeedDemo \/ OpenFails \/ Restart
            \/ \E o \in Opportunity : PutOpportunity(o)
            \/ \E id \in 1 .. 1 + Len(SeedOpps), s \in {"approved", "rejected"} : Decide(id, s)
            \/ \E i \in Inventory : PutInventory(i)
            \/ \E sku \in {i.id : i \in Inventory}, patch \in Patch : ReadForPatch(sku, patch)
            \/ \E p \in patching : WritePatch(p)

DeskSpec == DeskInit /\ [][DeskNext]_deskVars

-------------------------------------------------------------------------------
\* Desk.summary: the counts the front page shows.
Summary(feed, inv) ==
  [new |-> Len(SelectSeq(feed, LAMBDA o : o.status = "new")),
   approved |-> Len(SelectSeq(feed, LAMBDA o : o.status = "approved")),
   stock |-> Len(inv)]

All == [status |-> Absent, band |-> Absent, takenOnly |-> FALSE]

(***************************************************************************)
(* Both stores answer alike (query.ts:10-16): whatever was put, decided    *)
(* and seeded again, in any order and through any number of restarts, each *)
(* filter of the feed lists the same deals in the same order, ties         *)
(* included, and so do the health page and the counts of the summary; the  *)
(* durable one keeps an alert that is raised again once.                   *)
(***************************************************************************)
SameReads ==
  /\ \A f \in Filter \cup {All} : SqlList(db, f) = MemList(mem, f)
  /\ SqlListHealth(db) = MemListHealth(mem)
  /\ SqlGetPnl(db) = mem.pnl
  /\ \A id \in Ids(mem.opps) : SqlGetOpportunity(db, id) = MemGetOpportunity(mem, id)
  /\ Summary(SqlList(db, All), SqlListInventory(db))
     = Summary(MemList(mem, All), MemListInventory(mem))
  /\ [i \in DOMAIN db.inv |-> SqlListInventory(db)[i].id]
     = [i \in DOMAIN mem.inv |-> MemListInventory(mem)[i].id]
  /\ ToSet(SqlListAlerts(db)) = ToSet(MemListAlerts(mem))
  /\ Len(db.alerts) = Cardinality(Ids(mem.alerts))

(***************************************************************************)
(* A stock row of the durable store is what every put and patch made of    *)
(* it, but for a sku that was written while a patch of it stood between    *)
(* its read and its put, or whose patch was cut off by a stop              *)
(* (sqlite.ts:276-282).                                                    *)
(***************************************************************************)
OnlyRacedPatchesAreLost ==
  \A i \in DOMAIN mem.inv :
    mem.inv[i].id \notin raced \cup Pending => RowToInventory(db.inv[i]) = mem.inv[i]

(***************************************************************************)
(* A migration is executed once in the life of a file, however often the   *)
(* process stops between two of them, and every one of them before the     *)
(* desk is given out (sqlite.ts:44-47, 69-72).                             *)
(***************************************************************************)
MigratedOnce == \A f \in 1 .. Migration :
  /\ ran[f] <= 1
  /\ handle \in {"seeding", "ready"} => ran[f] = 1

(***************************************************************************)
(* "Set FLIP_DB_PATH and the desk persists across restarts"                *)
(* (README.md:186): what the operator approved or rejected is not new      *)
(* again.                                                                  *)
(***************************************************************************)
Decided(id) == /\ id \in Ids(db.opps)
               /\ SqlGetOpportunity(db, id).status \in {"approved", "rejected"}

Undecided(id) == SqlGetOpportunity(db, id).status = "new"

DecisionsPersist ==
  [][handle # "ready" => \A id \in Ids(db.opps) : Decided(id) => ~Undecided(id)']_deskVars
===============================================================================
