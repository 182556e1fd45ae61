-------------------------------- MODULE MCDesk --------------------------------
(***************************************************************************)
(* Three seeded deals, two of them taken and tied in the feed, one without *)
(* a band; rows that reprice, reorder or add a deal.                       *)
(***************************************************************************)
EXTENDS Desk

MkOpp(id, band, score, taken) ==
  [id |-> id, band |-> band, score |-> score, taken |-> taken, status |-> "new"]

MkResult(band, score, taken) == [band |-> band, score |-> score, taken |-> taken]

Seeded == <<MkResult("feed", 5, TRUE), MkResult("feed", 5, TRUE), MkResult(Absent, Absent, FALSE)>>

Opportunities == {MkOpp(1, "push", 0, FALSE), MkOpp(4, "feed", 5, TRUE),
                  MkOpp(3, "archive", 0, TRUE)}

MkItem(id, at, price) == [id |-> id, at |-> at, status |-> "received", price |-> price]

Items == {MkItem(1, 0, Absent), MkItem(5, 1, 7)}

Patches == {[status |-> "sold"], [status |-> "listed", price |-> 9]}

Filters == {[All EXCEPT !.takenOnly = TRUE], [All EXCEPT !.status = "new"],
            [All EXCEPT !.band = "feed", !.status = "approved"]}
===============================================================================
