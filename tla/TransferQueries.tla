-------------------------- MODULE TransferQueries --------------------------
(***************************************************************************)
(* The pages of app/services/transfer_queries.py: transfers newest first,  *)
(* each page strictly older than the cursor that the page before returned. *)
(* A transfer is a record with at least created_at and id; a cursor holds  *)
(* just those.                                                             *)
(***************************************************************************)
EXTENDS Integers, Sequences, FiniteSetsExt

CONSTANT NoCursor

ASSUME QueriesAssumption == NoCursor \notin [created_at : Nat, id : Nat]

\* Variant: a cursor of the time alone.
OlderByTime(x, y) == x.created_at < y.created_at

\* (created_at, id) < (created_at, id), compared as the database compares rows.
Older(x, y) ==
    \/ x.created_at < y.created_at
    \/ x.created_at = y.created_at /\ x.id < y.id

\* ORDER BY created_at DESC, id DESC.
Newer(x, y) ==
    \/ y.created_at < x.created_at
    \/ y.created_at = x.created_at /\ y.id < x.id

TransferCursor(x) == [created_at |-> x.created_at, id |-> x.id]

\* A page and the cursor for the next one; limit + 1 rows are read to see
\* whether there is one.
list_transfers(transfers, limit, cursor) ==
    LET matching == {x \in transfers : cursor # NoCursor => Older(x, cursor)}
        newest   == CHOOSE s \in Injection(1 .. Cardinality(matching), matching) :
                       \A i, j \in 1 .. Len(s) : i < j => Newer(s[i], s[j])
        rows     == SubSeq(newest, 1, Min({limit + 1, Len(newest)}))
        page     == SubSeq(rows, 1, Min({limit, Len(rows)}))
    IN  [page |-> page,
         next |-> IF Len(rows) > limit THEN TransferCursor(page[Len(page)]) ELSE NoCursor]
=============================================================================
