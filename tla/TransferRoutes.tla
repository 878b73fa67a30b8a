--------------------------- MODULE TransferRoutes ---------------------------
(***************************************************************************)
(* The routes of app/api/routes/transfers.py for one user: POST behind the *)
(* rate limiter, GET of the list page by page, and GET of one transfer     *)
(* with its timeline, all at the same time.  The saga behind POST is       *)
(* TransferSaga; here a transfer is the row that the reads see.            *)
(***************************************************************************)
EXTENDS RateLimiter, TransferQueries

CONSTANTS
    Posts,         \* the requests to create a transfer
    Earlier,       \* those that have made theirs before time 0
    PageSize,
    MaxLag,        \* ticks from reading the clock to the INCR: the socket timeout
    MaxStatus,     \* how many statuses a transfer goes through
    MaxChanged,    \* bound: transfers that go on after their debit
    MaxTime        \* bound: the clock

ASSUME RoutesAssumption ==
    /\ {Second, WindowSeconds, RateLimit, PageSize} \subseteq Nat \ {0}
    /\ {MaxLag, MaxTime, MaxStatus, MaxChanged} \subseteq Nat
    /\ MaxLag <= Second
    /\ IsFiniteSet(Posts) /\ Earlier \subseteq Posts /\ MaxStatus >= 2

Windows == 0 .. WindowOf(MaxTime)
Ids     == 1 .. Cardinality(Posts)

VARIABLES
    now,
    counter,      \* the counter of each window in Redis
    pc, at,       \* each request: where it is, when it read the clock
    retry_at,     \* when Retry-After lets it come back
    admitted,     \* how many requests each window's counter let in
    row,          \* its transfer: id, created_at, status and number of events
    walk,         \* a reader, if it lists: what it has seen, and its cursor
    seen          \* a reader, if it looks at a transfer: which, its status and events

vars == <<now, counter, pc, at, retry_at, admitted, row, walk, seen>>
limiter == <<counter, retry_at, admitted>>

NoRow    == [id |-> 0, created_at |-> 0, status |-> 0, events |-> 0]
Rows     == [id : Ids \cup {0}, created_at : 0 .. MaxTime,
             status : 0 .. MaxStatus, events : 0 .. MaxStatus]
Inserted(id, time) == [id |-> id, created_at |-> time, status |-> 2, events |-> 2]
Visible  == {row[p] : p \in {q \in Posts : row[q].status > 0}}

TypeOK ==
    /\ now \in 0 .. MaxTime
    /\ counter \in [Windows -> [count : Nat, expires : Nat]]
    /\ pc \in [Posts -> {"idle", "count", "limited", "create", "commit", "done"}]
    /\ at \in [Posts -> 0 .. MaxTime]
    /\ retry_at \in [Posts -> Nat]
    /\ admitted \in [Windows -> Nat]
    /\ row \in [Posts -> Rows]
    /\ \A p, q \in Posts : p # q /\ row[p].id = row[q].id => row[p].id = 0
    /\ walk.state \in {"idle", "walking", "end"}
    /\ walk.listed \in Seq(Ids) /\ walk.before \subseteq Ids
    /\ walk.cursor \in [created_at : 0 .. MaxTime, id : Ids] \cup {NoCursor}
    /\ seen \in [of : Posts \cup {"nothing"}, status : 0 .. MaxStatus, events : 0 .. MaxStatus]

Init ==
    /\ now = 0
    /\ counter = [w \in Windows |-> NoCounter]
    /\ pc = [p \in Posts |-> IF p \in Earlier THEN "done" ELSE "idle"]
    /\ at = [p \in Posts |-> 0]
    /\ retry_at = [p \in Posts |-> 0]
    /\ admitted = [w \in Windows |-> 0]
    /\ \E id \in [Earlier -> Ids] :
          /\ IsInjective(id)
          /\ row = [p \in Posts |-> IF p \in Earlier THEN Inserted(id[p], 0) ELSE NoRow]
    /\ walk = [state |-> "idle", cursor |-> NoCursor, listed |-> <<>>, before |-> {}]
    /\ seen = [of |-> "nothing", status |-> 0, events |-> 0]
-----------------------------------------------------------------------------
Step(p, next) == pc' = [pc EXCEPT ![p] = next]

\* A request arrives, for the first time or after Retry-After: hit reads the
\* clock.
Post(p) ==
    /\ pc[p] \in {"idle", "limited"} /\ now >= retry_at[p]
    /\ Step(p, "count")
    /\ at' = [at EXCEPT ![p] = now]
    /\ retry_at' = [retry_at EXCEPT ![p] = 0]
    /\ UNCHANGED <<now, counter, admitted, row, walk, seen>>

Counted(w) == counter' = [counter EXCEPT ![w] = Incremented(@, now)]

LetIn(p) == Step(p, "create") /\ at' = [at EXCEPT ![p] = 0]

\* The rest of hit, and enforce_transfer_rate_limit.
Hit(p) ==
    LET w == WindowOf(at[p]) IN
    /\ pc[p] = "count"
    /\ Counted(w)
    /\ \/ /\ Allowed(counter'[w])
          /\ admitted' = [admitted EXCEPT ![w] = @ + 1]
          /\ LetIn(p)
          /\ UNCHANGED retry_at
       \/ /\ ~Allowed(counter'[w])
          /\ retry_at' = [retry_at EXCEPT ![p] = at[p] + RetryAfter(at[p]) * Second]
          /\ Step(p, "limited")
          /\ UNCHANGED <<admitted, at>>
    /\ UNCHANGED <<now, row, walk, seen>>

\* Redis does not answer: the request is let in, counted or not.
HitFailsOpen(p) ==
    /\ pc[p] = "count"
    /\ Counted(WindowOf(at[p])) \/ UNCHANGED counter
    /\ LetIn(p)
    /\ UNCHANGED <<now, retry_at, admitted, row, walk, seen>>

\* Variant: an id that another transfer may have.
BeginAnyId(p) ==
    /\ pc[p] = "create"
    /\ \E id \in Ids :
          row' = [row EXCEPT ![p] = [NoRow EXCEPT !.id = id, !.created_at = now]]
    /\ Step(p, "commit")
    /\ UNCHANGED <<now, limiter, at, walk, seen>>

\* The transaction that inserts the transfer starts: created_at is now() of
\* the database, the id a ULID of another clock with random low bits.
Begin(p) ==
    /\ pc[p] = "create"
    /\ \E id \in Ids \ {row[q].id : q \in Posts} :
          row' = [row EXCEPT ![p] = [NoRow EXCEPT !.id = id, !.created_at = now]]
    /\ Step(p, "commit")
    /\ UNCHANGED <<now, limiter, at, walk, seen>>

\* Its commit: the debit has made two events, the second of which is the status.
Commit(p) ==
    /\ pc[p] = "commit"
    /\ row' = [row EXCEPT ![p] = Inserted(row[p].id, row[p].created_at)]
    /\ Step(p, "done")
    /\ UNCHANGED <<now, limiter, at, walk, seen>>

Rollback(p) ==
    /\ pc[p] = "commit"
    /\ row' = [row EXCEPT ![p] = NoRow]
    /\ Step(p, "done")
    /\ UNCHANGED <<now, limiter, at, walk, seen>>

\* transition: the status and its event in one transaction.
Advanced(transfer) == [transfer EXCEPT !.status = @ + 1, !.events = @ + 1]

Transition(p) ==
    /\ row[p].status \in 2 .. MaxStatus - 1
    /\ Cardinality({q \in Posts \ {p} : row[q].status > 2}) < MaxChanged
    /\ row' = [row EXCEPT ![p] = Advanced(@)]
    /\ UNCHANGED <<now, limiter, pc, at, walk, seen>>
-----------------------------------------------------------------------------
ListFrom(cursor, listed, before) ==
    LET result == list_transfers(Visible, PageSize, cursor) IN
    walk' = [state  |-> IF result.next = NoCursor THEN "end" ELSE "walking",
             cursor |-> result.next,
             listed |-> listed \o [i \in 1 .. Len(result.page) |-> result.page[i].id],
             before |-> before]

\* get_transfers without and with a cursor.
FirstPage ==
    /\ walk.state = "idle" /\ seen.of = "nothing"
    /\ ListFrom(NoCursor, <<>>, {x.id : x \in Visible})
    /\ UNCHANGED <<now, limiter, pc, at, row, seen>>

NextPage ==
    /\ walk.state = "walking"
    /\ ListFrom(walk.cursor, walk.listed, walk.before)
    /\ UNCHANGED <<now, limiter, pc, at, row, seen>>

\* Variant: the events first.
EventsFirst(p) == [of |-> p, status |-> 0, events |-> row[p].events]

\* The first statement of get_transfer_details.
StatusFirst(p) == [of |-> p, status |-> row[p].status, events |-> 0]

ReadTransfer(p) ==
    /\ walk.state = "idle" /\ seen.of = "nothing" /\ row[p].status > 0
    /\ seen' = StatusFirst(p)
    /\ UNCHANGED <<now, limiter, pc, at, row, walk>>

\* The second statement reads the other one.
ReadEvents(p) ==
    /\ seen.of = p /\ 0 \in {seen.status, seen.events}
    /\ seen' = [seen EXCEPT !.status = IF @ = 0 THEN row[p].status ELSE @,
                            !.events = IF @ = 0 THEN row[p].events ELSE @]
    /\ UNCHANGED <<now, limiter, pc, at, row, walk>>

Tick ==
    /\ now < MaxTime
    /\ \A p \in Posts : pc[p] = "count" => now < at[p] + MaxLag
    /\ now' = now + 1
    /\ counter' = [w \in Windows |-> Kept(counter[w], now')]
    /\ UNCHANGED <<retry_at, admitted, pc, at, row, walk, seen>>
-----------------------------------------------------------------------------
Next ==
    \/ \E p \in Posts :
          \/ Post(p) \/ Hit(p) \/ HitFailsOpen(p) \/ Begin(p) \/ Commit(p) \/ Rollback(p)
          \/ Transition(p) \/ ReadTransfer(p) \/ ReadEvents(p)
    \/ FirstPage \/ NextPage \/ Tick

Spec == Init /\ [][Next]_vars
-----------------------------------------------------------------------------
\* The counter of a window lets no more than the limit in, also when an INCR
\* comes after the window has ended.
WindowLimit == \A w \in Windows : admitted[w] <= RateLimit

\* A client that waits for Retry-After is counted in a later window than the
\* one that refused it.
RetryLeavesWindow ==
    \A p \in Posts :
        pc[p] = "limited" => WindowOf(at[p]) < WindowOf(retry_at[p])

\* "never skips or repeats rows when new transfers arrive between requests": a
\* walk lists what was there when it began, and nothing twice, whatever the
\* order of ids, equal times and commits that come late.
WalkIsComplete ==
    /\ IsInjective(walk.listed)
    /\ walk.state = "end" => walk.before \subseteq Range(walk.listed)

\* The timeline of a transfer holds the status shown beside it.
TimelineCoversStatus ==
    seen.status > 0 /\ seen.events > 0 => seen.events >= seen.status
=============================================================================
