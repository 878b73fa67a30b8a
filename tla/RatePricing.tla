---------------------------- MODULE RatePricing ----------------------------
(***************************************************************************)
(* Rates, bonuses and the prices made from them, for one route (routes     *)
(* share no row, lock or cache key).                                       *)
(*                                                                         *)
(*   app/services/rate_admin.py        create_rate_version, create_bonus   *)
(*   app/services/rate_repository.py   get_route                           *)
(*   app/cache/rate_cache.py           CachedRouteProvider, RouteCache     *)
(*   app/services/rate_engine.py       QuoteService.quote                  *)
(*   app/services/transfer_service.py  the pricing in _debit_source        *)
(*                                                                         *)
(* A quote reads the clock, then the cache, then the database, and fills   *)
(* the cache; a transfer reads the clock and the database.  get_route runs *)
(* one statement for the rate and others for the bonuses, each with its    *)
(* own snapshot.  A rate change takes its moment under the advisory lock   *)
(* and commits later; the cache is invalidated after the commit.           *)
(***************************************************************************)
EXTENDS RateEngine

CONSTANTS
    Admins, Quotes, Transfers,
    NewRates,       \* the terms admins may ask for
    NewBonuses,     \* the bonuses admins may ask for
    OpeningRates,   \* the rows an installation may start with
    amount,         \* the source points of each quote and transfer
    Ttl,            \* RATE_CACHE_TTL_SECONDS
    MaxLoad,        \* the longest time from a caller's clock read to its price
    MaxCommit,      \* the longest time from a change's moment to its commit
    MaxVersions,    \* bound on the versions of a rate
    MaxTime         \* bound on the clock

Callers == Quotes \cup Transfers

RateTerms == [numerator : Nat, denominator : Nat, min_source_points : Nat,
              source_increment : Nat, max_source_points : Nat]
RateRows  == [version : Nat \ {0}, terms : RateTerms,
              effective_from : Int, effective_to : Int]
BonusRows == [bonus_bps : Nat, starts_at : Nat, ends_at : Nat]

ASSUME PricingAssumption ==
    /\ Quotes \cap Transfers = {}
    /\ amount \in [Callers -> Nat \ {0}]
    /\ Ttl \in Nat \ {0} /\ MaxLoad \in Nat /\ MaxCommit \in Nat
    /\ MaxVersions \in Nat /\ MaxTime \in Nat
    /\ Forever \in Nat /\ MaxTime + Ttl < Forever
    /\ NewRates \subseteq RateTerms /\ NewBonuses \subseteq BonusRows
    /\ \A b \in NewBonuses : b.starts_at < b.ends_at /\ b.ends_at < Forever

\* What rate changes leave behind: versions that follow each other without a
\* gap, the last one open.
History(rows) ==
    /\ \A i \in 1 .. Len(rows) :
          /\ rows[i].version = i
          /\ rows[i].effective_from < rows[i].effective_to
          /\ rows[i].effective_to <= Forever
    /\ rows # <<>> => rows[Len(rows)].effective_to = Forever
    /\ \A i, j \in 1 .. Len(rows) :
          i < j => rows[i].effective_to <= rows[j].effective_from
    /\ \A t \in 0 .. Forever - 1 :
          rows # <<>> /\ rows[1].effective_from <= t =>
              \E i \in 1 .. Len(rows) : InForce(rows[i], t)

\* The rows of an installation obey the table's CHECK constraints and have
\* begun: create_rate_version lets a version begin at its own moment.
ASSUME OpeningAssumption ==
    /\ OpeningRates \subseteq Seq(RateRows)
    /\ \A rows \in OpeningRates :
          /\ History(rows)
          /\ \A i \in 1 .. Len(rows) :
                RateChecks(rows[i].terms) /\ rows[i].effective_from <= 0

VARIABLES
    now,
    rates,      \* rows of conversion_rates, by version
    bonuses,    \* rows of transfer_bonuses
    admin,      \* where each admin call is
    draft,      \* the terms and the moment of an open rate change
    cache,      \* the Redis entry of the route
    pc, at,     \* where each caller is, and its clock read
    route,      \* what the caller has loaded
    price,      \* what the caller was told: terms and amounts
    changed     \* history: the last commit of a change

admins  == <<admin, draft>>
callers == <<pc, at, route, price>>
vars == <<now, rates, bonuses, admins, cache, callers, changed>>
-----------------------------------------------------------------------------
NoEntry  == [held |-> FALSE]
NoRoute  == [rate |-> NoRate, bonus |-> NoBonus, valid_until |-> 0]
NoTerms  == [numerator |-> 0]
NoPrice  == [version |-> 0, terms |-> NoTerms, bps |-> 0, points |-> Refused("none")]
NoDraft  == [terms |-> NoTerms, at |-> 0]

TypeOK ==
    /\ now \in 0 .. MaxTime
    /\ \A i \in 1 .. Len(rates) :
          rates[i].version = i /\ rates[i].effective_from < rates[i].effective_to
    /\ bonuses \subseteq NewBonuses
    /\ admin \in [Admins -> {"idle", "stamped", "committed"}]
    /\ cache.held => cache.expires_at \in now + 1 .. MaxTime + Ttl
    /\ pc \in [Callers -> {"idle", "get", "rate", "bonus", "set", "done"}]
    /\ at \in [Callers -> 0 .. MaxTime]
    /\ \A c \in Callers :
          price[c].points.code = "ok" => price[c].points.destination_points > 0

Init ==
    /\ now = 0
    /\ rates \in OpeningRates
    /\ bonuses = {}
    /\ admin = [a \in Admins |-> "idle"]
    /\ draft = [a \in Admins |-> NoDraft]
    /\ cache = NoEntry
    /\ pc = [c \in Callers |-> "idle"]
    /\ at = [c \in Callers |-> 0]
    /\ route = [c \in Callers |-> NoRoute]
    /\ price = [c \in Callers |-> NoPrice]
    /\ changed = -(Ttl + MaxLoad)

Goto(c, step) == pc' = [pc EXCEPT ![c] = step]
-----------------------------------------------------------------------------
(***************************************************************************)
(* Administration                                                          *)
(***************************************************************************)
\* create_rate_version up to its moment: clock_timestamp() under the lock.
StampRate(a) ==
    /\ admin[a] = "idle"
    /\ \A b \in Admins : admin[b] # "stamped"
    /\ Len(rates) < MaxVersions
    /\ \E new \in NewRates :
          ValidRate(new) /\ draft' = [draft EXCEPT ![a] = [terms |-> new, at |-> now]]
    /\ admin' = [admin EXCEPT ![a] = "stamped"]
    /\ UNCHANGED <<now, rates, bonuses, cache, callers, changed>>

\* The open version, if there is one, is closed at the moment end.
Closed(rows, end) ==
    [i \in 1 .. Len(rows) |->
        IF rows[i].effective_to = Forever THEN [rows[i] EXCEPT !.effective_to = end] ELSE rows[i]]

Version(a) ==
    [version |-> Len(rates) + 1, terms |-> draft[a].terms,
     effective_from |-> draft[a].at, effective_to |-> Forever]

Committed(a) ==
    /\ admin' = [admin EXCEPT ![a] = "committed"]
    /\ draft' = [draft EXCEPT ![a] = NoDraft]
    /\ changed' = now

\* Variant: the old version ends with the commit, the new one began earlier.
CommitRateClosingNow(a) ==
    /\ admin[a] = "stamped"
    /\ \A i \in 1 .. Len(rates) : rates[i].effective_from < now
    /\ rates' = Append(Closed(rates, now), Version(a))
    /\ Committed(a)
    /\ UNCHANGED <<now, bonuses, cache, callers>>

\* Variant: the open version takes the new terms in place.
CommitRateInPlace(a) ==
    /\ admin[a] = "stamped"
    /\ rates' = IF rates = <<>> THEN <<Version(a)>>
                ELSE [rates EXCEPT ![Len(rates)].terms = draft[a].terms]
    /\ Committed(a)
    /\ UNCHANGED <<now, bonuses, cache, callers>>

\* CHECK effective_to > effective_from: a version does not end as it begins.
CommitRate(a) ==
    /\ admin[a] = "stamped"
    /\ \A i \in 1 .. Len(rates) : rates[i].effective_from < draft[a].at
    /\ rates' = Append(Closed(rates, draft[a].at), Version(a))
    /\ Committed(a)
    /\ UNCHANGED <<now, bonuses, cache, callers>>

\* The transaction fails or is refused and leaves nothing behind.
RollbackRate(a) ==
    /\ admin[a] = "stamped"
    /\ admin' = [admin EXCEPT ![a] = "idle"]
    /\ draft' = [draft EXCEPT ![a] = NoDraft]
    /\ UNCHANGED <<now, rates, bonuses, cache, callers, changed>>

\* A bonus needs an open rate, ends in the future and overlaps no other.
CreateBonus(a) ==
    /\ admin[a] = "idle"
    /\ \E i \in 1 .. Len(rates) : rates[i].effective_to = Forever
    /\ \E new \in NewBonuses :
          /\ new.ends_at > now
          /\ \A b \in bonuses : ~Overlap(b, new)
          /\ bonuses' = bonuses \cup {new}
    /\ Committed(a)
    /\ UNCHANGED <<now, rates, cache, callers>>

\* RouteCache.invalidate deletes the entry, unless Redis fails or the process
\* is gone.
Invalidate(a) ==
    /\ admin[a] = "committed"
    /\ admin' = [admin EXCEPT ![a] = "idle"]
    /\ cache' = NoEntry \/ UNCHANGED cache
    /\ UNCHANGED <<now, rates, bonuses, draft, callers, changed>>
-----------------------------------------------------------------------------
(***************************************************************************)
(* Quotes and transfers                                                    *)
(***************************************************************************)
\* ensure_route_usable and calculate_conversion, for the clock read of the
\* caller; a refusal keeps the terms it rests on.
PriceOf(c, r) ==
    IF r.rate = NoRate
    THEN [NoPrice EXCEPT !.points = Refused("ROUTE_NOT_SUPPORTED")]
    ELSE [version |-> r.rate.version, terms |-> r.rate.terms,
          bps |-> AppliedBps(r.bonus, at[c]),
          points |-> calculate_conversion(r.rate.terms, amount[c], r.bonus, at[c])]

Priced(c, r) ==
    /\ price' = [price EXCEPT ![c] = PriceOf(c, r)]
    /\ route' = [route EXCEPT ![c] = NoRoute]
    /\ Goto(c, "done")

\* QuoteService.quote reads its clock; a finished quote makes room for another.
StartQuote(c) ==
    /\ c \in Quotes /\ pc[c] \in {"idle", "done"}
    /\ at' = [at EXCEPT ![c] = now]
    /\ price' = [price EXCEPT ![c] = NoPrice]
    /\ Goto(c, "get")
    /\ UNCHANGED <<now, rates, bonuses, admins, cache, route, changed>>

CacheHit(c) ==
    /\ pc[c] = "get" /\ cache.held
    /\ Priced(c, cache.route)
    /\ UNCHANGED <<now, rates, bonuses, admins, cache, at, changed>>

\* No entry, or Redis fails.
CacheMiss(c) ==
    /\ pc[c] = "get"
    /\ Goto(c, "rate")
    /\ UNCHANGED <<now, rates, bonuses, admins, cache, at, route, price, changed>>

\* Variant: a transfer takes its route from the cache.
StartTransferCached(c) ==
    /\ c \in Transfers /\ pc[c] = "idle"
    /\ at' = [at EXCEPT ![c] = now]
    /\ Goto(c, "get")
    /\ UNCHANGED <<now, rates, bonuses, admins, cache, route, price, changed>>

StartTransfer(c) ==
    /\ c \in Transfers /\ pc[c] = "idle"
    /\ at' = [at EXCEPT ![c] = now]
    /\ Goto(c, "rate")
    /\ UNCHANGED <<now, rates, bonuses, admins, cache, route, price, changed>>

LoadRate(c) ==
    /\ pc[c] = "rate"
    /\ route' = [route EXCEPT ![c].rate = ActiveRate(rates, at[c])]
    /\ Goto(c, "bonus")
    /\ UNCHANGED <<now, rates, bonuses, admins, cache, at, price, changed>>

\* A bonus committed between the two queries for bonuses changes the result as
\* if it had been committed before both or after both.
Loaded(c) ==
    LET rate  == route[c].rate
        bonus == ActiveBonus(bonuses, at[c])
    IN  [rate |-> rate, bonus |-> bonus,
         valid_until |-> ValidUntil(rate, bonus, bonuses, at[c])]

LoadBonus(c) ==
    /\ pc[c] = "bonus"
    /\ \/ /\ c \in Transfers
          /\ Priced(c, Loaded(c))
       \/ /\ c \in Quotes
          /\ route' = [route EXCEPT ![c] = Loaded(c)]
          /\ Goto(c, "set")
          /\ UNCHANGED price
    /\ UNCHANGED <<now, rates, bonuses, admins, cache, at, changed>>

\* Variant: an entry lives for the whole TTL.
FullTtl(r, from) == Ttl

\* The TTL counts from the clock read, the entry lives from the SET.
EntryTtl(r, from) == Min({Ttl, r.valid_until - from})

CacheSet(c) ==
    LET ttl == EntryTtl(route[c], at[c]) IN
    /\ pc[c] = "set"
    /\ \/ ttl > 0 /\ cache' = [held |-> TRUE, route |-> route[c], expires_at |-> now + ttl]
       \/ UNCHANGED cache
    /\ Priced(c, route[c])
    /\ UNCHANGED <<now, rates, bonuses, admins, at, changed>>

\* Callers and open changes take no longer than their bounds.
Tick ==
    /\ now < MaxTime
    /\ \A c \in Callers : pc[c] \in {"get", "rate", "bonus", "set"} => now - at[c] < MaxLoad
    /\ \A a \in Admins : admin[a] = "stamped" => now - draft[a].at < MaxCommit
    /\ now' = now + 1
    /\ cache' = IF cache.held /\ cache.expires_at <= now + 1 THEN NoEntry ELSE cache
    /\ UNCHANGED <<rates, bonuses, admins, callers, changed>>
-----------------------------------------------------------------------------
Next ==
    \/ \E a \in Admins : StampRate(a) \/ CommitRate(a) \/ RollbackRate(a)
                            \/ CreateBonus(a) \/ Invalidate(a)
    \/ \E c \in Callers : StartQuote(c) \/ CacheHit(c) \/ CacheMiss(c)
                            \/ StartTransfer(c) \/ LoadRate(c) \/ LoadBonus(c) \/ CacheSet(c)
    \/ Tick

Spec == Init /\ [][Next]_vars
-----------------------------------------------------------------------------
(***************************************************************************)
(* Properties                                                              *)
(***************************************************************************)
\* "at any moment exactly one applies": from the first version on, every
\* moment up to now belongs to exactly one version of the rate.
OneVersionApplies ==
    \A t \in 0 .. now :
        rates # <<>> /\ rates[1].effective_from <= t =>
            /\ \E i \in 1 .. Len(rates) : InForce(rates[i], t)
            /\ \A i, j \in 1 .. Len(rates) :
                  InForce(rates[i], t) /\ InForce(rates[j], t) => i = j

\* "every transfer's rate_id keeps pointing at the unchanged terms it was
\* priced with", whatever admins do later.
TermsNeverChange ==
    \A c \in Transfers :
        price[c].version # 0 =>
            /\ price[c].version <= Len(rates)
            /\ rates[price[c].version].terms = price[c].terms

\* A transfer is priced with the version in force when it read the clock; it
\* may miss a change only while that change is being committed.
PricedInForce ==
    \A c \in Transfers :
        price[c].version # 0 =>
            LET row == rates[price[c].version] IN
            row.effective_from <= at[c] /\ at[c] <= row.effective_to + MaxCommit

\* No price contains a bonus that was not running when its caller read the
\* clock, even from a cache entry that outlived the bonus.
BonusIsReal ==
    \A c \in Callers :
        price[c].bps # 0 =>
            \E b \in bonuses : b.bonus_bps = price[c].bps /\ b.starts_at <= at[c] /\ at[c] < b.ends_at

\* The price of an amount that the database gives for the moment t.
InDatabase(t) == [version |-> ActiveRate(rates, t).version,
                  bps |-> AppliedBps(ActiveBonus(bonuses, t), t)]

\* A quote differs from the database only for a bounded time: for the TTL and
\* one load after a change, for one load after a bonus starts by itself, and
\* if a bonus ends between its clock read and its answer (from an entry that
\* another quote made after the end).
QuoteIsRecent ==
    [][\A c \in Quotes :
          pc[c] # "done" /\ pc'[c] = "done" =>
             \/ [version |-> price'[c].version, bps |-> price'[c].bps] = InDatabase(at[c])
             \/ now - changed < Ttl + MaxLoad
             \/ \E b \in bonuses :
                   \/ b.starts_at <= at[c] /\ at[c] < b.starts_at + MaxLoad
                   \/ at[c] < b.ends_at /\ b.ends_at <= now]_vars

\* Both steps round down: two amounts priced with one version and one bonus
\* never yield more together than the price of their sum.
SplittingNeverPays ==
    \A c, d \in Callers :
        /\ price[c].version # 0 /\ price[c].version = price[d].version
        /\ price[c].bps = price[d].bps
        /\ Limit(price[c].terms, amount[c] + amount[d]) = "ok"
        => LET bonus == [bonus_bps |-> price[c].bps, starts_at |-> 0, ends_at |-> 1]
               whole == calculate_conversion(price[c].terms, amount[c] + amount[d], bonus, 0)
           IN  price[c].points.destination_points + price[d].points.destination_points
                  <= whole.destination_points
=============================================================================
