------------------------- MODULE RatePricingProofs -------------------------
(***************************************************************************)
(* TLAPS proofs about rates and prices, for any number of admins, callers, *)
(* versions and bonuses, and for any times within the bounds.              *)
(*                                                                         *)
(* The versions of a rate stay a gapless history (History), because a      *)
(* change closes the open version at the moment its own begins and every   *)
(* older one began before.  A row keeps its terms and its beginning, and   *)
(* its end moves only to a moment at most MaxCommit ago, so a transfer     *)
(* that found a version in force stays backed by it (Backed).              *)
(*                                                                         *)
(* Three layers: IInv, for the versions and who rests on them; SoundInv,   *)
(* for what a price is worth; RecentInv, for how old an entry of the cache *)
(* may be.  Each is inductive given the ones before it.                    *)
(***************************************************************************)
EXTENDS RatePricing, ArithmeticLemmas

\* The version that a price, or a rate loaded at the moment t, rests on.
Backed(rows, version, terms, t) ==
    /\ version \in 1 .. Len(rows)
    /\ rows[version].terms = terms
    /\ rows[version].effective_from <= t
    /\ t <= rows[version].effective_to + MaxCommit

RateInv == rates \in Seq(RateRows) /\ History(rates)

ClockInv == now \in Nat /\ now <= MaxTime

DraftInv ==
    /\ admin = [a \in Admins |-> admin[a]]
    /\ draft = [a \in Admins |-> draft[a]]
    /\ \A a \in Admins : admin[a] = "stamped" =>
          /\ draft[a].terms \in RateTerms /\ draft[a].at \in Nat
          /\ draft[a].at <= now /\ now <= draft[a].at + MaxCommit

CallerTypes ==
    /\ pc = [c \in Callers |-> pc[c]]
    /\ at \in [Callers -> Nat]
    /\ route = [c \in Callers |-> route[c]]
    /\ price = [c \in Callers |-> price[c]]

\* Bonuses that were loaded, or are cached, are rows.
Known(bonus) == bonus \in bonuses \cup {NoBonus}

CacheInv == cache.held = TRUE => Known(cache.route.bonus)

\* Where a caller is tells what it holds.
Holds(c) ==
    /\ at[c] <= now
    /\ pc[c] \notin {"bonus", "set"} => route[c] = NoRoute
    /\ pc[c] # "done" => price[c] = NoPrice
    /\ Known(route[c].bonus)
    /\ price[c].bps # 0 =>
          \E b \in bonuses : /\ b.bonus_bps = price[c].bps
                             /\ b.starts_at <= at[c] /\ at[c] < b.ends_at

\* A transfer never looks at the cache, and its version backs it.
Honest(c) ==
    /\ pc[c] \in {"idle", "rate", "bonus", "done"}
    /\ pc[c] = "bonus" /\ route[c].rate # NoRate =>
          Backed(rates, route[c].rate.version, route[c].rate.terms, at[c])
    /\ price[c].version # 0 =>
          Backed(rates, price[c].version, price[c].terms, at[c])

CallerInv ==
    /\ \A c \in Callers : Holds(c)
    /\ \A c \in Transfers : Honest(c)

IInv ==
    /\ RateInv /\ ClockInv /\ DraftInv
    /\ CallerTypes /\ CacheInv /\ CallerInv

-----------------------------------------------------------------------------
(* A rate change *)

\* The numbers among the constants.
LEMMA Bounds ==
    /\ Ttl \in Nat \ {0} /\ MaxLoad \in Nat /\ MaxCommit \in Nat
    /\ MaxTime \in Nat /\ Forever \in Nat /\ MaxTime < Forever
<1>1. /\ Ttl \in Nat \ {0} /\ MaxLoad \in Nat /\ MaxCommit \in Nat
      /\ MaxTime \in Nat /\ Forever \in Nat /\ MaxTime + Ttl < Forever
  BY Zenon, PricingAssumption
<1> QED  BY SMTT(30), <1>1

\* The columns of conversion_rates.
LEMMA RowFields ==
    ASSUME NEW r \in RateRows
    PROVE  /\ r.version \in Nat \ {0} /\ r.terms \in RateTerms
           /\ r.effective_from \in Int /\ r.effective_to \in Int
  BY SMTT(30) DEF RateRows

\* Closing a row changes nothing but its end.
Ended(r, end) == [r EXCEPT !.effective_to = end]

\* Closing a version changes its end and nothing else.
LEMMA EndedRow ==
    ASSUME NEW r \in RateRows, NEW end \in Nat
    PROVE  /\ Ended(r, end) \in RateRows
           /\ Ended(r, end).version = r.version
           /\ Ended(r, end).terms = r.terms
           /\ Ended(r, end).effective_from = r.effective_from
           /\ Ended(r, end).effective_to = end
  BY SMTT(30) DEF RateRows, Ended

\* A row after a change: an open one is closed.
SameBut(old, new, end) ==
    /\ new \in RateRows
    /\ new.version = old.version /\ new.terms = old.terms
    /\ new.effective_from = old.effective_from
    /\ old.effective_to = Forever => new.effective_to = end
    /\ old.effective_to # Forever => new.effective_to = old.effective_to

\* The table after a change: the rows so far and the new version.
After(rows, end, v, new) ==
    /\ new \in Seq(RateRows) /\ Len(new) = Len(rows) + 1
    /\ new[Len(rows) + 1] = v
    /\ \A i \in 1 .. Len(rows) : SameBut(rows[i], new[i], end)

\* The table after create_rate_version, row by row.
LEMMA RowsAfter ==
    ASSUME NEW rows \in Seq(RateRows), NEW end \in Nat, NEW v \in RateRows
    PROVE  After(rows, end, v, Append(Closed(rows, end), v))
<1> DEFINE closed == Closed(rows, end)
<1>1. ASSUME NEW i \in 1 .. Len(rows)
      PROVE  SameBut(rows[i], closed[i], end)
  <2>1. rows[i] \in RateRows
    BY SMTT(30)
  <2>2. closed[i] = IF rows[i].effective_to = Forever
                    THEN Ended(rows[i], end) ELSE rows[i]
    BY Zenon DEF Closed, Ended
  <2> HIDE DEF closed
  <2>3. CASE rows[i].effective_to = Forever
    <3>1. closed[i] = Ended(rows[i], end)
      BY Zenon, <2>2, <2>3
    <3>2. SameBut(rows[i], Ended(rows[i], end), end)
      BY Zenon, <2>1, <2>3, EndedRow DEF SameBut
    <3> QED  BY Zenon, <3>1, <3>2
  <2>4. CASE rows[i].effective_to # Forever
    <3>1. closed[i] = rows[i]
      BY Zenon, <2>2, <2>4
    <3> QED  BY Zenon, <2>1, <2>4, <3>1 DEF SameBut
  <2> QED  BY Zenon, <2>3, <2>4
<1>2. closed = [i \in 1 .. Len(rows) |-> closed[i]] /\ Len(rows) \in Nat
  BY SMTT(30) DEF Closed
<1>3. \A i \in 1 .. Len(rows) : closed[i] \in RateRows
  BY Zenon, <1>1 DEF SameBut
<1> HIDE DEF closed
<1>4. closed \in Seq(RateRows) /\ Len(closed) = Len(rows)
  BY SMTT(30), <1>2, <1>3
<1>5. LET new == Append(closed, v) IN
      /\ new \in Seq(RateRows) /\ Len(new) = Len(rows) + 1
      /\ new[Len(rows) + 1] = v
      /\ \A i \in 1 .. Len(rows) : new[i] = closed[i]
  BY SMTT(30), <1>4
<1>6. After(rows, end, v, Append(closed, v))
  BY Zenon, <1>1, <1>5 DEF After
<1> QED  BY Zenon, <1>6 DEF closed

\* create_rate_version keeps the history gapless.
LEMMA CommitKeepsHistory ==
    ASSUME NEW rows \in Seq(RateRows), History(rows), NEW end \in Nat,
           end < Forever, NEW v \in RateRows, v.version = Len(rows) + 1,
           v.effective_from = end, v.effective_to = Forever,
           \A i \in 1 .. Len(rows) : rows[i].effective_from < end,
           NEW new, After(rows, end, v, new)
    PROVE  History(new)
<1> DEFINE n == Len(rows)
<1>0. /\ new \in Seq(RateRows) /\ Len(new) = n + 1 /\ new[n + 1] = v
      /\ \A i \in 1 .. n :
           /\ new[i].version = rows[i].version
           /\ new[i].effective_from = rows[i].effective_from
           /\ rows[i].effective_to = Forever => new[i].effective_to = end
           /\ rows[i].effective_to # Forever =>
                 new[i].effective_to = rows[i].effective_to
  BY Zenon DEF After, SameBut
<1>1. n \in Nat /\ Forever \in Nat
  BY SMTT(30), Bounds
<1>2. ASSUME NEW i \in 1 .. n
      PROVE  /\ rows[i].effective_from \in Int /\ rows[i].effective_to \in Int
             /\ rows[i].effective_from < end
             /\ rows[i].version = i
             /\ rows[i].effective_from < rows[i].effective_to
             /\ rows[i].effective_to <= Forever
  <2>1. rows[i] \in RateRows
    BY SMTT(30)
  <2> QED  BY Zenon, <2>1, RowFields DEF History
<1>3. \A i, j \in 1 .. n :
        i < j => rows[i].effective_to <= rows[j].effective_from
  BY Zenon DEF History
<1>4. ASSUME NEW i \in 1 .. n, rows[i].effective_to # Forever
      PROVE  rows[i].effective_to < end
  <2>1. rows # <<>>
    BY SMTT(30)
  <2>2. rows[n].effective_to = Forever
    BY Zenon, <2>1 DEF History
  <2>3. i < n /\ n \in 1 .. n
    BY SMTT(30), <1>1, <1>4, <2>2
  <2>4. rows[i].effective_to <= rows[n].effective_from
    BY Zenon, <1>3, <2>3
  <2>5. rows[n].effective_from < end /\ rows[n].effective_from \in Int
    BY Zenon, <1>2, <2>3
  <2>6. rows[i].effective_to \in Int
    BY Zenon, <1>2
  <2> QED  BY SMTT(30), <2>4, <2>5, <2>6
<1>5. ASSUME NEW i \in 1 .. n
      PROVE  /\ new[i].effective_to \in Int
             /\ new[i].effective_from < new[i].effective_to
             /\ new[i].effective_to <= end
             /\ new[i].effective_to <= rows[i].effective_to
  <2> HIDE DEF n
  <2>1. CASE rows[i].effective_to = Forever
    <3>1. /\ new[i].effective_to = end
          /\ new[i].effective_from = rows[i].effective_from
          /\ rows[i].effective_from < end
      BY Zenon, <1>0, <1>2, <2>1
    <3>2. end \in Int /\ end <= end /\ end <= Forever
      BY SMTT(30), <1>1
    <3> QED  BY Zenon, <2>1, <3>1, <3>2
  <2>2. CASE rows[i].effective_to # Forever
    <3>1. /\ new[i].effective_to = rows[i].effective_to
          /\ new[i].effective_from = rows[i].effective_from
          /\ rows[i].effective_from < rows[i].effective_to
          /\ rows[i].effective_to \in Int /\ rows[i].effective_to < end
      BY Zenon, <1>0, <1>2, <1>4, <2>2
    <3>2. /\ rows[i].effective_to <= end
          /\ rows[i].effective_to <= rows[i].effective_to
      BY SMTT(30), <3>1
    <3> QED  BY Zenon, <3>1, <3>2
  <2> QED  BY Zenon, <2>1, <2>2
<1>c. ASSUME NEW i \in 1 .. n + 1  PROVE i \in 1 .. n \/ i = n + 1
  BY SMTT(30), <1>1
<1>6. ASSUME NEW i \in 1 .. n + 1
      PROVE  /\ new[i].version = i
             /\ new[i].effective_from < new[i].effective_to
             /\ new[i].effective_to <= Forever
  <2> HIDE DEF n
  <2>1. CASE i \in 1 .. n
    <3>1. new[i].effective_to <= Forever
      BY SMTT(30), <1>1, <1>5, <2>1
    <3> QED  BY Zenon, <1>0, <1>2, <1>5, <2>1, <3>1
  <2>2. CASE i = n + 1
    <3>1. new[i] = v /\ v.version = n + 1
      BY Zenon, <1>0, <2>2 DEF n
    <3> QED  BY SMTT(30), <1>1, <2>2, <3>1
  <2> QED  BY Zenon, <1>c, <2>1, <2>2
<1>7. ASSUME NEW i \in 1 .. n + 1, NEW j \in 1 .. n + 1, i < j
      PROVE  new[i].effective_to <= new[j].effective_from
  <2> HIDE DEF n
  <2>1. i \in 1 .. n
    BY SMTT(30), <1>1, <1>7
  <2>2. CASE j = n + 1
    BY Zenon, <1>0, <1>5, <2>1, <2>2
  <2>3. CASE j \in 1 .. n
    <3>1. rows[i].effective_to <= rows[j].effective_from
      BY Zenon, <1>3, <1>7, <2>1, <2>3
    <3>2. /\ new[i].effective_to <= rows[i].effective_to
          /\ new[i].effective_to \in Int /\ rows[i].effective_to \in Int
          /\ rows[j].effective_from \in Int
          /\ new[j].effective_from = rows[j].effective_from
      BY Zenon, <1>0, <1>2, <1>5, <2>1, <2>3
    <3> QED  BY SMTT(30), <3>1, <3>2
  <2> QED  BY Zenon, <1>c, <2>2, <2>3
<1>8. ASSUME NEW t \in 0 .. Forever - 1, new[1].effective_from <= t
      PROVE  \E i \in 1 .. n + 1 : InForce(new[i], t)
  <2> HIDE DEF n
  <2>0. t \in Nat /\ t < Forever /\ n + 1 \in 1 .. n + 1
    BY SMTT(30), <1>1
  <2>1. CASE end <= t
    BY Zenon, <1>0, <2>0, <2>1 DEF InForce
  <2>2. CASE t < end
    <3>1. n # 0
      BY SMTT(30), <1>0, <1>8, <2>0, <2>2
    <3>2. rows # <<>> /\ 1 \in 1 .. n
      BY SMTT(30), <1>1, <3>1 DEF n
    <3>3. rows[1].effective_from <= t
      BY Zenon, <1>0, <1>8, <3>2
    <3>4. PICK i \in 1 .. n : InForce(rows[i], t)
      BY Zenon, <3>2, <3>3 DEF History, n
    <3>5. i \in 1 .. n + 1
      BY SMTT(30), <1>1
    <3>6. InForce(new[i], t)
      BY Zenon, <1>0, <2>2, <3>4 DEF InForce
    <3> QED  BY Zenon, <3>5, <3>6
  <2>3. end <= t \/ t < end
    BY SMTT(30), <2>0
  <2> QED  BY Zenon, <2>1, <2>2, <2>3
<1>9. new[Len(new)].effective_to = Forever
  BY Zenon, <1>0
<1> QED  BY Zenon, <1>0, <1>6, <1>7, <1>8, <1>9 DEF History

\* What backed a price still does: its row keeps terms and beginning, and if
\* it is closed, then at a moment that is not long ago.
LEMMA CommitBacks ==
    ASSUME NEW rows \in Seq(RateRows), NEW end \in Nat, NEW v, NEW new,
           After(rows, end, v, new), NEW t \in Nat, t <= end + MaxCommit,
           NEW version, NEW terms, Backed(rows, version, terms, t)
    PROVE  Backed(new, version, terms, t)
<1>1. version \in 1 .. Len(rows) /\ Len(new) = Len(rows) + 1
  BY Zenon DEF Backed, After
<1>2. version \in 1 .. Len(new)
  <2>1. Len(rows) \in Nat
    BY SMTT(30)
  <2> QED  BY SMTT(30), <1>1, <2>1
<1>3. SameBut(rows[version], new[version], end)
  BY Zenon, <1>1 DEF After
<1>4. t <= new[version].effective_to + MaxCommit
  BY Zenon, <1>3 DEF SameBut, Backed
<1> QED  BY Zenon, <1>2, <1>3, <1>4 DEF Backed, SameBut

\* No two versions are in force at one moment.
LEMMA OneInForce ==
    ASSUME NEW rows \in Seq(RateRows), History(rows), NEW t \in Nat,
           NEW i \in 1 .. Len(rows), NEW j \in 1 .. Len(rows),
           InForce(rows[i], t), InForce(rows[j], t)
    PROVE  i = j
<1>1. ASSUME NEW k \in 1 .. Len(rows), NEW l \in 1 .. Len(rows), k < l,
             InForce(rows[k], t), InForce(rows[l], t)
      PROVE  FALSE
  <2>1. rows[k] \in RateRows /\ rows[l] \in RateRows
    BY SMTT(30)
  <2>2. rows[k].effective_to \in Int /\ rows[l].effective_from \in Int
    BY Zenon, <2>1, RowFields
  <2>3. /\ rows[k].effective_to <= rows[l].effective_from
        /\ rows[l].effective_from <= t /\ rows[k].effective_to > t
    BY Zenon, <1>1 DEF History, InForce
  <2> QED  BY SMTT(30), <2>2, <2>3
<1>2. i < j \/ j < i \/ i = j
  BY SMTT(30)
<1> QED  BY Zenon, <1>1, <1>2

\* get_route: the version it finds backs a price made for that moment.
LEMMA ActiveIsBacked ==
    ASSUME NEW rows \in Seq(RateRows), History(rows), NEW t \in Nat,
           ActiveRate(rows, t) # NoRate
    PROVE  Backed(rows, ActiveRate(rows, t).version,
                  ActiveRate(rows, t).terms, t)
<1> DEFINE live == {i \in 1 .. Len(rows) : InForce(rows[i], t)}
           last == CHOOSE i \in live : \A j \in live :
                      rows[j].effective_from <= rows[i].effective_from
<1>1. live # {} /\ ActiveRate(rows, t) = rows[last]
  BY Zenon DEF ActiveRate
<1>2. PICK k \in live : TRUE
  BY Zenon, <1>1
<1>3. k \in 1 .. Len(rows) /\ rows[k] \in RateRows
  BY SMTT(30), <1>2
<1>4. rows[k].effective_from \in Int /\ rows[k].effective_to \in Int
  BY Zenon, <1>3, RowFields
<1>5. rows[k].effective_from <= rows[k].effective_from
  BY SMTT(30), <1>4
<1>6. \A j \in live : j = k
  BY Zenon, <1>2, OneInForce
<1>7. last = k
  BY Zenon, <1>2, <1>5, <1>6
<1>8. rows[k].version = k /\ InForce(rows[k], t)
  BY Zenon, <1>2, <1>3 DEF History
<1>9. t <= rows[k].effective_to + MaxCommit
  BY SMTT(30), <1>4, <1>8, Bounds DEF InForce
<1> HIDE DEF last
<1> QED  BY Zenon, <1>1, <1>3, <1>7, <1>8, <1>9 DEF Backed, InForce

-----------------------------------------------------------------------------
(* Prices *)

\* A bonus that get_route finds is a row.
LEMMA ActiveBonusKnown == \A t : Known(ActiveBonus(bonuses, t))
  BY Zenon DEF Known, ActiveBonus

\* What a price remembers of the route it was made from.
LEMMA PriceFields ==
    ASSUME NEW c \in Callers, NEW r
    PROVE  /\ r.rate = NoRate =>
                 PriceOf(c, r).version = 0 /\ PriceOf(c, r).bps = 0
           /\ r.rate # NoRate =>
                 /\ PriceOf(c, r).version = r.rate.version
                 /\ PriceOf(c, r).terms = r.rate.terms
                 /\ PriceOf(c, r).bps = AppliedBps(r.bonus, at[c])
<1>1. CASE r.rate = NoRate
  <2>1. PriceOf(c, r) = [NoPrice EXCEPT !.points =
                           Refused("ROUTE_NOT_SUPPORTED")]
    BY Zenon, <1>1 DEF PriceOf
  <2>2. PriceOf(c, r).version = NoPrice.version
          /\ PriceOf(c, r).bps = NoPrice.bps
    BY SMTT(30), <2>1 DEF NoPrice
  <2> QED  BY SMTT(30), <1>1, <2>2 DEF NoPrice
<1>2. CASE r.rate # NoRate
  <2> DEFINE points == calculate_conversion(r.rate.terms, amount[c], r.bonus,
                                            at[c])
             bps == AppliedBps(r.bonus, at[c])
  <2>1. PriceOf(c, r) = [version |-> r.rate.version, terms |-> r.rate.terms,
                         bps |-> bps, points |-> points]
    BY Zenon, <1>2 DEF PriceOf
  <2> HIDE DEF points, bps
  <2>2. /\ PriceOf(c, r).version = r.rate.version
        /\ PriceOf(c, r).terms = r.rate.terms
        /\ PriceOf(c, r).bps = bps
    BY SMTT(30), <2>1
  <2> QED  BY Zenon, <1>2, <2>2 DEF bps
<1> QED  BY Zenon, <1>1, <1>2

\* calculate_conversion applies a bonus only while it runs.
LEMMA PriceBonus ==
    ASSUME NEW c \in Callers, NEW r, Known(r.bonus), PriceOf(c, r).bps # 0
    PROVE  \E b \in bonuses : /\ b.bonus_bps = PriceOf(c, r).bps
                              /\ b.starts_at <= at[c] /\ at[c] < b.ends_at
<1>1. PriceOf(c, r).bps = AppliedBps(r.bonus, at[c])
  BY Zenon, PriceFields
<1>2. /\ applies_at(r.bonus, at[c])
      /\ PriceOf(c, r).bps = r.bonus.bonus_bps
  BY Zenon, <1>1 DEF AppliedBps
<1>3. NoBonus.bonus_bps = 0
  BY SMTT(30) DEF NoBonus
<1>4. r.bonus \in bonuses
  BY Zenon, <1>2, <1>3 DEF Known
<1> QED  BY Zenon, <1>2, <1>4 DEF applies_at

-----------------------------------------------------------------------------
(* The steps of callers *)

\* A caller's step concerns itself and the cache.
LEMMA CallerFrame ==
    ASSUME IInv, NEW c \in Callers,
           UNCHANGED <<now, rates, bonuses, admins>>,
           CallerTypes', CacheInv', Holds(c)', c \in Transfers => Honest(c)',
           \A d \in Callers \ {c} :
              /\ pc'[d] = pc[d] /\ at'[d] = at[d]
              /\ route'[d] = route[d] /\ price'[d] = price[d]
    PROVE  IInv'
<1>1. RateInv' /\ ClockInv' /\ DraftInv'
  BY Zenon DEF IInv, RateInv, ClockInv, DraftInv, admins
<1>2. ASSUME NEW d \in Callers \ {c}  PROVE Holds(d)'
  <2>1. Holds(d)
    BY Zenon DEF IInv, CallerInv
  <2> QED  BY Zenon, <1>2, <2>1 DEF Holds, Known
<1>3. ASSUME NEW d \in Transfers \ {c}  PROVE Honest(d)'
  <2>1. Honest(d) /\ d \in Callers \ {c}
    BY Zenon DEF IInv, CallerInv, Callers
  <2> QED  BY Zenon, <2>1 DEF Honest
<1>4. CallerInv'
  BY Zenon, <1>2, <1>3 DEF CallerInv
<1> QED  BY Zenon, <1>1, <1>4 DEF IInv

\* The empty route and the empty price.
LEMMA NoRouteFields ==
    /\ NoRoute.bonus = NoBonus /\ NoRoute.rate = NoRate
    /\ NoPrice.version = 0 /\ NoPrice.bps = 0
  BY SMTT(30) DEF NoRoute, NoPrice

\* A step that writes single entries of the callers' functions.
LEMMA EntryFrame ==
    ASSUME CallerTypes, NEW c \in Callers, NEW s, Goto(c, s)
    PROVE  /\ pc' = [d \in Callers |-> pc'[d]] /\ pc'[c] = s
           /\ \A d \in Callers \ {c} : pc'[d] = pc[d]
  BY Zenon DEF CallerTypes, Goto

\* The end of a quote or of a transfer's pricing, from whatever route r.
LEMMA PricedStep ==
    ASSUME IInv, NEW c \in Callers, NEW r, Priced(c, r), Known(r.bonus),
           c \in Transfers /\ r.rate # NoRate =>
              Backed(rates, r.rate.version, r.rate.terms, at[c]),
           UNCHANGED <<now, rates, bonuses, admins, at>>, CacheInv'
    PROVE  IInv'
<1> DEFINE p == PriceOf(c, r)
<1>t. CallerTypes /\ Holds(c) /\ (c \in Transfers => Honest(c))
  BY Zenon DEF IInv, CallerInv
<1>1. /\ price' = [price EXCEPT ![c] = p]
      /\ route' = [route EXCEPT ![c] = NoRoute] /\ Goto(c, "done")
  BY Zenon DEF Priced
<1>b. ASSUME p.bps # 0
      PROVE  \E b \in bonuses : /\ b.bonus_bps = p.bps
                                /\ b.starts_at <= at[c] /\ at[c] < b.ends_at
  BY Zenon, <1>b, PriceBonus
<1>v. ASSUME c \in Transfers, p.version # 0
      PROVE  Backed(rates, p.version, p.terms, at[c])
  <2>1. /\ r.rate # NoRate
        /\ p.version = r.rate.version /\ p.terms = r.rate.terms
    BY Zenon, <1>v, PriceFields
  <2> HIDE DEF p
  <2> QED  BY Zenon, <1>v, <2>1
<1> HIDE DEF p
<1>2. /\ price' = [d \in Callers |-> price'[d]] /\ price'[c] = p
      /\ \A d \in Callers \ {c} : price'[d] = price[d]
  BY Zenon, <1>t, <1>1 DEF CallerTypes
<1>3. /\ route' = [d \in Callers |-> route'[d]] /\ route'[c] = NoRoute
      /\ \A d \in Callers \ {c} : route'[d] = route[d]
  BY Zenon, <1>t, <1>1 DEF CallerTypes
<1>4. /\ pc' = [d \in Callers |-> pc'[d]] /\ pc'[c] = "done"
      /\ \A d \in Callers \ {c} : pc'[d] = pc[d]
  BY Zenon, <1>t, <1>1, EntryFrame
<1>5. CallerTypes'
  BY Zenon, <1>t, <1>2, <1>3, <1>4 DEF CallerTypes
<1>6. Holds(c)'
  <2>1. at'[c] <= now'
    BY Zenon, <1>t DEF Holds
  <2>2. Known(route[c].bonus)'
    BY Zenon, <1>3, NoRouteFields DEF Known
  <2>3. price'[c].bps # 0 =>
          \E b \in bonuses' : /\ b.bonus_bps = price'[c].bps
                              /\ b.starts_at <= at'[c] /\ at'[c] < b.ends_at
    BY Zenon, <1>b, <1>2
  <2> QED  BY Zenon, <1>3, <1>4, <2>1, <2>2, <2>3 DEF Holds
<1>7. c \in Transfers => Honest(c)'
  BY Zenon, <1>v, <1>2, <1>3, <1>4 DEF Honest
<1> QED  BY Zenon, <1>2, <1>3, <1>4, <1>5, <1>6, <1>7, CallerFrame

\* The steps before the price.
LEMMA LookupStep ==
    ASSUME IInv, NEW c \in Callers,
           StartQuote(c) \/ CacheMiss(c) \/ StartTransfer(c) \/ LoadRate(c)
    PROVE  IInv'
<1>t. /\ CallerTypes /\ Holds(c) /\ (c \in Transfers => Honest(c))
      /\ RateInv /\ ClockInv /\ CacheInv
  BY Zenon DEF IInv, CallerInv
<1>u. UNCHANGED <<now, rates, bonuses, admins, cache>>
  BY Zenon DEF StartQuote, CacheMiss, StartTransfer, LoadRate
<1>c. CacheInv'
  BY Zenon, <1>t, <1>u DEF CacheInv, Known
<1>n. now <= now /\ now \in Nat
  BY SMTT(30), <1>t DEF ClockInv
<1>1. CASE StartQuote(c)
  <2>1. /\ c \notin Transfers /\ pc[c] \notin {"bonus", "set"}
        /\ at' = [at EXCEPT ![c] = now]
        /\ price' = [price EXCEPT ![c] = NoPrice]
        /\ Goto(c, "get") /\ UNCHANGED route
    BY Zenon, <1>1, PricingAssumption DEF StartQuote
  <2>2. /\ price' = [d \in Callers |-> price'[d]] /\ price'[c] = NoPrice
        /\ \A d \in Callers \ {c} : price'[d] = price[d]
    BY Zenon, <1>t, <2>1 DEF CallerTypes
  <2>3. /\ at' \in [Callers -> Nat] /\ at'[c] = now
        /\ \A d \in Callers \ {c} : at'[d] = at[d]
    BY Zenon, <1>t, <1>n, <2>1 DEF CallerTypes
  <2>4. /\ pc' = [d \in Callers |-> pc'[d]] /\ pc'[c] = "get"
        /\ \A d \in Callers \ {c} : pc'[d] = pc[d]
    BY Zenon, <1>t, <2>1, EntryFrame
  <2>5. CallerTypes'
    BY Zenon, <1>t, <2>1, <2>2, <2>3, <2>4 DEF CallerTypes
  <2>6. Holds(c)'
    BY Zenon, <1>t, <1>n, <1>u, <2>1, <2>2, <2>3, <2>4, NoRouteFields
    DEF Holds, Known
  <2> QED  BY Zenon, <1>c, <1>u, <2>1, <2>2, <2>3, <2>4, <2>5, <2>6, CallerFrame
<1>2. CASE StartTransfer(c)
  <2>1. /\ c \in Transfers /\ pc[c] = "idle"
        /\ at' = [at EXCEPT ![c] = now] /\ Goto(c, "rate")
        /\ UNCHANGED <<route, price>>
    BY Zenon, <1>2 DEF StartTransfer
  <2>3. /\ at' \in [Callers -> Nat] /\ at'[c] = now
        /\ \A d \in Callers \ {c} : at'[d] = at[d]
    BY Zenon, <1>t, <1>n, <2>1 DEF CallerTypes
  <2>4. /\ pc' = [d \in Callers |-> pc'[d]] /\ pc'[c] = "rate"
        /\ \A d \in Callers \ {c} : pc'[d] = pc[d]
    BY Zenon, <1>t, <2>1, EntryFrame
  <2>5. CallerTypes'
    BY Zenon, <1>t, <2>1, <2>3, <2>4 DEF CallerTypes
  <2>6. price[c] = NoPrice /\ route[c] = NoRoute
    BY Zenon, <1>t, <2>1 DEF Holds
  <2>7. Holds(c)'
    BY Zenon, <1>t, <1>n, <1>u, <2>1, <2>3, <2>4, <2>6, NoRouteFields
    DEF Holds, Known
  <2>8. Honest(c)'
    BY Zenon, <2>1, <2>4, <2>6, NoRouteFields DEF Honest
  <2> QED  BY Zenon, <1>c, <1>u, <2>1, <2>3, <2>4, <2>5, <2>7, <2>8, CallerFrame
<1>3. CASE CacheMiss(c)
  <2>1. pc[c] = "get" /\ Goto(c, "rate") /\ UNCHANGED <<at, route, price>>
    BY Zenon, <1>3 DEF CacheMiss
  <2>2. /\ pc' = [d \in Callers |-> pc'[d]] /\ pc'[c] = "rate"
        /\ \A d \in Callers \ {c} : pc'[d] = pc[d]
    BY Zenon, <1>t, <2>1, EntryFrame
  <2>3. CallerTypes'
    BY Zenon, <1>t, <2>1, <2>2 DEF CallerTypes
  <2>4. Holds(c)'
    BY Zenon, <1>t, <1>u, <2>1, <2>2 DEF Holds, Known
  <2>5. c \notin Transfers
    BY Zenon, <1>t, <2>1 DEF Honest
  <2> QED  BY Zenon, <1>c, <1>u, <2>1, <2>2, <2>3, <2>4, <2>5, CallerFrame
<1>4. CASE LoadRate(c)
  <2> DEFINE rate == ActiveRate(rates, at[c])
             loaded == [route[c] EXCEPT !.rate = rate]
  <2>0. at[c] \in Nat
    BY Zenon, <1>t DEF CallerTypes
  <2>1. /\ pc[c] = "rate" /\ Goto(c, "bonus") /\ UNCHANGED <<at, price>>
        /\ route' = [route EXCEPT ![c] = loaded]
    BY Zenon, <1>4 DEF LoadRate
  <2>b. rate # NoRate => Backed(rates, rate.version, rate.terms, at[c])
    BY Zenon, <1>t, <2>0, ActiveIsBacked DEF RateInv
  <2> HIDE DEF rate
  <2>2. route[c] = NoRoute /\ price[c] = NoPrice
    BY Zenon, <1>t, <2>1 DEF Holds
  <2>3. loaded.rate = rate /\ loaded.bonus = NoBonus
    BY SMTT(30), <2>2 DEF NoRoute
  <2> HIDE DEF loaded
  <2>4. /\ route' = [d \in Callers |-> route'[d]] /\ route'[c] = loaded
        /\ \A d \in Callers \ {c} : route'[d] = route[d]
    BY Zenon, <1>t, <2>1 DEF CallerTypes
  <2>5. /\ pc' = [d \in Callers |-> pc'[d]] /\ pc'[c] = "bonus"
        /\ \A d \in Callers \ {c} : pc'[d] = pc[d]
    BY Zenon, <1>t, <2>1, EntryFrame
  <2>6. CallerTypes'
    BY Zenon, <1>t, <2>1, <2>4, <2>5 DEF CallerTypes
  <2>7. Holds(c)'
    BY Zenon, <1>t, <1>u, <2>1, <2>2, <2>3, <2>4, <2>5, NoRouteFields
    DEF Holds, Known
  <2>8. Honest(c)'
    <3>1. route'[c].rate = rate
      BY Zenon, <2>3, <2>4
    <3>2. route'[c].rate # NoRate =>
            Backed(rates', route'[c].rate.version, route'[c].rate.terms, at'[c])
      BY Zenon, <1>u, <2>b, <2>1, <3>1
    <3> QED  BY Zenon, <2>1, <2>2, <2>5, <3>2, NoRouteFields DEF Honest
  <2> QED  BY Zenon, <1>c, <1>u, <2>1, <2>4, <2>5, <2>6, <2>7, <2>8, CallerFrame
<1> QED  BY Zenon, <1>1, <1>2, <1>3, <1>4

\* The steps that end with a price, or on the way to it fill the cache.
LEMMA PriceStep ==
    ASSUME IInv, NEW c \in Callers,
           CacheHit(c) \/ LoadBonus(c) \/ CacheSet(c)
    PROVE  IInv'
<1>t. /\ CallerTypes /\ Holds(c) /\ (c \in Transfers => Honest(c))
      /\ CacheInv
  BY Zenon DEF IInv, CallerInv
<1>u. UNCHANGED <<now, rates, bonuses, admins, at>>
  BY Zenon DEF CacheHit, LoadBonus, CacheSet
<1>c. ASSUME UNCHANGED cache  PROVE CacheInv'
  BY Zenon, <1>t, <1>u, <1>c DEF CacheInv, Known
<1>1. CASE CacheHit(c)
  <2>1. /\ pc[c] = "get" /\ cache.held = TRUE /\ Priced(c, cache.route)
        /\ UNCHANGED cache
    BY Zenon, <1>1 DEF CacheHit
  <2>2. Known(cache.route.bonus) /\ c \notin Transfers
    BY Zenon, <1>t, <2>1 DEF CacheInv, Honest
  <2> QED  BY Zenon, <1>c, <1>u, <2>1, <2>2, PricedStep
<1>2. CASE CacheSet(c)
  <2>1. pc[c] = "set" /\ Priced(c, route[c])
    BY Zenon, <1>2 DEF CacheSet
  <2>2. Known(route[c].bonus) /\ c \notin Transfers
    BY Zenon, <1>t, <2>1 DEF Holds, Honest
  <2>3. CacheInv'
    <3>1. ASSUME NEW n, cache' = [held |-> TRUE, route |-> route[c],
                                  expires_at |-> n]
          PROVE  CacheInv'
      <4>1. cache'.route = route[c]
        BY SMTT(30), <3>1
      <4> QED  BY Zenon, <1>u, <2>2, <4>1 DEF CacheInv, Known
    <3> QED  BY Zenon, <1>2, <1>c, <3>1 DEF CacheSet
  <2> QED  BY Zenon, <1>u, <2>1, <2>2, <2>3, PricedStep
<1>3. CASE LoadBonus(c)
  <2> DEFINE r == Loaded(c)
  <2>1. pc[c] = "bonus" /\ UNCHANGED cache
    BY Zenon, <1>3 DEF LoadBonus
  <2>2. r.rate = route[c].rate /\ r.bonus = ActiveBonus(bonuses, at[c])
    BY Zenon DEF Loaded
  <2>3. Known(r.bonus)
    BY Zenon, <2>2, ActiveBonusKnown
  <2> HIDE DEF r
  <2>4. CASE c \in Transfers /\ Priced(c, r)
    <3>1. r.rate # NoRate =>
             Backed(rates, r.rate.version, r.rate.terms, at[c])
      BY Zenon, <1>t, <2>1, <2>2, <2>4 DEF Honest
    <3> QED  BY Zenon, <1>c, <1>u, <2>1, <2>3, <2>4, <3>1, PricedStep
  <2>5. CASE /\ c \in Quotes /\ route' = [route EXCEPT ![c] = r]
             /\ Goto(c, "set") /\ UNCHANGED price
    <3>1. /\ route' = [d \in Callers |-> route'[d]] /\ route'[c] = r
          /\ \A d \in Callers \ {c} : route'[d] = route[d]
      BY Zenon, <1>t, <2>5 DEF CallerTypes
    <3>2. /\ pc' = [d \in Callers |-> pc'[d]] /\ pc'[c] = "set"
          /\ \A d \in Callers \ {c} : pc'[d] = pc[d]
      BY Zenon, <1>t, <2>5, EntryFrame
    <3>3. CallerTypes'
      BY Zenon, <1>t, <1>u, <2>5, <3>1, <3>2 DEF CallerTypes
    <3>4. Holds(c)'
      BY Zenon, <1>t, <1>u, <2>1, <2>3, <2>5, <3>1, <3>2 DEF Holds, Known
    <3>5. c \notin Transfers
      BY Zenon, <2>5, PricingAssumption
    <3> QED  BY Zenon, <1>c, <1>u, <2>1, <2>5, <3>1, <3>2, <3>3, <3>4, <3>5,
                CallerFrame
  <2> QED  BY Zenon, <1>3, <2>4, <2>5 DEF LoadBonus, r
<1> QED  BY Zenon, <1>1, <1>2, <1>3

-----------------------------------------------------------------------------
(* The steps of admins, and time *)

\* A step that leaves callers alone keeps what they hold, as long as bonuses
\* stay and versions go on backing.
LEMMA AdminFrame ==
    ASSUME IInv, UNCHANGED <<now, callers>>, RateInv', DraftInv', CacheInv',
           bonuses \subseteq bonuses',
           \A c \in Transfers : \A version, terms :
              Backed(rates, version, terms, at[c]) =>
                 Backed(rates', version, terms, at[c])
    PROVE  IInv'
<1>1. ClockInv' /\ CallerTypes'
  BY Zenon DEF IInv, ClockInv, CallerTypes, callers
<1>2. ASSUME NEW c \in Callers  PROVE Holds(c)'
  <2>1. Holds(c) /\ UNCHANGED <<pc, at, route, price>>
    BY Zenon DEF IInv, CallerInv, callers
  <2> QED  BY Zenon, <2>1 DEF Holds, Known
<1>3. ASSUME NEW c \in Transfers  PROVE Honest(c)'
  <2>1. Honest(c) /\ UNCHANGED <<pc, at, route, price>>
    BY Zenon DEF IInv, CallerInv, callers
  <2> QED  BY Zenon, <2>1 DEF Honest
<1> QED  BY Zenon, <1>1, <1>2, <1>3 DEF IInv, CallerInv

\* What a rate change does to the table.
LEMMA CommitAfter ==
    ASSUME IInv, NEW a \in Admins, CommitRate(a)
    PROVE  LET end == draft[a].at
               v == Version(a)
           IN  /\ After(rates, end, v, rates')
               /\ end \in Nat /\ end <= now /\ now <= end + MaxCommit
               /\ draft[a].terms \in RateTerms
               /\ v \in RateRows /\ v.version = Len(rates) + 1
               /\ v.terms = draft[a].terms
               /\ v.effective_from = end /\ v.effective_to = Forever
<1> DEFINE end == draft[a].at
           v == Version(a)
<1>1. rates \in Seq(RateRows) /\ DraftInv
  BY Zenon DEF IInv, RateInv
<1>2. admin[a] = "stamped" /\ rates' = Append(Closed(rates, end), v)
  BY Zenon DEF CommitRate
<1>3. /\ end \in Nat /\ end <= now /\ now <= end + MaxCommit
      /\ draft[a].terms \in RateTerms
  BY Zenon, <1>1, <1>2 DEF DraftInv
<1>4. /\ v \in RateRows /\ v.version = Len(rates) + 1
      /\ v.terms = draft[a].terms
      /\ v.effective_from = end /\ v.effective_to = Forever
  <2>1. Len(rates) + 1 \in Nat \ {0} /\ Forever \in Nat
    BY SMTT(30), <1>1, Bounds
  <2> HIDE DEF end
  <2>2. v = [version |-> Len(rates) + 1, terms |-> draft[a].terms,
             effective_from |-> end, effective_to |-> Forever]
    BY Zenon DEF Version, end
  <2> HIDE DEF v
  <2> QED  BY SMTT(30), <1>3, <2>1, <2>2 DEF RateRows
<1>5. After(rates, end, v, rates')
  BY Zenon, <1>1, <1>2, <1>3, <1>4, RowsAfter
<1> QED  BY Zenon, <1>3, <1>4, <1>5

\* The commit of a rate change keeps the invariant.
LEMMA CommitStep ==
    ASSUME IInv, NEW a \in Admins, CommitRate(a)
    PROVE  IInv'
<1> DEFINE end == draft[a].at
           v == Version(a)
<1>1. /\ rates \in Seq(RateRows) /\ History(rates) /\ now \in Nat
      /\ now <= MaxTime /\ DraftInv /\ CallerTypes /\ CacheInv
  BY Zenon DEF IInv, RateInv, ClockInv
<1>2. /\ \A i \in 1 .. Len(rates) : rates[i].effective_from < end
      /\ UNCHANGED <<now, bonuses, cache, callers>>
  BY Zenon DEF CommitRate
<1>3. /\ end \in Nat /\ end <= now /\ now <= end + MaxCommit
      /\ v \in RateRows /\ v.version = Len(rates) + 1
      /\ v.effective_from = end /\ v.effective_to = Forever
  BY Zenon, CommitAfter
<1>5. After(rates, end, v, rates')
  BY Zenon, CommitAfter
<1> HIDE DEF end, v
<1>6. end < Forever
  BY SMTT(30), <1>1, <1>3, Bounds
<1>7. RateInv'
  <2>1. rates' \in Seq(RateRows)
    BY Zenon, <1>5 DEF After
  <2>2. History(rates')
    BY Zenon, <1>1, <1>2, <1>3, <1>5, <1>6, CommitKeepsHistory
  <2> QED  BY Zenon, <2>1, <2>2 DEF RateInv
<1>8. DraftInv'
  BY Zenon, <1>1, <1>2 DEF DraftInv, CommitRate, Committed
<1>9. CacheInv'
  BY Zenon, <1>1, <1>2 DEF CacheInv, Known
<1>10. ASSUME NEW c \in Transfers, NEW version, NEW terms,
              Backed(rates, version, terms, at[c])
       PROVE  Backed(rates', version, terms, at[c])
  <2>1. c \in Callers
    BY Zenon DEF Callers
  <2>2. at[c] \in Nat /\ at[c] <= now
    BY Zenon, <2>1 DEF IInv, CallerTypes, CallerInv, Holds
  <2>3. at[c] <= end + MaxCommit
    BY SMTT(30), <1>1, <1>3, <2>2, Bounds
  <2> QED  BY Zenon, <1>1, <1>3, <1>5, <1>10, <2>2, <2>3, CommitBacks
<1> QED  BY Zenon, <1>2, <1>7, <1>8, <1>9, <1>10, AdminFrame

\* So do the other steps of an admin.
LEMMA AdminStep ==
    ASSUME IInv, NEW a \in Admins,
           StampRate(a) \/ RollbackRate(a) \/ CreateBonus(a) \/ Invalidate(a)
    PROVE  IInv'
<1>1. RateInv /\ DraftInv /\ CacheInv /\ ClockInv
  BY Zenon DEF IInv
<1>2. /\ UNCHANGED <<now, callers, rates>> /\ bonuses \subseteq bonuses'
      /\ cache' = NoEntry \/ UNCHANGED cache
  BY Zenon DEF StampRate, RollbackRate, CreateBonus, Invalidate
<1>3. RateInv'
  BY Zenon, <1>1, <1>2 DEF RateInv
<1>4. CacheInv'
  <2>1. NoEntry.held = FALSE
    BY SMTT(30) DEF NoEntry
  <2> QED  BY Zenon, <1>1, <1>2, <2>1 DEF CacheInv, Known
<1>5. DraftInv'
  <2>1. CASE StampRate(a)
    <3>1. PICK new \in NewRates :
            draft' = [draft EXCEPT ![a] = [terms |-> new, at |-> now]]
      BY Zenon, <2>1 DEF StampRate
    <3>2. admin' = [admin EXCEPT ![a] = "stamped"]
      BY Zenon, <2>1 DEF StampRate
    <3>3. /\ draft' = [b \in Admins |-> draft'[b]]
          /\ draft'[a] = [terms |-> new, at |-> now]
          /\ \A b \in Admins \ {a} : draft'[b] = draft[b]
      BY Zenon, <1>1, <3>1 DEF DraftInv
    <3>4. /\ admin' = [b \in Admins |-> admin'[b]]
          /\ \A b \in Admins \ {a} : admin'[b] = admin[b]
      BY Zenon, <1>1, <3>2 DEF DraftInv
    <3>5. draft'[a].terms = new /\ draft'[a].at = now
      BY SMTT(30), <3>3
    <3>6. new \in RateTerms
      BY Zenon, PricingAssumption
    <3>7. now \in Nat /\ now <= now /\ now <= now + MaxCommit
      BY SMTT(30), <1>1, Bounds DEF ClockInv
    <3> QED  BY Zenon, <1>1, <1>2, <3>3, <3>4, <3>5, <3>6, <3>7 DEF DraftInv
  <2>2. ASSUME NEW s \in {"idle", "committed"},
               admin' = [admin EXCEPT ![a] = s],
               UNCHANGED draft \/ draft' = [draft EXCEPT ![a] = NoDraft]
        PROVE  DraftInv'
    BY Zenon, <1>1, <1>2, <2>2 DEF DraftInv
  <2> QED  BY Zenon, <2>1, <2>2
           DEF RollbackRate, CreateBonus, Invalidate, Committed
<1> QED  BY Zenon, <1>2, <1>3, <1>4, <1>5, AdminFrame

\* And so does time.
LEMMA TickStep ==
    ASSUME IInv, Tick
    PROVE  IInv'
<1>1. /\ RateInv /\ DraftInv /\ CacheInv /\ now \in Nat /\ now <= MaxTime
      /\ CallerTypes
  BY Zenon DEF IInv, ClockInv
<1>2. /\ now < MaxTime /\ now' = now + 1
      /\ UNCHANGED <<rates, bonuses, admins, callers>>
      /\ cache' = NoEntry \/ UNCHANGED cache
  BY Zenon DEF Tick
<1>3. RateInv'
  BY Zenon, <1>1, <1>2 DEF RateInv
<1>4. ClockInv'
  BY SMTT(30), <1>1, <1>2, Bounds DEF ClockInv
<1>5. CacheInv'
  <2>1. NoEntry.held = FALSE
    BY SMTT(30) DEF NoEntry
  <2> QED  BY Zenon, <1>1, <1>2, <2>1 DEF CacheInv, Known
<1>6. DraftInv'
  <2>1. ASSUME NEW a \in Admins, admin[a] = "stamped"
        PROVE  draft[a].at <= now' /\ now' <= draft[a].at + MaxCommit
    <3>1. draft[a].at \in Nat /\ draft[a].at <= now
      BY Zenon, <1>1, <2>1 DEF DraftInv
    <3>2. now - draft[a].at < MaxCommit
      BY Zenon, <2>1 DEF Tick
    <3> QED  BY SMTT(30), <1>1, <1>2, <3>1, <3>2, Bounds
  <2> QED  BY Zenon, <1>1, <1>2, <2>1 DEF DraftInv, admins
<1>7. CallerTypes'
  BY Zenon, <1>1, <1>2 DEF CallerTypes, callers
<1>8. ASSUME NEW c \in Callers  PROVE Holds(c)'
  <2>1. Holds(c) /\ UNCHANGED <<pc, at, route, price, bonuses>>
    BY Zenon, <1>2 DEF IInv, CallerInv, callers
  <2>2. at[c] \in Nat /\ at[c] <= now
    BY Zenon, <1>1, <2>1 DEF CallerTypes, Holds
  <2>3. at[c] <= now'
    BY SMTT(30), <1>1, <1>2, <2>2
  <2> QED  BY Zenon, <2>1, <2>3 DEF Holds, Known
<1>9. ASSUME NEW c \in Transfers  PROVE Honest(c)'
  <2>1. Honest(c) /\ UNCHANGED <<pc, at, route, price, rates>>
    BY Zenon, <1>2 DEF IInv, CallerInv, callers
  <2> QED  BY Zenon, <2>1 DEF Honest
<1> QED  BY Zenon, <1>3, <1>4, <1>5, <1>6, <1>7, <1>8, <1>9
         DEF IInv, CallerInv

-----------------------------------------------------------------------------
(* The invariant and what follows from it *)

\* It holds at the start.
LEMMA InitInv == Init => IInv
<1> SUFFICES ASSUME Init PROVE IInv
  OBVIOUS
<1>1. RateInv
  BY Zenon, OpeningAssumption DEF Init, RateInv
<1>2. now = 0 /\ ClockInv
  BY SMTT(30), Bounds DEF Init, ClockInv
<1>3. DraftInv
  BY Zenon DEF Init, DraftInv
<1>4. CallerTypes
  <2>1. 0 \in Nat
    BY SMTT(30)
  <2> QED  BY Zenon, <2>1 DEF Init, CallerTypes
<1>5. CacheInv
  BY SMTT(30) DEF Init, CacheInv, NoEntry
<1>6. ASSUME NEW c \in Callers
      PROVE  /\ pc[c] = "idle" /\ at[c] = 0 /\ route[c] = NoRoute
             /\ price[c] = NoPrice
  BY Zenon DEF Init
<1>7. 0 <= 0
  BY SMTT(30)
<1>8. \A c \in Callers : Holds(c)
  BY Zenon, <1>2, <1>6, <1>7, NoRouteFields DEF Holds, Known
<1>9. \A c \in Transfers : Honest(c)
  BY Zenon, <1>6, NoRouteFields DEF Honest, Callers
<1> QED  BY Zenon, <1>1, <1>2, <1>3, <1>4, <1>5, <1>8, <1>9
         DEF IInv, CallerInv

\* Every step keeps the invariant.
LEMMA StepInv == IInv /\ [Next]_vars => IInv'
<1>1. ASSUME IInv, Next  PROVE IInv'
  BY Zenon, <1>1, CommitStep, AdminStep, LookupStep, PriceStep, TickStep
  DEF Next
<1>2. ASSUME IInv, UNCHANGED vars  PROVE IInv'
  <2>1. UNCHANGED <<now, callers, rates, bonuses, cache, admins>>
    BY Zenon, <1>2 DEF vars
  <2>2. RateInv' /\ DraftInv' /\ CacheInv'
    BY Zenon, <1>2, <2>1
    DEF IInv, RateInv, DraftInv, CacheInv, Known, admins
  <2> QED  BY Zenon, <1>2, <2>1, <2>2, AdminFrame
<1> QED  BY Zenon, <1>1, <1>2

\* From the first version on exactly one version of a rate applies at every
\* moment up to now, however admins' changes interleave and however long they
\* take to commit (create_rate_version).
THEOREM ExactlyOneVersion == Spec => []OneVersionApplies
<1>1. IInv => OneVersionApplies
  <2> SUFFICES ASSUME IInv, NEW t \in 0 .. now, rates # <<>>,
                      rates[1].effective_from <= t
               PROVE  /\ \E i \in 1 .. Len(rates) : InForce(rates[i], t)
                      /\ \A i, j \in 1 .. Len(rates) :
                           InForce(rates[i], t) /\ InForce(rates[j], t) => i = j
    BY Zenon DEF OneVersionApplies
  <2>1. /\ rates \in Seq(RateRows) /\ History(rates)
        /\ now \in Nat /\ now <= MaxTime
    BY Zenon DEF IInv, RateInv, ClockInv
  <2>2. t \in Nat /\ t \in 0 .. Forever - 1
    BY SMTT(30), <2>1, Bounds
  <2>3. \E i \in 1 .. Len(rates) : InForce(rates[i], t)
    BY Zenon, <2>1, <2>2 DEF History
  <2>4. \A i, j \in 1 .. Len(rates) :
          InForce(rates[i], t) /\ InForce(rates[j], t) => i = j
    BY Zenon, <2>1, <2>2, OneInForce
  <2> QED  BY Zenon, <2>3, <2>4
<1> QED  BY <1>1, InitInv, StepInv, PTL DEF Spec

\* A transfer's version keeps the terms the transfer was priced with.
THEOREM TermsAreKept == Spec => []TermsNeverChange
<1>1. IInv => TermsNeverChange
  <2> SUFFICES ASSUME IInv, NEW c \in Transfers, price[c].version # 0
               PROVE  /\ price[c].version <= Len(rates)
                      /\ rates[price[c].version].terms = price[c].terms
    BY Zenon DEF TermsNeverChange
  <2>1. /\ price[c].version \in 1 .. Len(rates)
        /\ rates[price[c].version].terms = price[c].terms
    BY Zenon DEF IInv, CallerInv, Honest, Backed
  <2>2. price[c].version <= Len(rates)
    BY SMTT(30), <2>1
  <2> QED  BY Zenon, <2>1, <2>2
<1> QED  BY <1>1, InitInv, StepInv, PTL DEF Spec

\* A transfer is priced with a version that had begun when it read the clock
\* and had not ended, or ended no longer ago than a commit takes
\* (_debit_source and get_route against create_rate_version).
THEOREM TransfersPricedInForce == Spec => []PricedInForce
<1>1. IInv => PricedInForce
  BY Zenon DEF IInv, CallerInv, Honest, Backed, PricedInForce
<1> QED  BY <1>1, InitInv, StepInv, PTL DEF Spec

\* No price, quoted or charged, contains a bonus that was not running at its
\* caller's clock read, cached or not (calculate_conversion).
THEOREM BonusesAreReal == Spec => []BonusIsReal
<1>1. IInv => BonusIsReal
  BY Zenon DEF IInv, CallerInv, Holds, BonusIsReal
<1> QED  BY <1>1, InitInv, StepInv, PTL DEF Spec
-----------------------------------------------------------------------------
(* What a price is worth *)

\* The points an amount converts to, before the limits are applied.
Worth(terms, points, bps) ==
    LET base == BasePoints(points, terms) IN base + BonusPoints(base, bps)

\* A version as it stands in the table.
OnRecord(version, terms) ==
    version \in 1 .. Len(rates) /\ rates[version].terms = terms

Rated(rate) == rate # NoRate => OnRecord(rate.version, rate.terms)

\* A price names a version on record, and is a refusal or what that version and
\* the bonus make of the amount.
Valued(c) ==
    LET p == price[c] IN
    /\ p.points.code = "ok" => p.points.destination_points > 0
    /\ p.version # 0 =>
          /\ OnRecord(p.version, p.terms) /\ p.bps \in Nat
          /\ p.points.destination_points \in {0, Worth(p.terms, amount[c], p.bps)}

\* The tables obey their CHECK constraints, and so does what was read from them.
SoundInv ==
    /\ bonuses \subseteq NewBonuses
    /\ \A i \in 1 .. Len(rates) : RateChecks(rates[i].terms)
    /\ \A a \in Admins : admin[a] = "stamped" => RateChecks(draft[a].terms)
    /\ cache.held = TRUE => Rated(cache.route.rate)
    /\ \A c \in Callers : Rated(route[c].rate) /\ Valued(c)

\* The CHECK constraints make the rate a fraction.
LEMMA Terms ==
    ASSUME NEW terms \in RateTerms, RateChecks(terms)
    PROVE  terms.numerator \in Nat /\ terms.denominator \in Nat \ {0}
<1>1. terms.numerator \in Nat /\ terms.denominator \in Nat
  BY Zenon DEF RateTerms
<1>2. terms.denominator > 0
  BY Zenon DEF RateChecks
<1> QED  BY SMTT(30), <1>1, <1>2

\* Basis points are a fraction.
LEMMA Denominator == BPS_DENOMINATOR \in Nat \ {0}
  BY SMTT(30) DEF BPS_DENOMINATOR

\* The base points are a number of points.
LEMMA BaseType ==
    ASSUME NEW terms \in RateTerms, RateChecks(terms), NEW points \in Nat
    PROVE  BasePoints(points, terms) \in Nat
<1>1. points * terms.numerator \in Nat
  BY Zenon, Terms, Product
<1> QED  BY Zenon, <1>1, Terms, Quotient DEF BasePoints

\* So are the bonus points.
LEMMA BonusType ==
    ASSUME NEW base \in Nat, NEW bps \in Nat
    PROVE  BonusPoints(base, bps) \in Nat
<1>1. base * bps \in Nat
  BY Zenon, Product
<1> QED  BY Zenon, <1>1, Denominator, Quotient DEF BonusPoints

\* So is their sum.
LEMMA WorthType ==
    ASSUME NEW terms \in RateTerms, RateChecks(terms),
           NEW points \in Nat, NEW bps \in Nat
    PROVE  Worth(terms, points, bps) \in Nat
<1>1. PICK base \in Nat : base = BasePoints(points, terms)
  BY Zenon, BaseType
<1>2. BonusPoints(base, bps) \in Nat
  BY Zenon, BonusType
<1>3. base + BonusPoints(base, bps) \in Nat
  BY SMTT(30), <1>2
<1> QED  BY Zenon, <1>1, <1>3 DEF Worth

\* Rounding down twice, a whole is worth at least its parts.
LEMMA WorthOfSum ==
    ASSUME NEW terms \in RateTerms, RateChecks(terms),
           NEW m \in Nat, NEW n \in Nat, NEW bps \in Nat
    PROVE  Worth(terms, m, bps) + Worth(terms, n, bps)
             <= Worth(terms, m + n, bps)
<1>0. m + n \in Nat
  BY SMTT(30)
<1>1. PICK a \in Nat, b \in Nat, c \in Nat :
        /\ a = BasePoints(m, terms) /\ b = BasePoints(n, terms)
        /\ c = BasePoints(m + n, terms)
  <2>1. /\ BasePoints(m, terms) \in Nat /\ BasePoints(n, terms) \in Nat
        /\ BasePoints(m + n, terms) \in Nat
    BY Zenon, <1>0, BaseType
  <2> QED  BY Zenon, <2>1
<1>2. PICK x \in Nat, y \in Nat, z \in Nat :
        /\ x = BonusPoints(a, bps) /\ y = BonusPoints(b, bps)
        /\ z = BonusPoints(c, bps)
  BY Zenon, <1>1, BonusType
<1>3. a + b <= c
  <2>1. PICK num \in Nat, den \in Nat \ {0} :
          num = terms.numerator /\ den = terms.denominator
    BY Zenon, Terms
  <2>2. m * num \in Nat /\ n * num \in Nat
    BY Zenon, Product
  <2>3. ((m * num) \div den) + ((n * num) \div den)
          <= (m * num + n * num) \div den
    BY Zenon, <2>2, QuotientOfSum
  <2>4. (m + n) * num = m * num + n * num
    BY SMTT(30)
  <2> QED  BY Zenon, <1>1, <2>1, <2>3, <2>4 DEF BasePoints
<1>4. x + y <= z
  <2>1. /\ a * bps \in Nat /\ b * bps \in Nat /\ c * bps \in Nat
        /\ (a + b) * bps \in Nat /\ a + b \in Nat
    <3>1. a + b \in Nat
      BY SMTT(30)
    <3> QED  BY Zenon, <3>1, Product
  <2>2. (a + b) * bps = a * bps + b * bps /\ (a + b) * bps <= c * bps
    BY SMTT(30), <1>3, <2>1
  <2>3. ((a * bps) \div BPS_DENOMINATOR) + ((b * bps) \div BPS_DENOMINATOR)
          <= (a * bps + b * bps) \div BPS_DENOMINATOR
    BY Zenon, Denominator, <2>1, QuotientOfSum
  <2>4. ((a + b) * bps) \div BPS_DENOMINATOR <= (c * bps) \div BPS_DENOMINATOR
    BY Zenon, Denominator, <2>1, <2>2, QuotientGrows
  <2>5. /\ x = (a * bps) \div BPS_DENOMINATOR /\ y = (b * bps) \div BPS_DENOMINATOR
        /\ z = (c * bps) \div BPS_DENOMINATOR
    BY Zenon, <1>2 DEF BonusPoints
  <2>6. PICK w \in Nat : w = ((a + b) * bps) \div BPS_DENOMINATOR
    BY Zenon, Denominator, <2>1, Quotient
  <2>7. x + y <= w /\ w <= z
    BY Zenon, <2>2, <2>3, <2>4, <2>5, <2>6
  <2> QED  BY SMTT(30), <2>7
<1>5. (a + x) + (b + y) <= c + z
  BY SMTT(30), <1>3, <1>4
<1> QED  BY Zenon, <1>1, <1>2, <1>5 DEF Worth

\* calculate_conversion gives a refusal or the worth, which is never zero.
LEMMA Converted ==
    ASSUME NEW terms \in RateTerms, RateChecks(terms), NEW points \in Nat,
           NEW bonus, NEW t, AppliedBps(bonus, t) \in Nat
    PROVE  LET p == calculate_conversion(terms, points, bonus, t)
               worth == Worth(terms, points, AppliedBps(bonus, t))
           IN  /\ p.code = "ok" => p.destination_points > 0
               /\ p.destination_points \in {0, worth}
               /\ Limit(terms, points) = "ok" => p.destination_points = worth
<1> DEFINE base == BasePoints(points, terms)
           extra == BonusPoints(base, AppliedBps(bonus, t))
           p == calculate_conversion(terms, points, bonus, t)
           fine == [code |-> "ok", base_points |-> base,
                    bonus_points |-> extra, destination_points |-> base + extra]
<1>1. base + extra = Worth(terms, points, AppliedBps(bonus, t))
  BY Zenon DEF Worth
<1>2. base + extra \in Nat
  BY Zenon, <1>1, WorthType
<1>r. ASSUME NEW code
      PROVE  Refused(code).code = code /\ Refused(code).destination_points = 0
  BY Zenon DEF Refused
<1>f. fine.code = "ok" /\ fine.destination_points = base + extra
  BY Zenon
<1>3. CASE Limit(terms, points) # "ok"
  <2>1. p = Refused(Limit(terms, points))
    BY Zenon, <1>3 DEF calculate_conversion
  <2>2. p.code = Limit(terms, points) /\ p.destination_points = 0
    BY Zenon, <1>r, <2>1
  <2> QED  BY Zenon, <1>3, <2>2
<1>4. CASE Limit(terms, points) = "ok" /\ base + extra = 0
  <2>1. p = Refused("ZERO_DESTINATION_POINTS")
    BY Zenon, <1>4 DEF calculate_conversion
  <2>2. p.code = "ZERO_DESTINATION_POINTS" /\ p.destination_points = 0
    BY Zenon, <1>r, <2>1
  <2> QED  BY Zenon, <1>1, <1>4, <2>2
<1>5. CASE Limit(terms, points) = "ok" /\ base + extra # 0
  <2>1. p = fine
    BY Zenon, <1>5 DEF calculate_conversion
  <2>2. p.destination_points = base + extra
    BY Zenon, <1>f, <2>1
  <2> HIDE DEF base, extra, p
  <2>3. base + extra > 0
    BY SMTT(30), <1>2, <1>5
  <2> QED  BY Zenon, <1>1, <2>2, <2>3 DEF p
<1> QED  BY Zenon, <1>3, <1>4, <1>5

\* The points of a price are those calculate_conversion gives.
LEMMA PricePoints ==
    ASSUME NEW c \in Callers, NEW r
    PROVE  PriceOf(c, r).points =
             IF r.rate = NoRate THEN Refused("ROUTE_NOT_SUPPORTED")
             ELSE calculate_conversion(r.rate.terms, amount[c], r.bonus, at[c])
<1>1. CASE r.rate = NoRate
  <2> DEFINE none == Refused("ROUTE_NOT_SUPPORTED")
  <2>1. PriceOf(c, r) = [NoPrice EXCEPT !.points = none]
    BY Zenon, <1>1 DEF PriceOf
  <2> HIDE DEF none
  <2>2. PriceOf(c, r).points = none
    BY SMTT(30), <2>1 DEF NoPrice
  <2> QED  BY Zenon, <1>1, <2>2 DEF none
<1>2. CASE r.rate # NoRate
  <2> DEFINE points == calculate_conversion(r.rate.terms, amount[c], r.bonus,
                                            at[c])
             bps == AppliedBps(r.bonus, at[c])
  <2>1. PriceOf(c, r) = [version |-> r.rate.version, terms |-> r.rate.terms,
                         bps |-> bps, points |-> points]
    BY Zenon, <1>2 DEF PriceOf
  <2> HIDE DEF points, bps
  <2>2. PriceOf(c, r).points = points
    BY SMTT(30), <2>1
  <2> QED  BY Zenon, <1>2, <2>2 DEF points
<1> QED  BY Zenon, <1>1, <1>2

\* The columns of transfer_bonuses.
LEMMA BonusFields ==
    ASSUME bonuses \subseteq NewBonuses, NEW b \in bonuses
    PROVE  /\ b.bonus_bps \in Nat /\ b.starts_at \in Nat /\ b.ends_at \in Nat
           /\ b.starts_at < b.ends_at /\ b.ends_at < Forever
<1>1. b \in NewBonuses /\ b \in BonusRows
  BY Zenon, PricingAssumption
<1>2. b.bonus_bps \in Nat /\ b.starts_at \in Nat /\ b.ends_at \in Nat
  BY Zenon, <1>1 DEF BonusRows
<1> QED  BY Zenon, <1>1, <1>2, PricingAssumption

\* A price made from a route that was read from the tables.
LEMMA PriceValued ==
    ASSUME rates \in Seq(RateRows), SoundInv, NEW c \in Callers, NEW r,
           Known(r.bonus), Rated(r.rate)
    PROVE  LET p == PriceOf(c, r) IN
           /\ p.points.code = "ok" => p.points.destination_points > 0
           /\ p.version # 0 =>
                 /\ OnRecord(p.version, p.terms) /\ p.bps \in Nat
                 /\ p.points.destination_points
                      \in {0, Worth(p.terms, amount[c], p.bps)}
<1> DEFINE p == PriceOf(c, r)
<1>1. CASE r.rate = NoRate
  <2>1. p.version = 0 /\ p.points = Refused("ROUTE_NOT_SUPPORTED")
    BY Zenon, <1>1, PriceFields, PricePoints
  <2>2. Refused("ROUTE_NOT_SUPPORTED").code = "ROUTE_NOT_SUPPORTED"
    BY Zenon DEF Refused
  <2> HIDE DEF p
  <2>3. p.points.code # "ok"
    BY Zenon, <2>1, <2>2
  <2> QED  BY Zenon, <2>1, <2>3 DEF p
<1>2. CASE r.rate # NoRate
  <2> DEFINE bps == AppliedBps(r.bonus, at[c])
             terms == r.rate.terms
             points == calculate_conversion(terms, amount[c], r.bonus, at[c])
  <2>1. /\ p.version = r.rate.version /\ p.terms = terms /\ p.bps = bps
        /\ p.points = points
    BY Zenon, <1>2, PriceFields, PricePoints
  <2>2. OnRecord(r.rate.version, terms)
    BY Zenon, <1>2 DEF Rated
  <2>3. terms \in RateTerms /\ RateChecks(terms)
    <3>1. PICK i \in 1 .. Len(rates) : rates[i].terms = terms
      BY Zenon, <2>2 DEF OnRecord
    <3>2. rates[i] \in RateRows
      BY SMTT(30)
    <3> QED  BY Zenon, <3>1, <3>2, RowFields DEF SoundInv
  <2>4. bps \in Nat
    <3>1. 0 \in Nat /\ NoBonus.bonus_bps = 0
      BY SMTT(30) DEF NoBonus
    <3>2. r.bonus.bonus_bps \in Nat
      BY Zenon, <3>1, BonusFields DEF Known, SoundInv
    <3> QED  BY Zenon, <3>1, <3>2 DEF AppliedBps
  <2>5. amount[c] \in Nat
    BY Zenon, PricingAssumption
  <2>6. /\ points.code = "ok" => points.destination_points > 0
        /\ points.destination_points \in {0, Worth(terms, amount[c], bps)}
    BY Zenon, <2>3, <2>4, <2>5, Converted
  <2> HIDE DEF p, bps, terms, points
  <2> QED  BY Zenon, <2>1, <2>2, <2>4, <2>6 DEF p, terms
<1> QED  BY Zenon, <1>1, <1>2

\* Steps that leave the tables alone.
Reads == UNCHANGED <<rates, bonuses, admins>>

\* A step that writes no table keeps what is sound, if what it read is.
LEMMA SoundReads ==
    ASSUME SoundInv, Reads, cache'.held = TRUE => Rated(cache'.route.rate),
           \A c \in Callers : Rated(route'[c].rate) /\ Valued(c)'
    PROVE  SoundInv'
<1>1. UNCHANGED <<rates, bonuses, admin, draft>>
  BY Zenon DEF Reads, admins
<1> QED  BY Zenon, <1>1 DEF SoundInv, Rated, OnRecord

\* A price that stays is still worth the same.
LEMMA SameValue ==
    ASSUME NEW c \in Callers, Valued(c), price'[c] = price[c],
           UNCHANGED rates
    PROVE  Valued(c)'
  BY Zenon DEF Valued, OnRecord

\* An empty price promises nothing.
LEMMA NoValue ==
    ASSUME NEW c \in Callers, price'[c] = NoPrice
    PROVE  Valued(c)'
<1>1. NoPrice.version = 0 /\ NoPrice.points.code = "none"
  BY SMTT(30) DEF NoPrice, Refused
<1>2. price'[c].version = 0 /\ price'[c].points.code # "ok"
  BY Zenon, <1>1
<1> QED  BY Zenon, <1>2 DEF Valued

\* Nor does an empty route.
LEMMA NoRateRated == Rated(NoRoute.rate)
  BY Zenon, NoRouteFields DEF Rated

\* A caller ends with the price of the route r.
LEMMA SoundPriced ==
    ASSUME IInv, SoundInv, NEW c \in Callers, NEW r, Priced(c, r),
           Known(r.bonus), Rated(r.rate), Reads,
           cache'.held = TRUE => Rated(cache'.route.rate)
    PROVE  SoundInv'
<1>t. CallerTypes /\ rates \in Seq(RateRows)
  BY Zenon DEF IInv, RateInv
<1> DEFINE p == PriceOf(c, r)
<1>1. /\ price' = [price EXCEPT ![c] = p]
      /\ route' = [route EXCEPT ![c] = NoRoute]
  BY Zenon DEF Priced
<1>2. /\ p.points.code = "ok" => p.points.destination_points > 0
      /\ p.version # 0 =>
            /\ OnRecord(p.version, p.terms) /\ p.bps \in Nat
            /\ p.points.destination_points
                 \in {0, Worth(p.terms, amount[c], p.bps)}
  BY Zenon, <1>t, PriceValued
<1> HIDE DEF p
<1>3. /\ price'[c] = p /\ \A d \in Callers \ {c} : price'[d] = price[d]
      /\ route'[c] = NoRoute /\ \A d \in Callers \ {c} : route'[d] = route[d]
  BY Zenon, <1>t, <1>1 DEF CallerTypes
<1>4. UNCHANGED rates
  BY Zenon DEF Reads
<1>5. Valued(c)'
  BY Zenon, <1>2, <1>3, <1>4 DEF Valued, OnRecord
<1>6. ASSUME NEW d \in Callers  PROVE Rated(route'[d].rate) /\ Valued(d)'
  <2>1. Rated(route[d].rate) /\ Valued(d)
    BY Zenon DEF SoundInv
  <2> QED  BY Zenon, <1>3, <1>4, <1>5, <2>1, SameValue, NoRateRated
<1> QED  BY Zenon, <1>6, SoundReads

\* The steps of a caller.
LEMMA SoundCaller ==
    ASSUME IInv, SoundInv, NEW c \in Callers,
           \/ StartQuote(c) \/ CacheHit(c) \/ CacheMiss(c)
           \/ StartTransfer(c) \/ LoadRate(c) \/ LoadBonus(c) \/ CacheSet(c)
    PROVE  SoundInv'
<1>t. /\ CallerTypes /\ CacheInv /\ Holds(c) /\ RateInv /\ at[c] \in Nat
  BY Zenon DEF IInv, CallerInv, CallerTypes
<1>u. Reads
  BY Zenon DEF StartQuote, CacheHit, CacheMiss, StartTransfer, LoadRate,
               LoadBonus, CacheSet, Reads
<1>s. /\ UNCHANGED rates /\ Rated(route[c].rate)
      /\ cache.held = TRUE => Rated(cache.route.rate)
      /\ \A d \in Callers : Rated(route[d].rate) /\ Valued(d)
  BY Zenon, <1>u DEF SoundInv, Reads
<1>1. CASE StartQuote(c)
  <2>1. price' = [price EXCEPT ![c] = NoPrice] /\ UNCHANGED <<route, cache>>
    BY Zenon, <1>1 DEF StartQuote
  <2>2. price'[c] = NoPrice /\ \A d \in Callers \ {c} : price'[d] = price[d]
    BY Zenon, <1>t, <2>1 DEF CallerTypes
  <2>3. \A d \in Callers : Valued(d)'
    BY Zenon, <1>s, <2>2, SameValue, NoValue
  <2> QED  BY Zenon, <1>s, <1>u, <2>1, <2>3, SoundReads
<1>2. CASE CacheMiss(c) \/ StartTransfer(c)
  <2>1. UNCHANGED <<route, cache, price>>
    BY Zenon, <1>2 DEF CacheMiss, StartTransfer
  <2>2. \A d \in Callers : Valued(d)'
    BY Zenon, <1>s, <2>1, SameValue
  <2> QED  BY Zenon, <1>s, <1>u, <2>1, <2>2, SoundReads
<1>3. CASE LoadRate(c)
  <2> DEFINE rate == ActiveRate(rates, at[c])
             loaded == [route[c] EXCEPT !.rate = rate]
  <2>1. /\ pc[c] = "rate" /\ UNCHANGED <<cache, price>>
        /\ route' = [route EXCEPT ![c] = loaded]
    BY Zenon, <1>3 DEF LoadRate
  <2>2. Rated(rate)
    BY Zenon, <1>t, ActiveIsBacked DEF RateInv, Backed, Rated, OnRecord
  <2> HIDE DEF rate
  <2>3. route[c] = NoRoute
    BY Zenon, <1>t, <2>1 DEF Holds
  <2>4. loaded.rate = rate
    BY SMTT(30), <2>3 DEF NoRoute
  <2> HIDE DEF loaded
  <2>5. route'[c] = loaded /\ \A d \in Callers \ {c} : route'[d] = route[d]
    BY Zenon, <1>t, <2>1 DEF CallerTypes
  <2>6. \A d \in Callers : Valued(d)'
    BY Zenon, <1>s, <2>1, SameValue
  <2>7. \A d \in Callers : Rated(route'[d].rate)
    BY Zenon, <1>s, <2>2, <2>4, <2>5
  <2> QED  BY Zenon, <1>s, <1>u, <2>1, <2>6, <2>7, SoundReads
<1>4. CASE LoadBonus(c)
  <2> DEFINE r == Loaded(c)
  <2>1. r.rate = route[c].rate /\ r.bonus = ActiveBonus(bonuses, at[c])
    BY Zenon DEF Loaded
  <2>2. Known(r.bonus) /\ Rated(r.rate) /\ UNCHANGED cache
    BY Zenon, <1>4, <1>s, <2>1, ActiveBonusKnown DEF LoadBonus
  <2> HIDE DEF r
  <2>3. CASE Priced(c, r)
    BY Zenon, <1>s, <1>u, <2>2, <2>3, SoundPriced
  <2>4. CASE route' = [route EXCEPT ![c] = r] /\ UNCHANGED price
    <3>1. route'[c] = r /\ \A d \in Callers \ {c} : route'[d] = route[d]
      BY Zenon, <1>t, <2>4 DEF CallerTypes
    <3>2. \A d \in Callers : Rated(route'[d].rate) /\ Valued(d)'
      BY Zenon, <1>s, <2>2, <2>4, <3>1, SameValue
    <3> QED  BY Zenon, <1>s, <1>u, <2>2, <3>2, SoundReads
  <2> QED  BY Zenon, <1>4, <2>3, <2>4 DEF LoadBonus, r
<1>5. CASE CacheHit(c)
  <2>1. cache.held = TRUE /\ Priced(c, cache.route) /\ UNCHANGED cache
    BY Zenon, <1>5 DEF CacheHit
  <2> QED  BY Zenon, <1>t, <1>s, <1>u, <2>1, SoundPriced DEF CacheInv
<1>6. CASE CacheSet(c)
  <2>1. Priced(c, route[c]) /\ Known(route[c].bonus)
    BY Zenon, <1>6, <1>t DEF CacheSet, Holds
  <2>2. cache'.held = TRUE => Rated(cache'.route.rate)
    <3>1. ASSUME NEW n, cache' = [held |-> TRUE, route |-> route[c],
                                  expires_at |-> n]
          PROVE  Rated(cache'.route.rate)
      <4>1. cache'.route = route[c]
        BY SMTT(30), <3>1
      <4> QED  BY Zenon, <1>s, <4>1
    <3> QED  BY Zenon, <1>6, <1>s, <3>1 DEF CacheSet
  <2> QED  BY Zenon, <1>s, <1>u, <2>1, <2>2, SoundPriced
<1> QED  BY Zenon, <1>1, <1>2, <1>3, <1>4, <1>5, <1>6

\* A version stays on record when a change commits, with its terms.
LEMMA StaysOnRecord ==
    ASSUME rates \in Seq(RateRows), NEW end, NEW v, After(rates, end, v, rates'),
           NEW version, NEW terms, OnRecord(version, terms)
    PROVE  OnRecord(version, terms)'
<1>1. version \in 1 .. Len(rates) /\ Len(rates') = Len(rates) + 1
  BY Zenon DEF OnRecord, After
<1>2. Len(rates) \in Nat
  BY SMTT(30)
<1>3. version \in 1 .. Len(rates')
  BY SMTT(30), <1>1, <1>2
<1>4. rates'[version].terms = terms
  BY Zenon, <1>1 DEF OnRecord, After, SameBut
<1> QED  BY Zenon, <1>3, <1>4 DEF OnRecord

\* A step that leaves the callers alone.
LEMMA SoundFrame ==
    ASSUME SoundInv, UNCHANGED callers, bonuses' \subseteq NewBonuses,
           \A i \in 1 .. Len(rates') : RateChecks(rates'[i].terms),
           \A a \in Admins : admin'[a] = "stamped" => RateChecks(draft'[a].terms),
           cache' = NoEntry \/ UNCHANGED cache,
           \A version, terms : OnRecord(version, terms) => OnRecord(version, terms)'
    PROVE  SoundInv'
<1>1. UNCHANGED <<route, price>>
  BY Zenon DEF callers
<1>2. \A rate : Rated(rate) => Rated(rate)'
  BY Zenon DEF Rated
<1>3. (cache.held = TRUE => Rated(cache.route.rate))'
  <2>1. NoEntry.held = FALSE
    BY SMTT(30) DEF NoEntry
  <2> QED  BY Zenon, <1>2, <2>1 DEF SoundInv
<1>4. ASSUME NEW c \in Callers  PROVE (Rated(route[c].rate) /\ Valued(c))'
  <2>1. Rated(route[c].rate) /\ Valued(c)
    BY Zenon DEF SoundInv
  <2>2. Valued(c)'
    BY Zenon, <1>1, <2>1 DEF Valued
  <2> QED  BY Zenon, <1>1, <1>2, <2>1, <2>2
<1> QED  BY Zenon, <1>3, <1>4 DEF SoundInv

\* The commit of a rate change keeps the tables sound.
LEMMA SoundCommit ==
    ASSUME IInv, SoundInv, NEW a \in Admins, CommitRate(a)
    PROVE  SoundInv'
<1> DEFINE end == draft[a].at
           v == Version(a)
<1>1. rates \in Seq(RateRows) /\ DraftInv
  BY Zenon DEF IInv, RateInv
<1>2. After(rates, end, v, rates') /\ v.terms = draft[a].terms
  BY Zenon, CommitAfter
<1>3. /\ admin[a] = "stamped" /\ UNCHANGED <<bonuses, cache, callers>>
      /\ admin' = [admin EXCEPT ![a] = "committed"]
      /\ draft' = [draft EXCEPT ![a] = NoDraft]
  BY Zenon DEF CommitRate, Committed
<1> HIDE DEF end, v
<1>4. ASSUME NEW i \in 1 .. Len(rates')  PROVE RateChecks(rates'[i].terms)
  <2>1. Len(rates) \in Nat /\ Len(rates') = Len(rates) + 1
    <3>1. Len(rates) \in Nat
      BY SMTT(30), <1>1
    <3> QED  BY Zenon, <1>2, <3>1 DEF After
  <2>2. i \in 1 .. Len(rates) \/ i = Len(rates) + 1
    BY SMTT(30), <2>1
  <2>3. rates'[Len(rates) + 1].terms = draft[a].terms
    BY Zenon, <1>2 DEF After
  <2>4. \A j \in 1 .. Len(rates) : rates'[j].terms = rates[j].terms
    BY Zenon, <1>2 DEF After, SameBut
  <2> QED  BY Zenon, <1>3, <2>2, <2>3, <2>4 DEF SoundInv
<1>5. \A b \in Admins : admin'[b] = "stamped" => RateChecks(draft'[b].terms)
  BY Zenon, <1>1, <1>3 DEF SoundInv, DraftInv
<1>6. \A version, terms : OnRecord(version, terms) => OnRecord(version, terms)'
  BY Zenon, <1>1, <1>2, StaysOnRecord
<1>7. bonuses' \subseteq NewBonuses
  BY Zenon, <1>3 DEF SoundInv
<1> QED  BY Zenon, <1>3, <1>4, <1>5, <1>6, <1>7, SoundFrame

\* So do the other steps of an admin.
LEMMA SoundAdmin ==
    ASSUME IInv, SoundInv, NEW a \in Admins,
           StampRate(a) \/ RollbackRate(a) \/ CreateBonus(a) \/ Invalidate(a)
    PROVE  SoundInv'
<1>1. DraftInv
  BY Zenon DEF IInv
<1>2. /\ UNCHANGED <<callers, rates>> /\ bonuses' \subseteq NewBonuses
      /\ cache' = NoEntry \/ UNCHANGED cache
  BY Zenon DEF SoundInv, StampRate, RollbackRate, CreateBonus, Invalidate
<1>3. \A b \in Admins : admin'[b] = "stamped" => RateChecks(draft'[b].terms)
  <2>1. CASE StampRate(a)
    <3>1. PICK new \in NewRates :
            /\ ValidRate(new)
            /\ draft' = [draft EXCEPT ![a] = [terms |-> new, at |-> now]]
      BY Zenon, <2>1 DEF StampRate
    <3>2. admin' = [admin EXCEPT ![a] = "stamped"]
      BY Zenon, <2>1 DEF StampRate
    <3>3. /\ draft'[a] = [terms |-> new, at |-> now]
          /\ \A b \in Admins \ {a} : draft'[b] = draft[b] /\ admin'[b] = admin[b]
      BY Zenon, <1>1, <3>1, <3>2 DEF DraftInv
    <3>4. draft'[a].terms = new
      BY SMTT(30), <3>3
    <3>5. RateChecks(new)
      BY Zenon, <3>1 DEF ValidRate
    <3> QED  BY Zenon, <3>3, <3>4, <3>5 DEF SoundInv
  <2>2. ASSUME NEW s \in {"idle", "committed"},
               admin' = [admin EXCEPT ![a] = s],
               UNCHANGED draft \/ draft' = [draft EXCEPT ![a] = NoDraft]
        PROVE  \A b \in Admins : admin'[b] = "stamped" => RateChecks(draft'[b].terms)
    BY Zenon, <1>1, <2>2 DEF DraftInv, SoundInv
  <2> QED  BY Zenon, <2>1, <2>2
           DEF RollbackRate, CreateBonus, Invalidate, Committed
<1>4. \A i \in 1 .. Len(rates') : RateChecks(rates'[i].terms)
  BY Zenon, <1>2 DEF SoundInv
<1>5. \A version, terms : OnRecord(version, terms) => OnRecord(version, terms)'
  BY Zenon, <1>2 DEF OnRecord
<1> QED  BY Zenon, <1>2, <1>3, <1>4, <1>5, SoundFrame

\* Every step keeps the tables and what was read from them sound.
LEMMA SoundStep == IInv /\ SoundInv /\ [Next]_vars => SoundInv'
<1>1. ASSUME IInv, SoundInv, Tick \/ UNCHANGED vars  PROVE SoundInv'
  <2>1. /\ UNCHANGED <<rates, bonuses, admins, callers>>
        /\ cache' = NoEntry \/ UNCHANGED cache
    BY Zenon, <1>1 DEF Tick, vars
  <2>2. /\ bonuses' \subseteq NewBonuses
        /\ \A i \in 1 .. Len(rates') : RateChecks(rates'[i].terms)
        /\ \A a \in Admins : admin'[a] = "stamped" => RateChecks(draft'[a].terms)
    BY Zenon, <1>1, <2>1 DEF SoundInv, admins
  <2>3. \A version, terms : OnRecord(version, terms) => OnRecord(version, terms)'
    BY Zenon, <2>1 DEF OnRecord
  <2> QED  BY Zenon, <1>1, <2>1, <2>2, <2>3, SoundFrame
<1>2. ASSUME IInv, SoundInv, Next  PROVE SoundInv'
  BY Zenon, <1>1, <1>2, SoundCommit, SoundAdmin, SoundCaller DEF Next
<1> QED  BY Zenon, <1>1, <1>2

\* They are sound at the start.
LEMMA SoundInit == Init => SoundInv
<1> SUFFICES ASSUME Init PROVE SoundInv
  OBVIOUS
<1>1. bonuses \subseteq NewBonuses
  BY Zenon DEF Init
<1>2. \A i \in 1 .. Len(rates) : RateChecks(rates[i].terms)
  BY Zenon, OpeningAssumption DEF Init
<1>3. \A a \in Admins : admin[a] # "stamped"
  BY Zenon DEF Init
<1>4. cache.held = FALSE
  BY SMTT(30) DEF Init, NoEntry
<1>5. NoPrice.version = 0 /\ NoPrice.points.code # "ok"
  BY SMTT(30) DEF NoPrice, Refused
<1>6. ASSUME NEW c \in Callers  PROVE route[c] = NoRoute /\ price[c] = NoPrice
  BY Zenon DEF Init
<1>7. ASSUME NEW c \in Callers  PROVE Rated(route[c].rate) /\ Valued(c)
  <2>1. price[c].version = 0 /\ price[c].points.code # "ok"
    BY Zenon, <1>5, <1>6
  <2>2. Rated(route[c].rate)
    BY Zenon, <1>6, NoRateRated
  <2> QED  BY Zenon, <2>1, <2>2 DEF Valued
<1> QED  BY Zenon, <1>1, <1>2, <1>3, <1>4, <1>7 DEF SoundInv

\* Within the limits, calculate_conversion gives the full worth of an amount.
LEMMA ConvertedFully ==
    ASSUME NEW terms \in RateTerms, RateChecks(terms), NEW points \in Nat,
           NEW bonus, NEW t, AppliedBps(bonus, t) \in Nat,
           Limit(terms, points) = "ok"
    PROVE  calculate_conversion(terms, points, bonus, t).destination_points
             = Worth(terms, points, AppliedBps(bonus, t))
<1> DEFINE p == calculate_conversion(terms, points, bonus, t)
           worth == Worth(terms, points, AppliedBps(bonus, t))
<1>1. Limit(terms, points) = "ok" => p.destination_points = worth
  BY Zenon, Converted
<1> QED  BY Zenon, <1>1

\* A refusal or the worth of each of two amounts, against the price of the sum.
LEMMA PartsAndWhole ==
    ASSUME NEW terms \in RateTerms, RateChecks(terms), NEW m \in Nat, NEW n \in Nat,
           NEW bps \in Nat, NEW u \in {0, Worth(terms, m, bps)},
           NEW w \in {0, Worth(terms, n, bps)}, Limit(terms, m + n) = "ok",
           NEW bonus, AppliedBps(bonus, 0) = bps
    PROVE  u + w <= calculate_conversion(terms, m + n, bonus, 0).destination_points
<1>1. PICK k \in Nat : k = m + n
  BY SMTT(30)
<1>2. AppliedBps(bonus, 0) \in Nat /\ Limit(terms, k) = "ok"
  BY Zenon, <1>1
<1>3. calculate_conversion(terms, k, bonus, 0).destination_points
        = Worth(terms, k, AppliedBps(bonus, 0))
  BY SMTT(30), <1>2, ConvertedFully
<1>4. PICK x \in Nat, y \in Nat, z \in Nat :
        /\ x = Worth(terms, m, bps) /\ y = Worth(terms, n, bps)
        /\ z = Worth(terms, k, bps)
  BY Zenon, WorthType
<1>5. x + y <= z
  BY Zenon, <1>1, <1>4, WorthOfSum
<1>6. u \in {0, x} /\ w \in {0, y}
  BY Zenon, <1>4
<1>7. u + w <= z
  BY SMTT(30), <1>5, <1>6
<1> QED  BY Zenon, <1>1, <1>3, <1>4, <1>7

\* Rounding never pays for splitting: two amounts priced with one version and
\* one bonus together yield no more than the price of their sum
\* (calculate_conversion), for any terms the table's CHECK constraints allow.
THEOREM SplittingIsNoGain == Spec => []SplittingNeverPays
<1>1. IInv /\ SoundInv => SplittingNeverPays
  <2> SUFFICES ASSUME IInv, SoundInv, NEW c \in Callers, NEW d \in Callers,
                      price[c].version # 0, price[c].version = price[d].version,
                      price[c].bps = price[d].bps,
                      Limit(price[c].terms, amount[c] + amount[d]) = "ok"
               PROVE  LET bonus == [bonus_bps |-> price[c].bps,
                                    starts_at |-> 0, ends_at |-> 1]
                          whole == calculate_conversion(price[c].terms,
                                      amount[c] + amount[d], bonus, 0)
                      IN  price[c].points.destination_points
                            + price[d].points.destination_points
                          <= whole.destination_points
    BY Zenon DEF SplittingNeverPays
  <2>1. /\ OnRecord(price[c].version, price[c].terms) /\ price[c].bps \in Nat
        /\ price[c].points.destination_points
             \in {0, Worth(price[c].terms, amount[c], price[c].bps)}
    BY Zenon DEF SoundInv, Valued
  <2>2. /\ OnRecord(price[c].version, price[d].terms)
        /\ price[d].points.destination_points
             \in {0, Worth(price[d].terms, amount[d], price[c].bps)}
    BY Zenon DEF SoundInv, Valued
  <2>3. price[d].terms = price[c].terms
    BY Zenon, <2>1, <2>2 DEF OnRecord
  <2>4. price[c].terms \in RateTerms /\ RateChecks(price[c].terms)
    <3>1. PICK i \in 1 .. Len(rates) : rates[i].terms = price[c].terms
      BY Zenon, <2>1 DEF OnRecord
    <3>2. rates \in Seq(RateRows)
      BY Zenon DEF IInv, RateInv
    <3>3. rates[i] \in RateRows
      BY SMTT(30), <3>2
    <3> QED  BY Zenon, <3>1, <3>3, RowFields DEF SoundInv
  <2>5. PICK terms \in RateTerms, bps \in Nat, m \in Nat, n \in Nat :
          /\ terms = price[c].terms /\ bps = price[c].bps
          /\ m = amount[c] /\ n = amount[d]
    BY Zenon, <2>1, <2>4, PricingAssumption
  <2>6. PICK u \in {0, Worth(terms, m, bps)}, w \in {0, Worth(terms, n, bps)} :
          /\ u = price[c].points.destination_points
          /\ w = price[d].points.destination_points
    BY Zenon, <2>1, <2>2, <2>3, <2>5
  <2>7. PICK bonus : bonus = [bonus_bps |-> bps, starts_at |-> 0, ends_at |-> 1]
    BY Zenon
  <2>8. AppliedBps(bonus, 0) = bps
    <3>1. bonus.bonus_bps = bps /\ bonus.starts_at = 0 /\ bonus.ends_at = 1
      BY Zenon, <2>7
    <3>2. 0 <= 0 /\ 0 < 1
      BY SMTT(30)
    <3> QED  BY Zenon, <3>1, <3>2 DEF AppliedBps, applies_at
  <2>9. RateChecks(terms) /\ Limit(terms, m + n) = "ok"
    BY Zenon, <2>4, <2>5
  <2>10. u + w <= calculate_conversion(terms, m + n, bonus, 0).destination_points
    BY Zenon, <2>8, <2>9, PartsAndWhole
  <2> QED  BY Zenon, <2>5, <2>6, <2>7, <2>10
<1> QED  BY <1>1, InitInv, StepInv, SoundInit, SoundStep, PTL DEF Spec

-----------------------------------------------------------------------------
(* How old a quote may be *)

\* The moment t is not after the last change, or before the first.
Past(t) == t <= changed \/ t <= 0

\* The tables: versions begin and end at moments of changes, bonuses are apart
\* and belong to a rate.
TableInv ==
    /\ changed \in Int /\ changed <= now
    /\ \A i \in 1 .. Len(rates) :
          /\ Past(rates[i].effective_from)
          /\ rates[i].effective_to # Forever => Past(rates[i].effective_to)
    /\ \A b, d \in bonuses : b # d => ~Overlap(b, d)
    /\ bonuses # {} => rates # <<>>

\* The route is what the database gives for the moment t, up to the next change
\* that is scheduled, unless there was a change since.
Current(r, t) ==
    \/ changed >= t
    \/ /\ r.rate = ActiveRate(rates, t) /\ r.bonus = ActiveBonus(bonuses, t)
       /\ \A b \in bonuses : b.starts_at > t => r.valid_until <= b.starts_at

\* An entry was loaded for a moment t, and expires at most a load too late.
Entry(e, t) ==
    /\ t <= now /\ Current(e.route, t)
    /\ e.expires_at <= t + MaxLoad + Ttl
    /\ e.expires_at <= e.route.valid_until + MaxLoad

EntryInv ==
    /\ cache.held \in BOOLEAN
    /\ cache.held = TRUE =>
          /\ cache.expires_at \in Nat /\ cache.route.valid_until \in Nat
          /\ now < cache.expires_at /\ cache.expires_at <= MaxTime + Ttl
          /\ \E t \in Nat : Entry(cache, t)

LoadInv(c) ==
    /\ pc[c] \in {"get", "rate", "bonus", "set"} => now <= at[c] + MaxLoad
    /\ pc[c] = "bonus" =>
          /\ changed >= at[c] \/ route[c].rate = ActiveRate(rates, at[c])
          /\ route[c].rate # NoRate => route[c].rate.effective_to \in Nat
    /\ pc[c] = "set" =>
          route[c].valid_until \in Nat /\ Current(route[c], at[c])

RecentInv ==
    TableInv /\ EntryInv /\ \A c \in Callers : LoadInv(c)

\* The version that get_route gives when the rows in force are those of live.
Latest(rows, live) ==
    IF live = {} THEN NoRate
    ELSE rows[CHOOSE i \in live : \A j \in live :
                 rows[j].effective_from <= rows[i].effective_from]

\* get_route gives the same version for two moments with the same rows in force.
LEMMA SameRate ==
    ASSUME NEW rows, NEW t, NEW u,
           \A i \in 1 .. Len(rows) : InForce(rows[i], t) <=> InForce(rows[i], u)
    PROVE  ActiveRate(rows, t) = ActiveRate(rows, u)
<1>1. {i \in 1 .. Len(rows) : InForce(rows[i], t)}
        = {i \in 1 .. Len(rows) : InForce(rows[i], u)}
  BY Zenon
<1>2. \A m : ActiveRate(rows, m)
               = Latest(rows, {i \in 1 .. Len(rows) : InForce(rows[i], m)})
  BY Zenon DEF ActiveRate, Latest
<1> QED  BY Zenon, <1>1, <1>2

\* After the last change, a row is in force for good or no more.
LEMMA InForceSince ==
    ASSUME IInv, TableInv, NEW i \in 1 .. Len(rates),
           NEW t \in Nat, t <= now, changed < t
    PROVE  InForce(rates[i], t) <=> rates[i].effective_to = Forever
<1>1. rates \in Seq(RateRows) /\ now \in Nat /\ now <= MaxTime
  BY Zenon DEF IInv, RateInv, ClockInv
<1>2. rates[i] \in RateRows
  BY SMTT(30), <1>1
<1>3. PICK from \in Int, to \in Int :
        from = rates[i].effective_from /\ to = rates[i].effective_to
  BY Zenon, <1>2, RowFields
<1>4. /\ from <= changed \/ from <= 0
      /\ to # Forever => to <= changed \/ to <= 0
      /\ changed \in Int
  BY Zenon, <1>3 DEF TableInv, Past
<1>5. (from <= t /\ to > t) <=> to = Forever
  BY SMTT(30), <1>1, <1>4, Bounds
<1> QED  BY Zenon, <1>3, <1>5 DEF InForce

\* Between two changes one version applies.
LEMMA RateSince ==
    ASSUME IInv, TableInv, NEW t \in Nat, NEW u \in Nat, t <= now, u <= now,
           changed < t, changed < u
    PROVE  ActiveRate(rates, t) = ActiveRate(rates, u)
<1>1. \A i \in 1 .. Len(rates) : InForce(rates[i], t) <=> InForce(rates[i], u)
  BY Zenon, InForceSince
<1> QED  BY Zenon, <1>1, SameRate

\* A bonus has a rate to go with it.
LEMMA RateOfBonus ==
    ASSUME IInv, TableInv, NEW t \in Nat, t <= now, changed < t,
           ActiveRate(rates, t) = NoRate
    PROVE  bonuses = {}
<1>1. rates \in Seq(RateRows) /\ History(rates)
  BY Zenon DEF IInv, RateInv
<1>2. SUFFICES ASSUME rates # <<>>  PROVE FALSE
  BY Zenon DEF TableInv
<1>3. Len(rates) \in 1 .. Len(rates)
  BY SMTT(30), <1>1, <1>2
<1>4. rates[Len(rates)].effective_to = Forever
  BY Zenon, <1>1, <1>2 DEF History
<1>5. InForce(rates[Len(rates)], t)
  BY Zenon, <1>3, <1>4, InForceSince
<1> DEFINE live == {i \in 1 .. Len(rates) : InForce(rates[i], t)}
           last == CHOOSE i \in live : \A j \in live :
                      rates[j].effective_from <= rates[i].effective_from
<1>6. live # {}
  BY Zenon, <1>3, <1>5
<1>7. ActiveRate(rates, t) = rates[last]
  BY Zenon, <1>6 DEF ActiveRate
<1>8. last \in 1 .. Len(rates)
  <2>1. \A j \in live : j = Len(rates)
    BY Zenon, <1>1, <1>3, <1>5, OneInForce
  <2>2. rates[Len(rates)].effective_from <= rates[Len(rates)].effective_from
    <3>1. rates[Len(rates)] \in RateRows
      BY SMTT(30), <1>1, <1>3
    <3>2. rates[Len(rates)].effective_from \in Int
      BY Zenon, <3>1, RowFields
    <3> QED  BY SMTT(30), <3>2
  <2>3. last = Len(rates)
    BY Zenon, <1>3, <1>5, <2>1, <2>2
  <2> QED  BY Zenon, <1>3, <2>3
<1> HIDE DEF last
<1>9. NoRate.version = 0 /\ rates[last] \in RateRows
  BY SMTT(30), <1>1, <1>8 DEF NoRate
<1>10. rates[last].version \in Nat \ {0}
  BY Zenon, <1>9, RowFields
<1> QED  BY Zenon, <1>7, <1>9, <1>10

\* Bonuses are apart: get_route finds the one that runs.
LEMMA OneBonus ==
    ASSUME SoundInv, TableInv, NEW t \in Nat, NEW b \in bonuses, applies_at(b, t)
    PROVE  ActiveBonus(bonuses, t) = b
<1> DEFINE live == {d \in bonuses : d.starts_at <= t /\ d.ends_at > t}
<1>1. ASSUME NEW d \in bonuses, d.starts_at <= t, t < d.ends_at  PROVE d = b
  <2>1. /\ d.starts_at \in Nat /\ d.ends_at \in Nat
        /\ b.starts_at \in Nat /\ b.ends_at \in Nat
    BY Zenon, BonusFields DEF SoundInv
  <2>2. b.starts_at <= t /\ t < b.ends_at
    BY Zenon DEF applies_at
  <2>3. b.starts_at < d.ends_at /\ d.starts_at < b.ends_at
    BY SMTT(30), <1>1, <2>1, <2>2
  <2> QED  BY Zenon, <2>3 DEF TableInv, Overlap
<1>2. \A d \in bonuses : d.ends_at > t <=> t < d.ends_at
  <2>1. \A d \in bonuses : d.ends_at \in Nat
    BY Zenon, BonusFields DEF SoundInv
  <2> QED  BY SMTT(30), <2>1
<1>3. live = {b}
  BY Zenon, <1>1, <1>2 DEF applies_at
<1> DEFINE found == CHOOSE d \in live : TRUE
<1>4. ActiveBonus(bonuses, t) = found
  BY Zenon, <1>3 DEF ActiveBonus
<1>5. found \in live
  BY Zenon, <1>3
<1> HIDE DEF live, found
<1>6. found = b
  BY Zenon, <1>3, <1>5
<1> QED  BY Zenon, <1>4, <1>6

\* A bonus that get_route finds runs; without one nothing applies.
LEMMA NoBonusApplies == \A t : AppliedBps(NoBonus, t) = 0
<1>1. NoBonus.bonus_bps = 0
  BY SMTT(30) DEF NoBonus
<1> QED  BY Zenon, <1>1 DEF AppliedBps

\* When no bonus runs, none is applied, cached or not.
LEMMA NothingApplies ==
    ASSUME NEW t, NEW bonus, Known(bonus), \A b \in bonuses : ~applies_at(b, t)
    PROVE  AppliedBps(bonus, t) = 0
<1>1. CASE bonus = NoBonus
  BY Zenon, <1>1, NoBonusApplies
<1>2. CASE bonus \in bonuses
  BY Zenon, <1>2 DEF AppliedBps
<1> QED  BY Zenon, <1>1, <1>2 DEF Known

\* valid_until is a moment, and no bonus starts before it.
LEMMA ValidUntilBounds ==
    ASSUME SoundInv, NEW rate, rate # NoRate => rate.effective_to \in Nat,
           NEW bonus, Known(bonus), NEW t
    PROVE  LET v == ValidUntil(rate, bonus, bonuses, t) IN
           /\ v \in Nat
           /\ \A b \in bonuses : b.starts_at > t => v <= b.starts_at
<1> DEFINE R == IF rate = NoRate THEN {} ELSE {rate.effective_to}
           B == IF bonus = NoBonus THEN {} ELSE {bonus.ends_at}
           S == {b.starts_at : b \in {c \in bonuses : c.starts_at > t}}
           T == {Forever} \cup R \cup B \cup S
<1>1. Forever \in Nat /\ R \subseteq Nat
  BY Zenon, Bounds
<1>2. B \subseteq Nat
  BY Zenon, BonusFields DEF Known, SoundInv
<1>3. S \subseteq Nat
  BY Zenon, BonusFields DEF SoundInv
<1>4. T \in SUBSET Nat /\ T # {}
  <2> HIDE DEF R, B, S
  <2> QED  BY Zenon, <1>1, <1>2, <1>3
<1>5. \A b \in bonuses : b.starts_at > t => b.starts_at \in T
  BY Zenon
<1>6. ValidUntil(rate, bonus, bonuses, t) = Min(T)
  BY Zenon DEF ValidUntil
<1> HIDE DEF T
<1>7. Min(T) \in T /\ \A n \in T : Min(T) <= n
  BY Zenon, <1>4, MinOfNaturals
<1> QED  BY Zenon, <1>4, <1>5, <1>6, <1>7

\* What was current stays so, or there was a change.
Carries == \A r : \A t \in Nat : t <= now /\ Current(r, t) => Current(r, t)'

\* As long as the tables stay, a route stays current.
LEMMA Undisturbed ==
    ASSUME UNCHANGED <<rates, bonuses, changed>>
    PROVE  Carries
  BY Zenon DEF Carries, Current

\* A cache entry stays what it was, or is gone.
LEMMA EntryKept ==
    ASSUME EntryInv, Carries, UNCHANGED now, cache' = NoEntry \/ UNCHANGED cache
    PROVE  EntryInv'
<1>1. CASE cache' = NoEntry
  <2>1. NoEntry.held = FALSE
    BY SMTT(30) DEF NoEntry
  <2>2. cache'.held = FALSE
    BY Zenon, <1>1, <2>1
  <2> QED  BY Zenon, <2>2 DEF EntryInv
<1>2. CASE UNCHANGED cache
  BY Zenon, <1>2 DEF EntryInv, Entry, Carries
<1> QED  BY Zenon, <1>1, <1>2

\* A load goes on through the changes of others.
LEMMA LoadKept ==
    ASSUME NEW c \in Callers, LoadInv(c), at[c] \in Nat, at[c] <= now,
           Carries, UNCHANGED now,
           changed' >= at[c] \/ UNCHANGED <<rates, changed>>,
           pc'[c] = pc[c], at'[c] = at[c], route'[c] = route[c]
    PROVE  LoadInv(c)'
<1>1. pc'[c] = "bonus" =>
        /\ changed' >= at'[c] \/ route'[c].rate = ActiveRate(rates', at'[c])
        /\ route'[c].rate # NoRate => route'[c].rate.effective_to \in Nat
  BY Zenon DEF LoadInv
<1>2. pc'[c] = "set" =>
        route'[c].valid_until \in Nat /\ Current(route[c], at[c])'
  <2>1. ASSUME pc[c] = "set"
        PROVE  route[c].valid_until \in Nat /\ Current(route[c], at[c])
    BY Zenon, <2>1 DEF LoadInv
  <2>2. PICK t \in Nat : t = at[c]
    BY Zenon
  <2>r. PICK r : r = route[c]
    BY Zenon
  <2>3. Current(r, t) => Current(r, t)'
    BY Zenon, <2>2 DEF Carries
  <2>4. Current(r, t) => Current(route[c], at[c])'
    <3>1. r = route'[c] /\ t = at'[c]
      BY Zenon, <2>2, <2>r
    <3> QED  BY Zenon, <2>3, <3>1 DEF Current
  <2> QED  BY Zenon, <2>1, <2>2, <2>r, <2>4
<1>3. pc'[c] \in {"get", "rate", "bonus", "set"} => now' <= at'[c] + MaxLoad
  BY Zenon DEF LoadInv
<1> QED  BY Zenon, <1>1, <1>2, <1>3 DEF LoadInv

\* A change that commits makes whatever was loaded up to now stale, not wrong.
LEMMA RecentChange ==
    ASSUME IInv, RecentInv, TableInv', changed' = now,
           UNCHANGED <<now, cache, callers>>
    PROVE  RecentInv'
<1>1. ASSUME NEW t \in Nat, t <= now  PROVE changed' >= t
  <2>1. now \in Nat
    BY Zenon DEF IInv, ClockInv
  <2> QED  BY SMTT(30), <1>1, <2>1
<1>2. Carries
  BY Zenon, <1>1 DEF Carries, Current
<1>3. EntryInv'
  BY Zenon, <1>2, EntryKept DEF RecentInv
<1>4. ASSUME NEW c \in Callers  PROVE LoadInv(c)'
  <2>1. /\ LoadInv(c) /\ at[c] \in Nat /\ at[c] <= now
        /\ UNCHANGED <<pc, at, route>>
    BY Zenon DEF RecentInv, IInv, CallerTypes, CallerInv, Holds, callers
  <2>2. changed' >= at[c]
    BY Zenon, <1>1, <2>1
  <2> QED  BY Zenon, <1>2, <2>1, <2>2, LoadKept
<1> QED  BY Zenon, <1>3, <1>4 DEF RecentInv

\* The commit of a rate change keeps routes current up to the change.
LEMMA RecentCommit ==
    ASSUME IInv, RecentInv, NEW a \in Admins, CommitRate(a)
    PROVE  RecentInv'
<1>1. rates \in Seq(RateRows) /\ now \in Nat /\ TableInv /\ changed \in Int
  BY Zenon DEF IInv, RateInv, ClockInv, RecentInv, TableInv
<1>2. changed' = now /\ UNCHANGED <<now, bonuses, cache, callers>>
  BY Zenon DEF CommitRate, Committed
<1>3. PICK end \in Nat, v \in RateRows :
        /\ After(rates, end, v, rates') /\ end <= now
        /\ v.effective_from = end /\ v.effective_to = Forever
  BY Zenon, CommitAfter
<1>4. ASSUME NEW t \in Int, Past(t)  PROVE Past(t)'
  <2>1. t <= changed \/ t <= 0
    BY Zenon, <1>4 DEF Past
  <2>2. changed <= now
    BY Zenon, <1>1 DEF TableInv
  <2>3. t <= now \/ t <= 0
    BY SMTT(30), <1>1, <2>1, <2>2
  <2> QED  BY Zenon, <1>2, <2>3 DEF Past
<1>5. Past(end)'
  BY Zenon, <1>2, <1>3 DEF Past
<1>6. ASSUME NEW i \in 1 .. Len(rates')
      PROVE  (/\ Past(rates[i].effective_from)
              /\ rates[i].effective_to # Forever => Past(rates[i].effective_to))'
  <2>1. Len(rates) \in Nat /\ Len(rates') = Len(rates) + 1
    <3>1. Len(rates) \in Nat
      BY SMTT(30), <1>1
    <3> QED  BY Zenon, <1>3, <3>1 DEF After
  <2>2. i \in 1 .. Len(rates) \/ i = Len(rates) + 1
    BY SMTT(30), <2>1
  <2>3. CASE i = Len(rates) + 1
    <3>1. rates'[i].effective_from = end /\ rates'[i].effective_to = Forever
      BY Zenon, <1>3, <2>3 DEF After
    <3> QED  BY Zenon, <1>5, <3>1 DEF Past
  <2>4. CASE i \in 1 .. Len(rates)
    <3>1. rates[i] \in RateRows
      BY SMTT(30), <1>1, <2>4
    <3>2. PICK from \in Int, to \in Int :
            from = rates[i].effective_from /\ to = rates[i].effective_to
      BY Zenon, <3>1, RowFields
    <3>3. Past(from) /\ (to # Forever => Past(to))
      BY Zenon, <1>1, <2>4, <3>2 DEF TableInv
    <3>4. /\ rates'[i].effective_from = from
          /\ rates'[i].effective_to \in {end, to}
          /\ rates'[i].effective_to = to => to # Forever \/ end = Forever
      BY Zenon, <1>3, <2>4, <3>2 DEF After, SameBut
    <3>5. Past(from)'
      BY Zenon, <1>4, <3>3
    <3>6. to # Forever => Past(to)'
      BY Zenon, <1>4, <3>3
    <3>7. rates'[i].effective_to # Forever => Past(rates[i].effective_to)'
      BY Zenon, <1>5, <3>4, <3>6 DEF Past
    <3> QED  BY Zenon, <3>4, <3>5, <3>7 DEF Past
  <2> QED  BY Zenon, <2>2, <2>3, <2>4
<1>7. rates' # <<>>
  <2>1. Len(rates) \in Nat
    BY SMTT(30), <1>1
  <2>2. Len(rates') = Len(rates) + 1
    BY Zenon, <1>3 DEF After
  <2> QED  BY SMTT(30), <2>1, <2>2
<1>8. TableInv'
  <2>1. changed' \in Int /\ changed' <= now'
    BY SMTT(30), <1>1, <1>2
  <2> QED  BY Zenon, <1>1, <1>2, <1>6, <1>7, <2>1 DEF TableInv
<1> QED  BY Zenon, <1>2, <1>8, RecentChange

\* So does a new bonus.
LEMMA RecentBonus ==
    ASSUME IInv, SoundInv, RecentInv, NEW a \in Admins, CreateBonus(a)
    PROVE  RecentInv'
<1>1. now \in Nat /\ TableInv /\ changed \in Int /\ changed <= now
  BY Zenon DEF IInv, ClockInv, RecentInv, TableInv
<1>2. changed' = now /\ UNCHANGED <<now, rates, cache, callers>>
  BY Zenon DEF CreateBonus, Committed
<1>3. PICK new \in NewBonuses :
        /\ \A b \in bonuses : ~Overlap(b, new)
        /\ bonuses' = bonuses \cup {new}
  BY Zenon DEF CreateBonus
<1>4. \A b \in bonuses : ~Overlap(new, b)
  BY Zenon, <1>3 DEF Overlap
<1>5. \A b, d \in bonuses' : b # d => ~Overlap(b, d)
  BY Zenon, <1>1, <1>3, <1>4 DEF TableInv
<1>6. rates # <<>>
  <2>1. PICK i \in 1 .. Len(rates) : TRUE
    BY Zenon DEF CreateBonus
  <2> QED  BY SMTT(30), <2>1
<1>7. ASSUME NEW t \in Int, Past(t)  PROVE Past(t)'
  <2>1. t <= changed \/ t <= 0
    BY Zenon, <1>7 DEF Past
  <2>2. t <= now \/ t <= 0
    BY SMTT(30), <1>1, <2>1
  <2> QED  BY Zenon, <1>2, <2>2 DEF Past
<1>8. ASSUME NEW i \in 1 .. Len(rates)
      PROVE  (/\ Past(rates[i].effective_from)
              /\ rates[i].effective_to # Forever => Past(rates[i].effective_to))'
  <2>1. rates \in Seq(RateRows)
    BY Zenon DEF IInv, RateInv
  <2>2. rates[i] \in RateRows
    BY SMTT(30), <2>1
  <2>3. PICK from \in Int, to \in Int :
          from = rates[i].effective_from /\ to = rates[i].effective_to
    BY Zenon, <2>2, RowFields
  <2>4. Past(from) /\ (to # Forever => Past(to))
    BY Zenon, <1>1, <2>3 DEF TableInv
  <2>5. Past(from)' /\ (to # Forever => Past(to)')
    BY Zenon, <1>7, <2>4
  <2> QED  BY Zenon, <1>2, <2>3, <2>5 DEF Past
<1>9. TableInv'
  <2>1. changed' \in Int /\ changed' <= now'
    BY SMTT(30), <1>1, <1>2
  <2> QED  BY Zenon, <1>2, <1>5, <1>6, <1>8, <2>1 DEF TableInv
<1> QED  BY Zenon, <1>2, <1>9, RecentChange

\* The other steps leave the tables and the time of the last change alone.
Settled == UNCHANGED <<rates, bonuses, changed>>

\* The tables stay in order when nobody writes them.
LEMMA TableKept ==
    ASSUME TableInv, Settled, changed <= now'
    PROVE  TableInv'
  BY Zenon DEF TableInv, Settled, Past

\* A step of one caller.
LEMMA RecentFrame ==
    ASSUME IInv, RecentInv, Settled, UNCHANGED now, EntryInv',
           NEW c \in Callers, LoadInv(c)',
           \A d \in Callers \ {c} :
              pc'[d] = pc[d] /\ at'[d] = at[d] /\ route'[d] = route[d]
    PROVE  RecentInv'
<1>1. TableInv'
  BY Zenon, TableKept DEF RecentInv, TableInv
<1>2. Carries
  BY Zenon, Undisturbed DEF Settled
<1>3. ASSUME NEW d \in Callers \ {c}  PROVE LoadInv(d)'
  <2>1. LoadInv(d) /\ at[d] \in Nat /\ at[d] <= now
    BY Zenon DEF RecentInv, IInv, CallerTypes, CallerInv, Holds
  <2>2. UNCHANGED <<rates, changed>>
    BY Zenon DEF Settled
  <2> QED  BY Zenon, <1>2, <2>1, <2>2, LoadKept
<1> QED  BY Zenon, <1>1, <1>3 DEF RecentInv

\* A step of an admin that changes no table, or none at all.
LEMMA RecentIdle ==
    ASSUME IInv, RecentInv, Settled, UNCHANGED <<now, callers>>,
           cache' = NoEntry \/ UNCHANGED cache
    PROVE  RecentInv'
<1>1. TableInv'
  BY Zenon, TableKept DEF RecentInv, TableInv
<1>2. Carries
  BY Zenon, Undisturbed DEF Settled
<1>3. EntryInv'
  BY Zenon, <1>2, EntryKept DEF RecentInv
<1>4. ASSUME NEW d \in Callers  PROVE LoadInv(d)'
  <2>1. LoadInv(d) /\ at[d] \in Nat /\ at[d] <= now
    BY Zenon DEF RecentInv, IInv, CallerTypes, CallerInv, Holds
  <2>2. UNCHANGED <<rates, changed, pc, at, route>>
    BY Zenon DEF Settled, callers
  <2> QED  BY Zenon, <1>2, <2>1, <2>2, LoadKept
<1> QED  BY Zenon, <1>1, <1>3, <1>4 DEF RecentInv

\* An entry expires in time, and a caller waits no longer than a load.
LEMMA RecentTick ==
    ASSUME IInv, RecentInv, Tick
    PROVE  RecentInv'
<1>1. now \in Nat /\ TableInv /\ EntryInv /\ changed \in Int /\ changed <= now
  BY Zenon DEF IInv, ClockInv, RecentInv, TableInv
<1>2. Settled /\ UNCHANGED <<pc, at, route>> /\ now' = now + 1
  BY Zenon DEF Tick, Settled, callers
<1>3. changed <= now' /\ now <= now'
  BY SMTT(30), <1>1, <1>2
<1>4. TableInv'
  BY Zenon, <1>1, <1>2, <1>3, TableKept
<1>5. EntryInv'
  <2>1. CASE cache' = NoEntry
    <3>1. NoEntry.held = FALSE
      BY SMTT(30) DEF NoEntry
    <3>2. cache'.held = FALSE
      BY Zenon, <2>1, <3>1
    <3> QED  BY Zenon, <3>2 DEF EntryInv
  <2>2. CASE UNCHANGED cache /\ ~(cache.held = TRUE /\ cache.expires_at <= now + 1)
    <3>1. ASSUME cache.held = TRUE
          PROVE  /\ now' < cache.expires_at
                 /\ \E t \in Nat : Entry(cache, t)'
      <4>1. cache.expires_at \in Nat /\ ~(cache.expires_at <= now + 1)
        BY Zenon, <1>1, <2>2, <3>1 DEF EntryInv
      <4>2. now' < cache.expires_at
        BY SMTT(30), <1>1, <1>2, <4>1
      <4>3. PICK t \in Nat : Entry(cache, t)
        BY Zenon, <1>1, <3>1 DEF EntryInv
      <4>4. t <= now
        BY Zenon, <4>3 DEF Entry
      <4>5. t <= now'
        BY SMTT(30), <1>1, <1>2, <4>4
      <4>6. Entry(cache, t)'
        <5>1. Current(cache.route, t)'
          BY Zenon, <1>2, <2>2, <4>3 DEF Entry, Current, Settled
        <5> QED  BY Zenon, <2>2, <4>3, <4>5, <5>1 DEF Entry
      <4> QED  BY Zenon, <4>2, <4>6
    <3> QED  BY Zenon, <1>1, <2>2, <3>1 DEF EntryInv
  <2>3. cache.held \in BOOLEAN
    BY Zenon, <1>1 DEF EntryInv
  <2>4. cache' = IF cache.held /\ cache.expires_at <= now + 1 THEN NoEntry ELSE cache
    BY Zenon DEF Tick
  <2> QED  BY Zenon, <2>1, <2>2, <2>3, <2>4
<1>6. ASSUME NEW c \in Callers  PROVE LoadInv(c)'
  <2>1. LoadInv(c) /\ at[c] \in Nat
    BY Zenon DEF RecentInv, IInv, CallerTypes
  <2>2. ASSUME pc[c] \in {"get", "rate", "bonus", "set"}
        PROVE  now' <= at[c] + MaxLoad
    <3>1. now - at[c] < MaxLoad
      BY Zenon, <2>2 DEF Tick
    <3> QED  BY SMTT(30), <1>1, <1>2, <2>1, <3>1, Bounds
  <2>3. pc[c] = "set" => Current(route[c], at[c])'
    BY Zenon, <1>2, <2>1 DEF LoadInv, Current, Settled
  <2> QED  BY Zenon, <1>2, <2>1, <2>2, <2>3 DEF LoadInv, Settled
<1> QED  BY Zenon, <1>4, <1>5, <1>6 DEF RecentInv

\* The version that get_route finds ends later than the moment it is asked for.
LEMMA ActiveEnds ==
    ASSUME NEW rows \in Seq(RateRows), History(rows), NEW t \in Nat,
           ActiveRate(rows, t) # NoRate
    PROVE  ActiveRate(rows, t).effective_to \in Nat
<1> DEFINE live == {i \in 1 .. Len(rows) : InForce(rows[i], t)}
           last == CHOOSE i \in live : \A j \in live :
                      rows[j].effective_from <= rows[i].effective_from
<1>1. live # {} /\ ActiveRate(rows, t) = rows[last]
  BY Zenon DEF ActiveRate
<1>2. PICK k \in live : TRUE
  BY Zenon, <1>1
<1>3. k \in 1 .. Len(rows) /\ rows[k] \in RateRows
  BY SMTT(30), <1>2
<1>4. rows[k].effective_from \in Int /\ rows[k].effective_to \in Int
  BY Zenon, <1>3, RowFields
<1>5. rows[k].effective_from <= rows[k].effective_from
  BY SMTT(30), <1>4
<1>6. \A j \in live : j = k
  BY Zenon, <1>2, OneInForce
<1>7. last = k
  BY Zenon, <1>2, <1>5, <1>6
<1>8. rows[k].effective_to > t
  BY Zenon, <1>2 DEF InForce
<1>9. rows[k].effective_to \in Nat
  BY SMTT(30), <1>4, <1>8
<1> HIDE DEF last
<1> QED  BY Zenon, <1>1, <1>7, <1>9

\* What get_route loads for a quote.
LEMMA LoadedFresh ==
    ASSUME IInv, SoundInv, RecentInv, NEW c \in Callers, pc[c] = "bonus"
    PROVE  Loaded(c).valid_until \in Nat /\ Current(Loaded(c), at[c])
<1> DEFINE rate == route[c].rate
           bonus == ActiveBonus(bonuses, at[c])
           until == ValidUntil(rate, bonus, bonuses, at[c])
<1>1. /\ Loaded(c).rate = rate /\ Loaded(c).bonus = bonus
      /\ Loaded(c).valid_until = until
  BY Zenon DEF Loaded
<1>2. /\ changed >= at[c] \/ rate = ActiveRate(rates, at[c])
      /\ rate # NoRate => rate.effective_to \in Nat
  BY Zenon DEF RecentInv, LoadInv
<1>3. Known(bonus)
  BY Zenon, ActiveBonusKnown
<1>4. /\ until \in Nat
      /\ \A b \in bonuses : b.starts_at > at[c] => until <= b.starts_at
  BY Zenon, <1>2, <1>3, ValidUntilBounds
<1> HIDE DEF rate, until
<1> QED  BY Zenon, <1>1, <1>2, <1>4 DEF Current

\* The entry that a quote makes of its route.
LEMMA EntryMade ==
    ASSUME IInv, RecentInv, NEW c \in Callers, pc[c] = "set", NEW ttl,
           ttl = EntryTtl(route[c], at[c]), ttl > 0, Settled, UNCHANGED now,
           cache' = [held |-> TRUE, route |-> route[c], expires_at |-> now + ttl]
    PROVE  EntryInv'
<1>1. /\ cache'.held = TRUE /\ cache'.route = route[c]
      /\ cache'.expires_at = now + ttl
  BY Zenon
<1>2. /\ now \in Nat /\ now <= MaxTime /\ at[c] \in Nat /\ at[c] <= now
      /\ now <= at[c] + MaxLoad
      /\ route[c].valid_until \in Nat /\ Current(route[c], at[c])
  BY Zenon DEF IInv, ClockInv, CallerTypes, CallerInv, Holds, RecentInv, LoadInv
<1>3. PICK a \in Nat, v \in Nat : a = at[c] /\ v = route[c].valid_until
  BY Zenon, <1>2
<1>4. ttl \in Int /\ ttl <= Ttl /\ ttl <= v - a
  <2>1. Ttl \in Int /\ v - a \in Int
    BY SMTT(30), Bounds
  <2>2. ttl = Min({Ttl, v - a})
    BY Zenon, <1>3 DEF EntryTtl
  <2> QED  BY Zenon, <2>1, <2>2, MinOfTwo
<1>5. /\ now + ttl \in Nat /\ now < now + ttl /\ now + ttl <= MaxTime + Ttl
      /\ now + ttl <= a + MaxLoad + Ttl /\ now + ttl <= v + MaxLoad
  <2>1. a <= now /\ now <= a + MaxLoad
    BY Zenon, <1>2, <1>3
  <2> QED  BY SMTT(30), <1>2, <1>4, <2>1, Bounds
<1>6. Entry(cache, a)'
  <2>1. Current(route[c], a)
    BY Zenon, <1>2, <1>3
  <2>2. Current(cache.route, a)'
    BY Zenon, <1>1, <2>1 DEF Current, Settled
  <2>3. a <= now'
    BY Zenon, <1>2, <1>3
  <2>4. /\ cache'.expires_at <= a + MaxLoad + Ttl
        /\ cache'.expires_at <= cache'.route.valid_until + MaxLoad
    BY Zenon, <1>1, <1>3, <1>5
  <2> QED  BY Zenon, <2>2, <2>3, <2>4 DEF Entry
<1>7. /\ cache'.expires_at \in Nat /\ cache'.route.valid_until \in Nat
      /\ now' < cache'.expires_at /\ cache'.expires_at <= MaxTime + Ttl
  BY Zenon, <1>1, <1>2, <1>5
<1> QED  BY Zenon, <1>1, <1>6, <1>7 DEF EntryInv

\* What a caller loads or caches is current.
LEMMA RecentCaller ==
    ASSUME IInv, SoundInv, RecentInv, NEW c \in Callers,
           \/ StartQuote(c) \/ CacheHit(c) \/ CacheMiss(c)
           \/ StartTransfer(c) \/ LoadRate(c) \/ LoadBonus(c) \/ CacheSet(c)
    PROVE  RecentInv'
<1>t. /\ CallerTypes /\ Holds(c) /\ RateInv /\ at[c] \in Nat /\ now \in Nat
      /\ LoadInv(c) /\ EntryInv
  BY Zenon DEF IInv, CallerInv, CallerTypes, ClockInv, RecentInv
<1>u. Settled /\ UNCHANGED now
  BY Zenon DEF StartQuote, CacheHit, CacheMiss, StartTransfer, LoadRate,
               LoadBonus, CacheSet, Settled
<1>e. UNCHANGED cache => EntryInv'
  <2>1. Carries
    BY Zenon, <1>u, Undisturbed DEF Settled
  <2> QED  BY Zenon, <1>t, <1>u, <2>1, EntryKept
<1>p. ASSUME NEW r, Priced(c, r), UNCHANGED at, EntryInv'  PROVE RecentInv'
  <2>1. route' = [route EXCEPT ![c] = NoRoute] /\ Goto(c, "done")
    BY Zenon, <1>p DEF Priced
  <2>2. \A d \in Callers \ {c} : route'[d] = route[d]
    BY Zenon, <1>t, <2>1 DEF CallerTypes
  <2>3. pc'[c] = "done" /\ \A d \in Callers \ {c} : pc'[d] = pc[d]
    BY Zenon, <1>t, <2>1, EntryFrame
  <2>4. LoadInv(c)'
    BY Zenon, <2>3 DEF LoadInv
  <2> QED  BY Zenon, <1>p, <1>u, <2>2, <2>3, <2>4, RecentFrame
<1>1. CASE StartQuote(c) \/ StartTransfer(c)
  <2>1. PICK s \in {"get", "rate"} :
          /\ Goto(c, s) /\ at' = [at EXCEPT ![c] = now]
          /\ UNCHANGED <<route, cache>>
    BY Zenon, <1>1 DEF StartQuote, StartTransfer
  <2>2. pc'[c] = s /\ \A d \in Callers \ {c} : pc'[d] = pc[d]
    BY Zenon, <1>t, <2>1, EntryFrame
  <2>3. at'[c] = now /\ \A d \in Callers \ {c} : at'[d] = at[d]
    BY Zenon, <1>t, <2>1 DEF CallerTypes
  <2>4. now <= now + MaxLoad
    BY SMTT(30), <1>t, Bounds
  <2>5. now' <= at'[c] + MaxLoad
    BY Zenon, <1>u, <2>3, <2>4
  <2>6. LoadInv(c)'
    BY Zenon, <2>2, <2>5 DEF LoadInv
  <2> QED  BY Zenon, <1>e, <1>u, <2>1, <2>2, <2>3, <2>6, RecentFrame
<1>2. CASE CacheMiss(c)
  <2>1. pc[c] = "get" /\ Goto(c, "rate") /\ UNCHANGED <<at, route, cache>>
    BY Zenon, <1>2 DEF CacheMiss
  <2>2. pc'[c] = "rate" /\ \A d \in Callers \ {c} : pc'[d] = pc[d]
    BY Zenon, <1>t, <2>1, EntryFrame
  <2>3. LoadInv(c)'
    BY Zenon, <1>t, <1>u, <2>1, <2>2 DEF LoadInv
  <2> QED  BY Zenon, <1>e, <1>u, <2>1, <2>2, <2>3, RecentFrame
<1>3. CASE LoadRate(c)
  <2> DEFINE rate == ActiveRate(rates, at[c])
             loaded == [route[c] EXCEPT !.rate = rate]
  <2>1. /\ pc[c] = "rate" /\ Goto(c, "bonus") /\ UNCHANGED <<at, cache>>
        /\ route' = [route EXCEPT ![c] = loaded]
    BY Zenon, <1>3 DEF LoadRate
  <2>2. rate # NoRate => rate.effective_to \in Nat
    BY Zenon, <1>t, ActiveEnds DEF RateInv
  <2> HIDE DEF rate
  <2>3. route[c] = NoRoute
    BY Zenon, <1>t, <2>1 DEF Holds
  <2>4. loaded.rate = rate
    BY SMTT(30), <2>3 DEF NoRoute
  <2> HIDE DEF loaded
  <2>5. route'[c] = loaded /\ \A d \in Callers \ {c} : route'[d] = route[d]
    BY Zenon, <1>t, <2>1 DEF CallerTypes
  <2>6. pc'[c] = "bonus" /\ \A d \in Callers \ {c} : pc'[d] = pc[d]
    BY Zenon, <1>t, <2>1, EntryFrame
  <2>7. /\ route'[c].rate = ActiveRate(rates', at'[c])
        /\ route'[c].rate # NoRate => route'[c].rate.effective_to \in Nat
    BY Zenon, <1>u, <2>1, <2>2, <2>4, <2>5 DEF rate, Settled
  <2>8. LoadInv(c)'
    BY Zenon, <1>t, <1>u, <2>1, <2>6, <2>7 DEF LoadInv
  <2> QED  BY Zenon, <1>e, <1>u, <2>1, <2>5, <2>6, <2>8, RecentFrame
<1>4. CASE LoadBonus(c)
  <2>1. /\ pc[c] = "bonus" /\ UNCHANGED <<at, cache>>
        /\ \/ Priced(c, Loaded(c))
           \/ route' = [route EXCEPT ![c] = Loaded(c)] /\ Goto(c, "set")
    BY Zenon, <1>4 DEF LoadBonus
  <2>2. PICK r : r = Loaded(c)
    BY Zenon
  <2>3. r.valid_until \in Nat /\ Current(r, at[c])
    BY Zenon, <2>1, <2>2, LoadedFresh
  <2>4. CASE Priced(c, r)
    BY Zenon, <1>e, <1>p, <2>1, <2>4
  <2>5. CASE route' = [route EXCEPT ![c] = r] /\ Goto(c, "set")
    <3>1. route'[c] = r /\ \A d \in Callers \ {c} : route'[d] = route[d]
      BY Zenon, <1>t, <2>5 DEF CallerTypes
    <3>2. pc'[c] = "set" /\ \A d \in Callers \ {c} : pc'[d] = pc[d]
      BY Zenon, <1>t, <2>5, EntryFrame
    <3>3. Current(route[c], at[c])'
      BY Zenon, <1>u, <2>1, <2>3, <3>1 DEF Current, Settled
    <3>4. LoadInv(c)'
      BY Zenon, <1>t, <1>u, <2>1, <2>3, <3>1, <3>2, <3>3 DEF LoadInv
    <3> QED  BY Zenon, <1>e, <1>u, <2>1, <3>1, <3>2, <3>4, RecentFrame
  <2> QED  BY Zenon, <2>1, <2>2, <2>4, <2>5
<1>5. CASE CacheHit(c)
  BY Zenon, <1>5, <1>e, <1>p DEF CacheHit
<1>6. CASE CacheSet(c)
  <2>1. pc[c] = "set" /\ Priced(c, route[c]) /\ UNCHANGED at
    BY Zenon, <1>6 DEF CacheSet
  <2>2. EntryInv'
    BY Zenon, <1>6, <1>e, <1>u, <2>1, EntryMade DEF CacheSet
  <2> QED  BY Zenon, <1>p, <2>1, <2>2
<1> QED  BY Zenon, <1>1, <1>2, <1>3, <1>4, <1>5, <1>6

\* Every step keeps the bound on staleness.
LEMMA RecentStep ==
    IInv /\ SoundInv /\ RecentInv /\ [Next]_vars => RecentInv'
<1>1. ASSUME IInv, RecentInv, UNCHANGED vars  PROVE RecentInv'
  <2>1. Settled /\ UNCHANGED <<now, callers, cache>>
    BY Zenon, <1>1 DEF vars, Settled
  <2> QED  BY Zenon, <1>1, <2>1, RecentIdle
<1>2. ASSUME IInv, RecentInv, NEW a \in Admins,
             StampRate(a) \/ RollbackRate(a) \/ Invalidate(a)
      PROVE  RecentInv'
  <2>1. /\ Settled /\ UNCHANGED <<now, callers>>
        /\ cache' = NoEntry \/ UNCHANGED cache
    BY Zenon, <1>2 DEF StampRate, RollbackRate, Invalidate, Settled
  <2> QED  BY Zenon, <1>2, <2>1, RecentIdle
<1>3. ASSUME IInv, SoundInv, RecentInv, Next  PROVE RecentInv'
  BY Zenon, <1>2, <1>3, RecentCommit, RecentBonus, RecentCaller, RecentTick
  DEF Next
<1> QED  BY Zenon, <1>1, <1>3

\* It holds at the start.
LEMMA RecentInit == Init => RecentInv
<1> SUFFICES ASSUME Init PROVE RecentInv
  OBVIOUS
<1>0. /\ now = 0 /\ changed = -(Ttl + MaxLoad) /\ rates \in OpeningRates
      /\ bonuses = {} /\ cache = NoEntry
      /\ \A c \in Callers : pc[c] = "idle"
  BY Zenon DEF Init
<1>1. /\ rates \in Seq(RateRows) /\ History(rates)
      /\ \A i \in 1 .. Len(rates) : rates[i].effective_from <= 0
  BY Zenon, <1>0, OpeningAssumption
<1>2. ASSUME NEW i \in 1 .. Len(rates), rates[i].effective_to # Forever
      PROVE  rates[i].effective_to <= 0
  <2>1. Len(rates) \in Nat /\ rates # <<>>
    BY SMTT(30), <1>1
  <2>2. rates[Len(rates)].effective_to = Forever
    BY Zenon, <1>1, <2>1 DEF History
  <2>3. i # Len(rates)
    BY Zenon, <1>2, <2>2
  <2>4. i < Len(rates) /\ Len(rates) \in 1 .. Len(rates)
    BY SMTT(30), <2>1, <2>3
  <2>5. /\ rates[i].effective_to <= rates[Len(rates)].effective_from
        /\ rates[Len(rates)].effective_from <= 0
    BY Zenon, <1>1, <2>4 DEF History
  <2>6. rates[i] \in RateRows /\ rates[Len(rates)] \in RateRows
    BY SMTT(30), <1>1, <2>4
  <2>7. /\ rates[i].effective_to \in Int
        /\ rates[Len(rates)].effective_from \in Int
    BY Zenon, <2>6, RowFields
  <2> QED  BY SMTT(30), <2>5, <2>7
<1>3. changed \in Int /\ changed <= now
  BY SMTT(30), <1>0, Bounds
<1>4. TableInv
  BY Zenon, <1>0, <1>1, <1>2, <1>3 DEF TableInv, Past
<1>5. EntryInv
  <2>1. NoEntry.held = FALSE
    BY SMTT(30) DEF NoEntry
  <2>2. cache.held = FALSE
    BY Zenon, <1>0, <2>1
  <2> QED  BY Zenon, <2>2 DEF EntryInv
<1>6. \A c \in Callers : LoadInv(c)
  BY Zenon, <1>0 DEF LoadInv
<1> QED  BY Zenon, <1>4, <1>5, <1>6 DEF RecentInv

\* A price made from the version and the bonus that the database gives.
LEMMA AsInDatabase ==
    ASSUME IInv, TableInv, NEW c \in Callers, NEW r, changed < at[c],
           r.rate = ActiveRate(rates, at[c]),
           AppliedBps(r.bonus, at[c]) = AppliedBps(ActiveBonus(bonuses, at[c]), at[c])
    PROVE  [version |-> PriceOf(c, r).version, bps |-> PriceOf(c, r).bps]
             = InDatabase(at[c])
<1>1. at[c] \in Nat /\ at[c] <= now
  BY Zenon DEF IInv, CallerTypes, CallerInv, Holds
<1>2. PriceOf(c, r).version = ActiveRate(rates, at[c]).version
  <2>1. NoRate.version = 0
    BY SMTT(30) DEF NoRate
  <2> QED  BY Zenon, <2>1, PriceFields
<1>3. PriceOf(c, r).bps = AppliedBps(ActiveBonus(bonuses, at[c]), at[c])
  <2>1. CASE r.rate = NoRate
    <3>1. bonuses = {}
      BY Zenon, <1>1, <2>1, RateOfBonus
    <3>2. Known(ActiveBonus(bonuses, at[c]))
      BY Zenon, ActiveBonusKnown
    <3>3. ActiveBonus(bonuses, at[c]) = NoBonus
      BY Zenon, <3>1, <3>2 DEF Known
    <3>4. PriceOf(c, r).bps = 0
      BY Zenon, <2>1, PriceFields
    <3> QED  BY Zenon, <3>3, <3>4, NoBonusApplies
  <2>2. CASE r.rate # NoRate
    BY Zenon, <2>2, PriceFields
  <2> QED  BY Zenon, <2>1, <2>2
<1> QED  BY Zenon, <1>2, <1>3 DEF InDatabase

\* What QuoteIsRecent asks of a quote that ends with the price of the route r.
Recent(c, r) ==
    \/ [version |-> PriceOf(c, r).version, bps |-> PriceOf(c, r).bps]
         = InDatabase(at[c])
    \/ now - changed < Ttl + MaxLoad
    \/ \E b \in bonuses :
          \/ b.starts_at <= at[c] /\ at[c] < b.starts_at + MaxLoad
          \/ at[c] < b.ends_at /\ b.ends_at <= now

\* From the route it loaded itself: at most a load old.
LEMMA OwnIsRecent ==
    ASSUME IInv, RecentInv, NEW c \in Callers, pc[c] = "set"
    PROVE  Recent(c, route[c])
<1>1. /\ Current(route[c], at[c]) /\ at[c] \in Nat /\ now \in Nat
      /\ now <= at[c] + MaxLoad /\ TableInv /\ changed \in Int
  BY Zenon DEF RecentInv, LoadInv, IInv, CallerTypes, ClockInv, TableInv
<1>2. CASE changed >= at[c]
  <2>1. now - changed < Ttl + MaxLoad
    BY SMTT(30), <1>1, <1>2, Bounds
  <2> QED  BY Zenon, <2>1 DEF Recent
<1>3. CASE ~(changed >= at[c])
  <2>1. changed < at[c]
    BY SMTT(30), <1>1, <1>3
  <2>2. /\ route[c].rate = ActiveRate(rates, at[c])
        /\ route[c].bonus = ActiveBonus(bonuses, at[c])
    BY Zenon, <1>1, <1>3 DEF Current
  <2>3. AppliedBps(route[c].bonus, at[c])
          = AppliedBps(ActiveBonus(bonuses, at[c]), at[c])
    BY Zenon, <2>2
  <2> QED  BY Zenon, <1>1, <2>1, <2>2, <2>3, AsInDatabase DEF Recent
<1> QED  BY Zenon, <1>2, <1>3

\* From an entry: the change it misses is at most the TTL and a load old, or it
\* is a bonus that started within a load, or ended since the clock was read.
LEMMA CachedIsRecent ==
    ASSUME IInv, SoundInv, RecentInv, NEW c \in Callers, pc[c] = "get",
           cache.held = TRUE
    PROVE  Recent(c, cache.route)
<1>1. /\ at[c] \in Nat /\ at[c] <= now /\ now \in Nat /\ TableInv
      /\ changed \in Int /\ now <= at[c] + MaxLoad /\ Known(cache.route.bonus)
  BY Zenon DEF RecentInv, LoadInv, IInv, CallerTypes, CallerInv, Holds,
               ClockInv, TableInv, CacheInv
<1>2. /\ cache.expires_at \in Nat /\ cache.route.valid_until \in Nat
      /\ now < cache.expires_at
  BY Zenon DEF RecentInv, EntryInv
<1>3. PICK t \in Nat : Entry(cache, t)
  BY Zenon DEF RecentInv, EntryInv
<1>4. PICK a \in Nat, e \in Nat, v \in Nat :
        a = at[c] /\ e = cache.expires_at /\ v = cache.route.valid_until
  BY Zenon, <1>1, <1>2
<1>5. /\ t <= now /\ e <= t + MaxLoad + Ttl /\ e <= v + MaxLoad
      /\ a <= now /\ now <= a + MaxLoad /\ now < e
  BY Zenon, <1>1, <1>2, <1>3, <1>4 DEF Entry
<1>6. CASE now - changed < Ttl + MaxLoad
  BY Zenon, <1>6 DEF Recent
<1>7. CASE ~(now - changed < Ttl + MaxLoad)
  <2>1. changed < t /\ changed < a /\ ~(changed >= t)
    BY SMTT(30), <1>1, <1>5, <1>7, Bounds
  <2>2. /\ cache.route.rate = ActiveRate(rates, t)
        /\ cache.route.bonus = ActiveBonus(bonuses, t)
        /\ \A b \in bonuses : b.starts_at > t => v <= b.starts_at
    BY Zenon, <1>3, <1>4, <2>1 DEF Entry, Current
  <2>3. cache.route.rate = ActiveRate(rates, a)
    BY Zenon, <1>1, <1>5, <2>1, <2>2, RateSince
  <2>4. ASSUME AppliedBps(cache.route.bonus, a)
                 = AppliedBps(ActiveBonus(bonuses, a), a)
        PROVE  Recent(c, cache.route)
    BY Zenon, <1>1, <1>4, <2>1, <2>3, <2>4, AsInDatabase DEF Recent
  <2>5. CASE \A b \in bonuses : ~applies_at(b, a)
    <3>1. Known(ActiveBonus(bonuses, a))
      BY Zenon, ActiveBonusKnown
    <3>2. /\ AppliedBps(cache.route.bonus, a) = 0
          /\ AppliedBps(ActiveBonus(bonuses, a), a) = 0
      BY Zenon, <1>1, <2>5, <3>1, NothingApplies
    <3> QED  BY Zenon, <2>4, <3>2
  <2>6. CASE \E b \in bonuses : applies_at(b, a)
    <3>1. PICK b \in bonuses : applies_at(b, a)
      BY Zenon, <2>6
    <3>2. PICK s \in Nat, f \in Nat : s = b.starts_at /\ f = b.ends_at
      BY Zenon, BonusFields DEF SoundInv
    <3>3. s <= a /\ a < f
      BY Zenon, <3>1, <3>2 DEF applies_at
    <3>4. CASE applies_at(b, t)
      <4>1. ActiveBonus(bonuses, t) = b /\ ActiveBonus(bonuses, a) = b
        BY Zenon, <1>1, <3>1, <3>4, OneBonus
      <4> QED  BY Zenon, <2>2, <2>4, <4>1
    <3>5. CASE ~applies_at(b, t)
      <4>1. ~(s <= t) \/ ~(t < f)
        BY Zenon, <3>2, <3>5 DEF applies_at
      <4>2. s > t => v <= s
        BY Zenon, <2>2, <3>2
      <4>3. \/ s <= a /\ a < s + MaxLoad
            \/ a < f /\ f <= now
        BY SMTT(30), <1>1, <1>5, <3>3, <4>1, <4>2, Bounds
      <4>4. \/ b.starts_at <= at[c] /\ at[c] < b.starts_at + MaxLoad
            \/ at[c] < b.ends_at /\ b.ends_at <= now
        BY Zenon, <1>4, <3>2, <4>3
      <4> QED  BY Zenon, <4>4 DEF Recent
    <3> QED  BY Zenon, <3>4, <3>5
  <2> QED  BY Zenon, <2>5, <2>6
<1> QED  BY Zenon, <1>6, <1>7

\* A quote that ends was answered from the cache or from what it loaded.
LEMMA QuoteAnswered ==
    ASSUME IInv, SoundInv, RecentInv, Next, NEW c \in Quotes,
           pc[c] # "done", pc'[c] = "done"
    PROVE  \E r : Recent(c, r) /\ price'[c] = PriceOf(c, r)
<1>t. c \in Callers /\ c \notin Transfers /\ CallerTypes
  BY Zenon, PricingAssumption DEF Callers, IInv
<1>f. ASSUME NEW d \in Callers, NEW s, Goto(d, s)  PROVE d = c /\ s = "done"
  BY Zenon, <1>t, <1>f, EntryFrame
<1>g. ASSUME NEW d \in Callers
      PROVE  ~Goto(d, "get") /\ ~Goto(d, "rate") /\ ~Goto(d, "bonus") /\ ~Goto(d, "set")
  <2>1. ASSUME NEW s, s # "done"  PROVE ~Goto(d, s)
    BY Zenon, <1>f, <2>1
  <2>2. "get" # "done" /\ "rate" # "done" /\ "bonus" # "done" /\ "set" # "done"
    BY Zenon
  <2> QED  BY Zenon, <2>1, <2>2
<1>p. ASSUME NEW r, Priced(c, r)  PROVE price'[c] = PriceOf(c, r)
  <2> DEFINE p == PriceOf(c, r)
  <2>1. price' = [price EXCEPT ![c] = p]
    BY Zenon, <1>p DEF Priced
  <2> HIDE DEF p
  <2>2. price'[c] = p
    BY Zenon, <1>t, <2>1 DEF CallerTypes
  <2> QED  BY Zenon, <2>2 DEF p
<1>1. ~UNCHANGED callers
  BY Zenon DEF callers
<1>2. PICK d \in Callers :
        \/ StartQuote(d) \/ CacheHit(d) \/ CacheMiss(d)
        \/ StartTransfer(d) \/ LoadRate(d) \/ LoadBonus(d) \/ CacheSet(d)
  <2>1. ASSUME NEW a \in Admins,
               StampRate(a) \/ CommitRate(a) \/ RollbackRate(a)
                  \/ CreateBonus(a) \/ Invalidate(a)
        PROVE  UNCHANGED callers
    BY Zenon, <2>1 DEF StampRate, CommitRate, RollbackRate, CreateBonus, Invalidate
  <2>2. Tick => UNCHANGED callers
    BY Zenon DEF Tick
  <2> QED  BY Zenon, <1>1, <2>1, <2>2 DEF Next
<1>3. ~(StartQuote(d) \/ CacheMiss(d) \/ StartTransfer(d) \/ LoadRate(d))
  BY Zenon, <1>g DEF StartQuote, CacheMiss, StartTransfer, LoadRate
<1>4. CASE CacheHit(d)
  <2>1. pc[d] = "get" /\ cache.held = TRUE /\ Priced(d, cache.route)
    BY Zenon, <1>4 DEF CacheHit
  <2>2. d = c
    BY Zenon, <1>f, <2>1 DEF Priced
  <2> QED  BY Zenon, <1>p, <1>t, <2>1, <2>2, CachedIsRecent
<1>5. CASE CacheSet(d)
  <2>1. pc[d] = "set" /\ Priced(d, route[d])
    BY Zenon, <1>5 DEF CacheSet
  <2>2. d = c
    BY Zenon, <1>f, <2>1 DEF Priced
  <2> QED  BY Zenon, <1>p, <1>t, <2>1, <2>2, OwnIsRecent
<1>6. CASE LoadBonus(d)
  <2>1. (d \in Transfers /\ Priced(d, Loaded(d))) \/ Goto(d, "set")
    BY Zenon, <1>6 DEF LoadBonus
  <2>2. d \in Transfers /\ Goto(d, "done")
    BY Zenon, <1>g, <2>1 DEF Priced
  <2>3. d = c
    BY Zenon, <1>f, <2>2
  <2> QED  BY Zenon, <1>t, <2>2, <2>3
<1> QED  BY Zenon, <1>2, <1>3, <1>4, <1>5, <1>6

\* However quotes, rate changes, bonuses and the cache interleave, and with any
\* number of each, a quote that differs from the database misses only a recent
\* change (CachedRouteProvider, RouteCache and QuoteService.quote).
THEOREM QuotesAreRecent == Spec => QuoteIsRecent
<1> DEFINE A == \A c \in Quotes :
                  pc[c] # "done" /\ pc'[c] = "done" =>
                     \/ [version |-> price'[c].version, bps |-> price'[c].bps]
                          = InDatabase(at[c])
                     \/ now - changed < Ttl + MaxLoad
                     \/ \E b \in bonuses :
                           \/ b.starts_at <= at[c] /\ at[c] < b.starts_at + MaxLoad
                           \/ at[c] < b.ends_at /\ b.ends_at <= now
<1>1. ASSUME IInv, SoundInv, RecentInv, Next  PROVE A
  <2> SUFFICES ASSUME NEW c \in Quotes, pc[c] # "done", pc'[c] = "done"
               PROVE  \/ [version |-> price'[c].version, bps |-> price'[c].bps]
                           = InDatabase(at[c])
                      \/ now - changed < Ttl + MaxLoad
                      \/ \E b \in bonuses :
                            \/ b.starts_at <= at[c] /\ at[c] < b.starts_at + MaxLoad
                            \/ at[c] < b.ends_at /\ b.ends_at <= now
    BY Zenon
  <2>1. PICK r : Recent(c, r) /\ price'[c] = PriceOf(c, r)
    BY Zenon, <1>1, QuoteAnswered
  <2> QED  BY Zenon, <2>1 DEF Recent
<1>2. IInv /\ SoundInv /\ RecentInv /\ [Next]_vars => [A]_vars
  BY Zenon, <1>1
<1> QED
  BY <1>2, InitInv, StepInv, SoundInit, SoundStep, RecentInit, RecentStep, PTL
  DEF Spec, QuoteIsRecent

-----------------------------------------------------------------------------
(* Types *)

AdminStages == {"idle", "stamped", "committed"}
CallerStages == {"idle", "get", "rate", "bonus", "set", "done"}

StageInv ==
    admin \in [Admins -> AdminStages] /\ pc \in [Callers -> CallerStages]

\* Admins and callers stay in their stages.
LEMMA StageStep == StageInv /\ [Next]_vars => StageInv'
<1>1. ASSUME StageInv, NEW a \in Admins,
             StampRate(a) \/ CommitRate(a) \/ RollbackRate(a)
                \/ CreateBonus(a) \/ Invalidate(a)
      PROVE  StageInv'
  <2>1. /\ \E s \in AdminStages : admin' = [admin EXCEPT ![a] = s]
        /\ UNCHANGED pc
    BY Zenon, <1>1 DEF StampRate, CommitRate, RollbackRate, CreateBonus,
                       Invalidate, Committed, callers, AdminStages
  <2> QED  BY Zenon, <1>1, <2>1 DEF StageInv
<1>2. ASSUME StageInv, NEW c \in Callers,
             \/ StartQuote(c) \/ CacheHit(c) \/ CacheMiss(c)
             \/ StartTransfer(c) \/ LoadRate(c) \/ LoadBonus(c) \/ CacheSet(c)
      PROVE  StageInv'
  <2>1. (\E s \in CallerStages : Goto(c, s)) /\ UNCHANGED admin
    <3>1. UNCHANGED admins
      BY Zenon, <1>2 DEF StartQuote, CacheHit, CacheMiss, StartTransfer,
                         LoadRate, LoadBonus, CacheSet
    <3>2. \/ Goto(c, "get") \/ Goto(c, "rate") \/ Goto(c, "bonus")
          \/ Goto(c, "set") \/ Goto(c, "done")
      BY Zenon, <1>2 DEF StartQuote, CacheHit, CacheMiss, StartTransfer,
                         LoadRate, LoadBonus, CacheSet, Priced
    <3> QED  BY Zenon, <3>1, <3>2 DEF CallerStages, admins
  <2> QED  BY Zenon, <1>2, <2>1 DEF StageInv, Goto
<1>3. ASSUME StageInv, Tick \/ UNCHANGED vars  PROVE StageInv'
  BY Zenon, <1>3 DEF StageInv, Tick, vars, admins, callers
<1> QED  BY Zenon, <1>1, <1>2, <1>3 DEF Next

\* Every reachable state has its type: times within their bounds, versions
\* numbered without a gap, an entry that has not expired, and no successful
\* price of zero points (RateTerms, RateRows, calculate_conversion).
THEOREM PricingTypes == Spec => []TypeOK
<1>1. Init => StageInv
  BY Zenon DEF Init, StageInv, AdminStages, CallerStages
<1>2. IInv /\ SoundInv /\ RecentInv /\ StageInv => TypeOK
  <2> SUFFICES ASSUME IInv, SoundInv, RecentInv, StageInv  PROVE TypeOK
    BY Zenon
  <2>1. now \in Nat /\ now <= MaxTime
    BY Zenon DEF IInv, ClockInv
  <2>2. now \in 0 .. MaxTime
    BY SMTT(30), <2>1, Bounds
  <2>3. \A i \in 1 .. Len(rates) :
          rates[i].version = i /\ rates[i].effective_from < rates[i].effective_to
    BY Zenon DEF IInv, RateInv, History
  <2>4. cache.held => cache.expires_at \in now + 1 .. MaxTime + Ttl
    <3>1. ASSUME cache.held = TRUE
          PROVE  cache.expires_at \in now + 1 .. MaxTime + Ttl
      <4>1. /\ cache.expires_at \in Nat /\ now < cache.expires_at
            /\ cache.expires_at <= MaxTime + Ttl
        BY Zenon, <3>1 DEF RecentInv, EntryInv
      <4> QED  BY SMTT(30), <2>1, <4>1, Bounds
    <3>2. cache.held \in BOOLEAN
      BY Zenon DEF RecentInv, EntryInv
    <3> QED  BY Zenon, <3>1, <3>2
  <2>5. at \in [Callers -> 0 .. MaxTime]
    <3>1. ASSUME NEW c \in Callers  PROVE at[c] \in 0 .. MaxTime
      <4>1. at[c] \in Nat /\ at[c] <= now
        BY Zenon DEF IInv, CallerTypes, CallerInv, Holds
      <4> QED  BY SMTT(30), <2>1, <4>1, Bounds
    <3>2. at \in [Callers -> Nat]
      BY Zenon DEF IInv, CallerTypes
    <3> QED  BY Zenon, <3>1, <3>2
  <2>6. \A c \in Callers :
          price[c].points.code = "ok" => price[c].points.destination_points > 0
    BY Zenon DEF SoundInv, Valued
  <2>7. bonuses \subseteq NewBonuses
    BY Zenon DEF SoundInv
  <2> QED  BY Zenon, <2>2, <2>3, <2>4, <2>5, <2>6, <2>7
           DEF TypeOK, StageInv, AdminStages, CallerStages
<1> QED
  BY <1>1, <1>2, StageStep, InitInv, StepInv, SoundInit, SoundStep, RecentInit,
     RecentStep, PTL DEF Spec
=============================================================================
