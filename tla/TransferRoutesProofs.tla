------------------------ MODULE TransferRoutesProofs ------------------------
(***************************************************************************)
(* TLAPS proofs about the routes, for any number of requests, any page     *)
(* size, limit and window.                                                 *)
(*                                                                         *)
(* The limiter rests on the life of a counter: it is kept for a second     *)
(* after its window, longer than an INCR can be late (LimitInv).  A walk   *)
(* rests on the order of the pages: what it has listed is not older than   *)
(* its cursor, and what it has still to list is (WalkInv), while rows keep *)
(* their time and their id.                                                *)
(***************************************************************************)
EXTENDS TransferRoutes, ArithmeticLemmas

Stages == {"idle", "count", "limited", "create", "commit", "done"}

ClockInv ==
    /\ now \in Nat /\ now <= MaxTime
    /\ pc \in [Posts -> Stages]
    /\ at \in [Posts -> Nat] /\ retry_at \in [Posts -> Nat]
    /\ \A p \in Posts :
          /\ at[p] <= now
          /\ pc[p] = "count" => now <= at[p] + MaxLag

-----------------------------------------------------------------------------
(* The limiter *)

Width == WindowSeconds * Second

\* When no INCR for the window w can come any more.
Over(w) == (w + 1) * Width + Second

LimitInv ==
    /\ counter \in [Windows -> [count : Nat, expires : Nat]]
    /\ admitted \in [Windows -> Nat]
    /\ \A w \in Windows :
          /\ admitted[w] <= RateLimit
          /\ counter[w].count > 0 => counter[w].expires >= Over(w)
          /\ now >= Over(w) \/ admitted[w] <= counter[w].count

-----------------------------------------------------------------------------
(* Rows *)

\* A transfer has no row before its transaction, and one that nobody sees
\* until it commits.
RowOk(r, stage) ==
    /\ r.events = r.status
    /\ stage \in {"idle", "count", "limited", "create"} => r = NoRow
    /\ stage = "commit" => r.status = 0 /\ r.id \in Ids
    /\ r.status > 0 => r.id \in Ids

RowInv ==
    /\ row \in [Posts -> Rows]
    /\ \A p, q \in Posts : p # q /\ row[p].id = row[q].id => row[p].id = 0
    /\ \A p \in Posts : RowOk(row[p], pc[p])

SeenInv ==
    /\ seen \in [of : Posts \cup {"nothing"}, status : 0 .. MaxStatus,
                 events : 0 .. MaxStatus]
    /\ seen.of \in Posts => seen.status <= row[seen.of].status
    /\ seen.of \notin Posts => seen.status = 0
    /\ \/ seen.events = 0
       \/ seen.status > 0 /\ seen.events >= seen.status

-----------------------------------------------------------------------------
(* The walk *)

Cursors == [created_at : 0 .. MaxTime, id : Ids]

\* The id is of a row that can be seen, on the given side of the cursor.
Passed(id, cursor) ==
    \E x \in Visible : x.id = id /\ (cursor # NoCursor => ~Older(x, cursor))
Ahead(id, cursor) ==
    \E x \in Visible : x.id = id /\ Older(x, cursor)

Distinct(s)  == \A i, j \in 1 .. Len(s) : s[i] = s[j] => i = j
Holds(s, id) == \E i \in 1 .. Len(s) : s[i] = id

Listing(listed, before, cursor) ==
    /\ listed \in Seq(Ids) /\ before \in SUBSET Ids /\ Distinct(listed)
    /\ \A id \in Ids : Holds(listed, id) => Passed(id, cursor)
    /\ \A id \in before :
          Holds(listed, id) \/ (cursor # NoCursor /\ Ahead(id, cursor))

WalkInv ==
    /\ walk.state \in {"idle", "walking", "end"}
    /\ walk.cursor \in Cursors \cup {NoCursor}
    /\ walk.state = "walking" <=> walk.cursor # NoCursor
    /\ Listing(walk.listed, walk.before, walk.cursor)

-----------------------------------------------------------------------------
(* Time and windows *)

\* The numbers among the constants.
LEMMA RouteBounds ==
    /\ Second \in Nat \ {0} /\ WindowSeconds \in Nat \ {0}
    /\ RateLimit \in Nat \ {0} /\ PageSize \in Nat \ {0}
    /\ MaxLag \in Nat /\ MaxLag <= Second /\ MaxTime \in Nat
    /\ MaxStatus \in Nat /\ MaxStatus >= 2
    /\ IsFiniteSet(Posts) /\ Earlier \subseteq Posts
  BY Zenon, RoutesAssumption

\* A window has a length.
LEMMA WidthType == Width \in Nat \ {0}
<1>1. PICK a \in Nat \ {0}, b \in Nat \ {0} : a = WindowSeconds /\ b = Second
  BY Zenon, RouteBounds
<1>2. a * b \in Nat \ {0}
  BY SMTT(30)
<1> QED  BY Zenon, <1>1, <1>2 DEF Width

\* A moment lies in its window.
LEMMA InWindow ==
    ASSUME NEW t \in Nat
    PROVE  /\ WindowOf(t) \in Nat
           /\ WindowOf(t) * Width <= t /\ t < (WindowOf(t) + 1) * Width
<1>1. PICK d \in Nat \ {0} : d = Width
  BY Zenon, WidthType
<1>2. PICK q \in Nat : q = t \div d /\ d * q <= t /\ t < d * q + d
  BY Zenon, Quotient
<1>3. q * d <= t /\ t < (q + 1) * d
  BY SMTT(30), <1>2
<1>4. WindowOf(t) = q
  BY Zenon, <1>1, <1>2 DEF WindowOf, Width
<1> QED  BY Zenon, <1>1, <1>3, <1>4

\* Every moment is in one of the windows.
LEMMA WindowKnown ==
    ASSUME NEW t \in Nat, t <= MaxTime
    PROVE  WindowOf(t) \in Windows
<1>1. PICK w \in Nat, m \in Nat : w = WindowOf(t) /\ m = WindowOf(MaxTime)
  BY Zenon, InWindow, RouteBounds
<1>2. w <= m
  BY Zenon, <1>1, WidthType, RouteBounds, QuotientGrows DEF WindowOf, Width
<1>3. w \in 0 .. m
  BY SMTT(30), <1>2
<1> QED  BY Zenon, <1>1, <1>3 DEF Windows

\* A window begins a width and a second before it is over.
LEMMA OverType ==
    ASSUME NEW w \in Nat
    PROVE  /\ Over(w) \in Nat /\ w * Width \in Nat
           /\ (w + 1) * Width \in Nat /\ Over(w) = (w + 1) * Width + Second
           /\ Over(w) = w * Width + CounterTtl
<1>1. PICK a \in Nat \ {0}, b \in Nat \ {0} : a = WindowSeconds /\ b = Second
  BY Zenon, RouteBounds
<1>2. /\ (w + 1) * (a * b) + b \in Nat /\ w * (a * b) \in Nat
      /\ (w + 1) * (a * b) \in Nat
  <2>1. PICK d \in Nat : d = a * b
    BY Zenon, Product
  <2>2. w * d \in Nat /\ (w + 1) * d = w * d + d
    BY SMTT(30)
  <2> QED  BY SMTT(30), <2>1, <2>2
<1>3. (w + 1) * (a * b) + b = w * (a * b) + (a + 1) * b
  <2>1. PICK d \in Nat : d = a * b
    BY Zenon, Product
  <2>2. (w + 1) * d = w * d + d /\ w * d \in Nat
    BY SMTT(30)
  <2>3. (a + 1) * b = d + b
    BY SMTT(30), <2>1
  <2>4. (w + 1) * d + b = w * d + (a + 1) * b
    BY SMTT(30), <2>2, <2>3
  <2> QED  BY Zenon, <2>1, <2>4
<1> QED  BY Zenon, <1>1, <1>2, <1>3 DEF Over, Width, CounterTtl

\* Windows are numbered.
LEMMA WindowNat == \A w \in Windows : w \in Nat
<1>1. PICK m \in Nat : m = WindowOf(MaxTime)
  BY Zenon, InWindow, RouteBounds
<1>2. \A w \in 0 .. m : w \in Nat
  BY SMTT(30)
<1> QED  BY Zenon, <1>1, <1>2 DEF Windows

\* Retry-After leads out of the window, rounded up to whole seconds.
LEMMA RetryIsLater ==
    ASSUME NEW t \in Nat
    PROVE  /\ t + RetryAfter(t) * Second \in Nat
           /\ WindowOf(t) < WindowOf(t + RetryAfter(t) * Second)
<1>1. PICK a \in Nat \ {0}, b \in Nat \ {0} : a = WindowSeconds /\ b = Second
  BY Zenon, RouteBounds
<1>2. PICK w \in Nat : w = WindowOf(t) /\ t < (w + 1) * (a * b)
  BY Zenon, <1>1, InWindow DEF Width
<1>3. PICK d \in Nat : d = a * b
  BY Zenon, Product
<1>4. PICK e \in Nat : e = (w + 1) * d /\ t < e
  <2>1. w + 1 \in Nat
    BY SMTT(30)
  <2> QED  BY Zenon, <1>2, <1>3, <2>1, Product
<1>5. Remaining(t) = e - t
  <2>1. (w + 1) * a * b = (w + 1) * (a * b)
    BY SMTT(30)
  <2> QED  BY Zenon, <1>1, <1>2, <1>3, <1>4, <2>1 DEF Remaining
<1>6. e - t \in Nat /\ e - t + b - 1 \in Nat
  BY SMTT(30), <1>4
<1>7. PICK q \in Nat : q = (e - t + b - 1) \div b /\ e - t + b - 1 < b * q + b
  BY Zenon, <1>6, Quotient
<1>8. PICK r \in Nat : r = RetryAfter(t) /\ q <= r
  <2>1. RetryAfter(t) = Max({1, q})
    BY Zenon, <1>1, <1>5, <1>7 DEF RetryAfter
  <2>2. 1 \in Nat
    BY SMTT(30)
  <2> QED  BY Zenon, <2>1, <2>2, MaxOfTwo
<1>9. b * q <= r * b /\ b * q \in Nat /\ r * b \in Nat
  BY SMTT(30), <1>8
<1>10. t + r * b \in Nat /\ e <= t + r * b
  BY SMTT(30), <1>4, <1>7, <1>9
<1>11. d * (w + 1) <= t + r * b /\ d \in Nat \ {0} /\ w + 1 \in Nat
  <2>1. d * (w + 1) = e /\ d # 0 /\ w + 1 \in Nat
    BY SMTT(30), <1>3, <1>4
  <2> QED  BY Zenon, <1>10, <2>1
<1>12. w + 1 <= (t + r * b) \div d
  BY Zenon, <1>10, <1>11, QuotientIsLargest
<1>13. PICK v \in Nat : v = WindowOf(t + r * b) /\ w + 1 <= v
  <2>1. WindowOf(t + r * b) \in Nat
    BY Zenon, <1>10, InWindow
  <2>2. WindowOf(t + r * b) = (t + r * b) \div d
    BY Zenon, <1>1, <1>3 DEF WindowOf
  <2> QED  BY Zenon, <1>12, <2>1, <2>2
<1>14. w < v
  BY SMTT(30), <1>13
<1> QED  BY Zenon, <1>1, <1>2, <1>8, <1>10, <1>13, <1>14

-----------------------------------------------------------------------------
(* The steps of requests *)

\* A step that moves one request.
LEMMA ClockFrame ==
    ASSUME ClockInv, UNCHANGED now, NEW p \in Posts, NEW s \in Stages, Step(p, s),
           \/ UNCHANGED at /\ s # "count"
           \/ at' = [at EXCEPT ![p] = now]
           \/ at' = [at EXCEPT ![p] = 0] /\ s # "count",
           \/ UNCHANGED retry_at
           \/ \E n \in Nat : retry_at' = [retry_at EXCEPT ![p] = n]
    PROVE  ClockInv'
<1>1. /\ now \in Nat /\ now <= MaxTime /\ pc \in [Posts -> Stages]
      /\ at \in [Posts -> Nat] /\ retry_at \in [Posts -> Nat]
      /\ \A q \in Posts : at[q] <= now /\ (pc[q] = "count" => now <= at[q] + MaxLag)
  BY Zenon DEF ClockInv
<1>2. 0 \in Nat /\ 0 <= now /\ now <= now /\ now <= now + MaxLag
  BY SMTT(30), <1>1, RouteBounds
<1>3. /\ pc' \in [Posts -> Stages] /\ pc'[p] = s
      /\ \A q \in Posts \ {p} : pc'[q] = pc[q]
  BY Zenon, <1>1 DEF Step
<1>4. /\ at' \in [Posts -> Nat] /\ \A q \in Posts \ {p} : at'[q] = at[q]
      /\ at'[p] \in {at[p], now, 0} /\ (s = "count" => at'[p] = now)
  BY Zenon, <1>1, <1>2
<1>5. retry_at' \in [Posts -> Nat]
  BY Zenon, <1>1
<1>6. ASSUME NEW q \in Posts
      PROVE  at'[q] <= now' /\ (pc'[q] = "count" => now' <= at'[q] + MaxLag)
  <2>1. CASE q = p
    BY Zenon, <1>1, <1>2, <1>3, <1>4, <2>1
  <2>2. CASE q # p
    BY Zenon, <1>1, <1>3, <1>4, <2>2
  <2> QED  BY Zenon, <2>1, <2>2
<1> QED  BY Zenon, <1>1, <1>3, <1>4, <1>5, <1>6 DEF ClockInv

\* The steps that neither move a request nor let time pass.
Aside ==
    \/ \E p \in Posts : Transition(p) \/ ReadTransfer(p) \/ ReadEvents(p)
    \/ FirstPage \/ NextPage

\* Steps after the limiter leave the limiter alone.
LEMMA AsideFrame == Aside => UNCHANGED <<now, limiter, pc, at>>
  BY Zenon DEF Aside, Transition, ReadTransfer, ReadEvents, FirstPage, NextPage

\* Requests stay on time in every step.
LEMMA ClockStep == ClockInv /\ [Next]_vars => ClockInv'
<1>s. \A s \in {"idle", "count", "limited", "create", "commit", "done"} : s \in Stages
  BY Zenon DEF Stages
<1>1. ASSUME ClockInv, NEW p \in Posts, Post(p)  PROVE ClockInv'
  <2>1. 0 \in Nat
    BY SMTT(30)
  <2> QED  BY Zenon, <1>1, <1>s, <2>1, ClockFrame DEF Post
<1>2. ASSUME ClockInv, NEW p \in Posts, Hit(p)  PROVE ClockInv'
  <2>1. at[p] + RetryAfter(at[p]) * Second \in Nat
    BY Zenon, <1>2, RetryIsLater DEF ClockInv
  <2>2. /\ UNCHANGED now
        /\ \/ LetIn(p) /\ UNCHANGED retry_at
           \/ /\ retry_at' = [retry_at EXCEPT ![p] = at[p] + RetryAfter(at[p]) * Second]
              /\ Step(p, "limited") /\ UNCHANGED at
    BY Zenon, <1>2 DEF Hit
  <2> QED  BY Zenon, <1>2, <1>s, <2>1, <2>2, ClockFrame DEF LetIn
<1>3. ASSUME ClockInv, NEW p \in Posts, HitFailsOpen(p)  PROVE ClockInv'
  BY Zenon, <1>3, <1>s, ClockFrame DEF HitFailsOpen, LetIn
<1>4. ASSUME ClockInv, NEW p \in Posts, Begin(p) \/ Commit(p) \/ Rollback(p)
      PROVE  ClockInv'
  <2>1. UNCHANGED <<now, at, retry_at>> /\ (Step(p, "commit") \/ Step(p, "done"))
    BY Zenon, <1>4 DEF Begin, Commit, Rollback, limiter
  <2> QED  BY Zenon, <1>4, <1>s, <2>1, ClockFrame
<1>5. ASSUME ClockInv, UNCHANGED <<now, limiter, pc, at>>  PROVE ClockInv'
  BY Zenon, <1>5 DEF ClockInv, limiter
<1>6. ASSUME ClockInv, Tick  PROVE ClockInv'
  <2>1. /\ now \in Nat /\ now' = now + 1 /\ now < MaxTime
        /\ UNCHANGED <<pc, at, retry_at>>
    BY Zenon, <1>6 DEF ClockInv, Tick
  <2>2. now' \in Nat /\ now' <= MaxTime
    BY SMTT(30), <2>1, RouteBounds
  <2>3. ASSUME NEW p \in Posts
        PROVE  at[p] <= now' /\ (pc[p] = "count" => now' <= at[p] + MaxLag)
    <3>1. at[p] \in Nat /\ at[p] <= now
      BY Zenon, <1>6 DEF ClockInv
    <3>2. pc[p] = "count" => now < at[p] + MaxLag
      BY Zenon, <1>6 DEF Tick
    <3>3. now < at[p] + MaxLag => now' <= at[p] + MaxLag
      BY SMTT(30), <2>1, <3>1, RouteBounds
    <3>4. at[p] <= now'
      BY SMTT(30), <2>1, <3>1
    <3> QED  BY Zenon, <3>2, <3>3, <3>4
  <2> QED  BY Zenon, <1>6, <2>1, <2>2, <2>3 DEF ClockInv
<1>7. ASSUME ClockInv, UNCHANGED vars  PROVE ClockInv'
  BY Zenon, <1>5, <1>7 DEF vars, limiter
<1>8. ASSUME ClockInv, Aside  PROVE ClockInv'
  BY Zenon, <1>5, <1>8, AsideFrame
<1> QED  BY Zenon, <1>1, <1>2, <1>3, <1>4, <1>6, <1>7, <1>8 DEF Next, Aside

\* A counter that was incremented lives until the window is over.
LEMMA CountedCounter ==
    ASSUME ClockInv, LimitInv, NEW p \in Posts, pc[p] = "count",
           Counted(WindowOf(at[p]))
    PROVE  LET w == WindowOf(at[p]) IN
           /\ w \in Windows
           /\ counter' \in [Windows -> [count : Nat, expires : Nat]]
           /\ \A v \in Windows \ {w} : counter'[v] = counter[v]
           /\ counter'[w].count = counter[w].count + 1
           /\ counter'[w].expires >= Over(w)
           /\ admitted[w] <= counter[w].count
<1>1. PICK t \in Nat : t = at[p]
  BY Zenon DEF ClockInv
<1>2. /\ now \in Nat /\ t <= now /\ now <= t + MaxLag /\ now <= MaxTime
  BY Zenon, <1>1 DEF ClockInv
<1>3. t <= MaxTime
  BY SMTT(30), <1>2, RouteBounds
<1>4. PICK w \in Windows : w = WindowOf(at[p]) /\ w \in Nat
  BY Zenon, <1>1, <1>3, WindowKnown, WindowNat
<1>5. PICK ttl \in Nat : ttl = CounterTtl
  <2>1. PICK a \in Nat, b \in Nat : a = WindowSeconds /\ b = Second
    BY Zenon, RouteBounds
  <2>2. (a + 1) * b \in Nat
    BY SMTT(30)
  <2> QED  BY Zenon, <2>1, <2>2 DEF CounterTtl
<1>6. PICK begin \in Nat, end \in Nat, over \in Nat :
        /\ begin = w * Width /\ end = (w + 1) * Width /\ over = Over(w)
        /\ over = end + Second /\ over = begin + ttl
        /\ begin <= t /\ t < end
  BY Zenon, <1>1, <1>4, <1>5, OverType, InWindow
<1>7. now + ttl \in Nat /\ now + ttl >= over /\ ~(now >= over)
  BY SMTT(30), <1>2, <1>6, <1>5, RouteBounds
<1>8. /\ counter \in [Windows -> [count : Nat, expires : Nat]]
      /\ admitted[w] <= counter[w].count
  BY Zenon, <1>6, <1>7 DEF LimitInv
<1>9. PICK n \in Nat : n = counter[w].count
  BY Zenon, <1>8
<1>10. n + 1 \in Nat
  BY SMTT(30)
<1>11. PICK e \in [count : Nat, expires : Nat] :
         /\ e = Incremented(counter[w], now)
         /\ e.count = n + 1 /\ e.expires = now + ttl
  <2>1. [count |-> n + 1, expires |-> now + ttl] \in [count : Nat, expires : Nat]
    BY Zenon, <1>7, <1>10
  <2>2. LET e == [count |-> n + 1, expires |-> now + ttl] IN
        e.count = n + 1 /\ e.expires = now + ttl
    BY Zenon
  <2>3. Incremented(counter[w], now) = [count |-> n + 1, expires |-> now + ttl]
    BY Zenon, <1>5, <1>9 DEF Incremented
  <2> QED  BY Zenon, <2>1, <2>2, <2>3
<1>12. counter' = [counter EXCEPT ![w] = e]
  BY Zenon, <1>4, <1>11 DEF Counted
<1>13. /\ counter' \in [Windows -> [count : Nat, expires : Nat]]
       /\ \A v \in Windows \ {w} : counter'[v] = counter[v]
       /\ counter'[w] = e
  BY Zenon, <1>8, <1>12
<1>14. counter'[w].count = counter[w].count + 1 /\ counter'[w].expires >= Over(w)
  BY Zenon, <1>6, <1>7, <1>9, <1>11, <1>13
<1> QED  BY Zenon, <1>4, <1>8, <1>13, <1>14

\* The counter of the request's window went up, and let it in or not.
LEMMA LimitCounted ==
    ASSUME ClockInv, LimitInv, NEW p \in Posts, pc[p] = "count",
           Counted(WindowOf(at[p])), UNCHANGED now,
           \/ UNCHANGED admitted
           \/ /\ Allowed(counter'[WindowOf(at[p])])
              /\ admitted' = [admitted EXCEPT ![WindowOf(at[p])] = @ + 1]
    PROVE  LimitInv'
<1>1. PICK w \in Windows :
        /\ w = WindowOf(at[p])
        /\ counter' \in [Windows -> [count : Nat, expires : Nat]]
        /\ \A v \in Windows \ {w} : counter'[v] = counter[v]
        /\ counter'[w].count = counter[w].count + 1
        /\ counter'[w].expires >= Over(w)
        /\ admitted[w] <= counter[w].count
  BY Zenon, CountedCounter
<1>2. /\ counter \in [Windows -> [count : Nat, expires : Nat]]
      /\ admitted \in [Windows -> Nat] /\ admitted[w] <= RateLimit
  BY Zenon DEF LimitInv
<1>3. PICK n \in Nat, m \in Nat : n = counter[w].count /\ m = admitted[w]
  BY Zenon, <1>2
<1>4. /\ admitted' \in [Windows -> Nat]
      /\ \A v \in Windows \ {w} : admitted'[v] = admitted[v]
      /\ admitted'[w] <= RateLimit /\ admitted'[w] <= counter'[w].count
  <2>1. CASE UNCHANGED admitted
    <3>1. m <= n + 1
      BY SMTT(30), <1>1, <1>3
    <3> QED  BY Zenon, <1>1, <1>2, <1>3, <2>1, <3>1
  <2>2. CASE /\ Allowed(counter'[w])
             /\ admitted' = [admitted EXCEPT ![w] = admitted[w] + 1]
    <3>1. m <= n /\ n + 1 <= RateLimit
      BY Zenon, <1>1, <1>3, <2>2 DEF Allowed
    <3>2. m + 1 \in Nat /\ m + 1 <= n + 1 /\ m + 1 <= RateLimit
      BY SMTT(30), <3>1, RouteBounds
    <3>3. /\ admitted' \in [Windows -> Nat] /\ admitted'[w] = m + 1
          /\ \A v \in Windows \ {w} : admitted'[v] = admitted[v]
      BY Zenon, <1>2, <1>3, <2>2, <3>2
    <3> QED  BY Zenon, <1>1, <1>3, <3>2, <3>3
  <2> QED  BY Zenon, <1>1, <2>1, <2>2
<1>5. ASSUME NEW v \in Windows
      PROVE  /\ admitted'[v] <= RateLimit
             /\ counter'[v].count > 0 => counter'[v].expires >= Over(v)
             /\ now' >= Over(v) \/ admitted'[v] <= counter'[v].count
  <2>1. CASE v = w
    BY Zenon, <1>1, <1>4, <2>1
  <2>2. CASE v # w
    BY Zenon, <1>1, <1>4, <2>2 DEF LimitInv
  <2> QED  BY Zenon, <2>1, <2>2
<1> QED  BY Zenon, <1>1, <1>4, <1>5 DEF LimitInv

\* Redis drops a counter only when its window is over.
LEMMA LimitTick ==
    ASSUME ClockInv, LimitInv, Tick
    PROVE  LimitInv'
<1>1. /\ now \in Nat /\ now' = now + 1 /\ UNCHANGED admitted
      /\ counter' = [w \in Windows |-> Kept(counter[w], now')]
      /\ counter \in [Windows -> [count : Nat, expires : Nat]]
      /\ admitted \in [Windows -> Nat]
  BY Zenon DEF ClockInv, LimitInv, Tick
<1>2. /\ NoCounter \in [count : Nat, expires : Nat] /\ NoCounter.count = 0
  BY SMTT(30) DEF NoCounter
<1>3. ASSUME NEW w \in Windows
      PROVE  /\ counter'[w] \in [count : Nat, expires : Nat]
             /\ \/ counter'[w] = counter[w]
                \/ counter'[w] = NoCounter /\ ~(now' < counter[w].expires)
  BY Zenon, <1>1, <1>2 DEF Kept
<1>4. counter' \in [Windows -> [count : Nat, expires : Nat]]
  BY Zenon, <1>1, <1>3
<1>5. ASSUME NEW w \in Windows
      PROVE  /\ admitted'[w] <= RateLimit
             /\ counter'[w].count > 0 => counter'[w].expires >= Over(w)
             /\ now' >= Over(w) \/ admitted'[w] <= counter'[w].count
  <2>1. /\ admitted[w] <= RateLimit
        /\ counter[w].count > 0 => counter[w].expires >= Over(w)
        /\ now >= Over(w) \/ admitted[w] <= counter[w].count
    BY Zenon DEF LimitInv
  <2>2. PICK n \in Nat, e \in Nat, m \in Nat, over \in Nat :
          /\ n = counter[w].count /\ e = counter[w].expires
          /\ m = admitted[w] /\ over = Over(w)
    BY Zenon, <1>1, OverType, WindowNat
  <2>3. /\ n > 0 => e >= over
        /\ now >= over \/ m <= n
    BY Zenon, <2>1, <2>2
  <2>4. CASE counter'[w] = counter[w]
    <3>1. now' >= over \/ m <= n
      BY SMTT(30), <1>1, <2>3
    <3> QED  BY Zenon, <1>1, <2>1, <2>2, <2>4, <3>1
  <2>5. CASE counter'[w] = NoCounter /\ ~(now' < counter[w].expires)
    <3>1. ~(now' < e) /\ counter'[w].count = 0
      BY Zenon, <1>2, <2>2, <2>5
    <3>2. ~(0 > 0) /\ (now' >= over \/ m <= 0)
      BY SMTT(30), <1>1, <2>3, <3>1
    <3> QED  BY Zenon, <1>1, <2>1, <2>2, <3>1, <3>2
  <2> QED  BY Zenon, <1>3, <2>4, <2>5
<1> QED  BY Zenon, <1>1, <1>4, <1>5 DEF LimitInv

\* Every step keeps the counters above the admissions they stand for.
LEMMA LimitStep == ClockInv /\ LimitInv /\ [Next]_vars => LimitInv'
<1>1. ASSUME LimitInv, UNCHANGED <<now, counter, admitted>>  PROVE LimitInv'
  BY Zenon, <1>1 DEF LimitInv
<1>2. ASSUME ClockInv, LimitInv, NEW p \in Posts, Hit(p)  PROVE LimitInv'
  <2> DEFINE w == WindowOf(at[p])
  <2>1. /\ pc[p] = "count" /\ Counted(w) /\ UNCHANGED now
        /\ \/ UNCHANGED admitted
           \/ Allowed(counter'[w]) /\ admitted' = [admitted EXCEPT ![w] = @ + 1]
    BY Zenon, <1>2 DEF Hit
  <2> QED  BY Zenon, <1>2, <2>1, LimitCounted
<1>3. ASSUME ClockInv, LimitInv, NEW p \in Posts, HitFailsOpen(p)  PROVE LimitInv'
  <2>1. CASE Counted(WindowOf(at[p]))
    BY Zenon, <1>3, <2>1, LimitCounted DEF HitFailsOpen
  <2>2. CASE UNCHANGED counter
    BY Zenon, <1>1, <1>3, <2>2 DEF HitFailsOpen
  <2> QED  BY Zenon, <1>3, <2>1, <2>2 DEF HitFailsOpen
<1>4. ASSUME LimitInv, NEW p \in Posts,
             Post(p) \/ Begin(p) \/ Commit(p) \/ Rollback(p)
      PROVE  LimitInv'
  <2>1. UNCHANGED <<now, counter, admitted>>
    BY Zenon, <1>4 DEF Post, Begin, Commit, Rollback, limiter
  <2> QED  BY Zenon, <1>1, <1>4, <2>1
<1>5. ASSUME LimitInv, Aside \/ UNCHANGED vars  PROVE LimitInv'
  <2>1. UNCHANGED <<now, counter, admitted>>
    BY Zenon, <1>5, AsideFrame DEF vars, limiter
  <2> QED  BY Zenon, <1>1, <1>5, <2>1
<1> QED  BY Zenon, <1>2, <1>3, <1>4, <1>5, LimitTick DEF Next, Aside

\* Both hold at the start.
LEMMA ClockInit == Init => ClockInv /\ LimitInv
<1> SUFFICES ASSUME Init PROVE ClockInv /\ LimitInv
  OBVIOUS
<1>1. /\ now = 0 /\ at = [p \in Posts |-> 0] /\ retry_at = [p \in Posts |-> 0]
      /\ counter = [w \in Windows |-> NoCounter]
      /\ admitted = [w \in Windows |-> 0]
      /\ pc = [p \in Posts |-> IF p \in Earlier THEN "done" ELSE "idle"]
  BY Zenon DEF Init
<1>2. 0 \in Nat /\ 0 <= MaxTime /\ 0 <= 0 /\ ~(0 > 0) /\ 0 <= RateLimit
  BY SMTT(30), RouteBounds
<1>3. NoCounter \in [count : Nat, expires : Nat] /\ NoCounter.count = 0
  BY SMTT(30) DEF NoCounter
<1>4. pc \in [Posts -> Stages] /\ \A p \in Posts : pc[p] # "count"
  BY Zenon, <1>1 DEF Stages
<1>5. ClockInv
  BY Zenon, <1>1, <1>2, <1>4 DEF ClockInv
<1>6. LimitInv
  BY Zenon, <1>1, <1>2, <1>3 DEF LimitInv
<1> QED  BY Zenon, <1>5, <1>6

\* No window's counter lets in more than the limit, however late an INCR comes
\* within the socket timeout and whenever Redis fails
\* (RateLimiter.hit and enforce_transfer_rate_limit).
THEOREM LimitHolds == Spec => []WindowLimit
<1>1. LimitInv => WindowLimit
  BY Zenon DEF LimitInv, WindowLimit
<1> QED  BY <1>1, ClockInit, ClockStep, LimitStep, PTL DEF Spec

\* Every step keeps refused clients out of their window.
LEMMA RetryStep ==
    ClockInv /\ RetryLeavesWindow /\ [Next]_vars => RetryLeavesWindow'
<1>1. ASSUME ClockInv, RetryLeavesWindow, NEW p \in Posts, NEW s, Step(p, s),
             \A q \in Posts \ {p} : at'[q] = at[q] /\ retry_at'[q] = retry_at[q],
             s = "limited" => WindowOf(at'[p]) < WindowOf(retry_at'[p])
      PROVE  RetryLeavesWindow'
  <2>1. /\ pc'[p] = s /\ \A q \in Posts \ {p} : pc'[q] = pc[q]
    BY Zenon, <1>1 DEF Step, ClockInv
  <2>2. ASSUME NEW q \in Posts, pc'[q] = "limited"
        PROVE  WindowOf(at'[q]) < WindowOf(retry_at'[q])
    <3>1. CASE q = p
      BY Zenon, <1>1, <2>1, <2>2, <3>1
    <3>2. CASE q # p
      <4>1. /\ at'[q] = at[q] /\ retry_at'[q] = retry_at[q] /\ pc[q] = "limited"
        BY Zenon, <1>1, <2>1, <2>2, <3>2
      <4>2. WindowOf(at[q]) < WindowOf(retry_at[q])
        BY Zenon, <1>1, <4>1 DEF RetryLeavesWindow
      <4> QED  BY Zenon, <4>1, <4>2
    <3> QED  BY Zenon, <3>1, <3>2
  <2>3. \A q \in Posts : pc'[q] = "limited" =>
           WindowOf(at'[q]) < WindowOf(retry_at'[q])
    BY Zenon, <2>2
  <2> QED  BY Zenon, <2>3 DEF RetryLeavesWindow, WindowOf
<1>2. ASSUME ClockInv, RetryLeavesWindow, NEW p \in Posts,
             Post(p) \/ HitFailsOpen(p) \/ Begin(p) \/ Commit(p) \/ Rollback(p)
      PROVE  RetryLeavesWindow'
  <2>1. /\ \/ Step(p, "count") \/ Step(p, "create") \/ Step(p, "commit")
           \/ Step(p, "done")
        /\ \E n : UNCHANGED at \/ at' = [at EXCEPT ![p] = n]
        /\ \E n : UNCHANGED retry_at \/ retry_at' = [retry_at EXCEPT ![p] = n]
    BY Zenon, <1>2 DEF Post, HitFailsOpen, LetIn, Begin, Commit, Rollback, limiter
  <2>2. \A q \in Posts \ {p} : at'[q] = at[q] /\ retry_at'[q] = retry_at[q]
    BY Zenon, <1>2, <2>1 DEF ClockInv
  <2> QED  BY Zenon, <1>1, <1>2, <2>1, <2>2
<1>3. ASSUME ClockInv, RetryLeavesWindow, NEW p \in Posts, Hit(p)
      PROVE  RetryLeavesWindow'
  <2> DEFINE n == at[p] + RetryAfter(at[p]) * Second
  <2>1. \/ LetIn(p) /\ UNCHANGED retry_at
        \/ /\ retry_at' = [retry_at EXCEPT ![p] = n]
           /\ Step(p, "limited") /\ UNCHANGED at
    BY Zenon, <1>3 DEF Hit
  <2>2. WindowOf(at[p]) < WindowOf(n)
    BY Zenon, <1>3, RetryIsLater DEF ClockInv
  <2> HIDE DEF n
  <2>3. CASE LetIn(p) /\ UNCHANGED retry_at
    <3>1. Step(p, "create") /\ \A q \in Posts \ {p} : at'[q] = at[q]
      BY Zenon, <1>3, <2>3 DEF LetIn, ClockInv
    <3> QED  BY Zenon, <1>1, <1>3, <2>3, <3>1
  <2>4. CASE /\ retry_at' = [retry_at EXCEPT ![p] = n]
             /\ Step(p, "limited") /\ UNCHANGED at
    <3>1. /\ retry_at'[p] = n
          /\ \A q \in Posts \ {p} : retry_at'[q] = retry_at[q]
      BY Zenon, <1>3, <2>4 DEF ClockInv
    <3>2. WindowOf(at'[p]) < WindowOf(retry_at'[p])
      BY Zenon, <2>2, <2>4, <3>1
    <3> QED  BY Zenon, <1>1, <1>3, <2>4, <3>1, <3>2
  <2> QED  BY Zenon, <2>1, <2>3, <2>4
<1>4. ASSUME RetryLeavesWindow, UNCHANGED <<pc, at, retry_at>>
      PROVE  RetryLeavesWindow'
  BY Zenon, <1>4 DEF RetryLeavesWindow, WindowOf
<1>5. ASSUME RetryLeavesWindow, Aside \/ Tick \/ UNCHANGED vars
      PROVE  RetryLeavesWindow'
  <2>1. UNCHANGED <<pc, at, retry_at>>
    BY Zenon, <1>5, AsideFrame DEF vars, limiter, Tick
  <2> QED  BY Zenon, <1>4, <1>5, <2>1
<1> QED  BY Zenon, <1>2, <1>3, <1>5 DEF Next, Aside

\* A client that waits as long as Retry-After says comes back in a later window
\* than the one that refused it, whatever the window and the fraction of a
\* second at which it came (hit).
THEOREM RetryIsCounted == Spec => []RetryLeavesWindow
<1>1. Init => RetryLeavesWindow
  <2>1. Init => \A p \in Posts : pc[p] # "limited"
    BY Zenon DEF Init
  <2> QED  BY Zenon, <2>1 DEF RetryLeavesWindow
<1> QED  BY <1>1, ClockInit, ClockStep, RetryStep, PTL DEF Spec

-----------------------------------------------------------------------------
(* Rows *)

\* Ids are numbers, and 0 is none.
LEMMA IdsType == Ids \subseteq Nat \ {0}
<1>1. PICK n \in Nat : n = Cardinality(Posts)
  BY Zenon, RouteBounds, FS_CardinalityType
<1>2. 1 .. n \subseteq Nat \ {0}
  BY SMTT(30)
<1> QED  BY Zenon, <1>1, <1>2 DEF Ids

Times == 0 .. MaxTime

\* The columns of transfers.
LEMMA RowFields ==
    ASSUME NEW r \in Rows
    PROVE  /\ r.id \in Nat /\ r.id \in Ids \cup {0}
           /\ r.created_at \in Nat /\ r.created_at \in Times
           /\ r.status \in Nat /\ r.status \in 0 .. MaxStatus
           /\ r.events \in Nat /\ r.events \in 0 .. MaxStatus
<1>1. /\ r.id \in Ids \cup {0} /\ r.created_at \in 0 .. MaxTime
      /\ r.status \in 0 .. MaxStatus /\ r.events \in 0 .. MaxStatus
  BY Zenon DEF Rows
<1>2. 0 \in Nat /\ 0 .. MaxTime \subseteq Nat /\ 0 .. MaxStatus \subseteq Nat
  BY SMTT(30), RouteBounds
<1> QED  BY Zenon, <1>1, <1>2, IdsType DEF Times

\* The empty row.
LEMMA NoRowValues ==
    NoRow \in Rows /\ NoRow.id = 0 /\ NoRow.status = 0 /\ NoRow.events = 0
<1>1. 0 \in 0 .. MaxTime /\ 0 \in 0 .. MaxStatus
  BY SMTT(30), RouteBounds
<1> QED  BY Zenon, <1>1 DEF NoRow, Rows

\* A row as the debit transaction commits it.
LEMMA InsertedValues ==
    ASSUME NEW id \in Ids, NEW time \in Times
    PROVE  \E r \in Rows : /\ r = Inserted(id, time)
                           /\ r.id = id /\ r.created_at = time
                           /\ r.status = 2 /\ r.events = 2
<1>1. 2 \in 0 .. MaxStatus
  BY SMTT(30), RouteBounds
<1>2. /\ Inserted(id, time) \in Rows
      /\ Inserted(id, time).id = id /\ Inserted(id, time).created_at = time
      /\ Inserted(id, time).status = 2 /\ Inserted(id, time).events = 2
  BY Zenon, <1>1 DEF Inserted, Rows, Times
<1> QED  BY Zenon, <1>2

\* The row of a transaction that has not committed.
Draft(id, time) == [NoRow EXCEPT !.id = id, !.created_at = time]

\* A row as the transaction begins it.
LEMMA DraftValues ==
    ASSUME NEW id \in Ids, NEW time \in Times
    PROVE  \E r \in Rows : /\ r = Draft(id, time)
                           /\ r.id = id /\ r.status = 0 /\ r.events = 0
<1>1. ASSUME NEW r \in Rows
      PROVE  /\ [r EXCEPT !.id = id, !.created_at = time] \in Rows
             /\ [r EXCEPT !.id = id, !.created_at = time].id = id
             /\ [r EXCEPT !.id = id, !.created_at = time].status = r.status
             /\ [r EXCEPT !.id = id, !.created_at = time].events = r.events
  BY Zenon DEF Rows, Times
<1>2. /\ Draft(id, time) \in Rows /\ Draft(id, time).id = id
      /\ Draft(id, time).status = 0 /\ Draft(id, time).events = 0
  BY Zenon, <1>1, NoRowValues DEF Draft
<1> QED  BY Zenon, <1>2

\* A row after transition: one status and one event more.
LEMMA AdvancedValues ==
    ASSUME NEW r \in Rows, r.status \in 2 .. MaxStatus - 1, r.events = r.status
    PROVE  /\ Advanced(r) \in Rows
           /\ Advanced(r).id = r.id /\ Advanced(r).created_at = r.created_at
           /\ Advanced(r).status = r.status + 1
           /\ Advanced(r).events = r.status + 1
<1>1. PICK n \in Nat : n = r.status
  BY Zenon, RowFields
<1>2. n + 1 \in 0 .. MaxStatus
  BY SMTT(30), <1>1, RouteBounds
<1>4. /\ Advanced(r).id = r.id /\ Advanced(r).created_at = r.created_at
      /\ Advanced(r).status = r.status + 1 /\ Advanced(r).events = r.events + 1
  BY Zenon DEF Advanced, Rows
<1>5. Advanced(r) \in Rows
  BY Zenon, <1>1, <1>2 DEF Advanced, Rows
<1> QED  BY Zenon, <1>4, <1>5

\* Statuses never fall, and a row that can be seen keeps its time and its id.
RowsKept ==
    \A p \in Posts :
        /\ row'[p].status >= row[p].status
        /\ row[p].status > 0 =>
              row'[p].id = row[p].id /\ row'[p].created_at = row[p].created_at

\* A step of one request that writes its row.
LEMMA RowMove ==
    ASSUME ClockInv, RowInv, NEW p \in Posts, NEW r \in Rows,
           row' = [row EXCEPT ![p] = r], \A q \in Posts \ {p} : pc'[q] = pc[q],
           RowOk(r, pc'[p]), r.status >= row[p].status,
           \/ r.id = row[p].id
           \/ r.id \notin {row[q].id : q \in Posts} /\ row[p].status = 0
           \/ r.id = 0 /\ row[p].status = 0,
           row[p].status > 0 => r.created_at = row[p].created_at
    PROVE  RowInv' /\ RowsKept
<1>1. row \in [Posts -> Rows] /\ \A q \in Posts : RowOk(row[q], pc[q])
  BY Zenon DEF RowInv
<1>2. /\ row' \in [Posts -> Rows] /\ row'[p] = r
      /\ \A q \in Posts \ {p} : row'[q] = row[q]
  BY Zenon, <1>1
<1>3. ASSUME NEW a \in Posts, NEW b \in Posts, a # b, row'[a].id = row'[b].id
      PROVE  row'[a].id = 0
  <2>1. CASE a # p /\ b # p
    BY Zenon, <1>2, <1>3, <2>1 DEF RowInv
  <2>2. CASE a = p
    <3>1. row'[a] = r /\ row'[b] = row[b] /\ r.id = row[b].id
      BY Zenon, <1>2, <1>3, <2>2
    <3> QED  BY Zenon, <1>3, <2>2, <3>1 DEF RowInv
  <2>3. CASE b = p
    <3>1. row'[b] = r /\ row'[a] = row[a] /\ r.id = row[a].id
      BY Zenon, <1>2, <1>3, <2>3
    <3> QED  BY Zenon, <1>3, <2>3, <3>1 DEF RowInv
  <2> QED  BY Zenon, <2>1, <2>2, <2>3
<1>4. \A q \in Posts : RowOk(row'[q], pc'[q])
  BY Zenon, <1>1, <1>2
<1>5. RowInv'
  BY Zenon, <1>2, <1>3, <1>4 DEF RowInv, RowOk, Rows, Ids
<1>6. ~(0 > 0)
  BY SMTT(30)
<1>7. ASSUME NEW q \in Posts
      PROVE  /\ row'[q].status >= row[q].status
             /\ row[q].status > 0 =>
                   row'[q].id = row[q].id /\ row'[q].created_at = row[q].created_at
  <2>1. CASE q = p
    BY Zenon, <1>2, <1>6, <2>1
  <2>2. CASE q # p
    <3>1. row'[q] = row[q]
      BY Zenon, <1>2, <2>2
    <3>2. row[q].status \in Nat
      BY Zenon, <1>1, RowFields
    <3>3. row[q].status >= row[q].status
      BY SMTT(30), <3>2
    <3> QED  BY Zenon, <3>1, <3>3
  <2> QED  BY Zenon, <2>1, <2>2
<1> QED  BY Zenon, <1>5, <1>7 DEF RowsKept

\* A step that leaves the rows alone.
LEMMA RowFrame ==
    ASSUME RowInv, UNCHANGED row,
           \A p \in Posts : \/ pc'[p] = pc[p]
                            \/ row[p] = NoRow /\ pc'[p] # "commit"
    PROVE  RowInv' /\ RowsKept
<1>1. row \in [Posts -> Rows] /\ \A p \in Posts : RowOk(row[p], pc[p])
  BY Zenon DEF RowInv
<1>2. ~(0 > 0)
  BY SMTT(30)
<1>3. ASSUME NEW p \in Posts  PROVE RowOk(row'[p], pc'[p])
  <2>1. CASE pc'[p] = pc[p]
    BY Zenon, <1>1, <2>1
  <2>2. CASE row[p] = NoRow /\ pc'[p] # "commit"
    BY Zenon, <1>2, <2>2, NoRowValues DEF RowOk
  <2> QED  BY Zenon, <2>1, <2>2
<1>4. \A p, q \in Posts : p # q /\ row'[p].id = row'[q].id => row'[p].id = 0
  BY Zenon DEF RowInv
<1>5. RowInv'
  BY Zenon, <1>1, <1>3, <1>4 DEF RowInv, RowOk, Rows, Ids
<1>6. ASSUME NEW p \in Posts  PROVE row[p].status >= row[p].status
  <2>1. row[p].status \in Nat
    BY Zenon, <1>1, RowFields
  <2> QED  BY SMTT(30), <2>1
<1> QED  BY Zenon, <1>5, <1>6 DEF RowsKept

\* Every step keeps the rows in order; what can be seen keeps its time and id.
LEMMA RowStep == ClockInv /\ RowInv /\ [Next]_vars => RowInv' /\ RowsKept
<1>0. ~(0 > 0) /\ 0 >= 0 /\ 2 >= 0 /\ 2 > 0
  BY SMTT(30)
<1>1. ASSUME ClockInv, RowInv, NEW p \in Posts,
             Post(p) \/ Hit(p) \/ HitFailsOpen(p)
      PROVE  RowInv' /\ RowsKept
  <2>1. /\ UNCHANGED row /\ pc[p] \in {"idle", "limited", "count"}
        /\ Step(p, "count") \/ Step(p, "create") \/ Step(p, "limited")
    BY Zenon, <1>1 DEF Post, Hit, HitFailsOpen, LetIn
  <2>2. row[p] = NoRow
    BY Zenon, <1>1, <2>1 DEF RowInv, RowOk
  <2>3. \A q \in Posts : pc'[q] = pc[q] \/ (row[q] = NoRow /\ pc'[q] # "commit")
    BY Zenon, <1>1, <2>1, <2>2 DEF Step, ClockInv
  <2> QED  BY Zenon, <1>1, <2>1, <2>3, RowFrame
<1>2. ASSUME ClockInv, RowInv, NEW p \in Posts, Begin(p)
      PROVE  RowInv' /\ RowsKept
  <2>1. PICK id \in Ids \ {row[q].id : q \in Posts} :
          row' = [row EXCEPT ![p] = Draft(id, now)]
    BY Zenon, <1>2 DEF Begin, Draft
  <2>2. PICK time \in Times : time = now
    BY SMTT(30), <1>2, RouteBounds DEF ClockInv, Times
  <2>3. PICK r \in Rows : /\ r = Draft(id, time)
                          /\ r.id = id /\ r.status = 0 /\ r.events = 0
    BY Zenon, DraftValues
  <2>4. /\ pc[p] = "create" /\ pc'[p] = "commit"
        /\ \A q \in Posts \ {p} : pc'[q] = pc[q]
    BY Zenon, <1>2 DEF Begin, Step, ClockInv
  <2>5. row[p].status = 0
    BY Zenon, <1>2, <2>4, NoRowValues DEF RowInv, RowOk
  <2>6. row' = [row EXCEPT ![p] = r]
    BY Zenon, <2>1, <2>2, <2>3
  <2>7. RowOk(r, pc'[p])
    BY Zenon, <1>0, <2>3, <2>4 DEF RowOk
  <2>8. r.status >= row[p].status /\ ~(row[p].status > 0)
    BY Zenon, <1>0, <2>3, <2>5
  <2> QED  BY Zenon, <1>2, <2>3, <2>4, <2>5, <2>6, <2>7, <2>8, RowMove
<1>3. ASSUME ClockInv, RowInv, NEW p \in Posts, Commit(p)
      PROVE  RowInv' /\ RowsKept
  <2>1. /\ pc[p] = "commit" /\ pc'[p] = "done"
        /\ \A q \in Posts \ {p} : pc'[q] = pc[q]
    BY Zenon, <1>3 DEF Commit, Step, ClockInv
  <2>2. row[p].status = 0 /\ row[p].id \in Ids /\ row[p] \in Rows
    BY Zenon, <1>3, <2>1 DEF RowInv, RowOk
  <2>a. PICK id \in Ids, time \in Times :
          id = row[p].id /\ time = row[p].created_at
    BY Zenon, <2>2, RowFields
  <2>3. PICK r \in Rows : /\ r = Inserted(id, time)
                          /\ r.id = id /\ r.created_at = time
                          /\ r.status = 2 /\ r.events = 2
    BY Zenon, InsertedValues
  <2>4. row' = [row EXCEPT ![p] = r]
    BY Zenon, <1>3, <2>a, <2>3 DEF Commit
  <2>5. RowOk(r, pc'[p]) /\ r.id = row[p].id
    BY Zenon, <2>1, <2>a, <2>3 DEF RowOk
  <2>6. r.status >= row[p].status /\ ~(row[p].status > 0)
    BY Zenon, <1>0, <2>2, <2>3
  <2> QED  BY Zenon, <1>3, <2>1, <2>3, <2>4, <2>5, <2>6, RowMove
<1>4. ASSUME ClockInv, RowInv, NEW p \in Posts, Rollback(p)
      PROVE  RowInv' /\ RowsKept
  <2>1. /\ pc[p] = "commit" /\ pc'[p] = "done"
        /\ \A q \in Posts \ {p} : pc'[q] = pc[q]
        /\ row' = [row EXCEPT ![p] = NoRow]
    BY Zenon, <1>4 DEF Rollback, Step, ClockInv
  <2>2. row[p].status = 0
    BY Zenon, <1>4, <2>1 DEF RowInv, RowOk
  <2>3. RowOk(NoRow, pc'[p])
    BY Zenon, <1>0, <2>1, NoRowValues DEF RowOk
  <2>4. NoRow.status >= row[p].status /\ ~(row[p].status > 0)
    BY Zenon, <1>0, <2>2, NoRowValues
  <2> QED  BY Zenon, <1>4, <2>1, <2>2, <2>3, <2>4, RowMove, NoRowValues
<1>5. ASSUME ClockInv, RowInv, NEW p \in Posts, Transition(p)
      PROVE  RowInv' /\ RowsKept
  <2>1. /\ row[p] \in Rows /\ RowOk(row[p], pc[p])
        /\ row[p].status \in 2 .. MaxStatus - 1 /\ row[p].events = row[p].status
        /\ UNCHANGED pc /\ row' = [row EXCEPT ![p] = Advanced(row[p])]
    BY Zenon, <1>5 DEF RowInv, RowOk, Transition
  <2>2. PICK n \in Nat : n = row[p].status
    BY Zenon, <2>1, RowFields
  <2>3. n + 1 >= n /\ n > 0 /\ n # 0
    BY SMTT(30), <2>1, <2>2, RouteBounds
  <2>4. PICK r \in Rows :
          /\ r = Advanced(row[p]) /\ r.id = row[p].id
          /\ r.created_at = row[p].created_at
          /\ r.status = n + 1 /\ r.events = n + 1
    BY Zenon, <2>1, <2>2, AdvancedValues
  <2>5. RowOk(r, pc'[p])
    BY Zenon, <2>1, <2>2, <2>3, <2>4, NoRowValues DEF RowOk
  <2>6. row' = [row EXCEPT ![p] = r] /\ r.status >= row[p].status
    BY Zenon, <2>1, <2>2, <2>3, <2>4
  <2> QED  BY Zenon, <1>5, <2>1, <2>4, <2>5, <2>6, RowMove
<1>6. ASSUME RowInv, UNCHANGED <<row, pc>>  PROVE RowInv' /\ RowsKept
  BY Zenon, <1>6, RowFrame
<1>7. ASSUME RowInv, NEW p \in Posts, ReadTransfer(p) \/ ReadEvents(p)
      PROVE  RowInv' /\ RowsKept
  BY Zenon, <1>6, <1>7 DEF ReadTransfer, ReadEvents
<1>8. ASSUME RowInv, FirstPage \/ NextPage \/ Tick \/ UNCHANGED vars
      PROVE  RowInv' /\ RowsKept
  BY Zenon, <1>6, <1>8 DEF FirstPage, NextPage, Tick, vars
<1> QED  BY Zenon, <1>1, <1>2, <1>3, <1>4, <1>5, <1>7, <1>8 DEF Next

\* The rows are in order at the start.
LEMMA RowInit == Init => RowInv
<1> SUFFICES ASSUME Init PROVE RowInv
  OBVIOUS
<1>1. PICK id \in [Earlier -> Ids] :
        /\ \A p, q \in Earlier : id[p] = id[q] => p = q
        /\ row = [p \in Posts |-> IF p \in Earlier THEN Inserted(id[p], 0) ELSE NoRow]
  BY Zenon DEF Init, IsInjective
<1>2. pc = [p \in Posts |-> IF p \in Earlier THEN "done" ELSE "idle"]
  BY Zenon DEF Init
<1>3. 0 \in Times /\ 0 \notin Ids /\ ~(0 > 0)
  BY SMTT(30), IdsType, RouteBounds DEF Times
<1>4. ASSUME NEW p \in Posts
      PROVE  \/ /\ p \in Earlier /\ pc[p] = "done" /\ row[p] \in Rows
                /\ row[p].id = id[p] /\ id[p] \in Ids
                /\ row[p].status = 2 /\ row[p].events = 2
             \/ row[p] = NoRow /\ pc[p] = "idle"
  <2>1. CASE p \in Earlier
    <3>1. PICK i \in Ids : i = id[p]
      BY Zenon, <2>1
    <3>2. PICK r \in Rows : /\ r = Inserted(i, 0)
                            /\ r.id = i /\ r.created_at = 0
                            /\ r.status = 2 /\ r.events = 2
      BY Zenon, <1>3, InsertedValues
    <3>3. row[p] = r /\ pc[p] = "done"
      BY Zenon, <1>1, <1>2, <2>1, <3>1, <3>2
    <3> QED  BY Zenon, <2>1, <3>1, <3>2, <3>3
  <2>2. CASE p \notin Earlier
    BY Zenon, <1>1, <1>2, <2>2
  <2> QED  BY Zenon, <2>1, <2>2
<1>5. ASSUME NEW p \in Posts  PROVE row[p] \in Rows /\ RowOk(row[p], pc[p])
  BY Zenon, <1>3, <1>4, NoRowValues DEF RowOk
<1>6. row \in [Posts -> Rows]
  BY Zenon, <1>1, <1>5
<1>7. ASSUME NEW p \in Posts, NEW q \in Posts, p # q, row[p].id = row[q].id
      PROVE  row[p].id = 0
  BY Zenon, <1>1, <1>3, <1>4, <1>7, NoRowValues
<1> QED  BY Zenon, <1>5, <1>6, <1>7 DEF RowInv

-----------------------------------------------------------------------------
(* The timeline *)

\* Nothing is shown at the start.
LEMMA SeenInit == Init => SeenInv
<1> SUFFICES ASSUME Init PROVE SeenInv
  OBVIOUS
<1>1. seen = [of |-> "nothing", status |-> 0, events |-> 0]
  BY Zenon DEF Init
<1>2. 0 \in 0 .. MaxStatus
  BY SMTT(30), RouteBounds
<1>3. ASSUME NEW p \in Posts  PROVE 0 <= row[p].status
  <2>1. row[p].status \in Nat
    BY Zenon, RowInit, RowFields DEF RowInv
  <2> QED  BY SMTT(30), <2>1
<1> QED  BY Zenon, <1>1, <1>2, <1>3 DEF SeenInv

\* A reader that does nothing sees the rows go on.
LEMMA SeenFrame ==
    ASSUME RowInv, RowInv', RowsKept, SeenInv, UNCHANGED seen
    PROVE  SeenInv'
<1>1. seen.status \in Nat
  <2>1. seen.status \in 0 .. MaxStatus
    BY Zenon DEF SeenInv
  <2> QED  BY SMTT(30), <2>1, RouteBounds
<1>2. ASSUME seen.of \in Posts  PROVE seen.status <= row'[seen.of].status
  <2>1. PICK n \in Nat, m \in Nat, k \in Nat :
          /\ n = seen.status /\ m = row[seen.of].status /\ k = row'[seen.of].status
    BY Zenon, <1>1, <1>2, RowFields DEF RowInv
  <2>2. n <= m /\ k >= m
    BY Zenon, <1>2, <2>1 DEF SeenInv, RowsKept
  <2>3. n <= k
    BY SMTT(30), <2>2
  <2> QED  BY Zenon, <2>1, <2>3
<1> QED  BY Zenon, <1>2 DEF SeenInv

\* Every step keeps the timeline level with the status.
LEMMA SeenStep ==
    ClockInv /\ RowInv /\ SeenInv /\ [Next]_vars => SeenInv'
<1>0. ~(0 > 0) /\ 0 >= 0
  BY SMTT(30)
<1>1. ASSUME RowInv, SeenInv, NEW p \in Posts, ReadTransfer(p)  PROVE SeenInv'
  <2>1. /\ seen' = [of |-> p, status |-> row[p].status, events |-> 0]
        /\ UNCHANGED row
    BY Zenon, <1>1 DEF ReadTransfer, StatusFirst
  <2>2. /\ row[p].status \in 0 .. MaxStatus /\ row[p].status \in Nat
    BY Zenon, <1>1, RowFields DEF RowInv
  <2>3. 0 \in 0 .. MaxStatus /\ row[p].status <= row[p].status
    BY SMTT(30), <2>2, RouteBounds
  <2> QED  BY Zenon, <1>1, <2>1, <2>2, <2>3 DEF SeenInv
<1>2. ASSUME RowInv, SeenInv, NEW p \in Posts, ReadEvents(p)  PROVE SeenInv'
  <2>1. PICK n \in Nat, s \in 0 .. MaxStatus, e \in 0 .. MaxStatus :
          /\ n = row[p].status /\ n = row[p].events /\ n \in 0 .. MaxStatus
          /\ s = seen.status /\ e = seen.events
    BY Zenon, <1>2, RowFields DEF RowInv, RowOk, SeenInv
  <2>2. /\ s <= n
        /\ e = 0 \/ (s > 0 /\ e >= s)
    BY Zenon, <1>2, <2>1 DEF SeenInv, ReadEvents
  <2>3. PICK s1 \in 0 .. MaxStatus, e1 \in 0 .. MaxStatus :
          /\ s1 = IF s = 0 THEN n ELSE s
          /\ e1 = IF e = 0 THEN n ELSE e
    BY Zenon, <2>1
  <2>4. /\ s1 <= n
        /\ e1 = 0 \/ (s1 > 0 /\ e1 >= s1)
    BY SMTT(30), <2>2, <2>3, RouteBounds
  <2>5. /\ seen' = [seen EXCEPT !.status = IF seen.status = 0 THEN row[p].status ELSE seen.status,
                                !.events = IF seen.events = 0 THEN row[p].events ELSE seen.events]
        /\ UNCHANGED row /\ seen.of = p
    BY Zenon, <1>2 DEF ReadEvents
  <2>6. seen' = [seen EXCEPT !.status = s1, !.events = e1]
    BY Zenon, <2>1, <2>3, <2>5
  <2>7. /\ seen' \in [of : Posts \cup {"nothing"}, status : 0 .. MaxStatus,
                      events : 0 .. MaxStatus]
        /\ seen'.of = p /\ seen'.status = s1 /\ seen'.events = e1
    BY Zenon, <1>2, <2>5, <2>6 DEF SeenInv
  <2>8. row'[p].status = n
    BY Zenon, <2>1, <2>5
  <2> QED  BY Zenon, <2>4, <2>7, <2>8 DEF SeenInv
<1>3. ASSUME ClockInv, RowInv, SeenInv, [Next]_vars, UNCHANGED seen  PROVE SeenInv'
  BY Zenon, <1>3, RowStep, SeenFrame
<1>4. ASSUME NEW p \in Posts,
             Post(p) \/ Hit(p) \/ HitFailsOpen(p) \/ Begin(p) \/ Commit(p)
                \/ Rollback(p) \/ Transition(p)
      PROVE  UNCHANGED seen
  BY Zenon, <1>4 DEF Post, Hit, HitFailsOpen, Begin, Commit, Rollback, Transition
<1>5. ASSUME FirstPage \/ NextPage \/ Tick \/ UNCHANGED vars
      PROVE  UNCHANGED seen
  BY Zenon, <1>5 DEF FirstPage, NextPage, Tick, vars
<1> QED  BY Zenon, <1>1, <1>2, <1>3, <1>4, <1>5 DEF Next

\* The timeline of a transfer holds the status shown beside it, although the
\* two are read by two statements and the saga goes on between them
\* (get_transfer_details reads the status first).
THEOREM TimelineIsUpToDate == Spec => []TimelineCoversStatus
<1>1. SeenInv => TimelineCoversStatus
  <2>1. ~(0 > 0)
    BY SMTT(30)
  <2> QED  BY Zenon, <2>1 DEF SeenInv, TimelineCoversStatus
<1> QED  BY <1>1, ClockInit, ClockStep, RowInit, RowStep, SeenInit, SeenStep, PTL DEF Spec

-----------------------------------------------------------------------------
(* The pages: the order of the rows puts a finite set of them in one sequence *)

Listable(T) ==
    /\ IsFiniteSet(T)
    /\ \A x \in T : x.id \in Nat /\ x.created_at \in Nat
    /\ \A x, y \in T : x.id = y.id => x = y

\* (created_at, id) orders rows strictly and totally.
LEMMA NewerOrder ==
    ASSUME NEW T, Listable(T), NEW x \in T, NEW y \in T, NEW z \in T
    PROVE  /\ ~Newer(x, x)
           /\ ~(Newer(x, y) /\ Newer(y, x))
           /\ x # y => Newer(x, y) \/ Newer(y, x)
           /\ Newer(x, y) /\ Newer(y, z) => Newer(x, z)
           /\ Older(x, y) <=> Newer(y, x)
<1>1. /\ x.id \in Nat /\ y.id \in Nat /\ z.id \in Nat
      /\ x.created_at \in Nat /\ y.created_at \in Nat /\ z.created_at \in Nat
      /\ x.id = y.id => x = y
  BY Zenon DEF Listable
<1> QED  BY SMTT(30), <1>1 DEF Newer, Older

\* What comes before x.
Above(T, x) == {y \in T : Newer(y, x)}

\* The further down a row is, the more rows come before it.
LEMMA AboveGrows ==
    ASSUME NEW T, Listable(T), NEW x \in T, NEW y \in T
    PROVE  /\ Cardinality(T) \in Nat /\ Cardinality(Above(T, x)) \in Nat
           /\ Cardinality(Above(T, x)) < Cardinality(T)
           /\ Newer(x, y) =>
                 Cardinality(Above(T, x)) < Cardinality(Above(T, y))
<1>1. IsFiniteSet(T) /\ Above(T, x) \in SUBSET T /\ Above(T, y) \in SUBSET T
  BY Zenon DEF Listable, Above
<1>2. IsFiniteSet(Above(T, x)) /\ IsFiniteSet(Above(T, y))
  BY Zenon, <1>1, FS_Subset
<1>3. /\ Cardinality(T) \in Nat /\ Cardinality(Above(T, x)) \in Nat
      /\ Cardinality(Above(T, y)) \in Nat
  BY Zenon, <1>1, <1>2, FS_CardinalityType
<1>4. x \notin Above(T, x)
  BY Zenon, NewerOrder DEF Above
<1>5. /\ Cardinality(Above(T, x)) <= Cardinality(T)
      /\ Cardinality(T) # Cardinality(Above(T, x))
  BY Zenon, <1>1, <1>4, FS_Subset
<1>6. Cardinality(Above(T, x)) < Cardinality(T)
  BY SMTT(30), <1>3, <1>5
<1>7. ASSUME Newer(x, y)
      PROVE  Cardinality(Above(T, x)) < Cardinality(Above(T, y))
  <2>1. Above(T, x) \in SUBSET Above(T, y)
    BY Zenon, <1>7, NewerOrder DEF Above
  <2>2. x \in Above(T, y)
    BY Zenon, <1>7 DEF Above
  <2>3. /\ Cardinality(Above(T, x)) <= Cardinality(Above(T, y))
        /\ Cardinality(Above(T, y)) # Cardinality(Above(T, x))
    BY Zenon, <1>2, <1>4, <2>1, <2>2, FS_Subset
  <2> QED  BY SMTT(30), <1>3, <2>3
<1> QED  BY Zenon, <1>3, <1>6, <1>7

\* There are n numbers up to n.
LEMMA CountUpTo ==
    ASSUME NEW n \in Nat
    PROVE  IsFiniteSet(1 .. n) /\ Cardinality(1 .. n) = n
<1>1. 1 \in Int /\ n \in Int /\ (1 > n => n = 0) /\ n - 1 + 1 = n
  BY SMTT(30)
<1>2. /\ IsFiniteSet(1 .. n)
      /\ Cardinality(1 .. n) = IF 1 > n THEN 0 ELSE n - 1 + 1
  BY Zenon, <1>1, FS_Interval
<1> QED  BY Zenon, <1>1, <1>2

Newest(T) ==
    CHOOSE s \in Injection(1 .. Cardinality(T), T) :
        \A i, j \in 1 .. Len(s) : i < j => Newer(s[i], s[j])

LastOf(s) == s[Len(s)]

\* The sequence s of n rows holds those of T, each once and newest first.
Sorts(s, n, T) ==
    /\ n = Len(s) /\ s \in [1 .. n -> T]
    /\ \A i, j \in 1 .. n : i < j => Newer(s[i], s[j])
    /\ \A i, j \in 1 .. n : s[i] = s[j] => i = j
    /\ \A x \in T : \E i \in 1 .. n : s[i] = x

\* ORDER BY puts the rows of a table in one sequence: each is as far down as
\* there are rows before it.
LEMMA NewestSorted ==
    ASSUME NEW T, Listable(T)
    PROVE  \E s \in Seq(T), n \in Nat : s = Newest(T) /\ Sorts(s, n, T)
<1>0. PICK n : n = Cardinality(T)
  OBVIOUS
<1>1. IsFiniteSet(T) /\ n \in Nat
  BY Zenon, <1>0, FS_CardinalityType DEF Listable
<1>2. IsFiniteSet(1 .. n) /\ Cardinality(1 .. n) = n
  BY Zenon, <1>1, CountUpTo
<1>3. ASSUME NEW s \in [1 .. n -> T]  PROVE s \in Seq(T) /\ Len(s) = n
  BY SMTT(30), <1>1
<1> DEFINE rank == [x \in T |-> Cardinality(Above(T, x)) + 1]
<1>4. ASSUME NEW x \in T, NEW y \in T
      PROVE  /\ rank[x] \in 1 .. n
             /\ Newer(x, y) => rank[x] < rank[y]
  <2>1. PICK a \in Nat, b \in Nat :
          /\ a = Cardinality(Above(T, x)) /\ b = Cardinality(Above(T, y))
          /\ a < n /\ (Newer(x, y) => a < b)
    BY Zenon, <1>0, AboveGrows
  <2>2. rank[x] = a + 1 /\ rank[y] = b + 1
    BY Zenon, <2>1
  <2>3. a + 1 \in 1 .. n /\ (a < b => a + 1 < b + 1)
    BY SMTT(30), <1>1, <2>1
  <2> QED  BY Zenon, <2>1, <2>2, <2>3
<1> HIDE DEF rank
<1>5. rank \in [T -> 1 .. n]
  <2>1. rank = [x \in T |-> Cardinality(Above(T, x)) + 1]
    BY Zenon DEF rank
  <2> QED  BY Zenon, <1>4, <2>1
<1>6. ASSUME NEW i \in 1 .. n, NEW j \in 1 .. n  PROVE i < j => i # j /\ ~(j < i)
  BY SMTT(30), <1>1
<1>7. ASSUME NEW x \in T, NEW y \in T, rank[x] = rank[y]  PROVE x = y
  <2>1. ~(rank[x] < rank[y]) /\ ~(rank[y] < rank[x])
    BY Zenon, <1>4, <1>6, <1>7
  <2> QED  BY Zenon, <1>4, <2>1, NewerOrder
<1>8. \A i \in 1 .. n : \E x \in T : rank[x] = i
  <2>1. PICK D : D = 1 .. n
    OBVIOUS
  <2>2. IsFiniteSet(D) /\ Cardinality(T) = Cardinality(D) /\ rank \in [T -> D]
    BY Zenon, <1>0, <1>2, <1>5, <2>1
  <2>a. rank \in Injection(T, D)
    BY Zenon, <1>7, <2>2 DEF Injection, IsInjective
  <2>b. rank \in Surjection(T, D)
    BY Zenon, <2>2, <2>a, FS_Injection
  <2>3. \A i \in D : \E x \in T : rank[x] = i
    BY Zenon, <2>b DEF Surjection
  <2> QED  BY Zenon, <2>1, <2>3
<1>9. \E s \in Injection(1 .. Cardinality(T), T) :
         \A i, j \in 1 .. Len(s) : i < j => Newer(s[i], s[j])
  <2> DEFINE s == [i \in 1 .. n |-> CHOOSE x \in T : rank[x] = i]
  <2>1. \A i \in 1 .. n : s[i] \in T /\ rank[s[i]] = i
    BY Zenon, <1>8
  <2>2. s \in [1 .. n -> T]
    BY Zenon, <2>1
  <2> HIDE DEF s
  <2>3. \A i, j \in 1 .. n : i # j => s[i] # s[j]
    BY Zenon, <2>1
  <2>4. s \in Injection(1 .. Cardinality(T), T)
    <3>1. s \in Injection(1 .. n, T)
      BY Zenon, <2>2, <2>3 DEF Injection, IsInjective
    <3> QED  BY Zenon, <1>0, <3>1
  <2>5. ASSUME NEW i \in 1 .. n, NEW j \in 1 .. n, i < j
        PROVE  Newer(s[i], s[j])
    <3>1. s[i] \in T /\ s[j] \in T /\ rank[s[i]] = i /\ rank[s[j]] = j
      BY Zenon, <2>1
    <3>2. s[i] # s[j] /\ ~(rank[s[j]] < rank[s[i]])
      BY Zenon, <1>6, <2>3, <2>5, <3>1
    <3> QED  BY Zenon, <1>4, <3>1, <3>2, NewerOrder
  <2>6. Len(s) = n
    BY Zenon, <1>3, <2>2
  <2> QED  BY Zenon, <2>4, <2>5, <2>6
<1>10. PICK s : /\ s = Newest(T) /\ s \in Injection(1 .. Cardinality(T), T)
                /\ \A i, j \in 1 .. Len(s) : i < j => Newer(s[i], s[j])
  BY Zenon, <1>9 DEF Newest
<1>11. s \in [1 .. n -> T] /\ \A i, j \in 1 .. n : s[i] = s[j] => i = j
  <2>1. s \in Injection(1 .. n, T)
    BY Zenon, <1>0, <1>10
  <2> QED  BY Zenon, <2>1 DEF Injection, IsInjective
<1>12. \A x \in T : \E i \in 1 .. n : s[i] = x
  <2>1. PICK D : D = 1 .. n
    OBVIOUS
  <2>2. /\ IsFiniteSet(D) /\ Cardinality(D) = Cardinality(T) /\ s \in [D -> T]
        /\ \A i, j \in D : s[i] = s[j] => i = j
    BY Zenon, <1>0, <1>2, <1>11, <2>1
  <2>a. s \in Injection(D, T)
    BY Zenon, <2>2 DEF Injection, IsInjective
  <2>b. s \in Surjection(D, T)
    BY Zenon, <1>1, <2>2, <2>a, FS_Injection
  <2>3. \A x \in T : \E i \in D : s[i] = x
    BY Zenon, <2>b DEF Surjection
  <2> QED  BY Zenon, <2>1, <2>3
<1>13. s \in Seq(T) /\ n = Len(s)
  BY Zenon, <1>3, <1>11
<1>14. \A i, j \in 1 .. n : i < j => Newer(s[i], s[j])
  BY Zenon, <1>10, <1>13
<1>15. Sorts(s, n, T)
  BY Zenon, <1>11, <1>12, <1>13, <1>14 DEF Sorts
<1> QED  BY Zenon, <1>1, <1>10, <1>13, <1>15

Smaller(a, b) == Min({a, b})

\* The LIMIT of a query is at most both of its bounds.
LEMMA SmallerOfTwo ==
    ASSUME NEW a \in Nat, NEW b \in Nat
    PROVE  /\ Smaller(a, b) \in Nat /\ Smaller(a, b) <= a /\ Smaller(a, b) <= b
           /\ Smaller(a, b) = a \/ Smaller(a, b) = b
<1>1. a <= a /\ b <= b /\ (a <= b \/ b <= a)
  BY SMTT(30)
<1>2. \E c \in {a, b} : \A d \in {a, b} : c <= d
  BY Zenon, <1>1
<1>3. PICK c \in {a, b} : c = Min({a, b}) /\ \A d \in {a, b} : c <= d
  BY Zenon, <1>2 DEF Min
<1> QED  BY Zenon, <1>3 DEF Smaller

\* The first k rows.
LEMMA Prefix ==
    ASSUME NEW S, NEW s \in Seq(S), NEW k \in Nat, k <= Len(s)
    PROVE  /\ SubSeq(s, 1, k) \in Seq(S) /\ Len(SubSeq(s, 1, k)) = k
           /\ \A i \in 1 .. k : SubSeq(s, 1, k)[i] = s[i]
  BY SMTT(30)

Matching(T, cursor) == {x \in T : cursor # NoCursor => Older(x, cursor)}
Read(s, limit)      == SubSeq(s, 1, Smaller(limit + 1, Len(s)))
Page(rows, limit)   == SubSeq(rows, 1, Smaller(limit, Len(rows)))

\* A page is the beginning of the sorted table, and there is a next one when
\* the table goes on.
LEMMA PageIsPrefix ==
    ASSUME NEW S, NEW s \in Seq(S), NEW limit \in Nat, limit > 0
    PROVE  \E page \in Seq(S), k \in Nat :
              /\ page = Page(Read(s, limit), limit)
              /\ Len(page) = k /\ k <= Len(s)
              /\ \A i \in 1 .. k : page[i] = s[i]
              /\ \/ k = Len(s) /\ ~(Len(Read(s, limit)) > limit)
                 \/ k > 0 /\ Len(Read(s, limit)) > limit
<1>1. PICK n \in Nat, l \in Nat : n = Len(s) /\ l = limit + 1
  BY SMTT(30)
<1>2. PICK a \in Nat :
        a = Smaller(l, n) /\ a <= l /\ a <= n /\ (a = l \/ a = n)
  BY Zenon, SmallerOfTwo
<1>3. Read(s, limit) = SubSeq(s, 1, a)
  BY Zenon, <1>1, <1>2 DEF Read
<1>4. PICK rows \in Seq(S) : /\ rows = Read(s, limit) /\ Len(rows) = a
                             /\ \A i \in 1 .. a : rows[i] = s[i]
  <2>1. a <= Len(s)
    BY Zenon, <1>1, <1>2
  <2>2. /\ SubSeq(s, 1, a) \in Seq(S) /\ Len(SubSeq(s, 1, a)) = a
        /\ \A i \in 1 .. a : SubSeq(s, 1, a)[i] = s[i]
    BY Zenon, <2>1, Prefix
  <2> QED  BY Zenon, <1>3, <2>2
<1>5. PICK k \in Nat :
        k = Smaller(limit, a) /\ k <= limit /\ k <= a /\ (k = limit \/ k = a)
  <2>1. /\ Smaller(limit, a) \in Nat
        /\ Smaller(limit, a) <= limit /\ Smaller(limit, a) <= a
        /\ Smaller(limit, a) = limit \/ Smaller(limit, a) = a
    BY Zenon, SmallerOfTwo
  <2> QED  BY Zenon, <2>1
<1>6. PICK page \in Seq(S) : /\ page = Page(rows, limit) /\ Len(page) = k
                             /\ \A i \in 1 .. k : page[i] = rows[i]
  <2>1. k <= Len(rows) /\ Page(rows, limit) = SubSeq(rows, 1, k)
    BY Zenon, <1>4, <1>5 DEF Page
  <2>2. /\ SubSeq(rows, 1, k) \in Seq(S) /\ Len(SubSeq(rows, 1, k)) = k
        /\ \A i \in 1 .. k : SubSeq(rows, 1, k)[i] = rows[i]
    BY Zenon, <2>1, Prefix
  <2> QED  BY Zenon, <2>1, <2>2
<1>7. /\ k <= n /\ \A i \in 1 .. k : i \in 1 .. a
      /\ (k = n /\ ~(a > limit)) \/ (k > 0 /\ a > limit)
  <2>1. /\ l = limit + 1 /\ a <= l /\ a <= n /\ (a = l \/ a = n)
        /\ k <= limit /\ k <= a /\ (k = limit \/ k = a)
    BY Zenon, <1>1, <1>2, <1>5
  <2> QED  BY SMTT(30), <2>1
<1>8. /\ page = Page(Read(s, limit), limit) /\ Len(page) = k /\ k <= Len(s)
      /\ \A i \in 1 .. k : page[i] = s[i]
  BY Zenon, <1>1, <1>4, <1>6, <1>7
<1>9. \/ k = Len(s) /\ ~(Len(Read(s, limit)) > limit)
      \/ k > 0 /\ Len(Read(s, limit)) > limit
  BY Zenon, <1>1, <1>4, <1>7
<1> QED  BY Zenon, <1>8, <1>9

\* A page of the rows of m and the cursor it gives back: none twice, and either
\* all of them or all that are not older than the cursor.
Covers(page, next, m) ==
    /\ \A i, j \in 1 .. Len(page) : page[i] = page[j] => i = j
    /\ \/ /\ next = NoCursor
          /\ \A x \in m : \E i \in 1 .. Len(page) : page[i] = x
       \/ \E l \in m :
            /\ next = TransferCursor(l)
            /\ \A i \in 1 .. Len(page) : ~Older(page[i], l)
            /\ \A x \in m : Older(x, l) \/ \E i \in 1 .. Len(page) : page[i] = x

\* A page covers the newest of the matching rows, up to its cursor.
LEMMA ListPage ==
    ASSUME NEW T, Listable(T), NEW limit \in Nat, limit > 0, NEW cursor
    PROVE  \E page \in Seq(Matching(T, cursor)) : \E next :
              /\ list_transfers(T, limit, cursor) = [page |-> page, next |-> next]
              /\ Covers(page, next, Matching(T, cursor))
<1> DEFINE m == Matching(T, cursor)
<1>0. m = Matching(T, cursor)
  OBVIOUS
<1> HIDE DEF m
<1>1. Listable(m)
  <2>1. m \in SUBSET T
    BY Zenon, <1>0 DEF Matching
  <2>2. IsFiniteSet(m)
    BY Zenon, <2>1, FS_Subset DEF Listable
  <2> QED  BY Zenon, <2>1, <2>2 DEF Listable
<1>a. PICK s \in Seq(m), n \in Nat : s = Newest(m) /\ Sorts(s, n, m)
  BY Zenon, <1>1, NewestSorted
<1>2. /\ s = Newest(m) /\ n = Len(s) /\ s \in [1 .. n -> m]
      /\ \A i, j \in 1 .. n : i < j => Newer(s[i], s[j])
      /\ \A i, j \in 1 .. n : s[i] = s[j] => i = j
      /\ \A x \in m : \E i \in 1 .. n : s[i] = x
  BY Zenon, <1>a DEF Sorts
<1>3. PICK page \in Seq(m), k \in Nat :
        /\ page = Page(Read(s, limit), limit)
        /\ Len(page) = k /\ k <= Len(s)
        /\ \A i \in 1 .. k : page[i] = s[i]
        /\ \/ k = Len(s) /\ ~(Len(Read(s, limit)) > limit)
           \/ k > 0 /\ Len(Read(s, limit)) > limit
  BY Zenon, PageIsPrefix
<1> DEFINE next == IF Len(Read(s, limit)) > limit
                   THEN TransferCursor(page[Len(page)]) ELSE NoCursor
<1>4. list_transfers(T, limit, cursor) = [page |-> page, next |-> next]
  <2>1. list_transfers(T, limit, cursor)
           = [page |-> Page(Read(Newest(Matching(T, cursor)), limit), limit),
              next |-> IF Len(Read(Newest(Matching(T, cursor)), limit)) > limit
                       THEN TransferCursor(LastOf(
                               Page(Read(Newest(Matching(T, cursor)), limit), limit)))
                       ELSE NoCursor]
    BY Zenon DEF list_transfers, Matching, Newest, Read, Page, Smaller, LastOf
  <2> QED  BY Zenon, <1>0, <1>2, <1>3, <2>1 DEF LastOf
<1> HIDE DEF next
<1>5. /\ \A i \in 1 .. k : i \in 1 .. n
      /\ \A i \in 1 .. n : i \in 1 .. k \/ k < i
      /\ k > 0 => k \in 1 .. k
      /\ \A i \in 1 .. k : i = k \/ i < k
  <2>1. k <= n
    BY Zenon, <1>2, <1>3
  <2> QED  BY SMTT(30), <2>1
<1>6. \A i, j \in 1 .. Len(page) : page[i] = page[j] => i = j
  <2>1. ASSUME NEW i \in 1 .. k, NEW j \in 1 .. k, page[i] = page[j]  PROVE i = j
    <3>1. page[i] = s[i] /\ page[j] = s[j] /\ i \in 1 .. n /\ j \in 1 .. n
      BY Zenon, <1>3, <1>5
    <3>2. s[i] = s[j]
      BY Zenon, <2>1, <3>1
    <3>3. \A a, b \in 1 .. n : s[a] = s[b] => a = b
      BY Zenon, <1>2
    <3> QED  BY Zenon, <3>1, <3>2, <3>3
  <2> QED  BY Zenon, <1>3, <2>1
<1>7. CASE k = Len(s) /\ ~(Len(Read(s, limit)) > limit)
  <2>1. next = NoCursor
    BY Zenon, <1>7 DEF next
  <2>2. \A x \in m : \E i \in 1 .. Len(page) : page[i] = x
    <3>1. ASSUME NEW x \in m  PROVE \E i \in 1 .. k : page[i] = x
      <4>1. PICK i \in 1 .. n : s[i] = x
        BY Zenon, <1>2
      <4>2. i \in 1 .. k
        BY Zenon, <1>2, <1>7, <4>1
      <4> QED  BY Zenon, <1>3, <4>1, <4>2
    <3> QED  BY Zenon, <1>3, <3>1
  <2> QED  BY Zenon, <1>4, <1>6, <2>1, <2>2 DEF Covers, m
<1>8. CASE k > 0 /\ Len(Read(s, limit)) > limit
  <2>1. PICK l \in m : l = s[k] /\ next = TransferCursor(l)
    BY Zenon, <1>2, <1>3, <1>5, <1>8 DEF next
  <2>2. ASSUME NEW i \in 1 .. k  PROVE ~Older(page[i], l)
    <3>1. PICK x \in m : x = s[i] /\ x = page[i]
      BY Zenon, <1>2, <1>3, <1>5
    <3>2. x = l \/ Newer(x, l)
      <4>1. k \in 1 .. n /\ i \in 1 .. n /\ (i = k \/ i < k)
        BY Zenon, <1>5, <1>8
      <4>2. \A a, b \in 1 .. n : a < b => Newer(s[a], s[b])
        BY Zenon, <1>2
      <4>3. s[i] = s[k] \/ Newer(s[i], s[k])
        BY Zenon, <4>1, <4>2
      <4> QED  BY Zenon, <2>1, <3>1, <4>3
    <3>3. ~Older(x, l)
      BY Zenon, <1>1, <3>2, NewerOrder
    <3> QED  BY Zenon, <3>1, <3>3
  <2>3. ASSUME NEW x \in m
        PROVE  Older(x, l) \/ \E i \in 1 .. k : page[i] = x
    <3>1. PICK i \in 1 .. n : s[i] = x
      BY Zenon, <1>2
    <3>2. CASE i \in 1 .. k
      BY Zenon, <1>3, <3>1, <3>2
    <3>3. CASE k < i
      <4>1. Newer(l, x)
        BY Zenon, <1>2, <1>5, <1>8, <2>1, <3>1, <3>3
      <4> QED  BY Zenon, <1>1, <4>1, NewerOrder
    <3> QED  BY Zenon, <1>5, <3>2, <3>3
  <2>4. /\ \A i \in 1 .. Len(page) : ~Older(page[i], l)
        /\ \A x \in m : Older(x, l) \/ \E i \in 1 .. Len(page) : page[i] = x
    BY Zenon, <1>3, <2>2, <2>3
  <2>5. \E x \in m :
          /\ next = TransferCursor(x)
          /\ \A i \in 1 .. Len(page) : ~Older(page[i], x)
          /\ \A y \in m : Older(y, x) \/ \E i \in 1 .. Len(page) : page[i] = y
    BY Zenon, <2>1, <2>4
  <2> QED  BY Zenon, <1>4, <1>6, <2>5 DEF Covers, m
<1> QED  BY Zenon, <1>3, <1>7, <1>8

-----------------------------------------------------------------------------
(* The walk *)

\* What can be seen can be listed: finitely many rows with distinct ids.
LEMMA VisibleRows ==
    ASSUME RowInv
    PROVE  /\ Listable(Visible)
           /\ \A x \in Visible : x \in Rows /\ x.id \in Ids
<1>1. row \in [Posts -> Rows]
  BY Zenon DEF RowInv
<1>2. ASSUME NEW x \in Visible  PROVE x \in Rows /\ x.id \in Ids
  <2>1. PICK p \in Posts : x = row[p] /\ row[p].status > 0
    BY Zenon DEF Visible
  <2> QED  BY Zenon, <1>1, <2>1 DEF RowInv, RowOk
<1>3. ASSUME NEW x \in Visible, NEW y \in Visible, x.id = y.id  PROVE x = y
  <2>1. PICK p \in Posts : x = row[p]
    BY Zenon DEF Visible
  <2>2. PICK q \in Posts : y = row[q]
    BY Zenon DEF Visible
  <2>3. x.id # 0
    BY Zenon, <1>2, IdsType
  <2>4. row[p].id = row[q].id /\ row[p].id # 0
    BY Zenon, <1>3, <2>1, <2>2, <2>3
  <2>5. p = q
    BY Zenon, <2>4 DEF RowInv
  <2> QED  BY Zenon, <2>1, <2>2, <2>5
<1>4. IsFiniteSet(Visible)
  <2> DEFINE Q == {q \in Posts : row[q].status > 0}
             f == [q \in Q |-> row[q]]
  <2>1. IsFiniteSet(Q)
    BY Zenon, RouteBounds, FS_Subset
  <2>2. f \in Surjection(Q, Visible)
    <3>1. f \in [Q -> Visible]
      BY Zenon DEF Visible
    <3>2. \A x \in Visible : \E q \in Q : f[q] = x
      BY Zenon DEF Visible
    <3> QED  BY Zenon, <3>1, <3>2 DEF Surjection
  <2> QED  BY Zenon, <2>1, <2>2, FS_Surjection
<1>5. \A x \in Visible : x.id \in Nat /\ x.created_at \in Nat
  BY Zenon, <1>2, RowFields
<1> QED  BY Zenon, <1>2, <1>3, <1>4, <1>5 DEF Listable

\* What a listing says of the rows stays true as they go on.
LEMMA ListingKept ==
    ASSUME RowInv, RowInv', RowsKept, NEW listed, NEW before, NEW cursor,
           Listing(listed, before, cursor)
    PROVE  Listing(listed, before, cursor)'
<1>1. ASSUME NEW x \in Visible
      PROVE  (\E y \in Visible : y.id = x.id /\ y.created_at = x.created_at)'
  <2>1. PICK p \in Posts : x = row[p] /\ row[p].status > 0
    BY Zenon DEF Visible
  <2>2. PICK n \in Nat, m \in Nat : n = row[p].status /\ m = row'[p].status
    BY Zenon, RowFields DEF RowInv
  <2>3. n > 0 /\ m >= n
    BY Zenon, <2>1, <2>2 DEF RowsKept
  <2>4. m > 0
    BY SMTT(30), <2>3
  <2>5. row'[p].id = x.id /\ row'[p].created_at = x.created_at
    BY Zenon, <2>1 DEF RowsKept
  <2> QED  BY Zenon, <2>2, <2>4, <2>5 DEF Visible
<1>2. ASSUME NEW id, Passed(id, cursor)  PROVE Passed(id, cursor)'
  <2>1. PICK x \in Visible : x.id = id /\ (cursor # NoCursor => ~Older(x, cursor))
    BY Zenon, <1>2 DEF Passed
  <2>2. PICK y \in Visible' : y.id = x.id /\ y.created_at = x.created_at
    BY Zenon, <1>1
  <2>3. Older(y, cursor) <=> Older(x, cursor)
    BY Zenon, <2>2 DEF Older
  <2> QED  BY Zenon, <2>1, <2>2, <2>3 DEF Passed, Older
<1>3. ASSUME NEW id, Ahead(id, cursor)  PROVE Ahead(id, cursor)'
  <2>1. PICK x \in Visible : x.id = id /\ Older(x, cursor)
    BY Zenon, <1>3 DEF Ahead
  <2>2. PICK y \in Visible' : y.id = x.id /\ y.created_at = x.created_at
    BY Zenon, <1>1
  <2>3. Older(y, cursor) <=> Older(x, cursor)
    BY Zenon, <2>2 DEF Older
  <2> QED  BY Zenon, <2>1, <2>2, <2>3 DEF Ahead, Older
<1>4. /\ listed \in Seq(Ids) /\ before \in SUBSET Ids /\ Distinct(listed)
      /\ \A id \in Ids : Holds(listed, id) => Passed(id, cursor)
      /\ \A id \in before :
            Holds(listed, id) \/ (cursor # NoCursor /\ Ahead(id, cursor))
  BY Zenon DEF Listing
<1>5. /\ \A id \in Ids : Holds(listed, id) => Passed(id, cursor)'
      /\ \A id \in before :
            Holds(listed, id) \/ (cursor # NoCursor /\ Ahead(id, cursor)')
  BY Zenon, <1>2, <1>3, <1>4
<1> QED  BY Zenon, <1>4, <1>5 DEF Listing, Distinct, Holds, Ids

\* Two lists of distinct ids with none in common, one after the other.
LEMMA Joined ==
    ASSUME NEW S, NEW s \in Seq(S), NEW t \in Seq(S), Distinct(s), Distinct(t),
           \A id \in S : ~(Holds(s, id) /\ Holds(t, id))
    PROVE  /\ s \o t \in Seq(S) /\ Distinct(s \o t)
           /\ \A id \in S : Holds(s \o t, id) <=> Holds(s, id) \/ Holds(t, id)
<1>1. PICK u \in Seq(S), a \in Nat, b \in Nat :
        /\ u = s \o t /\ a = Len(s) /\ b = Len(t) /\ Len(u) = a + b
        /\ \A i \in 1 .. a : u[i] = s[i]
        /\ \A i \in 1 .. b : u[a + i] = t[i]
  <2>1. Len(s) \in Nat /\ Len(t) \in Nat
    BY SMTT(30)
  <2>2. /\ s \o t \in Seq(S) /\ Len(s \o t) = Len(s) + Len(t)
        /\ \A i \in 1 .. Len(s) : (s \o t)[i] = s[i]
        /\ \A i \in 1 .. Len(t) : (s \o t)[Len(s) + i] = t[i]
    BY SMTT(30)
  <2> QED  BY Zenon, <2>1, <2>2
<1>2. /\ \A i \in 1 .. a : i \in 1 .. a + b /\ s[i] \in S
      /\ \A i \in 1 .. b : a + i \in 1 .. a + b /\ t[i] \in S
  <2>1. a = Len(s) /\ b = Len(t)
    BY Zenon, <1>1
  <2> QED  BY SMTT(30), <2>1
<1>3. ASSUME NEW i \in 1 .. a + b
      PROVE  \/ i \in 1 .. a /\ u[i] = s[i]
             \/ \E j \in 1 .. b : i = a + j /\ u[i] = t[j]
  <2>1. i \in 1 .. a \/ \E j \in 1 .. b : i = a + j
    <3>1. i \in 1 .. a \/ (i - a \in 1 .. b /\ i = a + (i - a))
      BY SMTT(30)
    <3> QED  BY Zenon, <3>1
  <2> QED  BY Zenon, <1>1, <2>1
<1>4. ASSUME NEW i \in 1 .. a  PROVE s[i] \in S /\ Holds(s, s[i])
  BY Zenon, <1>1, <1>2 DEF Holds
<1>5. ASSUME NEW i \in 1 .. b  PROVE t[i] \in S /\ Holds(t, t[i])
  BY Zenon, <1>1, <1>2 DEF Holds
<1>6. ASSUME NEW i \in 1 .. a + b, NEW j \in 1 .. a + b, u[i] = u[j]  PROVE i = j
  <2>1. CASE i \in 1 .. a /\ u[i] = s[i]
    <3>1. CASE j \in 1 .. a /\ u[j] = s[j]
      <4>1. s[i] = s[j]
        BY Zenon, <1>6, <2>1, <3>1
      <4> QED  BY Zenon, <1>1, <2>1, <3>1, <4>1 DEF Distinct
    <3>2. ASSUME NEW k \in 1 .. b, u[j] = t[k]  PROVE FALSE
      <4>1. s[i] = t[k]
        BY Zenon, <1>6, <2>1, <3>2
      <4> QED  BY Zenon, <1>4, <1>5, <2>1, <4>1
    <3> QED  BY Zenon, <1>3, <3>1, <3>2
  <2>2. ASSUME NEW k \in 1 .. b, i = a + k, u[i] = t[k]  PROVE i = j
    <3>1. ASSUME j \in 1 .. a, u[j] = s[j]  PROVE FALSE
      <4>1. s[j] = t[k]
        BY Zenon, <1>6, <2>2, <3>1
      <4> QED  BY Zenon, <1>4, <1>5, <3>1, <4>1
    <3>2. ASSUME NEW l \in 1 .. b, j = a + l, u[j] = t[l]  PROVE i = j
      <4>1. t[k] = t[l]
        BY Zenon, <1>6, <2>2, <3>2
      <4>2. k = l
        BY Zenon, <1>1, <4>1 DEF Distinct
      <4> QED  BY Zenon, <2>2, <3>2, <4>2
    <3> QED  BY Zenon, <1>3, <3>1, <3>2
  <2> QED  BY Zenon, <1>3, <2>1, <2>2
<1>7. ASSUME NEW id \in S
      PROVE  Holds(u, id) <=> Holds(s, id) \/ Holds(t, id)
  <2>1. ASSUME Holds(u, id)  PROVE Holds(s, id) \/ Holds(t, id)
    <3>1. PICK i \in 1 .. a + b : u[i] = id
      BY Zenon, <1>1, <2>1 DEF Holds
    <3> QED  BY Zenon, <1>1, <1>3, <3>1 DEF Holds
  <2>2. ASSUME Holds(s, id)  PROVE Holds(u, id)
    <3>1. PICK i \in 1 .. a : s[i] = id
      BY Zenon, <1>1, <2>2 DEF Holds
    <3>2. i \in 1 .. a + b /\ u[i] = id
      BY Zenon, <1>1, <1>2, <3>1
    <3> QED  BY Zenon, <1>1, <3>2 DEF Holds
  <2>3. ASSUME Holds(t, id)  PROVE Holds(u, id)
    <3>1. PICK i \in 1 .. b : t[i] = id
      BY Zenon, <1>1, <2>3 DEF Holds
    <3>2. a + i \in 1 .. a + b /\ u[a + i] = id
      BY Zenon, <1>1, <1>2, <3>1
    <3> QED  BY Zenon, <1>1, <3>2 DEF Holds
  <2> QED  BY Zenon, <2>1, <2>2, <2>3
<1>8. Distinct(u)
  BY Zenon, <1>1, <1>6 DEF Distinct
<1> QED  BY Zenon, <1>1, <1>7, <1>8

\* A list whose ids are not in the rows m still to come, and of before what it
\* misses is.
Continues(listed, before, m) ==
    /\ listed \in Seq(Ids) /\ before \in SUBSET Ids /\ Distinct(listed)
    /\ \A id \in Ids : Holds(listed, id) => \E x \in Visible \ m : x.id = id
    /\ \A id \in before : Holds(listed, id) \/ \E x \in m : x.id = id

IdsOf(page) == [i \in 1 .. Len(page) |-> page[i].id]

\* What a page adds to a walk.
LEMMA PageStep ==
    ASSUME RowInv, NEW cursor \in Cursors \cup {NoCursor}, NEW listed, NEW before,
           Continues(listed, before, Matching(Visible, cursor))
    PROVE  \E page : \E next \in Cursors \cup {NoCursor} :
              /\ list_transfers(Visible, PageSize, cursor)
                    = [page |-> page, next |-> next]
              /\ Listing(listed \o IdsOf(page), before, next)
<1> DEFINE m == Matching(Visible, cursor)
<1>0. /\ m = Matching(Visible, cursor)
      /\ listed \in Seq(Ids) /\ before \in SUBSET Ids /\ Distinct(listed)
      /\ \A id \in Ids : Holds(listed, id) => \E x \in Visible \ m : x.id = id
      /\ \A id \in before : Holds(listed, id) \/ \E x \in m : x.id = id
  BY Zenon DEF Continues
<1> HIDE DEF m
<1>1. /\ Listable(Visible) /\ \A x \in Visible : x \in Rows /\ x.id \in Ids
      /\ m \in SUBSET Visible
  BY Zenon, <1>0, VisibleRows DEF Matching
<1>2. \A x, y \in Visible : x.id = y.id => x = y
  BY Zenon, <1>1 DEF Listable
<1>a. PICK limit \in Nat : limit = PageSize /\ limit > 0
  BY SMTT(30), RouteBounds
<1>b. PICK page \in Seq(m) : \E next :
        /\ list_transfers(Visible, limit, cursor) = [page |-> page, next |-> next]
        /\ Covers(page, next, m)
  <2>1. \E page \in Seq(Matching(Visible, cursor)) : \E next :
          /\ list_transfers(Visible, limit, cursor) = [page |-> page, next |-> next]
          /\ Covers(page, next, Matching(Visible, cursor))
    BY Zenon, <1>1, <1>a, ListPage
  <2> QED  BY Zenon, <1>0, <2>1
<1>3. PICK next :
        /\ list_transfers(Visible, limit, cursor) = [page |-> page, next |-> next]
        /\ Covers(page, next, m)
  BY Zenon, <1>b
<1>4. PICK n \in Nat : n = Len(page) /\ page \in [1 .. n -> m]
  BY SMTT(30)
<1>5. PICK t : /\ t = [i \in 1 .. Len(page) |-> page[i].id]
               /\ t \in [1 .. n -> Ids] /\ \A i \in 1 .. n : t[i] = page[i].id
  <2>1. \A i \in 1 .. Len(page) : page[i].id \in Ids
    BY Zenon, <1>1, <1>4
  <2>a. [i \in 1 .. Len(page) |-> page[i].id] \in [1 .. Len(page) -> Ids]
    BY Zenon, <2>1
  <2>b. PICK t : t = [i \in 1 .. Len(page) |-> page[i].id]
    OBVIOUS
  <2>2. /\ t \in [1 .. Len(page) -> Ids]
        /\ \A i \in 1 .. Len(page) : t[i] = page[i].id
    BY Zenon, <2>a, <2>b
  <2>3. t \in [1 .. n -> Ids] /\ \A i \in 1 .. n : t[i] = page[i].id
    BY Zenon, <1>4, <2>2
  <2> QED  BY Zenon, <2>b, <2>3
<1>6. t \in Seq(Ids) /\ Len(t) = n
  BY SMTT(30), <1>5
<1>7. ASSUME NEW id  PROVE Holds(t, id) <=> \E i \in 1 .. n : page[i].id = id
  BY Zenon, <1>5, <1>6 DEF Holds
<1>8. Distinct(t)
  <2>1. ASSUME NEW i \in 1 .. n, NEW j \in 1 .. n, t[i] = t[j]  PROVE i = j
    <3>1. page[i] \in Visible /\ page[j] \in Visible /\ page[i].id = page[j].id
      BY Zenon, <1>1, <1>4, <1>5, <2>1
    <3>2. page[i] = page[j]
      BY Zenon, <1>2, <3>1
    <3> QED  BY Zenon, <1>3, <1>4, <3>2 DEF Covers
  <2> QED  BY Zenon, <1>6, <2>1 DEF Distinct
<1>9. ASSUME NEW id \in Ids, Holds(listed, id), Holds(t, id)  PROVE FALSE
  <2>1. PICK x \in Visible \ m : x.id = id
    BY Zenon, <1>0, <1>9
  <2>2. PICK i \in 1 .. n : page[i].id = id
    BY Zenon, <1>7, <1>9
  <2>3. PICK y \in m : y = page[i] /\ y \in Visible
    BY Zenon, <1>1, <1>4
  <2>4. x \in Visible /\ x \notin m /\ x.id = y.id
    BY Zenon, <2>1, <2>2, <2>3
  <2>5. x = y
    BY Zenon, <1>2, <2>3, <2>4
  <2> QED  BY Zenon, <2>4, <2>5
<1>10. PICK all \in Seq(Ids) :
         /\ all = listed \o t /\ Distinct(all)
         /\ \A id \in Ids : Holds(all, id) <=> Holds(listed, id) \/ Holds(t, id)
  <2>1. \A id \in Ids : ~(Holds(listed, id) /\ Holds(t, id))
    BY Zenon, <1>9
  <2>2. /\ listed \o t \in Seq(Ids) /\ Distinct(listed \o t)
        /\ \A id \in Ids :
              Holds(listed \o t, id) <=> Holds(listed, id) \/ Holds(t, id)
    BY Zenon, <1>0, <1>6, <1>8, <2>1, Joined
  <2> QED  BY Zenon, <2>2
<1>11. ASSUME next = NoCursor, \A x \in m : \E i \in 1 .. n : page[i] = x
       PROVE  next \in Cursors \cup {NoCursor} /\ Listing(all, before, next)
  <2>1. ASSUME NEW id \in Ids, Holds(all, id)  PROVE Passed(id, next)
    <3>1. \E x \in Visible : x.id = id
      BY Zenon, <1>0, <1>1, <1>4, <1>7, <1>10, <2>1
    <3> QED  BY Zenon, <1>11, <3>1 DEF Passed
  <2>2. ASSUME NEW id \in before  PROVE Holds(all, id)
    <3>1. CASE Holds(listed, id)
      BY Zenon, <1>0, <1>10, <3>1
    <3>2. ASSUME NEW x \in m, x.id = id  PROVE Holds(all, id)
      <4>1. Holds(t, id)
        BY Zenon, <1>7, <1>11, <3>2
      <4> QED  BY Zenon, <1>0, <1>10, <4>1
    <3> QED  BY Zenon, <1>0, <3>1, <3>2
  <2> QED  BY Zenon, <1>0, <1>10, <1>11, <2>1, <2>2 DEF Listing
<1>12. ASSUME NEW l \in m, next = TransferCursor(l),
              \A i \in 1 .. n : ~Older(page[i], l),
              \A x \in m : Older(x, l) \/ \E i \in 1 .. n : page[i] = x
       PROVE  next \in Cursors \cup {NoCursor} /\ Listing(all, before, next)
  <2>1. l \in Visible /\ l.id \in Ids /\ l.created_at \in 0 .. MaxTime /\ l \in Rows
    BY Zenon, <1>1 DEF Rows
  <2>2. next \in Cursors /\ next.id = l.id /\ next.created_at = l.created_at
    BY Zenon, <1>12, <2>1 DEF TransferCursor, Cursors
  <2>3. next # NoCursor
    <3>1. l.created_at \in Nat /\ l.id \in Nat
      BY Zenon, <2>1, RowFields
    <3>2. next \in [created_at : Nat, id : Nat]
      BY Zenon, <1>12, <3>1 DEF TransferCursor
    <3> QED  BY Zenon, <3>2, QueriesAssumption
  <2>4. ASSUME NEW x  PROVE Older(x, next) <=> Older(x, l)
    BY Zenon, <2>2 DEF Older
  <2>5. ASSUME NEW x \in Visible \ m  PROVE ~Older(x, l)
    <3>1. cursor # NoCursor /\ ~Older(x, cursor) /\ Older(l, cursor)
      BY Zenon, <1>0 DEF Matching
    <3>2. cursor.id \in Nat /\ cursor.created_at \in Nat
      <4>1. cursor.id \in Ids /\ cursor.created_at \in 0 .. MaxTime
        BY Zenon, <3>1 DEF Cursors
      <4>2. 0 .. MaxTime \subseteq Nat
        BY SMTT(30), RouteBounds
      <4> QED  BY Zenon, <4>1, <4>2, IdsType
    <3>3. /\ x.id \in Nat /\ x.created_at \in Nat
          /\ l.id \in Nat /\ l.created_at \in Nat
      BY Zenon, <1>1, <2>1 DEF Listable
    <3>4. Older(x, l) => Older(x, cursor)
      BY SMTT(30), <3>1, <3>2, <3>3 DEF Older
    <3> QED  BY Zenon, <3>1, <3>4
  <2>6. ASSUME NEW id \in Ids, Holds(all, id)  PROVE Passed(id, next)
    <3>1. CASE Holds(listed, id)
      BY Zenon, <1>0, <2>4, <2>5, <3>1 DEF Passed
    <3>2. ASSUME NEW i \in 1 .. n, page[i].id = id  PROVE Passed(id, next)
      <4>1. page[i] \in Visible /\ ~Older(page[i], next)
        BY Zenon, <1>1, <1>4, <1>12, <2>4
      <4> QED  BY Zenon, <3>2, <4>1 DEF Passed
    <3> QED  BY Zenon, <1>7, <1>10, <2>6, <3>1, <3>2
  <2>7. ASSUME NEW id \in before
        PROVE  Holds(all, id) \/ (next # NoCursor /\ Ahead(id, next))
    <3>1. CASE Holds(listed, id)
      BY Zenon, <1>0, <1>10, <3>1
    <3>2. ASSUME NEW x \in m, x.id = id
          PROVE  Holds(all, id) \/ (next # NoCursor /\ Ahead(id, next))
      <4>1. CASE Older(x, l)
        BY Zenon, <1>1, <2>3, <2>4, <3>2, <4>1 DEF Ahead
      <4>2. ASSUME NEW i \in 1 .. n, page[i] = x  PROVE Holds(all, id)
        <5>1. Holds(t, id)
          BY Zenon, <1>7, <3>2, <4>2
        <5> QED  BY Zenon, <1>0, <1>10, <5>1
      <4> QED  BY Zenon, <1>12, <4>1, <4>2
    <3> QED  BY Zenon, <1>0, <3>1, <3>2
  <2> QED  BY Zenon, <1>0, <1>10, <2>2, <2>6, <2>7 DEF Listing
<1>13. next \in Cursors \cup {NoCursor} /\ Listing(all, before, next)
  BY Zenon, <1>3, <1>4, <1>11, <1>12 DEF Covers
<1>14. all = listed \o IdsOf(page)
  BY Zenon, <1>5, <1>10 DEF IdsOf
<1> QED  BY Zenon, <1>a, <1>3, <1>13, <1>14

\* The fields of a walk make up its invariant.
LEMMA WalkSet ==
    ASSUME NEW state \in {"idle", "walking", "end"},
           NEW cursor \in Cursors \cup {NoCursor}, NEW listed, NEW before,
           state = "walking" <=> cursor # NoCursor,
           Listing(listed, before, cursor)',
           walk'.state = state, walk'.cursor = cursor,
           walk'.listed = listed, walk'.before = before
    PROVE  WalkInv'
<1>1. /\ listed \in Seq(Ids) /\ before \in SUBSET Ids /\ Distinct(listed)
      /\ \A id \in Ids : Holds(listed, id) =>
            \E x \in Visible' : x.id = id /\ (cursor # NoCursor => ~Older(x, cursor))
      /\ \A id \in before : Holds(listed, id) \/
            (cursor # NoCursor /\ \E x \in Visible' : x.id = id /\ Older(x, cursor))
  BY Zenon DEF Listing, Passed, Ahead
<1>2. /\ walk'.listed \in Seq(Ids) /\ walk'.before \in SUBSET Ids
      /\ Distinct(walk'.listed)
      /\ \A id \in Ids : Holds(walk'.listed, id) =>
            \E x \in Visible' :
               x.id = id /\ (walk'.cursor # NoCursor => ~Older(x, walk'.cursor))
      /\ \A id \in walk'.before : Holds(walk'.listed, id) \/
            (/\ walk'.cursor # NoCursor
             /\ \E x \in Visible' : x.id = id /\ Older(x, walk'.cursor))
  BY Zenon, <1>1
<1>3. Listing(walk.listed, walk.before, walk.cursor)'
  BY Zenon, <1>2 DEF Listing, Passed, Ahead
<1>4. /\ walk'.state \in {"idle", "walking", "end"}
      /\ walk'.cursor \in Cursors \cup {NoCursor}
      /\ walk'.state = "walking" <=> walk'.cursor # NoCursor
  BY Zenon
<1> QED  BY Zenon, <1>3, <1>4 DEF WalkInv

\* A walk is not disturbed by what is inserted or changes meanwhile.
LEMMA WalkFrame ==
    ASSUME RowInv, RowInv', RowsKept, WalkInv, UNCHANGED walk
    PROVE  WalkInv'
<1>1. PICK state \in {"idle", "walking", "end"}, cursor \in Cursors \cup {NoCursor} :
        state = walk.state /\ cursor = walk.cursor
  BY Zenon DEF WalkInv
<1>2. PICK listed \in Seq(Ids), before \in SUBSET Ids :
        /\ listed = walk.listed /\ before = walk.before
        /\ Listing(listed, before, cursor)
        /\ state = "walking" <=> cursor # NoCursor
  <2>1. /\ Listing(walk.listed, walk.before, walk.cursor)
        /\ walk.state = "walking" <=> walk.cursor # NoCursor
    BY Zenon DEF WalkInv
  <2>2. walk.listed \in Seq(Ids) /\ walk.before \in SUBSET Ids
    BY Zenon, <2>1 DEF Listing
  <2> QED  BY Zenon, <1>1, <2>1, <2>2
<1>3. Listing(listed, before, cursor)'
  BY Zenon, <1>2, ListingKept
<1> QED  BY Zenon, <1>1, <1>2, <1>3, WalkSet

\* A page that continues a walk.
LEMMA WalkOn ==
    ASSUME RowInv, RowInv', RowsKept, NEW cursor \in Cursors \cup {NoCursor},
           NEW listed, NEW before,
           Continues(listed, before, Matching(Visible, cursor)),
           ListFrom(cursor, listed, before)
    PROVE  WalkInv'
<1>1. PICK page : \E next \in Cursors \cup {NoCursor} :
        /\ list_transfers(Visible, PageSize, cursor) = [page |-> page, next |-> next]
        /\ Listing(listed \o IdsOf(page), before, next)
  BY Zenon, PageStep
<1>2. PICK next \in Cursors \cup {NoCursor} :
        /\ list_transfers(Visible, PageSize, cursor) = [page |-> page, next |-> next]
        /\ Listing(listed \o IdsOf(page), before, next)
  BY Zenon, <1>1
<1>3. PICK result : /\ result = list_transfers(Visible, PageSize, cursor)
                    /\ result = [page |-> page, next |-> next]
  BY Zenon, <1>2
<1>4. result.page = page /\ result.next = next
  <2>1. result = [page |-> page, next |-> next]
    BY Zenon, <1>3
  <2> QED  BY Zenon, <2>1
<1>5. walk' = [state  |-> IF result.next = NoCursor THEN "end" ELSE "walking",
               cursor |-> result.next,
               listed |-> listed \o IdsOf(result.page),
               before |-> before]
  BY Zenon, <1>3 DEF ListFrom, IdsOf
<1>6. PICK all : all = listed \o IdsOf(page) /\ Listing(all, before, next)
  BY Zenon, <1>2
<1>7. PICK state \in {"idle", "walking", "end"} :
        /\ state = IF next = NoCursor THEN "end" ELSE "walking"
        /\ state = "walking" <=> next # NoCursor
  BY Zenon
<1>8. /\ walk'.state = state /\ walk'.cursor = next
      /\ walk'.listed = all /\ walk'.before = before
  BY Zenon, <1>4, <1>5, <1>6, <1>7
<1>9. Listing(all, before, next)'
  BY Zenon, <1>6, ListingKept
<1> QED  BY Zenon, <1>7, <1>8, <1>9, WalkSet

\* The list of a walk that has not begun.
LEMMA EmptyList == << >> \in Seq(Ids) /\ Distinct(<< >>) /\ \A id : ~Holds(<< >>, id)
<1>1. << >> \in Seq(Ids) /\ Len(<< >>) = 0 /\ \A i \in 1 .. 0 : FALSE
  BY SMTT(30)
<1> QED  BY Zenon, <1>1 DEF Distinct, Holds

\* The walk has not begun at the start.
LEMMA WalkInit == Init => WalkInv
<1> SUFFICES ASSUME Init PROVE WalkInv
  OBVIOUS
<1>1. walk = [state |-> "idle", cursor |-> NoCursor, listed |-> << >>, before |-> {}]
  BY Zenon DEF Init
<1>2. Listing(<< >>, {}, NoCursor)
  BY Zenon, EmptyList DEF Listing
<1> QED  BY Zenon, <1>1, <1>2 DEF WalkInv

\* Every step keeps the walk complete so far.
LEMMA WalkStep == ClockInv /\ RowInv /\ WalkInv /\ [Next]_vars => WalkInv'
<1> SUFFICES ASSUME ClockInv, RowInv, WalkInv, [Next]_vars  PROVE WalkInv'
  OBVIOUS
<1>1. RowInv' /\ RowsKept
  BY Zenon, RowStep
<1>2. CASE UNCHANGED walk
  BY Zenon, <1>1, <1>2, WalkFrame
<1>3. CASE FirstPage
  <2>1. PICK before : before = {x.id : x \in Visible}
    OBVIOUS
  <2>2. ListFrom(NoCursor, << >>, before)
    BY Zenon, <1>3, <2>1 DEF FirstPage
  <2>3. before \in SUBSET Ids
    BY Zenon, <2>1, VisibleRows
  <2>4. \A id \in before : \E x \in Matching(Visible, NoCursor) : x.id = id
    BY Zenon, <2>1 DEF Matching
  <2>5. NoCursor \in Cursors \cup {NoCursor}
    OBVIOUS
  <2>6. Continues(<< >>, before, Matching(Visible, NoCursor))
    BY Zenon, <2>3, <2>4, EmptyList DEF Continues
  <2> QED  BY Zenon, <1>1, <2>2, <2>5, <2>6, WalkOn
<1>4. CASE NextPage
  <2>1. PICK cursor \in Cursors : cursor = walk.cursor /\ cursor # NoCursor
    BY Zenon, <1>4 DEF NextPage, WalkInv
  <2>2. PICK listed, before :
          /\ listed = walk.listed /\ before = walk.before
          /\ Listing(listed, before, cursor)
    BY Zenon, <2>1 DEF WalkInv
  <2>3. ListFrom(cursor, listed, before)
    BY Zenon, <1>4, <2>1, <2>2 DEF NextPage
  <2>4. /\ listed \in Seq(Ids) /\ before \in SUBSET Ids /\ Distinct(listed)
        /\ \A id \in Ids : Holds(listed, id) => Passed(id, cursor)
        /\ \A id \in before : Holds(listed, id) \/ Ahead(id, cursor)
    BY Zenon, <2>2 DEF Listing
  <2>5. ASSUME NEW id, Passed(id, cursor)
        PROVE  \E x \in Visible \ Matching(Visible, cursor) : x.id = id
    BY Zenon, <2>1, <2>5 DEF Passed, Matching
  <2>6. ASSUME NEW id, Ahead(id, cursor)
        PROVE  \E x \in Matching(Visible, cursor) : x.id = id
    BY Zenon, <2>6 DEF Ahead, Matching
  <2>7. /\ \A id \in Ids : Holds(listed, id) =>
              \E x \in Visible \ Matching(Visible, cursor) : x.id = id
        /\ \A id \in before :
              Holds(listed, id) \/ \E x \in Matching(Visible, cursor) : x.id = id
    BY Zenon, <2>4, <2>5, <2>6
  <2>8. Continues(listed, before, Matching(Visible, cursor))
    BY Zenon, <2>4, <2>7 DEF Continues
  <2> QED  BY Zenon, <1>1, <2>1, <2>3, <2>8, WalkOn
<1>5. ASSUME NEW p \in Posts,
             Post(p) \/ Hit(p) \/ HitFailsOpen(p) \/ Begin(p) \/ Commit(p)
                \/ Rollback(p) \/ Transition(p) \/ ReadTransfer(p) \/ ReadEvents(p)
      PROVE  UNCHANGED walk
  BY Zenon, <1>5 DEF Post, Hit, HitFailsOpen, Begin, Commit, Rollback, Transition,
                     ReadTransfer, ReadEvents
<1>6. ASSUME Tick \/ UNCHANGED vars  PROVE UNCHANGED walk
  BY Zenon, <1>6 DEF Tick, vars
<1> QED  BY Zenon, <1>2, <1>3, <1>4, <1>5, <1>6 DEF Next

\* A walk through the pages lists every transfer that was there when it began,
\* and none twice, for any page size, whatever is inserted between its pages
\* and in whatever order of times and ids (list_transfers).
THEOREM WalkListsAll == Spec => []WalkIsComplete
<1>1. WalkInv => WalkIsComplete
  <2> SUFFICES ASSUME WalkInv PROVE WalkIsComplete
    OBVIOUS
  <2>1. PICK listed : listed = walk.listed
    OBVIOUS
  <2>2. /\ listed \in Seq(Ids) /\ Distinct(listed)
        /\ walk.state = "end" => \A id \in walk.before : Holds(listed, id)
    BY Zenon, <2>1 DEF WalkInv, Listing
  <2>3. DOMAIN listed = 1 .. Len(listed)
    BY SMTT(30), <2>2
  <2>4. IsInjective(listed)
    BY Zenon, <2>2, <2>3 DEF IsInjective, Distinct
  <2>5. ASSUME NEW id, Holds(listed, id)  PROVE id \in Range(listed)
    BY Zenon, <2>3, <2>5 DEF Holds, Range
  <2> QED  BY Zenon, <2>1, <2>2, <2>4, <2>5 DEF WalkIsComplete
<1> QED  BY <1>1, ClockInit, ClockStep, RowInit, RowStep, WalkInit, WalkStep, PTL
         DEF Spec

\* What each variable of the routes holds, for any number of requests.
THEOREM RouteTypes == Spec => []TypeOK
<1>1. ClockInv /\ LimitInv /\ RowInv /\ SeenInv /\ WalkInv => TypeOK
  <2> SUFFICES ASSUME ClockInv, LimitInv, RowInv, SeenInv, WalkInv  PROVE TypeOK
    OBVIOUS
  <2>1. now \in 0 .. MaxTime
    BY SMTT(30), RouteBounds DEF ClockInv
  <2>2. at \in [Posts -> 0 .. MaxTime]
    <3>1. ASSUME NEW p \in Posts  PROVE at[p] \in 0 .. MaxTime
      <4>1. at[p] \in Nat /\ at[p] <= now /\ now \in Nat /\ now <= MaxTime
        BY Zenon DEF ClockInv
      <4> QED  BY SMTT(30), <4>1, RouteBounds
    <3> QED  BY Zenon, <3>1 DEF ClockInv
  <2>3. /\ pc \in [Posts -> Stages] /\ retry_at \in [Posts -> Nat]
    BY Zenon DEF ClockInv
  <2>4. /\ counter \in [Windows -> [count : Nat, expires : Nat]]
        /\ admitted \in [Windows -> Nat]
    BY Zenon DEF LimitInv
  <2>5. /\ row \in [Posts -> Rows]
        /\ \A p, q \in Posts : p # q /\ row[p].id = row[q].id => row[p].id = 0
    BY Zenon DEF RowInv
  <2>6. /\ walk.state \in {"idle", "walking", "end"}
        /\ walk.listed \in Seq(Ids) /\ walk.before \subseteq Ids
        /\ walk.cursor \in [created_at : 0 .. MaxTime, id : Ids] \cup {NoCursor}
    BY Zenon DEF WalkInv, Listing, Cursors
  <2>7. seen \in [of : Posts \cup {"nothing"}, status : 0 .. MaxStatus,
                  events : 0 .. MaxStatus]
    BY Zenon DEF SeenInv
  <2> QED  BY Zenon, <2>1, <2>2, <2>3, <2>4, <2>5, <2>6, <2>7 DEF TypeOK, Stages
<1> QED  BY <1>1, ClockInit, ClockStep, LimitStep, RowInit, RowStep, SeenInit,
            SeenStep, WalkInit, WalkStep, PTL DEF Spec
=============================================================================
