------------------------ MODULE TransferLedgerProofs ------------------------
(***************************************************************************)
(* What needs arithmetic beyond comparisons, for any number of requests,   *)
(* users, programs and reconcilers: every balance is its opening plus what *)
(* the transfers moved, no program gains or loses a point, and an open     *)
(* transfer is never put off for longer than the settings say.             *)
(*                                                                         *)
(* Sums change as the five steps of LedgerStep change one of their terms.  *)
(* The schedule of a row is followed write by write: a step leaves every   *)
(* row but one alone, and that one as its new status needs it (Schedules). *)
(***************************************************************************)
EXTENDS TransferSagaProofs, ArithmeticLemmas

-----------------------------------------------------------------------------
(* Sums of balances *)

\* There are finitely many transfers to sum over.
LEMMA TransfersFinite == IsFiniteSet(Transfers)
<1>1. NumRequests \in Int /\ 1 \in Int
  BY SMTT(30), RequestAssumption
<1> QED  BY Zenon, <1>1, FS_Interval DEF Transfers

\* What a transfer holds in clearing is an amount, before and after a step.
LEMMA HeldType ==
    ASSUME NEW p
    PROVE  /\ HeldIn(p) \in [Transfers -> Int]
           /\ HeldIn(p)' \in [Transfers -> Int]
<1>1. \A t \in Transfers : Request[t].source_points \in Int /\ 0 \in Int
  BY SMTT(30), RequestType
<1> QED  BY Zenon, <1>1 DEF HeldIn

\* How a write changes what its transfer holds and what clearing has.
LEMMA ClearingChange ==
    ASSUME TypeOK, NEW t \in Transfers, Writes(t), NEW p \in Programs
    PROVE  clearing'[p] = clearing[p] + (HeldIn(p)'[t] - HeldIn(p)[t])
<1>t. /\ status \in [Transfers -> Statuses] /\ clearing \in [Programs -> Int]
      /\ clearing[p] \in Int
  BY Zenon DEF TypeOK, StateTypeOK, LedgerTypeOK
<1> DEFINE src == Request[t].source
           amount == Request[t].source_points
           share == IF src = p THEN amount ELSE 0
<1>r. src \in Programs /\ amount \in Int /\ share \in Int
  BY SMTT(30), RequestType
<1>h. /\ status[t] \in OpenStatuses => HeldIn(p)[t] = share
      /\ status[t] \notin OpenStatuses => HeldIn(p)[t] = 0
      /\ status'[t] \in OpenStatuses => HeldIn(p)'[t] = share
      /\ status'[t] \notin OpenStatuses => HeldIn(p)'[t] = 0
  BY Zenon DEF HeldIn
<1>1. CASE Debits(t)
  <2>1. status[t] \notin OpenStatuses /\ status'[t] \in OpenStatuses
    BY Zenon, <1>1, <1>t DEF Debits, OpenStatuses
  <2>2. clearing' = [clearing EXCEPT ![src] = @ + amount]
    BY Zenon, <1>1 DEF Debits, PostDebit
  <2>3. HeldIn(p)[t] = 0 /\ HeldIn(p)'[t] = share
    BY Zenon, <1>h, <2>1
  <2> QED  BY SMTT(30), <1>t, <1>r, <2>2, <2>3
<1>2. CASE MovesOn(t)
  <2>1. /\ status[t] \in OpenStatuses /\ status'[t] \in OpenStatuses
        /\ clearing'[p] = clearing[p]
    BY Zenon, <1>2, <1>t DEF MovesOn, ledger
  <2>2. HeldIn(p)[t] = share /\ HeldIn(p)'[t] = share
    BY Zenon, <1>h, <2>1
  <2> HIDE DEF share
  <2> QED  BY SMTT(30), <1>t, <1>r, <2>1, <2>2
<1>3. CASE Settles(t) \/ Reverses(t)
  <2>1. status[t] \in OpenStatuses /\ status'[t] \notin OpenStatuses
    BY Zenon, <1>3, <1>t, OpenIsOpen DEF Settles, Reverses, OpenStatuses
  <2>2. clearing' = [clearing EXCEPT ![src] = @ - amount]
    BY Zenon, <1>3
    DEF Settles, settle_transfer, Reverses, reverse_transfer, ReleaseClearing
  <2>3. HeldIn(p)[t] = share /\ HeldIn(p)'[t] = 0
    BY Zenon, <1>h, <2>1
  <2> QED  BY SMTT(30), <1>t, <1>r, <2>2, <2>3
<1> QED  BY Zenon, <1>1, <1>2, <1>3 DEF Writes

\* A write changes what its own transfer holds only.
LEMMA HeldFrame ==
    ASSUME TypeOK, NEW t \in Transfers, Writes(t), NEW p,
           NEW u \in Transfers \ {t}
    PROVE  HeldIn(p)'[u] = HeldIn(p)[u]
<1>1. status'[u] = status[u]
  BY Zenon, WriteFrame
<1> QED  BY Zenon, <1>1 DEF HeldIn

\* The clearing accounts hold exactly the points of open transfers: what
\* _debit_source puts there, settle_transfer and reverse_transfer take out
\* again, in full and once.
THEOREM ClearingIsOpenTransfers == Spec => []ClearingHoldsOpenTransfers
<1>1. Init => ClearingHoldsOpenTransfers
  <2> SUFFICES ASSUME Init, NEW p \in Programs
               PROVE  clearing[p] = SumFunction(HeldIn(p))
    BY Zenon DEF ClearingHoldsOpenTransfers
  <2>1. clearing[p] = 0 /\ \A t \in Transfers : status[t] = "NO_ROW"
    BY Zenon DEF Init
  <2>2. \A t \in Transfers : HeldIn(p)[t] = 0
    BY Zenon, <2>1 DEF HeldIn, OpenStatuses
  <2> QED  BY Zenon, <2>1, <2>2, HeldType, TransfersFinite, SumZero
<1>2. ASSUME TypeOK, ClearingHoldsOpenTransfers, [Next]_vars
      PROVE  ClearingHoldsOpenTransfers'
  <2> SUFFICES ASSUME NEW p \in Programs
               PROVE  clearing'[p] = SumFunction(HeldIn(p)')
    BY Zenon DEF ClearingHoldsOpenTransfers
  <2>t. clearing[p] = SumFunction(HeldIn(p))
    BY Zenon, <1>2 DEF ClearingHoldsOpenTransfers
  <2>1. CASE UNCHANGED <<ledger, status>>
    BY Zenon, <2>t, <2>1 DEF ledger, HeldIn
  <2>2. ASSUME NEW t \in Transfers, Writes(t)
        PROVE  clearing'[p] = SumFunction(HeldIn(p)')
    <3> DEFINE f == HeldIn(p)
               g == HeldIn(p)'
    <3>1. f \in [Transfers -> Int] /\ g \in [Transfers -> Int]
      BY Zenon, HeldType
    <3>2. \A u \in Transfers \ {t} : g[u] = f[u]
      BY Zenon, <1>2, <2>2, HeldFrame
    <3>3. clearing'[p] = clearing[p] + (g[t] - f[t])
      BY Zenon, <1>2, <2>2, ClearingChange
    <3> HIDE DEF f, g
    <3>4. SumFunction(g) = SumFunction(f) + (g[t] - f[t])
      BY Zenon, <3>1, <3>2, TransfersFinite, SumChange
    <3> QED  BY Zenon, <2>t, <3>3, <3>4 DEF f, g
  <2> QED  BY Zenon, <1>2, <2>1, <2>2, LedgerStep
<1> QED  BY <1>1, <1>2, TypeCorrect, PTL DEF Spec

\* A settlement moves the settlement accounts of both programs.
LEMMA SettlementAfter ==
    ASSUME TypeOK, NEW t \in Transfers, Settles(t), NEW p \in Programs
    PROVE  settlement'[p] =
             (settlement[p] + Counted(Request[t].source = p, Request[t].source_points))
               - Counted(Request[t].destination = p, Request[t].destination_points)
<1> DEFINE src == Request[t].source
           dst == Request[t].destination
           out == Request[t].source_points
           in  == Request[t].destination_points
           mid == [settlement EXCEPT ![src] = @ + out]
<1>t. /\ settlement \in [Programs -> Int]
      /\ src \in Programs /\ dst \in Programs /\ out \in Int /\ in \in Int
  BY SMTT(30), RequestAssumption DEF TypeOK, LedgerTypeOK
<1>1. settlement' = [mid EXCEPT ![dst] = @ - in]
  BY Zenon DEF Settles, settle_transfer
<1> HIDE DEF src, dst, out, in
<1>2. /\ mid \in [Programs -> Int]
      /\ mid[p] = settlement[p] + Counted(src = p, out)
  BY SMTT(30), <1>t DEF Counted
<1> HIDE DEF mid
<1>3. settlement'[p] = mid[p] - Counted(dst = p, in)
  BY SMTT(30), <1>t, <1>1, <1>2 DEF Counted
<1> QED  BY Zenon, <1>2, <1>3 DEF src, dst, out, in

\* What a transfer has moved is an amount, before and after a step.
LEMMA MovesType ==
    ASSUME NEW a
    PROVE  /\ SettlementMoves(a) \in [Transfers -> Int]
           /\ SettlementMoves(a)' \in [Transfers -> Int]
           /\ UserMoves(a) \in [Transfers -> Int]
           /\ UserMoves(a)' \in [Transfers -> Int]
<1>1. \A t \in Transfers : /\ Request[t].source_points \in Int
                           /\ Request[t].destination_points \in Int
  BY SMTT(30), RequestAssumption
<1>2. ASSUME NEW m \in Int, NEW n \in Int, NEW c, NEW d
      PROVE  Counted(c, m) - Counted(d, n) \in Int
  BY SMTT(30) DEF Counted
<1> QED  BY Zenon, <1>1, <1>2 DEF SettlementMoves, UserMoves

\* A write changes what its own transfer has moved only.
LEMMA MovesFrame ==
    ASSUME TypeOK, NEW t \in Transfers, Writes(t), NEW a,
           NEW u \in Transfers \ {t}
    PROVE  /\ SettlementMoves(a)'[u] = SettlementMoves(a)[u]
           /\ UserMoves(a)'[u] = UserMoves(a)[u]
<1>1. status'[u] = status[u]
  BY Zenon, WriteFrame
<1> QED  BY Zenon, <1>1 DEF SettlementMoves, UserMoves

\* The points of a transfer, if they leave or reach the account.
Out(t, a)  == Counted(SourceAccount(t) = a, Request[t].source_points)
In(t, a)   == Counted(DestinationAccount(t) = a, Request[t].destination_points)
From(t, p) == Counted(Request[t].source = p, Request[t].source_points)
To(t, p)   == Counted(Request[t].destination = p, Request[t].destination_points)

\* What a transfer with status s has moved.
SettledBy(s, t, p) ==
    Counted(s = "COMPLETED" /\ Request[t].source = p, Request[t].source_points)
    - Counted(s = "COMPLETED" /\ Request[t].destination = p,
              Request[t].destination_points)
MovedBy(s, t, a) ==
    Counted(s = "COMPLETED" /\ DestinationAccount(t) = a,
            Request[t].destination_points)
    - Counted(s \in OpenStatuses \cup {"COMPLETED"} /\ SourceAccount(t) = a,
              Request[t].source_points)

\* The entries of the two functions are told by the statuses.
LEMMA MovesAt ==
    ASSUME NEW t \in Transfers, NEW a
    PROVE  /\ SettlementMoves(a)[t] = SettledBy(status[t], t, a)
           /\ SettlementMoves(a)'[t] = SettledBy(status'[t], t, a)
           /\ UserMoves(a)[t] = MovedBy(status[t], t, a)
           /\ UserMoves(a)'[t] = MovedBy(status'[t], t, a)
  BY Zenon DEF SettlementMoves, UserMoves, SettledBy, MovedBy

\* They depend on the status as the journals do.
LEMMA MovesByStatus ==
    ASSUME NEW t \in Transfers, NEW a, NEW s
    PROVE  /\ s # "COMPLETED" => SettledBy(s, t, a) = 0
           /\ s = "COMPLETED" => SettledBy(s, t, a) = From(t, a) - To(t, a)
           /\ s \in {"NO_ROW", "REVERSED"} => MovedBy(s, t, a) = 0
           /\ s \in OpenStatuses => MovedBy(s, t, a) = 0 - Out(t, a)
           /\ s = "COMPLETED" => MovedBy(s, t, a) = In(t, a) - Out(t, a)
<1>1. 0 - 0 = 0
  BY SMTT(30)
<1> QED  BY Zenon, <1>1
         DEF SettledBy, MovedBy, Counted, From, To, In, Out, OpenStatuses

\* A settlement account changes by what the transfer has moved.
LEMMA SettlementChange ==
    ASSUME TypeOK, NEW t \in Transfers, Writes(t), NEW p \in Programs
    PROVE  settlement'[p] =
             settlement[p] + (SettlementMoves(p)'[t] - SettlementMoves(p)[t])
<1>t. status \in [Transfers -> Statuses] /\ settlement[p] \in Int
  BY Zenon DEF TypeOK, StateTypeOK, LedgerTypeOK
<1>r. From(t, p) \in Int /\ To(t, p) \in Int
  BY SMTT(30), RequestAssumption DEF From, To, Counted
<1>m. /\ SettlementMoves(p)[t] = SettledBy(status[t], t, p)
      /\ SettlementMoves(p)'[t] = SettledBy(status'[t], t, p)
  BY Zenon, MovesAt
<1>s. ASSUME NEW s
      PROVE  /\ s # "COMPLETED" => SettledBy(s, t, p) = 0
             /\ s = "COMPLETED" => SettledBy(s, t, p) = From(t, p) - To(t, p)
  BY Zenon, MovesByStatus
<1>1. CASE Settles(t)
  <2>1. status[t] # "COMPLETED" /\ status'[t] = "COMPLETED"
    BY Zenon, <1>1, <1>t DEF Settles, VERIFIABLE
  <2>2. /\ SettlementMoves(p)[t] = 0
        /\ SettlementMoves(p)'[t] = From(t, p) - To(t, p)
    BY Zenon, <1>m, <1>s, <2>1
  <2>3. settlement'[p] = (settlement[p] + From(t, p)) - To(t, p)
    BY Zenon, <1>1, SettlementAfter DEF From, To
  <2> QED  BY SMTT(30), <1>t, <1>r, <2>2, <2>3
<1>2. CASE ~Settles(t)
  <2>1. /\ status[t] # "COMPLETED" /\ status'[t] # "COMPLETED"
        /\ settlement' = settlement
    BY Zenon, <1>2, <1>t, OpenIsOpen
    DEF Writes, Debits, PostDebit, MovesOn, Reverses, reverse_transfer,
        OpenStatuses, ledger
  <2>2. SettlementMoves(p)[t] = 0 /\ SettlementMoves(p)'[t] = 0
    BY Zenon, <1>m, <1>s, <2>1
  <2> QED  BY SMTT(30), <1>t, <2>1, <2>2
<1> QED  BY Zenon, <1>1, <1>2

\* A user's account changes by what the transfer has moved.
LEMMA UserChange ==
    ASSUME TypeOK, NEW t \in Transfers, Writes(t), NEW a \in Users \X Programs
    PROVE  user_balance'[a] =
             user_balance[a] + (UserMoves(a)'[t] - UserMoves(a)[t])
<1>t. /\ status \in [Transfers -> Statuses]
      /\ user_balance \in [Users \X Programs -> Int] /\ user_balance[a] \in Int
  BY Zenon DEF TypeOK, StateTypeOK, LedgerTypeOK
<1>p. Request[t].source_points \in Int /\ Request[t].destination_points \in Int
  BY SMTT(30), RequestAssumption
<1>r. Out(t, a) \in Int /\ In(t, a) \in Int
  BY SMTT(30), <1>p DEF Out, In, Counted
<1>m. /\ UserMoves(a)[t] = MovedBy(status[t], t, a)
      /\ UserMoves(a)'[t] = MovedBy(status'[t], t, a)
  BY Zenon, MovesAt
<1>s. ASSUME NEW s
      PROVE  /\ s \in {"NO_ROW", "REVERSED"} => MovedBy(s, t, a) = 0
             /\ s \in OpenStatuses => MovedBy(s, t, a) = 0 - Out(t, a)
             /\ s = "COMPLETED" => MovedBy(s, t, a) = In(t, a) - Out(t, a)
  BY Zenon, MovesByStatus
<1>n. /\ status[t] = "NO_ROW" => UserMoves(a)[t] = 0
      /\ status[t] \in OpenStatuses => UserMoves(a)[t] = 0 - Out(t, a)
      /\ status'[t] \in OpenStatuses => UserMoves(a)'[t] = 0 - Out(t, a)
      /\ status'[t] = "REVERSED" => UserMoves(a)'[t] = 0
      /\ status'[t] = "COMPLETED" => UserMoves(a)'[t] = In(t, a) - Out(t, a)
  BY Zenon, <1>m, <1>s
<1>1. CASE Debits(t)
  <2>1. /\ status[t] = "NO_ROW" /\ status'[t] \in OpenStatuses
        /\ user_balance' = [user_balance EXCEPT ![SourceAccount(t)] =
                              @ - Request[t].source_points]
    BY Zenon, <1>1, <1>t DEF Debits, PostDebit, OpenStatuses
  <2>2. user_balance'[a] = user_balance[a] - Out(t, a)
    BY SMTT(30), <1>t, <1>p, <2>1 DEF Out, Counted
  <2>3. UserMoves(a)[t] = 0 /\ UserMoves(a)'[t] = 0 - Out(t, a)
    BY Zenon, <1>n, <2>1
  <2> QED  BY SMTT(30), <1>t, <1>r, <2>2, <2>3
<1>2. CASE MovesOn(t)
  <2>1. /\ status[t] \in OpenStatuses /\ status'[t] \in OpenStatuses
        /\ user_balance'[a] = user_balance[a]
    BY Zenon, <1>2, <1>t DEF MovesOn, ledger
  <2>2. UserMoves(a)[t] = 0 - Out(t, a) /\ UserMoves(a)'[t] = 0 - Out(t, a)
    BY Zenon, <1>n, <2>1
  <2> QED  BY SMTT(30), <1>t, <1>r, <2>1, <2>2
<1>3. CASE Settles(t)
  <2>1. /\ status[t] \in OpenStatuses /\ status'[t] = "COMPLETED"
        /\ user_balance' = [user_balance EXCEPT ![DestinationAccount(t)] =
                              @ + Request[t].destination_points]
    BY Zenon, <1>3, <1>t, OpenIsOpen DEF Settles, settle_transfer
  <2>2. user_balance'[a] = user_balance[a] + In(t, a)
    BY SMTT(30), <1>t, <1>p, <2>1 DEF In, Counted
  <2>3. UserMoves(a)[t] = 0 - Out(t, a) /\ UserMoves(a)'[t] = In(t, a) - Out(t, a)
    BY Zenon, <1>n, <2>1
  <2> QED  BY SMTT(30), <1>t, <1>r, <2>2, <2>3
<1>4. CASE Reverses(t)
  <2>1. /\ status[t] \in OpenStatuses /\ status'[t] = "REVERSED"
        /\ user_balance' = [user_balance EXCEPT ![SourceAccount(t)] =
                              @ + Request[t].source_points]
    BY Zenon, <1>4, <1>t, OpenIsOpen DEF Reverses, reverse_transfer
  <2>2. user_balance'[a] = user_balance[a] + Out(t, a)
    BY SMTT(30), <1>t, <1>p, <2>1 DEF Out, Counted
  <2>3. UserMoves(a)[t] = 0 - Out(t, a) /\ UserMoves(a)'[t] = 0
    BY Zenon, <1>n, <2>1
  <2> QED  BY SMTT(30), <1>t, <1>r, <2>2, <2>3
<1> QED  BY Zenon, <1>1, <1>2, <1>3, <1>4 DEF Writes

\* A balance that changes with one transfer of a sum stays the opening balance
\* plus the sum.
LEMMA SumFollows ==
    ASSUME NEW f \in [Transfers -> Int], NEW g \in [Transfers -> Int],
           NEW t \in Transfers, \A u \in Transfers \ {t} : g[u] = f[u],
           NEW opening \in Int
    PROVE  (opening + SumFunction(f)) + (g[t] - f[t]) = opening + SumFunction(g)
<1>1. /\ SumFunction(g) = SumFunction(f) + (g[t] - f[t])
      /\ SumFunction(f) \in Int /\ g[t] \in Int /\ f[t] \in Int
  BY Zenon, TransfersFinite, SumChange, SumType
<1> QED  BY SMTT(30), <1>1

\* Every balance can be told from the transfers, however they were resolved:
\* no posting of _debit_source, settle_transfer or reverse_transfer is lost,
\* made twice or made for a status that does not stand for it.
THEOREM BalancesTellTransfers == Spec => []BalancesMatchTransfers
<1> DEFINE Others ==
             /\ \A p \in Programs :
                  settlement[p] = OpeningSettlement[p] + SumFunction(SettlementMoves(p))
             /\ \A a \in Users \X Programs :
                  user_balance[a] = OpeningBalance[a] + SumFunction(UserMoves(a))
<1>o. /\ \A p \in Programs : OpeningSettlement[p] \in Int
      /\ \A a \in Users \X Programs : OpeningBalance[a] \in Int
  BY SMTT(30), RequestAssumption
<1>1. ASSUME Init PROVE Others
  <2>1. \A t \in Transfers : status[t] = "NO_ROW"
    BY Zenon, <1>1 DEF Init
  <2>2. ASSUME NEW a, NEW t \in Transfers
        PROVE  SettlementMoves(a)[t] = 0 /\ UserMoves(a)[t] = 0
    <3>1. SettledBy("NO_ROW", t, a) = 0 /\ MovedBy("NO_ROW", t, a) = 0
      BY Zenon, MovesByStatus
    <3>2. /\ SettlementMoves(a)[t] = SettledBy(status[t], t, a)
          /\ UserMoves(a)[t] = MovedBy(status[t], t, a)
      BY Zenon, MovesAt
    <3> QED  BY Zenon, <2>1, <3>1, <3>2
  <2>3. \A a : SumFunction(SettlementMoves(a)) = 0 /\ SumFunction(UserMoves(a)) = 0
    BY Zenon, <2>2, MovesType, TransfersFinite, SumZero
  <2>4. /\ \A p \in Programs : settlement[p] = OpeningSettlement[p]
        /\ \A a \in Users \X Programs : user_balance[a] = OpeningBalance[a]
    BY Zenon, <1>1 DEF Init
  <2>5. \A n \in Int : n = n + 0
    BY SMTT(30)
  <2> QED  BY Zenon, <1>o, <2>3, <2>4, <2>5
<1>2. ASSUME TypeOK, Others, [Next]_vars PROVE Others'
  <2>1. CASE UNCHANGED <<ledger, status>>
    BY Zenon, <1>2, <2>1 DEF ledger, SettlementMoves, UserMoves
  <2>2. ASSUME NEW t \in Transfers, Writes(t), NEW p \in Programs
        PROVE  settlement'[p] = OpeningSettlement[p] + SumFunction(SettlementMoves(p)')
    <3> DEFINE f == SettlementMoves(p)
               g == SettlementMoves(p)'
    <3>1. f \in [Transfers -> Int] /\ g \in [Transfers -> Int]
      BY Zenon, MovesType
    <3>2. \A u \in Transfers \ {t} : g[u] = f[u]
      BY Zenon, <1>2, <2>2, MovesFrame
    <3>3. settlement'[p] = settlement[p] + (g[t] - f[t])
      BY Zenon, <1>2, <2>2, SettlementChange
    <3>4. settlement[p] = OpeningSettlement[p] + SumFunction(f)
      BY Zenon, <1>2
    <3> HIDE DEF f, g
    <3>5. (OpeningSettlement[p] + SumFunction(f)) + (g[t] - f[t])
            = OpeningSettlement[p] + SumFunction(g)
      BY Zenon, <1>o, <3>1, <3>2, SumFollows
    <3>6. settlement'[p] = OpeningSettlement[p] + SumFunction(g)
      BY Zenon, <3>3, <3>4, <3>5
    <3> QED  BY Zenon, <3>6 DEF g
  <2>3. ASSUME NEW t \in Transfers, Writes(t), NEW a \in Users \X Programs
        PROVE  user_balance'[a] = OpeningBalance[a] + SumFunction(UserMoves(a)')
    <3> DEFINE f == UserMoves(a)
               g == UserMoves(a)'
    <3>1. f \in [Transfers -> Int] /\ g \in [Transfers -> Int]
      BY Zenon, MovesType
    <3>2. \A u \in Transfers \ {t} : g[u] = f[u]
      BY Zenon, <1>2, <2>3, MovesFrame
    <3>3. user_balance'[a] = user_balance[a] + (g[t] - f[t])
      BY Zenon, <1>2, <2>3, UserChange
    <3>4. user_balance[a] = OpeningBalance[a] + SumFunction(f)
      BY Zenon, <1>2
    <3> HIDE DEF f, g
    <3>5. (OpeningBalance[a] + SumFunction(f)) + (g[t] - f[t])
            = OpeningBalance[a] + SumFunction(g)
      BY Zenon, <1>o, <3>1, <3>2, SumFollows
    <3>6. user_balance'[a] = OpeningBalance[a] + SumFunction(g)
      BY Zenon, <3>3, <3>4, <3>5
    <3> QED  BY Zenon, <3>6 DEF g
  <2> QED  BY Zenon, <1>2, <2>1, <2>2, <2>3, LedgerStep
<1>3. ClearingHoldsOpenTransfers /\ Others => BalancesMatchTransfers
  BY Zenon DEF BalancesMatchTransfers
<1> HIDE DEF Others
<1> QED  BY <1>1, <1>2, <1>3, ClearingIsOpenTransfers, TypeCorrect, PTL DEF Spec

\* The balances of a program are numbers.
LEMMA BalancesType ==
    ASSUME user_balance \in [Users \X Programs -> Int], NEW p \in Programs
    PROVE  UserBalances(p) \in [Users -> Int]
  BY Zenon DEF UserBalances

Adds(u, q, d) == user_balance' = [user_balance EXCEPT ![<<u, q>>] = @ + d]

\* One account changes: the sum of its program changes by as much, that of
\* the other programs does not change.
LEMMA BalanceChange ==
    ASSUME user_balance \in [Users \X Programs -> Int],
           NEW u \in Users, NEW q \in Programs, NEW d \in Int, Adds(u, q, d),
           NEW p \in Programs
    PROVE  SumFunction(UserBalances(p)') =
             SumFunction(UserBalances(p)) + (IF p = q THEN d ELSE 0)
<1> DEFINE f == UserBalances(p)
           g == UserBalances(p)'
<1>0. user_balance' = [user_balance EXCEPT ![<<u, q>>] = @ + d]
  BY Zenon DEF Adds
<1>1. user_balance' \in [Users \X Programs -> Int]
  BY SMTT(30), <1>0
<1>2. f \in [Users -> Int] /\ g \in [Users -> Int]
  BY Zenon, <1>1 DEF UserBalances
<1>3. \A v \in Users : f[v] = user_balance[<<v, p>>]
                       /\ g[v] = user_balance'[<<v, p>>]
  BY Zenon DEF UserBalances
<1>4. \A v \in Users \ {u} : g[v] = f[v]
  <2>1. \A v \in Users \ {u} : user_balance'[<<v, p>>] = user_balance[<<v, p>>]
    BY SMTT(30), <1>0
  <2> QED  BY Zenon, <1>3, <2>1
<1>5. g[u] - f[u] = IF p = q THEN d ELSE 0
  <2>1. user_balance'[<<u, p>>] - user_balance[<<u, p>>] =
          IF p = q THEN d ELSE 0
    BY SMTT(30), <1>0
  <2> QED  BY Zenon, <1>3, <2>1
<1> HIDE DEF f, g
<1>6. SumFunction(g) = SumFunction(f) + (g[u] - f[u])
  BY Zenon, <1>2, <1>4, SeedAssumption, SumChange
<1>7. SumFunction(g) = SumFunction(f) + (IF p = q THEN d ELSE 0)
  BY Zenon, <1>5, <1>6
<1> QED  BY Zenon, <1>7 DEF f, g

ProgramSum(p) == clearing[p] + settlement[p] + SumFunction(UserBalances(p))

\* No write changes the sum of a program's accounts.
LEMMA ProgramSumKept ==
    ASSUME TypeOK, NEW t \in Transfers, Writes(t), NEW p \in Programs
    PROVE  ProgramSum(p)' = ProgramSum(p)
<1>t. /\ user_balance \in [Users \X Programs -> Int]
      /\ clearing \in [Programs -> Int] /\ settlement \in [Programs -> Int]
  BY Zenon DEF TypeOK, LedgerTypeOK
<1> DEFINE u == Request[t].user
           src == Request[t].source
           dst == Request[t].destination
           out == Request[t].source_points
           in  == Request[t].destination_points
           sum == SumFunction(UserBalances(p))
           after == SumFunction(UserBalances(p)')
<1>r. /\ u \in Users /\ src \in Programs /\ dst \in Programs
      /\ out \in Int /\ in \in Int /\ -out \in Int
  BY SMTT(30), RequestAssumption
<1>s. sum \in Int
  BY Zenon, <1>t, BalancesType, SeedAssumption, SumType
<1>a. SourceAccount(t) = <<u, src>> /\ DestinationAccount(t) = <<u, dst>>
  BY Zenon DEF SourceAccount, DestinationAccount
<1> HIDE DEF u, src, dst, out, in, sum, after
<1>1. CASE Debits(t)
  <2>1. /\ user_balance' = [user_balance EXCEPT ![<<u, src>>] = @ - out]
        /\ clearing' = [clearing EXCEPT ![src] = @ + out]
        /\ settlement' = settlement
    BY Zenon, <1>1, <1>a DEF Debits, PostDebit, src, out
  <2>2. Adds(u, src, -out)
    <3>1. user_balance[<<u, src>>] \in Int
      BY Zenon, <1>t, <1>r
    <3>2. user_balance[<<u, src>>] - out = user_balance[<<u, src>>] + (-out)
      BY SMTT(30), <1>r, <3>1
    <3> QED  BY Zenon, <2>1, <3>2 DEF Adds
  <2>3. after = sum + (IF p = src THEN -out ELSE 0)
    BY Zenon, <1>t, <1>r, <2>2, BalanceChange DEF after, sum
  <2>4. clearing'[p] + settlement'[p] + after
          = clearing[p] + settlement[p] + sum
    BY SMTT(30), <1>t, <1>r, <1>s, <2>1, <2>3
  <2> QED  BY Zenon, <2>4 DEF ProgramSum, sum, after
<1>2. CASE MovesOn(t)
  BY Zenon, <1>2 DEF MovesOn, ledger, ProgramSum, UserBalances
<1>3. CASE Settles(t)
  <2>1. /\ Adds(u, dst, in)
        /\ clearing' = [clearing EXCEPT ![src] = @ - out]
        /\ settlement' = [[settlement EXCEPT ![src] = @ + out]
                            EXCEPT ![dst] = @ - in]
    BY Zenon, <1>3, <1>a
    DEF Settles, settle_transfer, ReleaseClearing, Adds, src, dst, out, in
  <2>2. after = sum + (IF p = dst THEN in ELSE 0)
    BY Zenon, <1>t, <1>r, <2>1, BalanceChange DEF after, sum
  <2>3. clearing'[p] = clearing[p] - (IF p = src THEN out ELSE 0)
    BY SMTT(30), <1>t, <1>r, <2>1
  <2>4. settlement'[p] = (settlement[p] + (IF p = src THEN out ELSE 0))
                           - (IF p = dst THEN in ELSE 0)
    BY Zenon, <1>3, SettlementAfter DEF Counted, src, dst, out, in
  <2>5. clearing'[p] + settlement'[p] + after
          = clearing[p] + settlement[p] + sum
    BY SMTT(30), <1>t, <1>r, <1>s, <2>2, <2>3, <2>4
  <2> QED  BY Zenon, <2>5 DEF ProgramSum, sum, after
<1>4. CASE Reverses(t)
  <2>1. /\ Adds(u, src, out)
        /\ clearing' = [clearing EXCEPT ![src] = @ - out]
        /\ settlement' = settlement
    BY Zenon, <1>4, <1>a
    DEF Reverses, reverse_transfer, ReleaseClearing, Adds, src, out
  <2>2. after = sum + (IF p = src THEN out ELSE 0)
    BY Zenon, <1>t, <1>r, <2>1, BalanceChange DEF after, sum
  <2>3. clearing'[p] + settlement'[p] + after
          = clearing[p] + settlement[p] + sum
    BY SMTT(30), <1>t, <1>r, <1>s, <2>1, <2>2
  <2> QED  BY Zenon, <2>3 DEF ProgramSum, sum, after
<1> QED  BY Zenon, <1>1, <1>2, <1>3, <1>4 DEF Writes

\* program_balances_sum_to_zero: whatever is debited, settled or reversed,
\* and with whatever conversion, no program gains or loses a point.
THEOREM PointsAreConserved == Spec => []ProgramBalancesSumToZero
<1>1. Init => ProgramBalancesSumToZero
  <2> SUFFICES ASSUME Init, NEW p \in Programs PROVE ProgramSum(p) = 0
    BY Zenon DEF ProgramBalancesSumToZero, ProgramSum
  <2>1. /\ clearing[p] = 0 /\ settlement[p] = OpeningSettlement[p]
        /\ UserBalances(p) = [u \in Users |-> OpeningBalance[<<u, p>>]]
    BY Zenon DEF Init, UserBalances
  <2>2. OpeningSettlement[p] + SumFunction(UserBalances(p)) = 0
    BY Zenon, <2>1, SeedAssumption
  <2>3. OpeningSettlement[p] \in Int
    BY Zenon, RequestAssumption
  <2> QED  BY SMTT(30), <2>1, <2>2, <2>3 DEF ProgramSum
<1>2. ASSUME TypeOK, ProgramBalancesSumToZero, [Next]_vars
      PROVE  ProgramBalancesSumToZero'
  <2> SUFFICES ASSUME NEW p \in Programs PROVE ProgramSum(p)' = 0
    BY Zenon DEF ProgramBalancesSumToZero, ProgramSum
  <2>t. ProgramSum(p) = 0
    BY Zenon, <1>2 DEF ProgramBalancesSumToZero, ProgramSum
  <2>1. CASE UNCHANGED <<ledger, status>>
    BY Zenon, <2>t, <2>1 DEF ledger, ProgramSum, UserBalances
  <2>2. ASSUME NEW t \in Transfers, Writes(t) PROVE ProgramSum(p)' = 0
    BY Zenon, <1>2, <2>t, <2>2, ProgramSumKept
  <2> QED  BY Zenon, <1>2, <2>1, <2>2, LedgerStep
<1> QED  BY <1>1, <1>2, TypeCorrect, PTL DEF Spec

-----------------------------------------------------------------------------
(* Scheduling *)

\* A time that is at most one of the settings' waits away.
Soon(time, moment) == \E wait \in Waits : time <= moment + wait

\* The statuses that claim_due may still select.
Checked == STUCK \cup {"PENDING_VERIFICATION"}

\* ScheduleFitsStatus for one row; the time that the next check is computed
\* from is a time or NULL.
ScheduledRow(t) ==
    /\ created_at[t] >= NoTime /\ created_at[t] <= now
    /\ status[t] = "PENDING_VERIFICATION" => next_verification_at[t] >= 0
    /\ status[t] \notin Checked => next_verification_at[t] = NoTime
    /\ Soon(next_verification_at[t], now)

\* A reconciler has read the clock, or not yet.
ReadClock(w) == task[w].since >= NoTime /\ task[w].since <= now

ScheduleInv ==
    /\ \A t \in Transfers : ScheduledRow(t)
    /\ \A w \in Workers : ReadClock(w)

\* The waits are positive.
LEMMA WaitsType == Waits \subseteq Nat \ {0}
  BY SMTT(30), SettingsAssumption DEF Waits

\* A check scheduled with one of the waits is at a time, and soon.
LEMMA AtSoon ==
    ASSUME NEW time \in Nat, NEW moment \in Int, NEW present \in Nat,
           moment <= present, NEW wait \in Waits, time <= moment + wait
    PROVE  At(time) >= 0 /\ Soon(At(time), present)
<1>1. wait \in Nat
  BY Zenon, WaitsType
<1>2. At(time) >= 0 /\ At(time) <= present + wait
  BY SMTT(30), <1>1, EnvironmentAssumption DEF At
<1> QED  BY Zenon, <1>2 DEF Soon

\* NULL comes before every time, and a time that is soon stays so.
LEMMA SoonFacts ==
    ASSUME NEW present \in Nat
    PROVE  /\ Soon(NoTime, present) /\ NoTime >= NoTime /\ NoTime <= present
           /\ \A time \in Int : Soon(time, present) => Soon(time, present + 1)
<1>1. Lease \in Waits /\ Lease \in Nat
  BY Zenon, WaitsType DEF Waits
<1>2. NoTime <= present + Lease
  BY SMTT(30), <1>1 DEF NoTime
<1>3. NoTime >= NoTime /\ NoTime <= present
  BY SMTT(30) DEF NoTime
<1>4. ASSUME NEW time \in Int, NEW wait \in Waits, time <= present + wait
      PROVE  time <= (present + 1) + wait
  <2>1. wait \in Nat
    BY Zenon, WaitsType
  <2> QED  BY SMTT(30), <1>4, <2>1
<1> QED  BY Zenon, <1>1, <1>2, <1>3, <1>4 DEF Soon

\* ReconciliationPolicy.backoff always waits, and not beyond its maximum.
LEMMA BackoffWaits ==
    ASSUME NEW n \in Nat \ {0}
    PROVE  Backoff(n) \in Nat \ {0} /\ Backoff(n) <= BackoffMax
<1>1. BackoffMax \in Nat \ {0} /\ BackoffBase \in Nat \ {0}
  BY Zenon, SettingsAssumption
<1>2. n - 1 \in Nat
  BY SMTT(30)
<1>3. 2^(n - 1) \in Nat \ {0}
  BY Zenon, <1>2, PowerOfTwo
<1>4. ASSUME NEW k \in Nat \ {0}  PROVE BackoffBase * k \in Nat \ {0}
  BY SMTT(30), <1>1
<1>5. BackoffBase * 2^(n - 1) \in Nat \ {0}
  BY Zenon, <1>3, <1>4
<1>6. ASSUME NEW k \in Nat \ {0}
      PROVE  Smaller(BackoffMax, k) \in Nat \ {0} /\ Smaller(BackoffMax, k) <= BackoffMax
  BY SMTT(30), <1>1 DEF Smaller
<1> QED  BY Zenon, <1>5, <1>6 DEF Backoff

\* A step writes at most the row of t, and leaves it scheduled.
Schedules(t) ==
    /\ \A u \in Transfers \ {t} :
         /\ status'[u] = status[u] /\ created_at'[u] = created_at[u]
         /\ next_verification_at'[u] = next_verification_at[u]
    /\ ScheduledRow(t)'
    /\ now' = now

\* A write of the status and of the time of the next check.
LEMMA RowSchedules ==
    ASSUME TypeOK, NEW t \in Transfers, ScheduledRow(t), NEW s, NEW time,
           status' = [status EXCEPT ![t] = s], UNCHANGED <<created_at, now>>,
           next_verification_at' = [next_verification_at EXCEPT ![t] = time],
           \/ s \notin Checked /\ time = NoTime
           \/ s \in Checked /\ time >= 0 /\ Soon(time, now)
    PROVE  Schedules(t)
<1>t. /\ status \in [Transfers -> Statuses]
      /\ next_verification_at \in [Transfers -> Int] /\ now \in Nat
      /\ created_at[t] >= NoTime /\ created_at[t] <= now
  BY Zenon DEF TypeOK, StateTypeOK, RowTypeOK, ScheduledRow
<1>1. /\ status'[t] = s /\ next_verification_at'[t] = time
      /\ created_at' = created_at /\ now' = now
  BY Zenon, <1>t
<1>2. Soon(time, now) /\ ("PENDING_VERIFICATION" \notin Checked => FALSE)
  BY Zenon, <1>t, SoonFacts DEF Checked
<1>3. ScheduledRow(t)'
  BY Zenon, <1>t, <1>1, <1>2 DEF ScheduledRow
<1> QED  BY Zenon, <1>t, <1>1, <1>3 DEF Schedules

\* A resolution, or a hold, leaves a scheduled row.
LEMMA ResolutionSchedules ==
    ASSUME TypeOK, NEW t \in Transfers, ScheduledRow(t), UNCHANGED now,
           \/ settle_transfer(t)
           \/ \E code \in FailureCodes : reverse_transfer(t, code)
           \/ HoldForVerification(t)
    PROVE  Schedules(t)
<1>t. StateTypeOK /\ now \in Nat
  BY Zenon DEF TypeOK
<1>c. /\ "COMPLETED" \notin Checked /\ "REVERSED" \notin Checked
      /\ "PENDING_VERIFICATION" \in Checked
  BY Zenon DEF Checked, STUCK
<1>1. CASE settle_transfer(t)
  <2>1. /\ status' = [status EXCEPT ![t] = "COMPLETED"] /\ UNCHANGED created_at
        /\ next_verification_at' = [next_verification_at EXCEPT ![t] = NoTime]
    BY Zenon, <1>1, <1>t, SettleMove DEF settle_transfer
  <2> QED  BY Zenon, <1>c, <2>1, RowSchedules
<1>2. ASSUME NEW code \in FailureCodes, reverse_transfer(t, code)
      PROVE  Schedules(t)
  <2>1. /\ status' = [status EXCEPT ![t] = "REVERSED"] /\ UNCHANGED created_at
        /\ next_verification_at' = [next_verification_at EXCEPT ![t] = NoTime]
    BY Zenon, <1>2, <1>t, ReverseMove DEF reverse_transfer
  <2> QED  BY Zenon, <1>c, <2>1, RowSchedules
<1>3. CASE HoldForVerification(t)
  <2> DEFINE time == At(now + VerificationDelay)
  <2>1. /\ now + VerificationDelay \in Nat /\ now \in Int /\ now <= now
        /\ now + VerificationDelay <= now + VerificationDelay
    BY SMTT(30), <1>t, SettingsAssumption
  <2>2. time >= 0 /\ Soon(time, now)
    BY Zenon, <1>t, <2>1, AtSoon DEF Waits
  <2>3. "PENDING_VERIFICATION" \in Statuses
    BY Zenon DEF Statuses
  <2>4. /\ status' = [status EXCEPT ![t] = "PENDING_VERIFICATION"]
        /\ UNCHANGED created_at
        /\ next_verification_at' = [next_verification_at EXCEPT ![t] = time]
    BY Zenon, <1>3, <2>3, SingleMove DEF HoldForVerification
  <2> HIDE DEF time
  <2> QED  BY Zenon, <1>c, <2>2, <2>4, RowSchedules
<1> QED  BY Zenon, <1>1, <1>2, <1>3

\* The steps of a request leave its row alone or scheduled.
LEMMA RequestSchedules ==
    ASSUME TypeOK, NEW t \in Transfers, ScheduledRow(t),
           \/ Refuse(t) \/ DebitSource(t) \/ ReturnExisting(t)
           \/ RequestStep(t) \/ Interrupted(t) \/ PartnerApplies(t)
    PROVE  (UNCHANGED row \/ Schedules(t)) /\ UNCHANGED <<task, now>>
<1>t. /\ status \in [Transfers -> Statuses] /\ StateTypeOK /\ now \in Nat
      /\ created_at \in [Transfers -> Int] /\ status[t] \in Statuses
  BY Zenon DEF TypeOK, StateTypeOK, RowTypeOK
<1>c. {"SOURCE_DEBITED", "PARTNER_SUBMITTED"} \subseteq Checked \cap Statuses
  BY Zenon DEF Checked, STUCK, Statuses
<1>1. CASE DebitSource(t)
  <2>1. /\ can_transition(status[t], "PENDING")
        /\ status' = [status EXCEPT ![t] = "SOURCE_DEBITED"]
        /\ UNCHANGED <<next_verification_at, task, now>>
    BY Zenon, <1>1, CreationMove DEF DebitSource, workers
  <2>2. PICK start \in 0 .. now : created_at' = [created_at EXCEPT ![t] = start]
    BY Zenon, <1>1 DEF DebitSource
  <2>3. start >= NoTime /\ start <= now
    BY SMTT(30), <1>t DEF NoTime
  <2>4. status'[t] = "SOURCE_DEBITED" /\ created_at'[t] = start
    BY Zenon, <1>t, <2>1, <2>2
  <2>5. ScheduledRow(t)'
    BY Zenon, <1>c, <2>1, <2>3, <2>4 DEF ScheduledRow
  <2> QED  BY Zenon, <1>t, <2>1, <2>2, <2>5 DEF Schedules
<1>2. CASE MarkSubmitted(t)
  <2>1. /\ status' = [status EXCEPT ![t] = "PARTNER_SUBMITTED"]
        /\ UNCHANGED <<next_verification_at, created_at, task, now>>
    BY Zenon, <1>2, <1>c, SingleMove DEF MarkSubmitted, workers
  <2>2. status'[t] = "PARTNER_SUBMITTED"
    BY Zenon, <1>t, <2>1
  <2>3. ScheduledRow(t)'
    BY Zenon, <1>c, <2>1, <2>2 DEF ScheduledRow
  <2> QED  BY Zenon, <1>t, <2>1, <2>3 DEF Schedules
<1>3. CASE ApplyPartnerOutcome(t)
  <2>1. "PARTNER_REJECTED" \in FailureCodes
          /\ "PARTNER_UNAVAILABLE" \in FailureCodes
    BY Zenon DEF FailureCodes
  <2>2. \/ UNCHANGED row
        \/ settle_transfer(t) \/ HoldForVerification(t)
        \/ \E code \in FailureCodes : reverse_transfer(t, code)
    BY Zenon, <1>3, <2>1 DEF ApplyPartnerOutcome
  <2>3. UNCHANGED <<task, now>>
    BY Zenon, <1>3 DEF ApplyPartnerOutcome, workers
  <2> QED  BY Zenon, <2>2, <2>3, ResolutionSchedules
<1>4. CASE \/ Refuse(t) \/ ReturnExisting(t) \/ Interrupted(t)
           \/ StartCall(t) \/ CircuitOpen(t) \/ DeadlineExceeded(t)
           \/ SendAttempt(t) \/ AttemptSucceeded(t) \/ AttemptRejected(t)
           \/ AttemptNotSent(t) \/ AttemptUnknown(t) \/ PartnerApplies(t)
  BY Zenon, <1>4
  DEF Refuse, ReturnExisting, Interrupted, StartCall, CircuitOpen,
      DeadlineExceeded, SendAttempt, AttemptSucceeded, AttemptRejected,
      AttemptNotSent, AttemptUnknown, AttemptEnds, PartnerApplies, workers
<1> QED  BY Zenon, <1>1, <1>2, <1>3, <1>4 DEF RequestStep

\* An inconclusive check sets the time of the next one, or hands the transfer
\* to an operator: the backoff neither wraps below the moment it starts from
\* nor exceeds its maximum.
LEMMA CheckSchedules ==
    ASSUME TypeOK, NEW t \in Transfers, ScheduledRow(t), UNCHANGED now,
           status[t] \in VERIFIABLE,
           NEW moment \in Int, moment >= NoTime, moment <= now,
           RecheckAfterGrace(t, moment) \/ RetryOrEscalate(t, moment)
    PROVE  Schedules(t)
<1>t. /\ StateTypeOK /\ now \in Nat
      /\ created_at[t] >= NoTime /\ created_at[t] \in Int
      /\ verification_attempts[t] \in Nat
  BY Zenon DEF TypeOK, RowTypeOK, ScheduledRow
<1>c. "PENDING_VERIFICATION" \in Checked /\ "MANUAL_REVIEW" \notin Checked
  BY Zenon DEF Checked, STUCK
<1>m. ASSUME MoveAlong(t, Verifying(t, <<>>))
      PROVE  status' = [status EXCEPT ![t] = "PENDING_VERIFICATION"]
  BY Zenon, <1>t, <1>m, VerifyingMove
<1>1. CASE RecheckAfterGrace(t, moment)
  <2> DEFINE due == Smaller(moment + BackoffBase, created_at[t] + NotFoundGrace)
  <2>1. due \in Nat /\ due <= moment + BackoffBase
    BY SMTT(30), <1>t, SettingsAssumption DEF Smaller, NoTime
  <2> HIDE DEF due
  <2>2. At(due) >= 0 /\ Soon(At(due), now)
    BY Zenon, <1>t, <2>1, AtSoon DEF Waits
  <2>3. /\ MoveAlong(t, Verifying(t, <<>>)) /\ UNCHANGED created_at
        /\ next_verification_at' =
             [next_verification_at EXCEPT ![t] = At(due)]
    BY Zenon, <1>1 DEF RecheckAfterGrace, due
  <2> QED  BY Zenon, <1>c, <1>m, <2>2, <2>3, RowSchedules
<1>2. CASE RetryOrEscalate(t, moment)
  <2> DEFINE attempts == verification_attempts[t] + 1
             due == moment + Backoff(attempts)
  <2>1. attempts \in Nat \ {0} /\ BackoffMax \in Nat
    BY SMTT(30), <1>t, SettingsAssumption
  <2>2. due \in Nat /\ due <= moment + BackoffMax
    <3>1. Backoff(attempts) \in Nat \ {0} /\ Backoff(attempts) <= BackoffMax
      BY Zenon, <2>1, BackoffWaits
    <3> HIDE DEF attempts
    <3> QED  BY SMTT(30), <2>1, <3>1 DEF NoTime
  <2>3. CASE /\ MoveAlong(t, Verifying(t, <<"MANUAL_REVIEW">>))
             /\ next_verification_at' =
                  [next_verification_at EXCEPT ![t] = NoTime]
    <3>1. <<"MANUAL_REVIEW">> # <<>>
      OBVIOUS
    <3>2. status' = [status EXCEPT ![t] = "MANUAL_REVIEW"]
      BY Zenon, <1>t, <2>3, <3>1, VerifyingMove
    <3>3. UNCHANGED created_at
      BY Zenon, <1>2 DEF RetryOrEscalate
    <3> QED  BY Zenon, <1>c, <2>3, <3>2, <3>3, RowSchedules
  <2>4. CASE /\ MoveAlong(t, Verifying(t, <<>>))
             /\ next_verification_at' =
                  [next_verification_at EXCEPT ![t] = At(due)]
    <3> HIDE DEF due
    <3>1. At(due) >= 0 /\ Soon(At(due), now)
      BY Zenon, <1>t, <2>2, AtSoon DEF Waits
    <3>2. UNCHANGED created_at
      BY Zenon, <1>2 DEF RetryOrEscalate
    <3> QED  BY Zenon, <1>c, <1>m, <2>4, <3>1, <3>2, RowSchedules
  <2> QED  BY Zenon, <1>2, <2>3, <2>4 DEF RetryOrEscalate
<1> QED  BY Zenon, <1>1, <1>2

\* What a reconciler starts with when it takes up a transfer.
LEMMA ReconcileSince ==
    ASSUME TypeOK, ScheduleInv, UNCHANGED now,
           NEW w \in Workers, NEW t, Reconcile(w, t)
    PROVE  \A v \in Workers : ReadClock(v)'
<1>t. /\ task \in [Workers -> Tasks] /\ \A v \in Workers : ReadClock(v)
      /\ NoTime >= NoTime /\ NoTime <= now /\ now >= NoTime /\ now <= now
  BY SMTT(30) DEF TypeOK, WorkerTypeOK, ScheduleInv, NoTime
<1>w. ASSUME NEW k, task' = [task EXCEPT ![w] = k], k.since \in {NoTime, now}
      PROVE  \A v \in Workers : ReadClock(v)'
  BY Zenon, <1>t, <1>w DEF ReadClock
<1>1. \/ UNCHANGED task
      \/ \E stage : task' = [task EXCEPT ![w] = Task(stage, t, "none", NoTime)]
      \/ \E stage : task' = [task EXCEPT ![w] = Task(stage, t, "none", now)]
  BY Zenon DEF Reconcile
<1>2. ASSUME NEW stage
      PROVE  /\ Task(stage, t, "none", NoTime).since \in {NoTime, now}
             /\ Task(stage, t, "none", now).since \in {NoTime, now}
  BY Zenon DEF Task
<1>3. UNCHANGED task => \A v \in Workers : ReadClock(v)'
  BY Zenon, <1>t DEF ReadClock
<1> QED  BY Zenon, <1>w, <1>1, <1>2, <1>3

\* The steps of a reconciler keep every open transfer scheduled.
LEMMA WorkerSchedules ==
    ASSUME TypeOK, ScheduleInv, NEW w \in Workers,
           \/ ClaimDue(w) \/ ReconcileNext(w) \/ AdminReconcile(w)
           \/ RoundFails(w) \/ ReverseInterrupted(w) \/ PartnerReplies(w)
           \/ StatusKnown(w) \/ Apply(w)
    PROVE  ScheduleInv'
<1>t. /\ task \in [Workers -> Tasks]
      /\ \A v \in Workers : ReadClock(v)
      /\ \A t \in Transfers : ScheduledRow(t)
  BY Zenon DEF TypeOK, WorkerTypeOK, ScheduleInv
<1>n. /\ now \in Nat /\ now >= NoTime /\ now <= now
      /\ Idle.since = NoTime /\ NoTime >= NoTime /\ NoTime <= now
  BY SMTT(30) DEF TypeOK, Idle, Task, NoTime
<1>u. now' = now
  BY Zenon DEF ClaimDue, ReconcileNext, AdminReconcile, RoundFails,
               ReverseInterrupted, PartnerReplies, StatusKnown, Apply
<1>r. UNCHANGED row => \A t \in Transfers : ScheduledRow(t)'
  BY Zenon, <1>t, <1>u DEF row, ScheduledRow
<1>s. ASSUME NEW t \in Transfers, Schedules(t)
      PROVE  \A u \in Transfers : ScheduledRow(u)'
  <2>1. ASSUME NEW u \in Transfers \ {t}  PROVE ScheduledRow(u)'
    BY Zenon, <1>t, <1>s, <2>1 DEF Schedules, ScheduledRow
  <2> QED  BY Zenon, <1>s, <2>1 DEF Schedules
<1>w. ASSUME NEW k, task' = [task EXCEPT ![w] = k],
             k.since >= NoTime, k.since <= now
      PROVE  \A v \in Workers : ReadClock(v)'
  BY Zenon, <1>t, <1>u, <1>w DEF ReadClock
<1>1. CASE ClaimDue(w)
  <2> DEFINE lease == At(now + Lease)
  <2>1. UNCHANGED <<status, created_at, task>>
    BY Zenon, <1>1 DEF ClaimDue
  <2>2. /\ now + Lease \in Nat /\ now \in Int
        /\ now + Lease <= now + Lease
    BY SMTT(30), <1>n, SettingsAssumption
  <2>3. lease >= 0 /\ Soon(lease, now)
    BY Zenon, <1>n, <2>2, AtSoon DEF Waits
  <2>4. PICK claimed \in SUBSET Transfers :
          /\ \A t \in claimed : Due(t)
          /\ next_verification_at' =
               [t \in Transfers |-> IF t \in claimed THEN lease
                                    ELSE next_verification_at[t]]
    BY Zenon, <1>1 DEF ClaimDue, IsClaim
  <2> HIDE DEF lease
  <2>5. ASSUME NEW t \in claimed  PROVE ScheduledRow(t)'
    <3>1. status[t] \in Checked /\ next_verification_at'[t] = lease
      BY Zenon, <2>4 DEF Due, Checked
    <3> QED  BY Zenon, <1>t, <1>u, <2>1, <2>3, <3>1 DEF ScheduledRow
  <2>6. ASSUME NEW t \in Transfers \ claimed  PROVE ScheduledRow(t)'
    BY Zenon, <1>t, <1>u, <2>1, <2>4 DEF ScheduledRow
  <2>7. \A v \in Workers : ReadClock(v)'
    BY Zenon, <1>t, <1>u, <2>1 DEF ReadClock
  <2> QED  BY Zenon, <2>5, <2>6, <2>7 DEF ScheduleInv
<1>2. CASE ReconcileNext(w) \/ AdminReconcile(w)
  <2>1. UNCHANGED row /\ \E t : Reconcile(w, t)
    BY Zenon, <1>2 DEF ReconcileNext, AdminReconcile
  <2> QED  BY Zenon, <1>r, <1>u, <2>1, ReconcileSince DEF ScheduleInv
<1>3. CASE RoundFails(w)
  <2>1. UNCHANGED row /\ task' = [task EXCEPT ![w] = Idle]
    BY Zenon, <1>3 DEF RoundFails
  <2> QED  BY Zenon, <1>n, <1>r, <1>w, <2>1 DEF ScheduleInv
<1>4. CASE PartnerReplies(w)
  <2>1. UNCHANGED row /\ \E t, answer :
          task' = [task EXCEPT ![w] = Task("replied", t, answer, task[w].since)]
    BY Zenon, <1>4, <1>t DEF PartnerReplies
  <2>2. \A v \in Workers : ReadClock(v)'
    <3>1. ASSUME NEW t, NEW answer
          PROVE  Task("replied", t, answer, task[w].since).since = task[w].since
      BY Zenon DEF Task
    <3>2. task[w].since >= NoTime /\ task[w].since <= now
      BY Zenon, <1>t DEF ReadClock
    <3> QED  BY Zenon, <1>w, <2>1, <3>1, <3>2
  <2> QED  BY Zenon, <1>r, <2>1, <2>2 DEF ScheduleInv
<1>5. CASE StatusKnown(w)
  <2>1. UNCHANGED row /\ \E t, answer :
          task' = [task EXCEPT ![w] = Task("applying", t, answer, now)]
    BY Zenon, <1>5, <1>t DEF StatusKnown
  <2>2. \A v \in Workers : ReadClock(v)'
    <3>1. ASSUME NEW t, NEW answer
          PROVE  Task("applying", t, answer, now).since = now
      BY Zenon DEF Task
    <3> QED  BY Zenon, <1>n, <1>w, <2>1, <3>1
  <2> QED  BY Zenon, <1>r, <2>1, <2>2 DEF ScheduleInv
<1>6. CASE ReverseInterrupted(w)
  <2>1. task' = [task EXCEPT ![w] = Idle]
    BY Zenon, <1>6 DEF ReverseInterrupted
  <2>2. task[w].transfer \in Transfers
    BY Zenon, <1>6 DEF ReverseInterrupted, TypeOK, WorkerTypeOK
  <2>3. "TRANSFER_INTERRUPTED" \in FailureCodes
    BY Zenon DEF FailureCodes
  <2>4. UNCHANGED row \/ Schedules(task[w].transfer)
    BY Zenon, <1>6, <1>t, <1>u, <2>2, <2>3, ResolutionSchedules
    DEF ReverseInterrupted
  <2> QED  BY Zenon, <1>n, <1>r, <1>s, <1>w, <2>1, <2>2, <2>4 DEF ScheduleInv
<1>7. CASE Apply(w)
  <2> DEFINE t == task[w].transfer
             moment == task[w].since
  <2>1. task' = [task EXCEPT ![w] = Idle]
    BY Zenon, <1>7 DEF Apply
  <2>2. t \in Transfers /\ moment \in Int /\ moment >= NoTime /\ moment <= now
    BY Zenon, <1>7, <1>t DEF Apply, TypeOK, WorkerTypeOK, Tasks, ReadClock
  <2>3. "PARTNER_NOT_RECEIVED" \in FailureCodes
    BY Zenon DEF FailureCodes
  <2>4. \/ UNCHANGED row \/ settle_transfer(t)
        \/ \E code \in FailureCodes : reverse_transfer(t, code)
        \/ /\ status[t] \in VERIFIABLE
           /\ RecheckAfterGrace(t, moment) \/ RetryOrEscalate(t, moment)
    BY Zenon, <1>7, <2>3 DEF Apply
  <2> HIDE DEF t, moment
  <2>5. UNCHANGED row \/ Schedules(t)
    BY Zenon, <1>t, <1>u, <2>2, <2>4, ResolutionSchedules, CheckSchedules
  <2> QED  BY Zenon, <1>n, <1>r, <1>s, <1>w, <2>1, <2>2, <2>5 DEF ScheduleInv
<1> QED  BY Zenon, <1>1, <1>2, <1>3, <1>4, <1>5, <1>6, <1>7

\* The passing of time brings the next check nearer.
LEMMA TickSchedules ==
    ASSUME TypeOK, ScheduleInv, Tick
    PROVE  ScheduleInv'
<1>t. /\ UNCHANGED <<row, task>> /\ now' = now + 1 /\ now \in Nat
      /\ \A t \in Transfers : created_at[t] \in Int /\ next_verification_at[t] \in Int
      /\ \A w \in Workers : task[w].since \in Int
  BY Zenon DEF Tick, workers, TypeOK, RowTypeOK, WorkerTypeOK, Tasks
<1>1. \A n \in Int : n <= now => n <= now + 1
  BY SMTT(30), <1>t
<1>2. ASSUME NEW t \in Transfers  PROVE ScheduledRow(t)'
  <2>1. /\ created_at[t] <= now + 1 /\ Soon(next_verification_at[t], now + 1)
        /\ ScheduledRow(t)
    BY Zenon, <1>t, <1>1, SoonFacts DEF ScheduleInv, ScheduledRow
  <2> QED  BY Zenon, <1>t, <2>1 DEF ScheduledRow, row
<1>3. ASSUME NEW w \in Workers  PROVE ReadClock(w)'
  <2>1. ReadClock(w)
    BY Zenon DEF ScheduleInv
  <2> QED  BY Zenon, <1>t, <1>1, <2>1 DEF ReadClock
<1> QED  BY Zenon, <1>2, <1>3 DEF ScheduleInv

\* No transfer is lost from claim_due: whatever held, claimed or rechecked it
\* left a time for the next check that is no further away than the settings
\* say, and a resolution took it off the schedule.
THEOREM ScheduleIsKept == Spec => []ScheduleFitsStatus
<1>1. ASSUME Init PROVE ScheduleInv
  <2>1. /\ \A t \in Transfers : /\ created_at[t] = NoTime
                                /\ next_verification_at[t] = NoTime
                                /\ status[t] = "NO_ROW"
        /\ \A w \in Workers : task[w].since = NoTime
        /\ now = 0 /\ 0 \in Nat
    BY SMTT(30), <1>1 DEF Init, Idle, Task
  <2>2. Soon(NoTime, now) /\ NoTime >= NoTime /\ NoTime <= now
    BY Zenon, <2>1, SoonFacts
  <2> QED  BY Zenon, <2>1, <2>2 DEF ScheduleInv, ScheduledRow, ReadClock
<1>2. ASSUME TypeOK, ScheduleInv, [Next]_vars PROVE ScheduleInv'
  <2>1. ASSUME UNCHANGED <<row, task, now>>  PROVE ScheduleInv'
    BY Zenon, <1>2, <2>1 DEF ScheduleInv, ScheduledRow, ReadClock, row
  <2>2. ASSUME NEW t \in Transfers,
               \/ Refuse(t) \/ DebitSource(t) \/ ReturnExisting(t)
               \/ RequestStep(t) \/ Interrupted(t) \/ PartnerApplies(t)
        PROVE  ScheduleInv'
    <3>1. (UNCHANGED row \/ Schedules(t)) /\ UNCHANGED <<task, now>>
      BY Zenon, <1>2, <2>2, RequestSchedules DEF ScheduleInv
    <3>2. CASE Schedules(t)
      <4>1. ASSUME NEW u \in Transfers \ {t}  PROVE ScheduledRow(u)'
        BY Zenon, <1>2, <3>2, <4>1 DEF Schedules, ScheduledRow, ScheduleInv
      <4>2. ScheduledRow(t)'
        BY Zenon, <3>2 DEF Schedules
      <4>3. \A w \in Workers : ReadClock(w)'
        BY Zenon, <1>2, <3>1 DEF ScheduleInv, ReadClock
      <4> QED  BY Zenon, <4>1, <4>2, <4>3 DEF ScheduleInv
    <3> QED  BY Zenon, <2>1, <3>1, <3>2
  <2>3. CASE UNCHANGED vars
    BY Zenon, <2>1, <2>3 DEF vars, workers
  <2> QED  BY Zenon, <1>2, <2>2, <2>3, TickSchedules, WorkerSchedules DEF Next
<1>3. ASSUME ScheduleInv PROVE ScheduleFitsStatus
  <2>1. ~(NoTime >= 0)
    BY SMTT(30) DEF NoTime
  <2> QED  BY Zenon, <1>3, <2>1
           DEF ScheduleInv, ScheduledRow, ScheduleFitsStatus, Soon, Checked
<1> QED  BY <1>1, <1>2, <1>3, TypeCorrect, PTL DEF Spec
=============================================================================
