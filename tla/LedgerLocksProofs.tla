------------------------- MODULE LedgerLocksProofs -------------------------
(***************************************************************************)
(* TLAPS proofs about LedgerLocks, for any set of transactions and         *)
(* accounts: the transactions never wait on each other in a cycle, a debit *)
(* that passed its balance check never meets the CHECK constraint, and     *)
(* seen from outside every transaction is one step (LedgerContract).       *)
(*                                                                         *)
(* The invariant says what each transaction has locked in each phase       *)
(* (Staged) and that no account is locked twice (Exclusive).  Every wait   *)
(* then goes to a transaction further ahead (WaitsAscend), so the distance *)
(* to the end of the protocol is a natural number that decreases along     *)
(* every wait, and a cycle cannot exist.                                   *)
(*                                                                         *)
(* For the refinement the invariant also says that what a transaction has  *)
(* checked under its locks is still true of what is committed (AtomicInv). *)
(* A commit is then the abstract step, and every other step leaves what is *)
(* committed alone.                                                        *)
(***************************************************************************)
EXTENDS LedgerLocks, WellFoundedInduction, TLAPS

Staged(t) ==
    /\ phase[t] \in IF Debit(t) THEN {"lock", "check", "insert", "share", "post", "done"}
                    ELSE {"row", "lock", "post", "done"}
    /\ phase[t] \in {"row", "done"} => locked[t] = {}
    /\ phase[t] = "lock" =>
          /\ locked[t] \subseteq LockSet(t) /\ LockSet(t) \ locked[t] # {}
          /\ \A a \in locked[t], b \in LockSet(t) \ locked[t] : a < b
    /\ phase[t] \in {"check", "insert", "share", "post"} => locked[t] = LockSet(t)
    /\ phase[t] # "post" => posted[t] = {}
    /\ posted[t] \subseteq LockSet(t)

Exclusive == \A t, u \in Txns : t # u => locked[t] \cap locked[u] = {}

Covered(t) ==
    /\ Debit(t) /\ phase[t] \in {"insert", "share", "post"}
    /\ job[t].source \notin posted[t]
    => balance[job[t].source] >= job[t].source_points

IInv ==
    /\ TypeOK
    /\ \A t \in Txns : Staged(t) /\ Covered(t)
    /\ Exclusive
-----------------------------------------------------------------------------
\* A nonempty set of numbers has a least one.
LEMMA LeastNat ==
  ASSUME NEW T, T \subseteq Nat, T # {}
  PROVE  \E m \in T : \A n \in T : m <= n
  <1>1. PICK m \in T : \A n \in T : ~(<<n, m>> \in OpToRel(<, Nat))
    BY NatLessThanWellFounded, WFMin, Zenon
  <1>2. \A n \in T : ~(n < m)
    BY Zenon, <1>1 DEF OpToRel
  <1>3. \A n \in T : m <= n
    BY SMTT(30), <1>2
  <1> QED
    BY Zenon, <1>3

\* Accounts are locked in the order of numbers.
LEMMA IdsAreNat == Accounts \subseteq Nat
  BY SMTT(30), LocksAssumption

\* What ORDER BY id puts first.
LEMMA LowestIsLeast ==
  ASSUME NEW S, S \subseteq Accounts, S # {}
  PROVE  Lowest(S) \in S /\ \A b \in S : Lowest(S) <= b
  <1>1. S \subseteq Nat
    BY IdsAreNat, Zenon
  <1>2. \E a \in S : \A b \in S : a <= b
    BY <1>1, LeastNat, Zenon
  <1> QED
    BY <1>2, Zenon DEF Lowest

\* The rows of a job.
LEMMA JobRows ==
  ASSUME NEW t \in Txns
  PROVE  /\ LockSet(t) \subseteq Accounts /\ LockSet(t) # {}
         /\ Debit(t) => job[t].source \in LockSet(t)
         /\ job[t].source \in Accounts
         /\ job[t].source_points \in Nat /\ job[t].destination_points \in Nat
         /\ job[t].transfer \in Transfers /\ job[t].key \in Keys
  <1>1. job[t] \in Jobs
    BY LocksAssumption, Zenon
  <1> QED
    BY Zenon, <1>1 DEF Jobs, LockSet, Debit

\* What a transaction does to a balance is a number.
LEMMA ChangeIsInt ==
  ASSUME NEW t \in Txns, NEW a \in Accounts
  PROVE  Change(t, a) \in Int
  <1>1. job[t] \in Jobs
    BY LocksAssumption, Zenon
  <1>2. job[t].kind \in {"debit", "settle", "reverse"}
    BY Zenon, <1>1 DEF Jobs
  <1>3. job[t].source_points \in Int /\ job[t].destination_points \in Int
    BY SMTT(30), <1>1 DEF Jobs
  <1>4. CASE job[t].kind = "debit"
    BY SMTT(30), <1>3, <1>4 DEF Change
  <1>5. CASE job[t].kind = "settle"
    BY SMTT(30), <1>3, <1>5 DEF Change
  <1>6. CASE job[t].kind = "reverse"
    BY SMTT(30), <1>3, <1>6 DEF Change
  <1> QED
    BY Zenon, <1>2, <1>4, <1>5, <1>6
-----------------------------------------------------------------------------
\* It holds before the first transaction.
LEMMA InitIInv == Init => IInv
  <1> SUFFICES ASSUME Init PROVE IInv
    OBVIOUS
  <1>1. TypeOK
    BY Zenon, LocksAssumption DEF Init, TypeOK
  <1>2. ASSUME NEW t \in Txns PROVE Staged(t) /\ Covered(t)
    BY Zenon, JobRows DEF Init, Staged, Covered
  <1>3. Exclusive
    BY Zenon DEF Init, Exclusive
  <1> QED
    BY <1>1, <1>2, <1>3, Zenon DEF IInv

\* What a transaction has posted it has locked.
LEMMA PostedIsLocked ==
  ASSUME IInv, NEW t \in Txns
  PROVE  posted[t] \subseteq locked[t] /\ locked[t] \subseteq LockSet(t)
  <1>1. Staged(t) /\ phase[t] \in {"row", "lock", "check", "insert", "share", "post", "done"}
    BY Zenon DEF IInv, TypeOK
  <1> QED
    BY Zenon, <1>1 DEF Staged

\* The account post_journal updates next is one it has locked.
LEMMA NextPosting ==
  ASSUME IInv, NEW t \in Txns, phase[t] = "post", ~(LockSet(t) \subseteq posted[t])
  PROVE  /\ Lowest(LockSet(t) \ posted[t]) \in LockSet(t) \ posted[t]
         /\ Lowest(LockSet(t) \ posted[t]) \in locked[t]
  <1>1. locked[t] = LockSet(t)
    BY Zenon DEF IInv, Staged
  <1>2. LockSet(t) \ posted[t] \subseteq Accounts /\ LockSet(t) \ posted[t] # {}
    BY Zenon, JobRows
  <1>3. Lowest(LockSet(t) \ posted[t]) \in LockSet(t) \ posted[t]
    BY <1>2, LowestIsLeast, Zenon
  <1> QED
    BY Zenon, <1>1, <1>3

\* The account lock_accounts_for_update asks for next.
LEMMA NextLock ==
  ASSUME IInv, NEW t \in Txns, phase[t] = "lock"
  PROVE  /\ Lowest(LockSet(t) \ locked[t]) \in LockSet(t) \ locked[t]
         /\ \A b \in LockSet(t) \ locked[t] : Lowest(LockSet(t) \ locked[t]) <= b
  <1>1. LockSet(t) \ locked[t] \subseteq Accounts /\ LockSet(t) \ locked[t] # {}
    BY Zenon, JobRows DEF IInv, Staged
  <1> QED
    BY <1>1, LowestIsLeast, Zenon

\* A step of one transaction leaves the locks of the others alone, and the
\* balances of the accounts it has not locked.
LEMMA OthersKeep ==
  ASSUME IInv, NEW t \in Txns, Step(t) \/ Abort(t)
  PROVE  /\ \A u \in Txns \ {t} : /\ phase'[u] = phase[u] /\ locked'[u] = locked[u]
                                  /\ posted'[u] = posted[u]
         /\ \A a \in Accounts \ locked[t] : balance'[a] = balance[a]
  <1>a. TypeOK /\ posted[t] \subseteq locked[t]
    BY PostedIsLocked, Zenon DEF IInv
  <1>1. ASSUME NEW why, Rollback(t, why)
        PROVE  /\ \A u \in Txns \ {t} : /\ phase'[u] = phase[u] /\ locked'[u] = locked[u]
                                        /\ posted'[u] = posted[u]
               /\ \A a \in Accounts \ locked[t] : balance'[a] = balance[a]
    BY Zenon, <1>1, <1>a DEF Rollback, End, TypeOK
  <1>2. CASE LockRow(t) \/ CheckBalance(t) \/ InsertTransfer(t) \/ Abort(t)
    BY Zenon, <1>1, <1>2, <1>a DEF LockRow, CheckBalance, InsertTransfer, Abort, Proceed, TypeOK
  <1>3. CASE LockAccount(t) \/ ShareAccount(t)
    BY Zenon, <1>3, <1>a DEF LockAccount, ShareAccount, Proceed, TypeOK
  <1>4. CASE PostAccount(t)
    <2>1. Lowest(LockSet(t) \ posted[t]) \in locked[t]
      BY <1>4, NextPosting, Zenon DEF PostAccount
    <2> QED
      BY Zenon, <1>4, <1>a, <2>1 DEF PostAccount, TypeOK
  <1>5. CASE Commit(t)
    BY Zenon, <1>5, <1>a DEF Commit, End, TypeOK
  <1> QED
    BY <1>2, <1>3, <1>4, <1>5, Zenon DEF Step

\* The end of a transaction, which is also what Rollback and Commit do to it.
LEMMA EndIsStaged ==
  ASSUME IInv, NEW t \in Txns, NEW how, End(t, how)
  PROVE  Staged(t)' /\ Covered(t)' /\ locked'[t] = {}
  <1>1. phase'[t] = "done" /\ locked'[t] = {} /\ posted'[t] = {}
    BY Zenon DEF IInv, TypeOK, End
  <1> QED
    BY Zenon, <1>1 DEF Staged, Covered

\* The transaction that takes a step stays within its phases.
LEMMA OwnStage ==
  ASSUME IInv, NEW t \in Txns, Step(t) \/ Abort(t)
  PROVE  Staged(t)' /\ Covered(t)'
  <1>a. TypeOK /\ Staged(t) /\ Covered(t)
    BY Zenon DEF IInv
  <1>1. ASSUME NEW how, End(t, how) PROVE Staged(t)' /\ Covered(t)'
    BY <1>1, EndIsStaged, Zenon
  <1>2. CASE LockRow(t)
    <2>1. CASE Rollback(t, "resolved")
      BY <2>1, <1>1, Zenon DEF Rollback
    <2>2. CASE Proceed(t, "lock") /\ UNCHANGED <<locked, posted, balance>>
      <3>1. phase'[t] = "lock" /\ locked'[t] = {} /\ posted'[t] = {}
        BY Zenon, <2>2, <1>2, <1>a DEF LockRow, Proceed, Staged, TypeOK
      <3> QED
        BY Zenon, <3>1, JobRows DEF Staged, Covered
    <2> QED
      BY <1>2, <2>1, <2>2, Zenon DEF LockRow
  <1>3. CASE LockAccount(t)
    <2> DEFINE a == Lowest(LockSet(t) \ locked[t])
    <2>1. a \in LockSet(t) \ locked[t] /\ \A b \in LockSet(t) \ locked[t] : a <= b
      BY <1>3, NextLock, Zenon DEF LockAccount
    <2>2. locked'[t] = locked[t] \cup {a} /\ posted'[t] = {}
      BY Zenon, <1>3, <1>a DEF LockAccount, Staged, TypeOK
    <2>3. phase'[t] = IF LockSet(t) \subseteq locked[t] \cup {a}
                      THEN IF Debit(t) THEN "check" ELSE "post" ELSE "lock"
      BY Zenon, <1>3, <1>a DEF LockAccount, Proceed, TypeOK
    <2>4. /\ locked[t] \subseteq LockSet(t)
          /\ \A x \in locked[t], b \in LockSet(t) \ locked[t] : x < b
      BY <1>3, <1>a, Zenon DEF LockAccount, Staged
    <2>5. CASE LockSet(t) \subseteq locked[t] \cup {a}
      <3>1. locked'[t] = LockSet(t)
        BY <2>1, <2>2, <2>4, <2>5, Zenon
      <3>2. phase'[t] = (IF Debit(t) THEN "check" ELSE "post")
        BY Zenon, <2>3, <2>5
      <3> HIDE DEF a
      <3> QED
        BY Zenon, <2>2, <3>1, <3>2 DEF Staged, Covered
    <2>6. CASE ~(LockSet(t) \subseteq locked[t] \cup {a})
      <3>1. locked'[t] \subseteq LockSet(t) /\ LockSet(t) \ locked'[t] # {} /\ phase'[t] = "lock"
        BY <2>1, <2>2, <2>3, <2>4, <2>6, Zenon
      <3>2. ASSUME NEW x \in locked'[t], NEW b \in LockSet(t) \ locked'[t] PROVE x < b
        <4>1. b \in LockSet(t) \ locked[t] /\ b # a /\ (x \in locked[t] \/ x = a)
          BY <3>2, <2>2, Zenon
        <4>2. LockSet(t) \subseteq Accounts /\ Accounts \subseteq Nat
          BY JobRows, IdsAreNat, Zenon
        <4> HIDE DEF a
        <4>3. a \in Nat /\ b \in Nat
          BY <2>1, <4>1, <4>2, Zenon
        <4>4. CASE x \in locked[t]
          BY <4>1, <4>4, <2>4, Zenon
        <4>5. CASE x = a
          BY SMTT(30), <4>1, <4>3, <4>5, <2>1
        <4> QED
          BY <4>1, <4>4, <4>5, Zenon
      <3> HIDE DEF a
      <3> QED
        BY Zenon, <2>2, <3>1, <3>2 DEF Staged, Covered
    <2> QED
      BY Zenon, <2>5, <2>6
  <1>4. CASE CheckBalance(t)
    <2>1. CASE Rollback(t, "refused")
      BY <2>1, <1>1, Zenon DEF Rollback
    <2>2. CASE /\ balance[job[t].source] >= job[t].source_points
               /\ Proceed(t, "insert") /\ UNCHANGED <<locked, posted, balance>>
      <3>1. phase'[t] = "insert" /\ Debit(t) /\ locked'[t] = LockSet(t) /\ posted'[t] = {}
        BY Zenon, <2>2, <1>4, <1>a DEF CheckBalance, Proceed, Staged, TypeOK
      <3> QED
        BY Zenon, <3>1, <2>2 DEF Staged, Covered
    <2> QED
      BY <1>4, <2>1, <2>2, Zenon DEF CheckBalance
  <1>5. CASE InsertTransfer(t)
    <2>1. CASE Rollback(t, "duplicate")
      BY <2>1, <1>1, Zenon DEF Rollback
    <2>2. CASE Proceed(t, "share") /\ UNCHANGED <<locked, posted, balance>>
      <3>1. phase'[t] = "share" /\ Debit(t) /\ locked'[t] = LockSet(t) /\ posted'[t] = {}
        BY Zenon, <2>2, <1>5, <1>a DEF InsertTransfer, Proceed, Staged, TypeOK
      <3>2. Covered(t)'
        BY Zenon, <3>1, <2>2, <1>5, <1>a DEF InsertTransfer, Staged, Covered
      <3> QED
        BY Zenon, <3>1, <3>2 DEF Staged
    <2> QED
      BY <1>5, <2>1, <2>2, Zenon DEF InsertTransfer
  <1>6. CASE ShareAccount(t)
    <2>1. /\ phase'[t] \in {"share", "post"} /\ Debit(t)
          /\ locked'[t] = LockSet(t) /\ posted'[t] = {}
      BY Zenon, <1>6, <1>a DEF ShareAccount, Proceed, Staged, TypeOK
    <2>2. Covered(t)'
      BY Zenon, <2>1, <1>6, <1>a DEF ShareAccount, Staged, Covered
    <2> QED
      BY Zenon, <2>1, <2>2 DEF Staged
  <1>7. CASE PostAccount(t)
    <2> DEFINE a == Lowest(LockSet(t) \ posted[t])
    <2>1. a \in LockSet(t) \ posted[t] /\ a \in locked[t]
      BY <1>7, NextPosting, Zenon DEF PostAccount
    <2>2. /\ phase[t] = "post" /\ phase' = phase
          /\ locked'[t] = locked[t] /\ locked[t] = LockSet(t)
          /\ posted'[t] = posted[t] \cup {a}
      BY Zenon, <1>7, <1>a, <2>1 DEF PostAccount, Staged, TypeOK
    <2>3. Staged(t)'
      <3> HIDE DEF a
      <3> QED
        BY <2>1, <2>2, <1>a, Zenon DEF Staged
    <2>4. job[t].source \notin posted'[t] => balance'[job[t].source] = balance[job[t].source]
      BY Zenon, <1>7, <1>a, <2>2, JobRows DEF PostAccount, TypeOK
    <2>5. Covered(t)'
      <3> HIDE DEF a
      <3> QED
        BY <2>2, <2>4, <1>a, Zenon DEF Covered
    <2> QED
      BY Zenon, <2>3, <2>5
  <1>8. CASE Commit(t) \/ Abort(t)
    BY <1>8, <1>1, Zenon DEF Commit, Abort, Rollback
  <1> QED
    BY <1>2, <1>3, <1>4, <1>5, <1>6, <1>7, <1>8, Zenon DEF Step

\* An account is locked only when nobody else has locked it.
LEMMA LocksExclude ==
  ASSUME IInv, NEW t \in Txns, Step(t) \/ Abort(t)
  PROVE  Exclusive'
  <1>a. TypeOK /\ Exclusive /\ Staged(t)
    BY Zenon DEF IInv
  <1>1. ASSUME NEW a \in locked'[t], a \notin locked[t]
        PROVE  \A u \in Txns \ {t} : a \notin locked[u]
    <2>1. ASSUME NEW how, End(t, how) PROVE FALSE
      BY <2>1, <1>1, EndIsStaged, Zenon
    <2>2. CASE LockAccount(t)
      BY Zenon, <2>2, <1>1, <1>a DEF LockAccount, LockFree, TypeOK
    <2>3. CASE PostAccount(t)
      BY Zenon, <2>3, <1>1, <1>a, NextPosting DEF PostAccount, TypeOK
    <2>4. CASE LockRow(t) \/ CheckBalance(t) \/ InsertTransfer(t) \/ ShareAccount(t)
      BY <2>1, <2>4, <1>1, Zenon DEF LockRow, CheckBalance, InsertTransfer, ShareAccount, Rollback
    <2>5. CASE Commit(t) \/ Abort(t)
      BY <2>1, <2>5, Zenon DEF Commit, Abort, Rollback
    <2> QED
      BY <2>2, <2>3, <2>4, <2>5, Zenon DEF Step
  <1>2. \A u \in Txns \ {t} : locked'[u] = locked[u]
    BY OthersKeep, Zenon
  <1> SUFFICES ASSUME NEW u \in Txns, NEW v \in Txns, u # v, NEW a,
                      a \in locked'[u], a \in locked'[v]
               PROVE  FALSE
    BY Zenon DEF Exclusive
  <1>3. CASE u = t
    BY <1>3, <1>1, <1>2, <1>a, Zenon DEF Exclusive
  <1>4. CASE v = t
    BY <1>4, <1>1, <1>2, <1>a, Zenon DEF Exclusive
  <1>5. CASE u # t /\ v # t
    BY <1>5, <1>2, <1>a, Zenon DEF Exclusive
  <1> QED
    BY <1>3, <1>4, <1>5, Zenon

\* Every step of a transaction keeps the types.
LEMMA TypeStep ==
  ASSUME IInv, NEW t \in Txns, Step(t) \/ Abort(t)
  PROVE  TypeOK'
  <1>a. TypeOK /\ Staged(t)
    BY Zenon DEF IInv
  <1>b. LockSet(t) \subseteq Accounts /\ job[t].transfer \in Transfers /\ job[t].key \in Keys
    BY JobRows, Zenon
  <1>1. ASSUME NEW why \in {"refused", "duplicate", "resolved", "aborted"}, Rollback(t, why)
        PROVE  TypeOK'
    <2>1. balance' \in [Accounts -> Int]
      BY SMTT(30), <1>1, <1>a, ChangeIsInt DEF Rollback, TypeOK
    <2> QED
      BY Zenon, <1>1, <1>a, <2>1 DEF Rollback, End, TypeOK
  <1>2. CASE LockRow(t)
    BY Zenon, <1>2, <1>1, <1>a DEF LockRow, Proceed, TypeOK
  <1>3. CASE LockAccount(t)
    <2>1. Lowest(LockSet(t) \ locked[t]) \in Accounts
      BY Zenon, <1>3, <1>b, NextLock DEF LockAccount
    <2> QED
      BY Zenon, <1>3, <1>a, <2>1 DEF LockAccount, Proceed, TypeOK
  <1>4. CASE CheckBalance(t)
    BY Zenon, <1>4, <1>1, <1>a DEF CheckBalance, Proceed, TypeOK
  <1>5. CASE InsertTransfer(t)
    BY Zenon, <1>5, <1>1, <1>a DEF InsertTransfer, Proceed, TypeOK
  <1>6. CASE ShareAccount(t)
    <2>1. Referenced(t) \subseteq Accounts
      BY Zenon, LocksAssumption DEF Referenced, Jobs
    <2> QED
      BY SMTT(30), <1>6, <1>a, <2>1 DEF ShareAccount, Proceed, TypeOK
  <1>7. CASE PostAccount(t)
    <2> DEFINE a == Lowest(LockSet(t) \ posted[t])
    <2>1. a \in Accounts
      BY Zenon, <1>7, <1>b, NextPosting DEF PostAccount
    <2>2. balance[a] + Change(t, a) \in Int
      BY SMTT(30), <2>1, <1>a, ChangeIsInt DEF TypeOK
    <2> HIDE DEF a
    <2> QED
      BY Zenon, <1>7, <1>a, <2>1, <2>2 DEF PostAccount, TypeOK, a
  <1>8. CASE Commit(t)
    BY Zenon, <1>8, <1>a, <1>b DEF Commit, End, TypeOK
  <1>9. CASE Abort(t)
    BY <1>9, <1>1, Zenon DEF Abort
  <1> QED
    BY <1>2, <1>3, <1>4, <1>5, <1>6, <1>7, <1>8, <1>9, Zenon DEF Step

\* Every step keeps the invariant.
LEMMA NextIInv == IInv /\ [Next]_vars => IInv'
  <1> SUFFICES ASSUME IInv, [Next]_vars PROVE IInv'
    OBVIOUS
  <1>1. ASSUME NEW t \in Txns, Step(t) \/ Abort(t) PROVE IInv'
    <2>1. TypeOK' /\ Exclusive'
      BY <1>1, TypeStep, LocksExclude, Zenon
    <2>2. ASSUME NEW u \in Txns PROVE Staged(u)' /\ Covered(u)'
      <3>1. CASE u = t
        BY <3>1, <1>1, OwnStage, Zenon
      <3>2. CASE u # t
        <4>1. phase'[u] = phase[u] /\ locked'[u] = locked[u] /\ posted'[u] = posted[u]
          BY <3>2, <1>1, OthersKeep, Zenon
        <4>2. Staged(u) /\ Covered(u)
          BY Zenon DEF IInv
        <4>3. Staged(u)'
          BY <4>1, <4>2, Zenon DEF Staged
        <4>4. ASSUME Debit(u), phase[u] \in {"insert", "share", "post"}
              PROVE  balance'[job[u].source] = balance[job[u].source]
          <5>1. job[u].source \in locked[u] /\ job[u].source \in Accounts
            BY Zenon, <4>2, <4>4, JobRows DEF Staged
          <5>2. job[u].source \notin locked[t]
            BY <5>1, <3>2, Zenon DEF IInv, Exclusive
          <5> QED
            BY <5>1, <5>2, <1>1, OthersKeep, Zenon
        <4>5. Covered(u)'
          BY <4>1, <4>2, <4>4, Zenon DEF Covered
        <4> QED
          BY Zenon, <4>3, <4>5
      <3> QED
        BY Zenon, <3>1, <3>2
    <2> QED
      BY <2>1, <2>2, Zenon DEF IInv
  <1>2. CASE UNCHANGED vars
    BY <1>2, Zenon DEF vars, IInv, TypeOK, Staged, Covered, Exclusive
  <1> QED
    BY <1>1, <1>2, Zenon DEF Next

\* The invariant holds in every reachable state.
LEMMA Inductive == Spec => []IInv
  BY InitIInv, NextIInv, PTL DEF Spec
-----------------------------------------------------------------------------
\* The statements of a posting transaction keep the types, and the end of a
\* transaction leaves no lock behind.
THEOREM LocksTypeCorrect == Spec => []TypeOK
  <1>1. IInv => TypeOK
    BY Zenon DEF IInv
  <1> QED
    BY <1>1, Inductive, PTL

\* The balance that _debit_source read under the lock is still there when
\* post_journal takes the points from it.
THEOREM DebitCovered == Spec => []DebitNeverBounces
  <1>1. IInv => DebitNeverBounces
    BY Zenon DEF IInv, Covered, DebitNeverBounces
  <1> QED
    BY <1>1, Inductive, PTL

Stage(t) == CASE phase[t] = "row" -> 0 [] phase[t] = "lock" -> 1 [] phase[t] = "check" -> 2
              [] phase[t] = "insert" -> 3 [] phase[t] = "share" -> 4 [] phase[t] = "post" -> 5
              [] OTHER -> 6

\* Why: whoever is waited for is further ahead, in its stage or, where both
\* lock accounts, in the account it asks for.
WaitsAscend ==
    \A t, u \in Txns :
        WaitsFor(t, u) =>
            \/ Stage(t) < Stage(u)
            \/ /\ phase[t] = "lock" /\ phase[u] = "lock"
               /\ Lowest(LockSet(t) \ locked[t]) < Lowest(LockSet(u) \ locked[u])

\* Who is waited for has gone further in the lock order.
LEMMA Ascent == IInv => WaitsAscend
  <1> SUFFICES ASSUME IInv, NEW t \in Txns, NEW u \in Txns, WaitsFor(t, u)
               PROVE  \/ Stage(t) < Stage(u)
                      \/ /\ phase[t] = "lock" /\ phase[u] = "lock"
                         /\ Lowest(LockSet(t) \ locked[t]) < Lowest(LockSet(u) \ locked[u])
    BY Zenon DEF WaitsAscend
  <1>a. /\ phase[t] \in {"row", "lock", "check", "insert", "share", "post", "done"}
        /\ phase[u] \in {"row", "lock", "check", "insert", "share", "post", "done"}
        /\ Staged(t) /\ Staged(u)
    BY Zenon DEF IInv, TypeOK
  <1>1. CASE phase[t] = "row" /\ HoldsRow(u)
    BY SMTT(30), <1>1 DEF HoldsRow, Stage
  <1>2. CASE phase[t] = "insert" /\ HoldsKey(u)
    BY SMTT(30), <1>2 DEF HoldsKey, Stage
  <1>3. ASSUME NEW a \in AsksFor(t), a \in locked[u]
        PROVE  \/ Stage(t) < Stage(u)
               \/ /\ phase[t] = "lock" /\ phase[u] = "lock"
                  /\ Lowest(LockSet(t) \ locked[t]) < Lowest(LockSet(u) \ locked[u])
    <2>1. phase[t] # "post"
      <3> SUFFICES ASSUME phase[t] = "post" PROVE FALSE
        OBVIOUS
      <3>1. /\ ~(LockSet(t) \subseteq posted[t])
            /\ a \in {Lowest(LockSet(t) \ posted[t])} \ locked[t]
        BY Zenon, <1>3 DEF AsksFor
      <3> QED
        BY <3>1, NextPosting, Zenon
    <2>2. phase[t] = "lock" /\ a = Lowest(LockSet(t) \ locked[t])
      BY Zenon, <1>3, <1>a, <2>1 DEF AsksFor, ShareConflicts
    <2>3. phase[u] \notin {"row", "done"}
      BY <1>3, <1>a, Zenon DEF Staged
    <2>4. CASE phase[u] = "lock"
      <3>1. Lowest(LockSet(u) \ locked[u]) \in LockSet(u) \ locked[u]
        BY <2>4, NextLock, Zenon
      <3>2. a < Lowest(LockSet(u) \ locked[u])
        BY <3>1, <2>4, <1>3, <1>a, Zenon DEF Staged
      <3> QED
        BY <2>2, <2>4, <3>2, Zenon
    <2>5. CASE phase[u] # "lock"
      BY SMTT(30), <2>2, <2>3, <2>5, <1>a DEF Stage
    <2> QED
      BY Zenon, <2>4, <2>5
  <1> QED
    BY Zenon, <1>1, <1>2, <1>3 DEF WaitsFor, ShareConflicts

\* Rows are locked in one order: first the transfer's, then the accounts' by
\* id, then the unique key; whoever is waited for is further along.
THEOREM WaitsGoForward == Spec => []WaitsAscend
  BY Ascent, Inductive, PTL

\* How far a transaction is from its last lock.
Distance(t) ==
    CASE phase[t] = "row"  -> MaxId + 7
      [] phase[t] = "lock" -> MaxId + 6 - Lowest(LockSet(t) \ locked[t])
      [] OTHER             -> 6 - Stage(t)

\* A wait goes to a transaction that is closer to its end.
LEMMA DistanceDecreases ==
  ASSUME IInv, NEW t \in Txns
  PROVE  Distance(t) \in Nat /\ \A u \in Txns : WaitsFor(t, u) => Distance(u) < Distance(t)
  <1>1. ASSUME NEW v \in Txns
        PROVE  /\ phase[v] \in {"row", "lock", "check", "insert", "share", "post", "done"}
               /\ phase[v] = "lock" => Lowest(LockSet(v) \ locked[v]) \in 0 .. MaxId
    <2>1. phase[v] \in {"row", "lock", "check", "insert", "share", "post", "done"}
      BY Zenon DEF IInv, TypeOK
    <2>2. ASSUME phase[v] = "lock" PROVE Lowest(LockSet(v) \ locked[v]) \in 0 .. MaxId
      BY Zenon, <2>2, NextLock, JobRows, LocksAssumption
    <2> QED
      BY Zenon, <2>1, <2>2
  <1>2. ASSUME NEW v \in Txns
        PROVE  /\ Distance(v) \in Nat
               /\ phase[v] = "row" => Distance(v) = MaxId + 7 /\ Stage(v) = 0
               /\ phase[v] = "lock" => /\ Distance(v) = MaxId + 6 - Lowest(LockSet(v) \ locked[v])
                                       /\ Stage(v) = 1
               /\ phase[v] \notin {"row", "lock"} => /\ Distance(v) = 6 - Stage(v)
                                                     /\ Stage(v) \in 2 .. 6
    BY SMTT(30), <1>1, <1>2, LocksAssumption DEF Distance, Stage
  <1>3. ASSUME NEW u \in Txns, WaitsFor(t, u) PROVE Distance(u) < Distance(t)
    <2>1. \/ Stage(t) < Stage(u)
          \/ /\ phase[t] = "lock" /\ phase[u] = "lock"
             /\ Lowest(LockSet(t) \ locked[t]) < Lowest(LockSet(u) \ locked[u])
      BY <1>3, Ascent, Zenon DEF WaitsAscend
    <2>3. CASE phase[u] = "lock" /\ phase[t] = "lock"
      <3>1. /\ Lowest(LockSet(t) \ locked[t]) \in 0 .. MaxId
            /\ Lowest(LockSet(u) \ locked[u]) \in 0 .. MaxId
        BY <2>3, <1>1, Zenon
      <3>2. /\ Distance(t) = MaxId + 6 - Lowest(LockSet(t) \ locked[t]) /\ Stage(t) = 1
            /\ Distance(u) = MaxId + 6 - Lowest(LockSet(u) \ locked[u]) /\ Stage(u) = 1
        BY <2>3, <1>2, Zenon
      <3> QED
        BY SMTT(30), <2>1, <3>1, <3>2, LocksAssumption
    <2>4. CASE ~(phase[u] = "lock" /\ phase[t] = "lock")
      <3>1. Stage(t) < Stage(u)
        BY <2>1, <2>4, Zenon
      <3>2. /\ phase[t] = "lock" => /\ Distance(t) = MaxId + 6 - Lowest(LockSet(t) \ locked[t])
                                    /\ Lowest(LockSet(t) \ locked[t]) \in 0 .. MaxId
            /\ phase[u] = "lock" => /\ Distance(u) = MaxId + 6 - Lowest(LockSet(u) \ locked[u])
                                    /\ Lowest(LockSet(u) \ locked[u]) \in 0 .. MaxId
        BY <1>1, <1>2, Zenon
      <3>3. /\ phase[t] = "row" => Distance(t) = MaxId + 7 /\ Stage(t) = 0
            /\ phase[t] = "lock" => Stage(t) = 1
            /\ phase[t] \notin {"row", "lock"} => Distance(t) = 6 - Stage(t) /\ Stage(t) \in 2 .. 6
        BY <1>2, Zenon
      <3>4. /\ phase[u] = "row" => Distance(u) = MaxId + 7 /\ Stage(u) = 0
            /\ phase[u] = "lock" => Stage(u) = 1
            /\ phase[u] \notin {"row", "lock"} => Distance(u) = 6 - Stage(u) /\ Stage(u) \in 2 .. 6
        BY <1>2, Zenon
      <3> QED
        BY SMTT(30), <3>1, <3>2, <3>3, <3>4, LocksAssumption
    <2> QED
      BY Zenon, <2>3, <2>4
  <1> QED
    BY Zenon, <1>2, <1>3

\* "two transactions can never wait on each other in a cycle"
\* (lock_accounts_for_update): no group of posting transactions, however many
\* and over whatever accounts, can be deadlocked.
THEOREM NoDeadlock == Spec => []NoWaitCycle
  <1>1. ASSUME IInv PROVE NoWaitCycle
    <2> SUFFICES ASSUME NEW S \in (SUBSET Txns) \ {{}}
                 PROVE  \E t \in S : \A u \in S : ~WaitsFor(t, u)
      BY Zenon DEF NoWaitCycle
    <2> DEFINE D == {Distance(t) : t \in S}
    <2>0. \A t \in S : Distance(t) \in Nat
      BY <1>1, DistanceDecreases, Zenon
    <2>1. D \subseteq Nat /\ D # {}
      BY <2>0, Zenon
    <2>2. PICK m \in D : \A n \in D : m <= n
      BY <2>1, LeastNat, Zenon
    <2>3. PICK t \in S : m = Distance(t)
      BY Zenon
    <2>4. ASSUME NEW u \in S, WaitsFor(t, u) PROVE FALSE
      <3>1. Distance(u) < Distance(t) /\ Distance(t) \in Nat /\ Distance(u) \in Nat
        BY <1>1, <2>4, DistanceDecreases, Zenon
      <3>2. Distance(t) <= Distance(u)
        BY <2>2, <2>3, Zenon
      <3> QED
        BY SMTT(30), <3>1, <3>2
    <2> QED
      BY <2>4, Zenon
  <1> QED
    BY <1>1, Inductive, PTL
-----------------------------------------------------------------------------
(* Transactions are atomic                                                 *)

\* What a debit has checked under its locks and its entry of the unique key.
DebitReady(t) ==
    /\ Debit(t) /\ phase[t] \in {"insert", "share", "post"} =>
          Committed[job[t].source] >= job[t].source_points
    /\ HoldsKey(t) => job[t].key \notin created

\* What a settlement or reversal has checked under the lock of the transfer.
ResolveReady(t) == HoldsRow(t) => job[t].transfer \notin resolved

KeysExclude ==
    \A t, u \in Txns :
        t # u => /\ HoldsKey(t) /\ HoldsKey(u) => job[t].key # job[u].key
                 /\ HoldsRow(t) /\ HoldsRow(u) => job[t].transfer # job[u].transfer

AtomicInv ==
    /\ IInv
    /\ \A t \in Txns : DebitReady(t) /\ ResolveReady(t)
    /\ KeysExclude

\* The one transaction that has posted to an account.
LEMMA OnlyPoster ==
  ASSUME NEW post, NEW t \in Txns, NEW a, a \in post[t],
         \A u \in Txns \ {t} : a \notin post[u]
  PROVE  (CHOOSE u \in Txns : a \in post[u]) = t
  BY Zenon

\* What has been posted to an account was posted by its one owner.
LEMMA PostedOnce ==
  ASSUME IInv, NEW t \in Txns, NEW a \in locked[t]
  PROVE  \A u \in Txns \ {t} : a \notin posted[u]
  BY Zenon, PostedIsLocked DEF IInv, Exclusive

\* A transaction changes only what it has locked.
LEMMA NoChangeOutside ==
  ASSUME NEW t \in Txns, NEW a \in Accounts, a \notin LockSet(t)
  PROVE  Change(t, a) = 0
  <1>1. job[t].kind \in {"debit", "settle", "reverse"}
    BY Zenon, LocksAssumption DEF Jobs
  <1>2. CASE job[t].kind = "debit"
    <2>1. a # job[t].source /\ a # job[t].clearing
      BY Zenon, <1>2 DEF LockSet
    <2> QED
      BY SMTT(30), <1>2, <2>1 DEF Change
  <1>3. CASE job[t].kind = "settle"
    <2>1. /\ a # job[t].clearing /\ a # job[t].source_settlement
          /\ a # job[t].destination_settlement /\ a # job[t].destination
      BY Zenon, <1>3 DEF LockSet
    <2> QED
      BY SMTT(30), <1>3, <2>1 DEF Change
  <1>4. CASE job[t].kind = "reverse"
    <2>1. a # job[t].source /\ a # job[t].clearing
      BY Zenon, <1>4 DEF LockSet
    <2> QED
      BY SMTT(30), <1>4, <2>1 DEF Change
  <1> QED
    BY Zenon, <1>1, <1>2, <1>3, <1>4

\* The committed balance of an account, by who has posted to it.
LEMMA CommittedAt ==
  ASSUME IInv, NEW a \in Accounts
  PROVE  /\ Committed[a] \in Int
         /\ \A t \in Txns : a \in posted[t] => Committed[a] = balance[a] - Change(t, a)
         /\ (\A t \in Txns : a \notin posted[t]) => Committed[a] = balance[a]
  <1>1. balance[a] \in Int
    BY Zenon DEF IInv, TypeOK
  <1>2. ASSUME NEW t \in Txns, a \in posted[t]
        PROVE  Committed[a] = balance[a] - Change(t, a)
    <2>1. \A u \in Txns \ {t} : a \notin posted[u]
      BY Zenon, <1>2, PostedIsLocked, PostedOnce
    <2>2. (CHOOSE u \in Txns : a \in posted[u]) = t
      BY Zenon, <1>2, <2>1, OnlyPoster
    <2> QED
      BY Zenon, <1>2, <2>2 DEF Committed
  <1>3. (\A t \in Txns : a \notin posted[t]) => Committed[a] = balance[a]
    BY Zenon DEF Committed
  <1>4. CASE \E t \in Txns : a \in posted[t]
    <2>1. PICK t \in Txns : a \in posted[t]
      BY Zenon, <1>4
    <2>2. Committed[a] = balance[a] - Change(t, a) /\ Change(t, a) \in Int
      BY Zenon, <1>2, <2>1, ChangeIsInt
    <2>3. Committed[a] \in Int
      BY SMTT(30), <1>1, <2>2
    <2> QED
      BY Zenon, <1>2, <1>3, <2>3
  <1>5. CASE \A t \in Txns : a \notin posted[t]
    BY Zenon, <1>1, <1>2, <1>3, <1>5
  <1> QED
    BY Zenon, <1>4, <1>5

\* The same of any balances and postings, of which all but one are elsewhere.
LEMMA NetAt ==
  ASSUME NEW bal, NEW post, NEW a, NEW t \in Txns, \A u \in Txns \ {t} : a \notin post[u]
  PROVE  (IF \E u \in Txns : a \in post[u]
          THEN bal[a] - Change(CHOOSE u \in Txns : a \in post[u], a) ELSE bal[a])
           = IF a \in post[t] THEN bal[a] - Change(t, a) ELSE bal[a]
  <1>1. CASE a \in post[t]
    <2>1. (CHOOSE u \in Txns : a \in post[u]) = t
      BY Zenon, <1>1, OnlyPoster
    <2> QED
      BY Zenon, <1>1, <2>1
  <1>2. CASE a \notin post[t]
    BY Zenon, <1>2
  <1> QED
    BY Zenon, <1>1, <1>2

\* A posting and a roll-back change what the transaction has locked, and nothing
\* that is committed.
LEMMA OwnBalances ==
  ASSUME IInv, NEW t \in Txns, Step(t) \/ Abort(t), ~Commit(t), NEW a \in locked[t]
  PROVE  Committed[a] = IF a \in posted'[t] THEN balance'[a] - Change(t, a) ELSE balance'[a]
  <1>a. TypeOK /\ Staged(t) /\ a \in Accounts /\ \A u \in Txns \ {t} : a \notin posted[u]
    BY Zenon, PostedOnce DEF IInv, TypeOK
  <1>b. Committed[a] = IF a \in posted[t] THEN balance[a] - Change(t, a) ELSE balance[a]
    BY Zenon, <1>a, CommittedAt
  <1>1. ASSUME NEW why, Rollback(t, why)
        PROVE  Committed[a] = IF a \in posted'[t] THEN balance'[a] - Change(t, a) ELSE balance'[a]
    BY Zenon, <1>1, <1>a, <1>b DEF Rollback, End, TypeOK
  <1>2. ASSUME UNCHANGED <<posted, balance>>
        PROVE  Committed[a] = IF a \in posted'[t] THEN balance'[a] - Change(t, a) ELSE balance'[a]
    BY Zenon, <1>2, <1>b
  <1>3. CASE PostAccount(t)
    <2> DEFINE b == Lowest(LockSet(t) \ posted[t])
    <2>1. b \in LockSet(t) \ posted[t] /\ b \in Accounts
      BY Zenon, <1>3, NextPosting, JobRows DEF PostAccount
    <2>2. posted'[t] = posted[t] \cup {b} /\ balance' = [balance EXCEPT ![b] = @ + Change(t, b)]
      BY Zenon, <1>3, <1>a DEF PostAccount, TypeOK
    <2> HIDE DEF b
    <2>3. CASE a = b
      <3>1. Committed[a] = balance[a] /\ balance'[a] = balance[a] + Change(t, a) /\ a \in posted'[t]
        BY Zenon, <1>a, <1>b, <2>1, <2>2, <2>3 DEF TypeOK
      <3>2. balance[a] \in Int /\ Change(t, a) \in Int
        BY Zenon, <1>a, ChangeIsInt DEF TypeOK
      <3>3. balance[a] = (balance[a] + Change(t, a)) - Change(t, a)
        BY SMTT(30), <3>2
      <3> QED
        BY Zenon, <3>1, <3>3
    <2>4. CASE a # b
      BY Zenon, <1>a, <1>b, <2>2, <2>4 DEF TypeOK
    <2> QED
      BY Zenon, <2>3, <2>4
  <1>4. CASE LockRow(t) \/ CheckBalance(t) \/ InsertTransfer(t) \/ Abort(t)
    BY Zenon, <1>1, <1>2, <1>4 DEF LockRow, CheckBalance, InsertTransfer, Abort
  <1>5. CASE LockAccount(t) \/ ShareAccount(t)
    BY Zenon, <1>2, <1>5 DEF LockAccount, ShareAccount
  <1> QED
    BY Zenon, <1>3, <1>4, <1>5 DEF Step

\* Accounts that a transaction has not locked keep their postings.
LEMMA OtherPostings ==
  ASSUME IInv, NEW t \in Txns, Step(t) \/ Abort(t), NEW a \in Accounts, a \notin locked[t]
  PROVE  /\ balance'[a] = balance[a]
         /\ \A u \in Txns : a \in posted'[u] <=> a \in posted[u]
  <1>a. TypeOK /\ Staged(t) /\ posted[t] \subseteq locked[t]
    BY Zenon, PostedIsLocked DEF IInv
  <1>1. balance'[a] = balance[a] /\ \A u \in Txns \ {t} : posted'[u] = posted[u]
    BY Zenon, OthersKeep
  <1>2. a \notin posted'[t]
    <2>1. ASSUME NEW how, End(t, how) PROVE a \notin posted'[t]
      BY Zenon, <2>1, <1>a DEF End, TypeOK
    <2>2. CASE PostAccount(t)
      BY Zenon, <2>2, <1>a, NextPosting DEF PostAccount, TypeOK
    <2>3. CASE LockRow(t) \/ CheckBalance(t) \/ InsertTransfer(t) \/ LockAccount(t) \/ ShareAccount(t)
      BY Zenon, <2>1, <2>3, <1>a
      DEF LockRow, CheckBalance, InsertTransfer, LockAccount, ShareAccount, Rollback
    <2>4. CASE Commit(t) \/ Abort(t)
      BY Zenon, <2>1, <2>4 DEF Commit, Abort, Rollback
    <2> QED
      BY Zenon, <2>2, <2>3, <2>4 DEF Step
  <1> QED
    BY Zenon, <1>a, <1>1, <1>2

\* The committed balance of such an account stays.
LEMMA OthersCommitted ==
  ASSUME IInv, NEW t \in Txns, Step(t) \/ Abort(t), NEW a \in Accounts, a \notin locked[t]
  PROVE  Committed'[a] = Committed[a]
  <1>1. /\ balance'[a] = balance[a]
        /\ \A u \in Txns : a \in posted'[u] <=> a \in posted[u]
    BY Zenon, OtherPostings
  <1>2. PICK u \in Txns : \A v \in Txns \ {u} : a \notin posted[v]
    <2>1. CASE \E u \in Txns : a \in posted[u]
      BY Zenon, <2>1, PostedIsLocked, PostedOnce
    <2>2. CASE \A u \in Txns : a \notin posted[u]
      BY Zenon, <2>2
    <2> QED
      BY Zenon, <2>1, <2>2
  <1>3. Committed[a] = IF a \in posted[u] THEN balance[a] - Change(u, a) ELSE balance[a]
    BY Zenon, <1>2, NetAt DEF Committed
  <1>4. \A v \in Txns \ {u} : a \notin posted'[v]
    BY Zenon, <1>1, <1>2
  <1>5. Committed'[a] = IF a \in posted'[u] THEN balance'[a] - Change(u, a) ELSE balance'[a]
    BY Zenon, <1>4, NetAt DEF Committed
  <1> QED
    BY Zenon, <1>1, <1>3, <1>5

\* Until it commits, a transaction changes nothing that is committed.
LEMMA NothingCommitted ==
  ASSUME IInv, NEW t \in Txns, Step(t) \/ Abort(t), ~Commit(t)
  PROVE  Committed' = Committed
  <1>1. ASSUME NEW a \in Accounts PROVE Committed'[a] = Committed[a]
    <2>1. CASE a \in locked[t]
      <3>1. \A u \in Txns \ {t} : a \notin posted'[u]
        BY Zenon, <2>1, PostedOnce, OthersKeep
      <3>2. Committed'[a] = IF a \in posted'[t] THEN balance'[a] - Change(t, a) ELSE balance'[a]
        BY Zenon, <3>1, NetAt DEF Committed
      <3> QED
        BY Zenon, <2>1, <3>2, OwnBalances
    <2>2. CASE a \notin locked[t]
      BY Zenon, <2>2, OthersCommitted
    <2> QED
      BY Zenon, <2>1, <2>2
  <1> QED
    BY Zenon, <1>1 DEF Committed

\* The commit shows all postings of the transaction at once.
LEMMA AllCommitted ==
  ASSUME IInv, NEW t \in Txns, Commit(t)
  PROVE  /\ Committed' = [a \in Accounts |-> Committed[a] + Change(t, a)]
         /\ locked[t] = LockSet(t)
  <1>a. TypeOK /\ Staged(t) /\ phase[t] = "post" /\ posted[t] = LockSet(t)
    BY Zenon DEF IInv, Staged, Commit
  <1>b. locked[t] = LockSet(t) /\ posted'[t] = {} /\ balance' = balance
    BY Zenon, <1>a DEF Staged, Commit, End, TypeOK
  <1>c. Step(t)
    BY Zenon DEF Step
  <1>1. ASSUME NEW a \in Accounts PROVE Committed'[a] = Committed[a] + Change(t, a)
    <2>1. CASE a \in LockSet(t)
      <3>1. \A u \in Txns \ {t} : a \notin posted'[u]
        BY Zenon, <1>b, <1>c, <2>1, PostedOnce, OthersKeep
      <3>2. Committed'[a] = balance[a]
        BY Zenon, <1>b, <3>1, NetAt DEF Committed
      <3>3. Committed[a] = balance[a] - Change(t, a)
        BY Zenon, <1>a, <2>1, CommittedAt
      <3>4. balance[a] \in Int /\ Change(t, a) \in Int
        BY Zenon, <1>a, ChangeIsInt DEF TypeOK
      <3>5. balance[a] = (balance[a] - Change(t, a)) + Change(t, a)
        BY SMTT(30), <3>4
      <3> QED
        BY Zenon, <3>2, <3>3, <3>5
    <2>2. CASE a \notin LockSet(t)
      <3>1. Committed'[a] = Committed[a] /\ Change(t, a) = 0 /\ Committed[a] \in Int
        BY Zenon, <1>b, <1>c, <2>2, OthersCommitted, NoChangeOutside, CommittedAt
      <3> QED
        BY SMTT(30), <3>1
    <2> QED
      BY Zenon, <2>1, <2>2
  <1>2. Committed' = [a \in Accounts |-> Committed'[a]]
    BY Zenon DEF Committed
  <1> QED
    BY Zenon, <1>b, <1>1, <1>2

\* Before the first transaction nothing is held.
LEMMA AtomicInit == Init => AtomicInv
  <1> SUFFICES ASSUME Init PROVE AtomicInv
    OBVIOUS
  <1>1. ASSUME NEW t \in Txns PROVE ~HoldsRow(t) /\ ~HoldsKey(t)
    BY Zenon DEF Init, HoldsRow, HoldsKey
  <1>2. ASSUME NEW t \in Txns PROVE phase[t] \in {"row", "lock"}
    BY Zenon DEF Init
  <1> QED
    BY Zenon, <1>1, <1>2, InitIInv DEF AtomicInv, DebitReady, ResolveReady, KeysExclude

\* What the others have checked survives a step of t, also its commit.
LEMMA OthersReady ==
  ASSUME AtomicInv, NEW t \in Txns, Step(t) \/ Abort(t), NEW u \in Txns, u # t
  PROVE  DebitReady(u)' /\ ResolveReady(u)'
  <1>a. /\ IInv /\ DebitReady(u) /\ ResolveReady(u) /\ KeysExclude
        /\ phase'[u] = phase[u] /\ Staged(u)
    BY Zenon, OthersKeep DEF AtomicInv, IInv
  <1>b. HoldsKey(u)' = HoldsKey(u) /\ HoldsRow(u)' = HoldsRow(u)
    BY Zenon, <1>a DEF HoldsKey, HoldsRow
  <1>1. ASSUME Debit(u), phase[u] \in {"insert", "share", "post"}
        PROVE  Committed'[job[u].source] = Committed[job[u].source]
    <2>1. job[u].source \in locked[u] /\ job[u].source \in Accounts
      BY Zenon, <1>1, <1>a, JobRows DEF Staged
    <2>2. job[u].source \notin locked[t]
      BY Zenon, <1>a, <2>1 DEF IInv, Exclusive
    <2> QED
      BY Zenon, <1>a, <2>1, <2>2, OthersCommitted
  <1>2. /\ HoldsKey(u) => job[u].key \notin created'
        /\ HoldsRow(u) => job[u].transfer \notin resolved'
    <2>1. CASE Commit(t)
      <3>1. /\ created' = IF Debit(t) THEN created \cup {job[t].key} ELSE created
            /\ resolved' = IF Debit(t) THEN resolved ELSE resolved \cup {job[t].transfer}
            /\ phase[t] = "post"
        BY Zenon, <2>1 DEF Commit
      <3>2. (Debit(t) => HoldsKey(t)) /\ (~Debit(t) => HoldsRow(t))
        BY Zenon, <3>1 DEF HoldsKey, HoldsRow
      <3> QED
        BY Zenon, <1>a, <3>1, <3>2 DEF KeysExclude, DebitReady, ResolveReady
    <2>2. CASE ~Commit(t)
      <3>1. created' = created /\ resolved' = resolved
        BY Zenon, <2>2
        DEF Step, LockRow, LockAccount, CheckBalance, InsertTransfer, ShareAccount,
            PostAccount, Abort, Rollback
      <3> QED
        BY Zenon, <1>a, <3>1 DEF DebitReady, ResolveReady
    <2> QED
      BY Zenon, <2>1, <2>2
  <1>3. DebitReady(u)'
    BY Zenon, <1>a, <1>b, <1>1, <1>2 DEF DebitReady
  <1>4. ResolveReady(u)'
    BY Zenon, <1>a, <1>b, <1>2 DEF ResolveReady
  <1> QED
    BY Zenon, <1>3, <1>4

\* What t itself relies on was checked in the step that came to rely on it.
LEMMA OwnReady ==
  ASSUME AtomicInv, NEW t \in Txns, Step(t) \/ Abort(t)
  PROVE  DebitReady(t)' /\ ResolveReady(t)'
  <1>a. TypeOK /\ Staged(t) /\ DebitReady(t) /\ ResolveReady(t)
    BY Zenon DEF AtomicInv, IInv
  <1>1. ASSUME NEW how, End(t, how) PROVE DebitReady(t)' /\ ResolveReady(t)'
    <2>1. phase'[t] = "done"
      BY Zenon, <1>1, <1>a DEF End, TypeOK
    <2> QED
      BY Zenon, <2>1 DEF DebitReady, ResolveReady, HoldsKey, HoldsRow
  <1>2. ASSUME ~Commit(t), UNCHANGED <<created, resolved>>
        PROVE  Committed' = Committed /\ created' = created /\ resolved' = resolved
    BY Zenon, <1>2, NothingCommitted DEF AtomicInv
  <1>3. CASE LockRow(t)
    <2>1. CASE job[t].transfer \notin resolved /\ Proceed(t, "lock") /\ UNCHANGED resolved
      <3>1. phase'[t] = "lock" /\ resolved' = resolved
        BY Zenon, <2>1, <1>a DEF Proceed, TypeOK
      <3> QED
        BY Zenon, <2>1, <3>1 DEF DebitReady, ResolveReady, HoldsKey, HoldsRow
    <2> QED
      BY Zenon, <1>1, <1>3, <2>1 DEF LockRow, Rollback
  <1>4. CASE LockAccount(t)
    <2>1. /\ phase[t] = "lock" /\ resolved' = resolved
          /\ phase'[t] \in {"lock", "check"} \/ (phase'[t] = "post" /\ ~Debit(t))
      BY Zenon, <1>4, <1>a DEF LockAccount, Proceed, TypeOK
    <2> QED
      BY Zenon, <1>a, <2>1 DEF DebitReady, ResolveReady, HoldsKey, HoldsRow
  <1>5. CASE CheckBalance(t)
    <2>1. CASE /\ phase[t] = "check" /\ balance[job[t].source] >= job[t].source_points
               /\ Proceed(t, "insert")
               /\ UNCHANGED <<locked, shared, posted, balance, created, resolved, outcome>>
      <3>1. phase'[t] = "insert" /\ Debit(t) /\ posted[t] = {} /\ locked[t] = LockSet(t)
        BY Zenon, <2>1, <1>a DEF Proceed, TypeOK, Staged
      <3>2. job[t].source \in locked[t] /\ job[t].source \in Accounts
        BY Zenon, <3>1, JobRows DEF LockSet, Debit
      <3>3. Committed[job[t].source] = balance[job[t].source]
        BY Zenon, <3>1, <3>2, PostedOnce, CommittedAt DEF AtomicInv
      <3>4. Committed' = Committed
        BY Zenon, <2>1 DEF Committed
      <3> QED
        BY Zenon, <2>1, <3>1, <3>3, <3>4 DEF DebitReady, ResolveReady, HoldsKey, HoldsRow
    <2> QED
      BY Zenon, <1>1, <1>5, <2>1 DEF CheckBalance, Rollback
  <1>6. CASE InsertTransfer(t)
    <2>1. CASE /\ phase[t] = "insert" /\ job[t].key \notin created /\ Proceed(t, "share")
               /\ UNCHANGED <<locked, shared, posted, balance, created, resolved, outcome>>
      <3>1. phase'[t] = "share" /\ created' = created
        BY Zenon, <2>1, <1>a DEF Proceed, TypeOK
      <3>2. Committed' = Committed
        BY Zenon, <2>1 DEF Committed
      <3> QED
        BY Zenon, <1>a, <2>1, <3>1, <3>2 DEF DebitReady, ResolveReady, HoldsKey, HoldsRow
    <2> QED
      BY Zenon, <1>1, <1>6, <2>1 DEF InsertTransfer, Rollback
  <1>7. CASE ShareAccount(t)
    <2>1. /\ phase[t] = "share" /\ phase'[t] \in {"share", "post"} /\ Debit(t)
          /\ created' = created /\ resolved' = resolved
      BY Zenon, <1>7, <1>a DEF ShareAccount, Proceed, TypeOK, Staged
    <2>2. Committed' = Committed
      BY Zenon, <1>7 DEF ShareAccount, Committed
    <2> QED
      BY Zenon, <1>a, <2>1, <2>2 DEF DebitReady, ResolveReady, HoldsKey, HoldsRow
  <1>8. CASE PostAccount(t)
    <2>1. /\ phase' = phase /\ created' = created /\ resolved' = resolved /\ ~Commit(t)
      BY Zenon, <1>8 DEF PostAccount, Commit
    <2>2. Committed' = Committed
      BY Zenon, <1>2, <2>1
    <2> QED
      BY Zenon, <1>a, <2>1, <2>2 DEF DebitReady, ResolveReady, HoldsKey, HoldsRow
  <1>9. CASE Commit(t) \/ Abort(t)
    BY Zenon, <1>1, <1>9 DEF Commit, Abort, Rollback
  <1> QED
    BY Zenon, <1>3, <1>4, <1>5, <1>6, <1>7, <1>8, <1>9 DEF Step

\* A transaction comes to hold a key or a transfer only while no other holds it.
LEMMA KeysStep ==
  ASSUME AtomicInv, NEW t \in Txns, Step(t) \/ Abort(t)
  PROVE  KeysExclude'
  <1>a. TypeOK /\ Staged(t) /\ KeysExclude
    BY Zenon DEF AtomicInv, IInv
  <1>b. \A u \in Txns \ {t} : phase'[u] = phase[u]
    BY Zenon, OthersKeep DEF AtomicInv
  <1>c. \A u \in Txns \ {t} : HoldsKey(u)' = HoldsKey(u) /\ HoldsRow(u)' = HoldsRow(u)
    BY Zenon, <1>b DEF HoldsKey, HoldsRow
  <1>1. /\ HoldsKey(t)' => HoldsKey(t) \/ \A u \in Txns \ {t} : HoldsKey(u) => job[u].key # job[t].key
        /\ HoldsRow(t)' => HoldsRow(t)
                             \/ \A u \in Txns \ {t} : HoldsRow(u) => job[u].transfer # job[t].transfer
    <2>1. ASSUME NEW how, End(t, how) PROVE ~HoldsKey(t)' /\ ~HoldsRow(t)'
      <3>1. phase'[t] = "done"
        BY Zenon, <2>1, <1>a DEF End, TypeOK
      <3> QED
        BY Zenon, <3>1 DEF HoldsKey, HoldsRow
    <2>2. CASE LockRow(t)
      <3>1. ~Debit(t)
        BY Zenon, <1>a, <2>2 DEF LockRow, Staged
      <3> QED
        BY Zenon, <2>2, <3>1 DEF LockRow, HoldsKey
    <2>3. CASE LockAccount(t)
      <3>1. phase[t] = "lock" /\ (Debit(t) => phase'[t] \in {"lock", "check"})
        BY Zenon, <1>a, <2>3 DEF LockAccount, Proceed, TypeOK
      <3> QED
        BY Zenon, <3>1 DEF HoldsKey, HoldsRow
    <2>4. CASE CheckBalance(t)
      <3>1. CASE Proceed(t, "insert")
        <4>1. phase'[t] = "insert"
          BY Zenon, <1>a, <3>1 DEF Proceed, TypeOK
        <4> QED
          BY Zenon, <4>1 DEF HoldsKey, HoldsRow
      <3> QED
        BY Zenon, <2>1, <2>4, <3>1 DEF CheckBalance, Rollback
    <2>5. CASE InsertTransfer(t)
      <3>1. Debit(t)
        BY Zenon, <1>a, <2>5 DEF InsertTransfer, Staged
      <3> QED
        BY Zenon, <2>5, <3>1 DEF InsertTransfer, HoldsRow
    <2>6. CASE ShareAccount(t)
      <3>1. phase[t] = "share" /\ Debit(t)
        BY Zenon, <1>a, <2>6 DEF ShareAccount, Staged
      <3> QED
        BY Zenon, <3>1 DEF HoldsKey, HoldsRow
    <2>7. CASE PostAccount(t)
      BY Zenon, <2>7 DEF PostAccount, HoldsKey, HoldsRow
    <2>8. CASE Commit(t) \/ Abort(t)
      BY Zenon, <2>1, <2>8 DEF Commit, Abort, Rollback
    <2> QED
      BY Zenon, <2>2, <2>3, <2>4, <2>5, <2>6, <2>7, <2>8 DEF Step
  <1> QED
    BY Zenon, <1>a, <1>c, <1>1 DEF KeysExclude

LEMMA AtomicStep == AtomicInv /\ [Next]_vars => AtomicInv'
  <1> SUFFICES ASSUME AtomicInv, [Next]_vars PROVE AtomicInv'
    OBVIOUS
  <1>1. IInv'
    BY Zenon, NextIInv DEF AtomicInv
  <1>2. ASSUME NEW t \in Txns, Step(t) \/ Abort(t) PROVE AtomicInv'
    <2>1. \A u \in Txns : DebitReady(u)' /\ ResolveReady(u)'
      BY Zenon, <1>2, OwnReady, OthersReady
    <2>2. KeysExclude'
      BY Zenon, <1>2, KeysStep
    <2> QED
      BY Zenon, <1>1, <2>1, <2>2 DEF AtomicInv
  <1>3. CASE UNCHANGED vars
    <2>1. /\ phase' = phase /\ posted' = posted /\ balance' = balance
          /\ created' = created /\ resolved' = resolved
      BY Zenon, <1>3 DEF vars
    <2>2. Committed' = Committed
      BY Zenon, <2>1 DEF Committed
    <2>3. \A u \in Txns : DebitReady(u)' /\ ResolveReady(u)'
      BY Zenon, <2>1, <2>2 DEF AtomicInv, DebitReady, ResolveReady, HoldsKey, HoldsRow
    <2>4. KeysExclude'
      BY Zenon, <2>1 DEF AtomicInv, KeysExclude, HoldsKey, HoldsRow
    <2> QED
      BY Zenon, <1>1, <2>3, <2>4 DEF AtomicInv
  <1> QED
    BY Zenon, <1>2, <1>3 DEF Next

\* The initial balances are committed.
LEMMA ContractInit == Init => Contract!Init
  <1> SUFFICES ASSUME Init PROVE Contract!Init
    OBVIOUS
  <1>1. \A t \in Txns : posted[t] = {}
    BY Zenon DEF Init
  <1>2. \A a \in Accounts : Committed[a] = OpeningBalance[a]
    BY Zenon, <1>1 DEF Init, Committed
  <1>3. Committed = [a \in Accounts |-> Committed[a]]
    BY Zenon DEF Committed
  <1>4. OpeningBalance = [a \in Accounts |-> OpeningBalance[a]]
    BY Zenon, LocksAssumption
  <1>5. Committed = OpeningBalance
    BY Zenon, <1>2, <1>3, <1>4
  <1> QED
    BY Zenon, <1>5 DEF Init, Contract!Init

\* A commit is a step of the contract; everything before it is a stutter.
LEMMA ContractStep ==
  AtomicInv /\ [Next]_vars => [Contract!Next]_<<Committed, created, resolved>>
  <1> SUFFICES ASSUME AtomicInv, [Next]_vars
               PROVE  [Contract!Next]_<<Committed, created, resolved>>
    OBVIOUS
  <1>1. ASSUME NEW t \in Txns, Commit(t) PROVE Contract!Next
    <2>a. /\ phase[t] = "post" /\ DebitReady(t) /\ ResolveReady(t)
          /\ Committed' = [a \in Accounts |-> Committed[a] + Change(t, a)]
      BY Zenon, <1>1, AllCommitted DEF AtomicInv, Commit
    <2>1. CASE Debit(t)
      <3>1. created' = created \cup {job[t].key} /\ resolved' = resolved
        BY Zenon, <1>1, <2>1 DEF Commit
      <3>2. /\ Committed[job[t].source] >= job[t].source_points
            /\ job[t].key \notin created
        BY Zenon, <2>a, <2>1 DEF DebitReady, HoldsKey
      <3>3. Contract!DebitSource(t)
        BY Zenon, <2>a, <2>1, <3>1, <3>2 DEF Contract!DebitSource, Contract!PostAll, Debit
      <3> QED
        BY Zenon, <3>3 DEF Contract!Next
    <2>2. CASE ~Debit(t)
      <3>1. resolved' = resolved \cup {job[t].transfer} /\ created' = created
        BY Zenon, <1>1, <2>2 DEF Commit
      <3>2. job[t].transfer \notin resolved
        BY Zenon, <2>a, <2>2 DEF ResolveReady, HoldsRow
      <3>3. job[t].kind \in {"settle", "reverse"}
        BY Zenon, <2>2, LocksAssumption DEF Jobs, Debit
      <3>4. Contract!Resolve(t)
        BY Zenon, <2>a, <3>1, <3>2, <3>3 DEF Contract!Resolve, Contract!PostAll
      <3> QED
        BY Zenon, <3>4 DEF Contract!Next
    <2> QED
      BY Zenon, <2>1, <2>2
  <1>2. ASSUME NEW t \in Txns, Step(t) \/ Abort(t), ~Commit(t)
        PROVE  UNCHANGED <<Committed, created, resolved>>
    <2>1. Committed' = Committed
      BY Zenon, <1>2, NothingCommitted DEF AtomicInv
    <2>2. created' = created /\ resolved' = resolved
      BY Zenon, <1>2
      DEF Step, LockRow, LockAccount, CheckBalance, InsertTransfer, ShareAccount,
          PostAccount, Abort, Rollback
    <2> QED
      BY Zenon, <2>1, <2>2
  <1>3. CASE UNCHANGED vars
    BY Zenon, <1>3 DEF vars, Committed
  <1> QED
    BY Zenon, <1>1, <1>2, <1>3 DEF Next

\* The transactions of _debit_source, settle_transfer and reverse_transfer,
\* which lock, check, insert and post row by row and may end at any point,
\* implement the atomic ones: all their balances change at the commit, and a
\* debit commits only what the source had, once per key, a resolution once per
\* transfer.  This is what lets TransferSaga take each for one step.
THEOREM TransactionsAtomic == Spec => TransactionsAreAtomic
  <1>1. Spec => []AtomicInv
    BY AtomicInit, AtomicStep, PTL DEF Spec
  <1> QED
    BY <1>1, ContractInit, ContractStep, PTL DEF Spec, TransactionsAreAtomic, Contract!Spec
=============================================================================
