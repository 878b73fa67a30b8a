---------------------------- MODULE LedgerLocks ----------------------------
(***************************************************************************)
(* The row locks of the transactions that post journals, one lock at a     *)
(* time.  TransferSaga takes such a transaction for one step; this module  *)
(* is about what happens inside.                                           *)
(*                                                                         *)
(*   app/services/ledger.py            lock_accounts_for_update,           *)
(*                                     post_journal                        *)
(*   app/services/transfer_service.py  _debit_source, lock_transfer,       *)
(*                                     settle_transfer, reverse_transfer   *)
(*                                                                         *)
(* Accounts are their ids.  Accounts and transfers are locked FOR NO KEY   *)
(* UPDATE; inserting a transfer takes FOR KEY SHARE on the accounts it     *)
(* references, and an entry of the unique key that makes a second insert   *)
(* of the key wait.  All locks are held to the end of the transaction.     *)
(***************************************************************************)
EXTENDS Integers, FiniteSets

CONSTANTS
    Txns,
    job,             \* what each transaction is to do, and with which rows
    Accounts, UserAccounts, Transfers, Keys,
    MaxId,           \* the largest BIGINT
    OpeningBalance

Jobs == [kind : {"debit", "settle", "reverse"}, transfer : Transfers, key : Keys,
         source : Accounts, destination : Accounts, clearing : Accounts,
         source_settlement : Accounts, destination_settlement : Accounts,
         source_points : Nat \ {0}, destination_points : Nat \ {0}]

ASSUME LocksAssumption ==
    /\ MaxId \in Nat
    /\ Accounts \subseteq 0 .. MaxId /\ UserAccounts \subseteq Accounts
    /\ job \in [Txns -> Jobs]
    /\ \A t \in Txns : /\ job[t].source \in UserAccounts
                       /\ job[t].clearing \notin UserAccounts
    /\ OpeningBalance \in [Accounts -> Int]

VARIABLES
    phase,      \* how far each transaction is
    locked,     \* the accounts it holds FOR NO KEY UPDATE
    shared,     \* the accounts it holds FOR KEY SHARE
    posted,     \* the accounts whose balance it has changed
    balance,
    created,    \* the keys that have a committed transfer
    resolved,   \* the transfers whose resolution is committed
    outcome

vars == <<phase, locked, shared, posted, balance, created, resolved, outcome>>

Debit(t) == job[t].kind = "debit"

TypeOK ==
    /\ phase \in [Txns -> {"row", "lock", "check", "insert", "share", "post", "done"}]
    /\ locked \in [Txns -> SUBSET Accounts]
    /\ shared \in [Txns -> SUBSET Accounts]
    /\ posted \in [Txns -> SUBSET Accounts]
    /\ \A t \in Txns : phase[t] = "done" => locked[t] = {} /\ shared[t] = {}
    /\ balance \in [Accounts -> Int]
    /\ created \subseteq Keys
    /\ resolved \subseteq Transfers
    /\ outcome \in [Txns -> {"open", "committed", "refused", "duplicate", "resolved", "aborted"}]

Init ==
    /\ phase = [t \in Txns |-> IF Debit(t) THEN "lock" ELSE "row"]
    /\ locked = [t \in Txns |-> {}]
    /\ shared = [t \in Txns |-> {}]
    /\ posted = [t \in Txns |-> {}]
    /\ balance = OpeningBalance
    /\ created = {}
    /\ resolved = {}
    /\ outcome = [t \in Txns |-> "open"]
-----------------------------------------------------------------------------
\* The accounts a transaction locks, and by how much it changes each.
LockSet(t) ==
    LET j == job[t] IN
    CASE j.kind = "debit"   -> {j.source, j.clearing}
      [] j.kind = "settle"  -> {j.clearing, j.source_settlement, j.destination_settlement,
                                j.destination}
      [] j.kind = "reverse" -> {j.clearing, j.source}

Change(t, a) ==
    LET j == job[t]
        if(cond, n) == IF cond THEN n ELSE 0
    IN  CASE j.kind = "debit" ->
               if(a = j.clearing, j.source_points) - if(a = j.source, j.source_points)
          [] j.kind = "settle" ->
               if(a = j.source_settlement, j.source_points) - if(a = j.clearing, j.source_points)
               + if(a = j.destination, j.destination_points)
               - if(a = j.destination_settlement, j.destination_points)
          [] j.kind = "reverse" ->
               if(a = j.source, j.source_points) - if(a = j.clearing, j.source_points)

\* Variant: a lock FOR UPDATE, which a key share has to wait for.
ForUpdate == TRUE

\* Whether a locked account and a key share of it exclude each other.
ShareConflicts == FALSE

HoldsRow(t) == ~Debit(t) /\ phase[t] \in {"lock", "post"}
HoldsKey(t) == Debit(t) /\ phase[t] \in {"share", "post"}

\* Variant: accounts read without a lock.
LockIgnored(t, a) == TRUE

LockFree(t, a) ==
    \A u \in Txns \ {t} : a \notin locked[u] /\ (ShareConflicts => a \notin shared[u])

\* ORDER BY id, and sorted(...) in post_journal.
Lowest(S) == CHOOSE a \in S : \A b \in S : a <= b

\* Variant: a transaction left open.
EndHolding(t, how) ==
    /\ phase' = [phase EXCEPT ![t] = "done"]
    /\ outcome' = [outcome EXCEPT ![t] = how]
    /\ UNCHANGED <<locked, shared, posted>>

\* The transaction is over and its locks are gone.
End(t, how) ==
    /\ phase' = [phase EXCEPT ![t] = "done"]
    /\ locked' = [locked EXCEPT ![t] = {}]
    /\ shared' = [shared EXCEPT ![t] = {}]
    /\ posted' = [posted EXCEPT ![t] = {}]
    /\ outcome' = [outcome EXCEPT ![t] = how]

Rollback(t, why) ==
    /\ End(t, why)
    /\ balance' = [a \in Accounts |->
                     IF a \in posted[t] THEN balance[a] - Change(t, a) ELSE balance[a]]
    /\ UNCHANGED <<created, resolved>>

Proceed(t, next) == phase' = [phase EXCEPT ![t] = next]
-----------------------------------------------------------------------------
\* Variant: the status is not looked at again under the lock.
LockRowOnly(t) ==
    /\ phase[t] = "row"
    /\ \A u \in Txns \ {t} : HoldsRow(u) => job[u].transfer # job[t].transfer
    /\ Proceed(t, "lock")
    /\ UNCHANGED <<locked, shared, posted, balance, created, resolved, outcome>>

\* lock_transfer; a transfer that has been resolved meanwhile is left alone.
LockRow(t) ==
    /\ phase[t] = "row"
    /\ \A u \in Txns \ {t} : HoldsRow(u) => job[u].transfer # job[t].transfer
    /\ \/ job[t].transfer \in resolved /\ Rollback(t, "resolved")
       \/ /\ job[t].transfer \notin resolved
          /\ Proceed(t, "lock")
          /\ UNCHANGED <<locked, shared, posted, balance, created, resolved, outcome>>

\* One row of lock_accounts_for_update.
LockAccount(t) ==
    LET a == Lowest(LockSet(t) \ locked[t]) IN
    /\ phase[t] = "lock"
    /\ LockFree(t, a)
    /\ locked' = [locked EXCEPT ![t] = @ \cup {a}]
    /\ Proceed(t, IF LockSet(t) \subseteq locked[t] \cup {a}
                  THEN IF Debit(t) THEN "check" ELSE "post"
                  ELSE "lock")
    /\ UNCHANGED <<shared, posted, balance, created, resolved, outcome>>

CheckBalance(t) ==
    /\ phase[t] = "check"
    /\ \/ balance[job[t].source] < job[t].source_points /\ Rollback(t, "refused")
       \/ /\ balance[job[t].source] >= job[t].source_points
          /\ Proceed(t, "insert")
          /\ UNCHANGED <<locked, shared, posted, balance, created, resolved, outcome>>

\* An insert waits for an uncommitted one of the same key, and fails after
\* its commit.
InsertTransfer(t) ==
    /\ phase[t] = "insert"
    /\ \A u \in Txns \ {t} : HoldsKey(u) => job[u].key # job[t].key
    /\ \/ job[t].key \in created /\ Rollback(t, "duplicate")
       \/ /\ job[t].key \notin created
          /\ Proceed(t, "share")
          /\ UNCHANGED <<locked, shared, posted, balance, created, resolved, outcome>>

Referenced(t) == {job[t].source, job[t].destination}

\* The foreign keys of the new transfer.
ShareAccount(t) ==
    /\ phase[t] = "share"
    /\ \E a \in Referenced(t) \ shared[t] :
          /\ ShareConflicts => \A u \in Txns \ {t} : a \notin locked[u]
          /\ shared' = [shared EXCEPT ![t] = @ \cup {a}]
          /\ Proceed(t, IF Referenced(t) \subseteq shared[t] \cup {a} THEN "post" ELSE "share")
    /\ UNCHANGED <<locked, posted, balance, created, resolved, outcome>>

\* One UPDATE of post_journal.  The CHECK of a user's balance is left to
\* DebitNeverBounces.
PostAccount(t) ==
    LET a == Lowest(LockSet(t) \ posted[t]) IN
    /\ phase[t] = "post" /\ ~(LockSet(t) \subseteq posted[t])
    /\ a \in locked[t] \/ LockFree(t, a)
    /\ locked' = [locked EXCEPT ![t] = @ \cup {a}]
    /\ posted' = [posted EXCEPT ![t] = @ \cup {a}]
    /\ balance' = [balance EXCEPT ![a] = @ + Change(t, a)]
    /\ UNCHANGED <<phase, shared, created, resolved, outcome>>

Commit(t) ==
    /\ phase[t] = "post" /\ LockSet(t) \subseteq posted[t]
    /\ End(t, "committed")
    /\ created' = IF Debit(t) THEN created \cup {job[t].key} ELSE created
    /\ resolved' = IF Debit(t) THEN resolved ELSE resolved \cup {job[t].transfer}
    /\ UNCHANGED balance

\* The process dies, or a statement or lock timeout ends the transaction.
Abort(t) == phase[t] # "done" /\ Rollback(t, "aborted")
-----------------------------------------------------------------------------
Step(t) ==
    \/ LockRow(t) \/ LockAccount(t) \/ CheckBalance(t) \/ InsertTransfer(t)
    \/ ShareAccount(t) \/ PostAccount(t) \/ Commit(t)

Next == \E t \in Txns : Step(t) \/ Abort(t)

Spec == Init /\ [][Next]_vars
-----------------------------------------------------------------------------
\* The account that the transaction asks for next, if it waits for one.
AsksFor(t) ==
    CASE phase[t] = "lock"  -> {Lowest(LockSet(t) \ locked[t])}
      [] phase[t] = "share" -> IF ShareConflicts THEN Referenced(t) \ shared[t] ELSE {}
      [] phase[t] = "post"  -> IF LockSet(t) \subseteq posted[t] THEN {}
                               ELSE {Lowest(LockSet(t) \ posted[t])} \ locked[t]
      [] OTHER -> {}

WaitsFor(t, u) ==
    /\ t # u
    /\ \/ phase[t] = "row" /\ HoldsRow(u) /\ job[t].transfer = job[u].transfer
       \/ phase[t] = "insert" /\ HoldsKey(u) /\ job[t].key = job[u].key
       \/ \E a \in AsksFor(t) :
             a \in locked[u] \/ (ShareConflicts /\ phase[t] # "share" /\ a \in shared[u])

\* "two transactions can never wait on each other in a cycle": in any group
\* of transactions one waits for nobody of the group.
NoWaitCycle ==
    \A S \in (SUBSET Txns) \ {{}} : \E t \in S : \A u \in S : ~WaitsFor(t, u)

\* The balance read under the lock is still there when the debit is posted:
\* a debit that passed its check never meets the CHECK constraint.
DebitNeverBounces ==
    \A t \in Txns :
        /\ Debit(t) /\ phase[t] \in {"insert", "share", "post"}
        /\ job[t].source \notin posted[t]
        => balance[job[t].source] >= job[t].source_points

\* The balances without what open transactions have posted.
Committed ==
    [a \in Accounts |->
       IF \E t \in Txns : a \in posted[t]
       THEN balance[a] - Change(CHOOSE t \in Txns : a \in posted[t], a)
       ELSE balance[a]]

Contract == INSTANCE LedgerContract WITH committed <- Committed

\* Row by row and interleaved with others, a transaction has the effect of one
\* step: its balances change all together at the commit, and what it checked
\* under its locks is still true then (lock_accounts_for_update, post_journal).
TransactionsAreAtomic == Contract!Spec
=============================================================================
