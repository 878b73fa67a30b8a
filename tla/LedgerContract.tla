--------------------------- MODULE LedgerContract ---------------------------
(***************************************************************************)
(* What the rest of the engine takes a posting transaction for: one step   *)
(* that changes all its balances, or none.  The step is possible only if   *)
(* the committed balance covers the debit and its key has no transfer yet, *)
(* or, of a settlement or reversal, if the transfer has none of them yet.  *)
(***************************************************************************)
EXTENDS Integers

CONSTANTS
    Txns, job, Accounts, OpeningBalance,
    Change(_, _)    \* by how much a transaction changes an account

VARIABLES
    committed,      \* the balances every transaction can see
    created,        \* the keys that have a transfer
    resolved        \* the transfers that were settled or reversed

Init ==
    /\ committed = OpeningBalance
    /\ created = {}
    /\ resolved = {}

PostAll(t) == committed' = [a \in Accounts |-> committed[a] + Change(t, a)]

DebitSource(t) ==
    /\ job[t].kind = "debit"
    /\ committed[job[t].source] >= job[t].source_points
    /\ job[t].key \notin created
    /\ created' = created \cup {job[t].key}
    /\ PostAll(t)
    /\ UNCHANGED resolved

Resolve(t) ==
    /\ job[t].kind \in {"settle", "reverse"}
    /\ job[t].transfer \notin resolved
    /\ resolved' = resolved \cup {job[t].transfer}
    /\ PostAll(t)
    /\ UNCHANGED created

Next == \E t \in Txns : DebitSource(t) \/ Resolve(t)

Spec == Init /\ [][Next]_<<committed, created, resolved>>
=============================================================================
