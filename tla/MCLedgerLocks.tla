-------------------------- MODULE MCLedgerLocks ---------------------------
(***************************************************************************)
(* Small instances of LedgerLocks for TLC: one user with an account in     *)
(* each of two programs, and transfers in both directions.                 *)
(***************************************************************************)
EXTENDS LedgerLocks

\* The ids of the accounts mix users' and system accounts of both programs.
Program1 == [user |-> 2, clearing |-> 3, settlement |-> 6]
Program2 == [user |-> 4, clearing |-> 5, settlement |-> 1]

MCAccounts == 1 .. 6
MCUsers    == {2, 4}

Job(kind, transfer, key, from, to) ==
    [kind |-> kind, transfer |-> transfer, key |-> key,
     source |-> from.user, destination |-> to.user, clearing |-> from.clearing,
     source_settlement |-> from.settlement, destination_settlement |-> to.settlement,
     source_points |-> 2, destination_points |-> 1]

\* Two debits of one account, two with one key in opposite directions, and two
\* resolutions of one transfer.
MCJob == [debit1 |-> Job("debit", "x1", "k1", Program1, Program2),
          debit2 |-> Job("debit", "x2", "k1", Program2, Program1),
          debit3 |-> Job("debit", "x3", "k3", Program1, Program2),
          settle |-> Job("settle", "x4", "k4", Program2, Program1),
          reverse |-> Job("reverse", "x4", "k4", Program2, Program1)]

\* Enough for one debit of each account; x4 is in the clearing of program 2.
MCOpening == [a \in MCAccounts |-> CASE a \in MCUsers -> 3 [] a = 5 -> 2 [] OTHER -> 0]
=============================================================================
