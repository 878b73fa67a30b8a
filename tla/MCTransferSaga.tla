--------------------------- MODULE MCTransferSaga ---------------------------
(***************************************************************************)
(* Small instances of TransferSaga for TLC.                                *)
(***************************************************************************)
EXTENDS TransferSaga, TLC

\* Workers are interchangeable.
WorkerSymmetry == Permutations(Workers)

MCUsers    == {"ann"}
MCPrograms == {"card", "air"}
MCKeys     == {"k1", "k2", "k3"}

MCOpeningBalance    == [a \in MCUsers \X MCPrograms |->
                          IF a[2] = "card" THEN 5 ELSE 0]
MCOpeningSettlement == [p \in MCPrograms |-> IF p = "card" THEN -5 ELSE 0]

Ask(key, from, to, points, gets) ==
    [user |-> "ann", key |-> key, source |-> from, destination |-> to,
     source_points |-> points, destination_points |-> gets]

\* One transfer: all timing of the request, the partner and two reconcilers.
OneRequest == <<Ask("k1", "card", "air", 3, 2)>>

\* A transfer, its key again, a transfer that competes for the same balance,
\* and one that can only be paid with what the others deliver.
FourRequests == <<Ask("k1", "card", "air", 3, 2),
                  Ask("k1", "card", "air", 3, 2),
                  Ask("k2", "card", "air", 4, 2),
                  Ask("k3", "air", "card", 2, 1)>>
=============================================================================
