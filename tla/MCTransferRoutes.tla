------------------------- MODULE MCTransferRoutes -------------------------
(***************************************************************************)
(* A small instance of TransferRoutes for TLC.                             *)
(***************************************************************************)
EXTENDS TransferRoutes, TLC

MCSymmetry == Permutations(Posts \ Earlier)
=============================================================================
