--------------------------- MODULE MCIdempotency ---------------------------
(***************************************************************************)
(* Small instances of Idempotency for TLC.                                 *)
(***************************************************************************)
EXTENDS Idempotency

\* Two requests for the same, or for different things.
MCAsks   == {[r \in Requests |-> "a"],
             [r \in Requests |-> IF r = "r1" THEN "a" ELSE "b"]}
\* One request and its retry, or two clients that ask for the same.
MCSame   == {[r \in Requests |-> "a"]}
MCKey    == [r \in Requests |-> "k1"]
MCPoints == [b \in Bodies |-> IF b = "a" THEN 3 ELSE 2]
=============================================================================
