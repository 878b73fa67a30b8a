--------------------------- MODULE MCRatePricing ---------------------------
(***************************************************************************)
(* Small instances of RatePricing for TLC.                                 *)
(***************************************************************************)
EXTENDS RatePricing, TLC

Terms(n, d, low, step, high) ==
    [numerator |-> n, denominator |-> d, min_source_points |-> low,
     source_increment |-> step, max_source_points |-> high]

\* Terms unlike the opening ones in every respect, and terms no admin may set.
MCTerms == {Terms(1, 8, 4, 2, 40), Terms(1, 1, 3, 2, 0)}

\* Two bonuses that overlap.
MCBonuses == {[bonus_bps |-> 2500, starts_at |-> 1, ends_at |-> 3],
              [bonus_bps |-> 10000, starts_at |-> 2, ends_at |-> 4]}

MCOpening == {<<>>, <<[version |-> 1, terms |-> Terms(4, 3, 2, 1, 0),
                       effective_from |-> 0, effective_to |-> Forever]>>}

\* Admins differ in nothing but their names.
MCSymmetry == Permutations(Admins)

\* Amounts that meet the limits and the rounding of the terms.
MCAmount == [c \in Callers |-> IF c \in Quotes THEN 6 ELSE 10]
=============================================================================
