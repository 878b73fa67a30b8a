----------------------------- MODULE RateEngine -----------------------------
(***************************************************************************)
(* Pricing without state: the conversion of app/services/rate_engine.py    *)
(* and the queries of app/services/rate_repository.py, as functions of the *)
(* rows of one route.                                                      *)
(*                                                                         *)
(* Moments are numbers.  A NULL end (effective_to, valid_until) is the     *)
(* moment Forever, later than any other.  None is a record that no row     *)
(* equals: NoRate has version 0, NoBonus an empty period.  The terms of a  *)
(* rate without a maximum have max_source_points 0.                        *)
(***************************************************************************)
EXTENDS Integers, Sequences, FiniteSetsExt

CONSTANT Forever

BPS_DENOMINATOR == 10000

NoRate  == [version |-> 0]
NoBonus == [bonus_bps |-> 0, starts_at |-> 0, ends_at |-> 0]

\* Variant: a bonus that was found once applies whenever it is used.
AppliesAlways(bonus, at) == bonus.starts_at < bonus.ends_at

applies_at(bonus, at) == bonus.starts_at <= at /\ at < bonus.ends_at

\* Variant: the division rounds up.
CeilingOf(points, terms) == (points * terms.numerator + terms.denominator - 1) \div terms.denominator

BasePoints(points, terms) == (points * terms.numerator) \div terms.denominator
BonusPoints(base, bps)   == (base * bps) \div BPS_DENOMINATOR

AppliedBps(bonus, at) == IF applies_at(bonus, at) THEN bonus.bonus_bps ELSE 0

Refused(code) == [code |-> code, base_points |-> 0, bonus_points |-> 0, destination_points |-> 0]

\* The limits of the route, in the order in which they are tested.
Limit(terms, points) ==
    IF points < terms.min_source_points THEN "BELOW_MINIMUM"
    ELSE IF terms.max_source_points # 0 /\ points > terms.max_source_points THEN "ABOVE_MAXIMUM"
    ELSE IF points % terms.source_increment # 0 THEN "INVALID_INCREMENT"
    ELSE "ok"

\* Variant: an amount that converts to nothing is accepted.
ConvertToZero(terms, points, bonus, at) ==
    LET base  == BasePoints(points, terms)
        extra == BonusPoints(base, AppliedBps(bonus, at))
    IN  IF Limit(terms, points) # "ok" THEN Refused(Limit(terms, points))
        ELSE [code |-> "ok", base_points |-> base, bonus_points |-> extra,
              destination_points |-> base + extra]

calculate_conversion(terms, points, bonus, at) ==
    LET base  == BasePoints(points, terms)
        extra == BonusPoints(base, AppliedBps(bonus, at))
    IN  IF Limit(terms, points) # "ok" THEN Refused(Limit(terms, points))
        ELSE IF base + extra = 0 THEN Refused("ZERO_DESTINATION_POINTS")
        ELSE [code |-> "ok", base_points |-> base, bonus_points |-> extra,
              destination_points |-> base + extra]
-----------------------------------------------------------------------------
\* get_route: the version in force, the latest to begin if there are several.
InForce(row, at) == row.effective_from <= at /\ row.effective_to > at

ActiveRate(rates, at) ==
    LET live == {i \in 1 .. Len(rates) : InForce(rates[i], at)}
        last == CHOOSE i \in live :
                   \A j \in live : rates[j].effective_from <= rates[i].effective_from
    IN  IF live = {} THEN NoRate ELSE rates[last]

ActiveBonus(bonuses, at) ==
    LET live == {b \in bonuses : b.starts_at <= at /\ b.ends_at > at}
    IN  IF live = {} THEN NoBonus ELSE CHOOSE b \in live : TRUE

\* When the configuration changes by itself: the rate or the bonus ends, or a
\* scheduled bonus starts.
ValidUntil(rate, bonus, bonuses, at) ==
    Min({Forever}
        \cup (IF rate = NoRate THEN {} ELSE {rate.effective_to})
        \cup (IF bonus = NoBonus THEN {} ELSE {bonus.ends_at})
        \cup {b.starts_at : b \in {c \in bonuses : c.starts_at > at}})

\* The CHECK constraints of conversion_rates.
RateChecks(new) ==
    /\ new.numerator > 0 /\ new.denominator > 0
    /\ new.min_source_points >= 1 /\ new.source_increment >= 1
    /\ new.max_source_points = 0 \/ new.max_source_points >= new.min_source_points

\* _validate_rate: the minimum itself is a valid amount.
ValidRate(new) == RateChecks(new) /\ new.min_source_points % new.source_increment = 0

\* The exclusion constraint of transfer_bonuses.
Overlap(b, c) == b.starts_at < c.ends_at /\ c.starts_at < b.ends_at
=============================================================================
