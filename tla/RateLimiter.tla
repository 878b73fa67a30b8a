---------------------------- MODULE RateLimiter ----------------------------
(***************************************************************************)
(* The fixed-window counter of app/cache/rate_limiter.py.  Time is counted *)
(* in ticks, Second of them to a second, so that a request can come at a   *)
(* fraction of a second.                                                   *)
(***************************************************************************)
EXTENDS Integers, FiniteSetsExt

CONSTANTS
    Second,           \* ticks of the clock in a second
    WindowSeconds,    \* rate_limit_window_seconds
    RateLimit         \* rate_limit_transfers_per_window

WindowOf(now) == now \div (WindowSeconds * Second)

\* Ticks to the end of the window of a moment.
Remaining(now) == (WindowOf(now) + 1) * WindowSeconds * Second - now

\* Variant: whole seconds, rounded down.
RetryAtOnce(now) == Max({1, Remaining(now) \div Second})

\* Seconds, rounded up, at least one.
RetryAfter(now) == Max({1, (Remaining(now) + Second - 1) \div Second})

\* Variant: a counter that lives as long as the window.
WindowTtl == WindowSeconds * Second

CounterTtl == (WindowSeconds + 1) * Second

NoCounter == [count |-> 0, expires |-> 0]

\* INCR and EXPIRE in one MULTI.
Incremented(counter, now) ==
    [count |-> counter.count + 1, expires |-> now + CounterTtl]

\* What Redis keeps of a counter.
Kept(counter, now) == IF now < counter.expires THEN counter ELSE NoCounter

Allowed(counter) == counter.count <= RateLimit
=============================================================================
