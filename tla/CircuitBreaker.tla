--------------------------- MODULE CircuitBreaker ---------------------------
(***************************************************************************)
(* The circuit breaker of one partner and the calls that share it          *)
(* (app/partners/resilience.py): credit_points and get_credit_status run   *)
(* the same loop of admission, attempt, record and backoff.                *)
(*                                                                         *)
(* Everything between two awaits is one action: admission together with    *)
(* the sending of the attempt, and the recording of a result together with *)
(* the decision to retry.  So results of calls admitted earlier may arrive *)
(* in any state of the breaker.                                            *)
(*                                                                         *)
(* A call is a slot: once its call is over it serves the next caller.      *)
(* Time is discrete and kept as ages.                                      *)
(***************************************************************************)
EXTENDS Integers, FiniteSets

CONSTANTS
    Calls,
    Threshold,     \* CIRCUIT_BREAKER_FAILURE_THRESHOLD
    Cooldown,      \* CIRCUIT_BREAKER_COOLDOWN_SECONDS
    Deadline,      \* PARTNER_TOTAL_DEADLINE_SECONDS
    MaxAttempts,   \* PARTNER_RETRY_MAX_ATTEMPTS
    MaxLag,        \* how late the event loop wakes a task whose sleep is over
    MaxRaises      \* bound: attempts that end in an unforeseen exception

\* Settings are positive.
ASSUME BreakerAssumption ==
    /\ Threshold \in Nat \ {0} /\ MaxAttempts \in Nat \ {0}
    /\ Deadline \in Nat \ {0} /\ Cooldown \in Nat \ {0}
    /\ MaxLag \in Nat /\ MaxRaises \in Nat

\* The cooldown outlasts a call: true of the defaults (30 s and 8 s), but not
\* validated.
CooldownOutlastsCall == Deadline + MaxLag < Cooldown

VARIABLES
    state,                 \* _state, as stored
    consecutive_failures,  \* up to Threshold: only compared with it
    open_for,              \* since _opened_at, up to Cooldown
    trial_in_flight,
    pc,                    \* of each call: idle, call (attempt sent), sleep
    elapsed,               \* since the call began
    attempts,
    trial,                 \* whether the attempt was admitted as a trial
    up,                    \* whether the partner answers every request
    raises,
    lost,                  \* history: the trial ended without being recorded
    streak,                \* history: failures recorded since the last success
    quiet                  \* history: time since the last recorded failure

breaker == <<state, consecutive_failures, open_for, trial_in_flight>>
calls   == <<pc, elapsed, attempts, trial>>
history == <<lost, streak, quiet>>
vars == <<breaker, calls, up, raises, history>>
-----------------------------------------------------------------------------
TypeOK ==
    /\ state \in {"CLOSED", "OPEN", "HALF_OPEN"}
    /\ consecutive_failures \in 0 .. Threshold
    /\ open_for \in 0 .. Cooldown
    /\ trial_in_flight \in BOOLEAN
    /\ pc \in [Calls -> {"idle", "call", "sleep"}]
    /\ elapsed \in [Calls -> 0 .. Deadline + MaxLag]
    /\ attempts \in [Calls -> 0 .. MaxAttempts]
    /\ trial \in [Calls -> BOOLEAN]
    /\ up \in BOOLEAN
    /\ raises \in 0 .. MaxRaises
    /\ lost \in BOOLEAN
    /\ streak \in 0 .. Threshold
    /\ quiet \in 0 .. Cooldown

Init ==
    /\ state = "CLOSED" /\ consecutive_failures = 0 /\ open_for = 0
    /\ trial_in_flight = FALSE
    /\ pc = [c \in Calls |-> "idle"]
    /\ elapsed = [c \in Calls |-> 0]
    /\ attempts = [c \in Calls |-> 0]
    /\ trial = [c \in Calls |-> FALSE]
    /\ up = TRUE /\ raises = 0
    /\ lost = FALSE /\ streak = 0 /\ quiet = 0

UpTo(n, cap) == IF n < cap THEN n ELSE cap

Idle(c) ==
    /\ pc' = [pc EXCEPT ![c] = "idle"]
    /\ elapsed' = [elapsed EXCEPT ![c] = 0]
    /\ attempts' = [attempts EXCEPT ![c] = 0]
    /\ trial' = [trial EXCEPT ![c] = FALSE]
-----------------------------------------------------------------------------
\* The property state: an open breaker whose cooldown is over is half open.
Current == IF state = "OPEN" /\ open_for >= Cooldown THEN "HALF_OPEN" ELSE state

\* Variant: every request is a trial while the breaker is half open.
AllowHalfOpen == Current # "OPEN"

allow_request ==
    \/ Current = "CLOSED"
    \/ Current = "HALF_OPEN" /\ ~trial_in_flight

record_success ==
    /\ consecutive_failures' = 0
    /\ trial_in_flight' = FALSE
    /\ state' = "CLOSED"
    /\ UNCHANGED open_for
    /\ lost' = FALSE /\ streak' = 0
    /\ UNCHANGED quiet

\* Whether a failure recorded now opens the breaker, for the first time or anew.
Opens == state = "HALF_OPEN" \/ consecutive_failures + 1 >= Threshold

CountFailure ==
    /\ consecutive_failures' = IF state = "HALF_OPEN" THEN consecutive_failures
                               ELSE UpTo(consecutive_failures + 1, Threshold)
    /\ state' = IF Opens THEN "OPEN" ELSE state
    /\ streak' = UpTo(streak + 1, Threshold) /\ quiet' = 0

\* Variant: a failure that arrives while the breaker is open does not count.
FailureIgnoredWhenOpen ==
    /\ CountFailure
    /\ open_for' = IF Opens /\ state # "OPEN" THEN 0 ELSE open_for
    /\ trial_in_flight' = FALSE /\ lost' = FALSE

\* Variant: the trial is released only by a success.
FailureKeepsTrial ==
    /\ CountFailure
    /\ open_for' = IF Opens THEN 0 ELSE open_for
    /\ UNCHANGED <<trial_in_flight, lost>>

\* A late failure of an earlier call opens an open breaker anew.
record_failure ==
    /\ CountFailure
    /\ open_for' = IF Opens THEN 0 ELSE open_for
    /\ trial_in_flight' = FALSE /\ lost' = FALSE
-----------------------------------------------------------------------------
\* One turn of the loop up to the next await: the breaker is asked first, the
\* remaining budget second, so a trial may be admitted and never be made.
Turn(c, spent, made) ==
    /\ state' = Current
    /\ trial_in_flight' = (trial_in_flight \/ Current = "HALF_OPEN")
    /\ \/ ~allow_request /\ Idle(c) /\ UNCHANGED lost
       \/ /\ allow_request /\ spent >= Deadline
          /\ Idle(c)
          /\ lost' = (lost \/ Current = "HALF_OPEN")
       \/ /\ allow_request /\ spent < Deadline
          /\ pc' = [pc EXCEPT ![c] = "call"]
          /\ elapsed' = [elapsed EXCEPT ![c] = spent]
          /\ attempts' = [attempts EXCEPT ![c] = made + 1]
          /\ trial' = [trial EXCEPT ![c] = (Current = "HALF_OPEN")]
          /\ UNCHANGED lost
    /\ UNCHANGED <<consecutive_failures, open_for, up, raises, streak, quiet>>

\* credit_points or get_credit_status is called.
Start(c) == pc[c] = "idle" /\ Turn(c, 0, 0)

\* The backoff is over.
Wake(c) == pc[c] = "sleep" /\ Turn(c, elapsed[c], attempts[c])

\* SUCCESS and REJECTED, or COMPLETED and NOT_FOUND: final answers.
Succeeds(c) ==
    /\ pc[c] = "call"
    /\ record_success
    /\ Idle(c)
    /\ UNCHANGED <<up, raises>>

\* Variant: one attempt more than the policy allows.
RetryableOnceMore(c) == attempts[c] <= MaxAttempts /\ elapsed[c] < Deadline

\* Attempts are left, and the shortest backoff ends before the deadline.
Retryable(c) == attempts[c] < MaxAttempts /\ elapsed[c] < Deadline

\* NOT_SENT or UNKNOWN: a retry follows, or the outcome is final, because it
\* is not retryable or the backoff would reach the deadline.
Fails(c) ==
    /\ pc[c] = "call" /\ ~up
    /\ record_failure
    /\ \/ Idle(c)
       \/ /\ Retryable(c)
          /\ pc' = [pc EXCEPT ![c] = "sleep"]
          /\ trial' = [trial EXCEPT ![c] = FALSE]
          /\ UNCHANGED <<elapsed, attempts>>
    /\ UNCHANGED <<up, raises>>

\* Variant: a timed-out attempt ends the call without being recorded.
TimesOutUnrecorded(c) ==
    /\ pc[c] = "call" /\ ~up /\ elapsed[c] >= Deadline
    /\ Idle(c)
    /\ UNCHANGED <<breaker, up, raises, history>>

\* asyncio.timeout(remaining) ends the attempt: UNKNOWN, not retryable.
TimesOut(c) ==
    /\ pc[c] = "call" /\ ~up /\ elapsed[c] >= Deadline
    /\ record_failure
    /\ Idle(c)
    /\ UNCHANGED <<up, raises>>

\* The inner adapter raises what it does not classify, or the task is
\* cancelled: nothing is recorded.
Raises(c) ==
    /\ pc[c] = "call"
    /\ raises < MaxRaises /\ raises' = raises + 1
    /\ Idle(c)
    /\ lost' = (lost \/ (trial[c] /\ trial_in_flight))
    /\ UNCHANGED <<breaker, up, streak, quiet>>

PartnerTurns ==
    /\ up' = ~up
    /\ UNCHANGED <<breaker, calls, raises, history>>

\* An attempt does not outlast its deadline, a sleep not by more than the lag.
Tick ==
    /\ \A c \in Calls :
          /\ pc[c] = "call" => elapsed[c] < Deadline
          /\ pc[c] = "sleep" => elapsed[c] < Deadline + MaxLag
    /\ open_for' = UpTo(open_for + 1, Cooldown)
    /\ quiet' = UpTo(quiet + 1, Cooldown)
    /\ elapsed' = [c \in Calls |-> IF pc[c] = "idle" THEN 0 ELSE elapsed[c] + 1]
    /\ UNCHANGED <<state, consecutive_failures, trial_in_flight, pc, attempts, trial,
                   up, raises, lost, streak>>
-----------------------------------------------------------------------------
Ends(c) == Succeeds(c) \/ Fails(c) \/ TimesOut(c)

Next ==
    \/ \E c \in Calls : Start(c) \/ Wake(c) \/ Ends(c) \/ Raises(c)
    \/ PartnerTurns
    \/ Tick

Spec == Init /\ [][Next]_vars

\* Clocks advance, the timeout ends every attempt and sleeps end.  That calls
\* keep coming is an assumption on the traffic.
FairSpec ==
    /\ Spec
    /\ WF_vars(Tick)
    /\ \A c \in Calls : WF_vars(Start(c)) /\ WF_vars(Wake(c)) /\ WF_vars(Ends(c))
-----------------------------------------------------------------------------
Underway(c) == pc[c] # "idle"

\* "one trial request at a time": while the breaker is half open no other
\* call is under way, so no late result of an earlier call reaches it, where
\* the cooldown outlasts a call.
TrialIsAlone ==
    state = "HALF_OPEN" =>
        /\ \A c \in Calls : Underway(c) => pc[c] = "call" /\ trial[c]
        /\ \A c, d \in Calls : Underway(c) /\ Underway(d) => c = d

\* A half-open breaker that admits nobody waits for a trial that is being
\* made, unless an exception ended it: a spent budget does not lose one, where
\* the cooldown outlasts a call.
TrialIsMade ==
    trial_in_flight =>
        \/ \E c \in Calls : pc[c] = "call" /\ trial[c]
        \/ raises > 0 /\ lost

\* After Threshold failures in a row the partner gets no request until a
\* full cooldown has passed since the last of them, late ones included.
PartnerIsLeftAlone ==
    [][\A c \in Calls :
          pc[c] # "call" /\ pc'[c] = "call" /\ streak >= Threshold
            => quiet >= Cooldown]_vars

\* Once the partner answers for good the breaker closes for good, unless the
\* trial was lost to an exception.
Recovers == <>[]up => <>[](state = "CLOSED" \/ lost)
=============================================================================
