------------------------ MODULE CircuitBreakerProofs ------------------------
(***************************************************************************)
(* TLAPS proofs about CircuitBreaker: that an open breaker leaves the      *)
(* partner alone, for any number of calls and any settings, and what half  *)
(* open means where the cooldown outlasts a call.                          *)
(*                                                                         *)
(* The first rests on what the breaker counts (Bookkeeping), the second on *)
(* ages.  A call under way while the breaker is open was admitted before   *)
(* it opened, so it is at least as old as the opening (Ages).  When a      *)
(* cooldown longer than any call is over no such call can be left, and the *)
(* trial is alone.                                                         *)
(***************************************************************************)
EXTENDS CircuitBreaker, TLAPS

\* The two halves of TypeOK, and what it leaves open: a call that sleeps has
\* an attempt left.
Measures ==
    /\ state \in {"CLOSED", "OPEN", "HALF_OPEN"}
    /\ consecutive_failures \in 0 .. Threshold
    /\ open_for \in 0 .. Cooldown
    /\ pc \in [Calls -> {"idle", "call", "sleep"}]
    /\ elapsed \in [Calls -> 0 .. Deadline + MaxLag]
    /\ attempts \in [Calls -> 0 .. MaxAttempts]
    /\ \A c \in Calls : pc[c] = "sleep" => attempts[c] < MaxAttempts
    /\ raises \in 0 .. MaxRaises
    /\ streak \in 0 .. Threshold
    /\ quiet \in 0 .. Cooldown

Flags ==
    /\ trial_in_flight \in BOOLEAN
    /\ trial \in [Calls -> BOOLEAN]
    /\ up \in BOOLEAN
    /\ lost \in BOOLEAN

\* The stored state says whether a trial is in flight,
InFlight == trial_in_flight <=> state = "HALF_OPEN"

\* how many failures were recorded since the last success, and when the last.
Counts ==
    /\ state = "CLOSED" => consecutive_failures = streak /\ streak < Threshold
    /\ state # "CLOSED" => consecutive_failures = Threshold
    /\ state = "OPEN" => open_for = quiet

Ages == state = "OPEN" => \A c \in Calls : Underway(c) => open_for <= elapsed[c]

\* What holds whatever the settings are, and what a long cooldown adds.
Bookkeeping == Measures /\ Flags /\ InFlight /\ Counts
Trials      == Ages /\ TrialIsAlone /\ TrialIsMade
-----------------------------------------------------------------------------
\* The initial breaker is closed and idle.
LEMMA Initially == Init => Bookkeeping /\ Trials
  <1> SUFFICES ASSUME Init PROVE Bookkeeping /\ Trials
    OBVIOUS
  <1>1. Measures
    BY SMTT(30), BreakerAssumption DEF Init, Measures
  <1>2. Flags
    BY Zenon DEF Init, Flags
  <1>3. Counts
    BY SMTT(30), BreakerAssumption DEF Init, Counts
  <1>4. InFlight /\ Ages /\ TrialIsAlone /\ TrialIsMade
    BY Zenon DEF Init, InFlight, Ages, TrialIsAlone, TrialIsMade
  <1> QED
    BY <1>1, <1>2, <1>3, <1>4, Zenon DEF Bookkeeping, Trials

\* When a cooldown that outlasts every call is over, no call is under way.
LEMMA OpenTurn ==
  ASSUME CooldownOutlastsCall, Bookkeeping, Trials, state = "OPEN", open_for >= Cooldown
  PROVE  \A c \in Calls : pc[c] = "idle"
  <1> SUFFICES ASSUME NEW c \in Calls, Underway(c) PROVE FALSE
    BY Zenon DEF Underway
  <1>1. open_for <= elapsed[c]
    BY Zenon DEF Trials, Ages
  <1>2. open_for \in Nat /\ elapsed[c] \in Nat /\ elapsed[c] <= Deadline + MaxLag
    BY SMTT(30), BreakerAssumption DEF Bookkeeping, Measures
  <1> QED
    BY SMTT(30), <1>1, <1>2, BreakerAssumption DEF CooldownOutlastsCall

\* The loop keeps the books.
LEMMA TurnBooks ==
  ASSUME Bookkeeping, NEW c \in Calls, NEW spent \in 0 .. Deadline + MaxLag,
         NEW made \in 0 .. MaxAttempts, made < MaxAttempts, Turn(c, spent, made)
  PROVE  Bookkeeping'
  <1>a. Measures /\ Flags /\ InFlight /\ Counts
    BY Zenon DEF Bookkeeping
  <1>1. Measures'
    BY SMTT(30), <1>a, BreakerAssumption DEF Measures, Turn, Idle, Current
  <1>2. Flags'
    BY <1>a, Zenon DEF Flags, Turn, Idle
  <1>3. InFlight'
    BY <1>a, Zenon DEF InFlight, Turn, Current
  <1>4. Counts'
    BY Zenon, <1>a DEF Counts, Turn, Current
  <1> QED
    BY <1>1, <1>2, <1>3, <1>4, Zenon DEF Bookkeeping

\* A turn that the breaker admits after a cooldown is alone and within its
\* budget.
LEMMA TurnTrials ==
  ASSUME CooldownOutlastsCall, Bookkeeping, Trials, NEW c \in Calls,
         NEW spent, NEW made, Turn(c, spent, made),
         pc[c] # "call", pc[c] = "idle" => spent = 0
  PROVE  Trials'
  <1>a. /\ Measures /\ Flags /\ InFlight /\ Counts
        /\ Ages /\ TrialIsAlone /\ TrialIsMade
    BY Zenon DEF Bookkeeping, Trials
  <1>1. state' = "OPEN" => state = "OPEN" /\ open_for < Cooldown /\ ~allow_request
    BY SMTT(30), <1>a, BreakerAssumption DEF Turn, Current, Measures, allow_request
  <1>2. Ages'
    <2> SUFFICES ASSUME state' = "OPEN", NEW d \in Calls, Underway(d)'
                 PROVE  open_for' <= elapsed'[d]
      BY Zenon DEF Ages
    <2>1. Idle(c) /\ open_for' = open_for
      BY <1>1, Zenon DEF Turn
    <2>2. d # c /\ Underway(d) /\ elapsed'[d] = elapsed[d]
      BY Zenon, <2>1, <1>a DEF Idle, Underway, Measures
    <2> QED
      BY <2>1, <2>2, <1>1, <1>a, Zenon DEF Ages
  <1>3. CASE Current # "HALF_OPEN"
    <2>1. state' # "HALF_OPEN" /\ ~trial_in_flight'
      BY <1>3, <1>a, Zenon DEF Turn, Current, InFlight
    <2>2. TrialIsAlone' /\ TrialIsMade'
      BY <2>1, Zenon DEF TrialIsAlone, TrialIsMade
    <2> QED
      BY <1>2, <2>2, Zenon DEF Trials
  <1>4. CASE Current = "HALF_OPEN" /\ trial_in_flight
    <2>1. state = "HALF_OPEN" /\ pc[c] = "idle" /\ ~allow_request
      BY <1>4, <1>a, Zenon DEF InFlight, allow_request, Current, TrialIsAlone, Underway
    <2>2. Idle(c) /\ UNCHANGED <<lost, raises>>
      BY <2>1, Zenon DEF Turn
    <2>3. pc' = pc /\ \A d \in Calls \ {c} : trial'[d] = trial[d]
      BY Zenon, <2>1, <2>2, <1>a DEF Idle, Measures, Flags
    <2>4. \A d \in Calls : Underway(d)' => Underway(d) /\ d # c
      BY <2>1, <2>3, Zenon DEF Underway
    <2>5. TrialIsAlone'
      BY <2>1, <2>3, <2>4, <1>a, Zenon DEF TrialIsAlone
    <2>6. TrialIsMade'
      BY <2>1, <2>2, <2>3, <1>4, <1>a, Zenon DEF TrialIsMade
    <2> QED
      BY <1>2, <2>5, <2>6, Zenon DEF Trials
  <1>5. CASE Current = "HALF_OPEN" /\ ~trial_in_flight
    <2>1. state = "OPEN" /\ open_for >= Cooldown /\ allow_request
      BY <1>5, <1>a, Zenon DEF InFlight, allow_request, Current
    <2>2. \A d \in Calls : pc[d] = "idle"
      BY <2>1, OpenTurn, Zenon
    <2>3. ~(spent >= Deadline)
      BY SMTT(30), <2>2, BreakerAssumption
    <2>4. /\ pc' = [pc EXCEPT ![c] = "call"]
          /\ trial' = [trial EXCEPT ![c] = (Current = "HALF_OPEN")]
      BY <2>1, <2>3, Zenon DEF Turn
    <2>5. pc'[c] = "call" /\ trial'[c] /\ \A d \in Calls \ {c} : pc'[d] = "idle"
      BY <2>2, <2>4, <1>5, <1>a, Zenon DEF Measures, Flags
    <2>6. TrialIsAlone' /\ TrialIsMade'
      BY <2>5, Zenon DEF TrialIsAlone, TrialIsMade, Underway
    <2> QED
      BY <1>2, <2>6, Zenon DEF Trials
  <1> QED
    BY <1>3, <1>4, <1>5, Zenon

\* A recorded success closes the breaker: the rest is about other states.
LEMMA SuccessStep ==
  ASSUME Bookkeeping, NEW c \in Calls, Succeeds(c)
  PROVE  Bookkeeping' /\ Trials'
  <1>a. Measures /\ Flags /\ Counts
    BY Zenon DEF Bookkeeping
  <1>1. Measures'
    BY SMTT(30), <1>a, BreakerAssumption DEF Measures, Succeeds, record_success, Idle
  <1>2. Flags'
    BY <1>a, Zenon DEF Flags, Succeeds, record_success, Idle
  <1>3. Counts'
    BY SMTT(30), BreakerAssumption DEF Counts, Succeeds, record_success
  <1>4. InFlight' /\ Ages' /\ TrialIsAlone' /\ TrialIsMade'
    BY Zenon DEF InFlight, Ages, TrialIsAlone, TrialIsMade, Succeeds, record_success
  <1> QED
    BY <1>1, <1>2, <1>3, <1>4, Zenon DEF Bookkeeping, Trials

\* A recorded failure restarts the cooldown or leaves a closed breaker closed;
\* a half-open one always opens.
LEMMA FailureStep ==
  ASSUME Bookkeeping, NEW c \in Calls, pc[c] = "call",
         record_failure, UNCHANGED <<up, raises>>,
         \/ Idle(c)
         \/ /\ Retryable(c)
            /\ pc' = [pc EXCEPT ![c] = "sleep"]
            /\ trial' = [trial EXCEPT ![c] = FALSE]
            /\ UNCHANGED <<elapsed, attempts>>
  PROVE  Bookkeeping' /\ Trials'
  <1>a. Measures /\ Flags /\ InFlight /\ Counts
    BY Zenon DEF Bookkeeping
  <1>1. Measures'
    <2>1. /\ UpTo(consecutive_failures + 1, Threshold) \in 0 .. Threshold
          /\ UpTo(streak + 1, Threshold) \in 0 .. Threshold
      BY SMTT(30), <1>a, BreakerAssumption DEF Measures, UpTo
    <2> QED
      BY SMTT(30), <1>a, <2>1, BreakerAssumption
      DEF Measures, record_failure, CountFailure, Idle, Retryable
  <1>2. Flags'
    BY <1>a, Zenon DEF Flags, record_failure, Idle
  <1>3. Counts'
    BY SMTT(30), <1>a, BreakerAssumption
    DEF Counts, Measures, record_failure, CountFailure, Opens, UpTo
  <1>4. state' # "HALF_OPEN" /\ ~trial_in_flight'
    BY Zenon, <1>a DEF Measures, record_failure, CountFailure, Opens
  <1>5. InFlight' /\ TrialIsAlone' /\ TrialIsMade'
    BY <1>4, Zenon DEF InFlight, TrialIsAlone, TrialIsMade
  <1>6. Ages'
    <2> SUFFICES ASSUME state' = "OPEN", NEW d \in Calls PROVE open_for' <= elapsed'[d]
      BY Zenon DEF Ages
    <2>1. Opens
      BY SMTT(30), <1>a DEF Counts, Measures, record_failure, CountFailure, Opens
    <2>2. open_for' = 0 /\ elapsed'[d] \in Nat
      BY SMTT(30), <2>1, <1>1, BreakerAssumption DEF record_failure, Measures
    <2> QED
      BY SMTT(30), <2>2
  <1> QED
    BY <1>1, <1>2, <1>3, <1>5, <1>6, Zenon DEF Bookkeeping, Trials

\* An exception frees the call and, if it was the trial, loses it.
LEMMA RaiseStep ==
  ASSUME Bookkeeping, NEW c \in Calls, Raises(c)
  PROVE  Bookkeeping' /\ (Trials => Trials')
  <1>a. Measures /\ Flags /\ InFlight /\ Counts
    BY Zenon DEF Bookkeeping
  <1>1. Measures'
    BY SMTT(30), <1>a, BreakerAssumption DEF Measures, Raises, Idle, breaker
  <1>2. Flags'
    BY <1>a, Zenon DEF Flags, Raises, Idle, breaker
  <1>3. Counts' /\ InFlight'
    BY <1>a, Zenon DEF Counts, InFlight, Raises, breaker
  <1>4. \A d \in Calls : Underway(d)' => /\ d # c /\ Underway(d)
                                         /\ pc'[d] = pc[d] /\ trial'[d] = trial[d]
                                         /\ elapsed'[d] = elapsed[d]
    BY Zenon, <1>a DEF Measures, Flags, Raises, Idle, Underway
  <1>5. Trials => Ages' /\ TrialIsAlone'
    BY <1>a, <1>4, Zenon DEF Trials, Ages, TrialIsAlone, Raises, breaker
  <1>6. ASSUME Trials PROVE TrialIsMade'
    <2> SUFFICES ASSUME trial_in_flight' PROVE raises' > 0 /\ lost'
      BY Zenon DEF TrialIsMade
    <2>1. trial_in_flight /\ trial[c]
      BY <1>a, <1>6, Zenon DEF Raises, breaker, InFlight, Trials, TrialIsAlone, Underway
    <2>2. lost'
      BY <2>1, Zenon DEF Raises
    <2>3. raises' > 0
      BY SMTT(30), <1>a, BreakerAssumption DEF Raises, Measures
    <2> QED
      BY Zenon, <2>2, <2>3
  <1> QED
    BY <1>1, <1>2, <1>3, <1>5, <1>6, Zenon DEF Bookkeeping, Trials

\* Time passes for the opening and for the calls alike.
LEMMA TickStep ==
  ASSUME Bookkeeping, Tick
  PROVE  Bookkeeping' /\ (Trials => Trials')
  <1>a. Measures /\ Flags /\ InFlight /\ Counts
    BY Zenon DEF Bookkeeping
  <1>0. /\ UpTo(open_for + 1, Cooldown) \in 0 .. Cooldown
        /\ UpTo(quiet + 1, Cooldown) \in 0 .. Cooldown
    BY SMTT(30), <1>a, BreakerAssumption DEF Measures, UpTo
  <1>1. Measures'
    <2>1. \A c \in Calls : pc[c] # "idle" => elapsed[c] + 1 \in 0 .. Deadline + MaxLag
      BY SMTT(30), <1>a, BreakerAssumption DEF Measures, Tick
    <2>2. elapsed' \in [Calls -> 0 .. Deadline + MaxLag]
      BY SMTT(30), <2>1, BreakerAssumption DEF Tick
    <2> QED
      BY Zenon, <1>a, <1>0, <2>2 DEF Measures, Tick
  <1>2. Flags' /\ InFlight'
    BY <1>a, Zenon DEF Flags, InFlight, Tick
  <1>3. Counts'
    BY Zenon, <1>a DEF Counts, Tick
  <1>4. ASSUME Trials PROVE Ages'
    <2> SUFFICES ASSUME state = "OPEN", NEW c \in Calls, Underway(c)
                 PROVE  open_for' <= elapsed'[c]
      BY Zenon DEF Ages, Tick, Underway
    <2>1. open_for <= elapsed[c]
      BY <1>4, Zenon DEF Trials, Ages
    <2>2. elapsed'[c] = elapsed[c] + 1
      BY Zenon DEF Tick, Underway
    <2>3. open_for' <= open_for + 1
      BY SMTT(30), <1>a, BreakerAssumption DEF Tick, UpTo, Measures
    <2>4. open_for \in Nat /\ open_for' \in Nat /\ elapsed[c] \in Nat
      BY SMTT(30), <1>a, <1>1, BreakerAssumption DEF Measures
    <2> QED
      BY SMTT(30), <2>1, <2>2, <2>3, <2>4
  <1>5. Trials => TrialIsAlone' /\ TrialIsMade'
    BY Zenon DEF Trials, TrialIsAlone, TrialIsMade, Tick, Underway
  <1> QED
    BY <1>1, <1>2, <1>3, <1>4, <1>5, Zenon DEF Bookkeeping, Trials

\* What the breaker does not see keeps the invariant.
LEMMA QuietStep ==
  ASSUME Bookkeeping, PartnerTurns \/ UNCHANGED vars
  PROVE  Bookkeeping' /\ (Trials => Trials')
  <1>a. Measures /\ Flags /\ InFlight /\ Counts
    BY Zenon DEF Bookkeeping
  <1>1. UNCHANGED <<breaker, calls, raises, history>>
    BY Zenon DEF PartnerTurns, vars
  <1>2. Measures' /\ Counts' /\ InFlight'
    BY <1>a, <1>1, Zenon DEF Measures, Counts, InFlight, breaker, calls, history
  <1>3. Trials => Trials'
    BY <1>1, Zenon
    DEF Trials, Ages, TrialIsAlone, TrialIsMade, Underway, breaker, calls, history
  <1>4. up' \in BOOLEAN
    BY <1>a, Zenon DEF PartnerTurns, vars, Flags
  <1>5. Flags'
    BY <1>a, <1>1, <1>4, Zenon DEF Flags, breaker, calls, history
  <1> QED
    BY <1>2, <1>3, <1>5, Zenon DEF Bookkeeping

\* A call begins or goes on after its backoff.
LEMMA StartStep ==
  ASSUME Bookkeeping, NEW c \in Calls, Start(c) \/ Wake(c)
  PROVE  Bookkeeping' /\ (CooldownOutlastsCall /\ Trials => Trials')
  <1>a. Measures
    BY Zenon DEF Bookkeeping
  <1>1. CASE Start(c)
    <2>1. 0 \in 0 .. Deadline + MaxLag /\ 0 \in 0 .. MaxAttempts /\ 0 < MaxAttempts
      BY SMTT(30), BreakerAssumption
    <2>2. pc[c] = "idle" /\ Turn(c, 0, 0)
      BY <1>1, Zenon DEF Start
    <2> QED
      BY <2>1, <2>2, TurnBooks, TurnTrials, Zenon
  <1>2. CASE Wake(c)
    <2>1. pc[c] = "sleep" /\ Turn(c, elapsed[c], attempts[c])
      BY <1>2, Zenon DEF Wake
    <2>2. /\ elapsed[c] \in 0 .. Deadline + MaxLag
          /\ attempts[c] \in 0 .. MaxAttempts /\ attempts[c] < MaxAttempts
      BY Zenon, <1>a, <2>1 DEF Measures
    <2> QED
      BY <2>1, <2>2, TurnBooks, TurnTrials, Zenon
  <1> QED
    BY <1>1, <1>2, Zenon

\* Every step keeps the books and, with a long cooldown, the trials.
LEMMA Step ==
  ASSUME Bookkeeping, [Next]_vars
  PROVE  Bookkeeping' /\ (CooldownOutlastsCall /\ Trials => Trials')
  <1> DEFINE Kept == Bookkeeping' /\ (CooldownOutlastsCall /\ Trials => Trials')
  <1>1. ASSUME NEW c \in Calls, Start(c) \/ Wake(c) PROVE Kept
    BY <1>1, StartStep, Zenon
  <1>2. ASSUME NEW c \in Calls, Ends(c) PROVE Kept
    <2>1. CASE Succeeds(c)
      BY <2>1, SuccessStep, Zenon
    <2>2. CASE Fails(c)
      BY <2>2, FailureStep, Zenon DEF Fails
    <2>3. CASE TimesOut(c)
      BY <2>3, FailureStep, Zenon DEF TimesOut
    <2> QED
      BY <1>2, <2>1, <2>2, <2>3, Zenon DEF Ends
  <1>3. ASSUME NEW c \in Calls, Raises(c) PROVE Kept
    BY <1>3, RaiseStep, Zenon
  <1>4. CASE Tick
    BY <1>4, TickStep, Zenon
  <1>5. CASE PartnerTurns \/ UNCHANGED vars
    BY <1>5, QuietStep, Zenon
  <1> QED
    BY <1>1, <1>2, <1>3, <1>4, <1>5, Zenon DEF Next

\* The books are right in every reachable state,
LEMMA BooksHold == Spec => []Bookkeeping
  <1>1. Init => Bookkeeping
    BY Initially, Zenon
  <1>2. Bookkeeping /\ [Next]_vars => Bookkeeping'
    BY Step, Zenon
  <1> QED
    BY <1>1, <1>2, PTL DEF Spec

\* and so are the trials, if the cooldown outlasts a call.
LEMMA TrialsHold ==
  ASSUME CooldownOutlastsCall
  PROVE  Spec => []Trials
  <1>1. Init => Trials
    BY Initially, Zenon
  <1>2. Bookkeeping /\ Trials /\ [Next]_vars => Trials'
    BY Step, Zenon
  <1> QED
    BY <1>1, <1>2, BooksHold, PTL DEF Spec
-----------------------------------------------------------------------------
\* Every step of the breaker and of its calls keeps the types, the bound on
\* the attempts and the bound on a call's age, whatever the settings.
THEOREM BreakerTypeCorrect == Spec => []TypeOK
  <1>1. Bookkeeping => TypeOK
    BY Zenon DEF Bookkeeping, Measures, Flags, TypeOK
  <1> QED
    BY <1>1, BooksHold, PTL

\* Half open means one trial and no other call, if the cooldown outlasts a
\* call: the results that allow_request, record_success and record_failure
\* see then are the trial's own.
THEOREM TrialAlone ==
  ASSUME CooldownOutlastsCall
  PROVE  Spec => []TrialIsAlone
  <1>1. Trials => TrialIsAlone
    BY Zenon DEF Trials
  <1> QED
    BY <1>1, TrialsHold, PTL

\* If the cooldown outlasts a call, the trial_in_flight flag never blocks the
\* partner without a trial, except after an exception that record_failure was
\* not told about: credit_points makes every trial it was admitted for.
THEOREM TrialMade ==
  ASSUME CooldownOutlastsCall
  PROVE  Spec => []TrialIsMade
  <1>1. Trials => TrialIsMade
    BY Zenon DEF Trials
  <1> QED
    BY <1>1, TrialsHold, PTL

\* An admitted turn follows fewer than Threshold failures, or a cooldown.
LEMMA AdmissionStep ==
  ASSUME Bookkeeping, NEW c \in Calls, NEW spent, NEW made, Turn(c, spent, made),
         pc[c] # "call", pc'[c] = "call", streak >= Threshold
  PROVE  quiet >= Cooldown
  <1>a. Measures /\ Flags /\ InFlight /\ Counts
    BY Zenon DEF Bookkeeping
  <1>1. allow_request
    <2> SUFFICES ASSUME ~allow_request PROVE FALSE
      OBVIOUS
    <2>1. Idle(c)
      BY Zenon DEF Turn
    <2> QED
      BY Zenon, <2>1, <1>a DEF Idle, Measures
  <1>2. state # "CLOSED"
    BY SMTT(30), <1>a, BreakerAssumption DEF Counts, Measures
  <1>3. state = "OPEN" /\ open_for >= Cooldown
    BY <1>1, <1>2, <1>a, Zenon DEF allow_request, Current, InFlight
  <1> QED
    BY <1>3, <1>a, Zenon DEF Counts

\* While a partner fails Threshold times in a row no request is admitted to
\* it before the cooldown since the last recorded failure is over, whatever
\* the settings.
THEOREM LeftAlone == Spec => PartnerIsLeftAlone
  <1> DEFINE Quiet == \A c \in Calls :
                         pc[c] # "call" /\ pc'[c] = "call" /\ streak >= Threshold
                           => quiet >= Cooldown
  <1>1. ASSUME Bookkeeping, [Next]_vars PROVE [Quiet]_vars
    <2> SUFFICES ASSUME NEW c \in Calls, pc[c] # "call", pc'[c] = "call", streak >= Threshold
                 PROVE  quiet >= Cooldown
      BY Zenon
    <2>a. pc \in [Calls -> {"idle", "call", "sleep"}]
      BY <1>1, Zenon DEF Bookkeeping, Measures
    <2>1. CASE Start(c)
      BY <2>1, <1>1, AdmissionStep, Zenon DEF Start
    <2>2. CASE Wake(c)
      BY <2>2, <1>1, AdmissionStep, Zenon DEF Wake
    <2>3. ASSUME NEW d \in Calls, Start(d) \/ Wake(d), d # c PROVE FALSE
      BY Zenon, <2>3, <2>a DEF Start, Wake, Turn, Idle
    <2>4. ASSUME NEW d \in Calls, Ends(d) \/ Raises(d) PROVE FALSE
      BY Zenon, <2>4, <2>a DEF Ends, Succeeds, Fails, TimesOut, Raises, Idle
    <2>5. CASE Tick \/ PartnerTurns \/ UNCHANGED vars
      BY <2>5, Zenon DEF Tick, PartnerTurns, calls, vars
    <2> QED
      BY <1>1, <2>1, <2>2, <2>3, <2>4, <2>5, Zenon DEF Next
  <1>2. Spec => [][Quiet]_vars
    BY <1>1, BooksHold, PTL DEF Spec
  <1> QED
    BY <1>2, Zenon DEF PartnerIsLeftAlone
=============================================================================
