---------------------------- MODULE TransferSaga ----------------------------
(***************************************************************************)
(* The transfer saga with its compensation, the double-entry ledger it     *)
(* posts to, the partner it calls and the reconcilers that finish what a   *)
(* crash or an unknown partner answer left open.                           *)
(*                                                                         *)
(*   app/services/transfer_service.py   the saga (one API request each)    *)
(*   app/domain/transfer_state.py       the state machine and its trail    *)
(*   app/services/ledger.py             journals and balances              *)
(*   app/partners/resilience.py, http_partner.py   the partner call        *)
(*   app/services/reconciliation.py, workers/reconciler.py                 *)
(*   partner_simulator/                 what a partner does with a credit  *)
(*                                                                         *)
(* Request i, if it passes the debit transaction, creates transfer i.      *)
(* A database transaction is one action: the row locks it takes (transfer  *)
(* first, then accounts) make its writes atomic.  Partner calls are made   *)
(* outside any transaction and are several actions.                        *)
(***************************************************************************)
EXTENDS Integers, Sequences, FiniteSets, Functions

CONSTANTS
    NumRequests,        \* requests are 1 .. NumRequests, in transfer id order
    Request,            \* what each of them asks for (a TransferRequest)
    Users, Programs, Keys,
    OpeningBalance,     \* user balances after the SEED journals
    OpeningSettlement,  \* settlement balances after the SEED journals
    Workers             \* activities that reconcile: worker loops, admin calls

CONSTANTS
    Deadline,           \* PARTNER_TOTAL_DEADLINE_SECONDS
    MaxTries,           \* PARTNER_RETRY_MAX_ATTEMPTS
    VerificationDelay,  \* RECONCILIATION_INITIAL_DELAY_SECONDS
    StuckAfter, NotFoundGrace, Lease, BatchSize,
    MaxAttempts, BackoffBase, BackoffMax

CONSTANTS
    PrepMax,            \* longest time from created_at to the partner call
    OutcomeMax,         \* longest time from a call's deadline until its
                        \* outcome is committed or the request has failed
    MaxLate,            \* how long a partner may apply a credit after the
                        \* client gave up on the request that carried it
    RejectIsFinal,      \* a partner that refused a reference never applies it
    LastArrival,        \* bound: no request starts after this time
    Horizon             \* bound: the clock stops here, and checks that would
                        \* be scheduled later are due at this time

VARIABLES
    \* accounts and ledger_journals
    user_balance, clearing, settlement, journals,
    \* transfers and transfer_events
    status, created_at, next_verification_at, verification_attempts,
    failure_code, events,
    \* the API request of each transfer and its partner call
    pc, result, possibly_applied, tries, call_started,
    \* the partner: credits it holds, and until when a lost request may land
    credited, late_until,
    \* reconcilers: claimed transfers still to do, and the one being resolved
    batch, task,
    now

ledger   == <<user_balance, clearing, settlement, journals>>
row      == <<status, created_at, next_verification_at, verification_attempts,
              failure_code, events>>
call     == <<result, possibly_applied, tries, call_started>>
partner  == <<credited, late_until>>
workers  == <<batch, task>>
vars     == <<ledger, row, pc, call, partner, workers, now>>

Transfers  == 1 .. NumRequests
NoTransfer == 0
NoTime     == -1        \* SQL NULL, before every time
NoCode     == "no_code"

ASSUME RequestAssumption ==
    /\ NumRequests \in Nat
    /\ Request \in [Transfers ->
          [user : Users, key : Keys, source : Programs, destination : Programs,
           source_points : Nat \ {0}, destination_points : Nat \ {0}]]
    /\ OpeningBalance \in [Users \X Programs -> Nat]
    /\ OpeningSettlement \in [Programs -> Int]

\* scripts/seed.py opens the accounts with balanced journals: what a user is
\* credited, the program's settlement account is debited.
ASSUME SeedAssumption ==
    /\ IsFiniteSet(Users)
    /\ \A p \in Programs :
         OpeningSettlement[p]
           + SumFunction([u \in Users |-> OpeningBalance[<<u, p>>]]) = 0

\* app/config.py: the numeric settings are positive, and the validator
\* _reconciliation_windows_outlast_partner_calls compares the windows with
\* the partner deadline.
ASSUME SettingsAssumption ==
    /\ {Deadline, MaxTries, VerificationDelay, StuckAfter, NotFoundGrace,
        Lease, BatchSize, MaxAttempts, BackoffBase, BackoffMax}
          \subseteq Nat \ {0}
    /\ StuckAfter > Deadline /\ NotFoundGrace > Deadline /\ Lease > Deadline

ASSUME EnvironmentAssumption ==
    /\ PrepMax \in Nat /\ OutcomeMax \in Nat /\ MaxLate \in Nat
    /\ RejectIsFinal \in BOOLEAN
    /\ LastArrival \in Nat /\ Horizon \in Nat

-----------------------------------------------------------------------------
(* The state machine: transfer_state.py *)

Statuses == {"NO_ROW", "PENDING", "SOURCE_DEBITED", "PARTNER_SUBMITTED",
             "PENDING_VERIFICATION", "COMPLETED", "REVERSED", "MANUAL_REVIEW"}

FailureCodes == {"PARTNER_REJECTED", "PARTNER_UNAVAILABLE",
                 "PARTNER_NOT_RECEIVED", "TRANSFER_INTERRUPTED",
                 "VERIFICATION_EXHAUSTED"}

\* A transfer that does not exist yet can only be created PENDING.
ALLOWED_TRANSITIONS ==
    [s \in Statuses |->
       CASE s = "NO_ROW"               -> {"PENDING"}
         [] s = "PENDING"              -> {"SOURCE_DEBITED"}
         [] s = "SOURCE_DEBITED"       -> {"PARTNER_SUBMITTED", "REVERSED"}
         [] s = "PARTNER_SUBMITTED"    -> {"COMPLETED", "REVERSED",
                                           "PENDING_VERIFICATION"}
         [] s = "PENDING_VERIFICATION" -> {"COMPLETED", "REVERSED",
                                           "MANUAL_REVIEW"}
         [] OTHER                      -> {}]

\* Variant: an undeclared move is let through.
CanTransitionUnchecked(from, to) == to \in Statuses \ {"NO_ROW"}

can_transition(from, to) == to \in ALLOWED_TRANSITIONS[from]

\* One or more calls of transition() in a row, each with its event.  A move
\* that is not allowed raises and rolls the transaction back.
Transition(t, path) ==
    /\ can_transition(status[t], path[1])
    /\ \A i \in 2 .. Len(path) : can_transition(path[i - 1], path[i])
    /\ status' = [status EXCEPT ![t] = path[Len(path)]]
    /\ events' = [events EXCEPT ![t] = @ \o path]

-----------------------------------------------------------------------------
(* The ledger: ledger.py.  balance = credits - debits on every account.    *)

JournalTypes == {"TRANSFER_DEBIT", "TRANSFER_SETTLE", "TRANSFER_REVERSAL"}

\* The journal, under the unique constraint (transfer, journal type).  That
\* its postings balance and leave no user overdrawn is not asked here as
\* validate_journal and the CHECK do: the properties say so.
PostJournal(t, type) ==
    /\ type \notin journals[t]
    /\ journals' = [journals EXCEPT ![t] = @ \cup {type}]

SourceAccount(t)      == <<Request[t].user, Request[t].source>>
DestinationAccount(t) == <<Request[t].user, Request[t].destination>>

\* Variant: the clearing account of the wrong program.
PostDebitWrongProgram(t) ==
    /\ PostJournal(t, "TRANSFER_DEBIT")
    /\ user_balance' = [user_balance EXCEPT ![SourceAccount(t)] =
                          @ - Request[t].source_points]
    /\ clearing' = [clearing EXCEPT ![Request[t].destination] =
                      @ + Request[t].source_points]
    /\ UNCHANGED settlement

\* user source account -> source clearing
PostDebit(t) ==
    /\ PostJournal(t, "TRANSFER_DEBIT")
    /\ user_balance' = [user_balance EXCEPT ![SourceAccount(t)] =
                          @ - Request[t].source_points]
    /\ clearing' = [clearing EXCEPT ![Request[t].source] =
                      @ + Request[t].source_points]
    /\ UNCHANGED settlement

\* Variant: the amount the partner delivers instead of the amount debited.
ReleaseClearingDelivered(t) ==
    clearing' = [clearing EXCEPT ![Request[t].source] =
                   @ - Request[t].destination_points]

\* The points leave clearing, in full.
ReleaseClearing(t) ==
    clearing' = [clearing EXCEPT ![Request[t].source] =
                   @ - Request[t].source_points]

\* source clearing -> source settlement; destination settlement -> user
settle_transfer(t) ==
    /\ PostJournal(t, "TRANSFER_SETTLE")
    /\ ReleaseClearing(t)
    /\ settlement' = [[settlement EXCEPT ![Request[t].source] =
                                           @ + Request[t].source_points]
                      EXCEPT ![Request[t].destination] =
                                           @ - Request[t].destination_points]
    /\ user_balance' = [user_balance EXCEPT ![DestinationAccount(t)] =
                          @ + Request[t].destination_points]
    /\ next_verification_at' = [next_verification_at EXCEPT ![t] = NoTime]
    /\ Transition(t, <<"COMPLETED">>)
    /\ UNCHANGED <<created_at, verification_attempts, failure_code>>

\* Compensation: source clearing -> user source account, in full.
reverse_transfer(t, code) ==
    /\ PostJournal(t, "TRANSFER_REVERSAL")
    /\ ReleaseClearing(t)
    /\ user_balance' = [user_balance EXCEPT ![SourceAccount(t)] =
                          @ + Request[t].source_points]
    /\ failure_code' = [failure_code EXCEPT ![t] = code]
    /\ next_verification_at' = [next_verification_at EXCEPT ![t] = NoTime]
    /\ Transition(t, <<"REVERSED">>)
    /\ UNCHANGED <<settlement, created_at, verification_attempts>>

-----------------------------------------------------------------------------
(* One API request: TransferService.create_transfer.                       *)
(*   new -> debited -> submitted -> ready <-> waiting -> outcome -> done   *)
(* refused: a business error; dead: the process died or the request ended  *)
(* with a 5xx.                                                             *)

Stages     == {"new", "refused", "debited", "submitted", "ready", "waiting",
               "outcome", "done", "dead"}
\* The request still has a call or a write of its transfer to make.
Live       == {"debited", "submitted", "ready", "waiting", "outcome"}
Outcomes   == {"none", "SUCCESS", "REJECTED", "NOT_SENT", "UNKNOWN"}

Goto(t, stage) == pc' = [pc EXCEPT ![t] = stage]

\* The request is over and its local variables are gone.
EndRequest(t, stage) ==
    /\ Goto(t, stage)
    /\ result' = [result EXCEPT ![t] = "none"]
    /\ possibly_applied' = [possibly_applied EXCEPT ![t] = FALSE]
    /\ tries' = [tries EXCEPT ![t] = 0]
    /\ call_started' = [call_started EXCEPT ![t] = NoTime]

SameKey(t, u) == /\ Request[t].user = Request[u].user
                 /\ Request[t].key = Request[u].key

\* Variant: the key is free again once its transfer is resolved.
ExistingOpen(t) ==
    {u \in Transfers : /\ status[u] \notin {"NO_ROW", "COMPLETED", "REVERSED"}
                       /\ SameKey(t, u)}

Existing(t)   == {u \in Transfers : status[u] # "NO_ROW" /\ SameKey(t, u)}

\* A business rule refused the request: no usable route, points outside the
\* limits, no account, balance too low.  The transaction rolls back.
Refuse(t) ==
    /\ pc[t] = "new" /\ now <= LastArrival
    /\ Goto(t, "refused")
    /\ UNCHANGED <<ledger, row, call, partner, workers, now>>

\* Variant: the balance is not checked under the lock.
PayableUnchecked(t) ==
    /\ pc[t] = "new" /\ now <= LastArrival
    /\ Request[t].source # Request[t].destination

\* What a request passes before the row is inserted.
Payable(t) ==
    /\ pc[t] = "new" /\ now <= LastArrival
    /\ Request[t].source # Request[t].destination
    /\ user_balance[SourceAccount(t)] >= Request[t].source_points

\* created_at is the start of the transaction, which commits now.
DebitSource(t) ==
    /\ Payable(t)
    /\ Existing(t) = {}
    /\ PostDebit(t)
    /\ Transition(t, <<"PENDING", "SOURCE_DEBITED">>)
    /\ \E start \in 0 .. now :
         /\ now - start <= PrepMax
         /\ created_at' = [created_at EXCEPT ![t] = start]
    /\ Goto(t, "debited")
    /\ UNCHANGED <<next_verification_at, verification_attempts, failure_code,
                   call, partner, workers, now>>

\* UNIQUE (user_id, idempotency_key): the insert fails, and the request
\* answers with the transfer the key already created.
ReturnExisting(t) ==
    /\ Payable(t)
    /\ Existing(t) # {}
    /\ Goto(t, "done")
    /\ UNCHANGED <<ledger, row, call, partner, workers, now>>

\* Variant: PARTNER_SUBMITTED is not committed before the call.
MarkSubmittedUncommitted(t) ==
    /\ pc[t] = "debited"
    /\ Goto(t, "submitted")
    /\ UNCHANGED <<ledger, row, call, partner, workers, now>>

\* _mark_submitted
MarkSubmitted(t) ==
    /\ pc[t] = "debited"
    /\ Transition(t, <<"PARTNER_SUBMITTED">>)
    /\ Goto(t, "submitted")
    /\ UNCHANGED <<ledger, created_at, next_verification_at,
                   verification_attempts, failure_code, call, partner,
                   workers, now>>

\* A process dies, a database step fails, or _mark_submitted finds a status
\* it cannot leave: the request ends without another write.  What it had in
\* flight may still reach the partner.
Interrupted(t) ==
    /\ pc[t] \in Live
    /\ EndRequest(t, "dead")
    /\ late_until' = [late_until EXCEPT ![t] =
                        IF pc[t] = "waiting" THEN now + MaxLate ELSE @]
    /\ UNCHANGED <<ledger, row, credited, workers, now>>

-----------------------------------------------------------------------------
(* The partner call: ResilientPartnerAdapter.credit_points around          *)
(* HttpPartnerAdapter.  Whether the circuit breaker allows an attempt is   *)
(* a free choice here.                                                     *)

CallEnds(t) == call_started[t] + Deadline

StartCall(t) ==
    /\ pc[t] = "submitted"
    /\ Goto(t, "ready")
    /\ call_started' = [call_started EXCEPT ![t] = now]
    /\ UNCHANGED <<ledger, row, result, possibly_applied, tries, partner,
                   workers, now>>

\* Variant: the last attempt decides.
FinalResultOfLast(r, maybe) == r

\* Once an attempt ended UNKNOWN the result is never downgraded to NOT_SENT.
FinalResult(r, maybe) == IF maybe /\ r = "NOT_SENT" THEN "UNKNOWN" ELSE r

CircuitOpen(t) ==
    /\ pc[t] = "ready"
    /\ Goto(t, "outcome")
    /\ result' = [result EXCEPT ![t] =
                    FinalResult("NOT_SENT", possibly_applied[t])]
    /\ UNCHANGED <<ledger, row, possibly_applied, tries, call_started,
                   partner, workers, now>>

\* The budget is spent: the last result stands, if there was one.
DeadlineExceeded(t) ==
    /\ pc[t] = "ready" /\ now >= CallEnds(t)
    /\ Goto(t, "outcome")
    /\ result' = [result EXCEPT ![t] =
                    FinalResult(IF @ = "none" THEN "NOT_SENT" ELSE @,
                                possibly_applied[t])]
    /\ UNCHANGED <<ledger, row, possibly_applied, tries, call_started,
                   partner, workers, now>>

SendAttempt(t) ==
    /\ pc[t] = "ready" /\ now < CallEnds(t)
    /\ Goto(t, "waiting")
    /\ tries' = [tries EXCEPT ![t] = @ + 1]
    /\ UNCHANGED <<ledger, row, result, possibly_applied, call_started,
                   partner, workers, now>>

\* An attempt ended with r: try again (a retryable result, attempts left and
\* a backoff that fits the budget) or return.
AttemptEnds(t, r, retryable) ==
    LET maybe == possibly_applied[t] \/ r = "UNKNOWN" IN
    /\ pc[t] = "waiting"
    /\ possibly_applied' = [possibly_applied EXCEPT ![t] = maybe]
    /\ \/ /\ retryable /\ tries[t] < MaxTries /\ now < CallEnds(t)
          /\ Goto(t, "ready")
          /\ result' = [result EXCEPT ![t] = r]
       \/ /\ Goto(t, "outcome")
          /\ result' = [result EXCEPT ![t] = FinalResult(r, maybe)]
    /\ UNCHANGED <<ledger, row, tries, call_started, credited, workers, now>>

\* 2xx with a confirmation id, for a new credit or a replay of its reference.
AttemptSucceeded(t) ==
    /\ credited[t]
    /\ AttemptEnds(t, "SUCCESS", FALSE)
    /\ UNCHANGED late_until

\* 4xx.  A partner answers for an applied reference with the credit itself.
AttemptRejected(t) ==
    /\ ~credited[t]
    /\ AttemptEnds(t, "REJECTED", FALSE)
    /\ late_until' = [late_until EXCEPT ![t] =
                        IF RejectIsFinal THEN NoTime ELSE @]

\* No connection, or 429: this attempt was not processed.
AttemptNotSent(t) ==
    /\ credited[t] => possibly_applied[t]
    /\ AttemptEnds(t, "NOT_SENT", TRUE)
    /\ UNCHANGED late_until

\* Timeout, reset, 5xx, 2xx without a confirmation: retried, unless it was
\* the call's own deadline that cut the attempt off.
AttemptUnknown(t) ==
    /\ AttemptEnds(t, "UNKNOWN", now < CallEnds(t))
    /\ late_until' = [late_until EXCEPT ![t] = now + MaxLate]

\* The partner applies the credit: POST credits, idempotent on the reference.
PartnerApplies(t) ==
    /\ pc[t] = "waiting" \/ now <= late_until[t]
    /\ ~credited[t]
    /\ credited' = [credited EXCEPT ![t] = TRUE]
    /\ UNCHANGED <<ledger, row, pc, call, late_until, workers, now>>

-----------------------------------------------------------------------------
(* The outcome: _apply_partner_outcome                                     *)

\* Times past the horizon are not told apart.
At(time) == IF time <= Horizon THEN time ELSE Horizon

Smaller(m, n) == IF m <= n THEN m ELSE n

\* Variant: next_verification_at is left as it is.
HoldUnscheduled(t) ==
    /\ Transition(t, <<"PENDING_VERIFICATION">>)
    /\ UNCHANGED <<ledger, created_at, next_verification_at,
                   verification_attempts, failure_code>>

\* UNKNOWN: the points stay in clearing until a reconciler finds out.
HoldForVerification(t) ==
    /\ next_verification_at' = [next_verification_at EXCEPT ![t] =
                                  At(now + VerificationDelay)]
    /\ Transition(t, <<"PENDING_VERIFICATION">>)
    /\ UNCHANGED <<ledger, created_at, verification_attempts, failure_code>>

ApplyPartnerOutcome(t) ==
    /\ pc[t] = "outcome"
    /\ \/ /\ status[t] # "PARTNER_SUBMITTED"    \* another actor moved it on
          /\ UNCHANGED <<ledger, row>>
       \/ /\ status[t] = "PARTNER_SUBMITTED"
          /\ CASE result[t] = "SUCCESS"  -> settle_transfer(t)
               [] result[t] = "REJECTED" ->
                    reverse_transfer(t, "PARTNER_REJECTED")
               [] result[t] = "NOT_SENT" ->
                    reverse_transfer(t, "PARTNER_UNAVAILABLE")
               [] OTHER -> HoldForVerification(t)
    /\ EndRequest(t, "done")
    /\ UNCHANGED <<partner, workers, now>>

-----------------------------------------------------------------------------
(* Reconciliation: ReconciliationService and the worker loop               *)
(*   idle -> reversing, or asking -> replied -> applying                   *)

STUCK      == {"SOURCE_DEBITED", "PARTNER_SUBMITTED"}
VERIFIABLE == {"PARTNER_SUBMITTED", "PENDING_VERIFICATION"}

Answers == {"none", "COMPLETED", "NOT_FOUND", "UNKNOWN"}

\* What a reconciler is doing: `since` is when it asked the partner and, once
\* it applies the answer, the time _apply read.
Task(stage, t, answer, since) ==
    [stage |-> stage, transfer |-> t, answer |-> answer, since |-> since]
Idle == Task("idle", NoTransfer, "none", NoTime)

\* ReconciliationPolicy.backoff
Backoff(n) == Smaller(BackoffMax, BackoffBase * 2^(n - 1))

\* Variant: a transfer is stuck as soon as a partner call could have ended.
IsStuckByDeadline(t) == created_at[t] <= now - Deadline

\* The stuck window: created_at is old enough for its request to be gone.
IsStuck(t) == created_at[t] <= now - StuckAfter

\* Variant: interrupted transfers are not picked up.
DueUnknownOnly(t) ==
    /\ status[t] = "PENDING_VERIFICATION"
    /\ next_verification_at[t] <= now

\* What claim_due selects.
Due(t) ==
    \/ /\ status[t] = "PENDING_VERIFICATION"
       /\ next_verification_at[t] # NoTime
       /\ next_verification_at[t] <= now
    \/ /\ status[t] \in STUCK
       /\ IsStuck(t)
       /\ \/ next_verification_at[t] = NoTime
          \/ next_verification_at[t] <= now

\* ORDER BY next_verification_at ASC NULLS FIRST, id
ClaimedBefore(t, u) ==
    \/ next_verification_at[t] < next_verification_at[u]
    \/ next_verification_at[t] = next_verification_at[u] /\ t < u

\* Some actor is about to write the row and may hold its lock (SKIP LOCKED).
MayBeLocked(t) ==
    \/ pc[t] \in {"debited", "outcome"}
    \/ \E w \in Workers : /\ task[w].transfer = t
                          /\ task[w].stage \in {"reversing", "applying"}

\* The first BatchSize due rows that are not skipped.
IsClaim(claimed, candidates) ==
    /\ claimed \subseteq candidates
    /\ Cardinality(claimed) = Smaller(BatchSize, Cardinality(candidates))
    /\ \A t \in claimed : \A u \in candidates \ claimed : ClaimedBefore(t, u)

ClaimDue(w) ==
    /\ batch[w] = {} /\ task[w] = Idle
    /\ \E skipped \in SUBSET {t \in Transfers : MayBeLocked(t)} :
       \E claimed \in SUBSET Transfers :
         /\ IsClaim(claimed, {t \in Transfers : Due(t)} \ skipped)
         /\ claimed # {}
         /\ batch' = [batch EXCEPT ![w] = claimed]
         /\ next_verification_at' =
              [t \in Transfers |-> IF t \in claimed THEN At(now + Lease)
                                   ELSE next_verification_at[t]]
    /\ UNCHANGED <<ledger, status, created_at, verification_attempts,
                   failure_code, events, pc, call, partner, task, now>>

\* reconcile(): the snapshot and what follows from it.  Whatever it decides
\* is checked again under the row lock.
Reconcile(w, t) ==
    /\ task[w] = Idle
    /\ \/ /\ \/ status[t] \notin STUCK \cup {"PENDING_VERIFICATION"}
             \/ status[t] \in STUCK /\ ~IsStuck(t)
          /\ UNCHANGED task                 \* ALREADY_RESOLVED or NOT_DUE
       \/ /\ status[t] = "SOURCE_DEBITED" /\ IsStuck(t)
          /\ task' = [task EXCEPT ![w] = Task("reversing", t, "none", NoTime)]
       \/ /\ \/ status[t] = "PENDING_VERIFICATION"
             \/ status[t] = "PARTNER_SUBMITTED" /\ IsStuck(t)
          /\ task' = [task EXCEPT ![w] = Task("asking", t, "none", now)]

\* run_once: the claimed transfers one by one (any order is allowed here).
ReconcileNext(w) ==
    /\ \E t \in batch[w] :
         /\ Reconcile(w, t)
         /\ batch' = [batch EXCEPT ![w] = @ \ {t}]
    /\ UNCHANGED <<ledger, row, pc, call, partner, now>>

\* POST /transfers/{id}/reconcile: the same, without a claim.
AdminReconcile(w) ==
    /\ batch[w] = {}
    /\ \E t \in Transfers : status[t] # "NO_ROW" /\ Reconcile(w, t)
    /\ UNCHANGED <<ledger, row, pc, call, partner, batch, now>>

\* The round fails, stops or its process dies: claims expire with their lease.
RoundFails(w) ==
    /\ batch[w] # {} \/ task[w] # Idle
    /\ batch' = [batch EXCEPT ![w] = {}]
    /\ task' = [task EXCEPT ![w] = Idle]
    /\ UNCHANGED <<ledger, row, pc, call, partner, now>>

\* Variant: a failure code that is not one of TransferFailureCode.
ReverseUnlisted(w) ==
    /\ task[w].stage = "reversing"
    /\ status[task[w].transfer] = "SOURCE_DEBITED"
    /\ reverse_transfer(task[w].transfer, "INTERRUPTED")
    /\ task' = [task EXCEPT ![w] = Idle]
    /\ UNCHANGED <<pc, call, partner, batch, now>>

\* _reverse_interrupted
ReverseInterrupted(w) ==
    LET t == task[w].transfer IN
    /\ task[w].stage = "reversing"
    /\ \/ /\ status[t] # "SOURCE_DEBITED"
          /\ UNCHANGED <<ledger, row>>
       \/ /\ status[t] = "SOURCE_DEBITED"
          /\ reverse_transfer(t, "TRANSFER_INTERRUPTED")
    /\ task' = [task EXCEPT ![w] = Idle]
    /\ UNCHANGED <<pc, call, partner, batch, now>>

\* The partner answers GET credits/{reference} from the credits it holds ...
PartnerReplies(w) ==
    /\ task[w].stage \in {"asking", "replied"}    \* again, if it was lost
    /\ task' = [task EXCEPT ![w] =
         Task("replied", @.transfer,
              IF credited[@.transfer] THEN "COMPLETED" ELSE "NOT_FOUND",
              @.since)]
    /\ UNCHANGED <<ledger, row, pc, call, partner, batch, now>>

\* ... the answer arrives, or the check ends UNKNOWN (no usable answer in the
\* budget, circuit open); _apply reads the clock before it locks the row.
StatusKnown(w) ==
    /\ task[w].stage \in {"asking", "replied"}
    /\ \E answer \in {task[w].answer, "UNKNOWN"} \ {"none"} :
         task' = [task EXCEPT ![w] =
                    Task("applying", @.transfer, answer, now)]
    /\ UNCHANGED <<ledger, row, pc, call, partner, batch, now>>

\* Variant: straight to `to`.
VerifyingDirect(t, to) == to

\* The transitions to `to` by way of PENDING_VERIFICATION.
Verifying(t, to) ==
    (IF status[t] = "PARTNER_SUBMITTED" THEN <<"PENDING_VERIFICATION">>
     ELSE <<>>) \o to

\* `path` may be empty: the status and its trail stay.
MoveAlong(t, path) ==
    IF path = <<>> THEN UNCHANGED <<status, events>> ELSE Transition(t, path)

\* Variant: NOT_FOUND is decisive as soon as the transfer is stuck.
GraceOverWhenStuck(t, moment) == moment >= created_at[t] + StuckAfter

\* No earlier request can still land: NOT_FOUND is decisive.
GraceOver(t, moment) == moment >= created_at[t] + NotFoundGrace

RecheckAfterGrace(t, moment) ==
    /\ MoveAlong(t, Verifying(t, <<>>))
    /\ next_verification_at' = [next_verification_at EXCEPT ![t] =
          At(Smaller(moment + BackoffBase, created_at[t] + NotFoundGrace))]
    /\ UNCHANGED <<ledger, created_at, verification_attempts, failure_code>>

RetryOrEscalate(t, moment) ==
    LET attempts == verification_attempts[t] + 1 IN
    /\ verification_attempts' = [verification_attempts EXCEPT ![t] = attempts]
    /\ \/ /\ attempts >= MaxAttempts
          /\ MoveAlong(t, Verifying(t, <<"MANUAL_REVIEW">>))
          /\ failure_code' =
               [failure_code EXCEPT ![t] = "VERIFICATION_EXHAUSTED"]
          /\ next_verification_at' =
               [next_verification_at EXCEPT ![t] = NoTime]
       \/ /\ attempts < MaxAttempts
          /\ MoveAlong(t, Verifying(t, <<>>))
          /\ next_verification_at' = [next_verification_at EXCEPT ![t] =
                                        At(moment + Backoff(attempts))]
          /\ UNCHANGED failure_code
    /\ UNCHANGED <<ledger, created_at>>

\* _apply
Apply(w) ==
    LET t == task[w].transfer
        moment == task[w].since
        answer == task[w].answer
    IN
    /\ task[w].stage = "applying"
    /\ \/ /\ status[t] \notin VERIFIABLE          \* resolved meanwhile
          /\ UNCHANGED <<ledger, row>>
       \/ /\ status[t] \in VERIFIABLE
          /\ CASE answer = "COMPLETED" -> settle_transfer(t)
               [] answer = "NOT_FOUND" ->
                    IF GraceOver(t, moment)
                    THEN reverse_transfer(t, "PARTNER_NOT_RECEIVED")
                    ELSE RecheckAfterGrace(t, moment)
               [] OTHER -> RetryOrEscalate(t, moment)
    /\ task' = [task EXCEPT ![w] = Idle]
    /\ UNCHANGED <<pc, call, partner, batch, now>>

-----------------------------------------------------------------------------
(* Time.  A request reaches its partner call within PrepMax of created_at; *)
(* asyncio.timeout ends a partner call or a status check by its deadline;  *)
(* the transaction that records the outcome ends within OutcomeMax of it.  *)

Tick ==
    /\ now < Horizon
    /\ \A t \in Transfers :
         /\ pc[t] \in {"debited", "submitted"} => now < created_at[t] + PrepMax
         /\ pc[t] \in {"ready", "waiting"} => now < CallEnds(t)
         /\ pc[t] = "outcome" => now < CallEnds(t) + OutcomeMax
    /\ \A w \in Workers :
         task[w].stage \in {"asking", "replied"} =>
             now < task[w].since + Deadline
    /\ now' = now + 1
    /\ UNCHANGED <<ledger, row, pc, call, partner, workers>>

Init ==
    /\ user_balance = OpeningBalance
    /\ clearing = [p \in Programs |-> 0]
    /\ settlement = OpeningSettlement
    /\ journals = [t \in Transfers |-> {}]
    /\ status = [t \in Transfers |-> "NO_ROW"]
    /\ created_at = [t \in Transfers |-> NoTime]
    /\ next_verification_at = [t \in Transfers |-> NoTime]
    /\ verification_attempts = [t \in Transfers |-> 0]
    /\ failure_code = [t \in Transfers |-> NoCode]
    /\ events = [t \in Transfers |-> <<>>]
    /\ pc = [t \in Transfers |-> "new"]
    /\ result = [t \in Transfers |-> "none"]
    /\ possibly_applied = [t \in Transfers |-> FALSE]
    /\ tries = [t \in Transfers |-> 0]
    /\ call_started = [t \in Transfers |-> NoTime]
    /\ credited = [t \in Transfers |-> FALSE]
    /\ late_until = [t \in Transfers |-> NoTime]
    /\ batch = [w \in Workers |-> {}]
    /\ task = [w \in Workers |-> Idle]
    /\ now = 0

\* The steps of a live request and its partner call.
RequestStep(t) ==
    \/ MarkSubmitted(t) \/ StartCall(t) \/ CircuitOpen(t)
    \/ DeadlineExceeded(t) \/ SendAttempt(t)
    \/ AttemptSucceeded(t) \/ AttemptRejected(t) \/ AttemptNotSent(t)
    \/ AttemptUnknown(t) \/ ApplyPartnerOutcome(t)

Next ==
    \/ \E t \in Transfers : \/ Refuse(t) \/ DebitSource(t)
                            \/ ReturnExisting(t) \/ RequestStep(t)
                            \/ Interrupted(t) \/ PartnerApplies(t)
    \/ \E w \in Workers : \/ ClaimDue(w) \/ ReconcileNext(w)
                          \/ AdminReconcile(w) \/ RoundFails(w)
                          \/ ReverseInterrupted(w) \/ PartnerReplies(w)
                          \/ StatusKnown(w) \/ Apply(w)
    \/ Tick

Spec == Init /\ [][Next]_vars

-----------------------------------------------------------------------------
(* Properties *)

Tasks == [stage : {"idle", "reversing", "asking", "replied", "applying"},
          transfer : Transfers \cup {NoTransfer}, answer : Answers,
          since : Int]

LedgerTypeOK ==
    /\ user_balance \in [Users \X Programs -> Int]
    /\ clearing \in [Programs -> Int]
    /\ settlement \in [Programs -> Int]
    /\ journals \in [Transfers -> SUBSET JournalTypes]

StateTypeOK ==
    /\ status \in [Transfers -> Statuses]
    /\ events \in [Transfers -> Seq(Statuses)]

RowTypeOK ==
    /\ created_at \in [Transfers -> Int]
    /\ next_verification_at \in [Transfers -> Int]
    /\ verification_attempts \in [Transfers -> Nat]
    /\ failure_code \in [Transfers -> FailureCodes \cup {NoCode}]

CallTypeOK ==
    /\ result \in [Transfers -> Outcomes]
    /\ possibly_applied \in [Transfers -> BOOLEAN]
    /\ tries \in [Transfers -> Nat]
    /\ call_started \in [Transfers -> Int]

PartnerTypeOK ==
    /\ credited \in [Transfers -> BOOLEAN]
    /\ late_until \in [Transfers -> Int]

WorkerTypeOK ==
    /\ batch \in [Workers -> SUBSET Transfers]
    /\ task \in [Workers -> Tasks]
    /\ \A w \in Workers :
         task[w].stage # "idle" => task[w].transfer \in Transfers

\* Type correctness of the tables and of the processes' local state: every
\* status, failure code, outcome and answer stored is one of its enumeration.
TypeOK ==
    /\ LedgerTypeOK /\ StateTypeOK /\ RowTypeOK /\ CallTypeOK
    /\ PartnerTypeOK /\ WorkerTypeOK
    /\ pc \in [Transfers -> Stages]
    /\ now \in Nat

\* The timing under which a partner's NOT_FOUND is decisive: the grace, which
\* runs from created_at, outlasts the preparation, the partner call, what a
\* partner may still apply after it, and the status check that read NOT_FOUND.
GraceCoversInFlight ==
    NotFoundGrace > PrepMax + Deadline + MaxLate + Deadline

\* A final status agrees with the partner: points delivered exactly for the
\* credits the partner holds, points returned only where it holds none, then
\* and for ever (settle_transfer, reverse_transfer, however they are reached).
PartnerAgreement ==
    \A t \in Transfers :
        /\ status[t] = "COMPLETED" => credited[t]
        /\ status[t] = "REVERSED" => ~credited[t]

\* A transfer reversed as interrupted never reached the partner: the call is
\* made only after PARTNER_SUBMITTED is committed (_reverse_interrupted), even
\* if its request was slow rather than dead.
InterruptedNeverSent ==
    \A t \in Transfers : failure_code[t] = "TRANSFER_INTERRUPTED" =>
        /\ ~credited[t] /\ late_until[t] = NoTime
        /\ pc[t] \in {"debited", "dead"}

\* A transfer reversed as not received was never credited: no earlier request
\* lands after the grace (_apply, NOT_FOUND).
NotReceivedIsFinal ==
    \A t \in Transfers :
        failure_code[t] = "PARTNER_NOT_RECEIVED" => ~credited[t]

\* How long a claim, a hold or a check without result postpones the next check.
Waits == {Lease, VerificationDelay, BackoffBase, BackoffMax}

\* No transfer is lost from claim_due: one that waits for verification has a
\* time for its next check (with NULL it would never be seen again), no lease
\* or backoff puts an open one off for longer than the settings say, whoever
\* died holding it, and one that is resolved is not scheduled any more.
ScheduleFitsStatus ==
    \A t \in Transfers :
        /\ status[t] = "PENDING_VERIFICATION" => next_verification_at[t] # NoTime
        /\ status[t] \notin STUCK \cup {"PENDING_VERIFICATION"} =>
             next_verification_at[t] = NoTime
        /\ created_at[t] <= now
        /\ \E wait \in Waits : next_verification_at[t] <= now + wait

\* A live request is never touched: no reconciler works on a transfer whose
\* request still has a call to make or an outcome to write (the stuck window
\* in claim_due and _reconcile).
LiveRequestUntouched ==
    \A w \in Workers : task[w] # Idle => pc[task[w].transfer] \notin Live

\* A resolution that was reached can be committed: whatever another actor did
\* meanwhile, none of the transactions that resolve a transfer raises
\* InvalidStateTransitionError or meets the unique journal constraint, which
\* would fail on every later try as well (transition, post_journal).
ResolutionNeverRaises ==
    /\ \A t \in Transfers : pc[t] = "outcome" => ENABLED ApplyPartnerOutcome(t)
    /\ \A w \in Workers :
         /\ task[w].stage = "reversing" => ENABLED ReverseInterrupted(w)
         /\ task[w].stage = "applying" => ENABLED Apply(w)

OpenStatuses == {"SOURCE_DEBITED", "PARTNER_SUBMITTED",
                 "PENDING_VERIFICATION", "MANUAL_REVIEW"}

JournalsMatchStatus ==
    \A t \in Transfers : journals[t] =
        CASE status[t] = "NO_ROW"       -> {}
          [] status[t] \in OpenStatuses -> {"TRANSFER_DEBIT"}
          [] status[t] = "COMPLETED"    -> {"TRANSFER_DEBIT", "TRANSFER_SETTLE"}
          [] status[t] = "REVERSED"     -> {"TRANSFER_DEBIT", "TRANSFER_REVERSAL"}
          [] OTHER                      -> JournalTypes

Debited   == <<"PENDING", "SOURCE_DEBITED">>
Submitted == Debited \o <<"PARTNER_SUBMITTED">>
Verified  == Submitted \o <<"PENDING_VERIFICATION">>

\* The events of a transfer, by its status and failure code.
TrailFits(t) ==
    /\ status[t] # "PENDING"
    /\ status[t] = "NO_ROW" => events[t] = <<>>
    /\ status[t] = "SOURCE_DEBITED" => events[t] = Debited
    /\ status[t] = "PARTNER_SUBMITTED" => events[t] = Submitted
    /\ status[t] = "PENDING_VERIFICATION" => events[t] = Verified
    /\ status[t] = "MANUAL_REVIEW" => events[t] = Verified \o <<"MANUAL_REVIEW">>
    /\ status[t] = "COMPLETED" =>
         \E way \in {Submitted, Verified} : events[t] = way \o <<"COMPLETED">>
    /\ status[t] = "REVERSED" =>
         \E way \in CASE failure_code[t] = "TRANSFER_INTERRUPTED" -> {Debited}
                      [] failure_code[t] = "PARTNER_NOT_RECEIVED" ->
                           {Submitted, Verified}
                      [] OTHER -> {Submitted} :
           events[t] = way \o <<"REVERSED">>

\* What is recorded about a transfer is what its status stands for, whoever
\* resolved it: one debit journal, then one settlement or one reversal and
\* never both, and a trail of events without gap or repetition that tells a
\* failure code from another (post_journal, transition, and the status check
\* each resolution makes under the row lock).
RecordsMatchStatus ==
    JournalsMatchStatus /\ \A t \in Transfers : TrailFits(t)

\* What an open transfer holds in the clearing account of a program.
HeldIn(p) ==
    [t \in Transfers |->
       IF status[t] \in OpenStatuses /\ Request[t].source = p
       THEN Request[t].source_points ELSE 0]

ClearingHoldsOpenTransfers ==
    \A p \in Programs : clearing[p] = SumFunction(HeldIn(p))

Counted(condition, points) == IF condition THEN points ELSE 0

\* What each transfer has moved into a settlement account, and into a user's.
SettlementMoves(p) ==
    [t \in Transfers |->
       Counted(status[t] = "COMPLETED" /\ Request[t].source = p,
               Request[t].source_points)
       - Counted(status[t] = "COMPLETED" /\ Request[t].destination = p,
                 Request[t].destination_points)]

UserMoves(a) ==
    [t \in Transfers |->
       Counted(status[t] = "COMPLETED" /\ DestinationAccount(t) = a,
               Request[t].destination_points)
       - Counted(/\ status[t] \in OpenStatuses \cup {"COMPLETED"}
                 /\ SourceAccount(t) = a,
                 Request[t].source_points)]

\* The balances can be told from the transfers alone: every point in clearing
\* belongs to an open transfer, and every other balance is its opening one,
\* less the transfers that are open or completed, plus the completed ones,
\* whoever resolved them (post_journal in each resolution; "every balance
\* equals its start plus the completed transfers").
BalancesMatchTransfers ==
    /\ ClearingHoldsOpenTransfers
    /\ \A p \in Programs :
         settlement[p] = OpeningSettlement[p] + SumFunction(SettlementMoves(p))
    /\ \A a \in Users \X Programs :
         user_balance[a] = OpeningBalance[a] + SumFunction(UserMoves(a))

UserBalances(p) == [u \in Users |-> user_balance[<<u, p>>]]

\* Points are never created or destroyed: the balances of a program sum to
\* zero (program_balances_sum_to_zero).
ProgramBalancesSumToZero ==
    \A p \in Programs :
        clearing[p] + settlement[p] + SumFunction(UserBalances(p)) = 0

\* Concurrent transfers never overdraw an account (the check under the row
\* lock, user_balances_non_negative).
NoOverdraft == \A a \in Users \X Programs : user_balance[a] >= 0

\* One idempotency key creates at most one transfer, even when requests with
\* that key run at the same time (uq_transfers_user_idempotency_key).
OneTransferPerKey ==
    \A t, u \in Transfers :
        (SameKey(t, u) /\ status[t] # "NO_ROW" /\ status[u] # "NO_ROW")
            => t = u

\* Where the points of a transfer are, as far as the contract tells.
FundsOf(s) == CASE s = "NO_ROW"    -> "with_user"
                [] s = "COMPLETED" -> "delivered"
                [] s = "REVERSED"  -> "returned"
                [] OTHER           -> "held"
Funds == [t \in Transfers |-> FundsOf(status[t])]

Contract == INSTANCE TransferContract WITH funds <- Funds

\* The saga, its partner call and its reconcilers implement the contract:
\* the partner credits only while the points are held, they are delivered
\* only after it did and returned only if it did not.
ImplementsContract == Contract!Spec

-----------------------------------------------------------------------------
(* Liveness *)

\* One worker loop that keeps running; the others may stop or fail for ever.
FairWorker == CHOOSE w \in Workers : TRUE

\* A live request's steps and the clock are not postponed for ever, a status
\* check ends by its deadline (asyncio.timeout) or with its process, one
\* worker keeps polling (run in workers/reconciler.py catches every failed
\* round), and a step that worker reaches again and again it completes in the
\* end: its rounds may fail, but not always at the same point.
Fairness ==
    /\ WF_vars(Tick)
    /\ \A t \in Transfers : WF_vars(RequestStep(t) \/ Interrupted(t))
    /\ \A w \in Workers : WF_vars(StatusKnown(w) \/ RoundFails(w))
    /\ WF_vars(ClaimDue(FairWorker))
    /\ SF_vars(ReconcileNext(FairWorker))
    /\ SF_vars(ReverseInterrupted(FairWorker))
    /\ SF_vars(StatusKnown(FairWorker))
    /\ SF_vars(Apply(FairWorker))

FairSpec == Spec /\ Fairness

\* Points never stay in limbo: every transfer reaches COMPLETED, REVERSED or
\* an operator, whatever crashed on the way.
EveryTransferResolves ==
    \A t \in Transfers : status[t] # "NO_ROW" ~>
        status[t] \in {"COMPLETED", "REVERSED", "MANUAL_REVIEW"}
=============================================================================
