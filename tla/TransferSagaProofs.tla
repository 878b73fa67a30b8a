------------------------- MODULE TransferSagaProofs -------------------------
(***************************************************************************)
(* What holds of the transfer saga for every number of transfers, workers, *)
(* programs and users, and for every value of the settings: types,         *)
(* agreement with the partner, the contract, the stuck window, and what is *)
(* written to a row: its journals, its failure code and its events.        *)
(*                                                                         *)
(* A leaf that names two solvers is tried with the second one if the first *)
(* gives up.                                                               *)
(***************************************************************************)
EXTENDS TransferSaga, TLAPS

-----------------------------------------------------------------------------
(* Type correctness *)

\* The fields of a request and the accounts it moves points between.
LEMMA RequestType ==
    ASSUME NEW t \in Transfers
    PROVE  /\ Request[t].source \in Programs
           /\ Request[t].destination \in Programs
           /\ Request[t].source_points \in Nat \ {0}
           /\ Request[t].destination_points \in Nat \ {0}
           /\ SourceAccount(t) \in Users \X Programs
           /\ DestinationAccount(t) \in Users \X Programs
  BY Zenon, RequestAssumption DEF SourceAccount, DestinationAccount

\* transition() keeps statuses and trails well typed.
LEMMA TransitionType ==
    ASSUME StateTypeOK, NEW t \in Transfers, NEW path \in Seq(Statuses),
           path # <<>>, Transition(t, path)
    PROVE  StateTypeOK'
<1>1. path[Len(path)] \in Statuses
  OBVIOUS
<1>2. \A e \in Seq(Statuses) : e \o path \in Seq(Statuses)
  OBVIOUS
<1> QED  BY Zenon, <1>1, <1>2 DEF StateTypeOK, Transition

\* settle_transfer and reverse_transfer keep the ledger and the row well typed.
LEMMA SettleType ==
    ASSUME LedgerTypeOK, StateTypeOK, RowTypeOK, NEW t \in Transfers,
           settle_transfer(t)
    PROVE  LedgerTypeOK' /\ StateTypeOK' /\ RowTypeOK'
<1>1. StateTypeOK'
  <2>1. Transition(t, <<"COMPLETED">>)
    BY Zenon DEF settle_transfer
  <2>2. <<"COMPLETED">> \in Seq(Statuses) /\ <<"COMPLETED">> # <<>>
    BY SMTT(30) DEF Statuses
  <2> QED  BY Zenon, <2>1, <2>2, TransitionType
<1>2. LedgerTypeOK'
  <2>1. journals' \in [Transfers -> SUBSET JournalTypes]
    BY Zenon DEF LedgerTypeOK, settle_transfer, PostJournal, JournalTypes
  <2>2. clearing' \in [Programs -> Int]
    BY SMTT(30), RequestType DEF LedgerTypeOK, settle_transfer, ReleaseClearing
  <2>3. settlement' \in [Programs -> Int]
    BY SMTT(30), RequestType DEF LedgerTypeOK, settle_transfer
  <2>4. user_balance' \in [Users \X Programs -> Int]
    BY SMTT(30), RequestType DEF LedgerTypeOK, settle_transfer
  <2> QED  BY Zenon, <2>1, <2>2, <2>3, <2>4 DEF LedgerTypeOK
<1>3. RowTypeOK'
  BY SMTT(30) DEF RowTypeOK, settle_transfer, NoTime
<1> QED  BY Zenon, <1>1, <1>2, <1>3

\* The compensation (reverse_transfer) keeps the types, for any listed code.
LEMMA ReverseType ==
    ASSUME LedgerTypeOK, StateTypeOK, RowTypeOK, NEW t \in Transfers,
           NEW code \in FailureCodes, reverse_transfer(t, code)
    PROVE  LedgerTypeOK' /\ StateTypeOK' /\ RowTypeOK'
<1>1. StateTypeOK'
  <2>1. Transition(t, <<"REVERSED">>)
    BY Zenon DEF reverse_transfer
  <2>2. <<"REVERSED">> \in Seq(Statuses) /\ <<"REVERSED">> # <<>>
    BY SMTT(30) DEF Statuses
  <2> QED  BY Zenon, <2>1, <2>2, TransitionType
<1>2. LedgerTypeOK'
  <2>1. journals' \in [Transfers -> SUBSET JournalTypes]
    BY Zenon DEF LedgerTypeOK, reverse_transfer, PostJournal, JournalTypes
  <2>2. clearing' \in [Programs -> Int]
    BY SMTT(30), RequestType DEF LedgerTypeOK, reverse_transfer, ReleaseClearing
  <2>3. settlement' \in [Programs -> Int]
    BY Zenon DEF LedgerTypeOK, reverse_transfer
  <2>4. user_balance' \in [Users \X Programs -> Int]
    BY SMTT(30), RequestType DEF LedgerTypeOK, reverse_transfer
  <2> QED  BY Zenon, <2>1, <2>2, <2>3, <2>4 DEF LedgerTypeOK
<1>3. RowTypeOK'
  BY SMTT(30) DEF RowTypeOK, reverse_transfer, NoTime
<1> QED  BY Zenon, <1>1, <1>2, <1>3
\* _apply's rescheduling and escalation keep the row well typed.
LEMMA VerifyingType ==
    ASSUME StateTypeOK, NEW t \in Transfers, NEW to \in Seq(Statuses),
           MoveAlong(t, Verifying(t, to))
    PROVE  StateTypeOK'
<1>1. Verifying(t, to) \in Seq(Statuses)
  <2>1. <<"PENDING_VERIFICATION">> \in Seq(Statuses)
    BY SMTT(30) DEF Statuses
  <2> QED  BY SMTT(30), <2>1 DEF Verifying
<1>2. CASE Verifying(t, to) = <<>>
  BY Zenon, <1>2 DEF MoveAlong, StateTypeOK
<1>3. CASE Verifying(t, to) # <<>>
  BY Zenon, <1>1, <1>3, TransitionType DEF MoveAlong
<1> QED  BY Zenon, <1>2, <1>3

\* Times that are scheduled are integers.
LEMMA AtType ==
    /\ \A m \in Int : At(m) \in Int
    /\ \A m, n \in Int : Smaller(m, n) \in Int
  BY SMTT(30), EnvironmentAssumption DEF At, Smaller

\* The reconciler's exponential backoff is a number of seconds.
LEMMA BackoffType ==
    ASSUME NEW n \in Nat \ {0}
    PROVE  Backoff(n) \in Int
<1>1. BackoffMax \in Nat /\ BackoffBase \in Nat
  BY Zenon, SettingsAssumption
<1>2. 2^(n - 1) \in Int
  OBVIOUS
<1>3. BackoffBase * 2^(n - 1) \in Int
  BY SMTT(30), <1>1, <1>2
<1> QED  BY SMTT(30), <1>1, <1>3, AtType DEF Backoff

\* A request's step that writes neither the ledger nor its row.
LEMMA CallStepType ==
    ASSUME TypeOK, NEW t \in Transfers,
           \/ Refuse(t) \/ ReturnExisting(t) \/ Interrupted(t)
           \/ StartCall(t) \/ CircuitOpen(t) \/ DeadlineExceeded(t)
           \/ SendAttempt(t) \/ AttemptSucceeded(t) \/ AttemptRejected(t)
           \/ AttemptNotSent(t) \/ AttemptUnknown(t) \/ PartnerApplies(t)
    PROVE  TypeOK'
<1> USE DEF TypeOK, Goto, Stages
<1> DEFINE Kept == LedgerTypeOK' /\ StateTypeOK' /\ RowTypeOK' /\ WorkerTypeOK'
                     /\ now' \in Nat
<1>1. ASSUME UNCHANGED <<ledger, row, workers, now>>  PROVE Kept
  BY Zenon, <1>1
  DEF ledger, row, workers, LedgerTypeOK, StateTypeOK, RowTypeOK,
      WorkerTypeOK
<1>2. ASSUME UNCHANGED call  PROVE CallTypeOK'
  BY Zenon, <1>2 DEF call, CallTypeOK
<1>3. ASSUME UNCHANGED partner  PROVE PartnerTypeOK'
  BY Zenon, <1>3 DEF partner, PartnerTypeOK
<1>4. ASSUME NEW r \in Outcomes, NEW maybe \in BOOLEAN
      PROVE  FinalResult(r, maybe) \in Outcomes
  BY Zenon DEF FinalResult, Outcomes
<1>5. CASE Refuse(t)
  BY Zenon, <1>1, <1>2, <1>3, <1>5 DEF Refuse
<1>6. CASE ReturnExisting(t)
  BY Zenon, <1>1, <1>2, <1>3, <1>6 DEF ReturnExisting
<1>7. CASE Interrupted(t)
  <2>1. CallTypeOK'
    BY SMTT(30), <1>7 DEF Interrupted, EndRequest, CallTypeOK, Outcomes, NoTime
  <2>2. PartnerTypeOK'
    BY SMTT(30), <1>7, EnvironmentAssumption DEF Interrupted, PartnerTypeOK
  <2> QED  BY Zenon, <1>1, <1>7, <2>1, <2>2 DEF Interrupted, EndRequest
<1>8. CASE StartCall(t)
  <2>1. CallTypeOK'
    BY SMTT(30), <1>8 DEF StartCall, CallTypeOK
  <2> QED  BY Zenon, <1>1, <1>3, <1>8, <2>1 DEF StartCall
<1>9. CASE CircuitOpen(t)
  <2>1. CallTypeOK'
    BY Zenon, <1>4, <1>9 DEF CircuitOpen, CallTypeOK, Outcomes
  <2> QED  BY Zenon, <1>1, <1>3, <1>9, <2>1 DEF CircuitOpen
<1>10. CASE DeadlineExceeded(t)
  <2>1. CallTypeOK'
    BY Zenon, <1>4, <1>10 DEF DeadlineExceeded, CallTypeOK, Outcomes
  <2> QED  BY Zenon, <1>1, <1>3, <1>10, <2>1 DEF DeadlineExceeded
<1>11. CASE SendAttempt(t)
  <2>1. CallTypeOK'
    BY SMTT(30), <1>11 DEF SendAttempt, CallTypeOK
  <2> QED  BY Zenon, <1>1, <1>3, <1>11, <2>1 DEF SendAttempt
<1>12. ASSUME NEW r \in Outcomes, NEW retryable, AttemptEnds(t, r, retryable)
       PROVE  CallTypeOK' /\ Kept /\ pc' \in [Transfers -> Stages]
                /\ UNCHANGED credited
  <2>1. CallTypeOK'
    BY ZenonT(60), <1>4, <1>12 DEF AttemptEnds, CallTypeOK
  <2> QED  BY Zenon, <1>1, <1>12, <2>1 DEF AttemptEnds
<1>13. CASE AttemptSucceeded(t)
  <2>1. "SUCCESS" \in Outcomes
    BY Zenon DEF Outcomes
  <2> QED  BY Zenon, <1>12, <1>13, <2>1 DEF AttemptSucceeded, PartnerTypeOK
<1>14. CASE AttemptRejected(t)
  <2>1. "REJECTED" \in Outcomes
    BY Zenon DEF Outcomes
  <2>2. PartnerTypeOK'
    <3>1. UNCHANGED credited
      BY Zenon, <1>12, <1>14, <2>1 DEF AttemptRejected
    <3>2. CASE RejectIsFinal
      BY SMTT(30), <1>14, <3>1, <3>2 DEF AttemptRejected, PartnerTypeOK, NoTime
    <3>3. CASE ~RejectIsFinal
      BY Zenon, <1>14, <3>1, <3>3 DEF AttemptRejected, PartnerTypeOK
    <3> QED  BY Zenon, <3>2, <3>3
  <2> QED  BY Zenon, <1>12, <1>14, <2>1, <2>2 DEF AttemptRejected
<1>15. CASE AttemptNotSent(t)
  <2>1. "NOT_SENT" \in Outcomes
    BY Zenon DEF Outcomes
  <2> QED  BY Zenon, <1>12, <1>15, <2>1 DEF AttemptNotSent, PartnerTypeOK
<1>16. CASE AttemptUnknown(t)
  <2>1. "UNKNOWN" \in Outcomes
    BY Zenon DEF Outcomes
  <2> QED  BY SMTT(30), <1>12, <1>16, <2>1, EnvironmentAssumption
           DEF AttemptUnknown, PartnerTypeOK
<1>17. CASE PartnerApplies(t)
  <2>1. PartnerTypeOK'
    BY Zenon, <1>17 DEF PartnerApplies, PartnerTypeOK
  <2> QED  BY Zenon, <1>1, <1>2, <1>17, <2>1 DEF PartnerApplies
<1> QED  BY Zenon, <1>5, <1>6, <1>7, <1>8, <1>9, <1>10, <1>11, <1>13, <1>14,
            <1>15,
            <1>16, <1>17

\* A request's step that writes its row.
LEMMA RowStepType ==
    ASSUME TypeOK, NEW t \in Transfers,
           DebitSource(t) \/ MarkSubmitted(t) \/ ApplyPartnerOutcome(t)
    PROVE  TypeOK'
<1> USE DEF TypeOK, Goto, Stages
<1>1. ASSUME UNCHANGED <<partner, workers, now>>
      PROVE  PartnerTypeOK' /\ WorkerTypeOK' /\ now' \in Nat
  BY Zenon, <1>1 DEF partner, workers, PartnerTypeOK, WorkerTypeOK
<1>2. ASSUME UNCHANGED call  PROVE CallTypeOK'
  BY Zenon, <1>2 DEF call, CallTypeOK
<1>3. CASE DebitSource(t)
  <2>1. StateTypeOK'
    <3>1. <<"PENDING", "SOURCE_DEBITED">> \in Seq(Statuses)
      BY SMTT(30) DEF Statuses
    <3> QED  BY Zenon, <1>3, <3>1, TransitionType DEF DebitSource
  <2>2. RowTypeOK'
    BY SMTT(30), <1>3 DEF DebitSource, RowTypeOK
  <2>3. journals' \in [Transfers -> SUBSET JournalTypes]
    BY ZenonT(60), <1>3
    DEF DebitSource, PostDebit, PostJournal, LedgerTypeOK, JournalTypes
  <2>4. user_balance' \in [Users \X Programs -> Int]
    <3>1. user_balance' = [user_balance EXCEPT ![SourceAccount(t)] =
                             @ - Request[t].source_points]
      BY Zenon, <1>3 DEF DebitSource, PostDebit
    <3>2. /\ user_balance \in [Users \X Programs -> Int]
          /\ SourceAccount(t) \in Users \X Programs
          /\ Request[t].source_points \in Nat
      BY Zenon, RequestType DEF LedgerTypeOK
    <3>3. user_balance[SourceAccount(t)] \in Int
      BY Zenon, <3>2
    <3>4. user_balance[SourceAccount(t)] - Request[t].source_points \in Int
      BY SMTT(30), <3>2, <3>3
    <3> QED  BY Zenon, <3>1, <3>2, <3>4
  <2>5. clearing' \in [Programs -> Int] /\ settlement' \in [Programs -> Int]
    <3>1. /\ clearing' = [clearing EXCEPT ![Request[t].source] =
                            @ + Request[t].source_points]
          /\ UNCHANGED settlement
      BY Zenon, <1>3 DEF DebitSource, PostDebit
    <3>2. /\ clearing \in [Programs -> Int] /\ settlement \in [Programs -> Int]
          /\ Request[t].source \in Programs
          /\ Request[t].source_points \in Nat
      BY Zenon, RequestType DEF LedgerTypeOK
    <3>3. clearing[Request[t].source] \in Int
      BY Zenon, <3>2
    <3>4. clearing[Request[t].source] + Request[t].source_points \in Int
      BY SMTT(30), <3>2, <3>3
    <3> QED  BY Zenon, <3>1, <3>2, <3>4
  <2>6. LedgerTypeOK'
    BY Zenon, <2>3, <2>4, <2>5 DEF LedgerTypeOK
  <2> QED  BY Zenon, <1>1, <1>2, <1>3, <2>1, <2>2, <2>6 DEF DebitSource
<1>4. CASE MarkSubmitted(t)
  <2>1. StateTypeOK'
    <3>1. <<"PARTNER_SUBMITTED">> \in Seq(Statuses)
      BY SMTT(30) DEF Statuses
    <3> QED  BY Zenon, <1>4, <3>1, TransitionType DEF MarkSubmitted
  <2>2. RowTypeOK' /\ LedgerTypeOK'
    BY Zenon, <1>4 DEF MarkSubmitted, RowTypeOK, LedgerTypeOK, ledger
  <2> QED  BY Zenon, <1>1, <1>2, <1>4, <2>1, <2>2 DEF MarkSubmitted
<1>5. CASE ApplyPartnerOutcome(t)
  <2>1. ASSUME HoldForVerification(t)
        PROVE  LedgerTypeOK' /\ StateTypeOK' /\ RowTypeOK'
    <3>1. <<"PENDING_VERIFICATION">> \in Seq(Statuses)
      BY SMTT(30) DEF Statuses
    <3>2. StateTypeOK'
      BY Zenon, <2>1, <3>1, TransitionType DEF HoldForVerification
    <3>3. At(now + VerificationDelay) \in Int
      BY SMTT(30), AtType, SettingsAssumption
    <3>4. RowTypeOK' /\ LedgerTypeOK'
      BY Zenon, <2>1, <3>3
      DEF HoldForVerification, RowTypeOK, LedgerTypeOK, ledger
    <3> QED  BY Zenon, <3>2, <3>4
  <2>2. "PARTNER_REJECTED" \in FailureCodes
          /\ "PARTNER_UNAVAILABLE" \in FailureCodes
    BY Zenon DEF FailureCodes
  <2>3. ASSUME UNCHANGED <<ledger, row>>
        PROVE  LedgerTypeOK' /\ StateTypeOK' /\ RowTypeOK'
    BY Zenon, <2>3 DEF ledger, row, LedgerTypeOK, StateTypeOK, RowTypeOK
  <2>4. LedgerTypeOK' /\ StateTypeOK' /\ RowTypeOK'
    BY Zenon, <1>5, <2>1, <2>2, <2>3, SettleType, ReverseType
    DEF ApplyPartnerOutcome
  <2>5. CallTypeOK'
    BY SMTT(30), <1>5 DEF ApplyPartnerOutcome, EndRequest, CallTypeOK, Outcomes, NoTime
  <2> QED  BY Zenon, <1>1, <1>5, <2>4, <2>5 DEF ApplyPartnerOutcome, EndRequest
<1> QED  BY Zenon, <1>3, <1>4, <1>5

\* A reconciler's step.
LEMMA WorkerStepType ==
    ASSUME TypeOK, NEW w \in Workers,
           \/ ClaimDue(w) \/ ReconcileNext(w) \/ AdminReconcile(w)
           \/ RoundFails(w) \/ ReverseInterrupted(w) \/ PartnerReplies(w)
           \/ StatusKnown(w) \/ Apply(w)
    PROVE  TypeOK'
<1> USE DEF TypeOK
<1>1. ASSUME UNCHANGED <<pc, call, partner, now>>
      PROVE  /\ CallTypeOK' /\ PartnerTypeOK' /\ now' \in Nat
             /\ pc' \in [Transfers -> Stages]
  BY Zenon, <1>1 DEF call, partner, CallTypeOK, PartnerTypeOK
<1>2. ASSUME UNCHANGED <<ledger, row>>
      PROVE  LedgerTypeOK' /\ StateTypeOK' /\ RowTypeOK'
  BY Zenon, <1>2 DEF ledger, row, LedgerTypeOK, StateTypeOK, RowTypeOK
<1>3. /\ Idle \in Tasks /\ Idle.stage = "idle"
      /\ \A stage \in {"reversing", "asking", "replied", "applying"},
            t \in Transfers, answer \in Answers, since \in Int :
           /\ Task(stage, t, answer, since) \in Tasks
           /\ Task(stage, t, answer, since).transfer = t
  BY SMTT(30) DEF Idle, Task, Tasks, NoTransfer, NoTime, Answers
<1>4. ASSUME NEW t \in Transfers, Reconcile(w, t), UNCHANGED batch
               \/ batch' \in [Workers -> SUBSET Transfers]
      PROVE  WorkerTypeOK'
  <2>1. "none" \in Answers /\ NoTime \in Int
    BY SMTT(30) DEF Answers, NoTime
  <2> QED  BY SMTT(30), <1>3, <1>4, <2>1 DEF Reconcile, WorkerTypeOK
<1>5. CASE ClaimDue(w)
  <2>1. WorkerTypeOK'
    BY Zenon, <1>5 DEF ClaimDue, WorkerTypeOK
  <2>2. At(now + Lease) \in Int
    BY SMTT(30), AtType, SettingsAssumption
  <2>3. RowTypeOK'
    BY Zenon, <1>5, <2>2 DEF ClaimDue, RowTypeOK
  <2>4. LedgerTypeOK' /\ StateTypeOK'
    BY Zenon, <1>5 DEF ClaimDue, ledger, LedgerTypeOK, StateTypeOK
  <2> QED  BY Zenon, <1>1, <1>5, <2>1, <2>3, <2>4 DEF ClaimDue
<1>6. CASE ReconcileNext(w)
  <2>1. WorkerTypeOK'
    BY Zenon, <1>4, <1>6 DEF ReconcileNext, WorkerTypeOK
  <2> QED  BY Zenon, <1>1, <1>2, <1>6, <2>1 DEF ReconcileNext
<1>7. CASE AdminReconcile(w)
  <2>1. WorkerTypeOK'
    BY Zenon, <1>4, <1>7 DEF AdminReconcile, WorkerTypeOK
  <2> QED  BY Zenon, <1>1, <1>2, <1>7, <2>1 DEF AdminReconcile
<1>8. CASE RoundFails(w)
  <2>1. WorkerTypeOK'
    BY ZenonT(60), <1>3, <1>8 DEF RoundFails, WorkerTypeOK
  <2> QED  BY Zenon, <1>1, <1>2, <1>8, <2>1 DEF RoundFails
<1>9. CASE PartnerReplies(w)
  <2>1. WorkerTypeOK'
    <3> DEFINE t == task[w].transfer
               answer == IF credited[t] THEN "COMPLETED" ELSE "NOT_FOUND"
    <3>1. t \in Transfers /\ task[w].since \in Int /\ answer \in Answers
      BY Zenon, <1>9 DEF PartnerReplies, WorkerTypeOK, Tasks, Answers
    <3>2. /\ task' = [task EXCEPT ![w] =
                        Task("replied", t, answer, task[w].since)]
          /\ UNCHANGED batch
      BY Zenon, <1>9 DEF PartnerReplies, WorkerTypeOK
    <3> HIDE DEF t, answer
    <3> QED  BY SMTT(30), <1>3, <3>1, <3>2 DEF WorkerTypeOK
  <2> QED  BY Zenon, <1>1, <1>2, <1>9, <2>1 DEF PartnerReplies
<1>10. CASE StatusKnown(w)
  <2>1. WorkerTypeOK'
    <3> DEFINE t == task[w].transfer
    <3>1. t \in Transfers /\ task[w].answer \in Answers
      BY Zenon, <1>10 DEF StatusKnown, WorkerTypeOK, Tasks
    <3>2. PICK answer \in Answers :
            task' = [task EXCEPT ![w] = Task("applying", t, answer, now)]
      BY Zenon, <1>10, <3>1 DEF StatusKnown, WorkerTypeOK, Answers
    <3> HIDE DEF t
    <3>3. UNCHANGED batch
      BY Zenon, <1>10 DEF StatusKnown
    <3> QED  BY SMTT(30), <1>3, <3>1, <3>2, <3>3 DEF WorkerTypeOK
  <2> QED  BY Zenon, <1>1, <1>2, <1>10, <2>1 DEF StatusKnown
<1>11. CASE ReverseInterrupted(w)
  <2>1. "TRANSFER_INTERRUPTED" \in FailureCodes
    BY Zenon DEF FailureCodes
  <2>2. task[w].transfer \in Transfers
    BY Zenon, <1>11 DEF ReverseInterrupted, WorkerTypeOK
  <2>3. LedgerTypeOK' /\ StateTypeOK' /\ RowTypeOK'
    BY Zenon, <1>2, <1>11, <2>1, <2>2, ReverseType DEF ReverseInterrupted
  <2>4. WorkerTypeOK'
    BY ZenonT(60), <1>3, <1>11 DEF ReverseInterrupted, WorkerTypeOK
  <2> QED  BY Zenon, <1>1, <1>11, <2>3, <2>4 DEF ReverseInterrupted
<1>12. CASE Apply(w)
  <2> DEFINE t == task[w].transfer
             moment == task[w].since
  <2>1. t \in Transfers /\ moment \in Int
    BY Zenon, <1>12 DEF Apply, WorkerTypeOK, Tasks
  <2>2. "PARTNER_NOT_RECEIVED" \in FailureCodes
          /\ "VERIFICATION_EXHAUSTED" \in FailureCodes
    BY Zenon DEF FailureCodes
  <2>3. ASSUME RecheckAfterGrace(t, moment)
        PROVE  LedgerTypeOK' /\ StateTypeOK' /\ RowTypeOK'
    <3>1. StateTypeOK'
      <4>1. <<>> \in Seq(Statuses)
        OBVIOUS
      <4> QED  BY Zenon, <2>1, <2>3, <4>1, VerifyingType DEF RecheckAfterGrace
    <3>2. At(Smaller(moment + BackoffBase, created_at[t] + NotFoundGrace))
            \in Int
      <4>1. moment + BackoffBase \in Int
        BY SMTT(30), <2>1, SettingsAssumption
      <4>2. created_at[t] + NotFoundGrace \in Int
        BY SMTT(30), <2>1, SettingsAssumption DEF RowTypeOK
      <4> QED  BY Zenon, <4>1, <4>2, AtType
    <3>3. RowTypeOK' /\ LedgerTypeOK'
      BY Zenon, <2>1, <2>3, <3>2
      DEF RecheckAfterGrace, RowTypeOK, LedgerTypeOK, ledger
    <3> QED  BY Zenon, <3>1, <3>3
  <2>4. ASSUME RetryOrEscalate(t, moment)
        PROVE  LedgerTypeOK' /\ StateTypeOK' /\ RowTypeOK'
    <3> DEFINE attempts == verification_attempts[t] + 1
    <3>1. attempts \in Nat \ {0} /\ MaxAttempts \in Nat
      BY SMTT(30), <2>1, SettingsAssumption DEF RowTypeOK
    <3>2. <<"MANUAL_REVIEW">> \in Seq(Statuses) /\ <<>> \in Seq(Statuses)
      BY SMTT(30) DEF Statuses
    <3>3. StateTypeOK'
      BY Zenon, <2>1, <2>4, <3>2, VerifyingType DEF RetryOrEscalate
    <3>4. At(moment + Backoff(attempts)) \in Int /\ NoTime \in Int
      <4>1. Backoff(attempts) \in Int
        BY Zenon, <3>1, BackoffType
      <4>2. moment + Backoff(attempts) \in Int
        BY SMTT(30), <2>1, <4>1
      <4>3. At(moment + Backoff(attempts)) \in Int
        BY ZenonT(60), <4>2, AtType
      <4> QED  BY SMTT(30), <4>3 DEF NoTime
    <3>5. RowTypeOK' /\ LedgerTypeOK'
      <4> DEFINE next == At(moment + Backoff(attempts))
      <4>1. /\ verification_attempts' =
                 [verification_attempts EXCEPT ![t] = attempts]
            /\ \/ failure_code' = failure_code
               \/ failure_code' =
                    [failure_code EXCEPT ![t] = "VERIFICATION_EXHAUSTED"]
            /\ \E time \in {next, NoTime} : next_verification_at' =
                 [next_verification_at EXCEPT ![t] = time]
            /\ UNCHANGED <<ledger, created_at>>
        BY Zenon, <2>4 DEF RetryOrEscalate
      <4> HIDE DEF next, attempts
      <4>2. next \in Int /\ NoTime \in Int
        BY Zenon, <3>4 DEF next
      <4>3. attempts \in Nat
        BY Zenon, <3>1
      <4> QED  BY SMTT(30), <2>1, <4>1, <4>2, <4>3
               DEF RowTypeOK, LedgerTypeOK, ledger, FailureCodes
    <3> QED  BY Zenon, <3>3, <3>5
  <2>5. LedgerTypeOK' /\ StateTypeOK' /\ RowTypeOK'
    BY Zenon, <1>2, <1>12, <2>1, <2>2, <2>3, <2>4, SettleType, ReverseType
    DEF Apply
  <2>6. WorkerTypeOK'
    BY ZenonT(60), <1>3, <1>12 DEF Apply, WorkerTypeOK
  <2> QED  BY Zenon, <1>1, <1>12, <2>5, <2>6 DEF Apply
<1> QED  BY Zenon, <1>5, <1>6, <1>7, <1>8, <1>9, <1>10, <1>11, <1>12

\* Every status, code, outcome and answer the engine stores is one of its
\* enumeration, whichever step stored it.
THEOREM TypeCorrect == Spec => []TypeOK
<1>1. Init => TypeOK
  BY SMTT(30), RequestAssumption
  DEF Init, TypeOK, LedgerTypeOK, StateTypeOK, RowTypeOK, CallTypeOK,
      PartnerTypeOK, WorkerTypeOK, Tasks, Idle, Task, NoTime, NoTransfer,
      NoCode, JournalTypes, Statuses, Stages, Outcomes, Answers
<1>2. TypeOK /\ [Next]_vars => TypeOK'
  <2> SUFFICES ASSUME TypeOK, [Next]_vars  PROVE TypeOK'
    OBVIOUS
  <2>1. ASSUME NEW t \in Transfers,
               \/ Refuse(t) \/ DebitSource(t) \/ ReturnExisting(t)
               \/ RequestStep(t) \/ Interrupted(t) \/ PartnerApplies(t)
        PROVE  TypeOK'
    BY Zenon, <2>1, CallStepType, RowStepType DEF RequestStep
  <2>2. CASE Tick
    BY SMTT(30), <2>2
    DEF Tick, TypeOK, LedgerTypeOK, StateTypeOK, RowTypeOK, CallTypeOK,
        PartnerTypeOK, WorkerTypeOK, ledger, row, call, partner, workers
  <2>3. CASE UNCHANGED vars
    BY Zenon, <2>3
    DEF vars, TypeOK, LedgerTypeOK, StateTypeOK, RowTypeOK, CallTypeOK,
        PartnerTypeOK, WorkerTypeOK, ledger, row, call, partner, workers
  <2> QED  BY Zenon, <2>1, <2>2, <2>3, WorkerStepType DEF Next
<1> QED  BY <1>1, <1>2, PTL DEF Spec

-----------------------------------------------------------------------------
(* What the rows' steps do to a status *)

\* The moves of ALLOWED_TRANSITIONS, read backwards.
LEMMA MovesInto ==
    ASSUME NEW s \in Statuses
    PROVE  /\ can_transition(s, "PENDING") => s = "NO_ROW"
           /\ can_transition(s, "PARTNER_SUBMITTED") => s = "SOURCE_DEBITED"
           /\ can_transition(s, "PENDING_VERIFICATION")
                => s = "PARTNER_SUBMITTED"
           /\ can_transition(s, "MANUAL_REVIEW") => s = "PENDING_VERIFICATION"
           /\ can_transition(s, "COMPLETED") => s \in VERIFIABLE
           /\ can_transition(s, "REVERSED")
                => s \in VERIFIABLE \cup {"SOURCE_DEBITED"}
  BY Zenon DEF can_transition, ALLOWED_TRANSITIONS, Statuses, VERIFIABLE

\* One call of transition(): an allowed move, and nothing else moves.
LEMMA SingleMove ==
    ASSUME NEW t \in Transfers, NEW s \in Statuses, Transition(t, <<s>>)
    PROVE  /\ can_transition(status[t], s)
           /\ status' = [status EXCEPT ![t] = s]
  BY Zenon DEF Transition

\* The debit transaction: record_creation, then transition to
\* SOURCE_DEBITED, in one commit.
LEMMA CreationMove ==
    ASSUME NEW t \in Transfers, Transition(t, <<"PENDING", "SOURCE_DEBITED">>)
    PROVE  /\ can_transition(status[t], "PENDING")
           /\ status' = [status EXCEPT ![t] = "SOURCE_DEBITED"]
  BY Zenon DEF Transition

\* An inconclusive check leaves the transfer waiting or with an operator
\* (_recheck_after_grace, _retry_or_escalate).
LEMMA VerifyingMove ==
    ASSUME NEW t \in Transfers, StateTypeOK, status[t] \in VERIFIABLE,
           NEW to \in {<<>>, <<"MANUAL_REVIEW">>},
           MoveAlong(t, Verifying(t, to))
    PROVE  \E s \in {"PENDING_VERIFICATION", "MANUAL_REVIEW"} :
             /\ status' = [status EXCEPT ![t] = s]
             /\ to # <<>> <=> s = "MANUAL_REVIEW"
<1>n. <<"MANUAL_REVIEW">> # <<>>
  OBVIOUS
<1>1. CASE status[t] = "PENDING_VERIFICATION" /\ to = <<>>
  <2>1. Verifying(t, to) = <<>>
    BY SMTT(30), <1>1 DEF Verifying
  <2>2. UNCHANGED status
    BY Zenon, <2>1 DEF MoveAlong
  <2>3. status' = [status EXCEPT ![t] = "PENDING_VERIFICATION"]
    BY Zenon, <1>1, <2>2 DEF StateTypeOK
  <2> QED  BY Zenon, <1>1, <2>3
<1>2. CASE status[t] = "PENDING_VERIFICATION" /\ to = <<"MANUAL_REVIEW">>
  <2>1. Verifying(t, to) = <<"MANUAL_REVIEW">>
    BY SMTT(30), <1>2 DEF Verifying
  <2>2. Transition(t, <<"MANUAL_REVIEW">>)
    BY SMTT(30), <2>1 DEF MoveAlong
  <2>3. status' = [status EXCEPT ![t] = "MANUAL_REVIEW"]
    BY Zenon, <2>2, SingleMove DEF Statuses
  <2> QED  BY Zenon, <1>n, <1>2, <2>3
<1>3. CASE status[t] = "PARTNER_SUBMITTED" /\ to = <<>>
  <2>1. Verifying(t, to) = <<"PENDING_VERIFICATION">>
    BY SMTT(30), <1>3 DEF Verifying
  <2>2. Transition(t, <<"PENDING_VERIFICATION">>)
    BY SMTT(30), <2>1 DEF MoveAlong
  <2> QED  BY Zenon, <1>3, <2>2, SingleMove DEF Statuses
<1>4. CASE status[t] = "PARTNER_SUBMITTED" /\ to = <<"MANUAL_REVIEW">>
  <2> DEFINE path == <<"PENDING_VERIFICATION">> \o <<"MANUAL_REVIEW">>
  <2>1. Verifying(t, to) = path
    BY Zenon, <1>4 DEF Verifying
  <2>2. Len(path) = 2 /\ path[2] = "MANUAL_REVIEW" /\ path # <<>>
    OBVIOUS
  <2>3. Transition(t, path)
    BY Zenon, <2>1, <2>2 DEF MoveAlong
  <2> HIDE DEF path
  <2>4. status' = [status EXCEPT ![t] = "MANUAL_REVIEW"]
    BY Zenon, <2>2, <2>3 DEF Transition
  <2> QED  BY Zenon, <1>n, <1>4, <2>4
<1> QED  BY Zenon, <1>1, <1>2, <1>3, <1>4 DEF VERIFIABLE

\* What settle_transfer and reverse_transfer do to the row.
LEMMA SettleMove ==
    ASSUME StateTypeOK, NEW t \in Transfers, settle_transfer(t)
    PROVE  /\ status[t] \in VERIFIABLE
           /\ status' = [status EXCEPT ![t] = "COMPLETED"]
           /\ UNCHANGED created_at
<1>1. Transition(t, <<"COMPLETED">>) /\ UNCHANGED created_at
  BY Zenon DEF settle_transfer
<1>2. "COMPLETED" \in Statuses /\ status[t] \in Statuses
  BY Zenon DEF Statuses, StateTypeOK
<1> QED  BY Zenon, <1>1, <1>2, SingleMove, MovesInto

\* reverse_transfer starts from an open status that no operator holds.
LEMMA ReverseMove ==
    ASSUME StateTypeOK, NEW t \in Transfers, NEW code,
           reverse_transfer(t, code)
    PROVE  /\ status[t] \in VERIFIABLE \cup {"SOURCE_DEBITED"}
           /\ status' = [status EXCEPT ![t] = "REVERSED"]
           /\ UNCHANGED created_at
<1>1. Transition(t, <<"REVERSED">>) /\ UNCHANGED created_at
  BY Zenon DEF reverse_transfer
<1>2. "REVERSED" \in Statuses /\ status[t] \in Statuses
  BY Zenon DEF Statuses, StateTypeOK
<1> QED  BY Zenon, <1>1, <1>2, SingleMove, MovesInto

-----------------------------------------------------------------------------
(* The inductive invariant of PartnerAgreement, in parts *)

\* The last moment at which the partner may still apply a credit: the call
\* starts within PrepMax, ends within Deadline, and what it lost lands within
\* MaxLate.
InFlightUntil(t) == created_at[t] + PrepMax + Deadline + MaxLate

\* How far a request may be, given the status of its row, and what has
\* certainly not left it yet.
StageInv(t) ==
    /\ status[t] # "PENDING"
    /\ pc[t] \in {"new", "refused"} => status[t] = "NO_ROW"
    /\ status[t] = "NO_ROW" => pc[t] \in {"new", "refused", "done"}
    /\ status[t] = "SOURCE_DEBITED" => pc[t] \in {"debited", "dead"}
    /\ pc[t] = "debited" => status[t] \in {"SOURCE_DEBITED", "REVERSED"}
    /\ (\/ status[t] \in {"NO_ROW", "SOURCE_DEBITED"}
        \/ pc[t] \in {"debited", "submitted"})
         => ~credited[t] /\ late_until[t] = NoTime
    /\ pc[t] \in {"new", "refused", "debited", "submitted"}
         => ~possibly_applied[t] /\ result[t] = "none"

\* What the partner call knows: until an attempt ended UNKNOWN nothing is
\* under way between attempts, and a definite result is true.
CallInv(t) ==
    /\ pc[t] = "ready" => result[t] \in {"none", "NOT_SENT", "UNKNOWN"}
    /\ pc[t] = "ready" /\ result[t] = "UNKNOWN" => possibly_applied[t]
    /\ pc[t] = "ready" /\ ~possibly_applied[t] => ~credited[t]
    /\ pc[t] \in {"ready", "waiting"} /\ ~possibly_applied[t]
         => late_until[t] = NoTime
    /\ pc[t] = "outcome" /\ result[t] = "SUCCESS" => credited[t]
    /\ pc[t] = "outcome" /\ result[t] \in {"REJECTED", "NOT_SENT"}
         => ~credited[t] /\ late_until[t] = NoTime

\* When things happen: a live request keeps its times, and nothing lands
\* after InFlightUntil.
TimeInv(t) ==
    /\ pc[t] \in {"debited", "submitted"} => now <= created_at[t] + PrepMax
    /\ pc[t] \in {"ready", "waiting"} =>
         /\ call_started[t] <= created_at[t] + PrepMax
         /\ now <= call_started[t] + Deadline
    /\ late_until[t] <= InFlightUntil(t)
    /\ created_at[t] >= NoTime

\* What a reconciler knows: a credit it was told of exists, and a NOT_FOUND
\* can be outdated only if it was asked for before InFlightUntil.
TaskInv(w) ==
    LET t == task[w].transfer IN
    /\ task[w].stage # "idle" => status[t] # "NO_ROW"
    /\ task[w].stage \in {"asking", "replied"} =>
         task[w].since <= now /\ now <= task[w].since + Deadline
    /\ task[w].stage = "applying" => task[w].since <= now
    /\ task[w].stage = "asking" => task[w].answer = "none"
    /\ task[w].stage # "idle" /\ task[w].answer = "COMPLETED" => credited[t]
    /\ task[w].stage = "replied" /\ task[w].answer = "NOT_FOUND" =>
         ~credited[t] \/ task[w].since <= InFlightUntil(t)
    /\ task[w].stage = "applying" /\ task[w].answer = "NOT_FOUND" =>
         ~credited[t] \/ task[w].since <= InFlightUntil(t) + Deadline

\* What a resolution rests on: after a reversal nothing can land any more.
ResolvedInv(t) ==
    /\ status[t] = "COMPLETED" => credited[t]
    /\ status[t] = "REVERSED" =>
         /\ ~credited[t]
         /\ \/ now > InFlightUntil(t)
            \/ /\ pc[t] \notin {"submitted", "ready", "waiting"}
               /\ late_until[t] = NoTime

AgreementInv ==
    /\ \A t \in Transfers :
         StageInv(t) /\ CallInv(t) /\ TimeInv(t) /\ ResolvedInv(t)
    /\ \A w \in Workers : TaskInv(w)

-----------------------------------------------------------------------------
(* The arithmetic of the times *)

\* A moment is not after itself, nor after a later one.
LEMMA NotLater ==
    ASSUME NEW n \in Nat, NEW d \in Nat
    PROVE  n <= n /\ n <= n + d
  BY SMTT(30)

\* The clock's tick stays within a limit it has not reached.
LEMMA NextMoment ==
    ASSUME NEW n \in Nat, NEW s \in Int, NEW d \in Nat
    PROVE  (s <= n => s <= n + 1) /\ (n < s + d => n + 1 <= s + d)
  BY SMTT(30)

\* What was asked before a limit is answered at most d after it.
LEMMA AnswerAge ==
    ASSUME NEW n \in Nat, NEW s \in Int, NEW limit \in Int, NEW d \in Nat,
           n <= s + d
    PROVE  s <= limit => n <= limit + d
  BY SMTT(30)

\* A grace that is over outlasts what is in flight, by a status check.
LEMMA GraceOutlasts ==
    ASSUME GraceCoversInFlight, NEW created \in Int, NEW moment \in Int,
           moment >= created + NotFoundGrace, NEW n \in Nat, moment <= n
    PROVE  /\ n > created + PrepMax + Deadline + MaxLate
           /\ ~(moment <= created + PrepMax + Deadline + MaxLate + Deadline)
<1>1. /\ PrepMax \in Nat /\ MaxLate \in Nat /\ Deadline \in Nat
      /\ NotFoundGrace \in Nat
  BY Zenon, EnvironmentAssumption, SettingsAssumption
<1> QED  BY SMTT(30), <1>1 DEF GraceCoversInFlight

\* A row created within the last PrepMax.
LEMMA FreshRow ==
    ASSUME NEW n \in Nat, NEW start \in 0 .. n, n - start <= PrepMax
    PROVE  /\ n <= start + PrepMax /\ start >= NoTime
           /\ NoTime <= start + PrepMax + Deadline + MaxLate
  BY SMTT(30), EnvironmentAssumption, SettingsAssumption DEF NoTime

\* What a call leaves behind lands while the transfer is in flight.
LEMMA LateInFlight ==
    ASSUME NEW n \in Nat, NEW created \in Int, NEW started \in Int,
           started <= created + PrepMax, n <= started + Deadline
    PROVE  n + MaxLate <= created + PrepMax + Deadline + MaxLate
  BY SMTT(30), EnvironmentAssumption, SettingsAssumption

\* What was never sent has landed in time.
LEMMA NothingInFlight ==
    ASSUME NEW created \in Int, created >= NoTime
    PROVE  NoTime <= created + PrepMax + Deadline + MaxLate
  BY SMTT(30), EnvironmentAssumption, SettingsAssumption DEF NoTime

\* An idle reconciler is idle.
LEMMA IdleStage == Idle.stage = "idle"
  BY Zenon DEF Idle, Task

-----------------------------------------------------------------------------
(* Frames: what a step leaves alone keeps the invariant *)

TransferInv(t) == StageInv(t) /\ CallInv(t) /\ TimeInv(t) /\ ResolvedInv(t)

\* A transfer none of whose state changes.
LEMMA TransferFrame ==
    ASSUME NEW u \in Transfers, TransferInv(u), UNCHANGED now,
           status'[u] = status[u], created_at'[u] = created_at[u],
           pc'[u] = pc[u], result'[u] = result[u],
           possibly_applied'[u] = possibly_applied[u],
           call_started'[u] = call_started[u],
           credited'[u] = credited[u], late_until'[u] = late_until[u]
    PROVE  TransferInv(u)'
  BY Zenon DEF TransferInv, StageInv, CallInv, TimeInv, ResolvedInv, InFlightUntil

\* A reconciler that does nothing, while no credit and no row it knows of
\* changes in what it relies on.
LEMMA TaskFrame ==
    ASSUME TypeOK, NEW w \in Workers, TaskInv(w), UNCHANGED now,
           task'[w] = task[w],
           \A t \in Transfers : status[t] # "NO_ROW" =>
             /\ status'[t] # "NO_ROW"
             /\ created_at'[t] = created_at[t]
             /\ credited'[t] = credited[t]
    PROVE  TaskInv(w)'
<1>1. CASE task[w].stage = "idle"
  BY Zenon, <1>1 DEF TaskInv
<1>2. CASE task[w].stage # "idle"
  <2>1. task[w].transfer \in Transfers /\ status[task[w].transfer] # "NO_ROW"
    BY Zenon, <1>2 DEF TypeOK, WorkerTypeOK, TaskInv
  <2> QED  BY Zenon, <2>1 DEF TaskInv, InFlightUntil
<1> QED  BY Zenon, <1>1, <1>2

\* A request's step changes the state of its own transfer only.
LEMMA RequestFrame ==
    ASSUME TypeOK, AgreementInv, NEW t \in Transfers,
           UNCHANGED <<workers, now>>,
           \A u \in Transfers \ {t} :
             /\ status'[u] = status[u] /\ created_at'[u] = created_at[u]
             /\ pc'[u] = pc[u] /\ result'[u] = result[u]
             /\ possibly_applied'[u] = possibly_applied[u]
             /\ call_started'[u] = call_started[u]
             /\ credited'[u] = credited[u] /\ late_until'[u] = late_until[u],
           TransferInv(t)',
           status[t] # "NO_ROW" =>
             /\ status'[t] # "NO_ROW"
             /\ created_at'[t] = created_at[t]
             /\ credited'[t] = credited[t]
    PROVE  AgreementInv'
<1>1. ASSUME NEW u \in Transfers  PROVE TransferInv(u)'
  <2>1. TransferInv(u)
    BY Zenon DEF AgreementInv, TransferInv
  <2> QED  BY Zenon, <2>1, TransferFrame
<1>2. ASSUME NEW w \in Workers  PROVE TaskInv(w)'
  <2>1. TaskInv(w) /\ task'[w] = task[w]
    BY Zenon DEF AgreementInv, workers
  <2>2. \A u \in Transfers : status[u] # "NO_ROW" =>
             /\ status'[u] # "NO_ROW"
             /\ created_at'[u] = created_at[u]
             /\ credited'[u] = credited[u]
    OBVIOUS
  <2> QED  BY Zenon, <2>1, <2>2, TaskFrame
<1> QED  BY Zenon, <1>1, <1>2 DEF AgreementInv, TransferInv

\* A reconciler's step that only changes what it knows.
LEMMA KnowledgeFrame ==
    ASSUME TypeOK, AgreementInv, NEW w \in Workers,
           UNCHANGED <<status, created_at, pc, call, partner, now>>,
           \A v \in Workers \ {w} : task'[v] = task[v],
           TaskInv(w)'
    PROVE  AgreementInv'
<1>1. ASSUME NEW u \in Transfers  PROVE TransferInv(u)'
  <2>1. TransferInv(u)
    BY Zenon DEF AgreementInv, TransferInv
  <2> QED  BY Zenon, <2>1, TransferFrame DEF call, partner
<1>2. ASSUME NEW v \in Workers \ {w}  PROVE TaskInv(v)'
  <2>1. TaskInv(v) /\ task'[v] = task[v]
    BY Zenon DEF AgreementInv
  <2> QED  BY Zenon, <2>1, TaskFrame DEF partner
<1> QED  BY Zenon, <1>1, <1>2 DEF AgreementInv, TransferInv

\* A reconciler's step that writes a row and is then idle.
LEMMA ResolutionFrame ==
    ASSUME TypeOK, AgreementInv, NEW w \in Workers, NEW t \in Transfers,
           UNCHANGED <<created_at, pc, call, partner, now>>,
           NEW s \in Statuses \ {"NO_ROW"}, status' = [status EXCEPT ![t] = s],
           task' = [task EXCEPT ![w] = Idle],
           TransferInv(t)'
    PROVE  AgreementInv'
<1>1. ASSUME NEW u \in Transfers  PROVE TransferInv(u)'
  <2>1. TransferInv(u)
    BY Zenon DEF AgreementInv, TransferInv
  <2>2. CASE u # t
    BY Zenon, <2>1, <2>2, TransferFrame DEF call, partner, TypeOK, StateTypeOK
  <2> QED  BY Zenon, <2>2
<1>2. ASSUME NEW v \in Workers  PROVE TaskInv(v)'
  <2>1. CASE v = w
    <3>1. task'[w] = Idle
      BY Zenon DEF TypeOK, WorkerTypeOK
    <3> QED  BY Zenon, <2>1, <3>1, IdleStage DEF TaskInv
  <2>2. CASE v # w
    <3>1. TaskInv(v) /\ task'[v] = task[v]
      BY Zenon, <2>2 DEF AgreementInv, TypeOK, WorkerTypeOK
    <3> QED  BY Zenon, <3>1, TaskFrame DEF partner, TypeOK, StateTypeOK
  <2> QED  BY Zenon, <2>1, <2>2
<1> QED  BY Zenon, <1>1, <1>2 DEF AgreementInv, TransferInv

-----------------------------------------------------------------------------
(* The steps of a request *)

\* The steps that leave the row alone.
LEMMA CallStepInv ==
    ASSUME RejectIsFinal, TypeOK, AgreementInv, NEW t \in Transfers,
           \/ Refuse(t) \/ ReturnExisting(t) \/ Interrupted(t)
           \/ StartCall(t) \/ CircuitOpen(t) \/ DeadlineExceeded(t)
           \/ SendAttempt(t) \/ AttemptSucceeded(t) \/ AttemptRejected(t)
           \/ AttemptNotSent(t) \/ AttemptUnknown(t)
    PROVE  AgreementInv'
<1> DEFINE Mine == UNCHANGED <<row, workers, now, credited>> /\
             \A u \in Transfers \ {t} :
               /\ pc'[u] = pc[u] /\ result'[u] = result[u]
               /\ possibly_applied'[u] = possibly_applied[u]
               /\ call_started'[u] = call_started[u]
               /\ late_until'[u] = late_until[u]
<1>0. ASSUME Mine, TransferInv(t)'  PROVE AgreementInv'
  BY Zenon, <1>0, RequestFrame DEF row, workers
<1>t. TransferInv(t) /\ pc[t] \in Stages /\ now \in Nat
        /\ created_at[t] \in Int /\ late_until[t] \in Int
        /\ call_started[t] \in Int
  BY Zenon
  DEF AgreementInv, TransferInv, TypeOK, RowTypeOK, CallTypeOK,
      PartnerTypeOK
<1>c. PrepMax \in Nat /\ MaxLate \in Nat /\ Deadline \in Nat
  BY Zenon, EnvironmentAssumption, SettingsAssumption
<1>1. CASE Refuse(t)
  <2>1. Mine
    BY Zenon, <1>1
    DEF Refuse, Goto, row, call, partner, workers, TypeOK, CallTypeOK,
        PartnerTypeOK
  <2>2. TransferInv(t)'
    BY ZenonT(60), <1>t, <1>c, <1>1
    DEF Refuse, Goto, row, call, partner, TypeOK, CallTypeOK,
        PartnerTypeOK, TransferInv, StageInv, CallInv, TimeInv,
        ResolvedInv, InFlightUntil, NoTime, CallEnds
  <2> QED  BY Zenon, <1>0, <2>1, <2>2
<1>2. CASE ReturnExisting(t)
  <2>1. Mine
    BY Zenon, <1>2
    DEF ReturnExisting, Payable, Goto, row, call, partner, workers, TypeOK,
        CallTypeOK, PartnerTypeOK
  <2>2. TransferInv(t)'
    BY Zenon, <1>t, <1>c, <1>2
    DEF ReturnExisting, Payable, Goto, row, call, partner, TypeOK,
        CallTypeOK, PartnerTypeOK, TransferInv, StageInv, CallInv, TimeInv,
        ResolvedInv, InFlightUntil, NoTime, CallEnds
  <2> QED  BY Zenon, <1>0, <2>1, <2>2
<1>3. CASE Interrupted(t)
  <2>1. Mine
    BY ZenonT(60), <1>3
    DEF Interrupted, EndRequest, Live, Goto, row, call, partner,
        workers, TypeOK, CallTypeOK, PartnerTypeOK
  <2>2. /\ pc[t] \in Live
        /\ pc'[t] = "dead"
        /\ result'[t] = "none" /\ possibly_applied'[t] = FALSE
        /\ \/ pc[t] = "waiting" /\ late_until'[t] = now + MaxLate
           \/ late_until'[t] = late_until[t]
        /\ UNCHANGED <<status, created_at, credited, now>>
    BY ZenonT(60), <1>3
    DEF Interrupted, EndRequest, Goto, row, TypeOK, CallTypeOK,
        PartnerTypeOK
  <2>3. StageInv(t)' /\ CallInv(t)'
    BY ZenonT(60), <1>t, <2>2
    DEF Live, TransferInv, StageInv, CallInv
  <2>4. pc[t] = "waiting" => now + MaxLate <= InFlightUntil(t)
    BY Zenon, <1>t, LateInFlight DEF TransferInv, TimeInv, InFlightUntil
  <2>5. InFlightUntil(t)' = InFlightUntil(t)
    BY Zenon, <2>2 DEF InFlightUntil
  <2>6. late_until'[t] <= InFlightUntil(t)
    BY Zenon, <1>t, <2>2, <2>4 DEF TransferInv, TimeInv
  <2>7. TimeInv(t)' /\ ResolvedInv(t)'
    BY ZenonT(60), <1>t, <2>2, <2>5, <2>6
    DEF TransferInv, TimeInv, ResolvedInv
  <2> QED  BY Zenon, <1>0, <2>1, <2>3, <2>7 DEF TransferInv
<1>4. CASE StartCall(t)
  <2>1. Mine
    BY ZenonT(60), <1>4
    DEF StartCall, Goto, row, call, partner, workers, TypeOK, CallTypeOK,
        PartnerTypeOK
  <2>2. /\ pc[t] = "submitted" /\ pc'[t] = "ready"
        /\ call_started'[t] = now
        /\ UNCHANGED <<status, created_at, result, possibly_applied,
                       credited, late_until, now>>
    BY Zenon, <1>4
    DEF StartCall, Goto, row, partner, TypeOK, CallTypeOK
  <2>3. StageInv(t)' /\ CallInv(t)'
    BY ZenonT(60), <1>t, <2>2 DEF TransferInv, StageInv, CallInv
  <2>4. now <= now + Deadline
    BY Zenon, <1>t, <1>c, NotLater
  <2>5. TimeInv(t)' /\ ResolvedInv(t)'
    BY ZenonT(60), <1>t, <2>2, <2>4
    DEF TransferInv, TimeInv, ResolvedInv, InFlightUntil
  <2> QED  BY Zenon, <1>0, <2>1, <2>3, <2>5 DEF TransferInv
<1>5. CASE CircuitOpen(t)
  <2>1. Mine
    BY Zenon, <1>5
    DEF CircuitOpen, FinalResult, Goto, row, call, partner, workers,
        TypeOK, CallTypeOK, PartnerTypeOK
  <2>2. TransferInv(t)'
    BY Zenon, <1>t, <1>c, <1>5
    DEF CircuitOpen, FinalResult, Goto, row, call, partner, TypeOK,
        CallTypeOK, PartnerTypeOK, TransferInv, StageInv, CallInv, TimeInv,
        ResolvedInv, InFlightUntil, NoTime, CallEnds
  <2> QED  BY Zenon, <1>0, <2>1, <2>2
<1>6. CASE DeadlineExceeded(t)
  <2>1. Mine
    BY Zenon, <1>6
    DEF DeadlineExceeded, FinalResult, Goto, row, call, partner, workers,
        TypeOK, CallTypeOK, PartnerTypeOK
  <2>2. TransferInv(t)'
    BY Zenon, <1>t, <1>c, <1>6
    DEF DeadlineExceeded, FinalResult, Goto, row, call, partner, TypeOK,
        CallTypeOK, PartnerTypeOK, TransferInv, StageInv, CallInv, TimeInv,
        ResolvedInv, InFlightUntil, NoTime, CallEnds
  <2> QED  BY Zenon, <1>0, <2>1, <2>2
<1>7. CASE SendAttempt(t)
  <2>1. Mine
    BY Zenon, <1>7
    DEF SendAttempt, Goto, row, call, partner, workers, TypeOK, CallTypeOK,
        PartnerTypeOK
  <2>2. TransferInv(t)'
    BY Zenon, <1>t, <1>c, <1>7
    DEF SendAttempt, Goto, row, call, partner, TypeOK, CallTypeOK,
        PartnerTypeOK, TransferInv, StageInv, CallInv, TimeInv,
        ResolvedInv, InFlightUntil, NoTime, CallEnds
  <2> QED  BY Zenon, <1>0, <2>1, <2>2
<1>8. CASE AttemptSucceeded(t)
  <2>1. Mine
    BY Zenon, <1>8
    DEF AttemptSucceeded, AttemptEnds, FinalResult, Goto, row, call,
        partner, workers, TypeOK, CallTypeOK, PartnerTypeOK
  <2>2. TransferInv(t)'
    BY ZenonT(60), <1>t, <1>c, <1>8
    DEF AttemptSucceeded, AttemptEnds, FinalResult, Goto, row, call,
        partner, TypeOK, CallTypeOK, PartnerTypeOK, TransferInv, StageInv,
        CallInv, TimeInv, ResolvedInv, InFlightUntil, NoTime, CallEnds
  <2> QED  BY Zenon, <1>0, <2>1, <2>2
<1>9. CASE AttemptRejected(t)
  <2>1. late_until' = [late_until EXCEPT ![t] = NoTime]
    BY Zenon, <1>9 DEF AttemptRejected
  <2>2. AttemptEnds(t, "REJECTED", FALSE) /\ ~credited[t]
    BY Zenon, <1>9 DEF AttemptRejected
  <2>3. Mine
    BY ZenonT(60), <2>1, <2>2
    DEF AttemptEnds, Goto, row, workers, TypeOK, CallTypeOK, PartnerTypeOK
  <2>4. /\ pc[t] = "waiting" /\ pc'[t] = "outcome"
        /\ result'[t] = "REJECTED"
        /\ late_until'[t] = NoTime /\ ~credited[t]
        /\ UNCHANGED <<status, created_at, credited, now>>
    BY ZenonT(60), <2>1, <2>2
    DEF AttemptEnds, FinalResult, Goto, row, TypeOK, CallTypeOK, PartnerTypeOK
  <2>5. StageInv(t)' /\ CallInv(t)'
    BY ZenonT(60), <1>t, <2>4 DEF TransferInv, StageInv, CallInv
  <2>6. NoTime <= InFlightUntil(t)
    BY Zenon, <1>t, NothingInFlight DEF TransferInv, TimeInv, InFlightUntil
  <2>7. TimeInv(t)' /\ ResolvedInv(t)'
    BY ZenonT(60), <1>t, <2>4, <2>6
    DEF TransferInv, TimeInv, ResolvedInv, InFlightUntil
  <2> QED  BY Zenon, <1>0, <2>3, <2>5, <2>7 DEF TransferInv
<1>10. CASE AttemptNotSent(t)
  <2>1. Mine
    BY Zenon, <1>10
    DEF AttemptNotSent, AttemptEnds, FinalResult, Goto, row, call, partner,
        workers, TypeOK, CallTypeOK, PartnerTypeOK
  <2>2. TransferInv(t)'
    BY Zenon, <1>t, <1>c, <1>10
    DEF AttemptNotSent, AttemptEnds, FinalResult, Goto, row, call, partner,
        TypeOK, CallTypeOK, PartnerTypeOK, TransferInv, StageInv, CallInv,
        TimeInv, ResolvedInv, InFlightUntil, NoTime, CallEnds
  <2> QED  BY Zenon, <1>0, <2>1, <2>2
<1>11. CASE AttemptUnknown(t)
  <2>1. /\ pc[t] = "waiting"
        /\ \E stage \in {"ready", "outcome"} :
             pc' = [pc EXCEPT ![t] = stage]
        /\ result' = [result EXCEPT ![t] = "UNKNOWN"]
        /\ possibly_applied' = [possibly_applied EXCEPT ![t] = TRUE]
        /\ late_until' = [late_until EXCEPT ![t] = now + MaxLate]
        /\ UNCHANGED <<row, call_started, credited, workers, now>>
    BY Zenon, <1>11 DEF AttemptUnknown, AttemptEnds, FinalResult, Goto
  <2>2. Mine
    BY ZenonT(60), <2>1 DEF TypeOK, CallTypeOK, PartnerTypeOK
  <2>3. /\ pc'[t] \in {"ready", "outcome"}
        /\ result'[t] = "UNKNOWN"
        /\ possibly_applied'[t] = TRUE
        /\ late_until'[t] = now + MaxLate
        /\ UNCHANGED <<status, created_at, call_started, credited, now>>
    BY ZenonT(60), <2>1 DEF row, TypeOK, CallTypeOK, PartnerTypeOK
  <2>4. StageInv(t)' /\ CallInv(t)'
    BY ZenonT(60), <1>t, <2>1, <2>3 DEF TransferInv, StageInv, CallInv
  <2>5. now + MaxLate <= InFlightUntil(t)
    BY Zenon, <1>t, <2>1, LateInFlight DEF TransferInv, TimeInv, InFlightUntil
  <2>6. TimeInv(t)' /\ ResolvedInv(t)'
    BY ZenonT(60), <1>t, <2>1, <2>3, <2>5
    DEF TransferInv, TimeInv, ResolvedInv, InFlightUntil
  <2> QED  BY Zenon, <1>0, <2>2, <2>4, <2>6 DEF TransferInv
<1> QED  BY Zenon, <1>1, <1>2, <1>3, <1>4, <1>5, <1>6, <1>7, <1>8, <1>9,
            <1>10, <1>11

\* The steps of a request that write its row.
LEMMA RowStepInv ==
    ASSUME TypeOK, AgreementInv, NEW t \in Transfers,
           DebitSource(t) \/ MarkSubmitted(t) \/ ApplyPartnerOutcome(t)
    PROVE  AgreementInv'
<1>t. /\ TransferInv(t) /\ StateTypeOK
      /\ pc[t] \in Stages /\ now \in Nat /\ status[t] \in Statuses
      /\ created_at[t] \in Int /\ late_until[t] \in Int
      /\ call_started[t] \in Int
  BY Zenon
  DEF AgreementInv, TransferInv, TypeOK, StateTypeOK, RowTypeOK,
      CallTypeOK, PartnerTypeOK
<1>c. PrepMax \in Nat /\ MaxLate \in Nat /\ Deadline \in Nat
  BY Zenon, EnvironmentAssumption, SettingsAssumption
<1>1. CASE DebitSource(t)
  <2>1. /\ status[t] = "NO_ROW" /\ pc[t] = "new"
        /\ status' = [status EXCEPT ![t] = "SOURCE_DEBITED"]
        /\ pc' = [pc EXCEPT ![t] = "debited"]
        /\ UNCHANGED <<call, partner, workers, now>>
    <3>1. Transition(t, <<"PENDING", "SOURCE_DEBITED">>)
      BY Zenon, <1>1 DEF DebitSource
    <3>2. /\ status[t] = "NO_ROW"
          /\ status' = [status EXCEPT ![t] = "SOURCE_DEBITED"]
      BY Zenon, <1>t, <3>1, CreationMove, MovesInto
    <3> QED  BY Zenon, <1>1, <3>2 DEF DebitSource, Payable, Goto
  <2>2. PICK start \in 0 .. now :
          /\ now - start <= PrepMax
          /\ created_at' = [created_at EXCEPT ![t] = start]
    BY Zenon, <1>1 DEF DebitSource
  <2>3. TransferInv(t)'
    <3>1. /\ status'[t] = "SOURCE_DEBITED" /\ pc'[t] = "debited"
          /\ created_at'[t] = start /\ now' = now
      BY Zenon, <2>1, <2>2 DEF TypeOK, StateTypeOK, RowTypeOK
    <3>2. /\ ~credited[t] /\ late_until[t] = NoTime
          /\ ~possibly_applied[t] /\ result[t] = "none"
      BY Zenon, <1>t, <2>1 DEF TransferInv, StageInv
    <3>3. StageInv(t)' /\ CallInv(t)' /\ ResolvedInv(t)'
      BY ZenonT(60), <2>1, <3>1, <3>2
      DEF call, partner, StageInv, CallInv, ResolvedInv
    <3>4. TimeInv(t)'
      <4>1. /\ now <= start + PrepMax /\ start >= NoTime
            /\ NoTime <= start + PrepMax + Deadline + MaxLate
        BY Zenon, <1>t, <2>2, FreshRow
      <4>2. late_until'[t] = NoTime
        BY Zenon, <2>1, <3>2 DEF partner
      <4> QED  BY Zenon, <3>1, <4>1, <4>2 DEF TimeInv, InFlightUntil
    <3> QED  BY Zenon, <3>3, <3>4 DEF TransferInv
  <2> QED
    BY Zenon, <2>1, <2>2, <2>3, RequestFrame
    DEF call, partner, TypeOK, StateTypeOK, RowTypeOK
<1>2. CASE MarkSubmitted(t)
  <2>1. /\ status[t] = "SOURCE_DEBITED" /\ pc[t] = "debited"
        /\ status' = [status EXCEPT ![t] = "PARTNER_SUBMITTED"]
        /\ pc' = [pc EXCEPT ![t] = "submitted"]
        /\ UNCHANGED <<created_at, call, partner, workers, now>>
    <3>1. "PARTNER_SUBMITTED" \in Statuses
      BY Zenon DEF Statuses
    <3> QED  BY Zenon, <1>2, <1>t, <3>1, SingleMove, MovesInto
             DEF MarkSubmitted, Goto
  <2>2. TransferInv(t)'
    BY Zenon, <1>t, <2>1
    DEF call, partner, TypeOK, StateTypeOK, TransferInv, StageInv, CallInv,
        TimeInv, ResolvedInv, InFlightUntil
  <2> QED
    BY Zenon, <2>1, <2>2, RequestFrame DEF call, partner, TypeOK, StateTypeOK
<1>3. CASE ApplyPartnerOutcome(t)
  <2>1. /\ pc[t] = "outcome" /\ pc' = [pc EXCEPT ![t] = "done"]
        /\ result' = [result EXCEPT ![t] = "none"]
        /\ possibly_applied' = [possibly_applied EXCEPT ![t] = FALSE]
        /\ call_started' = [call_started EXCEPT ![t] = NoTime]
        /\ UNCHANGED <<partner, workers, now>>
    BY Zenon, <1>3 DEF ApplyPartnerOutcome, EndRequest, Goto
  <2>2. status[t] \notin {"NO_ROW", "SOURCE_DEBITED"}
    BY Zenon, <1>t, <2>1 DEF TransferInv, StageInv
  <2>3. UNCHANGED created_at
    BY Zenon, <1>3, <1>t, SettleMove, ReverseMove
    DEF ApplyPartnerOutcome, HoldForVerification, row
  <2>4. \/ UNCHANGED status
        \/ /\ result[t] = "SUCCESS"
           /\ status' = [status EXCEPT ![t] = "COMPLETED"]
        \/ /\ result[t] \in {"REJECTED", "NOT_SENT"}
           /\ status' = [status EXCEPT ![t] = "REVERSED"]
        \/ status' = [status EXCEPT ![t] = "PENDING_VERIFICATION"]
    <3>1. HoldForVerification(t) =>
            status' = [status EXCEPT ![t] = "PENDING_VERIFICATION"]
      BY Zenon, SingleMove DEF HoldForVerification, Statuses
    <3> QED  BY Zenon, <1>3, <1>t, <3>1, SettleMove, ReverseMove
             DEF ApplyPartnerOutcome, row
  <2>5. TransferInv(t)'
    BY Zenon, <1>t, <2>1, <2>2, <2>3, <2>4
    DEF partner, TypeOK, StateTypeOK, CallTypeOK, TransferInv, StageInv,
        CallInv, TimeInv, ResolvedInv, InFlightUntil
  <2>6. \A u \in Transfers \ {t} :
             /\ status'[u] = status[u] /\ created_at'[u] = created_at[u]
             /\ pc'[u] = pc[u] /\ result'[u] = result[u]
             /\ possibly_applied'[u] = possibly_applied[u]
             /\ call_started'[u] = call_started[u]
             /\ credited'[u] = credited[u] /\ late_until'[u] = late_until[u]
    BY Zenon, <2>1, <2>3, <2>4 DEF partner, TypeOK, StateTypeOK, CallTypeOK
  <2>7. status'[t] # "NO_ROW"
    BY ZenonT(60), <2>2, <2>4 DEF TypeOK, StateTypeOK
  <2> QED  BY Zenon, <2>1, <2>3, <2>5, <2>6, <2>7, RequestFrame DEF partner
<1> QED  BY Zenon, <1>1, <1>2, <1>3

\* The partner applies a credit: only while the transfer is open, and never
\* after InFlightUntil.
LEMMA CreditWhileOpen ==
    ASSUME TypeOK, NEW t \in Transfers, TransferInv(t), PartnerApplies(t)
    PROVE  /\ now <= InFlightUntil(t)
           /\ status[t] \notin {"NO_ROW", "SOURCE_DEBITED", "COMPLETED",
                                "REVERSED"}
<1>1. /\ now \in Nat /\ created_at[t] \in Int /\ late_until[t] \in Int
      /\ call_started[t] \in Int
      /\ PrepMax \in Nat /\ MaxLate \in Nat /\ Deadline \in Nat
  BY ZenonT(60), EnvironmentAssumption, SettingsAssumption
  DEF TypeOK, RowTypeOK, CallTypeOK, PartnerTypeOK
<1>2. now <= InFlightUntil(t)
  BY SMTT(30), Z3T(30), <1>1 DEF PartnerApplies, TransferInv, TimeInv, InFlightUntil
<1>3. pc[t] = "waiting" \/ late_until[t] # NoTime
  BY SMTT(30), Z3T(30), <1>1 DEF PartnerApplies, NoTime
<1> QED  BY SMTT(30), Z3T(30), <1>1, <1>2, <1>3
         DEF PartnerApplies, TransferInv, StageInv, ResolvedInv,
             InFlightUntil

\* The partner applying a credit (create_credit) keeps the invariant.
LEMMA PartnerAppliesInv ==
    ASSUME TypeOK, AgreementInv, NEW t \in Transfers, PartnerApplies(t)
    PROVE  AgreementInv'
<1>1. TransferInv(t)
  BY Zenon DEF AgreementInv, TransferInv
<1>2. /\ now <= InFlightUntil(t)
      /\ status[t] \notin {"NO_ROW", "SOURCE_DEBITED", "COMPLETED", "REVERSED"}
  BY Zenon, <1>1, CreditWhileOpen
<1>3. /\ pc[t] = "waiting" \/ late_until[t] # NoTime
      /\ credited' = [credited EXCEPT ![t] = TRUE]
      /\ UNCHANGED <<row, pc, call, late_until, workers, now>>
  BY SMTT(30), Z3T(30) DEF PartnerApplies, NoTime, TypeOK
<1>4. ASSUME NEW u \in Transfers  PROVE TransferInv(u)'
  <2>1. CASE u = t
    BY Zenon, <1>1, <1>2, <1>3, <2>1
    DEF row, call, TypeOK, PartnerTypeOK, TransferInv, StageInv, CallInv,
        TimeInv, ResolvedInv, InFlightUntil
  <2>2. CASE u # t
    <3>1. TransferInv(u)
      BY Zenon DEF AgreementInv, TransferInv
    <3> QED  BY Zenon, <1>3, <2>2, <3>1, TransferFrame
             DEF row, call, TypeOK, PartnerTypeOK
  <2> QED  BY Zenon, <2>1, <2>2
<1>5. ASSUME NEW w \in Workers  PROVE TaskInv(w)'
  <2>1. TaskInv(w)
    BY Zenon DEF AgreementInv
  <2>2. /\ task[w] \in Tasks /\ now \in Nat
        /\ task[w].stage # "idle" => task[w].transfer \in Transfers
        /\ InFlightUntil(t) \in Int /\ Deadline \in Nat
    BY SMTT(30), Z3T(30), EnvironmentAssumption, SettingsAssumption
    DEF TypeOK, WorkerTypeOK, RowTypeOK, InFlightUntil
  <2>3. /\ task' = task /\ now' = now /\ status' = status
        /\ \A u \in Transfers : InFlightUntil(u)' = InFlightUntil(u)
        /\ \A u \in Transfers \ {t} : credited'[u] = credited[u]
        /\ credited'[t]
    BY Zenon, <1>3 DEF row, workers, InFlightUntil, TypeOK, PartnerTypeOK
  <2>4. task[w].stage \in {"replied", "applying"} /\ task[w].transfer = t
          => task[w].since <= InFlightUntil(t)
               /\ task[w].since <= InFlightUntil(t) + Deadline
    BY SMTT(30), Z3T(30), <1>2, <2>1, <2>2 DEF TaskInv, Tasks
  <2> QED  BY Zenon, <2>1, <2>2, <2>3, <2>4 DEF TaskInv
<1> QED  BY Zenon, <1>4, <1>5 DEF AgreementInv, TransferInv

-----------------------------------------------------------------------------
(* The steps of a reconciler, and time *)

\* The steps that only change what a reconciler knows or has claimed.
LEMMA KnowledgeStepInv ==
    ASSUME TypeOK, AgreementInv, NEW w \in Workers,
           \/ ClaimDue(w) \/ ReconcileNext(w) \/ AdminReconcile(w)
           \/ RoundFails(w) \/ PartnerReplies(w) \/ StatusKnown(w)
    PROVE  AgreementInv'
<1>t. /\ TaskInv(w) /\ task \in [Workers -> Tasks] /\ now \in Nat
      /\ task[w] \in Tasks
      /\ task[w].stage # "idle" => task[w].transfer \in Transfers
      /\ Deadline \in Nat
  BY Zenon, SettingsAssumption DEF AgreementInv, TypeOK, WorkerTypeOK
<1>i. ASSUME task'[w] = Idle  PROVE TaskInv(w)'
  BY Zenon, <1>i, IdleStage DEF TaskInv
<1>r. ASSUME NEW t \in Transfers, Reconcile(w, t),
             UNCHANGED <<row, pc, call, partner, now>>
      PROVE  AgreementInv'
  <2>1. CASE UNCHANGED task
    <3>1. TaskInv(w)'
      BY Zenon, <1>t, <1>r, <2>1, TaskFrame DEF row, partner
    <3> QED  BY Zenon, <1>r, <2>1, <3>1, KnowledgeFrame DEF row
  <2>2. CASE /\ task' =
                  [task EXCEPT ![w] = Task("reversing", t, "none", NoTime)]
             /\ status[t] # "NO_ROW"
    <3>1. TaskInv(w)'
      <4>1. task'[w] = Task("reversing", t, "none", NoTime)
        BY Zenon, <1>t, <2>2
      <4>2. /\ task'[w].stage = "reversing" /\ task'[w].transfer = t
            /\ task'[w].answer = "none"
        <5>1. LET r == Task("reversing", t, "none", NoTime) IN
              r.stage = "reversing" /\ r.transfer = t /\ r.answer = "none"
          BY Zenon DEF Task
        <5> QED  BY Zenon, <4>1, <5>1
      <4>3. status'[t] # "NO_ROW"
        BY Zenon, <1>r, <2>2 DEF row
      <4> QED  BY Zenon, <4>2, <4>3 DEF TaskInv
    <3> QED  BY ZenonT(60), <1>r, <1>t, <2>2, <3>1, KnowledgeFrame DEF row
  <2>3. CASE /\ task' = [task EXCEPT ![w] = Task("asking", t, "none", now)]
             /\ status[t] # "NO_ROW"
    <3>1. TaskInv(w)'
      <4>0. task'[w] = Task("asking", t, "none", now)
        BY Zenon, <1>t, <2>3
      <4>1. /\ task'[w].stage = "asking" /\ task'[w].transfer = t
            /\ task'[w].answer = "none" /\ task'[w].since = now
        <5>1. LET r == Task("asking", t, "none", now) IN
              /\ r.stage = "asking" /\ r.transfer = t
              /\ r.answer = "none" /\ r.since = now
          BY Zenon DEF Task
        <5> QED  BY Zenon, <4>0, <5>1
      <4>2. now' = now /\ status'[t] # "NO_ROW"
        BY Zenon, <1>r, <2>3 DEF row
      <4>3. now <= now /\ now <= now + Deadline
        BY Zenon, <1>t, NotLater
      <4> QED  BY ZenonT(60), <4>1, <4>2, <4>3 DEF TaskInv
    <3> QED  BY Zenon, <1>r, <1>t, <2>3, <3>1, KnowledgeFrame DEF row
  <2> QED  BY Zenon, <1>r, <2>1, <2>2, <2>3 DEF Reconcile
<1>1. CASE ClaimDue(w)
  <2>1. UNCHANGED <<status, created_at, pc, call, partner, task, now>>
    BY Zenon, <1>1 DEF ClaimDue
  <2>2. TaskInv(w)'
    BY Zenon, <1>t, <2>1, TaskFrame DEF partner
  <2> QED  BY Zenon, <2>1, <2>2, KnowledgeFrame
<1>2. CASE ReconcileNext(w)
  <2>1. PICK t \in batch[w] : Reconcile(w, t)
    BY Zenon, <1>2 DEF ReconcileNext
  <2>2. t \in Transfers
    BY Zenon, <2>1 DEF TypeOK, WorkerTypeOK
  <2> QED  BY Zenon, <1>2, <1>r, <2>1, <2>2 DEF ReconcileNext
<1>3. CASE AdminReconcile(w)
  BY Zenon, <1>3, <1>r DEF AdminReconcile
<1>4. CASE RoundFails(w)
  <2>1. /\ task' = [task EXCEPT ![w] = Idle]
        /\ UNCHANGED <<status, created_at, pc, call, partner, now>>
    BY Zenon, <1>4 DEF RoundFails, row
  <2>2. TaskInv(w)'
    BY Zenon, <1>t, <1>i, <2>1
  <2> QED  BY Zenon, <1>t, <2>1, <2>2, KnowledgeFrame
<1>5. CASE PartnerReplies(w)
  <2> DEFINE t == task[w].transfer
             answer == IF credited[t] THEN "COMPLETED" ELSE "NOT_FOUND"
  <2>1. /\ task[w].stage \in {"asking", "replied"}
        /\ task' = [task EXCEPT ![w] =
                      Task("replied", t, answer, task[w].since)]
        /\ UNCHANGED <<status, created_at, pc, call, partner, now>>
    BY Zenon, <1>5, <1>t DEF PartnerReplies, row
  <2>2. /\ task'[w].stage = "replied" /\ task'[w].transfer = t
        /\ task'[w].answer = answer /\ task'[w].since = task[w].since
    <3>1. task'[w] = Task("replied", t, answer, task[w].since)
      BY Zenon, <1>t, <2>1
    <3> HIDE DEF t, answer
    <3>2. LET r == Task("replied", t, answer, task[w].since) IN
          /\ r.stage = "replied" /\ r.transfer = t
          /\ r.answer = answer /\ r.since = task[w].since
      BY Zenon DEF Task
    <3> QED  BY Zenon, <3>1, <3>2
  <2>3. TaskInv(w)'
    BY Zenon, <1>t, <2>1, <2>2 DEF TaskInv, partner, InFlightUntil
  <2> QED  BY Zenon, <1>t, <2>1, <2>3, KnowledgeFrame
<1>6. CASE StatusKnown(w)
  <2>0. PICK t \in Transfers : t = task[w].transfer
    BY Zenon, <1>6, <1>t DEF StatusKnown
  <2>1. PICK answer \in {task[w].answer, "UNKNOWN"} \ {"none"} :
          task' = [task EXCEPT ![w] = Task("applying", t, answer, now)]
    BY Zenon, <1>6, <1>t, <2>0 DEF StatusKnown
  <2>2. /\ task[w].stage \in {"asking", "replied"}
        /\ UNCHANGED <<status, created_at, pc, call, partner, now>>
    BY Zenon, <1>6 DEF StatusKnown, row
  <2>3. /\ task'[w].stage = "applying" /\ task'[w].transfer = t
        /\ task'[w].answer = answer /\ task'[w].since = now
    <3>1. task'[w] = Task("applying", t, answer, now)
      BY Zenon, <1>t, <2>1
    <3>2. LET r == Task("applying", t, answer, now) IN
          /\ r.stage = "applying" /\ r.transfer = t
          /\ r.answer = answer /\ r.since = now
      BY Zenon DEF Task
    <3> QED  BY Zenon, <3>1, <3>2
  <2>4. InFlightUntil(t) \in Int /\ task[w].since \in Int
          /\ InFlightUntil(t)' = InFlightUntil(t)
    <3>1. created_at[t] \in Int /\ PrepMax \in Nat /\ MaxLate \in Nat
            /\ Deadline \in Nat
      BY Zenon, EnvironmentAssumption, SettingsAssumption DEF TypeOK, RowTypeOK
    <3>2. created_at' = created_at
      BY Zenon, <2>2
    <3>3. InFlightUntil(t) \in Int /\ InFlightUntil(t)' = InFlightUntil(t)
      BY SMTT(30), Z3T(30), <3>1, <3>2 DEF InFlightUntil
    <3>4. task[w].since \in Int
      BY ZenonT(60), <1>t DEF Tasks
    <3> QED  BY Zenon, <3>3, <3>4
  <2>5. TaskInv(w)'
    <3>1. /\ task[w].stage # "idle" /\ status'[t] # "NO_ROW"
          /\ answer = "COMPLETED" => credited'[t]
          /\ now <= task[w].since + Deadline
      BY Zenon, <1>t, <2>0, <2>2 DEF TaskInv, partner
    <3>2. answer = "NOT_FOUND" =>
            ~credited'[t] \/ task[w].since <= InFlightUntil(t)
      BY Zenon, <1>t, <2>0, <2>2 DEF TaskInv, partner
    <3>3. task[w].since <= InFlightUntil(t) =>
            now <= InFlightUntil(t) + Deadline
      <4>1. now \in Nat /\ Deadline \in Nat
        BY Zenon, SettingsAssumption DEF TypeOK
      <4> QED  BY Zenon, <2>4, <3>1, <4>1, AnswerAge
    <3>4. now' = now /\ now <= now
      BY Zenon, <1>t, <2>2, NotLater
    <3> QED  BY ZenonT(60), <2>3, <2>4, <3>1, <3>2, <3>3, <3>4 DEF TaskInv
  <2> QED  BY Zenon, <1>t, <2>1, <2>2, <2>5, KnowledgeFrame
<1> QED  BY Zenon, <1>1, <1>2, <1>3, <1>4, <1>5, <1>6

\* _reverse_interrupted and _apply.
LEMMA ResolutionStepInv ==
    ASSUME GraceCoversInFlight, TypeOK, AgreementInv, NEW w \in Workers,
           ReverseInterrupted(w) \/ Apply(w)
    PROVE  AgreementInv'
<1>0. PICK t \in Transfers, moment \in Int :
        t = task[w].transfer /\ moment = task[w].since
  BY Zenon DEF ReverseInterrupted, Apply, TypeOK, WorkerTypeOK, Tasks
<1>t. /\ TransferInv(t) /\ TaskInv(w) /\ StateTypeOK
      /\ status[t] \in Statuses /\ now \in Nat
      /\ created_at[t] \in Int /\ late_until[t] \in Int
      /\ call_started[t] \in Int
  BY Zenon
  DEF AgreementInv, TransferInv, TypeOK, StateTypeOK, RowTypeOK,
      PartnerTypeOK, CallTypeOK
<1>c. /\ PrepMax \in Nat /\ MaxLate \in Nat /\ Deadline \in Nat
      /\ NotFoundGrace \in Nat
  BY Zenon, EnvironmentAssumption, SettingsAssumption
<1>1. /\ task' = [task EXCEPT ![w] = Idle]
      /\ UNCHANGED <<pc, call, partner, now>>
  BY Zenon DEF ReverseInterrupted, Apply
<1>2. ASSUME UNCHANGED <<ledger, row>>  PROVE AgreementInv'
  <2>1. UNCHANGED <<status, created_at>>
    BY Zenon, <1>2 DEF row
  <2>2. task'[w] = Idle /\ \A v \in Workers \ {w} : task'[v] = task[v]
    BY Zenon, <1>1 DEF TypeOK, WorkerTypeOK
  <2>3. TaskInv(w)'
    BY Zenon, <2>2, IdleStage DEF TaskInv
  <2> QED  BY Zenon, <1>1, <2>1, <2>2, <2>3, KnowledgeFrame
<1>3. CASE ReverseInterrupted(w) /\ status[t] = "SOURCE_DEBITED"
  <2>1. reverse_transfer(t, "TRANSFER_INTERRUPTED")
    BY Zenon, <1>0, <1>3 DEF ReverseInterrupted
  <2>2. status' = [status EXCEPT ![t] = "REVERSED"] /\ UNCHANGED created_at
    BY Zenon, <1>t, <2>1, ReverseMove
  <2>3. TransferInv(t)'
    BY Zenon, <1>t, <1>1, <1>3, <2>2
    DEF call, partner, StateTypeOK, TransferInv, StageInv, CallInv,
        TimeInv, ResolvedInv, InFlightUntil
  <2> QED  BY Zenon, <1>t, <1>1, <2>2, <2>3, ResolutionFrame DEF Statuses
<1>4. CASE Apply(w) /\ status[t] \in VERIFIABLE
  <2>0. task[w].stage = "applying"
    BY Zenon, <1>4 DEF Apply
  <2>1. CASE task[w].answer = "COMPLETED"
    <3>1. settle_transfer(t)
      BY Zenon, <1>0, <1>4, <2>1 DEF Apply
    <3>2. status' = [status EXCEPT ![t] = "COMPLETED"] /\ UNCHANGED created_at
      BY Zenon, <1>t, <3>1, SettleMove
    <3>3. credited[t]
      BY Zenon, <1>0, <1>t, <2>0, <2>1 DEF TaskInv
    <3>4. TransferInv(t)'
      BY Zenon, <1>t, <1>1, <1>4, <3>2, <3>3
      DEF call, partner, StateTypeOK, TransferInv, StageInv, CallInv,
          TimeInv, ResolvedInv, InFlightUntil, VERIFIABLE
    <3> QED  BY Zenon, <1>t, <1>1, <3>2, <3>4, ResolutionFrame DEF Statuses
  <2>2. CASE task[w].answer = "NOT_FOUND" /\ GraceOver(t, moment)
    <3>1. reverse_transfer(t, "PARTNER_NOT_RECEIVED")
      BY Zenon, <1>0, <1>4, <2>2 DEF Apply
    <3>2. status' = [status EXCEPT ![t] = "REVERSED"] /\ UNCHANGED created_at
      BY ZenonT(60), <1>t, <3>1, ReverseMove
    <3>3. now > InFlightUntil(t) /\ ~credited[t]
      <4>1. moment >= created_at[t] + NotFoundGrace /\ moment <= now
        BY Zenon, <1>0, <1>t, <2>0, <2>2 DEF GraceOver, TaskInv
      <4>2. created_at[t] \in Int /\ now \in Nat
        BY Zenon DEF TypeOK, RowTypeOK
      <4>3. /\ now > InFlightUntil(t)
            /\ ~(moment <= InFlightUntil(t) + Deadline)
        BY Zenon, <4>1, <4>2, GraceOutlasts DEF InFlightUntil
      <4> QED  BY Zenon, <1>0, <1>t, <2>0, <2>2, <4>3 DEF TaskInv
    <3>4. TransferInv(t)'
      BY Zenon, <1>t, <1>1, <1>4, <3>2, <3>3
      DEF call, partner, StateTypeOK, TransferInv, StageInv, CallInv,
          TimeInv, ResolvedInv, InFlightUntil, VERIFIABLE
    <3> QED  BY Zenon, <1>t, <1>1, <3>2, <3>4, ResolutionFrame DEF Statuses
  <2>3. CASE /\ task[w].answer # "COMPLETED"
             /\ ~(task[w].answer = "NOT_FOUND" /\ GraceOver(t, moment))
    <3>1. RecheckAfterGrace(t, moment) \/ RetryOrEscalate(t, moment)
      BY Zenon, <1>0, <1>4, <2>3 DEF Apply
    <3>2. \E to \in {<<>>, <<"MANUAL_REVIEW">>} :
            MoveAlong(t, Verifying(t, to))
      BY Zenon, <3>1 DEF RecheckAfterGrace, RetryOrEscalate
    <3>3. UNCHANGED created_at
      BY Zenon, <3>1 DEF RecheckAfterGrace, RetryOrEscalate
    <3>4. PICK s \in {"PENDING_VERIFICATION", "MANUAL_REVIEW"} :
            status' = [status EXCEPT ![t] = s]
      BY Zenon, <1>t, <1>4, <3>2, VerifyingMove
    <3>5. TransferInv(t)'
      BY Zenon, <1>t, <1>1, <1>4, <3>3, <3>4
      DEF call, partner, StateTypeOK, TransferInv, StageInv, CallInv,
          TimeInv, ResolvedInv, InFlightUntil, VERIFIABLE
    <3> QED  BY Zenon, <1>t, <1>1, <3>3, <3>4, <3>5, ResolutionFrame
             DEF Statuses
  <2> QED  BY Zenon, <2>1, <2>2, <2>3
<1> QED  BY Zenon, <1>0, <1>2, <1>3, <1>4 DEF ReverseInterrupted, Apply

\* Time passing keeps the invariant: the deadlines that asyncio.timeout
\* enforces are what stops the clock from outrunning a call.
LEMMA TickInv ==
    ASSUME TypeOK, AgreementInv, Tick
    PROVE  AgreementInv'
<1>1. now' = now + 1 /\ UNCHANGED <<row, pc, call, partner, workers>>
  BY ZenonT(60) DEF Tick
<1>2. ASSUME NEW t \in Transfers  PROVE TransferInv(t)'
  <2>1. TransferInv(t) /\ now \in Nat /\ created_at[t] \in Int
          /\ call_started[t] \in Int /\ late_until[t] \in Int
          /\ PrepMax \in Nat /\ MaxLate \in Nat /\ Deadline \in Nat
    BY Zenon, EnvironmentAssumption, SettingsAssumption
    DEF AgreementInv, TransferInv, TypeOK, RowTypeOK, CallTypeOK,
        PartnerTypeOK
  <2>2. /\ pc[t] \in {"debited", "submitted"} => now < created_at[t] + PrepMax
        /\ pc[t] \in {"ready", "waiting"} => now < call_started[t] + Deadline
    BY ZenonT(60) DEF Tick, CallEnds
  <2>3. StageInv(t)' /\ CallInv(t)'
    BY ZenonT(60), <1>1, <2>1
    DEF row, call, partner, TransferInv, StageInv, CallInv
  <2>4. InFlightUntil(t)' = InFlightUntil(t) /\ InFlightUntil(t) \in Int
    BY SMTT(30), Z3T(30), <1>1, <2>1 DEF row, InFlightUntil
  <2>5. TimeInv(t)'
    <3>1. /\ now < created_at[t] + PrepMax => now + 1 <= created_at[t] + PrepMax
          /\ now < call_started[t] + Deadline =>
               now + 1 <= call_started[t] + Deadline
      BY Zenon, <2>1, NextMoment
    <3> QED  BY ZenonT(60), <1>1, <2>1, <2>2, <2>4, <3>1
             DEF row, call, partner, TransferInv, TimeInv
  <2>6. now > InFlightUntil(t) => now' > InFlightUntil(t)
    BY SMTT(30), Z3T(30), <1>1, <2>1, <2>4
  <2>7. ResolvedInv(t)'
    BY ZenonT(60), <1>1, <2>1, <2>4, <2>6
    DEF row, partner, TransferInv, ResolvedInv
  <2> QED  BY Zenon, <2>3, <2>5, <2>7 DEF TransferInv
<1>3. ASSUME NEW w \in Workers  PROVE TaskInv(w)'
  <2>1. TaskInv(w) /\ now \in Nat /\ task[w] \in Tasks /\ Deadline \in Nat
    BY Zenon, SettingsAssumption DEF AgreementInv, TypeOK, WorkerTypeOK
  <2>2. task[w].stage \in {"asking",
  "replied"} => now < task[w].since + Deadline
    BY Zenon DEF Tick
  <2>3. task[w].since \in Int
    BY Zenon, <2>1 DEF Tasks
  <2>4. /\ task[w].since <= now => task[w].since <= now + 1
        /\ now < task[w].since + Deadline => now + 1 <= task[w].since + Deadline
    BY Zenon, <2>1, <2>3, NextMoment
  <2> QED  BY ZenonT(60), <1>1, <2>1, <2>2, <2>4
           DEF row, partner, workers, TaskInv, InFlightUntil
<1> QED  BY Zenon, <1>2, <1>3 DEF AgreementInv, TransferInv

-----------------------------------------------------------------------------
(* The theorems *)

\* Every step of the saga, the partner and the reconcilers keeps the
\* invariant.
LEMMA AgreementStep ==
    ASSUME GraceCoversInFlight, RejectIsFinal, TypeOK, AgreementInv,
           [Next]_vars
    PROVE  AgreementInv'
<1>1. ASSUME NEW t \in Transfers,
             \/ Refuse(t) \/ DebitSource(t) \/ ReturnExisting(t)
             \/ RequestStep(t) \/ Interrupted(t) \/ PartnerApplies(t)
      PROVE  AgreementInv'
  BY Zenon, <1>1, CallStepInv, RowStepInv, PartnerAppliesInv DEF RequestStep
<1>2. ASSUME NEW w \in Workers,
             \/ ClaimDue(w) \/ ReconcileNext(w) \/ AdminReconcile(w)
             \/ RoundFails(w) \/ ReverseInterrupted(w) \/ PartnerReplies(w)
             \/ StatusKnown(w) \/ Apply(w)
      PROVE  AgreementInv'
  BY Zenon, <1>2, KnowledgeStepInv, ResolutionStepInv
<1>3. CASE UNCHANGED vars
  <2>1. UNCHANGED <<status, created_at, pc, call, partner, task, now>>
    BY Zenon, <1>3 DEF vars, row, workers
  <2>2. ASSUME NEW t \in Transfers  PROVE TransferInv(t)'
    <3>1. TransferInv(t)
      BY Zenon DEF AgreementInv, TransferInv
    <3> QED  BY Zenon, <2>1, <3>1, TransferFrame DEF call, partner
  <2>3. ASSUME NEW w \in Workers  PROVE TaskInv(w)'
    BY Zenon, <2>1, TaskFrame DEF AgreementInv, partner
  <2> QED  BY Zenon, <2>2, <2>3 DEF AgreementInv, TransferInv
<1> QED  BY Zenon, <1>1, <1>2, <1>3, TickInv DEF Next

\* Before the first request nothing is owed and nothing is credited.
LEMMA AgreementInitially ==
    ASSUME Init
    PROVE  AgreementInv
<1>1. PrepMax \in Nat /\ MaxLate \in Nat /\ Deadline \in Nat
  BY Zenon, EnvironmentAssumption, SettingsAssumption
<1> QED  BY SMTT(30), Z3T(30), <1>1
         DEF Init, AgreementInv, StageInv, CallInv, TimeInv, ResolvedInv,
             TaskInv, InFlightUntil, Idle, Task, NoTime

\* If the not-found grace covers what may be in flight and a rejection is
\* final, a COMPLETED transfer is credited by the partner and a REVERSED one
\* is not and never will be, whatever crashes, races or is delayed.
THEOREM AgreementHolds ==
    ASSUME GraceCoversInFlight, RejectIsFinal
    PROVE  Spec => []PartnerAgreement
<1>1. Init => AgreementInv
  BY Zenon, AgreementInitially
<1>2. TypeOK /\ AgreementInv /\ [Next]_vars => AgreementInv'
  BY Zenon, AgreementStep
<1>3. AgreementInv => PartnerAgreement
  BY Zenon DEF AgreementInv, ResolvedInv, PartnerAgreement
<1> QED  BY <1>1, <1>2, <1>3, TypeCorrect, PTL DEF Spec

-----------------------------------------------------------------------------
(* The saga implements the contract *)

\* Moving one transfer moves its funds and no others.
LEMMA FundsMove ==
    ASSUME TypeOK, NEW t \in Transfers, NEW s \in Statuses,
           status' = [status EXCEPT ![t] = s]
    PROVE  Funds' = [Funds EXCEPT ![t] = FundsOf(s)]
  BY Zenon DEF TypeOK, StateTypeOK, Funds

\* A resolution from an open status delivers what the partner has credited or
\* returns what it has not.
LEMMA ContractSteps ==
    ASSUME TypeOK, NEW t \in Transfers
    PROVE  /\ /\ status[t] = "NO_ROW" /\ UNCHANGED credited
              /\ status' = [status EXCEPT ![t] = "SOURCE_DEBITED"]
              => Contract!Hold(t)
           /\ /\ status[t] \in VERIFIABLE /\ credited[t] /\ UNCHANGED credited
              /\ status' = [status EXCEPT ![t] = "COMPLETED"]
              => Contract!Deliver(t)
           /\ /\ status[t] \in VERIFIABLE \cup {"SOURCE_DEBITED"}
              /\ ~credited[t] /\ UNCHANGED credited
              /\ status' = [status EXCEPT ![t] = "REVERSED"]
              => Contract!Return(t)
<1>1. /\ "SOURCE_DEBITED" \in Statuses /\ FundsOf("SOURCE_DEBITED") = "held"
      /\ "COMPLETED" \in Statuses /\ FundsOf("COMPLETED") = "delivered"
      /\ "REVERSED" \in Statuses /\ FundsOf("REVERSED") = "returned"
      /\ Funds[t] = FundsOf(status[t])
  BY Zenon DEF Statuses, FundsOf, Funds
<1>2. status[t] = "NO_ROW" => Funds[t] = "with_user"
  BY Zenon, <1>1 DEF FundsOf
<1>3. status[t] \in VERIFIABLE \cup {"SOURCE_DEBITED"} => Funds[t] = "held"
  BY Zenon, <1>1 DEF FundsOf, VERIFIABLE
<1> QED  BY Zenon, <1>1, <1>2, <1>3, FundsMove
         DEF Contract!Hold, Contract!Deliver, Contract!Return,
             Contract!Move

\* A step between two open statuses does not move the funds.
LEMMA StillHeld ==
    ASSUME TypeOK, NEW t \in Transfers,
           NEW s \in {"PARTNER_SUBMITTED", "PENDING_VERIFICATION",
                      "MANUAL_REVIEW"},
           status[t] \in VERIFIABLE \cup {"SOURCE_DEBITED"},
           status' = [status EXCEPT ![t] = s]
    PROVE  Funds' = Funds
<1>1. FundsOf(s) = FundsOf(status[t])
  BY Zenon DEF FundsOf, VERIFIABLE
<1> QED  BY Zenon, <1>1 DEF TypeOK, StateTypeOK, Funds

\* Every step of a request (create_transfer) and of the partner is a step of
\* the contract or leaves the points where they are.
LEMMA RequestContract ==
    ASSUME TypeOK, AgreementInv, NEW t \in Transfers,
           \/ Refuse(t) \/ DebitSource(t) \/ ReturnExisting(t)
           \/ RequestStep(t) \/ Interrupted(t) \/ PartnerApplies(t)
    PROVE  [Contract!Next]_<<Funds, credited>>
<1>t. TransferInv(t) /\ StateTypeOK /\ status[t] \in Statuses
  BY Zenon DEF AgreementInv, TransferInv, TypeOK, StateTypeOK
<1>1. ASSUME UNCHANGED <<status, credited>>
      PROVE  [Contract!Next]_<<Funds, credited>>
  BY Zenon, <1>1 DEF Funds
<1>2. CASE DebitSource(t)
  <2>1. Transition(t, <<"PENDING", "SOURCE_DEBITED">>) /\ UNCHANGED credited
    BY Zenon, <1>2 DEF DebitSource, partner
  <2>2. Contract!Hold(t)
    BY Zenon, <1>t, <2>1, CreationMove, MovesInto, ContractSteps
  <2> QED  BY Zenon, <2>2 DEF Contract!Next
<1>3. CASE MarkSubmitted(t)
  <2>1. Transition(t, <<"PARTNER_SUBMITTED">>) /\ UNCHANGED credited
    BY Zenon, <1>3 DEF MarkSubmitted, partner
  <2>2. /\ status[t] = "SOURCE_DEBITED"
        /\ status' = [status EXCEPT ![t] = "PARTNER_SUBMITTED"]
    <3>1. "PARTNER_SUBMITTED" \in Statuses
      BY Zenon DEF Statuses
    <3> QED  BY Zenon, <1>t, <2>1, <3>1, SingleMove, MovesInto
  <2> QED  BY Zenon, <2>1, <2>2, StillHeld
<1>4. CASE ApplyPartnerOutcome(t)
  <2>1. pc[t] = "outcome" /\ UNCHANGED credited
    BY Zenon, <1>4 DEF ApplyPartnerOutcome, partner
  <2>2. CASE status[t] # "PARTNER_SUBMITTED"
    BY Zenon, <1>1, <1>4, <2>1, <2>2 DEF ApplyPartnerOutcome, row
  <2>3. CASE status[t] = "PARTNER_SUBMITTED" /\ result[t] = "SUCCESS"
    <3>1. settle_transfer(t) /\ credited[t]
      BY Zenon, <1>4, <1>t, <2>1, <2>3
      DEF ApplyPartnerOutcome, TransferInv, CallInv
    <3>2. Contract!Deliver(t)
      BY Zenon, <1>t, <2>1, <3>1, SettleMove, ContractSteps
    <3> QED  BY Zenon, <3>2 DEF Contract!Next
  <2>4. CASE /\ status[t] = "PARTNER_SUBMITTED"
             /\ result[t] \in {"REJECTED", "NOT_SENT"}
    <3>1. \E code : reverse_transfer(t, code)
      BY Zenon, <1>4, <2>4 DEF ApplyPartnerOutcome
    <3>2. ~credited[t]
      BY Zenon, <1>t, <2>1, <2>4 DEF TransferInv, CallInv
    <3>3. Contract!Return(t)
      BY Zenon, <1>t, <2>1, <3>1, <3>2, ReverseMove, ContractSteps
    <3> QED  BY Zenon, <3>3 DEF Contract!Next
  <2>5. CASE /\ status[t] = "PARTNER_SUBMITTED"
             /\ result[t] \notin {"SUCCESS", "REJECTED", "NOT_SENT"}
    <3>1. Transition(t, <<"PENDING_VERIFICATION">>)
      BY Zenon, <1>4, <2>5 DEF ApplyPartnerOutcome, HoldForVerification
    <3>2. status' = [status EXCEPT ![t] = "PENDING_VERIFICATION"]
      BY Zenon, <3>1, SingleMove DEF Statuses
    <3> QED  BY Zenon, <2>1, <2>5, <3>2, StillHeld DEF VERIFIABLE
  <2> QED  BY Zenon, <2>2, <2>3, <2>4, <2>5
<1>5. CASE PartnerApplies(t)
  <2>1. status[t] \notin {"NO_ROW", "COMPLETED", "REVERSED"}
    BY Zenon, <1>5, <1>t, CreditWhileOpen
  <2>2. Funds[t] = "held" /\ Funds' = Funds
    BY Zenon, <1>5, <2>1 DEF PartnerApplies, row, Funds, FundsOf
  <2>3. Contract!Credit(t)
    BY Zenon, <1>5, <2>2 DEF PartnerApplies, Contract!Credit
  <2> QED  BY Zenon, <2>3 DEF Contract!Next
<1>6. ASSUME \/ Refuse(t) \/ ReturnExisting(t) \/ Interrupted(t)
             \/ StartCall(t) \/ CircuitOpen(t) \/ DeadlineExceeded(t)
             \/ SendAttempt(t) \/ AttemptSucceeded(t) \/ AttemptRejected(t)
             \/ AttemptNotSent(t) \/ AttemptUnknown(t)
      PROVE  UNCHANGED <<status, credited>>
  BY Zenon, <1>6
  DEF Refuse, ReturnExisting, Interrupted, StartCall, CircuitOpen,
      DeadlineExceeded, SendAttempt, AttemptSucceeded, AttemptRejected,
      AttemptNotSent, AttemptUnknown, AttemptEnds, row, partner
<1> QED  BY Zenon, <1>1, <1>2, <1>3, <1>4, <1>5, <1>6 DEF RequestStep

\* So is every step of a reconciler (claim_due, reconcile, _apply).
LEMMA ReconcilerContract ==
    ASSUME GraceCoversInFlight, TypeOK, AgreementInv, NEW w \in Workers,
           \/ ClaimDue(w) \/ ReconcileNext(w) \/ AdminReconcile(w)
           \/ RoundFails(w) \/ ReverseInterrupted(w) \/ PartnerReplies(w)
           \/ StatusKnown(w) \/ Apply(w)
    PROVE  [Contract!Next]_<<Funds, credited>>
<1>1. ASSUME UNCHANGED <<status, credited>>
      PROVE  [Contract!Next]_<<Funds, credited>>
  BY Zenon, <1>1 DEF Funds
<1>2. ASSUME \/ ClaimDue(w) \/ ReconcileNext(w) \/ AdminReconcile(w)
             \/ RoundFails(w) \/ PartnerReplies(w) \/ StatusKnown(w)
      PROVE  UNCHANGED <<status, credited>>
  BY Zenon, <1>2
  DEF ClaimDue, ReconcileNext, AdminReconcile, RoundFails, PartnerReplies,
      StatusKnown, row, partner
<1>3. CASE ReverseInterrupted(w) \/ Apply(w)
  <2>0. PICK t \in Transfers, moment \in Int :
          t = task[w].transfer /\ moment = task[w].since
    BY Zenon, <1>3 DEF ReverseInterrupted, Apply, TypeOK, WorkerTypeOK, Tasks
  <2>t. TransferInv(t) /\ TaskInv(w) /\ StateTypeOK /\ UNCHANGED credited
    BY Zenon, <1>3
    DEF AgreementInv, TransferInv, TypeOK, ReverseInterrupted, Apply,
        partner
  <2>1. CASE UNCHANGED <<ledger, row>>
    BY Zenon, <1>1, <2>t, <2>1 DEF row
  <2>2. CASE ReverseInterrupted(w) /\ status[t] = "SOURCE_DEBITED"
    <3>1. reverse_transfer(t, "TRANSFER_INTERRUPTED") /\ ~credited[t]
      BY Zenon, <2>0, <2>t, <2>2 DEF ReverseInterrupted, TransferInv, StageInv
    <3>2. Contract!Return(t)
      BY Zenon, <2>t, <3>1, ReverseMove, ContractSteps
    <3> QED  BY Zenon, <3>2 DEF Contract!Next
  <2>3. CASE Apply(w) /\ status[t] \in VERIFIABLE
    <3>0. task[w].stage = "applying"
      BY Zenon, <2>3 DEF Apply
    <3>1. CASE task[w].answer = "COMPLETED"
      <4>1. settle_transfer(t) /\ credited[t]
        BY Zenon, <2>0, <2>t, <2>3, <3>0, <3>1 DEF Apply, TaskInv
      <4>2. Contract!Deliver(t)
        BY Zenon, <2>t, <4>1, SettleMove, ContractSteps
      <4> QED  BY Zenon, <4>2 DEF Contract!Next
    <3>2. CASE task[w].answer = "NOT_FOUND" /\ GraceOver(t, moment)
      <4>1. reverse_transfer(t, "PARTNER_NOT_RECEIVED")
        BY Zenon, <2>0, <2>3, <3>2 DEF Apply
      <4>2. created_at[t] \in Int /\ now \in Nat
        BY Zenon DEF TypeOK, RowTypeOK
      <4>3. ~credited[t]
        <5>1. moment >= created_at[t] + NotFoundGrace /\ moment <= now
          BY Zenon, <2>0, <2>t, <3>0, <3>2 DEF GraceOver, TaskInv
        <5>2. ~(moment <= InFlightUntil(t) + Deadline)
          BY Zenon, <4>2, <5>1, GraceOutlasts DEF InFlightUntil
        <5> QED  BY Zenon, <2>0, <2>t, <3>0, <3>2, <5>2 DEF TaskInv
      <4>4. Contract!Return(t)
        BY Zenon, <2>t, <4>1, <4>3, ReverseMove, ContractSteps
      <4> QED  BY Zenon, <4>4 DEF Contract!Next
    <3>3. CASE /\ task[w].answer # "COMPLETED"
               /\ ~(task[w].answer = "NOT_FOUND" /\ GraceOver(t, moment))
      <4>1. RecheckAfterGrace(t, moment) \/ RetryOrEscalate(t, moment)
        BY Zenon, <2>0, <2>3, <3>3 DEF Apply
      <4>2. \E to \in {<<>>, <<"MANUAL_REVIEW">>} :
              MoveAlong(t, Verifying(t, to))
        BY Zenon, <4>1 DEF RecheckAfterGrace, RetryOrEscalate
      <4>3. \E s \in {"PENDING_VERIFICATION", "MANUAL_REVIEW"} :
              status' = [status EXCEPT ![t] = s]
        BY Zenon, <2>t, <2>3, <4>2, VerifyingMove
      <4> QED  BY Zenon, <2>t, <2>3, <4>3, StillHeld
    <3> QED  BY Zenon, <3>1, <3>2, <3>3
  <2> QED  BY Zenon, <1>3, <2>0, <2>1, <2>2, <2>3 DEF ReverseInterrupted, Apply
<1> QED  BY Zenon, <1>1, <1>2, <1>3

\* Under the same assumptions every step of the saga, its partner call and its
\* reconcilers is a step the contract allows, or none at all.
THEOREM ContractImplemented ==
    ASSUME GraceCoversInFlight, RejectIsFinal
    PROVE  Spec => ImplementsContract
<1>1. Init => Contract!Init
  BY SMTT(30), Z3T(30) DEF Init, Contract!Init, Funds, FundsOf
<1>2. TypeOK /\ AgreementInv /\ [Next]_vars
        => [Contract!Next]_<<Funds, credited>>
  <2> SUFFICES ASSUME TypeOK, AgreementInv, [Next]_vars
               PROVE  [Contract!Next]_<<Funds, credited>>
    OBVIOUS
  <2>1. CASE Tick \/ UNCHANGED vars
    BY Zenon, <2>1 DEF Tick, vars, row, partner, Funds
  <2> QED  BY Zenon, <2>1, RequestContract, ReconcilerContract DEF Next
<1>3. Init => AgreementInv
  BY Zenon, AgreementInitially
<1>4. TypeOK /\ AgreementInv /\ [Next]_vars => AgreementInv'
  BY Zenon, AgreementStep
<1> QED  BY <1>1, <1>2, <1>3, <1>4, TypeCorrect, PTL
         DEF Spec, ImplementsContract, Contract!Spec

-----------------------------------------------------------------------------
(* Who may work on a transfer and when.  Every step that matters here is a *)
(* step of a request that leaves its row alone (CallMove), one of the two  *)
(* writes on the way to the partner, or the write of what is known of the  *)
(* partner's answer (Resolves).                                            *)

\* As long as nothing was committed past SOURCE_DEBITED nothing was sent, and
\* the request is at its very beginning or gone.
Unsent(t) ==
    /\ status[t] = "NO_ROW" => pc[t] \in {"new", "refused", "done"}
    /\ status[t] = "SOURCE_DEBITED" => pc[t] \in {"debited", "dead"}
    /\ failure_code[t] = "TRANSFER_INTERRUPTED" =>
          status[t] = "REVERSED" /\ pc[t] \in {"debited", "dead"}
    /\ \/ status[t] \in {"NO_ROW", "SOURCE_DEBITED"}
       \/ failure_code[t] = "TRANSFER_INTERRUPTED"
       => ~credited[t] /\ late_until[t] = NoTime

UnsentInv == \A t \in Transfers : Unsent(t)

\* The setting that the validator does not ask for: the stuck window outlasts
\* preparation, partner call and the writing of its outcome together.
WindowCoversRequest == StuckAfter > PrepMax + Deadline + OutcomeMax

\* A live request is on time, and nobody has resolved its transfer.
Timely(t) ==
    /\ pc[t] \in Live => status[t] \in STUCK
    /\ pc[t] \in {"debited", "submitted"} => now <= created_at[t] + PrepMax
    /\ pc[t] \in {"ready", "waiting", "outcome"} =>
          call_started[t] <= created_at[t] + PrepMax
    /\ pc[t] \in {"ready", "waiting"} => now <= call_started[t] + Deadline
    /\ pc[t] = "outcome" => now <= call_started[t] + Deadline + OutcomeMax

\* A reconciler works on transfers that exist and whose request is over.
Attends(w) ==
    task[w] # Idle =>
        /\ task[w].stage # "idle" /\ status[task[w].transfer] # "NO_ROW"
        /\ pc[task[w].transfer] \notin Live

WindowInv ==
    /\ \A t \in Transfers : Timely(t)
    /\ \A w \in Workers : Attends(w)

-----------------------------------------------------------------------------
(* What the steps do *)

\* A step of a request that leaves its row alone.
CallMove(t) ==
    /\ UNCHANGED <<row, workers, now, credited>>
    /\ \A u \in Transfers \ {t} :
          /\ pc'[u] = pc[u] /\ call_started'[u] = call_started[u]
          /\ late_until'[u] = late_until[u]
    /\ \/ /\ pc[t] = "new" /\ pc'[t] \in {"refused", "done"}
          /\ late_until'[t] = late_until[t]
       \/ /\ pc[t] \in Live /\ pc'[t] = "dead"
          /\ pc[t] # "waiting" => late_until'[t] = late_until[t]
       \/ /\ pc[t] = "submitted" /\ pc'[t] = "ready"
          /\ call_started'[t] = now
       \/ /\ pc[t] \in {"ready", "waiting"}
          /\ pc'[t] \in {"ready", "waiting", "outcome"}
          /\ call_started'[t] = call_started[t]

\* The steps of a request that leave its row alone are call moves.
LEMMA CallMoves ==
    ASSUME TypeOK, NEW t \in Transfers,
           \/ Refuse(t) \/ ReturnExisting(t) \/ Interrupted(t)
           \/ StartCall(t) \/ CircuitOpen(t) \/ DeadlineExceeded(t)
           \/ SendAttempt(t) \/ AttemptSucceeded(t) \/ AttemptRejected(t)
           \/ AttemptNotSent(t) \/ AttemptUnknown(t)
    PROVE  CallMove(t)
<1>t. /\ pc \in [Transfers -> Stages] /\ call_started \in [Transfers -> Int]
      /\ late_until \in [Transfers -> Int]
  BY Zenon DEF TypeOK, CallTypeOK, PartnerTypeOK
<1>1. CASE Refuse(t) \/ ReturnExisting(t)
  <2>1. /\ pc[t] = "new" /\ \E s \in {"refused", "done"} : Goto(t, s)
        /\ UNCHANGED <<row, workers, now, credited, call_started, late_until>>
    BY Zenon, <1>1 DEF Refuse, ReturnExisting, Payable, call, partner
  <2> QED  BY Zenon, <1>t, <2>1 DEF CallMove, Goto
<1>2. CASE Interrupted(t)
  <2>1. /\ pc[t] \in Live /\ Goto(t, "dead")
        /\ \E n : call_started' = [call_started EXCEPT ![t] = n]
        /\ UNCHANGED <<row, workers, now, credited>>
    BY Zenon, <1>2 DEF Interrupted, EndRequest
  <2>2. late_until' = [late_until EXCEPT ![t] =
                         IF pc[t] = "waiting" THEN now + MaxLate ELSE @]
    BY Zenon, <1>2 DEF Interrupted
  <2>3. /\ \A u \in Transfers \ {t} : late_until'[u] = late_until[u]
        /\ pc[t] # "waiting" => late_until'[t] = late_until[t]
    BY Zenon, <1>t, <2>2
  <2>4. /\ \A u \in Transfers \ {t} :
              pc'[u] = pc[u] /\ call_started'[u] = call_started[u]
        /\ pc'[t] = "dead"
    BY Zenon, <1>t, <2>1 DEF Goto
  <2> QED  BY Zenon, <2>1, <2>3, <2>4 DEF CallMove
<1>3. CASE StartCall(t)
  <2>1. /\ pc[t] = "submitted" /\ Goto(t, "ready")
        /\ call_started' = [call_started EXCEPT ![t] = now]
        /\ UNCHANGED <<row, workers, now, credited, late_until>>
    BY Zenon, <1>3 DEF StartCall, partner
  <2> QED  BY Zenon, <1>t, <2>1 DEF CallMove, Goto
<1>4. ASSUME pc[t] \in {"ready", "waiting"},
             NEW s \in {"ready", "waiting", "outcome"}, Goto(t, s),
             UNCHANGED <<row, workers, now, credited, call_started>>,
             \A u \in Transfers \ {t} : late_until'[u] = late_until[u]
      PROVE  CallMove(t)
  <2>1. \A u \in Transfers \ {t} :
          /\ pc'[u] = pc[u] /\ call_started'[u] = call_started[u]
          /\ late_until'[u] = late_until[u]
    BY Zenon, <1>t, <1>4 DEF Goto
  <2>2. pc'[t] = s
    BY Zenon, <1>t, <1>4 DEF Goto
  <2> QED  BY Zenon, <1>4, <2>1, <2>2 DEF CallMove
<1>5. CASE CircuitOpen(t) \/ DeadlineExceeded(t) \/ SendAttempt(t)
  <2>1. /\ pc[t] = "ready"
        /\ \E s \in {"waiting", "outcome"} : Goto(t, s)
        /\ UNCHANGED <<row, workers, now, credited, call_started, late_until>>
    BY Zenon, <1>5 DEF CircuitOpen, DeadlineExceeded, SendAttempt, partner
  <2>2. PICK s \in {"ready", "waiting", "outcome"} : Goto(t, s)
    BY Zenon, <2>1
  <2> QED  BY Zenon, <1>4, <2>1, <2>2
<1>6. ASSUME NEW r, NEW retryable, AttemptEnds(t, r, retryable),
             \A u \in Transfers \ {t} : late_until'[u] = late_until[u]
      PROVE  CallMove(t)
  <2>1. /\ pc[t] = "waiting"
        /\ \E s \in {"ready", "outcome"} : Goto(t, s)
        /\ UNCHANGED <<row, workers, now, credited, call_started>>
    BY Zenon, <1>6 DEF AttemptEnds
  <2>2. PICK s \in {"ready", "waiting", "outcome"} : Goto(t, s)
    BY Zenon, <2>1
  <2> QED  BY Zenon, <1>4, <1>6, <2>1, <2>2
<1>7. CASE AttemptSucceeded(t)
  BY Zenon, <1>6, <1>7 DEF AttemptSucceeded
<1>8. CASE AttemptNotSent(t)
  BY Zenon, <1>6, <1>8 DEF AttemptNotSent
<1>9. CASE AttemptRejected(t)
  <2>1. \A u \in Transfers \ {t} : late_until'[u] = late_until[u]
    BY Zenon, <1>t, <1>9 DEF AttemptRejected
  <2> QED  BY Zenon, <1>6, <1>9, <2>1 DEF AttemptRejected
<1>10. CASE AttemptUnknown(t)
  <2>1. \A u \in Transfers \ {t} : late_until'[u] = late_until[u]
    BY Zenon, <1>t, <1>10 DEF AttemptUnknown
  <2> QED  BY Zenon, <1>6, <1>10, <2>1 DEF AttemptUnknown
<1> QED  BY Zenon, <1>1, <1>2, <1>3, <1>5, <1>7, <1>8, <1>9, <1>10

\* What is known of the partner's answer is written to the row.
Resolves(t) ==
    /\ status[t] \in VERIFIABLE
    /\ \E s \in Statuses \ (STUCK \cup {"NO_ROW"}) :
          status' = [status EXCEPT ![t] = s]
    /\ \/ UNCHANGED failure_code
       \/ \E code \in FailureCodes \ {"TRANSFER_INTERRUPTED"} :
             failure_code' = [failure_code EXCEPT ![t] = code]
    /\ UNCHANGED created_at

\* Whatever the answer, what is written of it is a resolution.
LEMMA ResolutionSteps ==
    ASSUME StateTypeOK, NEW t \in Transfers, status[t] \in VERIFIABLE,
           \/ settle_transfer(t)
           \/ \E code \in FailureCodes \ {"TRANSFER_INTERRUPTED"} :
                 reverse_transfer(t, code)
           \/ HoldForVerification(t)
           \/ \E moment : RecheckAfterGrace(t, moment)
           \/ \E moment : RetryOrEscalate(t, moment)
    PROVE  Resolves(t)
<1>s. {"COMPLETED", "REVERSED", "PENDING_VERIFICATION", "MANUAL_REVIEW"}
        \subseteq Statuses \ (STUCK \cup {"NO_ROW"})
  BY Zenon DEF Statuses, STUCK
<1>1. CASE settle_transfer(t)
  <2>1. status' = [status EXCEPT ![t] = "COMPLETED"]
    BY Zenon, <1>1, SettleMove
  <2>2. UNCHANGED <<failure_code, created_at>>
    BY Zenon, <1>1 DEF settle_transfer
  <2> QED  BY Zenon, <1>s, <2>1, <2>2 DEF Resolves
<1>2. ASSUME NEW code \in FailureCodes \ {"TRANSFER_INTERRUPTED"},
             reverse_transfer(t, code)
      PROVE  Resolves(t)
  <2>1. status' = [status EXCEPT ![t] = "REVERSED"]
    BY Zenon, <1>2, ReverseMove
  <2>2. /\ failure_code' = [failure_code EXCEPT ![t] = code]
        /\ UNCHANGED created_at
    BY Zenon, <1>2 DEF reverse_transfer
  <2> QED  BY Zenon, <1>s, <2>1, <2>2 DEF Resolves
<1>3. CASE HoldForVerification(t)
  <2>1. /\ Transition(t, <<"PENDING_VERIFICATION">>)
        /\ UNCHANGED <<failure_code, created_at>>
    BY Zenon, <1>3 DEF HoldForVerification
  <2>2. status' = [status EXCEPT ![t] = "PENDING_VERIFICATION"]
    BY Zenon, <1>s, <2>1, SingleMove
  <2> QED  BY Zenon, <1>s, <2>1, <2>2 DEF Resolves
<1>4. ASSUME NEW to \in {<<>>, <<"MANUAL_REVIEW">>},
             MoveAlong(t, Verifying(t, to))
      PROVE  \E s \in Statuses \ (STUCK \cup {"NO_ROW"}) :
                status' = [status EXCEPT ![t] = s]
  BY Zenon, <1>s, <1>4, VerifyingMove
<1>5. ASSUME NEW moment, RecheckAfterGrace(t, moment)
      PROVE  Resolves(t)
  <2>1. /\ MoveAlong(t, Verifying(t, <<>>))
        /\ UNCHANGED <<failure_code, created_at>>
    BY Zenon, <1>5 DEF RecheckAfterGrace
  <2> QED  BY Zenon, <1>4, <2>1 DEF Resolves
<1>6. ASSUME NEW moment, RetryOrEscalate(t, moment)
      PROVE  Resolves(t)
  <2>1. "VERIFICATION_EXHAUSTED" \in FailureCodes \ {"TRANSFER_INTERRUPTED"}
    BY Zenon DEF FailureCodes
  <2>2. \/ UNCHANGED failure_code
        \/ failure_code' =
             [failure_code EXCEPT ![t] = "VERIFICATION_EXHAUSTED"]
    BY Zenon, <1>6 DEF RetryOrEscalate
  <2>3. /\ \E to \in {<<>>, <<"MANUAL_REVIEW">>} :
             MoveAlong(t, Verifying(t, to))
        /\ UNCHANGED created_at
    BY Zenon, <1>6 DEF RetryOrEscalate
  <2> QED  BY Zenon, <1>4, <2>1, <2>2, <2>3 DEF Resolves
<1> QED  BY Zenon, <1>1, <1>2, <1>3, <1>5, <1>6

\* The writes of a request, and how they move it on.
RowMove(t) ==
    /\ UNCHANGED <<credited, late_until, workers, now>>
    /\ \A u \in Transfers \ {t} :
          pc'[u] = pc[u] /\ call_started'[u] = call_started[u]
    /\ \/ /\ status[t] = "NO_ROW" /\ pc'[t] = "debited"
          /\ status' = [status EXCEPT ![t] = "SOURCE_DEBITED"]
          /\ \E start \in 0 .. now :
                /\ now - start <= PrepMax
                /\ created_at' = [created_at EXCEPT ![t] = start]
          /\ UNCHANGED failure_code
       \/ /\ pc[t] = "debited" /\ pc'[t] = "submitted"
          /\ status[t] = "SOURCE_DEBITED"
          /\ status' = [status EXCEPT ![t] = "PARTNER_SUBMITTED"]
          /\ UNCHANGED <<created_at, failure_code>>
       \/ /\ pc[t] = "outcome" /\ pc'[t] = "done"
          /\ Resolves(t) \/ UNCHANGED <<status, created_at, failure_code>>

\* The writes of a request are row moves.
LEMMA RowMoves ==
    ASSUME TypeOK, NEW t \in Transfers,
           DebitSource(t) \/ MarkSubmitted(t) \/ ApplyPartnerOutcome(t)
    PROVE  RowMove(t)
<1>t. /\ pc \in [Transfers -> Stages] /\ call_started \in [Transfers -> Int]
      /\ StateTypeOK /\ status[t] \in Statuses
  BY Zenon DEF TypeOK, CallTypeOK, StateTypeOK
<1>1. ASSUME NEW s, Goto(t, s)
      PROVE  pc'[t] = s /\ \A u \in Transfers \ {t} : pc'[u] = pc[u]
  BY Zenon, <1>t, <1>1 DEF Goto
<1>2. CASE DebitSource(t)
  <2>1. /\ Transition(t, <<"PENDING", "SOURCE_DEBITED">>) /\ Goto(t, "debited")
        /\ UNCHANGED <<credited, late_until, workers, now, call_started,
                       failure_code>>
    BY Zenon, <1>2 DEF DebitSource, call, partner
  <2>2. \E start \in 0 .. now :
          /\ now - start <= PrepMax
          /\ created_at' = [created_at EXCEPT ![t] = start]
    BY Zenon, <1>2 DEF DebitSource
  <2>3. /\ status[t] = "NO_ROW"
        /\ status' = [status EXCEPT ![t] = "SOURCE_DEBITED"]
    BY Zenon, <1>t, <2>1, CreationMove, MovesInto
  <2> QED  BY Zenon, <1>1, <2>1, <2>2, <2>3 DEF RowMove
<1>3. CASE MarkSubmitted(t)
  <2>1. /\ pc[t] = "debited"
        /\ Transition(t, <<"PARTNER_SUBMITTED">>) /\ Goto(t, "submitted")
        /\ UNCHANGED <<credited, late_until, workers, now, call_started,
                       created_at, failure_code>>
    BY Zenon, <1>3 DEF MarkSubmitted, call, partner
  <2>2. "PARTNER_SUBMITTED" \in Statuses
    BY Zenon DEF Statuses
  <2>3. /\ status[t] = "SOURCE_DEBITED"
        /\ status' = [status EXCEPT ![t] = "PARTNER_SUBMITTED"]
    BY Zenon, <1>t, <2>1, <2>2, SingleMove, MovesInto
  <2> QED  BY Zenon, <1>1, <2>1, <2>3 DEF RowMove
<1>4. CASE ApplyPartnerOutcome(t)
  <2>1. /\ pc[t] = "outcome" /\ Goto(t, "done")
        /\ call_started' = [call_started EXCEPT ![t] = NoTime]
        /\ UNCHANGED <<credited, late_until, workers, now>>
    BY Zenon, <1>4 DEF ApplyPartnerOutcome, EndRequest, partner
  <2>2. {"PARTNER_REJECTED", "PARTNER_UNAVAILABLE"}
          \subseteq FailureCodes \ {"TRANSFER_INTERRUPTED"}
    BY Zenon DEF FailureCodes
  <2>3. "PARTNER_SUBMITTED" \in VERIFIABLE
    BY Zenon DEF VERIFIABLE
  <2>4. \/ UNCHANGED <<status, created_at, failure_code>>
        \/ /\ status[t] \in VERIFIABLE
           /\ \/ settle_transfer(t)
              \/ reverse_transfer(t, "PARTNER_REJECTED")
              \/ reverse_transfer(t, "PARTNER_UNAVAILABLE")
              \/ HoldForVerification(t)
    BY Zenon, <1>4, <2>3 DEF ApplyPartnerOutcome, row
  <2>5. Resolves(t) \/ UNCHANGED <<status, created_at, failure_code>>
    BY Zenon, <1>t, <2>2, <2>4, ResolutionSteps
  <2>6. \A u \in Transfers \ {t} : call_started'[u] = call_started[u]
    BY Zenon, <1>t, <2>1
  <2> QED  BY Zenon, <1>1, <2>1, <2>5, <2>6 DEF RowMove
<1> QED  BY Zenon, <1>2, <1>3, <1>4

\* A reconciler claims, looks, asks, or gives up: it writes no status.
TaskMove(w) ==
    /\ UNCHANGED <<status, created_at, failure_code, pc, call, partner, now>>
    /\ \A v \in Workers \ {w} : task'[v] = task[v]
    /\ \/ task'[w] = task[w]
       \/ task'[w] = Idle
       \/ /\ task[w].stage # "idle" /\ task'[w].stage # "idle"
          /\ task'[w].transfer = task[w].transfer
       \/ /\ task'[w].stage # "idle"
          /\ \E t \in Transfers :
                /\ task'[w].transfer = t
                /\ \/ status[t] \in STUCK /\ IsStuck(t)
                   \/ status[t] = "PENDING_VERIFICATION"

\* The steps of a reconciler before it writes are task moves.
LEMMA TaskMoves ==
    ASSUME TypeOK, NEW w \in Workers,
           \/ ClaimDue(w) \/ ReconcileNext(w) \/ AdminReconcile(w)
           \/ RoundFails(w) \/ PartnerReplies(w) \/ StatusKnown(w)
    PROVE  TaskMove(w)
<1>t. /\ task \in [Workers -> Tasks] /\ batch[w] \subseteq Transfers
  BY Zenon DEF TypeOK, WorkerTypeOK
<1>1. ASSUME NEW r, task' = [task EXCEPT ![w] = r]
      PROVE  /\ \A v \in Workers \ {w} : task'[v] = task[v]
             /\ task'[w] = r
  BY Zenon, <1>t, <1>1
<1>2. UNCHANGED <<status, created_at, failure_code, pc, call, partner, now>>
  BY Zenon
  DEF ClaimDue, ReconcileNext, AdminReconcile, RoundFails, PartnerReplies,
      StatusKnown, row
<1>3. CASE ClaimDue(w)
  BY Zenon, <1>2, <1>3 DEF ClaimDue, TaskMove
<1>4. ASSUME NEW t \in Transfers, Reconcile(w, t)
      PROVE  TaskMove(w)
  <2>1. CASE UNCHANGED task
    BY Zenon, <1>2, <2>1 DEF TaskMove
  <2>2. ASSUME NEW stage \in {"reversing", "asking"}, NEW since,
               task' = [task EXCEPT ![w] = Task(stage, t, "none", since)],
               \/ status[t] \in STUCK /\ IsStuck(t)
               \/ status[t] = "PENDING_VERIFICATION"
        PROVE  TaskMove(w)
    <3>1. task'[w] = Task(stage, t, "none", since)
      BY Zenon, <1>1, <2>2
    <3>2. task'[w].stage = stage /\ task'[w].transfer = t
      <4>1. LET r == Task(stage, t, "none", since) IN
            r.stage = stage /\ r.transfer = t
        BY Zenon DEF Task
      <4> QED  BY Zenon, <3>1, <4>1
    <3>3. stage # "idle"
      BY Zenon, <2>2
    <3> QED  BY Zenon, <1>1, <1>2, <2>2, <3>2, <3>3 DEF TaskMove
  <2>3. {"SOURCE_DEBITED", "PARTNER_SUBMITTED"} \subseteq STUCK
    BY Zenon DEF STUCK
  <2> QED  BY Zenon, <1>4, <2>1, <2>2, <2>3 DEF Reconcile
<1>5. CASE ReconcileNext(w) \/ AdminReconcile(w)
  BY Zenon, <1>t, <1>4, <1>5 DEF ReconcileNext, AdminReconcile
<1>6. CASE RoundFails(w)
  BY Zenon, <1>1, <1>2, <1>6 DEF RoundFails, TaskMove
<1>7. CASE PartnerReplies(w) \/ StatusKnown(w)
  <2>1. /\ task[w].stage # "idle"
        /\ \E stage \in {"replied", "applying"} : \E answer, since :
             task' = [task EXCEPT ![w] =
                        Task(stage, task[w].transfer, answer, since)]
    BY Zenon, <1>t, <1>7 DEF PartnerReplies, StatusKnown
  <2>2. ASSUME NEW stage \in {"replied", "applying"}, NEW answer, NEW since,
               task' = [task EXCEPT ![w] =
                          Task(stage, task[w].transfer, answer, since)]
        PROVE  TaskMove(w)
    <3>1. task'[w] = Task(stage, task[w].transfer, answer, since)
      BY Zenon, <1>1, <2>2
    <3>2. task'[w].stage = stage /\ task'[w].transfer = task[w].transfer
      <4>1. LET r == Task(stage, task[w].transfer, answer, since) IN
            r.stage = stage /\ r.transfer = task[w].transfer
        BY Zenon DEF Task
      <4> QED  BY Zenon, <3>1, <4>1
    <3>3. stage # "idle"
      BY Zenon, <2>2
    <3> QED  BY Zenon, <1>1, <1>2, <2>1, <2>2, <3>2, <3>3 DEF TaskMove
  <2> QED  BY Zenon, <2>1, <2>2
<1> QED  BY Zenon, <1>3, <1>5, <1>6, <1>7

\* A reconciler writes what it found out and is done with the transfer.
Concludes(w, t) ==
    /\ task[w].stage # "idle" /\ task[w].transfer = t
    /\ task' = [task EXCEPT ![w] = Idle]
    /\ UNCHANGED <<pc, call, partner, now>>
    /\ \/ UNCHANGED <<status, created_at, failure_code>>
       \/ Resolves(t)
       \/ /\ status[t] = "SOURCE_DEBITED"
          /\ status' = [status EXCEPT ![t] = "REVERSED"]
          /\ failure_code' = [failure_code EXCEPT ![t] = "TRANSFER_INTERRUPTED"]
          /\ UNCHANGED created_at

\* Its two transactions conclude the task.
LEMMA Conclusions ==
    ASSUME TypeOK, NEW w \in Workers, ReverseInterrupted(w) \/ Apply(w)
    PROVE  \E t \in Transfers : Concludes(w, t)
<1> DEFINE t == task[w].transfer
           moment == task[w].since
<1>t. StateTypeOK
  BY Zenon DEF TypeOK
<1>1. /\ t \in Transfers /\ task[w].stage # "idle"
      /\ task' = [task EXCEPT ![w] = Idle]
      /\ UNCHANGED <<pc, call, partner, now>>
  BY Zenon DEF ReverseInterrupted, Apply, TypeOK, WorkerTypeOK
<1>2. CASE ReverseInterrupted(w)
  <2>1. ASSUME reverse_transfer(t, "TRANSFER_INTERRUPTED")
        PROVE  /\ status' = [status EXCEPT ![t] = "REVERSED"]
               /\ failure_code' =
                    [failure_code EXCEPT ![t] = "TRANSFER_INTERRUPTED"]
               /\ UNCHANGED created_at
    BY Zenon, <1>t, <1>1, <2>1, ReverseMove DEF reverse_transfer
  <2>2. \/ UNCHANGED <<status, created_at, failure_code>>
        \/ /\ status[t] = "SOURCE_DEBITED"
           /\ reverse_transfer(t, "TRANSFER_INTERRUPTED")
    BY Zenon, <1>2 DEF ReverseInterrupted, row
  <2> QED  BY Zenon, <1>1, <2>1, <2>2 DEF Concludes
<1>3. CASE Apply(w)
  <2>1. \/ UNCHANGED <<status, created_at, failure_code>>
        \/ /\ status[t] \in VERIFIABLE
           /\ \/ settle_transfer(t)
              \/ reverse_transfer(t, "PARTNER_NOT_RECEIVED")
              \/ RecheckAfterGrace(t, moment)
              \/ RetryOrEscalate(t, moment)
    BY Zenon, <1>3 DEF Apply, row
  <2>2. "PARTNER_NOT_RECEIVED" \in FailureCodes \ {"TRANSFER_INTERRUPTED"}
    BY Zenon DEF FailureCodes
  <2>3. UNCHANGED <<status, created_at, failure_code>> \/ Resolves(t)
    BY Zenon, <1>t, <1>1, <2>1, <2>2, ResolutionSteps
  <2> QED  BY Zenon, <1>1, <2>3 DEF Concludes
<1> QED  BY Zenon, <1>2, <1>3

-----------------------------------------------------------------------------
(* Interrupted transfers *)

\* A resolution leaves a transfer behind that nothing is claimed of.
LEMMA ResolvedUnsent ==
    ASSUME TypeOK, NEW t \in Transfers, Unsent(t), Resolves(t)
    PROVE  Unsent(t)'
<1>1. /\ status \in [Transfers -> Statuses]
      /\ failure_code \in [Transfers -> FailureCodes \cup {NoCode}]
  BY Zenon DEF TypeOK, StateTypeOK, RowTypeOK
<1>2. status'[t] \notin {"NO_ROW", "SOURCE_DEBITED"}
  BY Zenon, <1>1 DEF Resolves, STUCK
<1>3. failure_code[t] # "TRANSFER_INTERRUPTED"
  BY Zenon DEF Resolves, Unsent, VERIFIABLE
<1>4. failure_code'[t] # "TRANSFER_INTERRUPTED"
  BY Zenon, <1>1, <1>3 DEF Resolves
<1> QED  BY Zenon, <1>2, <1>4 DEF Unsent

\* Other transfers are not touched.
LEMMA ResolvedOthers ==
    ASSUME TypeOK, NEW t \in Transfers, NEW u \in Transfers \ {t}, Resolves(t)
    PROVE  /\ status'[u] = status[u] /\ created_at'[u] = created_at[u]
           /\ failure_code'[u] = failure_code[u]
<1>1. /\ status \in [Transfers -> Statuses]
      /\ failure_code \in [Transfers -> FailureCodes \cup {NoCode}]
  BY Zenon DEF TypeOK, StateTypeOK, RowTypeOK
<1> QED  BY Zenon, <1>1 DEF Resolves

\* A transfer that a step leaves alone stays unsent.
LEMMA UnsentFrame ==
    ASSUME NEW u \in Transfers, Unsent(u),
           status'[u] = status[u], failure_code'[u] = failure_code[u],
           pc'[u] = pc[u], credited'[u] = credited[u],
           late_until'[u] = late_until[u]
    PROVE  Unsent(u)'
  BY Zenon DEF Unsent

\* Every step keeps the invariant of unsent transfers.
LEMMA UnsentStep ==
    ASSUME TypeOK, UnsentInv, Next
    PROVE  UnsentInv'
<1>t. /\ status \in [Transfers -> Statuses] /\ pc \in [Transfers -> Stages]
      /\ failure_code \in [Transfers -> FailureCodes \cup {NoCode}]
      /\ credited \in [Transfers -> BOOLEAN]
      /\ late_until \in [Transfers -> Int] /\ now \in Nat
  BY Zenon DEF TypeOK, StateTypeOK, RowTypeOK, PartnerTypeOK
<1>1. ASSUME NEW t \in Transfers, CallMove(t)
      PROVE  UnsentInv'
  <2>1. \A u \in Transfers \ {t} : Unsent(u)'
    BY Zenon, <1>1, UnsentFrame DEF UnsentInv, CallMove, row
  <2>2. /\ Unsent(t) /\ status'[t] = status[t]
        /\ failure_code'[t] = failure_code[t] /\ credited'[t] = credited[t]
    BY Zenon, <1>1 DEF UnsentInv, CallMove, row
  <2>3. Unsent(t)'
    BY Zenon, <1>1, <2>2 DEF CallMove, Unsent, Live
  <2> QED  BY Zenon, <2>1, <2>3 DEF UnsentInv
<1>2. ASSUME NEW t \in Transfers, RowMove(t)
      PROVE  UnsentInv'
  <2>1. ASSUME NEW u \in Transfers \ {t}  PROVE Unsent(u)'
    <3>1. status'[u] = status[u] /\ failure_code'[u] = failure_code[u]
      BY Zenon, <1>t, <1>2, ResolvedOthers DEF RowMove
    <3> QED  BY Zenon, <1>2, <3>1, UnsentFrame DEF UnsentInv, RowMove
  <2>2. /\ Unsent(t) /\ credited'[t] = credited[t]
        /\ late_until'[t] = late_until[t]
    BY Zenon, <1>2 DEF UnsentInv, RowMove
  <2>3. Unsent(t)'
    <3>1. CASE Resolves(t)
      BY Zenon, <2>2, <3>1, ResolvedUnsent
    <3>2. CASE /\ pc[t] = "outcome" /\ pc'[t] = "done"
               /\ UNCHANGED <<status, created_at, failure_code>>
      BY Zenon, <2>2, <3>2 DEF Unsent
    <3>3. CASE /\ pc[t] = "debited" /\ status[t] = "SOURCE_DEBITED"
               /\ status' = [status EXCEPT ![t] = "PARTNER_SUBMITTED"]
               /\ UNCHANGED failure_code
      <4>1. status'[t] = "PARTNER_SUBMITTED"
        BY Zenon, <1>t, <3>3
      <4> QED  BY Zenon, <2>2, <3>3, <4>1 DEF Unsent
    <3>4. CASE /\ status[t] = "NO_ROW" /\ pc'[t] = "debited"
               /\ status' = [status EXCEPT ![t] = "SOURCE_DEBITED"]
               /\ UNCHANGED failure_code
      <4>1. status'[t] = "SOURCE_DEBITED"
        BY Zenon, <1>t, <3>4
      <4> QED  BY Zenon, <2>2, <3>4, <4>1 DEF Unsent
    <3> QED  BY Zenon, <1>2, <3>1, <3>2, <3>3, <3>4 DEF RowMove
  <2> QED  BY Zenon, <2>1, <2>3 DEF UnsentInv
<1>3. ASSUME NEW t \in Transfers, PartnerApplies(t)
      PROVE  UnsentInv'
  <2>1. Unsent(t) /\ ~(now <= NoTime)
    BY SMTT(30), Z3T(30), <1>t DEF UnsentInv, NoTime
  <2>2. /\ status[t] \notin {"NO_ROW", "SOURCE_DEBITED"}
        /\ failure_code[t] # "TRANSFER_INTERRUPTED"
    BY Zenon, <1>3, <2>1 DEF PartnerApplies, Unsent
  <2>3. Unsent(t)'
    BY Zenon, <1>3, <2>2 DEF PartnerApplies, Unsent, row
  <2>4. \A u \in Transfers \ {t} : credited'[u] = credited[u]
    BY Zenon, <1>t, <1>3 DEF PartnerApplies
  <2>5. \A u \in Transfers \ {t} : Unsent(u)'
    BY Zenon, <1>3, <2>4, UnsentFrame DEF UnsentInv, PartnerApplies, row
  <2> QED  BY Zenon, <2>3, <2>5 DEF UnsentInv
<1>4. ASSUME NEW w \in Workers, NEW t \in Transfers, Concludes(w, t)
      PROVE  UnsentInv'
  <2>1. ASSUME NEW u \in Transfers \ {t}  PROVE Unsent(u)'
    <3>1. status'[u] = status[u] /\ failure_code'[u] = failure_code[u]
      BY Zenon, <1>t, <1>4, ResolvedOthers DEF Concludes
    <3> QED  BY Zenon, <1>4, <3>1, UnsentFrame DEF UnsentInv, Concludes, partner
  <2>2. /\ Unsent(t) /\ UNCHANGED <<pc, credited, late_until>>
    BY Zenon, <1>4 DEF UnsentInv, Concludes, partner
  <2>3. Unsent(t)'
    <3>1. CASE Resolves(t)
      BY Zenon, <2>2, <3>1, ResolvedUnsent
    <3>2. CASE UNCHANGED <<status, failure_code>>
      BY Zenon, <2>2, <3>2, UnsentFrame
    <3>3. CASE /\ status[t] = "SOURCE_DEBITED"
               /\ status' = [status EXCEPT ![t] = "REVERSED"]
      <4>1. status'[t] = "REVERSED"
        BY Zenon, <1>t, <3>3
      <4> QED  BY Zenon, <2>2, <3>3, <4>1 DEF Unsent
    <3> QED  BY Zenon, <1>4, <3>1, <3>2, <3>3 DEF Concludes
  <2> QED  BY Zenon, <2>1, <2>3 DEF UnsentInv
<1>5. ASSUME UNCHANGED <<status, failure_code, pc, partner>>
      PROVE  UnsentInv'
  BY Zenon, <1>5, UnsentFrame DEF UnsentInv, partner
<1>6. CASE Tick
  BY Zenon, <1>5, <1>6 DEF Tick, row
<1>7. ASSUME NEW w \in Workers, TaskMove(w)
      PROVE  UnsentInv'
  BY Zenon, <1>5, <1>7 DEF TaskMove
<1> QED  BY Zenon, <1>1, <1>2, <1>3, <1>4, <1>6, <1>7, CallMoves, RowMoves,
            TaskMoves, Conclusions DEF Next, RequestStep

\* A transfer reversed with TRANSFER_INTERRUPTED never reached the partner:
\* no credit, no request on its way, and its own request can no longer send
\* one (_reverse_interrupted against _mark_submitted).
THEOREM InterruptedWasNeverSent == Spec => []InterruptedNeverSent
<1>1. Init => UnsentInv
  BY Zenon DEF Init, UnsentInv, Unsent, NoCode
<1>2. TypeOK /\ UnsentInv /\ [Next]_vars => UnsentInv'
  <2>1. ASSUME UnsentInv, UNCHANGED vars  PROVE UnsentInv'
    BY Zenon, <2>1, UnsentFrame DEF UnsentInv, vars, row, partner
  <2> QED  BY Zenon, <2>1, UnsentStep
<1>3. UnsentInv => InterruptedNeverSent
  BY Zenon DEF UnsentInv, Unsent, InterruptedNeverSent
<1> QED  BY <1>1, <1>2, <1>3, TypeCorrect, PTL DEF Spec

-----------------------------------------------------------------------------
(* Live requests *)

\* The stuck window outlasts the preparation, the call after it and the
\* writing of its outcome.
LEMMA WindowOutlasts ==
    ASSUME WindowCoversRequest, NEW n \in Nat, NEW created \in Int,
           NEW start \in Int, created <= n - StuckAfter
    PROVE  /\ ~(n <= created + PrepMax)
           /\ ~(start <= created + PrepMax /\ n <= start + Deadline)
           /\ ~(/\ start <= created + PrepMax
                /\ n <= start + Deadline + OutcomeMax)
<1>1. /\ PrepMax \in Nat /\ Deadline \in Nat /\ OutcomeMax \in Nat
      /\ StuckAfter \in Nat
  BY Zenon, EnvironmentAssumption, SettingsAssumption
<1> QED  BY SMTT(30), Z3T(30), <1>1 DEF WindowCoversRequest

\* A call that ends by its deadline leaves the time to write its outcome.
LEMMA InTimeForOutcome ==
    ASSUME NEW n \in Nat, NEW start \in Int, n <= start + Deadline
    PROVE  n <= start + Deadline + OutcomeMax
<1>1. Deadline \in Nat /\ OutcomeMax \in Nat
  BY Zenon, EnvironmentAssumption, SettingsAssumption
<1> QED  BY SMTT(30), Z3T(30), <1>1

\* A transfer that looks stuck has outlived its request.
LEMMA StuckIsGone ==
    ASSUME WindowCoversRequest, TypeOK, NEW t \in Transfers, Timely(t),
           IsStuck(t)
    PROVE  pc[t] \notin Live
<1>1. now \in Nat /\ created_at[t] \in Int /\ call_started[t] \in Int
  BY Zenon DEF TypeOK, RowTypeOK, CallTypeOK
<1>2. /\ ~(now <= created_at[t] + PrepMax)
      /\ ~(/\ call_started[t] <= created_at[t] + PrepMax
           /\ now <= call_started[t] + Deadline)
      /\ ~(/\ call_started[t] <= created_at[t] + PrepMax
           /\ now <= call_started[t] + Deadline + OutcomeMax)
  BY Zenon, <1>1, WindowOutlasts DEF IsStuck
<1> QED  BY Zenon, <1>2 DEF Timely, Live

\* A request that a step leaves alone stays on time.
LEMMA TimelyFrame ==
    ASSUME NEW u \in Transfers, Timely(u), UNCHANGED now,
           status'[u] = status[u], created_at'[u] = created_at[u],
           pc'[u] = pc[u], call_started'[u] = call_started[u]
    PROVE  Timely(u)'
  BY Zenon DEF Timely

\* A request that is over has no time to keep.
LEMMA OverIsTimely ==
    ASSUME NEW u \in Transfers, pc'[u] \notin Live
    PROVE  Timely(u)'
  BY Zenon DEF Timely, Live

\* A task stays good as long as rows stay and requests do not come back.
LEMMA AttendsFrame ==
    ASSUME TypeOK, NEW v \in Workers, Attends(v), task'[v] = task[v],
           \A u \in Transfers :
             /\ status[u] # "NO_ROW" => status'[u] # "NO_ROW"
             /\ status[u] # "NO_ROW" /\ pc[u] \notin Live =>
                   pc'[u] \notin Live
    PROVE  Attends(v)'
<1>1. task[v].stage # "idle" => task[v].transfer \in Transfers
  BY Zenon DEF TypeOK, WorkerTypeOK
<1> QED  BY Zenon, <1>1 DEF Attends

\* Steps of the partner call keep requests on time.
LEMMA CallWindow ==
    ASSUME TypeOK, WindowInv, NEW t \in Transfers, CallMove(t)
    PROVE  WindowInv'
<1>1. /\ \A u \in Transfers : status'[u] = status[u]
                               /\ created_at'[u] = created_at[u]
      /\ UNCHANGED <<task, now>>
  BY Zenon DEF CallMove, row, workers
<1>2. \A u \in Transfers \ {t} : Timely(u)'
  BY Zenon, <1>1, TimelyFrame DEF WindowInv, CallMove
<1>3. Timely(t)'
  <2>0. Timely(t)
    BY Zenon DEF WindowInv
  <2>1. CASE pc'[t] \notin Live
    BY Zenon, <2>1, OverIsTimely
  <2>2. CASE /\ pc[t] = "submitted" /\ pc'[t] = "ready"
             /\ call_started'[t] = now
    <3>1. now \in Int /\ Deadline \in Nat
      BY SMTT(30), Z3T(30), SettingsAssumption DEF TypeOK
    <3>2. now <= now + Deadline
      BY SMTT(30), Z3T(30), <3>1
    <3> QED  BY Zenon, <1>1, <2>0, <2>2, <3>2
             DEF Timely, Live
  <2>3. CASE /\ pc[t] \in {"ready", "waiting"}
             /\ pc'[t] \in {"ready", "waiting"}
             /\ call_started'[t] = call_started[t]
    BY Zenon, <1>1, <2>0, <2>3 DEF Timely, Live
  <2>4. CASE /\ pc[t] \in {"ready", "waiting"} /\ pc'[t] = "outcome"
             /\ call_started'[t] = call_started[t]
    <3>1. now <= call_started[t] + Deadline + OutcomeMax
      <4>1. now \in Nat /\ call_started[t] \in Int
        BY Zenon DEF TypeOK, CallTypeOK
      <4> QED  BY Zenon, <2>0, <2>4, <4>1, InTimeForOutcome DEF Timely
    <3> QED  BY Zenon, <1>1, <2>0, <2>4, <3>1 DEF Timely, Live
  <2> QED  BY Zenon, <2>1, <2>2, <2>3, <2>4 DEF CallMove, Live
<1>4. \A u \in Transfers : pc'[u] \in Live => pc[u] \in Live
  BY Zenon DEF CallMove, Live
<1>5. \A v \in Workers : Attends(v)'
  BY Zenon, <1>1, <1>4, AttendsFrame DEF WindowInv
<1> QED  BY Zenon, <1>2, <1>3, <1>5 DEF WindowInv

\* A resolution never takes a row away.
LEMMA ResolvedHasRow ==
    ASSUME TypeOK, NEW t \in Transfers, Resolves(t)
    PROVE  status'[t] # "NO_ROW"
  BY Zenon DEF TypeOK, StateTypeOK, Resolves

\* So do the writes of a request.
LEMMA RowWindow ==
    ASSUME TypeOK, WindowInv, NEW t \in Transfers, RowMove(t)
    PROVE  WindowInv'
<1>t. /\ status \in [Transfers -> Statuses]
      /\ created_at \in [Transfers -> Int] /\ now \in Nat /\ PrepMax \in Nat
  BY Zenon, EnvironmentAssumption DEF TypeOK, StateTypeOK, RowTypeOK
<1>0. Timely(t) /\ UNCHANGED <<task, now>>
  BY Zenon DEF WindowInv, RowMove, workers
<1>1. ASSUME NEW u \in Transfers \ {t}
      PROVE  status'[u] = status[u] /\ created_at'[u] = created_at[u]
  BY Zenon, <1>t, ResolvedOthers DEF RowMove
<1>2. \A u \in Transfers \ {t} : Timely(u)'
  BY Zenon, <1>0, <1>1, TimelyFrame DEF WindowInv, RowMove
<1>3. CASE /\ pc[t] = "outcome" /\ pc'[t] = "done"
           /\ Resolves(t) \/ UNCHANGED <<status, created_at, failure_code>>
  <2>1. pc'[t] \notin Live
    BY Zenon, <1>3 DEF Live
  <2>2. status[t] # "NO_ROW" => status'[t] # "NO_ROW"
    BY Zenon, <1>3, ResolvedHasRow
  <2>3. \A v \in Workers : Attends(v)'
    BY Zenon, <1>0, <1>1, <2>1, <2>2, AttendsFrame DEF WindowInv, RowMove
  <2> QED  BY Zenon, <1>2, <2>1, <2>3, OverIsTimely DEF WindowInv
<1>4. CASE /\ status[t] = "NO_ROW" /\ pc'[t] = "debited"
           /\ status' = [status EXCEPT ![t] = "SOURCE_DEBITED"]
           /\ \E start \in 0 .. now :
                 /\ now - start <= PrepMax
                 /\ created_at' = [created_at EXCEPT ![t] = start]
  <2>1. status'[t] = "SOURCE_DEBITED"
    BY Zenon, <1>t, <1>4
  <2>2. now <= created_at'[t] + PrepMax
    BY SMTT(30), Z3T(30), <1>t, <1>4
  <2>3. Timely(t)'
    BY Zenon, <1>0, <1>4, <2>1, <2>2 DEF Timely, STUCK
  <2>4. \A v \in Workers : Attends(v)'
    BY Zenon, <1>0, <1>1, <1>4, <2>1, AttendsFrame DEF WindowInv, RowMove
  <2> QED  BY Zenon, <1>2, <2>3, <2>4 DEF WindowInv
<1>5. CASE /\ pc[t] = "debited" /\ pc'[t] = "submitted"
           /\ status' = [status EXCEPT ![t] = "PARTNER_SUBMITTED"]
           /\ UNCHANGED created_at
  <2>1. status'[t] = "PARTNER_SUBMITTED"
    BY Zenon, <1>t, <1>5
  <2>2. Timely(t)'
    BY Zenon, <1>0, <1>5, <2>1 DEF Timely, STUCK
  <2>3. pc[t] \in Live
    BY Zenon, <1>5 DEF Live
  <2>4. \A v \in Workers : Attends(v)'
    BY Zenon, <1>0, <1>1, <2>1, <2>3, AttendsFrame DEF WindowInv, RowMove
  <2> QED  BY Zenon, <1>2, <2>2, <2>4 DEF WindowInv
<1> QED  BY Zenon, <1>3, <1>4, <1>5 DEF RowMove

\* A reconciler takes up a transfer only when its request is over.
LEMMA TaskWindow ==
    ASSUME WindowCoversRequest, TypeOK, WindowInv, NEW w \in Workers,
           TaskMove(w)
    PROVE  WindowInv'
<1>1. UNCHANGED <<status, created_at, pc, call_started, now>>
  BY Zenon DEF TaskMove, call
<1>2. \A u \in Transfers : Timely(u)'
  BY Zenon, <1>1, TimelyFrame DEF WindowInv
<1>3. \A v \in Workers \ {w} : Attends(v)'
  BY Zenon, <1>1, AttendsFrame DEF WindowInv, TaskMove
<1>4. Attends(w)'
  <2>0. Attends(w)
    BY Zenon DEF WindowInv
  <2>1. CASE task'[w] = task[w]
    BY Zenon, <1>1, <2>0, <2>1, AttendsFrame
  <2>2. CASE task'[w] = Idle
    BY Zenon, <2>2 DEF Attends
  <2>3. CASE /\ task[w].stage # "idle" /\ task'[w].stage # "idle"
             /\ task'[w].transfer = task[w].transfer
    <3>1. task[w] # Idle
      BY Zenon, <2>3, IdleStage
    <3> QED  BY Zenon, <1>1, <2>0, <2>3, <3>1 DEF Attends
  <2>4. ASSUME task'[w].stage # "idle", NEW t \in Transfers,
               task'[w].transfer = t,
               \/ status[t] \in STUCK /\ IsStuck(t)
               \/ status[t] = "PENDING_VERIFICATION"
        PROVE  Attends(w)'
    <3>1. Timely(t) /\ status[t] # "NO_ROW"
      BY Zenon, <2>4 DEF WindowInv, STUCK
    <3>2. pc[t] \notin Live
      BY Zenon, <2>4, <3>1, StuckIsGone DEF Timely, STUCK
    <3> QED  BY Zenon, <1>1, <2>4, <3>1, <3>2 DEF Attends
  <2> QED  BY Zenon, <2>1, <2>2, <2>3, <2>4 DEF TaskMove
<1> QED  BY Zenon, <1>2, <1>3, <1>4 DEF WindowInv

\* What it writes disturbs no live request.
LEMMA ConclusionWindow ==
    ASSUME TypeOK, WindowInv, NEW w \in Workers, NEW t \in Transfers,
           Concludes(w, t)
    PROVE  WindowInv'
<1>t. status \in [Transfers -> Statuses] /\ task \in [Workers -> Tasks]
  BY Zenon DEF TypeOK, StateTypeOK, WorkerTypeOK
<1>1. UNCHANGED <<pc, call_started, now>>
  BY Zenon DEF Concludes, call
<1>2. pc'[t] \notin Live
  <2>1. task[w] # Idle
    BY Zenon, IdleStage DEF Concludes
  <2> QED  BY Zenon, <1>1, <2>1 DEF WindowInv, Attends, Concludes
<1>3. ASSUME NEW u \in Transfers \ {t}
      PROVE  status'[u] = status[u] /\ created_at'[u] = created_at[u]
  BY Zenon, <1>t, ResolvedOthers DEF Concludes
<1>4. \A u \in Transfers : Timely(u)'
  BY Zenon, <1>1, <1>2, <1>3, TimelyFrame, OverIsTimely DEF WindowInv
<1>5. status[t] # "NO_ROW" => status'[t] # "NO_ROW"
  BY Zenon, <1>t, ResolvedHasRow DEF Concludes
<1>6. ASSUME NEW v \in Workers \ {w}  PROVE Attends(v)'
  <2>1. task'[v] = task[v]
    BY Zenon, <1>t DEF Concludes
  <2> QED  BY Zenon, <1>1, <1>3, <1>5, <2>1, AttendsFrame DEF WindowInv
<1>7. task'[w] = Idle
  BY Zenon, <1>t DEF Concludes
<1> QED  BY Zenon, <1>4, <1>6, <1>7 DEF WindowInv, Attends

\* Time passes only as far as asyncio.timeout, PrepMax and OutcomeMax let a
\* live request wait.
LEMMA TickWindow ==
    ASSUME TypeOK, WindowInv, Tick
    PROVE  WindowInv'
<1>1. UNCHANGED <<status, created_at, pc, call_started, task>>
  BY Zenon DEF Tick, row, call, workers
<1>2. ASSUME NEW u \in Transfers  PROVE Timely(u)'
  <2>1. /\ now \in Int /\ created_at[u] \in Int /\ call_started[u] \in Int
        /\ PrepMax \in Int /\ Deadline \in Int /\ OutcomeMax \in Int
    BY SMTT(30), Z3T(30), SettingsAssumption, EnvironmentAssumption
    DEF TypeOK, RowTypeOK, CallTypeOK
  <2>2. /\ now < created_at[u] + PrepMax => now + 1 <= created_at[u] + PrepMax
        /\ now < call_started[u] + Deadline =>
              now + 1 <= call_started[u] + Deadline
        /\ now < call_started[u] + Deadline + OutcomeMax =>
              now + 1 <= call_started[u] + Deadline + OutcomeMax
    BY SMTT(30), Z3T(30), <2>1
  <2> QED  BY Zenon, <1>1, <2>2 DEF WindowInv, Timely, Tick, CallEnds
<1>3. \A v \in Workers : Attends(v)'
  BY Zenon, <1>1, AttendsFrame DEF WindowInv
<1> QED  BY Zenon, <1>2, <1>3 DEF WindowInv

\* Every step keeps the two apart.
LEMMA WindowStep ==
    ASSUME WindowCoversRequest, TypeOK, WindowInv, Next
    PROVE  WindowInv'
<1>1. ASSUME UNCHANGED <<status, created_at, pc, call_started, task, now>>
      PROVE  WindowInv'
  BY Zenon, <1>1, TimelyFrame, AttendsFrame DEF WindowInv
<1>2. ASSUME NEW t \in Transfers, PartnerApplies(t)
      PROVE  WindowInv'
  BY Zenon, <1>1, <1>2 DEF PartnerApplies, row, call, workers
<1> QED  BY Zenon, <1>2, CallMoves, CallWindow, RowMoves, RowWindow,
            TaskMoves, TaskWindow, Conclusions, ConclusionWindow, TickWindow
         DEF Next, RequestStep

\* If the stuck window is longer than preparation, partner call and the
\* writing of its outcome together, no reconciler ever works on a transfer
\* whose request is still alive, that is, may yet call the partner or write
\* the row (claim_due and the check in _reconcile).
THEOREM LiveRequestIsLeftAlone ==
    ASSUME WindowCoversRequest
    PROVE  Spec => []LiveRequestUntouched
<1>1. Init => WindowInv
  <2>1. ASSUME Init  PROVE /\ \A t \in Transfers : pc[t] = "new"
                           /\ \A w \in Workers : task[w] = Idle
    BY Zenon, <2>1 DEF Init
  <2> QED  BY Zenon, <2>1 DEF WindowInv, Timely, Attends, Live
<1>2. TypeOK /\ WindowInv /\ [Next]_vars => WindowInv'
  <2>1. ASSUME TypeOK, WindowInv, UNCHANGED vars  PROVE WindowInv'
    BY Zenon, <2>1, TimelyFrame, AttendsFrame
    DEF WindowInv, vars, row, call, workers
  <2> QED  BY Zenon, <2>1, WindowStep
<1>3. WindowInv => LiveRequestUntouched
  BY Zenon DEF WindowInv, Attends, LiveRequestUntouched
<1> QED  BY <1>1, <1>2, <1>3, TypeCorrect, PTL DEF Spec
-----------------------------------------------------------------------------
(* What is written to the tables.  Whoever takes a step, a request or a    *)
(* reconciler, it does one of five things (LedgerStep); the invariants     *)
(* about journals, balances and keys are a matter of these five.           *)

\* A transfer is created and its points are debited.
Debits(t) ==
    /\ status[t] = "NO_ROW" /\ Existing(t) = {}
    /\ user_balance[SourceAccount(t)] >= Request[t].source_points
    /\ PostDebit(t)
    /\ status' = [status EXCEPT ![t] = "SOURCE_DEBITED"]

\* An open transfer moves on and its points stay in clearing.
MovesOn(t) ==
    /\ status[t] \in OpenStatuses
    /\ \E s \in OpenStatuses : status' = [status EXCEPT ![t] = s]
    /\ UNCHANGED ledger

Settles(t) ==
    /\ status[t] \in VERIFIABLE
    /\ settle_transfer(t)
    /\ status' = [status EXCEPT ![t] = "COMPLETED"]

Reverses(t) ==
    /\ status[t] \in VERIFIABLE \cup {"SOURCE_DEBITED"}
    /\ \E code \in FailureCodes : reverse_transfer(t, code)
    /\ status' = [status EXCEPT ![t] = "REVERSED"]

Writes(t) == Debits(t) \/ MovesOn(t) \/ Settles(t) \/ Reverses(t)

\* A status that a resolution starts from is an open one.
LEMMA OpenIsOpen ==
    /\ VERIFIABLE \cup {"SOURCE_DEBITED"} \subseteq OpenStatuses
    /\ {"PENDING_VERIFICATION", "MANUAL_REVIEW"} \subseteq OpenStatuses
  BY Zenon DEF VERIFIABLE, OpenStatuses

\* What the resolutions do, as steps of the tables.
LEMMA ResolutionWrites ==
    ASSUME StateTypeOK, NEW t \in Transfers
    PROVE  /\ settle_transfer(t) => Writes(t)
           /\ \A code \in FailureCodes : reverse_transfer(t, code) => Writes(t)
<1>1. settle_transfer(t) => Settles(t)
  BY Zenon, SettleMove DEF Settles
<1>2. ASSUME NEW code \in FailureCodes, reverse_transfer(t, code)
      PROVE  Reverses(t)
  BY Zenon, <1>2, ReverseMove DEF Reverses
<1> QED  BY Zenon, <1>1, <1>2 DEF Writes

\* The steps of a request.
LEMMA RequestWrites ==
    ASSUME TypeOK, NEW t \in Transfers,
           \/ Refuse(t) \/ DebitSource(t) \/ ReturnExisting(t)
           \/ RequestStep(t) \/ Interrupted(t) \/ PartnerApplies(t)
    PROVE  UNCHANGED <<ledger, status>> \/ Writes(t)
<1>t. StateTypeOK /\ status[t] \in Statuses
  BY Zenon DEF TypeOK, StateTypeOK
<1>1. CASE DebitSource(t)
  <2>1. Transition(t, <<"PENDING", "SOURCE_DEBITED">>)
    BY Zenon, <1>1 DEF DebitSource
  <2>2. /\ status[t] = "NO_ROW"
        /\ status' = [status EXCEPT ![t] = "SOURCE_DEBITED"]
    BY Zenon, <1>t, <2>1, CreationMove, MovesInto
  <2> QED  BY Zenon, <1>1, <2>2 DEF DebitSource, Payable, Debits, Writes
<1>2. CASE MarkSubmitted(t)
  <2>1. "PARTNER_SUBMITTED" \in Statuses /\ "PARTNER_SUBMITTED" \in OpenStatuses
    BY Zenon DEF Statuses, OpenStatuses
  <2>2. Transition(t, <<"PARTNER_SUBMITTED">>) /\ UNCHANGED ledger
    BY Zenon, <1>2 DEF MarkSubmitted
  <2>3. /\ status[t] = "SOURCE_DEBITED"
        /\ status' = [status EXCEPT ![t] = "PARTNER_SUBMITTED"]
    BY Zenon, <1>t, <2>1, <2>2, SingleMove, MovesInto
  <2> QED  BY Zenon, <2>1, <2>2, <2>3, OpenIsOpen DEF MovesOn, Writes
<1>3. CASE ApplyPartnerOutcome(t)
  <2>1. ASSUME HoldForVerification(t) PROVE Writes(t)
    <3>1. "PENDING_VERIFICATION" \in Statuses
      BY Zenon DEF Statuses
    <3>2. Transition(t, <<"PENDING_VERIFICATION">>) /\ UNCHANGED ledger
      BY Zenon, <2>1 DEF HoldForVerification
    <3>3. /\ status[t] = "PARTNER_SUBMITTED"
          /\ status' = [status EXCEPT ![t] = "PENDING_VERIFICATION"]
      BY Zenon, <1>t, <3>1, <3>2, SingleMove, MovesInto
    <3> QED  BY Zenon, <3>2, <3>3 DEF MovesOn, Writes, OpenStatuses
  <2>2. "PARTNER_REJECTED" \in FailureCodes
          /\ "PARTNER_UNAVAILABLE" \in FailureCodes
    BY Zenon DEF FailureCodes
  <2> QED  BY Zenon, <1>3, <1>t, <2>1, <2>2, ResolutionWrites
           DEF ApplyPartnerOutcome, row
<1>4. CASE \/ Refuse(t) \/ ReturnExisting(t) \/ Interrupted(t)
           \/ StartCall(t) \/ CircuitOpen(t) \/ DeadlineExceeded(t)
           \/ SendAttempt(t) \/ AttemptSucceeded(t) \/ AttemptRejected(t)
           \/ AttemptNotSent(t) \/ AttemptUnknown(t) \/ PartnerApplies(t)
  BY Zenon, <1>4
  DEF Refuse, ReturnExisting, Interrupted, StartCall, CircuitOpen,
      DeadlineExceeded, SendAttempt, AttemptSucceeded, AttemptRejected,
      AttemptNotSent, AttemptUnknown, AttemptEnds, PartnerApplies, row
<1> QED  BY Zenon, <1>1, <1>2, <1>3, <1>4 DEF RequestStep

\* The steps of a reconciler.
LEMMA WorkerWrites ==
    ASSUME TypeOK, NEW w \in Workers,
           \/ ClaimDue(w) \/ ReconcileNext(w) \/ AdminReconcile(w)
           \/ RoundFails(w) \/ ReverseInterrupted(w) \/ PartnerReplies(w)
           \/ StatusKnown(w) \/ Apply(w)
    PROVE  UNCHANGED <<ledger, status>> \/ \E t \in Transfers : Writes(t)
<1>t. StateTypeOK
  BY Zenon DEF TypeOK
<1>1. CASE ReverseInterrupted(w)
  <2>1. task[w].transfer \in Transfers
    BY Zenon, <1>1 DEF ReverseInterrupted, TypeOK, WorkerTypeOK
  <2>2. "TRANSFER_INTERRUPTED" \in FailureCodes
    BY Zenon DEF FailureCodes
  <2> QED  BY Zenon, <1>1, <1>t, <2>1, <2>2, ResolutionWrites
           DEF ReverseInterrupted, row
<1>2. CASE Apply(w)
  <2> DEFINE t == task[w].transfer
             moment == task[w].since
  <2>1. t \in Transfers
    BY Zenon, <1>2 DEF Apply, TypeOK, WorkerTypeOK
  <2>2. ASSUME status[t] \in VERIFIABLE, RecheckAfterGrace(t, moment)
        PROVE  Writes(t)
    <3>1. MoveAlong(t, Verifying(t, <<>>)) /\ UNCHANGED ledger
      BY Zenon, <2>2 DEF RecheckAfterGrace
    <3> QED  BY Zenon, <1>t, <2>1, <2>2, <3>1, VerifyingMove, OpenIsOpen
             DEF MovesOn, Writes
  <2>3. ASSUME status[t] \in VERIFIABLE, RetryOrEscalate(t, moment)
        PROVE  Writes(t)
    <3>1. /\ \E to \in {<<>>, <<"MANUAL_REVIEW">>} :
               MoveAlong(t, Verifying(t, to))
          /\ UNCHANGED ledger
      BY Zenon, <2>3 DEF RetryOrEscalate
    <3> QED  BY Zenon, <1>t, <2>1, <2>3, <3>1, VerifyingMove, OpenIsOpen
             DEF MovesOn, Writes
  <2>4. "PARTNER_NOT_RECEIVED" \in FailureCodes
    BY Zenon DEF FailureCodes
  <2> QED  BY Zenon, <1>2, <1>t, <2>1, <2>2, <2>3, <2>4, ResolutionWrites
           DEF Apply, row
<1>3. CASE \/ ClaimDue(w) \/ ReconcileNext(w) \/ AdminReconcile(w)
           \/ RoundFails(w) \/ PartnerReplies(w) \/ StatusKnown(w)
  BY Zenon, <1>3
  DEF ClaimDue, ReconcileNext, AdminReconcile, RoundFails, PartnerReplies,
      StatusKnown, row
<1> QED  BY Zenon, <1>1, <1>2, <1>3

\* Every step leaves statuses and ledger alone, or writes one transfer.
LEMMA LedgerStep ==
    ASSUME TypeOK, [Next]_vars
    PROVE  UNCHANGED <<ledger, status>> \/ \E t \in Transfers : Writes(t)
<1>1. CASE Tick
  BY Zenon, <1>1 DEF Tick, row
<1>2. CASE UNCHANGED vars
  BY Zenon, <1>2 DEF vars, row
<1> QED  BY Zenon, <1>1, <1>2, RequestWrites, WorkerWrites DEF Next

-----------------------------------------------------------------------------
(* Journals *)

\* JournalsMatchStatus for one transfer, case by case.
JournalsMatch(t) ==
    /\ status[t] = "NO_ROW" => journals[t] = {}
    /\ status[t] = "PENDING" => journals[t] = JournalTypes
    /\ status[t] \in OpenStatuses => journals[t] = {"TRANSFER_DEBIT"}
    /\ status[t] = "COMPLETED" =>
          journals[t] = {"TRANSFER_DEBIT", "TRANSFER_SETTLE"}
    /\ status[t] = "REVERSED" =>
          journals[t] = {"TRANSFER_DEBIT", "TRANSFER_REVERSAL"}

AllMatch == \A t \in Transfers : JournalsMatch(t)

\* JournalsMatchStatus, one case per status.
LEMMA JournalCases ==
    ASSUME StateTypeOK
    PROVE  JournalsMatchStatus <=> AllMatch
<1> SUFFICES ASSUME NEW t \in Transfers
             PROVE  JournalsMatch(t) <=> journals[t] =
                      CASE status[t] = "NO_ROW"       -> {}
                        [] status[t] \in OpenStatuses -> {"TRANSFER_DEBIT"}
                        [] status[t] = "COMPLETED"    ->
                             {"TRANSFER_DEBIT", "TRANSFER_SETTLE"}
                        [] status[t] = "REVERSED"     ->
                             {"TRANSFER_DEBIT", "TRANSFER_REVERSAL"}
                        [] OTHER                      -> JournalTypes
  BY Zenon DEF JournalsMatchStatus, AllMatch
<1>1. status[t] \in Statuses
  BY Zenon DEF StateTypeOK
<1> QED  BY Zenon, <1>1 DEF JournalsMatch, Statuses, OpenStatuses

\* A write keeps the journals of its transfer in step with its status.
LEMMA JournalStep ==
    ASSUME TypeOK, NEW t \in Transfers, JournalsMatch(t), Writes(t)
    PROVE  JournalsMatch(t)'
<1>t. /\ status \in [Transfers -> Statuses]
      /\ journals \in [Transfers -> SUBSET JournalTypes]
  BY Zenon DEF TypeOK, StateTypeOK, LedgerTypeOK
<1>1. CASE Debits(t)
  <2>1. journals'[t] = journals[t] \cup {"TRANSFER_DEBIT"}
    BY Zenon, <1>1, <1>t DEF Debits, PostDebit, PostJournal
  <2>2. status'[t] = "SOURCE_DEBITED" /\ journals[t] = {}
    BY Zenon, <1>1, <1>t DEF Debits, JournalsMatch
  <2> QED  BY Zenon, <2>1, <2>2 DEF JournalsMatch
<1>2. CASE MovesOn(t)
  <2>1. status'[t] \in OpenStatuses /\ journals'[t] = {"TRANSFER_DEBIT"}
    BY Zenon, <1>2, <1>t DEF MovesOn, JournalsMatch, ledger
  <2> QED  BY Zenon, <2>1 DEF JournalsMatch, OpenStatuses
<1>3. CASE Settles(t)
  <2>1. journals'[t] = journals[t] \cup {"TRANSFER_SETTLE"}
    BY Zenon, <1>3, <1>t DEF Settles, settle_transfer, PostJournal
  <2>2. status'[t] = "COMPLETED" /\ journals[t] = {"TRANSFER_DEBIT"}
    BY Zenon, <1>3, <1>t, OpenIsOpen DEF Settles, JournalsMatch
  <2> QED  BY Zenon, <2>1, <2>2 DEF JournalsMatch, OpenStatuses
<1>4. CASE Reverses(t)
  <2>1. journals'[t] = journals[t] \cup {"TRANSFER_REVERSAL"}
    BY Zenon, <1>4, <1>t DEF Reverses, reverse_transfer, PostJournal
  <2>2. status'[t] = "REVERSED" /\ journals[t] = {"TRANSFER_DEBIT"}
    BY Zenon, <1>4, <1>t, OpenIsOpen DEF Reverses, JournalsMatch
  <2> QED  BY Zenon, <2>1, <2>2 DEF JournalsMatch, OpenStatuses
<1> QED  BY Zenon, <1>1, <1>2, <1>3, <1>4 DEF Writes

\* A write concerns the status and the journals of one transfer.
LEMMA WriteFrame ==
    ASSUME TypeOK, NEW t \in Transfers, Writes(t), NEW u \in Transfers \ {t}
    PROVE  status'[u] = status[u] /\ journals'[u] = journals[u]
<1>t. /\ status \in [Transfers -> Statuses]
      /\ journals \in [Transfers -> SUBSET JournalTypes]
  BY Zenon DEF TypeOK, StateTypeOK, LedgerTypeOK
<1>1. \E s : status' = [status EXCEPT ![t] = s]
  BY Zenon DEF Writes, Debits, MovesOn, Settles, Reverses
<1>2. \/ UNCHANGED journals
      \/ \E type : PostJournal(t, type)
  BY Zenon
  DEF Writes, Debits, PostDebit, MovesOn, ledger, Settles, settle_transfer,
      Reverses, reverse_transfer
<1> QED  BY Zenon, <1>t, <1>1, <1>2 DEF PostJournal

\* post_journal and the status check under the row lock: a transfer is
\* debited once, and settled or reversed once and never both, whoever
\* resolves it.
THEOREM JournalsFollowStatus == Spec => []JournalsMatchStatus
<1>1. Init => AllMatch
  <2>1. ASSUME Init, NEW t \in Transfers
        PROVE  status[t] = "NO_ROW" /\ journals[t] = {}
    BY Zenon, <2>1 DEF Init
  <2> QED  BY Zenon, <2>1 DEF AllMatch, JournalsMatch, OpenStatuses
<1>2. ASSUME TypeOK, AllMatch, [Next]_vars PROVE AllMatch'
  <2> SUFFICES ASSUME NEW u \in Transfers PROVE JournalsMatch(u)'
    BY Zenon DEF AllMatch
  <2>t. \A t \in Transfers : JournalsMatch(t)
    BY Zenon, <1>2 DEF AllMatch
  <2>1. CASE UNCHANGED <<ledger, status>>
    BY Zenon, <2>t, <2>1 DEF ledger, JournalsMatch
  <2>2. ASSUME NEW t \in Transfers, Writes(t) PROVE JournalsMatch(u)'
    <3>1. CASE u = t
      BY Zenon, <1>2, <2>t, <2>2, <3>1, JournalStep
    <3>2. CASE u # t
      <4>1. status'[u] = status[u] /\ journals'[u] = journals[u]
        BY Zenon, <1>2, <2>2, <3>2, WriteFrame
      <4> QED  BY Zenon, <2>t, <4>1 DEF JournalsMatch
    <3> QED  BY Zenon, <3>1, <3>2
  <2> QED  BY Zenon, <1>2, <2>1, <2>2, LedgerStep
<1>3. TypeOK /\ AllMatch => JournalsMatchStatus
  BY Zenon, JournalCases DEF TypeOK
<1> QED  BY <1>1, <1>2, <1>3, TypeCorrect, PTL DEF Spec

-----------------------------------------------------------------------------
(* Balances *)

\* Concurrent debits never overdraw an account: only _debit_source takes
\* points from a user, and no more than it has seen there.
THEOREM NeverOverdrawn == Spec => []NoOverdraft
<1>1. Init => NoOverdraft
  BY SMTT(30), Z3T(30), RequestAssumption DEF Init, NoOverdraft
<1>2. ASSUME TypeOK, NoOverdraft, [Next]_vars PROVE NoOverdraft'
  <2> SUFFICES ASSUME NEW a \in Users \X Programs PROVE user_balance'[a] >= 0
    BY Zenon DEF NoOverdraft
  <2>t. user_balance \in [Users \X Programs -> Int] /\ user_balance[a] >= 0
    BY Zenon, <1>2 DEF NoOverdraft, TypeOK, LedgerTypeOK
  <2>1. CASE UNCHANGED <<ledger, status>>
    BY Zenon, <2>t, <2>1 DEF ledger
  <2>2. ASSUME NEW t \in Transfers, Writes(t) PROVE user_balance'[a] >= 0
    <3>1. CASE Debits(t)
      <4>1. /\ user_balance[SourceAccount(t)] >= Request[t].source_points
            /\ user_balance' = [user_balance EXCEPT ![SourceAccount(t)] =
                                  @ - Request[t].source_points]
        BY Zenon, <3>1 DEF Debits, PostDebit
      <4> QED  BY SMTT(30), Z3T(30), <2>t, <4>1, RequestType
    <3>2. CASE MovesOn(t)
      BY Zenon, <2>t, <3>2 DEF MovesOn, ledger
    <3>3. CASE Settles(t)
      <4>1. user_balance' = [user_balance EXCEPT ![DestinationAccount(t)] =
                               @ + Request[t].destination_points]
        BY Zenon, <3>3 DEF Settles, settle_transfer
      <4> QED  BY SMTT(30), Z3T(30), <2>t, <4>1, RequestType
    <3>4. CASE Reverses(t)
      <4>1. user_balance' = [user_balance EXCEPT ![SourceAccount(t)] =
                               @ + Request[t].source_points]
        BY Zenon, <3>4 DEF Reverses, reverse_transfer
      <4> QED  BY SMTT(30), Z3T(30), <2>t, <4>1, RequestType
    <3> QED  BY Zenon, <2>2, <3>1, <3>2, <3>3, <3>4 DEF Writes
  <2> QED  BY Zenon, <1>2, <2>1, <2>2, LedgerStep
<1> QED  BY <1>1, <1>2, TypeCorrect, PTL DEF Spec

-----------------------------------------------------------------------------
(* Keys *)

\* uq_transfers_user_idempotency_key: however many requests carry a key, and
\* whenever they run, one of them creates a transfer.
THEOREM KeyCreatesOne == Spec => []OneTransferPerKey
<1>1. Init => OneTransferPerKey
  <2>1. Init => \A t \in Transfers : status[t] = "NO_ROW"
    BY SMTT(30), Z3T(30) DEF Init
  <2> QED  BY Zenon, <2>1 DEF OneTransferPerKey
<1>2. ASSUME TypeOK, OneTransferPerKey, [Next]_vars PROVE OneTransferPerKey'
  <2>t. status \in [Transfers -> Statuses]
    BY Zenon, <1>2 DEF TypeOK, StateTypeOK
  <2>1. CASE UNCHANGED <<ledger, status>>
    BY Zenon, <1>2, <2>1 DEF OneTransferPerKey, SameKey
  <2>2. ASSUME NEW t \in Transfers, Writes(t) PROVE OneTransferPerKey'
    <3>1. CASE Debits(t)
      <4>1. /\ \A u \in Transfers : SameKey(t, u) => status[u] = "NO_ROW"
            /\ status' = [status EXCEPT ![t] = "SOURCE_DEBITED"]
        BY Zenon, <3>1 DEF Debits, Existing
      <4>2. \A u, v \in Transfers : SameKey(u, v) => SameKey(v, u)
        BY Zenon DEF SameKey
      <4> QED  BY Zenon, <1>2, <2>t, <4>1, <4>2 DEF OneTransferPerKey, SameKey
    <3>2. CASE MovesOn(t) \/ Settles(t) \/ Reverses(t)
      <4>1. status[t] # "NO_ROW" /\ \E s : status' = [status EXCEPT ![t] = s]
        BY Zenon, <3>2, OpenIsOpen
        DEF MovesOn, Settles, Reverses, OpenStatuses
      <4>2. \A u \in Transfers : status'[u] # "NO_ROW" => status[u] # "NO_ROW"
        BY Zenon, <2>t, <4>1
      <4> QED  BY Zenon, <1>2, <4>2 DEF OneTransferPerKey, SameKey
    <3> QED  BY Zenon, <2>2, <3>1, <3>2 DEF Writes
  <2> QED  BY Zenon, <1>2, <2>1, <2>2, LedgerStep
<1> QED  BY <1>1, <1>2, TypeCorrect, PTL DEF Spec

-----------------------------------------------------------------------------
(* Resolutions can be committed: ResolutionNeverRaises without ENABLED.    *)

\* The unique constraint and the state machine let t post `type` and move on.
CanResolve(t, type, to) ==
    type \notin journals[t] /\ can_transition(status[t], to)

CanSettle(t)  == CanResolve(t, "TRANSFER_SETTLE", "COMPLETED")
CanReverse(t) == CanResolve(t, "TRANSFER_REVERSAL", "REVERSED")

\* Every move along `path` is declared.
CanMove(t, path) ==
    path # <<>> => /\ can_transition(status[t], path[1])
                   /\ \A i \in 2 .. Len(path) :
                        can_transition(path[i - 1], path[i])

\* Each transaction that resolves a transfer, once it has checked the status
\* under the row lock: its journal is not posted yet and its moves are legal.
ResolutionIsLegal ==
    /\ \A t \in Transfers :
         pc[t] = "outcome" /\ status[t] = "PARTNER_SUBMITTED" =>
            /\ CanSettle(t) /\ CanReverse(t)
            /\ CanMove(t, <<"PENDING_VERIFICATION">>)
    /\ \A w \in Workers : LET t == task[w].transfer IN
         /\ task[w].stage = "reversing" /\ status[t] = "SOURCE_DEBITED" =>
              CanReverse(t)
         /\ task[w].stage = "applying" /\ status[t] \in VERIFIABLE =>
              /\ CanSettle(t) /\ CanReverse(t)
              /\ CanMove(t, Verifying(t, <<>>))
              /\ CanMove(t, Verifying(t, <<"MANUAL_REVIEW">>))

\* Each status a resolution starts from has the debit as its only journal,
\* and the moves of every resolution declared.
LEMMA ResolvableRow ==
  ASSUME JournalsMatchStatus, NEW t \in Transfers
  PROVE  /\ status[t] = "SOURCE_DEBITED" => CanReverse(t)
         /\ status[t] \in VERIFIABLE => CanSettle(t) /\ CanReverse(t)
         /\ status[t] = "PARTNER_SUBMITTED" =>
              CanMove(t, <<"PENDING_VERIFICATION">>)
         /\ status[t] \in VERIFIABLE =>
              /\ CanMove(t, Verifying(t, <<>>))
              /\ CanMove(t, Verifying(t, <<"MANUAL_REVIEW">>))
<1>1. ASSUME status[t] \in VERIFIABLE \cup {"SOURCE_DEBITED"}
      PROVE  journals[t] = {"TRANSFER_DEBIT"}
  BY Zenon, <1>1 DEF JournalsMatchStatus, OpenStatuses, VERIFIABLE
<1>2. /\ can_transition("SOURCE_DEBITED", "REVERSED")
      /\ \A to \in {"COMPLETED", "REVERSED", "PENDING_VERIFICATION"} :
           can_transition("PARTNER_SUBMITTED", to)
      /\ \A to \in {"COMPLETED", "REVERSED", "MANUAL_REVIEW"} :
           can_transition("PENDING_VERIFICATION", to)
  BY Zenon DEF can_transition, ALLOWED_TRANSITIONS, Statuses
<1>3. /\ status[t] = "SOURCE_DEBITED" => CanReverse(t)
      /\ status[t] \in VERIFIABLE => CanSettle(t) /\ CanReverse(t)
  BY Zenon, <1>1, <1>2 DEF CanReverse, CanSettle, CanResolve, VERIFIABLE
<1>4. CASE status[t] = "PARTNER_SUBMITTED"
  <2> DEFINE path == <<"PENDING_VERIFICATION">> \o <<"MANUAL_REVIEW">>
  <2>1. Verifying(t, <<>>) = <<"PENDING_VERIFICATION">>
    BY SMTT(30), Z3T(30), <1>4 DEF Verifying
  <2>2. Verifying(t, <<"MANUAL_REVIEW">>) = path
    BY Zenon, <1>4 DEF Verifying
  <2>3. CanMove(t, <<"PENDING_VERIFICATION">>)
    BY SMTT(30), Z3T(30), <1>2, <1>4 DEF CanMove
  <2>4. /\ path[1] = "PENDING_VERIFICATION" /\ path[2] = "MANUAL_REVIEW"
        /\ Len(path) = 2
    BY SMTT(30), Z3T(30)
  <2> HIDE DEF path
  <2>5. can_transition(status[t], path[1]) /\ can_transition(path[1], path[2])
    BY Zenon, <1>2, <1>4, <2>4
  <2>6. \A i \in 2 .. Len(path) : can_transition(path[i - 1], path[i])
    BY SMTT(30), Z3T(30), <2>4, <2>5
  <2>7. CanMove(t, path)
    BY Zenon, <2>5, <2>6 DEF CanMove
  <2> QED  BY <1>3, <1>4, <2>1, <2>2, <2>3, <2>7
<1>5. CASE status[t] = "PENDING_VERIFICATION"
  <2>1. /\ Verifying(t, <<>>) = <<>>
        /\ Verifying(t, <<"MANUAL_REVIEW">>) = <<"MANUAL_REVIEW">>
    BY SMTT(30), Z3T(30), <1>5 DEF Verifying
  <2>2. CanMove(t, <<>>) /\ CanMove(t, <<"MANUAL_REVIEW">>)
    BY SMTT(30), Z3T(30), <1>2, <1>5 DEF CanMove
  <2> QED  BY Zenon, <1>3, <1>5, <2>1, <2>2
<1> QED  BY <1>3, <1>4, <1>5 DEF VERIFIABLE

\* Whatever another actor did since a request or a reconciler decided what to
\* do, the transaction that resolves the transfer neither raises
\* InvalidStateTransitionError nor meets the unique journal constraint
\* (transition, post_journal).
THEOREM ResolutionsAreLegal == Spec => []ResolutionIsLegal
<1>1. ASSUME TypeOK, JournalsMatchStatus  PROVE ResolutionIsLegal
  <2>1. ASSUME NEW t \in Transfers, status[t] = "PARTNER_SUBMITTED"
        PROVE  /\ CanSettle(t) /\ CanReverse(t)
               /\ CanMove(t, <<"PENDING_VERIFICATION">>)
    BY Zenon, <1>1, <2>1, ResolvableRow DEF VERIFIABLE
  <2>2. ASSUME NEW w \in Workers, task[w].stage # "idle"
        PROVE  task[w].transfer \in Transfers
    BY Zenon, <1>1, <2>2 DEF TypeOK, WorkerTypeOK
  <2>3. "reversing" # "idle" /\ "applying" # "idle"
    OBVIOUS
  <2>4. ASSUME NEW w \in Workers, task[w].stage = "reversing",
               status[task[w].transfer] = "SOURCE_DEBITED"
        PROVE  CanReverse(task[w].transfer)
    BY Zenon, <1>1, <2>2, <2>3, <2>4, ResolvableRow
  <2>5. ASSUME NEW w \in Workers, task[w].stage = "applying",
               status[task[w].transfer] \in VERIFIABLE
        PROVE  LET t == task[w].transfer IN
               /\ CanSettle(t) /\ CanReverse(t)
               /\ CanMove(t, Verifying(t, <<>>))
               /\ CanMove(t, Verifying(t, <<"MANUAL_REVIEW">>))
    BY Zenon, <1>1, <2>2, <2>3, <2>5, ResolvableRow
  <2> QED  BY Zenon, <2>1, <2>4, <2>5 DEF ResolutionIsLegal
<1> QED  BY <1>1, TypeCorrect, JournalsFollowStatus, PTL
-----------------------------------------------------------------------------
(* Failure codes *)

ReversalCodes == FailureCodes \ {"VERIFICATION_EXHAUSTED"}

\* The failure code of a row tells its status, and the other way round.
CodeFits(t) ==
    /\ failure_code[t] \in ReversalCodes <=> status[t] = "REVERSED"
    /\ failure_code[t] = "VERIFICATION_EXHAUSTED"
         <=> status[t] = "MANUAL_REVIEW"

CodeInv == \A t \in Transfers : CodeFits(t)

\* A step writes at most the row of t, and leaves it with the code it needs.
Codes(t) ==
    /\ \A u \in Transfers \ {t} :
         status'[u] = status[u] /\ failure_code'[u] = failure_code[u]
    /\ CodeFits(t)'

\* A row that goes on, or is settled, has no code before and after.
LEMMA NoCodeYet ==
    ASSUME TypeOK, NEW t \in Transfers, CodeFits(t),
           status[t] \notin {"REVERSED", "MANUAL_REVIEW"},
           NEW s \in Statuses \ {"REVERSED", "MANUAL_REVIEW"},
           status' = [status EXCEPT ![t] = s], UNCHANGED failure_code
    PROVE  Codes(t)
  BY Zenon DEF TypeOK, StateTypeOK, CodeFits, Codes

\* settle_transfer and reverse_transfer write the status with its code.
LEMMA ResolutionCodes ==
    ASSUME TypeOK, NEW t \in Transfers, CodeFits(t),
           \/ settle_transfer(t)
           \/ \E code \in ReversalCodes : reverse_transfer(t, code)
    PROVE  Codes(t)
<1>t. /\ status \in [Transfers -> Statuses] /\ StateTypeOK
      /\ failure_code \in [Transfers -> FailureCodes \cup {NoCode}]
  BY Zenon DEF TypeOK, StateTypeOK, RowTypeOK
<1>1. CASE settle_transfer(t)
  <2>1. /\ status[t] \notin {"REVERSED", "MANUAL_REVIEW"}
        /\ status' = [status EXCEPT ![t] = "COMPLETED"]
        /\ UNCHANGED failure_code
    BY Zenon, <1>1, <1>t, SettleMove DEF settle_transfer, VERIFIABLE
  <2>2. "COMPLETED" \in Statuses \ {"REVERSED", "MANUAL_REVIEW"}
    BY Zenon DEF Statuses
  <2> QED  BY Zenon, <2>1, <2>2, NoCodeYet
<1>2. ASSUME NEW code \in ReversalCodes, reverse_transfer(t, code)
      PROVE  Codes(t)
  <2>1. /\ status' = [status EXCEPT ![t] = "REVERSED"]
        /\ failure_code' = [failure_code EXCEPT ![t] = code]
    BY Zenon, <1>2, <1>t, ReverseMove DEF reverse_transfer
  <2>2. status'[t] = "REVERSED" /\ failure_code'[t] = code
    BY Zenon, <1>t, <2>1
  <2>3. CodeFits(t)'
    BY Zenon, <2>2 DEF CodeFits, ReversalCodes
  <2> QED  BY Zenon, <1>t, <2>1, <2>3 DEF Codes
<1> QED  BY Zenon, <1>1, <1>2

\* An inconclusive answer leaves the row without a code, or escalates it with
\* VERIFICATION_EXHAUSTED.
LEMMA CheckCodes ==
    ASSUME TypeOK, NEW t \in Transfers, CodeFits(t),
           status[t] \in VERIFIABLE, NEW moment,
           \/ HoldForVerification(t)
           \/ RecheckAfterGrace(t, moment) \/ RetryOrEscalate(t, moment)
    PROVE  Codes(t)
<1>t. /\ status \in [Transfers -> Statuses] /\ StateTypeOK
      /\ failure_code \in [Transfers -> FailureCodes \cup {NoCode}]
  BY Zenon DEF TypeOK, StateTypeOK, RowTypeOK
<1>p. /\ "PENDING_VERIFICATION" \in Statuses \ {"REVERSED", "MANUAL_REVIEW"}
      /\ status[t] \notin {"REVERSED", "MANUAL_REVIEW"}
  BY Zenon DEF Statuses, VERIFIABLE
<1>w. ASSUME status' = [status EXCEPT ![t] = "PENDING_VERIFICATION"],
             UNCHANGED failure_code
      PROVE  Codes(t)
  BY Zenon, <1>p, <1>w, NoCodeYet
<1>1. ASSUME MoveAlong(t, Verifying(t, <<>>)), UNCHANGED failure_code
      PROVE  Codes(t)
  <2>1. status' = [status EXCEPT ![t] = "PENDING_VERIFICATION"]
    BY Zenon, <1>t, <1>1, VerifyingMove
  <2> QED  BY Zenon, <1>w, <1>1, <2>1
<1>2. ASSUME MoveAlong(t, Verifying(t, <<"MANUAL_REVIEW">>)),
             failure_code' =
               [failure_code EXCEPT ![t] = "VERIFICATION_EXHAUSTED"]
      PROVE  Codes(t)
  <2>1. <<"MANUAL_REVIEW">> # <<>>
    OBVIOUS
  <2>2. status' = [status EXCEPT ![t] = "MANUAL_REVIEW"]
    BY Zenon, <1>t, <1>2, <2>1, VerifyingMove
  <2>3. /\ status'[t] = "MANUAL_REVIEW"
        /\ failure_code'[t] = "VERIFICATION_EXHAUSTED"
    BY Zenon, <1>t, <1>2, <2>2
  <2>4. CodeFits(t)'
    BY Zenon, <2>3 DEF CodeFits, ReversalCodes
  <2> QED  BY Zenon, <1>t, <1>2, <2>2, <2>4 DEF Codes
<1>3. CASE HoldForVerification(t)
  <2>1. status' = [status EXCEPT ![t] = "PENDING_VERIFICATION"]
    BY Zenon, <1>p, <1>3, SingleMove DEF HoldForVerification
  <2> QED  BY Zenon, <1>w, <1>3, <2>1 DEF HoldForVerification
<1>4. CASE RecheckAfterGrace(t, moment)
  BY Zenon, <1>1, <1>4 DEF RecheckAfterGrace
<1>5. CASE RetryOrEscalate(t, moment)
  BY Zenon, <1>1, <1>2, <1>5 DEF RetryOrEscalate
<1> QED  BY Zenon, <1>3, <1>4, <1>5

\* A request writes no code but with the status it stands for.
LEMMA RequestCodes ==
    ASSUME TypeOK, NEW t \in Transfers, CodeFits(t),
           \/ Refuse(t) \/ DebitSource(t) \/ ReturnExisting(t)
           \/ RequestStep(t) \/ Interrupted(t) \/ PartnerApplies(t)
    PROVE  UNCHANGED <<status, failure_code>> \/ Codes(t)
<1>t. status[t] \in Statuses
  BY Zenon DEF TypeOK, StateTypeOK
<1>s. {"SOURCE_DEBITED", "PARTNER_SUBMITTED"}
        \subseteq Statuses \ {"REVERSED", "MANUAL_REVIEW"}
  BY Zenon DEF Statuses
<1>1. CASE DebitSource(t)
  <2>1. /\ status[t] = "NO_ROW" /\ UNCHANGED failure_code
        /\ status' = [status EXCEPT ![t] = "SOURCE_DEBITED"]
    BY Zenon, <1>t, <1>1, CreationMove, MovesInto DEF DebitSource
  <2> QED  BY Zenon, <1>s, <2>1, NoCodeYet
<1>2. CASE MarkSubmitted(t)
  <2>1. /\ status[t] = "SOURCE_DEBITED" /\ UNCHANGED failure_code
        /\ status' = [status EXCEPT ![t] = "PARTNER_SUBMITTED"]
    BY Zenon, <1>t, <1>s, <1>2, SingleMove, MovesInto DEF MarkSubmitted
  <2> QED  BY Zenon, <1>s, <2>1, NoCodeYet
<1>3. CASE ApplyPartnerOutcome(t)
  <2>1. {"PARTNER_REJECTED", "PARTNER_UNAVAILABLE"} \subseteq ReversalCodes
    BY Zenon DEF FailureCodes, ReversalCodes
  <2>2. "PARTNER_SUBMITTED" \in VERIFIABLE
    BY Zenon DEF VERIFIABLE
  <2>3. \/ UNCHANGED <<status, failure_code>>
        \/ settle_transfer(t)
        \/ reverse_transfer(t, "PARTNER_REJECTED")
        \/ reverse_transfer(t, "PARTNER_UNAVAILABLE")
        \/ status[t] \in VERIFIABLE /\ HoldForVerification(t)
    BY Zenon, <1>3, <2>2 DEF ApplyPartnerOutcome, row
  <2> QED  BY Zenon, <2>1, <2>3, ResolutionCodes, CheckCodes
<1>4. CASE \/ Refuse(t) \/ ReturnExisting(t) \/ Interrupted(t)
           \/ StartCall(t) \/ CircuitOpen(t) \/ DeadlineExceeded(t)
           \/ SendAttempt(t) \/ AttemptSucceeded(t) \/ AttemptRejected(t)
           \/ AttemptNotSent(t) \/ AttemptUnknown(t) \/ PartnerApplies(t)
  BY Zenon, <1>4
  DEF Refuse, ReturnExisting, Interrupted, StartCall, CircuitOpen,
      DeadlineExceeded, SendAttempt, AttemptSucceeded, AttemptRejected,
      AttemptNotSent, AttemptUnknown, AttemptEnds, PartnerApplies, row
<1> QED  BY Zenon, <1>1, <1>2, <1>3, <1>4 DEF RequestStep

\* So does a reconciler.
LEMMA WorkerCodes ==
    ASSUME TypeOK, CodeInv, NEW w \in Workers,
           \/ ClaimDue(w) \/ ReconcileNext(w) \/ AdminReconcile(w)
           \/ RoundFails(w) \/ ReverseInterrupted(w) \/ PartnerReplies(w)
           \/ StatusKnown(w) \/ Apply(w)
    PROVE  \/ UNCHANGED <<status, failure_code>>
           \/ \E t \in Transfers : Codes(t)
<1>r. {"TRANSFER_INTERRUPTED", "PARTNER_NOT_RECEIVED"} \subseteq ReversalCodes
  BY Zenon DEF FailureCodes, ReversalCodes
<1>1. CASE ReverseInterrupted(w)
  <2>1. task[w].transfer \in Transfers
    BY Zenon, <1>1 DEF ReverseInterrupted, TypeOK, WorkerTypeOK
  <2>2. \/ UNCHANGED <<status, failure_code>>
        \/ reverse_transfer(task[w].transfer, "TRANSFER_INTERRUPTED")
    BY Zenon, <1>1 DEF ReverseInterrupted, row
  <2> QED  BY Zenon, <1>r, <2>1, <2>2, ResolutionCodes DEF CodeInv
<1>2. CASE Apply(w)
  <2> DEFINE t == task[w].transfer
             moment == task[w].since
  <2>1. t \in Transfers
    BY Zenon, <1>2 DEF Apply, TypeOK, WorkerTypeOK
  <2>2. \/ UNCHANGED <<status, failure_code>>
        \/ settle_transfer(t)
        \/ reverse_transfer(t, "PARTNER_NOT_RECEIVED")
        \/ /\ status[t] \in VERIFIABLE
           /\ RecheckAfterGrace(t, moment) \/ RetryOrEscalate(t, moment)
    BY Zenon, <1>2 DEF Apply, row
  <2> HIDE DEF t, moment
  <2> QED  BY Zenon, <1>r, <2>1, <2>2, ResolutionCodes, CheckCodes DEF CodeInv
<1>3. CASE \/ ClaimDue(w) \/ ReconcileNext(w) \/ AdminReconcile(w)
           \/ RoundFails(w) \/ PartnerReplies(w) \/ StatusKnown(w)
  BY Zenon, <1>3
  DEF ClaimDue, ReconcileNext, AdminReconcile, RoundFails, PartnerReplies,
      StatusKnown, row
<1> QED  BY Zenon, <1>1, <1>2, <1>3

\* A failure code and the status it explains are written together: a row has
\* one of the reversal codes exactly if it is REVERSED, and
\* VERIFICATION_EXHAUSTED exactly if an operator has it (reverse_transfer,
\* _retry_or_escalate).
THEOREM CodesTellStatus == Spec => []CodeInv
<1>1. Init => CodeInv
  BY Zenon DEF Init, CodeInv, CodeFits, ReversalCodes, FailureCodes, NoCode
<1>2. ASSUME TypeOK, CodeInv, [Next]_vars  PROVE CodeInv'
  <2>1. ASSUME UNCHANGED <<status, failure_code>>  PROVE CodeInv'
    BY Zenon, <1>2, <2>1 DEF CodeInv, CodeFits
  <2>2. ASSUME NEW t \in Transfers, Codes(t)  PROVE CodeInv'
    BY Zenon, <1>2, <2>2 DEF CodeInv, CodeFits, Codes
  <2>3. CASE Tick
    BY Zenon, <2>1, <2>3 DEF Tick, row
  <2>4. CASE UNCHANGED vars
    BY Zenon, <2>1, <2>4 DEF vars, row
  <2>5. ASSUME NEW t \in Transfers,
               \/ Refuse(t) \/ DebitSource(t) \/ ReturnExisting(t)
               \/ RequestStep(t) \/ Interrupted(t) \/ PartnerApplies(t)
        PROVE  CodeInv'
    BY Zenon, <1>2, <2>1, <2>2, <2>5, RequestCodes DEF CodeInv
  <2> QED  BY Zenon, <1>2, <2>1, <2>2, <2>3, <2>4, <2>5, WorkerCodes DEF Next
<1> QED  BY <1>1, <1>2, TypeCorrect, PTL DEF Spec

\* With a grace that covers what may be in flight, PARTNER_NOT_RECEIVED is the
\* truth for ever: what the validator in app/config.py would have to compare
\* for the NOT_FOUND branch of _apply to be decisive.
THEOREM NotReceivedStaysTrue ==
    ASSUME GraceCoversInFlight, RejectIsFinal
    PROVE  Spec => []NotReceivedIsFinal
<1>1. ASSUME PartnerAgreement, CodeInv  PROVE NotReceivedIsFinal
  <2>1. "PARTNER_NOT_RECEIVED" \in ReversalCodes
    BY Zenon DEF ReversalCodes, FailureCodes
  <2> QED  BY Zenon, <1>1, <2>1
           DEF PartnerAgreement, CodeInv, CodeFits, NotReceivedIsFinal
<1>2. Spec => []PartnerAgreement
  BY AgreementHolds
<1> QED  BY <1>1, <1>2, CodesTellStatus, PTL

-----------------------------------------------------------------------------
(* The trail of events *)

\* A step writes at most the row of t, and leaves it with its trail.
Trails(t) ==
    /\ \A u \in Transfers \ {t} :
         /\ status'[u] = status[u] /\ events'[u] = events[u]
         /\ failure_code'[u] = failure_code[u]
    /\ TrailFits(t)'

Recorded == <<status, failure_code, events>>

\* transition() adds one event, of the row it moves.
LEMMA EventAdded ==
    ASSUME TypeOK, NEW t \in Transfers, NEW s \in Statuses, Transition(t, <<s>>)
    PROVE  /\ can_transition(status[t], s)
           /\ status'[t] = s /\ events'[t] = events[t] \o <<s>>
           /\ \A u \in Transfers \ {t} :
                status'[u] = status[u] /\ events'[u] = events[u]
<1>1. status' = [status EXCEPT ![t] = s] /\ can_transition(status[t], s)
  BY Zenon, SingleMove
<1>2. events' = [events EXCEPT ![t] = @ \o <<s>>]
  BY Zenon DEF Transition
<1> QED  BY Zenon, <1>1, <1>2 DEF TypeOK, StateTypeOK

\* The codes under which a row may be written.
LEMMA CodeFrame ==
    ASSUME TypeOK, NEW t \in Transfers, NEW code,
           failure_code' = [failure_code EXCEPT ![t] = code]
    PROVE  /\ failure_code'[t] = code
           /\ \A u \in Transfers \ {t} : failure_code'[u] = failure_code[u]
  BY Zenon DEF TypeOK, RowTypeOK

\* A settled row, by the way it came.
LEMMA SettleTrails ==
    ASSUME TypeOK, NEW t \in Transfers, TrailFits(t), settle_transfer(t)
    PROVE  Trails(t)
<1>1. Transition(t, <<"COMPLETED">>) /\ UNCHANGED failure_code
      /\ status[t] \in VERIFIABLE
  BY Zenon, SettleMove DEF settle_transfer, TypeOK
<1>2. "COMPLETED" \in Statuses
  BY Zenon DEF Statuses
<1>3. /\ status'[t] = "COMPLETED" /\ events'[t] = events[t] \o <<"COMPLETED">>
      /\ \A u \in Transfers \ {t} :
           status'[u] = status[u] /\ events'[u] = events[u]
  BY Zenon, <1>1, <1>2, EventAdded
<1>4. events[t] \in {Submitted, Verified}
  BY Zenon, <1>1 DEF TrailFits, VERIFIABLE
<1>5. TrailFits(t)'
  BY Zenon, <1>3, <1>4 DEF TrailFits
<1> QED  BY Zenon, <1>1, <1>3, <1>5 DEF Trails

\* The codes of reverse_transfer tell the ways apart.
LEMMA ReverseTrails ==
    ASSUME TypeOK, NEW t \in Transfers, TrailFits(t), NEW code,
           reverse_transfer(t, code),
           \/ code = "TRANSFER_INTERRUPTED" /\ status[t] = "SOURCE_DEBITED"
           \/ code = "PARTNER_NOT_RECEIVED" /\ status[t] \in VERIFIABLE
           \/ /\ code \in {"PARTNER_REJECTED", "PARTNER_UNAVAILABLE"}
              /\ status[t] = "PARTNER_SUBMITTED"
    PROVE  Trails(t)
<1>1. /\ Transition(t, <<"REVERSED">>)
      /\ failure_code' = [failure_code EXCEPT ![t] = code]
  BY Zenon DEF reverse_transfer
<1>2. "REVERSED" \in Statuses
  BY Zenon DEF Statuses
<1>3. /\ status'[t] = "REVERSED" /\ events'[t] = events[t] \o <<"REVERSED">>
      /\ \A u \in Transfers \ {t} :
           status'[u] = status[u] /\ events'[u] = events[u]
  BY Zenon, <1>1, <1>2, EventAdded
<1>4. /\ failure_code'[t] = code
      /\ \A u \in Transfers \ {t} : failure_code'[u] = failure_code[u]
  BY Zenon, <1>1, CodeFrame
<1> DEFINE ways == CASE code = "TRANSFER_INTERRUPTED" -> {Debited}
                     [] code = "PARTNER_NOT_RECEIVED" -> {Submitted, Verified}
                     [] OTHER -> {Submitted}
<1>5. events[t] \in ways
  <2>1. CASE code = "TRANSFER_INTERRUPTED" /\ status[t] = "SOURCE_DEBITED"
    BY Zenon, <2>1 DEF TrailFits
  <2>2. CASE code = "PARTNER_NOT_RECEIVED" /\ status[t] \in VERIFIABLE
    BY Zenon, <2>2 DEF TrailFits, VERIFIABLE
  <2>3. CASE /\ code \in {"PARTNER_REJECTED", "PARTNER_UNAVAILABLE"}
             /\ status[t] = "PARTNER_SUBMITTED"
    BY Zenon, <2>3 DEF TrailFits
  <2> QED  BY Zenon, <2>1, <2>2, <2>3
<1>6. TrailFits(t)'
  BY Zenon, <1>3, <1>4, <1>5 DEF TrailFits
<1> QED  BY Zenon, <1>3, <1>4, <1>6 DEF Trails

\* A check without result records the verification it was, once.
LEMMA VerifyingTrail ==
    ASSUME TypeOK, NEW t \in Transfers, TrailFits(t), status[t] \in VERIFIABLE,
           NEW to \in {<<>>, <<"MANUAL_REVIEW">>},
           MoveAlong(t, Verifying(t, to))
    PROVE  /\ \A u \in Transfers \ {t} :
                status'[u] = status[u] /\ events'[u] = events[u]
           /\ status'[t] = IF to = <<>> THEN "PENDING_VERIFICATION"
                           ELSE "MANUAL_REVIEW"
           /\ events'[t] = IF to = <<>> THEN Verified ELSE Verified \o to
<1>n. <<"MANUAL_REVIEW">> # <<>>
  OBVIOUS
<1>s. {"PENDING_VERIFICATION", "MANUAL_REVIEW"} \subseteq Statuses
  BY Zenon DEF Statuses
<1>1. CASE status[t] = "PENDING_VERIFICATION" /\ to = <<>>
  <2>1. Verifying(t, to) = <<>>
    BY SMTT(30), Z3T(30), <1>1 DEF Verifying
  <2>2. UNCHANGED <<status, events>>
    BY Zenon, <2>1 DEF MoveAlong
  <2> QED  BY Zenon, <1>1, <2>2 DEF TrailFits
<1>2. CASE status[t] = "PENDING_VERIFICATION" /\ to = <<"MANUAL_REVIEW">>
  <2>1. Verifying(t, to) = <<"MANUAL_REVIEW">>
    BY SMTT(30), Z3T(30), <1>2 DEF Verifying
  <2>2. Transition(t, <<"MANUAL_REVIEW">>)
    BY Zenon, <1>n, <2>1 DEF MoveAlong
  <2>3. events[t] = Verified
    BY Zenon, <1>2 DEF TrailFits
  <2> QED  BY Zenon, <1>n, <1>s, <1>2, <2>2, <2>3, EventAdded
<1>3. CASE status[t] = "PARTNER_SUBMITTED" /\ to = <<>>
  <2>1. Verifying(t, to) = <<"PENDING_VERIFICATION">>
    BY SMTT(30), Z3T(30), <1>3 DEF Verifying
  <2>2. <<"PENDING_VERIFICATION">> # <<>>
    OBVIOUS
  <2>3. Transition(t, <<"PENDING_VERIFICATION">>)
    BY Zenon, <2>1, <2>2 DEF MoveAlong
  <2>4. events[t] \o <<"PENDING_VERIFICATION">> = Verified
    BY Zenon, <1>3 DEF TrailFits, Verified
  <2> QED  BY Zenon, <1>s, <1>3, <2>3, <2>4, EventAdded
<1>4. CASE status[t] = "PARTNER_SUBMITTED" /\ to = <<"MANUAL_REVIEW">>
  <2> DEFINE path == <<"PENDING_VERIFICATION">> \o <<"MANUAL_REVIEW">>
  <2>1. Verifying(t, to) = path
    BY Zenon, <1>4 DEF Verifying
  <2>2. Len(path) = 2 /\ path[2] = "MANUAL_REVIEW" /\ path # <<>>
    OBVIOUS
  <2>3. Submitted \o path = Verified \o <<"MANUAL_REVIEW">>
    BY SMTT(30), Z3T(30) DEF Verified, Submitted, Debited
  <2>4. Transition(t, path)
    BY Zenon, <2>1, <2>2 DEF MoveAlong
  <2> HIDE DEF path
  <2>5. /\ status' = [status EXCEPT ![t] = "MANUAL_REVIEW"]
        /\ events' = [events EXCEPT ![t] = @ \o path]
    BY Zenon, <2>2, <2>4 DEF Transition
  <2>6. events[t] = Submitted
    BY Zenon, <1>4 DEF TrailFits
  <2> QED  BY Zenon, <1>n, <1>4, <2>3, <2>5, <2>6 DEF TypeOK, StateTypeOK
<1> QED  BY Zenon, <1>1, <1>2, <1>3, <1>4 DEF VERIFIABLE

\* Holding, rechecking and escalating leave the row with its trail.
LEMMA CheckTrails ==
    ASSUME TypeOK, NEW t \in Transfers, TrailFits(t),
           status[t] \in VERIFIABLE, NEW moment,
           \/ HoldForVerification(t)
           \/ RecheckAfterGrace(t, moment) \/ RetryOrEscalate(t, moment)
    PROVE  Trails(t)
<1>n. <<"MANUAL_REVIEW">> # <<>>
  OBVIOUS
<1>1. ASSUME MoveAlong(t, Verifying(t, <<>>)), UNCHANGED failure_code
      PROVE  Trails(t)
  <2>1. /\ status'[t] = "PENDING_VERIFICATION" /\ events'[t] = Verified
        /\ \A u \in Transfers \ {t} :
             status'[u] = status[u] /\ events'[u] = events[u]
    BY Zenon, <1>1, VerifyingTrail
  <2>2. TrailFits(t)'
    BY Zenon, <2>1 DEF TrailFits
  <2> QED  BY Zenon, <1>1, <2>1, <2>2 DEF Trails
<1>2. ASSUME MoveAlong(t, Verifying(t, <<"MANUAL_REVIEW">>)),
             failure_code' =
               [failure_code EXCEPT ![t] = "VERIFICATION_EXHAUSTED"]
      PROVE  Trails(t)
  <2>1. /\ status'[t] = "MANUAL_REVIEW"
        /\ events'[t] = Verified \o <<"MANUAL_REVIEW">>
        /\ \A u \in Transfers \ {t} :
             status'[u] = status[u] /\ events'[u] = events[u]
    BY Zenon, <1>n, <1>2, VerifyingTrail
  <2>2. TrailFits(t)'
    BY Zenon, <2>1 DEF TrailFits
  <2> QED  BY Zenon, <1>2, <2>1, <2>2, CodeFrame DEF Trails
<1>3. CASE HoldForVerification(t)
  <2>1. "PENDING_VERIFICATION" \in Statuses /\ status[t] \in Statuses
    BY Zenon DEF Statuses, TypeOK, StateTypeOK
  <2>2. Transition(t, <<"PENDING_VERIFICATION">>) /\ UNCHANGED failure_code
    BY Zenon, <1>3 DEF HoldForVerification
  <2>3. status[t] = "PARTNER_SUBMITTED"
    BY Zenon, <2>1, <2>2, EventAdded, MovesInto
  <2>4. /\ status'[t] = "PENDING_VERIFICATION"
        /\ events'[t] = events[t] \o <<"PENDING_VERIFICATION">>
        /\ \A u \in Transfers \ {t} :
             status'[u] = status[u] /\ events'[u] = events[u]
    BY Zenon, <2>1, <2>2, EventAdded
  <2>5. events'[t] = Verified
    BY Zenon, <2>3, <2>4 DEF TrailFits, Verified
  <2>6. TrailFits(t)'
    BY Zenon, <2>4, <2>5 DEF TrailFits
  <2> QED  BY Zenon, <2>2, <2>4, <2>6 DEF Trails
<1>4. CASE RecheckAfterGrace(t, moment)
  BY Zenon, <1>1, <1>4 DEF RecheckAfterGrace
<1>5. CASE RetryOrEscalate(t, moment)
  BY Zenon, <1>1, <1>2, <1>5 DEF RetryOrEscalate
<1> QED  BY Zenon, <1>3, <1>4, <1>5

\* A request records what it does.
LEMMA RequestTrails ==
    ASSUME TypeOK, NEW t \in Transfers, TrailFits(t),
           \/ Refuse(t) \/ DebitSource(t) \/ ReturnExisting(t)
           \/ RequestStep(t) \/ Interrupted(t) \/ PartnerApplies(t)
    PROVE  UNCHANGED Recorded \/ Trails(t)
<1>t. status[t] \in Statuses /\ StateTypeOK /\ "PARTNER_SUBMITTED" \in Statuses
  BY Zenon DEF TypeOK, StateTypeOK, Statuses
<1>1. CASE DebitSource(t)
  <2>1. Transition(t, Debited) /\ UNCHANGED failure_code
    BY Zenon, <1>1 DEF DebitSource, Debited
  <2>2. /\ status[t] = "NO_ROW"
        /\ status' = [status EXCEPT ![t] = "SOURCE_DEBITED"]
    BY Zenon, <1>t, <1>1, CreationMove, MovesInto DEF DebitSource
  <2>3. events' = [events EXCEPT ![t] = @ \o Debited] /\ events[t] = <<>>
    BY Zenon, <2>1, <2>2 DEF Transition, TrailFits
  <2>4. <<>> \o Debited = Debited
    BY SMTT(30), Z3T(30) DEF Debited
  <2>5. /\ status'[t] = "SOURCE_DEBITED" /\ events'[t] = Debited
        /\ \A u \in Transfers \ {t} :
             status'[u] = status[u] /\ events'[u] = events[u]
    BY Zenon, <1>t, <2>2, <2>3, <2>4 DEF StateTypeOK
  <2>6. TrailFits(t)'
    BY Zenon, <2>5 DEF TrailFits
  <2> QED  BY Zenon, <2>1, <2>5, <2>6 DEF Trails
<1>2. CASE MarkSubmitted(t)
  <2>1. Transition(t, <<"PARTNER_SUBMITTED">>) /\ UNCHANGED failure_code
    BY Zenon, <1>2 DEF MarkSubmitted
  <2>2. /\ can_transition(status[t], "PARTNER_SUBMITTED")
        /\ status'[t] = "PARTNER_SUBMITTED"
        /\ events'[t] = events[t] \o <<"PARTNER_SUBMITTED">>
        /\ \A u \in Transfers \ {t} :
             status'[u] = status[u] /\ events'[u] = events[u]
    BY Zenon, <1>t, <2>1, EventAdded
  <2>3. status[t] = "SOURCE_DEBITED"
    BY Zenon, <1>t, <2>2, MovesInto
  <2>4. events'[t] = Submitted
    BY Zenon, <2>2, <2>3 DEF TrailFits, Submitted
  <2>5. TrailFits(t)'
    BY Zenon, <2>2, <2>4 DEF TrailFits
  <2> QED  BY Zenon, <2>1, <2>2, <2>5 DEF Trails
<1>3. CASE ApplyPartnerOutcome(t)
  <2>1. \/ UNCHANGED Recorded
        \/ settle_transfer(t)
        \/ /\ status[t] = "PARTNER_SUBMITTED"
           /\ \/ reverse_transfer(t, "PARTNER_REJECTED")
              \/ reverse_transfer(t, "PARTNER_UNAVAILABLE")
              \/ HoldForVerification(t)
    BY Zenon, <1>3 DEF ApplyPartnerOutcome, row, Recorded
  <2>2. "PARTNER_SUBMITTED" \in VERIFIABLE
    BY Zenon DEF VERIFIABLE
  <2>3. CASE settle_transfer(t)
    BY Zenon, <2>3, SettleTrails
  <2>4. CASE /\ status[t] = "PARTNER_SUBMITTED"
             /\ \/ reverse_transfer(t, "PARTNER_REJECTED")
                \/ reverse_transfer(t, "PARTNER_UNAVAILABLE")
    BY Zenon, <2>4, ReverseTrails
  <2>5. CASE status[t] = "PARTNER_SUBMITTED" /\ HoldForVerification(t)
    BY Zenon, <2>2, <2>5, CheckTrails
  <2> QED  BY Zenon, <2>1, <2>3, <2>4, <2>5
<1>4. CASE \/ Refuse(t) \/ ReturnExisting(t) \/ Interrupted(t)
           \/ StartCall(t) \/ CircuitOpen(t) \/ DeadlineExceeded(t)
           \/ SendAttempt(t) \/ AttemptSucceeded(t) \/ AttemptRejected(t)
           \/ AttemptNotSent(t) \/ AttemptUnknown(t) \/ PartnerApplies(t)
  BY Zenon, <1>4
  DEF Refuse, ReturnExisting, Interrupted, StartCall, CircuitOpen,
      DeadlineExceeded, SendAttempt, AttemptSucceeded, AttemptRejected,
      AttemptNotSent, AttemptUnknown, AttemptEnds, PartnerApplies, row,
      Recorded
<1> QED  BY Zenon, <1>1, <1>2, <1>3, <1>4 DEF RequestStep

\* So does a reconciler.
LEMMA WorkerTrails ==
    ASSUME TypeOK, \A t \in Transfers : TrailFits(t), NEW w \in Workers,
           \/ ClaimDue(w) \/ ReconcileNext(w) \/ AdminReconcile(w)
           \/ RoundFails(w) \/ ReverseInterrupted(w) \/ PartnerReplies(w)
           \/ StatusKnown(w) \/ Apply(w)
    PROVE  UNCHANGED Recorded \/ \E t \in Transfers : Trails(t)
<1>1. CASE ReverseInterrupted(w)
  <2>1. task[w].transfer \in Transfers
    BY Zenon, <1>1 DEF ReverseInterrupted, TypeOK, WorkerTypeOK
  <2>2. \/ UNCHANGED Recorded
        \/ /\ status[task[w].transfer] = "SOURCE_DEBITED"
           /\ reverse_transfer(task[w].transfer, "TRANSFER_INTERRUPTED")
    BY Zenon, <1>1 DEF ReverseInterrupted, row, Recorded
  <2> QED  BY Zenon, <2>1, <2>2, ReverseTrails
<1>2. CASE Apply(w)
  <2> DEFINE t == task[w].transfer
             moment == task[w].since
  <2>1. t \in Transfers
    BY Zenon, <1>2 DEF Apply, TypeOK, WorkerTypeOK
  <2>2. \/ UNCHANGED Recorded
        \/ /\ status[t] \in VERIFIABLE
           /\ \/ settle_transfer(t)
              \/ reverse_transfer(t, "PARTNER_NOT_RECEIVED")
              \/ RecheckAfterGrace(t, moment) \/ RetryOrEscalate(t, moment)
    BY Zenon, <1>2 DEF Apply, row, Recorded
  <2> HIDE DEF t, moment
  <2>3. CASE settle_transfer(t)
    BY Zenon, <2>1, <2>3, SettleTrails
  <2>4. CASE /\ status[t] \in VERIFIABLE
             /\ reverse_transfer(t, "PARTNER_NOT_RECEIVED")
    BY Zenon, <2>1, <2>4, ReverseTrails
  <2>5. CASE /\ status[t] \in VERIFIABLE
             /\ RecheckAfterGrace(t, moment) \/ RetryOrEscalate(t, moment)
    BY Zenon, <2>1, <2>5, CheckTrails
  <2> QED  BY Zenon, <2>1, <2>2, <2>3, <2>4, <2>5
<1>3. CASE \/ ClaimDue(w) \/ ReconcileNext(w) \/ AdminReconcile(w)
           \/ RoundFails(w) \/ PartnerReplies(w) \/ StatusKnown(w)
  BY Zenon, <1>3
  DEF ClaimDue, ReconcileNext, AdminReconcile, RoundFails, PartnerReplies,
      StatusKnown, row, Recorded
<1> QED  BY Zenon, <1>1, <1>2, <1>3

TrailInv == \A t \in Transfers : TrailFits(t)

\* Whoever resolves a transfer, and whoever raced for it, its journals and its
\* trail of events are those of its status: one settlement or one reversal,
\* and every step on the way recorded once and in order (post_journal,
\* transition, and the status checks under the row lock).
THEOREM RecordsTellStatus == Spec => []RecordsMatchStatus
<1>1. Init => TrailInv
  BY SMTT(30), Z3T(30) DEF Init, TrailInv, TrailFits
<1>2. ASSUME TypeOK, TrailInv, [Next]_vars  PROVE TrailInv'
  <2>1. ASSUME UNCHANGED Recorded  PROVE TrailInv'
    BY Zenon, <1>2, <2>1 DEF TrailInv, TrailFits, Recorded
  <2>2. ASSUME NEW t \in Transfers, Trails(t)  PROVE TrailInv'
    <3>1. ASSUME NEW u \in Transfers \ {t}  PROVE TrailFits(u)'
      <4>1. TrailFits(u)
        BY Zenon, <1>2, <3>1 DEF TrailInv
      <4>2. /\ status'[u] = status[u] /\ events'[u] = events[u]
            /\ failure_code'[u] = failure_code[u]
        BY Zenon, <2>2, <3>1 DEF Trails
      <4> QED  BY Zenon, <4>1, <4>2 DEF TrailFits
    <3> QED  BY Zenon, <2>2, <3>1 DEF TrailInv, Trails
  <2>3. CASE Tick
    BY Zenon, <2>1, <2>3 DEF Tick, row, Recorded
  <2>4. CASE UNCHANGED vars
    BY Zenon, <2>1, <2>4 DEF vars, row, Recorded
  <2>5. ASSUME NEW t \in Transfers,
               \/ Refuse(t) \/ DebitSource(t) \/ ReturnExisting(t)
               \/ RequestStep(t) \/ Interrupted(t) \/ PartnerApplies(t)
        PROVE  TrailInv'
    BY Zenon, <1>2, <2>1, <2>2, <2>5, RequestTrails DEF TrailInv
  <2>6. ASSUME NEW w \in Workers,
               \/ ClaimDue(w) \/ ReconcileNext(w) \/ AdminReconcile(w)
               \/ RoundFails(w) \/ ReverseInterrupted(w) \/ PartnerReplies(w)
               \/ StatusKnown(w) \/ Apply(w)
        PROVE  TrailInv'
    BY Zenon, <1>2, <2>1, <2>2, <2>6, WorkerTrails DEF TrailInv
  <2> QED  BY Zenon, <1>2, <2>3, <2>4, <2>5, <2>6 DEF Next
<1>3. Spec => []TrailInv
  BY <1>1, <1>2, TypeCorrect, PTL DEF Spec
<1>4. JournalsMatchStatus /\ TrailInv => RecordsMatchStatus
  BY Zenon DEF RecordsMatchStatus, TrailInv
<1> QED  BY <1>3, <1>4, JournalsFollowStatus, PTL
=============================================================================
