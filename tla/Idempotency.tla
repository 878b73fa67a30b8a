---------------------------- MODULE Idempotency ----------------------------
(***************************************************************************)
(* Idempotent POST /v1/transfers: the Redis lock and the durable key       *)
(* record around the transfer handler.                                     *)
(*                                                                         *)
(*   app/services/idempotency.py       begin, complete, release            *)
(*   app/api/idempotency.py            run_idempotent                      *)
(*   app/api/routes/transfers.py       the handler that is wrapped         *)
(*   app/services/transfer_service.py  its debit, and the unique key       *)
(*   scripts/cleanup_idempotency.py    the removal of expired records      *)
(*                                                                         *)
(* A client sends one request for a key and repeats it until it has an     *)
(* answer; several clients, with the same or another body, share a key.    *)
(* The database runs at READ COMMITTED: what one statement saw may be gone *)
(* at the next, so _claim is three actions.  A delete and an insert of one *)
(* transaction are one action, because every other writer of the key waits *)
(* for its commit.                                                         *)
(*                                                                         *)
(* Time is kept as ages: of a lock since its SET, of a record since its    *)
(* created_at, of a claim since it read the clock.  Ages stop at KeyTtl,   *)
(* and of a request that runs at LockTtl: from there on no comparison in   *)
(* the code tells them apart.                                              *)
(***************************************************************************)
EXTENDS Integers, FiniteSets, Functions

CONSTANTS
    Requests, Keys, Bodies,
    Asks,          \* which body each request may bring
    key,           \* the Idempotency-Key of each request
    points,        \* the source points each body asks for
    OpeningBalance, \* of the account every body debits
    Ids,           \* record ids; an id in use by nobody stands for a new one
    LockTtl,       \* IDEMPOTENCY_LOCK_TTL_MS
    KeyTtl,        \* IDEMPOTENCY_TTL_SECONDS
    MaxFaults       \* bound: crashes and exceptions

ASSUME IdempotencyAssumption ==
    /\ IsFiniteSet(Keys) /\ Ids \subseteq Nat \ {0}
    /\ key \in [Requests -> Keys]
    /\ Asks \subseteq [Requests -> Bodies]
    /\ points \in [Bodies -> Nat]
    /\ LockTtl \in Nat \ {0} /\ KeyTtl \in Nat /\ LockTtl <= KeyTtl
    /\ MaxFaults \in Nat /\ OpeningBalance \in Nat

VARIABLES
    body,      \* what each request asks for; its fingerprint
    pc,        \* where each request is
    lock,      \* lock[k]: the Redis lock of a key
    token,     \* whether the request holds a lock token (Redis answered it)
    record,    \* record[k]: the row of idempotency_keys, UNIQUE (user_id, key)
    claimed,   \* IdempotencyRecord.id of a request that runs, else 0
    seen,      \* the id of the reusable row a claim is about to delete, else 0
    age,       \* since the request read the clock in _claim
    result,    \* what the handler of the request returned, until it is stored
    answer,    \* what the client was told
    transfer,  \* transfer[k]: UNIQUE (user_id, idempotency_key)
    balance,
    faults

redis  == <<lock, token>>
claim  == <<claimed, seen, age>>
said   == <<result, answer>>
ledger == <<transfer, balance>>

vars == <<body, pc, redis, record, claim, said, ledger, faults>>
-----------------------------------------------------------------------------
Older(a, cap) == IF a < cap THEN a + 1 ELSE a

NoBody   == "no body"
NoResult == [code |-> "none", asked |-> NoBody]
Results  == [code : {"none", "refused", "transfer"},
             asked : Bodies \cup {NoBody}]    \* history: the body of the request

\* What the client is told: its own handler's result (not kept here), a stored
\* one, that it conflicts, or that something failed.
Answers  == [kind : {"none", "fresh", "replay", "in_progress", "reused", "error"},
             result : Results]
Saying(kind) == [kind |-> kind, result |-> NoResult]
NoAnswer == Saying("none")

NoRow == [id |-> 0]
Rows  == [id : Ids, request_fingerprint : Bodies, status : {"IN_PROGRESS", "COMPLETED"},
          age : 0 .. KeyTtl, response : Results, prompt : BOOLEAN]

NoTransfer == [funds |-> "with_user"]
Transfers  == [funds : {"debited", "returned"}, of : Bodies]

FreeLock == [held |-> FALSE]
Locks    == [held : {TRUE}, owner : Requests, age : 0 .. LockTtl]

\* The request has claimed its key and not yet completed or released it.
Running(r) == pc[r] \in {"run", "debited", "store", "release"}

TypeOK ==
    /\ body \in [Requests -> Bodies]
    /\ pc \in [Requests -> {"idle", "blocked", "claim", "insert", "winner", "run",
                            "debited", "store", "release", "unlock", "done"}]
    /\ lock \in [Keys -> Locks \cup {FreeLock}]
    /\ token \in [Requests -> BOOLEAN]
    /\ record \in [Keys -> Rows \cup {NoRow}]
    /\ claimed \in [Requests -> Ids \cup {0}]
    /\ seen \in [Requests -> Ids \cup {0}]
    /\ age \in [Requests -> 0 .. KeyTtl]
    /\ result \in [Requests -> Results]
    /\ answer \in [Requests -> Answers]
    /\ transfer \in [Keys -> Transfers \cup {NoTransfer}]
    /\ balance \in Int
    /\ faults \in 0 .. MaxFaults

Init ==
    /\ body \in Asks
    /\ pc = [r \in Requests |-> "idle"]
    /\ lock = [k \in Keys |-> FreeLock]
    /\ token = [r \in Requests |-> FALSE]
    /\ record = [k \in Keys |-> NoRow]
    /\ claimed = [r \in Requests |-> 0]
    /\ seen = [r \in Requests |-> 0]
    /\ age = [r \in Requests |-> 0]
    /\ result = [r \in Requests |-> NoResult]
    /\ answer = [r \in Requests |-> NoAnswer]
    /\ transfer = [k \in Keys |-> NoTransfer]
    /\ balance = OpeningBalance
    /\ faults = 0
-----------------------------------------------------------------------------
Goto(r, step) == pc' = [pc EXCEPT ![r] = step]
Tell(r, what) == answer' = [answer EXCEPT ![r] = what]

Replay(row) == [kind |-> "replay", result |-> row.response]

\* Variant: a finished row answers any body.
ClassifyStatusFirst(row, fingerprint) ==
    IF row.status = "COMPLETED" THEN Replay(row)
    ELSE IF row.request_fingerprint # fingerprint THEN Saying("reused")
    ELSE Saying("in_progress")

\* _classify: the fingerprint is compared before the status.
Classify(row, fingerprint) ==
    IF row.request_fingerprint # fingerprint THEN Saying("reused")
    ELSE IF row.status = "COMPLETED" THEN Replay(row)
    ELSE Saying("in_progress")

\* What a request that found no free place for its row is told.
Verdict(r) ==
    LET row == record[key[r]] IN
    IF row.id = 0 THEN Saying("in_progress") ELSE Classify(row, body[r])

\* Variants of _is_reusable: one takes any unfinished row for abandoned, the
\* other reuses finished rows only.
ReusableAtOnce(row) == row.age >= KeyTtl \/ row.status = "IN_PROGRESS"
ReusableFinished(row) == row.age >= KeyTtl /\ row.status = "COMPLETED"

\* _is_reusable: expired, or abandoned in progress.
Reusable(row) ==
    \/ row.age >= KeyTtl
    \/ row.status = "IN_PROGRESS" /\ row.age >= LockTtl

-----------------------------------------------------------------------------
(***************************************************************************)
(* begin                                                                   *)
(***************************************************************************)
\* SET NX PX.  Redis acquires the lock, refuses it, or its answer is lost,
\* with or without the lock set.
AcquireLock(r) ==
    LET k == key[r] IN
    /\ pc[r] = "idle"
    /\ \/ /\ ~lock[k].held
          /\ lock' = [lock EXCEPT ![k] = [held |-> TRUE, owner |-> r, age |-> 0]]
          /\ token' = [token EXCEPT ![r] = TRUE]
          /\ Goto(r, "claim")
       \/ lock[k].held /\ Goto(r, "blocked") /\ UNCHANGED <<lock, token>>
       \/ /\ \/ ~lock[k].held
                /\ lock' = [lock EXCEPT ![k] = [held |-> TRUE, owner |-> r, age |-> 0]]
             \/ UNCHANGED lock
          /\ Goto(r, "claim")
          /\ UNCHANGED token
    /\ UNCHANGED <<body, record, claim, said, ledger, faults>>

\* The lock is another request's: only a finished record still wins.
AnswerBlocked(r) ==
    /\ pc[r] = "blocked"
    /\ Tell(r, Verdict(r))
    /\ Goto(r, "done")
    /\ UNCHANGED <<body, redis, record, claim, result, ledger, faults>>

\* _claim: the clock and the first query, whose row only ages in between.
ClaimLoad(r) ==
    LET row == record[key[r]] IN
    /\ pc[r] = "claim"
    /\ \/ /\ row.id # 0 => Reusable(row)
          /\ seen' = [seen EXCEPT ![r] = row.id]
          /\ Goto(r, "insert")
          /\ UNCHANGED answer
       \/ /\ row.id # 0 /\ ~Reusable(row)
          /\ Tell(r, Classify(row, body[r]))
          /\ Goto(r, "unlock")
          /\ UNCHANGED seen
    /\ UNCHANGED <<body, redis, record, claimed, age, result, ledger, faults>>

\* The id is one that no row, claim or running request knows.
Fresh(id) ==
    /\ \A k \in Keys : record[k].id # id
    /\ \A s \in Requests : claimed[s] # id /\ seen[s] # id

NewRow(id, r) ==
    [id |-> id, request_fingerprint |-> body[r], status |-> "IN_PROGRESS",
     age |-> age[r], response |-> NoResult, prompt |-> FALSE]

\* The row that was found reusable is deleted by its id alone.  Whether the
\* unique key then admits the new row decides between running and losing.
ClaimInsert(r) ==
    LET k == key[r] IN
    /\ pc[r] = "insert"
    /\ seen' = [seen EXCEPT ![r] = 0]
    /\ \/ /\ record[k].id \in {0, seen[r]}
          /\ \E id \in Ids :
                /\ Fresh(id) /\ \A i \in Ids : Fresh(i) => id <= i
                /\ record' = [record EXCEPT ![k] = NewRow(id, r)]
                /\ claimed' = [claimed EXCEPT ![r] = id]
          /\ Goto(r, "run")
          /\ UNCHANGED age
       \/ /\ record[k].id \notin {0, seen[r]}
          /\ Goto(r, "winner")
          /\ age' = [age EXCEPT ![r] = 0]
          /\ UNCHANGED <<record, claimed>>
    /\ UNCHANGED <<body, redis, said, ledger, faults>>

\* The insert lost: the row it lost to is read in a statement of its own.
ReadWinner(r) ==
    /\ pc[r] = "winner"
    /\ Tell(r, Verdict(r))
    /\ Goto(r, "unlock")
    /\ UNCHANGED <<body, redis, record, claim, result, ledger, faults>>

\* _claim raises: the transaction rolls back, begin gives up the lock.
ClaimFails(r) ==
    /\ pc[r] \in {"claim", "insert", "winner"}
    /\ faults < MaxFaults /\ faults' = faults + 1
    /\ seen' = [seen EXCEPT ![r] = 0]
    /\ age' = [age EXCEPT ![r] = 0]
    /\ Tell(r, Saying("error"))
    /\ Goto(r, "unlock")
    /\ UNCHANGED <<body, redis, record, claimed, result, ledger>>
-----------------------------------------------------------------------------
(***************************************************************************)
(* The handler: create_transfer and the answer built from its transfer     *)
(***************************************************************************)
\* A business rule refuses: programs, limits, route and amount may each do so
\* at any time (they are administered), the balance when it is too low.
Refuse(r) ==
    /\ pc[r] = "run"
    /\ result' = [result EXCEPT ![r] =
                    [code |-> "refused", asked |-> body[r]]]
    /\ Goto(r, "store")
    /\ UNCHANGED <<body, redis, record, claim, answer, ledger, faults>>

\* Variant: the transfers table has no unique key.
DebitAgain(r) ==
    LET k == key[r] IN
    /\ pc[r] = "run"
    /\ balance >= points[body[r]]
    /\ transfer' = [transfer EXCEPT ![k] = [funds |-> "debited", of |-> body[r]]]
    /\ balance' = balance - points[body[r]]
    /\ Goto(r, "debited")
    /\ UNCHANGED <<body, redis, record, claim, said, faults>>

\* The debit transaction checks the balance first and the unique key of
\* transfers last; a key that has its transfer is answered with that one.
Debit(r) ==
    LET k == key[r] IN
    /\ pc[r] = "run"
    /\ balance >= points[body[r]]
    /\ \/ /\ transfer[k] = NoTransfer
          /\ transfer' = [transfer EXCEPT ![k] = [funds |-> "debited", of |-> body[r]]]
          /\ balance' = balance - points[body[r]]
       \/ transfer[k] # NoTransfer /\ UNCHANGED <<transfer, balance>>
    /\ Goto(r, "debited")
    /\ UNCHANGED <<body, redis, record, claim, said, faults>>

\* The rest of the saga took place, or was left to the reconciler; the answer
\* describes the key's transfer, whatever became of it.
Details(r) ==
    /\ pc[r] = "debited"
    /\ result' = [result EXCEPT ![r] =
                    [code |-> "transfer", asked |-> body[r]]]
    /\ Goto(r, "store")
    /\ UNCHANGED <<body, redis, record, claim, answer, ledger, faults>>

HandlerRaises(r) ==
    /\ pc[r] \in {"run", "debited"}
    /\ faults < MaxFaults /\ faults' = faults + 1
    /\ Goto(r, "release")
    /\ UNCHANGED <<body, redis, record, claim, said, ledger>>
-----------------------------------------------------------------------------
(***************************************************************************)
(* complete, release and what ends a request                               *)
(***************************************************************************)
\* Variant: the row is found by its key, not by its id and status.
OwnsKey(r) == record[key[r]].id # 0

\* Both touch the row only if it is still this request's and in progress.
Owns(r) ==
    /\ record[key[r]].id = claimed[r]
    /\ record[key[r]].status = "IN_PROGRESS"

Stored(row, res) ==
    [row EXCEPT !.status = "COMPLETED", !.response = res, !.prompt = row.age < LockTtl]

Complete(r) ==
    LET k == key[r] IN
    /\ pc[r] = "store"
    /\ record' = IF Owns(r) THEN [record EXCEPT ![k] = Stored(record[k], result[r])]
                 ELSE record
    /\ claimed' = [claimed EXCEPT ![r] = 0]
    /\ age' = [age EXCEPT ![r] = 0]
    /\ Tell(r, Saying("fresh"))
    /\ result' = [result EXCEPT ![r] = NoResult]
    /\ Goto(r, "unlock")
    /\ UNCHANGED <<body, redis, seen, ledger, faults>>

\* Variant: release marks the row in place of deleting it.
ReleaseAsFailed(r) ==
    /\ pc[r] = "release"
    /\ record' = IF Owns(r) THEN [record EXCEPT ![key[r]].status = "FAILED"] ELSE record
    /\ claimed' = [claimed EXCEPT ![r] = 0]
    /\ age' = [age EXCEPT ![r] = 0]
    /\ Tell(r, Saying("error"))
    /\ Goto(r, "unlock")
    /\ UNCHANGED <<body, redis, seen, result, ledger, faults>>

Release(r) ==
    /\ pc[r] = "release"
    /\ record' = IF Owns(r) THEN [record EXCEPT ![key[r]] = NoRow] ELSE record
    /\ claimed' = [claimed EXCEPT ![r] = 0]
    /\ age' = [age EXCEPT ![r] = 0]
    /\ Tell(r, Saying("error"))
    /\ Goto(r, "unlock")
    /\ UNCHANGED <<body, redis, seen, result, ledger, faults>>

\* _release_lock: compare and delete, if Redis answers; then the response.
ReleaseLock(r) ==
    LET k == key[r] IN
    /\ pc[r] = "unlock"
    /\ \/ /\ token[r] /\ lock[k].held /\ lock[k].owner = r
          /\ lock' = [lock EXCEPT ![k] = FreeLock]
       \/ UNCHANGED lock
    /\ token' = [token EXCEPT ![r] = FALSE]
    /\ Goto(r, "done")
    /\ UNCHANGED <<body, record, claim, said, ledger, faults>>

\* The process dies, or complete, release or a query outside _claim raises.
Crash(r) ==
    /\ pc[r] \notin {"idle", "done"}
    /\ faults < MaxFaults /\ faults' = faults + 1
    /\ token' = [token EXCEPT ![r] = FALSE]
    /\ claimed' = [claimed EXCEPT ![r] = 0]
    /\ seen' = [seen EXCEPT ![r] = 0]
    /\ age' = [age EXCEPT ![r] = 0]
    /\ result' = [result EXCEPT ![r] = NoResult]
    /\ Tell(r, Saying("error"))
    /\ Goto(r, "done")
    /\ UNCHANGED <<body, lock, record, ledger>>

Answered(r) == pc[r] = "done" /\ answer[r].kind \in {"fresh", "replay", "reused"}

\* A client without an answer (409, 5xx or none) sends its request again.
Retry(r) ==
    /\ pc[r] = "done" /\ ~Answered(r)
    /\ Tell(r, NoAnswer)
    /\ Goto(r, "idle")
    /\ UNCHANGED <<body, redis, record, claim, result, ledger, faults>>
-----------------------------------------------------------------------------
(***************************************************************************)
(* The saga's outcome, the cleanup job, Redis and time                     *)
(***************************************************************************)
\* The saga or the reconciler reverses the transfer.
Return(k) ==
    /\ transfer[k].funds = "debited"
    /\ transfer' = [transfer EXCEPT ![k].funds = "returned"]
    /\ balance' = balance + points[transfer[k].of]
    /\ UNCHANGED <<body, pc, redis, record, claim, said, faults>>

delete_expired_keys(k) ==
    /\ record[k].id # 0 /\ record[k].age >= KeyTtl
    /\ record' = [record EXCEPT ![k] = NoRow]
    /\ UNCHANGED <<body, pc, redis, claim, said, ledger, faults>>

\* Redis is safe to lose: a restart forgets the lock.
RedisForgets(k) ==
    /\ lock[k].held
    /\ lock' = [lock EXCEPT ![k] = FreeLock]
    /\ UNCHANGED <<body, pc, token, record, claim, said, ledger, faults>>

\* Time passes: locks reach their TTL, records and claims grow older.
Tick ==
    /\ lock' = [k \in Keys |->
                  IF lock[k].held /\ lock[k].age + 1 < LockTtl
                  THEN [lock[k] EXCEPT !.age = @ + 1] ELSE FreeLock]
    /\ record' = [k \in Keys |->
                    IF record[k].id = 0 THEN NoRow
                    ELSE [record[k] EXCEPT !.age = Older(@, KeyTtl)]]
    /\ age' = [r \in Requests |->
                 IF pc[r] = "insert" THEN Older(age[r], KeyTtl)
                 ELSE IF Running(r) THEN Older(age[r], LockTtl) ELSE age[r]]
    /\ UNCHANGED <<body, pc, token, claimed, seen, said, ledger, faults>>
-----------------------------------------------------------------------------
\* What the server does for a request, and the client's patience.
Step(r) ==
    \/ AcquireLock(r) \/ AnswerBlocked(r)
    \/ ClaimLoad(r) \/ ClaimInsert(r) \/ ReadWinner(r)
    \/ Refuse(r) \/ Debit(r) \/ Details(r)
    \/ Complete(r) \/ Release(r) \/ ReleaseLock(r)
    \/ Retry(r)

Next ==
    \/ \E r \in Requests : Step(r) \/ ClaimFails(r) \/ HandlerRaises(r) \/ Crash(r)
    \/ \E k \in Keys : Return(k) \/ delete_expired_keys(k) \/ RedisForgets(k)
    \/ Tick

Spec == Init /\ [][Next]_vars

\* The event loop serves every request in the end and clocks do not stop.
FairSpec == Spec /\ WF_vars(Tick) /\ \A r \in Requests : WF_vars(Step(r))
-----------------------------------------------------------------------------
(***************************************************************************)
(* Properties                                                              *)
(***************************************************************************)
\* The handler runs for one request of a key at a time, Redis or not: a
\* second one runs only beside one that has outlived the lock TTL.
RunsAlone ==
    \A r, s \in Requests :
        r # s /\ key[r] = key[s] /\ Running(r) /\ Running(s)
            => age[r] >= LockTtl \/ age[s] >= LockTtl

\* Whoever is answered with a stored response gets one, and one that the
\* handler returned to a request with the same body.
ReplayAnswersTheRequest ==
    \A r \in Requests :
        answer[r].kind = "replay" => answer[r].result.asked = body[r]

\* What each key's transfer has taken from the account and not given back.
Taken == [k \in Keys |->
            IF transfer[k].funds = "debited" THEN points[transfer[k].of] ELSE 0]

\* The key's points leave the account once, however often the request runs:
\* the balance lacks exactly the points of the transfers not returned.
PointsMovedOnce == balance + SumFunction(Taken) = OpeningBalance

\* A response stored before its record could be taken for abandoned stays
\* until it expires: no late claim, completion, release or cleanup touches it.
PromptAnswerIsKept ==
    [][\A k \in Keys :
          record[k].id # 0 /\ record[k].status = "COMPLETED"
            /\ record[k].prompt /\ record[k].age < KeyTtl
          => record'[k].id = record[k].id /\ record'[k].response = record[k].response]_vars

\* A client that repeats its request is answered: neither the lock nor the
\* row of a request that died blocks the key for good.
EveryClientIsAnswered == \A r \in Requests : <>[]Answered(r)

\* "Business errors (4xx) mean no transfer was created."
BusinessErrorMeansNoTransfer ==
    [][\A r \in Requests :
          result'[r] # result[r] /\ result'[r].code = "refused"
            => transfer[key[r]] = NoTransfer]_vars
=============================================================================
