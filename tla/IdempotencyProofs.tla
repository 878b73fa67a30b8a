------------------------- MODULE IdempotencyProofs -------------------------
(***************************************************************************)
(* TLAPS proofs about Idempotency, for any number of requests and keys and *)
(* any two TTLs: the handler runs alone, a replay answers the request it   *)
(* is given to, and a response stored in time is kept.                     *)
(*                                                                         *)
(* The Redis lock plays no part in the argument: the record's id does.  A  *)
(* request that runs knows its row by an id nobody else has (ClaimHolds),  *)
(* and a row is replaced only once it is as old as the lock TTL            *)
(* (SeenIsReusable), which is when its request may no longer count on it.  *)
(***************************************************************************)
EXTENDS Idempotency, ArithmeticLemmas

\* A finished row holds what the handler returned for its own fingerprint, and
\* no other row has its id.
RowAnswers(k) ==
    record[k].id # 0 =>
        /\ record[k].status = "COMPLETED" =>
              record[k].response.asked = record[k].request_fingerprint
        /\ \A j \in Keys : record[j].id = record[k].id => j = k

\* A request that runs knows its row by an id of its own.  The row is of its
\* key and body and as old as the claim; it is there, unfinished, as long as
\* the request is younger than the lock TTL.
ClaimHolds(r) ==
    /\ claimed[r] # 0 <=> Running(r)
    /\ \A s \in Requests : claimed[r] # 0 /\ claimed[s] = claimed[r] => s = r
    /\ \A k \in Keys :
          claimed[r] # 0 /\ record[k].id = claimed[r] =>
              /\ k = key[r] /\ record[k].request_fingerprint = body[r]
              /\ record[k].age < LockTtl \/ age[r] < LockTtl => record[k].age = age[r]
    /\ claimed[r] # 0 /\ age[r] < LockTtl => Owns(r)

\* A row that a claim is about to delete has become reusable, and stays so.
SeenIsReusable(r) ==
    \A k \in Keys :
        seen[r] # 0 /\ record[k].id = seen[r] =>
            \/ record[k].age >= KeyTtl
            \/ /\ record[k].age >= LockTtl
               /\ record[k].status = "COMPLETED" => ~record[k].prompt

\* What a request will store or has been told is about its own body.
SpeaksOfItsBody(r) ==
    /\ pc[r] = "store" => result[r].asked = body[r]
    /\ answer[r].kind = "replay" => answer[r].result.asked = body[r]

IInv ==
    /\ TypeOK
    /\ \A k \in Keys : RowAnswers(k)
    /\ \A r \in Requests : ClaimHolds(r)
    /\ \A r \in Requests : SeenIsReusable(r)
    /\ \A r \in Requests : SpeaksOfItsBody(r)
-----------------------------------------------------------------------------
\* What the assumptions say about the two TTLs and the ids.
LEMMA Settings ==
  /\ LockTtl \in Nat /\ KeyTtl \in Nat /\ 0 < LockTtl /\ LockTtl <= KeyTtl
  /\ 0 \notin Ids /\ \A r \in Requests : key[r] \in Keys
  BY SMTT(30), IdempotencyAssumption

\* A row is one of the table's or none, and its age is a number.
LEMMA RowType ==
  ASSUME TypeOK, NEW k \in Keys
  PROVE  /\ record[k].id \in Ids \cup {0}
         /\ record[k].id = 0 => record[k] = NoRow
         /\ record[k].id # 0 => /\ record[k] \in Rows
                                /\ record[k].age \in Nat /\ record[k].age <= KeyTtl
                                /\ record[k].status \in {"IN_PROGRESS", "COMPLETED"}
  <1>1. record[k] \in Rows \cup {NoRow}
    BY Zenon DEF TypeOK
  <1>2. CASE record[k] = NoRow
    BY SMTT(30), <1>2 DEF NoRow
  <1>3. CASE record[k] \in Rows
    BY SMTT(30), <1>3, Settings DEF Rows
  <1> QED
    BY <1>1, <1>2, <1>3, Zenon

\* It holds when no request has arrived.
LEMMA InitIInv == Init => IInv
  <1> SUFFICES ASSUME Init PROVE IInv
    OBVIOUS
  <1>1. TypeOK
    <2>1. NoResult \in Results /\ NoAnswer \in Answers
      BY Zenon DEF NoResult, Results, NoAnswer, Saying, Answers
    <2>2. /\ body \in [Requests -> Bodies] /\ OpeningBalance \in Int
          /\ MaxFaults \in Nat /\ KeyTtl \in Nat
      BY SMTT(30), IdempotencyAssumption DEF Init
    <2>3. token \in [Requests -> BOOLEAN]
      BY Zenon DEF Init
    <2> QED
      BY SMTT(30), <2>1, <2>2, <2>3 DEF Init, TypeOK
  <1>2. ASSUME NEW k \in Keys PROVE record[k].id = 0
    BY Zenon DEF Init, NoRow
  <1>3. ASSUME NEW r \in Requests
        PROVE  claimed[r] = 0 /\ seen[r] = 0 /\ pc[r] = "idle" /\ answer[r].kind = "none"
    BY Zenon DEF Init, NoAnswer, Saying
  <1>4. \A k \in Keys : RowAnswers(k)
    BY <1>2, Zenon DEF RowAnswers
  <1>5. \A r \in Requests : ClaimHolds(r)
    BY Zenon, <1>3 DEF ClaimHolds, Running
  <1>6. \A r \in Requests : SeenIsReusable(r)
    BY <1>3, Zenon DEF SeenIsReusable
  <1>7. \A r \in Requests : SpeaksOfItsBody(r)
    BY Zenon, <1>3 DEF SpeaksOfItsBody
  <1> QED
    BY <1>1, <1>4, <1>5, <1>6, <1>7, Zenon DEF IInv
-----------------------------------------------------------------------------
(***************************************************************************)
(* Steps that touch no row and no claim                                    *)
(***************************************************************************)
Frame == UNCHANGED <<body, record, claimed, age>>

\* A step that leaves records and claims alone keeps what is said of them.
LEMMA FrameKeeps ==
  ASSUME IInv, Frame, \A r \in Requests : Running(r)' <=> Running(r)
  PROVE  /\ \A k \in Keys : RowAnswers(k)'
         /\ \A r \in Requests : ClaimHolds(r)'
         /\ seen' = seen => \A r \in Requests : SeenIsReusable(r)'
  <1>1. \A k \in Keys : RowAnswers(k)'
    BY Zenon DEF IInv, Frame, RowAnswers
  <1>2. ASSUME NEW r \in Requests PROVE ClaimHolds(r)'
    <2>1. ClaimHolds(r)
      BY Zenon DEF IInv
    <2> QED
      BY <2>1, Zenon DEF Frame, ClaimHolds, Owns
  <1>3. seen' = seen => \A r \in Requests : SeenIsReusable(r)'
    BY Zenon DEF IInv, Frame, SeenIsReusable
  <1> QED
    BY <1>1, <1>2, <1>3, Zenon

\* A request that moves between two steps of the same kind.
LEMMA GotoKeepsRunning ==
  ASSUME TypeOK, NEW r \in Requests, NEW step, Goto(r, step),
         step \in {"run", "debited", "store", "release"} <=> Running(r)
  PROVE  \A s \in Requests : Running(s)' <=> Running(s)
  <1> SUFFICES ASSUME NEW s \in Requests PROVE Running(s)' <=> Running(s)
    OBVIOUS
  <1>1. pc'[s] = IF s = r THEN step ELSE pc[s]
    BY Zenon DEF Goto, TypeOK
  <1>2. CASE s = r
    BY <1>1, <1>2, Zenon DEF Running
  <1>3. CASE s # r
    BY <1>1, <1>3, Zenon DEF Running
  <1> QED
    BY Zenon, <1>2, <1>3

\* The answers that replay nothing.
LEMMA SayingType ==
  \A kind \in {"none", "fresh", "in_progress", "reused", "error"} :
      Saying(kind) \in Answers /\ Saying(kind).kind # "replay"
  BY Zenon DEF Saying, Answers, NoResult, Results

\* What a row says to a request concerns the request's own body.
LEMMA VerdictSpeaks ==
  ASSUME IInv, NEW r \in Requests
  PROVE  /\ Verdict(r) \in Answers
         /\ Verdict(r).kind = "replay" => Verdict(r).result.asked = body[r]
         /\ record[key[r]].id # 0 =>
               /\ Classify(record[key[r]], body[r]) \in Answers
               /\ Classify(record[key[r]], body[r]).kind = "replay" =>
                     Classify(record[key[r]], body[r]).result.asked = body[r]
  <1> DEFINE row == record[key[r]]
  <1>1. key[r] \in Keys /\ TypeOK /\ RowAnswers(key[r])
    BY Settings, Zenon DEF IInv
  <1>2. row.id # 0 => row.response \in Results
    BY Zenon, <1>1, RowType DEF Rows
  <1>4. ASSUME row.id # 0, row.request_fingerprint = body[r], row.status = "COMPLETED"
        PROVE  Replay(row) \in Answers /\ Replay(row).result.asked = body[r]
    BY Zenon, <1>1, <1>2, <1>4 DEF Replay, Answers, RowAnswers
  <1>5. row.id # 0 =>
           /\ Classify(row, body[r]) \in Answers
           /\ Classify(row, body[r]).kind = "replay" => Classify(row, body[r]).result.asked = body[r]
    <2> HIDE DEF row
    <2> QED
      BY SayingType, <1>4, Zenon DEF Classify
  <1> QED
    BY SayingType, <1>5, Zenon DEF Verdict

-----------------------------------------------------------------------------
(***************************************************************************)
(* Types                                                                   *)
(***************************************************************************)
Places == {"idle", "blocked", "claim", "insert", "winner", "run",
           "debited", "store", "release", "unlock", "done"}

\* A request moves to one of its places.
LEMMA GotoType ==
  ASSUME TypeOK, NEW r \in Requests, NEW step \in Places, Goto(r, step)
  PROVE  pc' \in [Requests -> Places]
  BY Zenon DEF TypeOK, Goto, Places

\* A client is told one of the answers.
LEMMA TellType ==
  ASSUME TypeOK, NEW r \in Requests, NEW what \in Answers, Tell(r, what)
  PROVE  answer' \in [Requests -> Answers]
  BY Zenon DEF TypeOK, Tell

\* Redis.
LEMMA LockType ==
  ASSUME TypeOK, NEW r \in Requests, AcquireLock(r) \/ ReleaseLock(r)
  PROVE  TypeOK'
  <1>a. key[r] \in Keys /\ LockTtl \in Nat
    BY Settings, Zenon
  <1>1. [held |-> TRUE, owner |-> r, age |-> 0] \in Locks /\ FreeLock \in Locks \cup {FreeLock}
    BY SMTT(30), <1>a DEF Locks
  <1>2. lock' \in [Keys -> Locks \cup {FreeLock}]
    BY Zenon, <1>a, <1>1 DEF TypeOK, AcquireLock, ReleaseLock
  <1>3. token' \in [Requests -> BOOLEAN]
    BY Zenon DEF TypeOK, AcquireLock, ReleaseLock
  <1>4. pc' \in [Requests -> Places]
    BY GotoType, Zenon DEF AcquireLock, ReleaseLock, Places
  <1> QED
    BY <1>2, <1>3, <1>4, Zenon
    DEF TypeOK, AcquireLock, ReleaseLock, Places, claim, said, ledger

\* Answers without a change of the record.
LEMMA AnswerType ==
  ASSUME IInv, NEW r \in Requests, AnswerBlocked(r) \/ ReadWinner(r) \/ Retry(r)
  PROVE  TypeOK'
  <1>a. TypeOK /\ Verdict(r) \in Answers /\ NoAnswer \in Answers
    BY VerdictSpeaks, SayingType, Zenon DEF IInv, NoAnswer
  <1>1. answer' \in [Requests -> Answers]
    BY <1>a, TellType, Zenon DEF AnswerBlocked, ReadWinner, Retry
  <1>2. pc' \in [Requests -> Places]
    BY <1>a, GotoType, Zenon DEF AnswerBlocked, ReadWinner, Retry, Places
  <1> QED
    BY <1>a, <1>1, <1>2, Zenon
    DEF TypeOK, AnswerBlocked, ReadWinner, Retry, Places, redis, claim, ledger

\* The handler.
LEMMA HandlerType ==
  ASSUME TypeOK, NEW r \in Requests,
         Refuse(r) \/ Debit(r) \/ Details(r) \/ HandlerRaises(r)
  PROVE  TypeOK'
  <1>a. key[r] \in Keys /\ body[r] \in Bodies
    BY Settings, Zenon DEF TypeOK
  <1>1. pc' \in [Requests -> Places]
    BY GotoType, Zenon DEF Refuse, Debit, Details, HandlerRaises, Places
  <1>2. /\ [code |-> "refused", asked |-> body[r]] \in Results
        /\ [code |-> "transfer", asked |-> body[r]] \in Results
    BY Zenon, <1>a DEF Results
  <1>3. CASE Refuse(r) \/ Details(r)
    <2>1. result' \in [Requests -> Results]
      BY Zenon, <1>2, <1>3 DEF TypeOK, Refuse, Details
    <2> QED
      BY <1>1, <1>3, <2>1, Zenon DEF TypeOK, Refuse, Details, Places, redis, claim, ledger
  <1>4. CASE Debit(r)
    <2>1. [funds |-> "debited", of |-> body[r]] \in Transfers
      BY Zenon, <1>a DEF Transfers
    <2>2. transfer' \in [Keys -> Transfers \cup {NoTransfer}]
      BY Zenon, <1>4, <1>a, <2>1 DEF TypeOK, Debit
    <2>3. balance' \in Int
      BY SMTT(30), <1>4, <1>a, IdempotencyAssumption DEF TypeOK, Debit
    <2> QED
      BY <1>1, <1>4, <2>2, <2>3, Zenon DEF TypeOK, Debit, Places, redis, claim, said
  <1>5. CASE HandlerRaises(r)
    <2>1. faults' \in 0 .. MaxFaults
      BY SMTT(30), <1>5, IdempotencyAssumption DEF TypeOK, HandlerRaises
    <2> QED
      BY <1>1, <1>5, <2>1, Zenon DEF TypeOK, HandlerRaises, Places, redis, claim, said, ledger
  <1> QED
    BY <1>3, <1>4, <1>5, Zenon

\* The saga's reversal and a restart of Redis.
LEMMA KeyType ==
  ASSUME TypeOK, NEW k \in Keys, Return(k) \/ RedisForgets(k) \/ delete_expired_keys(k)
  PROVE  TypeOK'
  <1>1. CASE Return(k)
    <2>1. transfer[k] \in Transfers
      BY SMTT(30), <1>1 DEF TypeOK, Return, NoTransfer
    <2>2. transfer' \in [Keys -> Transfers \cup {NoTransfer}]
      BY Zenon, <1>1, <2>1 DEF TypeOK, Return, Transfers
    <2>3. balance' \in Int
      BY SMTT(30), <1>1, <2>1, IdempotencyAssumption DEF TypeOK, Return, Transfers
    <2> QED
      BY <1>1, <2>2, <2>3, Zenon DEF TypeOK, Return, redis, claim, said
  <1>2. CASE RedisForgets(k)
    <2>1. lock' \in [Keys -> Locks \cup {FreeLock}]
      BY Zenon, <1>2 DEF TypeOK, RedisForgets
    <2> QED
      BY <1>2, <2>1, Zenon DEF TypeOK, RedisForgets, claim, said, ledger
  <1>3. CASE delete_expired_keys(k)
    <2>1. record' \in [Keys -> Rows \cup {NoRow}]
      BY Zenon, <1>3 DEF TypeOK, delete_expired_keys
    <2> QED
      BY <1>3, <2>1, Zenon DEF TypeOK, delete_expired_keys, redis, claim, said, ledger
  <1> QED
    BY <1>1, <1>2, <1>3, Zenon

\* Claims.
LEMMA ClaimType ==
  ASSUME IInv, NEW r \in Requests, ClaimLoad(r) \/ ClaimInsert(r) \/ ClaimFails(r)
  PROVE  TypeOK'
  <1>a. TypeOK /\ key[r] \in Keys /\ body[r] \in Bodies /\ record[key[r]].id \in Ids \cup {0}
    BY Settings, RowType, Zenon DEF TypeOK, IInv
  <1>1. pc' \in [Requests -> Places]
    BY <1>a, GotoType, Zenon DEF ClaimLoad, ClaimInsert, ClaimFails, Places
  <1>2. CASE ClaimLoad(r)
    <2>1. seen' \in [Requests -> Ids \cup {0}]
      BY Zenon, <1>2, <1>a DEF TypeOK, ClaimLoad
    <2>2. answer' \in [Requests -> Answers]
      BY <1>2, <1>a, VerdictSpeaks, TellType, Zenon DEF ClaimLoad, TypeOK
    <2> QED
      BY <1>a, <1>1, <1>2, <2>1, <2>2, Zenon DEF TypeOK, ClaimLoad, Places, redis, ledger
  <1>3. CASE ClaimInsert(r)
    <2>1. seen' \in [Requests -> Ids \cup {0}]
      BY Zenon, <1>3, <1>a DEF TypeOK, ClaimInsert
    <2>2. ASSUME NEW id \in Ids PROVE NewRow(id, r) \in Rows
      BY Zenon, <1>a, Settings DEF NewRow, Rows, TypeOK, NoResult, Results
    <2>3. record' \in [Keys -> Rows \cup {NoRow}] /\ claimed' \in [Requests -> Ids \cup {0}]
      BY SMTT(30), <1>3, <1>a, <2>2 DEF TypeOK, ClaimInsert
    <2>4. age' \in [Requests -> 0 .. KeyTtl]
      BY SMTT(30), <1>3, <1>a, Settings DEF TypeOK, ClaimInsert
    <2> QED
      BY <1>a, <1>1, <1>3, <2>1, <2>3, <2>4, Zenon
      DEF TypeOK, ClaimInsert, Places, redis, said, ledger
  <1>4. CASE ClaimFails(r)
    <2>1. seen' \in [Requests -> Ids \cup {0}] /\ age' \in [Requests -> 0 .. KeyTtl]
      BY SMTT(30), <1>4, <1>a, Settings DEF TypeOK, ClaimFails
    <2>2. answer' \in [Requests -> Answers]
      BY <1>4, <1>a, SayingType, TellType, Zenon DEF ClaimFails
    <2>3. faults' \in 0 .. MaxFaults
      BY SMTT(30), <1>4, <1>a, IdempotencyAssumption DEF TypeOK, ClaimFails
    <2> QED
      BY <1>a, <1>1, <1>4, <2>1, <2>2, <2>3, Zenon
      DEF TypeOK, ClaimFails, Places, redis, ledger
  <1> QED
    BY <1>2, <1>3, <1>4, Zenon

\* A row with a stored response is a row.
LEMMA StoredType ==
  ASSUME NEW row \in Rows, NEW res \in Results
  PROVE  Stored(row, res) \in Rows
  <1>1. ASSUME NEW b \in BOOLEAN
        PROVE  [row EXCEPT !.status = "COMPLETED", !.response = res, !.prompt = b] \in Rows
    BY Zenon DEF Rows
  <1>2. (row.age < LockTtl) \in BOOLEAN
    BY SMT
  <1> QED
    BY <1>1, <1>2, Zenon DEF Stored

\* The ends of a request.
LEMMA EndType ==
  ASSUME IInv, NEW r \in Requests, Complete(r) \/ Release(r) \/ Crash(r)
  PROVE  TypeOK'
  <1>a. TypeOK /\ key[r] \in Keys /\ result[r] \in Results
    BY Settings, Zenon DEF TypeOK, IInv
  <1>1. pc' \in [Requests -> Places]
    BY <1>a, GotoType, Zenon DEF Complete, Release, Crash, Places
  <1>2. answer' \in [Requests -> Answers]
    BY <1>a, SayingType, TellType, Zenon DEF Complete, Release, Crash
  <1>3. claimed' \in [Requests -> Ids \cup {0}] /\ age' \in [Requests -> 0 .. KeyTtl]
    BY SMTT(30), <1>a, Settings DEF TypeOK, Complete, Release, Crash
  <1>4. CASE Complete(r)
    <2>1. ASSUME Owns(r) PROVE Stored(record[key[r]], result[r]) \in Rows
      <3>1. claimed[r] # 0
        BY Zenon, <1>4 DEF IInv, ClaimHolds, Running, Complete
      <3> QED
        BY <2>1, <3>1, <1>a, RowType, StoredType, Zenon DEF Owns
    <2>2. record' \in [Keys -> Rows \cup {NoRow}]
      BY Zenon, <1>4, <1>a, <2>1 DEF TypeOK, Complete
    <2>3. result' \in [Requests -> Results]
      BY Zenon, <1>a, <1>4 DEF TypeOK, Complete, NoResult, Results
    <2> QED
      BY <1>a, <1>1, <1>2, <1>3, <1>4, <2>2, <2>3, Zenon DEF TypeOK, Complete, Places, redis, ledger
  <1>5. CASE Release(r)
    <2>1. record' \in [Keys -> Rows \cup {NoRow}]
      BY Zenon, <1>5, <1>a DEF TypeOK, Release
    <2> QED
      BY <1>a, <1>1, <1>2, <1>3, <1>5, <2>1, Zenon DEF TypeOK, Release, Places, redis, ledger
  <1>6. CASE Crash(r)
    <2>1. seen' \in [Requests -> Ids \cup {0}] /\ faults' \in 0 .. MaxFaults
      BY SMTT(30), <1>a, <1>6, IdempotencyAssumption DEF TypeOK, Crash
    <2>2. result' \in [Requests -> Results]
      BY Zenon, <1>a, <1>6 DEF TypeOK, Crash, NoResult, Results
    <2>3. token' \in [Requests -> BOOLEAN]
      BY <1>a, <1>6, Zenon DEF TypeOK, Crash
    <2> QED
      BY <1>a, <1>1, <1>2, <1>3, <1>6, <2>1, <2>2, <2>3, Zenon DEF TypeOK, Crash, Places, ledger
  <1> QED
    BY <1>4, <1>5, <1>6, Zenon

\* Time keeps the types.
LEMMA TickType == TypeOK /\ Tick => TypeOK'
  <1> SUFFICES ASSUME TypeOK, Tick PROVE TypeOK'
    OBVIOUS
  <1>1. lock' \in [Keys -> Locks \cup {FreeLock}]
    <2>0. \A n \in 0 .. LockTtl : n + 1 < LockTtl => n + 1 \in 0 .. LockTtl
      BY SMTT(30), Settings
    <2> SUFFICES ASSUME NEW k \in Keys, lock[k].held, lock[k].age + 1 < LockTtl
                 PROVE  [lock[k] EXCEPT !.age = @ + 1] \in Locks
      BY Zenon DEF Tick
    <2>1. lock[k] \in Locks
      BY SMTT(30) DEF TypeOK, FreeLock
    <2>2. lock[k].age + 1 \in 0 .. LockTtl
      BY <2>0, <2>1, Zenon DEF Locks
    <2> QED
      BY <2>1, <2>2, Zenon DEF Locks
  <1>2. record' \in [Keys -> Rows \cup {NoRow}]
    <2> SUFFICES ASSUME NEW k \in Keys, record[k].id # 0
                 PROVE  [record[k] EXCEPT !.age = Older(@, KeyTtl)] \in Rows
      BY Zenon DEF Tick
    <2>1. record[k] \in Rows
      BY RowType, Zenon
    <2> QED
      BY SMTT(30), <2>1, Settings DEF Rows, Older
  <1>3. age' \in [Requests -> 0 .. KeyTtl]
    BY SMTT(30), Settings DEF TypeOK, Tick, Older
  <1> QED
    BY <1>1, <1>2, <1>3, Zenon DEF TypeOK, Tick, said, ledger
-----------------------------------------------------------------------------
(***************************************************************************)
(* What is stored and said                                                 *)
(***************************************************************************)
\* A step of one request leaves what the others hold and were told.
LEMMA SpeaksAlone ==
  ASSUME IInv, NEW r \in Requests, SpeaksOfItsBody(r)', body' = body,
         \A s \in Requests \ {r} : /\ pc'[s] = pc[s] /\ result'[s] = result[s]
                                   /\ answer'[s] = answer[s]
  PROVE  \A s \in Requests : SpeaksOfItsBody(s)'
  BY Zenon DEF IInv, SpeaksOfItsBody

\* What a request stores or is told stays about its own body.
LEMMA SpeakStep ==
  ASSUME IInv, NEW r \in Requests,
         Step(r) \/ ClaimFails(r) \/ HandlerRaises(r) \/ Crash(r)
  PROVE  \A s \in Requests : SpeaksOfItsBody(s)'
  <1>a. TypeOK /\ SpeaksOfItsBody(r) /\ key[r] \in Keys
    BY Settings, Zenon DEF IInv
  <1>b. /\ pc \in [Requests -> Places]
        /\ DOMAIN result = Requests /\ DOMAIN answer = Requests
        /\ result = [s \in Requests |-> result[s]] /\ answer = [s \in Requests |-> answer[s]]
    BY Zenon, <1>a DEF TypeOK, Places
  <1>1. CASE AcquireLock(r) \/ ReleaseLock(r) \/ Debit(r) \/ HandlerRaises(r)
    <2>1. /\ pc'[r] # "store" /\ UNCHANGED <<body, result, answer>>
          /\ \A s \in Requests \ {r} : pc'[s] = pc[s]
      BY Zenon, <1>1, <1>b DEF AcquireLock, ReleaseLock, Debit, HandlerRaises, Goto, said
    <2>2. SpeaksOfItsBody(r)'
      BY <2>1, <1>a, Zenon DEF SpeaksOfItsBody
    <2> QED
      BY <2>1, <2>2, SpeaksAlone, Zenon
  <1>2. CASE ClaimInsert(r)
    <2>1. /\ pc'[r] # "store" /\ UNCHANGED <<body, result, answer>>
          /\ \A s \in Requests \ {r} : pc'[s] = pc[s]
      BY Zenon, <1>2, <1>b DEF ClaimInsert, Goto, said
    <2>2. SpeaksOfItsBody(r)'
      BY <2>1, <1>a, Zenon DEF SpeaksOfItsBody
    <2> QED
      BY <2>1, <2>2, SpeaksAlone, Zenon
  <1>3. CASE AnswerBlocked(r) \/ ReadWinner(r)
    <2>1. /\ pc'[r] # "store" /\ UNCHANGED <<body, result>> /\ answer'[r] = Verdict(r)
          /\ \A s \in Requests \ {r} : pc'[s] = pc[s] /\ answer'[s] = answer[s]
      BY Zenon, <1>3, <1>b DEF AnswerBlocked, ReadWinner, Goto, Tell
    <2>2. SpeaksOfItsBody(r)'
      BY <2>1, VerdictSpeaks, Zenon DEF SpeaksOfItsBody
    <2> QED
      BY <2>1, <2>2, SpeaksAlone, Zenon
  <1>4. CASE ClaimLoad(r)
    <2>1. /\ pc'[r] # "store" /\ UNCHANGED <<body, result>>
          /\ \A s \in Requests \ {r} : pc'[s] = pc[s] /\ answer'[s] = answer[s]
      BY Zenon, <1>4, <1>b DEF ClaimLoad, Goto, Tell
    <2>2. \/ answer'[r] = answer[r]
          \/ record[key[r]].id # 0 /\ answer'[r] = Classify(record[key[r]], body[r])
      BY Zenon, <1>4, <1>b DEF ClaimLoad, Tell
    <2>3. SpeaksOfItsBody(r)'
      BY <2>1, <2>2, <1>a, VerdictSpeaks, Zenon DEF SpeaksOfItsBody
    <2> QED
      BY <2>1, <2>3, SpeaksAlone, Zenon
  <1>5. CASE Refuse(r) \/ Details(r)
    <2>1. /\ result'[r].asked = body[r] /\ UNCHANGED <<body, answer>>
          /\ \A s \in Requests \ {r} : pc'[s] = pc[s] /\ result'[s] = result[s]
      BY SMTT(30), <1>5, <1>b DEF Refuse, Details, Goto
    <2>2. SpeaksOfItsBody(r)'
      BY <2>1, <1>a, Zenon DEF SpeaksOfItsBody
    <2> QED
      BY <2>1, <2>2, SpeaksAlone, Zenon
  <1>6. CASE ClaimFails(r) \/ Retry(r) \/ Release(r) \/ Complete(r) \/ Crash(r)
    <2>1. body' = body /\ \A s \in Requests \ {r} : pc'[s] = pc[s] /\ answer'[s] = answer[s]
      BY Zenon, <1>6, <1>b DEF ClaimFails, Retry, Release, Complete, Crash, Goto, Tell
    <2>2. \A s \in Requests \ {r} : result'[s] = result[s]
      BY Zenon, <1>6, <1>b DEF ClaimFails, Retry, Release, Complete, Crash
    <2>3. pc'[r] # "store" /\ answer'[r].kind # "replay"
      BY SMTT(30), <1>6, <1>b
      DEF ClaimFails, Retry, Release, Complete, Crash, Goto, Tell, NoAnswer, Saying
    <2>4. SpeaksOfItsBody(r)'
      BY <2>3, Zenon DEF SpeaksOfItsBody
    <2> QED
      BY <2>1, <2>2, <2>4, SpeaksAlone, Zenon
  <1> QED
    BY <1>1, <1>2, <1>3, <1>4, <1>5, <1>6, Zenon DEF Step
-----------------------------------------------------------------------------
(***************************************************************************)
(* Rows and claims                                                         *)
(***************************************************************************)
Tables ==
    /\ \A k \in Keys : RowAnswers(k)
    /\ \A r \in Requests : ClaimHolds(r)
    /\ \A r \in Requests : SeenIsReusable(r)

\* Steps that write no record keep the tables as they should be.
LEMMA QuietStep ==
  ASSUME IInv, NEW r \in Requests,
         \/ AcquireLock(r) \/ AnswerBlocked(r) \/ ReadWinner(r) \/ Refuse(r) \/ Debit(r)
         \/ Details(r) \/ HandlerRaises(r) \/ ReleaseLock(r) \/ Retry(r)
  PROVE  Tables'
  <1>a. TypeOK
    BY Zenon DEF IInv
  <1>1. Frame /\ seen' = seen
    BY Zenon DEF AcquireLock, AnswerBlocked, ReadWinner, Refuse, Debit, Details,
                 HandlerRaises, ReleaseLock, Retry, Frame, claim
  <1>2. CASE Refuse(r) \/ Debit(r) \/ Details(r) \/ HandlerRaises(r)
    <2>1. Running(r)
      BY <1>2, Zenon DEF Refuse, Debit, Details, HandlerRaises, Running
    <2>2. \A s \in Requests : Running(s)' <=> Running(s)
      BY <1>2, <1>a, <2>1, GotoKeepsRunning, Zenon DEF Refuse, Debit, Details, HandlerRaises
    <2> QED
      BY <1>1, <2>2, FrameKeeps, Zenon DEF Tables
  <1>3. CASE AcquireLock(r) \/ AnswerBlocked(r) \/ ReadWinner(r) \/ ReleaseLock(r) \/ Retry(r)
    <2>1. ~Running(r)
      BY Zenon, <1>3 DEF AcquireLock, AnswerBlocked, ReadWinner, ReleaseLock, Retry, Running
    <2>2. \E step \in {"claim", "blocked", "done", "unlock", "idle"} : Goto(r, step)
      BY <1>3, Zenon DEF AcquireLock, AnswerBlocked, ReadWinner, ReleaseLock, Retry
    <2>3. \A s \in Requests : Running(s)' <=> Running(s)
      BY Zenon, <1>a, <2>1, <2>2, GotoKeepsRunning
    <2> QED
      BY <1>1, <2>3, FrameKeeps, Zenon DEF Tables
  <1> QED
    BY <1>2, <1>3, Zenon

\* A claim finds a row reusable, or gives up.
LEMMA LoadStep ==
  ASSUME IInv, NEW r \in Requests, ClaimLoad(r) \/ ClaimFails(r)
  PROVE  Tables'
  <1>a. TypeOK /\ key[r] \in Keys
    BY Settings, Zenon DEF IInv
  <1>1. ~Running(r) /\ \E step \in {"insert", "unlock"} : Goto(r, step)
    BY Zenon DEF ClaimLoad, ClaimFails, Running
  <1>2. \A s \in Requests : Running(s)' <=> Running(s)
    BY Zenon, <1>a, <1>1, GotoKeepsRunning
  <1>3. CASE ClaimLoad(r)
    <2>1. Frame
      BY <1>3, Zenon DEF ClaimLoad, Frame
    <2>2. /\ \A s \in Requests \ {r} : seen'[s] = seen[s]
          /\ \/ seen'[r] = seen[r]
             \/ /\ seen'[r] = record[key[r]].id
                /\ record[key[r]].id # 0 => Reusable(record[key[r]])
      BY Zenon, <1>3, <1>a DEF ClaimLoad, TypeOK
    <2>3. ASSUME NEW k \in Keys, record[k].id # 0, record[k].id = record[key[r]].id
          PROVE  \/ record[k].age >= KeyTtl \/ ~Reusable(record[key[r]])
                 \/ /\ record[k].age >= LockTtl
                    /\ record[k].status = "COMPLETED" => ~record[k].prompt
      <3>1. k = key[r]
        BY <2>3, <1>a, Zenon DEF IInv, RowAnswers
      <3>2. record[k].status = "IN_PROGRESS" => record[k].status # "COMPLETED"
        OBVIOUS
      <3> QED
        BY <3>1, <3>2, Zenon DEF Reusable
    <2>4. ASSUME NEW s \in Requests PROVE SeenIsReusable(s)'
      <3>1. SeenIsReusable(s) /\ record' = record
        BY <2>1, Zenon DEF IInv, Frame
      <3> QED
        BY <3>1, <2>2, <2>3, ZenonT(60) DEF SeenIsReusable
    <2> QED
      BY <1>2, <2>1, <2>4, FrameKeeps, Zenon DEF Tables
  <1>4. CASE ClaimFails(r)
    <2>1. UNCHANGED <<body, record, claimed>> /\ \A s \in Requests \ {r} : age'[s] = age[s]
      BY Zenon, <1>4, <1>a DEF ClaimFails, TypeOK
    <2>2. claimed[r] = 0
      BY <1>1, Zenon DEF IInv, ClaimHolds
    <2>3. \A k \in Keys : RowAnswers(k)'
      BY <2>1, Zenon DEF IInv, RowAnswers
    <2>4. ASSUME NEW s \in Requests PROVE ClaimHolds(s)'
      <3>1. ClaimHolds(s)
        BY Zenon DEF IInv
      <3>2. CASE s = r
        BY <3>1, <3>2, <1>2, <2>1, <2>2, Zenon DEF ClaimHolds
      <3>3. CASE s # r
        BY <3>1, <3>3, <1>2, <2>1, Zenon DEF ClaimHolds, Owns
      <3> QED
        BY Zenon, <3>2, <3>3
    <2>5. \A s \in Requests : seen'[s] \in {0, seen[s]}
      BY Zenon, <1>4, <1>a DEF ClaimFails, TypeOK
    <2>6. \A s \in Requests : SeenIsReusable(s)'
      BY <2>1, <2>5, ZenonT(60) DEF IInv, SeenIsReusable
    <2> QED
      BY <2>3, <2>4, <2>6, Zenon DEF Tables
  <1> QED
    BY <1>3, <1>4, Zenon

\* A row with a new id takes the place of none, or of one that nobody who is
\* younger than the lock TTL runs under.
LEMMA InsertStep ==
  ASSUME IInv, NEW r \in Requests, ClaimInsert(r)
  PROVE  Tables'
  <1> DEFINE k == key[r]
  <1>a. TypeOK /\ k \in Keys
    BY Settings, Zenon DEF IInv
  <1>b. ~Running(r) /\ claimed[r] = 0
    BY Zenon DEF ClaimInsert, Running, IInv, ClaimHolds
  <1>c. /\ \A s \in Requests \ {r} : seen'[s] = seen[s] /\ pc'[s] = pc[s]
        /\ seen'[r] = 0 /\ body' = body
    BY Zenon, <1>a DEF ClaimInsert, TypeOK, Goto
  <1>1. ASSUME NEW id \in Ids, Fresh(id), record[k].id \in {0, seen[r]},
               record' = [record EXCEPT ![k] = NewRow(id, r)],
               claimed' = [claimed EXCEPT ![r] = id],
               Goto(r, "run"), UNCHANGED age
        PROVE  Tables'
    <2>1. /\ record'[k] = NewRow(id, r) /\ \A j \in Keys \ {k} : record'[j] = record[j]
          /\ claimed'[r] = id /\ \A s \in Requests \ {r} : claimed'[s] = claimed[s]
          /\ pc'[r] = "run" /\ id # 0
      BY Zenon, <1>1, <1>a, Settings DEF TypeOK, Goto
    <2>2. /\ record'[k].id = id /\ record'[k].request_fingerprint = body[r]
          /\ record'[k].status = "IN_PROGRESS" /\ record'[k].age = age[r]
      BY SMTT(30), <2>1 DEF NewRow
    <2>3. /\ \A j \in Keys : record[j].id # id
          /\ \A s \in Requests : claimed[s] # id /\ seen[s] # id
      BY <1>1, Zenon DEF Fresh
    <2> HIDE DEF k
    <2>4. ASSUME NEW j \in Keys PROVE RowAnswers(j)'
      <3>1. CASE j = k
        <4>1. \A i \in Keys : record'[i].id = record'[j].id => i = j
          BY <3>1, <2>1, <2>2, <2>3, Zenon
        <4>2. record'[j].status # "COMPLETED"
          BY Zenon, <3>1, <2>2
        <4> QED
          BY <4>1, <4>2, Zenon DEF RowAnswers
      <3>2. CASE j # k
        <4>1. RowAnswers(j) /\ record'[j] = record[j]
          BY <3>2, <2>1, Zenon DEF IInv
        <4>2. record[j].id # 0 => \A i \in Keys : record'[i].id = record[j].id => i = j
          BY <4>1, <2>1, <2>2, <2>3, ZenonT(60) DEF RowAnswers
        <4> QED
          BY <4>1, <4>2, Zenon DEF RowAnswers
      <3> QED
        BY Zenon, <3>1, <3>2
    <2>5. ClaimHolds(r)'
      <3>1. Running(r)' /\ claimed'[r] # 0
        BY Zenon, <2>1 DEF Running
      <3>2. \A s \in Requests : claimed'[s] = claimed'[r] => s = r
        BY <2>1, <2>3, Zenon
      <3>3. \A j \in Keys : record'[j].id = claimed'[r] => j = k
        BY <2>1, <2>3, Zenon
      <3>4. Owns(r)'
        BY <2>1, <2>2, Zenon DEF Owns, k
      <3> QED
        BY <3>1, <3>2, <3>3, <3>4, <2>2, <1>1, <1>c, Zenon DEF ClaimHolds, k
    <2>6. ASSUME NEW s \in Requests, s # r PROVE ClaimHolds(s)'
      <3>a. ClaimHolds(s) /\ claimed'[s] = claimed[s] /\ (Running(s)' <=> Running(s))
        BY <2>6, <2>1, <1>c, Zenon DEF IInv, Running
      <3>1. \A u \in Requests : claimed'[s] # 0 /\ claimed'[u] = claimed'[s] => u = s
        BY <3>a, <2>6, <2>1, <2>3, Zenon DEF ClaimHolds
      <3>2. ASSUME NEW j \in Keys, claimed'[s] # 0, record'[j].id = claimed'[s]
            PROVE  j # k
        BY <3>2, <3>a, <2>2, <2>3, Zenon
      <3>3. ASSUME claimed[s] # 0, age[s] < LockTtl PROVE key[s] # k
        <4> SUFFICES ASSUME key[s] = k PROVE FALSE
          OBVIOUS
        <4>1. record[k].id = claimed[s] /\ record[k].status = "IN_PROGRESS" /\ record[k].age = age[s]
          BY <3>3, <3>a, <1>a, Zenon DEF ClaimHolds, Owns
        <4>2. record[k].id = seen[r] /\ seen[r] # 0
          BY <4>1, <3>3, <1>1, Zenon
        <4>3. record[k].age >= KeyTtl \/ record[k].age >= LockTtl
          BY <4>2, <1>a, Zenon DEF IInv, SeenIsReusable
        <4>4. record[k].age \in Nat
          BY <4>2, <1>a, RowType, Zenon
        <4> QED
          BY SMTT(30), <4>1, <4>3, <4>4, <3>3, Settings
      <3>4. key[s] \in Keys
        BY Settings, Zenon
      <3>5. claimed'[s] # 0 /\ age'[s] < LockTtl => Owns(s)'
        BY <3>a, <3>3, <3>4, <2>1, <1>1, Zenon DEF ClaimHolds, Owns
      <3>6. ASSUME NEW j \in Keys, claimed'[s] # 0, record'[j].id = claimed'[s]
            PROVE  /\ j = key[s] /\ record'[j].request_fingerprint = body'[s]
                   /\ record'[j].age < LockTtl \/ age'[s] < LockTtl => record'[j].age = age'[s]
        <4>1. record'[j] = record[j]
          BY <3>2, <3>6, <2>1, Zenon
        <4> QED
          BY <4>1, <3>6, <3>a, <1>1, <1>c, Zenon DEF ClaimHolds
      <3> QED
        BY <3>a, <3>1, <3>5, <3>6, Zenon DEF ClaimHolds
    <2>7. ASSUME NEW s \in Requests PROVE SeenIsReusable(s)'
      <3>1. CASE s = r
        BY <3>1, <1>c, Zenon DEF SeenIsReusable
      <3>2. CASE s # r
        <4>1. SeenIsReusable(s) /\ seen'[s] = seen[s]
          BY <3>2, <1>c, Zenon DEF IInv
        <4>2. \A j \in Keys : record'[j].id = seen[s] => record'[j] = record[j]
          BY <2>1, <2>2, <2>3, Zenon
        <4> QED
          BY <4>1, <4>2, Zenon DEF SeenIsReusable
      <3> QED
        BY Zenon, <3>1, <3>2
    <2> QED
      BY <2>4, <2>5, <2>6, <2>7, Zenon DEF Tables
  <1>2. CASE Goto(r, "winner") /\ age' = [age EXCEPT ![r] = 0] /\ UNCHANGED <<record, claimed>>
    <2>1. \A s \in Requests \ {r} : age'[s] = age[s]
      BY Zenon, <1>2, <1>a DEF TypeOK
    <2>2. \A s \in Requests : Running(s)' <=> Running(s)
      BY Zenon, <1>2, <1>a, <1>b, GotoKeepsRunning
    <2>3. \A j \in Keys : RowAnswers(j)'
      BY <1>2, Zenon DEF IInv, RowAnswers
    <2>4. ASSUME NEW s \in Requests PROVE ClaimHolds(s)'
      <3>1. ClaimHolds(s)
        BY Zenon DEF IInv
      <3>2. CASE s = r
        BY <3>1, <3>2, <1>2, <1>b, <1>c, <2>2, Zenon DEF ClaimHolds
      <3>3. CASE s # r
        BY <3>1, <3>3, <1>2, <1>c, <2>1, <2>2, ZenonT(60) DEF ClaimHolds, Owns
      <3> QED
        BY Zenon, <3>2, <3>3
    <2>5. \A s \in Requests : SeenIsReusable(s)'
      BY <1>2, <1>c, ZenonT(60) DEF IInv, SeenIsReusable
    <2> QED
      BY <2>3, <2>4, <2>5, Zenon DEF Tables
  <1> QED
    BY <1>1, <1>2, Zenon DEF ClaimInsert

\* A request that ends gives up its id; the row it may have changed was its
\* own, so that nobody else's claim is touched.
LEMMA EndStep ==
  ASSUME IInv, NEW r \in Requests, Complete(r) \/ Release(r) \/ Crash(r)
  PROVE  Tables'
  <1> DEFINE k == key[r]
  <1>a. TypeOK /\ k \in Keys
    BY Settings, Zenon DEF IInv
  <1>c. /\ \A s \in Requests \ {r} : /\ pc'[s] = pc[s] /\ claimed'[s] = claimed[s]
                                     /\ age'[s] = age[s]
        /\ claimed'[r] = 0 /\ body' = body /\ pc'[r] \in {"unlock", "done"}
    BY SMTT(30), <1>a DEF Complete, Release, Crash, TypeOK, Goto
  <1>d. \A s \in Requests : seen'[s] \in {0, seen[s]}
    BY Zenon, <1>a DEF Complete, Release, Crash, TypeOK
  <1>1. /\ \A j \in Keys \ {k} : record'[j] = record[j]
        /\ \/ record'[k] = record[k]
           \/ /\ Owns(r) /\ claimed[r] # 0 /\ pc[r] = "store"
              /\ record'[k] = Stored(record[k], result[r])
           \/ Owns(r) /\ claimed[r] # 0 /\ record'[k] = NoRow
    <2>1. Running(r) => claimed[r] # 0
      BY Zenon DEF IInv, ClaimHolds
    <2>2. CASE Complete(r)
      <3>1. claimed[r] # 0 /\ pc[r] = "store"
        BY Zenon, <2>1, <2>2 DEF Complete, Running
      <3> QED
        BY Zenon, <2>2, <3>1, <1>a DEF Complete, TypeOK
    <2>3. CASE Release(r)
      <3>1. claimed[r] # 0
        BY Zenon, <2>1, <2>3 DEF Release, Running
      <3> QED
        BY Zenon, <2>3, <3>1, <1>a DEF Release, TypeOK
    <2>4. CASE Crash(r)
      BY <2>4, Zenon DEF Crash
    <2> QED
      BY <2>2, <2>3, <2>4, Zenon
  <1>2. ASSUME Owns(r), claimed[r] # 0
        PROVE  /\ record[k] \in Rows /\ record[k].id = claimed[r] /\ record[k].id # 0
               /\ record[k].request_fingerprint = body[r] /\ record[k].age \in Nat
    <2>1. record[k].id = claimed[r]
      BY <1>2, Zenon DEF Owns
    <2>2. ClaimHolds(r)
      BY Zenon DEF IInv
    <2>3. record[k].request_fingerprint = body[r]
      BY <1>2, <1>a, <2>1, <2>2, Zenon DEF ClaimHolds
    <2>4. record[k] \in Rows /\ record[k].age \in Nat
      BY <1>2, <1>a, <2>1, RowType, Zenon
    <2> QED
      BY <1>2, <2>1, <2>3, <2>4, Zenon
  <1>3. ASSUME Owns(r), claimed[r] # 0
        PROVE  LET new == Stored(record[k], result[r]) IN
               /\ new.id = record[k].id /\ new.request_fingerprint = record[k].request_fingerprint
               /\ new.status = "COMPLETED" /\ new.age = record[k].age
               /\ new.response = result[r]
    BY Zenon, <1>2, <1>3 DEF Stored, Rows
  <1>4. ASSUME Owns(r), claimed[r] # 0, record[k].age >= LockTtl
        PROVE  ~Stored(record[k], result[r]).prompt
    <2>1. ~(record[k].age < LockTtl)
      BY SMTT(30), <1>2, <1>4, Settings
    <2>2. Stored(record[k], result[r]).prompt = (record[k].age < LockTtl)
      BY <1>2, <1>4, Zenon DEF Stored, Rows
    <2> QED
      BY <2>1, <2>2, Zenon
  <1>5. NoRow.id = 0
    BY Zenon DEF NoRow
  <1>e. \A j \in Keys : record'[j].id # 0 =>
            /\ record'[j].id = record[j].id
            /\ record'[j].request_fingerprint = record[j].request_fingerprint
            /\ record'[j].age = record[j].age
    <2> HIDE DEF k
    <2> QED
      BY <1>1, <1>3, <1>5, Zenon
  <1> HIDE DEF k
  <1>6. ASSUME NEW j \in Keys PROVE RowAnswers(j)'
    <2>1. RowAnswers(j)
      BY Zenon DEF IInv
    <2>2. record'[j].id # 0 => \A i \in Keys : record'[i].id = record'[j].id => i = j
      BY <2>1, <1>e, Zenon DEF RowAnswers
    <2>3. CASE record'[j] = record[j]
      BY <2>1, <2>2, <2>3, Zenon DEF RowAnswers
    <2>4. CASE record'[j] # record[j]
      <3>1. CASE record'[j].id = 0
        BY <3>1, Zenon DEF RowAnswers
      <3>2. CASE record'[j].id # 0
        <4>1. /\ j = k /\ Owns(r) /\ claimed[r] # 0 /\ pc[r] = "store"
              /\ record'[k] = Stored(record[k], result[r])
          BY <2>4, <3>2, <1>1, <1>5, Zenon
        <4>2. result[r].asked = body[r]
          BY <4>1, Zenon DEF IInv, SpeaksOfItsBody
        <4>3. record'[j].response = result[r] /\ record'[j].request_fingerprint = body[r]
          BY <4>1, <1>2, <1>3, Zenon
        <4> QED
          BY <4>2, <4>3, <2>2, Zenon DEF RowAnswers
      <3> QED
        BY Zenon, <3>1, <3>2
    <2> QED
      BY Zenon, <2>3, <2>4
  <1>7. ASSUME NEW s \in Requests PROVE ClaimHolds(s)'
    <2>a. ClaimHolds(s)
      BY Zenon DEF IInv
    <2>1. CASE s = r
      <3>1. ~Running(r)'
        BY Zenon, <1>c DEF Running
      <3> QED
        BY <3>1, <2>1, <1>c, Zenon DEF ClaimHolds
    <2>2. CASE s # r
      <3>1. claimed'[s] = claimed[s] /\ age'[s] = age[s] /\ (Running(s)' <=> Running(s))
        BY <2>2, <1>c, Zenon DEF Running
      <3>2. \A u \in Requests : claimed'[s] # 0 /\ claimed'[u] = claimed'[s] => u = s
        BY <2>a, <3>1, <1>c, Zenon DEF ClaimHolds
      <3>3. \A j \in Keys : claimed'[s] # 0 /\ record'[j].id = claimed'[s] =>
                /\ j = key[s] /\ record'[j].request_fingerprint = body'[s]
                /\ record'[j].age < LockTtl \/ age'[s] < LockTtl => record'[j].age = age'[s]
        BY <2>a, <3>1, <1>c, <1>e, Zenon DEF ClaimHolds
      <3>4. ASSUME claimed[s] # 0, age[s] < LockTtl PROVE Owns(s)'
        <4>1. Owns(s) /\ key[s] \in Keys
          BY <3>4, <2>a, Settings, Zenon DEF ClaimHolds
        <4>2. record'[key[s]] = record[key[s]]
          BY <4>1, <3>4, <2>2, <2>a, <1>1, Zenon DEF Owns, ClaimHolds, k
        <4> QED
          BY <4>1, <4>2, <3>1, Zenon DEF Owns
      <3> QED
        BY <2>a, <3>1, <3>2, <3>3, <3>4, Zenon DEF ClaimHolds
    <2> QED
      BY Zenon, <2>1, <2>2
  <1>8. ASSUME NEW s \in Requests PROVE SeenIsReusable(s)'
    <2> SUFFICES ASSUME NEW j \in Keys, seen'[s] # 0, record'[j].id = seen'[s]
                 PROVE  \/ record'[j].age >= KeyTtl
                        \/ /\ record'[j].age >= LockTtl
                           /\ record'[j].status = "COMPLETED" => ~record'[j].prompt
      BY Zenon DEF SeenIsReusable
    <2>1. /\ seen[s] # 0 /\ record[j].id = seen[s] /\ record'[j].age = record[j].age
          /\ SeenIsReusable(s)
      BY <1>d, <1>e, Zenon DEF IInv
    <2>2. CASE record'[j] = record[j]
      BY <2>1, <2>2, Zenon DEF SeenIsReusable
    <2>3. CASE record'[j] # record[j]
      <3>1. j = k /\ Owns(r) /\ claimed[r] # 0 /\ record'[k] = Stored(record[k], result[r])
        BY <2>1, <2>3, <1>1, <1>5, Zenon
      <3> QED
        BY <3>1, <2>1, <1>4, Zenon DEF SeenIsReusable
    <2> QED
      BY Zenon, <2>2, <2>3
  <1> QED
    BY <1>6, <1>7, <1>8, Zenon DEF Tables

\* Expiry, the reversal of a transfer and a restart of Redis.
LEMMA KeyStep ==
  ASSUME IInv, NEW k \in Keys, Return(k) \/ RedisForgets(k) \/ delete_expired_keys(k)
  PROVE  Tables' /\ \A r \in Requests : SpeaksOfItsBody(r)'
  <1>a. TypeOK
    BY Zenon DEF IInv
  <1>b. UNCHANGED <<body, pc, claimed, seen, age, result, answer>>
    BY Zenon DEF Return, RedisForgets, delete_expired_keys, claim, said
  <1>1. \A r \in Requests : SpeaksOfItsBody(r)'
    BY <1>b, Zenon DEF IInv, SpeaksOfItsBody
  <1>2. CASE Return(k) \/ RedisForgets(k)
    <2>1. Frame /\ \A r \in Requests : Running(r)' <=> Running(r)
      BY <1>2, <1>b, Zenon DEF Return, RedisForgets, Frame, Running
    <2> QED
      BY <1>1, <1>b, <2>1, FrameKeeps, Zenon DEF Tables
  <1>3. CASE delete_expired_keys(k)
    <2>1. /\ record'[k].id = 0 /\ \A j \in Keys \ {k} : record'[j] = record[j]
          /\ record[k].id # 0 /\ record[k].age >= KeyTtl
      BY Zenon, <1>3, <1>a DEF delete_expired_keys, TypeOK, NoRow
    <2>2. \A j \in Keys : record'[j].id # 0 => record'[j] = record[j]
      BY <2>1, Zenon
    <2>3. ASSUME NEW j \in Keys PROVE RowAnswers(j)'
      <3>1. RowAnswers(j)
        BY Zenon DEF IInv
      <3> QED
        BY <3>1, <2>2, Zenon DEF RowAnswers
    <2>4. ASSUME NEW r \in Requests PROVE ClaimHolds(r)'
      <3>a. ClaimHolds(r) /\ key[r] \in Keys
        BY Settings, Zenon DEF IInv
      <3>1. ASSUME claimed[r] # 0, age[r] < LockTtl PROVE Owns(r)'
        <4>1. Owns(r) /\ record[key[r]].age = age[r]
          BY <3>1, <3>a, Zenon DEF ClaimHolds, Owns
        <4>2. key[r] # k
          BY SMTT(30), <4>1, <3>1, <2>1, <1>a, RowType, Settings
        <4> QED
          BY <4>1, <4>2, <3>a, <2>1, <1>b, Zenon DEF Owns
      <3>2. \A j \in Keys : claimed[r] # 0 /\ record'[j].id = claimed[r] => record'[j] = record[j]
        BY <2>2, Zenon
      <3> QED
        BY <3>a, <3>1, <3>2, <1>b, Zenon DEF ClaimHolds, Running
    <2>5. ASSUME NEW r \in Requests PROVE SeenIsReusable(r)'
      <3>1. SeenIsReusable(r)
        BY Zenon DEF IInv
      <3>2. \A j \in Keys : seen[r] # 0 /\ record'[j].id = seen[r] => record'[j] = record[j]
        BY <2>2, Zenon
      <3> QED
        BY <3>1, <3>2, <1>b, Zenon DEF SeenIsReusable
    <2> QED
      BY <1>1, <2>3, <2>4, <2>5, Zenon DEF Tables
  <1> QED
    BY <1>2, <1>3, Zenon

\* Rows and claims grow older together.
LEMMA TickStep ==
  ASSUME IInv, Tick
  PROVE  Tables' /\ \A r \in Requests : SpeaksOfItsBody(r)'
  <1>a. TypeOK
    BY Zenon DEF IInv
  <1>b. UNCHANGED <<body, pc, claimed, seen, result, answer>>
    BY Zenon DEF Tick, said
  <1>1. \A r \in Requests : SpeaksOfItsBody(r)'
    BY <1>b, Zenon DEF IInv, SpeaksOfItsBody
  <1>2. ASSUME NEW k \in Keys
        PROVE  /\ record'[k].id = record[k].id
               /\ record[k].id # 0 =>
                     /\ record'[k].request_fingerprint = record[k].request_fingerprint
                     /\ record'[k].status = record[k].status
                     /\ record'[k].response = record[k].response
                     /\ record'[k].age = Older(record[k].age, KeyTtl)
    <2>1. CASE record[k].id = 0
      BY Zenon, <2>1 DEF Tick, NoRow
    <2>2. CASE record[k].id # 0
      <3>1. /\ record[k] \in Rows
            /\ record'[k] = [record[k] EXCEPT !.age = Older(record[k].age, KeyTtl)]
        BY Zenon, <2>2, <1>a, RowType DEF Tick
      <3> QED
        BY Zenon, <3>1 DEF Rows
    <2> QED
      BY Zenon, <2>1, <2>2
  <1>3. ASSUME NEW k \in Keys, record[k].id # 0 PROVE record'[k].prompt = record[k].prompt
    <2>1. record[k] \in Rows
      BY <1>3, <1>a, RowType, Zenon
    <2>2. record'[k] = [record[k] EXCEPT !.age = Older(record[k].age, KeyTtl)]
      BY <1>3, Zenon DEF Tick
    <2> QED
      BY <2>1, <2>2, Zenon DEF Rows
  <1>4. ASSUME NEW k \in Keys, record[k].id # 0, NEW n \in Nat, n <= KeyTtl, record[k].age >= n
        PROVE  record'[k].age >= n
    BY SMTT(30), <1>2, <1>4, <1>a, RowType, Settings DEF Older
  <1>5. ASSUME NEW k \in Keys PROVE RowAnswers(k)'
    <2>1. RowAnswers(k)
      BY Zenon DEF IInv
    <2> QED
      BY <2>1, <1>2, Zenon DEF RowAnswers
  <1>6. ASSUME NEW r \in Requests PROVE ClaimHolds(r)'
    <2>a. ClaimHolds(r) /\ key[r] \in Keys /\ age[r] \in Nat
      BY SMTT(30), <1>a, Settings DEF IInv, TypeOK
    <2>b. claimed[r] # 0 => age'[r] = Older(age[r], LockTtl)
      BY Zenon, <2>a DEF Tick, ClaimHolds, Running
    <2>c. claimed[r] # 0 /\ age'[r] < LockTtl => age[r] < LockTtl
      BY Zenon, <2>a, <2>b, Settings DEF Older
    <2>1. ASSUME NEW j \in Keys, claimed[r] # 0, record[j].id = claimed[r],
                 record'[j].age < LockTtl \/ age'[r] < LockTtl
          PROVE  record'[j].age = age'[r]
      <3>1. record[j].age \in Nat /\ record'[j].age = Older(record[j].age, KeyTtl)
        BY <2>1, <1>2, <1>a, RowType, Zenon
      <3>2. record[j].age < LockTtl \/ age[r] < LockTtl => record[j].age = age[r]
        BY <2>1, <2>a, Zenon DEF ClaimHolds
      <3> QED
        BY SMTT(30), <2>1, <2>a, <2>b, <3>1, <3>2, Settings DEF Older
    <2>2. ASSUME claimed[r] # 0, age'[r] < LockTtl PROVE Owns(r)'
      <3>1. Owns(r)
        BY <2>2, <2>a, <2>c, Zenon DEF ClaimHolds
      <3> QED
        BY <3>1, <2>2, <2>a, <1>2, <1>b, Zenon DEF Owns
    <2>3. \A j \in Keys : claimed[r] # 0 /\ record'[j].id = claimed[r] =>
              j = key[r] /\ record'[j].request_fingerprint = body[r] /\ record[j].id = claimed[r]
      BY <2>a, <1>2, Zenon DEF ClaimHolds
    <2> QED
      BY <2>a, <2>1, <2>2, <2>3, <1>b, Zenon DEF ClaimHolds, Running
  <1>7. ASSUME NEW r \in Requests PROVE SeenIsReusable(r)'
    <2> SUFFICES ASSUME NEW j \in Keys, seen[r] # 0, record[j].id = seen[r]
                 PROVE  \/ record'[j].age >= KeyTtl
                        \/ /\ record'[j].age >= LockTtl
                           /\ record'[j].status = "COMPLETED" => ~record'[j].prompt
      BY <1>b, <1>2, Zenon DEF SeenIsReusable
    <2>1. \/ record[j].age >= KeyTtl
          \/ /\ record[j].age >= LockTtl
             /\ record[j].status = "COMPLETED" => ~record[j].prompt
      BY Zenon DEF IInv, SeenIsReusable
    <2>2. record'[j].status = record[j].status /\ record'[j].prompt = record[j].prompt
      BY <1>2, <1>3, Zenon
    <2>3. /\ record[j].age >= KeyTtl => record'[j].age >= KeyTtl
          /\ record[j].age >= LockTtl => record'[j].age >= LockTtl
      BY SMTT(30), <1>4, Settings
    <2> QED
      BY <2>1, <2>2, <2>3, Zenon
  <1> QED
    BY <1>1, <1>5, <1>6, <1>7, Zenon DEF Tables
-----------------------------------------------------------------------------
\* Every step keeps the invariant.
LEMMA NextIInv == IInv /\ [Next]_vars => IInv'
  <1> SUFFICES ASSUME IInv, [Next]_vars PROVE IInv'
    OBVIOUS
  <1>a. TypeOK
    BY Zenon DEF IInv
  <1>1. ASSUME NEW r \in Requests, Step(r) \/ ClaimFails(r) \/ HandlerRaises(r) \/ Crash(r)
        PROVE  IInv'
    <2>1. TypeOK'
      BY <1>1, <1>a, LockType, AnswerType, HandlerType, ClaimType, EndType, Zenon DEF Step
    <2>2. Tables'
      BY <1>1, QuietStep, LoadStep, InsertStep, EndStep, Zenon DEF Step
    <2>3. \A s \in Requests : SpeaksOfItsBody(s)'
      BY <1>1, SpeakStep, Zenon
    <2> QED
      BY <2>1, <2>2, <2>3, Zenon DEF IInv, Tables
  <1>2. ASSUME NEW k \in Keys, Return(k) \/ delete_expired_keys(k) \/ RedisForgets(k)
        PROVE  IInv'
    BY <1>2, <1>a, KeyType, KeyStep, Zenon DEF IInv, Tables
  <1>3. CASE Tick
    BY <1>3, <1>a, TickType, TickStep, Zenon DEF IInv, Tables
  <1>4. CASE UNCHANGED vars
    <2>1. /\ Frame /\ UNCHANGED <<seen, pc, result, answer>>
          /\ UNCHANGED <<lock, token, transfer, balance, faults>>
      BY <1>4, Zenon DEF vars, redis, claim, said, ledger, Frame
    <2>2. TypeOK' /\ \A r \in Requests : Running(r)' <=> Running(r)
      BY <2>1, <1>a, Zenon DEF TypeOK, Running, Frame
    <2>3. \A r \in Requests : SpeaksOfItsBody(r)'
      BY <2>1, Zenon DEF IInv, SpeaksOfItsBody, Frame
    <2> QED
      BY <2>1, <2>2, <2>3, FrameKeeps, Zenon DEF IInv
  <1> QED
    BY <1>1, <1>2, <1>3, <1>4, Zenon DEF Next

\* The invariant holds in every reachable state.
LEMMA Inductive == Spec => []IInv
  BY InitIInv, NextIInv, PTL DEF Spec
-----------------------------------------------------------------------------
\* begin, complete and release keep one handler of a key running at a time,
\* also when Redis loses the lock or never gave one.
THEOREM HandlerRunsAlone == Spec => []RunsAlone
  <1>1. ASSUME IInv PROVE RunsAlone
    <2> SUFFICES ASSUME NEW r \in Requests, NEW s \in Requests, r # s, key[r] = key[s],
                        Running(r), Running(s), ~(age[r] >= LockTtl), ~(age[s] >= LockTtl)
                 PROVE  FALSE
      BY Zenon DEF RunsAlone
    <2>1. age[r] < LockTtl /\ age[s] < LockTtl
      BY SMTT(30), <1>1, Settings DEF IInv, TypeOK
    <2>2. claimed[r] # 0 /\ claimed[s] # 0 /\ Owns(r) /\ Owns(s)
      BY <1>1, <2>1, Zenon DEF IInv, ClaimHolds
    <2>3. claimed[r] = claimed[s]
      BY <2>2, Zenon DEF Owns
    <2> QED
      BY <1>1, <2>2, <2>3, Zenon DEF IInv, ClaimHolds
  <1> QED
    BY <1>1, Inductive, PTL

\* _classify never replays the response to another body.
THEOREM ReplayIsOwn == Spec => []ReplayAnswersTheRequest
  <1>1. IInv => ReplayAnswersTheRequest
    BY Zenon DEF IInv, SpeaksOfItsBody, ReplayAnswersTheRequest
  <1> QED
    BY <1>1, Inductive, PTL

\* Kept(k): what PromptAnswerIsKept asks of one key in one step.
Kept(k) ==
    record[k].id # 0 /\ record[k].status = "COMPLETED"
      /\ record[k].prompt /\ record[k].age < KeyTtl
    => record'[k].id = record[k].id /\ record'[k].response = record[k].response

\* A response that complete stored within the lock TTL is replayed until it
\* expires: no claim, completion, release or cleanup removes it before.
THEOREM PromptAnswerKept == Spec => PromptAnswerIsKept
  <1>1. ASSUME IInv, [Next]_vars, NEW k \in Keys PROVE Kept(k)
    <2> SUFFICES ASSUME record[k].id # 0, record[k].status = "COMPLETED",
                        record[k].prompt, record[k].age < KeyTtl
                 PROVE  record'[k].id = record[k].id /\ record'[k].response = record[k].response
      BY Zenon DEF Kept
    <2>a. TypeOK /\ record[k] \in Rows /\ record[k].age \in Nat
      BY <1>1, RowType, Zenon DEF IInv
    <2>1. ASSUME NEW r \in Requests, ClaimInsert(r) PROVE record'[k] = record[k]
      <3>1. ASSUME key[r] = k PROVE record[k].id # seen[r]
        <4> SUFFICES ASSUME record[k].id = seen[r] PROVE FALSE
          OBVIOUS
        <4>1. record[k].age >= KeyTtl
          BY <1>1, Zenon DEF IInv, SeenIsReusable
        <4> QED
          BY SMTT(30), <4>1, <2>a, Settings
      <3> QED
        BY Zenon, <2>1, <2>a, <3>1, Settings DEF ClaimInsert, TypeOK
    <2>2. ASSUME NEW r \in Requests, Complete(r) \/ Release(r) PROVE record'[k] = record[k]
      <3>1. ASSUME Owns(r) PROVE key[r] # k
        BY Zenon, <3>1 DEF Owns
      <3> QED
        BY Zenon, <2>2, <2>a, <3>1, Settings DEF Complete, Release, TypeOK
    <2>3. ASSUME NEW j \in Keys, delete_expired_keys(j) PROVE record'[k] = record[k]
      BY SMTT(30), <2>3, <2>a, Settings DEF delete_expired_keys, TypeOK
    <2>4. CASE Tick
      <3>1. record'[k] = [record[k] EXCEPT !.age = Older(record[k].age, KeyTtl)]
        BY <2>4, Zenon DEF Tick
      <3> QED
        BY <3>1, <2>a, ZenonT(60) DEF Rows
    <2>5. CASE record' = record
      BY <2>5, Zenon
    <2>6. ASSUME NEW r \in Requests,
                 Step(r) \/ ClaimFails(r) \/ HandlerRaises(r) \/ Crash(r),
                 ~(ClaimInsert(r) \/ Complete(r) \/ Release(r))
          PROVE  record' = record
      BY <2>6, Zenon DEF Step, AcquireLock, AnswerBlocked, ClaimLoad, ReadWinner, Refuse,
                         Debit, Details, ReleaseLock, Retry, ClaimFails, HandlerRaises, Crash
    <2>7. ASSUME NEW j \in Keys, Return(j) \/ RedisForgets(j) PROVE record' = record
      BY <2>7, Zenon DEF Return, RedisForgets
    <2>8. CASE UNCHANGED vars
      BY <2>8, <2>5, Zenon DEF vars
    <2> QED
      BY <1>1, <2>1, <2>2, <2>3, <2>4, <2>5, <2>6, <2>7, <2>8, Zenon DEF Next
  <1>2. IInv /\ [Next]_vars => [\A k \in Keys : Kept(k)]_vars
    BY <1>1, Zenon
  <1>3. Spec => [][\A k \in Keys : Kept(k)]_vars
    BY <1>2, Inductive, PTL DEF Spec
  <1> QED
    BY <1>3, Zenon DEF Kept, PromptAnswerIsKept

-----------------------------------------------------------------------------
(* The sum of the points that are out *)

\* What one transfer has taken, and what every transfer has.
Points(row) == IF row.funds = "debited" THEN points[row.of] ELSE 0
PointsOf(f) == [k \in Keys |-> Points(f[k])]

\* Without a transfer the points are with the user.
LEMMA NoTransferFunds == NoTransfer.funds = "with_user"
  BY Zenon DEF NoTransfer

\* What a transfer has taken is a number.
LEMMA PointsType ==
  ASSUME NEW row \in Transfers \cup {NoTransfer}
  PROVE  Points(row) \in Int
  <1>1. ASSUME row.funds = "debited" PROVE points[row.of] \in Int
    <2>1. row \in Transfers
      BY Zenon, <1>1, NoTransferFunds
    <2>2. row.of \in Bodies
      BY Zenon, <2>1 DEF Transfers
    <2>3. points[row.of] \in Nat
      BY Zenon, <2>2, IdempotencyAssumption
    <2> QED  BY SMTT(30), <2>3
  <1>2. 0 \in Int
    BY SMTT(30)
  <1> QED  BY Zenon, <1>1, <1>2 DEF Points

\* One key's transfer changes what it has taken: the sum changes by as much.
LEMMA PointsChange ==
  ASSUME NEW f \in [Keys -> Transfers \cup {NoTransfer}],
         NEW g \in [Keys -> Transfers \cup {NoTransfer}],
         NEW k \in Keys, \A j \in Keys \ {k} : g[j] = f[j]
  PROVE  /\ SumFunction(PointsOf(f)) \in Int
         /\ SumFunction(PointsOf(g)) =
              SumFunction(PointsOf(f)) + (Points(g[k]) - Points(f[k]))
  <1>1. PointsOf(f) \in [Keys -> Int] /\ PointsOf(g) \in [Keys -> Int]
    BY Zenon, PointsType DEF PointsOf
  <1>2. /\ PointsOf(f)[k] = Points(f[k]) /\ PointsOf(g)[k] = Points(g[k])
        /\ \A j \in Keys \ {k} : PointsOf(g)[j] = PointsOf(f)[j]
    BY Zenon DEF PointsOf
  <1>3. SumFunction(PointsOf(g)) =
          SumFunction(PointsOf(f)) + (PointsOf(g)[k] - PointsOf(f)[k])
    <2>1. IsFiniteSet(Keys)
      BY Zenon, IdempotencyAssumption
    <2>2. PICK u \in [Keys -> Int], v \in [Keys -> Int] :
            u = PointsOf(f) /\ v = PointsOf(g)
      BY Zenon, <1>1
    <2>3. \A j \in Keys \ {k} : v[j] = u[j]
      BY Zenon, <1>2, <2>2
    <2>4. SumFunction(v) = SumFunction(u) + (v[k] - u[k])
      BY Zenon, <2>1, <2>3, SumChange
    <2> QED  BY Zenon, <2>2, <2>4
  <1> QED  BY Zenon, <1>1, <1>2, <1>3, IdempotencyAssumption, SumType

\* A step that moves what one key's transfer takes between it and the balance.
LEMMA PointsMove ==
  ASSUME TypeOK, TypeOK', PointsMovedOnce, NEW k \in Keys,
         \A j \in Keys \ {k} : transfer'[j] = transfer[j],
         balance' = balance + (Points(transfer[k]) - Points(transfer'[k]))
  PROVE  PointsMovedOnce'
  <1>t. /\ transfer \in [Keys -> Transfers \cup {NoTransfer}]
        /\ transfer' \in [Keys -> Transfers \cup {NoTransfer}] /\ balance \in Int
    BY Zenon DEF TypeOK
  <1>1. PICK s \in Int, a \in Int, b \in Int :
          /\ s = SumFunction(PointsOf(transfer))
          /\ a = Points(transfer[k]) /\ b = Points(transfer'[k])
    <2>1. SumFunction(PointsOf(transfer)) \in Int
      BY Zenon, <1>t, PointsChange
    <2>2. Points(transfer[k]) \in Int /\ Points(transfer'[k]) \in Int
      BY Zenon, <1>t, PointsType
    <2> QED  BY Zenon, <2>1, <2>2
  <1>2. SumFunction(PointsOf(transfer')) = s + (b - a)
    BY Zenon, <1>t, <1>1, PointsChange
  <1>3. balance' = balance + (a - b) /\ balance + s = OpeningBalance
    BY Zenon, <1>1 DEF PointsMovedOnce, Taken, PointsOf, Points
  <1>4. balance' + SumFunction(PointsOf(transfer')) = balance + s
    BY SMTT(30), <1>t, <1>1, <1>2, <1>3
  <1> QED  BY Zenon, <1>3, <1>4 DEF PointsMovedOnce, Taken, PointsOf, Points

\* Debit takes a key's points only when the key has no transfer yet, and Return
\* gives them back only once.
LEMMA PointsStep ==
  ASSUME TypeOK, TypeOK', PointsMovedOnce, [Next]_vars
  PROVE  PointsMovedOnce'
  <1>t. transfer \in [Keys -> Transfers \cup {NoTransfer}] /\ balance \in Int
    BY Zenon DEF TypeOK
  <1>0. ASSUME UNCHANGED ledger PROVE PointsMovedOnce'
    BY Zenon, <1>0 DEF ledger, PointsMovedOnce, Taken
  <1>n. Points(NoTransfer) = 0
    BY Zenon DEF Points, NoTransfer
  <1>1. ASSUME NEW r \in Requests, Debit(r) PROVE PointsMovedOnce'
    <2> DEFINE k == key[r]
               row == [funds |-> "debited", of |-> body[r]]
    <2>1. k \in Keys /\ body[r] \in Bodies
      BY Zenon, Settings DEF TypeOK
    <2>2. CASE /\ transfer[k] = NoTransfer
               /\ transfer' = [transfer EXCEPT ![k] = row]
               /\ balance' = balance - points[body[r]]
      <3>1. transfer'[k] = row /\ \A j \in Keys \ {k} : transfer'[j] = transfer[j]
        BY Zenon, <1>t, <2>1, <2>2
      <3>2. Points(row) = points[body[r]]
        BY Zenon DEF Points
      <3>3. points[body[r]] \in Nat
        BY Zenon, <2>1, IdempotencyAssumption
      <3>4. balance' = balance + (Points(transfer[k]) - Points(transfer'[k]))
        <4>1. PICK n \in Nat : n = points[body[r]]
          BY Zenon, <3>3
        <4>2. balance' = balance - n /\ Points(transfer[k]) = 0 /\ Points(transfer'[k]) = n
          BY Zenon, <1>n, <2>2, <3>1, <3>2, <4>1
        <4> QED  BY SMTT(30), <1>t, <4>2
      <3> QED  BY Zenon, <2>1, <3>1, <3>4, PointsMove
    <2>3. CASE UNCHANGED <<transfer, balance>>
      BY Zenon, <1>0, <2>3 DEF ledger
    <2> QED  BY Zenon, <1>1, <2>2, <2>3 DEF Debit
  <1>2. ASSUME NEW k \in Keys, Return(k) PROVE PointsMovedOnce'
    <2>1. /\ transfer[k].funds = "debited"
          /\ transfer' = [transfer EXCEPT ![k] = [transfer[k] EXCEPT !.funds = "returned"]]
          /\ balance' = balance + points[transfer[k].of]
      BY Zenon, <1>2 DEF Return
    <2>2. transfer[k] \in Transfers /\ Points(transfer[k]) \in Int
      BY Zenon, <1>t, <2>1, PointsType, NoTransferFunds
    <2>3. /\ transfer'[k] = [transfer[k] EXCEPT !.funds = "returned"]
          /\ \A j \in Keys \ {k} : transfer'[j] = transfer[j]
      BY Zenon, <1>t, <2>1
    <2>4. transfer'[k].funds = "returned"
      BY SMTT(30), <2>2, <2>3 DEF Transfers
    <2>5. Points(transfer'[k]) = 0 /\ Points(transfer[k]) = points[transfer[k].of]
      BY Zenon, <2>1, <2>4 DEF Points
    <2>6. balance' = balance + (Points(transfer[k]) - Points(transfer'[k]))
      BY SMTT(30), <1>t, <2>1, <2>2, <2>5
    <2> QED  BY Zenon, <2>3, <2>6, PointsMove
  <1>3. ASSUME NEW r \in Requests,
               Step(r) \/ ClaimFails(r) \/ HandlerRaises(r) \/ Crash(r), ~Debit(r)
        PROVE  UNCHANGED ledger
    BY <1>3, Zenon DEF Step, AcquireLock, AnswerBlocked, ClaimLoad, ClaimInsert, ReadWinner,
                       Refuse, Details, Complete, Release, ReleaseLock, Retry, ClaimFails,
                       HandlerRaises, Crash
  <1>4. ASSUME NEW k \in Keys, delete_expired_keys(k) \/ RedisForgets(k)
        PROVE  UNCHANGED ledger
    BY <1>4, Zenon DEF delete_expired_keys, RedisForgets
  <1>5. CASE Tick \/ UNCHANGED vars
    BY <1>0, <1>5, Zenon DEF Tick, vars
  <1> QED
    BY <1>0, <1>1, <1>2, <1>3, <1>4, <1>5, Zenon DEF Next

\* However often a key's handler runs (after a lost lock, a crash, a released
\* record or an expired one), the account pays for the key once: create_transfer
\* debits under the unique key of transfers, and a reversal returns it once.
THEOREM KeyPaysOnce == Spec => []PointsMovedOnce
  <1>1. ASSUME Init PROVE PointsMovedOnce
    <2>1. Taken \in [Keys -> Int] /\ \A k \in Keys : Taken[k] = 0
      <3>1. 0 \in Int
        BY SMTT(30)
      <3> QED  BY Zenon, <1>1, <3>1 DEF Init, Taken, NoTransfer
    <2>2. SumFunction(Taken) = 0
      BY Zenon, <2>1, IdempotencyAssumption, SumZero
    <2>3. OpeningBalance + 0 = OpeningBalance
      BY SMTT(30), IdempotencyAssumption
    <2> QED  BY Zenon, <1>1, <2>2, <2>3 DEF Init, PointsMovedOnce
  <1>2. IInv => TypeOK
    BY Zenon DEF IInv
  <1>3. TypeOK /\ TypeOK' /\ PointsMovedOnce /\ [Next]_vars => PointsMovedOnce'
    BY Zenon, PointsStep
  <1> QED
    BY <1>1, <1>2, <1>3, Inductive, PTL DEF Spec

\* Every step of the idempotency layer keeps the types of its rows, locks and
\* answers.
THEOREM IdempotencyTypeCorrect == Spec => []TypeOK
  <1>1. IInv => TypeOK
    BY Zenon DEF IInv
  <1> QED
    BY <1>1, Inductive, PTL
=============================================================================
