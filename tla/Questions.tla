------------------------------ MODULE Questions ------------------------------
(***************************************************************************)
(* POST /ask of the AI service (ai/src/routes/ask.ts, ask_postgres.ts,     *)
(* askAi of claudeService.ts): a question about a few files, with an       *)
(* Idempotency-Key under which the answer is kept for an hour. A user's    *)
(* first question has some files free; the others are paid by a call to    *)
(* the web UI server before the model is asked and given back when the     *)
(* answer does not come. There is no job: the request is the job.          *)
(*                                                                         *)
(* One user. A file costs one unit.                                        *)
(***************************************************************************)
EXTENDS Integers, FiniteSets

CONSTANTS
  Ask,         \* requests
  IdempotencyKey,
  LongKey,     \* the keys too long for ask_generations.id, VARCHAR(36)
  Files,       \* numbers of files a question may have
  FreeFiles,   \* files that a free question does not pay for
  Credits,     \* the user's credits
  NoAsk

ASSUME QuestionsAssumption ==
  LongKey \subseteq IdempotencyKey /\ Files \subseteq Nat /\ FreeFiles \in Nat /\ Credits \in Nat

VARIABLES
  ask,      \* where the handler of each request is: [pc, key, files, cost]
  answers,  \* ask_response_cache: the request whose answer a key has
  log,      \* ask_generations: key -> status
  used,     \* requests that claimed the free question (ask_user_stats)
  funds,    \* the user's credits
  charged,  \* what each request has taken, net of refunds
  blame     \* requests with a fault of their own: a failed call, a stopped process

qvars == <<ask, answers, log, used, funds, charged, blame>>

NewAsk == [pc |-> "new", key |-> NoAsk, files |-> 0, cost |-> 0]

QInit ==
  /\ ask     = [r \in Ask |-> NewAsk]
  /\ answers = [k \in IdempotencyKey |-> NoAsk]
  /\ log     = [k \in IdempotencyKey |-> "none"]
  /\ used    = {}
  /\ funds = Credits
  /\ charged    = [r \in Ask |-> 0]
  /\ blame   = {}

QGoto(r, pc) == ask' = [ask EXCEPT ![r].pc = pc]
Pay(r, n) == funds' = funds - n /\ charged' = [charged EXCEPT ![r] = @ + n]
PayOrNot(r, n) == Pay(r, n) \/ UNCHANGED <<funds, charged>>
Cost(r) == ask[r].cost
Broken(r) == blame' = blame \cup {r}

\* The key is looked up; a lookup that fails counts as a miss. Questions with
\* too many files or without a prompt end here.
QArrive(r, k, n) ==
  /\ ask[r].pc = "new"
  /\ \E pc \in {"refused", "claim"} \cup (IF answers[k] = NoAsk THEN {} ELSE {"cached"}) :
       ask' = [ask EXCEPT ![r] = [pc |-> pc, key |-> k, files |-> n, cost |-> n]]
  /\ UNCHANGED <<answers, log, used, funds, charged, blame>>

\* SELECT ... FOR UPDATE locks nothing while the user has no row.
ClaimFree(r) ==
  /\ ask[r].pc = "claim"
  /\ QGoto(r, IF used = {} THEN "insert" ELSE "deduct")
  /\ UNCHANGED <<answers, log, used, funds, charged, blame>>

Discount(r) == IF ask[r].files < FreeFiles THEN 0 ELSE ask[r].files - FreeFiles

\* The primary key decides between two first questions; the second fails.
InsertStats(r) ==
  /\ ask[r].pc = "insert"
  /\ IF used = {}
     THEN /\ used' = {r}
          /\ ask' = [ask EXCEPT ![r].pc = "deduct", ![r].cost = Discount(r)]
     ELSE QGoto(r, "refused") /\ UNCHANGED used
  /\ UNCHANGED <<answers, log, funds, charged, blame>>

DeductCredits(r) ==
  /\ ask[r].pc = "deduct"
  /\ Pay(r, Cost(r))
  /\ QGoto(r, IF Cost(r) > 0 /\ funds' < 0 THEN "reverse" ELSE "model")
  /\ UNCHANGED <<answers, log, used, blame>>

\* The adjustment fails or times out; it may have been made all the same.
DeductionFails(r) ==
  /\ ask[r].pc = "deduct" /\ Cost(r) > 0
  /\ PayOrNot(r, Cost(r)) /\ QGoto(r, "refused") /\ Broken(r)
  /\ UNCHANGED <<answers, log, used>>

\* Not enough: taken, seen to be negative, given back.
ReverseDeduction(r) ==
  /\ ask[r].pc = "reverse"
  /\ Pay(r, 0 - Cost(r)) /\ QGoto(r, "refused")
  /\ UNCHANGED <<answers, log, used, blame>>

\* mkdirSync throws, after the deduction and before the `try` that refunds: the
\* request fails, and what it paid is gone.
MkdirFails(r) ==
  /\ ask[r].pc = "model"
  /\ QGoto(r, "failed") /\ Broken(r)
  /\ UNCHANGED <<answers, log, used, funds, charged>>

\* The files are written and the model answers, or the one or the other fails,
\* or it refuses or returns no text.
AskAi(r) ==
  /\ ask[r].pc = "model"
  /\ \E pc \in {"cache", "refund"} : QGoto(r, pc)
  /\ UNCHANGED <<answers, log, used, funds, charged, blame>>

CacheAskResponse(r) ==
  /\ ask[r].pc = "cache"
  /\ answers' = [answers EXCEPT ![ask[r].key] = r]
  /\ QGoto(r, "log")
  /\ UNCHANGED <<log, used, funds, charged, blame>>

\* INSERT INTO ask_generations: fails for a key that is there or is too long.
Logs(r, status) ==
  LET k == ask[r].key IN
  IF log[k] = "none" /\ k \notin LongKey THEN log' = [log EXCEPT ![k] = status] ELSE UNCHANGED log

\* Mutant: the request is answered though the INSERT failed and it is refunded.
LogAndRefund(r) ==
  /\ ask[r].pc = "log"
  /\ Logs(r, "success") /\ QGoto(r, "answered")
  /\ (IF log' = log THEN Pay(r, 0 - Cost(r)) ELSE UNCHANGED <<funds, charged>>)
  /\ UNCHANGED <<answers, used, blame>>

CreateAskGeneration(r) ==
  /\ ask[r].pc = "log"
  /\ Logs(r, "success")
  /\ QGoto(r, IF log' = log THEN "refund" ELSE "answered")
  /\ UNCHANGED <<answers, used, funds, charged, blame>>

RefundCredits(r) ==
  /\ ask[r].pc = "refund"
  /\ Pay(r, 0 - Cost(r)) /\ Logs(r, "error") /\ QGoto(r, "failed")
  /\ UNCHANGED <<answers, used, blame>>

\* The result of the refund is not looked at.
RefundFails(r) ==
  /\ ask[r].pc = "refund" /\ Cost(r) > 0
  /\ PayOrNot(r, 0 - Cost(r)) /\ Logs(r, "error") /\ QGoto(r, "failed") /\ Broken(r)
  /\ UNCHANGED <<answers, used>>

\* A statement on the cache or the log fails: the handler's catch refunds.
SaveFails(r) ==
  /\ ask[r].pc \in {"cache", "log"}
  /\ QGoto(r, "refund") /\ Broken(r)
  /\ UNCHANGED <<answers, log, used, funds, charged>>

\* An answer is an hour old; a job deletes such rows every quarter of an hour.
CleanupExpired(k) ==
  /\ answers[k] # NoAsk
  /\ answers' = [answers EXCEPT ![k] = NoAsk]
  /\ UNCHANGED <<ask, log, used, funds, charged, blame>>

Ends == {"cached", "refused", "answered", "failed", "dead"}
Idle == Ends \cup {"new"}

\* The process stops; what its handlers were doing is not taken up again.
StopAsks ==
  LET running == {r \in Ask : ask[r].pc \notin Idle} IN
  /\ ask' = [r \in Ask |-> IF r \in running THEN [ask[r] EXCEPT !.pc = "dead"] ELSE ask[r]]
  /\ blame' = blame \cup running
  /\ UNCHANGED <<answers, log, used, funds, charged>>

AskStep(r) ==
  \/ ClaimFree(r) \/ InsertStats(r) \/ DeductCredits(r) \/ ReverseDeduction(r)
  \/ AskAi(r) \/ CacheAskResponse(r) \/ CreateAskGeneration(r) \/ RefundCredits(r)

AskFault(r) == DeductionFails(r) \/ MkdirFails(r) \/ RefundFails(r) \/ SaveFails(r)

-----------------------------------------------------------------------------

QTypeOK ==
  /\ \A r \in Ask : /\ ask[r].pc \in Idle \cup {"claim", "insert", "deduct", "reverse", "model", "cache", "log", "refund"}
                    /\ ask[r].key \in IdempotencyKey \cup {NoAsk} /\ ask[r].files \in Nat /\ ask[r].cost \in Nat
  /\ answers \in [IdempotencyKey -> Ask \cup {NoAsk}]
  /\ log \in [IdempotencyKey -> {"none", "success", "error"}]
  /\ used \subseteq Ask /\ blame \subseteq Ask
  /\ funds \in Int /\ charged \in [Ask -> Int]

\* Who is answered has paid what the question costs and who is not has paid
\* nothing, whatever the order of requests with the same key, unless a call to
\* the credit service, a statement, mkdirSync or the process failed under it
\* (ask.ts:85-151).
PaidIffAnswered ==
  \A r \in Ask : ask[r].pc \in Ends /\ r \notin blame
    => charged[r] = IF ask[r].pc = "answered" THEN Cost(r) ELSE 0

\* ... and who is told that the question failed has been given back what it cost,
\* whatever failed (creditService.ts:124). Does not hold (README, section 8).
FailedIsRefunded == \A r \in Ask : ask[r].pc = "failed" => charged[r] = 0

=============================================================================
