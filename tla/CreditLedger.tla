---------------------------- MODULE CreditLedger ----------------------------
(***************************************************************************)
(* The FULA credit ledger of pinning-webui/server: creditUser of           *)
(* services/creditService.ts, the hourly job of services/deductionJob.ts   *)
(* and the admin unsuspend statement, as concurrent PostgreSQL             *)
(* transactions at READ COMMITTED.                                         *)
(*                                                                         *)
(* A row of user_credits has a committed version, credits[u].  The         *)
(* transaction that has updated it holds its row lock, lock[u], and its    *)
(* uncommitted version is described by the credit_history entry it wrote   *)
(* beside it, draft[u]; nobody else sees draft[u] before the commit.       *)
(***************************************************************************)
EXTENDS LedgerRows

CONSTANTS
  Txn,             \* connections creditUser may hold at the same time
  JobTxn,          \* the connection processUserDeduction takes
  NoTxn,
  MaxCredits,      \* bound: calls of creditUser
  MaxDeductions,   \* bound: deductions
  MaxFaults        \* bound: failed statements and server crashes

ASSUME TxnAssumption ==
  /\ JobTxn \notin Txn /\ NoTxn \notin Txn \cup {JobTxn}
  /\ MaxCredits \in Nat /\ MaxDeductions \in Nat /\ MaxFaults \in Nat

VARIABLES
  credits,     \* committed user_credits rows
  history,     \* committed credit_history rows of each user, by id
  bonuses,     \* committed referral_bonuses rows
  lock,        \* the transaction that holds the row lock of a user's row
  draft,       \* the uncommitted history entry of the lock's holder
  txn,         \* the running creditUser calls
  job,         \* the deduction job
  calls, deductions, faults   \* counters for the bounds

vars == <<credits, history, bonuses, lock, draft, txn, job,
          calls, deductions, faults>>
rows == <<credits, history, bonuses>>

-----------------------------------------------------------------------------
(* Transactions                                                            *)

Free(u) == lock[u] = NoTxn
Held(t) == {u \in User : lock[u] = t}

Release(t) ==
  /\ lock'  = [u \in User |-> IF lock[u] = t THEN NoTxn ELSE lock[u]]
  /\ draft' = [u \in User |-> IF lock[u] = t THEN NoEntry ELSE draft[u]]

Commit(t) ==
  /\ credits' = [u \in User |-> IF lock[u] = t THEN Apply(credits[u], draft[u])
                                               ELSE credits[u]]
  /\ history' = [u \in User |-> IF lock[u] = t THEN Append(history[u], draft[u])
                                               ELSE history[u]]
  /\ Release(t)

Rollback(t) == Release(t) /\ UNCHANGED rows

IdleTxn == [open |-> FALSE, user |-> NoUser, amount |-> 0, ops |-> {}]
IdleJob == [pc |-> "idle", todo |-> {}, user |-> NoUser, seen |-> 0]

Init ==
  /\ credits = [u \in User |-> NoRow]
  /\ history = [u \in User |-> <<>>]
  /\ bonuses = {}
  /\ lock    = [u \in User |-> NoTxn]
  /\ draft   = [u \in User |-> NoEntry]
  /\ txn     = [t \in Txn |-> IdleTxn]
  /\ job     = IdleJob
  /\ calls = 0 /\ deductions = 0 /\ faults = 0

-----------------------------------------------------------------------------
(* creditUser                                                              *)

\* BEGIN, the walk of the referral chain and the list of operations.
CreditBegin(t, u, amount, type) ==
  /\ ~txn[t].open /\ calls < MaxCredits
  /\ type = "deposit" => amount > 0
  /\ txn' = [txn EXCEPT ![t] = [open |-> TRUE, user |-> u, amount |-> amount,
                                ops |-> Ops(u, amount, type)]]
  /\ calls' = calls + 1
  /\ UNCHANGED <<rows, lock, draft, job, deductions, faults>>

\* Mutant: the operations are applied in the order of the chain.
Unsorted(op, ops) == op \in ops

\* The operation the sorted list has next.
IsNext(op, ops) == op \in ops /\ \A o \in ops : op.user <= o.user

\* _insertCreditRow: the upsert waits for the row's lock, and the history
\* entry carries the balance it returned.
CreditApply(t) ==
  \E op \in txn[t].ops :
    /\ IsNext(op, txn[t].ops)
    /\ Free(op.user)
    /\ lock'  = [lock EXCEPT ![op.user] = t]
    /\ draft' = [draft EXCEPT ![op.user] =
                   OpEntry(op, txn[t].user, credits[op.user].balance)]
    /\ txn' = [txn EXCEPT ![t].ops = @ \ {op}]
    /\ UNCHANGED <<rows, job, calls, deductions, faults>>

\* The referral_bonuses rows of the transaction: one for each bonus entry,
\* with the ids of the entry and of the source's own entry.
BonusRows(t) ==
  LET src == txn[t].user
  IN  {[source |-> src, sourceId |-> Len(history[src]) + 1,
        level |-> draft[a].level,
        recipient |-> a, id |-> Len(history[a]) + 1,
        amount |-> draft[a].amount] :
         a \in {b \in Held(t) : draft[b].type = "referral_bonus"}}

\* Mutant: a bonus that fails is passed over.
CommitWithoutBonuses(t) ==
  /\ txn[t].open /\ \A op \in txn[t].ops : op.level > 0
  /\ Commit(t)
  /\ bonuses' = bonuses \cup BonusRows(t)
  /\ txn' = [txn EXCEPT ![t] = IdleTxn]
  /\ UNCHANGED <<job, calls, deductions, faults>>

CreditCommit(t) ==
  /\ txn[t].open /\ txn[t].ops = {}
  /\ Commit(t)
  /\ bonuses' = bonuses \cup BonusRows(t)
  /\ txn' = [txn EXCEPT ![t] = IdleTxn]
  /\ UNCHANGED <<job, calls, deductions, faults>>

\* Any statement of the call fails, or its connection is lost.
CreditFail(t) ==
  /\ txn[t].open /\ faults < MaxFaults
  /\ Rollback(t)
  /\ txn' = [txn EXCEPT ![t] = IdleTxn]
  /\ faults' = faults + 1
  /\ UNCHANGED <<job, calls, deductions>>

-----------------------------------------------------------------------------
(* The hourly job                                                          *)

\* The timer fires and isProcessing is false: the list of suspended users.
JobStart ==
  /\ job.pc = "idle"
  /\ job' = [IdleJob EXCEPT !.pc = "sweep",
                            !.todo = {u \in User : credits[u].suspended}]
  /\ UNCHANGED <<rows, lock, draft, txn, calls, deductions, faults>>

\* The user's pins are under the free tier or not; they change at any time,
\* so each query of the pins table may find them either way.
JobReadStorage(u) ==
  /\ job.pc = "sweep" /\ u \in job.todo
  /\ \E next \in {"clear", "balance"} :
       job' = [job EXCEPT !.pc = next, !.todo = @ \ {u}, !.user = u]
  /\ UNCHANGED <<rows, lock, draft, txn, calls, deductions, faults>>

\* Mutant: only the free tier lifts the suspension.
NeverByBalance ==
  /\ job.pc = "balance"
  /\ job' = [job EXCEPT !.pc = "sweep", !.user = NoUser]
  /\ UNCHANGED <<rows, lock, draft, txn, calls, deductions, faults>>

JobReadBalance ==
  /\ job.pc = "balance"
  /\ job' = IF credits[job.user].balance > 0
            THEN [job EXCEPT !.pc = "clear"]
            ELSE [job EXCEPT !.pc = "sweep", !.user = NoUser]
  /\ UNCHANGED <<rows, lock, draft, txn, calls, deductions, faults>>

\* The single UPDATE is a transaction of its own and waits for the row lock.
ClearSuspension(u) ==
  /\ credits[u].exists /\ Free(u)
  /\ credits' = [credits EXCEPT ![u].suspended = FALSE]
  /\ UNCHANGED <<history, bonuses, lock, draft>>

JobClear ==
  /\ job.pc = "clear"
  /\ ClearSuspension(job.user)
  /\ job' = [job EXCEPT !.pc = "sweep", !.user = NoUser]
  /\ UNCHANGED <<txn, calls, deductions, faults>>

\* The sweep is over: the users whose pins exceed the free tier, any of them.
JobReadUsers ==
  /\ job.pc = "sweep" /\ job.todo = {}
  /\ \E over \in SUBSET User : job' = [job EXCEPT !.pc = "bill", !.todo = over]
  /\ UNCHANGED <<rows, lock, draft, txn, calls, deductions, faults>>

\* Mutant: a plain SELECT.
SelectWithoutLock(u) ==
  /\ job.pc = "bill" /\ u \in job.todo /\ deductions < MaxDeductions
  /\ job' = IF credits[u].suspended
            THEN [job EXCEPT !.todo = @ \ {u}]
            ELSE [job EXCEPT !.pc = IF credits[u].exists THEN "update" ELSE "insert",
                             !.todo = @ \ {u}, !.user = u, !.seen = credits[u].balance]
  /\ UNCHANGED <<rows, lock, draft, txn, calls, deductions, faults>>

\* SELECT ... FOR UPDATE.  A missing row leaves nothing to lock; a suspended
\* user is skipped.
DeductSelect(u) ==
  /\ job.pc = "bill" /\ u \in job.todo /\ deductions < MaxDeductions
  /\ \/ /\ ~credits[u].exists
        /\ job' = [job EXCEPT !.pc = "insert", !.todo = @ \ {u}, !.user = u]
        /\ UNCHANGED lock
     \/ /\ credits[u].exists /\ Free(u) /\ credits[u].suspended
        /\ job' = [job EXCEPT !.todo = @ \ {u}]
        /\ UNCHANGED lock
     \/ /\ credits[u].exists /\ Free(u) /\ ~credits[u].suspended
        /\ job' = [job EXCEPT !.pc = "update", !.todo = @ \ {u}, !.user = u,
                              !.seen = credits[u].balance]
        /\ lock' = [lock EXCEPT ![u] = JobTxn]
  /\ UNCHANGED <<rows, draft, txn, calls, deductions, faults>>

\* The UPDATE and the history entry.
DeductUpdate ==
  /\ job.pc = "update" /\ lock[job.user] \in {NoTxn, JobTxn}
  /\ lock'  = [lock EXCEPT ![job.user] = JobTxn]
  /\ draft' = [draft EXCEPT ![job.user] = Deduction(job.seen)]
  /\ job'   = [job EXCEPT !.pc = "commit"]
  /\ UNCHANGED <<rows, txn, calls, deductions, faults>>

\* The INSERT waits for an uncommitted row of the same user; if that row is
\* committed, the unique key fails the statement and the deduction is lost.
DeductInsert ==
  /\ job.pc = "insert" /\ Free(job.user)
  /\ IF credits[job.user].exists
     THEN /\ job' = [job EXCEPT !.pc = "bill", !.user = NoUser]
          /\ UNCHANGED <<lock, draft>>
     ELSE /\ lock'  = [lock EXCEPT ![job.user] = JobTxn]
          /\ draft' = [draft EXCEPT ![job.user] = Deduction(job.seen)]
          /\ job'   = [job EXCEPT !.pc = "commit"]
  /\ UNCHANGED <<rows, txn, calls, deductions, faults>>

DeductCommit ==
  /\ job.pc = "commit"
  /\ Commit(JobTxn)
  /\ job' = [job EXCEPT !.pc = "bill", !.user = NoUser, !.seen = 0]
  /\ deductions' = deductions + 1
  /\ UNCHANGED <<bonuses, txn, calls, faults>>

\* A failed deduction is logged and the loop goes on.
DeductFail ==
  /\ job.pc \in {"update", "insert", "commit"} /\ faults < MaxFaults
  /\ Rollback(JobTxn)
  /\ job' = [job EXCEPT !.pc = "bill", !.user = NoUser, !.seen = 0]
  /\ faults' = faults + 1
  /\ UNCHANGED <<txn, calls, deductions>>

\* The sweep does not catch errors: one ends the job.
JobFail ==
  /\ job.pc \in {"sweep", "balance", "clear"} /\ faults < MaxFaults
  /\ job' = IdleJob
  /\ faults' = faults + 1
  /\ UNCHANGED <<rows, lock, draft, txn, calls, deductions>>

\* The loop ends; at the bound on deductions the rest of it is cut off.
JobEnd ==
  /\ job.pc = "bill" /\ (job.todo = {} \/ deductions = MaxDeductions)
  /\ job' = IdleJob
  /\ UNCHANGED <<rows, lock, draft, txn, calls, deductions, faults>>

-----------------------------------------------------------------------------
(* Administrators and crashes                                              *)

AdminUnsuspend(u) ==
  /\ ClearSuspension(u)
  /\ UNCHANGED <<txn, job, calls, deductions, faults>>

\* The server stops: PostgreSQL rolls back what its connections had open.
Crash ==
  /\ faults < MaxFaults
  /\ lock'  = [u \in User |-> NoTxn]
  /\ draft' = [u \in User |-> NoEntry]
  /\ txn'   = [t \in Txn |-> IdleTxn]
  /\ job'   = IdleJob
  /\ faults' = faults + 1
  /\ UNCHANGED <<rows, calls, deductions>>

JobStep ==
  \/ JobStart \/ JobReadBalance \/ JobClear \/ JobReadUsers
  \/ (\E u \in User : JobReadStorage(u)) \/ (\E u \in User : DeductSelect(u))
  \/ DeductUpdate \/ DeductInsert \/ DeductCommit \/ JobEnd

CreditStep(t) == CreditApply(t) \/ CreditCommit(t)

Next ==
  \/ \E t \in Txn :
       \/ \E u \in User, a \in Amount, type \in CreditTypes : CreditBegin(t, u, a, type)
       \/ CreditApply(t)
       \/ CreditCommit(t)
       \/ CreditFail(t)
  \/ JobStep
  \/ DeductFail
  \/ JobFail
  \/ \E u \in User : AdminUnsuspend(u)
  \/ Crash

Spec == Init /\ [][Next]_vars

\* setInterval keeps firing and PostgreSQL keeps answering, one open call at a time if not all of them.
Fairness == WF_vars(JobStep) /\ WF_vars(\E t \in Txn : CreditStep(t))

FairSpec == Spec /\ Fairness

-----------------------------------------------------------------------------
(* Properties                                                              *)

OpenTxn == [open : BOOLEAN, user : User \cup {NoUser}, amount : Int, ops : SUBSET Op]
Job == [pc : {"idle", "sweep", "balance", "clear", "bill", "update", "insert", "commit"},
        todo : SUBSET User, user : User \cup {NoUser}, seen : Int]
BonusRecord == [source : User, sourceId : Nat, level : 1..3, recipient : User,
                id : Nat, amount : Int]

\* Every variable has its type.
TypeOK ==
  /\ credits \in [User -> Row]
  /\ history \in [User -> Seq(Entry)]
  /\ bonuses \subseteq BonusRecord
  /\ lock \in [User -> Txn \cup {JobTxn, NoTxn}]
  /\ draft \in [User -> Entry]
  /\ txn \in [Txn -> OpenTxn]
  /\ job \in Job
  /\ calls \in Nat /\ deductions \in Nat /\ faults \in Nat

\* A user's history is a statement of account: each entry's balance_after is
\* the one before it plus its amount, and the row holds the last of them.
\* creditUser takes balance_after from the upsert, the deduction computes it
\* from a balance it read earlier, and both race each other.
Statement(h, balance) ==
  /\ \A i \in DOMAIN h :
       h[i].after = (IF i = 1 THEN 0 ELSE h[i - 1].after) + h[i].amount
  /\ balance = IF h = <<>> THEN 0 ELSE h[Len(h)].after

HistoryChain ==
  \A u \in User :
    /\ Statement(history[u], credits[u].balance)
    /\ credits[u].exists <=> history[u] # <<>>

\* The row a transaction waits for with its current statement.
Wants(t) ==
  IF t = JobTxn
  THEN IF job.pc \in {"insert", "clear"} THEN {job.user} ELSE {}
  ELSE {op.user : op \in {o \in txn[t].ops : IsNext(o, txn[t].ops)}}

BlockedBy(t, s) == \E u \in Wants(t) : lock[u] = s

\* No set of transactions waits for each other in a circle, whatever the
\* referral graph looks like (creditService.ts: "Deadlock safety").
NoDeadlock ==
  \A S \in (SUBSET (Txn \cup {JobTxn})) \ {{}} :
    \E t \in S : \A s \in S : ~BlockedBy(t, s)

\* The committed tables behave as the atomic ledger: no interleaving of
\* calls, deductions, failures and crashes shows in them.
Atomic == INSTANCE Ledger WITH credits <- credits, history <- history, bonuses <- bonuses
AtomicLedger == Atomic!Spec

\* The hourly sweep lifts the suspension of everyone who has credit again,
\* though bonuses leave it in place.
CreditLiftsSuspension ==
  \A u \in User :
    credits[u].suspended /\ credits[u].balance > 0 ~> ~credits[u].suspended
=============================================================================
