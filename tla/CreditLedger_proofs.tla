------------------------ MODULE CreditLedger_proofs ------------------------
(***************************************************************************)
(* Proofs about CreditLedger: types, the statement of account, the absence *)
(* of deadlock, and the refinement of the atomic ledger, for every set of  *)
(* users and connections, every referral graph, every set of amounts and   *)
(* every bound.                                                            *)
(***************************************************************************)
EXTENDS CreditLedger, TLAPS, FiniteSetTheorems, SequenceTheorems,
        WellFoundedInduction

-----------------------------------------------------------------------------
(* The operations of a call                                                *)

\* A chain of distinct users, none of them the one it starts from.
IsChain(u, c) ==
  /\ c \in Seq(User)
  /\ \A i \in 1..Len(c) : c[i] # u
  /\ \A i, j \in 1..Len(c) : c[i] = c[j] => i = j

\* One step of the walk (_walkReferralChain) keeps the chain free of
\* repetitions and lengthens it by at most one.
LEMMA ExtendChain ==
  ASSUME NEW u \in User, NEW c, IsChain(u, c)
  PROVE  IsChain(u, Extend(u, c)) /\ Len(Extend(u, c)) <= Len(c) + 1
<1> DEFINE cursor == IF c = <<>> THEN u ELSE c[Len(c)]
           up     == Referrer[cursor]
<1>1. c \in Seq(User) /\ Len(c) \in Nat /\ DOMAIN c = 1..Len(c)
  BY DEF IsChain
<1>2. cursor \in User
  BY <1>1
<1>3. up \in User \cup {NoUser}
  BY <1>2, LedgerAssumption
<1>4. CASE up \in {NoUser, u} \cup {c[i] : i \in DOMAIN c}
  <2>1. Extend(u, c) = c
    BY <1>4 DEF Extend
  <2> QED
    BY <2>1, <1>1
<1>5. CASE up \notin {NoUser, u} \cup {c[i] : i \in DOMAIN c}
  <2> DEFINE d == Append(c, up)
  <2>1. Extend(u, c) = d
    BY <1>5 DEF Extend
  <2>2. up \in User /\ up # u /\ \A i \in 1..Len(c) : c[i] # up
    BY <1>1, <1>3, <1>5
  <2>3. /\ d \in Seq(User)
        /\ Len(d) = Len(c) + 1
        /\ \A i \in 1..Len(c) : d[i] = c[i]
        /\ d[Len(c) + 1] = up
    BY <1>1, <2>2
  <2>4. \A i \in 1..Len(d) : d[i] # u
    BY <1>1, <2>2, <2>3 DEF IsChain
  <2>5. \A i, j \in 1..Len(d) : d[i] = d[j] => i = j
    BY <1>1, <2>2, <2>3 DEF IsChain
  <2> QED
    BY <1>1, <2>1, <2>3, <2>4, <2>5 DEF IsChain
<1> QED
  BY <1>4, <1>5

\* The walk finds at most three users, all different and none the source.
LEMMA ReferralChainIsChain ==
  ASSUME NEW u \in User
  PROVE  IsChain(u, ReferralChain(u)) /\ Len(ReferralChain(u)) <= 3
<1> DEFINE c1 == Extend(u, <<>>)
           c2 == Extend(u, c1)
           c3 == Extend(u, c2)
<1>1. IsChain(u, <<>>) /\ Len(<<>>) = 0
  BY DEF IsChain
<1>2. IsChain(u, c1) /\ Len(c1) <= 1
  BY <1>1, ExtendChain
<1>3. IsChain(u, c2) /\ Len(c2) <= Len(c1) + 1
  BY <1>2, ExtendChain
<1>4. IsChain(u, c3) /\ Len(c3) <= Len(c2) + 1
  BY <1>3, ExtendChain
<1>5. Len(c1) \in Nat /\ Len(c2) \in Nat /\ Len(c3) \in Nat
  BY <1>2, <1>3, <1>4 DEF IsChain
<1>6. ReferralChain(u) = c3
  BY DEF ReferralChain
<1> QED
  BY <1>2, <1>3, <1>4, <1>5, <1>6

LEMMA BonusType ==
  ASSUME NEW i \in 1..3, NEW a \in Int
  PROVE  Bonus(i, a) \in Int
BY DEF Bonus

\* What the rest of the proofs needs to know of a call's operations: their
\* type, and that no two of them are for the same user.
Distinct(ops) == \A o, p \in ops : o.user = p.user => o = p

\* Bonuses carry a level, and sources do not.
LevelsOK(ops) == \A o \in ops : o.type = "referral_bonus" => o.level \in 1..3

LEMMA OpsProperties ==
  ASSUME NEW u \in User, NEW a \in Int, NEW type \in CreditTypes
  PROVE  /\ Ops(u, a, type) \subseteq Op
         /\ Distinct(Ops(u, a, type))
         /\ LevelsOK(Ops(u, a, type))
<1> DEFINE c == ReferralChain(u)
           src == [user |-> u, amount |-> a, type |-> type, level |-> 0]
<1>1. /\ c \in Seq(User) /\ Len(c) \in Nat /\ Len(c) <= 3 /\ DOMAIN c = 1..Len(c)
      /\ \A i \in 1..Len(c) : c[i] \in User /\ c[i] # u
      /\ \A i, j \in 1..Len(c) : c[i] = c[j] => i = j
  BY ReferralChainIsChain DEF IsChain
<1>2. src \in Op /\ type # "referral_bonus"
  BY DEF Op, EntryTypes, CreditTypes
<1>3. \A o \in BonusOps(u, a) :
        \E i \in 1..Len(c) : o = [user |-> c[i], amount |-> Bonus(i, a),
                                  type |-> "referral_bonus", level |-> i]
  BY <1>1 DEF BonusOps
<1>4. \A o \in BonusOps(u, a) : o \in Op /\ o.level \in 1..3 /\ o.user # u
  <2>1. TAKE o \in BonusOps(u, a)
  <2>2. PICK i \in 1..Len(c) : o = [user |-> c[i], amount |-> Bonus(i, a),
                                    type |-> "referral_bonus", level |-> i]
    BY <1>3
  <2>3. i \in 1..3 /\ c[i] \in User /\ c[i] # u
    BY <1>1
  <2>4. Bonus(i, a) \in Int
    BY <2>3, BonusType
  <2> QED
    BY <2>2, <2>3, <2>4 DEF Op, EntryTypes
<1>5. \A o, p \in BonusOps(u, a) : o.user = p.user => o = p
  <2>1. TAKE o, p \in BonusOps(u, a)
  <2>2. HAVE o.user = p.user
  <2>3. PICK i \in 1..Len(c) : o = [user |-> c[i], amount |-> Bonus(i, a),
                                    type |-> "referral_bonus", level |-> i]
    BY <1>3
  <2>4. PICK j \in 1..Len(c) : p = [user |-> c[j], amount |-> Bonus(j, a),
                                    type |-> "referral_bonus", level |-> j]
    BY <1>3
  <2>5. c[i] = c[j]
    BY <2>2, <2>3, <2>4
  <2>6. i = j
    BY <1>1, <2>5
  <2> QED
    BY <2>3, <2>4, <2>6
<1>6. Ops(u, a, type) = {src} \cup BonusOps(u, a)
  BY DEF Ops
<1> QED
  BY <1>2, <1>4, <1>5, <1>6 DEF Distinct, LevelsOK

-----------------------------------------------------------------------------
(* The inductive invariant                                                 *)

\* A draft promises the balance the row will have once it is committed.
Promised(u) ==
  /\ draft[u].type \in EntryTypes
  /\ draft[u].after = credits[u].balance + draft[u].amount
  /\ draft[u].type = "referral_bonus" => draft[u].level \in 1..3

JobHolds == job.pc \in {"update", "commit"}

\* Who holds which row.
LockInv ==
  /\ \A t \in Txn : ~txn[t].open => txn[t].ops = {}
  /\ \A t \in Txn : txn[t].open => txn[t].user \in User
  /\ \A u \in User : lock[u] \in Txn => txn[lock[u]].open /\ Promised(u)
  /\ \A u \in User : lock[u] = JobTxn <=> JobHolds /\ job.user = u

\* The job has a user in hand, and remembers that user's balance exactly
\* while the row lock keeps it from changing.
JobInv ==
  /\ job.pc \in {"balance", "clear", "insert", "update", "commit"} => job.user \in User
  /\ ~JobHolds => job.seen = 0
  /\ job.pc = "update" => job.seen = credits[job.user].balance
  /\ job.pc = "commit" => Promised(job.user)

\* Every row a call holds precedes every row it has yet to update.
OrderInv ==
  \A t \in Txn :
    /\ Distinct(txn[t].ops) /\ LevelsOK(txn[t].ops)
    /\ \A o \in txn[t].ops : \A u \in User : lock[u] = t => u < o.user

IInv == TypeOK /\ HistoryChain /\ LockInv /\ JobInv /\ OrderInv

-----------------------------------------------------------------------------
(* Rows, statements of account, and the end of a transaction               *)

LEMMA RowOfEntry ==
  ASSUME NEW r \in Row, NEW e \in Entry
  PROVE  /\ Apply(r, e) \in Row
         /\ Apply(r, e).exists
         /\ Apply(r, e).balance = r.balance + e.amount
<1>1. /\ r.balance \in Int /\ r.deposited \in Int /\ r.deducted \in Int
      /\ r.bonus \in Int /\ r.suspended \in BOOLEAN
  BY DEF Row
<1>2. e.amount \in Int
  BY DEF Entry
<1>3. Apply(r, e).suspended \in BOOLEAN
  BY <1>1, Zenon DEF Apply
<1>4. Apply(r, e) = [exists |-> TRUE, balance |-> r.balance + e.amount,
                     deposited |-> Apply(r, e).deposited,
                     deducted |-> Apply(r, e).deducted,
                     bonus |-> Apply(r, e).bonus,
                     suspended |-> Apply(r, e).suspended]
  BY DEF Apply
<1>5. /\ Apply(r, e).deposited \in Int /\ Apply(r, e).deducted \in Int
      /\ Apply(r, e).bonus \in Int
  BY <1>1, <1>2 DEF Apply
<1>6. r.balance + e.amount \in Int
  BY <1>1, <1>2
<1>7. [exists |-> TRUE, balance |-> r.balance + e.amount,
       deposited |-> Apply(r, e).deposited, deducted |-> Apply(r, e).deducted,
       bonus |-> Apply(r, e).bonus, suspended |-> Apply(r, e).suspended] \in Row
  BY <1>3, <1>5, <1>6, Zenon DEF Row
<1>8. Apply(r, e).exists /\ Apply(r, e).balance = r.balance + e.amount
  BY Zenon DEF Apply
<1> QED
  BY <1>4, <1>7, <1>8

\* An entry that carries the right balance extends a statement of account.
LEMMA StatementExtends ==
  ASSUME NEW h \in Seq(Entry), NEW b \in Int, Statement(h, b),
         NEW e \in Entry, e.after = b + e.amount
  PROVE  Statement(Append(h, e), b + e.amount)
<1> DEFINE g == Append(h, e)
<1>1. /\ g \in Seq(Entry) /\ Len(g) = Len(h) + 1 /\ g # <<>>
      /\ \A i \in 1..Len(h) : g[i] = h[i]
      /\ g[Len(h) + 1] = e
      /\ Len(h) \in Nat /\ DOMAIN h = 1..Len(h) /\ DOMAIN g = 1..(Len(h) + 1)
      /\ h = <<>> <=> Len(h) = 0
  OBVIOUS
<1>2. g[Len(g)].after = b + e.amount
  BY <1>1
<1>3. \A i \in DOMAIN g :
        g[i].after = (IF i = 1 THEN 0 ELSE g[i - 1].after) + g[i].amount
  <2>1. TAKE i \in DOMAIN g
  <2>2. CASE i \in 1..Len(h)
    <3>1. g[i] = h[i] /\ (i # 1 => g[i - 1] = h[i - 1])
      BY <1>1, <2>2
    <3> QED
      BY <1>1, <2>2, <3>1 DEF Statement
  <2>3. CASE i = Len(h) + 1
    <3>1. CASE h = <<>>
      BY <1>1, <2>3, <3>1 DEF Statement, Entry
    <3>2. CASE h # <<>>
      <4> HIDE DEF g
      <4>1. Len(h) >= 1 /\ i - 1 = Len(h) /\ i # 1
        BY <1>1, <2>3, <3>2
      <4>3. g[i] = e /\ g[i - 1] = h[Len(h)]
        BY <1>1, <2>3, <4>1
      <4>2. h[Len(h)].after = b
        BY <3>2 DEF Statement
      <4> QED
        BY <4>1, <4>2, <4>3
    <3> QED
      BY <3>1, <3>2
  <2> QED
    BY <1>1, <2>2, <2>3
<1> QED
  BY <1>1, <1>2, <1>3 DEF Statement

\* COMMIT of a transaction whose drafts promise the right balances.
LEMMA CommitEffect ==
  ASSUME TypeOK, HistoryChain, NEW t \in Txn \cup {JobTxn}, Commit(t),
         \A u \in User : lock[u] = t => Promised(u)
  PROVE  /\ credits' \in [User -> Row]
         /\ history' \in [User -> Seq(Entry)]
         /\ lock' \in [User -> Txn \cup {JobTxn, NoTxn}]
         /\ draft' \in [User -> Entry]
         /\ HistoryChain'
         /\ \A u \in User : lock[u] = t => lock'[u] = NoTxn
         /\ \A u \in User : lock[u] # t =>
              /\ credits'[u] = credits[u] /\ history'[u] = history[u]
              /\ lock'[u] = lock[u] /\ draft'[u] = draft[u]
<1>1. NoEntry \in Entry
  BY DEF NoEntry, Entry
<1>2. \A u \in User : /\ credits[u] \in Row /\ draft[u] \in Entry
                       /\ history[u] \in Seq(Entry) /\ credits[u].balance \in Int
  BY DEF TypeOK, Row
<1>3. \A u \in User : Apply(credits[u], draft[u]) \in Row
  BY <1>2, RowOfEntry
<1>4. \A u \in User : Append(history[u], draft[u]) \in Seq(Entry)
  BY <1>2
<1>5. credits' \in [User -> Row]
  BY <1>2, <1>3 DEF Commit
<1>6. history' \in [User -> Seq(Entry)]
  BY <1>2, <1>4 DEF Commit
<1>7. /\ lock' \in [User -> Txn \cup {JobTxn, NoTxn}]
      /\ draft' \in [User -> Entry]
  BY <1>1 DEF Commit, Release, TypeOK
<1>8. \A u \in User : lock[u] = t => lock'[u] = NoTxn
  BY DEF Commit, Release
<1>9. \A u \in User : lock[u] # t =>
        /\ credits'[u] = credits[u] /\ history'[u] = history[u]
        /\ lock'[u] = lock[u] /\ draft'[u] = draft[u]
  BY DEF Commit, Release
<1>10. HistoryChain'
  <2> SUFFICES ASSUME NEW u \in User
               PROVE  /\ Statement(history'[u], credits'[u].balance)
                      /\ credits'[u].exists <=> history'[u] # <<>>
    BY DEF HistoryChain, Statement
  <2>1. CASE lock[u] # t
    BY <1>9, <2>1 DEF HistoryChain
  <2>2. CASE lock[u] = t
    <3>1. history'[u] = Append(history[u], draft[u])
      BY <2>2 DEF Commit
    <3>2. credits'[u] = Apply(credits[u], draft[u])
      BY <2>2 DEF Commit
    <3>3. credits'[u].exists /\ credits'[u].balance = credits[u].balance + draft[u].amount
      BY <1>2, <3>2, RowOfEntry
    <3>4. Statement(history[u], credits[u].balance)
      BY DEF HistoryChain
    <3>5. draft[u].after = credits[u].balance + draft[u].amount
      BY <2>2 DEF Promised
    <3>6. Statement(history'[u], credits'[u].balance)
      BY <1>2, <3>1, <3>3, <3>4, <3>5, StatementExtends
    <3>7. history'[u] # <<>>
      BY <1>2, <3>1
    <3> QED
      BY <3>3, <3>6, <3>7
  <2> QED
    BY <2>1, <2>2
<1> QED
  BY <1>5, <1>6, <1>7, <1>8, <1>9, <1>10

\* ROLLBACK gives up the locks and leaves the rows.
LEMMA RollbackEffect ==
  ASSUME TypeOK, NEW t \in Txn \cup {JobTxn}, Release(t)
  PROVE  /\ lock' \in [User -> Txn \cup {JobTxn, NoTxn}]
         /\ draft' \in [User -> Entry]
         /\ \A u \in User : lock[u] = t => lock'[u] = NoTxn
         /\ \A u \in User : lock[u] # t => lock'[u] = lock[u] /\ draft'[u] = draft[u]
<1>1. NoEntry \in Entry
  BY DEF NoEntry, Entry
<1> QED
  BY <1>1 DEF Release, TypeOK

-----------------------------------------------------------------------------
(* Every step preserves the invariant                                      *)

LEMMA InitIInv == Init => IInv
<1> SUFFICES ASSUME Init PROVE IInv
  OBVIOUS
<1> USE DEF Init
<1>1. NoRow \in Row /\ NoEntry \in Entry /\ IdleTxn \in OpenTxn /\ IdleJob \in Job
  BY DEF NoRow, Row, NoEntry, Entry, IdleTxn, OpenTxn, IdleJob, Job
<1>2. TypeOK
  BY <1>1 DEF TypeOK
<1>3. HistoryChain
  BY DEF HistoryChain, Statement, NoRow
<1>4. LockInv
  BY TxnAssumption DEF LockInv, IdleTxn, JobHolds, IdleJob
<1>5. JobInv
  BY DEF JobInv, JobHolds, IdleJob
<1>6. OrderInv
  BY DEF OrderInv, Distinct, LevelsOK, IdleTxn
<1> QED
  BY <1>2, <1>3, <1>4, <1>5, <1>6 DEF IInv

\* The statement of account does not depend on locks or processes.
LEMMA RowsKeepHistoryChain ==
  ASSUME HistoryChain, UNCHANGED rows
  PROVE  HistoryChain'
BY DEF HistoryChain, Statement, rows

LEMMA CreditBeginIInv ==
  ASSUME IInv, NEW t \in Txn, NEW u \in User, NEW a \in Amount,
         NEW type \in CreditTypes, CreditBegin(t, u, a, type)
  PROVE  IInv'
<1> DEFINE new == [open |-> TRUE, user |-> u, amount |-> a, ops |-> Ops(u, a, type)]
<1>1. a \in Int
  BY LedgerAssumption
<1>2. Ops(u, a, type) \subseteq Op /\ Distinct(Ops(u, a, type)) /\ LevelsOK(Ops(u, a, type))
  BY <1>1, OpsProperties
<1>3. new \in OpenTxn
  BY <1>1, <1>2 DEF OpenTxn
<1>4. /\ UNCHANGED <<credits, history, bonuses, lock, draft, job>>
      /\ txn' = [txn EXCEPT ![t] = new] /\ ~txn[t].open
      /\ UNCHANGED <<deductions, faults>> /\ calls' = calls + 1
  BY DEF CreditBegin, rows
<1>5. txn \in [Txn -> OpenTxn]
  BY DEF IInv, TypeOK
<1>6. txn'[t] = new /\ \A s \in Txn \ {t} : txn'[s] = txn[s]
  BY <1>4, <1>5
<1>7. TypeOK'
  BY <1>3, <1>4 DEF IInv, TypeOK
<1>8. HistoryChain'
  BY <1>4, RowsKeepHistoryChain DEF IInv, rows
<1>9. \A v \in User : lock[v] # t
  BY <1>4 DEF IInv, LockInv
<1>10. LockInv'
  BY <1>4, <1>6, <1>9 DEF IInv, LockInv, JobHolds, Promised
<1>11. JobInv'
  BY <1>4 DEF IInv, JobInv, JobHolds, Promised
<1>12. OrderInv'
  BY <1>2, <1>4, <1>6, <1>9 DEF IInv, OrderInv
<1> QED
  BY <1>7, <1>8, <1>10, <1>11, <1>12 DEF IInv

LEMMA CreditApplyIInv ==
  ASSUME IInv, NEW t \in Txn, CreditApply(t)
  PROVE  IInv'
<1>1. PICK op \in txn[t].ops :
        /\ IsNext(op, txn[t].ops) /\ lock[op.user] = NoTxn
        /\ lock'  = [lock EXCEPT ![op.user] = t]
        /\ draft' = [draft EXCEPT ![op.user] =
                       OpEntry(op, txn[t].user, credits[op.user].balance)]
        /\ txn' = [txn EXCEPT ![t].ops = @ \ {op}]
        /\ UNCHANGED <<credits, history, bonuses, job, calls, deductions, faults>>
  BY DEF CreditApply, Free, rows
<1> DEFINE e == OpEntry(op, txn[t].user, credits[op.user].balance)
<1>2. /\ txn \in [Txn -> OpenTxn] /\ lock \in [User -> Txn \cup {JobTxn, NoTxn}]
      /\ draft \in [User -> Entry] /\ credits \in [User -> Row]
  BY DEF IInv, TypeOK
<1>3. op \in Op /\ txn[t].ops \subseteq Op /\ txn[t].user \in User \cup {NoUser}
      /\ txn[t].amount \in Int /\ txn[t].open \in BOOLEAN
  BY <1>2 DEF OpenTxn
<1>4. op.user \in User /\ op.amount \in Int /\ op.type \in EntryTypes /\ op.level \in 0..3
  BY <1>3 DEF Op
<1>5. credits[op.user].balance \in Int
  BY <1>2, <1>4 DEF Row
<1>6. /\ e \in Entry /\ e.type = op.type /\ e.level = op.level /\ e.amount = op.amount
      /\ e.after = credits[op.user].balance + e.amount
  BY <1>3, <1>4, <1>5 DEF OpEntry, Entry
<1>7. txn[t].open
  BY <1>1 DEF IInv, LockInv
<1>8. /\ txn'[t].open = txn[t].open /\ txn'[t].user = txn[t].user
      /\ txn'[t].ops = txn[t].ops \ {op} /\ txn'[t].amount = txn[t].amount
      /\ \A s \in Txn \ {t} : txn'[s] = txn[s]
      /\ txn' \in [Txn -> OpenTxn]
  <2>1. [txn[t] EXCEPT !.ops = @ \ {op}] \in OpenTxn
    BY <1>2, <1>3 DEF OpenTxn
  <2> QED
    BY <1>1, <1>2, <2>1 DEF OpenTxn
<1>9. /\ lock'[op.user] = t /\ draft'[op.user] = e
      /\ \A v \in User \ {op.user} : lock'[v] = lock[v] /\ draft'[v] = draft[v]
  BY <1>1, <1>2, <1>4
<1>10. TypeOK'
  BY <1>1, <1>4, <1>6, <1>8 DEF IInv, TypeOK
<1>11. HistoryChain'
  BY <1>1, RowsKeepHistoryChain DEF IInv, rows
<1>12. Promised(op.user)'
  <2>1. op.type = "referral_bonus" => op.level \in 1..3
    BY <1>1 DEF IInv, OrderInv, LevelsOK
  <2> QED
    BY <1>1, <1>4, <1>6, <1>9, <2>1 DEF Promised
<1>13. \A v \in User : lock[v] \in Txn => Promised(v)'
  BY <1>1, <1>9, <1>12 DEF IInv, LockInv, Promised
<1>14. LockInv'
  <2>1. \A s \in Txn : ~txn'[s].open => txn'[s].ops = {}
    BY <1>7, <1>8 DEF IInv, LockInv
  <2>2. \A s \in Txn : txn'[s].open => txn'[s].user \in User
    BY <1>8 DEF IInv, LockInv
  <2>3. \A v \in User : lock'[v] \in Txn => txn'[lock'[v]].open /\ Promised(v)'
    <3>1. TAKE v \in User
    <3>2. HAVE lock'[v] \in Txn
    <3>3. CASE v = op.user
      BY <1>7, <1>8, <1>9, <1>12, <3>3
    <3>4. CASE v # op.user
      <4>1. lock'[v] = lock[v] /\ txn[lock[v]].open
        BY <1>9, <3>2, <3>4 DEF IInv, LockInv
      <4>2. txn'[lock[v]].open
        BY <1>8, <3>2, <4>1
      <4> QED
        BY <1>13, <3>2, <4>1, <4>2
    <3> QED
      BY <3>3, <3>4
  <2>4. \A v \in User : lock'[v] = JobTxn <=> JobHolds' /\ job'.user = v
    BY <1>1, <1>9, TxnAssumption DEF IInv, LockInv, JobHolds
  <2> QED
    BY <2>1, <2>2, <2>3, <2>4 DEF LockInv
<1>15. JobInv'
  <2>1. job.pc = "commit" => job.user # op.user
    BY <1>1, <1>4, TxnAssumption DEF IInv, LockInv, JobHolds
  <2> QED
    BY <1>1, <1>9, <2>1 DEF IInv, JobInv, JobHolds, Promised
<1>16. OrderInv'
  <2>1. \A o \in txn[t].ops \ {op} : op.user < o.user
    <3>1. TAKE o \in txn[t].ops \ {op}
    <3>2. op.user <= o.user /\ op.user # o.user
      BY <1>1 DEF IsNext, IInv, OrderInv, Distinct
    <3>3. o.user \in Nat /\ op.user \in Nat
      BY <1>3, <1>4, LedgerAssumption DEF Op
    <3> QED
      BY <3>2, <3>3
  <2>2. ASSUME NEW s \in Txn
        PROVE  /\ Distinct(txn'[s].ops) /\ LevelsOK(txn'[s].ops)
               /\ \A o \in txn'[s].ops : \A v \in User : lock'[v] = s => v < o.user
    <3>1. CASE s = t
      BY <1>8, <1>9, <2>1, <3>1 DEF IInv, OrderInv, Distinct, LevelsOK
    <3>2. CASE s # t
      BY <1>8, <1>9, <3>2 DEF IInv, OrderInv
    <3> QED
      BY <3>1, <3>2
  <2> QED
    BY <2>2 DEF OrderInv
<1> QED
  BY <1>10, <1>11, <1>14, <1>15, <1>16 DEF IInv

\* What COMMIT and ROLLBACK have in common: t's rows are free, and every
\* other row is as it was.
EndsFor(t) ==
  /\ \A u \in User : lock[u] = t => lock'[u] = NoTxn
  /\ \A u \in User : lock[u] # t =>
       credits'[u] = credits[u] /\ lock'[u] = lock[u] /\ draft'[u] = draft[u]

\* The end of a call of creditUser.
LEMMA CallEnds ==
  ASSUME IInv, NEW t \in Txn, EndsFor(t),
         txn' = [txn EXCEPT ![t] = IdleTxn], job' = job
  PROVE  txn' \in [Txn -> OpenTxn] /\ LockInv' /\ JobInv' /\ OrderInv'
<1>1. txn \in [Txn -> OpenTxn] /\ IdleTxn \in OpenTxn
  BY DEF IInv, TypeOK, IdleTxn, OpenTxn
<1>2. /\ txn'[t] = IdleTxn /\ \A s \in Txn \ {t} : txn'[s] = txn[s]
      /\ txn' \in [Txn -> OpenTxn]
  BY <1>1
<1>3. \A u \in User : lock'[u] # t
  BY TxnAssumption DEF EndsFor
<1>4. \A u \in User : lock'[u] \in Txn \cup {JobTxn} =>
        /\ lock[u] = lock'[u] /\ lock[u] # t
        /\ credits'[u] = credits[u] /\ draft'[u] = draft[u]
  BY TxnAssumption DEF EndsFor
<1>5. LockInv'
  <2>1. \A s \in Txn : ~txn'[s].open => txn'[s].ops = {}
    BY <1>2 DEF IInv, LockInv, IdleTxn
  <2>2. \A s \in Txn : txn'[s].open => txn'[s].user \in User
    BY <1>2 DEF IInv, LockInv, IdleTxn
  <2>3. \A u \in User : lock'[u] \in Txn => txn'[lock'[u]].open /\ Promised(u)'
    BY <1>2, <1>4 DEF IInv, LockInv, Promised
  <2>4. \A u \in User : lock'[u] = JobTxn <=> lock[u] = JobTxn
    BY TxnAssumption DEF EndsFor
  <2>5. \A u \in User : lock'[u] = JobTxn <=> JobHolds' /\ job'.user = u
    BY <2>4 DEF IInv, LockInv, JobHolds
  <2> QED
    BY <2>1, <2>2, <2>3, <2>5 DEF LockInv
<1>6. JobInv'
  <2>1. JobHolds => job.user \in User /\ lock[job.user] # t
    BY TxnAssumption DEF IInv, LockInv, JobInv, JobHolds
  <2>2. JobHolds => credits'[job.user] = credits[job.user] /\ draft'[job.user] = draft[job.user]
    BY <2>1 DEF EndsFor
  <2> QED
    BY <2>2 DEF IInv, JobInv, JobHolds, Promised
<1>7. OrderInv'
  <2>1. ASSUME NEW s \in Txn
        PROVE  /\ Distinct(txn'[s].ops) /\ LevelsOK(txn'[s].ops)
               /\ \A o \in txn'[s].ops : \A u \in User : lock'[u] = s => u < o.user
    <3>1. CASE s = t
      BY <1>2, <3>1 DEF IdleTxn, Distinct, LevelsOK
    <3>2. CASE s # t
      BY <1>2, <1>4, <3>2 DEF IInv, OrderInv
    <3> QED
      BY <3>1, <3>2
  <2> QED
    BY <2>1 DEF OrderInv
<1> QED
  BY <1>2, <1>5, <1>6, <1>7

\* The end of a deduction.
LEMMA DeductionEnds ==
  ASSUME IInv, EndsFor(JobTxn), txn' = txn,
         job' = [job EXCEPT !.pc = "bill", !.user = NoUser, !.seen = 0]
  PROVE  job' \in Job /\ LockInv' /\ JobInv' /\ OrderInv'
<1>1. job \in Job
  BY DEF IInv, TypeOK
<1>2. job'.pc = "bill" /\ job'.seen = 0 /\ job' \in Job
  <2>1. job' = [pc |-> "bill", todo |-> job.todo, user |-> NoUser, seen |-> 0]
    BY <1>1 DEF Job
  <2>2. job.todo \in SUBSET User
    BY <1>1 DEF Job
  <2> QED
    BY <2>1, <2>2 DEF Job
<1>3. \A u \in User : lock'[u] # JobTxn
  BY TxnAssumption DEF EndsFor
<1>4. \A u \in User : lock'[u] \in Txn =>
        /\ lock[u] = lock'[u] /\ credits'[u] = credits[u] /\ draft'[u] = draft[u]
  BY TxnAssumption DEF EndsFor
<1>5. LockInv'
  BY <1>2, <1>3, <1>4 DEF IInv, LockInv, JobHolds, Promised
<1>6. JobInv'
  BY <1>2 DEF JobInv, JobHolds
<1>7. OrderInv'
  BY <1>4 DEF IInv, OrderInv
<1> QED
  BY <1>2, <1>5, <1>6, <1>7

LEMMA CreditCommitIInv ==
  ASSUME IInv, NEW t \in Txn, CreditCommit(t)
  PROVE  IInv'
<1>1. /\ Commit(t) /\ txn[t].open /\ bonuses' = bonuses \cup BonusRows(t)
      /\ txn' = [txn EXCEPT ![t] = IdleTxn]
      /\ UNCHANGED <<job, calls, deductions, faults>>
  BY DEF CreditCommit
<1>2. \A u \in User : lock[u] = t => Promised(u)
  BY DEF IInv, LockInv
<1>3. /\ credits' \in [User -> Row] /\ history' \in [User -> Seq(Entry)]
      /\ lock' \in [User -> Txn \cup {JobTxn, NoTxn}] /\ draft' \in [User -> Entry]
      /\ HistoryChain' /\ EndsFor(t)
  BY <1>1, <1>2, CommitEffect DEF IInv, EndsFor
<1>4. txn' \in [Txn -> OpenTxn] /\ LockInv' /\ JobInv' /\ OrderInv'
  BY <1>1, <1>3, CallEnds
<1>5. BonusRows(t) \subseteq BonusRecord
  <2>1. txn[t].user \in User
    BY <1>1 DEF IInv, LockInv
  <2>2. \A u \in User : Len(history[u]) \in Nat /\ draft[u].amount \in Int
    BY DEF IInv, TypeOK, Entry
  <2>3. \A u \in Held(t) : draft[u].type = "referral_bonus" =>
          u \in User /\ draft[u].level \in 1..3
    BY <1>2 DEF Held, Promised
  <2> QED
    BY <2>1, <2>2, <2>3 DEF BonusRows, BonusRecord, Held
<1>6. TypeOK'
  BY <1>1, <1>3, <1>4, <1>5 DEF IInv, TypeOK
<1> QED
  BY <1>3, <1>4, <1>6 DEF IInv

LEMMA CreditFailIInv ==
  ASSUME IInv, NEW t \in Txn, CreditFail(t)
  PROVE  IInv'
<1>1. /\ Release(t) /\ txn' = [txn EXCEPT ![t] = IdleTxn] /\ faults' = faults + 1
      /\ UNCHANGED <<credits, history, bonuses, job, calls, deductions>>
  BY DEF CreditFail, Rollback, rows
<1>2. /\ lock' \in [User -> Txn \cup {JobTxn, NoTxn}] /\ draft' \in [User -> Entry]
      /\ EndsFor(t)
  BY <1>1, RollbackEffect DEF IInv, EndsFor
<1>3. txn' \in [Txn -> OpenTxn] /\ LockInv' /\ JobInv' /\ OrderInv'
  BY <1>1, <1>2, CallEnds
<1>4. TypeOK'
  BY <1>1, <1>2, <1>3 DEF IInv, TypeOK
<1>5. HistoryChain'
  BY <1>1, RowsKeepHistoryChain DEF IInv, rows
<1> QED
  BY <1>3, <1>4, <1>5 DEF IInv

LEMMA DeductCommitIInv ==
  ASSUME IInv, DeductCommit
  PROVE  IInv'
<1>1. /\ Commit(JobTxn) /\ job.pc = "commit"
      /\ job' = [job EXCEPT !.pc = "bill", !.user = NoUser, !.seen = 0]
      /\ deductions' = deductions + 1
      /\ UNCHANGED <<bonuses, txn, calls, faults>>
  BY DEF DeductCommit
<1>2. \A u \in User : lock[u] = JobTxn => Promised(u)
  BY <1>1 DEF IInv, LockInv, JobInv
<1>3. /\ credits' \in [User -> Row] /\ history' \in [User -> Seq(Entry)]
      /\ lock' \in [User -> Txn \cup {JobTxn, NoTxn}] /\ draft' \in [User -> Entry]
      /\ HistoryChain' /\ EndsFor(JobTxn)
  BY <1>1, <1>2, CommitEffect DEF IInv, EndsFor
<1>4. job' \in Job /\ LockInv' /\ JobInv' /\ OrderInv'
  BY <1>1, <1>3, DeductionEnds
<1>5. TypeOK'
  BY <1>1, <1>3, <1>4 DEF IInv, TypeOK
<1> QED
  BY <1>3, <1>4, <1>5 DEF IInv

LEMMA DeductFailIInv ==
  ASSUME IInv, DeductFail
  PROVE  IInv'
<1>1. /\ Release(JobTxn) /\ faults' = faults + 1
      /\ job' = [job EXCEPT !.pc = "bill", !.user = NoUser, !.seen = 0]
      /\ UNCHANGED <<credits, history, bonuses, txn, calls, deductions>>
  BY DEF DeductFail, Rollback, rows
<1>2. /\ lock' \in [User -> Txn \cup {JobTxn, NoTxn}] /\ draft' \in [User -> Entry]
      /\ EndsFor(JobTxn)
  BY <1>1, RollbackEffect DEF IInv, EndsFor
<1>3. job' \in Job /\ LockInv' /\ JobInv' /\ OrderInv'
  BY <1>1, <1>2, DeductionEnds
<1>4. TypeOK'
  BY <1>1, <1>2, <1>3 DEF IInv, TypeOK
<1>5. HistoryChain'
  BY <1>1, RowsKeepHistoryChain DEF IInv, rows
<1> QED
  BY <1>3, <1>4, <1>5 DEF IInv

\* The UPDATE of is_suspended moves no money and meets no row lock.
LEMMA ClearEffect ==
  ASSUME IInv, NEW u \in User, ClearSuspension(u)
  PROVE  /\ credits' \in [User -> Row] /\ HistoryChain'
         /\ \A v \in User : credits'[v].balance = credits[v].balance
         /\ UNCHANGED <<history, bonuses, lock, draft>>
<1>1. /\ credits \in [User -> Row]
      /\ credits' = [credits EXCEPT ![u].suspended = FALSE]
      /\ UNCHANGED <<history, bonuses, lock, draft>>
  BY DEF ClearSuspension, IInv, TypeOK
<1>2. credits[u] \in Row
  BY <1>1
<1>3. [credits[u] EXCEPT !.suspended = FALSE] \in Row
  BY <1>2 DEF Row
<1>4. \A v \in User : /\ credits'[v].balance = credits[v].balance
                       /\ credits'[v].exists = credits[v].exists
  BY <1>1, <1>2 DEF Row
<1>5. HistoryChain'
  BY <1>1, <1>4 DEF IInv, HistoryChain, Statement
<1> QED
  BY <1>1, <1>3, <1>4, <1>5

LEMMA AdminUnsuspendIInv ==
  ASSUME IInv, NEW u \in User, AdminUnsuspend(u)
  PROVE  IInv'
<1>1. /\ credits' \in [User -> Row] /\ HistoryChain'
      /\ \A v \in User : credits'[v].balance = credits[v].balance
      /\ UNCHANGED <<history, bonuses, lock, draft, txn, job, calls, deductions, faults>>
  BY ClearEffect DEF AdminUnsuspend
<1>2. TypeOK'
  BY <1>1 DEF IInv, TypeOK
<1>3. LockInv' /\ JobInv' /\ OrderInv'
  BY <1>1 DEF IInv, LockInv, JobInv, JobHolds, OrderInv, Promised
<1> QED
  BY <1>1, <1>2, <1>3 DEF IInv

\* A step of the job that takes no lock, holds none and leaves the balances.
LEMMA JobStepsAlone ==
  ASSUME IInv, credits' \in [User -> Row], HistoryChain',
         \A v \in User : credits'[v].balance = credits[v].balance,
         UNCHANGED <<history, bonuses, lock, draft, txn, calls, deductions>>,
         faults' \in Nat, ~JobHolds, ~JobHolds',
         job' \in Job, job'.seen = 0,
         job'.pc \in {"balance", "clear", "insert"} => job'.user \in User
  PROVE  IInv'
<1>1. TypeOK'
  BY DEF IInv, TypeOK
<1>2. LockInv'
  BY DEF IInv, LockInv, Promised
<1>3. JobInv'
  BY DEF JobInv, JobHolds
<1>4. OrderInv'
  BY DEF IInv, OrderInv
<1> QED
  BY <1>1, <1>2, <1>3, <1>4 DEF IInv

LEMMA JobRecord ==
  ASSUME IInv
  PROVE  /\ job = [pc |-> job.pc, todo |-> job.todo, user |-> job.user, seen |-> job.seen]
         /\ job.todo \subseteq User /\ job.user \in User \cup {NoUser} /\ job.seen \in Int
         /\ ~JobHolds => job.seen = 0
BY DEF IInv, TypeOK, Job, JobInv

\* The steps of the sweep, and the two ends of the job.
LEMMA SweepIInv ==
  ASSUME IInv,
         \/ JobStart \/ JobReadBalance \/ JobReadUsers \/ JobFail \/ JobEnd
         \/ \E u \in User : JobReadStorage(u)
  PROVE  IInv'
<1>1. /\ UNCHANGED <<credits, history, bonuses, lock, draft, txn, calls, deductions>>
      /\ faults' \in Nat
  <2>1. faults \in Nat
    BY DEF IInv, TypeOK
  <2>2. /\ UNCHANGED <<rows, lock, draft, txn, calls, deductions>>
        /\ faults' = faults \/ faults' = faults + 1
    BY Zenon DEF JobStart, JobReadBalance, JobReadUsers, JobFail, JobEnd, JobReadStorage
  <2> QED
    BY <2>1, <2>2 DEF rows
<1>2. HistoryChain' /\ credits' \in [User -> Row]
  BY <1>1, RowsKeepHistoryChain DEF IInv, TypeOK, rows
<1>3. /\ ~JobHolds /\ ~JobHolds' /\ job' \in Job /\ job'.seen = 0
      /\ job'.pc \in {"balance", "clear", "insert"} => job'.user \in User
  <2>1. CASE JobStart \/ JobFail \/ JobEnd
    <3>1. /\ job.pc \notin {"update", "commit"}
          /\ \E todo \in SUBSET User : \E pc \in {"idle", "sweep"} :
               job' = [pc |-> pc, todo |-> todo, user |-> NoUser, seen |-> 0]
      BY <2>1 DEF JobStart, JobFail, JobEnd, IdleJob
    <3> QED
      BY <3>1 DEF Job, JobHolds
  <2>2. CASE JobReadBalance
    <3>1. /\ job.pc = "balance" /\ job.user \in User /\ job.seen = 0
          /\ \/ job' = [job EXCEPT !.pc = "clear"]
             \/ job' = [job EXCEPT !.pc = "sweep", !.user = NoUser]
      BY <2>2 DEF JobReadBalance, IInv, JobInv, JobHolds
    <3> QED
      BY <3>1, JobRecord DEF Job, JobHolds
  <2>3. CASE JobReadUsers
    <3>1. /\ job.pc = "sweep" /\ job.seen = 0
          /\ \E todo \in SUBSET User : job' = [job EXCEPT !.pc = "bill", !.todo = todo]
      BY <2>3 DEF JobReadUsers, IInv, JobInv, JobHolds
    <3> QED
      BY <3>1, JobRecord DEF Job, JobHolds
  <2>4. ASSUME NEW u \in User, JobReadStorage(u)
        PROVE  /\ ~JobHolds /\ ~JobHolds' /\ job' \in Job /\ job'.seen = 0
               /\ job'.pc \in {"balance", "clear", "insert"} => job'.user \in User
    <3>1. /\ job.pc = "sweep" /\ job.seen = 0
          /\ \E next \in {"clear", "balance"} :
               job' = [job EXCEPT !.pc = next, !.todo = @ \ {u}, !.user = u]
      BY <2>4 DEF JobReadStorage, IInv, JobInv, JobHolds
    <3> QED
      BY <3>1, JobRecord DEF Job, JobHolds
  <2> QED
    BY <2>1, <2>2, <2>3, <2>4
<1> QED
  BY <1>1, <1>2, <1>3, JobStepsAlone

LEMMA JobClearIInv ==
  ASSUME IInv, JobClear
  PROVE  IInv'
<1>1. /\ job.pc = "clear" /\ job.user \in User /\ job.seen = 0
      /\ ClearSuspension(job.user)
      /\ job' = [job EXCEPT !.pc = "sweep", !.user = NoUser]
      /\ UNCHANGED <<txn, calls, deductions, faults>>
  BY DEF JobClear, IInv, JobInv, JobHolds
<1>2. /\ credits' \in [User -> Row] /\ HistoryChain'
      /\ \A v \in User : credits'[v].balance = credits[v].balance
      /\ UNCHANGED <<history, bonuses, lock, draft>>
  BY <1>1, ClearEffect
<1>3. /\ ~JobHolds /\ ~JobHolds' /\ job' \in Job /\ job'.seen = 0
      /\ job'.pc = "sweep"
  BY <1>1, JobRecord DEF Job, JobHolds
<1>4. faults' \in Nat
  BY <1>1 DEF IInv, TypeOK
<1> QED
  BY <1>1, <1>2, <1>3, <1>4, JobStepsAlone

LEMMA DeductSelectIInv ==
  ASSUME IInv, NEW u \in User, DeductSelect(u)
  PROVE  IInv'
<1>1. /\ job.pc = "bill" /\ job.seen = 0
      /\ UNCHANGED <<credits, history, bonuses, draft, txn, calls, deductions, faults>>
  BY DEF DeductSelect, rows, IInv, JobInv, JobHolds
<1>2. HistoryChain' /\ credits' \in [User -> Row] /\ faults' \in Nat
  BY <1>1, RowsKeepHistoryChain DEF IInv, TypeOK, rows
<1>3. CASE UNCHANGED lock /\ \/ job' = [job EXCEPT !.todo = @ \ {u}]
                             \/ job' = [job EXCEPT !.pc = "insert", !.todo = @ \ {u}, !.user = u]
  <2>1. /\ ~JobHolds /\ ~JobHolds' /\ job' \in Job /\ job'.seen = 0
        /\ job'.pc \in {"balance", "clear", "insert"} => job'.user \in User
    BY <1>1, <1>3, JobRecord DEF Job, JobHolds
  <2> QED
    BY <1>1, <1>2, <1>3, <2>1, JobStepsAlone
<1>4. CASE /\ Free(u) /\ lock' = [lock EXCEPT ![u] = JobTxn]
           /\ job' = [job EXCEPT !.pc = "update", !.todo = @ \ {u}, !.user = u,
                                 !.seen = credits[u].balance]
  <2>1. credits[u].balance \in Int
    BY DEF IInv, TypeOK, Row
  <2>2. job' = [pc |-> "update", todo |-> job.todo \ {u}, user |-> u,
                seen |-> credits[u].balance]
    BY <1>4, JobRecord
  <2>3. job' \in Job /\ JobHolds' /\ ~JobHolds
    BY <1>1, <2>1, <2>2, JobRecord DEF Job, JobHolds
  <2>4. /\ lock'[u] = JobTxn /\ \A v \in User \ {u} : lock'[v] = lock[v]
        /\ lock' \in [User -> Txn \cup {JobTxn, NoTxn}]
    BY <1>4 DEF IInv, TypeOK
  <2>5. TypeOK'
    BY <1>1, <2>3, <2>4 DEF IInv, TypeOK
  <2>6. LockInv'
    BY <1>1, <2>2, <2>3, <2>4, TxnAssumption DEF IInv, LockInv, Promised
  <2>7. JobInv'
    BY <1>1, <2>2, <2>3 DEF JobInv, JobHolds
  <2>8. OrderInv'
    BY <1>1, <2>4, TxnAssumption DEF IInv, OrderInv
  <2> QED
    BY <1>2, <2>5, <2>6, <2>7, <2>8 DEF IInv
<1> QED
  BY <1>3, <1>4, Zenon DEF DeductSelect

\* The draft of a deduction promises the right balance if the job saw it.
LEMMA DeductionPromised ==
  ASSUME IInv, NEW u \in User, job.seen = credits[u].balance,
         lock[u] \in {NoTxn, JobTxn},
         lock' = [lock EXCEPT ![u] = JobTxn],
         draft' = [draft EXCEPT ![u] = Deduction(job.seen)],
         job' = [job EXCEPT !.pc = "commit"], job.user = u,
         \A v \in User : lock[v] = JobTxn => v = u,
         UNCHANGED <<credits, history, bonuses, txn, calls, deductions, faults>>
  PROVE  IInv'
<1> DEFINE e == Deduction(job.seen)
<1>1. job.seen \in Int /\ Fee \in Int
  BY JobRecord, LedgerAssumption
<1>2. /\ e \in Entry /\ e.type \in EntryTypes /\ e.type # "referral_bonus"
      /\ e.after = credits[u].balance + e.amount
  BY <1>1 DEF Deduction, Entry, EntryTypes
<1>3. /\ lock'[u] = JobTxn /\ \A v \in User \ {u} : lock'[v] = lock[v]
      /\ lock' \in [User -> Txn \cup {JobTxn, NoTxn}]
      /\ draft'[u] = e /\ \A v \in User \ {u} : draft'[v] = draft[v]
      /\ draft' \in [User -> Entry]
  BY <1>2 DEF IInv, TypeOK
<1>4. job' = [pc |-> "commit", todo |-> job.todo, user |-> u, seen |-> job.seen]
  BY JobRecord
<1>5. job' \in Job /\ JobHolds'
  BY <1>1, <1>4, JobRecord DEF Job, JobHolds
<1>6. TypeOK'
  BY <1>3, <1>5 DEF IInv, TypeOK
<1>7. HistoryChain'
  BY RowsKeepHistoryChain DEF IInv, rows
<1>8. Promised(u)'
  BY <1>2, <1>3 DEF Promised
<1>9. LockInv'
  <2>1. \A v \in User : lock'[v] \in Txn => v # u /\ lock'[v] = lock[v] /\ draft'[v] = draft[v]
    BY <1>3, TxnAssumption
  <2>2. \A v \in User : lock'[v] \in Txn => txn'[lock'[v]].open /\ Promised(v)'
    BY <2>1 DEF IInv, LockInv, Promised
  <2>3. \A v \in User : lock'[v] = JobTxn <=> JobHolds' /\ job'.user = v
    BY <1>3, <1>4, <1>5
  <2> QED
    BY <2>2, <2>3 DEF IInv, LockInv
<1>10. JobInv'
  BY <1>4, <1>5, <1>8 DEF JobInv
<1>11. OrderInv'
  BY <1>3, TxnAssumption DEF IInv, OrderInv
<1> QED
  BY <1>6, <1>7, <1>9, <1>10, <1>11 DEF IInv

LEMMA DeductUpdateIInv ==
  ASSUME IInv, DeductUpdate
  PROVE  IInv'
<1>1. job.pc = "update" /\ job.user \in User /\ job.seen = credits[job.user].balance
  BY DEF DeductUpdate, IInv, JobInv
<1>2. \A v \in User : lock[v] = JobTxn => v = job.user
  BY DEF IInv, LockInv
<1> QED
  BY <1>1, <1>2, DeductionPromised DEF DeductUpdate, rows

LEMMA DeductInsertIInv ==
  ASSUME IInv, DeductInsert
  PROVE  IInv'
<1>1. job.pc = "insert" /\ job.user \in User /\ job.seen = 0 /\ Free(job.user)
  BY DEF DeductInsert, IInv, JobInv, JobHolds
<1>2. /\ UNCHANGED <<credits, history, bonuses, txn, calls, deductions, faults>>
      /\ faults' \in Nat
  BY DEF DeductInsert, rows, IInv, TypeOK
<1>3. CASE credits[job.user].exists
  <2>1. job' = [job EXCEPT !.pc = "bill", !.user = NoUser] /\ UNCHANGED <<lock, draft>>
    BY <1>3 DEF DeductInsert
  <2>2. HistoryChain' /\ credits' \in [User -> Row]
    BY <1>2, RowsKeepHistoryChain DEF IInv, TypeOK, rows
  <2>3. /\ ~JobHolds /\ ~JobHolds' /\ job' \in Job /\ job'.seen = 0 /\ job'.pc = "bill"
    BY <1>1, <2>1, JobRecord DEF Job, JobHolds
  <2> QED
    BY <1>2, <2>1, <2>2, <2>3, JobStepsAlone
<1>4. CASE ~credits[job.user].exists
  <2>1. credits[job.user].balance = 0
    BY <1>1, <1>4 DEF IInv, HistoryChain, Statement
  <2>2. \A v \in User : lock[v] = JobTxn => v = job.user
    BY DEF IInv, LockInv
  <2> QED
    BY <1>1, <1>2, <1>4, <2>1, <2>2, DeductionPromised DEF DeductInsert, Free
<1> QED
  BY <1>3, <1>4

LEMMA CrashIInv ==
  ASSUME IInv, Crash
  PROVE  IInv'
<1>1. NoEntry \in Entry /\ IdleTxn \in OpenTxn /\ IdleJob \in Job
  BY DEF NoEntry, Entry, IdleTxn, OpenTxn, IdleJob, Job
<1>2. /\ lock' = [u \in User |-> NoTxn] /\ draft' = [u \in User |-> NoEntry]
      /\ txn' = [t \in Txn |-> IdleTxn] /\ job' = IdleJob /\ faults' = faults + 1
      /\ UNCHANGED <<credits, history, bonuses, calls, deductions>>
  BY DEF Crash, rows
<1>3. TypeOK'
  BY <1>1, <1>2 DEF IInv, TypeOK
<1>4. HistoryChain'
  BY <1>2, RowsKeepHistoryChain DEF IInv, rows
<1>5. LockInv'
  BY <1>2, TxnAssumption DEF LockInv, IdleTxn, JobHolds, IdleJob
<1>6. JobInv'
  BY <1>2 DEF JobInv, JobHolds, IdleJob
<1>7. OrderInv'
  BY <1>2 DEF OrderInv, Distinct, LevelsOK, IdleTxn
<1> QED
  BY <1>3, <1>4, <1>5, <1>6, <1>7 DEF IInv

LEMMA StutterIInv == IInv /\ UNCHANGED vars => IInv'
<1> SUFFICES ASSUME IInv, UNCHANGED vars PROVE IInv'
  OBVIOUS
<1>1. UNCHANGED <<credits, history, bonuses, lock, draft, txn, job, calls, deductions, faults>>
  BY DEF vars
<1>2. TypeOK' /\ HistoryChain'
  BY <1>1, RowsKeepHistoryChain DEF IInv, TypeOK, rows
<1>3. LockInv' /\ JobInv' /\ OrderInv'
  BY <1>1 DEF IInv, LockInv, JobInv, JobHolds, OrderInv, Promised
<1> QED
  BY <1>2, <1>3 DEF IInv

LEMMA NextIInv == IInv /\ [Next]_vars => IInv'
<1> SUFFICES ASSUME IInv, [Next]_vars PROVE IInv'
  OBVIOUS
<1>1. ASSUME NEW t \in Txn, NEW u \in User, NEW a \in Amount, NEW type \in CreditTypes,
             CreditBegin(t, u, a, type)
      PROVE  IInv'
  BY <1>1, CreditBeginIInv
<1>2. ASSUME NEW t \in Txn, CreditApply(t) \/ CreditCommit(t) \/ CreditFail(t)
      PROVE  IInv'
  BY <1>2, CreditApplyIInv, CreditCommitIInv, CreditFailIInv
<1>3. ASSUME JobStep PROVE IInv'
  BY <1>3, SweepIInv, JobClearIInv, DeductSelectIInv, DeductUpdateIInv, DeductInsertIInv,
     DeductCommitIInv DEF JobStep
<1>4. ASSUME DeductFail \/ JobFail \/ Crash PROVE IInv'
  BY <1>4, DeductFailIInv, SweepIInv, CrashIInv
<1>5. ASSUME NEW u \in User, AdminUnsuspend(u) PROVE IInv'
  BY <1>5, AdminUnsuspendIInv
<1>6. CASE UNCHANGED vars
  BY <1>6, StutterIInv
<1> QED
  BY <1>1, <1>2, <1>3, <1>4, <1>5, <1>6 DEF Next

-----------------------------------------------------------------------------
(* Theorems                                                                *)

(* Every reachable state of the ledger satisfies the inductive invariant. *)
THEOREM Invariance == Spec => []IInv
BY InitIInv, NextIInv, PTL DEF Spec

\* Type correctness of the ledger, its transactions and the job.
THEOREM TypeCorrect == Spec => []TypeOK
<1>1. IInv => TypeOK
  BY DEF IInv
<1> QED
  BY Invariance, <1>1, PTL

\* Every user's credit_history is a statement of account that ends in the
\* balance of the user_credits row, whatever credits, deductions, failures
\* and crashes are interleaved.
THEOREM StatementsOfAccount == Spec => []HistoryChain
<1>1. IInv => HistoryChain
  BY DEF IInv
<1> QED
  BY Invariance, <1>1, PTL

-----------------------------------------------------------------------------
(* Deadlock                                                                *)

\* There are finitely many users, so some user of a set of users is last.
LEMMA LastUser ==
  ASSUME NEW W, W \subseteq User, W # {}
  PROVE  \E m \in W : \A w \in W : w <= m
<1> DEFINE Later(m) == {w \in W : m < w}
           R == StrictSubsetOrdering(User)
           T == {Later(m) : m \in W}
<1>1. IsWellFoundedOn(R, SUBSET User)
  BY LedgerAssumption, FS_StrictSubsetOrderingWellFounded, FS_FiniteSubsetsOfFinite
<1>2. T \subseteq SUBSET User /\ T # {}
  OBVIOUS
<1>3. PICK x \in T : \A y \in T : <<y, x>> \notin R
  BY <1>1, <1>2, WFMin
<1>4. PICK m \in W : x = Later(m)
  OBVIOUS
<1>5. ASSUME NEW w \in W, ~(w <= m) PROVE FALSE
  <2>1. w \in Nat /\ m \in Nat /\ W \subseteq Nat
    BY LedgerAssumption
  <2>2. w \in Later(m) /\ w \notin Later(w)
    BY <1>5, <2>1
  <2>3. Later(w) \subseteq Later(m)
    <3>1. \A v \in W : w < v => m < v
      BY <1>5, <2>1
    <3> QED
      BY <3>1, Zenon
  <2>4. Later(w) \in SUBSET User /\ Later(m) \in SUBSET User
    OBVIOUS
  <2>5. <<Later(w), Later(m)>> \in R
    BY <2>2, <2>3, <2>4, Zenon DEF StrictSubsetOrdering
  <2> QED
    BY <1>3, <1>4, <2>5
<1> QED
  BY <1>5

\* A call wants at most one row, and every row it holds precedes that one.
LEMMA WantedRow ==
  ASSUME IInv, NEW t \in Txn, NEW u \in Wants(t)
  PROVE  /\ u \in User
         /\ \A v \in Wants(t) : v = u
         /\ \A v \in User : lock[v] = t => v < u
<1>1. t # JobTxn
  BY TxnAssumption
<1>2. txn[t].ops \subseteq Op
  BY DEF IInv, TypeOK, OpenTxn
<1>3. \A o \in txn[t].ops : o.user \in User /\ o.user \in Nat
  BY <1>2, LedgerAssumption DEF Op
<1>4. \A v : v \in Wants(t) <=> \E o \in txn[t].ops : IsNext(o, txn[t].ops) /\ v = o.user
  BY <1>1, Zenon DEF Wants
<1>5. PICK o \in txn[t].ops : IsNext(o, txn[t].ops) /\ u = o.user
  BY <1>4
<1>6. \A v \in Wants(t) : v = u
  BY <1>3, <1>4, <1>5 DEF IsNext
<1> QED
  BY <1>3, <1>5, <1>6 DEF IInv, OrderInv

\* A job that holds a row waits for nothing.
LEMMA JobHoldsAndWaitsNot ==
  ASSUME IInv, NEW u \in User, lock[u] = JobTxn
  PROVE  Wants(JobTxn) = {}
<1>1. job.pc \in {"update", "commit"}
  BY DEF IInv, LockInv, JobHolds
<1> QED
  BY <1>1 DEF Wants

\* Whatever set of transactions waits, the call in it that waits for the
\* last row waits for none of the others.
LEMMA SomeoneRuns == IInv => NoDeadlock
<1> SUFFICES ASSUME IInv, NEW S \in (SUBSET (Txn \cup {JobTxn})) \ {{}}
             PROVE  \E t \in S : \A s \in S : ~BlockedBy(t, s)
  BY Zenon DEF NoDeadlock
<1>1. CASE \E t \in S : Wants(t) = {}
  BY <1>1 DEF BlockedBy
<1>2. CASE \A t \in S : Wants(t) # {}
  <2> DEFINE W == UNION {Wants(t) : t \in S \cap Txn}
  <2>1. Wants(JobTxn) \subseteq User
    BY DEF Wants, IInv, JobInv
  <2>2. \A t \in S : ~BlockedBy(t, JobTxn) \/ JobTxn \notin S
    <3>1. SUFFICES ASSUME NEW t \in S, BlockedBy(t, JobTxn), JobTxn \in S PROVE FALSE
      OBVIOUS
    <3>2. PICK u \in Wants(t) : lock[u] = JobTxn
      BY <3>1 DEF BlockedBy
    <3>3. u \in User
      BY <2>1, WantedRow
    <3> QED
      BY <1>2, <3>1, <3>2, <3>3, JobHoldsAndWaitsNot
  <2>3. CASE S \cap Txn = {}
    <3>1. S = {JobTxn}
      <4>1. S \subseteq Txn \cup {JobTxn} /\ S # {}
        OBVIOUS
      <4>2. \A s \in S : s = JobTxn
        BY <4>1, <2>3
      <4> QED
        BY <4>1, <4>2
    <3> QED
      BY <2>2, <3>1, Zenon
  <2>4. CASE S \cap Txn # {}
    <3>1. W \subseteq User
      BY WantedRow
    <3>2. W # {}
      BY <1>2, <2>4
    <3>3. PICK m \in W : \A w \in W : w <= m
      BY <3>1, <3>2, LastUser
    <3>4. PICK t \in S \cap Txn : m \in Wants(t)
      OBVIOUS
    <3>5. ASSUME NEW s \in S \cap Txn, BlockedBy(t, s) PROVE FALSE
      <4>1. PICK u \in Wants(t) : lock[u] = s
        BY <3>5 DEF BlockedBy
      <4>2. u = m /\ m \in User /\ lock[m] = s
        BY <3>4, <4>1, WantedRow
      <4>3. PICK w \in Wants(s) : TRUE
        BY <1>2
      <4>4. w \in User /\ m < w
        BY <4>2, <4>3, WantedRow
      <4>5. w \in W /\ w <= m
        BY <3>3, <4>3
      <4> QED
        BY <4>2, <4>4, <4>5, LedgerAssumption
    <3>6. \A s \in S : s \in Txn \/ s = JobTxn
      OBVIOUS
    <3> QED
      BY <2>2, <3>4, <3>5, <3>6, Zenon
  <2> QED
    BY <2>3, <2>4
<1> QED
  BY <1>1, <1>2

\* No circle of waiting transactions, for every referral graph and every
\* number of concurrent calls.
THEOREM DeadlockFreedom == Spec => []NoDeadlock
BY Invariance, SomeoneRuns, PTL

-----------------------------------------------------------------------------
(* The committed tables are an atomic ledger                               *)

\* The atomic ledger computes with the same operators.
LEMMA SameBonusOps == \A u, a : Atomic!BonusOps(u, a) = BonusOps(u, a)
<1>1. \A u, c : Atomic!Extend(u, c) = Extend(u, c)
  BY Zenon DEF Atomic!Extend, Extend
<1>2. \A u : Atomic!ReferralChain(u) = ReferralChain(u)
  BY <1>1, Zenon DEF Atomic!ReferralChain, ReferralChain
<1>3. \A l, a : Atomic!Bonus(l, a) = Bonus(l, a)
  BY Zenon DEF Atomic!Bonus, Bonus
<1> QED
  BY <1>2, <1>3 DEF Atomic!BonusOps, BonusOps

LEMMA SameOps == \A u, a, type : Atomic!Ops(u, a, type) = Ops(u, a, type)
BY SameBonusOps, Zenon DEF Atomic!Ops, Ops

LEMMA SameApply == \A r, e : Atomic!Apply(r, e) = Apply(r, e)
BY Zenon DEF Atomic!Apply, Apply

\* What an open call has done of its operations, and nothing else, is in its drafts.
Drafted(t, type) ==
  LET all == Ops(txn[t].user, txn[t].amount, type)
  IN  /\ txn[t].ops \subseteq all
      /\ \A o \in all \ txn[t].ops :
           lock[o.user] = t /\ draft[o.user] = OpEntry(o, txn[t].user, credits[o.user].balance)
      /\ \A u \in User : lock[u] = t => \E o \in all \ txn[t].ops : o.user = u

CallInv ==
  \A t \in Txn : txn[t].open => txn[t].amount \in Amount /\ \E type \in CreditTypes : Drafted(t, type)

\* Nobody is charged who is suspended when the charge is committed: the row was locked
\* while it was not, or was not there.
ChargeInv ==
  /\ \A u \in User : credits[u].suspended => credits[u].exists
  /\ JobHolds => ~credits[job.user].suspended
  /\ job.pc = "commit" => draft[job.user] = Deduction(credits[job.user].balance)

RInv == IInv /\ CallInv /\ ChargeInv

\* A call whose locks, drafts and locked balances stay keeps what it promised.
LEMMA DraftedKept ==
  ASSUME IInv, NEW t \in Txn, NEW type \in CreditTypes, txn[t].open, Drafted(t, type), txn'[t] = txn[t],
         \A u \in User : lock'[u] = t <=> lock[u] = t,
         \A u \in User : lock[u] = t => draft'[u] = draft[u] /\ credits'[u].balance = credits[u].balance
  PROVE  Drafted(t, type)'
<1> DEFINE all == Ops(txn[t].user, txn[t].amount, type)
<1>1. txn[t].user \in User /\ txn[t].amount \in Int
  BY DEF IInv, LockInv, TypeOK, OpenTxn
<1>2. \A o \in all : o.user \in User
  BY <1>1, OpsProperties DEF Op
<1>3. txn'[t].user = txn[t].user /\ txn'[t].amount = txn[t].amount /\ txn'[t].ops = txn[t].ops
  OBVIOUS
<1> HIDE DEF all
<1>4. /\ txn[t].ops \subseteq all
      /\ \A o \in all \ txn[t].ops :
           lock'[o.user] = t /\ draft'[o.user] = OpEntry(o, txn[t].user, credits'[o.user].balance)
      /\ \A u \in User : lock'[u] = t => \E o \in all \ txn[t].ops : o.user = u
  BY <1>2 DEF Drafted, all
<1> QED
  BY <1>3, <1>4 DEF Drafted, all

\* So it is with every step that moves neither the locks nor the drafts of open calls.
LEMMA CallsKept ==
  ASSUME IInv, CallInv,
         \A t \in Txn : txn'[t].open =>
           /\ txn'[t] = txn[t]
           /\ \A u \in User : lock'[u] = t <=> lock[u] = t
           /\ \A u \in User : lock[u] = t => draft'[u] = draft[u] /\ credits'[u].balance = credits[u].balance
  PROVE  CallInv'
<1> SUFFICES ASSUME NEW t \in Txn, txn'[t].open
             PROVE  txn'[t].amount \in Amount /\ \E type \in CreditTypes : Drafted(t, type)'
  BY DEF CallInv
<1>1. PICK type \in CreditTypes : Drafted(t, type)
  BY DEF CallInv
<1>2. Drafted(t, type)'
  BY <1>1, DraftedKept
<1> QED
  BY <1>2 DEF CallInv

LEMMA CreditBeginCallInv ==
  ASSUME IInv, CallInv, NEW t \in Txn, NEW u \in User, NEW a \in Amount, NEW type \in CreditTypes,
         CreditBegin(t, u, a, type)
  PROVE  CallInv'
<1> DEFINE new == [open |-> TRUE, user |-> u, amount |-> a, ops |-> Ops(u, a, type)]
<1>1. /\ UNCHANGED <<credits, lock, draft>> /\ ~txn[t].open
      /\ txn'[t] = new /\ \A s \in Txn \ {t} : txn'[s] = txn[s]
  BY DEF CreditBegin, rows, IInv, TypeOK
<1>2. \A v \in User : lock[v] # t
  BY <1>1 DEF IInv, LockInv
<1>3. Drafted(t, type)'
  <2>1. txn'[t].user = u /\ txn'[t].amount = a /\ txn'[t].ops = Ops(u, a, type)
    BY <1>1
  <2> QED
    BY <1>1, <1>2, <2>1 DEF Drafted
<1>4. ASSUME NEW s \in Txn \ {t}, txn'[s].open
      PROVE  txn'[s].amount \in Amount /\ \E ty \in CreditTypes : Drafted(s, ty)'
  <2>1. PICK ty \in CreditTypes : Drafted(s, ty)
    BY <1>1, <1>4 DEF CallInv
  <2>2. Drafted(s, ty)'
    BY <1>1, <1>4, <2>1, DraftedKept
  <2> QED
    BY <1>1, <1>4, <2>2 DEF CallInv
<1>5. txn'[t].amount \in Amount
  BY <1>1
<1> QED
  BY <1>3, <1>4, <1>5 DEF CallInv

LEMMA CreditApplyCallInv ==
  ASSUME IInv, CallInv, NEW t \in Txn, CreditApply(t)
  PROVE  CallInv'
<1>1. PICK op \in txn[t].ops :
        /\ lock[op.user] = NoTxn
        /\ lock'  = [lock EXCEPT ![op.user] = t]
        /\ draft' = [draft EXCEPT ![op.user] =
                       OpEntry(op, txn[t].user, credits[op.user].balance)]
        /\ txn' = [txn EXCEPT ![t].ops = @ \ {op}]
        /\ UNCHANGED credits
  BY DEF CreditApply, Free, rows
<1>2. /\ txn \in [Txn -> OpenTxn] /\ lock \in [User -> Txn \cup {JobTxn, NoTxn}]
      /\ draft \in [User -> Entry]
  BY DEF IInv, TypeOK
<1>3. op.user \in User /\ txn[t].open
  BY <1>1, <1>2 DEF OpenTxn, Op, IInv, LockInv
<1>4. /\ txn'[t].open /\ txn'[t].user = txn[t].user /\ txn'[t].amount = txn[t].amount
      /\ txn'[t].ops = txn[t].ops \ {op}
      /\ \A s \in Txn \ {t} : txn'[s] = txn[s]
  BY <1>1, <1>2, <1>3 DEF OpenTxn
<1>5. /\ lock'[op.user] = t /\ draft'[op.user] = OpEntry(op, txn[t].user, credits[op.user].balance)
      /\ \A v \in User \ {op.user} : lock'[v] = lock[v] /\ draft'[v] = draft[v]
  BY <1>1, <1>2, <1>3
<1>6. PICK type \in CreditTypes : Drafted(t, type)
  BY <1>3 DEF CallInv
<1> DEFINE all == Ops(txn[t].user, txn[t].amount, type)
<1>7. Distinct(all) /\ \A o \in all : o.user \in User
  <2>1. txn[t].user \in User /\ txn[t].amount \in Int
    BY <1>2, <1>3 DEF IInv, LockInv, OpenTxn
  <2> QED
    BY <2>1, OpsProperties DEF Op
<1>8. Drafted(t, type)'
  <2> HIDE DEF all
  <2>1. /\ txn[t].ops \subseteq all
        /\ \A o \in all \ txn[t].ops :
             lock[o.user] = t /\ draft[o.user] = OpEntry(o, txn[t].user, credits[o.user].balance)
        /\ \A v \in User : lock[v] = t => \E o \in all \ txn[t].ops : o.user = v
    BY <1>6 DEF Drafted, all
  <2>2. \A o \in all \ (txn[t].ops \ {op}) :
          lock'[o.user] = t /\ draft'[o.user] = OpEntry(o, txn[t].user, credits[o.user].balance)
    <3>1. TAKE o \in all \ (txn[t].ops \ {op})
    <3>2. CASE o = op
      BY <1>5, <3>2
    <3>3. CASE o # op
      <4>1. o \in all \ txn[t].ops /\ o.user # op.user /\ o.user \in User
        BY <1>1, <1>7, <2>1, <3>3 DEF Distinct
      <4> QED
        BY <1>5, <2>1, <4>1
    <3> QED
      BY <3>2, <3>3
  <2>3. \A v \in User : lock'[v] = t => \E o \in all \ (txn[t].ops \ {op}) : o.user = v
    BY <1>1, <1>5, <2>1
  <2> QED
    BY <1>1, <1>4, <2>1, <2>2, <2>3 DEF Drafted, all
<1>9. ASSUME NEW s \in Txn \ {t}, txn'[s].open
      PROVE  txn'[s].amount \in Amount /\ \E ty \in CreditTypes : Drafted(s, ty)'
  <2>1. PICK ty \in CreditTypes : Drafted(s, ty)
    BY <1>4, <1>9 DEF CallInv
  <2>2. \A v \in User : (lock'[v] = s <=> lock[v] = s) /\ (lock[v] = s => draft'[v] = draft[v])
    BY <1>1, <1>5, TxnAssumption
  <2>3. Drafted(s, ty)'
    BY <1>1, <1>4, <1>9, <2>1, <2>2, DraftedKept
  <2> QED
    BY <1>4, <1>9, <2>3 DEF CallInv
<1>10. txn'[t].amount \in Amount
  BY <1>3, <1>4 DEF CallInv
<1> QED
  BY <1>4, <1>8, <1>9, <1>10 DEF CallInv

\* The end of a call leaves the other calls' drafts.
LEMMA CallEndsCallInv ==
  ASSUME IInv, CallInv, NEW t \in Txn, EndsFor(t), txn' = [txn EXCEPT ![t] = IdleTxn]
  PROVE  CallInv'
<1>1. txn'[t] = IdleTxn /\ \A s \in Txn \ {t} : txn'[s] = txn[s]
  BY DEF IInv, TypeOK
<1>2. \A s \in Txn : txn'[s].open => s # t
  BY <1>1 DEF IdleTxn
<1>3. \A s \in Txn \ {t} : \A u \in User :
        (lock'[u] = s <=> lock[u] = s) /\ (lock[u] = s => draft'[u] = draft[u] /\ credits'[u] = credits[u])
  BY TxnAssumption DEF EndsFor
<1> QED
  BY <1>1, <1>2, <1>3, CallsKept

\* A step that lends and takes back only the job's locks leaves the calls alone.
LEMMA OthersCallInv ==
  ASSUME IInv, CallInv, txn' = txn,
         \A u \in User : lock[u] \in Txn \/ lock'[u] \in Txn =>
           lock'[u] = lock[u] /\ draft'[u] = draft[u] /\ credits'[u].balance = credits[u].balance
  PROVE  CallInv'
<1>1. \A t \in Txn : \A u \in User :
        /\ lock'[u] = t <=> lock[u] = t
        /\ lock[u] = t => draft'[u] = draft[u] /\ credits'[u].balance = credits[u].balance
  OBVIOUS
<1> QED
  BY <1>1, CallsKept

\* The charge in hand stays right while its row is locked.
LEMMA ChargeKept ==
  ASSUME IInv, ChargeInv, job' = job,
         \A u \in User : credits'[u].suspended => credits'[u].exists,
         \A u \in User : lock[u] = JobTxn => credits'[u] = credits[u] /\ draft'[u] = draft[u]
  PROVE  ChargeInv'
<1>1. JobHolds => job.user \in User /\ lock[job.user] = JobTxn
  BY DEF IInv, LockInv, JobInv, JobHolds
<1> QED
  BY <1>1 DEF ChargeInv, JobHolds

\* A committed entry leaves a row that exists.
LEMMA CommitExists ==
  ASSUME ChargeInv, NEW t, Commit(t)
  PROVE  \A u \in User : credits'[u].suspended => credits'[u].exists
<1> SUFFICES ASSUME NEW u \in User, credits'[u].suspended PROVE credits'[u].exists
  OBVIOUS
<1>1. CASE lock[u] = t
  <2>1. credits'[u] = Apply(credits[u], draft[u])
    BY <1>1 DEF Commit
  <2> QED
    BY <2>1 DEF Apply
<1>2. CASE lock[u] # t
  <2>1. credits'[u] = credits[u]
    BY <1>2 DEF Commit
  <2> QED
    BY <2>1 DEF ChargeInv
<1> QED
  BY <1>1, <1>2

LEMMA ClearExists ==
  ASSUME IInv, ChargeInv, NEW v \in User, ClearSuspension(v)
  PROVE  /\ \A u \in User : credits'[u].suspended => credits'[u].exists
         /\ \A u \in User : lock[u] # NoTxn => credits'[u] = credits[u]
<1>1. credits \in [User -> Row] /\ credits' = [credits EXCEPT ![v].suspended = FALSE] /\ lock[v] = NoTxn
  BY DEF ClearSuspension, Free, IInv, TypeOK
<1>2. credits'[v].exists = credits[v].exists /\ credits[v].exists /\ \A u \in User \ {v} : credits'[u] = credits[u]
  <2>1. credits[v] \in Row
    BY <1>1
  <2> QED
    BY <1>1, <2>1 DEF Row, ClearSuspension
<1> QED
  BY <1>1, <1>2 DEF ChargeInv

\* The steps of a call of creditUser.
LEMMA CreditRInv ==
  ASSUME RInv, NEW t \in Txn,
         \/ \E u \in User, a \in Amount, type \in CreditTypes : CreditBegin(t, u, a, type)
         \/ CreditApply(t) \/ CreditCommit(t) \/ CreditFail(t)
  PROVE  CallInv' /\ ChargeInv'
<1> USE DEF RInv
<1>1. ASSUME NEW u \in User, NEW a \in Amount, NEW type \in CreditTypes, CreditBegin(t, u, a, type)
      PROVE  CallInv' /\ ChargeInv'
  <2>1. UNCHANGED <<credits, draft, job>>
    BY <1>1 DEF CreditBegin, rows
  <2>2. ChargeInv'
    BY <2>1 DEF ChargeInv, JobHolds
  <2> QED
    BY <1>1, <2>2, CreditBeginCallInv
<1>2. CASE CreditApply(t)
  <2>1. PICK op \in txn[t].ops :
          /\ Free(op.user) /\ UNCHANGED <<credits, job>>
          /\ draft' = [draft EXCEPT ![op.user] =
                         OpEntry(op, txn[t].user, credits[op.user].balance)]
    BY <1>2 DEF CreditApply, rows
  <2>2. \A u \in User : lock[u] = JobTxn => draft'[u] = draft[u]
    BY <2>1, TxnAssumption DEF Free, IInv, TypeOK
  <2>3. ChargeInv'
    BY <2>1, <2>2, ChargeKept DEF ChargeInv
  <2> QED
    BY <1>2, <2>3, CreditApplyCallInv
<1>3. CASE CreditCommit(t)
  <2>1. Commit(t) /\ job' = job /\ txn' = [txn EXCEPT ![t] = IdleTxn]
    BY <1>3 DEF CreditCommit
  <2>2. EndsFor(t)
    BY <2>1 DEF Commit, Release, EndsFor
  <2>3. \A u \in User : credits'[u].suspended => credits'[u].exists
    BY <2>1, CommitExists
  <2>4. ChargeInv'
    BY <2>1, <2>2, <2>3, TxnAssumption, ChargeKept DEF EndsFor
  <2> QED
    BY <2>1, <2>2, <2>4, CallEndsCallInv
<1>4. CASE CreditFail(t)
  <2>1. Release(t) /\ UNCHANGED <<credits, job>> /\ txn' = [txn EXCEPT ![t] = IdleTxn]
    BY <1>4 DEF CreditFail, Rollback, rows
  <2>2. EndsFor(t)
    BY <2>1 DEF Release, EndsFor
  <2>3. ChargeInv'
    BY <2>1, <2>2, TxnAssumption, ChargeKept DEF EndsFor, ChargeInv
  <2> QED
    BY <2>1, <2>2, <2>3, CallEndsCallInv
<1> QED
  BY <1>1, <1>2, <1>3, <1>4

\* The steps of the job up to the charge, and the administrator's.
LEMMA SweepRInv ==
  ASSUME RInv,
         \/ JobStart \/ JobReadBalance \/ JobReadUsers \/ JobFail \/ JobEnd \/ JobClear
         \/ \E u \in User : JobReadStorage(u) \/ AdminUnsuspend(u)
  PROVE  CallInv' /\ ChargeInv'
<1> USE DEF RInv
<1>1. CASE \/ JobStart \/ JobReadBalance \/ JobReadUsers \/ JobFail \/ JobEnd
           \/ \E u \in User : JobReadStorage(u)
  <2>1. UNCHANGED <<credits, lock, draft, txn>>
    BY <1>1, Zenon DEF JobStart, JobReadBalance, JobReadUsers, JobFail, JobEnd, JobReadStorage, rows
  <2>2. ~JobHolds'
    <3>1. job'.pc \notin {"update", "commit"}
      <4>1. CASE JobStart \/ JobReadBalance \/ JobReadUsers
        BY <4>1, JobRecord DEF JobStart, JobReadBalance, JobReadUsers, IdleJob
      <4>2. CASE JobFail \/ JobEnd
        BY <4>2, JobRecord DEF JobFail, JobEnd, IdleJob
      <4>3. ASSUME NEW u \in User, JobReadStorage(u) PROVE job'.pc \notin {"update", "commit"}
        BY <4>3, JobRecord DEF JobReadStorage
      <4> QED
        BY <1>1, <4>1, <4>2, <4>3
    <3> QED
      BY <3>1 DEF JobHolds
  <2> QED
    BY <2>1, <2>2, OthersCallInv DEF ChargeInv, JobHolds
<1>2. CASE JobClear
  <2>1. /\ ClearSuspension(job.user) /\ job.user \in User /\ txn' = txn
        /\ job' = [job EXCEPT !.pc = "sweep", !.user = NoUser]
    BY <1>2 DEF JobClear, IInv, JobInv
  <2>2. UNCHANGED <<lock, draft>>
    BY <2>1 DEF ClearSuspension
  <2>3. ~JobHolds'
    BY <2>1, JobRecord DEF JobHolds
  <2>4. /\ \A u \in User : credits'[u].suspended => credits'[u].exists
        /\ \A u \in User : lock[u] # NoTxn => credits'[u] = credits[u]
    BY <2>1, ClearExists
  <2>5. ChargeInv'
    BY <2>3, <2>4 DEF ChargeInv, JobHolds
  <2> QED
    BY <2>1, <2>2, <2>4, <2>5, TxnAssumption, OthersCallInv
<1>3. ASSUME NEW v \in User, AdminUnsuspend(v) PROVE CallInv' /\ ChargeInv'
  <2>1. ClearSuspension(v) /\ txn' = txn /\ job' = job
    BY <1>3 DEF AdminUnsuspend
  <2>2. UNCHANGED <<lock, draft>>
    BY <2>1 DEF ClearSuspension
  <2>4. /\ \A u \in User : credits'[u].suspended => credits'[u].exists
        /\ \A u \in User : lock[u] # NoTxn => credits'[u] = credits[u]
    BY <2>1, ClearExists
  <2>5. ChargeInv'
    BY <2>1, <2>2, <2>4, TxnAssumption, ChargeKept
  <2> QED
    BY <2>1, <2>2, <2>4, <2>5, TxnAssumption, OthersCallInv
<1> QED
  BY <1>1, <1>2, <1>3

\* The charge: a user whose row the job locks is not suspended.
LEMMA DeductRInv ==
  ASSUME RInv, (\E u \in User : DeductSelect(u)) \/ DeductUpdate \/ DeductInsert
  PROVE  CallInv' /\ ChargeInv'
<1> USE DEF RInv
<1>1. UNCHANGED <<credits, txn>>
  BY DEF DeductSelect, DeductUpdate, DeductInsert, rows
<1>2. ASSUME NEW u \in User, DeductSelect(u) PROVE CallInv' /\ ChargeInv'
  <2>1. draft' = draft /\ job.pc = "bill"
    BY <1>2 DEF DeductSelect
  <2>2. CASE lock' = lock /\ ~JobHolds'
    BY <1>1, <2>1, <2>2, OthersCallInv DEF ChargeInv, JobHolds
  <2>3. CASE /\ Free(u) /\ ~credits[u].suspended /\ lock' = [lock EXCEPT ![u] = JobTxn]
             /\ job' = [job EXCEPT !.pc = "update", !.todo = @ \ {u}, !.user = u, !.seen = credits[u].balance]
    <3>1. job'.pc = "update" /\ job'.user = u
      BY <2>3, JobRecord
    <3>2. \A v \in User : lock[v] \in Txn \/ lock'[v] \in Txn => lock'[v] = lock[v]
      BY <2>3, TxnAssumption DEF Free, IInv, TypeOK
    <3>3. ChargeInv'
      BY <1>1, <2>3, <3>1 DEF ChargeInv
    <3> QED
      BY <1>1, <2>1, <3>2, <3>3, OthersCallInv
  <2>4. \/ lock' = lock /\ (\/ job' = [job EXCEPT !.todo = @ \ {u}]
                            \/ job' = [job EXCEPT !.pc = "insert", !.todo = @ \ {u}, !.user = u])
        \/ /\ Free(u) /\ ~credits[u].suspended /\ lock' = [lock EXCEPT ![u] = JobTxn]
           /\ job' = [job EXCEPT !.pc = "update", !.todo = @ \ {u}, !.user = u, !.seen = credits[u].balance]
    BY <1>2, Zenon DEF DeductSelect
  <2>5. (\/ job' = [job EXCEPT !.todo = @ \ {u}]
         \/ job' = [job EXCEPT !.pc = "insert", !.todo = @ \ {u}, !.user = u]) => ~JobHolds'
    BY <2>1, JobRecord DEF JobHolds
  <2> QED
    BY <2>2, <2>3, <2>4, <2>5
<1>3. ASSUME NEW u \in User, job.user = u, lock[u] \in {NoTxn, JobTxn}, ~credits[u].suspended,
             job.seen = credits[u].balance,
             lock' = [lock EXCEPT ![u] = JobTxn],
             draft' = [draft EXCEPT ![u] = Deduction(job.seen)],
             job' = [job EXCEPT !.pc = "commit"]
      PROVE  CallInv' /\ ChargeInv'
  <2>1. job'.pc = "commit" /\ job'.user = u
    BY <1>3, JobRecord
  <2>2. draft'[u] = Deduction(credits[u].balance)
    BY <1>3 DEF IInv, TypeOK
  <2>3. \A v \in User : lock[v] \in Txn \/ lock'[v] \in Txn => lock'[v] = lock[v] /\ draft'[v] = draft[v]
    BY <1>3, TxnAssumption DEF IInv, TypeOK
  <2>4. ChargeInv'
    BY <1>1, <1>3, <2>1, <2>2 DEF ChargeInv
  <2> QED
    BY <1>1, <2>3, <2>4, OthersCallInv
<1>4. CASE DeductUpdate
  <2>1. /\ job.user \in User /\ job.seen = credits[job.user].balance /\ ~credits[job.user].suspended
    BY <1>4 DEF DeductUpdate, IInv, JobInv, ChargeInv, JobHolds
  <2> QED
    BY <1>3, <1>4, <2>1 DEF DeductUpdate
<1>5. CASE DeductInsert
  <2>1. job.pc = "insert" /\ job.user \in User /\ job.seen = 0 /\ Free(job.user)
    BY <1>5 DEF DeductInsert, IInv, JobInv, JobHolds
  <2>2. CASE credits[job.user].exists
    <3>1. UNCHANGED <<lock, draft>> /\ job' = [job EXCEPT !.pc = "bill", !.user = NoUser]
      BY <1>5, <2>2 DEF DeductInsert
    <3>2. ~JobHolds'
      BY <3>1, JobRecord DEF JobHolds
    <3> QED
      BY <1>1, <3>1, <3>2, OthersCallInv DEF ChargeInv, JobHolds
  <2>3. CASE ~credits[job.user].exists
    <3>1. credits[job.user].balance = 0 /\ ~credits[job.user].suspended
      BY <2>1, <2>3 DEF IInv, HistoryChain, Statement, ChargeInv
    <3> QED
      BY <1>3, <1>5, <2>1, <2>3, <3>1 DEF DeductInsert, Free
  <2> QED
    BY <2>2, <2>3
<1> QED
  BY <1>2, <1>4, <1>5

\* The end of a charge, a crash, and a step that changes nothing.
LEMMA DeductEndRInv ==
  ASSUME RInv, DeductCommit \/ DeductFail \/ Crash \/ UNCHANGED vars
  PROVE  CallInv' /\ ChargeInv'
<1> USE DEF RInv
<1>1. CASE DeductCommit
  <2>1. Commit(JobTxn) /\ txn' = txn /\ job'.pc = "bill"
    BY <1>1, JobRecord DEF DeductCommit
  <2>2. EndsFor(JobTxn)
    BY <2>1 DEF Commit, Release, EndsFor
  <2>3. \A u \in User : credits'[u].suspended => credits'[u].exists
    BY <2>1, CommitExists
  <2>4. ChargeInv'
    BY <2>1, <2>3 DEF ChargeInv, JobHolds
  <2> QED
    BY <2>1, <2>2, <2>4, TxnAssumption, OthersCallInv DEF EndsFor
<1>2. CASE DeductFail
  <2>1. Release(JobTxn) /\ txn' = txn /\ credits' = credits /\ job'.pc = "bill"
    BY <1>2, JobRecord DEF DeductFail, Rollback, rows
  <2>2. EndsFor(JobTxn)
    BY <2>1 DEF Release, EndsFor
  <2>3. ChargeInv'
    BY <2>1 DEF ChargeInv, JobHolds
  <2> QED
    BY <2>1, <2>2, <2>3, TxnAssumption, OthersCallInv DEF EndsFor
<1>3. CASE Crash
  <2>1. txn' = [t \in Txn |-> IdleTxn] /\ job' = IdleJob /\ credits' = credits
    BY <1>3 DEF Crash, rows
  <2>2. CallInv'
    BY <2>1 DEF CallInv, IdleTxn
  <2>3. ChargeInv'
    BY <2>1 DEF ChargeInv, JobHolds, IdleJob
  <2> QED
    BY <2>2, <2>3
<1>4. CASE UNCHANGED vars
  <2>1. UNCHANGED <<credits, lock, draft, txn, job>>
    BY <1>4 DEF vars
  <2> QED
    BY <2>1, OthersCallInv DEF ChargeInv, JobHolds
<1> QED
  BY <1>1, <1>2, <1>3, <1>4

LEMMA NextRInv == RInv /\ [Next]_vars => RInv'
<1> SUFFICES ASSUME RInv, [Next]_vars PROVE RInv'
  OBVIOUS
<1>1. IInv'
  BY NextIInv DEF RInv
<1>2. CallInv' /\ ChargeInv'
  BY CreditRInv, SweepRInv, DeductRInv, DeductEndRInv DEF Next, JobStep
<1> QED
  BY <1>1, <1>2 DEF RInv

LEMMA InitRInv == Init => RInv
<1> SUFFICES ASSUME Init PROVE RInv
  OBVIOUS
<1>1. IInv
  BY InitIInv
<1>2. CallInv /\ ChargeInv
  BY DEF Init, CallInv, ChargeInv, IdleTxn, IdleJob, JobHolds, NoRow
<1> QED
  BY <1>1, <1>2 DEF RInv

\* The bonuses of a call are the operations of that type.
LEMMA BonusesAreOps ==
  ASSUME NEW u \in User, NEW a \in Int, NEW type \in CreditTypes
  PROVE  BonusOps(u, a) = {o \in Ops(u, a, type) : o.type = "referral_bonus"}
<1>1. \A o \in BonusOps(u, a) : o.type = "referral_bonus"
  BY DEF BonusOps
<1>2. type # "referral_bonus"
  BY DEF CreditTypes
<1> QED
  BY <1>1, <1>2 DEF Ops

LEMMA SameEntries ==
  /\ \A o, s, b : Atomic!OpEntry(o, s, b) = OpEntry(o, s, b)
  /\ \A b : Atomic!Deduction(b) = Deduction(b)
<1>1. \A o, s, b : Atomic!OpEntry(o, s, b) = OpEntry(o, s, b)
  BY Zenon DEF Atomic!OpEntry, OpEntry
<1>2. \A b : Atomic!Deduction(b) = Deduction(b)
  BY Zenon DEF Atomic!Deduction, Deduction
<1> QED
  BY <1>1, <1>2

\* COMMIT enters the drafts in the rows and in the histories, all at once.
LEMMA CommitPosts ==
  ASSUME NEW t, Commit(t), NEW S, NEW e,
         \A u \in User : lock[u] = t <=> u \in S,
         \A u \in User : u \in S => e[u] = draft[u]
  PROVE  Atomic!Post(S, e)
<1>1. credits' = [u \in User |-> IF u \in S THEN Atomic!Apply(credits[u], e[u]) ELSE credits[u]]
  <2>1. \A u \in User : (IF lock[u] = t THEN Apply(credits[u], draft[u]) ELSE credits[u])
                        = (IF u \in S THEN Atomic!Apply(credits[u], e[u]) ELSE credits[u])
    BY SameApply
  <2> QED
    BY <2>1, Zenon DEF Commit
<1>2. history' = [u \in User |-> IF u \in S THEN Append(history[u], e[u]) ELSE history[u]]
  <2>1. \A u \in User : (IF lock[u] = t THEN Append(history[u], draft[u]) ELSE history[u])
                        = (IF u \in S THEN Append(history[u], e[u]) ELSE history[u])
    OBVIOUS
  <2> QED
    BY <2>1, Zenon DEF Commit
<1> QED
  BY <1>1, <1>2, Zenon DEF Atomic!Post

\* A call that commits is one atomic credit, on balances nobody moved meanwhile.
LEMMA CreditCommitted ==
  ASSUME IInv, CallInv, NEW t \in Txn, CreditCommit(t)
  PROVE  \E u \in User, a \in Amount, type \in CreditTypes : Atomic!Credit(u, a, type)
<1>1. /\ txn[t].open /\ txn[t].ops = {} /\ Commit(t)
      /\ bonuses' = bonuses \cup BonusRows(t)
  BY DEF CreditCommit
<1>2. txn[t].user \in User /\ txn[t].amount \in Amount
  BY <1>1 DEF IInv, LockInv, CallInv
<1>3. PICK type \in CreditTypes : Drafted(t, type)
  BY <1>1 DEF CallInv
<1>4. PICK src \in User : src = txn[t].user
  BY <1>2
<1>5. PICK amount \in Amount : amount = txn[t].amount
  BY <1>2
<1> DEFINE ops   == Atomic!Ops(src, amount, type)
           S     == {op.user : op \in ops}
           op(u) == CHOOSE o \in ops : o.user = u
           e     == [u \in S |-> Atomic!OpEntry(op(u), src, credits[u].balance)]
<1>6. ops = Ops(src, amount, type) /\ amount \in Int
  BY SameOps, LedgerAssumption
<1>7. ops \subseteq Op /\ Distinct(ops)
  BY <1>6, OpsProperties
<1>8. /\ \A o \in ops : lock[o.user] = t /\ draft[o.user] = OpEntry(o, src, credits[o.user].balance)
      /\ \A u \in User : lock[u] = t => \E o \in ops : o.user = u
  BY <1>1, <1>3, <1>4, <1>5, <1>6 DEF Drafted
<1>9. \A o \in ops : op(o.user) = o
  <2> HIDE DEF ops
  <2>1. TAKE o \in ops
  <2>2. op(o.user) \in ops /\ op(o.user).user = o.user
    OBVIOUS
  <2> QED
    BY <1>7, <2>2 DEF Distinct
<1>10. Atomic!Post(S, e)
  <2>1. \A u \in User : lock[u] = t <=> u \in S
    BY <1>7, <1>8 DEF Op
  <2>2. \A u \in User : u \in S => e[u] = draft[u]
    <3> SUFFICES ASSUME NEW u \in User, u \in S PROVE e[u] = draft[u]
      OBVIOUS
    <3>1. PICK o \in ops : o.user = u
      OBVIOUS
    <3>2. op(u) = o
      BY <1>9, <3>1
    <3>3. e[u] = Atomic!OpEntry(o, src, credits[u].balance)
      BY <3>2
    <3> QED
      BY <1>8, <3>1, <3>3, SameEntries
  <2> HIDE DEF ops, S, e
  <2> QED
    BY <1>1, <2>1, <2>2, CommitPosts
<1>11. BonusRows(t) = {Atomic!BonusRow(src, o) : o \in Atomic!BonusOps(src, amount)}
  <2> DEFINE paid == {b \in Held(t) : draft[b].type = "referral_bonus"}
             row(a) == [source |-> src, sourceId |-> Len(history[src]) + 1, level |-> draft[a].level,
                        recipient |-> a, id |-> Len(history[a]) + 1, amount |-> draft[a].amount]
  <2>1. BonusRows(t) = {row(a) : a \in paid}
    BY <1>4 DEF BonusRows
  <2>2. Atomic!BonusOps(src, amount) = {o \in ops : o.type = "referral_bonus"}
    BY <1>6, BonusesAreOps, SameBonusOps
  <2>3. \A o \in ops : /\ o.user \in User /\ draft[o.user].type = o.type
                        /\ draft[o.user].level = o.level /\ draft[o.user].amount = o.amount
    <3> HIDE DEF ops
    <3>1. TAKE o \in ops
    <3>2. o \in Op /\ draft[o.user] = OpEntry(o, src, credits[o.user].balance)
      BY <1>7, <1>8
    <3> QED
      BY <3>2 DEF OpEntry, Op
  <2>4. \A o \in ops : row(o.user) = Atomic!BonusRow(src, o)
    BY <2>3 DEF Atomic!BonusRow
  <2>5. \A o \in Atomic!BonusOps(src, amount) : o.user \in paid
    BY <1>8, <2>2, <2>3 DEF Held
  <2>6. \A a \in paid : \E o \in Atomic!BonusOps(src, amount) : o.user = a
    BY <1>8, <2>2, <2>3 DEF Held
  <2> HIDE DEF ops, row, paid
  <2>7. \A o \in Atomic!BonusOps(src, amount) : o \in ops
    BY <2>2
  <2> QED
    BY <2>1, <2>4, <2>5, <2>6, <2>7
<1>12. Atomic!Credit(src, amount, type)
  BY <1>1, <1>10, <1>11, Zenon DEF Atomic!Credit
<1> QED
  BY <1>12

\* A deduction that commits charges the balance its row has then.
LEMMA DeductCommitted ==
  ASSUME IInv, ChargeInv, DeductCommit
  PROVE  \E u \in User : Atomic!Deduct(u)
<1>1. Commit(JobTxn) /\ job.pc = "commit" /\ UNCHANGED bonuses
  BY DEF DeductCommit
<1>2. /\ job.user \in User /\ ~credits[job.user].suspended
      /\ draft[job.user] = Deduction(credits[job.user].balance)
      /\ \A u \in User : lock[u] = JobTxn <=> u \in {job.user}
  BY <1>1 DEF IInv, LockInv, JobInv, JobHolds, ChargeInv
<1>3. PICK u \in User : u = job.user
  BY <1>2
<1> DEFINE e == [v \in {u} |-> Atomic!Deduction(credits[u].balance)]
<1>4. \A v \in User : v \in {u} => e[v] = draft[v]
  BY <1>2, <1>3, SameEntries
<1>5. Atomic!Post({u}, e)
  <2> HIDE DEF e
  <2> QED
    BY <1>1, <1>2, <1>3, <1>4, CommitPosts
<1>6. Atomic!Deduct(u)
  BY <1>1, <1>2, <1>3, <1>5, Zenon DEF Atomic!Deduct
<1> QED
  BY <1>6

\* Every step is one of the atomic ledger, or leaves its tables alone.
LEMMA AtomicStep == RInv /\ [Next]_vars => [Atomic!Next]_(Atomic!ledgerVars)
<1> SUFFICES ASSUME RInv, [Next]_vars, Atomic!ledgerVars' # Atomic!ledgerVars PROVE Atomic!Next
  BY Zenon
<1> USE DEF RInv
<1>1. UNCHANGED rows => Atomic!ledgerVars' = Atomic!ledgerVars
  BY DEF rows, Atomic!ledgerVars
<1>2. \E u \in User : \/ \E a \in Amount, type \in CreditTypes : Atomic!Credit(u, a, type)
                      \/ Atomic!Deduct(u)
                      \/ Atomic!Unsuspend(u)
  <2>1. ASSUME NEW u \in User, ClearSuspension(u) PROVE Atomic!Unsuspend(u)
    BY <2>1, Zenon DEF ClearSuspension, Atomic!Unsuspend
  <2>2. JobClear => \E u \in User : ClearSuspension(u)
    BY DEF JobClear, IInv, JobInv
  <2>3. ASSUME NEW t \in Txn, \/ \E u \in User, a \in Amount, type \in CreditTypes : CreditBegin(t, u, a, type)
                              \/ CreditApply(t) \/ CreditFail(t)
        PROVE  UNCHANGED rows
    BY <2>3, Zenon DEF CreditBegin, CreditApply, CreditFail, Rollback
  <2>4. JobStep => UNCHANGED rows \/ JobClear \/ DeductCommit
    BY Zenon DEF JobStep, JobStart, JobReadBalance, JobReadUsers, JobReadStorage, DeductSelect,
       DeductUpdate, DeductInsert, JobEnd
  <2>5. DeductFail \/ JobFail \/ Crash \/ UNCHANGED vars => UNCHANGED rows
    BY DEF DeductFail, Rollback, JobFail, Crash, vars, rows
  <2>6. \A u \in User : AdminUnsuspend(u) => ClearSuspension(u)
    BY DEF AdminUnsuspend
  <2>7. \A t \in Txn : CreditCommit(t) =>
          \E u \in User, a \in Amount, type \in CreditTypes : Atomic!Credit(u, a, type)
    BY CreditCommitted
  <2>8. DeductCommit => \E u \in User : Atomic!Deduct(u)
    BY DeductCommitted
  <2>9. CASE \E t \in Txn : \/ \E u \in User, a \in Amount, type \in CreditTypes : CreditBegin(t, u, a, type)
                            \/ CreditApply(t) \/ CreditCommit(t) \/ CreditFail(t)
    BY <1>1, <2>3, <2>7, <2>9, Zenon
  <2>10. CASE JobStep
    BY <1>1, <2>1, <2>2, <2>4, <2>8, <2>10, Zenon
  <2>11. CASE DeductFail \/ JobFail \/ Crash \/ UNCHANGED vars
    BY <1>1, <2>5, <2>11, Zenon
  <2>12. CASE \E u \in User : AdminUnsuspend(u)
    BY <2>1, <2>6, <2>12, Zenon
  <2> QED
    BY <2>9, <2>10, <2>11, <2>12, Zenon DEF Next
<1> QED
  BY <1>2, Zenon DEF Atomic!Next, Atomic!CreditTypes, CreditTypes

\* However calls, deductions, sweeps, failures and crashes interleave, the committed tables change
\* as if every credit and every charge took effect at one instant.
THEOREM Implements == Spec => AtomicLedger
<1>1. Init => Atomic!Init
  BY Zenon DEF Init, Atomic!Init, NoRow, Atomic!NoRow
<1> QED
  BY <1>1, InitRInv, NextRInv, AtomicStep, PTL DEF Spec, AtomicLedger, Atomic!Spec
=============================================================================
