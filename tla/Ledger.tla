------------------------------- MODULE Ledger -------------------------------
(***************************************************************************)
(* What the credit ledger promises its callers, with no connections, locks *)
(* or failures: a call of creditUser takes effect at one instant, on the   *)
(* source's row and on the rows of everyone it earns a bonus, or not at    *)
(* all; a deduction charges a user who is not suspended from the balance   *)
(* the user has at that instant.                                           *)
(***************************************************************************)
EXTENDS LedgerRows

VARIABLES credits, history, bonuses

ledgerVars == <<credits, history, bonuses>>

Init ==
  /\ credits = [u \in User |-> NoRow]
  /\ history = [u \in User |-> <<>>]
  /\ bonuses = {}

\* Enter e[u] in the row and the history of every user of S.
Post(S, e) ==
  /\ credits' = [u \in User |-> IF u \in S THEN Apply(credits[u], e[u]) ELSE credits[u]]
  /\ history' = [u \in User |-> IF u \in S THEN Append(history[u], e[u]) ELSE history[u]]

\* The referral_bonuses row that pairs a bonus entry with its source entry.
BonusRow(src, op) ==
  [source |-> src, sourceId |-> Len(history[src]) + 1, level |-> op.level,
   recipient |-> op.user, id |-> Len(history[op.user]) + 1, amount |-> op.amount]

Credit(src, amount, type) ==
  LET ops   == Ops(src, amount, type)
      S     == {op.user : op \in ops}
      op(u) == CHOOSE o \in ops : o.user = u
  IN  /\ Post(S, [u \in S |-> OpEntry(op(u), src, credits[u].balance)])
      /\ bonuses' = bonuses \cup {BonusRow(src, o) : o \in BonusOps(src, amount)}

Deduct(u) ==
  /\ ~credits[u].suspended
  /\ Post({u}, [v \in {u} |-> Deduction(credits[u].balance)])
  /\ UNCHANGED bonuses

Unsuspend(u) ==
  /\ credits[u].exists
  /\ credits' = [credits EXCEPT ![u].suspended = FALSE]
  /\ UNCHANGED <<history, bonuses>>

\* Every operation changes something; the rest is stuttering.
Next ==
  /\ ledgerVars' # ledgerVars
  /\ \E u \in User :
       \/ \E a \in Amount, type \in CreditTypes : Credit(u, a, type)
       \/ Deduct(u)
       \/ Unsuspend(u)

Spec == Init /\ [][Next]_ledgerVars
=============================================================================
