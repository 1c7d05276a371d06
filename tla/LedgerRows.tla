----------------------------- MODULE LedgerRows -----------------------------
(***************************************************************************)
(* The rows of the credit ledger of pinning-webui/server (user_credits and *)
(* credit_history), the operations one call of creditUser is made of, and  *)
(* what each of them leaves in a row.                                      *)
(*                                                                         *)
(* Amounts are integers: multiples of 10^-6 FULA, the precision bonuses    *)
(* are rounded to.  The REAL columns' own rounding is left out.            *)
(***************************************************************************)
EXTENDS Integers, Sequences, FiniteSets

CONSTANTS
  User,            \* user ids, ordered as JavaScript orders the strings
  NoUser,
  Referrer,        \* referrals table: referred_id -> referrer_id, or NoUser
  BonusesEnabled,  \* REFERRAL_BONUSES_ENABLED
  Amount,          \* amounts creditUser is called with
  Fee              \* the hourly deduction of a user over the free tier

ASSUME LedgerAssumption ==
  /\ User \subseteq Nat /\ IsFiniteSet(User)
  /\ NoUser \notin User
  /\ Referrer \in [User -> User \cup {NoUser}]
  /\ BonusesEnabled \in BOOLEAN
  /\ Amount \subseteq Int
  /\ Fee \in Nat \ {0}

CreditTypes == {"deposit", "adjustment"}
EntryTypes  == CreditTypes \cup {"referral_bonus", "hourly_deduction"}

\* Source and level are the parts of a bonus's reference_id that matter.
Entry == [type : EntryTypes \cup {"none"}, amount : Int, after : Int,
          level : 0..3, source : User \cup {NoUser}]

NoEntry == [type |-> "none", amount |-> 0, after |-> 0, level |-> 0,
            source |-> NoUser]

Row == [exists : BOOLEAN, balance : Int, deposited : Int, deducted : Int,
        bonus : Int, suspended : BOOLEAN]

\* What reading a missing row amounts to (credits?.balance_fula || 0).
NoRow == [exists |-> FALSE, balance |-> 0, deposited |-> 0, deducted |-> 0,
          bonus |-> 0, suspended |-> FALSE]

\* One step of the walk: up from the end of the chain c of user u, unless
\* there is no referrer, or it is u or already in the chain.
Extend(u, c) ==
  LET cursor == IF c = <<>> THEN u ELSE c[Len(c)]
      up     == Referrer[cursor]
  IN  IF up \in {NoUser, u} \cup {c[i] : i \in DOMAIN c}
      THEN c
      ELSE Append(c, up)

ReferralChain(u) == Extend(u, Extend(u, Extend(u, <<>>)))

\* 10%, 1% and 1%, rounded to the nearest unit (Math.round rounds up at .5).
Bonus(level, amount) ==
  IF level = 1 THEN (amount + 5) \div 10 ELSE (amount + 50) \div 100

Op == [user : User, amount : Int, type : EntryTypes, level : 0..3]

BonusOps(u, amount) ==
  LET chain == ReferralChain(u)
      paid  == {i \in DOMAIN chain :
                  BonusesEnabled /\ amount > 0 /\ Bonus(i, amount) > 0}
  IN  {[user |-> chain[i], amount |-> Bonus(i, amount),
        type |-> "referral_bonus", level |-> i] : i \in paid}

Ops(u, amount, type) ==
  {[user |-> u, amount |-> amount, type |-> type, level |-> 0]}
    \cup BonusOps(u, amount)

\* The upsert of an entry: what it leaves in the row.
Apply(r, e) ==
  [exists    |-> TRUE,
   balance   |-> r.balance + e.amount,
   deposited |-> IF e.type = "deposit" THEN r.deposited + e.amount ELSE r.deposited,
   deducted  |-> IF e.type = "hourly_deduction" THEN r.deducted - e.amount
                                                ELSE r.deducted,
   bonus     |-> IF e.type = "referral_bonus" THEN r.bonus + e.amount ELSE r.bonus,
   suspended |-> IF e.type = "referral_bonus" THEN r.suspended
                 ELSE e.type = "hourly_deduction" /\ e.after < 0]

\* The entry of processUserDeduction: balance_after is computed from the
\* balance its SELECT returned.
Deduction(seen) ==
  [type |-> "hourly_deduction", amount |-> -Fee, after |-> seen - Fee,
   level |-> 0, source |-> NoUser]

\* The entry of an operation of a call for user src: balance_after is the
\* balance the upsert returned.
OpEntry(op, src, balance) ==
  [type |-> op.type, amount |-> op.amount, after |-> balance + op.amount,
   level |-> op.level, source |-> src]
=============================================================================
