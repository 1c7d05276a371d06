----------------------- MODULE DepositIngestion_proofs -----------------------
(***************************************************************************)
(* Among all scanners and claims that make the row of a transaction, at    *)
(* most one credits it: for any number of scanners, claims, users, wallets *)
(* and transactions, and any number of failures.  No transfer in front of  *)
(* the saved block goes without a row but those that a failure hid from    *)
(* the scanner: what it fetched and has not inserted is still in its list, *)
(* and what it missed is on another.                                       *)
(***************************************************************************)
EXTENDS DepositIngestion, FiniteSetTheorems, TLAPS

\* Made the row of t and have not paid yet.
Scanning(s, t) == scan[s].pc \in {"lookup", "credit"} /\ scan[s].tx = t
Claiming(c, t) == claim[c].pc = "credit" /\ ~claim[c].existing /\ claim[c].tx = t

\* A payment of someone who made the row.
Inserted(t, i) == i \in DOMAIN paid[t] /\ paid[t][i].how = "inserted"

\* Whoever holds t holds it alone, and nobody holds it that has been paid.
Exclusive(t) ==
  /\ \A r, s \in Scanner : Scanning(r, t) /\ Scanning(s, t) => r = s
  /\ \A c, d \in Claimer : Claiming(c, t) /\ Claiming(d, t) => c = d
  /\ \A s \in Scanner, c \in Claimer : ~(Scanning(s, t) /\ Claiming(c, t))
  /\ \A i \in DOMAIN paid[t] : Inserted(t, i) =>
       /\ \A s \in Scanner : ~Scanning(s, t)
       /\ \A c \in Claimer : ~Claiming(c, t)
  /\ \A i, j \in DOMAIN paid[t] : Inserted(t, i) /\ Inserted(t, j) => i = j

\* Without a row nobody holds t and nobody has paid.
Untouched(t) ==
  row[t].status = "none" =>
    /\ \A s \in Scanner : ~Scanning(s, t)
    /\ \A c \in Claimer : ~Claiming(c, t)
    /\ \A i \in DOMAIN paid[t] : ~Inserted(t, i)

ScanRec == [pc : {"idle", "next", "lookup", "credit", "mark"}, todo : SUBSET Tx, missed : SUBSET Tx,
            max : Nat, tx : Tx \cup {NoTx}, user : User \cup {NoUser}]
ClaimRec == [pc : {"new", "check", "write", "credit", "done"},
             user : User \cup {NoUser}, tx : Tx \cup {NoTx}, existing : BOOLEAN]

\* What the steps need to know of the types, and that whoever is at work on
\* a transaction has one, and an account.
Shape ==
  /\ row \in [Tx -> [status : {"none", "unclaimed", "claimed"}, user : User \cup {NoUser}]]
  /\ \A t \in Tx : paid[t] \in Seq([user : User, how : {"inserted", "updated"}])
  /\ DOMAIN paid = Tx
  /\ scan \in [Scanner -> ScanRec]
  /\ claim \in [Claimer -> ClaimRec]
  /\ \A s \in Scanner : scan[s].pc \in {"lookup", "credit", "mark"} => scan[s].tx \in Tx
  /\ \A s \in Scanner : scan[s].pc \in {"credit", "mark"} => scan[s].user \in User
  /\ \A c \in Claimer : claim[c].pc \in {"check", "write", "credit"} =>
       claim[c].tx \in Tx /\ claim[c].user \in User

IInv == Shape /\ \A t \in Tx : Exclusive(t) /\ Untouched(t)

-----------------------------------------------------------------------------
(* Lemmas                                                                  *)

\* A step that makes nobody hold a transaction, pays nobody and unmakes no
\* row keeps the invariant.
LEMMA Calm ==
  ASSUME IInv, Shape',
         \A t \in Tx, s \in Scanner : Scanning(s, t)' => Scanning(s, t),
         \A t \in Tx, c \in Claimer : Claiming(c, t)' => Claiming(c, t),
         \A t \in Tx : row'[t].status = "none" => row[t].status = "none",
         paid' = paid
  PROVE  IInv'
<1> SUFFICES ASSUME NEW t \in Tx PROVE Exclusive(t)' /\ Untouched(t)'
  BY DEF IInv
<1>1. Exclusive(t) /\ Untouched(t)
  BY DEF IInv
<1>2. \A i : Inserted(t, i)' <=> Inserted(t, i)
  BY DEF Inserted
<1> QED
  BY <1>1, <1>2, Zenon DEF Exclusive, Untouched

\* Someone makes the row of t and holds it.
LEMMA RowMade ==
  ASSUME IInv, Shape', NEW t \in Tx, row[t].status = "none", row'[t].status # "none",
         \A x \in Tx : row'[x].status = "none" => row[x].status = "none",
         paid' = paid,
         \A x \in Tx \ {t}, s \in Scanner : Scanning(s, x)' => Scanning(s, x),
         \A x \in Tx \ {t}, c \in Claimer : Claiming(c, x)' => Claiming(c, x),
         \/ /\ \A c \in Claimer : ~Claiming(c, t)'
            /\ \A r, s \in Scanner : Scanning(r, t)' /\ Scanning(s, t)' => r = s
         \/ /\ \A s \in Scanner : ~Scanning(s, t)'
            /\ \A c, d \in Claimer : Claiming(c, t)' /\ Claiming(d, t)' => c = d
  PROVE  IInv'
<1> SUFFICES ASSUME NEW x \in Tx PROVE Exclusive(x)' /\ Untouched(x)'
  BY DEF IInv
<1>1. Exclusive(x) /\ Untouched(x)
  BY DEF IInv
<1>2. \A i : Inserted(x, i)' <=> Inserted(x, i)
  BY DEF Inserted
<1>3. CASE x = t
  BY <1>1, <1>2, <1>3, Zenon DEF Exclusive, Untouched
<1>4. CASE x # t
  BY <1>1, <1>2, <1>4, Zenon DEF Exclusive, Untouched
<1> QED
  BY <1>3, <1>4

\* A payment for t is added to those there were.
LEMMA PaymentAdded ==
  ASSUME Shape, NEW t \in Tx, NEW u \in User, NEW how \in {"inserted", "updated"},
         Pay(t, u, how)
  PROVE  /\ DOMAIN paid' = Tx
         /\ \A x \in Tx : paid'[x] \in Seq([user : User, how : {"inserted", "updated"}])
         /\ \A x \in Tx \ {t} : paid'[x] = paid[x]
         /\ \A i : Inserted(t, i)' <=> \/ Inserted(t, i)
                                       \/ i = Len(paid[t]) + 1 /\ how = "inserted"
         /\ ~Inserted(t, Len(paid[t]) + 1)
<1> DEFINE e == [user |-> u, how |-> how]
<1>1. paid' = [paid EXCEPT ![t] = Append(@, e)]
  BY DEF Pay
<1>2. paid[t] \in Seq([user : User, how : {"inserted", "updated"}]) /\ DOMAIN paid = Tx
  BY DEF Shape
<1>3. e \in [user : User, how : {"inserted", "updated"}] /\ e.how = how
  OBVIOUS
<1>4. paid'[t] = Append(paid[t], e) /\ DOMAIN paid' = Tx /\ \A x \in Tx \ {t} : paid'[x] = paid[x]
  BY <1>1, <1>2
<1>5. paid'[t] \in Seq([user : User, how : {"inserted", "updated"}])
  BY <1>2, <1>3, <1>4
<1>6. /\ Len(paid[t]) \in Nat
      /\ DOMAIN paid[t] = 1..Len(paid[t])
      /\ DOMAIN paid'[t] = 1..(Len(paid[t]) + 1)
      /\ \A i \in 1..Len(paid[t]) : paid'[t][i] = paid[t][i]
      /\ paid'[t][Len(paid[t]) + 1] = e
  BY <1>2, <1>4
<1>7. ~Inserted(t, Len(paid[t]) + 1)
  BY <1>6 DEF Inserted
<1>8. \A i : Inserted(t, i)' <=> \/ Inserted(t, i)
                                 \/ i = Len(paid[t]) + 1 /\ how = "inserted"
  BY <1>3, <1>6 DEF Inserted
<1> QED
  BY <1>4, <1>5, <1>7, <1>8 DEF Shape

\* The holder of t pays and lets go of it, or someone who found a row pays.
LEMMA Paying ==
  ASSUME IInv, Shape', NEW t \in Tx, NEW u \in User, NEW how \in {"inserted", "updated"},
         Pay(t, u, how), row' = row,
         \A x \in Tx, s \in Scanner : Scanning(s, x)' => Scanning(s, x),
         \A x \in Tx, c \in Claimer : Claiming(c, x)' => Claiming(c, x),
         how = "inserted" =>
           /\ (\E s \in Scanner : Scanning(s, t)) \/ (\E c \in Claimer : Claiming(c, t))
           /\ \A s \in Scanner : ~Scanning(s, t)'
           /\ \A c \in Claimer : ~Claiming(c, t)'
  PROVE  IInv'
<1> SUFFICES ASSUME NEW x \in Tx PROVE Exclusive(x)' /\ Untouched(x)'
  BY DEF IInv
<1>1. Exclusive(x) /\ Untouched(x)
  BY DEF IInv
<1>2. ASSUME \A i : Inserted(x, i)' <=> Inserted(x, i)
      PROVE  Exclusive(x)' /\ Untouched(x)'
  BY <1>1, <1>2, Zenon DEF Exclusive, Untouched, Inserted
<1>3. CASE x # t
  <2>1. \A i : Inserted(x, i)' <=> Inserted(x, i)
    BY <1>3, PaymentAdded DEF Inserted, IInv
  <2> QED
    BY <1>2, <2>1
<1>4. CASE x = t /\ how = "updated"
  <2>1. \A i : Inserted(x, i)' <=> Inserted(x, i)
    BY <1>4, PaymentAdded DEF IInv
  <2> QED
    BY <1>2, <2>1
<1>5. CASE x = t /\ how = "inserted"
  <2>1. \A i : ~Inserted(t, i)
    BY <1>1, <1>5, Zenon DEF Exclusive, Inserted
  <2>2. row'[t].status # "none"
    BY <1>1, <1>5, Zenon DEF Untouched
  <2>3. \A i : Inserted(t, i)' <=> i = Len(paid[t]) + 1
    BY <1>5, <2>1, PaymentAdded DEF IInv
  <2> QED
    BY <1>1, <1>5, <2>2, <2>3, Zenon DEF Exclusive, Untouched
<1> QED
  BY <1>3, <1>4, <1>5

\* A scanner's, or a claim's, record is replaced by another.
LEMMA ScanReplaced ==
  ASSUME Shape, NEW s \in Scanner, NEW r \in ScanRec, scan' = [scan EXCEPT ![s] = r]
  PROVE  /\ scan' \in [Scanner -> ScanRec]
         /\ \A x \in Scanner : scan'[x] = IF x = s THEN r ELSE scan[x]
BY DEF Shape

LEMMA ClaimReplaced ==
  ASSUME Shape, NEW c \in Claimer, NEW r \in ClaimRec, claim' = [claim EXCEPT ![c] = r]
  PROVE  /\ claim' \in [Claimer -> ClaimRec]
         /\ \A x \in Claimer : claim'[x] = IF x = c THEN r ELSE claim[x]
BY DEF Shape

-----------------------------------------------------------------------------
(* The steps                                                               *)

LEMMA InitIInv == Init => IInv
<1> SUFFICES ASSUME Init PROVE IInv
  OBVIOUS
<1>1. IdleScan \in ScanRec /\ NewClaim \in ClaimRec
  BY DEF IdleScan, ScanRec, NewClaim, ClaimRec
<1>2. Shape
  <2>1. /\ row \in [Tx -> [status : {"none", "unclaimed", "claimed"}, user : User \cup {NoUser}]]
        /\ scan \in [Scanner -> ScanRec] /\ claim \in [Claimer -> ClaimRec]
    BY <1>1 DEF Init, NoRow
  <2>2. DOMAIN paid = Tx /\ \A t \in Tx : paid[t] \in Seq([user : User, how : {"inserted", "updated"}])
    BY DEF Init
  <2>3. /\ \A s \in Scanner : scan[s].pc = "idle"
        /\ \A c \in Claimer : claim[c].pc = "new"
    BY DEF Init, IdleScan, NewClaim
  <2> QED
    BY <2>1, <2>2, <2>3 DEF Shape
<1>3. \A s \in Scanner, t \in Tx : ~Scanning(s, t)
  BY DEF Init, Scanning, IdleScan
<1>4. \A c \in Claimer, t \in Tx : ~Claiming(c, t)
  BY DEF Init, Claiming, NewClaim
<1>5. \A t \in Tx : DOMAIN paid[t] = {}
  BY DEF Init
<1> QED
  BY <1>2, <1>3, <1>4, <1>5, Zenon DEF IInv, Exclusive, Untouched

\* A scanner takes a record with which it holds no transaction it did not
\* hold before.
LEMMA ScanCalm ==
  ASSUME IInv, NEW s \in Scanner, NEW r \in ScanRec, scan' = [scan EXCEPT ![s] = r],
         r.pc \in {"lookup", "credit"} => scan[s].pc = "lookup" /\ r.tx = scan[s].tx,
         r.pc = "credit" => r.user \in User,
         r.pc # "mark",
         UNCHANGED <<row, paid, claim>>
  PROVE  IInv'
<1>1. Shape /\ \A x \in Scanner : scan'[x] = IF x = s THEN r ELSE scan[x]
  BY ScanReplaced DEF IInv
<1>2. Shape'
  BY <1>1, ScanReplaced DEF Shape
<1>3. \A t \in Tx, x \in Scanner : Scanning(x, t)' => Scanning(x, t)
  BY <1>1 DEF Scanning
<1>4. \A t \in Tx, c \in Claimer : Claiming(c, t)' => Claiming(c, t)
  BY DEF Claiming
<1> QED
  BY <1>2, <1>3, <1>4, Calm

LEMMA StartIInv ==
  ASSUME IInv, NEW s \in Scanner, CronStart(s) \/ AdminStart(s)
  PROVE  IInv'
<1>1. PICK r \in ScanRec : r.pc = "next" /\ scan' = [scan EXCEPT ![s] = r]
  <2>1. CASE CronStart(s)
    <3>1. PICK got \in SUBSET Tx, hidden \in SUBSET Tx, t \in Tx : scan' = [scan EXCEPT ![s] = Begin(got, hidden, t)]
      BY <2>1 DEF CronStart, Fetched, InSilence
    <3>2. Begin(got, hidden, t) \in ScanRec /\ Begin(got, hidden, t).pc = "next"
      BY DepositAssumption DEF Begin, IdleScan, ScanRec
    <3> QED
      BY <3>1, <3>2
  <2>2. CASE AdminStart(s)
    <3>1. PICK todo \in SUBSET Tx :
            scan' = [scan EXCEPT ![s] = [IdleScan EXCEPT !.pc = "next", !.todo = todo]]
      BY <2>2 DEF AdminStart
    <3>2. [IdleScan EXCEPT !.pc = "next", !.todo = todo] \in ScanRec
      BY DEF IdleScan, ScanRec
    <3>3. [IdleScan EXCEPT !.pc = "next", !.todo = todo].pc = "next"
      BY DEF IdleScan
    <3> QED
      BY <3>1, <3>2, <3>3
  <2> QED
    BY <2>1, <2>2
<1>2. UNCHANGED <<row, paid, claim>>
  BY DEF CronStart, AdminStart
<1> QED
  BY <1>1, <1>2, ScanCalm

\* A scanner finds its transaction taken, gives it up, or ends.
LEMMA ScanLetsGo ==
  ASSUME IInv, NEW s \in Scanner, NEW todo \in SUBSET Tx, NEW missed \in SUBSET Tx,
         \/ scan' = [scan EXCEPT ![s] = [@ EXCEPT !.todo = todo, !.missed = missed]] /\ scan[s].pc = "next"
         \/ scan' = [scan EXCEPT ![s] = IdleScan]
         \/ scan' = Done(s),
         UNCHANGED <<row, paid, claim>>
  PROVE  IInv'
<1>1. scan[s] \in ScanRec /\ scan \in [Scanner -> ScanRec]
  BY DEF IInv, Shape
<1>2. CASE scan' = [scan EXCEPT ![s] = [@ EXCEPT !.todo = todo, !.missed = missed]] /\ scan[s].pc = "next"
  <2> DEFINE r == [scan[s] EXCEPT !.todo = todo, !.missed = missed]
  <2>1. r \in ScanRec /\ r.pc = "next" /\ scan' = [scan EXCEPT ![s] = r]
    BY <1>1, <1>2 DEF ScanRec
  <2> HIDE DEF r
  <2> QED
    BY <2>1, ScanCalm
<1>3. CASE scan' = [scan EXCEPT ![s] = IdleScan]
  <2>1. IdleScan \in ScanRec /\ IdleScan.pc = "idle"
    BY DEF IdleScan, ScanRec
  <2> QED
    BY <1>3, <2>1, ScanCalm
<1>4. CASE scan' = Done(s)
  <2> DEFINE r == [scan[s] EXCEPT !.pc = "next", !.tx = NoTx, !.user = NoUser]
  <2>1. r \in ScanRec /\ r.pc = "next"
    BY <1>1 DEF ScanRec
  <2>2. scan' = [scan EXCEPT ![s] = r]
    BY <1>1, <1>4 DEF Done
  <2> HIDE DEF r
  <2> QED
    BY <2>1, <2>2, ScanCalm
<1> QED
  BY <1>2, <1>3, <1>4

LEMMA ScanInsertIInv ==
  ASSUME IInv, NEW s \in Scanner, NEW t \in Tx, ScanInsert(s, t)
  PROVE  IInv'
<1>1. scan[s] \in ScanRec /\ scan \in [Scanner -> ScanRec] /\ scan[s].pc = "next"
  BY DEF IInv, Shape, ScanInsert
<1>2. UNCHANGED <<paid, claim>>
  BY DEF ScanInsert
<1>3. CASE t \in Dust \/ row[t].status # "none"
  <2>1. /\ UNCHANGED row
        /\ scan' = [scan EXCEPT ![s] = [@ EXCEPT !.todo = scan[s].todo \ {t}, !.missed = scan[s].missed]]
    BY <1>1, <1>3 DEF ScanInsert, ScanRec
  <2>2. scan[s].todo \ {t} \in SUBSET Tx /\ scan[s].missed \in SUBSET Tx
    BY <1>1 DEF ScanRec
  <2> QED
    BY <1>1, <1>2, <2>1, <2>2, ScanLetsGo
<1>4. CASE ~(t \in Dust \/ row[t].status # "none")
  <2> DEFINE r == [scan[s] EXCEPT !.todo = @ \ {t}, !.pc = "lookup", !.tx = t]
  <2>1. /\ row' = [row EXCEPT ![t] = [@ EXCEPT !.status = "unclaimed"]]
        /\ scan' = [scan EXCEPT ![s] = r]
    BY <1>1, <1>4 DEF ScanInsert
  <2>2. r \in ScanRec /\ r.pc = "lookup" /\ r.tx = t
    BY <1>1 DEF ScanRec
  <2>3. \A x \in Scanner : scan'[x] = IF x = s THEN r ELSE scan[x]
    BY <2>1, <2>2, ScanReplaced DEF IInv
  <2>4. /\ row' \in [Tx -> [status : {"none", "unclaimed", "claimed"}, user : User \cup {NoUser}]]
        /\ row'[t].status = "unclaimed" /\ \A x \in Tx \ {t} : row'[x] = row[x]
    BY <2>1 DEF IInv, Shape
  <2>5. Shape'
    <3>1. scan' \in [Scanner -> ScanRec]
      BY <2>1, <2>2, ScanReplaced DEF IInv
    <3>2. \A x \in Scanner :
            /\ scan'[x].pc \in {"lookup", "credit", "mark"} => scan'[x].tx \in Tx
            /\ scan'[x].pc \in {"credit", "mark"} => scan'[x].user \in User
      BY <2>2, <2>3 DEF IInv, Shape
    <3> QED
      BY <1>2, <2>4, <3>1, <3>2 DEF IInv, Shape
  <2>6. row[t].status = "none"
    BY <1>4
  <2>7. \A x \in Scanner : ~Scanning(x, t)
    BY <2>6, Zenon DEF IInv, Untouched
  <2>8. \A x \in Scanner : Scanning(x, t)' => x = s
    BY <2>2, <2>3, <2>7 DEF Scanning
  <2>9. \A x \in Tx \ {t}, y \in Scanner : Scanning(y, x)' => Scanning(y, x)
    BY <2>2, <2>3 DEF Scanning
  <2>10. \A x \in Tx, c \in Claimer : Claiming(c, x)' <=> Claiming(c, x)
    BY <1>2 DEF Claiming
  <2>11. \A c \in Claimer : ~Claiming(c, t)
    BY <2>6, Zenon DEF IInv, Untouched
  <2>12. \A x \in Tx : row'[x].status = "none" => row[x].status = "none"
    BY <2>4, <2>6
  <2>13. \A c \in Claimer : ~Claiming(c, t)'
    BY <2>10, <2>11
  <2>14. \A x, y \in Scanner : Scanning(x, t)' /\ Scanning(y, t)' => x = y
    BY <2>8
  <2>15. row'[t].status # "none" /\ paid' = paid
    BY <1>2, <2>4
  <2> HIDE DEF r
  <2> QED
    BY <2>5, <2>6, <2>9, <2>10, <2>12, <2>13, <2>14, <2>15, RowMade
<1> QED
  BY <1>3, <1>4

LEMMA ScanLookupIInv ==
  ASSUME IInv, NEW s \in Scanner, ScanLookup(s)
  PROVE  IInv'
<1>1. scan[s] \in ScanRec /\ scan \in [Scanner -> ScanRec] /\ scan[s].pc = "lookup"
  BY DEF IInv, Shape, ScanLookup
<1>2. UNCHANGED <<row, paid, claim>>
  BY DEF ScanLookup
<1>3. CASE scan' = Done(s)
  BY <1>2, <1>3, ScanLetsGo
<1>4. CASE \E u \in User : scan' = [scan EXCEPT ![s].pc = "credit", ![s].user = u]
  <2>1. PICK u \in User : scan' = [scan EXCEPT ![s].pc = "credit", ![s].user = u]
    BY <1>4
  <2> DEFINE r == [scan[s] EXCEPT !.pc = "credit", !.user = u]
  <2>2. r \in ScanRec /\ r.pc = "credit" /\ r.tx = scan[s].tx /\ r.user = u
    BY <1>1 DEF ScanRec
  <2>3. scan' = [scan EXCEPT ![s] = r]
    BY <1>1, <2>1
  <2> HIDE DEF r
  <2> QED
    BY <1>1, <1>2, <2>2, <2>3, ScanCalm
<1> QED
  BY <1>3, <1>4 DEF ScanLookup, Owners

LEMMA ScanCreditIInv ==
  ASSUME IInv, NEW s \in Scanner, ScanCredit(s)
  PROVE  IInv'
<1> DEFINE r == [scan[s] EXCEPT !.pc = "mark"]
<1>0. PICK t \in Tx, u \in User : t = scan[s].tx /\ u = scan[s].user
  BY DEF IInv, Shape, ScanCredit
<1>1. /\ scan[s] \in ScanRec /\ scan \in [Scanner -> ScanRec] /\ scan[s].pc = "credit"
      /\ t \in Tx /\ u \in User
  BY DEF IInv, Shape, ScanCredit
<1>2. Pay(t, u, "inserted") /\ UNCHANGED <<row, claim>> /\ scan' = [scan EXCEPT ![s] = r]
  BY <1>0, <1>1 DEF ScanCredit
<1>3. r \in ScanRec /\ r.pc = "mark" /\ r.tx = t /\ r.user = u
  BY <1>0, <1>1 DEF ScanRec
<1>4. /\ scan' \in [Scanner -> ScanRec]
      /\ \A x \in Scanner : scan'[x] = IF x = s THEN r ELSE scan[x]
  BY <1>2, <1>3, ScanReplaced DEF IInv
<1>5. /\ DOMAIN paid' = Tx
      /\ \A x \in Tx : paid'[x] \in Seq([user : User, how : {"inserted", "updated"}])
  BY <1>1, <1>2, PaymentAdded DEF IInv
<1>6. Shape'
  <2>1. \A x \in Scanner :
          /\ scan'[x].pc \in {"lookup", "credit", "mark"} => scan'[x].tx \in Tx
          /\ scan'[x].pc \in {"credit", "mark"} => scan'[x].user \in User
    BY <1>1, <1>3, <1>4 DEF IInv, Shape
  <2> QED
    BY <1>2, <1>4, <1>5, <2>1 DEF IInv, Shape
<1>7. Scanning(s, t) /\ ~Scanning(s, t)'
  BY <1>0, <1>1, <1>3, <1>4 DEF Scanning
<1>8. \A x \in Tx, y \in Scanner : Scanning(y, x)' => Scanning(y, x)
  BY <1>3, <1>4 DEF Scanning
<1>9. \A x \in Tx, c \in Claimer : Claiming(c, x)' <=> Claiming(c, x)
  BY <1>2 DEF Claiming
<1>10. /\ \A y \in Scanner : Scanning(y, t) => y = s
       /\ \A c \in Claimer : ~Claiming(c, t)
  BY <1>1, <1>7, Zenon DEF IInv, Exclusive
<1>11. /\ \A y \in Scanner : ~Scanning(y, t)'
       /\ \A c \in Claimer : ~Claiming(c, t)'
  BY <1>1, <1>7, <1>8, <1>9, <1>10
<1>12. row' = row
  BY <1>2
<1> HIDE DEF r
<1> QED
  BY <1>1, <1>2, <1>6, <1>7, <1>8, <1>9, <1>11, <1>12, Paying

LEMMA ScanMarkIInv ==
  ASSUME IInv, NEW s \in Scanner, ScanMark(s)
  PROVE  IInv'
<1> DEFINE r == [scan[s] EXCEPT !.pc = "next", !.tx = NoTx, !.user = NoUser]
           new == [status |-> "claimed", user |-> scan[s].user]
<1>1. /\ scan[s] \in ScanRec /\ scan \in [Scanner -> ScanRec]
      /\ scan[s].tx \in Tx /\ scan[s].user \in User
  BY DEF IInv, Shape, ScanMark
<1>2. /\ row' = [row EXCEPT ![scan[s].tx] = new]
      /\ scan' = [scan EXCEPT ![s] = r] /\ UNCHANGED <<paid, claim>>
  BY <1>1 DEF ScanMark, Done
<1>3. r \in ScanRec /\ r.pc = "next"
  BY <1>1 DEF ScanRec
<1>4. /\ scan' \in [Scanner -> ScanRec]
      /\ \A x \in Scanner : scan'[x] = IF x = s THEN r ELSE scan[x]
  BY <1>2, <1>3, ScanReplaced DEF IInv
<1>5. /\ row' \in [Tx -> [status : {"none", "unclaimed", "claimed"}, user : User \cup {NoUser}]]
      /\ \A x \in Tx : row'[x].status = "none" => row[x].status = "none"
  BY <1>1, <1>2 DEF IInv, Shape
<1>6. Shape'
  <2>1. \A x \in Scanner :
          /\ scan'[x].pc \in {"lookup", "credit", "mark"} => scan'[x].tx \in Tx
          /\ scan'[x].pc \in {"credit", "mark"} => scan'[x].user \in User
    BY <1>3, <1>4 DEF IInv, Shape
  <2> HIDE DEF new, r
  <2> QED
    BY <1>2, <1>4, <1>5, <2>1 DEF IInv, Shape
<1>7. \A x \in Tx, y \in Scanner : Scanning(y, x)' => Scanning(y, x)
  BY <1>3, <1>4 DEF Scanning
<1>8. \A x \in Tx, c \in Claimer : Claiming(c, x)' => Claiming(c, x)
  BY <1>2 DEF Claiming
<1> QED
  BY <1>2, <1>5, <1>6, <1>7, <1>8, Calm

\* A claim takes a record with which it holds nothing.
LEMMA ClaimCalm ==
  ASSUME IInv, NEW c \in Claimer, NEW r \in ClaimRec, claim' = [claim EXCEPT ![c] = r],
         r.pc \in {"check", "write", "credit"} => r.tx \in Tx /\ r.user \in User,
         r.pc = "credit" => r.existing,
         row' \in [Tx -> [status : {"none", "unclaimed", "claimed"}, user : User \cup {NoUser}]],
         \A x \in Tx : row'[x].status = "none" => row[x].status = "none",
         UNCHANGED <<paid, scan>>
  PROVE  IInv'
<1>1. /\ claim' \in [Claimer -> ClaimRec]
      /\ \A x \in Claimer : claim'[x] = IF x = c THEN r ELSE claim[x]
  BY ClaimReplaced DEF IInv
<1>2. Shape'
  BY <1>1 DEF IInv, Shape
<1>3. \A t \in Tx, x \in Claimer : Claiming(x, t)' => Claiming(x, t)
  BY <1>1 DEF Claiming
<1>4. \A t \in Tx, s \in Scanner : Scanning(s, t)' => Scanning(s, t)
  BY DEF Scanning
<1> QED
  BY <1>2, <1>3, <1>4, Calm

LEMMA ClaimReadIInv ==
  ASSUME IInv, NEW c \in Claimer, NEW u \in User, NEW t \in Tx, ClaimRead(c, u, t)
  PROVE  IInv'
<1> DEFINE r == [pc |-> IF row[t].status = "claimed" THEN "done" ELSE "check",
                 user |-> u, tx |-> t, existing |-> row[t].status # "none"]
<1>1. r \in ClaimRec
  BY DEF ClaimRec
<1>2. r.pc # "credit" /\ r.tx = t /\ r.user = u
  OBVIOUS
<1>3. claim' = [claim EXCEPT ![c] = r] /\ UNCHANGED <<row, paid, scan>>
  BY DEF ClaimRead
<1>4. row \in [Tx -> [status : {"none", "unclaimed", "claimed"}, user : User \cup {NoUser}]]
  BY DEF IInv, Shape
<1> HIDE DEF r
<1> QED
  BY <1>1, <1>2, <1>3, <1>4, ClaimCalm

\* A claim goes on to its write, or ends.
LEMMA ClaimMoves ==
  ASSUME IInv, NEW c \in Claimer, NEW pc \in {"write", "done"},
         claim[c].pc \in {"check", "write", "credit"},
         claim' = [claim EXCEPT ![c].pc = pc], UNCHANGED <<row, paid, scan>>
  PROVE  IInv'
<1> DEFINE r == [claim[c] EXCEPT !.pc = pc]
<1>1. claim[c] \in ClaimRec /\ claim[c].tx \in Tx /\ claim[c].user \in User
  BY DEF IInv, Shape
<1>2. r \in ClaimRec /\ r.pc # "credit" /\ r.tx \in Tx /\ r.user \in User
  BY <1>1 DEF ClaimRec
<1>3. claim' = [claim EXCEPT ![c] = r]
  BY DEF IInv, Shape
<1>4. row' \in [Tx -> [status : {"none", "unclaimed", "claimed"}, user : User \cup {NoUser}]]
  BY DEF IInv, Shape
<1> HIDE DEF r
<1> QED
  BY <1>2, <1>3, <1>4, ClaimCalm

LEMMA ClaimWriteIInv ==
  ASSUME IInv, NEW c \in Claimer, ClaimWrite(c)
  PROVE  IInv'
<1>0. PICK t \in Tx : t = claim[c].tx
  BY DEF IInv, Shape, ClaimWrite
<1> DEFINE r == [claim[c] EXCEPT !.pc = "credit"]
           new == [status |-> "claimed", user |-> claim[c].user]
<1>1. /\ claim[c] \in ClaimRec /\ claim \in [Claimer -> ClaimRec] /\ claim[c].pc = "write"
      /\ t \in Tx /\ claim[c].user \in User
  BY DEF IInv, Shape, ClaimWrite
<1>2. UNCHANGED <<paid, scan>>
  BY DEF ClaimWrite
<1>3. r \in ClaimRec /\ r.pc = "credit" /\ r.tx = t /\ r.user = claim[c].user
      /\ (r.existing <=> claim[c].existing)
  BY <1>0, <1>1 DEF ClaimRec
<1>4. CASE claim[c].existing \/ row[t].status = "none"
  <2>1. row' = [row EXCEPT ![t] = new] /\ claim' = [claim EXCEPT ![c] = r]
    BY <1>0, <1>1, <1>4 DEF ClaimWrite
  <2>2. /\ row' \in [Tx -> [status : {"none", "unclaimed", "claimed"}, user : User \cup {NoUser}]]
        /\ \A x \in Tx : row'[x].status = "none" => row[x].status = "none"
        /\ row'[t].status # "none"
    BY <1>1, <2>1 DEF IInv, Shape
  <2>3. CASE claim[c].existing
    <3> HIDE DEF r
    <3> QED
      BY <1>0, <1>1, <1>2, <1>3, <2>1, <2>2, <2>3, ClaimCalm
  <2>4. CASE ~claim[c].existing
    <3>1. row[t].status = "none"
      BY <1>4, <2>4
    <3>2. /\ claim' \in [Claimer -> ClaimRec]
          /\ \A x \in Claimer : claim'[x] = IF x = c THEN r ELSE claim[x]
      BY <1>3, <2>1, ClaimReplaced DEF IInv
    <3>3. Shape'
      BY <1>1, <1>2, <1>3, <2>2, <3>2 DEF IInv, Shape
    <3>4. \A x \in Claimer : ~Claiming(x, t)
      BY <1>1, <3>1, Zenon DEF IInv, Untouched
    <3>5. \A x \in Claimer : Claiming(x, t)' => x = c
      BY <3>2, <3>4 DEF Claiming
    <3>6. \A x, y \in Claimer : Claiming(x, t)' /\ Claiming(y, t)' => x = y
      BY <3>5
    <3>7. \A x \in Tx \ {t}, y \in Claimer : Claiming(y, x)' => Claiming(y, x)
      BY <1>3, <3>2 DEF Claiming
    <3>8. \A x \in Tx, s \in Scanner : Scanning(s, x)' <=> Scanning(s, x)
      BY <1>2 DEF Scanning
    <3>9. \A s \in Scanner : ~Scanning(s, t)
      BY <1>1, <3>1, Zenon DEF IInv, Untouched
    <3>10. \A s \in Scanner : ~Scanning(s, t)'
      BY <1>1, <3>8, <3>9
    <3>11. paid' = paid
      BY <1>2
    <3> HIDE DEF r
    <3> QED
      BY <1>1, <2>2, <3>1, <3>3, <3>6, <3>7, <3>8, <3>10, <3>11, RowMade
  <2> QED
    BY <2>3, <2>4
<1>5. CASE ~(claim[c].existing \/ row[t].status = "none")
  <2>1. claim' = [claim EXCEPT ![c].pc = "done"] /\ UNCHANGED row
    BY <1>0, <1>5 DEF ClaimWrite
  <2> QED
    BY <1>1, <1>2, <2>1, ClaimMoves
<1> QED
  BY <1>4, <1>5

LEMMA ClaimCreditIInv ==
  ASSUME IInv, NEW c \in Claimer, ClaimCredit(c)
  PROVE  IInv'
<1>0. PICK t \in Tx, u \in User, how \in {"inserted", "updated"} :
        /\ t = claim[c].tx /\ u = claim[c].user
        /\ how = IF claim[c].existing THEN "updated" ELSE "inserted"
  BY DEF IInv, Shape, ClaimCredit
<1> DEFINE r == [claim[c] EXCEPT !.pc = "done"]
<1>1. /\ claim[c] \in ClaimRec /\ claim \in [Claimer -> ClaimRec] /\ claim[c].pc = "credit"
      /\ t \in Tx /\ u \in User
  BY DEF IInv, Shape, ClaimCredit
<1>2. Pay(t, u, how) /\ UNCHANGED <<row, scan>> /\ claim' = [claim EXCEPT ![c] = r]
  BY <1>0, <1>1 DEF ClaimCredit
<1>3. r \in ClaimRec /\ r.pc = "done"
  BY <1>1 DEF ClaimRec
<1>4. /\ claim' \in [Claimer -> ClaimRec]
      /\ \A x \in Claimer : claim'[x] = IF x = c THEN r ELSE claim[x]
  BY <1>2, <1>3, ClaimReplaced DEF IInv
<1>5. how \in {"inserted", "updated"}
  OBVIOUS
<1>6. /\ DOMAIN paid' = Tx
      /\ \A x \in Tx : paid'[x] \in Seq([user : User, how : {"inserted", "updated"}])
  <2> QED
    BY <1>1, <1>2, <1>5, PaymentAdded DEF IInv
<1>7. Shape'
  BY <1>2, <1>3, <1>4, <1>6 DEF IInv, Shape
<1>8. \A x \in Tx, y \in Claimer : Claiming(y, x)' => Claiming(y, x)
  BY <1>3, <1>4 DEF Claiming
<1>9. \A x \in Tx, s \in Scanner : Scanning(s, x)' <=> Scanning(s, x)
  BY <1>2 DEF Scanning
<1>10. ASSUME how = "inserted"
       PROVE  /\ Claiming(c, t)
              /\ \A s \in Scanner : ~Scanning(s, t)'
              /\ \A d \in Claimer : ~Claiming(d, t)'
  <2>1. Claiming(c, t) /\ ~Claiming(c, t)'
    BY <1>0, <1>1, <1>3, <1>4, <1>10 DEF Claiming
  <2>2. /\ \A d \in Claimer : Claiming(d, t) => d = c
        /\ \A s \in Scanner : ~Scanning(s, t)
    BY <1>1, <2>1, Zenon DEF IInv, Exclusive
  <2> QED
    BY <1>1, <1>8, <1>9, <2>1, <2>2
<1>11. row' = row
  BY <1>2
<1> HIDE DEF r
<1> QED
  BY <1>1, <1>2, <1>5, <1>7, <1>8, <1>9, <1>10, <1>11, Paying

LEMMA CrashIInv ==
  ASSUME IInv, Crash
  PROVE  IInv'
<1>1. /\ scan' = [s \in Scanner |-> IdleScan] /\ UNCHANGED <<row, paid>>
      /\ claim' = [c \in Claimer |-> IF claim[c].pc = "new" THEN claim[c]
                                     ELSE [claim[c] EXCEPT !.pc = "done"]]
  BY DEF Crash
<1>2. IdleScan \in ScanRec /\ IdleScan.pc = "idle"
  BY DEF IdleScan, ScanRec
<1>3. \A c \in Claimer : claim'[c] \in ClaimRec /\ claim'[c].pc \in {"new", "done"}
  <2>1. \A c \in Claimer : claim[c] \in ClaimRec
    BY DEF IInv, Shape
  <2> QED
    BY <1>1, <2>1 DEF ClaimRec
<1>4. Shape'
  BY <1>1, <1>2, <1>3 DEF IInv, Shape
<1>5. \A t \in Tx, s \in Scanner : ~Scanning(s, t)'
  BY <1>1, <1>2 DEF Scanning
<1>6. \A t \in Tx, c \in Claimer : ~Claiming(c, t)'
  BY <1>3 DEF Claiming
<1> QED
  BY <1>1, <1>4, <1>5, <1>6, Calm

LEMMA NextIInv == IInv /\ [Next]_vars => IInv'
<1> SUFFICES ASSUME IInv, [Next]_vars PROVE IInv'
  OBVIOUS
<1>1. ASSUME UNCHANGED <<row, paid, scan, claim>> PROVE IInv'
  <2>1. Shape'
    BY <1>1 DEF IInv, Shape
  <2>2. /\ \A t \in Tx, s \in Scanner : Scanning(s, t)' => Scanning(s, t)
        /\ \A t \in Tx, c \in Claimer : Claiming(c, t)' => Claiming(c, t)
    BY <1>1 DEF Scanning, Claiming
  <2> QED
    BY <1>1, <2>1, <2>2, Calm
<1>2. ASSUME NEW s \in Scanner, ScanStep(s) PROVE IInv'
  BY <1>2, ScanInsertIInv, ScanLookupIInv, ScanCreditIInv, ScanMarkIInv DEF ScanStep
<1>3. ASSUME NEW s \in Scanner, ScanFail(s) PROVE IInv'
  <2>1. UNCHANGED <<row, paid, claim>>
    BY <1>3 DEF ScanFail
  <2>2. \/ scan' = Done(s)
        \/ /\ scan[s].pc = "next"
           /\ \E t \in Tx : scan' = [scan EXCEPT ![s].todo = @ \ {t}, ![s].missed = @ \cup {t}]
    BY <1>3 DEF ScanFail, IInv, Shape, ScanRec
  <2>3. scan[s] \in ScanRec /\ scan \in [Scanner -> ScanRec]
    BY DEF IInv, Shape
  <2>4. ASSUME NEW t \in Tx, scan[s].pc = "next",
               scan' = [scan EXCEPT ![s].todo = @ \ {t}, ![s].missed = @ \cup {t}]
        PROVE  IInv'
    <3>1. scan[s].todo \ {t} \in SUBSET Tx /\ scan[s].missed \cup {t} \in SUBSET Tx
      BY <2>3 DEF ScanRec
    <3>2. scan' = [scan EXCEPT ![s] = [@ EXCEPT !.todo = scan[s].todo \ {t},
                                                !.missed = scan[s].missed \cup {t}]]
      BY <2>3, <2>4
    <3> QED
      BY <2>1, <2>4, <3>1, <3>2, ScanLetsGo
  <2>5. CASE scan' = Done(s)
    BY <2>1, <2>5, <2>3, ScanLetsGo DEF ScanRec
  <2> QED
    BY <2>2, <2>4, <2>5
<1>4. ASSUME NEW s \in Scanner, CronEnd(s) \/ CronEndFails(s) \/ AdminEnd(s) PROVE IInv'
  <2>1. UNCHANGED <<row, paid, claim>> /\ scan' = [scan EXCEPT ![s] = IdleScan]
    BY <1>4 DEF CronEnd, CronEndFails, AdminEnd
  <2> QED
    BY <2>1, ScanLetsGo
<1>5. ASSUME NEW c \in Claimer, ClaimStep(c) \/ ClaimFail(c) PROVE IInv'
  <2>1. CASE ClaimCheck(c)
    <3>1. PICK pc \in {"write", "done"} : claim' = [claim EXCEPT ![c].pc = pc]
      BY <2>1 DEF ClaimCheck
    <3>2. UNCHANGED <<row, paid, scan>> /\ claim[c].pc = "check"
      BY <2>1 DEF ClaimCheck
    <3> QED
      BY <3>1, <3>2, ClaimMoves
  <2>2. CASE ClaimFail(c)
    <3>1. /\ claim' = [claim EXCEPT ![c].pc = "done"] /\ UNCHANGED <<row, paid, scan>>
          /\ claim[c].pc \in {"check", "write", "credit"}
      BY <2>2 DEF ClaimFail
    <3> QED
      BY <3>1, ClaimMoves
  <2> QED
    BY <1>5, <2>1, <2>2, ClaimReadIInv, ClaimWriteIInv, ClaimCreditIInv DEF ClaimStep
<1>6. CASE Mine \/ \E l \in Linker : LinkStep(l)
  <2>1. UNCHANGED <<row, paid, scan, claim>>
    BY <1>6 DEF Mine, LinkStep, LinkCheck, LinkWrite
  <2> QED
    BY <1>1, <2>1
<1>7. CASE (\E u \in User, w \in Wallet : Unlink(u, w)) \/ UNCHANGED vars
  <2>1. UNCHANGED <<row, paid, scan, claim>>
    BY <1>7 DEF Unlink, vars
  <2> QED
    BY <1>1, <2>1
<1>8. CASE \E s \in Cron : CronStep(s) \/ CronEndFails(s) \/ ScanFail(s)
  BY <1>2, <1>3, <1>4, <1>8, StartIInv DEF CronStep, Scanner
<1>9. CASE \E s \in Admin : AdminStart(s) \/ ScanStep(s) \/ AdminEnd(s) \/ ScanFail(s)
  BY <1>2, <1>3, <1>4, <1>9, StartIInv DEF Scanner
<1>10. CASE Crash
  BY <1>10, CrashIInv
<1> QED
  BY <1>5, <1>6, <1>7, <1>8, <1>9, <1>10 DEF Next

-----------------------------------------------------------------------------
(* Theorems                                                                *)

\* A set without two different elements has at most one.
LEMMA AtMostOne ==
  ASSUME NEW S, \A x, y \in S : x = y
  PROVE  Cardinality(S) <= 1
<1>1. CASE S = {}
  BY <1>1, FS_EmptySet
<1>2. CASE S # {}
  <2>1. PICK x \in S : S = {x}
    BY <1>2
  <2> QED
    BY <2>1, FS_Singleton
<1> QED
  BY <1>1, <1>2

\* Of the scanners and claims that found a transaction without a row, at
\* most one credits it, whatever fails or stops in between.
THEOREM FirstComerPays == Spec => []OneInserterPays
<1>1. IInv => OneInserterPays
  <2> SUFFICES ASSUME IInv, NEW t \in Tx
               PROVE  Cardinality({i \in DOMAIN paid[t] : paid[t][i].how = "inserted"}) <= 1
    BY DEF OneInserterPays
  <2>1. \A i, j \in {k \in DOMAIN paid[t] : paid[t][k].how = "inserted"} : i = j
    BY DEF IInv, Exclusive, Inserted
  <2> QED
    BY <2>1, AtMostOne
<1>2. Spec => []IInv
  BY InitIInv, NextIInv, PTL DEF Spec
<1> QED
  BY <1>1, <1>2, PTL

-----------------------------------------------------------------------------
(* Nothing below the saved block is forgotten                              *)

Kept(t) == row[t].status # "none" \/ t \in lost

\* The transfers a run has yet to see to, or knows it missed.
Held(r) == r.todo \cup r.missed

\* What a run of the timer no longer holds is kept.
Listed ==
  \A s \in Cron : scan[s].pc # "idle" =>
    \A t \in Tx \ Dust : Block[t] <= scan[s].max => Kept(t) \/ t \in Held(scan[s])

SInv == IInv /\ lastScanned \in Nat /\ NothingSkipped /\ Listed

\* A step that starts no run of the timer, saves no block, and takes off a list what is kept.
LEMMA ListsKept ==
  ASSUME SInv, lastScanned' = lastScanned,
         \A t \in Tx : Kept(t) => Kept(t)',
         \A s \in Cron : scan'[s].pc # "idle" =>
           /\ scan[s].pc # "idle" /\ scan'[s].max = scan[s].max
           /\ \A t \in Held(scan[s]) \ Dust : Kept(t)' \/ t \in Held(scan'[s])
  PROVE  NothingSkipped' /\ Listed' /\ lastScanned' \in Nat
<1>1. NothingSkipped'
  BY DEF SInv, NothingSkipped, Kept
<1>2. Listed'
  BY DEF SInv, Listed
<1> QED
  BY <1>1, <1>2 DEF SInv

\* One scanner's record changes, and keeps what it will save.
LEMMA OneListKept ==
  ASSUME SInv, NEW s \in Scanner, NEW r \in ScanRec, scan' = [scan EXCEPT ![s] = r],
         r.pc # "idle" => /\ scan[s].pc # "idle" /\ r.max = scan[s].max
                          /\ \A t \in Held(scan[s]) \ Dust : Kept(t)' \/ t \in Held(r),
         lastScanned' = lastScanned, \A t \in Tx : Kept(t) => Kept(t)'
  PROVE  NothingSkipped' /\ Listed' /\ lastScanned' \in Nat
<1>1. \A x \in Scanner : scan'[x] = IF x = s THEN r ELSE scan[x]
  BY ScanReplaced DEF SInv, IInv
<1>2. Cron \subseteq Scanner
  BY DEF Scanner
<1>3. \A x \in Cron : scan'[x].pc # "idle" =>
        /\ scan[x].pc # "idle" /\ scan'[x].max = scan[x].max
        /\ \A t \in Held(scan[x]) \ Dust : Kept(t)' \/ t \in Held(scan'[x])
  BY <1>1, <1>2
<1> QED
  BY <1>3, ListsKept

\* A run of the timer lists what is new up to the newest block it saves.
LEMMA CronStartListed ==
  ASSUME SInv, NEW s \in Cron, CronStart(s)
  PROVE  NothingSkipped' /\ Listed' /\ lastScanned' \in Nat
<1>0. PICK upto \in lastScanned..head, silent \in SUBSET (1..head) :
        \E t \in Fetched(upto) \ InSilence(upto, silent) :
          scan' = [scan EXCEPT ![s] = Begin(Fetched(upto) \ InSilence(upto, silent),
                                            InSilence(upto, silent), t)]
  BY DEF CronStart
<1> DEFINE empty == InSilence(upto, silent)
<1>1. PICK t \in Fetched(upto) \ empty :
        scan' = [scan EXCEPT ![s] = Begin(Fetched(upto) \ empty, empty, t)]
  BY <1>0
<1>2. UNCHANGED <<lastScanned, row, lost>>
  BY DEF CronStart
<1>3. /\ scan'[s].pc = "next" /\ scan'[s].todo = Fetched(upto) \ empty /\ scan'[s].max = Block[t]
      /\ scan'[s].missed = {x \in empty : Block[x] < Block[t]}
      /\ \A x \in Cron \ {s} : scan'[x] = scan[x]
  <2>1. /\ scan'[s] = Begin(Fetched(upto) \ empty, empty, t)
        /\ \A x \in Cron \ {s} : scan'[x] = scan[x]
    BY <1>1 DEF SInv, IInv, Shape, Scanner
  <2> QED
    BY <2>1 DEF Begin, IdleScan
<1>4. NothingSkipped' /\ \A x \in Tx : Kept(x)' <=> Kept(x)
  BY <1>2 DEF SInv, NothingSkipped, Kept
<1>5. ASSUME NEW x \in Tx \ Dust, Block[x] <= Block[t]
      PROVE  Kept(x) \/ x \in Held(scan'[s])
  <2>1. t \in Tx /\ Block[t] <= upto /\ upto \in Int /\ Block[t] \notin silent
    BY DEF Fetched, SInv, InSilence
  <2>2. Block[x] \in Nat /\ Block[t] \in Nat /\ lastScanned \in Nat
    BY <2>1, DepositAssumption DEF SInv
  <2>3. CASE Block[x] <= lastScanned
    BY <2>3 DEF SInv, NothingSkipped, Kept
  <2>4. CASE lastScanned < Block[x]
    <3>1. x \in Fetched(upto)
      BY <1>5, <2>1, <2>2, <2>4 DEF Fetched
    <3>2. x \in empty => Block[x] < Block[t]
      BY <1>5, <2>1, <2>2 DEF InSilence
    <3> QED
      BY <1>3, <3>1, <3>2 DEF Held
  <2> QED
    BY <2>2, <2>3, <2>4
<1>6. Listed'
  BY <1>3, <1>4, <1>5 DEF Listed, SInv
<1> QED
  BY <1>2, <1>4, <1>6 DEF SInv

\* A run of the timer saves the block up to which it has kept everything.
LEMMA CronEndListed ==
  ASSUME SInv, NEW s \in Cron, CronEnd(s)
  PROVE  NothingSkipped' /\ Listed' /\ lastScanned' \in Nat
<1>1. /\ scan[s].pc = "next" /\ scan[s].todo = {} /\ lastScanned' = scan[s].max
      /\ scan' = [scan EXCEPT ![s] = IdleScan] /\ row' = row /\ lost' = lost \cup Unseen(s)
  BY DEF CronEnd
<1>2. /\ scan[s] \in ScanRec /\ scan'[s].pc = "idle"
      /\ \A x \in Cron \ {s} : scan'[x] = scan[x]
  BY <1>1 DEF SInv, IInv, Shape, Scanner, IdleScan
<1>3. /\ \A x \in Tx : Kept(x) => Kept(x)'
      /\ \A x \in Tx \cap Held(scan[s]) : Kept(x)'
  BY <1>1 DEF Kept, Held, Unseen
<1>4. NothingSkipped'
  BY <1>1, <1>3 DEF SInv, Listed, NothingSkipped, Kept
<1>5. Listed'
  BY <1>2, <1>3 DEF SInv, Listed
<1> QED
  BY <1>1, <1>2, <1>4, <1>5 DEF ScanRec

\* The other steps of a scanner.
LEMMA ScanListed ==
  ASSUME SInv, NEW s \in Scanner, ScanStep(s) \/ ScanFail(s)
  PROVE  NothingSkipped' /\ Listed' /\ lastScanned' \in Nat
<1>1. /\ scan[s] \in ScanRec /\ scan \in [Scanner -> ScanRec] /\ lastScanned' = lastScanned
      /\ row \in [Tx -> [status : {"none", "unclaimed", "claimed"}, user : User \cup {NoUser}]]
  BY DEF SInv, IInv, Shape, ScanStep, ScanInsert, ScanLookup, ScanCredit, ScanMark, ScanFail
<1>2. ASSUME NEW t \in Tx, ScanInsert(s, t), NEW r \in ScanRec,
             r.pc # "idle", r.max = scan[s].max, r.todo = scan[s].todo \ {t}, r.missed = scan[s].missed,
             scan' = [scan EXCEPT ![s] = r]
      PROVE  NothingSkipped' /\ Listed' /\ lastScanned' \in Nat
  <2>1. \A x \in Tx : Kept(x) => Kept(x)'
    BY <1>1, <1>2 DEF ScanInsert, Kept
  <2>2. t \in Dust \/ Kept(t)'
    BY <1>1, <1>2 DEF ScanInsert, Kept
  <2>3. scan[s].pc # "idle"
    BY <1>2 DEF ScanInsert
  <2> QED
    BY <1>1, <1>2, <2>1, <2>2, <2>3, OneListKept DEF Held
<1>3. ASSUME NEW t \in Tx, ScanInsert(s, t)
      PROVE  NothingSkipped' /\ Listed' /\ lastScanned' \in Nat
  <2>1. CASE t \in Dust \/ row[t].status # "none"
    <3> DEFINE r == [scan[s] EXCEPT !.todo = @ \ {t}]
    <3>1. r \in ScanRec /\ r.pc = "next" /\ r.max = scan[s].max /\ r.todo = scan[s].todo \ {t}
          /\ r.missed = scan[s].missed
      BY <1>1, <1>3 DEF ScanRec, ScanInsert
    <3>2. scan' = [scan EXCEPT ![s] = r]
      BY <1>1, <1>3, <2>1 DEF ScanInsert
    <3> HIDE DEF r
    <3> QED
      BY <1>2, <1>3, <3>1, <3>2
  <2>2. CASE ~(t \in Dust \/ row[t].status # "none")
    <3> DEFINE r == [scan[s] EXCEPT !.todo = @ \ {t}, !.pc = "lookup", !.tx = t]
    <3>1. r \in ScanRec /\ r.pc = "lookup" /\ r.max = scan[s].max /\ r.todo = scan[s].todo \ {t}
          /\ r.missed = scan[s].missed
      BY <1>1, <1>3 DEF ScanRec
    <3>2. scan' = [scan EXCEPT ![s] = r]
      BY <1>1, <1>3, <2>2 DEF ScanInsert
    <3> HIDE DEF r
    <3> QED
      BY <1>2, <1>3, <3>1, <3>2
  <2> QED
    BY <2>1, <2>2
<1>6. ASSUME ScanLookup(s) \/ ScanCredit(s) \/ ScanMark(s), NEW r \in ScanRec,
             r.max = scan[s].max, Held(r) = Held(scan[s]), scan' = [scan EXCEPT ![s] = r]
      PROVE  NothingSkipped' /\ Listed' /\ lastScanned' \in Nat
  <2>1. scan[s].pc # "idle"
    BY <1>6 DEF ScanLookup, ScanCredit, ScanMark
  <2>2. \A x \in Tx : Kept(x) => Kept(x)'
    <3> DEFINE t0 == scan[s].tx
               new == [status |-> "claimed", user |-> scan[s].user]
    <3>1. lost' = lost /\ (row' = row \/ row' = [row EXCEPT ![t0] = new])
      BY <1>6 DEF ScanLookup, ScanCredit, ScanMark
    <3>2. new.status = "claimed"
      OBVIOUS
    <3> HIDE DEF t0, new
    <3>3. DOMAIN row = Tx
      BY <1>1
    <3> QED
      BY <3>1, <3>2, <3>3 DEF Kept
  <2> QED
    BY <1>1, <1>6, <2>1, <2>2, OneListKept
<1>7. ASSUME ScanLookup(s) \/ ScanCredit(s) \/ ScanMark(s)
      PROVE  NothingSkipped' /\ Listed' /\ lastScanned' \in Nat
  <2>1. CASE scan' = Done(s)
    <3> DEFINE r == [scan[s] EXCEPT !.pc = "next", !.tx = NoTx, !.user = NoUser]
    <3>1. r \in ScanRec /\ r.max = scan[s].max /\ Held(r) = Held(scan[s])
      BY <1>1 DEF ScanRec, Held
    <3>2. scan' = [scan EXCEPT ![s] = r]
      BY <1>1, <2>1 DEF Done
    <3> HIDE DEF r
    <3> QED
      BY <1>6, <1>7, <3>1, <3>2
  <2>2. ASSUME NEW u \in User, scan' = [scan EXCEPT ![s].pc = "credit", ![s].user = u]
        PROVE  NothingSkipped' /\ Listed' /\ lastScanned' \in Nat
    <3> DEFINE r == [scan[s] EXCEPT !.pc = "credit", !.user = u]
    <3>1. r \in ScanRec /\ r.max = scan[s].max /\ Held(r) = Held(scan[s])
      BY <1>1 DEF ScanRec, Held
    <3>2. scan' = [scan EXCEPT ![s] = r]
      BY <1>1, <2>2
    <3> HIDE DEF r
    <3> QED
      BY <1>6, <1>7, <3>1, <3>2
  <2>3. CASE scan' = [scan EXCEPT ![s].pc = "mark"]
    <3> DEFINE r == [scan[s] EXCEPT !.pc = "mark"]
    <3>1. r \in ScanRec /\ r.max = scan[s].max /\ Held(r) = Held(scan[s])
      BY <1>1 DEF ScanRec, Held
    <3>2. scan' = [scan EXCEPT ![s] = r]
      BY <1>1, <2>3
    <3> HIDE DEF r
    <3> QED
      BY <1>6, <1>7, <3>1, <3>2
  <2> QED
    BY <1>7, <2>1, <2>2, <2>3 DEF ScanLookup, ScanCredit, ScanMark, Owners
<1>4. CASE ScanFail(s) /\ scan' = Done(s)
  <2> DEFINE r == [scan[s] EXCEPT !.pc = "next", !.tx = NoTx, !.user = NoUser]
  <2>1. r \in ScanRec /\ r.max = scan[s].max /\ Held(r) = Held(scan[s])
    BY <1>1 DEF ScanRec, Held
  <2>2. scan' = [scan EXCEPT ![s] = r] /\ scan[s].pc # "idle"
    BY <1>1, <1>4 DEF Done, ScanFail
  <2>3. \A x \in Tx : Kept(x) => Kept(x)'
    BY <1>4 DEF ScanFail, Kept
  <2> HIDE DEF r
  <2> QED
    BY <1>1, <2>1, <2>2, <2>3, OneListKept
<1>5. ASSUME NEW t \in scan[s].todo \ Dust, scan[s].pc = "next", UNCHANGED <<row, lost>>,
             scan' = [scan EXCEPT ![s].todo = @ \ {t}, ![s].missed = @ \cup {t}]
      PROVE  NothingSkipped' /\ Listed' /\ lastScanned' \in Nat
  <2> DEFINE r == [scan[s] EXCEPT !.todo = @ \ {t}, !.missed = @ \cup {t}]
  <2>1. r \in ScanRec /\ r.max = scan[s].max /\ Held(r) = Held(scan[s])
    BY <1>1 DEF ScanRec, Held
  <2>2. scan' = [scan EXCEPT ![s] = r] /\ scan[s].pc # "idle"
    BY <1>1, <1>5
  <2>3. \A x \in Tx : Kept(x) => Kept(x)'
    BY <1>5 DEF Kept
  <2> HIDE DEF r
  <2> QED
    BY <1>1, <2>1, <2>2, <2>3, OneListKept
<1>8. ScanFail(s) => \/ scan' = Done(s)
                     \/ /\ scan[s].pc = "next" /\ UNCHANGED <<row, lost>>
                        /\ \E t \in scan[s].todo \ Dust :
                             scan' = [scan EXCEPT ![s].todo = @ \ {t}, ![s].missed = @ \cup {t}]
  BY DEF ScanFail
<1> QED
  BY <1>3, <1>4, <1>5, <1>7, <1>8 DEF ScanStep

\* A step of an administrator's scan, the end of a run that saves nothing, and a crash.
LEMMA EndsListed ==
  ASSUME SInv, NEW s \in Scanner, (s \in Admin /\ AdminStart(s)) \/ AdminEnd(s) \/ CronEndFails(s)
  PROVE  NothingSkipped' /\ Listed' /\ lastScanned' \in Nat
<1>1. UNCHANGED <<lastScanned, row, lost>>
  BY DEF AdminStart, AdminEnd, CronEndFails
<1>2. \A t \in Tx : Kept(t) => Kept(t)'
  BY <1>1 DEF Kept
<1>3. CASE scan' = [scan EXCEPT ![s] = IdleScan]
  <2>1. IdleScan \in ScanRec /\ IdleScan.pc = "idle"
    BY DEF IdleScan, ScanRec
  <2> QED
    BY <1>1, <1>2, <1>3, <2>1, OneListKept
<1>4. CASE AdminStart(s) /\ s \in Admin
  <2>1. \A x \in Cron : scan'[x] = scan[x]
    BY <1>4, DepositAssumption DEF AdminStart, SInv, IInv, Shape, Scanner
  <2> QED
    BY <1>1, <1>2, <2>1, ListsKept
<1> QED
  BY <1>3, <1>4 DEF AdminEnd, CronEndFails

\* Claims make rows and unmake none; wallets and blocks touch no row.
LEMMA OthersListed ==
  ASSUME SInv,
         \/ \E c \in Claimer : ClaimStep(c) \/ ClaimFail(c)
         \/ \E l \in Linker : LinkStep(l)
         \/ \E u \in User, w \in Wallet : Unlink(u, w)
         \/ Mine \/ Crash \/ UNCHANGED vars
  PROVE  NothingSkipped' /\ Listed' /\ lastScanned' \in Nat
<1>1. ASSUME UNCHANGED <<lastScanned, row>>, lost \subseteq lost', scan' = scan \/ scan' = [s \in Scanner |-> IdleScan]
      PROVE  NothingSkipped' /\ Listed' /\ lastScanned' \in Nat
  <2>1. \A t \in Tx : Kept(t) => Kept(t)'
    BY <1>1 DEF Kept
  <2>2. \A s \in Cron : scan'[s].pc # "idle" => scan'[s] = scan[s]
    BY <1>1 DEF IdleScan, Scanner
  <2> QED
    BY <1>1, <2>1, <2>2, ListsKept
<1>2. ASSUME NEW c \in Claimer, ClaimWrite(c)
      PROVE  NothingSkipped' /\ Listed' /\ lastScanned' \in Nat
  <2>1. UNCHANGED <<lastScanned, lost, scan>>
    BY <1>2 DEF ClaimWrite
  <2>2. \A t \in Tx : row'[t].status = "none" => row[t].status = "none"
    <3> DEFINE t0 == claim[c].tx
               new == [status |-> "claimed", user |-> claim[c].user]
    <3>1. row' = row \/ row' = [row EXCEPT ![t0] = new]
      BY <1>2 DEF ClaimWrite
    <3>2. new.status = "claimed"
      OBVIOUS
    <3> HIDE DEF t0, new
    <3>3. DOMAIN row = Tx
      BY DEF SInv, IInv, Shape
    <3> QED
      BY <3>1, <3>2, <3>3
  <2>3. \A t \in Tx : Kept(t) => Kept(t)'
    BY <2>1, <2>2 DEF Kept
  <2> QED
    BY <2>1, <2>3, ListsKept
<1>3. ASSUME NEW c \in Claimer, ClaimStep(c) \/ ClaimFail(c), ~ClaimWrite(c)
      PROVE  UNCHANGED <<lastScanned, row, scan>> /\ lost \subseteq lost'
  BY <1>3 DEF ClaimStep, ClaimFail, ClaimRead, ClaimCheck, ClaimCredit
<1>4. ASSUME (\E l \in Linker : LinkStep(l)) \/ (\E u \in User, w \in Wallet : Unlink(u, w)) \/ Mine \/ UNCHANGED vars
      PROVE  UNCHANGED <<lastScanned, row, lost, scan>>
  BY <1>4 DEF LinkStep, LinkCheck, LinkWrite, Unlink, Mine, vars
<1>5. Crash => UNCHANGED <<lastScanned, row>> /\ lost \subseteq lost' /\ scan' = [s \in Scanner |-> IdleScan]
  BY DEF Crash
<1> QED
  BY <1>1, <1>2, <1>3, <1>4, <1>5

(* Every reachable state of the scanners, the claims and the wallet routes
   (blockScanner.ts, app.ts) satisfies the inductive invariant. *)
THEOREM DepositInvariance == Spec => []SInv
<1>1. Init => SInv
  <2> SUFFICES ASSUME Init PROVE SInv
    OBVIOUS
  <2>1. NothingSkipped
    BY DepositAssumption DEF Init, NothingSkipped
  <2>2. Listed
    BY DEF Init, Listed, IdleScan, Scanner
  <2>3. lastScanned \in Nat
    BY DEF Init
  <2> QED
    BY <2>1, <2>2, <2>3, InitIInv DEF SInv
<1>2. SInv /\ [Next]_vars => SInv'
  <2> SUFFICES ASSUME SInv, [Next]_vars PROVE SInv'
    OBVIOUS
  <2>1. IInv'
    BY NextIInv DEF SInv
  <2>2. ASSUME NEW s \in Cron, CronStep(s) \/ CronEndFails(s) \/ ScanFail(s)
        PROVE  NothingSkipped' /\ Listed' /\ lastScanned' \in Nat
    BY <2>2, CronStartListed, CronEndListed, ScanListed, EndsListed DEF CronStep, Scanner
  <2>3. ASSUME NEW s \in Admin, AdminStart(s) \/ ScanStep(s) \/ AdminEnd(s) \/ ScanFail(s)
        PROVE  NothingSkipped' /\ Listed' /\ lastScanned' \in Nat
    BY <2>3, ScanListed, EndsListed DEF Scanner
  <2>4. NothingSkipped' /\ Listed' /\ lastScanned' \in Nat
    BY <2>2, <2>3, OthersListed DEF Next
  <2> QED
    BY <2>1, <2>4 DEF SInv
<1> QED
  BY <1>1, <1>2, PTL DEF Spec

\* No transfer below the saved block is forgotten, however the runs of the timer, administrators,
\* claims, failures and crashes interleave (blockScanner.ts, updateLastScannedBlock).
THEOREM NothingForgotten == Spec => []NothingSkipped
<1>1. SInv => NothingSkipped
  BY DEF SInv
<1> QED
  BY <1>1, DepositInvariance, PTL

-----------------------------------------------------------------------------
(* Types                                                                   *)

LinkRec == [pc : {"new", "write", "done"}, user : User \cup {NoUser},
            wallet : Wallet \cup {NoWallet}]

\* What the invariant leaves open, and that a request that is about to link
\* has an account and a wallet.
Rest ==
  /\ head \in Nat /\ faults \in Nat /\ lost \subseteq Tx
  /\ wallets \subseteq User \X Wallet
  /\ paid \in [Tx -> Seq([user : User, how : {"inserted", "updated"}])]
  /\ link \in [Linker -> LinkRec]
  /\ \A l \in Linker : link[l].pc = "write" => link[l].user \in User /\ link[l].wallet \in Wallet

LEMMA RestInit == Init => Rest
<1> SUFFICES ASSUME Init PROVE Rest
  OBVIOUS
<1>1. <<>> \in Seq([user : User, how : {"inserted", "updated"}])
  OBVIOUS
<1>2. paid \in [Tx -> Seq([user : User, how : {"inserted", "updated"}])]
  BY <1>1 DEF Init
<1>3. \A l \in Linker : link[l] = NewLink
  BY DEF Init
<1>4. NewLink \in LinkRec /\ NewLink.pc # "write"
  BY DEF NewLink, LinkRec
<1>5. link \in [Linker -> LinkRec]
  BY <1>4 DEF Init
<1> QED
  BY <1>2, <1>3, <1>4, <1>5, DepositAssumption DEF Init, Rest

\* Credit goes to an account.
LEMMA RestPay ==
  ASSUME Rest, NEW t \in Tx, NEW u \in User, NEW how \in {"inserted", "updated"}, Pay(t, u, how)
  PROVE  paid' \in [Tx -> Seq([user : User, how : {"inserted", "updated"}])]
<1>1. PICK P : P = [user : User, how : {"inserted", "updated"}]
  OBVIOUS
<1>2. PICK e : e = [user |-> u, how |-> how]
  OBVIOUS
<1>3. e \in P /\ paid \in [Tx -> Seq(P)] /\ paid' = [paid EXCEPT ![t] = Append(paid[t], e)]
  BY <1>1, <1>2 DEF Rest, Pay
<1>4. Append(paid[t], e) \in Seq(P)
  BY <1>3
<1>5. paid' \in [Tx -> Seq(P)]
  BY <1>3, <1>4
<1> QED
  BY <1>1, <1>5

LEMMA RestLinks ==
  ASSUME Rest, NEW l \in Linker, LinkStep(l)
  PROVE  Rest'
<1>1. UNCHANGED <<head, faults, lost, paid>>
  BY DEF LinkStep, LinkCheck, LinkWrite
<1>2. CASE \E u \in User, w \in Wallet : LinkCheck(l, u, w)
  <2>1. PICK u \in User, w \in Wallet : LinkCheck(l, u, w)
    BY <1>2
  <2>2. PICK r \in LinkRec : /\ r.user = u /\ r.wallet = w
                            /\ link' = [link EXCEPT ![l] = r] /\ wallets' = wallets
    BY <2>1 DEF LinkCheck, LinkRec
  <2>3. link' \in [Linker -> LinkRec] /\ \A x \in Linker : link'[x] = IF x = l THEN r ELSE link[x]
    BY <2>2 DEF Rest
  <2> QED
    BY <1>1, <2>2, <2>3 DEF Rest
<1>3. CASE LinkWrite(l)
  <2>1. wallets' = wallets \cup {<<link[l].user, link[l].wallet>>} /\ link[l].user \in User /\ link[l].wallet \in Wallet
    BY <1>3 DEF LinkWrite, Rest
  <2>2. wallets' \subseteq User \X Wallet
    BY <2>1 DEF Rest
  <2>3. link' = [link EXCEPT ![l].pc = "done"]
    BY <1>3 DEF LinkWrite
  <2>4. /\ link' \in [Linker -> LinkRec]
        /\ \A x \in Linker : link'[x].pc = "write" => link'[x] = link[x]
    BY <2>3 DEF Rest, LinkRec
  <2>5. \A x \in Linker : link'[x].pc = "write" => link'[x].user \in User /\ link'[x].wallet \in Wallet
    BY <2>4 DEF Rest
  <2> QED
    BY <1>1, <2>2, <2>4, <2>5, Zenon DEF Rest
<1> QED
  BY <1>2, <1>3 DEF LinkStep

\* A step of the scanners, of the claims or of the chain.
LEMMA RestCalm ==
  ASSUME Rest, head' \in Nat, faults' \in Nat, lost' \subseteq Tx, UNCHANGED <<wallets, link>>,
         paid' \in [Tx -> Seq([user : User, how : {"inserted", "updated"}])]
  PROVE  Rest'
<1>1. wallets' \subseteq User \X Wallet
  BY DEF Rest
<1>2. link' \in [Linker -> LinkRec]
  BY DEF Rest
<1>3. \A l \in Linker : link'[l].pc = "write" => link'[l].user \in User /\ link'[l].wallet \in Wallet
  BY DEF Rest
<1> QED
  BY <1>1, <1>2, <1>3, Zenon DEF Rest

LEMMA RestStep == SInv /\ Rest /\ [Next]_vars => Rest'
<1> SUFFICES ASSUME SInv, Rest, [Next]_vars PROVE Rest'
  OBVIOUS
<1>0. Shape
  BY DEF SInv, IInv
<1>i. \A n \in Nat : n + 1 \in Nat
  OBVIOUS
<1>r. /\ head \in Nat /\ faults \in Nat /\ lost \subseteq Tx
      /\ paid \in [Tx -> Seq([user : User, how : {"inserted", "updated"}])]
  BY Zenon DEF Rest
<1>1. CASE Mine
  BY <1>1, <1>i, <1>r, RestCalm DEF Mine
<1>2. ASSUME NEW s \in Scanner, CronStart(s) \/ AdminStart(s) \/ ScanStep(s) \/ CronEnd(s)
                               \/ CronEndFails(s) \/ AdminEnd(s) \/ ScanFail(s)
      PROVE  Rest'
  <2>1. CASE ScanCredit(s)
    <3>1. scan[s].tx \in Tx /\ scan[s].user \in User
      BY <1>0, <2>1 DEF Shape, ScanCredit
    <3>2. Pay(scan[s].tx, scan[s].user, "inserted")
      BY <2>1 DEF ScanCredit
    <3>3. paid' \in [Tx -> Seq([user : User, how : {"inserted", "updated"}])]
      BY <3>1, <3>2, RestPay
    <3> QED
      BY <1>i, <1>r, <2>1, <3>3, RestCalm DEF ScanCredit
  <2>2. CASE ~ScanCredit(s)
    <3>1. /\ UNCHANGED <<head, wallets, paid, link>>
          /\ faults' = faults \/ faults' = faults + 1
      BY <1>2, <2>2 DEF CronStart, AdminStart, ScanStep, ScanInsert, ScanLookup, ScanMark,
                        CronEnd, CronEndFails, AdminEnd, ScanFail
    <3>2. \/ lost' = lost \/ lost' = lost \cup Unseen(s)
          \/ scan[s].pc \in {"lookup", "credit"} /\ lost' = lost \cup {scan[s].tx}
      BY <1>2, <2>2 DEF CronStart, AdminStart, ScanStep, ScanInsert, ScanLookup, ScanMark,
                        CronEnd, CronEndFails, AdminEnd, ScanFail
    <3>3. Unseen(s) \subseteq Tx /\ (scan[s].pc \in {"lookup", "credit"} => scan[s].tx \in Tx)
      BY <1>0 DEF Shape, ScanRec, Unseen
    <3> QED
      BY <1>i, <1>r, <3>1, <3>2, <3>3, RestCalm
  <2> QED
    BY <2>1, <2>2
<1>3. ASSUME NEW c \in Claimer, ClaimStep(c) \/ ClaimFail(c)
      PROVE  Rest'
  <2>1. CASE ClaimCredit(c)
    <3>1. claim[c].tx \in Tx /\ claim[c].user \in User
      BY <1>0, <2>1 DEF Shape, ClaimCredit
    <3>2. PICK how \in {"inserted", "updated"} : Pay(claim[c].tx, claim[c].user, how)
      BY <2>1 DEF ClaimCredit
    <3>3. paid' \in [Tx -> Seq([user : User, how : {"inserted", "updated"}])]
      BY <3>1, <3>2, RestPay
    <3> QED
      BY <1>i, <1>r, <2>1, <3>3, RestCalm DEF ClaimCredit
  <2>2. CASE ~ClaimCredit(c)
    <3>1. /\ UNCHANGED <<head, wallets, paid, link>>
          /\ faults' = faults \/ faults' = faults + 1
          /\ \/ lost' = lost
             \/ claim[c].pc = "credit" /\ lost' = lost \cup {claim[c].tx}
      BY <1>3, <2>2 DEF ClaimStep, ClaimRead, ClaimCheck, ClaimWrite, ClaimFail
    <3>2. claim[c].pc = "credit" => claim[c].tx \in Tx
      BY <1>0 DEF Shape
    <3> QED
      BY <1>i, <1>r, <3>1, <3>2, RestCalm
  <2> QED
    BY <2>1, <2>2
<1>4. ASSUME NEW l \in Linker, LinkStep(l) PROVE Rest'
  BY <1>4, RestLinks
<1>5. ASSUME NEW u \in User, NEW w \in Wallet, Unlink(u, w) PROVE Rest'
  BY <1>5 DEF Unlink, Rest
<1>6. CASE Crash
  <2>1. UNCHANGED <<head, wallets, paid>> /\ faults' = faults + 1 /\ lost' \subseteq Tx
    <3>1. lost' = lost \cup {scan[s].tx : s \in {x \in Scanner : scan[x].pc \in {"lookup", "credit"}}}
                       \cup {claim[c].tx : c \in {x \in Claimer : claim[x].pc = "credit"}}
      BY <1>6 DEF Crash
    <3>2. /\ \A s \in Scanner : scan[s].pc \in {"lookup", "credit"} => scan[s].tx \in Tx
          /\ \A c \in Claimer : claim[c].pc = "credit" => claim[c].tx \in Tx
      BY <1>0 DEF Shape
    <3> QED
      BY <1>6, <1>r, <3>1, <3>2 DEF Crash
  <2>2. \A l \in Linker : /\ link'[l] \in LinkRec
                          /\ link'[l].pc = "write" => link'[l] = link[l]
    BY <1>6 DEF Crash, Rest, LinkRec
  <2>3. link' \in [Linker -> LinkRec]
    <3>1. link' = [l \in Linker |-> link'[l]]
      BY <1>6 DEF Crash
    <3> QED
      BY <2>2, <3>1
  <2>4. \A l \in Linker : link'[l].pc = "write" => link'[l].user \in User /\ link'[l].wallet \in Wallet
    BY <2>2 DEF Rest
  <2>5. head' \in Nat /\ faults' \in Nat
    BY <1>i, <1>r, <2>1
  <2> QED
    BY <1>r, <2>1, <2>3, <2>4, <2>5, Zenon DEF Rest
<1>7. CASE UNCHANGED vars
  BY <1>7 DEF vars, Rest
<1> QED
  BY <1>1, <1>2, <1>3, <1>4, <1>5, <1>6, <1>7 DEF Next, CronStep, Scanner

\* Every variable keeps its type, for any number of scanners, claims and wallets.
THEOREM TypeCorrect == Spec => []TypeOK
<1>1. SInv /\ Rest => TypeOK
  BY DEF SInv, IInv, Shape, Rest, TypeOK, ScanRec, ClaimRec, LinkRec
<1>2. Spec => []Rest
  BY RestInit, RestStep, DepositInvariance, PTL DEF Spec
<1> QED
  BY <1>1, <1>2, DepositInvariance, PTL
=============================================================================
