-------------------------- MODULE X402Gateway_proofs --------------------------
(***************************************************************************)
(* A payment is spent once, and the payment log does not lie about what    *)
(* was settled: for any number of requests, payments, keys and cleaners,   *)
(* and any number of failures, lost replies and restarts.  Money moves     *)
(* only for an upload that is in the object table: a request that is about *)
(* to settle has tracked its object.                                       *)
(***************************************************************************)
EXTENDS X402Gateway, TLAPS

Pc == {"new", "log", "mark", "put", "track", "credit", "settle", "settled", "check", "fail", "blind", "done"}

Shape ==
  /\ log \in [Payment -> Status]
  /\ req \in [Req -> Pc]
  /\ credited \in [Payment -> Nat]
  /\ taken \subseteq Payment

\* One request with the payment is past the log, and only if the log has it.
OneUser ==
  \A r \in Req : InHandler(r) =>
    /\ log[PaymentOf[r]] # "none"
    /\ \A q \in Req : PaymentOf[q] = PaymentOf[r] /\ InHandler(q) => q = r

\* Nothing was credited before the request with the payment gets there.
CreditOnce ==
  /\ \A p \in Payment : credited[p] <= 1 /\ (log[p] = "none" => credited[p] = 0)
  /\ \A r \in Req : req[r] \in {"mark", "put", "track", "credit"} => credited[PaymentOf[r]] = 0

\* The middleware's order: verified before settled before logged as settled.
InOrder ==
  /\ \A r \in Req : req[r] \in {"put", "track", "credit", "settle", "settled", "check", "fail", "blind"}
                      => log[PaymentOf[r]] \notin {"none", "pending"}
  /\ \A r \in Req : req[r] = "settled" => PaymentOf[r] \in taken

IInv == Shape /\ OneUser /\ CreditOnce /\ InOrder /\ LogHonest

-----------------------------------------------------------------------------
\* Init starts with an empty log.
LEMMA Start == Init => IInv
  BY GatewayAssumption DEF Init, IInv, Shape, Status, Pc, OneUser, InHandler, CreditOnce, InOrder, LogHonest

\* The invariant reads these variables only.
LEMMA Untouched ==
  ASSUME IInv, UNCHANGED <<log, req, credited, taken>>
  PROVE  IInv'
  BY DEF IInv, Shape, OneUser, InHandler, CreditOnce, InOrder, LogHonest

\* A request moves on within the handler or to its end, and nothing else
\* that the invariant reads changes.
Later == [pc \in Pc |->
  CASE pc = "new"     -> {"log", "done"}
    [] pc = "log"     -> {"done"}
    [] pc = "mark"    -> {"done"}
    [] pc = "put"     -> {"track", "fail"}
    [] pc = "track"   -> {"credit", "fail"}
    [] pc = "credit"  -> {"settle", "fail"}
    [] pc = "settle"  -> {"check", "fail"}
    [] pc = "settled" -> {"check"}
    [] pc = "check"   -> {"fail", "blind", "done"}
    [] pc = "fail"    -> {"done"}
    [] pc = "blind"   -> {"done"}
    [] OTHER          -> {}]

LEMMA MovesOn ==
  ASSUME IInv, NEW r \in Req, NEW pc \in Later[req[r]], Goto(r, pc),
         UNCHANGED <<log, credited, taken>>
  PROVE  IInv'
<1>1. req[r] \in Pc /\ pc \in Pc
  BY DEF IInv, Shape, Pc, Later
<1>2. Shape'
  BY <1>1 DEF IInv, Shape, Goto
<1>3. InHandler(r)' => InHandler(r)
  BY <1>1 DEF InHandler, Later, Pc, Goto, IInv, Shape
<1>4. \A q \in Req : q # r => req'[q] = req[q]
  BY DEF Goto, IInv, Shape
<1>5. req'[r] = pc
  BY DEF Goto, IInv, Shape
<1>6. OneUser'
  BY <1>3, <1>4 DEF OneUser, InHandler, IInv
<1>7. pc \in {"mark", "put", "track", "credit"} => req[r] \in {"put", "track"}
  BY <1>1 DEF Later, Pc
<1>8. CreditOnce'
  BY <1>4, <1>5, <1>7 DEF CreditOnce, IInv
<1>9. /\ pc # "settled"
      /\ pc \in {"put", "track", "credit", "settle", "settled", "check", "fail", "blind"} =>
           req[r] \in {"put", "track", "credit", "settle", "settled", "check"}
  BY <1>1 DEF Later, Pc
<1>10. InOrder'
  BY <1>4, <1>5, <1>9 DEF InOrder, IInv
<1>11. LogHonest'
  BY DEF LogHonest, IInv
<1>. QED BY <1>2, <1>6, <1>8, <1>10, <1>11 DEF IInv

-----------------------------------------------------------------------------
(* The steps that write what the invariant reads                           *)

LEMMA LogPaymentStep ==
  ASSUME IInv, NEW r \in Req, LogPayment(r)
  PROVE  IInv'
<1>0. PaymentOf[r] \in Payment
  BY GatewayAssumption
<1>1. CASE log[PaymentOf[r]] = "none"
  <2>1. /\ log' = [log EXCEPT ![PaymentOf[r]] = "pending"]
        /\ req' = [req EXCEPT ![r] = "mark"]
        /\ UNCHANGED <<credited, taken>>
    BY <1>1 DEF LogPayment, Goto
  <2>2. Shape'
    BY <1>0, <2>1 DEF IInv, Shape, Status, Pc
  <2>3. \A q \in Req : InHandler(q) => PaymentOf[q] # PaymentOf[r]
    BY <1>1 DEF IInv, OneUser
  <2>4. OneUser'
    BY <1>0, <2>1, <2>3, GatewayAssumption DEF IInv, Shape, OneUser, InHandler
  <2>5. CreditOnce'
    BY <1>0, <1>1, <2>1, GatewayAssumption DEF IInv, Shape, CreditOnce
  <2>6. InOrder'
    BY <1>0, <2>1, <2>3, GatewayAssumption DEF IInv, Shape, InOrder, InHandler
  <2>7. LogHonest'
    BY <1>0, <1>1, <2>1 DEF IInv, Shape, LogHonest
  <2>. QED BY <2>2, <2>4, <2>5, <2>6, <2>7 DEF IInv
<1>2. CASE log[PaymentOf[r]] # "none"
  <2>1. "done" \in Later[req[r]] /\ Goto(r, "done") /\ UNCHANGED <<log, credited, taken>>
    BY <1>2 DEF LogPayment, Later, Pc
  <2>. QED BY <2>1, MovesOn
<1>. QED BY <1>1, <1>2

\* The request that has the payment to itself writes the log and moves on.
LEMMA LogWritten ==
  ASSUME IInv, NEW r \in Req, InHandler(r), NEW pc \in Pc, Goto(r, pc),
         NEW status \in {"verified", "settled", "failed"},
         log' = [log EXCEPT ![PaymentOf[r]] = status],
         UNCHANGED <<credited, taken>>,
         pc \in {"put", "credit"} => req[r] = "mark",
         pc \in {"put", "credit", "check", "done"},
         status = "settled" => PaymentOf[r] \in taken
  PROVE  IInv'
<1>0. PaymentOf[r] \in Payment
  BY GatewayAssumption
<1>1. req' = [req EXCEPT ![r] = pc]
  BY DEF Goto
<1>2. Shape'
  BY <1>0, <1>1 DEF IInv, Shape, Status
<1>3. OneUser'
  BY <1>0, <1>1, GatewayAssumption DEF IInv, Shape, OneUser, InHandler
<1>4. CreditOnce'
  BY <1>0, <1>1, GatewayAssumption DEF IInv, Shape, CreditOnce
<1>5. InOrder'
  BY <1>0, <1>1, GatewayAssumption DEF IInv, Shape, InOrder
<1>6. LogHonest'
  BY <1>0, <1>1 DEF IInv, Shape, LogHonest
<1>. QED BY <1>2, <1>3, <1>4, <1>5, <1>6 DEF IInv

\* The request that has the payment to itself has it credited.
LEMMA CreditWritten ==
  ASSUME IInv, NEW r \in Req, req[r] = "credit", Goto(r, "settle"),
         credited' = [credited EXCEPT ![PaymentOf[r]] = @ + 1],
         UNCHANGED <<log, taken>>
  PROVE  IInv'
<1>0. PaymentOf[r] \in Payment
  BY GatewayAssumption
<1>1. req' = [req EXCEPT ![r] = "settle"]
  BY DEF Goto
<1>2. Shape'
  BY <1>0, <1>1 DEF IInv, Shape, Pc
<1>3. OneUser'
  BY <1>1 DEF IInv, Shape, OneUser, InHandler
<1>4. \A q \in Req : PaymentOf[q] = PaymentOf[r] /\ req[q] \in {"mark", "put", "track", "credit"} => q = r
  BY DEF IInv, OneUser, InHandler
<1>5. credited[PaymentOf[r]] = 0 /\ log[PaymentOf[r]] # "none"
  BY DEF IInv, CreditOnce, OneUser, InHandler
<1>6. CreditOnce'
  BY <1>0, <1>1, <1>4, <1>5, GatewayAssumption DEF IInv, Shape, CreditOnce
<1>7. InOrder'
  BY <1>1 DEF IInv, Shape, InOrder
<1>8. LogHonest'
  BY DEF IInv, LogHonest
<1>. QED BY <1>2, <1>3, <1>6, <1>7, <1>8 DEF IInv

\* The facilitator settles, and the gateway hears of it or not.
LEMMA SettleStep ==
  ASSUME IInv, NEW r \in Req, req[r] = "settle", NEW pc \in {"settled", "check"}, Goto(r, pc),
         taken' = taken \cup {PaymentOf[r]}, UNCHANGED <<log, credited>>
  PROVE  IInv'
<1>0. PaymentOf[r] \in Payment
  BY GatewayAssumption
<1>1. req' = [req EXCEPT ![r] = pc]
  BY DEF Goto
<1>2. Shape'
  BY <1>0, <1>1 DEF IInv, Shape, Pc
<1>3. OneUser'
  BY <1>1 DEF IInv, Shape, OneUser, InHandler
<1>4. CreditOnce'
  BY <1>1 DEF IInv, Shape, CreditOnce
<1>5. InOrder'
  BY <1>1 DEF IInv, Shape, InOrder
<1>6. LogHonest'
  BY DEF IInv, LogHonest, InOrder
<1>. QED BY <1>2, <1>3, <1>4, <1>5, <1>6 DEF IInv

\* After a restart nobody is past the log.
LEMMA CrashStep == IInv /\ Crash => IInv'
<1> SUFFICES ASSUME IInv, Crash PROVE IInv'
  OBVIOUS
<1>1. /\ \A r \in Req : req'[r] \in {"new", "done"}
      /\ req' \in [Req -> Pc]
      /\ UNCHANGED <<log, credited, taken>>
  BY DEF Crash, Pc
<1>. QED BY <1>1 DEF IInv, Shape, OneUser, InHandler, CreditOnce, InOrder, LogHonest

-----------------------------------------------------------------------------
\* Every step keeps the invariant.
LEMMA Step == IInv /\ [Next]_vars => IInv'
<1> SUFFICES ASSUME IInv, [Next]_vars PROVE IInv'
  OBVIOUS
<1>1. ASSUME NEW r \in Req, BeforeHandler(r) PROVE IInv'
  <2>1. CASE Verify(r)
    <3>1. PICK pc \in {"log", "done"} : Goto(r, pc)
      BY <2>1 DEF Verify
    <3>2. pc \in Later[req[r]] /\ UNCHANGED <<log, credited, taken>>
      BY <2>1, <3>1 DEF Verify, Later, Pc
    <3>. QED BY <3>1, <3>2, MovesOn
  <2>2. CASE LogPayment(r)
    BY <2>2, LogPaymentStep
  <2>3. CASE MarkVerified(r)
    <3>1. PICK pc \in {"put", "credit"} : Goto(r, pc)
      BY <2>3 DEF MarkVerified
    <3>. QED BY <2>3, <3>1, LogWritten DEF MarkVerified, InHandler, Pc
  <2>. QED BY <1>1, <2>1, <2>2, <2>3 DEF BeforeHandler
<1>2. ASSUME NEW r \in Req, Handler(r) PROVE IInv'
  <2>1. CASE PutObject(r)
    BY <2>1, MovesOn DEF PutObject, Later, Pc
  <2>2. CASE Track(r)
    BY <2>2, MovesOn DEF Track, Later, Pc
  <2>3. CASE Credit(r)
    BY <2>3, CreditWritten DEF Credit
  <2>. QED BY <1>2, <2>1, <2>2, <2>3 DEF Handler
<1>3. ASSUME NEW r \in Req, AfterHandler(r) PROVE IInv'
  <2>1. CASE Settle(r)
    BY <2>1, SettleStep DEF Settle
  <2>2. CASE MarkSettled(r)
    <3>1. PICK pc \in {"done", "check"} : Goto(r, pc)
      BY <2>2 DEF MarkSettled
    <3>2. PaymentOf[r] \in taken
      BY <2>2 DEF MarkSettled, IInv, InOrder
    <3>. QED BY <2>2, <3>1, <3>2, LogWritten DEF MarkSettled, InHandler, Pc
  <2>3. CASE CheckSettled(r)
    <3>1. PICK pc \in {"done", "fail"} : Goto(r, pc)
      BY <2>3 DEF CheckSettled
    <3>. QED BY <2>3, <3>1, MovesOn DEF CheckSettled, Later, Pc
  <2>4. CASE MarkFailed(r)
    <3>1. PICK pc \in {"done"} : Goto(r, pc)
      BY <2>4 DEF MarkFailed
    <3>2. CASE req[r] = "fail"
      BY <2>4, <3>1, <3>2, LogWritten DEF MarkFailed, InHandler, Pc
    <3>3. CASE req[r] = "blind"
      BY <2>4, <3>1, <3>3, LogWritten DEF MarkFailed, InHandler, Pc
    <3>. QED BY <2>4, <3>2, <3>3 DEF MarkFailed
  <2>. QED BY <1>3, <2>1, <2>2, <2>3, <2>4 DEF AfterHandler
<1>4. ASSUME NEW r \in Req, RequestFails(r) PROVE IInv'
  <2>1. CASE LogFails(r)
    BY <2>1, MovesOn DEF LogFails, Later, Pc
  <2>2. CASE PutFails(r)
    BY <2>2, MovesOn DEF PutFails, Later, Pc
  <2>3. CASE TrackFails(r)
    BY <2>3, MovesOn DEF TrackFails, Later, Pc
  <2>4. CASE CreditFails(r)
    <3>1. CASE credited' = credited
      <4>1. PICK pc \in {"settle", "fail"} : Goto(r, pc)
        BY <2>4 DEF CreditFails
      <4>. QED BY <2>4, <3>1, <4>1, MovesOn DEF CreditFails, Later, Pc
    <3>2. CASE credited' # credited
      BY <2>4, <3>2, CreditWritten DEF CreditFails
    <3>. QED BY <3>1, <3>2
  <2>5. CASE SettleRefused(r)
    BY <2>5, MovesOn DEF SettleRefused, Later, Pc
  <2>6. CASE SettleThrows(r)
    <3>1. CASE taken' = taken
      BY <2>6, <3>1, MovesOn DEF SettleThrows, Later, Pc
    <3>2. CASE taken' = taken \cup {PaymentOf[r]}
      BY <2>6, <3>2, SettleStep DEF SettleThrows
    <3>. QED BY <2>6, <3>1, <3>2 DEF SettleThrows
  <2>7. CASE MarkSettledFails(r)
    BY <2>7, MovesOn DEF MarkSettledFails, Later, Pc
  <2>8. CASE CheckFails(r)
    BY <2>8, MovesOn DEF CheckFails, Later, Pc
  <2>9. CASE MarkFailedFails(r)
    <3>1. CASE req[r] = "fail"
      BY <2>9, <3>1, MovesOn DEF MarkFailedFails, Later, Pc
    <3>2. CASE req[r] = "blind"
      BY <2>9, <3>2, MovesOn DEF MarkFailedFails, Later, Pc
    <3>. QED BY <2>9, <3>1, <3>2 DEF MarkFailedFails
  <2>. QED BY <1>4, <2>1, <2>2, <2>3, <2>4, <2>5, <2>6, <2>7, <2>8, <2>9 DEF RequestFails
<1>5. ASSUME NEW r \in Req, Expire(r) PROVE IInv'
  BY <1>5, Untouched DEF Expire
<1>6. ASSUME NEW k \in Key, Age(k) PROVE IInv'
  BY <1>6, Untouched DEF Age
<1>7. ASSUME NEW c \in Cleaner, CleanStep(c) \/ DeleteFails(c) \/ ListFails(c) PROVE IInv'
  BY <1>7, Untouched
     DEF CleanStep, ListUnpaid, ListExpired, MarkDeleted, CleanEnd, DeleteFromS3, DeleteFails, ListFails
<1>8. ASSUME NEW d \in Deleter, DeleteMark(d) \/ (\E k \in Key : DeleteRequest(d, k)) PROVE IInv'
  BY <1>8, Untouched DEF DeleteMark, DeleteRequest
<1>9. CASE Crash
  BY <1>9, CrashStep
<1>10. CASE UNCHANGED vars
  BY <1>10, Untouched DEF vars
<1>. QED
  BY <1>1, <1>2, <1>3, <1>4, <1>5, <1>6, <1>7, <1>8, <1>9, <1>10 DEF Next, RequestStep

\* The unique payment id of the log keeps a payment from being spent twice.
THEOREM SpentOnce == Spec => []PaymentSpentOnce
<1>1. IInv => PaymentSpentOnce
  BY DEF IInv, OneUser, CreditOnce, PaymentSpentOnce
<1>. QED BY Start, Step, <1>1, PTL DEF Spec

\* A payment is logged as settled only if it was settled, and settled only if
\* it had been logged as verified.
THEOREM HonestLog == Spec => []LogHonest
<1>1. IInv => LogHonest
  BY DEF IInv
<1>. QED BY Start, Step, <1>1, PTL DEF Spec


-----------------------------------------------------------------------------
(* Types, and rows that stay                                               *)

Rows == [exists : BOOLEAN, by : Req \cup {NoReq}, deleted : BOOLEAN, attempts : Nat, aged : BOOLEAN]
Runs == [pc : {"idle", "unpaid", "expired"}, todo : SUBSET Key, key : Key \cup {NoKey}]
Calls == [pc : {"new", "mark", "done"}, key : Key \cup {NoKey}]

\* No row is ever removed.
RowsStand == \A k \in Key : object[k].exists => object'[k].exists

\* A step that writes one row, or none.
LEMMA RowWritten ==
  ASSUME TypeOK, NEW k \in Key \cup {NoKey}, NEW o,
         k \in Key => o \in Rows /\ (object[k].exists => o.exists),
         object' = [object EXCEPT ![k] = o]
  PROVE  object' \in [Key -> Rows] /\ RowsStand
  BY GatewayAssumption DEF TypeOK, Rows, RowsStand

LEMMA RowTouched ==
  ASSUME TypeOK, NEW k \in Key
  PROVE  /\ \A b \in BOOLEAN : [object[k] EXCEPT !.deleted = b] \in Rows
         /\ \A b \in BOOLEAN : [object[k] EXCEPT !.deleted = b].exists = object[k].exists
         /\ [object[k] EXCEPT !.aged = TRUE] \in Rows
         /\ [object[k] EXCEPT !.aged = TRUE].exists = object[k].exists
         /\ [object[k] EXCEPT !.attempts = @ + 1] \in Rows
         /\ [object[k] EXCEPT !.attempts = @ + 1].exists = object[k].exists
         /\ \A r \in Req : [object[k] EXCEPT !.exists = TRUE, !.by = r, !.deleted = FALSE] \in Rows
         /\ \A r \in Req : [object[k] EXCEPT !.exists = TRUE, !.by = r, !.deleted = FALSE].exists
<1>1. object[k] \in Rows
  BY DEF TypeOK, Rows
<1> DEFINE o == object[k]
<1> HIDE DEF o
<1>2. ASSUME o \in Rows, NEW v \in BOOLEAN
      PROVE  [o EXCEPT !.deleted = v] \in Rows /\ [o EXCEPT !.deleted = v].exists = o.exists
  BY <1>2 DEF Rows
<1>3. ASSUME o \in Rows
      PROVE  [o EXCEPT !.aged = TRUE] \in Rows /\ [o EXCEPT !.aged = TRUE].exists = o.exists
  BY <1>3 DEF Rows
<1>4. ASSUME o \in Rows
      PROVE  [o EXCEPT !.attempts = @ + 1] \in Rows /\ [o EXCEPT !.attempts = @ + 1].exists = o.exists
  BY <1>4 DEF Rows
<1>5. ASSUME o \in Rows, NEW r \in Req
      PROVE  /\ [o EXCEPT !.exists = TRUE, !.by = r, !.deleted = FALSE] \in Rows
             /\ [o EXCEPT !.exists = TRUE, !.by = r, !.deleted = FALSE].exists
  BY <1>5 DEF Rows
<1> QED
  BY <1>1, <1>2, <1>3, <1>4, <1>5 DEF o

\* What a step of a request does to the tables.
LEMMA RequestTyped ==
  ASSUME TypeOK, NEW r \in Req, RequestStep(r) \/ RequestFails(r)
  PROVE  TypeOK' /\ RowsStand
<1>0. PaymentOf[r] \in Payment /\ KeyOf[r] \in Key \cup {NoKey}
  BY GatewayAssumption
<1>1. UNCHANGED <<expired, clean, del, hidden>> /\ faults' \in Nat
  BY DEF TypeOK, RequestStep, BeforeHandler, Handler, AfterHandler, RequestFails, Fault, Verify, LogPayment,
         MarkVerified, PutObject, Track, Credit, Settle, MarkSettled, CheckSettled, MarkFailed, LogFails,
         PutFails, TrackFails, CreditFails, SettleRefused, SettleThrows, MarkSettledFails, CheckFails,
         MarkFailedFails
<1>2. \E pc \in Pc : Goto(r, pc)
  BY DEF RequestStep, BeforeHandler, Handler, AfterHandler, RequestFails, Verify, LogPayment,
         MarkVerified, PutObject, Track, Credit, Settle, MarkSettled, CheckSettled, MarkFailed, LogFails,
         PutFails, TrackFails, CreditFails, SettleRefused, SettleThrows, MarkSettledFails, CheckFails,
         MarkFailedFails, Pc
<1>3. req' \in [Req -> Pc]
  BY <1>2 DEF Goto, TypeOK, Pc
<1>4. \/ UNCHANGED log
      \/ \E status \in Status : log' = [log EXCEPT ![PaymentOf[r]] = status]
  BY DEF RequestStep, BeforeHandler, Handler, AfterHandler, RequestFails, Verify, LogPayment,
         MarkVerified, PutObject, Track, Credit, Settle, MarkSettled, CheckSettled, MarkFailed, LogFails,
         PutFails, TrackFails, CreditFails, SettleRefused, SettleThrows, MarkSettledFails, CheckFails,
         MarkFailedFails, Status
<1>5. log' \in [Payment -> Status]
  BY <1>4 DEF TypeOK
<1>6. /\ s3' \in {s3, [s3 EXCEPT ![KeyOf[r]] = r]}
      /\ taken' \in {taken, taken \cup {PaymentOf[r]}}
      /\ credited' \in {credited, [credited EXCEPT ![PaymentOf[r]] = @ + 1]}
  BY DEF RequestStep, BeforeHandler, Handler, AfterHandler, RequestFails, Verify, LogPayment,
         MarkVerified, PutObject, Track, Credit, Settle, MarkSettled, CheckSettled, MarkFailed, LogFails,
         PutFails, TrackFails, CreditFails, SettleRefused, SettleThrows, MarkSettledFails, CheckFails,
         MarkFailedFails
<1>7. s3' \in [Key -> Req \cup {NoReq}] /\ taken' \subseteq Payment
  BY <1>0, <1>6 DEF TypeOK
<1>8. credited' \in [Payment -> Nat]
  BY <1>6 DEF TypeOK
<1>9. object' \in [Key -> Rows] /\ RowsStand
  <2>1. CASE Track(r)
    <3> DEFINE k == KeyOf[r]
               o == [object[k] EXCEPT !.exists = TRUE, !.by = r, !.deleted = FALSE]
    <3>1. object' = [object EXCEPT ![k] = o]
      BY <2>1 DEF Track
    <3>2. k \in Key => o \in Rows /\ o.exists
      BY RowTouched
    <3> HIDE DEF k, o
    <3>3. k \in Key \cup {NoKey}
      BY <1>0 DEF k
    <3> QED
      BY <3>1, <3>2, <3>3, RowWritten
  <2>2. CASE UNCHANGED object
    BY <2>2 DEF TypeOK, Rows, RowsStand
  <2> QED
    BY <2>1, <2>2
       DEF RequestStep, BeforeHandler, Handler, AfterHandler, RequestFails, Verify, LogPayment,
           MarkVerified, PutObject, Credit, Settle, MarkSettled, CheckSettled, MarkFailed, LogFails,
           PutFails, TrackFails, CreditFails, SettleRefused, SettleThrows, MarkSettledFails, CheckFails,
           MarkFailedFails
<1> QED
  BY <1>1, <1>3, <1>5, <1>7, <1>8, <1>9 DEF TypeOK, Rows, Pc

\* What time, the cleaners and a restart do to the tables.
LEMMA CleanTyped ==
  ASSUME TypeOK, NEW c \in Cleaner, CleanStep(c) \/ DeleteFails(c) \/ ListFails(c)
  PROVE  TypeOK' /\ RowsStand
<1>1. UNCHANGED <<log, expired, taken, credited, req, del>> /\ faults' \in Nat
  <2>1. UNCHANGED <<log, expired, taken, credited, req, del>> /\ faults' \in {faults, faults + 1}
    BY DEF CleanStep, DeleteFails, ListFails, ListUnpaid, ListExpired, DeleteFromS3, MarkDeleted,
           CleanEnd, Fault
  <2> QED
    BY <2>1 DEF TypeOK
<1>2. s3' \in [Key -> Req \cup {NoReq}]
  <2>1. s3' = s3 \/ \E k \in Key : s3' = [s3 EXCEPT ![k] = NoReq]
    BY DEF CleanStep, DeleteFails, ListFails, ListUnpaid, ListExpired, DeleteFromS3, MarkDeleted, CleanEnd
  <2> QED
    BY <2>1 DEF TypeOK
<1>3. clean' \in [Cleaner -> Runs]
  <2>1. clean[c] \in Runs /\ clean \in [Cleaner -> Runs]
    BY DEF TypeOK, Runs
  <2>2. ASSUME NEW run \in Runs, clean' = [clean EXCEPT ![c] = run]
        PROVE  clean' \in [Cleaner -> Runs]
    BY <2>1, <2>2
  <2>3. CASE ListUnpaid(c) \/ ListExpired(c) \/ ListFails(c) \/ CleanEnd(c)
    <3>1. /\ [pc |-> "unpaid", todo |-> Unpaid, key |-> NoKey] \in Runs
          /\ [pc |-> "expired", todo |-> Overdue, key |-> NoKey] \in Runs
          /\ IdleClean \in Runs
      BY DEF Runs, Unpaid, Overdue, IdleClean
    <3> QED
      BY <2>2, <2>3, <3>1 DEF ListUnpaid, ListExpired, ListFails, CleanEnd
  <2>4. ASSUME NEW k \in Key, DeleteFromS3(c, k)
        PROVE  clean' \in [Cleaner -> Runs]
    <3> DEFINE run == [clean[c] EXCEPT !.todo = @ \ {k}, !.key = k]
    <3>1. run \in Runs
      BY <2>1 DEF Runs
    <3>2. clean' = [clean EXCEPT ![c] = run]
      BY <2>1, <2>4 DEF DeleteFromS3
    <3> QED
      BY <2>2, <3>1, <3>2
  <2>5. CASE clean' = [clean EXCEPT ![c].key = NoKey]
    <3> DEFINE run == [clean[c] EXCEPT !.key = NoKey]
    <3>1. run \in Runs
      BY <2>1 DEF Runs
    <3> QED
      BY <2>2, <2>5, <3>1
  <2>6. ASSUME NEW k \in Key, clean' = [clean EXCEPT ![c].todo = @ \ {k}]
        PROVE  clean' \in [Cleaner -> Runs]
    <3> DEFINE run == [clean[c] EXCEPT !.todo = @ \ {k}]
    <3>1. run \in Runs
      BY <2>1 DEF Runs
    <3> QED
      BY <2>2, <2>6, <3>1
  <2> QED
    BY <2>3, <2>4, <2>5, <2>6 DEF CleanStep, MarkDeleted, DeleteFails
<1>4. object' \in [Key -> Rows] /\ RowsStand
  <2>1. CASE MarkDeleted(c)
    <3> DEFINE k == clean[c].key
               o == [object[k] EXCEPT !.deleted = TRUE]
    <3>1. object' = [object EXCEPT ![k] = o] /\ k \in Key \cup {NoKey}
      BY <2>1 DEF MarkDeleted, TypeOK
    <3>2. k \in Key => o \in Rows /\ o.exists = object[k].exists
      BY RowTouched
    <3> HIDE DEF k, o
    <3> QED
      BY <3>1, <3>2, RowWritten
  <2>2. ASSUME NEW k \in Key, object' = [object EXCEPT ![k].attempts = @ + 1]
        PROVE  object' \in [Key -> Rows] /\ RowsStand
    <3> DEFINE o == [object[k] EXCEPT !.attempts = @ + 1]
    <3>1. object' = [object EXCEPT ![k] = o]
      BY <2>2
    <3>2. o \in Rows /\ o.exists = object[k].exists
      BY RowTouched
    <3> HIDE DEF o
    <3> QED
      BY <3>1, <3>2, RowWritten
  <2>3. CASE UNCHANGED object
    BY <2>3 DEF TypeOK, Rows, RowsStand
  <2> QED
    BY <2>1, <2>2, <2>3 DEF CleanStep, DeleteFails, ListFails, ListUnpaid, ListExpired, DeleteFromS3, CleanEnd
<1>5. hidden' \subseteq Req
  BY DEF CleanStep, DeleteFails, ListFails, ListUnpaid, ListExpired, DeleteFromS3, MarkDeleted, CleanEnd,
         Standing, TypeOK
<1> QED
  BY <1>1, <1>2, <1>3, <1>4, <1>5 DEF TypeOK, Rows, Runs

LEMMA DeleterTyped ==
  ASSUME TypeOK, NEW d \in Deleter, DeleteMark(d) \/ (\E k \in Key : DeleteRequest(d, k))
  PROVE  TypeOK' /\ RowsStand
<1>1. UNCHANGED <<log, expired, taken, credited, req, clean>> /\ faults' \in Nat
  BY DEF TypeOK, DeleteMark, DeleteRequest, Fault
<1>2. del[d] \in Calls /\ del \in [Deleter -> Calls] /\ hidden' \subseteq Req
  BY DEF TypeOK, Calls, DeleteMark, DeleteRequest, Standing
<1>3. CASE DeleteMark(d)
  <2> DEFINE k == del[d].key
             o == [object[k] EXCEPT !.deleted = object[k].exists]
             call == [del[d] EXCEPT !.pc = "done"]
  <2>1. call \in Calls
    BY <1>2 DEF Calls
  <2>2. del' \in [Deleter -> Calls] /\ s3' = s3
    BY <1>2, <1>3, <2>1 DEF DeleteMark
  <2>3. UNCHANGED object \/ object' = [object EXCEPT ![k] = o]
    BY <1>3 DEF DeleteMark
  <2>4. k \in Key => o \in Rows /\ o.exists = object[k].exists
    <3>1. k \in Key => object[k].exists \in BOOLEAN
      BY DEF TypeOK
    <3> QED
      BY <3>1, RowTouched
  <2>5. k \in Key \cup {NoKey}
    BY <1>2 DEF Calls
  <2> HIDE DEF k, o
  <2>6. object' \in [Key -> Rows] /\ RowsStand
    <3>1. CASE UNCHANGED object
      BY <3>1 DEF TypeOK, Rows, RowsStand
    <3>2. CASE object' = [object EXCEPT ![k] = o]
      BY <2>4, <2>5, <3>2, RowWritten
    <3> QED
      BY <2>3, <3>1, <3>2
  <2> QED
    BY <1>1, <1>2, <2>2, <2>6 DEF TypeOK, Rows, Calls
<1>4. ASSUME NEW k \in Key, DeleteRequest(d, k)
      PROVE  TypeOK' /\ RowsStand
  <2>1. [pc |-> "mark", key |-> k] \in Calls
    BY DEF Calls
  <2>2. del' \in [Deleter -> Calls] /\ s3' \in [Key -> Req \cup {NoReq}] /\ object' = object
    BY <1>2, <1>4, <2>1 DEF DeleteRequest, TypeOK
  <2> QED
    BY <1>1, <1>2, <2>2 DEF TypeOK, Rows, Calls, RowsStand
<1> QED
  BY <1>3, <1>4

LEMMA TimeTyped ==
  ASSUME TypeOK, \/ \E r \in Req : Expire(r)
                 \/ \E k \in Key : Age(k)
                 \/ Crash \/ UNCHANGED vars
  PROVE  TypeOK' /\ RowsStand
<1>1. ASSUME NEW r \in Req, Expire(r) PROVE TypeOK' /\ RowsStand
  BY <1>1 DEF Expire, TypeOK, RowsStand
<1>2. ASSUME NEW k \in Key, Age(k) PROVE TypeOK' /\ RowsStand
  <2> DEFINE o == [object[k] EXCEPT !.aged = TRUE]
  <2>1. object' = [object EXCEPT ![k] = o]
    BY <1>2 DEF Age
  <2>2. o \in Rows /\ o.exists = object[k].exists
    BY RowTouched
  <2> HIDE DEF o
  <2>3. object' \in [Key -> Rows] /\ RowsStand
    BY <2>1, <2>2, RowWritten
  <2> QED
    BY <1>2, <2>3 DEF Age, TypeOK, Rows
<1>3. CASE Crash
  <2>1. UNCHANGED <<log, object, s3, expired, taken, credited, hidden>> /\ faults' \in Nat
    BY <1>3 DEF Crash, Fault, TypeOK
  <2>2. req' \in [Req -> {"new", "done"}]
    BY <1>3 DEF Crash
  <2>3. clean' \in [Cleaner -> Runs]
    <3>1. IdleClean \in Runs
      BY DEF IdleClean, Runs
    <3> QED
      BY <1>3, <3>1 DEF Crash
  <2>4. del' \in [Deleter -> Calls]
    <3>1. ASSUME NEW d \in Deleter
          PROVE  del[d] \in Calls /\ [del[d] EXCEPT !.pc = "done"] \in Calls
      BY DEF TypeOK, Calls
    <3> QED
      BY <1>3, <3>1 DEF Crash
  <2> QED
    BY <2>1, <2>2, <2>3, <2>4 DEF TypeOK, RowsStand, Runs, Calls
<1>4. CASE UNCHANGED vars
  BY <1>4 DEF vars, TypeOK, RowsStand
<1> QED
  BY <1>1, <1>2, <1>3, <1>4

LEMMA Typed == TypeOK /\ [Next]_vars => TypeOK' /\ RowsStand
  BY RequestTyped, CleanTyped, DeleterTyped, TimeTyped DEF Next

LEMMA TypedAtStart == Init => TypeOK
  BY GatewayAssumption DEF Init, TypeOK, Status, NoObject, IdleClean

-----------------------------------------------------------------------------
(* What was paid for is there                                              *)

Late == {"settled", "check", "fail", "blind", "done"}

\* Whoever is about to be credited or settled has its row.
Tracked ==
  \A r \in Req : req[r] \in {"credit", "settle", "settled"} /\ KeyOf[r] # NoKey => object[KeyOf[r]].exists

UInv == TypeOK /\ Tracked /\ TakenForUpload

\* A step that takes no payment, or takes it for what is tracked.
LEMMA UploadsKept ==
  ASSUME UInv, RowsStand,
         \A r \in Req : req[r] \in Late => req'[r] \in Late,
         \A r \in Req : req'[r] \in {"credit", "settle", "settled"} /\ KeyOf[r] # NoKey =>
           req[r] \in {"credit", "settle", "settled"} \/ object'[KeyOf[r]].exists,
         \/ taken' = taken
         \/ \E r \in Req : /\ taken' = taken \cup {PaymentOf[r]} /\ req[r] = "settle"
                           /\ req'[r] \in {"settled", "check"}
  PROVE  Tracked' /\ TakenForUpload'
<1>1. \A r \in Req : KeyOf[r] # NoKey => KeyOf[r] \in Key
  BY GatewayAssumption
<1>2. Tracked'
  BY <1>1 DEF UInv, Tracked, RowsStand
<1>3. ASSUME NEW p \in taken
      PROVE  \E r \in Req : /\ PaymentOf[r] = p /\ req'[r] \in Late
                            /\ KeyOf[r] # NoKey => object'[KeyOf[r]].exists
  <2>1. PICK r \in Req : /\ PaymentOf[r] = p /\ req[r] \in Late
                         /\ KeyOf[r] # NoKey => object[KeyOf[r]].exists
    BY DEF UInv, TakenForUpload, Late
  <2> QED
    BY <1>1, <2>1 DEF RowsStand
<1>4. ASSUME NEW q \in Req, taken' = taken \cup {PaymentOf[q]}, req[q] = "settle",
             req'[q] \in {"settled", "check"}
      PROVE  \E r \in Req : /\ PaymentOf[r] = PaymentOf[q] /\ req'[r] \in Late
                            /\ KeyOf[r] # NoKey => object'[KeyOf[r]].exists
  BY <1>1, <1>4 DEF UInv, Tracked, RowsStand, Late
<1>5. TakenForUpload'
  BY <1>3, <1>4 DEF TakenForUpload, Late
<1> QED
  BY <1>2, <1>5

\* The steps of a request, one place to the next.
LEMMA RequestUploads ==
  ASSUME UInv, NEW r \in Req, RequestStep(r) \/ RequestFails(r), RowsStand
  PROVE  Tracked' /\ TakenForUpload'
<1>1. req \in [Req -> Pc] /\ KeyOf[r] \in Key \cup {NoKey}
  BY GatewayAssumption DEF UInv, TypeOK, Pc
<1>2. ASSUME NEW pc \in Pc, Goto(r, pc),
             req[r] \in Late => pc \in Late,
             pc \in {"credit", "settle", "settled"} /\ KeyOf[r] # NoKey =>
               req[r] \in {"credit", "settle", "settled"} \/ object'[KeyOf[r]].exists,
             \/ taken' = taken
             \/ taken' = taken \cup {PaymentOf[r]} /\ req[r] = "settle" /\ pc \in {"settled", "check"}
      PROVE  Tracked' /\ TakenForUpload'
  <2>1. req'[r] = pc /\ \A q \in Req \ {r} : req'[q] = req[q]
    BY <1>1, <1>2 DEF Goto
  <2> QED
    BY <1>2, <2>1, UploadsKept
<1>3. CASE BeforeHandler(r) \/ LogFails(r) \/ PutObject(r) \/ PutFails(r) \/ TrackFails(r)
  <2>1. PICK pc \in {"log", "done", "mark", "put", "credit", "track", "fail"} :
          Goto(r, pc) /\ (pc = "credit" => KeyOf[r] = NoKey)
    BY <1>3 DEF BeforeHandler, Verify, LogPayment, MarkVerified, LogFails, PutObject, PutFails, TrackFails
  <2>2. req[r] \in {"new", "log", "mark", "put", "track"} /\ taken' = taken
    BY <1>3 DEF BeforeHandler, Verify, LogPayment, MarkVerified, LogFails, PutObject, PutFails, TrackFails
  <2> QED
    BY <1>2, <2>1, <2>2 DEF Pc, Late
<1>4. CASE Track(r)
  <2>1. KeyOf[r] # NoKey => object'[KeyOf[r]].exists
    <3> DEFINE k == KeyOf[r]
               o == [object[k] EXCEPT !.exists = TRUE, !.by = r, !.deleted = FALSE]
    <3>1. object' = [object EXCEPT ![k] = o] /\ DOMAIN object = Key
      BY <1>4 DEF Track, UInv, TypeOK
    <3>2. k \in Key => o.exists
      BY RowTouched DEF UInv
    <3> HIDE DEF o
    <3> QED
      BY <1>1, <3>1, <3>2
  <2>2. req[r] = "track" /\ Goto(r, "credit") /\ taken' = taken
    BY <1>4 DEF Track
  <2> QED
    BY <1>2, <2>1, <2>2 DEF Pc, Late
<1>5. CASE Credit(r) \/ CreditFails(r) \/ SettleRefused(r)
  <2>1. PICK pc \in {"settle", "fail"} : Goto(r, pc)
    BY <1>5 DEF Credit, CreditFails, SettleRefused
  <2>2. req[r] \in {"credit", "settle"} /\ taken' = taken
    BY <1>5 DEF Credit, CreditFails, SettleRefused
  <2> QED
    BY <1>2, <2>1, <2>2 DEF Pc, Late
<1>6. CASE Settle(r) \/ SettleThrows(r)
  <2>1. PICK pc \in {"settled", "check"} : Goto(r, pc)
    BY <1>6 DEF Settle, SettleThrows
  <2>2. req[r] = "settle" /\ taken' \in {taken, taken \cup {PaymentOf[r]}}
    BY <1>6 DEF Settle, SettleThrows
  <2> QED
    BY <1>2, <2>1, <2>2 DEF Pc, Late
<1>7. CASE MarkSettled(r) \/ MarkSettledFails(r) \/ CheckSettled(r) \/ CheckFails(r) \/ MarkFailed(r) \/ MarkFailedFails(r)
  <2>1. PICK pc \in {"check", "fail", "blind", "done"} : Goto(r, pc)
    BY <1>7 DEF MarkSettled, MarkSettledFails, CheckSettled, CheckFails, MarkFailed, MarkFailedFails
  <2>2. taken' = taken
    BY <1>7 DEF MarkSettled, MarkSettledFails, CheckSettled, CheckFails, MarkFailed, MarkFailedFails
  <2> QED
    BY <1>2, <2>1, <2>2 DEF Pc, Late
<1> QED
  BY <1>3, <1>4, <1>5, <1>6, <1>7 DEF RequestStep, RequestFails, Handler, AfterHandler

LEMMA UploadsStep == UInv /\ [Next]_vars => UInv'
<1> SUFFICES ASSUME UInv, [Next]_vars PROVE UInv'
  OBVIOUS
<1>1. TypeOK' /\ RowsStand
  BY Typed DEF UInv
<1>2. ASSUME NEW r \in Req, RequestStep(r) \/ RequestFails(r) PROVE Tracked' /\ TakenForUpload'
  BY <1>1, <1>2, RequestUploads
<1>3. ASSUME UNCHANGED <<req, taken>> PROVE Tracked' /\ TakenForUpload'
  BY <1>1, <1>3, UploadsKept
<1>4. ASSUME Crash PROVE Tracked' /\ TakenForUpload'
  <2>1. taken' = taken /\ \A r \in Req : req'[r] = IF req[r] = "new" THEN "new" ELSE "done"
    BY <1>4 DEF Crash
  <2> QED
    BY <1>1, <2>1, UploadsKept DEF Late
<1>5. ASSUME NEW r \in Req, Expire(r) PROVE UNCHANGED <<req, taken>>
  BY <1>5 DEF Expire
<1>6. ASSUME NEW k \in Key, Age(k) PROVE UNCHANGED <<req, taken>>
  BY <1>6 DEF Age
<1>7. ASSUME NEW c \in Cleaner, CleanStep(c) \/ DeleteFails(c) \/ ListFails(c) PROVE UNCHANGED <<req, taken>>
  BY <1>7 DEF CleanStep, ListUnpaid, ListExpired, MarkDeleted, CleanEnd, DeleteFromS3, DeleteFails, ListFails
<1>8. ASSUME NEW d \in Deleter, DeleteMark(d) \/ (\E k \in Key : DeleteRequest(d, k)) PROVE UNCHANGED <<req, taken>>
  BY <1>8 DEF DeleteMark, DeleteRequest
<1>9. UNCHANGED vars => UNCHANGED <<req, taken>>
  BY DEF vars
<1>10. Tracked' /\ TakenForUpload'
  BY <1>2, <1>3, <1>4, <1>5, <1>6, <1>7, <1>8, <1>9 DEF Next
<1> QED
  BY <1>1, <1>10 DEF UInv

\* Every variable keeps its type.
THEOREM TypeCorrect == Spec => []TypeOK
<1>1. TypeOK /\ [Next]_vars => TypeOK'
  BY Typed
<1> QED
  BY <1>1, TypedAtStart, PTL DEF Spec

\* A payment is taken only for a top-up, or for an object that has been tracked, whatever
\* fails and whenever the gateway stops (middleware/x402Payment.ts, routes/s3Proxy.ts).
THEOREM TakenForTracked == Spec => []TakenForUpload
<1>1. Init => UInv
  BY TypedAtStart DEF Init, UInv, Tracked, TakenForUpload
<1>2. UInv => TakenForUpload
  BY DEF UInv
<1> QED
  BY <1>1, <1>2, UploadsStep, PTL DEF Spec
=============================================================================
