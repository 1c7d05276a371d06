----------------------------- MODULE X402Gateway -----------------------------
(***************************************************************************)
(* The x402 gateway (x402-skale): uploads and credit top-ups paid by a     *)
(* signed payment (middleware/x402Payment.ts around routes/s3Proxy.ts),    *)
(* the tables x402_payment_logs and x402_ephemeral_objects, and the        *)
(* cleanup of expired and unpaid objects (services/cleanup.ts).            *)
(*                                                                         *)
(* The facilitator that moves the money, the S3 backend and the pinning    *)
(* service that keeps the credits are remote: a call of any of them can    *)
(* take effect and still be seen to fail.                                  *)
(***************************************************************************)
EXTENDS Integers, FiniteSets

CONSTANTS
  Req,            \* PUT and POST /credit requests, each sent once
  NoReq,
  Payment,        \* payment ids
  PaymentOf,      \* the payment a request carries; a retry carries the same
  Key, NoKey,     \* bucket/key pairs
  KeyOf,          \* the object a request uploads; NoKey for POST /credit
  Cleaner,        \* runs of cleanup: the timer's and POST /admin/cleanup's
  Cron,           \* the cleaner that is the timer's
  Deleter,        \* DELETE requests
  MaxAttempts,    \* the 5 of delete_attempts < 5
  LostReplies,    \* whether the facilitator's reply to a settlement can be lost
  MaxFaults       \* bound: failed calls and crashes

ASSUME GatewayAssumption ==
  /\ NoReq \notin Req /\ NoKey \notin Key
  /\ PaymentOf \in [Req -> Payment]
  /\ KeyOf \in [Req -> Key \cup {NoKey}]
  /\ Cron \in Cleaner
  /\ MaxAttempts \in Nat \ {0} /\ MaxFaults \in Nat
  /\ LostReplies \in BOOLEAN

VARIABLES
  log,        \* x402_payment_logs.status
  object,     \* x402_ephemeral_objects: the row of a key
  s3,         \* the upload each key holds
  expired,    \* uploads whose TTL has passed
  taken,      \* payments the facilitator has settled
  credited,   \* how often a payment was credited in the pinning service
  req,        \* where each request is
  clean,      \* the cleaners
  del,        \* the DELETE requests
  hidden,     \* history: uploads in S3 whose row was marked deleted
  faults

vars == <<log, object, s3, expired, taken, credited, req, clean, del, hidden, faults>>

NoObject == [exists |-> FALSE, by |-> NoReq, deleted |-> FALSE, attempts |-> 0, aged |-> FALSE]
IdleClean == [pc |-> "idle", todo |-> {}, key |-> NoKey]

Init ==
  /\ log      = [p \in Payment |-> "none"]
  /\ object   = [k \in Key |-> NoObject]
  /\ s3       = [k \in Key |-> NoReq]
  /\ expired  = {} /\ taken = {}
  /\ credited = [p \in Payment |-> 0]
  /\ req      = [r \in Req |-> "new"]
  /\ clean    = [c \in Cleaner |-> IdleClean]
  /\ del      = [d \in Deleter |-> [pc |-> "new", key |-> NoKey]]
  /\ hidden = {} /\ faults = 0

Fault == faults < MaxFaults /\ faults' = faults + 1
Goto(r, pc) == req' = [req EXCEPT ![r] = pc]

-----------------------------------------------------------------------------
(* The payment middleware before the handler                               *)

\* The facilitator finds the payment valid, or not (402).
Verify(r) ==
  /\ req[r] = "new"
  /\ \E pc \in {"log", "done"} : Goto(r, pc)
  /\ UNCHANGED <<log, object, s3, expired, taken, credited, clean, del, hidden, faults>>

\* Mutant: a payment id seen before is let through.
LogAgain(r) ==
  /\ req[r] = "log"
  /\ log' = [log EXCEPT ![PaymentOf[r]] = "pending"] /\ Goto(r, "mark")
  /\ UNCHANGED <<object, s3, expired, taken, credited, clean, del, hidden, faults>>

\* createPaymentLog: payment_id is unique, a second request with it gets 402.
LogPayment(r) ==
  /\ req[r] = "log"
  /\ IF log[PaymentOf[r]] = "none"
     THEN log' = [log EXCEPT ![PaymentOf[r]] = "pending"] /\ Goto(r, "mark")
     ELSE Goto(r, "done") /\ UNCHANGED log
  /\ UNCHANGED <<object, s3, expired, taken, credited, clean, del, hidden, faults>>

MarkVerified(r) ==
  /\ req[r] = "mark"
  /\ log' = [log EXCEPT ![PaymentOf[r]] = "verified"]
  /\ Goto(r, IF KeyOf[r] = NoKey THEN "credit" ELSE "put")
  /\ UNCHANGED <<object, s3, expired, taken, credited, clean, del, hidden, faults>>

\* Either statement fails: 402, and the handler does not run.
LogFails(r) ==
  /\ req[r] \in {"log", "mark"} /\ Fault
  /\ Goto(r, "done")
  /\ UNCHANGED <<log, object, s3, expired, taken, credited, clean, del, hidden>>

-----------------------------------------------------------------------------
(* The handlers                                                            *)

\* ensureWalletUserAndGetApiKey and the PUT to S3.
PutObject(r) ==
  /\ req[r] = "put"
  /\ s3' = [s3 EXCEPT ![KeyOf[r]] = r] /\ Goto(r, "track")
  /\ UNCHANGED <<log, object, expired, taken, credited, clean, del, hidden, faults>>

\* The user's key or the upload fails: an answer other than 2xx.
PutFails(r) ==
  /\ req[r] = "put" /\ Fault
  /\ s3' \in {s3, [s3 EXCEPT ![KeyOf[r]] = r]} /\ Goto(r, "fail")
  /\ UNCHANGED <<log, object, expired, taken, credited, clean, del, hidden>>

\* The upsert gives the row the new payment and expiry and clears the
\* deletion; created_at and delete_attempts stay.
Track(r) ==
  /\ req[r] = "track"
  /\ object' = [object EXCEPT ![KeyOf[r]] = [@ EXCEPT !.exists = TRUE, !.by = r, !.deleted = FALSE]]
  /\ Goto(r, "credit")
  /\ UNCHANGED <<log, s3, expired, taken, credited, clean, del, hidden, faults>>

TrackFails(r) ==
  /\ req[r] = "track" /\ Fault
  /\ Goto(r, "fail")
  /\ UNCHANGED <<log, object, s3, expired, taken, credited, clean, del, hidden>>

\* adjustPinningCredits; the handlers go on whatever it answers.
Credit(r) ==
  /\ req[r] = "credit"
  /\ credited' = [credited EXCEPT ![PaymentOf[r]] = @ + 1] /\ Goto(r, "settle")
  /\ UNCHANGED <<log, object, s3, expired, taken, clean, del, hidden, faults>>

\* The adjustment fails, or only its answer is lost; POST /credit can also
\* fail to find the user's account, which ends it with an error.
CreditFails(r) ==
  /\ req[r] = "credit" /\ Fault
  /\ \/ /\ credited' \in {credited, [credited EXCEPT ![PaymentOf[r]] = @ + 1]}
        /\ Goto(r, "settle")
     \/ KeyOf[r] = NoKey /\ Goto(r, "fail") /\ UNCHANGED credited
  /\ UNCHANGED <<log, object, s3, expired, taken, clean, del, hidden>>

\* Mutant: the payment is settled whatever the handler answered.
SettleAnyway(r) ==
  /\ req[r] \in {"settle", "fail"}
  /\ taken' = taken \cup {PaymentOf[r]} /\ Goto(r, "settled")
  /\ UNCHANGED <<log, object, s3, expired, credited, clean, del, hidden, faults>>

-----------------------------------------------------------------------------
(* The payment middleware after the handler                                *)

Settle(r) ==
  /\ req[r] = "settle"
  /\ taken' = taken \cup {PaymentOf[r]} /\ Goto(r, "settled")
  /\ UNCHANGED <<log, object, s3, expired, credited, clean, del, hidden, faults>>

\* The facilitator refuses (success: false).
SettleRefused(r) ==
  /\ req[r] = "settle" /\ Fault
  /\ Goto(r, "fail")
  /\ UNCHANGED <<log, object, s3, expired, taken, credited, clean, del, hidden>>

\* settleWithFacilitator throws: the circuit is open, the call timed out, the
\* answer was not 200.  The facilitator may have settled all the same.
SettleThrows(r) ==
  /\ req[r] = "settle" /\ Fault
  /\ taken' \in {taken} \cup {t \in {taken \cup {PaymentOf[r]}} : LostReplies}
  /\ Goto(r, "check")
  /\ UNCHANGED <<log, object, s3, expired, credited, clean, del, hidden>>

\* markPaymentSettled and the X-PAYMENT-RESPONSE header; an error in either
\* is caught by the same catch.
MarkSettled(r) ==
  /\ req[r] = "settled"
  /\ log' = [log EXCEPT ![PaymentOf[r]] = "settled"]
  /\ \/ Goto(r, "done") /\ UNCHANGED faults
     \/ Goto(r, "check") /\ Fault
  /\ UNCHANGED <<object, s3, expired, taken, credited, clean, del, hidden>>

MarkSettledFails(r) ==
  /\ req[r] = "settled" /\ Fault
  /\ Goto(r, "check")
  /\ UNCHANGED <<log, object, s3, expired, taken, credited, clean, del, hidden>>

\* "Check if payment was actually settled despite network error": only the
\* gateway's own log is asked.
CheckSettled(r) ==
  /\ req[r] = "check"
  /\ Goto(r, IF log[PaymentOf[r]] = "settled" THEN "done" ELSE "fail")
  /\ UNCHANGED <<log, object, s3, expired, taken, credited, clean, del, hidden, faults>>

\* "ignore check failure": the payment is marked as failed without a look.
CheckFails(r) ==
  /\ req[r] = "check" /\ Fault
  /\ Goto(r, "blind")
  /\ UNCHANGED <<log, object, s3, expired, taken, credited, clean, del, hidden>>

MarkFailed(r) ==
  /\ req[r] \in {"fail", "blind"}
  /\ log' = [log EXCEPT ![PaymentOf[r]] = "failed"] /\ Goto(r, "done")
  /\ UNCHANGED <<object, s3, expired, taken, credited, clean, del, hidden, faults>>

MarkFailedFails(r) ==
  /\ req[r] \in {"fail", "blind"} /\ Fault
  /\ Goto(r, "done")
  /\ UNCHANGED <<log, object, s3, expired, taken, credited, clean, del, hidden>>

-----------------------------------------------------------------------------
(* Time                                                                    *)

\* The TTL of an upload passes.
Expire(r) ==
  /\ KeyOf[r] # NoKey /\ req[r] \notin {"new", "log", "mark", "put"} /\ r \notin expired
  /\ expired' = expired \cup {r}
  /\ UNCHANGED <<log, object, s3, taken, credited, req, clean, del, hidden, faults>>

\* The row becomes older than cleanupUnpaidThresholdMinutes, which is longer
\* than any request takes.
Age(k) ==
  /\ object[k].exists /\ ~object[k].aged
  /\ \A r \in Req : KeyOf[r] = k => req[r] \in {"new", "done"}
  /\ object' = [object EXCEPT ![k].aged = TRUE]
  /\ UNCHANGED <<log, s3, expired, taken, credited, req, clean, del, hidden, faults>>

-----------------------------------------------------------------------------
(* Cleanup                                                                 *)

\* The rows the queries may return: the batch limits of 50 and 100 are larger
\* than the instances.
Active(k) == object[k].exists /\ ~object[k].deleted /\ object[k].attempts < MaxAttempts

\* Mutant: rows whose deletion failed before are left out.
OverdueOnce == {k \in Key : Active(k) /\ object[k].attempts = 0 /\ object[k].by \in expired}

\* getExpiredObjects.
Overdue == {k \in Key : Active(k) /\ object[k].by \in expired}

\* getUnpaidExpiredObjects.
Unpaid == {k \in Key : Active(k) /\ object[k].aged
                        /\ log[PaymentOf[object[k].by]] \in {"none", "pending", "failed"}}

\* getUnpaidExpiredObjects, by the timer only (isRunning keeps its runs
\* apart); getExpiredObjects, by both.  The lists are read once.
ListUnpaid(c) ==
  /\ c = Cron /\ clean[c].pc = "idle"
  /\ clean' = [clean EXCEPT ![c] = [pc |-> "unpaid", todo |-> Unpaid, key |-> NoKey]]
  /\ UNCHANGED <<log, object, s3, expired, taken, credited, req, del, hidden, faults>>

ListExpired(c) ==
  /\ \/ c = Cron /\ clean[c].pc = "unpaid" /\ clean[c].todo = {} /\ clean[c].key = NoKey
     \/ c # Cron /\ clean[c].pc = "idle"
  /\ clean' = [clean EXCEPT ![c] = [pc |-> "expired", todo |-> Overdue, key |-> NoKey]]
  /\ UNCHANGED <<log, object, s3, expired, taken, credited, req, del, hidden, faults>>

\* The upload that stands under k, with the row of k as its own: a mark meant
\* for an earlier upload hides it from the cleanup.
Standing(k) == {r \in Req : s3[k] = r /\ object[k].by = r}

\* deleteObjectFromS3, by name; then markObjectDeleted, by id, which a later
\* upload of the key keeps.
DeleteFromS3(c, k) ==
  /\ clean[c].key = NoKey /\ k \in clean[c].todo
  /\ s3' = [s3 EXCEPT ![k] = NoReq]
  /\ clean' = [clean EXCEPT ![c].todo = @ \ {k}, ![c].key = k]
  /\ UNCHANGED <<log, object, expired, taken, credited, req, del, hidden, faults>>

MarkDeleted(c) ==
  /\ clean[c].key # NoKey
  /\ object' = [object EXCEPT ![clean[c].key].deleted = TRUE]
  /\ hidden' = hidden \cup Standing(clean[c].key)
  /\ clean' = [clean EXCEPT ![c].key = NoKey]
  /\ UNCHANGED <<log, s3, expired, taken, credited, req, del, faults>>

\* The deletion fails, or its marking: one attempt more, unless that is not
\* written either.  A query for a list fails: the run is over.
DeleteFails(c) ==
  /\ Fault
  /\ \E k \in Key :
       /\ \/ clean[c].key = NoKey /\ k \in clean[c].todo
             /\ clean' = [clean EXCEPT ![c].todo = @ \ {k}]
          \/ clean[c].key = k /\ clean' = [clean EXCEPT ![c].key = NoKey]
       /\ object' \in {object, [object EXCEPT ![k].attempts = @ + 1]}
  /\ UNCHANGED <<log, s3, expired, taken, credited, req, del, hidden>>

ListFails(c) ==
  /\ clean[c].pc = "unpaid" /\ clean[c].todo = {} /\ clean[c].key = NoKey /\ Fault
  /\ clean' = [clean EXCEPT ![c] = IdleClean]
  /\ UNCHANGED <<log, object, s3, expired, taken, credited, req, del, hidden>>

CleanEnd(c) ==
  /\ clean[c].pc = "expired" /\ clean[c].todo = {} /\ clean[c].key = NoKey
  /\ clean' = [clean EXCEPT ![c] = IdleClean]
  /\ UNCHANGED <<log, object, s3, expired, taken, credited, req, del, hidden, faults>>

-----------------------------------------------------------------------------
(* DELETE /:bucket/:key                                                    *)

DeleteRequest(d, k) ==
  /\ del[d].pc = "new" /\ s3[k] # NoReq
  /\ s3' = [s3 EXCEPT ![k] = NoReq]
  /\ del' = [del EXCEPT ![d] = [pc |-> "mark", key |-> k]]
  /\ UNCHANGED <<log, object, expired, taken, credited, req, clean, hidden, faults>>

\* markObjectDeletedByKey, "best effort".
DeleteMark(d) ==
  /\ del[d].pc = "mark"
  /\ del' = [del EXCEPT ![d].pc = "done"]
  /\ \/ /\ object' = [object EXCEPT ![del[d].key].deleted = object[del[d].key].exists]
        /\ hidden' = hidden \cup Standing(del[d].key)
        /\ UNCHANGED faults
     \/ Fault /\ UNCHANGED <<object, hidden>>
  /\ UNCHANGED <<log, s3, expired, taken, credited, req, clean>>

-----------------------------------------------------------------------------
\* The gateway stops in the middle of everything.
Crash ==
  /\ Fault
  /\ req' = [r \in Req |-> IF req[r] = "new" THEN "new" ELSE "done"]
  /\ clean' = [c \in Cleaner |-> IdleClean]
  /\ del' = [d \in Deleter |-> IF del[d].pc = "new" THEN del[d] ELSE [del[d] EXCEPT !.pc = "done"]]
  /\ UNCHANGED <<log, object, s3, expired, taken, credited, hidden>>

BeforeHandler(r) == Verify(r) \/ LogPayment(r) \/ MarkVerified(r)
Handler(r)       == PutObject(r) \/ Track(r) \/ Credit(r)
AfterHandler(r)  == Settle(r) \/ MarkSettled(r) \/ CheckSettled(r) \/ MarkFailed(r)
RequestStep(r)   == BeforeHandler(r) \/ Handler(r) \/ AfterHandler(r)
RequestFails(r)  == LogFails(r) \/ PutFails(r) \/ TrackFails(r) \/ CreditFails(r)
                    \/ SettleRefused(r) \/ SettleThrows(r) \/ MarkSettledFails(r) \/ CheckFails(r)
                    \/ MarkFailedFails(r)
CleanStep(c)     == ListUnpaid(c) \/ ListExpired(c) \/ MarkDeleted(c) \/ CleanEnd(c)
                    \/ \E k \in Key : DeleteFromS3(c, k)

Next ==
  \/ \E r \in Req : RequestStep(r) \/ RequestFails(r) \/ Expire(r)
  \/ \E k \in Key : Age(k)
  \/ \E c \in Cleaner : CleanStep(c) \/ DeleteFails(c) \/ ListFails(c)
  \/ \E d \in Deleter : DeleteMark(d) \/ \E k \in Key : DeleteRequest(d, k)
  \/ Crash

Spec == Init /\ [][Next]_vars

\* The process runs its handlers, and the timer fires every minute.
Fairness ==
  /\ \A r \in Req : WF_vars(RequestStep(r))
  /\ WF_vars(CleanStep(Cron))
  /\ \A d \in Deleter : WF_vars(DeleteMark(d))

FairSpec == Spec /\ Fairness

-----------------------------------------------------------------------------
(* Properties                                                              *)

Status == {"none", "pending", "verified", "settled", "failed"}

\* Every variable has its type.
TypeOK ==
  /\ log \in [Payment -> Status]
  /\ object \in [Key -> [exists : BOOLEAN, by : Req \cup {NoReq}, deleted : BOOLEAN,
                         attempts : Nat, aged : BOOLEAN]]
  /\ s3 \in [Key -> Req \cup {NoReq}]
  /\ expired \subseteq Req /\ taken \subseteq Payment
  /\ credited \in [Payment -> Nat]
  /\ req \in [Req -> {"new", "log", "mark", "put", "track", "credit", "settle", "settled",
                      "check", "fail", "blind", "done"}]
  /\ clean \in [Cleaner -> [pc : {"idle", "unpaid", "expired"}, todo : SUBSET Key,
                            key : Key \cup {NoKey}]]
  /\ del \in [Deleter -> [pc : {"new", "mark", "done"}, key : Key \cup {NoKey}]]
  /\ hidden \subseteq Req /\ faults \in Nat

InHandler(r) == req[r] \in {"mark", "put", "track", "credit", "settle", "settled", "check", "fail", "blind"}

\* A payment buys one upload or top-up: however often it is sent, one request
\* with it gets past the log, and it is credited at most once, though the
\* money moves only after the handler.
PaymentSpentOnce ==
  \A p \in Payment :
    /\ credited[p] <= 1
    /\ \A q, r \in Req : PaymentOf[q] = p /\ PaymentOf[r] = p /\ InHandler(q) /\ InHandler(r) => q = r

\* What the log calls settled was settled, and what was settled had been
\* logged as verified before.
LogHonest ==
  /\ \A p \in Payment : log[p] = "settled" => p \in taken
  /\ \A p \in taken : log[p] \notin {"none", "pending"}

\* "If upload fails: your funds are not transferred": a payment is taken only
\* for a top-up or for an object that has been tracked.
TakenForUpload ==
  \A p \in taken : \E r \in Req :
    /\ PaymentOf[r] = p /\ req[r] \in {"settled", "check", "fail", "blind", "done"}
    /\ KeyOf[r] # NoKey => object[KeyOf[r]].exists

\* "Content is available until TTL expires" (docs/x402-developers/download.md):
\* an upload whose payment was taken stays in S3 until its TTL passes or a
\* client deletes or replaces it. Does not hold (README, section 8).
Removed(k, r) == s3[k] = r /\ s3'[k] = NoReq /\ req[r] = "done" /\ r \notin expired /\ del' = del
PaidObjectsKept ==
  [][\A k \in Key, r \in Req : Removed(k, r) => PaymentOf[r] \notin taken]_vars

Overstays(k, r) == s3[k] = r /\ object[k].by = r /\ r \in expired /\ req[r] = "done"
GivenUp(k) == object[k].attempts >= MaxAttempts

\* An expired upload is gone in the end, though its key is uploaded again,
\* deletions fail and the gateway restarts: unless another upload took its row,
\* MaxAttempts deletions of the key failed, or a mark meant for the upload
\* before it hid its row.
ExpiredIsDeleted ==
  \A k \in Key, r \in Req :
    Overstays(k, r) ~> ~Overstays(k, r) \/ GivenUp(k) \/ r \in hidden

\* "Automatic cleanup after TTL expires" (x402-skale/README.md): the same with
\* no mark excepted. Does not hold either.
ExpiredIsGone == \A k \in Key, r \in Req : Overstays(k, r) ~> ~Overstays(k, r) \/ GivenUp(k)
=============================================================================
