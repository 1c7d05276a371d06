------------------------------- MODULE AiJobs --------------------------------
(***************************************************************************)
(* Paid jobs of the AI service (ai/src): websites (routes/generate.ts,     *)
(* generationService.ts) and social posts (routes/social.ts,               *)
(* socialService.ts), each with a row, a pool of workers and a queue in    *)
(* memory, and credits taken and given back by calls to the web UI server  *)
(* (creditService.ts). The process stops and starts again; only social     *)
(* posts have a reaper at boot. One user, who pays one unit for a job.     *)
(*                                                                         *)
(* The service runs as one process that is restarted (Restart=always), but *)
(* a process told to stop finishes its requests and jobs while the next    *)
(* one may boot: "a straggling executor from a previous process".          *)
(*                                                                         *)
(* Work may fail at any time, so the abort signals need no state.          *)
(***************************************************************************)
EXTENDS Integers, Sequences, FiniteSets

CONSTANTS
  Req,            \* requests; each that is not a replay has a job of its own
  Key,            \* Idempotency-Keys
  Website,        \* what a request asks for: a website,
  NoKey,          \* a social post without a key, or a post with one of Key
  Mixes,          \* the mixes of requests the users may send
  MaxConcurrent,  \* workers of a pool
  MaxQueued,      \* MAX_QUEUED_SOCIAL_JOBS
  FreeSites,      \* freeGenerationsPerUser
  Initial,        \* the user's credits
  MaxBoots,       \* bound: processes
  MaxFaults       \* bound: calls and statements that fail

ASSUME JobsAssumption ==
  /\ NoKey \notin Key /\ Website \notin Key /\ Website # NoKey
  /\ Mixes \subseteq [Req -> Key \cup {Website, NoKey}]
  /\ MaxConcurrent \in Nat \ {0} /\ MaxQueued \in Nat /\ FreeSites \in Nat
  /\ Initial \in Nat /\ MaxBoots \in Nat \ {0} /\ MaxFaults \in Nat

VARIABLES
  asks,     \* what each request asks for
  req,      \* where the handler of each request is, and the process it runs in
  row,      \* status of the job's row
  free,     \* jobs with credits_charged = 0
  exec,     \* where the job's executor is
  queue,    \* the queues of each process: of websites and of social posts
  proc,     \* the processes
  reap,     \* rows flipped by the boot reaper whose refund is still to come
  balance,  \* the user's credits
  paid,     \* what each request has taken from the user, net of refunds
  hit,      \* requests whose money a failed call or a death leaves to a person
  faults

vars == <<asks, req, row, free, exec, queue, proc, reap, balance, paid, hit, faults>>
workers == <<asks, exec, queue, proc, reap>>
handlers == <<asks, req, free, proc, reap>>

Proc == 1..MaxBoots
Site == {r \in Req : asks[r] = Website}
Social == Req \ Site
Open == {"pending", "generating", "publishing"}

Init ==
  /\ asks \in Mixes
  /\ req     = [r \in Req |-> [pc |-> "new", at |-> 1]]
  /\ row     = [r \in Req |-> "none"]
  /\ free    = {}
  /\ exec    = [r \in Req |-> "none"]
  /\ queue   = [i \in Proc |-> [site |-> <<>>, social |-> <<>>]]
  /\ proc    = [i \in Proc |-> IF i = 1 THEN "up" ELSE "off"]
  /\ reap    = {}
  /\ balance = Initial
  /\ paid    = [r \in Req |-> 0]
  /\ hit     = {}
  /\ faults  = 0

Pool(r) == IF r \in Site THEN "site" ELSE "social"
At(r, pc) == req[r].pc = pc
Goto(r, pc) == req' = [req EXCEPT ![r].pc = pc]
Fault(r) == faults < MaxFaults /\ faults' = faults + 1 /\ hit' = hit \cup {r}
NoFault == UNCHANGED <<hit, faults>>
Take(r) == balance' = balance - 1 /\ paid' = [paid EXCEPT ![r] = @ + 1]
Give(r) == balance' = balance + 1 /\ paid' = [paid EXCEPT ![r] = @ - 1]
NoMoney == UNCHANGED <<balance, paid>>

\* An adjustment that fails or times out: it may have been made all the same.
TakeOrNot(r) == Take(r) \/ NoMoney
GiveOrNot(r) == Give(r) \/ NoMoney

-----------------------------------------------------------------------------
(* The handlers of POST /generate and POST /social/generate                *)

SameKey(r) == {s \in Req \ {r} : row[s] # "none" /\ asks[s] = asks[r] /\ asks[r] \in Key}
FreeDone == {s \in Site \cap free : row[s] = "completed"}

\* Validation, the rate limit, or a base that cannot be revised.
Refuse(r, i) ==
  /\ At(r, "new") /\ proc[i] = "up"
  /\ req' = [req EXCEPT ![r] = [pc |-> "refused", at |-> i]]
  /\ UNCHANGED <<row, free, workers, balance, paid, hit, faults>>

\* The idempotency lookup of a social post.
Arrive(r, i) ==
  /\ At(r, "new") /\ proc[i] = "up" /\ r \in Social
  /\ req' = [req EXCEPT ![r] = [pc |-> IF SameKey(r) # {} THEN "replayed" ELSE "deduct", at |-> i]]
  /\ UNCHANGED <<row, free, workers, balance, paid, hit, faults>>

\* The free tier of websites.
ArriveSite(r, i) ==
  /\ At(r, "new") /\ proc[i] = "up" /\ r \in Site
  /\ IF Cardinality(FreeDone) < FreeSites
     THEN free' = free \cup {r} /\ req' = [req EXCEPT ![r] = [pc |-> "insert", at |-> i]]
     ELSE UNCHANGED free /\ req' = [req EXCEPT ![r] = [pc |-> "deduct", at |-> i]]
  /\ UNCHANGED <<row, workers, balance, paid, hit, faults>>

Deduct(r) ==
  /\ At(r, "deduct") /\ Take(r)
  /\ Goto(r, IF balance' < 0 THEN "reverse" ELSE "insert")
  /\ UNCHANGED <<row, free, workers, hit, faults>>

DeductFails(r) ==
  /\ At(r, "deduct") /\ Fault(r) /\ TakeOrNot(r) /\ Goto(r, "failed")
  /\ UNCHANGED <<row, free, workers>>

ReverseDeduct(r) ==
  /\ At(r, "reverse") /\ Goto(r, "refused")
  /\ (Give(r) /\ NoFault) \/ (GiveOrNot(r) /\ Fault(r))
  /\ UNCHANGED <<row, free, workers>>

\* createGeneration and createSocialPost; the row is there before the answer.
Insert(r) ==
  /\ At(r, "insert") /\ SameKey(r) = {}
  /\ row' = [row EXCEPT ![r] = "pending"] /\ Goto(r, "start")
  /\ UNCHANGED <<free, workers, balance, paid, hit, faults>>

\* Unique violation: a request with the same key was first.
InsertRaces(r) ==
  /\ At(r, "insert") /\ SameKey(r) # {}
  /\ Goto(r, "race")
  /\ UNCHANGED <<row, free, workers, balance, paid, hit, faults>>

\* The INSERT fails, or only its answer is lost.
InsertFails(r) ==
  /\ At(r, "insert") /\ Fault(r) /\ Goto(r, "unwind")
  /\ \/ UNCHANGED row
     \/ SameKey(r) = {} /\ row' = [row EXCEPT ![r] = "pending"]
  /\ UNCHANGED <<free, workers, balance, paid>>

\* Mutant: the loser of the race is not given its credits back.
RefundUnlessRaced(r) ==
  /\ req[r].pc \in {"unwind", "race", "shed"}
  /\ Goto(r, IF At(r, "race") THEN "replayed" ELSE "failed")
  /\ IF r \in free \/ At(r, "race") THEN NoMoney /\ NoFault
     ELSE (Give(r) /\ NoFault) \/ (GiveOrNot(r) /\ Fault(r))
  /\ UNCHANGED <<row, free, workers>>

\* The handler's refund, once per request.
refundThisRequest(r) ==
  /\ req[r].pc \in {"unwind", "race", "shed"}
  /\ Goto(r, IF At(r, "race") THEN "replayed" ELSE "failed")
  /\ IF r \in free THEN NoMoney /\ NoFault
     ELSE (Give(r) /\ NoFault) \/ (GiveOrNot(r) /\ Fault(r))
  /\ UNCHANGED <<row, free, workers>>

\* The status statements of a post find only a row that is open.
SetRow(r, status) == [row EXCEPT ![r] = IF r \in Site \/ @ \in Open THEN status ELSE @]

Running == {"load", "generate", "complete", "fail", "refund"}
Active(i, k) == {s \in Req : req[s].at = i /\ Pool(s) = k /\ exec[s] \in Running}
Queued(r) == queue[req[r].at][Pool(r)]
Saturated(r) == r \in Social /\ Len(Queued(r)) >= MaxQueued

\* startGeneration, and startSocialJob with room in the queue.
Start(r) ==
  /\ At(r, "start") /\ ~Saturated(r) /\ Goto(r, "accepted")
  /\ IF Cardinality(Active(req[r].at, Pool(r))) >= MaxConcurrent
     THEN /\ queue' = [queue EXCEPT ![req[r].at][Pool(r)] = Append(@, r)]
          /\ exec' = [exec EXCEPT ![r] = "queued"]
     ELSE exec' = [exec EXCEPT ![r] = "load"] /\ UNCHANGED queue
  /\ UNCHANGED <<asks, row, free, proc, reap, balance, paid, hit, faults>>

\* The queue is full: the row is failed, whoever flipped it, then the refund.
Shed(r) ==
  /\ At(r, "start") /\ Saturated(r)
  /\ row' = SetRow(r, "error") /\ Goto(r, "shed")
  /\ UNCHANGED <<free, workers, balance, paid, hit, faults>>

\* failSocialPost throws: the request ends without a refund.
ShedFails(r) ==
  /\ At(r, "start") /\ Saturated(r) /\ Fault(r) /\ Goto(r, "failed")
  /\ row' \in {row, SetRow(r, "error")}
  /\ UNCHANGED <<free, workers, balance, paid>>

-----------------------------------------------------------------------------
(* The executors of the jobs, and the pools they run in                    *)

\* Mutant: a worker that ends does not look at the queue.
FinishIdle(r) == exec' = [exec EXCEPT ![r] = "done"] /\ UNCHANGED queue

\* The worker is free, and takes the next job of its queue.
Finish(r) ==
  LET q == Queued(r) IN
  IF q = <<>> \/ Cardinality(Active(req[r].at, Pool(r)) \ {r}) >= MaxConcurrent
  THEN exec' = [exec EXCEPT ![r] = "done"] /\ UNCHANGED queue
  ELSE /\ exec' = [exec EXCEPT ![r] = "done", ![Head(q)] = "load"]
       /\ queue' = [queue EXCEPT ![req[r].at][Pool(r)] = Tail(q)]

Become(r, step) == exec' = [exec EXCEPT ![r] = step] /\ UNCHANGED queue

Load(r) ==
  /\ exec[r] = "load" /\ row' = SetRow(r, "generating") /\ Become(r, "generate")
  /\ NoMoney /\ NoFault /\ UNCHANGED handlers

\* The status is written when the work is done and the upload begins.
Publish(r) ==
  /\ exec[r] = "generate"
  /\ row' = SetRow(r, "publishing") /\ Become(r, "complete")
  /\ NoMoney /\ NoFault /\ UNCHANGED handlers

\* Generation fails, is aborted by the job's timeout or a shutdown, or a
\* statement before it throws.
WorkFails(r) ==
  /\ exec[r] \in {"load", "generate"}
  /\ Become(r, "fail") /\ UNCHANGED row
  /\ NoMoney /\ NoFault /\ UNCHANGED handlers

Complete(r) ==
  /\ exec[r] = "complete" /\ row' = SetRow(r, "completed") /\ Finish(r)
  /\ NoMoney /\ NoFault /\ UNCHANGED handlers

\* The upload fails or the statement throws; the row may be completed all
\* the same.
CompleteFails(r) ==
  /\ exec[r] = "complete" /\ row' \in {row, SetRow(r, "completed")} /\ Become(r, "fail")
  /\ NoMoney /\ NoFault /\ UNCHANGED handlers

\* Mutant: the refund does not depend on who failed the row.
FailAnyway(r) ==
  /\ exec[r] = "fail" /\ row' = SetRow(r, "error")
  /\ IF r \notin free THEN Become(r, "refund") ELSE Finish(r)
  /\ NoMoney /\ NoFault /\ UNCHANGED handlers

\* The refund of a website is due whatever its row was, that of a post only
\* if this statement failed it.
Fail(r) ==
  /\ exec[r] = "fail" /\ row' = SetRow(r, "error")
  /\ IF r \notin free /\ (r \in Site \/ row[r] \in Open) THEN Become(r, "refund") ELSE Finish(r)
  /\ NoMoney /\ NoFault /\ UNCHANGED handlers

\* The statement throws: no refund.
FailThrows(r) ==
  /\ exec[r] = "fail" /\ Fault(r) /\ row' \in {row, SetRow(r, "error")} /\ Finish(r)
  /\ NoMoney /\ UNCHANGED handlers

Refund(r) ==
  /\ exec[r] = "refund" /\ Finish(r)
  /\ (Give(r) /\ NoFault) \/ (GiveOrNot(r) /\ Fault(r))
  /\ UNCHANGED <<row, handlers>>

-----------------------------------------------------------------------------
(* Processes                                                               *)

Here(i) == {r \in Req : req[r].at = i}
NoQueue == [site |-> <<>>, social |-> <<>>]

\* stopAllJobs and stopAllSocialJobs: the queues are dropped, and active jobs are
\* told to abort. Requests in flight and the executors go on until the exit.
Shutdown(i) ==
  /\ proc[i] = "up" /\ i < MaxBoots /\ proc' = [proc EXCEPT ![i] = "stopping"]
  /\ queue' = [queue EXCEPT ![i] = NoQueue]
  /\ exec' = [r \in Req |-> IF r \in Here(i) /\ exec[r] = "queued" THEN "none" ELSE exec[r]]
  /\ UNCHANGED <<asks, req, row, free, reap, balance, paid, hit, faults>>

Handling == {"deduct", "reverse", "insert", "unwind", "race", "start", "shed"}
Unsettled == {"reverse", "insert", "unwind", "race", "shed"}

\* The exit, or a crash. What was about to be given back stays taken.
Die(i) ==
  /\ proc[i] \in {"booting", "up", "stopping"} /\ i < MaxBoots
  /\ proc' = [proc EXCEPT ![i] = "gone"] /\ queue' = [queue EXCEPT ![i] = NoQueue]
  /\ hit' = hit \cup {r \in Here(i) : req[r].pc \in Unsettled \/ exec[r] = "refund"}
                \cup (IF proc[i] = "booting" THEN reap ELSE {})
  /\ reap' = IF proc[i] = "booting" THEN {} ELSE reap
  /\ req' = [r \in Req |-> IF r \in Here(i) /\ req[r].pc \in Handling
                           THEN [req[r] EXCEPT !.pc = "dead"] ELSE req[r]]
  /\ exec' = [r \in Req |-> IF r \in Here(i) THEN "none" ELSE exec[r]]
  /\ UNCHANGED <<asks, row, free, balance, paid, faults>>

\* Mutant: the reaper takes failed posts as well.
StaleAndFailed == {r \in Social : row[r] \in Open \cup {"error"}}

\* The reaper's statement; the rows are younger than its seven days.
Stale == {r \in Social : row[r] \in Open}
Boot(i) ==
  /\ i > 1 /\ proc[i] = "off" /\ proc[i - 1] \in {"stopping", "gone"}
  /\ proc' = [proc EXCEPT ![i] = "booting"]
  /\ reap' = Stale /\ row' = [r \in Req |-> IF r \in Stale THEN "error" ELSE row[r]]
  /\ UNCHANGED <<asks, req, free, exec, queue, balance, paid, hit, faults>>

\* The statement fails, or its answer is lost: the service starts all the same.
BootUnreaped(i) ==
  /\ i > 1 /\ proc[i] = "off" /\ proc[i - 1] \in {"stopping", "gone"} /\ faults < MaxFaults
  /\ proc' = [proc EXCEPT ![i] = "booting"] /\ faults' = faults + 1 /\ hit' = hit \cup Stale
  /\ row' \in {row, [r \in Req |-> IF r \in Stale THEN "error" ELSE row[r]]}
  /\ UNCHANGED <<asks, req, free, exec, queue, reap, balance, paid>>

\* One refund after the other, whatever becomes of them.
ReapRefund(r) ==
  /\ r \in reap /\ reap' = reap \ {r}
  /\ (Give(r) /\ NoFault) \/ (GiveOrNot(r) /\ Fault(r))
  /\ UNCHANGED <<asks, req, row, free, exec, queue, proc>>

Ready(i) ==
  /\ proc[i] = "booting" /\ reap = {} /\ proc' = [proc EXCEPT ![i] = "up"]
  /\ UNCHANGED <<asks, req, row, free, exec, queue, reap, balance, paid, hit, faults>>

-----------------------------------------------------------------------------

RequestStep(r) ==
  \/ \E i \in Proc : Refuse(r, i) \/ Arrive(r, i) \/ ArriveSite(r, i)
  \/ Deduct(r) \/ DeductFails(r) \/ ReverseDeduct(r)
  \/ Insert(r) \/ InsertRaces(r) \/ InsertFails(r) \/ refundThisRequest(r)
  \/ Start(r) \/ Shed(r) \/ ShedFails(r)

JobStep(r) ==
  \/ Load(r) \/ Publish(r) \/ WorkFails(r)
  \/ Complete(r) \/ CompleteFails(r) \/ Fail(r) \/ FailThrows(r) \/ Refund(r)

ProcessStep(i) == Shutdown(i) \/ Die(i) \/ Boot(i) \/ BootUnreaped(i) \/ Ready(i)

Next ==
  \/ \E r \in Req : RequestStep(r) \/ JobStep(r) \/ ReapRefund(r)
  \/ \E i \in Proc : ProcessStep(i)

Spec == Init /\ [][Next]_vars

\* Every call of a job returns, fails or is aborted by the job's timeout:
\* while jobs have steps to take, one of them takes one.
Fairness == WF_vars(\E r \in Req : JobStep(r))
FairSpec == Spec /\ Fairness

-----------------------------------------------------------------------------
(* Properties                                                              *)

Final == {"refused", "replayed", "failed", "accepted", "dead"}

\* The types; each queue holds jobs of one kind.
TypeOK ==
  /\ asks \in Mixes
  /\ req \in [Req -> [pc : {"new"} \cup Handling \cup Final, at : Proc]]
  /\ row \in [Req -> {"none", "completed", "error"} \cup Open]
  /\ free \subseteq Site /\ hit \subseteq Req /\ reap \subseteq Social
  /\ exec \in [Req -> {"none", "queued", "done"} \cup Running]
  /\ queue \in [Proc -> [site : Seq(Site), social : Seq(Social)]]
  /\ proc \in [Proc -> {"off", "booting", "up", "stopping", "gone"}]
  /\ balance \in Int /\ paid \in [Req -> Int] /\ faults \in 0..MaxFaults

\* A completed job was paid once and is not refunded, or was free, whatever
\* the reaper, a straggling executor and lost answers do (completeSocialPost,
\* failSocialPost, reapStaleSocialPosts, executeJob).
CompletedIsPaid == \A r \in Req : row[r] = "completed" => r \in free \/ paid[r] = 1

\* A job whose request was answered 202 is refunded once at most, by its
\* executor, its handler or a reaper (executeSocialJob, reapStaleSocialJobsOnBoot).
AcceptedRefundedOnce == \A r \in Req : At(r, "accepted") => paid[r] >= 0

\* Unless a call failed or the process died at the wrong moment, the user has
\* paid for what was completed and for nothing else once all is at rest.
AtRest(r) ==
  /\ req[r].pc \in Final /\ row[r] \notin Open
  /\ exec[r] \in {"none", "done"} /\ r \notin reap
PaidIffServed ==
  \A r \in Req : AtRest(r) /\ r \notin hit => (paid[r] = 1 <=> row[r] = "completed" /\ r \notin free)

\* The final status of a post stays (updateSocialPostStatus, completeSocialPost).
TerminalStays ==
  [][\A r \in Social : row[r] \in {"completed", "error"} => row'[r] = row[r]]_vars

\* The jobs that are queued or running end, or go with their process
\* (processNextInQueue, the timeouts).
Busy(r) == exec[r] \in {"queued"} \cup Running
JobsEnd == (\E r \in Req : Busy(r)) ~> (\A r \in Req : ~Busy(r))

\* "refunds happen exactly once even if boot repeats".
RefundedOnce == \A r \in Req : paid[r] >= 0
=============================================================================
