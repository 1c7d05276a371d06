------------------------------ MODULE Ai_proofs -------------------------------
(***************************************************************************)
(* What the AI service guarantees for any number of requests, keys, users, *)
(* websites, workers, restarts and failures: AiJobs, and the questions and *)
(* the directory of AiService.                                             *)
(*                                                                         *)
(* Jobs: what is completed is paid for, what was accepted is refunded once at*)
(* most, and a post's final status stays. A payment is claimed from three  *)
(* sides: the row of a job that may still be completed keeps it, an executor*)
(* or the boot reaper is about to give it back. Covered says that one of them*)
(* at most has a claim, and that the payment is there as long as one has.  *)
(* Even adds to it what the request still has to do: where nothing failed, *)
(* who paid is served or refunded when all is done, and nobody else has paid.*)
(*                                                                         *)
(* Questions: Books says what each request has taken at each step. Directory:*)
(* Filed and Out say which rows of a website are withdrawn, and Pages what a*)
(* cached page knew of them when it was read.                              *)
(***************************************************************************)
EXTENDS AiJobs, AiService, SequenceTheorems, FiniteSetTheorems, WellFoundedInduction, TLAPS

-----------------------------------------------------------------------------
(***************************************************************************)
(* Jobs: AiJobs                                                            *)
(***************************************************************************)

\* The job may still be completed, or has been.
Kept(r) ==
  \/ row[r] = "completed"
  \/ r \in Social /\ row[r] \in Open
  \/ r \in Site /\ (At(r, "start") \/ exec[r] \in {"queued", "load", "generate", "complete", "fail"})

Covered(r) ==
  /\ paid[r] \in {0, 1}
  /\ Kept(r) \/ exec[r] = "refund" \/ r \in reap => paid[r] = 1
  /\ exec[r] = "refund" => ~Kept(r) /\ r \notin reap
  /\ r \in reap => ~Kept(r)

\* A free website never sees money.
Gratis(r) == paid[r] = 0 /\ exec[r] # "refund"

\* What a request has paid, by the place of its handler; a request that went
\* wrong before it was answered 202 is not accounted for.
Fund(r) ==
  /\ exec[r] # "none" => At(r, "accepted")
  /\ row[r] = "completed" => At(r, "accepted")
  /\ row[r] = "none" => r \notin reap
  /\ req[r].pc \in {"new", "deduct"} => r \notin free
  /\ req[r].pc \in {"new", "deduct", "insert"} =>
       row[r] = "none" /\ paid[r] = IF At(r, "insert") /\ r \notin free THEN 1 ELSE 0
  /\ req[r].pc \in {"start", "accepted"} => IF r \in free THEN Gratis(r) ELSE Covered(r)

\* Whoever stands in a queue waits there, once, and in no other state.
Kinds == {"site", "social"}
Waits(r, i, k) == r \in Req /\ exec[r] = "queued" /\ req[r].at = i /\ Pool(r) = k
Lines ==
  \A i \in Proc, k \in Kinds : \A n \in 1..Len(queue[i][k]) :
    /\ Waits(queue[i][k][n], i, k)
    /\ \A m \in 1..Len(queue[i][k]) : queue[i][k][m] = queue[i][k][n] => m = n

IInv == TypeOK /\ Lines /\ \A r \in Req : Fund(r)

-----------------------------------------------------------------------------
(* Queues                                                                  *)

OfKind(k) == IF k = "site" THEN Site ELSE Social
Queues == [site : Seq(Site), social : Seq(Social)]
QueueType == [Proc -> Queues]

\* The queues of a process as a function of their kind.
LEMMA QueuesAreFunctions ==
  ASSUME NEW f \in Queues
  PROVE  /\ DOMAIN f = Kinds
         /\ f["site"] \in Seq(Site) /\ f["social"] \in Seq(Social)
  BY DEF Queues, Kinds

LEMMA FunctionsAreQueues ==
  ASSUME NEW g, g = [l \in Kinds |-> g[l]], g["site"] \in Seq(Site), g["social"] \in Seq(Social)
  PROVE  g \in Queues
  BY DEF Queues, Kinds

\* One queue is replaced, the others stay.
Rewritten(Q, i, k, s) == [Q EXCEPT ![i][k] = s]

LEMMA QueueWritten ==
  ASSUME NEW Q \in QueueType, NEW i \in Proc, NEW k \in Kinds, NEW s,
         s \in Seq(OfKind(k))
  PROVE  /\ Rewritten(Q, i, k, s) \in QueueType
         /\ \A j \in Proc, l \in Kinds :
              Rewritten(Q, i, k, s)[j][l] = IF j = i /\ l = k THEN s ELSE Q[j][l]
<1> DEFINE new == [Q[i] EXCEPT ![k] = s]
           N == Rewritten(Q, i, k, s)
<1>1. Q[i] \in Queues /\ N = [Q EXCEPT ![i] = new]
  BY DEF QueueType, Rewritten
<1>2. DOMAIN new = Kinds /\ \A l \in Kinds : new[l] = IF l = k THEN s ELSE Q[i][l]
  BY <1>1, QueuesAreFunctions
<1>3. new = [l \in Kinds |-> new[l]]
  BY <1>1, QueuesAreFunctions
<1> HIDE DEF new
<1>4. new["site"] \in Seq(Site) /\ new["social"] \in Seq(Social)
  BY <1>1, <1>2, QueuesAreFunctions DEF Kinds, OfKind
<1>5. new \in Queues
  BY <1>3, <1>4, FunctionsAreQueues
<1>6. N[i] = new /\ \A j \in Proc \ {i} : N[j] = Q[j]
  BY <1>1 DEF QueueType
<1>7. N \in QueueType
  BY <1>1, <1>5 DEF QueueType
<1>8. ASSUME NEW j \in Proc, NEW l \in Kinds
      PROVE  N[j][l] = IF j = i /\ l = k THEN s ELSE Q[j][l]
  <2>1. CASE j = i
    BY <1>2, <1>6, <2>1
  <2>2. CASE j # i
    BY <1>6, <2>2
  <2> QED
    BY <2>1, <2>2
<1> QED
  BY <1>7, <1>8

\* A queue is a sequence of requests of its kind.
LEMMA QueueTyped ==
  ASSUME TypeOK, NEW i \in Proc, NEW k \in Kinds
  PROVE  /\ queue \in QueueType
         /\ queue[i][k] \in Seq(OfKind(k))
         /\ queue[i][k] \in Seq(Req)
<1>1. queue \in QueueType
  BY DEF TypeOK, QueueType, Queues
<1>2. queue[i][k] \in Seq(OfKind(k))
  BY <1>1 DEF QueueType, Queues, Kinds, OfKind
<1>3. Site \subseteq Req /\ Social \subseteq Req
  BY DEF Site, Social
<1> QED
  BY <1>1, <1>2, <1>3 DEF OfKind

\* Queues that nobody touches stay in order while those in them wait.
LEMMA LinesKept ==
  ASSUME Lines, UNCHANGED <<asks, queue>>,
         \A r \in Req : exec[r] = "queued" => exec'[r] = "queued" /\ req'[r].at = req[r].at
  PROVE  Lines'
  BY DEF Lines, Waits, Pool, Site

ExecType == [Req -> {"none", "queued", "done"} \cup Running]

\* A worker that ends wakes at most the head of its own queue.
LEMMA FinishStep ==
  ASSUME TypeOK, Lines, NEW r \in Req, exec[r] \in Running, Finish(r), UNCHANGED <<asks, req>>
  PROVE  /\ exec' \in ExecType /\ queue' \in QueueType /\ Lines'
         /\ exec'[r] = "done"
         /\ \A s \in Req \ {r} : exec'[s] = exec[s] \/ (exec[s] = "queued" /\ exec'[s] = "load")
<1> DEFINE i == req[r].at
           k == Pool(r)
           q == queue[i][k]
<1>1. i \in Proc /\ k \in Kinds /\ exec \in ExecType
  BY DEF TypeOK, ExecType, Pool, Kinds
<1>2. queue \in QueueType /\ q \in Seq(OfKind(k))
  BY <1>1, QueueTyped
<1> HIDE DEF k, q
<1>3. CASE exec' = [exec EXCEPT ![r] = "done"] /\ UNCHANGED queue
  <2>1. exec' \in ExecType /\ exec'[r] = "done" /\ \A s \in Req \ {r} : exec'[s] = exec[s]
    BY <1>1, <1>3 DEF ExecType
  <2>2. \A s \in Req : exec[s] = "queued" => exec'[s] = "queued" /\ req'[s].at = req[s].at
    BY <2>1 DEF Running
  <2> QED
    BY <1>2, <1>3, <2>1, <2>2, LinesKept
<1>4. CASE /\ q # <<>>
           /\ exec' = [exec EXCEPT ![r] = "done", ![Head(q)] = "load"]
           /\ queue' = Rewritten(queue, i, k, Tail(q))
  <2>1. Len(q) \in Nat \ {0} /\ Head(q) = q[1]
    BY <1>2, <1>4
  <2>2. Waits(Head(q), i, k) /\ \A n \in 1..Len(q) : q[n] = q[1] => n = 1
    BY <1>1, <2>1 DEF Lines, q
  <2>3. Head(q) \in Req /\ exec[Head(q)] = "queued" /\ Head(q) # r
    BY <2>2 DEF Waits, Running
  <2>4. /\ exec' \in ExecType /\ exec'[r] = "done" /\ exec'[Head(q)] = "load"
        /\ \A s \in Req \ {r, Head(q)} : exec'[s] = exec[s]
    BY <1>1, <1>4, <2>3 DEF ExecType, Running
  <2>5. /\ Tail(q) \in Seq(OfKind(k))
        /\ Len(Tail(q)) = Len(q) - 1
        /\ \A n \in 1..Len(Tail(q)) : n + 1 \in 1..Len(q) /\ Tail(q)[n] = q[n + 1]
    BY <1>2, <1>4
  <2>6. /\ queue' \in QueueType
        /\ \A j \in Proc, l \in Kinds : queue'[j][l] = IF j = i /\ l = k THEN Tail(q) ELSE queue[j][l]
    <3> DEFINE W == Rewritten(queue, i, k, Tail(q))
    <3>1. /\ W \in QueueType
          /\ \A j \in Proc, l \in Kinds : W[j][l] = IF j = i /\ l = k THEN Tail(q) ELSE queue[j][l]
      <4> DEFINE s == Tail(q)
      <4>1. s \in Seq(OfKind(k))
        BY <2>5
      <4> HIDE DEF s
      <4>2. /\ Rewritten(queue, i, k, s) \in QueueType
            /\ \A j \in Proc, l \in Kinds :
                 Rewritten(queue, i, k, s)[j][l] = IF j = i /\ l = k THEN s ELSE queue[j][l]
        BY <1>1, <1>2, <4>1, QueueWritten
      <4> QED
        BY <4>2 DEF s
    <3> QED
      BY <1>4, <3>1
  <2>7. Lines'
    <3> SUFFICES ASSUME NEW j \in Proc, NEW l \in Kinds, NEW n \in 1..Len(queue'[j][l])
                 PROVE  /\ Waits(queue[j][l][n], j, l)'
                        /\ \A m \in 1..Len(queue'[j][l]) : queue'[j][l][m] = queue'[j][l][n] => m = n
      BY DEF Lines
    <3>1. \A s : Waits(s, j, l) /\ s # Head(q) => Waits(s, j, l)'
      BY <2>4 DEF Waits, Pool, Site, Running
    <3>2. CASE j = i /\ l = k
      <4>1. queue'[j][l] = Tail(q)
        BY <2>6, <3>2
      <4>2. Waits(q[n + 1], j, l) /\ q[n + 1] # q[1]
        BY <1>1, <2>1, <2>2, <2>5, <3>2, <4>1 DEF Lines, q
      <4>3. Waits(queue[j][l][n], j, l)'
        BY <2>1, <2>5, <3>1, <4>1, <4>2
      <4>4. ASSUME NEW m \in 1..Len(queue'[j][l]), queue'[j][l][m] = queue'[j][l][n]
            PROVE  m = n
        <5>1. q[m + 1] = q[n + 1] /\ m + 1 \in 1..Len(q) /\ n + 1 \in 1..Len(q)
          BY <2>5, <4>1, <4>4
        <5>2. m + 1 = n + 1
          BY <1>1, <5>1 DEF Lines, q
        <5> QED
          BY <5>2
      <4> QED
        BY <4>3, <4>4
    <3>3. CASE ~(j = i /\ l = k)
      <4>1. queue'[j][l] = queue[j][l]
        BY <2>6, <3>3
      <4>2. Waits(queue[j][l][n], j, l) /\ \A m \in 1..Len(queue[j][l]) : queue[j][l][m] = queue[j][l][n] => m = n
        BY <4>1 DEF Lines
      <4>3. queue[j][l][n] # Head(q)
        BY <2>2, <3>3, <4>2 DEF Waits
      <4> QED
        BY <3>1, <4>1, <4>2, <4>3
    <3> QED
      BY <3>2, <3>3
  <2> QED
    BY <2>3, <2>4, <2>6, <2>7
<1> QED
  BY <1>3, <1>4 DEF Finish, Queued, Rewritten, i, k, q

\* A request that is let in starts at once or goes to the end of its queue.
LEMMA StartStep ==
  ASSUME TypeOK, Lines, NEW r \in Req, exec[r] = "none", Start(r)
  PROVE  /\ exec' \in ExecType /\ queue' \in QueueType /\ Lines'
         /\ exec'[r] \in {"queued", "load"}
         /\ \A s \in Req \ {r} : exec'[s] = exec[s]
<1> DEFINE i == req[r].at
           k == Pool(r)
           q == queue[i][k]
<1>1. /\ i \in Proc /\ k \in Kinds /\ exec \in ExecType /\ UNCHANGED asks
      /\ \A s \in Req : req'[s].at = req[s].at
  BY DEF TypeOK, ExecType, Pool, Kinds, Start, Goto
<1>2. /\ queue \in QueueType /\ q \in Seq(OfKind(k))
      /\ r \in OfKind(k)
  BY <1>1, QueueTyped DEF Pool, Social, OfKind
<1> HIDE DEF k, q
<1>3. CASE exec' = [exec EXCEPT ![r] = "load"] /\ UNCHANGED queue
  <2>1. exec' \in ExecType /\ exec'[r] = "load" /\ \A s \in Req \ {r} : exec'[s] = exec[s]
    BY <1>1, <1>3 DEF ExecType, Running
  <2>2. \A s \in Req : exec[s] = "queued" => exec'[s] = "queued"
    BY <2>1
  <2> QED
    BY <1>1, <1>2, <1>3, <2>1, <2>2, LinesKept
<1>4. CASE /\ queue' = Rewritten(queue, i, k, Append(q, r))
           /\ exec' = [exec EXCEPT ![r] = "queued"]
  <2>1. exec' \in ExecType /\ exec'[r] = "queued" /\ \A s \in Req \ {r} : exec'[s] = exec[s]
    BY <1>1, <1>4 DEF ExecType
  <2>2. /\ Append(q, r) \in Seq(OfKind(k))
        /\ Len(q) \in Nat /\ Len(Append(q, r)) = Len(q) + 1
        /\ Append(q, r)[Len(q) + 1] = r
        /\ \A n \in 1..Len(q) : Append(q, r)[n] = q[n]
    BY <1>2
  <2>3. /\ queue' \in QueueType
        /\ \A j \in Proc, l \in Kinds : queue'[j][l] = IF j = i /\ l = k THEN Append(q, r) ELSE queue[j][l]
    <3> DEFINE W == Rewritten(queue, i, k, Append(q, r))
    <3>1. /\ W \in QueueType
          /\ \A j \in Proc, l \in Kinds : W[j][l] = IF j = i /\ l = k THEN Append(q, r) ELSE queue[j][l]
      <4> DEFINE s == Append(q, r)
      <4>1. s \in Seq(OfKind(k))
        BY <2>2
      <4> HIDE DEF s
      <4>2. /\ Rewritten(queue, i, k, s) \in QueueType
            /\ \A j \in Proc, l \in Kinds :
                 Rewritten(queue, i, k, s)[j][l] = IF j = i /\ l = k THEN s ELSE queue[j][l]
        BY <1>1, <1>2, <4>1, QueueWritten
      <4> QED
        BY <4>2 DEF s
    <3> QED
      BY <1>4, <3>1
  <2>4. Lines'
    <3> SUFFICES ASSUME NEW j \in Proc, NEW l \in Kinds, NEW n \in 1..Len(queue'[j][l])
                 PROVE  /\ Waits(queue[j][l][n], j, l)'
                        /\ \A m \in 1..Len(queue'[j][l]) : queue'[j][l][m] = queue'[j][l][n] => m = n
      BY DEF Lines
    <3>1. \A s : Waits(s, j, l) => Waits(s, j, l)' /\ s # r
      BY <1>1, <2>1 DEF Waits, Pool, Site
    <3>2. CASE j = i /\ l = k
      <4>1. queue'[j][l] = Append(q, r)
        BY <2>3, <3>2
      <4>2. \A m \in 1..Len(q) : Waits(q[m], j, l)
        BY <1>1, <3>2 DEF Lines, q
      <4>3. \A m, o \in 1..Len(q) : q[m] = q[o] => m = o
        BY <1>1 DEF Lines, q
      <4>4. Waits(r, j, l)'
        BY <1>1, <2>1, <3>2 DEF Waits, Pool, Site, k
      <4>5. Waits(queue[j][l][n], j, l)'
        BY <2>2, <3>1, <4>1, <4>2, <4>4
      <4>6. ASSUME NEW m \in 1..Len(queue'[j][l]), queue'[j][l][m] = queue'[j][l][n]
            PROVE  m = n
        BY <2>2, <3>1, <4>1, <4>2, <4>3, <4>6
      <4> QED
        BY <4>5, <4>6
    <3>3. CASE ~(j = i /\ l = k)
      <4>1. queue'[j][l] = queue[j][l]
        BY <2>3, <3>3
      <4> QED
        BY <3>1, <4>1 DEF Lines
    <3> QED
      BY <3>2, <3>3
  <2> QED
    BY <2>1, <2>3, <2>4
<1> QED
  BY <1>3, <1>4 DEF Start, Rewritten, i, k, q

-----------------------------------------------------------------------------
(* What a step leaves alone                                                *)

ReqType == [Req -> [pc : {"new"} \cup Handling \cup Final, at : Proc]]
RowType == [Req -> {"none", "completed", "error"} \cup Open]
ProcType == [Proc -> {"off", "booting", "up", "stopping", "gone"}]

\* The money of one request changes, or none.
LEMMA MoneyTyped ==
  ASSUME TypeOK, NEW r \in Req, Take(r) \/ Give(r) \/ NoMoney
  PROVE  /\ balance' \in Int /\ paid' \in [Req -> Int]
         /\ \A s \in Req \ {r} : paid'[s] = paid[s]
  BY DEF TypeOK, Take, Give, NoMoney

LEMMA FaultTyped ==
  ASSUME TypeOK, NEW r \in Req, Fault(r) \/ NoFault
  PROVE  hit' \subseteq Req /\ faults' \in 0..MaxFaults
  BY JobsAssumption DEF TypeOK, Fault, NoFault

LEMMA RowTyped ==
  ASSUME TypeOK, NEW r \in Req, NEW status \in {"completed", "error"} \cup Open,
         row' \in {row, SetRow(r, status)}
  PROVE  row' \in RowType /\ \A s \in Req \ {r} : row'[s] = row[s]
  BY DEF TypeOK, RowType, SetRow

LEMMA GotoTyped ==
  ASSUME TypeOK, NEW r \in Req, NEW pc \in Handling \cup Final, Goto(r, pc)
  PROVE  /\ req' \in ReqType /\ req'[r].pc = pc /\ req'[r].at = req[r].at
         /\ \A s \in Req \ {r} : req'[s] = req[s]
  BY DEF TypeOK, ReqType, Goto

\* A request that no step is about keeps its account, even if a worker that
\* ends takes its job from the queue.
LEMMA OtherFund ==
  ASSUME NEW s \in Req, Fund(s), UNCHANGED asks,
         row'[s] = row[s], paid'[s] = paid[s], req'[s].pc = req[s].pc,
         s \in free' <=> s \in free, s \in reap' => s \in reap,
         exec'[s] = exec[s] \/ (exec[s] = "queued" /\ exec'[s] = "load")
  PROVE  Fund(s)'
<1>1. Site' = Site /\ Social' = Social /\ Open' = Open
  BY DEF Site, Social
<1>2. Kept(s)' => Kept(s)
  BY <1>1 DEF Kept, At
<1>3. Covered(s) => Covered(s)'
  BY <1>2 DEF Covered
<1>4. Gratis(s) => Gratis(s)'
  BY DEF Gratis
<1> QED
  BY <1>3, <1>4 DEF Fund, At

-----------------------------------------------------------------------------
(* The handlers                                                            *)

\* What a handler may change: its request, its row and its money.
Handled(r) ==
  /\ req' \in ReqType /\ row' \in RowType /\ free' \subseteq Site
  /\ balance' \in Int /\ paid' \in [Req -> Int]
  /\ hit' \subseteq Req /\ faults' \in 0..MaxFaults
  /\ \A s \in Req \ {r} : /\ req'[s] = req[s] /\ row'[s] = row[s] /\ paid'[s] = paid[s]
                          /\ s \in free' <=> s \in free

LEMMA ArrivalsHandled ==
  ASSUME TypeOK, NEW r \in Req, NEW i \in Proc, Refuse(r, i) \/ Arrive(r, i) \/ ArriveSite(r, i)
  PROVE  Handled(r) /\ UNCHANGED workers
<1>1. req' \in ReqType /\ \A s \in Req \ {r} : req'[s] = req[s]
  <2>1. PICK pc \in Handling \cup Final : req' = [req EXCEPT ![r] = [pc |-> pc, at |-> i]]
    BY DEF Refuse, Arrive, ArriveSite, Handling, Final
  <2> QED
    BY <2>1 DEF TypeOK, ReqType
<1>2. free' \subseteq Site /\ \A s \in Req \ {r} : s \in free' <=> s \in free
  BY DEF TypeOK, Refuse, Arrive, ArriveSite
<1>3. UNCHANGED <<row, balance, paid, hit, faults>> /\ UNCHANGED workers
  BY DEF Refuse, Arrive, ArriveSite
<1> QED
  BY <1>1, <1>2, <1>3 DEF TypeOK, Handled, RowType

LEMMA MoneyHandled ==
  ASSUME TypeOK, NEW r \in Req,
         Deduct(r) \/ DeductFails(r) \/ ReverseDeduct(r) \/ refundThisRequest(r)
  PROVE  Handled(r) /\ UNCHANGED workers
<1>1. Take(r) \/ Give(r) \/ NoMoney
  BY DEF Deduct, DeductFails, ReverseDeduct, refundThisRequest, TakeOrNot, GiveOrNot
<1>2. Fault(r) \/ NoFault
  BY DEF Deduct, DeductFails, ReverseDeduct, refundThisRequest, NoFault
<1>3. \E pc \in Handling \cup Final : Goto(r, pc)
  BY DEF Deduct, DeductFails, ReverseDeduct, refundThisRequest, Handling, Final
<1>4. UNCHANGED <<row, free>> /\ UNCHANGED workers
  BY DEF Deduct, DeductFails, ReverseDeduct, refundThisRequest
<1> QED
  BY <1>1, <1>2, <1>3, <1>4, MoneyTyped, FaultTyped, GotoTyped DEF TypeOK, Handled, RowType

LEMMA RowHandled ==
  ASSUME TypeOK, NEW r \in Req,
         Insert(r) \/ InsertRaces(r) \/ InsertFails(r) \/ Start(r) \/ Shed(r) \/ ShedFails(r)
  PROVE  Handled(r) /\ UNCHANGED <<asks, proc, reap>> /\ (Start(r) \/ UNCHANGED workers)
<1>1. UNCHANGED <<balance, paid, free, asks, proc, reap>>
  BY DEF Insert, InsertRaces, InsertFails, Start, Shed, ShedFails, workers
<1>2. Fault(r) \/ NoFault
  BY DEF Insert, InsertRaces, InsertFails, Start, Shed, ShedFails, NoFault
<1>3. \E pc \in Handling \cup Final : Goto(r, pc)
  BY DEF Insert, InsertRaces, InsertFails, Start, Shed, ShedFails, Handling, Final
<1>4. row' \in {row, [row EXCEPT ![r] = "pending"], SetRow(r, "error")}
  BY DEF Insert, InsertRaces, InsertFails, Start, Shed, ShedFails
<1>5. row' \in RowType /\ \A s \in Req \ {r} : row'[s] = row[s]
  BY <1>4 DEF TypeOK, RowType, SetRow, Open
<1>6. Start(r) \/ UNCHANGED workers
  BY DEF Insert, InsertRaces, InsertFails, Shed, ShedFails
<1> QED
  BY <1>1, <1>2, <1>3, <1>5, <1>6, FaultTyped, GotoTyped DEF TypeOK, Handled

\* The account of the request itself.
LEMMA HandlerFund ==
  ASSUME TypeOK, NEW r \in Req, Fund(r), RequestStep(r), ~Start(r), Handled(r), UNCHANGED workers
  PROVE  Fund(r)'
<1>1. Site' = Site /\ Social' = Social /\ Open' = Open /\ UNCHANGED <<exec, reap>>
  BY DEF Site, Social, workers
<1>2. exec[r] = "none"
  BY DEF Fund, RequestStep, At, Refuse, Arrive, ArriveSite, Deduct, DeductFails, ReverseDeduct, Insert,
         InsertRaces, InsertFails, refundThisRequest, Shed, ShedFails
<1>3. row[r] # "completed" /\ req[r] \in [pc : {"new"} \cup Handling \cup Final, at : Proc]
  BY DEF TypeOK, Fund, RequestStep, At, Refuse, Arrive, ArriveSite, Deduct, DeductFails, ReverseDeduct, Insert,
         InsertRaces, InsertFails, refundThisRequest, Shed, ShedFails
<1>4. ASSUME NEW i \in Proc, Refuse(r, i)
      PROVE  Fund(r)'
  BY <1>1, <1>2, <1>3, <1>4 DEF TypeOK, Refuse, Fund, At
<1>5. ASSUME NEW i \in Proc, Arrive(r, i)
      PROVE  Fund(r)'
  BY <1>1, <1>2, <1>3, <1>5 DEF TypeOK, Arrive, Fund, At
<1>6. ASSUME NEW i \in Proc, ArriveSite(r, i)
      PROVE  Fund(r)'
  BY <1>1, <1>2, <1>3, <1>6 DEF TypeOK, ArriveSite, Fund, At
<1>7. CASE Deduct(r)
  BY <1>1, <1>2, <1>3, <1>7 DEF TypeOK, Deduct, Take, Goto, Fund, At
<1>8. CASE DeductFails(r) \/ ReverseDeduct(r) \/ InsertRaces(r) \/ refundThisRequest(r)
  <2>1. /\ UNCHANGED row
        /\ req'[r].pc \in {"failed", "refused", "race", "replayed"}
    BY <1>8 DEF TypeOK, DeductFails, ReverseDeduct, InsertRaces, refundThisRequest, Goto
  <2> QED
    BY <1>1, <1>2, <1>3, <2>1 DEF Fund, At
<1>9. CASE Insert(r)
  <2>1. /\ At(r, "insert") /\ row'[r] = "pending" /\ req'[r].pc = "start" /\ UNCHANGED <<paid, free>>
    BY <1>9 DEF TypeOK, Insert, Goto, At
  <2>2. r \notin reap /\ paid[r] = IF r \in free THEN 0 ELSE 1
    BY <2>1 DEF Fund, At
  <2>3. r \in free => Gratis(r)'
    BY <1>1, <1>2, <2>1, <2>2 DEF Gratis
  <2>4. r \notin free => Covered(r)'
    BY <1>1, <1>2, <2>1, <2>2 DEF Covered
  <2> QED
    BY <1>1, <1>2, <2>1, <2>2, <2>3, <2>4 DEF Fund, At
<1>10. CASE InsertFails(r) \/ Shed(r) \/ ShedFails(r)
  <2>1. /\ req'[r].pc \in {"unwind", "shed", "failed"}
        /\ row'[r] \in {row[r], "pending", "error"}
    BY <1>10 DEF TypeOK, InsertFails, Shed, ShedFails, SetRow, Goto
  <2>2. row'[r] = "none" => row[r] = "none"
    BY <2>1
  <2> QED
    BY <1>1, <1>2, <1>3, <2>1, <2>2 DEF Fund, At
<1> QED
  BY <1>4, <1>5, <1>6, <1>7, <1>8, <1>9, <1>10 DEF RequestStep

-----------------------------------------------------------------------------
(* The executors                                                           *)

\* Every step of an executor moves it on or ends it.
LEMMA JobMoves ==
  ASSUME NEW r \in Req, JobStep(r)
  PROVE  /\ exec[r] \in Running /\ UNCHANGED handlers
         /\ Finish(r) \/ \E step \in Running : Become(r, step)
         /\ Take(r) \/ Give(r) \/ NoMoney
         /\ Fault(r) \/ NoFault
         /\ \E status \in {"completed", "error"} \cup Open : row' \in {row, SetRow(r, status)}
<1>1. exec[r] \in Running /\ UNCHANGED handlers
  BY DEF JobStep, Load, Publish, WorkFails, Complete, CompleteFails, Fail, FailThrows, Refund, Running
<1>2. Finish(r) \/ \E step \in Running : Become(r, step)
  BY DEF JobStep, Load, Publish, WorkFails, Complete, CompleteFails, Fail, FailThrows, Refund, Running
<1>3. (Take(r) \/ Give(r) \/ NoMoney) /\ (Fault(r) \/ NoFault)
  BY DEF JobStep, Load, Publish, WorkFails, Complete, CompleteFails, Fail, FailThrows, Refund, GiveOrNot
<1>4. \E status \in {"completed", "error"} \cup Open : row' \in {row, SetRow(r, status)}
  BY DEF JobStep, Load, Publish, WorkFails, Complete, CompleteFails, Fail, FailThrows, Refund, Open
<1> QED
  BY <1>1, <1>2, <1>3, <1>4

LEMMA WorkerStep ==
  ASSUME TypeOK, Lines, NEW r \in Req, exec[r] \in Running, UNCHANGED <<asks, req>>,
         Finish(r) \/ \E step \in Running : Become(r, step)
  PROVE  /\ exec' \in ExecType /\ queue' \in QueueType /\ Lines'
         /\ \A s \in Req \ {r} : exec'[s] = exec[s] \/ (exec[s] = "queued" /\ exec'[s] = "load")
<1>1. CASE Finish(r)
  BY <1>1, FinishStep
<1>2. CASE \E step \in Running : Become(r, step)
  <2>1. /\ exec' \in ExecType /\ UNCHANGED queue
        /\ \A s \in Req \ {r} : exec'[s] = exec[s]
    BY <1>2 DEF TypeOK, ExecType, Become
  <2>2. exec[r] # "queued"
    BY DEF Running
  <2>3. Lines'
    BY <2>1, <2>2, LinesKept
  <2> QED
    BY <2>1, <2>3 DEF TypeOK, QueueType, Queues
<1> QED
  BY <1>1, <1>2

\* The account of a job its executor is working on.
LEMMA ExecutorFund ==
  ASSUME TypeOK, Lines, NEW r \in Req, Fund(r), JobStep(r)
  PROVE  Fund(r)'
<1>1. Site' = Site /\ Social' = Social /\ Open' = Open /\ UNCHANGED <<asks, req, free, reap>>
  BY JobMoves DEF Site, Social, handlers
<1>2. /\ At(r, "accepted") /\ exec[r] \in Running /\ exec \in ExecType /\ paid \in [Req -> Int]
      /\ row \in RowType /\ reap \subseteq Social /\ free \subseteq Site
  BY JobMoves DEF Fund, Running, TypeOK, ExecType, RowType
<1>3. Finish(r) => exec'[r] = "done"
  BY <1>1, <1>2, FinishStep
<1>4. ASSUME NEW step \in Running, Become(r, step)
      PROVE  exec'[r] = step
  BY <1>2, <1>4 DEF ExecType, Become
<1>5. SUFFICES /\ row'[r] = "none" => row[r] = "none"
               /\ r \in free => Gratis(r)'
               /\ r \notin free => Covered(r)'
  BY <1>1, <1>2 DEF Fund, At
<1>6. /\ r \in free => Gratis(r)
      /\ r \notin free => Covered(r)
  BY <1>2 DEF Fund, At
<1>7. (r \in Site /\ r \notin Social) \/ (r \in Social /\ r \notin Site)
  BY DEF Social
<1>8. CASE Load(r) \/ Publish(r) \/ WorkFails(r) \/ CompleteFails(r)
  <2>1. /\ exec[r] \in {"load", "generate", "complete"} /\ exec'[r] \in {"generate", "complete", "fail"}
        /\ paid'[r] = paid[r]
    BY <1>4, <1>8 DEF Load, Publish, WorkFails, CompleteFails, Running, NoMoney
  <2>2. /\ row'[r] \in {row[r], "generating", "publishing", "completed"}
        /\ r \in Social /\ row[r] \notin Open => row'[r] = row[r]
    BY <1>2, <1>7, <1>8 DEF Load, Publish, WorkFails, CompleteFails, SetRow, RowType
  <2>3. r \in free => Gratis(r)'
    BY <1>6, <2>1 DEF Gratis
  <2>4. r \notin free => Covered(r)'
    BY <1>1, <1>2, <1>6, <1>7, <2>1, <2>2 DEF Covered, Kept, At, Open
  <2> QED
    BY <2>2, <2>3, <2>4
<1>9. CASE Complete(r)
  <2>1. exec[r] = "complete" /\ exec'[r] = "done" /\ paid'[r] = paid[r]
    BY <1>3, <1>9 DEF Complete, NoMoney
  <2>2. /\ row'[r] \in {row[r], "completed"}
        /\ r \in Social /\ row[r] \notin Open => row'[r] = row[r]
    BY <1>2, <1>7, <1>9 DEF Complete, SetRow, RowType
  <2>3. r \in free => Gratis(r)'
    BY <1>6, <2>1 DEF Gratis
  <2>4. r \notin free => Covered(r)'
    BY <1>1, <1>2, <1>6, <1>7, <2>1, <2>2 DEF Covered, Kept, At
  <2> QED
    BY <2>2, <2>3, <2>4
<1>10. CASE Fail(r) \/ FailThrows(r)
  <2>1. /\ exec[r] = "fail" /\ paid'[r] = paid[r]
        /\ \/ exec'[r] = "done"
           \/ /\ exec'[r] = "refund" /\ r \notin free
              /\ r \in Site \/ row[r] \in Open
              /\ row'[r] = "error"
    BY <1>2, <1>3, <1>4, <1>10 DEF Fail, FailThrows, NoMoney, Running, SetRow, RowType
  <2>2. /\ row'[r] \in {row[r], "error"}
        /\ r \in Social /\ row[r] \notin Open => row'[r] = row[r]
    BY <1>2, <1>7, <1>10 DEF Fail, FailThrows, SetRow, RowType
  <2>3. r \in free => Gratis(r)'
    BY <1>6, <2>1 DEF Gratis
  <2>4. r \notin free => Covered(r)'
    BY <1>1, <1>2, <1>6, <1>7, <2>1, <2>2 DEF Covered, Kept, At, Open
  <2> QED
    BY <2>2, <2>3, <2>4
<1>11. CASE Refund(r)
  <2>1. exec[r] = "refund" /\ exec'[r] = "done" /\ row'[r] = row[r] /\ paid'[r] \in {paid[r], paid[r] - 1}
    BY <1>2, <1>3, <1>11 DEF Refund, Give, GiveOrNot, NoMoney
  <2>2. r \notin free
    BY <1>6, <2>1 DEF Gratis
  <2>3. paid[r] = 1 /\ ~Kept(r) /\ r \notin reap
    BY <1>6, <2>1, <2>2 DEF Covered
  <2>4. ~Kept(r)'
    BY <1>1, <1>2, <2>1, <2>3 DEF Kept, At
  <2>5. Covered(r)'
    BY <1>1, <2>1, <2>3, <2>4 DEF Covered
  <2> QED
    BY <2>1, <2>2, <2>5
<1> QED
  BY <1>8, <1>9, <1>10, <1>11 DEF JobStep

-----------------------------------------------------------------------------
(* Processes                                                               *)

\* Queues that are dropped leave the others in order.
LEMMA LinesDropped ==
  ASSUME TypeOK, Lines, NEW i \in Proc, queue' = [queue EXCEPT ![i] = NoQueue], UNCHANGED asks,
         \A r \in Req : req'[r].at = req[r].at,
         \A r \in Req : exec[r] = "queued" /\ req[r].at # i => exec'[r] = "queued"
  PROVE  queue' \in QueueType /\ Lines'
<1>1. NoQueue \in Queues
  BY DEF NoQueue, Queues
<1>2. queue \in QueueType
  BY DEF TypeOK, QueueType, Queues
<1>3. queue' \in QueueType /\ queue'[i] = NoQueue /\ \A j \in Proc \ {i} : queue'[j] = queue[j]
  BY <1>1, <1>2 DEF QueueType
<1>4. \A k \in Kinds : Len(NoQueue[k]) = 0
  BY DEF NoQueue, Kinds
<1>5. ASSUME NEW j \in Proc, NEW k \in Kinds, NEW n \in 1..Len(queue'[j][k])
      PROVE  /\ Waits(queue[j][k][n], j, k)'
             /\ \A m \in 1..Len(queue'[j][k]) : queue'[j][k][m] = queue'[j][k][n] => m = n
  <2>1. j # i
    BY <1>3, <1>4, <1>5
  <2>2. queue'[j][k] = queue[j][k]
    BY <1>3, <2>1
  <2>3. /\ Waits(queue[j][k][n], j, k)
        /\ \A m \in 1..Len(queue[j][k]) : queue[j][k][m] = queue[j][k][n] => m = n
    BY <1>5, <2>2 DEF Lines
  <2>4. \A s : Waits(s, j, k) => Waits(s, j, k)'
    BY <2>1 DEF Waits, Pool, Site
  <2> QED
    BY <2>2, <2>3, <2>4
<1> QED
  BY <1>3, <1>5 DEF Lines

LEMMA ShutdownKeeps ==
  ASSUME IInv, NEW i \in Proc, Shutdown(i)
  PROVE  IInv'
<1>1. TypeOK /\ Lines /\ UNCHANGED <<asks, req, row, free, reap, balance, paid, hit, faults>>
  BY DEF IInv, Shutdown
<1>2. /\ exec' \in ExecType
      /\ \A r \in Req : exec'[r] = exec[r] \/ (exec[r] = "queued" /\ exec'[r] = "none")
      /\ \A r \in Req : exec[r] = "queued" /\ req[r].at # i => exec'[r] = "queued"
  BY <1>1 DEF Shutdown, TypeOK, ExecType, Here
<1>3. queue' \in QueueType /\ Lines'
  BY <1>1, <1>2, LinesDropped DEF Shutdown
<1>4. proc' \in ProcType
  BY <1>1 DEF Shutdown, TypeOK, ProcType
<1>5. TypeOK'
  BY <1>1, <1>2, <1>3, <1>4 DEF TypeOK, ExecType, QueueType, Queues, ProcType, Site, Social
<1>6. ASSUME NEW r \in Req
      PROVE  Fund(r)'
  <2>1. Fund(r)
    BY DEF IInv
  <2>2. Kept(r)' => Kept(r)
    BY <1>1, <1>2 DEF Kept, At, Site, Social
  <2>3. Covered(r) => Covered(r)'
    BY <1>1, <1>2, <2>2 DEF Covered
  <2>4. Gratis(r) => Gratis(r)'
    BY <1>1, <1>2 DEF Gratis
  <2> QED
    BY <1>1, <1>2, <2>1, <2>3, <2>4 DEF Fund, At
<1> QED
  BY <1>3, <1>5, <1>6 DEF IInv

LEMMA DieKeeps ==
  ASSUME IInv, NEW i \in Proc, Die(i)
  PROVE  IInv'
<1>1. TypeOK /\ Lines /\ UNCHANGED <<asks, row, free, balance, paid, faults>>
  BY DEF IInv, Die
<1>2. /\ exec' \in ExecType
      /\ \A r \in Req : exec'[r] \in {exec[r], "none"}
      /\ \A r \in Req : exec[r] = "queued" /\ req[r].at # i => exec'[r] = "queued"
  BY <1>1 DEF Die, TypeOK, ExecType, Here
<1>3. /\ req' \in ReqType
      /\ \A r \in Req : /\ req'[r].at = req[r].at
                       /\ \/ req'[r].pc = req[r].pc
                          \/ req'[r].pc = "dead" /\ req[r].pc \in Handling
  <2>1. req' = [r \in Req |-> IF r \in Here(i) /\ req[r].pc \in Handling
                             THEN [req[r] EXCEPT !.pc = "dead"] ELSE req[r]]
    BY DEF Die
  <2>2. ASSUME NEW r \in Req
        PROVE  /\ req'[r] \in [pc : {"new"} \cup Handling \cup Final, at : Proc]
               /\ req'[r].at = req[r].at
               /\ \/ req'[r].pc = req[r].pc
                  \/ req'[r].pc = "dead" /\ req[r].pc \in Handling
    <3>1. req[r] \in [pc : {"new"} \cup Handling \cup Final, at : Proc]
      BY <1>1 DEF TypeOK
    <3>2. CASE req'[r] = req[r]
      BY <3>1, <3>2
    <3>3. CASE req'[r] = [req[r] EXCEPT !.pc = "dead"] /\ req[r].pc \in Handling
      BY <3>1, <3>3 DEF Final
    <3> QED
      BY <2>1, <3>2, <3>3
  <2> QED
    BY <2>1, <2>2 DEF ReqType
<1>4. queue' \in QueueType /\ Lines'
  BY <1>1, <1>2, <1>3, LinesDropped DEF Die
<1>5. proc' \in ProcType /\ reap' \subseteq reap /\ hit' \subseteq Req
  BY <1>1 DEF Die, TypeOK, ProcType, Here, Social
<1>6. TypeOK'
  BY <1>1, <1>2, <1>3, <1>4, <1>5 DEF TypeOK, ExecType, ReqType, QueueType, Queues, ProcType, Site, Social
<1>7. ASSUME NEW r \in Req
      PROVE  Fund(r)'
  <2>1. Fund(r)
    BY DEF IInv
  <2>2. Kept(r)' => Kept(r)
    BY <1>1, <1>2, <1>3 DEF Kept, At, Site, Social
  <2>3. Covered(r) => Covered(r)'
    BY <1>1, <1>2, <1>5, <2>2 DEF Covered
  <2>4. Gratis(r) => Gratis(r)'
    BY <1>1, <1>2 DEF Gratis
  <2>5. "dead" \notin {"new", "deduct", "insert", "start", "accepted"} /\ "accepted" \notin Handling
    BY DEF Handling
  <2> QED
    BY <1>1, <1>2, <1>3, <1>5, <2>1, <2>3, <2>4, <2>5 DEF Fund, At
<1> QED
  BY <1>4, <1>6, <1>7 DEF IInv

\* The boot reaper: the rows it flips lose their claim to the payment, and it
\* takes it over or forgets it.
LEMMA BootKeeps ==
  ASSUME IInv, NEW i \in Proc, Boot(i) \/ BootUnreaped(i)
  PROVE  IInv'
<1>1. TypeOK /\ Lines /\ UNCHANGED <<asks, req, free, exec, queue, balance, paid>>
  BY DEF IInv, Boot, BootUnreaped
<1>2. /\ proc' \in ProcType /\ reap' \subseteq Social /\ hit' \subseteq Req /\ faults' \in 0..MaxFaults
  <2>1. proc' \in ProcType
    BY <1>1 DEF Boot, BootUnreaped, TypeOK, ProcType
  <2>2. reap' \subseteq Social /\ hit' \subseteq Req
    BY <1>1 DEF Boot, BootUnreaped, TypeOK, Stale, Social
  <2>3. faults' \in 0..MaxFaults
    BY <1>1, JobsAssumption DEF Boot, BootUnreaped, TypeOK
  <2> QED
    BY <2>1, <2>2, <2>3
<1>3. /\ row' \in RowType
      /\ \A r \in Req : row'[r] = IF r \in Stale /\ row' # row THEN "error" ELSE row[r]
      /\ \/ reap' = reap
         \/ reap' = Stale /\ \A r \in Stale : row'[r] = "error"
  BY <1>1 DEF Boot, BootUnreaped, TypeOK, RowType, Stale, Social
<1>4. TypeOK'
  BY <1>1, <1>2, <1>3 DEF TypeOK, ProcType, RowType, Site, Social
<1>5. Lines'
  BY <1>1, LinesKept
<1>6. ASSUME NEW r \in Req
      PROVE  Fund(r)'
  <2>1. Fund(r)
    BY DEF IInv
  <2>2. r \in Stale <=> r \in Social /\ row[r] \in Open
    BY DEF Stale
  <2>3. Kept(r)' => Kept(r)
    BY <1>1, <1>3, <2>2 DEF Kept, At, Site, Social, Open
  <2>4. r \in Stale => Kept(r) /\ r \notin Site
    BY <2>2 DEF Kept, Social
  <2>5. r \in Stale /\ row'[r] = "error" => ~Kept(r)'
    BY <1>1, <2>2 DEF Kept, Site, Social, Open
  <2>6. Covered(r) => Covered(r)'
    BY <1>1, <1>3, <2>3, <2>4, <2>5 DEF Covered
  <2>7. Gratis(r) => Gratis(r)'
    BY <1>1 DEF Gratis
  <2>8. row'[r] = "none" => row[r] = "none" /\ r \notin Stale
    BY <1>3, <2>2 DEF Open
  <2>9. row[r] = "none" => row'[r] = "none"
    BY <1>3, <2>2 DEF Open
  <2>10. row'[r] = "completed" => row[r] = "completed"
    BY <1>3
  <2> QED
    BY <1>1, <1>3, <2>1, <2>6, <2>7, <2>8, <2>9, <2>10 DEF Fund, At
<1> QED
  BY <1>4, <1>5, <1>6 DEF IInv

LEMMA ReapRefundKeeps ==
  ASSUME IInv, NEW r \in Req, ReapRefund(r)
  PROVE  IInv'
<1>1. /\ TypeOK /\ Lines /\ UNCHANGED <<asks, req, row, free, exec, queue, proc>>
      /\ r \in reap /\ reap' = reap \ {r}
  BY DEF IInv, ReapRefund
<1>2. Take(r) \/ Give(r) \/ NoMoney
  BY DEF ReapRefund, GiveOrNot
<1>3. Fault(r) \/ NoFault
  BY DEF ReapRefund
<1>4. TypeOK'
  BY <1>1, <1>2, <1>3, MoneyTyped, FaultTyped DEF TypeOK, Site, Social
<1>5. Lines'
  BY <1>1, LinesKept
<1>6. ASSUME NEW s \in Req \ {r}
      PROVE  Fund(s)'
  <2>1. Fund(s)
    BY DEF IInv
  <2> QED
    BY <1>1, <1>2, <2>1, MoneyTyped, OtherFund
<1>7. Fund(r)'
  <2>1. Fund(r) /\ r \notin free /\ paid \in [Req -> Int]
    BY <1>1 DEF IInv, TypeOK, Social
  <2>2. paid'[r] \in {paid[r], paid[r] - 1}
    BY <2>1 DEF ReapRefund, Give, GiveOrNot, NoMoney
  <2>3. Kept(r)' <=> Kept(r)
    BY <1>1 DEF Kept, At, Site, Social
  <2>4. Covered(r) => Covered(r)'
    BY <1>1, <2>2, <2>3 DEF Covered
  <2>5. row[r] # "none"
    BY <1>1, <2>1 DEF Fund
  <2> QED
    BY <1>1, <2>1, <2>4, <2>5 DEF Fund, At
<1> QED
  BY <1>4, <1>5, <1>6, <1>7 DEF IInv

-----------------------------------------------------------------------------
(* The invariant                                                           *)

LEMMA Initially == Init => IInv
<1> SUFFICES ASSUME Init PROVE IInv
  OBVIOUS
<1>1. Proc \subseteq Int /\ 1 \in Proc
  BY JobsAssumption DEF Proc
<1>2. \A k \in Kinds : NoQueue[k] = <<>>
  BY DEF NoQueue, Kinds
<1>3. NoQueue \in Queues
  BY DEF NoQueue, Queues
<1>4. queue = [i \in Proc |-> NoQueue]
  BY DEF Init, NoQueue
<1>5. queue \in QueueType
  BY <1>3, <1>4 DEF QueueType
<1>6. TypeOK
  BY <1>1, <1>5, JobsAssumption DEF Init, TypeOK, QueueType, Queues
<1>7. \A i \in Proc, k \in Kinds : Len(queue[i][k]) = 0
  BY <1>2, <1>4
<1>8. Lines
  BY <1>7 DEF Lines
<1>9. \A r \in Req : Fund(r)
  BY DEF Init, Fund, At
<1> QED
  BY <1>6, <1>8, <1>9 DEF IInv

LEMMA RequestKeeps ==
  ASSUME IInv, NEW r \in Req, RequestStep(r)
  PROVE  IInv'
<1>1. TypeOK /\ Lines /\ Fund(r)
  BY DEF IInv
<1>2. Handled(r) /\ UNCHANGED <<asks, proc, reap>> /\ (Start(r) \/ UNCHANGED workers)
  BY <1>1, ArrivalsHandled, MoneyHandled, RowHandled DEF RequestStep, workers
<1>3. Start(r) => exec[r] = "none" /\ UNCHANGED <<row, free, paid>> /\ req'[r].pc = "accepted" /\ At(r, "start")
  BY <1>1 DEF Fund, Start, At, Goto, TypeOK
<1>4. /\ exec' \in ExecType /\ queue' \in QueueType
      /\ \A s \in Req \ {r} : exec'[s] = exec[s]
      /\ Start(r) => Lines' /\ exec'[r] \in {"queued", "load"}
  <2>1. CASE Start(r)
    BY <1>1, <1>3, <2>1, StartStep
  <2>2. CASE UNCHANGED workers /\ ~Start(r)
    BY <1>1, <2>2 DEF workers, TypeOK, ExecType, QueueType, Queues
  <2> QED
    BY <1>2, <2>1, <2>2
<1>5. TypeOK'
  BY <1>1, <1>2, <1>4 DEF TypeOK, Handled, ReqType, RowType, ExecType, QueueType, Queues, Site, Social
<1>6. Lines'
  <2>1. CASE Start(r)
    BY <1>4, <2>1
  <2>2. CASE UNCHANGED workers /\ ~Start(r)
    <3>1. exec[r] = "none"
      BY <1>1, <2>2 DEF Fund, RequestStep, At, Refuse, Arrive, ArriveSite, Deduct, DeductFails, ReverseDeduct,
                  Insert, InsertRaces, InsertFails, refundThisRequest, Shed, ShedFails
    <3>2. \A s \in Req : exec[s] = "queued" => exec'[s] = "queued" /\ req'[s].at = req[s].at
      BY <1>2, <2>2, <3>1 DEF Handled, workers
    <3> QED
      BY <1>1, <1>2, <2>2, <3>2, LinesKept DEF workers
  <2> QED
    BY <1>2, <2>1, <2>2
<1>7. ASSUME NEW s \in Req \ {r}
      PROVE  Fund(s)'
  <2>1. Fund(s)
    BY DEF IInv
  <2> QED
    BY <1>2, <1>4, <2>1, OtherFund DEF Handled
<1>8. Fund(r)'
  <2>1. CASE Start(r)
    <3>1. IF r \in free THEN Gratis(r) ELSE Covered(r)
      BY <1>1, <1>3, <2>1 DEF Fund, At
    <3>2. Kept(r)' => Kept(r)
      BY <1>2, <1>3, <1>4, <2>1 DEF Kept, At, Site, Social
    <3>3. Covered(r) => Covered(r)'
      BY <1>2, <1>3, <1>4, <2>1, <3>2 DEF Covered
    <3>4. Gratis(r) => Gratis(r)'
      BY <1>3, <1>4, <2>1 DEF Gratis
    <3> QED
      BY <1>1, <1>2, <1>3, <2>1, <3>1, <3>3, <3>4 DEF Fund, At
  <2>2. CASE UNCHANGED workers /\ ~Start(r)
    BY <1>1, <1>2, <2>2, HandlerFund
  <2> QED
    BY <1>2, <2>1, <2>2
<1> QED
  BY <1>5, <1>6, <1>7, <1>8 DEF IInv

LEMMA JobKeeps ==
  ASSUME IInv, NEW r \in Req, JobStep(r)
  PROVE  IInv'
<1>1. TypeOK /\ Lines /\ Fund(r)
  BY DEF IInv
<1>2. /\ UNCHANGED <<asks, req, free, proc, reap>> /\ exec[r] \in Running
      /\ balance' \in Int /\ paid' \in [Req -> Int] /\ \A s \in Req \ {r} : paid'[s] = paid[s]
      /\ hit' \subseteq Req /\ faults' \in 0..MaxFaults
      /\ row' \in RowType /\ \A s \in Req \ {r} : row'[s] = row[s]
  BY <1>1, JobMoves, MoneyTyped, FaultTyped, RowTyped DEF handlers
<1>3. /\ exec' \in ExecType /\ queue' \in QueueType /\ Lines'
      /\ \A s \in Req \ {r} : exec'[s] = exec[s] \/ (exec[s] = "queued" /\ exec'[s] = "load")
  BY <1>1, <1>2, JobMoves, WorkerStep
<1>4. TypeOK'
  BY <1>1, <1>2, <1>3 DEF TypeOK, RowType, ExecType, QueueType, Queues, Site, Social
<1>5. ASSUME NEW s \in Req \ {r}
      PROVE  Fund(s)'
  <2>1. Fund(s)
    BY DEF IInv
  <2> QED
    BY <1>2, <1>3, <2>1, OtherFund
<1> QED
  BY <1>1, <1>3, <1>4, <1>5, ExecutorFund DEF IInv

LEMMA ReadyKeeps ==
  ASSUME IInv, NEW i \in Proc, Ready(i)
  PROVE  IInv'
<1>1. TypeOK /\ Lines /\ UNCHANGED <<asks, req, row, free, exec, queue, reap, balance, paid, hit, faults>>
  BY DEF IInv, Ready
<1>2. TypeOK'
  <2>1. proc' \in ProcType
    BY <1>1 DEF TypeOK, Ready, ProcType
  <2> QED
    BY <1>1, <2>1 DEF TypeOK, ProcType, Site, Social
<1>3. \A r \in Req : Fund(r)'
  BY <1>1, OtherFund DEF IInv
<1> QED
  BY <1>1, <1>2, <1>3, LinesKept DEF IInv

LEMMA Inductive == IInv /\ [Next]_vars => IInv'
<1> SUFFICES ASSUME IInv, [Next]_vars PROVE IInv'
  OBVIOUS
<1>1. ASSUME NEW r \in Req, RequestStep(r) PROVE IInv'
  BY <1>1, RequestKeeps
<1>2. ASSUME NEW r \in Req, JobStep(r) PROVE IInv'
  BY <1>2, JobKeeps
<1>3. ASSUME NEW r \in Req, ReapRefund(r) PROVE IInv'
  BY <1>3, ReapRefundKeeps
<1>4. ASSUME NEW i \in Proc, ProcessStep(i) PROVE IInv'
  BY <1>4, ShutdownKeeps, DieKeeps, BootKeeps, ReadyKeeps DEF ProcessStep
<1>5. CASE UNCHANGED vars
  <2>1. TypeOK /\ Lines /\ UNCHANGED <<asks, req, row, free, exec, queue, proc, reap, balance, paid, hit, faults>>
    BY <1>5 DEF IInv, vars
  <2>2. TypeOK'
    BY <2>1 DEF TypeOK, Site, Social
  <2>3. \A r \in Req : Fund(r)'
    BY <2>1, OtherFund DEF IInv
  <2> QED
    BY <2>1, <2>2, <2>3, LinesKept DEF IInv
<1> QED
  BY <1>1, <1>2, <1>3, <1>4, <1>5 DEF Next

LEMMA Invariance == Spec => []IInv
  BY Initially, Inductive, PTL DEF Spec

-----------------------------------------------------------------------------
(* The theorems                                                            *)

\* Every variable keeps its type, and no queue holds a job of the other kind
\* (jobPool.ts).
THEOREM TypeCorrect == Spec => []TypeOK
<1>1. IInv => TypeOK
  BY DEF IInv
<1> QED
  BY <1>1, Invariance, PTL

\* A completed job was paid once and not refunded, or was free, however many
\* requests, workers, restarts, stragglers, reapers and lost answers there are
\* (completeSocialPost, failSocialPost, reapStaleSocialPosts).
THEOREM CompletedPaid == Spec => []CompletedIsPaid
<1>1. IInv => CompletedIsPaid
  <2> SUFFICES ASSUME IInv, NEW r \in Req, row[r] = "completed", r \notin free
               PROVE  paid[r] = 1
    BY DEF CompletedIsPaid
  <2>1. At(r, "accepted") /\ Covered(r) /\ Kept(r)
    BY DEF IInv, Fund, At, Kept
  <2> QED
    BY <2>1 DEF Covered
<1> QED
  BY <1>1, Invariance, PTL

\* A job that was answered 202 is refunded once at most: the executor and the
\* boot reaper never both do (executeSocialJob, reapStaleSocialJobsOnBoot).
THEOREM RefundedAtMostOnce == Spec => []AcceptedRefundedOnce
<1>1. IInv => AcceptedRefundedOnce
  BY DEF IInv, AcceptedRefundedOnce, Fund, At, Covered, Gratis
<1> QED
  BY <1>1, Invariance, PTL

\* No step changes the status of a post that is completed or has failed: not a
\* straggling executor's, nor the reaper's, nor the insertion of a retry
\* (updateSocialPostStatus, completeSocialPost, failSocialPost).
THEOREM TerminalForGood == Spec => TerminalStays
<1>1. ASSUME IInv, Next, NEW r \in Social, row[r] \in {"completed", "error"}
      PROVE  row'[r] = row[r]
  <2>1. r \in Req /\ r \notin Site /\ row[r] \notin Open /\ Fund(r) /\ TypeOK
    BY <1>1 DEF Social, Open, IInv
  <2>2. \A s \in Req, status \in {"completed", "error"} \cup Open : SetRow(s, status)[r] = row[r]
    BY <2>1 DEF SetRow, TypeOK
  <2>3. ASSUME NEW s \in Req, RequestStep(s) PROVE row'[r] = row[r]
    <3>1. UNCHANGED row \/ row' = SetRow(s, "error") \/ (At(s, "insert") /\ row' = [row EXCEPT ![s] = "pending"])
      BY <2>3 DEF RequestStep, Refuse, Arrive, ArriveSite, Deduct, DeductFails, ReverseDeduct, Insert, InsertRaces,
                  InsertFails, refundThisRequest, Start, Shed, ShedFails
    <3>2. At(r, "insert") => row[r] = "none"
      BY <2>1 DEF Fund, At
    <3> QED
      BY <1>1, <2>1, <2>2, <3>1, <3>2 DEF TypeOK
  <2>4. ASSUME NEW s \in Req, JobStep(s) PROVE row'[r] = row[r]
    BY <2>2, <2>4, JobMoves
  <2>5. ASSUME NEW i \in Proc, ProcessStep(i) PROVE row'[r] = row[r]
    BY <2>1, <2>5 DEF ProcessStep, Shutdown, Die, Boot, BootUnreaped, Ready, Stale
  <2>6. ASSUME NEW s \in Req, ReapRefund(s) PROVE row'[r] = row[r]
    BY <2>6 DEF ReapRefund
  <2> QED
    BY <1>1, <2>3, <2>4, <2>5, <2>6 DEF Next
<1>2. IInv /\ [Next]_vars => [\A r \in Social : row[r] \in {"completed", "error"} => row'[r] = row[r]]_vars
  BY <1>1 DEF vars
<1> QED
  BY <1>2, Invariance, PTL DEF Spec, TerminalStays


-----------------------------------------------------------------------------
(* Nobody has paid for nothing                                             *)

\* Somebody is still to serve the request or to give its payment back.
Due(r) ==
  \/ req[r].pc \in {"insert", "reverse", "race", "shed"}
  \/ row[r] \in Open \cup {"completed"}
  \/ exec[r] = "refund" \/ r \in reap

\* A request that no failure has hit has paid at most once, nothing if it is
\* free, and never without somebody to answer for it.
Even(r) ==
  \/ r \in hit
  \/ /\ paid[r] <= 1 /\ (r \in free => paid[r] <= 0)
     /\ paid[r] = 1 => Due(r)

\* Processes start one after the other, and only one that starts has refunds to make.
Turns ==
  /\ \A j, k \in Proc : k < j /\ proc[j] # "off" => proc[k] \in {"stopping", "gone"}
  /\ reap # {} => \E j \in Proc : proc[j] = "booting"

AllEven == Turns /\ \A r \in Req : Even(r)
EInv == IInv /\ AllEven

\* Where nothing is paid and nobody who was to answer has gone.
LEMMA EvenKept ==
  ASSUME NEW r \in Req, Even(r), hit \subseteq hit', paid'[r] = paid[r], free' = free \/ paid[r] <= 0,
         r \in hit' \/ (Due(r) => Due(r)')
  PROVE  Even(r)'
  BY DEF Even

\* Where something is given back, or an answer about it is lost.
LEMMA EvenGiven ==
  ASSUME IInv, NEW r \in Req, Even(r), UNCHANGED free,
         (Give(r) /\ NoFault) \/ (GiveOrNot(r) /\ Fault(r))
  PROVE  Even(r)'
<1>1. CASE r \in hit'
  BY <1>1 DEF Even
<1>2. CASE r \notin hit'
  <2>1. r \notin hit /\ paid'[r] = paid[r] - 1 /\ paid[r] \in Int
    BY <1>2 DEF Give, NoFault, Fault, IInv, TypeOK
  <2> QED
    BY <2>1 DEF Even
<1> QED
  BY <1>1, <1>2

\* A request that no step is about.
LEMMA OtherEven ==
  ASSUME NEW s \in Req, Even(s), hit \subseteq hit', row'[s] = row[s], paid'[s] = paid[s],
         req'[s].pc = req[s].pc, s \in free' <=> s \in free, s \in reap' <=> s \in reap,
         exec'[s] = exec[s] \/ (exec[s] = "queued" /\ exec'[s] = "load")
  PROVE  Even(s)'
<1>1. Due(s) => Due(s)'
  BY DEF Due, Open
<1> QED
  BY <1>1 DEF Even

\* The handler of the request itself.
LEMMA HandlerEven ==
  ASSUME IInv, NEW r \in Req, Even(r), RequestStep(r)
  PROVE  Even(r)'
<1>1. TypeOK /\ Fund(r) /\ paid \in [Req -> Int] /\ row \in RowType /\ req \in ReqType
  BY DEF IInv, TypeOK, RowType, ReqType
<1>2. ASSUME NEW i \in Proc, Refuse(r, i) \/ Arrive(r, i) \/ ArriveSite(r, i)
      PROVE  Even(r)'
  <2>1. paid[r] = 0 /\ UNCHANGED <<paid, hit>>
    BY <1>1, <1>2 DEF Fund, At, Refuse, Arrive, ArriveSite
  <2> QED
    BY <2>1 DEF Even
<1>3. CASE Deduct(r)
  <2>1. paid[r] = 0 /\ r \notin free
    BY <1>1, <1>3 DEF Deduct, Fund, At
  <2>2. paid'[r] = 1 /\ UNCHANGED <<free, hit>> /\ req'[r].pc \in {"reverse", "insert"}
    BY <1>1, <1>3, <2>1 DEF Deduct, Take, Goto, ReqType
  <2> QED
    BY <2>1, <2>2 DEF Even, Due
<1>4. CASE DeductFails(r) \/ InsertFails(r) \/ ShedFails(r)
  BY <1>4 DEF DeductFails, InsertFails, ShedFails, Fault, Even
<1>5. CASE ReverseDeduct(r)
  BY <1>5, EvenGiven DEF ReverseDeduct
<1>6. CASE refundThisRequest(r)
  <2>1. CASE r \in free
    <3>1. UNCHANGED <<paid, free, hit>>
      BY <1>6, <2>1 DEF refundThisRequest, NoMoney, NoFault
    <3>2. r \in hit \/ paid[r] # 1
      BY <1>1, <2>1 DEF Even
    <3> QED
      BY <3>1, <3>2 DEF Even
  <2>2. CASE r \notin free
    BY <1>6, <2>2, EvenGiven DEF refundThisRequest
  <2> QED
    BY <2>1, <2>2
<1>7. CASE Insert(r) \/ InsertRaces(r) \/ Start(r) \/ Shed(r)
  <2>1. UNCHANGED <<paid, free, hit, reap>>
    BY <1>7 DEF Insert, InsertRaces, Start, Shed, workers
  <2>2. CASE Insert(r)
    <3>1. row'[r] = "pending"
      BY <1>1, <2>2 DEF Insert, RowType
    <3> QED
      BY <2>1, <3>1, EvenKept DEF Due, Open
  <2>3. CASE InsertRaces(r) \/ Shed(r)
    <3>1. req'[r].pc \in {"race", "shed"}
      BY <1>1, <2>3 DEF InsertRaces, Shed, Goto, ReqType
    <3> QED
      BY <2>1, <3>1, EvenKept DEF Due
  <2>4. CASE Start(r)
    <3>1. At(r, "start") /\ UNCHANGED row /\ exec[r] = "none"
      BY <1>1, <2>4 DEF Start, Fund, At
    <3> QED
      BY <2>1, <3>1, EvenKept DEF Due, At
  <2> QED
    BY <1>7, <2>2, <2>3, <2>4
<1> QED
  BY <1>2, <1>3, <1>4, <1>5, <1>6, <1>7 DEF RequestStep

\* The executor of the request's job.
LEMMA ExecutorEven ==
  ASSUME IInv, NEW r \in Req, Even(r), JobStep(r)
  PROVE  Even(r)'
<1>1. /\ TypeOK /\ Lines /\ Fund(r) /\ row \in RowType /\ exec \in ExecType
      /\ UNCHANGED <<asks, req, free, reap>> /\ exec[r] \in Running /\ hit \subseteq hit'
      /\ At(r, "accepted")
  BY JobMoves DEF IInv, TypeOK, RowType, ExecType, handlers, Fault, NoFault, Fund, Running
<1>2. CASE Load(r) \/ Publish(r) \/ WorkFails(r) \/ Complete(r) \/ CompleteFails(r)
  <2>1. /\ paid' = paid /\ exec[r] # "refund"
        /\ \E status \in Open \cup {"completed"} : row' \in {row, SetRow(r, status)}
    BY <1>2 DEF Load, Publish, WorkFails, Complete, CompleteFails, NoMoney, Open
  <2>2. row[r] \in Open \cup {"completed"} => row'[r] \in Open \cup {"completed"}
    BY <1>1, <2>1 DEF SetRow, RowType
  <2>3. Due(r) => Due(r)'
    BY <1>1, <2>1, <2>2 DEF Due, At
  <2> QED
    BY <1>1, <2>1, <2>3, EvenKept
<1>3. CASE Fail(r)
  <2>1. paid' = paid /\ exec[r] = "fail" /\ row' = SetRow(r, "error") /\ hit' = hit
    BY <1>3 DEF Fail, NoMoney, NoFault
  <2>2. CASE r \notin free /\ (r \in Site \/ row[r] \in Open)
    <3>1. exec'[r] = "refund"
      BY <1>1, <1>3, <2>2 DEF Fail, Become, ExecType
    <3> QED
      BY <1>1, <2>1, <3>1, EvenKept DEF Due
  <2>3. CASE r \in free
    <3>1. Gratis(r)
      BY <1>1, <2>3 DEF Fund, At
    <3> QED
      BY <1>1, <2>1, <3>1 DEF Even, Gratis
  <2>4. CASE r \notin Site /\ row[r] \notin Open
    <3>1. row'[r] = row[r]
      BY <1>1, <2>1, <2>4 DEF SetRow, RowType
    <3>2. Due(r) => Due(r)'
      BY <1>1, <2>1, <3>1 DEF Due, At
    <3> QED
      BY <1>1, <2>1, <3>2, EvenKept
  <2> QED
    BY <2>2, <2>3, <2>4
<1>4. CASE FailThrows(r)
  BY <1>4 DEF FailThrows, Fault, Even
<1>5. CASE Refund(r)
  BY <1>1, <1>5, EvenGiven DEF Refund
<1> QED
  BY <1>2, <1>3, <1>4, <1>5 DEF JobStep

\* When a process starts, the one before has made its refunds or lost them.
LEMMA NobodyStarts ==
  ASSUME Turns, NEW i \in Proc, Boot(i) \/ BootUnreaped(i)
  PROVE  reap = {}
<1>1. i > 1 /\ i - 1 \in Proc /\ proc[i] = "off" /\ proc[i - 1] \in {"stopping", "gone"} /\ Proc \subseteq Int
  BY JobsAssumption DEF Boot, BootUnreaped, Proc
<1>2. SUFFICES ASSUME NEW j \in Proc, proc[j] = "booting" PROVE FALSE
  BY DEF Turns
<1>3. j # i /\ j # i - 1
  BY <1>1, <1>2
<1>4. CASE j < i - 1
  BY <1>1, <1>2, <1>4 DEF Turns
<1>5. CASE j > i
  BY <1>1, <1>2, <1>5 DEF Turns
<1> QED
  BY <1>1, <1>3, <1>4, <1>5

\* One process changes its state, and what it had to give back is settled.
LEMMA TurnTaken ==
  ASSUME IInv, Turns, NEW i \in Proc, ProcessStep(i)
  PROVE  Turns'
<1>1. proc \in ProcType /\ \A j \in Proc \ {i} : proc'[j] = proc[j]
  BY DEF ProcessStep, Shutdown, Die, Boot, BootUnreaped, Ready, IInv, TypeOK, ProcType
<1>2. CASE Shutdown(i) \/ Die(i) \/ Ready(i)
  <2>1. /\ proc[i] # "off" /\ (proc[i] \in {"stopping", "gone"} => proc'[i] \in {"stopping", "gone"})
        /\ reap' # {} => reap' = reap /\ proc[i] # "booting"
    BY <1>1, <1>2 DEF Shutdown, Die, Ready, ProcType
  <2> QED
    BY <1>1, <2>1 DEF Turns
<1>3. CASE Boot(i) \/ BootUnreaped(i)
  <2>1. /\ proc[i] = "off" /\ proc'[i] = "booting"
        /\ i - 1 \in Proc /\ proc[i - 1] \in {"stopping", "gone"} /\ Proc \subseteq Int
    BY <1>1, <1>3, JobsAssumption DEF Boot, BootUnreaped, Proc, ProcType
  <2>2. ASSUME NEW k \in Proc, k < i PROVE proc[k] \in {"stopping", "gone"}
    <3>1. k = i - 1 \/ k < i - 1
      BY <2>1, <2>2
    <3> QED
      BY <2>1, <3>1 DEF Turns
  <2> QED
    BY <1>1, <2>1, <2>2 DEF Turns
<1> QED
  BY <1>2, <1>3 DEF ProcessStep

\* Processes that stop, die or start.
LEMMA ProcessEven ==
  ASSUME IInv, Turns, NEW i \in Proc, ProcessStep(i), NEW r \in Req, Even(r)
  PROVE  Even(r)'
<1>1. UNCHANGED <<free, paid>> /\ hit \subseteq hit' /\ exec \in ExecType /\ req \in ReqType /\ row \in RowType
  BY DEF ProcessStep, Shutdown, Die, Boot, BootUnreaped, Ready, IInv, TypeOK, ExecType, ReqType, RowType
<1>2. CASE Shutdown(i)
  <2>1. UNCHANGED <<req, row, reap>> /\ (exec[r] = "refund" => exec'[r] = "refund")
    BY <1>2 DEF Shutdown
  <2> QED
    BY <1>1, <2>1, EvenKept DEF Due
<1>3. CASE Die(i)
  <2>1. CASE r \in hit'
    BY <2>1 DEF Even
  <2>2. CASE r \notin hit'
    <3>1. /\ row' = row
          /\ r \in Here(i) => req[r].pc \notin Unsettled /\ exec[r] # "refund"
          /\ r \notin Here(i) => req'[r] = req[r] /\ exec'[r] = exec[r]
          /\ r \in reap => r \in reap'
      BY <1>3, <2>2 DEF Die
    <3>2. Due(r) => Due(r)'
      BY <3>1 DEF Due, Unsettled
    <3> QED
      BY <1>1, <3>2, EvenKept
  <2> QED
    BY <2>1, <2>2
<1>4. CASE Boot(i)
  <2>1. /\ UNCHANGED <<req, exec>> /\ reap' = Stale
        /\ r \notin Stale => row'[r] = row[r]
    BY <1>4 DEF Boot
  <2>2. reap = {}
    BY <1>4, NobodyStarts
  <2> QED
    BY <1>1, <2>1, <2>2, EvenKept DEF Due
<1>5. CASE BootUnreaped(i)
  <2>1. UNCHANGED <<req, exec, reap>> /\ (r \notin Stale => row'[r] = row[r]) /\ (r \in Stale => r \in hit')
    BY <1>5 DEF BootUnreaped
  <2> QED
    BY <1>1, <2>1, EvenKept DEF Due, Even
<1>6. CASE Ready(i)
  BY <1>1, <1>6, EvenKept DEF Ready, Due
<1> QED
  BY <1>2, <1>3, <1>4, <1>5, <1>6 DEF ProcessStep

\* A refund of the reaper.
LEMMA ReapEven ==
  ASSUME IInv, NEW r \in Req, Even(r), ReapRefund(r)
  PROVE  Even(r)'
  BY EvenGiven DEF ReapRefund

\* Unless a call of it failed or its process died at the wrong moment, a request
\* at rest has paid exactly for what was completed, for any number of requests,
\* processes and failures (routes/generate.ts, routes/socialGenerate.ts, jobPool.ts).
THEOREM NobodyPaysForNothing == Spec => []PaidIffServed
<1>1. Init => EInv
  <2> SUFFICES ASSUME Init PROVE EInv
    OBVIOUS
  <2>1. Turns
    BY JobsAssumption DEF Init, Turns, Proc
  <2>2. \A r \in Req : Even(r)
    BY DEF Init, Even
  <2> QED
    BY <2>1, <2>2, Initially DEF EInv, AllEven
<1>2. EInv /\ [Next]_vars => EInv'
  <2> SUFFICES ASSUME EInv, [Next]_vars PROVE EInv'
    OBVIOUS
  <2>0. IInv /\ TypeOK /\ Lines /\ Turns /\ \A r \in Req : Fund(r) /\ Even(r)
    BY DEF EInv, AllEven, IInv
  <2>1. IInv'
    BY <2>0, Inductive
  <2>2. ASSUME NEW r \in Req, RequestStep(r)
        PROVE  AllEven'
    <3>1. Handled(r) /\ UNCHANGED <<asks, proc, reap>> /\ (Start(r) \/ UNCHANGED workers)
      BY <2>0, <2>2, ArrivalsHandled, MoneyHandled, RowHandled DEF RequestStep, workers
    <3>2. hit \subseteq hit'
      BY <2>2 DEF RequestStep, Refuse, Arrive, ArriveSite, Deduct, DeductFails, ReverseDeduct, Insert,
                  InsertRaces, InsertFails, refundThisRequest, Start, Shed, ShedFails, Fault, NoFault
    <3>3. \A s \in Req \ {r} : exec'[s] = exec[s]
      <4>1. Start(r) => exec[r] = "none"
        BY <2>0 DEF Start, Fund, At
      <4> QED
        BY <2>0, <3>1, <4>1, StartStep DEF workers
    <3>4. ASSUME NEW s \in Req \ {r} PROVE Even(s)'
      BY <2>0, <3>1, <3>2, <3>3, OtherEven DEF Handled
    <3> QED
      BY <2>0, <2>2, <3>1, <3>4, HandlerEven DEF Turns, AllEven
  <2>3. ASSUME NEW r \in Req, JobStep(r)
        PROVE  AllEven'
    <3>1. /\ UNCHANGED <<asks, req, free, proc, reap>> /\ exec[r] \in Running
          /\ \A s \in Req \ {r} : paid'[s] = paid[s] /\ row'[s] = row[s]
          /\ hit \subseteq hit'
      BY <2>0, <2>3, JobMoves, MoneyTyped, RowTyped DEF handlers, Fault, NoFault
    <3>2. \A s \in Req \ {r} : exec'[s] = exec[s] \/ (exec[s] = "queued" /\ exec'[s] = "load")
      BY <2>0, <2>3, <3>1, JobMoves, WorkerStep
    <3>3. ASSUME NEW s \in Req \ {r} PROVE Even(s)'
      BY <2>0, <3>1, <3>2, OtherEven
    <3> QED
      BY <2>0, <2>3, <3>1, <3>3, ExecutorEven DEF Turns, AllEven
  <2>4. ASSUME NEW r \in Req, ReapRefund(r)
        PROVE  AllEven'
    <3>1. UNCHANGED <<asks, req, row, free, exec, queue, proc>> /\ reap' = reap \ {r} /\ hit \subseteq hit'
      BY <2>4 DEF ReapRefund, Fault, NoFault
    <3>2. \A s \in Req \ {r} : paid'[s] = paid[s]
      BY <2>0, <2>4, MoneyTyped DEF ReapRefund, GiveOrNot
    <3>3. ASSUME NEW s \in Req \ {r} PROVE Even(s)'
      BY <2>0, <3>1, <3>2, OtherEven
    <3> QED
      BY <2>0, <2>4, <3>1, <3>3, ReapEven DEF Turns, AllEven
  <2>5. ASSUME NEW i \in Proc, ProcessStep(i)
        PROVE  AllEven'
    BY <2>0, <2>5, TurnTaken, ProcessEven DEF AllEven
  <2>6. ASSUME UNCHANGED vars
        PROVE  AllEven'
    <3>1. UNCHANGED <<asks, req, row, free, exec, queue, proc, reap, balance, paid, hit, faults>>
      BY <2>6 DEF vars
    <3>2. ASSUME NEW s \in Req PROVE Even(s)'
      BY <2>0, <3>1, OtherEven
    <3>3. Turns'
      BY <2>0, <3>1 DEF Turns, AllEven
    <3> QED
      BY <3>2, <3>3 DEF AllEven
  <2>7. AllEven'
    BY <2>2, <2>3, <2>4, <2>5, <2>6 DEF Next
  <2> QED
    BY <2>1, <2>7 DEF EInv
<1>3. EInv => PaidIffServed
  <2> SUFFICES ASSUME EInv, NEW r \in Req, AtRest(r), r \notin hit
               PROVE  paid[r] = 1 <=> row[r] = "completed" /\ r \notin free
    BY DEF PaidIffServed
  <2>1. Even(r) /\ Fund(r)
    BY DEF EInv, AllEven, IInv
  <2>2. ~Due(r) \/ row[r] = "completed"
    BY DEF AtRest, Due, Final
  <2>3. row[r] = "completed" /\ r \notin free => paid[r] = 1
    BY <2>1 DEF Fund, At, Covered, Kept
  <2> QED
    BY <2>1, <2>2, <2>3 DEF Even
<1> QED
  BY <1>1, <1>2, <1>3, PTL DEF Spec

-----------------------------------------------------------------------------
(***************************************************************************)
(* Questions and the directory: AiService                                  *)
(***************************************************************************)

Asking == {"claim", "insert", "deduct", "reverse", "model", "cache", "log", "refund"}
Question == [pc : Idle \cup Asking, key : IdempotencyKey \cup {NoAsk}, files : Nat, cost : Nat]

\* Where a question has been charged.
Taken == {"reverse", "model", "cache", "log", "refund", "answered"}

Asked == QTypeOK /\ ask \in [Ask -> Question]

\* What each question has taken, by the place its handler is at.
Books == \A r \in Ask \ blame : charged[r] = IF ask[r].pc \in Taken THEN ask[r].cost ELSE 0

QuestionsInv == Asked /\ Books

-----------------------------------------------------------------------------
(* Questions                                                               *)

\* A handler goes on.
LEMMA AskGoes ==
  ASSUME Asked, NEW r \in Ask, NEW pc \in Idle \cup Asking, QGoto(r, pc)
  PROVE  /\ ask' \in [Ask -> Question]
         /\ ask'[r] = [ask[r] EXCEPT !.pc = pc]
         /\ ask'[r].pc = pc /\ ask'[r].cost = ask[r].cost /\ ask[r].cost \in Nat
         /\ \A x \in Ask \ {r} : ask'[x] = ask[x]
BY DEF Asked, QGoto, Question

\* A handler takes or gives back a number of credits.
LEMMA Pays ==
  ASSUME Asked, NEW r \in Ask, NEW n \in Int, Pay(r, n)
  PROVE  /\ funds' \in Int /\ charged' \in [Ask -> Int]
         /\ charged'[r] = charged[r] + n /\ charged[r] \in Int
         /\ \A x \in Ask \ {r} : charged'[x] = charged[x]
BY DEF Asked, QTypeOK, Pay

\* The log of a question.
LEMMA LogTyped ==
  ASSUME Asked, NEW r \in Ask, NEW s \in {"success", "error"}, Logs(r, s)
  PROVE  log' \in [IdempotencyKey -> {"none", "success", "error"}]
BY DEF Asked, QTypeOK, Logs

\* The parts of the type that a step changes make up the type.
LEMMA AskedNow ==
  ASSUME ask' \in [Ask -> Question], answers' \in [IdempotencyKey -> Ask \cup {NoAsk}],
         log' \in [IdempotencyKey -> {"none", "success", "error"}], used' \subseteq Ask, blame' \subseteq Ask,
         funds' \in Int, charged' \in [Ask -> Int]
  PROVE  Asked'
BY DEF Asked, QTypeOK, Question, Asking

\* A step of one handler that pays nothing and stays on its side of the books.
LEMMA Unpaid ==
  ASSUME QuestionsInv, NEW r \in Ask, NEW pc \in Idle \cup Asking, QGoto(r, pc),
         pc \in Taken <=> ask[r].pc \in Taken, UNCHANGED <<funds, charged, blame>>,
         answers' \in [IdempotencyKey -> Ask \cup {NoAsk}], log' \in [IdempotencyKey -> {"none", "success", "error"}], used' \subseteq Ask
  PROVE  QuestionsInv'
<1>1. /\ ask' \in [Ask -> Question]
      /\ ask'[r].pc = pc /\ ask'[r].cost = ask[r].cost
      /\ \A x \in Ask \ {r} : ask'[x] = ask[x]
  BY AskGoes DEF QuestionsInv
<1>2. Asked'
  BY <1>1, AskedNow DEF QuestionsInv, Asked, QTypeOK
<1> QED
  BY <1>1, <1>2 DEF QuestionsInv, Books

\* A step that pays what the question costs, or gives it back.
LEMMA Paid ==
  ASSUME QuestionsInv, NEW r \in Ask, NEW pc \in Idle \cup Asking, QGoto(r, pc), NEW n \in Int, Pay(r, n),
         \/ n = ask[r].cost /\ pc \in Taken /\ ask[r].pc \notin Taken
         \/ n = 0 - ask[r].cost /\ pc \notin Taken /\ ask[r].pc \in Taken,
         UNCHANGED <<answers, used, blame>>, log' \in [IdempotencyKey -> {"none", "success", "error"}]
  PROVE  QuestionsInv'
<1>1. /\ ask' \in [Ask -> Question]
      /\ ask'[r].pc = pc /\ ask'[r].cost = ask[r].cost /\ ask[r].cost \in Nat
      /\ \A x \in Ask \ {r} : ask'[x] = ask[x]
  BY AskGoes DEF QuestionsInv
<1>2. /\ funds' \in Int /\ charged' \in [Ask -> Int] /\ charged'[r] = charged[r] + n
      /\ \A x \in Ask \ {r} : charged'[x] = charged[x]
  BY Pays DEF QuestionsInv
<1>3. Asked'
  BY <1>1, <1>2, AskedNow DEF QuestionsInv, Asked, QTypeOK
<1>4. r \notin blame => charged'[r] = IF ask'[r].pc \in Taken THEN ask'[r].cost ELSE 0
  BY <1>1, <1>2 DEF QuestionsInv, Books
<1> QED
  BY <1>1, <1>2, <1>3, <1>4 DEF QuestionsInv, Books

LEMMA AskStepKept ==
  ASSUME QuestionsInv, NEW r \in Ask, AskStep(r)
  PROVE  QuestionsInv'
<1>0. /\ answers \in [IdempotencyKey -> Ask \cup {NoAsk}] /\ log \in [IdempotencyKey -> {"none", "success", "error"}]
      /\ used \subseteq Ask /\ ask[r].cost \in Nat /\ 0 - ask[r].cost \in Int /\ ask[r].cost \in Int
  BY DEF QuestionsInv, Asked, QTypeOK
<1> USE DEF Idle, Ends, Asking, Taken
<1>1. CASE ClaimFree(r)
  <2>1. PICK pc \in {"insert", "deduct"} : QGoto(r, pc)
    BY <1>1 DEF ClaimFree
  <2> QED
    BY <1>0, <1>1, <2>1, Unpaid DEF ClaimFree
<1>2. CASE InsertStats(r)
  <2>0. ask[r].pc = "insert" /\ UNCHANGED <<answers, log, funds, charged, blame>>
    BY <1>2 DEF InsertStats
  <2>1. CASE used = {}
    <3> DEFINE d == Discount(r)
    <3>1. d \in Nat
      BY QuestionsAssumption DEF Discount, QuestionsInv, Asked, Question
    <3>2. used' = {r} /\ ask' = [ask EXCEPT ![r].pc = "deduct", ![r].cost = d]
      BY <1>2, <2>1 DEF InsertStats
    <3> HIDE DEF d
    <3>3. ask' \in [Ask -> Question] /\ ask'[r].pc = "deduct" /\ \A x \in Ask \ {r} : ask'[x] = ask[x]
      BY <3>1, <3>2 DEF QuestionsInv, Asked, Question
    <3>4. Asked'
      BY <2>0, <3>2, <3>3, AskedNow DEF QuestionsInv, Asked, QTypeOK
    <3> QED
      BY <2>0, <3>3, <3>4 DEF QuestionsInv, Books
  <2>2. CASE used # {}
    <3>1. QGoto(r, "refused") /\ used' = used
      BY <1>2, <2>2 DEF InsertStats
    <3> QED
      BY <1>0, <2>0, <3>1, Unpaid
  <2> QED
    BY <2>1, <2>2
<1>3. CASE DeductCredits(r)
  <2>1. PICK pc \in {"reverse", "model"} : QGoto(r, pc)
    BY <1>3 DEF DeductCredits
  <2>2. ask[r].pc = "deduct" /\ Pay(r, ask[r].cost) /\ UNCHANGED <<answers, log, used, blame>>
    BY <1>3 DEF DeductCredits, Cost
  <2> QED
    BY <1>0, <2>1, <2>2, Paid
<1>4. CASE ReverseDeduction(r)
  <2>1. /\ ask[r].pc = "reverse" /\ Pay(r, 0 - ask[r].cost) /\ QGoto(r, "refused")
        /\ UNCHANGED <<answers, log, used, blame>>
    BY <1>4 DEF ReverseDeduction, Cost
  <2> QED
    BY <1>0, <2>1, Paid
<1>5. CASE AskAi(r)
  <2>1. PICK pc \in {"cache", "refund"} : QGoto(r, pc)
    BY <1>5 DEF AskAi
  <2> QED
    BY <1>0, <1>5, <2>1, Unpaid DEF AskAi
<1>6. CASE CacheAskResponse(r)
  <2>1. /\ ask[r].pc = "cache" /\ QGoto(r, "log") /\ UNCHANGED <<log, used, funds, charged, blame>>
        /\ answers' = [answers EXCEPT ![ask[r].key] = r]
    BY <1>6 DEF CacheAskResponse
  <2>2. answers' \in [IdempotencyKey -> Ask \cup {NoAsk}]
    BY <1>0, <2>1
  <2> QED
    BY <1>0, <2>1, <2>2, Unpaid
<1>7. CASE CreateAskGeneration(r)
  <2>1. PICK pc \in {"refund", "answered"} : QGoto(r, pc)
    BY <1>7 DEF CreateAskGeneration
  <2>2. log' \in [IdempotencyKey -> {"none", "success", "error"}]
    BY <1>7, LogTyped DEF CreateAskGeneration, QuestionsInv
  <2> QED
    BY <1>0, <1>7, <2>1, <2>2, Unpaid DEF CreateAskGeneration
<1>8. CASE RefundCredits(r)
  <2>1. /\ ask[r].pc = "refund" /\ Pay(r, 0 - ask[r].cost) /\ QGoto(r, "failed") /\ Logs(r, "error")
        /\ UNCHANGED <<answers, used, blame>>
    BY <1>8 DEF RefundCredits, Cost
  <2>2. log' \in [IdempotencyKey -> {"none", "success", "error"}]
    BY <2>1, LogTyped DEF QuestionsInv
  <2> QED
    BY <1>0, <2>1, <2>2, Paid
<1> QED
  BY <1>1, <1>2, <1>3, <1>4, <1>5, <1>6, <1>7, <1>8 DEF AskStep

LEMMA AskFaultKept ==
  ASSUME QuestionsInv, NEW r \in Ask, AskFault(r)
  PROVE  QuestionsInv'
<1> USE DEF QuestionsInv
<1>0. /\ answers \in [IdempotencyKey -> Ask \cup {NoAsk}] /\ log \in [IdempotencyKey -> {"none", "success", "error"}]
      /\ used \subseteq Ask /\ blame \subseteq Ask /\ funds \in Int /\ charged \in [Ask -> Int]
      /\ ask[r].cost \in Nat
  BY DEF Asked, QTypeOK
<1>1. PICK n \in Int, pc \in {"refused", "failed", "refund"} :
        /\ Pay(r, n) \/ UNCHANGED <<funds, charged>>
        /\ QGoto(r, pc) /\ blame' = blame \cup {r} /\ UNCHANGED <<answers, used>>
        /\ Logs(r, "error") \/ UNCHANGED log
  <2>1. ask[r].cost \in Int /\ 0 - ask[r].cost \in Int
    BY <1>0
  <2> QED
    BY <2>1 DEF AskFault, DeductionFails, MkdirFails, RefundFails, SaveFails, PayOrNot, Broken, Cost
<1>2. pc \in Idle \cup Asking
  BY DEF Idle, Ends, Asking
<1>3. log' \in [IdempotencyKey -> {"none", "success", "error"}]
  BY <1>0, <1>1, LogTyped
<1>4. funds' \in Int /\ charged' \in [Ask -> Int] /\ \A x \in Ask \ {r} : charged'[x] = charged[x]
  BY <1>0, <1>1, Pays
<1>5. Asked'
  BY <1>0, <1>1, <1>2, <1>3, <1>4, AskGoes, AskedNow
<1> QED
  BY <1>1, <1>2, <1>4, <1>5, AskGoes DEF Books

LEMMA ArriveKept ==
  ASSUME QuestionsInv, NEW r, NEW k \in IdempotencyKey, NEW n \in Files, QArrive(r, k, n)
  PROVE  QuestionsInv'
<1> USE DEF QuestionsInv
<1>1. PICK pc \in {"refused", "claim", "cached"} :
        ask' = [ask EXCEPT ![r] = [pc |-> pc, key |-> k, files |-> n, cost |-> n]]
  BY DEF QArrive
<1> DEFINE q == [pc |-> pc, key |-> k, files |-> n, cost |-> n]
<1>2. q \in Question /\ q.pc \notin Taken
  BY QuestionsAssumption DEF Question, Idle, Ends, Asking, Taken
<1>3. ask[r].pc = "new" /\ UNCHANGED <<answers, log, used, funds, charged, blame>>
  BY DEF QArrive
<1>4. ask' = [ask EXCEPT ![r] = q]
  BY <1>1
<1> HIDE DEF q
<1>5. ask' \in [Ask -> Question] /\ \A x \in Ask : ask'[x] = IF x = r THEN q ELSE ask[x]
  BY <1>2, <1>4 DEF Asked
<1>6. Asked'
  BY <1>3, <1>5, AskedNow DEF Asked, QTypeOK
<1> QED
  BY <1>2, <1>3, <1>5, <1>6 DEF Books, Taken

LEMMA StopAsksKept == ASSUME QuestionsInv, StopAsks PROVE QuestionsInv'
<1> USE DEF QuestionsInv
<1>1. /\ ask' \in [Ask -> Question]
      /\ \A x \in Ask : ask'[x] = ask[x] \/ x \in blame'
      /\ blame \subseteq blame' /\ blame' \subseteq Ask
      /\ UNCHANGED <<answers, log, used, funds, charged>>
  BY DEF StopAsks, Asked, QTypeOK, Question, Idle, Ends
<1>2. Asked'
  BY <1>1, AskedNow DEF Asked, QTypeOK
<1> QED
  BY <1>1, <1>2 DEF Books

LEMMA CleanupKept == ASSUME QuestionsInv, NEW k \in IdempotencyKey, CleanupExpired(k) PROVE QuestionsInv'
BY DEF QuestionsInv, CleanupExpired, Asked, QTypeOK, Books

LEMMA QuestionsInit == QInit => QuestionsInv
BY QuestionsAssumption DEF QInit, QuestionsInv, Asked, QTypeOK, NewAsk, Question, Idle, Ends, Books, Taken

LEMMA PaidFollows == QuestionsInv => PaidIffAnswered
BY DEF QuestionsInv, Books, PaidIffAnswered, Cost, Ends, Taken


-----------------------------------------------------------------------------
(* The directory: its invariant                                            *)

Row == [status : Statuses, owner : Owner \cup {None}, group : Text \cup {None},
        listed : BOOLEAN, delisted : BOOLEAN, at : 0..Cardinality(Build),
        base : Build \cup {None}, cid : Build \cup {None}, source : BOOLEAN, wanted : BOOLEAN,
        category : Slug \cup {None}]
Handler == [pc : {"new", "answered", "refused", "failed", "dead", "query", "page", "count", "report", "set",
                  "clear", "resolve", "cleared", "close"},
            b : Build \cup {None}, on : BOOLEAN, page : SUBSET Build, filter : Slug \cup {All},
            since : Nat]
Summary == [pc : {"none", "needed", "model"}, b : Build \cup {None}, from : SUBSET Slug]
Page == [filter : Slug \cup {All}, page : SUBSET Build, since : Nat]

Filed ==
  /\ build \in [Build -> Row] /\ call \in [Call -> Handler]
  /\ task \in [Build \cup Call -> Summary] /\ active \subseteq Slug
  /\ cache \in Seq(Page) /\ Len(cache) <= MaxPages
  /\ late \subseteq Build /\ clears \in Nat
  /\ \A i \in Call : call[i].pc \in {"set", "clear"} => call[i].b \in Rows
  /\ \A w \in Build \cup Call : task[w].pc # "none" => task[w].b \in Build

\* The ids that clients have sent as a group are those of rows.
Named == \A b \in Rows : build[b].group \in Build => build[b].group \in Rows

\* What was removed has a completed build that bears the mark.
Marked == \A k \in removed : \E c \in Done : GroupKey(c) = k /\ build[c].delisted

\* Of what was taken out, only builds that were under way are listed, and rows of
\* a website for which a row without a group is taken for one of its own.
Out == \A c \in Done \cup InProgress :
         GroupKey(c) \in withdrawn /\ build[c].listed => c \in late \/ Aliased(c)

\* A page that no clearing has outdated shows what some build still lists, or
\* what is about to be cleared, or what failed before it was.
Fine(b) == \/ \E c \in SameSite(b) \cap Done : build[c].listed
           \/ \E i \in Call : call[i].pc = "clear" /\ GroupKey(call[i].b) = GroupKey(b)
           \/ GroupKey(b) \in uncleared
Current(p) == p.since <= clears /\ (p.since = clears => \A b \in p.page : b \in Rows /\ Fine(b))
Pages == /\ \A i \in DOMAIN cache : Current(cache[i])
         /\ \A i \in Call : call[i].pc = "page" => Current(call[i])

DirectoryInv == Filed /\ Named /\ Marked /\ Out /\ Pages

-----------------------------------------------------------------------------
(* What steps do to rows and to handlers                                   *)

\* No row goes, and those there are stay with their owner and their group.
Keeps == /\ \A b \in Rows : b \in Rows'
         /\ \A b \in Rows : build'[b].owner = build[b].owner /\ build'[b].group = build[b].group

\* What is completed and listed stays so.
StaysListed == \A c \in Done : build[c].listed => c \in Done' /\ build'[c].listed

\* Handlers that are about to clear the cache remain there, or fail before they do;
\* and none gets a page.
ClearsStay == \A x \in Call : call[x].pc = "clear" => \/ call'[x].pc = "clear" /\ call'[x].b = call[x].b
                                                    \/ GroupKey(call[x].b) \in uncleared'
Tame == /\ call' \in [Call -> Handler]
        /\ \A x \in Call : call'[x].pc \in {"set", "clear"} => call'[x].b \in Rows
        /\ ClearsStay
        /\ \A x \in Call : call'[x].pc = "page" => call'[x] = call[x]

\* A row stays of its website.
LEMMA KeysKept == ASSUME Keeps, NEW b \in Rows PROVE GroupKey(b)' = GroupKey(b)
BY DEF Keeps, GroupKey

\* Two rows of a website remain of one.
LEMMA AliasedKept == ASSUME Keeps, NEW b \in Rows, Aliased(b) PROVE Aliased(b)'
<1>1. PICK c, d \in Rows : GroupKey(c) = GroupKey(b) /\ GroupKey(d) = GroupKey(b) /\ c # d /\ Alone(c)
  BY DEF Aliased, SameSite
<1>2. GroupKey(b)' = GroupKey(b) /\ GroupKey(c)' = GroupKey(c) /\ GroupKey(d)' = GroupKey(d)
  BY KeysKept
<1>3. c \in Rows' /\ d \in Rows' /\ Alone(c)'
  BY <1>1 DEF Keeps, Alone
<1> QED
  BY <1>1, <1>2, <1>3 DEF Aliased, SameSite

\* A row that is completed is a row.
LEMMA DoneAreRows == Done \subseteq Rows /\ InProgress \subseteq Rows /\ Rows \subseteq Build
BY DEF Done, InProgress, Rows

\* A handler goes on, or one that is not there does nothing.
LEMMA HandlerGoes ==
  ASSUME Filed, NEW i, NEW h, call' = [call EXCEPT ![i] = h],
         i \in Call => /\ h \in Handler /\ call[i].pc # "clear" /\ h.pc # "page"
                       /\ h.pc \in {"set", "clear"} => h.b \in Rows
  PROVE  Tame
<1>1. call \in [Call -> Handler] /\ \A x \in Call : call[x].pc \in {"set", "clear"} => call[x].b \in Rows
  BY DEF Filed
<1>2. CASE i \in Call
  BY <1>1, <1>2 DEF Tame, ClearsStay
<1>3. CASE i \notin Call
  BY <1>1, <1>3 DEF Tame, ClearsStay
<1> QED
  BY <1>2, <1>3

\* A request ends.
LEMMA EndedIsHandler ==
  ASSUME NEW pc \in {"answered", "refused", "failed", "dead"}
  PROVE  Ended(pc) \in Handler /\ Ended(pc).pc = pc
BY DEF Ended, NewCall, Handler

\* What a page shows stays current while the cache is not cleared.
LEMMA CurrentKept ==
  ASSUME DirectoryInv, Keeps, StaysListed, ClearsStay, UNCHANGED clears, uncleared \subseteq uncleared',
         NEW p, Current(p)
  PROVE  p.since <= clears' /\ (p.since = clears' => \A b \in p.page : b \in Rows' /\ Fine(b)')
<1>1. SUFFICES ASSUME p.since = clears, NEW b \in p.page PROVE b \in Rows' /\ Fine(b)'
  BY DEF Current
<1>2. b \in Rows /\ b \in Rows' /\ Fine(b)
  BY <1>1 DEF Current, Keeps
<1>3. GroupKey(b)' = GroupKey(b)
  BY <1>2, KeysKept
<1>4. CASE \E c \in SameSite(b) \cap Done : build[c].listed
  <2>1. PICK c \in Done : c \in Rows /\ GroupKey(c) = GroupKey(b) /\ build[c].listed
    BY <1>4 DEF SameSite
  <2>2. GroupKey(c)' = GroupKey(c)
    BY <2>1, KeysKept
  <2>3. c \in Done' /\ c \in Rows' /\ build'[c].listed
    BY <2>1 DEF StaysListed, Keeps
  <2> QED
    BY <1>2, <1>3, <2>1, <2>2, <2>3 DEF Fine, SameSite
<1>5. CASE \E i \in Call : call[i].pc = "clear" /\ GroupKey(call[i].b) = GroupKey(b)
  <2>1. PICK i \in Call : call[i].pc = "clear" /\ GroupKey(call[i].b) = GroupKey(b)
    BY <1>5
  <2>2. PICK a \in Rows : a = call[i].b
    BY <2>1 DEF DirectoryInv, Filed
  <2>3. CASE call'[i].pc = "clear" /\ call'[i].b = a
    <3>1. GroupKey(a)' = GroupKey(a)
      BY KeysKept
    <3>2. GroupKey(call[i].b)' = GroupKey(a)'
      BY <2>3 DEF GroupKey
    <3>3. GroupKey(call[i].b)' = GroupKey(b)'
      BY <1>3, <2>1, <2>2, <3>1, <3>2
    <3> QED
      BY <1>2, <2>1, <2>3, <3>3 DEF Fine
  <2>4. CASE GroupKey(a) \in uncleared'
    BY <1>2, <1>3, <2>1, <2>2, <2>4 DEF Fine
  <2> QED
    BY <2>1, <2>2, <2>3, <2>4 DEF ClearsStay
<1>6. CASE GroupKey(b) \in uncleared
  BY <1>2, <1>3, <1>6 DEF Fine
<1> QED
  BY <1>2, <1>4, <1>5, <1>6 DEF Fine

\* The pages of a step that looks nothing up and keeps the cache.
LEMMA PagesKept ==
  ASSUME DirectoryInv, Keeps, StaysListed, Tame, UNCHANGED <<clears, cache>>, uncleared \subseteq uncleared'
  PROVE  Pages'
<1>1. \A i \in DOMAIN cache' : Current(cache[i])'
  <2> TAKE i \in DOMAIN cache'
  <2> DEFINE p == cache[i]
  <2>1. Current(p) /\ p' = p
    BY DEF DirectoryInv, Pages
  <2> HIDE DEF p
  <2>2. p.since <= clears' /\ (p.since = clears' => \A b \in p.page : b \in Rows' /\ Fine(b)')
    BY <2>1, CurrentKept DEF Tame
  <2> QED
    BY <2>1, <2>2 DEF Current, p
<1>2. ASSUME NEW i \in Call, call'[i].pc = "page" PROVE Current(call[i])'
  <2> DEFINE p == call[i]
  <2>1. Current(p) /\ p' = p
    BY <1>2 DEF DirectoryInv, Pages, Tame
  <2> HIDE DEF p
  <2>2. p.since <= clears' /\ (p.since = clears' => \A b \in p.page : b \in Rows' /\ Fine(b)')
    BY <2>1, CurrentKept DEF Tame
  <2> QED
    BY <2>1, <2>2 DEF Current, p
<1> QED
  BY <1>1, <1>2 DEF Pages

\* Clearing the cache outdates every page that was looked up.
LEMMA PagesCleared ==
  ASSUME DirectoryInv, cache' = <<>>, clears' = clears + 1, \A x \in Call : call'[x].pc = "page" => call'[x] = call[x]
  PROVE  Pages'
<1>1. ASSUME NEW i \in Call, call'[i].pc = "page" PROVE Current(call[i])'
  <2>1. call'[i] = call[i] /\ call[i].since <= clears /\ call[i].since \in Nat /\ clears \in Nat
    BY <1>1 DEF DirectoryInv, Pages, Current, Filed, Handler
  <2> QED
    BY <2>1 DEF Current
<1> QED
  BY <1>1 DEF Pages

\* Rows that stay with their group name none that is not there.
LEMMA NamedKept ==
  ASSUME Named, Keeps, Rows' = Rows
  PROVE  Named'
<1>1. \A b \in Rows : build'[b].owner = build[b].owner /\ build'[b].group = build[b].group
  BY DEF Keeps
<1> HIDE DEF Rows
<1> QED
  BY <1>1 DEF Named

\* What is removed keeps a build with the mark.
LEMMA MarksKept ==
  ASSUME Marked, Keeps,
         \A c \in Done : build[c].delisted /\ GroupKey(c) \in removed' => c \in Done' /\ build'[c].delisted,
         \A k \in removed' : k \in removed \/ \E c \in Done' : GroupKey(c)' = k /\ build'[c].delisted
  PROVE  Marked'
<1>1. SUFFICES ASSUME NEW k \in removed' PROVE \E c \in Done' : GroupKey(c)' = k /\ build'[c].delisted
  BY DEF Marked
<1>2. CASE k \in removed
  <2>1. PICK c \in Done : GroupKey(c) = k /\ build[c].delisted
    BY <1>2 DEF Marked
  <2>2. GroupKey(c)' = GroupKey(c)
    BY KeysKept, DoneAreRows
  <2> QED
    BY <2>1, <2>2
<1> QED
  BY <1>2

\* Of what is taken out nothing new is listed but builds under way.
LEMMA OutKept ==
  ASSUME Out, Keeps, late \subseteq late',
         \A c \in Done' \cup InProgress' : GroupKey(c)' \in withdrawn' /\ build'[c].listed
           => \/ c \in late' \/ Aliased(c)'
              \/ c \in Done \cup InProgress /\ GroupKey(c) \in withdrawn /\ build[c].listed
  PROVE  Out'
<1>1. \A c \in Done \cup InProgress : Aliased(c) => Aliased(c)'
  BY AliasedKept, DoneAreRows
<1> QED
  BY <1>1 DEF Out

\* A step of a build that leaves its flags alone.
Calm == /\ build' \in [Build -> Row] /\ Rows' = Rows /\ Done \subseteq Done' /\ Done' \cup InProgress' \subseteq Done \cup InProgress
        /\ \A b \in Build : /\ build'[b].owner = build[b].owner /\ build'[b].group = build[b].group
                            /\ build'[b].listed = build[b].listed /\ build'[b].delisted = build[b].delisted

\* The blurbs there are to write.
Blurbs(t) == t \in [Build \cup Call -> Summary] /\ \A w \in Build \cup Call : t[w].pc # "none" => t[w].b \in Build

LEMMA CalmKept ==
  ASSUME DirectoryInv, Calm, Tame, UNCHANGED <<cache, clears, removed, withdrawn, late>>,
         uncleared \subseteq uncleared', active' \subseteq Slug, Blurbs(task')
  PROVE  DirectoryInv'
<1>1. Keeps /\ StaysListed
  BY DoneAreRows DEF Calm, Keeps, StaysListed
<1>2. Pages'
  BY <1>1, PagesKept
<1>3. Named'
  BY <1>1, NamedKept DEF Calm, DirectoryInv
<1>4. Marked'
  <2>1. Done \subseteq Build
    BY DEF Done
  <2> QED
    BY <1>1, <2>1, MarksKept DEF Calm, DirectoryInv
<1>5. Out'
  <2>1. \A c \in Done \cup InProgress : GroupKey(c)' = GroupKey(c) /\ build'[c].listed = build[c].listed
    BY <1>1, KeysKept, DoneAreRows DEF Calm
  <2> QED
    BY <1>1, <2>1, OutKept DEF Calm, DirectoryInv
<1>6. Filed'
  <2>1. \A x \in Call : call'[x].pc \in {"set", "clear"} => call'[x].b \in Rows'
    BY DEF Tame, Calm
  <2> QED
    BY <2>1 DEF Filed, DirectoryInv, Calm, Tame, Blurbs
<1> QED
  BY <1>2, <1>3, <1>4, <1>5, <1>6 DEF DirectoryInv

\* A step of a handler.
LEMMA HandlersKept ==
  ASSUME DirectoryInv, Tame, UNCHANGED <<build, task, cache, history>>, active' \subseteq Slug
  PROVE  DirectoryInv'
<1>1. Calm
  BY DEF Calm, DirectoryInv, Filed, Rows, Done, InProgress
<1>2. Blurbs(task')
  BY DEF Blurbs, DirectoryInv, Filed
<1> QED
  BY <1>1, <1>2, CalmKept DEF history

-----------------------------------------------------------------------------
(* Numbers                                                                 *)

\* A set of numbers has a least one.
LEMMA NatMin ==
  ASSUME NEW T \in SUBSET Nat, T # {}
  PROVE  \E x \in T : \A y \in T : x <= y
<1> DEFINE R == {ss \in Nat \X Nat : ss[1] < ss[2]}
<1>1. IsWellFoundedOn(R, Nat)
  BY NatLessThanWellFounded DEF OpToRel
<1>2. \E x \in T : \A y \in T : ~ (<<y, x>> \in R)
  <2> HIDE DEF R
  <2> QED
    BY <1>1, WFMin
<1>3. PICK x \in T : \A y \in T : ~ (<<y, x>> \in R)
  BY <1>2
<1>4. \A y \in T : x <= y
  <2> TAKE y \in T
  <2>1. <<y, x>> \in Nat \X Nat
    OBVIOUS
  <2>2. ~(y < x)
    BY <1>3, <2>1
  <2> QED
    BY <2>2
<1> QED
  BY <1>4

\* A bounded set of numbers has a greatest one.
LEMMA NatMax ==
  ASSUME NEW T \in SUBSET Nat, T # {}, NEW n \in Nat, \A x \in T : x <= n
  PROVE  \E x \in T : \A y \in T : y <= x
<1> DEFINE D == {n - x : x \in T}
<1>1. D \in SUBSET Nat /\ D # {}
  <2>1. \A x \in T : n - x \in Nat
    OBVIOUS
  <2>2. PICK x \in T : TRUE
    OBVIOUS
  <2> QED
    BY <2>1, <2>2
<1>2. PICK d \in D : \A e \in D : d <= e
  BY <1>1, NatMin
<1>3. PICK x \in T : d = n - x
  OBVIOUS
<1>4. \A y \in T : d <= n - y
  BY <1>2
<1> QED
  BY <1>3, <1>4

\* There is a newest build among completed ones.
LEMMA NewestIn ==
  ASSUME Filed, NEW B \in SUBSET Done, B # {}
  PROVE  Newest(B) \in B
<1> DEFINE N == Cardinality(Build)
           T == {build[b].at : b \in B}
<1>1. N \in Nat
  BY FS_CardinalityType, DirectoryAssumption
<1>2. \A b \in B : build[b].at \in 0..N
  BY DEF Filed, Row, Done
<1> HIDE DEF N
<1>3. T \in SUBSET Nat /\ T # {} /\ \A x \in T : x <= N
  BY <1>1, <1>2
<1>4. PICK t \in T : \A y \in T : y <= t
  BY <1>1, <1>3, NatMax
<1>5. PICK b \in B : build[b].at = t
  BY <1>4
<1>6. \A c \in B : build[c].at <= build[b].at
  BY <1>4, <1>5
<1> QED
  BY <1>6 DEF Newest

-----------------------------------------------------------------------------
(* Visitors, and the first steps of owners                                 *)

\* A request that is refused or answered at once.
LEMMA EndKept ==
  ASSUME DirectoryInv, NEW i, NEW pc \in {"answered", "refused"}, End(i, pc), i \in Call => call[i].pc # "clear",
         UNCHANGED <<build, task, cache, history>>, active' \subseteq Slug
  PROVE  DirectoryInv'
<1>1. Tame
  BY EndedIsHandler, HandlerGoes DEF End, DirectoryInv
<1> QED
  BY <1>1, HandlersKept

LEMMA VisitKept == ASSUME DirectoryInv, NEW i, NEW f \in Slug \cup {All}, Visit(i, f) PROVE DirectoryInv'
<1> DEFINE q == [call[i] EXCEPT !.pc = "query", !.filter = f]
<1>1. PICK h \in {Ended("refused"), Ended("answered"), q} : call' = [call EXCEPT ![i] = h]
  BY DEF Visit
<1>2. i \in Call => q \in Handler /\ q.pc = "query"
  BY DEF DirectoryInv, Filed, Handler
<1> HIDE DEF q
<1>3. i \in Call => h \in Handler /\ h.pc \in {"refused", "answered", "query"} /\ call[i].pc = "new"
  BY <1>2, EndedIsHandler DEF Visit, Fresh
<1>4. Tame
  BY <1>1, <1>3, HandlerGoes DEF DirectoryInv
<1> QED
  BY <1>4, HandlersKept DEF Visit, DirectoryInv, Filed

LEMMA ReportKept == ASSUME DirectoryInv, NEW i, NEW b \in Rows, Report(i, b) PROVE DirectoryInv'
<1> DEFINE q == [call[i] EXCEPT !.pc = "count", !.b = b]
<1>1. PICK h \in {Ended("refused"), q} : call' = [call EXCEPT ![i] = h]
  BY DEF Report
<1>2. i \in Call => q \in Handler /\ q.pc = "count"
  BY DEF DirectoryInv, Filed, Handler, Rows
<1> HIDE DEF q
<1>3. i \in Call => h \in Handler /\ h.pc \in {"refused", "count"} /\ call[i].pc = "new"
  BY <1>2, EndedIsHandler DEF Report, Fresh
<1>4. Tame
  BY <1>1, <1>3, HandlerGoes DEF DirectoryInv
<1> QED
  BY <1>4, HandlersKept DEF Report, DirectoryInv, Filed

\* A handler that goes on to another place.
LEMMA StepKept ==
  ASSUME DirectoryInv, NEW i \in Call, call[i].pc # "clear", NEW pc \in {"report", "cleared"}, Step(i, pc),
         UNCHANGED <<build, task, active, cache, history>>
  PROVE  DirectoryInv'
<1> DEFINE q == [call[i] EXCEPT !.pc = pc]
<1>1. call' = [call EXCEPT ![i] = q]
  BY DEF Step, DirectoryInv, Filed
<1>2. q \in Handler /\ q.pc = pc
  BY DEF DirectoryInv, Filed, Handler
<1> HIDE DEF q
<1>3. Tame
  BY <1>1, <1>2, HandlerGoes DEF DirectoryInv
<1> QED
  BY <1>3, HandlersKept DEF DirectoryInv, Filed

LEMMA CountKept == ASSUME DirectoryInv, NEW i \in Call, CountReports(i) PROVE DirectoryInv'
BY StepKept, EndKept DEF CountReports, DirectoryInv, Filed

LEMMA CreateReportKept == ASSUME DirectoryInv, NEW i \in Call, CreateReport(i) PROVE DirectoryInv'
BY EndKept DEF CreateReport, DirectoryInv, Filed

LEMMA ResolveKept == ASSUME DirectoryInv, NEW i \in Call, ResolveReports(i) PROVE DirectoryInv'
BY StepKept DEF ResolveReports

LEMMA CloseKept == ASSUME DirectoryInv, NEW i \in Call, CloseReports(i) PROVE DirectoryInv'
BY EndKept DEF CloseReports, DirectoryInv, Filed

LEMMA CategoryKept ==
  ASSUME DirectoryInv, NEW i, NEW s \in Slug, NEW on \in BOOLEAN, UpsertCategory(i, s, on)
  PROVE  DirectoryInv'
BY EndKept DEF UpsertCategory, Fresh, DirectoryInv, Filed

LEMMA ToggleByIdKept ==
  ASSUME DirectoryInv, NEW i, NEW o, NEW b \in Rows, NEW on \in BOOLEAN, ToggleById(i, o, b, on)
  PROVE  DirectoryInv'
<1> DEFINE q == [call[i] EXCEPT !.pc = "set", !.b = b, !.on = on]
<1>1. PICK h \in {Ended("refused"), q} : call' = [call EXCEPT ![i] = h]
  BY DEF ToggleById
<1>2. i \in Call => q \in Handler /\ q.pc = "set" /\ q.b = b
  BY DEF DirectoryInv, Filed, Handler, Rows
<1> HIDE DEF q
<1>3. i \in Call => /\ h \in Handler /\ h.pc \in {"refused", "set"} /\ call[i].pc = "new"
                    /\ h.pc = "set" => h.b = b
  BY <1>2, EndedIsHandler DEF ToggleById, Fresh
<1>4. Tame
  BY <1>1, <1>3, HandlerGoes DEF DirectoryInv
<1> QED
  BY <1>4, HandlersKept DEF ToggleById, DirectoryInv, Filed

LEMMA ToggleByGroupKept ==
  ASSUME DirectoryInv, NEW i, NEW o, NEW g, NEW on \in BOOLEAN, ToggleByGroup(i, o, g, on)
  PROVE  DirectoryInv'
<1>1. CASE End(i, "refused")
  BY <1>1, EndKept DEF ToggleByGroup, Fresh, DirectoryInv, Filed
<1>2. CASE ~End(i, "refused")
  <2>1. PICK b \in Rows : call' = [call EXCEPT ![i].pc = "set", ![i].b = b, ![i].on = on]
    <3> DEFINE B == OfGroup(g, o)
    <3>1. B \in SUBSET Done /\ B # {} /\ call' = [call EXCEPT ![i].pc = "set", ![i].b = Newest(B), ![i].on = on]
      BY <1>2 DEF ToggleByGroup, OfGroup
    <3> QED
      BY <3>1, NewestIn, DoneAreRows DEF DirectoryInv
  <2> DEFINE q == [call[i] EXCEPT !.pc = "set", !.b = b, !.on = on]
  <2>2. call' = [call EXCEPT ![i] = q]
    BY <2>1 DEF DirectoryInv, Filed
  <2>3. i \in Call => q \in Handler /\ q.pc = "set" /\ q.b = b /\ call[i].pc = "new"
    BY DEF DirectoryInv, Filed, Handler, Rows, ToggleByGroup, Fresh
  <2> HIDE DEF q
  <2>4. Tame
    BY <2>2, <2>3, HandlerGoes DEF DirectoryInv
  <2> QED
    BY <2>4, HandlersKept DEF ToggleByGroup, DirectoryInv, Filed
<1> QED
  BY <1>1, <1>2

-----------------------------------------------------------------------------
(* The cache                                                               *)

\* Rows that do not change.
LEMMA RowsStay ==
  ASSUME DirectoryInv, UNCHANGED <<build, history>>
  PROVE  Keeps /\ StaysListed /\ Named' /\ Marked' /\ Out' /\ UNCHANGED <<Rows, clears, uncleared>>
<1>1. UNCHANGED <<Rows, Done, InProgress, removed, withdrawn, late, clears, uncleared>>
  BY DEF Rows, Done, InProgress, history
<1>2. Keeps /\ StaysListed
  BY <1>1 DEF Keeps, StaysListed
<1>3. Named'
  BY <1>1, <1>2, NamedKept DEF DirectoryInv
<1>4. \A b \in Rows : GroupKey(b)' = GroupKey(b)
  BY <1>2, KeysKept
<1>5. Marked'
  BY <1>1, <1>4, DoneAreRows DEF DirectoryInv, Marked
<1>6. Out'
  BY <1>1, <1>2, <1>4, DoneAreRows, OutKept DEF DirectoryInv
<1> QED
  BY <1>1, <1>2, <1>3, <1>5, <1>6

\* A page that is looked up shows what is listed.
LEMMA LookedUp == ASSUME NEW f, NEW b \in ListDirectory(f) PROVE b \in Rows /\ \E c \in SameSite(b) \cap Done : build[c].listed
BY DoneAreRows DEF ListDirectory, Shown, Visible

LEMMA QueryKept == ASSUME DirectoryInv, NEW i \in Call, QueryPage(i) PROVE DirectoryInv'
<1> DEFINE L == ListDirectory(call[i].filter)
           q == [call[i] EXCEPT !.pc = "page", !.page = L, !.since = clears]
<1>1. call' = [call EXCEPT ![i] = q]
  BY DEF QueryPage, DirectoryInv, Filed
<1>2. L \in SUBSET Build /\ \A b \in L : b \in Rows /\ \E c \in SameSite(b) \cap Done : build[c].listed
  BY LookedUp, DoneAreRows DEF ListDirectory, Shown
<1> HIDE DEF L
<1>3. q \in Handler /\ q.pc = "page" /\ q.page = L /\ q.since = clears /\ clears \in Nat
  BY <1>2 DEF DirectoryInv, Filed, Handler
<1> HIDE DEF q
<1>4. /\ call' \in [Call -> Handler] /\ call'[i] = q /\ \A x \in Call \ {i} : call'[x] = call[x]
      /\ ClearsStay /\ UNCHANGED <<build, task, active, cache, history>>
  BY <1>1, <1>3 DEF QueryPage, DirectoryInv, Filed, ClearsStay
<1>5. /\ Keeps /\ StaysListed /\ Named' /\ Marked' /\ Out' /\ UNCHANGED <<Rows, clears, uncleared>>
  BY <1>4, RowsStay
<1>6. \A b \in L : b \in Rows' /\ Fine(b)'
  <2>1. UNCHANGED <<Done, build>>
    BY <1>4 DEF Done
  <2>2. \A b \in Rows : GroupKey(b)' = GroupKey(b)
    BY <1>5, KeysKept
  <2>3. \A b \in Rows : SameSite(b)' = SameSite(b)
    BY <1>5, <2>2 DEF SameSite
  <2> QED
    BY <1>2, <1>5, <2>1, <2>3 DEF Fine
<1>7. \A x \in Call \ {i} : call[x].pc = "page" => Current(call[x])'
  <2> TAKE x \in Call \ {i}
  <2> DEFINE p == call[x]
  <2>1. p' = p /\ (p.pc = "page" => Current(p))
    BY <1>4 DEF DirectoryInv, Pages
  <2> HIDE DEF p
  <2>2. p.pc = "page" => p.since <= clears' /\ (p.since = clears' => \A b \in p.page : b \in Rows' /\ Fine(b)')
    BY <1>4, <1>5, <2>1, CurrentKept
  <2> QED
    BY <2>1, <2>2 DEF Current, p
<1>8. Current(call[i])'
  BY <1>3, <1>4, <1>5, <1>6 DEF Current
<1>9. \A j \in DOMAIN cache' : Current(cache[j])'
  <2> TAKE j \in DOMAIN cache'
  <2> DEFINE p == cache[j]
  <2>1. Current(p) /\ p' = p
    BY <1>4 DEF DirectoryInv, Pages
  <2> HIDE DEF p
  <2>2. p.since <= clears' /\ (p.since = clears' => \A b \in p.page : b \in Rows' /\ Fine(b)')
    BY <1>4, <1>5, <2>1, CurrentKept
  <2> QED
    BY <2>1, <2>2 DEF Current, p
<1>10. Pages'
  BY <1>4, <1>7, <1>8, <1>9 DEF Pages
<1>11. Filed'
  BY <1>3, <1>4, <1>5 DEF Filed, DirectoryInv, history
<1> QED
  BY <1>5, <1>10, <1>11 DEF DirectoryInv

\* The pages of the cache when it is stored in: the one that is stored, and others
\* that were there.
LEMMA Stored ==
  ASSUME Filed, NEW p \in Page, Store(p)
  PROVE  /\ cache' \in Seq(Page) /\ Len(cache') <= MaxPages
         /\ \A j \in DOMAIN cache' : cache'[j] = p \/ \E k \in DOMAIN cache : cache'[j] = cache[k]
<1> DEFINE kept == IF Len(cache) >= MaxPages THEN Tail(cache) ELSE cache
<1>0. cache \in Seq(Page) /\ Len(cache) <= MaxPages /\ MaxPages \in Nat \ {0} /\ Len(cache) \in Nat
  BY DirectoryAssumption DEF Filed
<1>1. /\ kept \in Seq(Page) /\ Len(kept) < MaxPages
      /\ \A j \in DOMAIN kept : \E k \in DOMAIN cache : kept[j] = cache[k]
  <2>1. CASE Len(cache) >= MaxPages
    <3>1. cache # <<>> /\ kept = Tail(cache)
      BY <1>0, <2>1
    <3>2. kept \in Seq(Page) /\ Len(kept) = Len(cache) - 1 /\ \A j \in 1..Len(kept) : kept[j] = cache[j + 1]
      BY <1>0, <3>1
    <3> HIDE DEF kept
    <3> QED
      BY <1>0, <3>2
  <2>2. CASE ~(Len(cache) >= MaxPages)
    BY <1>0, <2>2
  <2> QED
    BY <2>1, <2>2
<1>2. cache' = IF \E i \in DOMAIN kept : kept[i].filter = p.filter
               THEN [i \in DOMAIN kept |-> IF kept[i].filter = p.filter THEN p ELSE kept[i]]
               ELSE Append(kept, p)
  BY DEF Store
<1> HIDE DEF kept
<1>3. CASE \E i \in DOMAIN kept : kept[i].filter = p.filter
  <2> DEFINE n == Len(kept)
  <2>1. n \in Nat /\ DOMAIN kept = 1..n /\ \A j \in 1..n : kept[j] \in Page
    BY <1>1
  <2>2. cache' = [j \in 1..n |-> IF kept[j].filter = p.filter THEN p ELSE kept[j]]
    BY <1>2, <1>3, <2>1
  <2>3. n < MaxPages
    BY <1>1
  <2> HIDE DEF n
  <2>4. cache' \in [1..n -> Page]
    BY <2>1, <2>2
  <2>5. cache' \in Seq(Page) /\ Len(cache') = n
    BY <2>1, <2>4
  <2> QED
    BY <1>0, <1>1, <2>1, <2>2, <2>3, <2>5
<1>4. CASE ~\E i \in DOMAIN kept : kept[i].filter = p.filter
  <2>1. cache' = Append(kept, p)
    BY <1>2, <1>4
  <2>2. /\ cache' \in Seq(Page) /\ Len(cache') = Len(kept) + 1 /\ cache'[Len(kept) + 1] = p
        /\ \A j \in 1..Len(kept) : cache'[j] = kept[j]
    BY <1>1, <2>1
  <2> QED
    BY <1>0, <1>1, <2>2
<1> QED
  BY <1>3, <1>4

LEMMA CachePageKept == ASSUME DirectoryInv, NEW i \in Call, CachePage(i) PROVE DirectoryInv'
<1> DEFINE p == [filter |-> call[i].filter, page |-> call[i].page, since |-> call[i].since]
<1>1. p \in Page /\ Store(p) /\ Current(p)
  <2>1. Current(call[i])
    BY DEF DirectoryInv, Pages, CachePage
  <2> QED
    BY <2>1 DEF DirectoryInv, Filed, CachePage, Handler, Page, Current
<1> HIDE DEF p
<1>2. /\ cache' \in Seq(Page) /\ Len(cache') <= MaxPages
      /\ \A j \in DOMAIN cache' : cache'[j] = p \/ \E k \in DOMAIN cache : cache'[j] = cache[k]
  BY <1>1, Stored DEF DirectoryInv
<1>3. Tame /\ UNCHANGED <<build, task, active, history>>
  BY EndedIsHandler, HandlerGoes DEF CachePage, End, DirectoryInv
<1>4. Keeps /\ StaysListed /\ Named' /\ Marked' /\ Out' /\ UNCHANGED <<Rows, clears, uncleared>>
  BY <1>3, RowsStay
<1>5. ASSUME NEW c, Current(c) PROVE c.since <= clears' /\ (c.since = clears' => \A b \in c.page : b \in Rows' /\ Fine(b)')
  BY <1>3, <1>4, <1>5, CurrentKept DEF Tame
<1>6. \A j \in DOMAIN cache' : Current(cache[j])'
  <2> TAKE j \in DOMAIN cache'
  <2>1. PICK c : cache'[j] = c /\ Current(c)
    BY <1>1, <1>2 DEF DirectoryInv, Pages
  <2> QED
    BY <1>5, <2>1 DEF Current
<1>7. \A x \in Call : call'[x].pc = "page" => Current(call[x])'
  <2> TAKE x \in Call
  <2>1. SUFFICES ASSUME call'[x].pc = "page" PROVE Current(call[x])'
    OBVIOUS
  <2>2. PICK c : call'[x] = c /\ Current(c)
    BY <1>3, <2>1 DEF DirectoryInv, Pages, Tame
  <2> QED
    BY <1>5, <2>2 DEF Current
<1>8. Pages'
  BY <1>6, <1>7 DEF Pages
<1>9. Filed'
  BY <1>2, <1>3, <1>4 DEF Filed, DirectoryInv, history, Tame
<1> QED
  BY <1>4, <1>8, <1>9 DEF DirectoryInv

\* A page that expires leaves the others.
LEMMA Expired ==
  ASSUME NEW T, NEW s \in Seq(T), NEW i \in DOMAIN s
  PROVE  /\ RemoveAt(s, i) \in Seq(T) /\ Len(RemoveAt(s, i)) = Len(s) - 1
         /\ \A j \in DOMAIN RemoveAt(s, i) : \E k \in DOMAIN s : RemoveAt(s, i)[j] = s[k]
<1> DEFINE a == SubSeq(s, 1, i - 1)
           z == SubSeq(s, i + 1, Len(s))
           n == Len(s)
<1>1. n \in Nat /\ i \in 1..n /\ DOMAIN s = 1..n
  OBVIOUS
<1>2. a \in Seq(T) /\ Len(a) = i - 1 /\ \A j \in 1..(i - 1) : a[j] = s[j]
  BY <1>1
<1>3. z \in Seq(T) /\ Len(z) = n - i /\ \A j \in 1..(n - i) : z[j] = s[i + j]
  BY <1>1
<1>4. RemoveAt(s, i) = a \o z
  BY DEF RemoveAt
<1> HIDE DEF a, z, n
<1>5. a \o z \in Seq(T) /\ Len(a \o z) = n - 1
  <2>1. a \o z \in Seq(T) /\ Len(a \o z) = Len(a) + Len(z)
    BY <1>2, <1>3, ConcatProperties
  <2> QED
    BY <1>1, <1>2, <1>3, <2>1
<1>6. \A j \in 1..(n - 1) : (a \o z)[j] = IF j <= i - 1 THEN a[j] ELSE z[j - (i - 1)]
  BY <1>1, <1>2, <1>3
<1>7. \A j \in 1..(n - 1) : \E k \in 1..n : (a \o z)[j] = s[k]
  <2> TAKE j \in 1..(n - 1)
  <2>1. CASE j <= i - 1
    BY <1>1, <1>2, <1>6, <2>1
  <2>2. CASE ~(j <= i - 1)
    <3>1. j - (i - 1) \in 1..(n - i) /\ i + (j - (i - 1)) \in 1..n
      BY <1>1, <2>2
    <3> QED
      BY <1>1, <1>3, <1>6, <2>2, <3>1
  <2> QED
    BY <2>1, <2>2
<1>8. DOMAIN (a \o z) = 1..(n - 1)
  BY <1>5
<1> QED
  BY <1>1, <1>4, <1>5, <1>7, <1>8 DEF n

LEMMA ExpireKept == ASSUME DirectoryInv, NEW i, Expire(i) PROVE DirectoryInv'
<1>1. /\ cache \in Seq(Page) /\ i \in DOMAIN cache /\ cache' = RemoveAt(cache, i) /\ Len(cache) <= MaxPages
      /\ Len(cache) \in Nat /\ MaxPages \in Nat
  BY DirectoryAssumption DEF Expire, DirectoryInv, Filed
<1>2. /\ cache' \in Seq(Page) /\ Len(cache') <= MaxPages
      /\ \A j \in DOMAIN cache' : \E k \in DOMAIN cache : cache'[j] = cache[k]
  BY <1>1, Expired
<1>3. UNCHANGED <<build, task, call, active, report, history>>
  BY DEF Expire
<1>4. Keeps /\ StaysListed /\ Named' /\ Marked' /\ Out' /\ UNCHANGED <<Rows, clears, uncleared>>
  BY <1>3, RowsStay
<1>5. ASSUME NEW c, Current(c) PROVE c.since <= clears' /\ (c.since = clears' => \A b \in c.page : b \in Rows' /\ Fine(b)')
  BY <1>3, <1>4, <1>5, CurrentKept DEF ClearsStay
<1>6. \A j \in DOMAIN cache' : Current(cache[j])'
  <2> TAKE j \in DOMAIN cache'
  <2>1. PICK c : cache'[j] = c /\ Current(c)
    BY <1>2 DEF DirectoryInv, Pages
  <2> QED
    BY <1>5, <2>1 DEF Current
<1>7. \A x \in Call : call'[x].pc = "page" => Current(call[x])'
  <2> TAKE x \in Call
  <2>1. SUFFICES ASSUME call'[x].pc = "page" PROVE Current(call[x])'
    OBVIOUS
  <2>2. PICK c : call'[x] = c /\ Current(c)
    BY <1>3, <2>1 DEF DirectoryInv, Pages
  <2> QED
    BY <1>5, <2>2 DEF Current
<1>8. Pages'
  BY <1>6, <1>7 DEF Pages
<1>9. Filed'
  BY <1>2, <1>3, <1>4 DEF Filed, DirectoryInv, history
<1> QED
  BY <1>4, <1>8, <1>9 DEF DirectoryInv

-----------------------------------------------------------------------------
(* Owners and administrators                                               *)

\* One flag of some rows is written.
LEMMA ListedSet ==
  ASSUME Filed, NEW B, NEW v \in BOOLEAN, Set(B, "listed", v)
  PROVE  /\ build' \in [Build -> Row] /\ UNCHANGED <<Rows, Done, InProgress>> /\ Keeps
         /\ \A b \in Build : /\ build'[b].owner = build[b].owner /\ build'[b].group = build[b].group
                             /\ build'[b].delisted = build[b].delisted
                             /\ build'[b].listed = IF b \in B THEN v ELSE build[b].listed
<1>1. build \in [Build -> Row] /\ build' = [b \in Build |-> IF b \in B THEN [build[b] EXCEPT !.listed = v] ELSE build[b]]
  BY DEF Filed, Set
<1>2. /\ build' \in [Build -> Row]
      /\ \A b \in Build : /\ build'[b].owner = build[b].owner /\ build'[b].group = build[b].group
                          /\ build'[b].delisted = build[b].delisted /\ build'[b].status = build[b].status
                          /\ build'[b].listed = IF b \in B THEN v ELSE build[b].listed
  BY <1>1 DEF Row
<1> QED
  BY <1>2 DEF Rows, Done, InProgress, Keeps

LEMMA DelistedSet ==
  ASSUME Filed, NEW B, NEW v \in BOOLEAN, Set(B, "delisted", v)
  PROVE  /\ build' \in [Build -> Row] /\ UNCHANGED <<Rows, Done, InProgress>> /\ Keeps
         /\ \A b \in Build : /\ build'[b].owner = build[b].owner /\ build'[b].group = build[b].group
                             /\ build'[b].listed = build[b].listed
                             /\ build'[b].delisted = IF b \in B THEN v ELSE build[b].delisted
<1>1. build \in [Build -> Row] /\ build' = [b \in Build |-> IF b \in B THEN [build[b] EXCEPT !.delisted = v] ELSE build[b]]
  BY DEF Filed, Set
<1>2. /\ build' \in [Build -> Row]
      /\ \A b \in Build : /\ build'[b].owner = build[b].owner /\ build'[b].group = build[b].group
                          /\ build'[b].listed = build[b].listed /\ build'[b].status = build[b].status
                          /\ build'[b].delisted = IF b \in B THEN v ELSE build[b].delisted
  BY <1>1 DEF Row
<1> QED
  BY <1>2 DEF Rows, Done, InProgress, Keeps

\* What the owner's switch writes is of one website, and is all that is completed
\* of it, unless some row of it is taken for a website of its own.
LEMMA WrittenIsSite ==
  ASSUME NEW b \in Rows
  PROVE  /\ Written(b) \subseteq Rows /\ \A c \in Written(b) : GroupKey(c) = GroupKey(b)
         /\ \A c \in Done : GroupKey(c) = GroupKey(b) => c \in Written(b) \/ Aliased(c)
<1>1. ASSUME NEW c \in Rows, NEW d \in {b, c}, GroupKey(c) = GroupKey(b), c # b, Alone(d)
      PROVE  Aliased(c)
  BY <1>1 DEF Aliased, SameSite
<1>2. CASE Alone(b)
  <2>1. Written(b) = {b}
    BY <1>2 DEF Written
  <2> QED
    BY <1>1, <1>2, <2>1, DoneAreRows
<1>3. CASE ~Alone(b)
  <2>1. Written(b) = {c \in Done : build[c].group = build[b].group /\ build[c].owner = build[b].owner}
    BY <1>3 DEF Written, OfGroup, Mine
  <2>2. build[b].group # None
    BY <1>3 DEF Alone
  <2>3. \A c \in Written(b) : GroupKey(c) = GroupKey(b)
    BY <2>1, <2>2 DEF GroupKey
  <2>4. ASSUME NEW c \in Done, GroupKey(c) = GroupKey(b), c \notin Written(b) PROVE Alone(c) /\ c # b
    BY <1>3, <2>1, <2>2, <2>4 DEF GroupKey, Alone
  <2> QED
    BY <1>1, <2>1, <2>3, <2>4, DoneAreRows
<1> QED
  BY <1>2, <1>3

\* The cache holds nothing newer than the clearing that is on its way.
LEMMA SetPages ==
  ASSUME DirectoryInv, NEW i \in Call, call[i].pc = "set", NEW B, B = Written(call[i].b), B # {},
         Set(B, "listed", call[i].on), Step(i, "clear"), UNCHANGED <<cache, clears, uncleared>>
  PROVE  Pages'
<1>1. PICK a \in Rows : a = call[i].b
  BY DEF DirectoryInv, Filed
<1>2. /\ call'[i].pc = "clear" /\ call'[i].b = a /\ \A x \in Call \ {i} : call'[x] = call[x]
  BY <1>1 DEF Step, DirectoryInv, Filed, Handler
<1>3. call[i].on \in BOOLEAN
  BY DEF DirectoryInv, Filed, Handler
<1>4. /\ UNCHANGED <<Rows, Done>> /\ Keeps
      /\ \A c \in Build : build'[c].listed = IF c \in B THEN call[i].on ELSE build[c].listed
  BY <1>3, ListedSet DEF DirectoryInv
<1>5. \A c \in B : GroupKey(c) = GroupKey(a)
  BY <1>1, WrittenIsSite
<1>6. ASSUME NEW b \in Rows, Fine(b) PROVE Fine(b)'
  <2>1. GroupKey(b)' = GroupKey(b) /\ GroupKey(a)' = GroupKey(a)
    BY KeysKept, <1>4
  <2>2. CASE GroupKey(b) = GroupKey(a)
    <3>1. GroupKey(call[i].b)' = GroupKey(a)'
      BY <1>2 DEF GroupKey
    <3> QED
      BY <1>2, <2>1, <2>2, <3>1 DEF Fine
  <2>3. CASE GroupKey(b) # GroupKey(a) /\ \E c \in SameSite(b) \cap Done : build[c].listed
    <3>1. PICK c \in Done : c \in Rows /\ GroupKey(c) = GroupKey(b) /\ build[c].listed
      BY <2>3 DEF SameSite
    <3>2. GroupKey(c)' = GroupKey(c)
      BY <1>4, <3>1, KeysKept
    <3>3. c \notin B /\ c \in Build
      BY <1>5, <2>3, <3>1, DoneAreRows
    <3>4. c \in Done' /\ c \in Rows' /\ build'[c].listed
      BY <1>4, <3>1, <3>3
    <3> QED
      BY <2>1, <3>1, <3>2, <3>4 DEF Fine, SameSite
  <2>4. CASE \E x \in Call : call[x].pc = "clear" /\ GroupKey(call[x].b) = GroupKey(b)
    <3>1. PICK x \in Call : call[x].pc = "clear" /\ GroupKey(call[x].b) = GroupKey(b)
      BY <2>4
    <3>2. PICK d \in Rows : d = call[x].b
      BY <3>1 DEF DirectoryInv, Filed
    <3>3. call'[x].pc = "clear" /\ call'[x].b = d /\ GroupKey(d) = GroupKey(b)
      BY <1>2, <3>1, <3>2
    <3>4. GroupKey(d)' = GroupKey(d)
      BY <1>4, KeysKept
    <3>5. GroupKey(call[x].b)' = GroupKey(d)'
      BY <3>3 DEF GroupKey
    <3>6. GroupKey(call[x].b)' = GroupKey(b)'
      BY <2>1, <3>3, <3>4, <3>5
    <3> QED
      BY <3>1, <3>3, <3>6 DEF Fine
  <2>5. CASE GroupKey(b) \in uncleared
    BY <2>1, <2>5 DEF Fine
  <2> QED
    BY <1>6, <2>2, <2>3, <2>4, <2>5 DEF Fine
<1>7. ASSUME NEW p, Current(p) PROVE p.since <= clears' /\ (p.since = clears' => \A b \in p.page : b \in Rows' /\ Fine(b)')
  BY <1>4, <1>6, <1>7 DEF Current
<1>8. \A j \in DOMAIN cache' : Current(cache[j])'
  <2> TAKE j \in DOMAIN cache'
  <2>1. PICK c : cache'[j] = c /\ Current(c)
    BY DEF DirectoryInv, Pages
  <2> QED
    BY <1>7, <2>1 DEF Current
<1>9. \A x \in Call : call'[x].pc = "page" => Current(call[x])'
  <2> TAKE x \in Call
  <2>1. SUFFICES ASSUME call'[x].pc = "page" PROVE Current(call[x])'
    OBVIOUS
  <2>2. PICK c : call'[x] = c /\ Current(c)
    BY <1>2, <2>1 DEF DirectoryInv, Pages
  <2> QED
    BY <1>7, <2>2 DEF Current
<1> QED
  BY <1>8, <1>9 DEF Pages

LEMMA SetListedKept == ASSUME DirectoryInv, NEW i \in Call, SetListed(i) PROVE DirectoryInv'
<1>1. PICK a \in Rows : a = call[i].b
  BY DEF DirectoryInv, Filed, SetListed
<1>2. PICK v \in BOOLEAN : v = call[i].on
  BY DEF DirectoryInv, Filed, Handler
<1>3. PICK B : B = Written(a)
  OBVIOUS
<1>4. /\ B \subseteq Rows /\ \A c \in B : GroupKey(c) = GroupKey(a)
      /\ \A c \in Done : GroupKey(c) = GroupKey(a) => c \in B \/ Aliased(c)
  BY <1>3, WrittenIsSite
<1>5. /\ call[i].pc = "set" /\ Set(B, "listed", v)
      /\ withdrawn' = IF v THEN withdrawn \ Keys(B) ELSE withdrawn \cup Keys(B)
      /\ late' = IF v THEN late ELSE late \cup {c \in InProgress : GroupKey(c) \in Keys(B)}
      /\ IF B = {} THEN End(i, "refused") ELSE Step(i, "clear")
      /\ UNCHANGED <<task, active, report, cache, clears, removed, uncleared>>
  BY <1>1, <1>2, <1>3 DEF SetListed
<1>6. /\ build' \in [Build -> Row] /\ UNCHANGED <<Rows, Done, InProgress>> /\ Keeps
      /\ \A b \in Build : /\ build'[b].owner = build[b].owner /\ build'[b].group = build[b].group
                          /\ build'[b].delisted = build[b].delisted
                          /\ build'[b].listed = IF b \in B THEN v ELSE build[b].listed
  BY <1>5, ListedSet DEF DirectoryInv
<1>7. \A b \in Rows : GroupKey(b)' = GroupKey(b)
  BY <1>6, KeysKept
<1>8. CASE B = {}
  <2>1. Tame
    BY <1>5, <1>8, EndedIsHandler, HandlerGoes DEF End, DirectoryInv
  <2>2. Calm
    BY <1>6, <1>8 DEF Calm
  <2>3. withdrawn' = withdrawn /\ late' = late
    BY <1>5, <1>8 DEF Keys
  <2>4. Blurbs(task')
    BY <1>5 DEF Blurbs, DirectoryInv, Filed
  <2> QED
    BY <1>5, <2>1, <2>2, <2>3, <2>4, CalmKept DEF history, DirectoryInv, Filed
<1>9. CASE B # {}
  <2>1. Pages'
    BY <1>1, <1>2, <1>3, <1>5, <1>9, SetPages
  <2>2. Named'
    BY <1>6, NamedKept DEF DirectoryInv
  <2>3. Marked'
    <3>1. Done \subseteq Build
      BY DEF Done
    <3> QED
      BY <1>5, <1>6, <3>1, MarksKept DEF DirectoryInv
  <2>4. Keys(B) = {GroupKey(a)}
    BY <1>4, <1>9 DEF Keys
  <2>5. Out'
    <3>1. \A c \in Done \cup InProgress : c \in Rows /\ c \in Build /\ GroupKey(c)' = GroupKey(c)
      BY <1>7, DoneAreRows
    <3>2. \A c \in Done \cup InProgress : GroupKey(c) \in withdrawn' /\ build'[c].listed
             => c \in late' \/ Aliased(c) \/ (GroupKey(c) \in withdrawn /\ build[c].listed)
      BY <1>4, <1>5, <1>6, <2>4, <3>1
    <3>3. \A c \in Done \cup InProgress : Aliased(c) => Aliased(c)'
      BY <1>6, <3>1, AliasedKept
    <3> QED
      BY <1>5, <1>6, <3>1, <3>2, <3>3, OutKept DEF DirectoryInv
  <2>6. /\ call' \in [Call -> Handler] /\ call'[i].b = a /\ \A x \in Call \ {i} : call'[x] = call[x]
    <3> DEFINE q == [call[i] EXCEPT !.pc = "clear"]
    <3>1. call' = [call EXCEPT ![i] = q]
      BY <1>5, <1>9 DEF Step, DirectoryInv, Filed
    <3>2. q \in Handler /\ q.b = a
      BY <1>1 DEF DirectoryInv, Filed, Handler
    <3> HIDE DEF q
    <3> QED
      BY <3>1, <3>2 DEF DirectoryInv, Filed
  <2>7. late' \subseteq Build
    BY <1>5 DEF DirectoryInv, Filed, InProgress
  <2>8. \A x \in Call : call'[x].pc \in {"set", "clear"} => call'[x].b \in Rows
    BY <2>6 DEF DirectoryInv, Filed
  <2>9. Filed'
    BY <1>5, <1>6, <2>6, <2>7, <2>8 DEF Filed, DirectoryInv
  <2> QED
    BY <2>1, <2>2, <2>3, <2>5, <2>9 DEF DirectoryInv
<1> QED
  BY <1>8, <1>9

\* A handler ends with the cache cleared.
LEMMA ClearKept ==
  ASSUME DirectoryInv, NEW i \in Call, ClearCache, End(i, "answered"), Blurbs(task'),
         UNCHANGED <<build, active, removed, withdrawn, late>>
  PROVE  DirectoryInv'
<1>1. /\ call' \in [Call -> Handler] /\ \A x \in Call : call'[x].pc = "page" => call'[x] = call[x]
      /\ \A x \in Call : call'[x].pc \in {"set", "clear"} => call'[x] = call[x]
  BY EndedIsHandler DEF End, DirectoryInv, Filed
<1>2. Pages'
  BY <1>1, PagesCleared DEF ClearCache
<1>3. UNCHANGED <<Rows, Done, InProgress>>
  BY DEF Rows, Done, InProgress
<1>4. Keeps /\ \A b \in Build : GroupKey(b)' = GroupKey(b)
  BY <1>3 DEF Keeps, GroupKey
<1>5. Named' /\ Marked' /\ Out'
  BY <1>3, <1>4, DoneAreRows, NamedKept, OutKept DEF DirectoryInv, Marked
<1>6. Filed'
  <2>1. cache' \in Seq(Page) /\ Len(cache') <= MaxPages /\ clears' \in Nat
    BY DirectoryAssumption DEF ClearCache, DirectoryInv, Filed
  <2> QED
    BY <1>1, <1>3, <2>1 DEF Filed, DirectoryInv, Blurbs
<1> QED
  BY <1>2, <1>5, <1>6 DEF DirectoryInv

\* A blurb is asked for, or a worker is done with one.
LEMMA BlurbsGo ==
  ASSUME Filed, NEW w, NEW h \in Summary, h.pc # "none" => h.b \in Build, task' = task \/ task' = [task EXCEPT ![w] = h]
  PROVE  Blurbs(task')
BY DEF Filed, Blurbs

LEMMA AnswerToggleKept == ASSUME DirectoryInv, NEW i \in Call, AnswerToggle(i) PROVE DirectoryInv'
<1> DEFINE h == [NewTask EXCEPT !.pc = "needed", !.b = call[i].b]
<1>1. call[i].b \in Rows /\ Rows \subseteq Build
  BY DoneAreRows DEF AnswerToggle, DirectoryInv, Filed
<1>2. h \in Summary /\ h.b \in Build
  BY <1>1 DEF NewTask, Summary
<1>3. task' = task \/ task' = [task EXCEPT ![i] = h]
  BY DEF AnswerToggle
<1> HIDE DEF h
<1>4. Blurbs(task')
  BY <1>2, <1>3, BlurbsGo DEF DirectoryInv
<1> QED
  BY <1>4, ClearKept DEF AnswerToggle

\* The website whose switch failed is marked, and pages may go on to show it.
LEMMA DetailsFailKept == ASSUME DirectoryInv, NEW i \in Call, DetailsFail(i) PROVE DirectoryInv'
<1>1. PICK h : h = Ended("failed")
  OBVIOUS
<1>2. h \in Handler /\ h.pc = "failed"
  BY <1>1, EndedIsHandler
<1>3. call' \in [Call -> Handler] /\ call'[i] = h /\ \A x \in Call \ {i} : call'[x] = call[x]
  BY <1>1, <1>2 DEF DetailsFail, End, DirectoryInv, Filed
<1>4. GroupKey(call[i].b) \in uncleared' /\ uncleared \subseteq uncleared'
  BY DEF DetailsFail
<1>5. ClearsStay
  BY <1>3, <1>4 DEF ClearsStay
<1>6. Tame
  BY <1>2, <1>3, <1>5 DEF Tame, DirectoryInv, Filed
<1>7. Calm /\ active' \subseteq Slug
  BY DEF DetailsFail, Calm, DirectoryInv, Filed, Rows, Done, InProgress
<1>8. Blurbs(task')
  BY DEF DetailsFail, Blurbs, DirectoryInv, Filed
<1> QED
  BY <1>4, <1>6, <1>7, <1>8, CalmKept DEF DetailsFail

LEMMA AnswerDelistKept == ASSUME DirectoryInv, NEW i \in Call, AnswerDelist(i) PROVE DirectoryInv'
<1>1. Blurbs(task')
  BY DEF AnswerDelist, Blurbs, DirectoryInv, Filed
<1> QED
  BY <1>1, ClearKept DEF AnswerDelist

\* An administrator's mark: set, it marks a completed build of what is removed;
\* taken off, the website is removed no more.
LEMMA MarkKept ==
  ASSUME DirectoryInv, Tame, NEW b \in Rows, NEW B \in SUBSET Rows, NEW v \in BOOLEAN, Set(B, "delisted", v),
         \A c \in B : GroupKey(c) = GroupKey(b),
         IF v THEN removed' = removed \/ (removed' = removed \cup {GroupKey(b)} /\ \E c \in B : c \in Done)
         ELSE removed' = removed \ {GroupKey(b)},
         UNCHANGED <<task, active, cache, clears, withdrawn, late, uncleared>>
  PROVE  DirectoryInv'
<1>1. /\ build' \in [Build -> Row] /\ UNCHANGED <<Rows, Done, InProgress>> /\ Keeps
      /\ \A c \in Build : /\ build'[c].owner = build[c].owner /\ build'[c].group = build[c].group
                          /\ build'[c].listed = build[c].listed
                          /\ build'[c].delisted = IF c \in B THEN v ELSE build[c].delisted
  BY DelistedSet DEF DirectoryInv
<1>2. Named'
  BY <1>1, NamedKept DEF DirectoryInv
<1>3. \A c \in Done \cup InProgress : c \in Rows /\ c \in Build /\ GroupKey(c)' = GroupKey(c)
  BY <1>1, KeysKept, DoneAreRows
<1>4. Out'
  BY <1>1, <1>3, OutKept DEF DirectoryInv
<1>5. StaysListed
  BY <1>1, <1>3 DEF StaysListed
<1>6. Pages'
  BY <1>1, <1>5, PagesKept
<1>7. Marked'
  <2>1. ASSUME NEW c \in Done, build[c].delisted, GroupKey(c) \in removed' PROVE c \in Done' /\ build'[c].delisted
    <3>1. v \/ c \notin B
      BY <2>1
    <3> QED
      BY <1>1, <1>3, <2>1, <3>1
  <2>2. ASSUME NEW k \in removed', k \notin removed PROVE \E c \in Done' : GroupKey(c)' = k /\ build'[c].delisted
    <3>1. v /\ k = GroupKey(b) /\ \E c \in B : c \in Done
      BY <2>2
    <3>2. PICK c \in B : c \in Done
      BY <3>1
    <3> QED
      BY <1>1, <1>3, <3>1, <3>2
  <2> QED
    BY <1>1, <2>1, <2>2, MarksKept DEF DirectoryInv
<1>8. Filed'
  BY <1>1 DEF Filed, DirectoryInv, Tame
<1> QED
  BY <1>2, <1>4, <1>6, <1>7, <1>8 DEF DirectoryInv

LEMMA DelistKept ==
  ASSUME DirectoryInv, NEW i, NEW b \in Rows, NEW restore \in BOOLEAN, Delist(i, b, restore)
  PROVE  DirectoryInv'
<1> DEFINE q == [call[i] EXCEPT !.pc = IF restore THEN "cleared" ELSE "resolve", !.b = b]
<1>1. call' = [call EXCEPT ![i] = q]
  BY DEF Delist, DirectoryInv, Filed
<1>2. i \in Call => q \in Handler /\ q.pc \in {"cleared", "resolve"} /\ call[i].pc = "new"
  BY DEF Delist, Fresh, DirectoryInv, Filed, Handler, Rows
<1> HIDE DEF q
<1>3. Tame
  BY <1>1, <1>2, HandlerGoes DEF DirectoryInv
<1>4. /\ Set({b}, "delisted", ~restore) /\ UNCHANGED <<task, active, cache, clears, withdrawn, late, uncleared>>
      /\ removed' = IF restore THEN removed \ {GroupKey(b)}
                    ELSE IF b \in Done THEN removed \cup {GroupKey(b)} ELSE removed
  <2>1. Keys({b}) = {GroupKey(b)}
    BY DEF Keys
  <2> QED
    BY <2>1 DEF Delist
<1>5. PICK v \in BOOLEAN : v = ~restore
  OBVIOUS
<1>6. Set({b}, "delisted", v)
  BY <1>4, <1>5
<1>7. IF v THEN removed' = removed \/ (removed' = removed \cup {GroupKey(b)} /\ \E c \in {b} : c \in Done)
      ELSE removed' = removed \ {GroupKey(b)}
  BY <1>4, <1>5
<1> QED
  BY <1>3, <1>4, <1>6, <1>7, MarkKept

LEMMA RemoveSiteKept ==
  ASSUME DirectoryInv, NEW i, NEW b \in Rows, NEW restore \in BOOLEAN, RemoveSite(i, b, restore)
  PROVE  DirectoryInv'
<1> DEFINE B == SameSite(b) \cap Done
<1>1. CASE B = {}
  <2>1. End(i, "refused") /\ UNCHANGED <<build, removed, task, active, report, cache, clears, withdrawn, late, uncleared>> /\ Fresh(i)
    BY <1>1 DEF RemoveSite
  <2> QED
    BY <2>1, EndKept DEF Fresh, history, DirectoryInv, Filed
<1>2. CASE B # {}
  <2> DEFINE q == [call[i] EXCEPT !.pc = "close", !.b = b]
  <2>1. PICK h \in {Ended("answered"), q} : call' = [call EXCEPT ![i] = h]
    BY <1>2 DEF RemoveSite
  <2>2. i \in Call => q \in Handler /\ q.pc = "close" /\ call[i].pc = "new"
    BY DEF RemoveSite, Fresh, DirectoryInv, Filed, Handler, Rows
  <2> HIDE DEF q
  <2>3. i \in Call => h \in Handler /\ h.pc \in {"answered", "close"} /\ call[i].pc = "new"
    BY <2>2, EndedIsHandler DEF RemoveSite, Fresh
  <2>4. Tame
    BY <2>1, <2>3, HandlerGoes DEF DirectoryInv
  <2>5. PICK v \in BOOLEAN : v = ~restore
    OBVIOUS
  <2>6. Keys({b}) = {GroupKey(b)}
    BY DEF Keys
  <2>7. /\ Set(B, "delisted", v) /\ UNCHANGED <<task, active, cache, clears, withdrawn, late, uncleared>>
        /\ removed' = IF restore THEN removed \ {GroupKey(b)} ELSE removed \cup {GroupKey(b)}
    BY <1>2, <2>5, <2>6 DEF RemoveSite
  <2>8. B \in SUBSET Rows /\ (\A c \in B : GroupKey(c) = GroupKey(b)) /\ \E c \in B : c \in Done
    BY <1>2 DEF SameSite
  <2> HIDE DEF B
  <2>9. IF v THEN removed' = removed \/ (removed' = removed \cup {GroupKey(b)} /\ \E c \in B : c \in Done)
        ELSE removed' = removed \ {GroupKey(b)}
    BY <2>5, <2>7, <2>8
  <2> QED
    BY <2>4, <2>7, <2>8, <2>9, MarkKept
<1> QED
  BY <1>1, <1>2

-----------------------------------------------------------------------------
(* Builds                                                                  *)

LEMMA GenerateKept ==
  ASSUME DirectoryInv, NEW i, NEW b \in Build, NEW o \in Owner, NEW g \in Groups, NEW on \in BOOLEAN,
         NEW cid, Generate(i, b, o, g, on, cid)
  PROVE  DirectoryInv'
<1> DEFINE base == IF cid = None THEN None ELSE RevisionBase(o, cid)
           new == [NewBuild EXCEPT !.status = "pending", !.owner = o, !.group = g, !.listed = on, !.base = base]
           key == <<o, IF g = None THEN b ELSE g>>
<1>1. base \in Build \cup {None}
  <2> DEFINE same == {c \in Done : build[c].cid = cid /\ Mine(c, o)}
  <2>1. same \in SUBSET Done /\ (same # {} => Newest(same) \in same)
    BY NewestIn DEF DirectoryInv
  <2>2. RevisionBase(o, cid) = None \/ RevisionBase(o, cid) \in Done
    BY <2>1 DEF RevisionBase
  <2> QED
    BY <2>2 DEF Done
<1>2. /\ \E pc \in {"answered", "refused"} : End(i, pc)
      /\ Fresh(i) /\ build[b].status = "none"
      /\ UNCHANGED <<task, active, report, cache, clears, removed, late, uncleared>>
      /\ \/ UNCHANGED <<build, withdrawn>>
         \/ build' = [build EXCEPT ![b] = new] /\ withdrawn' = IF on THEN withdrawn \ {key} ELSE withdrawn
  BY DEF Generate
<1>3. g \in Text \cup {None} /\ (g \in Build => g \in Rows)
  BY DEF Groups
<1>4. new \in Row /\ new.status = "pending" /\ new.owner = o /\ new.group = g /\ new.listed = on
  <2>1. 0 \in 0..Cardinality(Build)
    BY FS_CardinalityType, DirectoryAssumption
  <2> HIDE DEF base
  <2> QED
    BY <1>1, <1>3, <2>1 DEF NewBuild, Row, Statuses
<1> HIDE DEF new, base
<1>5. CASE UNCHANGED <<build, withdrawn>>
  BY <1>2, <1>5, EndKept DEF Fresh, history, DirectoryInv, Filed
<1>6. CASE build' = [build EXCEPT ![b] = new] /\ withdrawn' = IF on THEN withdrawn \ {key} ELSE withdrawn
  <2>1. Tame
    BY <1>2, EndedIsHandler, HandlerGoes DEF End, Fresh, DirectoryInv
  <2>2. build' \in [Build -> Row] /\ build'[b] = new /\ \A c \in Build \ {b} : build'[c] = build[c]
    BY <1>4, <1>6 DEF DirectoryInv, Filed
  <2>3. /\ b \notin Rows /\ Rows' = Rows \cup {b} /\ b \notin Done /\ Done' = Done
        /\ InProgress' = InProgress \cup {b} /\ b \notin InProgress
    BY <1>2, <1>4, <2>2 DEF Rows, Done, InProgress
  <2>4. Keeps /\ StaysListed
    BY <2>2, <2>3, DoneAreRows DEF Keeps, StaysListed
  <2>5. Pages'
    BY <1>2, <2>1, <2>4, PagesKept
  <2>6. \A c \in Rows : build'[c].owner = build[c].owner /\ build'[c].group = build[c].group
    BY <2>4 DEF Keeps
  <2>7. Named'
    BY <1>3, <1>4, <2>2, <2>3, <2>6 DEF Named, DirectoryInv
  <2>8. \A c \in Rows : GroupKey(c)' = GroupKey(c) /\ build'[c] = build[c]
    BY <2>2, <2>3, <2>4, KeysKept DEF Rows
  <2>9. Marked'
    BY <1>2, <2>3, <2>8, DoneAreRows DEF DirectoryInv, Marked
  <2>10. Out'
    <3>1. GroupKey(b)' = key /\ build'[b].listed = on
      BY <1>4, <2>2 DEF GroupKey
    <3>2. \A c \in Done \cup InProgress : GroupKey(c)' \in withdrawn' /\ build'[c].listed
            => GroupKey(c) \in withdrawn /\ build[c].listed
      BY <1>6, <2>8, DoneAreRows
    <3>3. ~(GroupKey(b)' \in withdrawn' /\ build'[b].listed)
      BY <1>6, <3>1
    <3> QED
      BY <1>2, <2>3, <2>4, <3>2, <3>3, OutKept DEF DirectoryInv
  <2>11. Filed'
    <3>1. \A x \in Call : call'[x].pc \in {"set", "clear"} => call'[x].b \in Rows'
      BY <2>1, <2>3 DEF Tame
    <3> QED
      BY <1>2, <2>1, <2>2, <3>1 DEF Filed, DirectoryInv, Tame
  <2> QED
    BY <2>5, <2>7, <2>9, <2>10, <2>11 DEF DirectoryInv
<1> QED
  BY <1>2, <1>5, <1>6

\* A build that goes on, or a source that is pruned, leaves the flags alone.
LEMMA BuildGoes ==
  ASSUME DirectoryInv, NEW b \in Build, NEW r \in Row, build' = [build EXCEPT ![b] = r],
         r.owner = build[b].owner, r.group = build[b].group, r.listed = build[b].listed,
         r.delisted = build[b].delisted,
         \/ r.status = build[b].status
         \/ build[b].status \in {"pending", "built"} /\ r.status \in {"built", "completed", "error"},
         UNCHANGED <<call, active, cache, history>>, Blurbs(task')
  PROVE  DirectoryInv'
<1>1. build' \in [Build -> Row] /\ build'[b] = r /\ \A c \in Build \ {b} : build'[c] = build[c]
  BY DEF DirectoryInv, Filed
<1>2. Rows' = Rows /\ Done \subseteq Done' /\ Done' \cup InProgress' \subseteq Done \cup InProgress
  BY <1>1 DEF Rows, Done, InProgress
<1>3. Calm
  BY <1>1, <1>2 DEF Calm
<1>4. Tame
  BY DEF Tame, ClearsStay, DirectoryInv, Filed
<1> QED
  BY <1>3, <1>4, CalmKept DEF DirectoryInv, Filed, history

LEMMA BuildSiteKept == ASSUME DirectoryInv, NEW b \in Build, BuildSite(b) PROVE DirectoryInv'
<1>1. build[b] \in Row /\ build[b].status = "pending"
  BY DEF DirectoryInv, Filed, BuildSite
<1>2. Results(b) \subseteq Build \cup {None}
  BY <1>1 DEF Results, GenerateWebsite, ReviseWebsite, DirectoryInv, Filed, Row, Done
<1>3. PICK cid \in Results(b) :
        build' = [build EXCEPT ![b].status = "built", ![b].cid = cid, ![b].wanted = build[b].listed]
  BY DEF BuildSite
<1> DEFINE r == [build[b] EXCEPT !.status = "built", !.cid = cid, !.wanted = build[b].listed]
<1>4. build' = [build EXCEPT ![b] = r]
  BY <1>3 DEF DirectoryInv, Filed
<1>5. /\ r \in Row /\ r.status = "built" /\ r.owner = build[b].owner /\ r.group = build[b].group
      /\ r.listed = build[b].listed /\ r.delisted = build[b].delisted
  BY <1>1, <1>2 DEF Row, Statuses
<1> HIDE DEF r
<1>6. UNCHANGED <<call, active, cache, history>> /\ Blurbs(task')
  BY DEF BuildSite, Blurbs, DirectoryInv, Filed
<1> QED
  BY <1>1, <1>4, <1>5, <1>6, BuildGoes

LEMMA CompleteKept == ASSUME DirectoryInv, NEW b \in Build, CompleteGeneration(b) PROVE DirectoryInv'
<1>1. build[b] \in Row /\ build[b].status = "built"
  BY DEF DirectoryInv, Filed, CompleteGeneration
<1> DEFINE n == Cardinality(Done) + 1
<1>2. n \in 0..Cardinality(Build)
  <2>1. Done \cup {b} \subseteq Build /\ b \notin Done /\ IsFiniteSet(Build)
    BY <1>1, DirectoryAssumption DEF Done
  <2>2. IsFiniteSet(Done) /\ Cardinality(Done) \in Nat
    BY <2>1, FS_Subset, FS_CardinalityType
  <2>3. Cardinality(Done \cup {b}) = Cardinality(Done) + 1
    BY <2>1, <2>2, FS_AddElement
  <2>4. Cardinality(Done \cup {b}) <= Cardinality(Build) /\ Cardinality(Build) \in Nat
    BY <2>1, FS_Subset, FS_CardinalityType
  <2> QED
    BY <2>2, <2>3, <2>4
<1>3. PICK kept \in BOOLEAN :
        build' = [build EXCEPT ![b].status = "completed", ![b].at = n, ![b].source = kept]
  BY DEF CompleteGeneration, SourceKept
<1> HIDE DEF n
<1> DEFINE r == [build[b] EXCEPT !.status = "completed", !.at = n, !.source = kept]
<1>4. build' = [build EXCEPT ![b] = r]
  BY <1>3 DEF DirectoryInv, Filed
<1>5. /\ r \in Row /\ r.status = "completed" /\ r.owner = build[b].owner /\ r.group = build[b].group
      /\ r.listed = build[b].listed /\ r.delisted = build[b].delisted
  BY <1>1, <1>2 DEF Row, Statuses
<1> HIDE DEF r
<1>6. UNCHANGED <<call, active, cache, history>>
  BY DEF CompleteGeneration
<1>7. Blurbs(task')
  <2> DEFINE h == [NewTask EXCEPT !.pc = "needed", !.b = b]
  <2>1. h \in Summary /\ h.b \in Build
    BY DEF NewTask, Summary
  <2>2. task' = task \/ task' = [task EXCEPT ![b] = h]
    BY DEF CompleteGeneration
  <2> HIDE DEF h
  <2> QED
    BY <2>1, <2>2, BlurbsGo DEF DirectoryInv
<1> QED
  BY <1>1, <1>4, <1>5, <1>6, <1>7, BuildGoes

LEMMA FailKept == ASSUME DirectoryInv, NEW b \in Build, FailGeneration(b) PROVE DirectoryInv'
<1> DEFINE r == [build[b] EXCEPT !.status = "error"]
<1>1. build[b] \in Row /\ build[b].status \in {"pending", "built"}
  BY DEF DirectoryInv, Filed, FailGeneration
<1>2. build' = [build EXCEPT ![b] = r]
  BY DEF FailGeneration, Set, DirectoryInv, Filed
<1>3. /\ r \in Row /\ r.status = "error" /\ r.owner = build[b].owner /\ r.group = build[b].group
      /\ r.listed = build[b].listed /\ r.delisted = build[b].delisted
  BY <1>1 DEF Row, Statuses
<1> HIDE DEF r
<1>4. UNCHANGED <<call, active, cache, history>> /\ Blurbs(task')
  BY DEF FailGeneration, Blurbs, DirectoryInv, Filed
<1> QED
  BY <1>1, <1>2, <1>3, <1>4, BuildGoes

LEMMA PruneKept == ASSUME DirectoryInv, NEW b \in Build, PruneSource(b) PROVE DirectoryInv'
<1> DEFINE r == [build[b] EXCEPT !.source = FALSE]
<1>1. build[b] \in Row
  BY DEF DirectoryInv, Filed
<1>2. build' = [build EXCEPT ![b] = r]
  BY DEF PruneSource, Set, DirectoryInv, Filed
<1>3. /\ r \in Row /\ r.status = build[b].status /\ r.owner = build[b].owner /\ r.group = build[b].group
      /\ r.listed = build[b].listed /\ r.delisted = build[b].delisted
  BY <1>1 DEF Row
<1> HIDE DEF r
<1>4. UNCHANGED <<call, active, cache, history>> /\ Blurbs(task')
  BY DEF PruneSource, Blurbs, DirectoryInv, Filed
<1> QED
  BY <1>2, <1>3, <1>4, BuildGoes

-----------------------------------------------------------------------------
(* Blurbs, and a process that stops                                        *)

LEMMA StillListedKept == ASSUME DirectoryInv, NEW w \in Build \cup Call, StillListed(w) PROVE DirectoryInv'
<1> DEFINE q == [task[w] EXCEPT !.pc = "model", !.from = active]
<1>1. PICK h \in {q, NewTask} : task' = [task EXCEPT ![w] = h]
  BY DEF StillListed
<1>2. q \in Summary /\ NewTask \in Summary /\ NewTask.pc = "none" /\ q.b \in Build
  BY DEF StillListed, DirectoryInv, Filed, Summary, NewTask
<1> HIDE DEF q
<1>3. Blurbs(task')
  BY <1>1, <1>2, BlurbsGo DEF DirectoryInv
<1>4. Tame /\ Calm /\ active' \subseteq Slug
  BY DEF StillListed, Tame, ClearsStay, Calm, DirectoryInv, Filed, Rows, Done, InProgress
<1> QED
  BY <1>3, <1>4, CalmKept DEF StillListed, history

LEMMA SaveSummaryKept == ASSUME DirectoryInv, NEW w \in Build \cup Call, SaveSummary(w) PROVE DirectoryInv'
<1>1. NewTask \in Summary /\ NewTask.pc = "none"
  BY DEF Summary, NewTask
<1>2. Blurbs(task')
  BY <1>1, BlurbsGo DEF SaveSummary, DirectoryInv
<1>3. Tame /\ UNCHANGED <<call, active, cache, history>> /\ active' \subseteq Slug
  BY DEF SaveSummary, Tame, ClearsStay, DirectoryInv, Filed
<1>4. CASE UNCHANGED build
  <2>1. Calm
    BY <1>4 DEF Calm, DirectoryInv, Filed, Rows, Done, InProgress
  <2> QED
    BY <1>2, <1>3, <2>1, CalmKept DEF history
<1>5. CASE \E s \in task[w].from : build' = [build EXCEPT ![task[w].b].category = s]
  <2>1. PICK b \in Build, s \in Slug : build' = [build EXCEPT ![b].category = s]
    BY <1>5 DEF SaveSummary, DirectoryInv, Filed, Summary
  <2> DEFINE r == [build[b] EXCEPT !.category = s]
  <2>2. build' = [build EXCEPT ![b] = r] /\ build[b] \in Row
    BY <2>1 DEF DirectoryInv, Filed
  <2>3. /\ r \in Row /\ r.status = build[b].status /\ r.owner = build[b].owner /\ r.group = build[b].group
        /\ r.listed = build[b].listed /\ r.delisted = build[b].delisted
    BY <2>2 DEF Row
  <2> HIDE DEF r
  <2> QED
    BY <1>2, <1>3, <2>2, <2>3, BuildGoes
<1> QED
  BY <1>4, <1>5 DEF SaveSummary

LEMMA StopDirectoryKept == ASSUME DirectoryInv, StopDirectory PROVE DirectoryInv'
<1>1. /\ call' \in [Call -> Handler]
      /\ \A x \in Call : call'[x].pc \notin {"set", "clear", "page"}
  <2> DEFINE S == {"query", "page", "count", "report", "set", "clear", "resolve", "cleared"}
             e == Ended("dead")
  <2>1. call' = [i \in Call |-> IF call[i].pc \in S THEN e ELSE call[i]]
    BY DEF StopDirectory
  <2>2. e \in Handler /\ e.pc = "dead"
    BY EndedIsHandler
  <2> HIDE DEF e
  <2> QED
    BY <2>1, <2>2 DEF DirectoryInv, Filed
<1>2. Pages'
  BY <1>1, PagesCleared DEF StopDirectory, ClearCache
<1>3. /\ build' \in [Build -> Row]
      /\ \A b \in Build : /\ build'[b].owner = build[b].owner /\ build'[b].group = build[b].group
                          /\ build'[b].listed = build[b].listed /\ build'[b].delisted = build[b].delisted
                          /\ build'[b].status = IF b \in InProgress THEN "stuck" ELSE build[b].status
  <2>1. build' = [b \in Build |-> IF b \in InProgress THEN [build[b] EXCEPT !.status = "stuck"] ELSE build[b]]
    BY DEF StopDirectory
  <2>2. \A b \in Build : build[b] \in Row
    BY DEF DirectoryInv, Filed
  <2> HIDE DEF InProgress
  <2>3. \A b \in Build : build'[b] = IF b \in InProgress THEN [build[b] EXCEPT !.status = "stuck"] ELSE build[b]
    BY <2>1
  <2>4. \A b \in Build : [build[b] EXCEPT !.status = "stuck"] \in Row
    BY <2>2 DEF Row, Statuses
  <2>5. \A b \in Build : build'[b] \in Row
    BY <2>2, <2>3, <2>4
  <2>6. build' \in [Build -> Row]
    BY <2>1, <2>5
  <2>7. \A b \in Build : /\ build'[b].owner = build[b].owner /\ build'[b].group = build[b].group
                          /\ build'[b].listed = build[b].listed /\ build'[b].delisted = build[b].delisted
                          /\ build'[b].status = IF b \in InProgress THEN "stuck" ELSE build[b].status
    BY <2>2, <2>3 DEF Row
  <2> QED
    BY <2>6, <2>7
<1>4. Rows' = Rows /\ Done' = Done /\ InProgress' = {} /\ Keeps
  BY <1>3 DEF Rows, Done, InProgress, Keeps
<1>5. Named'
  BY <1>4, NamedKept DEF DirectoryInv
<1>6. \A c \in Done : c \in Build /\ GroupKey(c)' = GroupKey(c)
  BY <1>4, KeysKept, DoneAreRows
<1>7. UNCHANGED <<active, removed, withdrawn, late>>
  BY DEF StopDirectory
<1>8. Marked' /\ Out'
  BY <1>3, <1>4, <1>6, <1>7, OutKept DEF DirectoryInv, Marked
<1>9. Blurbs(task')
  BY DEF StopDirectory, Blurbs, Summary, NewTask, DirectoryInv, Filed
<1>10. Filed'
  <2>1. cache' \in Seq(Page) /\ Len(cache') <= MaxPages /\ clears' \in Nat
    BY DirectoryAssumption DEF StopDirectory, ClearCache, DirectoryInv, Filed
  <2> QED
    BY <1>1, <1>3, <1>7, <1>9, <2>1 DEF Filed, DirectoryInv, Blurbs
<1> QED
  BY <1>2, <1>5, <1>8, <1>10 DEF DirectoryInv

-----------------------------------------------------------------------------
(* The service                                                             *)

LEMMA DirectoryInit == DInit => DirectoryInv
<1> SUFFICES ASSUME DInit PROVE DirectoryInv
  OBVIOUS
<1>1. /\ build \in [Build -> Row] /\ \A b \in Build : build[b].status \in {"none", "completed", "error", "stuck"}
      /\ \A b, c \in Build : build[b].status # "none" /\ build[b].group = c => build[c].status # "none"
  <2>1. PICK t \in First : build = t
    BY DEF DInit
  <2> DEFINE T == [status : {"none", "completed", "error", "stuck"}, owner : Owner \cup {None},
                   group : Text \cup {None}, listed : BOOLEAN, delisted : BOOLEAN,
                   at : 0..Cardinality(Build), base : Build \cup {None}, cid : Build \cup {None},
                   source : BOOLEAN, wanted : BOOLEAN, category : Slug \cup {None}]
  <2>2. /\ t \in [Build -> T]
        /\ \A b, c \in Build : t[b].status # "none" /\ t[b].group = c => t[c].status # "none"
    BY TablesAssumption
  <2>3. T \subseteq Row /\ \A r \in T : r.status \in {"none", "completed", "error", "stuck"}
    BY DEF Row, Statuses
  <2> HIDE DEF T
  <2> QED
    BY <2>1, <2>2, <2>3
<1>2. call \in [Call -> Handler] /\ \A i \in Call : call[i].pc = "new"
  BY DEF DInit, NewCall, Handler
<1>3. task \in [Build \cup Call -> Summary] /\ \A w \in Build \cup Call : task[w].pc = "none"
  BY DEF DInit, NewTask, Summary
<1>4. cache \in Seq(Page) /\ Len(cache) <= MaxPages /\ DOMAIN cache = {}
  BY DirectoryAssumption DEF DInit
<1>5. Filed
  BY <1>1, <1>2, <1>3, <1>4 DEF Filed, DInit
<1>6. Named
  BY <1>1 DEF Named, Rows
<1>7. Marked /\ Out
  BY DEF Marked, Out, DInit
<1>8. Pages
  BY <1>2, <1>4 DEF Pages
<1> QED
  BY <1>5, <1>6, <1>7, <1>8 DEF DirectoryInv

\* Nothing is asked while the directory moves, and the other way round.
LEMMA QuestionsStay == QuestionsInv /\ UNCHANGED qvars => QuestionsInv'
BY DEF QuestionsInv, qvars, Asked, QTypeOK, Books

LEMMA DirectoryStays == DirectoryInv /\ UNCHANGED dvars => DirectoryInv'
<1> SUFFICES ASSUME DirectoryInv, UNCHANGED dvars PROVE DirectoryInv'
  OBVIOUS
<1>1. Tame /\ active' \subseteq Slug
  BY DEF Tame, ClearsStay, DirectoryInv, Filed, dvars
<1> QED
  BY <1>1, HandlersKept DEF dvars, history

LEMMA DirectoryStepKept == ASSUME DirectoryInv, DirectoryStep PROVE DirectoryInv'
<1>1. ASSUME NEW i \in Call,
             \/ QueryPage(i) \/ CachePage(i) \/ CountReports(i) \/ CreateReport(i)
             \/ SetListed(i) \/ AnswerToggle(i) \/ ResolveReports(i) \/ AnswerDelist(i) \/ CloseReports(i)
      PROVE  DirectoryInv'
  BY <1>1, QueryKept, CachePageKept, CountKept, CreateReportKept, SetListedKept, AnswerToggleKept, ResolveKept,
     AnswerDelistKept, CloseKept
<1>2. ASSUME NEW b \in Build, BuildSite(b) \/ CompleteGeneration(b) \/ FailGeneration(b) PROVE DirectoryInv'
  BY <1>2, BuildSiteKept, CompleteKept, FailKept
<1>3. ASSUME NEW w \in Build \cup Call, StillListed(w) \/ SaveSummary(w) PROVE DirectoryInv'
  BY <1>3, StillListedKept, SaveSummaryKept
<1> QED
  BY <1>1, <1>2, <1>3 DEF DirectoryStep

LEMMA RequestKept == ASSUME DirectoryInv, NEW i, Visitors(i) \/ Owners(i) \/ Administrators(i) PROVE DirectoryInv'
<1>1. CASE Visitors(i)
  BY <1>1, VisitKept, ReportKept DEF Visitors
<1>2. CASE Administrators(i)
  BY <1>2, DelistKept, RemoveSiteKept, CategoryKept DEF Administrators
<1>3. CASE Owners(i)
  <2>1. PICK o \in Owner :
          \/ \E b \in Rows, on \in BOOLEAN : ToggleById(i, o, b, on)
          \/ \E g \in {build[b].group : b \in Rows} \ {None, Empty}, on \in BOOLEAN : ToggleByGroup(i, o, g, on)
          \/ /\ Rows # Build
             /\ \E g \in Groups, on \in BOOLEAN, cid \in {build[b].cid : b \in Done} \cup {None} :
                  Generate(i, FreeBuild, o, g, on, cid)
    BY <1>3 DEF Owners
  <2>2. Rows # Build => FreeBuild \in Build
    BY DEF FreeBuild, Rows
  <2> QED
    BY <2>1, <2>2, ToggleByIdKept, ToggleByGroupKept, GenerateKept
<1> QED
  BY <1>1, <1>2, <1>3

\* The invariant of the service.
ServiceInv ==
  /\ QuestionsInv /\ DirectoryInv
  /\ requests \in 0..MaxRequests /\ failures \in 0..MaxFailures

\* Every state the service comes to satisfies the invariant.
THEOREM ServiceInvariance == ServiceSpec => []ServiceInv
<1>1. ServiceInit => ServiceInv
  BY QuestionsInit, DirectoryInit, ServiceAssumption DEF ServiceInit, ServiceInv
<1>2. ServiceInv /\ [ServiceNext]_serviceVars => ServiceInv'
  <2> SUFFICES ASSUME ServiceInv, [ServiceNext]_serviceVars PROVE ServiceInv'
    OBVIOUS
  <2>1. CASE UNCHANGED serviceVars
    BY <2>1, QuestionsStay, DirectoryStays DEF serviceVars, ServiceInv
  <2>2. ASSUME Request \/ ServiceFault \/ NoCount PROVE requests' \in 0..MaxRequests /\ failures' \in 0..MaxFailures
    BY <2>2, ServiceAssumption DEF Request, ServiceFault, NoCount, ServiceInv
  <2>3. CASE AskNext
    <3>1. DirectoryInv'
      BY <2>3, DirectoryStays DEF AskNext, ServiceInv
    <3>2. QuestionsInv'
      BY <2>3, ArriveKept, AskStepKept, AskFaultKept, CleanupKept DEF AskNext, ServiceInv
    <3> QED
      BY <2>2, <2>3, <3>1, <3>2 DEF AskNext, ServiceInv
  <2>4. CASE DirectoryNext
    <3>1. QuestionsInv'
      BY <2>4, QuestionsStay DEF DirectoryNext, ServiceInv
    <3>2. DirectoryInv'
      BY <2>4, RequestKept, DirectoryStepKept, ExpireKept, PruneKept, DetailsFailKept DEF DirectoryNext, ServiceInv
    <3> QED
      BY <2>2, <2>4, <3>1, <3>2 DEF DirectoryNext, ServiceInv
  <2>5. CASE ServiceFault /\ Restart
    <3>1. QuestionsInv' /\ DirectoryInv'
      BY <2>5, StopAsksKept, StopDirectoryKept DEF Restart, ServiceInv
    <3> QED
      BY <2>2, <2>5, <3>1 DEF ServiceInv
  <2> QED
    BY <2>1, <2>3, <2>4, <2>5 DEF ServiceNext
<1> QED
  BY <1>1, <1>2, PTL DEF ServiceSpec

\* Who is answered has charged what the question costs, who is not has charged nothing,
\* whatever other questions run at the same time, unless the handler met a failed
\* call or mkdirSync threw (ask.ts:85-151).
THEOREM AnsweredPaid == ServiceSpec => []PaidIffAnswered
<1>1. ServiceInv => PaidIffAnswered
  BY PaidFollows DEF ServiceInv
<1> QED
  BY <1>1, ServiceInvariance, PTL

\* What an administrator removed is not shown (directory_postgres.ts:25-33).
THEOREM RemovedStaysHidden == ServiceSpec => []RemovedIsHidden
<1>1. ServiceInv => RemovedIsHidden
  <2> SUFFICES ASSUME ServiceInv, NEW b \in Shown, GroupKey(b) \in removed PROVE FALSE
    BY DEF RemovedIsHidden
  <2>1. PICK c \in Done : GroupKey(c) = GroupKey(b) /\ build[c].delisted
    BY DEF ServiceInv, DirectoryInv, Marked
  <2>2. c \in SameSite(b) \cap Done
    BY <2>1, DoneAreRows DEF SameSite
  <2> QED
    BY <2>1, <2>2 DEF Shown, Visible
<1> QED
  BY <1>1, ServiceInvariance, PTL

\* What its owner took out is listed by no build but those that were under way,
\* or by rows that the switch and the listing group differently
\* (directory_postgres.ts:270, generate.ts:455).
THEOREM WithdrawnIsOut == ServiceSpec => []WithdrawnUnlessBuilding
<1>1. ServiceInv => WithdrawnUnlessBuilding
  <2> SUFFICES ASSUME ServiceInv, NEW b \in Done, GroupKey(b) \in withdrawn, Visible(b)
               PROVE  Late(b) \/ Aliased(b)
    BY DEF WithdrawnUnlessBuilding
  <2>1. PICK c \in SameSite(b) \cap Done : build[c].listed
    BY DEF Visible
  <2>2. GroupKey(c) = GroupKey(b)
    BY DEF SameSite
  <2>3. c \in late \/ Aliased(c)
    BY <2>1, <2>2 DEF ServiceInv, DirectoryInv, Out
  <2>4. Aliased(c) => Aliased(b)
    BY <2>2 DEF Aliased, SameSite
  <2> QED
    BY <2>1, <2>3, <2>4 DEF Late
<1> QED
  BY <1>1, ServiceInvariance, PTL

\* A page in the cache that no clearing has outdated shows only websites that some
\* build still lists, or whose switch failed before it cleared the cache
\* (directory.ts:101, generate.ts:466).
THEOREM CacheStaysCurrent == ServiceSpec => []CacheIsCurrent
<1>1. ServiceInv => CacheIsCurrent
  <2> SUFFICES ASSUME ServiceInv, NEW i \in DOMAIN cache, NEW b \in cache[i].page, cache[i].since = clears,
                      Settled(GroupKey(b)), GroupKey(b) \notin uncleared
               PROVE  Listed(b)
    BY DEF CacheIsCurrent
  <2>1. Fine(b)
    BY DEF ServiceInv, DirectoryInv, Pages, Current
  <2> QED
    BY <2>1 DEF Fine, Settled, Listed
<1> QED
  BY <1>1, ServiceInvariance, PTL

\* The types of the service's state.
THEOREM ServiceTypeCorrect == ServiceSpec => []ServiceTypeOK
<1>1. ServiceInv => ServiceTypeOK
  <2> SUFFICES ASSUME ServiceInv PROVE ServiceTypeOK
    OBVIOUS
  <2>1. QTypeOK
    BY DEF ServiceInv, QuestionsInv, Asked
  <2>2. \A b \in Build : build[b] \in Row
    BY DEF ServiceInv, DirectoryInv, Filed
  <2>3. \A w \in DOMAIN task : task[w].pc \in {"none", "needed", "model"} /\ task[w].from \subseteq Slug
    BY DEF ServiceInv, DirectoryInv, Filed, Summary
  <2>4. active \subseteq Slug /\ Len(cache) <= MaxPages /\ late \subseteq Build /\ clears \in Nat
    BY DEF ServiceInv, DirectoryInv, Filed
  <2>5. DTypeOK
    BY <2>2, <2>3, <2>4 DEF DTypeOK, Row
  <2> QED
    BY <2>1, <2>5 DEF ServiceTypeOK, ServiceInv
<1> QED
  BY <1>1, ServiceInvariance, PTL
=============================================================================
