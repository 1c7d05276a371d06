----------------------------- MODULE PinService -----------------------------
(***************************************************************************)
(* The pinning service of openapi/go on PostgreSQL: the rows of `pins`,    *)
(* the pinset of the IPFS cluster they are meant to agree with, and the    *)
(* requests that change both.  A request answers early and leaves the      *)
(* cluster to a goroutine, so that what is one request here goes on after  *)
(* its answer.  The cluster pins CIDs and knows nothing of users: a row    *)
(* that is deleted may take the pin from everyone only if no other row     *)
(* counts on it.                                                           *)
(*                                                                         *)
(* Sizes, names and listings are left out, and of a CAR file all but       *)
(* whether it is accepted.  Any request may be refused for want of credit. *)
(***************************************************************************)
EXTENDS Integers, FiniteSets

CONSTANTS
  User, Cid,
  Row,         \* request ids, in the order of their creation
  Call,        \* requests, in the order of their arrival
  MaxGlobal,   \* DAG_IMPORT_MAX_CONCURRENT
  MaxPerUser,  \* DAG_IMPORT_MAX_CONCURRENT_PER_USER
  Settled,     \* the rows the table starts with
  MaxFaults,   \* bound: failed statements, lost answers, time-outs, restarts
  NoUser, NoCid

ASSUME PinAssumption ==
  /\ Row \subseteq Nat /\ Settled \subseteq Row /\ Call \subseteq Nat /\ IsFiniteSet(Call)
  /\ MaxGlobal \in Nat \ {0} /\ MaxPerUser \in Nat \ {0} /\ MaxFaults \in Nat
  /\ NoUser \notin User /\ NoCid \notin Cid

VARIABLES
  pins,       \* the table
  pinset,     \* the CIDs the cluster pins
  call,       \* the requests with their goroutines
  global, perUser,  \* importLimiter
  faults,
  \* History, read by the properties only:
  secured,    \* rows whose pin was confirmed since they last became active
  exposed,    \* rows made active too late for the last count before an unpin
  forgotten   \* CIDs whose unpin a failure, a replacement or an import missed

vars    == <<pins, pinset, call, global, perUser, faults, secured, exposed, forgotten>>
rows    == <<pins, secured, exposed>>
limiter == <<global, perUser>>

Active == {"queued", "pinning", "pinned"}
Status == Active \cup {"failed", "deleted"}

NoRow == [user |-> NoUser, cid |-> NoCid, status |-> "absent"]
Idle  == [op |-> "none", user |-> NoUser, cid |-> NoCid, row |-> 0, pc |-> "idle",
          status |-> "absent"]
Done  == [Idle EXCEPT !.pc = "done"]

\* A table and a cluster that earlier requests left in agreement.
Init ==
  /\ \E t \in [Settled -> [user : User, cid : Cid, status : {"pinned", "failed"}]] :
       /\ pins = [r \in Row |-> IF r \in Settled THEN t[r] ELSE NoRow]
       /\ pinset = {t[r].cid : r \in {q \in Settled : t[q].status = "pinned"}}
       /\ secured = {r \in Settled : t[r].status = "pinned"}
  /\ call = [k \in Call |-> Idle]
  /\ global = 0 /\ perUser = [u \in User |-> 0]
  /\ faults = 0
  /\ exposed = {} /\ forgotten = {}

-----------------------------------------------------------------------------
(* The table                                                               *)

Listed(r) == pins[r].status \in Active \cup {"failed"}

\* GetExistingPinByCID: the newest row of the user for the CID.
IsExisting(r, u, c) ==
  /\ Listed(r) /\ pins[r].user = u /\ pins[r].cid = c
  /\ \A q \in Row : Listed(q) /\ pins[q].user = u /\ pins[q].cid = c => q <= r

\* Mutant: deleted rows are counted.
CountAllButFailed(c) ==
  {r \in Row : pins[r].cid = c /\ pins[r].status \in Active \cup {"deleted"}}

\* CountActivePinsByCID, of all users.
Counted(c) == {r \in Row : pins[r].cid = c /\ pins[r].status \in Active}

\* A delete of c has counted for the last time and not unpinned yet.
LastCountTaken(c) == \E j \in Call : call[j].pc = "unpin" /\ call[j].cid = c

Exposed(r, c, s) ==
  IF s \in Active /\ pins[r].status \notin Active /\ LastCountTaken(c)
  THEN exposed \cup {r} ELSE exposed

\* UpdatePinStatusAndSize: whatever the row's status is by now.
SetStatus(r, s, confirmed) ==
  IF pins[r].status = "dropped" THEN UNCHANGED rows
  ELSE /\ pins' = [pins EXCEPT ![r].status = s]
       /\ secured' = IF s \notin Active THEN secured \ {r}
                     ELSE IF confirmed THEN secured \cup {r} ELSE secured
       /\ exposed' = Exposed(r, pins[r].cid, s)

\* AddPin of the database; request ids are UUIDs.
InsertRow(r, u, c) ==
  /\ pins[r].status = "absent" /\ \A q \in Row : q < r => pins[q].status # "absent"
  /\ pins' = [pins EXCEPT ![r] = [user |-> u, cid |-> c, status |-> "queued"]]
  /\ exposed' = Exposed(r, c, "queued")
  /\ UNCHANGED secured

-----------------------------------------------------------------------------
(* Requests                                                                *)

Goto(k, pc) == call' = [call EXCEPT ![k].pc = pc]

Fault == faults < MaxFaults /\ faults' = faults + 1
Forget(c) == forgotten' = forgotten \cup {c}

\* The request and its goroutine are over: onDone releases an import's slot.
Release(k) ==
  IF call[k].op = "import"
  THEN /\ global' = global - 1
       /\ perUser' = [perUser EXCEPT ![call[k].user] = @ - 1]
  ELSE UNCHANGED limiter

End(k) == call' = [call EXCEPT ![k] = Done] /\ Release(k)

Arrives(k) == call[k].pc = "idle" /\ \A j \in Call : j < k => call[j].pc # "idle"

AddArrives(k, u, c) ==
  /\ Arrives(k)
  /\ call' = [call EXCEPT ![k] = [Idle EXCEPT !.op = "add", !.user = u, !.cid = c,
                                              !.pc = "look"]]
  /\ UNCHANGED <<rows, pinset, limiter, faults, forgotten>>

\* The slot is taken before the CAR is received; without one the answer is 429.
ImportArrives(k, u, c) ==
  /\ Arrives(k)
  /\ IF global < MaxGlobal /\ perUser[u] < MaxPerUser
     THEN /\ global' = global + 1
          /\ perUser' = [perUser EXCEPT ![u] = @ + 1]
          /\ call' = [call EXCEPT ![k] = [Idle EXCEPT !.op = "import", !.user = u,
                                                      !.cid = c, !.pc = "look"]]
     ELSE /\ call' = [call EXCEPT ![k] = Done]
          /\ UNCHANGED limiter
  /\ UNCHANGED <<rows, pinset, faults, forgotten>>

\* DELETE, GET and POST of /pins/{requestid}: the row is read, and it is the
\* caller's.
RowArrives(k, op, r, c, pc) ==
  /\ Arrives(k) /\ Listed(r)
  /\ call' = [call EXCEPT ![k] = [op |-> op, user |-> pins[r].user, cid |-> c, row |-> r,
                                  pc |-> pc, status |-> pins[r].status]]
  /\ UNCHANGED <<rows, pinset, limiter, faults, forgotten>>

DeleteArrives(k, r)     == RowArrives(k, "delete", r, pins[r].cid, "mark")
GetArrives(k, r)        == RowArrives(k, "get", r, pins[r].cid, "status")
ReplaceArrives(k, r, c) == RowArrives(k, "replace", r, c, "drop")

-----------------------------------------------------------------------------
(* POST /pins and POST /pins/import/car                                    *)

\* No credits, or a CAR that is not accepted.
Refuse(k) ==
  /\ call[k].pc = "look"
  /\ End(k)
  /\ UNCHANGED <<rows, pinset, faults, forgotten>>

\* A pinned row answers an import, any row a pin by CID; an import resets a
\* row that never got as far.
FindExisting(k) ==
  /\ call[k].pc = "look"
  /\ \E r \in Row :
       /\ IsExisting(r, call[k].user, call[k].cid)
       /\ IF call[k].op = "import" /\ pins[r].status # "pinned"
          THEN call' = [call EXCEPT ![k].row = r, ![k].pc = "reset"] /\ UNCHANGED limiter
          ELSE End(k)
  /\ UNCHANGED <<rows, pinset, faults, forgotten>>

\* An error of the query counts as none found.
FindNone(k) ==
  /\ call[k].pc = "look"
  /\ \/ /\ ~\E r \in Row : IsExisting(r, call[k].user, call[k].cid)
        /\ UNCHANGED faults
     \/ Fault
  /\ Goto(k, "insert")
  /\ UNCHANGED <<rows, pinset, limiter, forgotten>>

Insert(k) ==
  /\ call[k].pc = "insert"
  /\ \E r \in Row :
       /\ InsertRow(r, call[k].user, call[k].cid)
       /\ call' = [call EXCEPT ![k].row = r,
                               ![k].pc = IF call[k].op = "import" THEN "begin" ELSE "pin"]
  /\ UNCHANGED <<pinset, limiter, faults, forgotten>>

InsertFails(k) ==
  /\ call[k].pc = "insert" /\ Fault
  /\ End(k)
  /\ UNCHANGED <<rows, pinset, forgotten>>

\* An import marks its row as queued (when it reuses one), then its goroutine
\* marks it as pinning; errors of either UPDATE change nothing.
ImportMarks(k, from, s, to) ==
  /\ call[k].pc = from
  /\ \/ SetStatus(call[k].row, s, FALSE) /\ UNCHANGED faults
     \/ Fault /\ UNCHANGED rows
  /\ Goto(k, to)
  /\ UNCHANGED <<pinset, limiter, forgotten>>

ImportResets(k) == ImportMarks(k, "reset", "queued", "begin")
ImportBegins(k) == ImportMarks(k, "begin", "pinning", "add")

\* addCARToCluster returns: the root is pinned, and the row is left as it is.
ImportDone(k) ==
  /\ call[k].pc = "add"
  /\ pinset' = pinset \cup {call[k].cid}
  /\ secured' = IF pins[call[k].row].status \in Active
                THEN secured \cup {call[k].row} ELSE secured
  /\ IF Listed(call[k].row) THEN UNCHANGED forgotten ELSE Forget(call[k].cid)
  /\ End(k)
  /\ UNCHANGED <<pins, exposed, faults>>

\* pinToCluster returns.
Pinned(k) ==
  /\ call[k].pc = "pin"
  /\ pinset' = pinset \cup {call[k].cid}
  /\ Goto(k, "pinned")
  /\ UNCHANGED <<rows, limiter, faults, forgotten>>

\* It fails, or it takes effect and its answer is lost.
PinFails(k) ==
  /\ call[k].pc \in {"pin", "add"}
  /\ \/ UNCHANGED <<pinset, faults>>
     \/ pinset' = pinset \cup {call[k].cid} /\ Fault
  /\ Goto(k, "failed")
  /\ UNCHANGED <<rows, limiter, forgotten>>

\* The deadline passes: the context of the UPDATE that would follow is the
\* one that has expired, and the row stays as it is.
PinTimesOut(k) ==
  /\ call[k].pc \in {"pin", "add"} /\ Fault
  /\ pinset' \in {pinset, pinset \cup {call[k].cid}}
  /\ Forget(call[k].cid)
  /\ End(k)
  /\ UNCHANGED rows

\* What the goroutine writes about its pin; an error of the UPDATE is lost.
Report(k) ==
  /\ call[k].pc \in {"pinned", "failed"}
  /\ \/ /\ call[k].pc = "pinned" /\ SetStatus(call[k].row, "pinning", TRUE)
        /\ UNCHANGED <<faults, forgotten>>
     \/ /\ call[k].pc = "failed" /\ SetStatus(call[k].row, "failed", FALSE)
        /\ UNCHANGED <<faults, forgotten>>
     \/ Fault /\ Forget(call[k].cid) /\ UNCHANGED rows
  /\ End(k)
  /\ UNCHANGED pinset

-----------------------------------------------------------------------------
(* DELETE /pins/{requestid}                                                *)

MarkDeleted(k) ==
  /\ call[k].pc = "mark"
  /\ IF pins[call[k].row].status = "dropped"
     THEN End(k) /\ UNCHANGED rows
     ELSE SetStatus(call[k].row, "deleted", FALSE) /\ Goto(k, "count") /\ UNCHANGED limiter
  /\ UNCHANGED <<pinset, faults, forgotten>>

\* Here and in ReplacePinByRequestId.
MarkFails(k) ==
  /\ call[k].pc \in {"mark", "drop"} /\ Fault
  /\ End(k)
  /\ UNCHANGED <<rows, pinset, forgotten>>

\* Mutant: only the first count decides.
NoRecheck(k) ==
  /\ call[k].pc \in {"count", "recheck"}
  /\ IF Counted(call[k].cid) = {} \/ call[k].pc = "recheck"
     THEN Goto(k, IF call[k].pc = "count" THEN "recheck" ELSE "unpin") /\ UNCHANGED limiter
     ELSE End(k)
  /\ UNCHANGED <<rows, pinset, faults, forgotten>>

\* The count of the handler, and the one its goroutine repeats.
Count(k) ==
  /\ call[k].pc \in {"count", "recheck"}
  /\ IF Counted(call[k].cid) = {}
     THEN Goto(k, IF call[k].pc = "count" THEN "recheck" ELSE "unpin") /\ UNCHANGED limiter
     ELSE End(k)
  /\ UNCHANGED <<rows, pinset, faults, forgotten>>

\* Without a count there is no unpin; one that fails is not repeated.
UnpinSkipped(k) ==
  /\ call[k].pc \in {"count", "recheck", "unpin"} /\ Fault
  /\ Forget(call[k].cid)
  /\ End(k)
  /\ UNCHANGED <<rows, pinset>>

\* unpinFromCluster.  What other requests are about to write of the CID's
\* pin is out of date from here on.
Unpin(k) ==
  /\ call[k].pc = "unpin"
  /\ pinset' = pinset \ {call[k].cid}
  /\ exposed' = exposed \cup
       {call[j].row : j \in {i \in Call : /\ call[i].pc \in {"pinned", "write"}
                                          /\ call[i].cid = call[k].cid}}
  /\ End(k)
  /\ UNCHANGED <<pins, secured, faults, forgotten>>

-----------------------------------------------------------------------------
(* GET and POST /pins/{requestid}                                          *)

\* getClusterStatus: what the peers' statuses add up to.
ClusterStatus(c) ==
  IF c \in pinset
  THEN {"pin_queued", "pinning", "pinned", "pin_error", "unpinned"}
  ELSE {"queued", "unpinning", "unpin_error", "unpinned"}

MapStatus(s) ==
  CASE s \in {"pin_error", "unpin_error", "unpinned"} -> "failed"
    [] s \in {"pinning", "unpinning"}                 -> "pinning"
    [] s = "pinned"                                   -> "pinned"
    [] OTHER                                          -> "queued"

\* A pin in flight that no peer knows of yet is not taken for a failed one.
Refreshed(current, s) ==
  IF s = "unpinned" /\ current \in {"queued", "pinning"} THEN current ELSE MapStatus(s)

\* The status of the row may have changed since it was read.
GetStatus(k) ==
  /\ call[k].pc = "status"
  /\ \E s \in ClusterStatus(call[k].cid) :
       /\ Refreshed(call[k].status, s) # call[k].status
       /\ call' = [call EXCEPT ![k].status = Refreshed(call[k].status, s), ![k].pc = "write"]
  /\ UNCHANGED <<rows, pinset, limiter, faults, forgotten>>

GetWrites(k) ==
  /\ call[k].pc = "write"
  /\ SetStatus(call[k].row, call[k].status, call[k].status = "pinned")
  /\ End(k)
  /\ UNCHANGED <<pinset, faults, forgotten>>

\* Nothing is written: the status is the same, or the cluster or the UPDATE
\* fails.
GetEnds(k) ==
  /\ call[k].pc \in {"status", "write"}
  /\ \/ UNCHANGED faults /\ \E s \in ClusterStatus(call[k].cid) :
          call[k].pc = "status" /\ Refreshed(call[k].status, s) = call[k].status
     \/ Fault
  /\ End(k)
  /\ UNCHANGED <<rows, pinset, forgotten>>

\* The row is deleted for good, and the request goes on as POST /pins: nobody
\* looks after the old CID's pin.
Drop(k) ==
  /\ call[k].pc = "drop"
  /\ IF pins[call[k].row].status = "dropped"
     THEN End(k) /\ UNCHANGED <<rows, forgotten>>
     ELSE /\ pins' = [pins EXCEPT ![call[k].row].status = "dropped"]
          /\ secured' = secured \ {call[k].row}
          /\ Forget(pins[call[k].row].cid)
          /\ call' = [call EXCEPT ![k].op = "add", ![k].row = 0, ![k].pc = "look"]
          /\ UNCHANGED <<exposed, limiter>>
  /\ UNCHANGED <<pinset, faults>>

-----------------------------------------------------------------------------

\* The process stops: neither requests nor goroutines are resumed.
Restart ==
  /\ Fault
  /\ forgotten' = forgotten \cup {call[k].cid : k \in {j \in Call : call[j].op # "none"}}
  /\ call' = [k \in Call |-> IF call[k].pc = "idle" THEN Idle ELSE Done]
  /\ global' = 0 /\ perUser' = [u \in User |-> 0]
  /\ UNCHANGED <<rows, pinset>>

Arrival(k) ==
  \/ \E u \in User, c \in Cid : AddArrives(k, u, c) \/ ImportArrives(k, u, c)
  \/ \E r \in Row : DeleteArrives(k, r) \/ GetArrives(k, r)
  \/ \E r \in Row, c \in Cid : ReplaceArrives(k, r, c)

AddStep(k) ==
  \/ Refuse(k) \/ FindExisting(k) \/ FindNone(k) \/ Insert(k) \/ InsertFails(k)
  \/ ImportResets(k) \/ ImportBegins(k) \/ ImportDone(k)
  \/ Pinned(k) \/ PinFails(k) \/ PinTimesOut(k) \/ Report(k)

DeleteStep(k) ==
  MarkDeleted(k) \/ MarkFails(k) \/ Count(k) \/ UnpinSkipped(k) \/ Unpin(k)

GetStep(k) == GetStatus(k) \/ GetWrites(k) \/ GetEnds(k)

Next ==
  \/ \E k \in Call :
       Arrival(k) \/ AddStep(k) \/ DeleteStep(k) \/ GetStep(k) \/ Drop(k)
  \/ Restart

Spec == Init /\ [][Next]_vars

-----------------------------------------------------------------------------
(* Properties                                                              *)

PinRow == [user : User \cup {NoUser}, cid : Cid \cup {NoCid},
           status : Status \cup {"absent", "dropped"}]
Request ==
  [op : {"none", "add", "import", "delete", "get", "replace"},
   user : User \cup {NoUser}, cid : Cid \cup {NoCid}, row : Row \cup {0},
   pc : {"idle", "look", "reset", "insert", "begin", "add", "pin", "pinned", "failed",
         "mark", "count", "recheck", "unpin", "status", "write", "drop", "done"},
   status : Status \cup {"absent"}]

\* Every variable has its type.
TypeOK ==
  /\ pins \in [Row -> PinRow] /\ pinset \subseteq Cid
  /\ call \in [Call -> Request]
  /\ global \in Int /\ perUser \in [User -> Int] /\ faults \in 0..MaxFaults
  /\ secured \subseteq Row /\ exposed \subseteq Row /\ forgotten \subseteq Cid \cup {NoCid}

\* A row that is queued, pinning or pinned, and whose pin was confirmed,
\* holds its CID in the cluster whatever others delete ("As long as you have
\* it pinned", docs/cloud-users/faq.md:69).
HeldIsPinned == \A r \in secured : pins[r].cid \in pinset

\* But for a row that became active between a delete's second count and its
\* unpin, or whose status was about to be written then: the count that
\* DeletePinByRequestId repeats leaves no other way to lose a pin, for all
\* that rows are deleted, revived by late writes, healed and replaced.
HoldersKeepTheirPin == \A r \in secured \ exposed : pins[r].cid \in pinset

\* When nothing is under way, what the cluster pins is some row's: a CID goes
\* with the last row deleted, in whatever order the deletes mark and count,
\* unless a call failed, a replacement dropped the row, or an import finished
\* after its row was deleted.
AtRest == \A k \in Call : call[k].op = "none"

NothingLeftPinned ==
  AtRest => \A c \in pinset \ forgotten : \E r \in Row : pins[r].cid = c /\ Listed(r)

\* The slots taken are those of the imports under way, of each user and of
\* all, on every path an import ends by, and no more than configured.
Imports(U) == {k \in Call : call[k].op = "import" /\ call[k].user \in U}

SlotsAreImports ==
  /\ global = Cardinality(Imports(User)) /\ global <= MaxGlobal
  /\ \A u \in User : perUser[u] = Cardinality(Imports({u})) /\ perUser[u] <= MaxPerUser
=============================================================================
