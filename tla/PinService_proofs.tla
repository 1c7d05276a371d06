-------------------------- MODULE PinService_proofs -------------------------
(***************************************************************************)
(* What PinService guarantees for any number of users, CIDs, rows and      *)
(* requests. A pin is lost by Unpin alone, and what Unpin may take away is *)
(* fixed by what every request knows when it happens: a delete about to    *)
(* unpin knows that the active rows of its CID came too late for its count *)
(* (LateKnown), a request about to report a pin that the pin is there or   *)
(* that it has been overtaken (Reported).  The slots of importLimiter are  *)
(* counted by what each request is (OpKnown).  What the cluster pins is    *)
(* some listed row's or some request's to unpin or report (Cared).         *)
(***************************************************************************)
EXTENDS PinService, FiniteSetTheorems, TLAPS

\* Where a request works on a row of its own CID.
WithRow == {"reset", "begin", "add", "pin", "pinned", "failed", "mark", "count",
            "recheck", "unpin", "status", "write"}

\* Rows keep their CID, and a request that works on a row works on its CID.
RowsKnown ==
  /\ \A r \in Row :
       IF pins[r].status = "absent" THEN pins[r].cid = NoCid ELSE pins[r].cid \in Cid
  /\ \A k \in Call :
       /\ call[k].pc \notin {"idle", "done"} => call[k].cid \in Cid
       /\ call[k].pc = "drop" => call[k].row \in Row /\ pins[call[k].row].cid \in Cid
       /\ call[k].pc \in WithRow => call[k].row \in Row /\ pins[call[k].row].cid = call[k].cid
       /\ call[k].pc = "write" => call[k].status \in Status

\* The last count before an unpin found no row: those there now came later.
LateKnown == \A k \in Call : call[k].pc = "unpin" => Counted(call[k].cid) \subseteq exposed

\* Who is about to report a pin found it, unless it went in the meantime.
Reported == \A k \in Call :
  call[k].pc = "pinned" \/ (call[k].pc = "write" /\ call[k].status = "pinned")
    => call[k].cid \in pinset \/ call[k].row \in exposed

\* Only rows that count are secured.
SecuredActive == \A r \in secured : pins[r].status \in Active

IInv == /\ TypeOK /\ RowsKnown /\ LateKnown /\ Reported /\ SecuredActive
        /\ HoldersKeepTheirPin

-----------------------------------------------------------------------------
(* Types                                                                   *)

LEMMA EndTyped ==
  ASSUME TypeOK, NEW k \in Call, End(k)
  PROVE  call' \in [Call -> Request] /\ global' \in Int /\ perUser' \in [User -> Int]
<1>1. Done \in Request
  BY DEF Done, Idle, Request
<1>2. call' \in [Call -> Request]
  BY <1>1 DEF End, TypeOK
<1> QED
  BY <1>2 DEF End, Release, TypeOK, limiter

LEMMA GotoTyped ==
  ASSUME TypeOK, NEW k \in Call,
         NEW pc \in {"insert", "begin", "add", "pinned", "failed", "count", "recheck", "unpin"},
         Goto(k, pc)
  PROVE  call' \in [Call -> Request]
BY DEF Goto, TypeOK, Request

LEMMA RowTyped ==
  ASSUME TypeOK, NEW k \in Call, NEW r \in Row, NEW pc \in {"reset", "begin", "pin"},
         call' = [call EXCEPT ![k].row = r, ![k].pc = pc]
  PROVE  call' \in [Call -> Request]
<1> DEFINE x == [call[k] EXCEPT !.row = r, !.pc = pc]
<1>1. x \in Request
  BY DEF TypeOK, Request
<1>2. call' = [call EXCEPT ![k] = x]
  BY DEF TypeOK, Request
<1> HIDE DEF x
<1> QED
  BY <1>1, <1>2 DEF TypeOK

LEMMA SetStatusTyped ==
  ASSUME TypeOK, NEW r \in Row, NEW s \in Status \cup {"absent"}, NEW b \in BOOLEAN, SetStatus(r, s, b)
  PROVE  pins' \in [Row -> PinRow] /\ secured' \subseteq Row /\ exposed' \subseteq Row
<1>1. CASE pins[r].status = "dropped"
  BY <1>1 DEF SetStatus, TypeOK, rows
<1>2. CASE pins[r].status # "dropped"
  <2>1. pins' = [pins EXCEPT ![r].status = s]
    BY <1>2 DEF SetStatus
  <2>2. pins' \in [Row -> PinRow]
    BY <2>1 DEF TypeOK, PinRow
  <2>3. secured' \subseteq Row /\ exposed' \subseteq Row
    BY <1>2 DEF SetStatus, Exposed, TypeOK
  <2> QED
    BY <2>2, <2>3
<1> QED
  BY <1>1, <1>2

LEMMA ForgetTyped ==
  ASSUME TypeOK, NEW c \in Cid \cup {NoCid}, Forget(c)
  PROVE  forgotten' \subseteq Cid \cup {NoCid}
BY DEF TypeOK, Forget

LEMMA FaultTyped == ASSUME TypeOK, Fault PROVE faults' \in 0..MaxFaults
BY PinAssumption DEF TypeOK, Fault

LEMMA CallTyped ==
  ASSUME TypeOK, NEW k \in Call
  PROVE  /\ call[k].cid \in Cid \cup {NoCid} /\ call[k].row \in Row \cup {0}
         /\ call[k].user \in User \cup {NoUser} /\ call[k].status \in Status \cup {"absent"}
BY DEF TypeOK, Request

LEMMA Typed ==
  ASSUME TypeOK, RowsKnown, [Next]_vars
  PROVE  TypeOK'
<1> USE DEF rows, limiter
<1>1. ASSUME NEW k \in Call, Arrival(k) PROVE TypeOK'
  <2>1. ASSUME NEW u \in User, NEW c \in Cid, AddArrives(k, u, c) PROVE TypeOK'
    BY <2>1 DEF AddArrives, Idle, TypeOK, Request
  <2>2. ASSUME NEW u \in User, NEW c \in Cid, ImportArrives(k, u, c) PROVE TypeOK'
    <3>1. PICK x \in Request : call' = [call EXCEPT ![k] = x]
      BY <2>2 DEF ImportArrives, Idle, Done, Request
    <3>2. call' \in [Call -> Request]
      BY <3>1 DEF TypeOK
    <3>3. global' \in Int /\ perUser' \in [User -> Int]
      BY <2>2 DEF ImportArrives, TypeOK
    <3> QED
      BY <2>2, <3>2, <3>3 DEF ImportArrives, TypeOK
  <2>3. ASSUME NEW r \in Row, NEW c \in Cid \cup {NoCid}, NEW op \in {"delete", "get", "replace"},
               NEW pc \in {"mark", "status", "drop"}, RowArrives(k, op, r, c, pc)
        PROVE  TypeOK'
    <3>1. pins[r].user \in User \cup {NoUser} /\ pins[r].status \in Status
      BY <2>3 DEF RowArrives, Listed, TypeOK, PinRow, Status, Active
    <3>2. call' \in [Call -> Request]
      BY <2>3, <3>1 DEF RowArrives, TypeOK, Request
    <3> QED
      BY <2>3, <3>2 DEF RowArrives, TypeOK
  <2>4. \A r \in Row : pins[r].cid \in Cid \cup {NoCid}
    BY DEF TypeOK, PinRow
  <2> QED
    BY <1>1, <2>1, <2>2, <2>3, <2>4 DEF Arrival, DeleteArrives, GetArrives, ReplaceArrives
<1>2. ASSUME NEW k \in Call, Refuse(k) PROVE TypeOK'
  BY <1>2, EndTyped DEF Refuse, TypeOK
<1>3. ASSUME NEW k \in Call, FindExisting(k) PROVE TypeOK'
  <2>1. PICK r \in Row :
          IF call[k].op = "import" /\ pins[r].status # "pinned"
          THEN call' = [call EXCEPT ![k].row = r, ![k].pc = "reset"] /\ UNCHANGED limiter
          ELSE End(k)
    BY <1>3 DEF FindExisting
  <2>2. call' \in [Call -> Request] /\ global' \in Int /\ perUser' \in [User -> Int]
    <3>1. CASE End(k)
      BY <3>1, EndTyped
    <3>2. CASE call' = [call EXCEPT ![k].row = r, ![k].pc = "reset"] /\ UNCHANGED limiter
      BY <3>2, RowTyped DEF TypeOK
    <3>3. CASE call[k].op = "import" /\ pins[r].status # "pinned"
      BY <2>1, <3>2, <3>3
    <3>4. CASE ~(call[k].op = "import" /\ pins[r].status # "pinned")
      BY <2>1, <3>1, <3>4
    <3> QED
      BY <3>3, <3>4
  <2> QED
    BY <1>3, <2>2 DEF FindExisting, TypeOK
<1>4. ASSUME NEW k \in Call, FindNone(k) PROVE TypeOK'
  <2>1. call' \in [Call -> Request]
    BY <1>4, GotoTyped DEF FindNone
  <2>2. faults' \in 0..MaxFaults
    BY <1>4, FaultTyped DEF FindNone, TypeOK
  <2> QED
    BY <1>4, <2>1, <2>2 DEF FindNone, TypeOK
<1>5. ASSUME NEW k \in Call, Insert(k) PROVE TypeOK'
  <2>1. PICK r \in Row :
          /\ InsertRow(r, call[k].user, call[k].cid)
          /\ call' = [call EXCEPT ![k].row = r,
                                  ![k].pc = IF call[k].op = "import" THEN "begin" ELSE "pin"]
    BY <1>5 DEF Insert
  <2>2. call' \in [Call -> Request]
    <3> DEFINE pc == IF call[k].op = "import" THEN "begin" ELSE "pin"
    <3>1. call' = [call EXCEPT ![k].row = r, ![k].pc = pc]
      BY <2>1
    <3>2. pc \in {"begin", "pin"}
      OBVIOUS
    <3> HIDE DEF pc
    <3> QED
      BY <3>1, <3>2, RowTyped
  <2>3. pins' \in [Row -> PinRow] /\ exposed' \subseteq Row
    BY <2>1, CallTyped DEF InsertRow, Exposed, TypeOK, PinRow, Status, Active
  <2> QED
    BY <1>5, <2>1, <2>2, <2>3 DEF Insert, InsertRow, TypeOK
<1>6. ASSUME NEW k \in Call, InsertFails(k) \/ MarkFails(k) \/ GetEnds(k) PROVE TypeOK'
  BY <1>6, EndTyped, FaultTyped DEF InsertFails, MarkFails, GetEnds, TypeOK
<1>7. ASSUME NEW k \in Call, ImportResets(k) \/ ImportBegins(k) PROVE TypeOK'
  <2>1. PICK from \in {"reset", "begin"}, s \in {"queued", "pinning"}, to \in {"begin", "add"} :
          ImportMarks(k, from, s, to)
    BY <1>7 DEF ImportResets, ImportBegins
  <2>2. call' \in [Call -> Request]
    BY <2>1, GotoTyped DEF ImportMarks
  <2>3. call[k].row \in Row
    BY <2>1 DEF ImportMarks, RowsKnown, WithRow
  <2>4. pins' \in [Row -> PinRow] /\ secured' \subseteq Row /\ exposed' \subseteq Row
    BY <2>1, <2>3, SetStatusTyped DEF ImportMarks, TypeOK, Status, Active
  <2>5. faults' \in 0..MaxFaults
    BY <2>1, FaultTyped DEF ImportMarks, TypeOK
  <2> QED
    BY <2>1, <2>2, <2>4, <2>5 DEF ImportMarks, TypeOK
<1>8. ASSUME NEW k \in Call, ImportDone(k) PROVE TypeOK'
  <2>1. call[k].row \in Row /\ pins[call[k].row].cid = call[k].cid
    BY <1>8 DEF ImportDone, RowsKnown, WithRow
  <2>2. call[k].cid \in Cid
    BY <1>8 DEF ImportDone, RowsKnown
  <2> QED
    BY <1>8, <2>1, <2>2, EndTyped, ForgetTyped DEF ImportDone, TypeOK
<1>9. ASSUME NEW k \in Call, Pinned(k) \/ PinFails(k) PROVE TypeOK'
  <2>1. call' \in [Call -> Request]
    BY <1>9, GotoTyped DEF Pinned, PinFails
  <2>2. call[k].cid \in Cid
    BY <1>9 DEF Pinned, PinFails, RowsKnown
  <2> QED
    BY <1>9, <2>1, <2>2, FaultTyped DEF Pinned, PinFails, TypeOK
<1>10. ASSUME NEW k \in Call, PinTimesOut(k) PROVE TypeOK'
  <2>1. call[k].cid \in Cid
    BY <1>10 DEF PinTimesOut, RowsKnown
  <2> QED
    BY <1>10, <2>1, EndTyped, FaultTyped, ForgetTyped DEF PinTimesOut, TypeOK
<1>11. ASSUME NEW k \in Call, Report(k) PROVE TypeOK'
  <2>1. call[k].row \in Row /\ call[k].cid \in Cid
    BY <1>11 DEF Report, RowsKnown, WithRow
  <2>2. pins' \in [Row -> PinRow] /\ secured' \subseteq Row /\ exposed' \subseteq Row
    BY <1>11, <2>1, SetStatusTyped DEF Report, TypeOK, Status, Active
  <2> QED
    BY <1>11, <2>1, <2>2, EndTyped, FaultTyped, ForgetTyped DEF Report, TypeOK
<1>12. ASSUME NEW k \in Call, MarkDeleted(k) PROVE TypeOK'
  <2>1. call[k].row \in Row
    BY <1>12 DEF MarkDeleted, RowsKnown, WithRow
  <2>2. CASE pins[call[k].row].status = "dropped"
    BY <1>12, <2>2, EndTyped DEF MarkDeleted, TypeOK
  <2>3. CASE pins[call[k].row].status # "dropped"
    <3>1. pins' \in [Row -> PinRow] /\ secured' \subseteq Row /\ exposed' \subseteq Row
      BY <1>12, <2>1, <2>3, SetStatusTyped DEF MarkDeleted, Status
    <3> QED
      BY <1>12, <2>3, <3>1, GotoTyped DEF MarkDeleted, TypeOK
  <2> QED
    BY <2>2, <2>3
<1>13. ASSUME NEW k \in Call, Count(k) PROVE TypeOK'
  <2>1. CASE Counted(call[k].cid) = {}
    <3>1. PICK pc \in {"recheck", "unpin"} : Goto(k, pc) /\ UNCHANGED limiter
      BY <1>13, <2>1 DEF Count
    <3> QED
      BY <1>13, <3>1, GotoTyped DEF Count, TypeOK
  <2>2. CASE Counted(call[k].cid) # {}
    BY <1>13, <2>2, EndTyped DEF Count, TypeOK
  <2> QED
    BY <2>1, <2>2
<1>14. ASSUME NEW k \in Call, UnpinSkipped(k) PROVE TypeOK'
  BY <1>14, EndTyped, FaultTyped, ForgetTyped, CallTyped DEF UnpinSkipped, TypeOK
<1>15. ASSUME NEW k \in Call, Unpin(k) PROVE TypeOK'
  <2>1. exposed' \subseteq Row
    BY <1>15 DEF Unpin, RowsKnown, WithRow, TypeOK
  <2> QED
    BY <1>15, <2>1, EndTyped DEF Unpin, TypeOK
<1>16. ASSUME NEW k \in Call, GetStatus(k) PROVE TypeOK'
  <2>1. PICK s \in Status : call' = [call EXCEPT ![k].status = s, ![k].pc = "write"]
    BY <1>16 DEF GetStatus, Refreshed, MapStatus, Status, Active
  <2> DEFINE x == [call[k] EXCEPT !.status = s, !.pc = "write"]
  <2>2. x \in Request
    BY DEF TypeOK, Request
  <2>3. call' = [call EXCEPT ![k] = x]
    BY <2>1 DEF TypeOK, Request
  <2> HIDE DEF x
  <2>4. call' \in [Call -> Request]
    BY <2>2, <2>3 DEF TypeOK
  <2> QED
    BY <1>16, <2>4 DEF GetStatus, TypeOK
<1>17. ASSUME NEW k \in Call, GetWrites(k) PROVE TypeOK'
  <2>1. call[k].row \in Row
    BY <1>17 DEF GetWrites, RowsKnown, WithRow
  <2> QED
    BY <1>17, <2>1, EndTyped, CallTyped, SetStatusTyped DEF GetWrites, TypeOK
<1>18. ASSUME NEW k \in Call, Drop(k) PROVE TypeOK'
  <2>1. call[k].row \in Row
    BY <1>18 DEF Drop, RowsKnown
  <2>2. CASE pins[call[k].row].status = "dropped"
    BY <1>18, <2>2, EndTyped DEF Drop, TypeOK
  <2>3. CASE pins[call[k].row].status # "dropped"
    <3>1. call' \in [Call -> Request]
      BY <1>18, <2>3 DEF Drop, TypeOK, Request
    <3>2. pins' \in [Row -> PinRow]
      BY <1>18, <2>3 DEF Drop, TypeOK, PinRow
    <3>3. pins[call[k].row].cid \in Cid \cup {NoCid}
      BY <2>1 DEF TypeOK, PinRow
    <3> QED
      BY <1>18, <2>3, <3>1, <3>2, <3>3, ForgetTyped DEF Drop, TypeOK
  <2> QED
    BY <2>2, <2>3
<1>19. ASSUME Restart PROVE TypeOK'
  <2>1. call' \in [Call -> Request]
    BY <1>19 DEF Restart, Idle, Done, Request, TypeOK
  <2>2. forgotten' \subseteq Cid \cup {NoCid}
    BY <1>19, CallTyped DEF Restart, TypeOK
  <2> QED
    BY <1>19, <2>1, <2>2, FaultTyped DEF Restart, TypeOK
<1>20. CASE UNCHANGED vars
  BY <1>20 DEF vars, TypeOK
<1> QED
  BY <1>1, <1>2, <1>3, <1>4, <1>5, <1>6, <1>7, <1>8, <1>9, <1>10, <1>11, <1>12, <1>13, <1>14,
     <1>15, <1>16, <1>17, <1>18, <1>19, <1>20 DEF Next, AddStep, DeleteStep, GetStep

-----------------------------------------------------------------------------
(* What a step may do to the rows                                          *)

RowStep ==
  /\ exposed \subseteq exposed'
  /\ \A r \in Row :
       /\ pins[r].status # "absent" => pins'[r].status # "absent" /\ pins'[r].cid = pins[r].cid
       /\ pins[r].status = "absent" =>
            pins'[r] = pins[r] \/ (pins'[r].status # "absent" /\ pins'[r].cid \in Cid)
       /\ pins'[r].status \in Active /\ pins[r].status \notin Active /\ LastCountTaken(pins'[r].cid)
            => r \in exposed'
       /\ r \in secured' => pins'[r].status \in Active
       /\ r \in secured' => r \in secured \/ pins[r].cid \in pinset' \/ r \in exposed

LEMMA SetStatusStep ==
  ASSUME IInv, NEW r \in Row, NEW s \in Status, NEW b \in BOOLEAN, SetStatus(r, s, b),
         pins[r].cid \in Cid,
         b /\ s \in Active => pins[r].cid \in pinset' \/ r \in exposed
  PROVE  RowStep
<1>1. CASE pins[r].status = "dropped"
  BY <1>1 DEF SetStatus, rows, RowStep, IInv, SecuredActive
<1>2. CASE pins[r].status # "dropped"
  <2>1. /\ pins' = [pins EXCEPT ![r].status = s]
        /\ secured' = IF s \notin Active THEN secured \ {r}
                      ELSE IF b THEN secured \cup {r} ELSE secured
        /\ exposed' = Exposed(r, pins[r].cid, s)
    BY <1>2 DEF SetStatus
  <2>2. pins[r].status # "absent" /\ s # "absent"
    BY PinAssumption DEF IInv, RowsKnown, Status, Active
  <2>3. \A q \in Row : /\ pins'[q].cid = pins[q].cid
                       /\ pins'[q].status = IF q = r THEN s ELSE pins[q].status
                       /\ q # r => pins'[q] = pins[q]
    BY <2>1 DEF IInv, TypeOK, PinRow
  <2>4. exposed \subseteq exposed'
    BY <2>1 DEF Exposed
  <2>5. s \in Active /\ pins[r].status \notin Active /\ LastCountTaken(pins[r].cid) => r \in exposed'
    BY <2>1 DEF Exposed
  <2>6. \A q \in secured' : (q = r => s \in Active) /\ (q \in secured \/ (q = r /\ b /\ s \in Active))
    BY <2>1
  <2> HIDE DEF LastCountTaken, Active
  <2> QED
    BY <2>2, <2>3, <2>4, <2>5, <2>6 DEF RowStep, IInv, SecuredActive
<1> QED
  BY <1>1, <1>2

LEMMA RowsStep ==
  ASSUME IInv, [Next]_vars
  PROVE  RowStep
<1> USE DEF rows
<1>1. CASE UNCHANGED rows
  BY <1>1 DEF RowStep, IInv, SecuredActive
<1>2. ASSUME NEW k \in Call, Insert(k) PROVE RowStep
  <2>1. PICK r \in Row : InsertRow(r, call[k].user, call[k].cid)
    BY <1>2 DEF Insert
  <2>2. call[k].cid \in Cid
    BY <1>2 DEF Insert, IInv, RowsKnown
  <2>3. r \notin secured
    BY <2>1 DEF InsertRow, IInv, SecuredActive, Active
  <2>4. \A q \in Row : q # r => pins'[q] = pins[q]
    BY <2>1 DEF InsertRow, IInv, TypeOK
  <2>5. pins[r].status = "absent" /\ pins'[r].status = "queued" /\ pins'[r].cid = call[k].cid
    BY <2>1 DEF InsertRow, IInv, TypeOK
  <2>6. exposed \subseteq exposed' /\ (LastCountTaken(call[k].cid) => r \in exposed')
    BY <2>1 DEF InsertRow, Exposed, Active
  <2> QED
    BY <2>1, <2>2, <2>3, <2>4, <2>5, <2>6 DEF InsertRow, RowStep, IInv, SecuredActive
<1>3. ASSUME NEW k \in Call, ImportResets(k) \/ ImportBegins(k) PROVE RowStep
  <2>1. PICK s \in {"queued", "pinning"} : SetStatus(call[k].row, s, FALSE) \/ UNCHANGED rows
    BY <1>3 DEF ImportResets, ImportBegins, ImportMarks
  <2>2. call[k].row \in Row /\ pins[call[k].row].cid \in Cid
    BY <1>3 DEF ImportResets, ImportBegins, ImportMarks, IInv, RowsKnown, WithRow
  <2> QED
    BY <1>1, <2>1, <2>2, SetStatusStep DEF Status, Active
<1>4. ASSUME NEW k \in Call, ImportDone(k) PROVE RowStep
  <2>1. pins[call[k].row].cid = call[k].cid
    BY <1>4 DEF ImportDone, IInv, RowsKnown, WithRow
  <2> QED
    BY <1>4, <2>1 DEF ImportDone, RowStep, IInv, SecuredActive
<1>5. ASSUME NEW k \in Call, Report(k) PROVE RowStep
  <2>1. call[k].row \in Row /\ pins[call[k].row].cid = call[k].cid /\ call[k].cid \in Cid
    BY <1>5 DEF Report, IInv, RowsKnown, WithRow
  <2>2. CASE call[k].pc = "pinned" /\ SetStatus(call[k].row, "pinning", TRUE)
    <3>1. pins[call[k].row].cid \in pinset' \/ call[k].row \in exposed
      BY <1>5, <2>1, <2>2 DEF Report, IInv, Reported
    <3> QED
      BY <2>1, <2>2, <3>1, SetStatusStep DEF Status, Active
  <2>3. CASE SetStatus(call[k].row, "failed", FALSE)
    BY <2>1, <2>3, SetStatusStep DEF Status
  <2> QED
    BY <1>1, <1>5, <2>2, <2>3 DEF Report
<1>6. ASSUME NEW k \in Call, MarkDeleted(k) PROVE RowStep
  <2>1. call[k].row \in Row /\ pins[call[k].row].cid \in Cid
    BY <1>6 DEF MarkDeleted, IInv, RowsKnown, WithRow
  <2>2. SetStatus(call[k].row, "deleted", FALSE) \/ UNCHANGED rows
    BY <1>6 DEF MarkDeleted
  <2> QED
    BY <1>1, <2>1, <2>2, SetStatusStep DEF Status
<1>7. ASSUME NEW k \in Call, Unpin(k) PROVE RowStep
  BY <1>7 DEF Unpin, RowStep, IInv, SecuredActive
<1>8. ASSUME NEW k \in Call, GetWrites(k) PROVE RowStep
  <2>1. /\ call[k].row \in Row /\ pins[call[k].row].cid = call[k].cid /\ call[k].cid \in Cid
        /\ call[k].status \in Status
    BY <1>8 DEF GetWrites, IInv, RowsKnown, WithRow
  <2>2. PICK b \in BOOLEAN : b = (call[k].status = "pinned")
    OBVIOUS
  <2>3. b => pins[call[k].row].cid \in pinset' \/ call[k].row \in exposed
    BY <1>8, <2>1, <2>2 DEF GetWrites, IInv, Reported
  <2>4. SetStatus(call[k].row, call[k].status, b)
    BY <1>8, <2>2 DEF GetWrites
  <2> QED
    BY <2>1, <2>3, <2>4, SetStatusStep
<1>9. ASSUME NEW k \in Call, Drop(k) PROVE RowStep
  <2>1. call[k].row \in Row
    BY <1>9 DEF Drop, IInv, RowsKnown
  <2>2. CASE UNCHANGED rows
    BY <1>1, <2>2
  <2>3. CASE pins[call[k].row].status # "dropped"
    <3>1. pins' = [pins EXCEPT ![call[k].row].status = "dropped"]
      BY <1>9, <2>3 DEF Drop
    <3>2. pins[call[k].row].status # "absent"
      BY <1>9, PinAssumption DEF Drop, IInv, RowsKnown
    <3>3. \A q \in Row :
            /\ pins'[q].cid = pins[q].cid
            /\ pins'[q].status = IF q = call[k].row THEN "dropped" ELSE pins[q].status
            /\ q # call[k].row => pins'[q] = pins[q]
      BY <3>1 DEF IInv, TypeOK, PinRow
    <3>4. secured' = secured \ {call[k].row} /\ exposed' = exposed
      BY <1>9, <2>3 DEF Drop
    <3>5. "dropped" \notin Active
      BY DEF Active
    <3> QED
      BY <3>2, <3>3, <3>4, <3>5 DEF RowStep, IInv, SecuredActive
  <2> QED
    BY <1>9, <2>2, <2>3 DEF Drop
<1>10. ASSUME NEW k \in Call, Arrival(k) PROVE RowStep
  BY <1>1, <1>10 DEF Arrival, AddArrives, ImportArrives, DeleteArrives, GetArrives,
                     ReplaceArrives, RowArrives
<1>11. ASSUME NEW k \in Call, \/ Refuse(k) \/ FindExisting(k) \/ FindNone(k) \/ InsertFails(k)
                              \/ Pinned(k) \/ PinFails(k) \/ PinTimesOut(k) \/ GetStatus(k)
       PROVE  RowStep
  BY <1>1, <1>11 DEF Refuse, FindExisting, FindNone, InsertFails, Pinned, PinFails, PinTimesOut,
                     GetStatus
<1>12. ASSUME NEW k \in Call, MarkFails(k) \/ Count(k) \/ UnpinSkipped(k) \/ GetEnds(k)
       PROVE  RowStep
  BY <1>1, <1>12 DEF MarkFails, Count, UnpinSkipped, GetEnds
<1>13. ASSUME Restart \/ UNCHANGED vars PROVE RowStep
  BY <1>1, <1>13 DEF Restart, vars
<1> HIDE DEF rows
<1> QED
  BY <1>2, <1>3, <1>4, <1>5, <1>6, <1>7, <1>8, <1>9, <1>10, <1>11, <1>12, <1>13
     DEF Next, AddStep, DeleteStep, GetStep

-----------------------------------------------------------------------------
(* What a step may do to the requests                                      *)

\* The request is as it was, over, or has it right about the row it works on.
CallStep(j) ==
  \/ call'[j] = call[j]
  \/ call'[j].pc \in {"idle", "done"}
  \/ /\ call'[j].cid \in Cid
     /\ call'[j].pc = "drop" => call'[j].row \in Row /\ pins'[call'[j].row].cid \in Cid
     /\ call'[j].pc \in WithRow =>
          call'[j].row \in Row /\ pins'[call'[j].row].cid = call'[j].cid
     /\ call'[j].pc = "unpin" => UNCHANGED rows /\ Counted(call[j].cid) = {} /\ call'[j].cid = call[j].cid
     /\ call'[j].pc = "pinned" => call'[j].cid \in pinset'
     /\ call'[j].pc = "write" =>
          /\ call'[j].status \in Status
          /\ call'[j].status = "pinned" => call'[j].cid \in pinset'

LEMMA EndStep ==
  ASSUME TypeOK, NEW k \in Call, End(k)
  PROVE  \A j \in Call : CallStep(j)
BY DEF End, Done, Idle, CallStep, TypeOK

LEMMA CidKept ==
  ASSUME IInv, RowStep, NEW r \in Row, pins[r].cid \in Cid
  PROVE  pins'[r].cid = pins[r].cid
BY PinAssumption DEF IInv, RowsKnown, RowStep

LEMMA GotoStep ==
  ASSUME IInv, RowStep, NEW k \in Call,
         NEW pc \in {"insert", "begin", "add", "failed", "count", "recheck", "unpin", "pinned"},
         Goto(k, pc), call[k].pc \notin {"idle", "done"},
         pc # "insert" => call[k].pc \in WithRow,
         pc = "unpin" => UNCHANGED rows /\ Counted(call[k].cid) = {},
         pc = "pinned" => call[k].cid \in pinset'
  PROVE  \A j \in Call : CallStep(j)
<1>1. \A j \in Call : j # k => call'[j] = call[j]
  BY DEF Goto, IInv, TypeOK
<1>2. /\ call'[k].pc = pc /\ call'[k].cid = call[k].cid /\ call'[k].row = call[k].row
  BY DEF Goto, IInv, TypeOK, Request
<1>3. call[k].cid \in Cid
  BY DEF IInv, RowsKnown
<1>4. pc # "insert" => call[k].row \in Row /\ pins'[call[k].row].cid = call[k].cid
  BY CidKept, <1>3 DEF IInv, RowsKnown
<1>5. CallStep(k)
  BY <1>2, <1>3, <1>4 DEF CallStep, WithRow
<1> QED
  BY <1>1, <1>5 DEF CallStep

LEMMA RowCallStep ==
  ASSUME IInv, RowStep, NEW k \in Call, NEW r \in Row, NEW pc \in {"reset", "begin", "pin"},
         call' = [call EXCEPT ![k].row = r, ![k].pc = pc],
         call[k].cid \in Cid, pins'[r].cid = call[k].cid
  PROVE  \A j \in Call : CallStep(j)
<1>1. \A j \in Call : j # k => call'[j] = call[j]
  BY DEF IInv, TypeOK
<1>2. /\ call'[k].pc = pc /\ call'[k].cid = call[k].cid /\ call'[k].row = r
  BY DEF IInv, TypeOK, Request
<1> QED
  BY <1>1, <1>2 DEF CallStep, WithRow

LEMMA CallsStep ==
  ASSUME IInv, RowStep, [Next]_vars
  PROVE  \A j \in Call : CallStep(j)
<1>1. ASSUME NEW k \in Call, Arrival(k) PROVE \A j \in Call : CallStep(j)
  <2>1. ASSUME NEW u \in User, NEW c \in Cid, AddArrives(k, u, c) \/ ImportArrives(k, u, c)
        PROVE  \A j \in Call : CallStep(j)
    <3>1. \A j \in Call : j # k => call'[j] = call[j]
      BY <2>1 DEF AddArrives, ImportArrives, IInv, TypeOK
    <3>2. call'[k].pc = "done" \/ (call'[k].pc = "look" /\ call'[k].cid = c)
      <4>1. CASE AddArrives(k, u, c)
        BY <4>1 DEF AddArrives, Idle, IInv, TypeOK
      <4>2. CASE ImportArrives(k, u, c)
        <5>1. CASE call' = [call EXCEPT ![k] = Done]
          BY <5>1 DEF Idle, Done, IInv, TypeOK
        <5>2. CASE call' = [call EXCEPT ![k] = [Idle EXCEPT !.op = "import", !.user = u,
                                                            !.cid = c, !.pc = "look"]]
          BY <5>2 DEF Idle, IInv, TypeOK
        <5> QED
          BY <4>2, <5>1, <5>2 DEF ImportArrives
      <4> QED
        BY <2>1, <4>1, <4>2
    <3> QED
      BY <3>1, <3>2 DEF CallStep, WithRow
  <2>2. ASSUME NEW r \in Row, NEW c, NEW op, NEW pc \in {"mark", "status", "drop"},
               RowArrives(k, op, r, c, pc), pc # "drop" => c = pins[r].cid,
               pc = "drop" => c \in Cid
        PROVE  \A j \in Call : CallStep(j)
    <3>1. \A j \in Call : j # k => call'[j] = call[j]
      BY <2>2 DEF RowArrives, IInv, TypeOK
    <3>2. call'[k].pc = pc /\ call'[k].cid = c /\ call'[k].row = r
      BY <2>2 DEF RowArrives, IInv, TypeOK
    <3>3. pins[r].cid \in Cid
      BY <2>2 DEF RowArrives, Listed, Active, IInv, RowsKnown
    <3>4. pins'[r].cid = pins[r].cid
      BY <3>3, CidKept
    <3> QED
      BY <2>2, <3>1, <3>2, <3>3, <3>4 DEF CallStep, WithRow
  <2> QED
    BY <1>1, <2>1, <2>2 DEF Arrival, DeleteArrives, GetArrives, ReplaceArrives
<1>2. ASSUME NEW k \in Call, End(k) PROVE \A j \in Call : CallStep(j)
  BY <1>2, EndStep DEF IInv
<1>3. ASSUME NEW k \in Call, FindExisting(k) PROVE \A j \in Call : CallStep(j)
  <2>1. PICK r \in Row :
          /\ IsExisting(r, call[k].user, call[k].cid)
          /\ \/ call' = [call EXCEPT ![k].row = r, ![k].pc = "reset"]
             \/ End(k)
    BY <1>3 DEF FindExisting
  <2>2. pins[r].cid = call[k].cid /\ call[k].cid \in Cid
    BY <1>3, <2>1 DEF FindExisting, IsExisting, IInv, RowsKnown
  <2>3. pins'[r].cid = call[k].cid
    BY <2>2, CidKept
  <2> QED
    BY <1>2, <2>1, <2>2, <2>3, RowCallStep
<1>4. ASSUME NEW k \in Call, FindNone(k) PROVE \A j \in Call : CallStep(j)
  BY <1>4, GotoStep DEF FindNone
<1>5. ASSUME NEW k \in Call, Insert(k) PROVE \A j \in Call : CallStep(j)
  <2>1. PICK r \in Row, pc \in {"begin", "pin"} :
          /\ InsertRow(r, call[k].user, call[k].cid)
          /\ call' = [call EXCEPT ![k].row = r, ![k].pc = pc]
    <3>1. CASE call[k].op = "import"
      BY <1>5, <3>1 DEF Insert
    <3>2. CASE call[k].op # "import"
      BY <1>5, <3>2 DEF Insert
    <3> QED
      BY <3>1, <3>2
  <2>2. pins'[r].cid = call[k].cid /\ call[k].cid \in Cid
    BY <1>5, <2>1 DEF Insert, InsertRow, IInv, TypeOK, RowsKnown
  <2> QED
    BY <2>1, <2>2, RowCallStep
<1>6. ASSUME NEW k \in Call, ImportResets(k) \/ ImportBegins(k)
      PROVE  \A j \in Call : CallStep(j)
  <2>1. PICK to \in {"begin", "add"} : Goto(k, to)
    BY <1>6 DEF ImportResets, ImportBegins, ImportMarks
  <2> QED
    BY <1>6, <2>1, GotoStep DEF ImportResets, ImportBegins, ImportMarks, WithRow
<1>7. ASSUME NEW k \in Call, Pinned(k) \/ PinFails(k) PROVE \A j \in Call : CallStep(j)
  BY <1>7, GotoStep DEF Pinned, PinFails, WithRow
<1>8. ASSUME NEW k \in Call, MarkDeleted(k) PROVE \A j \in Call : CallStep(j)
  BY <1>2, <1>8, GotoStep DEF MarkDeleted, WithRow
<1>9. ASSUME NEW k \in Call, Count(k) PROVE \A j \in Call : CallStep(j)
  <2>1. CASE Counted(call[k].cid) = {}
    <3>1. PICK pc \in {"recheck", "unpin"} : Goto(k, pc)
      BY <1>9, <2>1 DEF Count
    <3> QED
      BY <1>9, <2>1, <3>1, GotoStep DEF Count, WithRow
  <2>2. CASE Counted(call[k].cid) # {}
    BY <1>2, <1>9, <2>2 DEF Count
  <2> QED
    BY <2>1, <2>2
<1>10. ASSUME NEW k \in Call, GetStatus(k) PROVE \A j \in Call : CallStep(j)
  <2>1. PICK s \in ClusterStatus(call[k].cid), t \in Status :
          t = Refreshed(call[k].status, s) /\ t # call[k].status
          /\ call' = [call EXCEPT ![k].status = t, ![k].pc = "write"]
    BY <1>10 DEF GetStatus, Refreshed, MapStatus, Status, Active
  <2>2. t = "pinned" => call[k].cid \in pinset
    BY <2>1 DEF Refreshed, MapStatus, ClusterStatus
  <2>3. \A j \in Call : j # k => call'[j] = call[j]
    BY <2>1 DEF IInv, TypeOK
  <2>4. /\ call'[k].pc = "write" /\ call'[k].status = t /\ call'[k].cid = call[k].cid
        /\ call'[k].row = call[k].row
    BY <2>1 DEF IInv, TypeOK, Request
  <2>5. /\ call[k].cid \in Cid /\ call[k].row \in Row
        /\ pins'[call[k].row].cid = call[k].cid
    BY <1>10, CidKept DEF GetStatus, IInv, RowsKnown, WithRow
  <2> QED
    BY <1>10, <2>2, <2>3, <2>4, <2>5 DEF GetStatus, CallStep
<1>11. ASSUME NEW k \in Call, Drop(k) PROVE \A j \in Call : CallStep(j)
  <2>1. ASSUME call' = [call EXCEPT ![k].op = "add", ![k].row = 0, ![k].pc = "look"]
        PROVE  \A j \in Call : CallStep(j)
    <3>1. \A j \in Call : j # k => call'[j] = call[j]
      BY <2>1 DEF IInv, TypeOK
    <3>2. call'[k].pc = "look" /\ call'[k].cid = call[k].cid
      BY <2>1 DEF IInv, TypeOK, Request
    <3> QED
      BY <1>11, <3>1, <3>2 DEF Drop, IInv, RowsKnown, CallStep, WithRow
  <2> QED
    BY <1>2, <1>11, <2>1 DEF Drop
<1>12. ASSUME Restart \/ UNCHANGED vars PROVE \A j \in Call : CallStep(j)
  BY <1>12 DEF Restart, vars, Idle, Done, CallStep
<1> QED
  BY <1>1, <1>2, <1>3, <1>4, <1>5, <1>6, <1>7, <1>8, <1>9, <1>10, <1>11, <1>12
     DEF Next, AddStep, DeleteStep, GetStep, Refuse, InsertFails, GetEnds, ImportDone, PinTimesOut, Report,
         MarkFails, UnpinSkipped, Unpin, GetWrites

-----------------------------------------------------------------------------
(* The invariant                                                           *)

LEMMA Initial == Init => IInv
<1> SUFFICES ASSUME Init PROVE IInv
  OBVIOUS
<1>1. PICK t \in [Settled -> [user : User, cid : Cid, status : {"pinned", "failed"}]] :
        /\ pins = [r \in Row |-> IF r \in Settled THEN t[r] ELSE NoRow]
        /\ pinset = {t[r].cid : r \in {q \in Settled : t[q].status = "pinned"}}
        /\ secured = {r \in Settled : t[r].status = "pinned"}
  BY DEF Init
<1>2. /\ pins \in [Row -> PinRow] /\ pinset \subseteq Cid /\ secured \subseteq Row
  BY <1>1, PinAssumption DEF PinRow, NoRow, Status, Active
<1>3. call \in [Call -> Request]
  BY DEF Init, Idle, Request
<1>4. TypeOK
  BY <1>2, <1>3, PinAssumption DEF Init, TypeOK
<1>5. \A k \in Call : call[k].pc = "idle"
  BY DEF Init, Idle
<1>6. \A r \in Row : IF r \in Settled THEN pins[r].status \in {"pinned", "failed"} /\ pins[r].cid \in Cid
                     ELSE pins[r].status = "absent" /\ pins[r].cid = NoCid
  BY <1>1 DEF NoRow
<1>7. \A r \in secured : pins[r].status = "pinned" /\ pins[r].cid \in pinset
  BY <1>1, PinAssumption
<1> QED
  BY <1>4, <1>5, <1>6, <1>7
     DEF IInv, RowsKnown, WithRow, LateKnown, Reported, SecuredActive, Active, HoldersKeepTheirPin

LEMMA Inductive == IInv /\ [Next]_vars => IInv'
<1> SUFFICES ASSUME IInv, [Next]_vars PROVE IInv'
  OBVIOUS
<1>1. TypeOK'
  BY Typed DEF IInv
<1>2. RowStep /\ \A j \in Call : CallStep(j)
  BY RowsStep, CallsStep
<1>3. RowsKnown'
  <2>1. \A r \in Row :
          IF pins'[r].status = "absent" THEN pins'[r].cid = NoCid ELSE pins'[r].cid \in Cid
    BY <1>2 DEF RowStep, IInv, RowsKnown
  <2>2. \A r \in Row : pins[r].cid \in Cid => pins'[r].cid = pins[r].cid
    BY <1>2, CidKept
  <2>3. ASSUME NEW k \in Call
        PROVE  /\ call'[k].pc \notin {"idle", "done"} => call'[k].cid \in Cid
               /\ call'[k].pc = "drop" => call'[k].row \in Row /\ pins'[call'[k].row].cid \in Cid
               /\ call'[k].pc \in WithRow =>
                    call'[k].row \in Row /\ pins'[call'[k].row].cid = call'[k].cid
               /\ call'[k].pc = "write" => call'[k].status \in Status
    <3>1. CASE call'[k] = call[k]
      BY <2>2, <3>1 DEF IInv, RowsKnown, WithRow
    <3>2. CASE call'[k].pc \in {"idle", "done"}
      BY <3>2 DEF WithRow
    <3> QED
      BY <1>2, <3>1, <3>2 DEF CallStep
  <2> QED
    BY <2>1, <2>3 DEF RowsKnown
\* A delete about to unpin has counted no active row, or is that of before;
\* a row that became active since is exposed.
<1>4. LateKnown'
  <2> SUFFICES ASSUME NEW k \in Call, call'[k].pc = "unpin", NEW r \in Row,
                      pins'[r].cid = call'[k].cid, pins'[r].status \in Active
               PROVE  r \in exposed'
    BY DEF LateKnown, Counted
  <2>1. CASE call'[k] = call[k]
    <3>1. LastCountTaken(pins'[r].cid)
      BY <2>1 DEF LastCountTaken
    <3>2. CASE pins[r].status \in Active
      <4>1. pins[r].cid = call[k].cid
        BY <1>2, <2>1, <3>2 DEF RowStep, Active
      <4>2. r \in exposed
        BY <2>1, <3>2, <4>1 DEF IInv, LateKnown, Counted
      <4> QED
        BY <1>2, <4>2 DEF RowStep
    <3>3. CASE pins[r].status \notin Active
      BY <1>2, <3>1, <3>3 DEF RowStep
    <3> QED
      BY <3>2, <3>3
  <2>2. CASE UNCHANGED rows /\ Counted(call[k].cid) = {} /\ call'[k].cid = call[k].cid
    BY <2>2 DEF rows, Counted
  <2> QED
    BY <1>2, <2>1, <2>2 DEF CallStep
\* Only Unpin takes a pin away, and it exposes the rows of the requests
\* about to report it.
<1>5. ASSUME NEW c \in pinset, c \notin pinset'
      PROVE  \E k \in Call : Unpin(k) /\ call[k].cid = c
  BY <1>5 DEF Next, Arrival, AddArrives, ImportArrives, DeleteArrives, GetArrives, ReplaceArrives,
              RowArrives, AddStep, Refuse, FindExisting, FindNone, Insert, InsertFails,
              ImportResets, ImportBegins, ImportMarks, ImportDone, Pinned, PinFails, PinTimesOut,
              Report, DeleteStep, MarkDeleted, MarkFails, Count, UnpinSkipped, Unpin, GetStatus,
              GetStep, GetWrites, GetEnds, Drop, Restart, vars
<1>6. Reported'
  <2> SUFFICES ASSUME NEW k \in Call,
                      call'[k].pc = "pinned" \/ (call'[k].pc = "write" /\ call'[k].status = "pinned"),
                      call'[k].cid \notin pinset'
               PROVE  call'[k].row \in exposed'
    BY DEF Reported
  <2>1. call'[k] = call[k]
    BY <1>2 DEF CallStep
  <2>2. CASE call[k].row \in exposed
    BY <1>2, <2>1, <2>2 DEF RowStep
  <2>3. CASE call[k].cid \in pinset
    <3>1. PICK j \in Call : Unpin(j) /\ call[j].cid = call[k].cid
      BY <1>5, <2>1, <2>3
    <3> QED
      BY <2>1, <3>1 DEF Unpin
  <2> QED
    BY <2>1, <2>2, <2>3 DEF IInv, Reported
<1>7. SecuredActive'
  BY <1>1, <1>2 DEF SecuredActive, RowStep, TypeOK
\* A row of which Unpin takes the pin was active, hence counted or late.
<1>8. HoldersKeepTheirPin'
  <2> SUFFICES ASSUME NEW r \in Row, r \in secured', r \notin exposed', pins'[r].cid \notin pinset'
               PROVE  FALSE
    BY <1>1 DEF HoldersKeepTheirPin, TypeOK
  <2>1. r \notin exposed
    BY <1>2 DEF RowStep
  <2>2. r \in secured \/ pins[r].cid \in pinset'
    BY <1>2, <2>1 DEF RowStep
  <2>3. pins[r].cid \in Cid /\ pins'[r].cid = pins[r].cid
    BY <1>1, <1>2, <2>2, CidKept DEF IInv, TypeOK, RowsKnown, SecuredActive, Active
  <2>4. r \in secured /\ pins[r].cid \in pinset
    BY <2>1, <2>2, <2>3 DEF IInv, HoldersKeepTheirPin
  <2>5. PICK k \in Call : Unpin(k) /\ call[k].cid = pins[r].cid
    BY <1>5, <2>3, <2>4
  <2>6. r \in Counted(call[k].cid)
    BY <2>4, <2>5 DEF Counted, IInv, SecuredActive
  <2> QED
    BY <2>1, <2>5, <2>6 DEF Unpin, IInv, LateKnown
<1> QED
  BY <1>1, <1>3, <1>4, <1>6, <1>7, <1>8 DEF IInv

\* Every reachable state is typed, whatever the numbers of users, CIDs, rows
\* and requests.
THEOREM TypeCorrect == Spec => []TypeOK
<1>1. IInv => TypeOK
  BY DEF IInv
<1> QED
  BY Initial, Inductive, <1>1, PTL DEF Spec

\* Whatever users add, import, delete, refresh and replace, and whichever
\* calls fail, a row whose pin was confirmed keeps it while it is active,
\* unless it became active after the last count of a delete under way or its
\* status was being written when the pin went.
THEOREM PinsKept == Spec => []HoldersKeepTheirPin
<1>1. IInv => HoldersKeepTheirPin
  BY DEF IInv
<1> QED
  BY Initial, Inductive, <1>1, PTL DEF Spec

-----------------------------------------------------------------------------
(* The slots of importLimiter                                              *)

OpKnown == \A k \in Call :
  /\ call[k].pc \in {"idle", "done"} => call[k].op = "none"
  /\ call[k].pc = "drop" => call[k].op = "replace"
  /\ call[k].op = "import" => call[k].user \in User

SlotInv == IInv /\ OpKnown /\ SlotsAreImports

\* The request goes on as what it was, and takes no slot and frees none.
Goes(k) ==
  /\ \A j \in Call : j # k => call'[j] = call[j]
  /\ call'[k].pc \notin {"idle", "done", "drop"}
  /\ (call[k].op = "import") = (call'[k].op = "import")
  /\ call'[k].user = call[k].user
  /\ UNCHANGED limiter

LEMMA ImportsOfAll ==
  ASSUME OpKnown
  PROVE  /\ \A U : Imports(U) \subseteq Call /\ IsFiniteSet(Imports(U))
         /\ Imports(User) = {k \in Call : call[k].op = "import"}
<1>1. \A U : Imports(U) \subseteq Call
  BY DEF Imports
<1>2. \A U : IsFiniteSet(Imports(U))
  BY <1>1, PinAssumption, FS_Subset
<1> QED
  BY <1>1, <1>2 DEF Imports, OpKnown

\* A request arrives, and takes no slot.
Comes(k) ==
  /\ Arrives(k) /\ call'[k].op \in {"none", "add", "delete", "get", "replace"}
  /\ call'[k].pc \in {"idle", "done"} => call'[k].op = "none"
  /\ call'[k].pc = "drop" => call'[k].op = "replace"
  /\ \A j \in Call : j # k => call'[j] = call[j]
  /\ UNCHANGED limiter

TakesSlot(k, u, c) == ImportArrives(k, u, c) /\ global < MaxGlobal /\ perUser[u] < MaxPerUser

LEMMA OpStep ==
  ASSUME SlotInv, [Next]_vars
  PROVE  \/ UNCHANGED <<call, global, perUser>>
         \/ \E k \in Call : End(k) \/ Goes(k) \/ Comes(k)
         \/ \E k \in Call, u \in User, c \in Cid : TakesSlot(k, u, c)
         \/ Restart
<1> USE DEF SlotInv, IInv, limiter
<1>1. ASSUME NEW k \in Call, Arrival(k)
      PROVE  Comes(k) \/ \E u \in User, c \in Cid : TakesSlot(k, u, c)
  <2>1. ASSUME NEW u \in User, NEW c \in Cid, AddArrives(k, u, c) PROVE Comes(k)
    BY <2>1 DEF AddArrives, Comes, Idle, TypeOK
  <2>2. ASSUME NEW u \in User, NEW c \in Cid, ImportArrives(k, u, c)
        PROVE  Comes(k) \/ TakesSlot(k, u, c)
    <3>1. CASE global < MaxGlobal /\ perUser[u] < MaxPerUser
      BY <2>2, <3>1 DEF TakesSlot
    <3>2. CASE ~(global < MaxGlobal /\ perUser[u] < MaxPerUser)
      BY <2>2, <3>2 DEF ImportArrives, Comes, Idle, Done, TypeOK
    <3> QED
      BY <3>1, <3>2
  <2>3. ASSUME NEW r \in Row, NEW c, NEW op \in {"delete", "get", "replace"},
               NEW pc \in {"mark", "status", "drop"}, RowArrives(k, op, r, c, pc),
               pc = "drop" => op = "replace"
        PROVE  Comes(k)
    BY <2>3 DEF RowArrives, Comes, TypeOK
  <2> QED
    BY <1>1, <2>1, <2>2, <2>3 DEF Arrival, DeleteArrives, GetArrives, ReplaceArrives
<1>2. ASSUME NEW k \in Call,
             NEW pc \in {"insert", "begin", "add", "failed", "count", "recheck", "unpin", "pinned"},
             Goto(k, pc), UNCHANGED limiter
      PROVE  Goes(k)
  BY <1>2 DEF Goto, Goes, TypeOK, Request
<1>3. ASSUME NEW k \in Call, NEW r \in Row, NEW pc \in {"reset", "begin", "pin"},
             call' = [call EXCEPT ![k].row = r, ![k].pc = pc], UNCHANGED limiter
      PROVE  Goes(k)
  BY <1>3 DEF Goes, TypeOK, Request
<1>4. ASSUME NEW k \in Call, FindExisting(k) PROVE End(k) \/ Goes(k)
  BY <1>3, <1>4 DEF FindExisting
<1>5. ASSUME NEW k \in Call, Insert(k) PROVE Goes(k)
  <2>1. PICK r \in Row, pc \in {"begin", "pin"} : call' = [call EXCEPT ![k].row = r, ![k].pc = pc]
    <3>1. CASE call[k].op = "import"
      BY <1>5, <3>1 DEF Insert
    <3>2. CASE call[k].op # "import"
      BY <1>5, <3>2 DEF Insert
    <3> QED
      BY <3>1, <3>2
  <2> QED
    BY <1>3, <1>5, <2>1 DEF Insert
<1>6. ASSUME NEW k \in Call, \/ FindNone(k) \/ ImportResets(k) \/ ImportBegins(k)
                             \/ Pinned(k) \/ PinFails(k)
      PROVE  Goes(k)
  BY <1>2, <1>6 DEF FindNone, ImportResets, ImportBegins, ImportMarks, Pinned, PinFails
<1>7. ASSUME NEW k \in Call, MarkDeleted(k) \/ Count(k) PROVE End(k) \/ Goes(k)
  <2>1. End(k) \/ \E pc \in {"count", "recheck", "unpin"} : Goto(k, pc) /\ UNCHANGED limiter
    BY <1>7 DEF MarkDeleted, Count
  <2> QED
    BY <1>2, <2>1
<1>8. ASSUME NEW k \in Call, GetStatus(k) PROVE Goes(k)
  <2>1. PICK s : call' = [call EXCEPT ![k].status = s, ![k].pc = "write"]
    BY <1>8 DEF GetStatus
  <2> QED
    BY <1>8, <2>1 DEF GetStatus, Goes, TypeOK, Request
<1>9. ASSUME NEW k \in Call, Drop(k) PROVE End(k) \/ Goes(k)
  <2>1. ASSUME call' = [call EXCEPT ![k].op = "add", ![k].row = 0, ![k].pc = "look"],
               UNCHANGED limiter
        PROVE  Goes(k)
    BY <1>9, <2>1 DEF Drop, Goes, OpKnown, TypeOK, Request
  <2> QED
    BY <1>9, <2>1 DEF Drop
<1>10. CASE UNCHANGED vars
  BY <1>10 DEF vars
<1> QED
  BY <1>1, <1>4, <1>5, <1>6, <1>7, <1>8, <1>9, <1>10
     DEF Next, AddStep, DeleteStep, GetStep, Refuse, InsertFails, ImportDone, PinTimesOut, Report,
         MarkFails, UnpinSkipped, Unpin, GetWrites, GetEnds

LEMMA SlotsInductive == SlotInv /\ [Next]_vars => SlotInv'
<1> SUFFICES ASSUME SlotInv, [Next]_vars PROVE SlotInv'
  OBVIOUS
<1>1. IInv'
  BY Inductive DEF SlotInv
<1>2. CASE UNCHANGED <<call, global, perUser>>
  BY <1>1, <1>2 DEF SlotInv, OpKnown, SlotsAreImports, Imports
\* The imports are the same, and so are the counts.
<1>3. ASSUME NEW k \in Call, Goes(k) \/ Comes(k) PROVE SlotInv'
  <2>1. OpKnown'
    BY <1>3 DEF Goes, Comes, SlotInv, OpKnown
  <2>2. \A j \in Call : (call'[j].op = "import" <=> call[j].op = "import")
                        /\ (call[j].op = "import" => call'[j].user = call[j].user)
    BY <1>3 DEF Goes, Comes, Arrives, SlotInv, OpKnown
  <2>3. Imports(User)' = Imports(User) /\ \A u \in User : Imports({u})' = Imports({u})
    BY <2>2 DEF Imports
  <2>4. global' = global /\ perUser' = perUser
    BY <1>3 DEF Goes, Comes, limiter
  <2> QED
    BY <1>1, <2>1, <2>3, <2>4 DEF SlotInv, SlotsAreImports
\* One import more, of a user and of all.
<1>4. ASSUME NEW k \in Call, NEW v \in User, NEW c \in Cid, TakesSlot(k, v, c) PROVE SlotInv'
  <2>1. /\ global' = global + 1 /\ global + 1 <= MaxGlobal
        /\ perUser' = [perUser EXCEPT ![v] = @ + 1] /\ perUser[v] + 1 <= MaxPerUser
    BY <1>4, PinAssumption DEF TakesSlot, ImportArrives, SlotInv, IInv, TypeOK
  <2>2. /\ \A j \in Call : j # k => call'[j] = call[j]
        /\ call'[k].op = "import" /\ call'[k].user = v /\ call'[k].pc = "look"
        /\ call[k].op = "none"
    BY <1>4 DEF TakesSlot, ImportArrives, Arrives, Idle, SlotInv, IInv, OpKnown, TypeOK
  <2>3. OpKnown'
    BY <2>2 DEF SlotInv, OpKnown
  <2>4. k \notin Imports(User) /\ Imports(User)' = Imports(User) \cup {k}
    BY <2>2 DEF Imports
  <2>5. \A u \in User : /\ k \notin Imports({u})
                        /\ Imports({u})' = IF u = v THEN Imports({u}) \cup {k} ELSE Imports({u})
    BY <2>2 DEF Imports
  <2>6. Cardinality(Imports(User)') = Cardinality(Imports(User)) + 1
    BY <2>4, ImportsOfAll, FS_AddElement DEF SlotInv
  <2>7. \A u \in User : Cardinality(Imports({u})') =
                        IF u = v THEN Cardinality(Imports({u})) + 1 ELSE Cardinality(Imports({u}))
    <3> TAKE u \in User
    <3>1. CASE u = v
      <4>1. /\ IsFiniteSet(Imports({u})) /\ k \notin Imports({u})
            /\ Imports({u})' = Imports({u}) \cup {k}
        BY <2>5, <3>1, ImportsOfAll DEF SlotInv
      <4> QED
        BY <3>1, <4>1, FS_AddElement
    <3>2. CASE u # v
      BY <2>5, <3>2
    <3> QED
      BY <3>1, <3>2
  <2> QED
    BY <1>1, <2>1, <2>3, <2>6, <2>7 DEF SlotInv, SlotsAreImports, IInv, TypeOK
\* One import less, if it was one that ended.
<1>5. ASSUME NEW k \in Call, End(k) PROVE SlotInv'
  <2>1. /\ \A j \in Call : j # k => call'[j] = call[j]
        /\ call'[k].op = "none" /\ call'[k].pc = "done"
    BY <1>5 DEF End, Done, Idle, SlotInv, IInv, TypeOK
  <2>2. OpKnown'
    BY <2>1 DEF SlotInv, OpKnown
  <2>3. CASE call[k].op # "import"
    <3>1. Imports(User)' = Imports(User) /\ \A u \in User : Imports({u})' = Imports({u})
      BY <2>1, <2>3 DEF Imports
    <3>2. global' = global /\ perUser' = perUser
      BY <1>5, <2>3 DEF End, Release, limiter
    <3> QED
      BY <1>1, <2>2, <3>1, <3>2 DEF SlotInv, SlotsAreImports
  <2>4. CASE call[k].op = "import"
    <3> DEFINE v == call[k].user
    <3>1. v \in User
      BY <2>4 DEF SlotInv, OpKnown
    <3>2. global' = global - 1 /\ perUser' = [perUser EXCEPT ![v] = @ - 1]
      BY <1>5, <2>4 DEF End, Release
    <3>3. k \in Imports(User) /\ Imports(User)' = Imports(User) \ {k}
      BY <2>1, <2>4, <3>1 DEF Imports
    <3>4. \A u \in User : /\ Imports({u})' = IF u = v THEN Imports({u}) \ {k} ELSE Imports({u})
                          /\ k \in Imports({v})
      BY <2>1, <2>4, <3>1 DEF Imports
    <3> HIDE DEF v
    <3>5. Cardinality(Imports(User)') = Cardinality(Imports(User)) - 1
      BY <3>3, ImportsOfAll, FS_RemoveElement DEF SlotInv
    <3>6. \A u \in User : Cardinality(Imports({u})') =
                          IF u = v THEN Cardinality(Imports({u})) - 1 ELSE Cardinality(Imports({u}))
      <4> TAKE u \in User
      <4>1. CASE u = v
        BY <3>4, <4>1, ImportsOfAll, FS_RemoveElement DEF SlotInv
      <4>2. CASE u # v
        BY <3>4, <4>2
      <4> QED
        BY <4>1, <4>2
    <3> QED
      BY <1>1, <2>2, <3>1, <3>2, <3>5, <3>6, PinAssumption DEF SlotInv, SlotsAreImports, IInv, TypeOK
  <2> QED
    BY <2>3, <2>4
<1>6. CASE Restart
  <2>1. \A j \in Call : call'[j].op = "none" /\ call'[j].pc \in {"idle", "done"}
    BY <1>6 DEF Restart, Idle, Done
  <2>2. Imports(User)' = {} /\ \A u \in User : Imports({u})' = {}
    BY <2>1 DEF Imports
  <2>3. Cardinality(Imports(User)') = 0 /\ \A u \in User : Cardinality(Imports({u})') = 0
    BY <2>2, FS_EmptySet
  <2>4. OpKnown'
    BY <2>1 DEF OpKnown
  <2>5. global' = 0 /\ \A u \in User : perUser'[u] = 0
    BY <1>6 DEF Restart
  <2> QED
    BY <1>1, <2>3, <2>4, <2>5, PinAssumption DEF SlotInv, SlotsAreImports
<1> QED
  BY <1>2, <1>3, <1>4, <1>5, <1>6, OpStep

\* The slots taken are the imports under way and never more than configured,
\* for any number of users and requests, on every path by which one ends.
THEOREM SlotsKept == Spec => []SlotsAreImports
<1>1. Init => SlotInv
  <2> SUFFICES ASSUME Init PROVE SlotInv
    OBVIOUS
  <2>1. \A j \in Call : call[j].op = "none" /\ call[j].pc = "idle"
    BY DEF Init, Idle
  <2>2. Imports(User) = {} /\ \A u \in User : Imports({u}) = {}
    BY <2>1 DEF Imports
  <2>3. Cardinality(Imports(User)) = 0 /\ \A u \in User : Cardinality(Imports({u})) = 0
    BY <2>2, FS_EmptySet
  <2>4. OpKnown
    BY <2>1 DEF OpKnown
  <2> QED
    BY Initial, <2>3, <2>4, PinAssumption DEF Init, SlotInv, SlotsAreImports
<1>2. SlotInv => SlotsAreImports
  BY DEF SlotInv
<1> QED
  BY <1>1, <1>2, SlotsInductive, PTL DEF Spec


-----------------------------------------------------------------------------
(* Nothing is left pinned                                                  *)

\* Requests that will unpin, or write to a row, what the cluster pins.
Waiting == {"count", "recheck", "unpin", "pinned", "failed"}

\* Somebody looks after the pin.
Owed(c) ==
  \/ \E r \in Row : pins[r].cid = c /\ Listed(r)
  \/ \E k \in Call : call[k].cid = c /\ call[k].pc \in Waiting

Busy    == \A k \in Call : call[k].op = "none" => call[k].pc \in {"idle", "done"}
Healing == \A k \in Call : call[k].pc = "write" => call[k].status \in Active \cup {"failed"}
Dropped == \A r \in Row : pins[r].status = "dropped" => pins[r].cid \in forgotten
Cared   == \A c \in pinset \ forgotten : Owed(c)

Care == Busy /\ Healing /\ Dropped /\ Cared
CareInv == IInv /\ Care

\* Listed(r)', of the row that r is before the step.
Heeded(r) == pins'[r].status \in Active \cup {"failed"}

\* After the step somebody looks after the pin, or there is none.
Settles(c) ==
  \/ \E r \in Row : pins'[r].cid = c /\ Heeded(r)
  \/ \E k \in Call : call'[k].cid = c /\ call'[k].pc \in Waiting
  \/ c \in forgotten' \/ c \notin pinset'

LEMMA CareKept ==
  ASSUME CareInv, NEW k \in Call, forgotten \subseteq forgotten',
         \A j \in Call : j # k => call'[j] = call[j],
         call'[k].pc \in {"idle", "done"} \/ call'[k].op # "none",
         call'[k].pc = "write" => call'[k].status \in Active \cup {"failed"},
         \A r \in Row : pins'[r].status = "dropped" =>
           (pins[r].status = "dropped" /\ pins'[r].cid = pins[r].cid) \/ pins'[r].cid \in forgotten',
         \A r \in Row : Listed(r) => (Listed(r)' /\ pins'[r].cid = pins[r].cid) \/ Settles(pins[r].cid),
         call[k].pc \in Waiting => Settles(call[k].cid),
         \A c \in pinset' \ pinset : Settles(c)
  PROVE  Care'
<1>1. Busy' /\ Healing' /\ Dropped'
  BY DEF CareInv, Care, Busy, Healing, Dropped
<1>2. ASSUME NEW c \in pinset', c \notin forgotten'
      PROVE  Settles(c)
  <2>1. CASE c \notin pinset
    BY <1>2, <2>1
  <2>2. ASSUME NEW r \in Row, pins[r].cid = c, Listed(r)
        PROVE  Settles(c)
    BY <1>2, <2>2 DEF Settles, Heeded, Listed
  <2>3. ASSUME NEW j \in Call, call[j].cid = c, call[j].pc \in Waiting
        PROVE  Settles(c)
    <3>1. CASE j = k
      BY <1>2, <2>3, <3>1
    <3>2. CASE j # k
      BY <2>3, <3>2 DEF Settles
    <3> QED
      BY <3>1, <3>2
  <2> QED
    BY <1>2, <2>1, <2>2, <2>3 DEF CareInv, Care, Cared, Owed
<1>3. Cared'
  BY <1>2 DEF Cared, Owed, Settles, Heeded, Listed
<1> QED
  BY <1>1, <1>3 DEF Care

\* The same where no row changes.
LEMMA CareUntouched ==
  ASSUME CareInv, NEW k \in Call, forgotten \subseteq forgotten', pins' = pins,
         \A j \in Call : j # k => call'[j] = call[j],
         call'[k].pc \in {"idle", "done"} \/ call'[k].op # "none",
         call'[k].pc = "write" => call'[k].status \in Active \cup {"failed"},
         call[k].pc \in Waiting => Settles(call[k].cid),
         \A c \in pinset' \ pinset : Settles(c)
  PROVE  Care'
<1>1. \A r \in Row : Listed(r) => Listed(r)' /\ pins'[r].cid = pins[r].cid
  BY DEF Listed
<1> QED
  BY <1>1, CareKept

\* Requests that end or go on.
LEMMA EndFacts ==
  ASSUME TypeOK, NEW k \in Call, End(k)
  PROVE  call'[k].pc = "done" /\ \A j \in Call : j # k => call'[j] = call[j]
  BY DEF End, Done, Idle, TypeOK

LEMMA GotoFacts ==
  ASSUME CareInv, NEW k \in Call, NEW pc, Goto(k, pc), call[k].pc \notin {"idle", "done"}
  PROVE  /\ call'[k].pc = pc /\ call'[k].cid = call[k].cid /\ call'[k].op # "none"
         /\ \A j \in Call : j # k => call'[j] = call[j]
  BY DEF Goto, CareInv, IInv, TypeOK, Request, Care, Busy

\* A row that is marked stays listed, unless it is gone or deleted.
LEMMA SetStatusFacts ==
  ASSUME TypeOK, NEW r \in Row, NEW s \in Status, NEW b \in BOOLEAN, SetStatus(r, s, b)
  PROVE  /\ \A q \in Row : pins'[q].cid = pins[q].cid
         /\ \A q \in Row : pins'[q].status = "dropped" => pins[q].status = "dropped"
         /\ \A q \in Row : q # r /\ Listed(q) => Listed(q)'
         /\ s # "deleted" /\ pins[r].status # "dropped" => Heeded(r)
<1>1. CASE pins[r].status = "dropped"
  BY <1>1 DEF SetStatus, rows, Listed, Heeded
<1>2. CASE pins[r].status # "dropped"
  <2>1. pins' = [pins EXCEPT ![r].status = s]
    BY <1>2 DEF SetStatus
  <2>2. \A q \in Row : /\ pins'[q].cid = pins[q].cid
                       /\ pins'[q].status = IF q = r THEN s ELSE pins[q].status
    BY <2>1 DEF TypeOK, PinRow
  <2>3. s # "dropped" /\ (s # "deleted" => s \in Active \cup {"failed"})
    BY DEF Status, Active
  <2> QED
    BY <1>2, <2>2, <2>3 DEF Listed, Heeded
<1> QED
  BY <1>1, <1>2

\* A request that marks a listed row as active or failed and ends, or goes on.
LEMMA CareMarked ==
  ASSUME CareInv, NEW k \in Call, forgotten' = forgotten, pinset' = pinset,
         \A j \in Call : j # k => call'[j] = call[j],
         call'[k].pc \in {"idle", "done"} \/ call'[k].op # "none", call'[k].pc # "write",
         call[k].row \in Row, pins[call[k].row].cid = call[k].cid,
         NEW s \in Active \cup {"failed"}, NEW b \in BOOLEAN, SetStatus(call[k].row, s, b)
  PROVE  Care'
<1>1. s \in Status /\ s # "deleted"
  BY DEF Status, Active
<1>2. /\ \A q \in Row : pins'[q].cid = pins[q].cid
      /\ \A q \in Row : pins'[q].status = "dropped" => pins[q].status = "dropped"
      /\ \A q \in Row : q # call[k].row /\ Listed(q) => Listed(q)'
      /\ pins[call[k].row].status # "dropped" => Heeded(call[k].row)
  BY <1>1, SetStatusFacts DEF CareInv, IInv
<1>3. \A q \in Row : Listed(q) => Listed(q)'
  BY <1>2 DEF Listed, Heeded, Active
<1>4. Settles(call[k].cid)
  <2>1. CASE pins[call[k].row].status = "dropped"
    BY <2>1 DEF Settles, CareInv, Care, Dropped
  <2>2. CASE pins[call[k].row].status # "dropped"
    BY <1>2, <2>2 DEF Settles, Heeded, Listed
  <2> QED
    BY <2>1, <2>2
<1> QED
  BY <1>2, <1>3, <1>4, CareKept

LEMMA CareStep ==
  ASSUME CareInv, [Next]_vars
  PROVE  Care'
<1> USE DEF rows
<1>0. TypeOK /\ RowsKnown /\ IInv
  BY DEF CareInv, IInv
<1>1. ASSUME NEW k \in Call, Arrival(k) PROVE Care'
  <2>1. UNCHANGED <<pins, pinset, forgotten>> /\ call[k].pc = "idle"
    BY <1>1 DEF Arrival, AddArrives, ImportArrives, DeleteArrives, GetArrives, ReplaceArrives, RowArrives, Arrives
  <2>2. /\ \A j \in Call : j # k => call'[j] = call[j]
        /\ call'[k].pc = "done" \/ (call'[k].op # "none" /\ call'[k].pc # "write")
    <3>1. ASSUME NEW u \in User, NEW c \in Cid, AddArrives(k, u, c) \/ ImportArrives(k, u, c)
          PROVE  \E x \in Request : /\ call' = [call EXCEPT ![k] = x]
                                    /\ x.pc = "done" \/ (x.op # "none" /\ x.pc # "write")
      <4>1. Done \in Request /\ Done.pc = "done"
        BY DEF Done, Idle, Request
      <4>2. ASSUME NEW op \in {"add", "import"}
            PROVE  LET x == [Idle EXCEPT !.op = op, !.user = u, !.cid = c, !.pc = "look"]
                   IN  x \in Request /\ x.op = op /\ x.pc = "look"
        BY DEF Idle, Request
      <4> QED
        BY <3>1, <4>1, <4>2 DEF AddArrives, ImportArrives
    <3>2. ASSUME NEW r \in Row, NEW op \in {"delete", "get", "replace"}, NEW c, NEW pc \in {"mark", "status", "drop"},
                 RowArrives(k, op, r, c, pc)
          PROVE  /\ \A j \in Call : j # k => call'[j] = call[j]
                 /\ call'[k].op # "none" /\ call'[k].pc # "write"
      BY <1>0, <3>2 DEF RowArrives, TypeOK
    <3> QED
      BY <1>0, <1>1, <3>1, <3>2 DEF Arrival, DeleteArrives, GetArrives, ReplaceArrives, TypeOK
  <2> QED
    BY <2>1, <2>2, CareUntouched DEF Waiting
<1>2. ASSUME NEW k \in Call, \/ Refuse(k) \/ (FindExisting(k) /\ End(k)) \/ InsertFails(k) \/ MarkFails(k)
                             \/ GetEnds(k)
      PROVE  Care'
  <2>1. UNCHANGED <<pins, pinset, forgotten>> /\ End(k) /\ call[k].pc \notin Waiting
    BY <1>2 DEF Refuse, FindExisting, InsertFails, MarkFails, GetEnds, Waiting
  <2> QED
    BY <1>0, <2>1, EndFacts, CareUntouched
<1>3. ASSUME NEW k \in Call, NEW r \in Row, NEW pc \in {"reset", "begin", "pin"}, call[k].pc \in {"look", "insert"},
             call' = [call EXCEPT ![k].row = r, ![k].pc = pc]
      PROVE  /\ \A j \in Call : j # k => call'[j] = call[j]
             /\ call'[k].op # "none" /\ call'[k].pc = pc /\ call[k].pc \notin Waiting
  BY <1>0, <1>3 DEF TypeOK, Request, CareInv, Care, Busy, Waiting
<1>4. ASSUME NEW k \in Call, FindExisting(k), ~End(k) PROVE Care'
  <2>1. /\ UNCHANGED <<pins, pinset, forgotten>> /\ call[k].pc = "look"
        /\ \E r \in Row : call' = [call EXCEPT ![k].row = r, ![k].pc = "reset"]
    BY <1>4 DEF FindExisting
  <2> QED
    BY <1>3, <2>1, CareUntouched
<1>5. ASSUME NEW k \in Call, FindNone(k) PROVE Care'
  BY <1>5, GotoFacts, CareUntouched DEF FindNone, Waiting
<1>6. ASSUME NEW k \in Call, Insert(k) PROVE Care'
  <2>1. PICK r \in Row, pc \in {"begin", "pin"} :
          /\ InsertRow(r, call[k].user, call[k].cid)
          /\ call' = [call EXCEPT ![k].row = r, ![k].pc = pc]
    <3>1. CASE call[k].op = "import"
      BY <1>6, <3>1 DEF Insert
    <3>2. CASE call[k].op # "import"
      BY <1>6, <3>2 DEF Insert
    <3> QED
      BY <3>1, <3>2
  <2>2. UNCHANGED <<pinset, forgotten>> /\ call[k].pc = "insert"
    BY <1>6 DEF Insert
  <2>3. /\ \A q \in Row : q # r => pins'[q] = pins[q]
        /\ pins[r].status = "absent" /\ pins'[r].status = "queued"
    BY <1>0, <2>1 DEF InsertRow, TypeOK
  <2>4. \A q \in Row : Listed(q) => Listed(q)' /\ pins'[q].cid = pins[q].cid
    BY <2>3 DEF Listed, Active
  <2> QED
    BY <1>3, <2>1, <2>2, <2>3, <2>4, CareKept
<1>7. ASSUME NEW k \in Call, ImportResets(k) \/ ImportBegins(k) PROVE Care'
  <2>1. PICK from \in {"reset", "begin"}, s \in {"queued", "pinning"}, to \in {"begin", "add"} :
          ImportMarks(k, from, s, to)
    BY <1>7 DEF ImportResets, ImportBegins
  <2>2. /\ call[k].pc \in {"reset", "begin"} /\ Goto(k, to) /\ UNCHANGED <<pinset, forgotten>>
        /\ SetStatus(call[k].row, s, FALSE) \/ UNCHANGED rows
    BY <2>1 DEF ImportMarks
  <2>3. call[k].row \in Row /\ pins[call[k].row].cid = call[k].cid
    BY <1>0, <2>2 DEF RowsKnown, WithRow
  <2>4. /\ call'[k].pc = to /\ call'[k].op # "none"
        /\ \A j \in Call : j # k => call'[j] = call[j]
    BY <2>2, GotoFacts
  <2>5. CASE UNCHANGED rows
    BY <2>2, <2>4, <2>5, CareUntouched DEF Waiting
  <2>6. CASE SetStatus(call[k].row, s, FALSE)
    <3>1. s \in Active \cup {"failed"}
      BY DEF Active
    <3> QED
      BY <2>2, <2>3, <2>4, <2>6, <3>1, CareMarked
  <2> QED
    BY <2>2, <2>5, <2>6
<1>8. ASSUME NEW k \in Call, ImportDone(k) PROVE Care'
  <2>1. call[k].row \in Row /\ pins[call[k].row].cid = call[k].cid
    BY <1>0, <1>8 DEF ImportDone, RowsKnown, WithRow
  <2>2. /\ call[k].pc = "add" /\ pinset' = pinset \cup {call[k].cid} /\ pins' = pins /\ End(k)
        /\ IF Listed(call[k].row) THEN UNCHANGED forgotten ELSE Forget(call[k].cid)
    BY <1>8 DEF ImportDone
  <2>3. Settles(call[k].cid) /\ forgotten \subseteq forgotten'
    <3>1. CASE Listed(call[k].row)
      BY <2>1, <2>2, <3>1 DEF Settles, Heeded, Listed
    <3>2. CASE ~Listed(call[k].row)
      BY <2>2, <3>2 DEF Settles, Forget
    <3> QED
      BY <2>2, <3>1, <3>2
  <2> QED
    BY <1>0, <2>2, <2>3, EndFacts, CareUntouched DEF Waiting
<1>9. ASSUME NEW k \in Call, Pinned(k) \/ PinFails(k) PROVE Care'
  <2>1. PICK pc \in {"pinned", "failed"} : Goto(k, pc)
    BY <1>9 DEF Pinned, PinFails
  <2>2. /\ call[k].pc \in {"pin", "add"} /\ pinset' \subseteq pinset \cup {call[k].cid} /\ UNCHANGED <<pins, forgotten>>
    BY <1>9 DEF Pinned, PinFails
  <2>3. /\ call'[k].pc = pc /\ call'[k].cid = call[k].cid /\ call'[k].op # "none"
        /\ \A j \in Call : j # k => call'[j] = call[j]
    BY <2>1, <2>2, GotoFacts
  <2>4. Settles(call[k].cid)
    BY <2>3 DEF Settles, Waiting
  <2> QED
    BY <2>2, <2>3, <2>4, CareUntouched
<1>10. ASSUME NEW k \in Call, PinTimesOut(k) \/ UnpinSkipped(k) \/ Unpin(k) PROVE Care'
  <2>1. /\ pinset' \subseteq pinset \cup {call[k].cid} /\ End(k) /\ pins' = pins
        /\ forgotten \subseteq forgotten'
        /\ call[k].cid \in forgotten' \/ call[k].cid \notin pinset'
    BY <1>10 DEF PinTimesOut, UnpinSkipped, Unpin, Forget
  <2>2. Settles(call[k].cid)
    BY <2>1 DEF Settles
  <2> QED
    BY <1>0, <2>1, <2>2, EndFacts, CareUntouched
<1>11. ASSUME NEW k \in Call, Report(k) PROVE Care'
  <2>1. call[k].row \in Row /\ pins[call[k].row].cid = call[k].cid
    BY <1>0, <1>11 DEF Report, RowsKnown, WithRow
  <2>2. End(k) /\ pinset' = pinset
    BY <1>11 DEF Report
  <2>3. CASE Forget(call[k].cid) /\ UNCHANGED rows
    <3>1. Settles(call[k].cid) /\ forgotten \subseteq forgotten'
      BY <2>3 DEF Settles, Forget
    <3> QED
      BY <1>0, <2>2, <2>3, <3>1, EndFacts, CareUntouched
  <2>4. ASSUME NEW s \in {"pinning", "failed"}, NEW b \in BOOLEAN, SetStatus(call[k].row, s, b), forgotten' = forgotten
        PROVE  Care'
    <3>1. s \in Active \cup {"failed"}
      BY DEF Active
    <3> QED
      BY <1>0, <2>1, <2>2, <2>4, <3>1, EndFacts, CareMarked
  <2> QED
    BY <1>11, <2>3, <2>4 DEF Report
<1>12. ASSUME NEW k \in Call, MarkDeleted(k) PROVE Care'
  <2>1. call[k].row \in Row /\ pins[call[k].row].cid = call[k].cid
    BY <1>0, <1>12 DEF MarkDeleted, RowsKnown, WithRow
  <2>2. call[k].pc = "mark" /\ UNCHANGED <<pinset, forgotten>>
    BY <1>12 DEF MarkDeleted
  <2>3. CASE pins[call[k].row].status = "dropped"
    BY <1>0, <1>12, <2>2, <2>3, EndFacts, CareUntouched DEF MarkDeleted, Waiting
  <2>4. CASE pins[call[k].row].status # "dropped"
    <3>1. SetStatus(call[k].row, "deleted", FALSE) /\ Goto(k, "count")
      BY <1>12, <2>4 DEF MarkDeleted
    <3>2. /\ \A q \in Row : pins'[q].cid = pins[q].cid
          /\ \A q \in Row : pins'[q].status = "dropped" => pins[q].status = "dropped"
          /\ \A q \in Row : q # call[k].row /\ Listed(q) => Listed(q)'
      BY <1>0, <2>1, <3>1, SetStatusFacts DEF Status
    <3>3. /\ call'[k].pc = "count" /\ call'[k].cid = call[k].cid /\ call'[k].op # "none"
          /\ \A j \in Call : j # k => call'[j] = call[j]
      BY <2>2, <3>1, GotoFacts
    <3>4. Settles(call[k].cid)
      BY <3>3 DEF Settles, Waiting
    <3> QED
      BY <2>1, <2>2, <3>2, <3>3, <3>4, CareKept
  <2> QED
    BY <2>3, <2>4
<1>13. ASSUME NEW k \in Call, Count(k) PROVE Care'
  <2>1. UNCHANGED <<pins, pinset, forgotten>> /\ call[k].pc \in {"count", "recheck"}
    BY <1>13 DEF Count
  <2>2. CASE Counted(call[k].cid) = {}
    <3>1. PICK pc \in {"recheck", "unpin"} : Goto(k, pc)
      BY <1>13, <2>2 DEF Count
    <3>2. /\ call'[k].pc = pc /\ call'[k].cid = call[k].cid /\ call'[k].op # "none"
          /\ \A j \in Call : j # k => call'[j] = call[j]
      BY <2>1, <3>1, GotoFacts
    <3>3. Settles(call[k].cid)
      BY <3>2 DEF Settles, Waiting
    <3> QED
      BY <2>1, <3>2, <3>3, CareUntouched
  <2>3. CASE Counted(call[k].cid) # {}
    <3>1. PICK r \in Row : pins[r].cid = call[k].cid /\ pins[r].status \in Active
      BY <2>3 DEF Counted
    <3>2. Settles(call[k].cid)
      BY <2>1, <3>1 DEF Settles, Heeded, Listed
    <3>3. End(k)
      BY <1>13, <2>3 DEF Count
    <3> QED
      BY <1>0, <2>1, <3>2, <3>3, EndFacts, CareUntouched
  <2> QED
    BY <2>2, <2>3
<1>14. ASSUME NEW k \in Call, GetStatus(k) PROVE Care'
  <2>1. PICK s \in ClusterStatus(call[k].cid) :
          call' = [call EXCEPT ![k].status = Refreshed(call[k].status, s), ![k].pc = "write"]
    BY <1>14 DEF GetStatus
  <2>2. Refreshed(call[k].status, s) \in Active \cup {"failed"}
    BY DEF Refreshed, MapStatus, Active
  <2> DEFINE t == Refreshed(call[k].status, s)
  <2>3. /\ call'[k].status = t /\ call'[k].op = call[k].op
        /\ \A j \in Call : j # k => call'[j] = call[j]
    BY <1>0, <2>1 DEF TypeOK, Request
  <2>4. call[k].pc = "status" /\ call[k].op # "none" /\ UNCHANGED <<pins, pinset, forgotten>>
    BY <1>14 DEF GetStatus, CareInv, Care, Busy
  <2> HIDE DEF t
  <2> QED
    BY <2>2, <2>3, <2>4, CareUntouched DEF Waiting, t
<1>15. ASSUME NEW k \in Call, GetWrites(k) PROVE Care'
  <2>1. /\ call[k].row \in Row /\ pins[call[k].row].cid = call[k].cid
        /\ call[k].status \in Active \cup {"failed"}
    BY <1>0, <1>15 DEF GetWrites, RowsKnown, WithRow, CareInv, Care, Healing
  <2>2. /\ SetStatus(call[k].row, call[k].status, call[k].status = "pinned")
        /\ End(k) /\ UNCHANGED <<pinset, forgotten>>
    BY <1>15 DEF GetWrites
  <2>3. /\ call'[k].pc = "done" /\ \A j \in Call : j # k => call'[j] = call[j]
    BY <1>0, <2>2, EndFacts
  <2>4. PICK s \in Active \cup {"failed"}, b \in BOOLEAN : SetStatus(call[k].row, s, b)
    BY <2>1, <2>2
  <2>5. call'[k].pc # "write" /\ forgotten' = forgotten /\ pinset' = pinset
    BY <2>2, <2>3
  <2> QED
    BY <2>1, <2>3, <2>4, <2>5, CareMarked
<1>16. ASSUME NEW k \in Call, Drop(k) PROVE Care'
  <2>1. call[k].row \in Row /\ call[k].pc = "drop" /\ pinset' = pinset
    BY <1>0, <1>16 DEF Drop, RowsKnown
  <2>2. CASE pins[call[k].row].status = "dropped"
    BY <1>0, <1>16, <2>1, <2>2, EndFacts, CareUntouched DEF Drop, Waiting
  <2>3. CASE pins[call[k].row].status # "dropped"
    <3>1. /\ pins' = [pins EXCEPT ![call[k].row].status = "dropped"]
          /\ forgotten' = forgotten \cup {pins[call[k].row].cid}
          /\ call' = [call EXCEPT ![k].op = "add", ![k].row = 0, ![k].pc = "look"]
      BY <1>16, <2>3 DEF Drop, Forget
    <3>2. \A q \in Row : /\ pins'[q].cid = pins[q].cid
                         /\ pins'[q].status = IF q = call[k].row THEN "dropped" ELSE pins[q].status
      BY <1>0, <3>1 DEF TypeOK, PinRow
    <3>3. \A q \in Row : Listed(q) => Listed(q)' \/ Settles(pins[q].cid)
      BY <3>1, <3>2 DEF Listed, Settles
    <3>4. /\ call'[k].op = "add" /\ call'[k].pc = "look"
          /\ \A j \in Call : j # k => call'[j] = call[j]
      BY <1>0, <3>1 DEF TypeOK, Request
    <3>5. /\ forgotten \subseteq forgotten' /\ pinset' \ pinset = {}
          /\ call'[k].pc # "write" /\ call[k].pc \notin Waiting
      BY <2>1, <3>1, <3>4 DEF Waiting
    <3>6. \A q \in Row : pins'[q].status = "dropped" =>
            (pins[q].status = "dropped" /\ pins'[q].cid = pins[q].cid) \/ pins'[q].cid \in forgotten'
      BY <3>1, <3>2
    <3>7. \A q \in Row : Listed(q) => (Listed(q)' /\ pins'[q].cid = pins[q].cid) \/ Settles(pins[q].cid)
      BY <3>2, <3>3
    <3> QED
      BY <3>4, <3>5, <3>6, <3>7, CareKept
  <2> QED
    BY <2>2, <2>3
<1>17. ASSUME Restart PROVE Care'
  <2>1. /\ UNCHANGED <<pins, pinset>> /\ \A j \in Call : call'[j].pc \in {"idle", "done"}
        /\ forgotten' = forgotten \cup {call[k].cid : k \in {j \in Call : call[j].op # "none"}}
    BY <1>17 DEF Restart, Idle, Done
  <2>2. \A k \in Call : call[k].pc \in Waiting => call[k].cid \in forgotten'
    BY <2>1 DEF CareInv, Care, Busy, Waiting
  <2> QED
    BY <2>1, <2>2 DEF CareInv, Care, Busy, Healing, Dropped, Cared, Owed, Listed
<1>18. ASSUME UNCHANGED vars PROVE Care'
  BY <1>18 DEF vars, CareInv, Care, Busy, Healing, Dropped, Cared, Owed, Listed
<1> HIDE DEF rows
<1> QED
  BY <1>1, <1>2, <1>4, <1>5, <1>6, <1>7, <1>8, <1>9, <1>10, <1>11, <1>12, <1>13, <1>14, <1>15, <1>16,
     <1>17, <1>18
     DEF Next, AddStep, DeleteStep, GetStep

\* When nothing is under way, what the cluster pins is a row's, or a failure, a replacement
\* or an import whose row had gone is to blame: for any number of users, CIDs, rows and
\* requests (DeletePinByRequestId, pinToCluster, addCARToCluster).
THEOREM NoPinForgotten == Spec => []NothingLeftPinned
<1>1. Init => CareInv
  <2> SUFFICES ASSUME Init PROVE CareInv
    OBVIOUS
  <2>1. PICK t \in [Settled -> [user : User, cid : Cid, status : {"pinned", "failed"}]] :
          /\ pins = [r \in Row |-> IF r \in Settled THEN t[r] ELSE NoRow]
          /\ pinset = {t[r].cid : r \in {q \in Settled : t[q].status = "pinned"}}
    BY DEF Init
  <2>2. \A k \in Call : call[k].op = "none" /\ call[k].pc = "idle"
    BY DEF Init, Idle
  <2>3. \A r \in Row : pins[r].status # "dropped"
    BY <2>1 DEF NoRow
  <2>4. \A r \in Settled : r \in Row /\ pins[r] = t[r] /\ (t[r].status = "pinned" => Listed(r))
    BY <2>1, PinAssumption DEF Listed, Active
  <2>5. Cared
    BY <2>1, <2>4 DEF Cared, Owed
  <2> QED
    BY <2>2, <2>3, <2>5, Initial DEF CareInv, Care, Busy, Healing, Dropped
<1>2. CareInv /\ [Next]_vars => CareInv'
  BY CareStep, Inductive DEF CareInv
<1>3. CareInv => NothingLeftPinned
  <2> SUFFICES ASSUME CareInv, AtRest, NEW c \in pinset \ forgotten
               PROVE  \E r \in Row : pins[r].cid = c /\ Listed(r)
    BY DEF NothingLeftPinned
  <2>1. \A k \in Call : call[k].pc \notin Waiting
    BY DEF CareInv, Care, Busy, AtRest, Waiting
  <2> QED
    BY <2>1 DEF CareInv, Care, Cared, Owed
<1> QED
  BY <1>1, <1>2, <1>3, PTL DEF Spec
=============================================================================
