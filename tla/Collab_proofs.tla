---------------------------- MODULE Collab_proofs -----------------------------
(***************************************************************************)
(* What CollabAccess and CollabManifest guarantee for any number of        *)
(* connections, groups, requests, agents, tabs and entries.                *)
(*                                                                         *)
(* Access: each guarantee has an invariant of its own: what a ban on a     *)
(* request implies about the row it was read from (Revocation, Killing,    *)
(* Scoping), and what the requests in flight have read (Scoping, Capping). *)
(*                                                                         *)
(* Manifest: the heart is Compared: a call that would pass the comparison of*)
(* versions has merged into the very manifest it is about to replace.      *)
(***************************************************************************)
EXTENDS CollabAccess, CollabManifest, FiniteSetTheorems, TLAPS

-----------------------------------------------------------------------------
(***************************************************************************)
(* Write authorization: CollabAccess                                       *)
(***************************************************************************)

Writing == {"arrived", "found", "allowed"}
Changing == {"adding", "removing"}

\* The step leaves alone what a ban or a check looks at.
Undisturbed == UNCHANGED <<conn, killed, granted, overlapped>>

\* Revocation is for good, and a write passes only a live connection.
Revocation == \A r \in Req :
  /\ "conn" \in req[r].banned => req[r].c \in Conn /\ conn[req[r].c].state = "revoked"
  /\ req[r].pc \in {"found", "allowed"} => "conn" \notin req[r].banned

\* The ban of a kill switch is lifted when it is reset.
Killing == \A r \in Req :
  /\ "group" \in req[r].banned => req[r].groups \cap killed # {}
  /\ req[r].pc = "allowed" => "group" \notin req[r].banned

\* A row is as it was inserted until then, and is not changed before.
Unused ==
  /\ \A c \in Conn : conn[c].state = "free" => conn[c] = Unpaired
  /\ \A r \in Req : req[r].pc \in Changing => conn[req[r].c].state # "free"

\* As long as nothing overlapped, a scope holds what its owner asked for, and a
\* handler about to write it back has read what it still is.
Scoping ==
  /\ \A c \in Conn \ overlapped : \A g \in conn[c].scope : <<c, g>> \in granted
  /\ \A r \in Req : req[r].pc \in Changing /\ req[r].c \notin overlapped => req[r].seen = conn[req[r].c].scope
  /\ \A r \in Req : req[r].pc = "adding" => Pairs(req[r].c, req[r].groups) \subseteq granted

\* A ban stands until it is lifted; who passes in spite of it had an overlap.
Standing ==
  /\ \A r \in Req : "scope" \in req[r].banned =>
       req[r].groups # {} /\ \A g \in req[r].groups : <<req[r].c, g>> \notin granted
  /\ \A r \in Req : req[r].pc \in {"found", "allowed"} /\ "scope" \in req[r].banned => req[r].c \in overlapped
  /\ \A s \in stale : s[1] \in overlapped

\* What will be written back is within the cap as well.
Capped ==
  /\ ScopeWithinCap
  /\ \A r \in Req : /\ req[r].pc = "adding" => Cardinality(Merged(r)) <= MaxGroups
                    /\ req[r].pc = "removing" => Cardinality(req[r].seen) <= MaxGroups

\* Answering a request, or moving it on, keeps the requests typed.
LEMMA RequestsTyped ==
  ASSUME TypeOK, NEW r \in Req,
         Answer(r) \/ \E pc \in Pc : req[r].pc # "idle" /\ req' = [req EXCEPT ![r].pc = pc]
  PROVE  req' \in [Req -> Request] /\ \A q \in Req : req'[q].pc # "idle" => req'[q].c \in Conn
<1>1. CASE Answer(r)
  BY <1>1 DEF Answer, TypeOK, Request, Idle, Pc
<1>2. ASSUME NEW pc \in Pc, req[r].pc # "idle", req' = [req EXCEPT ![r].pc = pc]
      PROVE  req' \in [Req -> Request] /\ \A q \in Req : req'[q].pc # "idle" => req'[q].c \in Conn
  BY <1>2 DEF TypeOK, Request
<1> QED
  BY <1>1, <1>2

\* Setting one column of a row keeps the row typed.
LEMMA RowsTyped ==
  ASSUME NEW x \in Row
  PROVE  /\ [x EXCEPT !.state = "revoked"] \in Row
         /\ \A G \in SUBSET Group : [x EXCEPT !.scope = G] \in Row
         /\ \A g \in Group : [x EXCEPT !.bundle = g] \in Row
         /\ \A u \in User, p \in Pub, n \in Nat :
              [Unpaired EXCEPT !.state = "live", !.user = u, !.pub = p, !.born = n] \in Row
BY DEF Row, Unpaired

LEMMA Typed == TypeOK /\ [Next]_vars => TypeOK'
<1> SUFFICES ASSUME TypeOK, [Next]_vars PROVE TypeOK'
  OBVIOUS
<1> USE CollabAssumption DEF TypeOK, Request, Pc, Ban, Idle
<1>0. \A c \in Conn : conn[c].scope \subseteq Group
  BY DEF Row
<1>1. ASSUME NEW u \in User, NEW p \in Pub, NEW c \in Conn, RegisterConnection(u, p, c) PROVE TypeOK'
  <2>1. pairings + 1 \in Nat
    OBVIOUS
  <2>2. conn' \in [Conn -> Row] /\ pairings' \in Nat
    BY <2>1, <1>1, RowsTyped DEF RegisterConnection
  <2> QED
    BY <1>1, <2>2 DEF RegisterConnection
<1>2. ASSUME NEW u \in User, NEW c \in Conn, revokeMcpConnection(u, c) PROVE TypeOK'
  <2>1. conn' \in [Conn -> Row]
    <3>1. [conn[c] EXCEPT !.state = "revoked"] \in Row
      BY RowsTyped
    <3> QED
      BY <1>2, <3>1 DEF revokeMcpConnection
  <2> QED
    BY <1>2, <2>1 DEF revokeMcpConnection
<1>3. ASSUME NEW u \in User, NEW g \in Group, NEW b \in BOOLEAN, setCollabWritesRevoked(u, g, b) PROVE TypeOK'
  <2>1. killed' \subseteq Group
    BY <1>3 DEF setCollabWritesRevoked
  <2>2. \A q \in Req : [req[q] EXCEPT !.banned = @ \ {"group"}] \in Request
    OBVIOUS
  <2>3. req' \in [Req -> Request]
    BY <1>3, <2>2, Zenon DEF setCollabWritesRevoked
  <2>4. \A q \in Req : req'[q].pc = req[q].pc /\ req'[q].c = req[q].c
    BY <1>3 DEF setCollabWritesRevoked
  <2> QED
    BY <1>3, <2>1, <2>3, <2>4 DEF setCollabWritesRevoked
<1>4. ASSUME NEW u \in User, NEW p \in Pub, NEW c \in Conn, FetchBundle(u, p, c) PROVE TypeOK'
  <2>1. conn[c].bundle \in conn[c].scope
    BY <1>4 DEF FetchBundle, Withheld
  <2>2. conn[c].bundle \in Group /\ conn[c].scope \subseteq Group
    BY <1>0, <2>1
  <2>3. held' \subseteq Conn \X Group /\ stale' \subseteq Conn \X Group
    BY <1>4, <2>2 DEF FetchBundle, Pairs
  <2> QED
    BY <1>4, <2>3 DEF FetchBundle
<1>5. ASSUME NEW r \in Req, NEW u \in User, NEW c \in Conn, NEW G \in SUBSET Group, AuthorizeRead(r, u, c, G) PROVE TypeOK'
  BY <1>0, <1>5 DEF AuthorizeRead, Lift, Pairs
<1>6. ASSUME NEW r \in Req, NEW u \in User, NEW c \in Conn, NEW G \in SUBSET Group, DeauthorizeRead(r, u, c, G) PROVE TypeOK'
  BY <1>0, <1>6 DEF DeauthorizeRead, Start
<1>7. ASSUME NEW r \in Req, AuthorizeWrite(r) PROVE TypeOK'
  <2>1. CASE Live(req[r].c)
    <3>1. req[r].c \in Conn /\ Merged(r) \subseteq Group
      BY <1>7 DEF AuthorizeWrite, Merged
    <3>2. held' \subseteq Conn \X Group /\ overlapped' \subseteq Conn
      BY <1>7, <2>1, <3>1 DEF AuthorizeWrite, Pairs, Crossed
    <3>3. conn' \in [Conn -> Row]
      <4>1. [conn[req[r].c] EXCEPT !.scope = Merged(r)] \in Row
        BY <3>1, RowsTyped
      <4> QED
        BY <1>7, <2>1, <4>1 DEF AuthorizeWrite
    <3> QED
      BY <1>7, <3>2, <3>3, RequestsTyped DEF AuthorizeWrite
  <2> QED
    BY <1>7, <2>1, RequestsTyped DEF AuthorizeWrite
<1>8. ASSUME NEW r \in Req, DeauthorizeWrite(r) PROVE TypeOK'
  <2>1. req[r].c \in Conn /\ req[r].seen \subseteq Group
    BY <1>8 DEF DeauthorizeWrite
  <2>2. conn' \in [Conn -> Row] /\ granted' \subseteq Conn \X Group /\ overlapped' \subseteq Conn
    <3>1. [conn[req[r].c] EXCEPT !.scope = req[r].seen \ req[r].groups] \in Row
      BY <2>1, RowsTyped
    <3>2. conn' \in [Conn -> Row]
      BY <1>8, <3>1 DEF DeauthorizeWrite
    <3> QED
      BY <1>8, <2>1, <3>2 DEF DeauthorizeWrite, Crossed
  <2> QED
    BY <1>8, <2>2, RequestsTyped DEF DeauthorizeWrite
<1>9. ASSUME NEW r \in Req, NEW c \in Conn, RefreshRead(r, c) PROVE TypeOK'
  BY <1>0, <1>9 DEF RefreshRead, Start
<1>10. ASSUME NEW r \in Req, RefreshMint(r) PROVE TypeOK'
  <2>1. req[r].c \in Conn /\ req[r].seen \subseteq Group
    BY <1>10 DEF RefreshMint
  <2>2. held' \subseteq Conn \X Group
    BY <1>10, <2>1 DEF RefreshMint, Pairs
  <2> QED
    BY <1>10, <2>2, RequestsTyped DEF RefreshMint
<1>11. ASSUME NEW r \in Req, NEW u \in User, NEW p \in Pub, NEW c \in Conn, NEW g \in Group, BundleRead(r, u, p, c, g) PROVE TypeOK'
  BY <1>0, <1>11 DEF BundleRead, Start
<1>12. ASSUME NEW r \in Req, setMcpConnectionBundleById(r) PROVE TypeOK'
  <2>1. conn' \in [Conn -> Row]
    <3>1. req[r].c \in Conn /\ req[r].groups \subseteq Group
      BY <1>12 DEF setMcpConnectionBundleById
    <3>2. \A g \in Group : [conn[req[r].c] EXCEPT !.bundle = g] \in Row
      BY <3>1, RowsTyped
    <3>3. CASE Live(req[r].c)
      <4>1. PICK g \in req[r].groups : conn' = [conn EXCEPT ![req[r].c].bundle = g]
        BY <1>12, <3>3 DEF setMcpConnectionBundleById
      <4>2. [conn[req[r].c] EXCEPT !.bundle = g] \in Row
        BY <3>1, <3>2
      <4> QED
        BY <4>1, <4>2
    <3> QED
      BY <1>12, <3>3 DEF setMcpConnectionBundleById
  <2> QED
    BY <1>12, <2>1, RequestsTyped DEF setMcpConnectionBundleById
<1>13. ASSUME NEW r \in Req, NEW c \in Conn, NEW g \in Group, WriteArrives(r, c, g) PROVE TypeOK'
  BY <1>13 DEF WriteArrives, Forbidden
<1>14. ASSUME NEW r \in Req, CheckConnection(r) \/ CheckKillSwitch(r) \/ QueryFails(r) \/ Write(r) PROVE TypeOK'
  <2>1. \/ Answer(r)
        \/ \E pc \in Pc : req[r].pc # "idle" /\ req' = [req EXCEPT ![r].pc = pc]
    BY <1>14 DEF CheckConnection, CheckKillSwitch, QueryFails, Write
  <2> QED
    BY <1>14, <2>1, RequestsTyped DEF CheckConnection, CheckKillSwitch, QueryFails, Write
<1>15. CASE TokensExpire
  BY <1>15 DEF TokensExpire
<1>16. CASE UNCHANGED vars
  BY <1>16 DEF vars
<1> QED
  BY <1>1, <1>2, <1>3, <1>4, <1>5, <1>6, <1>7, <1>8, <1>9, <1>10, <1>11, <1>12, <1>13, <1>14, <1>15, <1>16
     DEF Next, Owner, Handler

-----------------------------------------------------------------------------
(* What a step does to a request                                           *)

Begun(q) ==
  /\ req'[q].banned = {} /\ req'[q].pc \notin Writing
  /\ req'[q].pc \in Changing =>
       /\ req'[q].seen = conn[req'[q].c].scope /\ conn[req'[q].c].user \in User
       /\ UNCHANGED <<conn, overlapped>> /\ granted \subseteq granted'
  /\ req'[q].pc = "adding" =>
       /\ Pairs(req'[q].c, req'[q].groups) \subseteq granted'
       /\ WithinCap(req'[q].c, req'[q].groups)
Arrived(q) == \E c \in Conn, g \in Group :
  /\ req'[q] = [pc |-> "arrived", c |-> c, groups |-> {g}, seen |-> {}, banned |-> Forbidden(c, g)]
  /\ Undisturbed
Kept(q) == /\ req'[q].c = req[q].c /\ req'[q].groups = req[q].groups /\ req'[q].seen = req[q].seen
           /\ req'[q].banned \subseteq req[q].banned
Passed(q) ==
  \/ req'[q].pc = req[q].pc
  \/ /\ req[q].pc = "arrived" /\ req'[q].pc = "found" /\ Undisturbed
     /\ Live(req[q].c) /\ req[q].groups \subseteq conn[req[q].c].scope
  \/ /\ req[q].pc = "found" /\ req'[q].pc = "allowed" /\ Undisturbed
     /\ req[q].groups \cap killed = {}

\* A request begins, or is answered, or arrives to write, or stays, losing
\* bans at most and passing one check at a time.
LEMMA Moves ==
  ASSUME TypeOK, [Next]_vars, NEW q \in Req
  PROVE  Begun(q) \/ Arrived(q) \/ (Kept(q) /\ Passed(q))
<1> USE DEF TypeOK, Begun, Kept, Passed, Writing, Changing, Idle
<1>1. ASSUME NEW r \in Req, Answer(r) PROVE Begun(q) \/ (Kept(q) /\ Passed(q))
  BY <1>1 DEF Answer
<1>2. ASSUME NEW r \in Req, NEW pc \in Pc \ Writing, NEW c \in Conn, NEW G \in SUBSET Group, Start(r, pc, c, G),
             pc # "adding", pc = "removing" => conn[c].user \in User /\ UNCHANGED <<conn, granted, overlapped>>
      PROVE  Begun(q) \/ (Kept(q) /\ Passed(q))
  BY <1>2 DEF Start
<1>3. ASSUME NEW r \in Req, NEW u \in User, NEW c \in Conn, NEW G \in SUBSET Group, AuthorizeRead(r, u, c, G)
      PROVE  Begun(q) \/ (Kept(q) /\ Passed(q))
  <2>1. CASE q = r
    BY <1>3, <2>1 DEF AuthorizeRead
  <2>2. CASE q # r
    BY <1>3, <2>2 DEF AuthorizeRead, Lift, Request
  <2> QED
    BY <2>1, <2>2
<1>4. ASSUME NEW u \in User, NEW g \in Group, NEW b \in BOOLEAN, setCollabWritesRevoked(u, g, b)
      PROVE  Kept(q) /\ Passed(q)
  BY <1>4 DEF setCollabWritesRevoked, Request
<1>5. ASSUME NEW r \in Req, NEW c \in Conn, NEW g \in Group, WriteArrives(r, c, g)
      PROVE  Arrived(q) \/ (Kept(q) /\ Passed(q))
  BY <1>5 DEF WriteArrives, Arrived, Undisturbed
<1>6. ASSUME NEW r \in Req, CheckConnection(r) PROVE Begun(q) \/ (Kept(q) /\ Passed(q))
  BY <1>6 DEF CheckConnection, Answer, Undisturbed, Request
<1>7. ASSUME NEW r \in Req, CheckKillSwitch(r) PROVE Begun(q) \/ (Kept(q) /\ Passed(q))
  BY <1>7 DEF CheckKillSwitch, Answer, Undisturbed, Request
<1>8. CASE req' = req
  BY <1>8
<1>9. {"removing", "refreshing", "bundling"} \subseteq Pc \ Writing
  BY DEF Pc
<1>10. ASSUME NEW u \in User, Owner(u) PROVE Kept(q) /\ Passed(q)
  <2>1. (\E g \in Group, b \in BOOLEAN : setCollabWritesRevoked(u, g, b)) \/ req' = req
    BY <1>10 DEF Owner, RegisterConnection, revokeMcpConnection, FetchBundle
  <2> QED
    BY <1>4, <1>8, <2>1
<1>11. ASSUME NEW r \in Req, Handler(r) PROVE Begun(q) \/ Arrived(q) \/ (Kept(q) /\ Passed(q))
  <2>1. \/ \E u \in User, c \in Conn, G \in SUBSET Group : AuthorizeRead(r, u, c, G) \/ DeauthorizeRead(r, u, c, G)
        \/ AuthorizeWrite(r) \/ DeauthorizeWrite(r) \/ RefreshMint(r) \/ setMcpConnectionBundleById(r)
        \/ \E c \in Conn : RefreshRead(r, c)
        \/ \E u \in User, p \in Pub, c \in Conn, g \in Group : BundleRead(r, u, p, c, g)
        \/ \E c \in Conn, g \in Group : WriteArrives(r, c, g)
        \/ CheckConnection(r) \/ CheckKillSwitch(r) \/ QueryFails(r) \/ Write(r)
    BY <1>11 DEF Handler
  <2>2. CASE AuthorizeWrite(r) \/ DeauthorizeWrite(r) \/ RefreshMint(r) \/ setMcpConnectionBundleById(r)
             \/ QueryFails(r) \/ Write(r)
    <3>1. Answer(r)
      BY <2>2 DEF AuthorizeWrite, DeauthorizeWrite, RefreshMint, setMcpConnectionBundleById, QueryFails, Write
    <3> QED
      BY <3>1, <1>1
  <2>3. ASSUME NEW u \in User, NEW c \in Conn, NEW G \in SUBSET Group, DeauthorizeRead(r, u, c, G)
        PROVE  Begun(q) \/ (Kept(q) /\ Passed(q))
    <3>1. Start(r, "removing", c, G) /\ conn[c].user \in User /\ UNCHANGED <<conn, granted, overlapped>>
      BY <2>3 DEF DeauthorizeRead
    <3> QED
      BY <3>1, <1>2, <1>9
  <2>4. ASSUME NEW c \in Conn, RefreshRead(r, c) PROVE Begun(q) \/ (Kept(q) /\ Passed(q))
    <3>1. Start(r, "refreshing", c, {})
      BY <2>4 DEF RefreshRead
    <3> QED
      BY <3>1, <1>2, <1>9
  <2>5. ASSUME NEW u \in User, NEW p \in Pub, NEW c \in Conn, NEW g \in Group, BundleRead(r, u, p, c, g)
        PROVE  Begun(q) \/ (Kept(q) /\ Passed(q))
    <3>1. Start(r, "bundling", c, {g}) /\ {g} \in SUBSET Group
      BY <2>5 DEF BundleRead
    <3> QED
      BY <3>1, <1>2, <1>9
  <2> QED
    BY <2>1, <2>2, <2>3, <2>4, <2>5, <1>3, <1>5, <1>6, <1>7
<1>12. CASE TokensExpire \/ UNCHANGED vars
  BY <1>12, <1>8 DEF TokensExpire, vars
<1> QED
  BY <1>10, <1>11, <1>12 DEF Next

LEMMA Arriving == ASSUME NEW q \in Req, Arrived(q) PROVE req'[q].pc = "arrived"
BY DEF Arrived

-----------------------------------------------------------------------------
(* Revocation and the kill switch                                          *)

\* The steps that write the connections or the history of their scopes.
LEMMA Writers ==
  ASSUME [Next]_vars
  PROVE  \/ UNCHANGED <<conn, granted, overlapped, stale>>
         \/ \E u \in User, p \in Pub, c \in Conn :
              RegisterConnection(u, p, c) \/ FetchBundle(u, p, c)
         \/ \E u \in User, c \in Conn : revokeMcpConnection(u, c)
         \/ \E r \in Req, u \in User, c \in Conn, G \in SUBSET Group : AuthorizeRead(r, u, c, G)
         \/ \E r \in Req : AuthorizeWrite(r) \/ DeauthorizeWrite(r) \/ setMcpConnectionBundleById(r)
<1>1. ASSUME NEW r \in Req, Handler(r)
      PROVE  \/ UNCHANGED <<conn, granted, overlapped, stale>>
             \/ \E u \in User, c \in Conn, G \in SUBSET Group : AuthorizeRead(r, u, c, G)
             \/ AuthorizeWrite(r) \/ DeauthorizeWrite(r) \/ setMcpConnectionBundleById(r)
  <2>1. CASE \E u \in User, c \in Conn, G \in SUBSET Group : DeauthorizeRead(r, u, c, G)
    BY <2>1 DEF DeauthorizeRead
  <2>2. CASE \E c \in Conn : RefreshRead(r, c)
    BY <2>2 DEF RefreshRead
  <2>3. CASE \E u \in User, p \in Pub, c \in Conn, g \in Group : BundleRead(r, u, p, c, g)
    BY <2>3 DEF BundleRead
  <2>4. CASE \E c \in Conn, g \in Group : WriteArrives(r, c, g)
    BY <2>4 DEF WriteArrives
  <2>5. CASE RefreshMint(r) \/ CheckConnection(r) \/ CheckKillSwitch(r) \/ QueryFails(r) \/ Write(r)
    BY <2>5 DEF RefreshMint, CheckConnection, CheckKillSwitch, QueryFails, Write
  <2> QED
    BY <1>1, <2>1, <2>2, <2>3, <2>4, <2>5 DEF Handler
<1>2. ASSUME NEW u \in User, Owner(u)
      PROVE  \/ UNCHANGED <<conn, granted, overlapped, stale>>
             \/ \E p \in Pub, c \in Conn : RegisterConnection(u, p, c) \/ FetchBundle(u, p, c)
             \/ \E c \in Conn : revokeMcpConnection(u, c)
  BY <1>2 DEF Owner, setCollabWritesRevoked
<1>3. CASE TokensExpire \/ UNCHANGED vars
  BY <1>3 DEF TokensExpire, vars
<1> QED
  BY <1>1, <1>2, <1>3 DEF Next

\* No step brings a revoked connection back.
LEMMA RevokedForGood ==
  ASSUME TypeOK, [Next]_vars, NEW c \in Conn, conn[c].state = "revoked"
  PROVE  conn'[c].state = "revoked"
<1> USE DEF TypeOK
<1>1. CASE conn' = conn
  BY <1>1
<1>2. ASSUME NEW u \in User, NEW p \in Pub, NEW d \in Conn, RegisterConnection(u, p, d) \/ FetchBundle(u, p, d)
      PROVE  conn'[c].state = "revoked"
  BY <1>2 DEF RegisterConnection, FetchBundle
<1>6. ASSUME NEW u \in User, NEW d \in Conn, revokeMcpConnection(u, d) PROVE conn'[c].state = "revoked"
  BY <1>6 DEF revokeMcpConnection, Live
<1>3. ASSUME NEW r \in Req, NEW d \in Conn, NEW found, found.state = conn[d].state, conn' = [conn EXCEPT ![d] = found]
      PROVE  conn'[c].state = "revoked"
  BY <1>3
<1>4. ASSUME NEW r \in Req, AuthorizeWrite(r) \/ DeauthorizeWrite(r) \/ setMcpConnectionBundleById(r)
      PROVE  conn'[c].state = "revoked"
  <2>1. conn[req[r].c].state = conn[req[r].c].state /\ req[r].c \in Conn
    BY <1>4 DEF AuthorizeWrite, DeauthorizeWrite, setMcpConnectionBundleById
  <2>2. ASSUME NEW G PROVE [conn[req[r].c] EXCEPT !.scope = G].state = conn[req[r].c].state
    BY <2>1 DEF Row
  <2>3. ASSUME NEW g PROVE [conn[req[r].c] EXCEPT !.bundle = g].state = conn[req[r].c].state
    BY <2>1 DEF Row
  <2>4. \/ conn' = conn \/ \E G : conn' = [conn EXCEPT ![req[r].c] = [conn[req[r].c] EXCEPT !.scope = G]]
        \/ \E g : conn' = [conn EXCEPT ![req[r].c] = [conn[req[r].c] EXCEPT !.bundle = g]]
    BY <1>4, Zenon DEF AuthorizeWrite, DeauthorizeWrite, setMcpConnectionBundleById
  <2> QED
    BY <1>1, <1>3, <2>1, <2>2, <2>3, <2>4
<1>5. ASSUME NEW r \in Req, NEW u \in User, NEW d \in Conn, NEW G \in SUBSET Group, AuthorizeRead(r, u, d, G)
      PROVE  conn'[c].state = "revoked"
  BY <1>1, <1>5 DEF AuthorizeRead
<1> QED
  BY <1>1, <1>2, <1>4, <1>5, <1>6, Writers

LEMMA RevocationStep == TypeOK /\ Revocation /\ [Next]_vars => Revocation'
<1> SUFFICES ASSUME TypeOK, Revocation, [Next]_vars, NEW q \in Req
             PROVE  /\ "conn" \in req'[q].banned => req'[q].c \in Conn /\ conn'[req'[q].c].state = "revoked"
                    /\ req'[q].pc \in {"found", "allowed"} => "conn" \notin req'[q].banned
  BY DEF Revocation
<1>1. CASE Begun(q)
  BY <1>1 DEF Begun, Writing
<1>2. CASE Arrived(q)
  BY <1>2 DEF Arrived, Forbidden, Undisturbed
<1>3. CASE Kept(q) /\ Passed(q)
  BY <1>3, RevokedForGood DEF Kept, Passed, Revocation, Live, Undisturbed
<1> QED
  BY <1>1, <1>2, <1>3, Moves

LEMMA KillingStep == TypeOK /\ Killing /\ [Next]_vars => Killing'
<1> SUFFICES ASSUME TypeOK, Killing, [Next]_vars, NEW q \in Req
             PROVE  /\ "group" \in req'[q].banned => req'[q].groups \cap killed' # {}
                    /\ req'[q].pc = "allowed" => "group" \notin req'[q].banned
  BY DEF Killing
<1>1. CASE Begun(q)
  BY <1>1 DEF Begun, Writing
<1>2. CASE Arrived(q)
  BY <1>2 DEF Arrived, Forbidden, Undisturbed
<1>3. CASE Kept(q) /\ Passed(q)
  <2>1. "group" \in req'[q].banned => req'[q].groups \cap killed' # {}
    <3>1. ASSUME NEW u \in User, NEW g \in Group, NEW b \in BOOLEAN, setCollabWritesRevoked(u, g, b)
          PROVE  "group" \in req'[q].banned => req'[q].groups \cap killed' # {}
      BY <3>1 DEF setCollabWritesRevoked, TypeOK, Request, Killing
    <3>2. CASE killed' = killed
      BY <3>2, <1>3 DEF Kept, Killing
    <3>3. ASSUME NEW r \in Req, Handler(r) PROVE killed' = killed
      BY <3>3 DEF Handler, AuthorizeRead, DeauthorizeRead, AuthorizeWrite, DeauthorizeWrite, RefreshRead, RefreshMint,
         BundleRead, setMcpConnectionBundleById, WriteArrives, CheckConnection, CheckKillSwitch, QueryFails, Write
    <3> QED
      BY <3>1, <3>2, <3>3 DEF Next, Owner, RegisterConnection, revokeMcpConnection, FetchBundle, TokensExpire, vars
  <2>2. req'[q].pc = "allowed" => "group" \notin req'[q].banned
    BY <1>3, <2>1 DEF Kept, Passed, Killing, Undisturbed
  <2> QED
    BY <2>1, <2>2
<1> QED
  BY <1>1, <1>2, <1>3, Moves

-----------------------------------------------------------------------------
(* The scopes                                                              *)

\* The scope of a connection changes only where it is written back.
Rescoped(r, c) ==
  /\ c = req[r].c /\ req'[r].pc = "idle"
  /\ \/ req[r].pc = "adding" /\ conn'[c].scope = Merged(r) /\ granted' = granted
     \/ /\ req[r].pc = "removing" /\ conn'[c].scope = req[r].seen \ req[r].groups
        /\ granted' = granted \ Pairs(c, req[r].groups \ BeingAdded(c))
  /\ overlapped' = overlapped \cup Crossed(r)

LEMMA Scopes ==
  ASSUME TypeOK, Unused, [Next]_vars, NEW c \in Conn
  PROVE  conn'[c].scope = conn[c].scope \/ \E r \in Req : Rescoped(r, c)
<1> USE DEF TypeOK
<1>1. CASE conn' = conn
  BY <1>1
<1>2. ASSUME NEW u \in User, NEW p \in Pub, NEW d \in Conn, RegisterConnection(u, p, d)
      PROVE  conn'[c].scope = conn[c].scope
  BY <1>2 DEF RegisterConnection, Unused, Unpaired
<1>3. ASSUME NEW u \in User, NEW d \in Conn, revokeMcpConnection(u, d) PROVE conn'[c].scope = conn[c].scope
  BY <1>3 DEF revokeMcpConnection, Row
<1>4. ASSUME NEW r \in Req, setMcpConnectionBundleById(r) PROVE conn'[c].scope = conn[c].scope
  <2>1. ASSUME NEW g PROVE [conn EXCEPT ![req[r].c].bundle = g][c].scope = conn[c].scope
    BY DEF Row
  <2> QED
    BY <1>1, <1>4, <2>1 DEF setMcpConnectionBundleById
<1>5. ASSUME NEW r \in Req, AuthorizeWrite(r)
      PROVE  conn'[c].scope = conn[c].scope \/ Rescoped(r, c)
  <2>1. req'[r].pc = "idle"
    BY <1>5 DEF AuthorizeWrite, Answer, Idle
  <2>2. [conn EXCEPT ![req[r].c].scope = Merged(r)][c].scope = IF c = req[r].c THEN Merged(r) ELSE conn[c].scope
    BY DEF Row
  <2>3. CASE Live(req[r].c)
    BY <1>5, <2>1, <2>2, <2>3 DEF AuthorizeWrite, Rescoped
  <2> QED
    BY <1>5, <2>3 DEF AuthorizeWrite
<1>6. ASSUME NEW r \in Req, DeauthorizeWrite(r)
      PROVE  conn'[c].scope = conn[c].scope \/ Rescoped(r, c)
  <2>1. req'[r].pc = "idle"
    BY <1>6 DEF DeauthorizeWrite, Answer, Idle
  <2>2. [conn EXCEPT ![req[r].c].scope = req[r].seen \ req[r].groups][c].scope =
          IF c = req[r].c THEN req[r].seen \ req[r].groups ELSE conn[c].scope
    BY DEF Row
  <2> QED
    BY <1>6, <2>1, <2>2 DEF DeauthorizeWrite, Rescoped
<1> QED
  BY <1>1, <1>2, <1>3, <1>4, <1>5, <1>6, Writers DEF AuthorizeRead, FetchBundle

\* Overlaps are never forgotten, and what was granted stays so but for a removal.
LEMMA Grants ==
  ASSUME [Next]_vars
  PROVE  /\ overlapped \subseteq overlapped'
         /\ \/ granted \subseteq granted'
            \/ \E r \in Req : DeauthorizeWrite(r)
<1>1. CASE UNCHANGED <<conn, granted, overlapped, stale>>
  BY <1>1
<1>2. CASE \E u \in User, p \in Pub, c \in Conn : RegisterConnection(u, p, c) \/ FetchBundle(u, p, c)
  BY <1>2 DEF RegisterConnection, FetchBundle
<1>3. CASE \E u \in User, c \in Conn : revokeMcpConnection(u, c)
  BY <1>3 DEF revokeMcpConnection
<1>4. CASE \E r \in Req, u \in User, c \in Conn, G \in SUBSET Group : AuthorizeRead(r, u, c, G)
  BY <1>4 DEF AuthorizeRead
<1>5. ASSUME NEW r \in Req, AuthorizeWrite(r) \/ DeauthorizeWrite(r) \/ setMcpConnectionBundleById(r)
      PROVE  overlapped \subseteq overlapped' /\ (granted \subseteq granted' \/ DeauthorizeWrite(r))
  BY <1>5 DEF AuthorizeWrite, DeauthorizeWrite, setMcpConnectionBundleById
<1> QED
  BY <1>1, <1>2, <1>3, <1>4, <1>5, Writers

LEMMA UnusedStep == TypeOK /\ Unused /\ [Next]_vars => Unused'
<1> SUFFICES ASSUME TypeOK, Unused, [Next]_vars PROVE Unused'
  OBVIOUS
<1>1. ASSUME NEW c \in Conn, conn'[c].state = "free" PROVE conn'[c] = conn[c]
  <2>1. CASE conn' = conn
    BY <2>1
  <2>2. ASSUME NEW u \in User, NEW p \in Pub, NEW d \in Conn, RegisterConnection(u, p, d)
        PROVE  conn'[c] = conn[c]
    BY <1>1, <2>2 DEF RegisterConnection, Unpaired, TypeOK
  <2>3. ASSUME NEW u \in User, NEW d \in Conn, revokeMcpConnection(u, d) PROVE conn'[c] = conn[c]
    BY <1>1, <2>3 DEF revokeMcpConnection, TypeOK, Row
  <2>4. ASSUME NEW r \in Req, AuthorizeWrite(r) \/ DeauthorizeWrite(r) \/ setMcpConnectionBundleById(r)
        PROVE  conn'[c] = conn[c]
    <3>1. conn' = conn \/ conn[req[r].c].state # "free"
      BY <2>4 DEF AuthorizeWrite, DeauthorizeWrite, setMcpConnectionBundleById, Live, Unused, Changing
    <3>2. req[r].c \in Conn
      BY <2>4 DEF AuthorizeWrite, DeauthorizeWrite, setMcpConnectionBundleById, TypeOK
    <3>3. ASSUME NEW G PROVE [conn[req[r].c] EXCEPT !.scope = G].state = conn[req[r].c].state
      BY <3>2 DEF TypeOK, Row
    <3>4. ASSUME NEW g PROVE [conn[req[r].c] EXCEPT !.bundle = g].state = conn[req[r].c].state
      BY <3>2 DEF TypeOK, Row
    <3>5. conn' = conn \/ \E found : found.state = conn[req[r].c].state /\ conn' = [conn EXCEPT ![req[r].c] = found]
      <4>1. \/ conn' = conn \/ \E G : conn' = [conn EXCEPT ![req[r].c] = [conn[req[r].c] EXCEPT !.scope = G]]
            \/ \E g : conn' = [conn EXCEPT ![req[r].c] = [conn[req[r].c] EXCEPT !.bundle = g]]
        BY <2>4, Zenon DEF AuthorizeWrite, DeauthorizeWrite, setMcpConnectionBundleById
      <4> QED
        BY <3>3, <3>4, <4>1
    <3> QED
      BY <1>1, <3>1, <3>2, <3>5 DEF TypeOK
  <2> QED
    BY <2>1, <2>2, <2>3, <2>4, Writers DEF AuthorizeRead, FetchBundle
<1>2. ASSUME NEW q \in Req, req'[q].pc \in Changing PROVE conn'[req'[q].c].state # "free"
  <2>1. req'[q].c \in Conn
    BY <1>2, Typed DEF TypeOK, Changing
  <2>2. conn[req'[q].c].state # "free"
    <3>1. CASE Begun(q)
      BY <1>2, <2>1, <3>1, CollabAssumption DEF Begun, Unused, Unpaired
    <3>2. CASE Arrived(q)
      BY <1>2, <3>2 DEF Arrived, Changing
    <3>3. CASE Kept(q) /\ Passed(q)
      BY <1>2, <3>3 DEF Kept, Passed, Unused, Changing
    <3> QED
      BY <3>1, <3>2, <3>3, Moves
  <2> QED
    BY <1>1, <2>1, <2>2
<1> QED
  BY <1>1, <1>2 DEF Unused

\* Who writes a scope back while another has read it leaves a mark.
LEMMA Marked ==
  ASSUME TypeOK, NEW r \in Req, NEW c \in Conn, Rescoped(r, c),
         NEW q \in Req, q # r, req[q].c = c, req[q].pc \in Changing
  PROVE  c \in overlapped'
BY DEF Rescoped, Crossed, Changing

LEMMA ScopingStep == TypeOK /\ Unused /\ Scoping /\ [Next]_vars => Scoping'
<1> SUFFICES ASSUME TypeOK, Unused, Scoping, [Next]_vars PROVE Scoping'
  OBVIOUS
<1>1. ASSUME NEW c \in Conn \ overlapped', NEW g \in conn'[c].scope PROVE <<c, g>> \in granted'
  <2>1. c \in Conn /\ c \notin overlapped
    BY <1>1, Grants
  <2>2. CASE conn'[c].scope = conn[c].scope
    <3>1. <<c, g>> \in granted
      BY <1>1, <2>1, <2>2 DEF Scoping
    <3>2. ASSUME NEW r \in Req, DeauthorizeWrite(r) PROVE <<c, g>> \in granted'
      <4>1. CASE c = req[r].c
        <5>1. conn'[c].scope = req[r].seen \ req[r].groups
          BY <2>1, <3>2, <4>1 DEF DeauthorizeWrite, TypeOK, Row
        <5> QED
          BY <1>1, <3>1, <3>2, <5>1 DEF DeauthorizeWrite, Pairs
      <4> QED
        BY <3>1, <3>2, <4>1 DEF DeauthorizeWrite, Pairs
    <3> QED
      BY <3>1, <3>2, Grants
  <2>3. ASSUME NEW r \in Req, Rescoped(r, c) PROVE <<c, g>> \in granted'
    <3>1. req[r].seen = conn[c].scope
      BY <2>1, <2>3 DEF Rescoped, Scoping, Changing
    <3>2. CASE req[r].pc = "adding"
      BY <1>1, <2>1, <2>3, <3>1, <3>2 DEF Rescoped, Merged, Scoping, Pairs
    <3>3. CASE req[r].pc = "removing"
      BY <1>1, <2>1, <2>3, <3>1, <3>3 DEF Rescoped, Scoping, Pairs
    <3> QED
      BY <2>3, <3>2, <3>3 DEF Rescoped
  <2> QED
    BY <2>1, <2>2, <2>3, Scopes
<1>2. ASSUME NEW q \in Req, req'[q].pc \in Changing, req'[q].c \notin overlapped'
      PROVE  req'[q].seen = conn'[req'[q].c].scope
  <2>1. CASE Begun(q)
    BY <1>2, <2>1 DEF Begun
  <2>2. CASE Kept(q) /\ Passed(q)
    <3>1. req[q].pc \in Changing /\ req'[q].c = req[q].c /\ req'[q].seen = req[q].seen /\ req'[q].pc = req[q].pc
      BY <1>2, <2>2 DEF Kept, Passed, Changing
    <3>2. req[q].c \in Conn /\ req[q].c \notin overlapped
      BY <1>2, <3>1, Grants DEF TypeOK, Changing
    <3>3. req[q].seen = conn[req[q].c].scope
      BY <3>1, <3>2 DEF Scoping
    <3>4. ASSUME NEW r \in Req, Rescoped(r, req[q].c) PROVE FALSE
      <4>1. q # r
        BY <3>1, <3>4 DEF Rescoped, Changing
      <4> QED
        BY <1>2, <3>1, <3>2, <3>4, <4>1, Marked
    <3> QED
      BY <3>1, <3>2, <3>3, <3>4, Scopes
  <2> QED
    BY <1>2, <2>1, <2>2, Moves, Arriving DEF Changing
<1>3. ASSUME NEW q \in Req, req'[q].pc = "adding" PROVE Pairs(req'[q].c, req'[q].groups) \subseteq granted'
  <2>1. CASE Begun(q)
    BY <1>3, <2>1 DEF Begun
  <2>2. CASE Kept(q) /\ Passed(q)
    <3>1. req[q].pc = "adding" /\ req'[q].c = req[q].c /\ req'[q].groups = req[q].groups
      BY <1>3, <2>2 DEF Kept, Passed
    <3>2. Pairs(req[q].c, req[q].groups) \subseteq granted
      BY <3>1 DEF Scoping
    <3>3. ASSUME NEW r \in Req, DeauthorizeWrite(r) PROVE Pairs(req[q].c, req[q].groups) \subseteq granted'
      <4>1. CASE req[r].c = req[q].c
        <5>1. req[q].groups \subseteq BeingAdded(req[r].c)
          BY <3>1, <4>1 DEF BeingAdded
        <5> QED
          BY <3>2, <3>3, <4>1, <5>1 DEF DeauthorizeWrite, Pairs
      <4> QED
        BY <3>2, <3>3, <4>1 DEF DeauthorizeWrite, Pairs
    <3> QED
      BY <3>1, <3>2, <3>3, Grants
  <2> QED
    BY <1>3, <2>1, <2>2, Moves, Arriving
<1> QED
  BY <1>1, <1>2, <1>3 DEF Scoping

LEMMA StandingStep == TypeOK /\ Scoping /\ Standing /\ [Next]_vars => Standing'
<1> SUFFICES ASSUME TypeOK, Scoping, Standing, [Next]_vars PROVE Standing'
  OBVIOUS
<1>1. ASSUME NEW q \in Req, "scope" \in req'[q].banned
      PROVE  req'[q].groups # {} /\ \A g \in req'[q].groups : <<req'[q].c, g>> \notin granted'
  <2>1. CASE Begun(q)
    BY <1>1, <2>1 DEF Begun
  <2>2. CASE Arrived(q)
    BY <1>1, <2>2 DEF Arrived, Forbidden, Undisturbed
  <2>3. CASE Kept(q) /\ Passed(q)
    <3>1. req[q].groups # {} /\ \A g \in req[q].groups : <<req[q].c, g>> \notin granted
      BY <1>1, <2>3 DEF Kept, Standing
    <3>2. CASE granted' \subseteq granted
      BY <2>3, <3>1, <3>2 DEF Kept
    <3>3. ASSUME NEW r \in Req, NEW u \in User, NEW c \in Conn, NEW G \in SUBSET Group, AuthorizeRead(r, u, c, G)
          PROVE  \A g \in req'[q].groups : <<req'[q].c, g>> \notin granted'
      <4>1. CASE q = r
        BY <1>1, <3>3, <4>1 DEF AuthorizeRead, TypeOK
      <4>2. CASE q # r
        <5>1. req'[q] = Lift(req[q], c, G) /\ granted' = granted \cup Pairs(c, G)
          BY <3>3, <4>2 DEF AuthorizeRead
        <5>2. ~(req[q].c = c /\ req[q].groups \cap G # {})
          BY <1>1, <5>1 DEF Lift, TypeOK, Request
        <5> QED
          BY <2>3, <3>1, <5>1, <5>2 DEF Kept, Pairs
      <4> QED
        BY <4>1, <4>2
    <3>4. \/ granted' \subseteq granted
          \/ \E r \in Req, u \in User, c \in Conn, G \in SUBSET Group : AuthorizeRead(r, u, c, G)
      BY Writers DEF RegisterConnection, FetchBundle, revokeMcpConnection, AuthorizeWrite, DeauthorizeWrite,
         setMcpConnectionBundleById
    <3> QED
      BY <2>3, <3>1, <3>2, <3>3, <3>4 DEF Kept
  <2> QED
    BY <2>1, <2>2, <2>3, Moves
<1>2. ASSUME NEW q \in Req, req'[q].pc \in {"found", "allowed"}, "scope" \in req'[q].banned
      PROVE  req'[q].c \in overlapped'
  <2>1. Kept(q) /\ Passed(q)
    BY <1>2, Moves, Arriving DEF Begun, Writing
  <2>2. req'[q].c = req[q].c /\ "scope" \in req[q].banned
    BY <1>2, <2>1 DEF Kept
  <2>3. CASE req[q].pc = "arrived" /\ Live(req[q].c) /\ req[q].groups \subseteq conn[req[q].c].scope
    <3>1. PICK g \in req[q].groups : <<req[q].c, g>> \notin granted
      BY <2>2 DEF Standing
    <3>2. req[q].c \in Conn /\ g \in conn[req[q].c].scope
      BY <2>3, <3>1 DEF TypeOK
    <3> QED
      BY <2>2, <3>1, <3>2, Grants DEF Scoping
  <2>4. CASE req[q].pc \in {"found", "allowed"}
    BY <2>2, <2>4, Grants DEF Standing
  <2> QED
    BY <1>2, <2>1, <2>3, <2>4 DEF Passed
<1>3. ASSUME NEW s \in stale' PROVE s[1] \in overlapped'
  <2>1. CASE s \in stale
    BY <2>1, Grants DEF Standing
  <2>2. ASSUME NEW u \in User, NEW p \in Pub, NEW c \in Conn, FetchBundle(u, p, c), s \notin stale
        PROVE  s[1] \in overlapped'
    <3>1. s = <<c, conn[c].bundle>> /\ s \notin granted /\ conn[c].bundle \in conn[c].scope
      BY <1>3, <2>2 DEF FetchBundle, Pairs, Withheld
    <3> QED
      BY <2>2, <3>1 DEF Scoping, FetchBundle
  <2>3. stale' = stale \/ \E u \in User, p \in Pub, c \in Conn : FetchBundle(u, p, c)
    BY Writers DEF RegisterConnection, revokeMcpConnection, AuthorizeRead, AuthorizeWrite, DeauthorizeWrite,
       setMcpConnectionBundleById
  <2> QED
    BY <1>3, <2>1, <2>2, <2>3
<1> QED
  BY <1>1, <1>2, <1>3 DEF Standing

LEMMA CappedStep == TypeOK /\ Unused /\ Capped /\ [Next]_vars => Capped'
<1> SUFFICES ASSUME TypeOK, Unused, Capped, [Next]_vars PROVE Capped'
  OBVIOUS
<1>1. ASSUME NEW c \in Conn PROVE Cardinality(conn'[c].scope) <= MaxGroups
  <2>1. ASSUME NEW r \in Req, Rescoped(r, c) PROVE Cardinality(conn'[c].scope) <= MaxGroups
    <3>1. CASE req[r].pc = "adding"
      BY <2>1, <3>1 DEF Rescoped, Capped
    <3>2. CASE req[r].pc = "removing"
      <4>1. IsFiniteSet(req[r].seen)
        BY CollabAssumption, FS_Subset DEF TypeOK, Request
      <4>2. /\ IsFiniteSet(req[r].seen \ req[r].groups)
            /\ Cardinality(req[r].seen \ req[r].groups) <= Cardinality(req[r].seen)
        BY <4>1, FS_Subset
      <4>3. Cardinality(req[r].seen) \in Nat /\ Cardinality(req[r].seen \ req[r].groups) \in Nat
        BY <4>1, <4>2, FS_CardinalityType
      <4>4. Cardinality(req[r].seen) <= MaxGroups /\ conn'[c].scope = req[r].seen \ req[r].groups
        BY <2>1, <3>2 DEF Rescoped, Capped
      <4> QED
        BY <4>2, <4>3, <4>4, CollabAssumption
    <3> QED
      BY <2>1, <3>1, <3>2 DEF Rescoped
  <2> QED
    BY <2>1, Scopes DEF Capped, ScopeWithinCap
<1>2. ASSUME NEW q \in Req, req'[q].pc = "adding" PROVE Cardinality(req'[q].seen \cup req'[q].groups) <= MaxGroups
  <2>1. CASE Begun(q)
    BY <1>2, <2>1 DEF Begun, WithinCap, Changing
  <2>2. CASE Kept(q) /\ Passed(q)
    BY <1>2, <2>2 DEF Kept, Passed, Capped, Merged
  <2> QED
    BY <1>2, <2>1, <2>2, Moves, Arriving
<1>3. ASSUME NEW q \in Req, req'[q].pc = "removing" PROVE Cardinality(req'[q].seen) <= MaxGroups
  <2>1. CASE Begun(q)
    <3>1. req'[q].c \in Conn
      BY <1>3, Typed DEF TypeOK
    <3> QED
      BY <1>3, <2>1, <3>1 DEF Begun, Capped, ScopeWithinCap, Changing
  <2>2. CASE Kept(q) /\ Passed(q)
    BY <1>3, <2>2 DEF Kept, Passed, Capped
  <2> QED
    BY <1>3, <2>1, <2>2, Moves, Arriving
<1> QED
  BY <1>1, <1>2, <1>3 DEF Capped, ScopeWithinCap, Merged

-----------------------------------------------------------------------------
(* The theorems                                                            *)

IInv == TypeOK /\ Revocation /\ Killing /\ Unused /\ Scoping /\ Standing /\ Capped

LEMMA Initially == Init => IInv
<1> SUFFICES ASSUME Init PROVE IInv
  OBVIOUS
<1>1. TypeOK
  BY CollabAssumption DEF Init, TypeOK, Row, Request, Pc, Ban, Idle, Unpaired
<1>2. Revocation /\ Killing /\ Unused /\ Scoping /\ Standing
  BY DEF Init, Revocation, Killing, Unused, Scoping, Standing, Idle, Unpaired, Changing
<1>3. Capped
  <2>1. Cardinality({}) <= MaxGroups
    BY CollabAssumption, FS_EmptySet
  <2> QED
    BY <2>1 DEF Init, Capped, ScopeWithinCap, Idle, Unpaired
<1> QED
  BY <1>1, <1>2, <1>3 DEF IInv

LEMMA Invariance == Spec => []IInv
<1>1. IInv /\ [Next]_vars => IInv'
  BY Typed, RevocationStep, KillingStep, UnusedStep, ScopingStep, StandingStep, CappedStep DEF IInv
<1> QED
  BY <1>1, Initially, PTL DEF Spec

\* The rows of mcp_connections, the token table and the handlers keep their types.
THEOREM TypeCorrect == Spec => []TypeOK
<1>1. IInv => TypeOK
  BY DEF IInv
<1> QED
  BY <1>1, Invariance, PTL

\* A write that arrives after its connection was revoked is never let through.
THEOREM RevokedIsOut == Spec => []RevokedNeverWrites
<1>1. IInv => RevokedNeverWrites
  BY DEF IInv, Revocation, RevokedNeverWrites
<1> QED
  BY <1>1, Invariance, PTL

\* A write that arrives while the kill switch of its group is set is never let
\* through, unless the switch is reset before it is checked.
THEOREM KilledIsOut == Spec => []KilledNeverWrites
<1>1. IInv => KilledNeverWrites
  BY DEF IInv, Killing, KilledNeverWrites
<1> QED
  BY <1>1, Invariance, PTL

\* A removed group is written to, or its bundle served, only on a connection
\* whose scope two requests were changing at once.
THEOREM RemovedIsOut == Spec => []RemovedAlone
<1>1. IInv => RemovedAlone
  BY DEF IInv, Standing, RemovedAlone
<1> QED
  BY <1>1, Invariance, PTL

\* The scopes stay within the cap, however the authorizations overlap.
THEOREM CapHolds == Spec => []ScopeWithinCap
<1>1. IInv => ScopeWithinCap
  BY DEF IInv, Capped
<1> QED
  BY <1>1, Invariance, PTL

-----------------------------------------------------------------------------
(***************************************************************************)
(* The manifest: CollabManifest                                            *)
(***************************************************************************)

Editing == {"upload", "manifest", "sync"}

\* The comparison of versions is a comparison of manifests.
Compared == \A a \in Agent : agent[a].pc # "idle" =>
  /\ agent[a].id \in Entry
  /\ agent[a].ver <= version
  /\ agent[a].ver = version => agent[a].remote = row
  /\ agent[a].pc = "refetch" => agent[a].attempt < MaxRetries

\* A new entry has an id no manifest has seen.
Fresh ==
  /\ row.files \cup row.tombs \subseteq used
  /\ \A t \in Tab : /\ tab[t].view.files \cup tab[t].view.tombs \subseteq used
                    /\ tab[t].pc \in Editing => /\ tab[t].id \in Entry \cap used
                                                /\ tab[t].id \notin tab[t].view.tombs
  /\ \A a \in Agent : agent[a].pc # "idle" =>
       /\ agent[a].id \in used
       /\ agent[a].base.files \cup agent[a].base.tombs \cup agent[a].remote.files \cup agent[a].remote.tombs \subseteq used

\* What is removed is not listed, neither here nor on a page.
Apart ==
  /\ row.files \cap row.tombs = {}
  /\ \A t \in Tab : tab[t].view.files \cap tab[t].view.tombs = {}

-----------------------------------------------------------------------------
LEMMA MergeTyped ==
  ASSUME NEW a \in Agent, ManifestTypeOK, agent[a].id \in Entry
  PROVE  MergedWith(a) \in Manifest
BY DEF ManifestTypeOK, MergedWith, mergeWith, Local, Manifest, Call

LEMMA EditTyped ==
  ASSUME NEW t \in Tab, ManifestTypeOK, tab[t].id \in Entry
  PROVE  Edited(t) \in Manifest
BY DEF ManifestTypeOK, Edited, Manifest, Edit

LEMMA CallsTyped ==
  ASSUME ManifestTypeOK, NEW a \in Agent,
         End(a) \/ \E pc \in {"put", "refreshed", "refetch"} : Goto(a, pc)
  PROVE  agent' \in [Agent -> Call]
<1>1. CASE End(a)
  <2>1. NoCall \in Call
    BY ManifestAssumption DEF NoCall, Call, Empty, Manifest
  <2> QED
    BY <1>1, <2>1 DEF End, ManifestTypeOK
<1>2. ASSUME NEW pc \in {"put", "refreshed", "refetch"}, Goto(a, pc) PROVE agent' \in [Agent -> Call]
  BY <1>2 DEF Goto, ManifestTypeOK, Call
<1> QED
  BY <1>1, <1>2

LEMMA EditsTyped ==
  ASSUME ManifestTypeOK, NEW t \in Tab, NEW pc \in {"open", "manifest", "sync", "reload"}, TabGoto(t, pc)
  PROVE  tab' \in [Tab -> Edit]
BY DEF TabGoto, ManifestTypeOK, Edit

LEMMA UploadTyped ==
  ASSUME ManifestTypeOK, NEW f \in File, NEW u \in Account \cup {NoAccount}, upload(f, u)
  PROVE  stored' \subseteq File \X Account /\ astray' \subseteq File /\ UNCHANGED <<row, version, creator>>
BY DEF ManifestTypeOK, upload, Spaces

LEMMA SyncTyped ==
  ASSUME ManifestTypeOK, NEW m \in Manifest, NEW u \in Account \cup {NoAccount}, syncCollabManifest(m, u)
  PROVE  /\ row' \in Manifest /\ version' \in Nat /\ creator' \in Account \cup {NoAccount}
         /\ stored' = stored /\ astray' = astray
BY DEF ManifestTypeOK, syncCollabManifest

LEMMA TellTyped ==
  ASSUME ManifestTypeOK, NEW a \in Agent, agent[a].id \in Entry, Tell(a)
  PROVE  added' \subseteq Entry /\ removed' \subseteq Entry
BY DEF ManifestTypeOK, Tell

\* An upload is always of a file.
Uploads ==
  /\ \A a \in Agent : agent[a].pc = "upload" => agent[a].id \in File /\ agent[a].op = "add"
  /\ \A t \in Tab : tab[t].pc = "upload" => tab[t].id \in File

LEMMA ManifestTyped ==
  ASSUME ManifestTypeOK, Compared, Fresh, Uploads, [ManifestNext]_manifestVars
  PROVE  ManifestTypeOK'
<1> USE ManifestAssumption
<1>1. ASSUME NEW a \in Agent, NEW op \in {"add", "remove"}, NEW id \in Entry, fetchBase(a, op, id) PROVE ManifestTypeOK'
  <2>1. agent' \in [Agent -> Call]
    BY <1>1 DEF fetchBase, ManifestTypeOK, Call
  <2> QED
    BY <1>1, <2>1 DEF fetchBase, ManifestTypeOK, server, told
<1>2. ASSUME NEW a \in Agent, Upload(a) \/ UploadFails(a) PROVE ManifestTypeOK'
  <2>1. agent[a].id \in File
    BY <1>2 DEF Upload, UploadFails, Uploads
  <2>2. agent' \in [Agent -> Call]
    BY <1>2, CallsTyped DEF Upload, UploadFails
  <2> QED
    BY <1>2, <2>1, <2>2, UploadTyped DEF Upload, UploadFails, ManifestTypeOK, server, told
<1>3. ASSUME NEW a \in Agent, Put(a) \/ PutFails(a) PROVE ManifestTypeOK'
  <2>1. agent[a].id \in Entry
    BY <1>3 DEF Put, PutFails, Sending, Compared
  <2>2. agent' \in [Agent -> Call]
    BY <1>3, CallsTyped DEF Put, PutFails
  <2>3. MergedWith(a) \in Manifest
    BY <2>1, MergeTyped
  <2>4. added' \subseteq Entry /\ removed' \subseteq Entry
    BY <1>3, <2>1, TellTyped DEF Put, PutFails, ManifestTypeOK, told
  <2> QED
    BY <1>3, <2>2, <2>3, <2>4, SyncTyped DEF Put, PutFails, ManifestTypeOK, server
<1>4. ASSUME NEW a \in Agent, Conflict(a) \/ AuthRefreshed(a) \/ RefetchFails(a) PROVE ManifestTypeOK'
  <2>1. agent' \in [Agent -> Call]
    BY <1>4, CallsTyped DEF Conflict, AuthRefreshed, RefetchFails
  <2> QED
    BY <1>4, <2>1 DEF Conflict, AuthRefreshed, RefetchFails, ManifestTypeOK, server, told
<1>5. ASSUME NEW a \in Agent, Refetch(a) PROVE ManifestTypeOK'
  <2>1. agent[a].attempt + 1 \in 0..MaxRetries
    BY <1>5 DEF Refetch, Compared, ManifestTypeOK, Call
  <2>2. agent' \in [Agent -> Call]
    BY <1>5, <2>1 DEF Refetch, ManifestTypeOK, Call
  <2> QED
    BY <1>5, <2>2 DEF Refetch, ManifestTypeOK, server, told
<1>6. ASSUME NEW t \in Tab, Load(t) PROVE ManifestTypeOK'
  <2>1. tab' \in [Tab -> Edit]
    <3>1. PICK m \in {Empty, row} : tab' = [tab EXCEPT ![t].pc = "open", ![t].view = m]
      BY <1>6 DEF Load
    <3>2. m \in Manifest
      BY DEF ManifestTypeOK, Empty, Manifest
    <3> QED
      BY <3>1, <3>2 DEF ManifestTypeOK, Edit
  <2> QED
    BY <1>6, <2>1 DEF Load, ManifestTypeOK, server, told
<1>7. ASSUME NEW t \in Tab, NEW id \in Entry, Begin(t, id) PROVE ManifestTypeOK'
  <2>1. tab' \in [Tab -> Edit]
    <3>1. PICK pc \in {"upload", "manifest"} : tab' = [tab EXCEPT ![t].pc = pc, ![t].id = id]
      BY <1>7 DEF Begin
    <3> QED
      BY <3>1 DEF ManifestTypeOK, Edit
  <2> QED
    BY <1>7, <2>1 DEF Begin, ManifestTypeOK, server, told
<1>8. ASSUME NEW t \in Tab, TabUpload(t) \/ TabFails(t) PROVE ManifestTypeOK'
  <2>1. tab' \in [Tab -> Edit]
    BY <1>8, EditsTyped DEF TabUpload, TabFails
  <2>2. UserOf[t] \in Account \cup {NoAccount}
    OBVIOUS
  <2>3. tab[t].pc = "upload" => tab[t].id \in File
    BY DEF Uploads
  <2> QED
    BY <1>8, <2>1, <2>2, <2>3, UploadTyped DEF TabUpload, TabFails, ManifestTypeOK, server, told
<1>9. ASSUME NEW t \in Tab, PutManifest(t) \/ SyncFails(t) PROVE ManifestTypeOK'
  <2>1. tab' \in [Tab -> Edit]
    BY <1>9, EditsTyped DEF PutManifest, SyncFails
  <2> QED
    BY <1>9, <2>1 DEF PutManifest, SyncFails, ManifestTypeOK, server, told
<1>10. ASSUME NEW t \in Tab, Sync(t) PROVE ManifestTypeOK'
  <2>1. tab' \in [Tab -> Edit]
    BY <1>10, EditsTyped DEF Sync
  <2>2. Edited(t) \in Manifest
    BY <1>10, EditTyped DEF Sync, Fresh, Editing
  <2>3. UserOf[t] \in Account \cup {NoAccount}
    OBVIOUS
  <2>4. clobbered' \subseteq Entry
    BY <1>10 DEF Sync, ManifestTypeOK, Manifest
  <2> QED
    BY <1>10, <2>1, <2>2, <2>3, <2>4, SyncTyped DEF Sync, ManifestTypeOK, told
<1>11. ASSUME Delete PROVE ManifestTypeOK'
  BY <1>11 DEF Delete, deleteFile, ManifestTypeOK, told
<1>12. CASE UNCHANGED manifestVars
  BY <1>12 DEF manifestVars, server, told, ManifestTypeOK
<1> QED
  BY <1>1, <1>2, <1>3, <1>4, <1>5, <1>6, <1>7, <1>8, <1>9, <1>10, <1>11, <1>12
  DEF ManifestNext, Tool, ToolStep, Page

-----------------------------------------------------------------------------
(* What a step does, said once for all the invariants                      *)

\* An agent's PUT is accepted: the manifest it compared with is replaced.
Committed(a) ==
  /\ agent[a].pc # "idle" /\ agent[a].ver = version
  /\ row' = MergedWith(a) /\ version' = version + 1
  /\ creator' = creator /\ UNCHANGED <<stored, astray, clobbered, tab, used>>
  /\ End(a)
  /\ Tell(a) \/ UNCHANGED told
  /\ agent[a].pc \in {"put", "refreshed"}

\* The server's row is left alone, and what agents were told too.
Quiet == UNCHANGED <<row, version, creator, told, clobbered>>

LEMMA ManifestWriters ==
  ASSUME ManifestTypeOK, [ManifestNext]_manifestVars
  PROVE  \/ \E a \in Agent : Committed(a)
         \/ \E t \in Tab : Sync(t)
         \/ Quiet
<1>1. ASSUME NEW a \in Agent, Put(a) \/ PutFails(a) PROVE Committed(a) \/ Quiet
  <2>1. agent[a].ver # -1
    BY DEF ManifestTypeOK, Call
  <2> QED
    BY <1>1, <2>1 DEF Put, PutFails, Sending, Accepted, syncCollabManifest, Committed, Quiet, server, told
<1>2. ASSUME NEW a \in Agent, Tool(a), ~Put(a), ~PutFails(a) PROVE Quiet
  BY <1>2 DEF Tool, ToolStep, fetchBase, Upload, UploadFails, upload, Conflict, AuthRefreshed, Refetch, RefetchFails, Quiet, server, told
<1>3. ASSUME NEW t \in Tab, Page(t), ~Sync(t) PROVE Quiet
  BY <1>3 DEF Page, Load, Begin, TabUpload, TabFails, upload, PutManifest, SyncFails, Quiet, server, told
<1>4. ASSUME Delete PROVE Quiet
  BY <1>4 DEF Delete, deleteFile, Quiet, told
<1> QED
  BY <1>1, <1>2, <1>3, <1>4 DEF ManifestNext, manifestVars, server, Quiet, told

\* A running call keeps what it works on, has just begun, or has read again.
ManifestKept(a) ==
  /\ agent[a].pc # "idle"
  /\ agent'[a].id = agent[a].id /\ agent'[a].op = agent[a].op /\ agent'[a].base = agent[a].base
  /\ agent'[a].remote = agent[a].remote /\ agent'[a].ver = agent[a].ver /\ agent'[a].attempt = agent[a].attempt
  /\ agent'[a].pc = "upload" => agent[a].pc = "upload"
EditsBegun(a) ==
  /\ agent'[a].base = row /\ agent'[a].remote = row /\ agent'[a].ver = version
  /\ agent'[a].id \in Entry /\ used' = used \cup {agent'[a].id}
  /\ agent'[a].pc = (IF agent'[a].op = "add" /\ agent'[a].id \in File THEN "upload" ELSE "put")
  /\ Quiet /\ UNCHANGED stored
Reread(a) ==
  /\ agent[a].pc = "refetch" /\ agent'[a].pc = "put"
  /\ agent'[a].id = agent[a].id /\ agent'[a].op = agent[a].op /\ agent'[a].base = agent[a].base
  /\ agent'[a].remote = row /\ agent'[a].ver = version
  /\ used' = used /\ Quiet /\ UNCHANGED stored

LEMMA CallMoves ==
  ASSUME ManifestTypeOK, [ManifestNext]_manifestVars, NEW a \in Agent, agent'[a].pc # "idle"
  PROVE  /\ ManifestKept(a) \/ EditsBegun(a) \/ Reread(a)
         /\ agent'[a].pc = "refetch" /\ agent[a].pc # "refetch" => agent[a].attempt < MaxRetries
<1> DEFINE Goal == /\ ManifestKept(a) \/ EditsBegun(a) \/ Reread(a)
                   /\ agent'[a].pc = "refetch" /\ agent[a].pc # "refetch" => agent[a].attempt < MaxRetries
<1>1. CASE agent'[a] = agent[a]
  BY <1>1 DEF ManifestKept
<1>2. ASSUME NEW b \in Agent, Tool(b), b # a PROVE agent'[a] = agent[a]
  BY <1>2 DEF ManifestTypeOK, Tool, ToolStep, fetchBase, Upload, UploadFails, Put, PutFails, Conflict, AuthRefreshed, Refetch, RefetchFails, Goto, End
<1>3. CASE \E op \in {"add", "remove"}, id \in Entry : fetchBase(a, op, id)
  BY <1>3 DEF ManifestTypeOK, fetchBase, EditsBegun, Quiet, server
<1>4. CASE Refetch(a)
  BY <1>4 DEF ManifestTypeOK, Call, Refetch, Reread, Quiet, server
<1>5. CASE Upload(a) \/ Conflict(a) \/ AuthRefreshed(a)
  BY <1>5 DEF ManifestTypeOK, Call, Upload, Conflict, AuthRefreshed, Sending, Goto, End, ManifestKept, NoCall
<1>6. CASE UploadFails(a) \/ Put(a) \/ PutFails(a) \/ RefetchFails(a)
  BY <1>6 DEF ManifestTypeOK, UploadFails, Put, PutFails, RefetchFails, End, NoCall
<1>7. ASSUME NEW t \in Tab, Page(t) PROVE agent' = agent
  BY <1>7 DEF Page, Load, Begin, TabUpload, TabFails, PutManifest, Sync, SyncFails
<1>8. ASSUME Delete PROVE agent' = agent
  BY <1>8 DEF Delete, deleteFile
<1>9. CASE UNCHANGED manifestVars
  BY <1>1, <1>9 DEF manifestVars
<1> QED
  BY <1>1, <1>2, <1>3, <1>4, <1>5, <1>6, <1>7, <1>8, <1>9 DEF ManifestNext, Tool, ToolStep

\* A page keeps its manifest and its edit, loads another, or begins an edit.
PageKept(t) ==
  /\ tab'[t].view = tab[t].view /\ tab'[t].id = tab[t].id
  /\ tab'[t].pc \in Editing => tab[t].pc \in Editing
  /\ tab'[t].pc = "upload" => tab[t].pc = "upload"
Loaded(t) == tab'[t].view \in {Empty, row} /\ tab'[t].pc = "open" /\ Quiet /\ UNCHANGED <<used, stored>>
EditBegun(t) ==
  /\ tab'[t].view = tab[t].view /\ tab'[t].id \in Entry /\ tab'[t].id \notin used
  /\ tab'[t].pc = (IF tab'[t].id \in File THEN "upload" ELSE "manifest")
  /\ used' = used \cup {tab'[t].id} /\ Quiet /\ UNCHANGED stored

LEMMA PageMoves ==
  ASSUME ManifestTypeOK, [ManifestNext]_manifestVars, NEW t \in Tab
  PROVE  PageKept(t) \/ Loaded(t) \/ EditBegun(t)
<1>1. CASE tab'[t] = tab[t]
  BY <1>1 DEF PageKept
<1>2. ASSUME NEW u \in Tab, Page(u), u # t PROVE tab'[t] = tab[t]
  BY <1>2 DEF ManifestTypeOK, Page, Load, Begin, TabUpload, TabFails, PutManifest, Sync, SyncFails, TabGoto
<1>3. CASE Load(t)
  <2>1. PICK m \in {Empty, row} : tab' = [tab EXCEPT ![t].pc = "open", ![t].view = m]
    BY <1>3 DEF Load
  <2>2. tab'[t].view = m /\ tab'[t].pc = "open"
    BY <2>1 DEF ManifestTypeOK, Edit
  <2> QED
    BY <1>3, <2>2 DEF Load, Loaded, Quiet, server
<1>4. ASSUME NEW id \in Entry, Begin(t, id) PROVE EditBegun(t)
  <2>1. tab'[t].id = id /\ tab'[t].view = tab[t].view /\ tab'[t].pc = (IF id \in File THEN "upload" ELSE "manifest")
    BY <1>4 DEF Begin, ManifestTypeOK, Edit
  <2> QED
    BY <1>4, <2>1 DEF Begin, EditBegun, Quiet, server
<1>5. CASE TabUpload(t) \/ TabFails(t) \/ PutManifest(t) \/ Sync(t) \/ SyncFails(t)
  BY <1>5 DEF ManifestTypeOK, Edit, TabUpload, TabFails, PutManifest, Sync, SyncFails, TabGoto, PageKept, Editing
<1>6. ASSUME NEW a \in Agent, Tool(a) PROVE tab' = tab
  BY <1>6 DEF Tool, ToolStep, fetchBase, Upload, UploadFails, Put, PutFails, Conflict, AuthRefreshed, Refetch, RefetchFails
<1>7. ASSUME Delete PROVE tab' = tab
  BY <1>7 DEF Delete, deleteFile
<1>8. CASE UNCHANGED manifestVars
  BY <1>1, <1>8 DEF manifestVars
<1> QED
  BY <1>1, <1>2, <1>3, <1>4, <1>5, <1>6, <1>7, <1>8 DEF ManifestNext, Page

\* Ids are never given back.
LEMMA UsedGrows ==
  ASSUME [ManifestNext]_manifestVars
  PROVE  used \subseteq used'
BY DEF ManifestNext, Tool, ToolStep, fetchBase, Upload, UploadFails, Put, PutFails, Conflict, AuthRefreshed, Refetch, RefetchFails,
       Page, Load, Begin, TabUpload, TabFails, PutManifest, Sync, SyncFails, Delete, deleteFile, manifestVars

-----------------------------------------------------------------------------
(* The invariants are kept                                                 *)

LEMMA ComparedKept ==
  ASSUME ManifestTypeOK, Compared, [ManifestNext]_manifestVars
  PROVE  Compared'
<1> SUFFICES ASSUME NEW a \in Agent, agent'[a].pc # "idle"
             PROVE  /\ agent'[a].id \in Entry
                    /\ agent'[a].ver <= version'
                    /\ agent'[a].ver = version' => agent'[a].remote = row'
                    /\ agent'[a].pc = "refetch" => agent'[a].attempt < MaxRetries
  BY DEF Compared
<1>1. version \in Nat /\ agent[a].ver \in Nat
  BY DEF ManifestTypeOK, Call
<1>2. (row' = row /\ version' = version) \/ version' = version + 1
  BY ManifestWriters DEF Committed, Sync, syncCollabManifest, Quiet
<1>3. CASE ManifestKept(a)
  BY <1>1, <1>2, <1>3, CallMoves DEF ManifestKept, Compared
<1>4. CASE EditsBegun(a)
  BY <1>1, <1>4 DEF EditsBegun, Quiet
<1>5. CASE Reread(a)
  BY <1>1, <1>5 DEF Reread, Quiet, Compared
<1> QED
  BY <1>3, <1>4, <1>5, CallMoves

LEMMA UploadsKept ==
  ASSUME ManifestTypeOK, Uploads, [ManifestNext]_manifestVars
  PROVE  Uploads'
<1>1. ASSUME NEW a \in Agent, agent'[a].pc = "upload" PROVE agent'[a].id \in File /\ agent'[a].op = "add"
  BY <1>1, CallMoves DEF ManifestKept, EditsBegun, Reread, Uploads
<1>2. ASSUME NEW t \in Tab, tab'[t].pc = "upload" PROVE tab'[t].id \in File
  BY <1>2, PageMoves DEF PageKept, Loaded, EditBegun, Uploads
<1> QED
  BY <1>1, <1>2 DEF Uploads

LEMMA FreshKept ==
  ASSUME ManifestTypeOK, Compared, Fresh, [ManifestNext]_manifestVars
  PROVE  Fresh'
<1>1. row'.files \cup row'.tombs \subseteq used'
  <2>1. ASSUME NEW a \in Agent, Committed(a) PROVE row'.files \cup row'.tombs \subseteq used'
    BY <2>1 DEF Committed, MergedWith, mergeWith, Local, Fresh, ManifestTypeOK, Call, Manifest
  <2>2. ASSUME NEW t \in Tab, Sync(t) PROVE row'.files \cup row'.tombs \subseteq used'
    BY <2>2 DEF Sync, syncCollabManifest, Edited, Fresh, Editing, ManifestTypeOK, Edit, Manifest
  <2> QED
    BY <2>1, <2>2, ManifestWriters, UsedGrows DEF Quiet, Fresh
<1>2. ASSUME NEW t \in Tab
      PROVE  /\ tab'[t].view.files \cup tab'[t].view.tombs \subseteq used'
             /\ tab'[t].pc \in Editing => tab'[t].id \in Entry \cap used' /\ tab'[t].id \notin tab'[t].view.tombs
  <2>1. CASE PageKept(t)
    BY <2>1, UsedGrows DEF PageKept, Fresh
  <2>2. CASE Loaded(t)
    BY <2>2, UsedGrows DEF Loaded, Empty, Fresh, Editing
  <2>3. CASE EditBegun(t)
    BY <2>3, UsedGrows DEF EditBegun, Fresh
  <2> QED
    BY <2>1, <2>2, <2>3, PageMoves
<1>3. ASSUME NEW a \in Agent, agent'[a].pc # "idle"
      PROVE  /\ agent'[a].id \in used'
             /\ agent'[a].base.files \cup agent'[a].base.tombs \cup agent'[a].remote.files \cup agent'[a].remote.tombs \subseteq used'
  <2>1. CASE ManifestKept(a)
    BY <2>1, UsedGrows DEF ManifestKept, Fresh
  <2>2. CASE EditsBegun(a)
    BY <2>2, UsedGrows DEF EditsBegun, Fresh
  <2>3. CASE Reread(a)
    BY <2>3, UsedGrows DEF Reread, Fresh
  <2> QED
    BY <1>3, <2>1, <2>2, <2>3, CallMoves
<1> QED
  BY <1>1, <1>2, <1>3 DEF Fresh

LEMMA ApartKept ==
  ASSUME ManifestTypeOK, Fresh, Apart, [ManifestNext]_manifestVars
  PROVE  Apart'
<1>1. row'.files \cap row'.tombs = {}
  <2>1. ASSUME NEW a \in Agent, Committed(a) PROVE row'.files \cap row'.tombs = {}
    BY <2>1 DEF Committed, MergedWith, mergeWith
  <2>2. ASSUME NEW t \in Tab, Sync(t) PROVE row'.files \cap row'.tombs = {}
    BY <2>2 DEF Sync, syncCollabManifest, Edited, Apart, Fresh, Editing, ManifestTypeOK, Edit, Manifest
  <2> QED
    BY <2>1, <2>2, ManifestWriters DEF Quiet, Apart
<1>2. ASSUME NEW t \in Tab PROVE tab'[t].view.files \cap tab'[t].view.tombs = {}
  BY PageMoves DEF PageKept, Loaded, EditBegun, Apart, Empty
<1> QED
  BY <1>1, <1>2 DEF Apart

\* What an accepted PUT of an agent leaves of the manifest it replaces.
LEMMA CommitKeeps ==
  ASSUME ManifestTypeOK, Compared, NEW a \in Agent, Committed(a)
  PROVE  /\ row.tombs \subseteq row'.tombs
         /\ row.files \subseteq row'.files \cup row'.tombs
         /\ agent[a].id \in row'.files \cup row'.tombs
         /\ agent[a].op = "remove" => agent[a].id \in row'.tombs
         /\ row'.files \cap row'.tombs = {}
<1>1. agent[a].remote = row
  BY DEF Compared, Committed
<1> QED
  BY <1>1 DEF Committed, MergedWith, mergeWith, Local, ManifestTypeOK, Call, Manifest

LEMMA ToldKept ==
  ASSUME ManifestTypeOK, Compared, Fresh, Apart, ToldIsSo, [ManifestNext]_manifestVars
  PROVE  ToldIsSo'
<1>1. ASSUME NEW a \in Agent, Committed(a) PROVE ToldIsSo'
  <2>1. \A e \in added' : e \in added \/ e = agent[a].id
    BY <1>1 DEF Committed, Tell, told
  <2>2. \A e \in removed' : e \in removed \/ (e = agent[a].id /\ agent[a].op = "remove")
    BY <1>1 DEF Committed, Tell, told
  <2> QED
    BY <1>1, <2>1, <2>2, CommitKeeps DEF ToldIsSo, Committed
<1>2. ASSUME NEW t \in Tab, Sync(t) PROVE ToldIsSo'
  <2>1. row' = Edited(t) /\ clobbered' = clobbered \cup (row.files \ row'.files) \cup (row.tombs \ row'.tombs) /\ UNCHANGED told
    BY <1>2 DEF Sync, syncCollabManifest
  <2>2. row'.files \cap row'.tombs = {}
    BY ApartKept DEF Apart
  <2> QED
    BY <2>1, <2>2 DEF ToldIsSo, told
<1>3. CASE Quiet
  BY <1>3 DEF Quiet, ToldIsSo, told
<1> QED
  BY <1>1, <1>2, <1>3, ManifestWriters

-----------------------------------------------------------------------------
(* The blob of what is listed                                              *)

ManifestInv == ManifestTypeOK /\ Compared /\ Uploads /\ Fresh /\ Apart /\ ToldIsSo

Ok(f) == <<f, creator>> \in stored \/ f \in astray \cup clobbered

\* Nothing lists a file that is not there, but one that was removed.
Good(f) == Ok(f) \/ f \in row.tombs

Readable ==
  /\ ListedIsReadable
  /\ \A a \in Agent : agent[a].pc # "idle" =>
       /\ \A f \in File \cap (agent[a].base.files \cup agent[a].remote.files) : Good(f)
       /\ agent[a].pc # "upload" /\ agent[a].op = "add" /\ agent[a].id \in File => Good(agent[a].id)
  /\ \A t \in Tab :
       /\ \A f \in File \cap tab[t].view.files : Good(f)
       /\ tab[t].pc \in {"manifest", "sync"} /\ tab[t].id \in File => Good(tab[t].id)

\* Blobs come with uploads and go with what was removed.
LEMMA BlobMoves ==
  ASSUME ManifestTypeOK, Uploads, [ManifestNext]_manifestVars
  PROVE  /\ astray \subseteq astray' /\ clobbered \subseteq clobbered'
         /\ \A f \in File : <<f, creator>> \in stored => <<f, creator>> \in stored' \/ f \in row.tombs \cup astray'
<1>1. ASSUME Delete
      PROVE  /\ astray \subseteq astray' /\ clobbered' = clobbered
             /\ \A g \in File : <<g, creator>> \in stored => <<g, creator>> \in stored' \/ g \in row.tombs \cup astray'
  BY <1>1 DEF Delete, deleteFile
<1>2. ASSUME NEW a \in Agent, Tool(a) PROVE astray \subseteq astray' /\ clobbered' = clobbered /\ stored \subseteq stored'
  BY <1>2 DEF Tool, ToolStep, fetchBase, Upload, UploadFails, upload, Put, PutFails, syncCollabManifest, Conflict, AuthRefreshed, Refetch, RefetchFails, server
<1>3. ASSUME NEW t \in Tab, Page(t) PROVE astray \subseteq astray' /\ clobbered \subseteq clobbered' /\ stored \subseteq stored'
  BY <1>3 DEF Page, Load, Begin, TabUpload, TabFails, upload, PutManifest, Sync, SyncFails, syncCollabManifest, server
<1> QED
  BY <1>1, <1>2, <1>3 DEF ManifestNext, manifestVars, server

LEMMA CreatorMoves ==
  ASSUME ManifestTypeOK, [ManifestNext]_manifestVars
  PROVE  creator' = creator \/ creator = NoAccount
BY ManifestWriters DEF Committed, Sync, syncCollabManifest, Quiet

LEMMA OkKept ==
  ASSUME ManifestTypeOK, Uploads, [ManifestNext]_manifestVars, NEW f \in File, Ok(f)
  PROVE  Ok(f)' \/ f \in row.tombs
<1>1. creator = NoAccount => f \in astray \cup clobbered
  BY ManifestAssumption DEF Ok, ManifestTypeOK
<1> QED
  BY <1>1, BlobMoves, CreatorMoves DEF Ok

\* A tombstone stays or a tab wrote over it.
LEMMA TombsKept ==
  ASSUME ManifestTypeOK, Compared, [ManifestNext]_manifestVars
  PROVE  row.tombs \subseteq row'.tombs \cup clobbered'
<1>1. ASSUME NEW a \in Agent, Committed(a) PROVE row.tombs \subseteq row'.tombs
  BY <1>1, CommitKeeps
<1>2. ASSUME NEW t \in Tab, Sync(t) PROVE row.tombs \subseteq row'.tombs \cup clobbered'
  BY <1>2 DEF Sync, syncCollabManifest
<1> QED
  BY <1>1, <1>2, ManifestWriters DEF Quiet

LEMMA GoodKept ==
  ASSUME ManifestTypeOK, Compared, Uploads, [ManifestNext]_manifestVars, NEW f \in File, Good(f)
  PROVE  Good(f)'
BY OkKept, TombsKept DEF Good, Ok

\* A blob just uploaded is where reads will look, or nobody owned the group.
LEMMA UploadIsGood ==
  ASSUME ManifestTypeOK, NEW f \in File, NEW u \in Account \cup {NoAccount}, upload(f, u)
  PROVE  Ok(f)'
BY DEF upload, Spaces, Ok

\* A call leaves its upload for the commit, and a page for the manifest, only
\* once the blob is stored.
LEMMA UploadOnly ==
  ASSUME ManifestTypeOK, [ManifestNext]_manifestVars, NEW a \in Agent, agent[a].pc = "upload", agent'[a].pc # "upload", agent'[a].pc # "idle"
  PROVE  Upload(a)
<1>1. ASSUME NEW b \in Agent, Tool(b), b # a PROVE agent'[a] = agent[a]
  BY <1>1 DEF ManifestTypeOK, Tool, ToolStep, fetchBase, Upload, UploadFails, Put, PutFails, Conflict, AuthRefreshed, Refetch, RefetchFails, Goto, End
<1>2. CASE Tool(a)
  BY <1>2 DEF ManifestTypeOK, Tool, ToolStep, fetchBase, UploadFails, Put, PutFails, Conflict, AuthRefreshed, Refetch, RefetchFails, Sending, End, NoCall
<1>3. ASSUME NEW t \in Tab, Page(t) PROVE agent' = agent
  BY <1>3 DEF Page, Load, Begin, TabUpload, TabFails, PutManifest, Sync, SyncFails
<1> QED
  BY <1>1, <1>2, <1>3 DEF ManifestNext, Delete, deleteFile, manifestVars

LEMMA TabUploadOnly ==
  ASSUME ManifestTypeOK, [ManifestNext]_manifestVars, NEW t \in Tab, tab[t].pc = "upload", tab'[t].pc \in {"manifest", "sync"}
  PROVE  TabUpload(t)
<1>1. ASSUME NEW u \in Tab, Page(u), u # t PROVE tab'[t] = tab[t]
  BY <1>1 DEF ManifestTypeOK, Page, Load, Begin, TabUpload, TabFails, PutManifest, Sync, SyncFails, TabGoto
<1>2. CASE Page(t)
  BY <1>2 DEF ManifestTypeOK, Edit, Page, Load, Begin, TabFails, PutManifest, Sync, SyncFails, TabGoto
<1>3. ASSUME NEW a \in Agent, Tool(a) PROVE tab' = tab
  BY <1>3 DEF Tool, ToolStep, fetchBase, Upload, UploadFails, Put, PutFails, Conflict, AuthRefreshed, Refetch, RefetchFails
<1> QED
  BY <1>1, <1>2, <1>3 DEF ManifestNext, Delete, deleteFile, manifestVars

LEMMA ReadableKept ==
  ASSUME ManifestInv, Readable, [ManifestNext]_manifestVars
  PROVE  Readable'
<1> USE DEF ManifestInv
<1>1. ListedIsReadable'
  <2>1. ASSUME NEW a \in Agent, Committed(a), NEW f \in row'.files \cap File PROVE Ok(f)'
    <3>1. f \notin row.tombs
      BY <2>1, CommitKeeps
    <3>2. Good(f)
      BY <2>1 DEF Committed, MergedWith, mergeWith, Local, Readable, ManifestTypeOK, Call, Manifest
    <3> QED
      BY <3>1, <3>2, OkKept DEF Good
  <2>2. ASSUME NEW t \in Tab, Sync(t), NEW f \in row'.files \cap File PROVE Ok(f)'
    <3>1. row' = Edited(t) /\ row.tombs \ row'.tombs \subseteq clobbered'
      BY <2>2 DEF Sync, syncCollabManifest
    <3>2. Good(f)
      BY <2>2, <3>1 DEF Sync, Edited, Readable, ManifestTypeOK, Edit, Manifest
    <3>3. f \notin row'.tombs
      BY <2>2, ApartKept DEF Apart
    <3> QED
      BY <3>1, <3>2, <3>3, OkKept DEF Good, Ok
  <2>3. ASSUME Quiet, NEW f \in row'.files \cap File PROVE Ok(f)'
    <3>1. Ok(f) /\ f \notin row.tombs
      BY <2>3 DEF Quiet, Readable, ListedIsReadable, Ok, Apart
    <3> QED
      BY <3>1, OkKept
  <2> QED
    BY <2>1, <2>2, <2>3, ManifestWriters DEF ListedIsReadable, Ok
<1>2. \A f \in row.files \cap File : Good(f)
  BY DEF Readable, ListedIsReadable, Good, Ok
<1>3. ASSUME NEW a \in Agent, agent'[a].pc # "idle"
      PROVE  /\ \A f \in File \cap (agent'[a].base.files \cup agent'[a].remote.files) : Good(f)'
             /\ agent'[a].pc # "upload" /\ agent'[a].op = "add" /\ agent'[a].id \in File => Good(agent[a].id)' /\ agent'[a].id = agent[a].id
  <2>1. CASE ManifestKept(a)
    <3>1. \A f \in File \cap (agent'[a].base.files \cup agent'[a].remote.files) : Good(f)'
      BY <2>1, GoodKept DEF ManifestKept, Readable
    <3>2. ASSUME agent[a].pc = "upload", agent'[a].pc # "upload" PROVE Good(agent[a].id)'
      <4>1. Upload(a)
        BY <1>3, <3>2, UploadOnly
      <4>2. PICK f \in File : f = agent[a].id
        BY <3>2 DEF Uploads
      <4>3. Ok(f)'
        BY <4>1, <4>2, UploadIsGood DEF Upload
      <4> QED
        BY <2>1, <4>2, <4>3 DEF ManifestKept, Good, Ok
    <3> QED
      BY <2>1, <3>1, <3>2, GoodKept DEF ManifestKept, Readable
  <2>2. CASE EditsBegun(a)
    BY <1>2, <2>2, GoodKept DEF EditsBegun
  <2>3. CASE Reread(a)
    BY <1>2, <2>3, GoodKept DEF Reread, Readable
  <2> QED
    BY <1>3, <2>1, <2>2, <2>3, CallMoves
<1>4. ASSUME NEW t \in Tab
      PROVE  /\ \A f \in File \cap tab'[t].view.files : Good(f)'
             /\ tab'[t].pc \in {"manifest", "sync"} /\ tab'[t].id \in File => Good(tab[t].id)' /\ tab'[t].id = tab[t].id
  <2>1. CASE PageKept(t)
    <3>1. ASSUME tab[t].pc = "upload", tab'[t].pc \in {"manifest", "sync"} PROVE Good(tab[t].id)'
      <4>1. TabUpload(t)
        BY <3>1, TabUploadOnly
      <4>2. PICK f \in File : f = tab[t].id
        BY <3>1 DEF Uploads
      <4>3. Ok(f)'
        <5>1. UserOf[t] \in Account \cup {NoAccount}
          BY ManifestAssumption
        <5> QED
          BY <4>1, <4>2, <5>1, UploadIsGood DEF TabUpload
      <4> QED
        BY <2>1, <4>2, <4>3 DEF PageKept, Good, Ok
    <3> QED
      BY <2>1, <3>1, GoodKept DEF PageKept, Readable, Editing
  <2>2. CASE Loaded(t)
    BY <1>2, <2>2, GoodKept DEF Loaded, Empty
  <2>3. CASE EditBegun(t)
    BY <2>3, GoodKept DEF EditBegun, Readable
  <2> QED
    BY <2>1, <2>2, <2>3, PageMoves
<1> QED
  BY <1>1, <1>3, <1>4 DEF Readable

-----------------------------------------------------------------------------
LEMMA ManifestInitially == ManifestInit => ManifestInv
<1> SUFFICES ASSUME ManifestInit PROVE ManifestInv
  OBVIOUS
<1>1. Empty \in Manifest
  BY DEF Empty, Manifest
<1>2. ManifestTypeOK
  BY <1>1, ManifestAssumption DEF ManifestInit, ManifestTypeOK, Call, NoCall, Edit, NoEdit
<1> QED
  BY <1>2 DEF ManifestInit, ManifestInv, Compared, Uploads, Fresh, Editing, Apart, ToldIsSo, NoCall, NoEdit, Empty

LEMMA Inductive == ManifestInv /\ [ManifestNext]_manifestVars => ManifestInv'
BY ManifestTyped, ComparedKept, UploadsKept, FreshKept, ApartKept, ToldKept DEF ManifestInv

LEMMA ManifestInvariance == ManifestSpec => []ManifestInv
BY ManifestInitially, Inductive, PTL DEF ManifestSpec

\* The stored manifest, the agents' calls and the tabs' edits keep their types.
THEOREM ManifestTypeCorrect == ManifestSpec => []ManifestTypeOK
<1>1. ManifestInv => ManifestTypeOK
  BY DEF ManifestInv
<1> QED
  BY <1>1, ManifestInvariance, PTL

\* What is listed can be read, unless its upload fell back to the session's space, a
\* client deleted the blob of an entry still listed, or a tab brought it back
\* (ListedIsReadable): blobs are stored first and deleted last, in the space
\* getCollabS3Jwt reads from.
THEOREM ListedCanBeRead == ManifestSpec => []ListedIsReadable
<1>1. ManifestInit => Readable
  BY DEF ManifestInit, Readable, ListedIsReadable, NoCall, NoEdit, Empty
<1>2. ManifestInv /\ Readable /\ [ManifestNext]_manifestVars => Readable'
  BY ReadableKept
<1>3. Readable => ListedIsReadable
  BY DEF Readable
<1> QED
  BY <1>1, <1>2, <1>3, ManifestInvariance, PTL DEF ManifestSpec

\* What an agent was told stands, however many agents and tabs edit: the
\* commit of commitManifestChange loses nothing (ToldIsSo).
THEOREM ToldStands == ManifestSpec => []ToldIsSo
<1>1. ManifestInv => ToldIsSo
  BY DEF ManifestInv
<1> QED
  BY <1>1, ManifestInvariance, PTL

\* No step takes an entry or a tombstone away, but a tab writing over it
\* (NothingTaken): an agent's commit never undoes an edit it has not seen.
THEOREM NothingLost == ManifestSpec => NothingTaken
<1>1. ASSUME ManifestInv, [ManifestNext]_manifestVars
      PROVE  [/\ row.files \ row'.files \subseteq row'.tombs \cup clobbered'
              /\ row.tombs \subseteq row'.tombs \cup clobbered']_manifestVars
  <2>1. ASSUME NEW a \in Agent, Committed(a)
        PROVE  row.files \ row'.files \subseteq row'.tombs \cup clobbered' /\ row.tombs \subseteq row'.tombs \cup clobbered'
    BY <1>1, <2>1, CommitKeeps DEF ManifestInv
  <2>2. ASSUME NEW t \in Tab, Sync(t)
        PROVE  row.files \ row'.files \subseteq row'.tombs \cup clobbered' /\ row.tombs \subseteq row'.tombs \cup clobbered'
    BY <2>2 DEF Sync, syncCollabManifest
  <2>3. CASE Quiet
    BY <2>3 DEF Quiet
  <2> QED
    BY <1>1, <2>1, <2>2, <2>3, ManifestWriters DEF ManifestInv
<1> QED
  BY <1>1, ManifestInvariance, PTL DEF ManifestSpec, NothingTaken
=============================================================================
