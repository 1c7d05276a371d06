---------------------------- MODULE CollabAccess ----------------------------
(***************************************************************************)
(* How an AI connection comes to write into a collaboration group           *)
(* (pinning-webui/server/app.ts, database/postgres.ts): pairing and         *)
(* revoking connections, the groups an owner authorizes on one and removes  *)
(* again, the bundle handed to the hosted agent, the short-lived write      *)
(* tokens minted from the stored row, the creator's kill switch, and the    *)
(* checks of requireCollabWriteAuth in front of every write.                *)
(*                                                                         *)
(* A handler is one action per statement it sends to the database: others   *)
(* run between the SELECT of a scope and the UPDATE that writes it back.    *)
(* A request that is refused changes nothing and is not an action, unless   *)
(* it had begun.                                                            *)
(***************************************************************************)
EXTENDS Integers, FiniteSets

CONSTANTS
  User,          \* owners of connections and creators of groups
  Pub,           \* agent public keys
  Conn,          \* rows of mcp_connections
  Group,         \* groups with a row in collab_manifests
  Creator,       \* collab_manifests.creator_id, set once
  Req,           \* requests in flight
  Nobody, NoGroup, NoConn,
  MaxGroups      \* COLLAB_MAX_GROUP_IDS

ASSUME CollabAssumption ==
  /\ Creator \in [Group -> User]
  /\ NoGroup \notin Group /\ NoConn \notin Conn /\ Nobody \notin User
  /\ IsFiniteSet(Group) /\ MaxGroups \in Nat

VARIABLES
  conn,        \* mcp_connections
  pairings,    \* how many rows were inserted: created_at of the next one
  killed,      \* groups with collab_writes_revoked
  held,        \* connection and group pairs an unexpired write token names
  req,         \* the requests
  granted,     \* history: pairs the owner asked for and has not removed since
  overlapped,  \* history: connections two requests changed the scope of at once
  stale        \* history: pairs whose bundle was served while not granted

vars == <<conn, pairings, killed, held, req, granted, overlapped, stale>>

\* scope is scope.collab.groupIds and bundle the group_id of the bundle.
Row == [state : {"free", "live", "revoked"}, user : User \cup {Nobody}, pub : Pub \cup {NoGroup},
        born : Nat, scope : SUBSET Group, bundle : Group \cup {NoGroup}]
Unpaired == [state |-> "free", user |-> Nobody, pub |-> NoGroup, born |-> 0, scope |-> {}, bundle |-> NoGroup]

Pc == {"idle", "adding", "removing", "refreshing", "bundling", "arrived", "found", "allowed"}
Ban == {"conn", "group", "scope"}
\* seen is the scope the handler has read; banned what forbade a write when it arrived.
Request == [pc : Pc, c : Conn \cup {NoConn}, groups : SUBSET Group, seen : SUBSET Group, banned : SUBSET Ban]
Idle == [pc |-> "idle", c |-> NoConn, groups |-> {}, seen |-> {}, banned |-> {}]

Init ==
  /\ conn = [c \in Conn |-> Unpaired] /\ pairings = 0
  /\ killed = {} /\ held = {}
  /\ req = [r \in Req |-> Idle]
  /\ granted = {} /\ overlapped = {} /\ stale = {}

Start(r, pc, c, G) ==
  /\ req[r].pc = "idle"
  /\ req' = [req EXCEPT ![r] = [pc |-> pc, c |-> c, groups |-> G, seen |-> conn[c].scope, banned |-> {}]]

Answer(r) == req' = [req EXCEPT ![r] = Idle]

Live(c) == conn[c].state = "live"
Pairs(c, G) == {c} \X G

-----------------------------------------------------------------------------
(* Pairing and revoking                                                    *)

\* POST /api/mcp/tokens with a pubkey; pairing a pubkey again adds a row.
RegisterConnection(u, p, c) ==
  /\ conn[c].state = "free"
  /\ conn' = [conn EXCEPT ![c] = [Unpaired EXCEPT !.state = "live", !.user = u, !.pub = p, !.born = pairings + 1]]
  /\ pairings' = pairings + 1
  /\ UNCHANGED <<killed, held, req, granted, overlapped, stale>>

revokeMcpConnection(u, c) ==
  /\ conn[c].user = u /\ Live(c)
  /\ conn' = [conn EXCEPT ![c].state = "revoked"]
  /\ UNCHANGED <<pairings, killed, held, req, granted, overlapped, stale>>

-----------------------------------------------------------------------------
(* authorizeCollabGroupsForConnection and deauthorizeCollabGroupsFor...     *)

\* What an authorization lifts from the writes already on their way.
Lift(q, c, G) == IF q.c = c /\ q.groups \cap G # {} THEN [q EXCEPT !.banned = @ \ {"scope"}] ELSE q

Merged(r) == req[r].seen \cup req[r].groups

WithinCap(c, G) == Cardinality(conn[c].scope \cup G) <= MaxGroups

\* The SELECT and the cap, refused before anything is stored.
AuthorizeRead(r, u, c, G) ==
  /\ conn[c].user = u /\ Live(c) /\ WithinCap(c, G)
  /\ req[r].pc = "idle"
  /\ req' = [q \in Req |-> IF q = r
              THEN [pc |-> "adding", c |-> c, groups |-> G, seen |-> conn[c].scope, banned |-> {}]
              ELSE Lift(req[q], c, G)]
  /\ granted' = granted \cup Pairs(c, G)
  /\ UNCHANGED <<conn, pairings, killed, held, overlapped, stale>>

\* Another request has read the scope that this one is about to replace.
Crossed(r) == {c \in {req[r].c} : \E q \in Req \ {r} : req[q].c = c /\ req[q].pc \in {"adding", "removing"}}

\* Mutant: the row is written back as it was read.
AuthorizeWriteRow(r) ==
  /\ req[r].pc = "adding"
  /\ conn' = [conn EXCEPT ![req[r].c].scope = Merged(r), ![req[r].c].state = "live"]
  /\ held' = held \cup Pairs(req[r].c, Merged(r))
  /\ overlapped' = overlapped \cup Crossed(r)
  /\ Answer(r)
  /\ UNCHANGED <<pairings, killed, granted, stale>>

\* The UPDATE ... WHERE NOT revoked, and the token minted from its result.
AuthorizeWrite(r) ==
  /\ req[r].pc = "adding"
  /\ IF Live(req[r].c)
     THEN /\ conn' = [conn EXCEPT ![req[r].c].scope = Merged(r)]
          /\ held' = held \cup Pairs(req[r].c, Merged(r))
          /\ overlapped' = overlapped \cup Crossed(r)
     ELSE UNCHANGED <<conn, held, overlapped>>
  /\ Answer(r)
  /\ UNCHANGED <<pairings, killed, granted, stale>>

\* Allowed on a revoked connection too.
DeauthorizeRead(r, u, c, G) ==
  /\ conn[c].user = u
  /\ Start(r, "removing", c, G)
  /\ UNCHANGED <<conn, pairings, killed, held, granted, overlapped, stale>>

\* Groups an authorization in flight asks for are not taken as removed.
BeingAdded(c) == UNION {req[q].groups : q \in {p \in Req : req[p].c = c /\ req[p].pc = "adding"}}

DeauthorizeWrite(r) ==
  /\ req[r].pc = "removing"
  /\ conn' = [conn EXCEPT ![req[r].c].scope = req[r].seen \ req[r].groups]
  /\ granted' = granted \ Pairs(req[r].c, req[r].groups \ BeingAdded(req[r].c))
  /\ overlapped' = overlapped \cup Crossed(r)
  /\ Answer(r)
  /\ UNCHANGED <<pairings, killed, held, stale>>

-----------------------------------------------------------------------------
(* Tokens: refresh, expiry, and the bundle of the hosted agent              *)

\* POST /api/mcp/tokens/refresh-connection: the row is read, last_refreshed_at
\* written (a failure of which is ignored), then the token minted from the row.
RefreshRead(r, c) ==
  /\ Live(c)
  /\ Start(r, "refreshing", c, {})
  /\ UNCHANGED <<conn, pairings, killed, held, granted, overlapped, stale>>

RefreshMint(r) ==
  /\ req[r].pc = "refreshing"
  /\ held' = held \cup Pairs(req[r].c, req[r].seen)
  /\ Answer(r)
  /\ UNCHANGED <<conn, pairings, killed, granted, overlapped, stale>>

\* Write tokens live ten minutes at most.
TokensExpire ==
  /\ \E kept \in SUBSET held : held' = kept /\ kept # held
  /\ UNCHANGED <<conn, pairings, killed, req, granted, overlapped, stale>>

\* ORDER BY created_at DESC LIMIT 1, of the rows in C.
Newest(C) == {c \in C : \A d \in C : conn[d].born <= conn[c].born}
LiveOf(u, p) == {c \in Conn : Live(c) /\ conn[c].user = u /\ conn[c].pub = p}

\* POST /api/mcp/connections/bundle: the row whose id is given, or the newest
\* of the pubkey, which is one of them too.
BundleRead(r, u, p, c, g) ==
  /\ c \in LiveOf(u, p) /\ g \in conn[c].scope
  /\ Start(r, "bundling", c, {g})
  /\ UNCHANGED <<conn, pairings, killed, held, granted, overlapped, stale>>

setMcpConnectionBundleById(r) ==
  /\ req[r].pc = "bundling"
  /\ IF Live(req[r].c)
     THEN \E g \in req[r].groups : conn' = [conn EXCEPT ![req[r].c].bundle = g]
     ELSE UNCHANGED conn
  /\ Answer(r)
  /\ UNCHANGED <<pairings, killed, held, granted, overlapped, stale>>

WithBundle(u, p) == {c \in LiveOf(u, p) : conn[c].bundle # NoGroup}

Withheld(c) == conn[c].bundle \notin conn[c].scope

\* GET .../by-pubkey/:pubkey/bundle: one SELECT; a bundle whose group was
\* removed since is withheld, else a token is minted from the same row.
FetchBundle(u, p, c) ==
  /\ c \in Newest(WithBundle(u, p)) /\ ~Withheld(c)
  /\ held' = held \cup Pairs(c, conn[c].scope)
  /\ stale' = stale \cup (Pairs(c, {conn[c].bundle}) \ granted)
  /\ UNCHANGED <<conn, pairings, killed, req, granted, overlapped>>

-----------------------------------------------------------------------------
(* The kill switch                                                         *)

\* POST /api/collab-groups/:groupId/ai-writes, by the creator.
setCollabWritesRevoked(u, g, revoked) ==
  /\ Creator[g] = u
  /\ killed' = IF revoked THEN killed \cup {g} ELSE killed \ {g}
  /\ req' = [q \in Req |-> IF ~revoked /\ g \in req[q].groups THEN [req[q] EXCEPT !.banned = @ \ {"group"}] ELSE req[q]]
  /\ UNCHANGED <<conn, pairings, held, granted, overlapped, stale>>

-----------------------------------------------------------------------------
(* requireCollabWriteAuth and the write behind it                          *)

Forbidden(c, g) == {b \in Ban : \/ b = "conn" /\ conn[c].state = "revoked"
                                \/ b = "group" /\ g \in killed
                                \/ b = "scope" /\ <<c, g>> \notin granted}

\* The token verifies and names the group.
WriteArrives(r, c, g) ==
  /\ <<c, g>> \in held /\ req[r].pc = "idle"
  /\ req' = [req EXCEPT ![r] = [pc |-> "arrived", c |-> c, groups |-> {g}, seen |-> {}, banned |-> Forbidden(c, g)]]
  /\ UNCHANGED <<conn, pairings, killed, held, granted, overlapped, stale>>

\* Mutant: the groups of the token are enough.
CheckConnectionOnly(r) ==
  /\ req[r].pc = "arrived"
  /\ IF Live(req[r].c) THEN req' = [req EXCEPT ![r].pc = "found"] ELSE Answer(r)
  /\ UNCHANGED <<conn, pairings, killed, held, granted, overlapped, stale>>

\* findMcpConnectionById: not revoked, and the group in the live scope.
CheckConnection(r) ==
  /\ req[r].pc = "arrived"
  /\ IF Live(req[r].c) /\ req[r].groups \subseteq conn[req[r].c].scope
     THEN req' = [req EXCEPT ![r].pc = "found"]
     ELSE Answer(r)
  /\ UNCHANGED <<conn, pairings, killed, held, granted, overlapped, stale>>

\* isCollabGroupWritesRevoked.
CheckKillSwitch(r) ==
  /\ req[r].pc = "found"
  /\ IF req[r].groups \cap killed = {} THEN req' = [req EXCEPT ![r].pc = "allowed"] ELSE Answer(r)
  /\ UNCHANGED <<conn, pairings, killed, held, granted, overlapped, stale>>

\* Mutant: a failed lookup lets the write through.
QueryFailsOpen(r) ==
  /\ req[r].pc \in Pc \ {"idle", "refreshing", "allowed"}
  /\ IF req[r].pc \in {"arrived", "found"} THEN req' = [req EXCEPT ![r].pc = "allowed"] ELSE Answer(r)
  /\ UNCHANGED <<conn, pairings, killed, held, granted, overlapped, stale>>

\* A query fails: 503, or 500 in the other handlers, and nothing is stored.
QueryFails(r) ==
  /\ req[r].pc \in Pc \ {"idle", "refreshing", "allowed"}
  /\ Answer(r)
  /\ UNCHANGED <<conn, pairings, killed, held, granted, overlapped, stale>>

\* The object or the manifest is written and the request audited.
Write(r) ==
  /\ req[r].pc = "allowed"
  /\ Answer(r)
  /\ UNCHANGED <<conn, pairings, killed, held, granted, overlapped, stale>>

-----------------------------------------------------------------------------
Owner(u) ==
  \/ \E p \in Pub, c \in Conn : RegisterConnection(u, p, c)
  \/ \E c \in Conn : revokeMcpConnection(u, c)
  \/ \E g \in Group, revoked \in BOOLEAN : setCollabWritesRevoked(u, g, revoked)
  \/ \E p \in Pub, c \in Conn : FetchBundle(u, p, c)

Handler(r) ==
  \/ \E u \in User, c \in Conn, G \in (SUBSET Group) \ {{}} : AuthorizeRead(r, u, c, G) \/ DeauthorizeRead(r, u, c, G)
  \/ AuthorizeWrite(r) \/ DeauthorizeWrite(r)
  \/ \E c \in Conn : RefreshRead(r, c)
  \/ RefreshMint(r)
  \/ \E u \in User, p \in Pub, c \in Conn, g \in Group : BundleRead(r, u, p, c, g)
  \/ setMcpConnectionBundleById(r)
  \/ \E c \in Conn, g \in Group : WriteArrives(r, c, g)
  \/ CheckConnection(r) \/ CheckKillSwitch(r) \/ QueryFails(r) \/ Write(r)

Next == (\E u \in User : Owner(u)) \/ (\E r \in Req : Handler(r)) \/ TokensExpire
Spec == Init /\ [][Next]_vars

-----------------------------------------------------------------------------
(* Properties                                                              *)

\* Every variable holds what its column or its handler can hold.
TypeOK ==
  /\ conn \in [Conn -> Row] /\ pairings \in Nat
  /\ killed \subseteq Group /\ held \subseteq Conn \X Group
  /\ req \in [Req -> Request] /\ \A r \in Req : req[r].pc # "idle" => req[r].c \in Conn
  /\ granted \subseteq Conn \X Group /\ overlapped \subseteq Conn /\ stale \subseteq Conn \X Group

\* A write that arrives after its connection was revoked is not let through,
\* whatever tokens, refreshes and half-done authorizations are about.
RevokedNeverWrites == \A r \in Req : req[r].pc = "allowed" => "conn" \notin req[r].banned

\* A write that arrives while the kill switch of its group is set, and stays
\* set, is not let through, although a check of it may fail on the way.
KilledNeverWrites == \A r \in Req : req[r].pc = "allowed" => "group" \notin req[r].banned

\* A write that arrives after the owner removed the group from the connection
\* is not let through.
RemovedNeverWrites == \A r \in Req : req[r].pc = "allowed" => "scope" \notin req[r].banned

\* The same, and of the bundle too, as long as no two requests were changing
\* the scope of the connection at once.
RemovedAlone ==
  /\ \A r \in Req : req[r].pc = "allowed" /\ "scope" \in req[r].banned => req[r].c \in overlapped
  /\ \A s \in stale : s[1] \in overlapped

\* A scope never holds more groups than a token may name, however
\* authorizations overlap: minting from a larger one throws at every refresh.
ScopeWithinCap == \A c \in Conn : Cardinality(conn[c].scope) <= MaxGroups
=============================================================================
