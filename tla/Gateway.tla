------------------------------- MODULE Gateway -------------------------------
(***************************************************************************)
(* The public IPFS gateway and upload server (ipfs-server/server.js), the  *)
(* policies on CIDs that administrators keep in the database (app.ts) and  *)
(* the gateway remembers for a minute (ipfs-server/database/postgres.js),  *)
(* and the proxy that sends a client to the gateway of its pool            *)
(* (pool-server/main.go).                                                  *)
(*                                                                         *)
(* CIDs are normalised on both sides. Content is there or not; what the    *)
(* wrapper pages say, conversions and headers are data.                    *)
(***************************************************************************)
EXTENDS Integers, Sequences, FiniteSets

CONSTANTS
  Cid,
  Html,      \* CIDs of websites, whose wrapper needs the body
  Visit,     \* requests to the gateway
  TTL,       \* _blockedCache.ttlMs
  MaxTime    \* bound: ticks

ASSUME GatewayAssumption == Html \subseteq Cid /\ TTL \in Nat \ {0} /\ MaxTime \in Nat

VARIABLES
  now,
  policy,     \* blocked_cids: the mode of each CID, "none" without a row
  since,      \* history: when it was blocked
  cache,      \* _blockedCache
  mimes,      \* cidMimeCache
  present,    \* content that IPFS can find
  temp,       \* uploads whose temporary file is there
  visit

gvars == <<now, policy, since, cache, mimes, present, temp, visit>>

Modes == {"none", "block", "redirect"}
Kinds == {"raw", "view", "page", "embed"}  \* page: a browser's own navigation
NewVisit == [pc |-> "new", cid |-> 0, kind |-> "raw", at |-> 0, snap |-> <<>>, open |-> FALSE]

GInit ==
  /\ now = 0 /\ policy = [c \in Cid |-> "none"] /\ since = [c \in Cid |-> 0]
  /\ cache = [map |-> policy, at |-> -TTL] /\ mimes = {} /\ present \in {Cid, {}}
  /\ temp = {} /\ visit = [v \in Visit |-> NewVisit]

\* Time counts from the first policy or request.
Tick ==
  /\ now < MaxTime /\ ((\E v \in Visit : visit[v].pc # "new") \/ (\E c \in Cid : policy[c] # "none"))
  /\ now' = now + 1 /\ UNCHANGED <<policy, since, cache, mimes, present, temp, visit>>
VAt(v, pc) == visit[v].pc = pc
Turn(v, pc) == visit' = [visit EXCEPT ![v].pc = pc]
Over(v, pc) == visit' = [visit EXCEPT ![v] = [NewVisit EXCEPT !.pc = pc]]
Rest == UNCHANGED <<now, policy, since, cache, mimes, present, temp>>

-----------------------------------------------------------------------------
(* Policies                                                                *)

\* A CID that has a policy keeps it: 409 until it is removed.
AddPolicy(c, mode) ==
  /\ policy[c] = "none"
  /\ policy' = [policy EXCEPT ![c] = mode] /\ since' = [since EXCEPT ![c] = now]
  /\ UNCHANGED <<now, cache, mimes, present, temp, visit>>

RemovePolicy(c) ==
  /\ policy[c] # "none" /\ policy' = [policy EXCEPT ![c] = "none"]
  /\ UNCHANGED <<now, since, cache, mimes, present, temp, visit>>

-----------------------------------------------------------------------------
(* GET /gateway/:ipfs_cid                                                  *)

\* ?view=1, and a browser's page of content whose type is known, need no content.
Unrefused(v) ==
  IF visit[v].kind = "view" \/ (visit[v].kind = "page" /\ visit[v].cid \in mimes \ Html) THEN "wrapped" ELSE "fetching"

\* What the policy says, and what is served when it says nothing.
Answer(v, mode) ==
  visit' = [visit EXCEPT ![v] =
    IF mode # "none" THEN [NewVisit EXCEPT !.pc = "refused"] ELSE [@ EXCEPT !.snap = <<>>, !.pc = Unrefused(v)]]

Arrive(v, c, kind) ==
  /\ VAt(v, "new")
  /\ visit' = [visit EXCEPT ![v] = [NewVisit EXCEPT !.cid = c, !.kind = kind, !.at = now, !.pc = "policy"]]
  /\ Rest

\* The map in memory, while it is fresh ...
CachedPolicy(v) ==
  /\ VAt(v, "policy") /\ visit[v].at - cache.at < TTL /\ Answer(v, cache.map[visit[v].cid]) /\ Rest

\* ... or a SELECT, which several requests may have under way.
LoadPolicies(v) ==
  /\ VAt(v, "policy") /\ visit[v].at - cache.at >= TTL
  /\ visit' = [visit EXCEPT ![v].pc = "loaded", ![v].snap = policy] /\ Rest

\* Mutant: the age of the map counts from when the answer is there.
AgeFromAnswer(v) ==
  /\ VAt(v, "loaded")
  /\ cache' = [map |-> visit[v].snap, at |-> now] /\ Answer(v, visit[v].snap[visit[v].cid])
  /\ UNCHANGED <<now, policy, since, mimes, present, temp>>

PoliciesLoaded(v) ==
  /\ VAt(v, "loaded")
  /\ cache' = [map |-> visit[v].snap, at |-> visit[v].at] /\ Answer(v, visit[v].snap[visit[v].cid])
  /\ UNCHANGED <<now, policy, since, mimes, present, temp>>

\* A database that cannot be asked lets the request through.
PolicyFails(v) ==
  /\ VAt(v, "policy") /\ visit[v].at - cache.at >= TTL
  /\ visit' = [visit EXCEPT ![v].pc = Unrefused(v), ![v].open = TRUE] /\ Rest

\* The content is fetched whole; a browser's page of it is wrapped, whatever else asks gets it.
Serve(v) ==
  LET c == visit[v].cid IN
  /\ VAt(v, "fetching")
  /\ IF c \in present
     THEN /\ mimes' = IF visit[v].kind = "raw" THEN mimes ELSE mimes \cup {c}
          /\ Turn(v, IF visit[v].kind = "page" THEN "wrapped" ELSE "served")
     ELSE UNCHANGED mimes /\ Over(v, "missing")
  /\ UNCHANGED <<now, policy, since, cache, present, temp>>

\* Too large for the gateway, or IPFS fails.
ServeFails(v) == VAt(v, "fetching") /\ Over(v, "missing") /\ Rest

-----------------------------------------------------------------------------
(* POST /upload, and the pools                                             *)

\* An upload of a session that is valid; the file is written before it is looked at.
Receive(v, c) ==
  /\ VAt(v, "new") /\ temp' = temp \cup {v}
  /\ visit' = [visit EXCEPT ![v] = [NewVisit EXCEPT !.pc = "received", !.cid = c]]
  /\ UNCHANGED <<now, policy, since, cache, mimes, present>>

\* Added to IPFS without a pin; an executable, or a failure, is turned away. The file goes either way.
AddToIpfs(v, ok) ==
  /\ VAt(v, "received") /\ temp' = temp \ {v} /\ Over(v, "gone")
  /\ present' = IF ok THEN present \cup {visit[v].cid} ELSE present
  /\ UNCHANGED <<now, policy, since, cache, mimes>>

\* A token that is missing or unknown belongs to pool 1; a pool without a server is not found.
Backend(pool) == IF pool \in 1..4 THEN pool ELSE 0
Route(v, pool) ==
  /\ VAt(v, "new") /\ Over(v, IF Backend(pool) = 0 THEN "missing" ELSE "routed") /\ Rest

GatewayArrivals ==
  \E v \in Visit :
    \/ \E c \in Cid : Receive(v, c) \/ \E kind \in Kinds : Arrive(v, c, kind)
    \/ \E pool \in {1, 5} : Route(v, pool)

PolicyChanges == \E c \in Cid : RemovePolicy(c) \/ \E mode \in Modes \ {"none"} : AddPolicy(c, mode)

GatewayStep ==
  \/ Tick
  \/ \E v \in Visit :
       \/ CachedPolicy(v) \/ LoadPolicies(v) \/ PoliciesLoaded(v) \/ Serve(v)
       \/ \E ok \in BOOLEAN : AddToIpfs(v, ok)

GatewayFault == \E v \in Visit : PolicyFails(v) \/ ServeFails(v)

-----------------------------------------------------------------------------
(* Properties                                                              *)

GTypeOK == now \in 0..MaxTime /\ policy \in [Cid -> Modes] /\ mimes \subseteq Cid /\ temp \subseteq Visit

\* A CID that had its policy for as long as the gateway remembers policies is no longer
\* served when a request arrives, wrapped or not, however the SELECTs of several requests
\* interleave, unless the database could not be asked (getBlockedCidMode).
BlockedIsRefused ==
  \A v \in Visit :
    visit[v].pc \in {"served", "wrapped", "fetching"} /\ ~visit[v].open =>
      LET c == visit[v].cid IN policy[c] = "none" \/ since[c] > visit[v].at - TTL
=============================================================================
