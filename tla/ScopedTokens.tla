---------------------------- MODULE ScopedTokens ----------------------------
(***************************************************************************)
(* The short-lived tokens that pinning-webui issues to a paired agent      *)
(* (mcpTokens.ts), the list of revoked ones, and the grants on a user's    *)
(* files that an agent fetches with its token (mcpGrants.ts, postgres.ts,  *)
(* app.ts).                                                                *)
(*                                                                         *)
(* A tick is a minute. Tokens that were tampered with fail their signature *)
(* and reach nothing. gcExpiredMcpRevocations and gcExpiredGrants have no  *)
(* caller in the repository, so rows stay.                                 *)
(***************************************************************************)
EXTENDS Integers, FiniteSets

CONSTANTS
  Person,    \* users of pinning-webui
  Agent,     \* public keys of agents
  Jti,       \* tokens: numbers
  Grant,     \* rows of mcp_grants
  Fetch,     \* requests of agents for their grants
  Skew,      \* clockTolerance of verifyMcpToken
  Ttls,      \* lifetimes asked for
  MaxTtl,    \* MCP_TOKEN_TTL_MAX_SECONDS; the least is a minute
  MaxClock,  \* bound: minutes
  Unbound

ASSUME ScopedTokensAssumption ==
  Skew \in Nat /\ Ttls \subseteq Nat /\ MaxTtl \in Nat \ {0} /\ MaxClock \in Nat /\ Unbound \notin Agent

VARIABLES
  clock,
  tokens,   \* tokens issued: held by agents, and by nobody else
  revoked,  \* mcp_revoked_tokens
  feed,     \* the gateway's last copy of the list
  granted,  \* mcp_grants
  fetch

tvars == <<clock, tokens, revoked, feed, granted, fetch>>

NoToken == [sub |-> Unbound, cnf |-> Unbound, exp |-> 0]
NoGrant == [sub |-> Unbound, cnf |-> Unbound, until |-> 0, live |-> FALSE]
NoFetch == [pc |-> "idle", jti |-> Unbound, late |-> FALSE, got |-> {}]

TInit ==
  /\ clock = 0 /\ tokens = [j \in Jti |-> NoToken] /\ revoked = {} /\ feed = {}
  /\ granted = [g \in Grant |-> NoGrant] /\ fetch = [f \in Fetch |-> NoFetch]

Issued(j) == tokens[j] # NoToken

\* Time matters once a token is there.
Minute ==
  /\ clock < MaxClock /\ (\E j \in Jti : Issued(j)) /\ clock' = clock + 1
  /\ UNCHANGED <<tokens, revoked, feed, granted, fetch>>

ResolveMcpTtlSeconds(ttl) == IF ttl < 1 THEN 1 ELSE IF ttl > MaxTtl THEN MaxTtl ELSE ttl
MintMcpToken(u, agent, ttl) == [sub |-> u, cnf |-> agent, exp |-> clock + ResolveMcpTtlSeconds(ttl)]

\* An issue or a refresh, bound to the agent's key or not; the token before stays good.
IssueToken(j, u, agent, ttl) ==
  /\ ~Issued(j) /\ (\A k \in Jti : k < j => Issued(k))
  /\ tokens' = [tokens EXCEPT ![j] = MintMcpToken(u, agent, ttl)]
  /\ UNCHANGED <<clock, revoked, feed, granted, fetch>>

VerifyMcpToken(j) == Issued(j) /\ clock < tokens[j].exp + Skew

\* Only a token that verifies, presented by its own user; again is a no-op.
ResolveRevocationTarget(j, u) == VerifyMcpToken(j) /\ tokens[j].sub = u
RevokeToken(j, u) ==
  /\ ResolveRevocationTarget(j, u) /\ revoked' = revoked \cup {j}
  /\ UNCHANGED <<clock, tokens, feed, granted, fetch>>

\* The gateway's poll: rows of tokens that have not expired.
ListRevokedMcpJtis ==
  /\ feed' = {j \in revoked : tokens[j].exp >= clock}
  /\ UNCHANGED <<clock, tokens, revoked, granted, fetch>>

\* A batch of grants is refused or inserted whole.
ValidateGrantsPayload(batch) == batch # {} /\ \A g \in batch : granted[g] = NoGrant
InsertMcpGrants(batch, row) == [g \in Grant |-> IF g \in batch THEN row ELSE granted[g]]

PublishGrants(batch, u, agent, until) ==
  /\ ValidateGrantsPayload(batch)
  /\ granted' = InsertMcpGrants(batch, [sub |-> u, cnf |-> agent, until |-> until, live |-> TRUE])
  /\ UNCHANGED <<clock, tokens, revoked, feed, fetch>>

\* By id, or every grant of an agent and a scope; only one's own.
RevokeMcpGrant(u, target) ==
  [g \in Grant |-> IF g \in target /\ granted[g].sub = u THEN [granted[g] EXCEPT !.live = FALSE] ELSE granted[g]]

RevokeGrants(u, target) ==
  /\ \E g \in target : granted[g].sub = u /\ granted[g].live
  /\ granted' = RevokeMcpGrant(u, target) /\ UNCHANGED <<clock, tokens, revoked, feed, fetch>>

GetCnfMcpPubB64(j) == tokens[j].cnf

\* GET /api/mcp/grants. A token that does not verify, or is bound to no agent, gets nothing.
FetchGrants(f, j) ==
  /\ fetch[f].pc = "idle" /\ VerifyMcpToken(j) /\ GetCnfMcpPubB64(j) # Unbound
  /\ fetch' = [fetch EXCEPT ![f] = [NoFetch EXCEPT !.pc = "verified", !.jti = j, !.late = j \in revoked]]
  /\ UNCHANGED <<clock, tokens, revoked, feed, granted>>

\* Mutant: rows of tokens past their exp do not count, as in the gateway's list.
UnexpiredOnly(j) == j \in revoked /\ tokens[j].exp >= clock

IsMcpJtiRevoked(j) == j \in revoked

CheckRevoked(f) ==
  /\ fetch[f].pc = "verified"
  /\ fetch' = [fetch EXCEPT ![f] = IF IsMcpJtiRevoked(@.jti) THEN NoFetch ELSE [@ EXCEPT !.pc = "checked"]]
  /\ UNCHANGED <<clock, tokens, revoked, feed, granted>>

\* A list that cannot be read denies.
CheckFails(f) ==
  /\ fetch[f].pc = "verified" /\ fetch' = [fetch EXCEPT ![f] = NoFetch]
  /\ UNCHANGED <<clock, tokens, revoked, feed, granted>>

ListActiveGrants(f) ==
  LET t == tokens[fetch[f].jti] IN
  /\ fetch[f].pc = "checked"
  /\ fetch' = [fetch EXCEPT ![f].pc = "answered",
       ![f].got = {g \in Grant : granted[g].live /\ granted[g].until > clock /\ granted[g].sub = t.sub /\ granted[g].cnf = t.cnf}]
  /\ UNCHANGED <<clock, tokens, revoked, feed, granted>>

Answered(f) ==
  /\ fetch[f].pc = "answered" /\ fetch' = [fetch EXCEPT ![f] = NoFetch]
  /\ UNCHANGED <<clock, tokens, revoked, feed, granted>>

TokenStep ==
  \/ Minute \/ ListRevokedMcpJtis
  \/ \E j \in Jti, u \in Person : RevokeToken(j, u) \/ \E agent \in Agent \cup {Unbound}, ttl \in Ttls : IssueToken(j, u, agent, ttl)
  \/ \E u \in Person : \/ \E batch \in SUBSET Grant, agent \in Agent : PublishGrants(batch, u, agent, MaxClock)
                       \/ \E target \in SUBSET Grant : RevokeGrants(u, target)
  \/ \E f \in Fetch : \/ CheckRevoked(f) \/ CheckFails(f) \/ ListActiveGrants(f) \/ Answered(f)
                      \/ \E j \in Jti : FetchGrants(f, j)

-----------------------------------------------------------------------------
(* Properties                                                              *)

TTypeOK ==
  /\ clock \in 0..MaxClock /\ revoked \subseteq Jti /\ feed \subseteq revoked
  /\ granted \in [Grant -> [sub : Person \cup {Unbound}, cnf : Agent \cup {Unbound}, until : 0..MaxClock, live : BOOLEAN]]

\* A request with a token that was revoked before it came is told of no grant, also in the
\* minutes past the token's exp in which verifyMcpToken still accepts it (GET /api/mcp/grants).
RevokedGetsNothing == \A f \in Fetch : fetch[f].pc = "answered" /\ fetch[f].late => fetch[f].got = {}
=============================================================================
