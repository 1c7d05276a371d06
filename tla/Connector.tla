------------------------------ MODULE Connector ------------------------------
(***************************************************************************)
(* The hosted connector (cloudflare/src): an AI is authorized through      *)
(* Google in the user's browser (google.ts), and its tools then run for    *)
(* the user and the client of its grant (mcp.ts). The scoped tokens that   *)
(* pinning-webui issues to connected agents share nothing with it but the  *)
(* public keys: a behaviour follows one of the two.                        *)
(*                                                                         *)
(* The OAuth library and Google are external: a grant is what              *)
(* completeAuthorization is given.                                         *)
(***************************************************************************)
EXTENDS Custody, ScopedTokens

CONSTANTS
  Tab,       \* the tabs of one browser, which share its cookies
  MaxFlows,  \* bound: authorizations begun
  MaxAsks,   \* bound: requests of AIs and of the app
  MaxFailures \* bound: failures

ASSUME ConnectorAssumption == MaxFlows \in Nat \ {0} /\ MaxAsks \in Nat /\ MaxFailures \in Nat

VARIABLES
  scene,
  flows,      \* authorizations begun, each with its nonce
  tab,
  stateCookie,
  continueCookie,
  chosen,     \* history: the account that was picked for an AI
  grants,
  asks, failures

wvars == <<flows, tab, stateCookie, continueCookie, chosen, grants>>
connectorVars == <<cvars, tvars, wvars, scene, asks, failures>>

NewTab == [pc |-> "closed", nonce |-> 0, ai |-> Null, user |-> Null, call |-> Null]
NoCookie == [nonce |-> 0, user |-> Null, ai |-> Null]

\* Grants from before clients were recorded in them may be there: they count as a flow.
ConnectorInit ==
  /\ CInit /\ TInit /\ scene \in {"connect", "tokens"}
  /\ tab = [t \in Tab |-> NewTab] /\ stateCookie = NoCookie /\ continueCookie = NoCookie
  /\ chosen = {}
  /\ \E u \in Member : grants \in {{}, {[user |-> u, ai |-> a, named |-> FALSE] : a \in Client}}
  /\ scene = "tokens" => grants = {}
  /\ flows = (IF grants = {} THEN 0 ELSE 1) /\ asks = 0 /\ failures = 0

TAt(t, pc) == tab[t].pc = pc
Goes(t, pc) == tab' = [tab EXCEPT ![t].pc = pc]
Shut(t) == tab' = [tab EXCEPT ![t] = NewTab]

-----------------------------------------------------------------------------
(* GET /authorize, Google, GET /callback                                   *)

\* Every tab's request sets the one state cookie anew.
HandleAuthorize(t, a) ==
  /\ TAt(t, "closed") /\ flows < MaxFlows /\ flows' = flows + 1
  /\ tab' = [tab EXCEPT ![t] = [NewTab EXCEPT !.pc = "google", !.nonce = flows + 1, !.ai = a]]
  /\ stateCookie' = [nonce |-> flows + 1, user |-> Null, ai |-> a]
  /\ UNCHANGED <<cvars, continueCookie, chosen, grants>>

PickAccount(t, u) ==
  /\ TAt(t, "google") /\ chosen' = chosen \cup {<<u, tab[t].ai>>}
  /\ tab' = [tab EXCEPT ![t].pc = "back", ![t].user = u]
  /\ UNCHANGED <<cvars, flows, stateCookie, continueCookie, grants>>

\* Mutant: the nonce that Google returns is not compared.
AnyState(t) ==
  /\ TAt(t, "back")
  /\ IF stateCookie = NoCookie THEN Shut(t)
     ELSE tab' = [tab EXCEPT ![t].pc = "verify", ![t].ai = stateCookie.ai]
  /\ UNCHANGED <<cvars, flows, stateCookie, continueCookie, chosen, grants>>

\* The client is the cookie's, whose nonce must be the one that Google returns.
HandleCallback(t) ==
  /\ TAt(t, "back")
  /\ IF stateCookie.nonce # tab[t].nonce THEN Shut(t)
     ELSE tab' = [tab EXCEPT ![t].pc = "verify", ![t].ai = stateCookie.ai]
  /\ UNCHANGED <<cvars, flows, stateCookie, continueCookie, chosen, grants>>

VerifyFails(t) ==
  /\ TAt(t, "verify") /\ Shut(t)
  /\ UNCHANGED <<cvars, flows, stateCookie, continueCookie, chosen, grants>>

TabGrant(t) == [user |-> tab[t].user, ai |-> tab[t].ai, named |-> TRUE]

\* A verified account: the AI's key is loaded, or made, to be shown.
ShowIdentity(t, i) ==
  /\ TAt(t, "verify") /\ Ask(i, TabGrant(t), "callback")
  /\ tab' = [tab EXCEPT ![t].pc = "loading", ![t].call = i]
  /\ UNCHANGED <<flows, stateCookie, continueCookie, chosen, grants>>

Interstitial(t) ==
  /\ TAt(t, "loading") /\ CAt(tab[t].call, "told")
  /\ stateCookie' = NoCookie /\ continueCookie' = [nonce |-> 0, user |-> tab[t].user, ai |-> tab[t].ai]
  /\ Goes(t, "interstitial") /\ Close(tab[t].call, "idle")
  /\ UNCHANGED <<rows, made, shown, contested, bundles, flows, chosen, grants>>

CompleteAuthorization(g) == grants' = grants \cup {g}

\* The interstitial is off, the key cannot be shown or the cookie would be too large: the
\* authorization is completed at once.
Direct(t) ==
  /\ TAt(t, "verify") \/ (TAt(t, "loading") /\ request[tab[t].call].pc \in {"told", "failed"})
  /\ CompleteAuthorization(TabGrant(t)) /\ stateCookie' = NoCookie /\ Shut(t)
  /\ IF TAt(t, "verify") THEN UNCHANGED request ELSE Close(tab[t].call, "idle")
  /\ UNCHANGED <<rows, made, shown, contested, bundles, flows, continueCookie, chosen>>

\* So it is after four seconds; the load goes on unseen, or ends with the request.
WithTimeout(t, goesOn) ==
  /\ TAt(t, "loading") /\ request[tab[t].call].pc \in {"select", "unwrap", "seal"}
  /\ CompleteAuthorization(TabGrant(t)) /\ stateCookie' = NoCookie /\ Shut(t)
  /\ IF goesOn THEN request' = [request EXCEPT ![tab[t].call].kind = "late"] ELSE Close(tab[t].call, "idle")
  /\ UNCHANGED <<rows, made, shown, contested, bundles, flows, continueCookie, chosen>>

\* "Finish connecting", in whichever tab: the cookie says who is connected to what.
HandleCallbackContinue(t) ==
  /\ TAt(t, "interstitial") /\ Shut(t) /\ continueCookie' = NoCookie
  /\ IF continueCookie = NoCookie THEN UNCHANGED grants
     ELSE CompleteAuthorization([user |-> continueCookie.user, ai |-> continueCookie.ai, named |-> TRUE])
  /\ UNCHANGED <<cvars, flows, stateCookie, chosen>>

\* Ten minutes pass, or the library fails to complete: reconnectResponse.
CookiesExpire ==
  /\ stateCookie # NoCookie \/ continueCookie # NoCookie
  /\ stateCookie' = NoCookie /\ continueCookie' = NoCookie
  /\ UNCHANGED <<cvars, flows, tab, chosen, grants>>

-----------------------------------------------------------------------------
(* Tools and routes of a granted AI                                        *)

Busy(i) == \E t \in Tab : TAt(t, "loading") /\ tab[t].call = i

Connected ==
  /\ asks < MaxAsks /\ asks' = asks + 1 /\ UNCHANGED <<wvars, failures>>
  /\ \/ \E i \in Call, g \in grants, kind \in {"identity", "tool", "bundle"} : ~Busy(i) /\ Ask(i, g, kind)
     \/ \E u \in Member, k \in Key, g \in Group : Deliver(u, k, g)

SignInStep ==
  \E t \in Tab :
    \/ \E a \in Client : HandleAuthorize(t, a)
    \/ \E u \in Member : PickAccount(t, u)
    \/ HandleCallback(t) \/ Interstitial(t) \/ Direct(t) \/ HandleCallbackContinue(t)
    \/ \E i \in Call : ~Busy(i) /\ ShowIdentity(t, i)

ConnectorFault ==
  \/ UNCHANGED wvars /\ \E i \in Call : BaoFails(i) \/ FetchFails(i)
  \/ \E t \in Tab : VerifyFails(t) \/ \E goesOn \in BOOLEAN : WithTimeout(t, goesOn)
  \/ CookiesExpire

ConnectNext ==
  /\ scene = "connect" /\ UNCHANGED <<tvars, scene>>
  /\ \/ Connected
     \/ UNCHANGED <<asks, failures>> /\ (SignInStep \/ (CustodyStep /\ UNCHANGED wvars))
     \/ failures < MaxFailures /\ failures' = failures + 1 /\ UNCHANGED asks /\ ConnectorFault

TokensNext == scene = "tokens" /\ TokenStep /\ UNCHANGED <<cvars, wvars, scene, asks, failures>>

ConnectorNext == ConnectNext \/ TokensNext

ConnectorSpec == ConnectorInit /\ [][ConnectorNext]_connectorVars

-----------------------------------------------------------------------------
(* Properties                                                              *)

ConnectorTypeOK ==
  /\ CTypeOK /\ TTypeOK /\ flows \in 0..MaxFlows /\ chosen \subseteq Member \X Client
  /\ grants \subseteq [user : Member, ai : Client, named : BOOLEAN]

\* An AI is granted an account only after that account was picked for that AI, however the
\* tabs of a browser interleave over its one pair of cookies (handleCallback).
GrantIsWhatWasAsked == \A g \in grants : g.named => <<g.user, g.ai>> \in chosen
=============================================================================
