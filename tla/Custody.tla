------------------------------- MODULE Custody -------------------------------
(***************************************************************************)
(* The key of every AI that is connected through the hosted connector:     *)
(* sealed with OpenBao in the worker's database, one row for each user and *)
(* OAuth client (custody.ts, openbao.ts), made by the first call that      *)
(* needs it and used by every tool call (capability.ts, identity.ts).      *)
(*                                                                         *)
(* A key is a number that stands for the secret and for its public half,   *)
(* the FULA-id. Wrapping a data key, and the batch that stores a sealed    *)
(* row with its audit, are one step: nothing is kept between them.         *)
(***************************************************************************)
EXTENDS Integers, FiniteSets

CONSTANTS
  Member,   \* users who sign in
  Client,   \* OAuth clients, which stand for AIs
  Group,
  Call,     \* requests under way
  MaxKey,   \* bound: keys made
  Null

ASSUME CustodyAssumption == MaxKey \in Nat /\ Null \notin Client \cup Group

VARIABLES
  rows,       \* mcp_capabilities: the key of a user's client
  made,       \* keys made so far
  shown,      \* history: the FULA-ids shown, and for whom
  contested,  \* history: accounts for which two first calls were under way at once
  bundles,    \* pinning-webui: the group a user delivered for a FULA-id
  request   \* where each of them is

cvars == <<rows, made, shown, contested, bundles, request>>

Key == 1..MaxKey
Slot == Member \X (Client \cup {Null})
NoCall == [pc |-> "idle", kind |-> "identity", user |-> Null, ai |-> Null, client |-> Null, key |-> 0, first |-> FALSE]

CInit ==
  /\ rows = [s \in Slot |-> 0] /\ made = 0 /\ shown = {} /\ contested = {}
  /\ bundles = [d \in Member \X Key |-> Null] /\ request = [i \in Call |-> NoCall]

CAt(i, pc) == request[i].pc = pc
SlotOf(i) == <<request[i].user, request[i].client>>
Close(i, how) == request' = [request EXCEPT ![i] = [NoCall EXCEPT !.pc = how]]
Tellable(i) == IF request[i].kind = "late" THEN {} ELSE {[user |-> request[i].user, ai |-> request[i].ai, client |-> request[i].client, key |-> request[i].key]}

-----------------------------------------------------------------------------
(* Requests                                                                *)

\* Mutant: grants without a client share a row.
SharedSlot(g) == IF g.named THEN g.ai ELSE Null
\* The client of the grant keys custody; a grant without one opens nothing.
ClientOf(g) == IF g.named THEN g.ai ELSE "refused"

\* fula_identity and /collab/connection, a tool that needs the group, or /collab/bundle.
Ask(i, g, kind) ==
  /\ request[i].pc \in {"idle", "told", "refused", "failed"} /\ ClientOf(g) # "refused"
  /\ request' = [request EXCEPT ![i] = [NoCall EXCEPT !.pc = "select", !.kind = kind,
                                   !.user = g.user, !.ai = g.ai, !.client = ClientOf(g)]]
  /\ UNCHANGED <<rows, made, shown, contested, bundles>>

\* The SELECT. Without a row a first call makes a key, and the others have nothing to open.
RowFound(i) ==
  /\ CAt(i, "select") /\ rows[SlotOf(i)] # 0
  /\ request' = [request EXCEPT ![i].pc = "unwrap", ![i].key = rows[SlotOf(i)]]
  /\ UNCHANGED <<rows, made, shown, contested, bundles>>

OtherFirst(i) == \E j \in Call \ {i} : CAt(j, "seal") /\ request[j].first /\ SlotOf(j) = SlotOf(i)

FirstCall(i) ==
  /\ CAt(i, "select") /\ rows[SlotOf(i)] = 0 /\ request[i].kind \notin {"bundle", "tool"} /\ made < MaxKey
  /\ made' = made + 1
  /\ request' = [request EXCEPT ![i].pc = "seal", ![i].key = made + 1, ![i].first = TRUE]
  /\ contested' = IF OtherFirst(i) THEN contested \cup {SlotOf(i)} ELSE contested
  /\ UNCHANGED <<rows, shown, bundles>>

NoIdentity(i) ==
  /\ CAt(i, "select") /\ rows[SlotOf(i)] = 0 /\ request[i].kind \in {"bundle", "tool"} /\ Close(i, "refused")
  /\ UNCHANGED <<rows, made, shown, contested, bundles>>

\* OpenBao unwraps the data key of the row that was read; tag and identity are checked.
Opened(i, kinds) ==
  /\ CAt(i, "unwrap") /\ request[i].kind \in kinds /\ UNCHANGED <<rows, made, contested, bundles>>

\* The public half is shown ...
Tell(i) ==
  /\ Opened(i, {"identity", "callback", "late"}) /\ shown' = shown \cup Tellable(i) /\ Close(i, "told")

\* ... or the row is sealed again with a bundle, which no tool reads ...
StoreCollabBundle(i) ==
  /\ Opened(i, {"bundle"}) /\ request' = [request EXCEPT ![i].pc = "seal"] /\ UNCHANGED shown

\* ... or a tool goes on with the secret.
LoadCollabSession(i) ==
  /\ Opened(i, {"tool"}) /\ request' = [request EXCEPT ![i].pc = "fetch"] /\ UNCHANGED shown

\* The row is replaced, with a fresh data key for the same or a new key pair.
Seal(i) ==
  /\ CAt(i, "seal")
  /\ rows' = [rows EXCEPT ![SlotOf(i)] = request[i].key]
  /\ shown' = IF request[i].kind = "bundle" THEN shown ELSE shown \cup Tellable(i)
  /\ Close(i, "told") /\ UNCHANGED <<made, contested, bundles>>

\* Mutant: a row that cannot be opened counts as no row.
OpensAnew(i) ==
  /\ request[i].pc \in {"unwrap", "seal"}
  /\ IF CAt(i, "unwrap") /\ request[i].kind \in {"identity", "callback"} /\ made < MaxKey
     THEN made' = made + 1 /\ request' = [request EXCEPT ![i].pc = "seal", ![i].key = made + 1]
     ELSE UNCHANGED made /\ Close(i, "failed")
  /\ UNCHANGED <<rows, shown, contested, bundles>>

\* OpenBao cannot be reached, logs nobody in, or answers late or badly, after one new login.
BaoFails(i) ==
  /\ request[i].pc \in {"unwrap", "seal"} /\ Close(i, "failed")
  /\ UNCHANGED <<rows, made, shown, contested, bundles>>

-----------------------------------------------------------------------------
(* The group of an AI                                                      *)

\* The user pastes a FULA-id somebody was shown, and the app seals the link secret to it.
Deliver(u, k, g) ==
  /\ \E s \in shown : s.key = k
  /\ bundles' = [bundles EXCEPT ![<<u, k>>] = g]
  /\ UNCHANGED <<rows, made, shown, contested, request>>

\* A bundle that was sealed to the key gives the link secret.
RecoverLinkSecret(i) == bundles[<<request[i].user, request[i].key>>] # Null

\* The tool asks pinning-webui, as its verified user, for the bundle of its own key.
FetchBundleByPubkey(i) ==
  /\ CAt(i, "fetch") /\ Close(i, IF RecoverLinkSecret(i) THEN "told" ELSE "refused")
  /\ UNCHANGED <<rows, made, shown, contested, bundles>>

FetchFails(i) ==
  /\ CAt(i, "fetch") /\ Close(i, "failed")
  /\ UNCHANGED <<rows, made, shown, contested, bundles>>

CustodyStep ==
  \E i \in Call :
    \/ RowFound(i) \/ FirstCall(i) \/ NoIdentity(i) \/ Tell(i) \/ StoreCollabBundle(i)
    \/ LoadCollabSession(i) \/ Seal(i) \/ FetchBundleByPubkey(i)

-----------------------------------------------------------------------------
(* Properties                                                              *)

CTypeOK ==
  /\ rows \in [Slot -> 0..MaxKey] /\ made \in 0..MaxKey /\ contested \subseteq Slot
  /\ shown \subseteq [user : Member, ai : Client, client : Client, key : Key]

\* Two AIs are never shown, and never hold, one key: neither those of two users nor two
\* AIs of one user, with or without a client in their grants (isValidClientId).
EachItsOwn == \A s, t \in shown : s.key = t.key => s.user = t.user /\ s.ai = t.ai

\* A FULA-id that was shown stays the AI's, whatever OpenBao does and whatever bundles are
\* delivered, unless two first calls overlapped (handleCollabConnection, KNOWN LIMITATION).
ShownStands == \A s \in shown : <<s.user, s.client>> \notin contested => rows[<<s.user, s.client>>] = s.key
=============================================================================
