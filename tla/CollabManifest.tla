--------------------------- MODULE CollabManifest ---------------------------
(***************************************************************************)
(* The manifest of one collaboration group, and those who edit it: the      *)
(* tool calls of the hosted agents (cloudflare/src/fula/collab/tools.ts,    *)
(* client.ts, refresh.ts, manifest.ts), which commit by GET, merge and a    *)
(* conditional PUT, and the browser tabs (pinning-webui/src/pages/          *)
(* Collab.tsx, components/CollabUploader.tsx, services/sharingService.ts),  *)
(* which write back the manifest they loaded plus their own entry. Behind   *)
(* them are the handlers of pinning-webui/server/app.ts and the row of      *)
(* collab_manifests.                                                        *)
(*                                                                         *)
(* An entry is its id: ids are fresh UUIDs and entries are never changed.   *)
(* Every request may be refused or fail, and its reply may be lost.         *)
(***************************************************************************)
EXTENDS Integers, FiniteSets

CONSTANTS
  Agent, Tab,
  Account,     \* signed-in users of the tabs and creators
  UserOf,      \* who is signed in in a tab
  File,        \* ids of entries with a blob
  Folder,      \* ids of folder markers
  NoAccount,   \* creator_id NULL, or no row at all
  NoEntry,
  MaxRetries,  \* MAX_CAS_RETRIES
  MaxCalls     \* bound: tool calls and edits

ASSUME ManifestAssumption ==
  /\ UserOf \in [Tab -> Account] /\ NoAccount \notin Account
  /\ File \cap Folder = {} /\ NoEntry \notin File \cup Folder
  /\ MaxRetries \in Nat /\ MaxCalls \in Nat

VARIABLES
  row,        \* the manifest in collab_manifests
  version,    \* manifest_version, 0 when there is no row
  creator,    \* creator_id
  stored,     \* blobs in S3: file and the user in whose space it is
  used,       \* ids given out
  agent,      \* the tool call of each agent
  tab,        \* the edit of each tab
  calls,      \* how many calls and edits were begun
  added,      \* history: entries an agent was told it added
  removed,    \* history: entries an agent was told it removed
  astray,     \* history: files put in another space than the creator's, or
              \* deleted while they were not removed
  clobbered   \* history: entries or tombstones a tab wrote over

server == <<row, version, creator, stored, astray>>
told == <<added, removed>>
manifestVars == <<server, used, agent, tab, calls, told, clobbered>>

Entry == File \cup Folder
Manifest == [files : SUBSET Entry, tombs : SUBSET Entry]
Empty == [files |-> {}, tombs |-> {}]

\* base is what the call started from, remote and ver the last GET.
Call == [pc : {"idle", "upload", "put", "refreshed", "refetch"}, op : {"add", "remove"}, id : Entry \cup {NoEntry},
         base : Manifest, remote : Manifest, ver : Nat, attempt : 0..MaxRetries]
Edit == [pc : {"closed", "open", "upload", "manifest", "sync", "reload"}, id : Entry \cup {NoEntry}, view : Manifest]
NoCall == [pc |-> "idle", op |-> "add", id |-> NoEntry, base |-> Empty, remote |-> Empty, ver |-> 0, attempt |-> 0]
NoEdit == [pc |-> "closed", id |-> NoEntry, view |-> Empty]

ManifestInit ==
  /\ row = Empty
  /\ \/ version = 0 /\ creator = NoAccount
     \/ version = 1 /\ creator \in Account \cup {NoAccount}
  /\ stored = {} /\ used = {} /\ calls = 0
  /\ agent = [a \in Agent |-> NoCall] /\ tab = [t \in Tab |-> NoEdit]
  /\ added = {} /\ removed = {} /\ astray = {} /\ clobbered = {}

-----------------------------------------------------------------------------
(* The handlers of the server                                              *)

\* PUT manifest-sync; base is the If-Match version, or -1 without one.
Accepted(base) == base = -1 \/ version = base

\* Mutant: the creator is taken from whoever synchronises.
syncAsCreator(m, user) ==
  /\ row' = m /\ version' = version + 1
  /\ creator' = IF user = NoAccount THEN creator ELSE user
  /\ UNCHANGED <<stored, astray>>

syncCollabManifest(m, user) ==
  /\ row' = m /\ version' = version + 1
  /\ creator' = IF creator = NoAccount THEN user ELSE creator
  /\ UNCHANGED <<stored, astray>>

\* getCollabS3Jwt: the creator's space, but that of the session when there is
\* no creator, when the creator has no API key or when looking it up throws.
Spaces(user) == {creator, user} \ {NoAccount}

upload(f, user) ==
  \E s \in Spaces(user) :
    /\ stored' = stored \cup {<<f, s>>}
    /\ astray' = IF s = creator THEN astray ELSE astray \cup {f}
    /\ UNCHANGED <<row, version, creator>>

\* DELETE file/:fileId, "cleanup after manifest removal": whether the entry was
\* removed is left to the client.
deleteFile(f, user) ==
  /\ \E s \in Spaces(user) : <<f, s>> \in stored /\ stored' = stored \ {<<f, s>>}
  /\ astray' = IF f \in row.tombs THEN astray ELSE astray \cup {f}
  /\ UNCHANGED <<row, version, creator, used, agent, tab, calls, told, clobbered>>

-----------------------------------------------------------------------------
(* The tools of the agents                                                 *)

\* Mutant: the files of both sides are kept, tombstones or not.
mergeFiles(self, other) == [tombs |-> self.tombs \cup other.tombs, files |-> self.files \cup other.files]

mergeWith(self, other) ==
  LET tombs == self.tombs \cup other.tombs
  IN [tombs |-> tombs, files |-> (self.files \cup other.files) \ tombs]

Local(c) ==
  IF c.op = "add" THEN [c.base EXCEPT !.files = @ \cup {c.id}]
                  ELSE [files |-> c.base.files \ {c.id}, tombs |-> c.base.tombs \cup {c.id}]
MergedWith(a) == mergeWith(agent[a].remote, Local(agent[a]))

Goto(a, pc) == agent' = [agent EXCEPT ![a].pc = pc]
End(a) == agent' = [agent EXCEPT ![a] = NoCall]

\* fetchBase: one GET before anything else. A store uploads its blob first.
fetchBase(a, op, id) ==
  /\ agent[a].pc = "idle" /\ version > 0 /\ calls < MaxCalls
  /\ IF op = "add" THEN id \notin used ELSE id \in row.files \cup row.tombs
  /\ agent' = [agent EXCEPT ![a] = [pc |-> IF op = "add" /\ id \in File THEN "upload" ELSE "put", op |-> op, id |-> id,
                                    base |-> row, remote |-> row, ver |-> version, attempt |-> 0]]
  /\ used' = used \cup {id} /\ calls' = calls + 1
  /\ UNCHANGED <<server, tab, told, clobbered>>

Upload(a) ==
  /\ agent[a].pc = "upload"
  /\ upload(agent[a].id, NoAccount)
  /\ Goto(a, "put")
  /\ UNCHANGED <<used, tab, calls, told, clobbered>>

\* The upload failed or its reply was lost: the tool call ends with an error.
UploadFails(a) ==
  /\ agent[a].pc = "upload"
  /\ End(a)
  /\ \/ UNCHANGED server
     \/ upload(agent[a].id, NoAccount)
  /\ UNCHANGED <<used, tab, calls, told, clobbered>>

Sending(a) == agent[a].pc \in {"put", "refreshed"}

Tell(a) ==
  /\ added' = IF agent[a].op = "add" THEN added \cup {agent[a].id} ELSE added
  /\ removed' = IF agent[a].op = "remove" THEN removed \cup {agent[a].id} ELSE removed

\* Mutant: the PUT has no If-Match.
PutBlind(a) ==
  /\ Sending(a)
  /\ syncCollabManifest(MergedWith(a), NoAccount)
  /\ End(a) /\ Tell(a)
  /\ UNCHANGED <<used, tab, calls, clobbered>>

\* putManifest, with the version of the last GET in If-Match.
Put(a) ==
  /\ Sending(a) /\ Accepted(agent[a].ver)
  /\ syncCollabManifest(MergedWith(a), NoAccount)
  /\ End(a) /\ Tell(a)
  /\ UNCHANGED <<used, tab, calls, clobbered>>

\* Mutant: the same PUT is sent again after a conflict.
ConflictResent(a) ==
  /\ Sending(a) /\ ~Accepted(agent[a].ver)
  /\ Goto(a, "put")
  /\ UNCHANGED <<server, used, tab, calls, told, clobbered>>

\* 409: another GET, as long as attempts are left, else the call fails.
Conflict(a) ==
  /\ Sending(a) /\ ~Accepted(agent[a].ver)
  /\ IF agent[a].attempt < MaxRetries THEN Goto(a, "refetch") ELSE End(a)
  /\ UNCHANGED <<server, used, tab, calls, told, clobbered>>

\* withCollabWriteRetry: 401 or 403, and the token was refreshed; only once.
AuthRefreshed(a) ==
  /\ agent[a].pc = "put"
  /\ Goto(a, "refreshed")
  /\ UNCHANGED <<server, used, tab, calls, told, clobbered>>

\* Refused for good, not reached, or the reply lost: the call fails.
PutFails(a) ==
  /\ Sending(a)
  /\ End(a)
  /\ \/ UNCHANGED server
     \/ Accepted(agent[a].ver) /\ syncCollabManifest(MergedWith(a), NoAccount)
  /\ UNCHANGED <<used, tab, calls, told, clobbered>>

Refetch(a) ==
  /\ agent[a].pc = "refetch"
  /\ agent' = [agent EXCEPT ![a].pc = "put", ![a].remote = row, ![a].ver = version, ![a].attempt = @ + 1]
  /\ UNCHANGED <<server, used, tab, calls, told, clobbered>>

RefetchFails(a) ==
  /\ agent[a].pc = "refetch"
  /\ End(a)
  /\ UNCHANGED <<server, used, tab, calls, told, clobbered>>

-----------------------------------------------------------------------------
(* The browser tabs                                                        *)

TabGoto(t, pc) == tab' = [tab EXCEPT ![t].pc = pc]

\* loadManifest: the synchronised manifest, or the one the link was made with
\* when there is none or the GET fails.
Load(t) ==
  /\ tab[t].pc \in {"closed", "reload"}
  /\ \E m \in {Empty} \cup (IF version > 0 THEN {row} ELSE {}) :
       tab' = [tab EXCEPT ![t].pc = "open", ![t].view = m]
  /\ UNCHANGED <<server, used, agent, calls, told, clobbered>>

\* An upload or a new folder, on top of the manifest the page shows, which is
\* the old one until it has been loaded again.
Begin(t, id) ==
  /\ tab[t].pc \in {"open", "reload"} /\ id \notin used /\ calls < MaxCalls
  /\ tab' = [tab EXCEPT ![t].pc = IF id \in File THEN "upload" ELSE "manifest", ![t].id = id]
  /\ used' = used \cup {id} /\ calls' = calls + 1
  /\ UNCHANGED <<server, agent, told, clobbered>>

TabUpload(t) ==
  /\ tab[t].pc = "upload"
  /\ upload(tab[t].id, UserOf[t])
  /\ TabGoto(t, "manifest")
  /\ UNCHANGED <<used, agent, calls, told, clobbered>>

\* PUT manifest, a separate copy in S3, and then the synchronisation.
PutManifest(t) ==
  /\ tab[t].pc = "manifest"
  /\ TabGoto(t, "sync")
  /\ UNCHANGED <<server, used, agent, calls, told, clobbered>>

\* An upload or the PUT of the copy fails: nothing is synchronised.
TabFails(t) ==
  /\ tab[t].pc \in {"upload", "manifest"}
  /\ TabGoto(t, "open")
  /\ \/ UNCHANGED server
     \/ tab[t].pc = "upload" /\ upload(tab[t].id, UserOf[t])
  /\ UNCHANGED <<used, agent, calls, told, clobbered>>

Edited(t) == [tab[t].view EXCEPT !.files = @ \cup {tab[t].id}]

\* The synchronisation has no If-Match: it replaces whatever is there.
Sync(t) ==
  /\ tab[t].pc = "sync"
  /\ Accepted(-1) /\ syncCollabManifest(Edited(t), UserOf[t])
  /\ clobbered' = clobbered \cup (row.files \ Edited(t).files) \cup (row.tombs \ Edited(t).tombs)
  /\ TabGoto(t, "reload")
  /\ UNCHANGED <<used, agent, calls, told>>

\* A failure is logged only, and the page reloads as if it were stored.
SyncFails(t) ==
  /\ tab[t].pc = "sync"
  /\ TabGoto(t, "reload")
  /\ UNCHANGED <<server, used, agent, calls, told, clobbered>>

-----------------------------------------------------------------------------
ToolStep(a) ==
  \/ Upload(a) \/ UploadFails(a)
  \/ Put(a) \/ Conflict(a) \/ AuthRefreshed(a) \/ PutFails(a)
  \/ Refetch(a) \/ RefetchFails(a)

Tool(a) == (\E op \in {"add", "remove"}, id \in Entry : fetchBase(a, op, id)) \/ ToolStep(a)

Page(t) ==
  \/ Load(t) \/ \E id \in Entry : Begin(t, id)
  \/ TabUpload(t) \/ PutManifest(t) \/ TabFails(t) \/ Sync(t) \/ SyncFails(t)

Delete == \E f \in File, user \in Account \cup {NoAccount} : deleteFile(f, user)

ManifestNext == (\E a \in Agent : Tool(a)) \/ (\E t \in Tab : Page(t)) \/ Delete
ManifestSpec == ManifestInit /\ [][ManifestNext]_manifestVars

\* Every request of a running call is answered or fails.
FairSpec == ManifestSpec /\ \A a \in Agent : WF_manifestVars(ToolStep(a))

-----------------------------------------------------------------------------
(* Properties                                                              *)

\* Every variable holds what its column, call or page can hold.
ManifestTypeOK ==
  /\ row \in Manifest /\ version \in Nat /\ creator \in Account \cup {NoAccount}
  /\ stored \subseteq File \X Account /\ used \subseteq Entry /\ calls \in Nat
  /\ agent \in [Agent -> Call] /\ tab \in [Tab -> Edit]
  /\ added \subseteq Entry /\ removed \subseteq Entry
  /\ astray \subseteq File /\ clobbered \subseteq Entry

\* What an agent was told it added is listed or was removed, what it was told
\* it removed is not listed and stays removed, whatever other agents commit
\* in between; only a tab that wrote over it undoes either.
ToldIsSo ==
  /\ \A e \in added : e \in row.files \cup row.tombs \cup clobbered
  /\ \A e \in removed : e \in row.tombs \ row.files \/ e \in clobbered

\* No agent takes away what the others did, people at tabs included: an entry
\* leaves the list for a tombstone only and tombstones stay, unless a tab
\* writes over them.
NothingTaken == [][/\ row.files \ row'.files \subseteq row'.tombs \cup clobbered'
                   /\ row.tombs \subseteq row'.tombs \cup clobbered']_manifestVars

\* A listed file has its blob in the space reads look in first, the creator's,
\* whoever uploads, removes and synchronises: unless the upload went to the
\* session's space, a client deleted the blob of an entry that is not removed,
\* or a tab brought the entry back.
ListedIsReadable == \A f \in row.files \cap File : <<f, creator>> \in stored \/ f \in astray \cup clobbered

\* Every tool call ends, though others keep moving the version.
CallsEnd == \A a \in Agent : agent[a].pc # "idle" ~> agent[a].pc = "idle"
=============================================================================
