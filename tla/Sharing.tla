------------------------------- MODULE Sharing -------------------------------
(***************************************************************************)
(* Share links: the page a link opens (pages/View.tsx, sharingService.ts), *)
(* the manifest of a shared folder that the web UI server keeps for it and *)
(* the proxy that fetches what is shared (app.ts). The sharer's app is not *)
(* part of the repository: it stores a manifest when it makes a link, and  *)
(* again as the folder changes, in either of two formats.                  *)
(*                                                                         *)
(* One share, whose links expire together. A tab opens one link. A         *)
(* manifest is a number, in the order they were stored; 0 is none. What is *)
(* shared is fetched by the browser's fula client, or from the gateway by  *)
(* its CID, as one block: what comes of it is content or an error.         *)
(***************************************************************************)
EXTENDS Integers

CONSTANTS
  Tab,
  MaxManifests \* bound: manifests that are stored

ASSUME SharingAssumption == MaxManifests \in Nat

VARIABLES
  manifest,  \* the row of share_manifests
  expired,   \* the date on the links has passed
  view,      \* what each tab shows
  edits,     \* manifests stored so far
  latest     \* history: the last one the sharer stored that counts: encrypted once there was one

hvars == <<manifest, expired, view, edits, latest>>

Fragment == 0 \* no manifest: what the link carries
Link == [folder : BOOLEAN, v : {1, 2}, password : BOOLEAN, sk : BOOLEAN]
NewView == [pc |-> "new", folder |-> FALSE, v |-> 2, files |-> 0, since |-> 0]

HInit ==
  /\ manifest = [stored |-> FALSE, encrypted |-> 0, plain |-> 0, dated |-> FALSE]
  /\ expired = FALSE /\ view = [t \in Tab |-> NewView] /\ edits = 0 /\ latest = 0

Newest == IF manifest.encrypted # 0 THEN manifest.encrypted ELSE manifest.plain

\* Mutant: the row of an encrypted manifest is kept when another is stored.
PutOnce(dated) ==
  /\ edits < MaxManifests /\ edits' = edits + 1
  /\ manifest' = IF manifest.encrypted # 0 THEN manifest
                 ELSE [stored |-> TRUE, encrypted |-> edits + 1, plain |-> 0, dated |-> dated]
  /\ latest' = edits + 1
  /\ UNCHANGED <<expired, view>>

\* An encrypted manifest replaces the row, its plaintext and its date.
PutEncrypted(dated) ==
  /\ edits < MaxManifests /\ edits' = edits + 1
  /\ manifest' = [stored |-> TRUE, encrypted |-> edits + 1, plain |-> 0, dated |-> dated]
  /\ latest' = edits + 1
  /\ UNCHANGED <<expired, view>>

\* A plaintext one leaves an encrypted manifest, and the date of the row, as they were.
PutPlain(dated) ==
  /\ edits < MaxManifests /\ edits' = edits + 1
  /\ manifest' = [manifest EXCEPT !.stored = TRUE, !.plain = edits + 1, !.dated = IF manifest.stored THEN @ ELSE dated]
  /\ latest' = IF manifest.encrypted = 0 THEN edits + 1 ELSE latest
  /\ UNCHANGED <<expired, view>>

LinksExpire == ~expired /\ expired' = TRUE /\ UNCHANGED <<manifest, view, edits, latest>>

Show(t, pc) == view' = [view EXCEPT ![t].pc = pc] /\ UNCHANGED <<manifest, expired, edits, latest>>
At2(t, pc) == view[t].pc = pc

\* parseUrl: a link with a password waits for it, one without its key is invalid.
OpenLink(t, l) ==
  /\ At2(t, "new")
  /\ view' = [view EXCEPT ![t] =
       [NewView EXCEPT !.pc = IF l.password THEN "password" ELSE IF l.sk THEN "parsed" ELSE "error",
                       !.folder = l.folder /\ l.v = 2, !.v = l.v, !.since = latest]]
  /\ UNCHANGED <<manifest, expired, edits, latest>>

Unlock(t, right) == IF right THEN Show(t, "parsed") ELSE UNCHANGED hvars
SubmitPassword(t, right) == At2(t, "password") /\ Unlock(t, right)

\* processSharePayload, processSharePayloadV2: the date of the link comes first.
ProcessPayload(t) ==
  /\ At2(t, "parsed")
  /\ Show(t, IF expired THEN "error" ELSE IF view[t].folder THEN "manifest" ELSE "content")

Offer(t, files) ==
  /\ view' = [view EXCEPT ![t].pc = "folder", ![t].files = files]
  /\ UNCHANGED <<manifest, expired, edits, latest>>

\* GET /api/share/v2/manifest: the encrypted manifest when there is one, unless the row's date has passed.
FetchManifest(t) ==
  /\ At2(t, "manifest")
  /\ manifest.stored /\ ~(manifest.dated /\ expired)
  /\ Offer(t, Newest)

\* Without an answer the page offers the files that the link itself carries, if it does.
UseFragment(t) == At2(t, "manifest") /\ (~manifest.stored \/ (manifest.dated /\ expired)) /\ (Offer(t, Fragment) \/ Show(t, "error"))
ManifestFails(t) == At2(t, "manifest") /\ (Offer(t, Fragment) \/ Show(t, "error"))

\* A file of the folder, or the file that is shared.
FetchSharedContent(t) == (At2(t, "content") \/ At2(t, "folder")) /\ Show(t, "reading")

\* The first format is one block from the gateway, decrypted on the page; the second is
\* accepted with its token, fetched through the proxy and decrypted inside the client.
GetShareContent(t) == At2(t, "reading") /\ view[t].v = 1 /\ Show(t, "read")
GetShareObject(t) == At2(t, "reading") /\ view[t].v = 2 /\ Show(t, "read")
ContentFails(t) == At2(t, "reading") /\ Show(t, "failed")

\* The content is on the page, or offered for download, or the page says it failed; a folder goes on.
ShowContent(t) ==
  /\ At2(t, "read") \/ At2(t, "failed")
  /\ view' = [view EXCEPT ![t] = IF @.folder THEN [@ EXCEPT !.pc = "folder"] ELSE [NewView EXCEPT !.pc = "shown"]]
  /\ UNCHANGED <<manifest, expired, edits, latest>>

Sharer == \E dated \in BOOLEAN : PutEncrypted(dated) \/ PutPlain(dated)

ShareStep ==
  \/ LinksExpire
  \/ \E t \in Tab :
       \/ SubmitPassword(t, TRUE) \/ SubmitPassword(t, FALSE) \/ ProcessPayload(t) \/ FetchManifest(t) \/ UseFragment(t)
       \/ FetchSharedContent(t) \/ GetShareContent(t) \/ GetShareObject(t) \/ ShowContent(t)

ShareFault == \E t \in Tab : ManifestFails(t) \/ ContentFails(t)

-----------------------------------------------------------------------------
(* Properties                                                              *)

HTypeOK == manifest.encrypted \in 0..MaxManifests /\ manifest.plain \in 0..MaxManifests /\ edits \in 0..MaxManifests

\* A folder that a visitor is shown is at least as new as the manifest that stood when the
\* link was opened, in the format the server prefers, or is the one the link itself carries;
\* and no plaintext that an encrypted manifest replaced is left beside it
\* (PUT and GET /api/share/v2/manifest).
FolderIsCurrent ==
  /\ \A t \in Tab : At2(t, "folder") /\ view[t].files # Fragment => view[t].files >= view[t].since
  /\ manifest.encrypted # 0 /\ manifest.plain # 0 => manifest.plain > manifest.encrypted
=============================================================================
