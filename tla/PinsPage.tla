------------------------------ MODULE PinsPage ------------------------------
(***************************************************************************)
(* The page of a signed-in user's pins and files (pages/Pins.tsx), with    *)
(* the web UI's endpoints it calls (app.ts) and the key it keeps in the    *)
(* browser (secureStorage.ts). Answers come back in any order.             *)
(*                                                                         *)
(* The pinning service behind the endpoints is PinService; here it adds    *)
(* and removes rows. Names, sizes, sorting within a page and a search text *)
(* are data; a timed-out download only stops its spinner.                  *)
(***************************************************************************)
EXTENDS FileStore

CONSTANTS
  Call,      \* what the user has clicked, at most one of each at a time
  MaxPins,   \* bound: pins ever made
  PageSize,
  Page,      \* pages of the list
  None

ASSUME PageAssumption == MaxPins \in Nat \ {0} /\ PageSize \in Nat \ {0} /\ 1 \in Page /\ None \notin Bucket \cup File

VARIABLES
  pins,     \* rows of the pinning service
  made,     \* how many it ever had
  fetches,  \* requests of the list on their way, by the page they are for
  list,     \* what the page shows: number, rows and the selection
  fx,       \* the bucket that is open and its files, the preview
  keyring,  \* the key in IndexedDB: "none", "fresh" or "expired"
  user,     \* "in", "out", or "leaving" while a logout is under way
  ready,    \* encryptionKeyReady
  call

pvars == <<pins, made, fetches, list, fx, keyring, user, ready, call>>

Pin == 1..MaxPins
Fetch == [page : Page, rows : {None} \cup {<<s>> : s \in SUBSET Pin}]
NewCall == [pc |-> "new", page |-> 1, todo |-> {}, failed |-> {}, b |-> None, rows |-> {}, read |-> None, tries |-> <<>>]

PInit ==
  /\ made = MaxPins - 1 /\ pins = 1..made
  /\ fetches = {} /\ list = [page |-> 1, rows |-> {}, selected |-> {}]
  /\ fx = [bucket |-> None, files |-> {}, preview |-> None]
  /\ keyring \in {"none", "fresh"} /\ ready = (keyring = "fresh")
  /\ user = "in"
  /\ call = [i \in Call |-> NewCall]

Free(i) == call[i].pc = "new" /\ user = "in"
Begin(i, r) == call' = [call EXCEPT ![i] = r]
Go(i, pc) == call' = [call EXCEPT ![i].pc = pc]
Ended == [NewCall EXCEPT !.pc = "ended"]
End(i) == call' = [call EXCEPT ![i] = Ended]
At(i, pc) == call[i].pc = pc

-----------------------------------------------------------------------------
(* The list of pins                                                        *)

\* getUserPins: newest first.
Rows(n) == {p \in pins : Cardinality({q \in pins : q > p}) \in (n - 1) * PageSize..n * PageSize - 1}

\* fetchPins asks for the page of the render that called it.
FetchPins(n) == fetches' = fetches \cup {[page |-> n, rows |-> None]}

AnswerPins(f) ==
  /\ f.rows = None
  /\ fetches' = (fetches \ {f}) \cup {[page |-> f.page, rows |-> <<Rows(f.page)>>]}
  /\ UNCHANGED <<svars, pins, made, list, fx, keyring, user, ready, call>>

ShowPins(f) ==
  /\ f.rows # None
  /\ fetches' = fetches \ {f} /\ list' = [list EXCEPT !.rows = f.rows[1]]
  /\ UNCHANGED <<svars, pins, made, fx, keyring, user, ready, call>>

LosePins(f) ==
  /\ fetches' = fetches \ {f}
  /\ UNCHANGED <<svars, pins, made, list, fx, keyring, user, ready, call>>

\* The tab, a page and a search all end in an effect that fetches.
OpenPage(i, n) ==
  /\ Free(i) /\ End(i) /\ list' = [list EXCEPT !.page = n] /\ FetchPins(n)
  /\ UNCHANGED <<svars, pins, made, fx, keyring, user, ready>>

\* handleSearch fetches at once, for the page that was open, and the effect for page 1.
Search(i) ==
  /\ Free(i) /\ End(i) /\ list' = [list EXCEPT !.page = 1]
  /\ fetches' = fetches \cup {[page |-> n, rows |-> None] : n \in {list.page, 1}}
  /\ UNCHANGED <<svars, pins, made, fx, keyring, user, ready>>

ToggleSelectPin(p) ==
  /\ user = "in" /\ p \in list.rows
  /\ list' = [list EXCEPT !.selected = IF p \in @ THEN @ \ {p} ELSE @ \cup {p}]
  /\ UNCHANGED <<svars, pins, made, fetches, fx, keyring, user, ready, call>>

\* Compares numbers only: a selection made on another page of the same size is cleared.
ToggleSelectAll ==
  /\ user = "in"
  /\ list' = [list EXCEPT !.selected = IF Cardinality(@) = Cardinality(list.rows) THEN {} ELSE list.rows]
  /\ UNCHANGED <<svars, pins, made, fetches, fx, keyring, user, ready, call>>

-----------------------------------------------------------------------------
(* Pins that are added and removed                                         *)

\* addPin and startImport encrypt the name first, or send it as it is.
StartImport(i) ==
  /\ Free(i) /\ Begin(i, [NewCall EXCEPT !.pc = "import", !.page = list.page])
  /\ UNCHANGED <<svars, pins, made, fetches, list, fx, keyring, user, ready>>

AddPin(i) ==
  /\ Free(i) /\ Begin(i, [NewCall EXCEPT !.pc = "add", !.page = list.page])
  /\ UNCHANGED <<svars, pins, made, fetches, list, fx, keyring, user, ready>>

PostPin(i) ==
  /\ At(i, "add") /\ made < MaxPins
  /\ made' = made + 1 /\ pins' = pins \cup {made + 1} /\ Go(i, "added")
  /\ UNCHANGED <<svars, fetches, list, fx, keyring, user, ready>>

ImportDag(i) ==
  /\ At(i, "import") /\ made < MaxPins
  /\ made' = made + 1 /\ pins' = pins \cup {made + 1} /\ Go(i, "imported")
  /\ UNCHANGED <<svars, fetches, list, fx, keyring, user, ready>>

PinAdded(i) ==
  /\ At(i, "added") \/ At(i, "imported")
  /\ list' = [list EXCEPT !.page = 1] /\ End(i)
  /\ fetches' = fetches \cup {[page |-> n, rows |-> None] : n \in {call[i].page, 1}}
  /\ UNCHANGED <<svars, pins, made, fx, keyring, user, ready>>

UnpinSelected(i) ==
  /\ Free(i) /\ list.selected # {}
  /\ Begin(i, [NewCall EXCEPT !.pc = "unpin", !.page = list.page, !.todo = list.selected, !.rows = list.selected])
  /\ UNCHANGED <<svars, pins, made, fetches, list, fx, keyring, user, ready>>

\* Mutant: the first id that fails ends the loop, and the rest count as done.
StopAtFailure(i, p, ok) ==
  /\ At(i, "unpin") /\ p \in call[i].todo
  /\ pins' = IF ok THEN pins \ {p} ELSE pins
  /\ call' = [call EXCEPT ![i].todo = IF ok THEN @ \ {p} ELSE {}, ![i].failed = IF ok THEN @ ELSE @ \cup {p}]
  /\ UNCHANGED <<svars, made, fetches, list, fx, keyring, user, ready>>

\* POST /api/pins/bulk-unpin deletes one id after the other; an id that fails is reported.
UnpinOne(i, p, ok) ==
  /\ At(i, "unpin") /\ p \in call[i].todo
  /\ pins' = IF ok THEN pins \ {p} ELSE pins
  /\ call' = [call EXCEPT ![i].todo = @ \ {p}, ![i].failed = IF ok THEN @ ELSE @ \cup {p}]
  /\ UNCHANGED <<svars, made, fetches, list, fx, keyring, user, ready>>

UnpinAnswered(i) ==
  /\ At(i, "unpin") /\ call[i].todo = {} /\ Go(i, "unpinned")
  /\ UNCHANGED <<svars, pins, made, fetches, list, fx, keyring, user, ready>>

\* The page clears the selection whatever the results say.
PinsUnpinned(i) ==
  /\ At(i, "unpinned") /\ End(i) /\ list' = [list EXCEPT !.selected = {}] /\ FetchPins(call[i].page)
  /\ UNCHANGED <<svars, pins, made, fx, keyring, user, ready>>

RefreshPin(i) ==
  /\ Free(i) /\ \E p \in list.rows : Begin(i, [NewCall EXCEPT !.pc = "refresh", !.page = list.page, !.todo = {p}])
  /\ UNCHANGED <<svars, pins, made, fetches, list, fx, keyring, user, ready>>

PinRefreshed(i) ==
  /\ At(i, "refresh") /\ End(i)
  /\ IF call[i].todo \subseteq pins THEN FetchPins(call[i].page) ELSE UNCHANGED fetches
  /\ UNCHANGED <<svars, pins, made, list, fx, keyring, user, ready>>

FetchPinNodes(i) ==
  /\ Free(i) /\ list.rows # {} /\ End(i)
  /\ UNCHANGED <<svars, pins, made, fetches, list, fx, keyring, user, ready>>

-----------------------------------------------------------------------------
(* Files: buckets, directories, downloads and previews                     *)

FetchFxBuckets(i) ==
  /\ Free(i) /\ Begin(i, [NewCall EXCEPT !.pc = "browsed"])
  /\ UNCHANGED <<svars, pins, made, fetches, list, fx, keyring, user, ready>>

Navigate(i, b) ==
  /\ Free(i) /\ Begin(i, [NewCall EXCEPT !.pc = "browse", !.b = b])
  /\ UNCHANGED <<svars, pins, made, fetches, list, fx, keyring, user, ready>>

\* The forest walk, or the raw listing when it throws.
ListFiles(i) ==
  /\ At(i, "browse")
  /\ LET b == call[i].b
         entries == IF b \in orphaned THEN ListDecryptedFiles(b) ELSE ListDirectoryFiles(b)
     IN call' = [call EXCEPT ![i].pc = "browsed", ![i].rows = Listed(entries)]
  /\ UNCHANGED <<svars, pins, made, fetches, list, fx, keyring, user, ready>>

ShowFiles(i) ==
  /\ At(i, "browsed") /\ End(i)
  /\ fx' = [fx EXCEPT !.bucket = call[i].b, !.files = call[i].rows]
  /\ UNCHANGED <<svars, pins, made, fetches, list, keyring, user, ready>>

OpenFile(i, f) ==
  /\ Free(i) /\ fx.bucket # None /\ f \in fx.files
  /\ Begin(i, [NewCall EXCEPT !.pc = "read", !.read = StartRead(fx.bucket, f)])
  /\ UNCHANGED <<svars, pins, made, fetches, list, fx, keyring, user, ready>>

ReadStep(i) ==
  /\ At(i, "read") /\ Reading(call[i].read)
  /\ call' = [call EXCEPT ![i].read = DecryptFxFile(@)]
  /\ UNCHANGED <<svars, pins, made, fetches, list, fx, keyring, user, ready>>

ReadFails(i) ==
  /\ At(i, "read") /\ Reading(call[i].read)
  /\ call' = [call EXCEPT ![i].read = Failed(@)]
  /\ UNCHANGED <<svars, pins, made, fetches, list, fx, keyring, user, ready>>

DownloadFxFile(i) ==
  /\ At(i, "read") /\ ~Reading(call[i].read) /\ End(i)
  /\ UNCHANGED <<svars, pins, made, fetches, list, fx, keyring, user, ready>>

PreviewFxFile(i) ==
  /\ At(i, "read") /\ call[i].read.state = "done" /\ End(i)
  /\ fx' = [fx EXCEPT !.preview = call[i].read]
  /\ UNCHANGED <<svars, pins, made, fetches, list, keyring, user, ready>>

CloseFxPreview ==
  /\ fx.preview # None /\ fx' = [fx EXCEPT !.preview = None]
  /\ UNCHANGED <<svars, pins, made, fetches, list, keyring, user, ready, call>>

\* The list of shares and the playlists are single encrypted objects, which the server
\* passes on; one that cannot be read is left out.
SingleObjects == {f \in File : Shape[f] = "block"}

FetchPlaylists(i, f) ==
  /\ Free(i) /\ f \in SingleObjects /\ Begin(i, [NewCall EXCEPT !.pc = "read", !.read = StartRead(Home[f], f)])
  /\ UNCHANGED <<svars, pins, made, fetches, list, fx, keyring, user, ready>>

-----------------------------------------------------------------------------
(* A pin that is downloaded by its CID, and the key                        *)

\* Without a key at hand the page asks to set it up first.
DownloadDecrypted(i, f) ==
  /\ Free(i)
  /\ Begin(i, IF ready THEN [NewCall EXCEPT !.pc = "search", !.tries = SetToSeq(Bucket), !.b = f]
              ELSE [NewCall EXCEPT !.pc = "setup", !.b = f])
  /\ UNCHANGED <<svars, pins, made, fetches, list, fx, keyring, user, ready>>

\* fetchAndDecryptByCid tries bucket after bucket; any error sends it to the next, and
\* what the first of them gives is saved as it is.
TryBucket(i) ==
  /\ At(i, "search") /\ call[i].tries # <<>>
  /\ LET r == FetchRaw(StartRead(Head(call[i].tries), call[i].b)) IN
     IF r.state = "failed" THEN call' = [call EXCEPT ![i].tries = Tail(@)]
     ELSE call' = [call EXCEPT ![i].pc = "saved", ![i].read = r]
  /\ UNCHANGED <<svars, pins, made, fetches, list, fx, keyring, user, ready>>

DownloadSaved(i) ==
  /\ At(i, "saved") /\ End(i)
  /\ UNCHANGED <<svars, pins, made, fetches, list, fx, keyring, user, ready>>

BucketFails(i) ==
  /\ At(i, "search") /\ call[i].tries # <<>>
  /\ call' = [call EXCEPT ![i].tries = Tail(@)]
  /\ UNCHANGED <<svars, pins, made, fetches, list, fx, keyring, user, ready>>

NotInAnyBucket(i) ==
  /\ At(i, "search") /\ call[i].tries = <<>> /\ End(i)
  /\ UNCHANGED <<svars, pins, made, fetches, list, fx, keyring, user, ready>>

PutKey == keyring' = "fresh"

\* setupEncryptionKey: the key is derived, stored, and the download goes on with it.
StoreKey(i) ==
  /\ At(i, "setup") /\ PutKey /\ ready' = TRUE /\ Go(i, "fetch")
  /\ UNCHANGED <<svars, pins, made, fetches, list, fx, user>>

\* downloadDecryptedWithKey asks the public gateway, not the store: what a CID names never
\* changes, and it is one block that decrypts and is saved, or an error on the page.
DownloadDecryptedWithKey(i) ==
  /\ At(i, "fetch") /\ End(i)
  /\ UNCHANGED <<svars, pins, made, fetches, list, fx, keyring, user, ready>>

\* hasValidKey, when the page opens.
CheckKey(i) ==
  /\ Free(i) /\ ready # (keyring = "fresh") /\ ready' = (keyring = "fresh") /\ End(i)
  /\ UNCHANGED <<svars, pins, made, fetches, list, fx, keyring, user>>

\* fetchSharedByMe: retrieveEncryptionKey reads the row, decrypts it, and writes it back with
\* a new date; the list of shares is read with it.
RetrieveKey(i, f) ==
  /\ Free(i) /\ f \in SingleObjects
  /\ keyring' = IF keyring = "expired" THEN "none" ELSE keyring
  /\ IF keyring = "fresh" THEN Begin(i, [NewCall EXCEPT !.pc = "retrieved", !.b = f]) ELSE End(i)
  /\ UNCHANGED <<svars, pins, made, fetches, list, fx, user, ready>>

TouchKey(i) ==
  /\ At(i, "retrieved") /\ keyring' = "fresh"
  /\ Begin(i, [NewCall EXCEPT !.pc = "read", !.read = StartRead(Home[call[i].b], call[i].b)])
  /\ UNCHANGED <<svars, pins, made, fetches, list, fx, user, ready>>

KeyExpires ==
  /\ keyring = "fresh" /\ keyring' = "expired"
  /\ UNCHANGED <<svars, pins, made, fetches, list, fx, user, ready, call>>

Logout(i) ==
  /\ Free(i) /\ End(i) /\ user' = "leaving"
  /\ UNCHANGED <<svars, pins, made, fetches, list, fx, keyring, ready>>

\* Requests that are under way go on, and so do their writes of the key.
ClearAllKeys ==
  /\ user = "leaving" /\ user' = "out" /\ keyring' = "none"
  /\ UNCHANGED <<svars, pins, made, fetches, list, fx, ready, call>>

\* The endpoint answers with an error, or not at all.
CallFails(i) ==
  /\ call[i].pc \in {"add", "import", "unpinned", "refresh", "browse", "setup"} /\ End(i)
  /\ UNCHANGED <<svars, pins, made, fetches, list, fx, keyring, user, ready>>

ClickPins(i) ==
  \/ \E n \in Page : OpenPage(i, n)
  \/ Search(i) \/ AddPin(i) \/ StartImport(i) \/ UnpinSelected(i) \/ RefreshPin(i) \/ FetchPinNodes(i)

ClickFiles(i) ==
  \/ FetchFxBuckets(i) \/ CheckKey(i) \/ Logout(i)
  \/ \E b \in Bucket : Navigate(i, b)
  \/ \E f \in File : OpenFile(i, f) \/ FetchPlaylists(i, f) \/ DownloadDecrypted(i, f) \/ RetrieveKey(i, f)

PageStep ==
  \/ \E f \in fetches : AnswerPins(f) \/ ShowPins(f)
  \/ \E p \in Pin : ToggleSelectPin(p)
  \/ ToggleSelectAll \/ CloseFxPreview \/ ClearAllKeys \/ KeyExpires
  \/ \E i \in Call :
       \/ PostPin(i) \/ ImportDag(i) \/ PinAdded(i) \/ UnpinAnswered(i) \/ PinsUnpinned(i) \/ PinRefreshed(i)
       \/ \E p \in Pin : UnpinOne(i, p, p \in pins)
       \/ ListFiles(i) \/ ShowFiles(i) \/ ReadStep(i) \/ DownloadFxFile(i) \/ PreviewFxFile(i)
       \/ TryBucket(i) \/ NotInAnyBucket(i) \/ DownloadSaved(i) \/ StoreKey(i) \/ DownloadDecryptedWithKey(i) \/ TouchKey(i)

PageFault ==
  \/ \E f \in fetches : LosePins(f)
  \/ \E i \in Call : ReadFails(i) \/ BucketFails(i) \/ CallFails(i) \/ \E p \in Pin : UnpinOne(i, p, FALSE)

-----------------------------------------------------------------------------
(* Properties                                                              *)

PTypeOK ==
  /\ pins \subseteq Pin /\ made \in 0..MaxPins /\ fetches \subseteq Fetch
  /\ list.page \in Page /\ list.rows \subseteq Pin /\ list.selected \subseteq Pin
  /\ fx.bucket \in Bucket \cup {None} /\ fx.files \subseteq File
  /\ keyring \in {"none", "fresh", "expired"} /\ user \in {"in", "leaving", "out"} /\ ready \in BOOLEAN

\* When a removal of the selected pins is answered, every one of them is gone or was
\* reported as failed (POST /api/pins/bulk-unpin).
UnpinnedOrReported == \A i \in Call : At(i, "unpinned") => call[i].rows \cap pins \subseteq call[i].failed

\* What a download by CID saves is the file and not the envelope it is stored in, as the
\* comment of fetchAndDecryptByCid has it: "Object containing decrypted data". Does not hold.
DownloadIsFile == \A i \in Call : At(i, "saved") => Whole(call[i].read)

\* Not checked, since it does not hold: a key that a request under way is about to touch
\* or to store is written after the logout has cleared the keys.
KeyGone == user = "out" => keyring = "none"
=============================================================================
