----------------------------- MODULE FileStore -----------------------------
(***************************************************************************)
(* Files of one user as the FxFiles app stores them encrypted, and how the *)
(* browser lists and reads them: fulaClientService.ts, encryptionService.ts *)
(* and the skip rules of fxFilesBulkDownload.ts and Pins.tsx.              *)
(*                                                                         *)
(* A file is one object under its storage key, its bytes as they are or in *)
(* an envelope, or an envelope and chunks that are objects of their own.   *)
(* The app that writes them, the store and the fula client are not part of *)
(* the repository: a new version replaces the objects of the old one in    *)
(* any order, and the client returns what is stored. Bytes are the version *)
(* they belong to.                                                         *)
(***************************************************************************)
EXTENDS Integers, Sequences, FiniteSets, SequencesExt

CONSTANTS
  File,
  Bucket,
  Home,        \* the bucket of a file
  Shape,       \* how a file is stored: "chunked" or "block" in an envelope, or "plain"
  Unresolved,  \* files whose metadata the raw listing cannot decrypt
  Chunks,      \* chunkCount of a chunked file
  MaxVersion   \* bound: versions of a file

ASSUME StoreAssumption ==
  /\ Home \in [File -> Bucket] /\ Shape \in [File -> {"chunked", "block", "plain"}]
  /\ IsFiniteSet(File) /\ IsFiniteSet(Bucket) /\ File \cap Bucket = {}
  /\ Unresolved \subseteq File /\ Chunks \in Nat \ {0} /\ MaxVersion \in Nat \ {0}

VARIABLES
  object,   \* the version each object of a file is of, 0 when there is none; 0 is the envelope
  version,  \* the version of each file that is stored, or on its way
  upload,   \* the objects of it that are on their way
  orphaned  \* buckets whose forest has lost a node

svars == <<object, version, upload, orphaned>>

Objects(f) == IF Shape[f] = "chunked" THEN 0..Chunks ELSE {0}

SInit ==
  /\ object = [f \in File |-> [o \in 0..Chunks |-> IF o \in Objects(f) THEN 1 ELSE 0]]
  /\ version = [f \in File |-> 1]
  /\ upload = [f \in File |-> {}]
  /\ orphaned = {}

-----------------------------------------------------------------------------
(* The app that stores the files                                           *)

Upload(f) ==
  /\ upload[f] = {} /\ version[f] < MaxVersion
  /\ version' = [version EXCEPT ![f] = @ + 1]
  /\ upload' = [upload EXCEPT ![f] = Objects(f)]
  /\ UNCHANGED <<object, orphaned>>

PutObject(f, o) ==
  /\ o \in upload[f]
  /\ object' = [object EXCEPT ![f][o] = version[f]]
  /\ upload' = [upload EXCEPT ![f] = @ \ {o}]
  /\ UNCHANGED <<version, orphaned>>

\* A bucket that garbage collection took a forest node from.
Orphan(b) == orphaned' = orphaned \cup {b} /\ UNCHANGED <<object, version, upload>>

DeleteFile(f) ==
  /\ upload[f] = {} /\ object[f][0] # 0
  /\ object' = [object EXCEPT ![f] = [o \in 0..Chunks |-> 0]]
  /\ UNCHANGED <<version, upload, orphaned>>

-----------------------------------------------------------------------------
(* Listings                                                                *)

Entry(kind, f) == [kind |-> kind, file |-> f]
Stored(b) == {f \in File : Home[f] = b /\ object[f][0] # 0}

\* The forest walk yields files by their names; it fails on an orphaned bucket.
ListDirectoryFiles(b) == {Entry("file", f) : f \in Stored(b)}

\* The raw listing yields every object of the bucket: chunks, nodes of the forest,
\* and files under their storage key when the metadata does not decrypt.
ListDecryptedFiles(b) ==
  {Entry("file", f) : f \in Stored(b) \ Unresolved} \cup {Entry("internal", f) : f \in Stored(b) \cap Unresolved}
    \cup {Entry("chunk", f) : f \in {g \in Stored(b) : Shape[g] = "chunked"}}

\* What the page and the bulk download leave out of a listing.
ShouldSkip(e) == e.kind # "file"
Listed(entries) == {e.file : e \in {x \in entries : ~ShouldSkip(x)}}

-----------------------------------------------------------------------------
(* Reading a file: a record that the steps of the reader turn into others  *)

Read(state, b, f, v, got) == [state |-> state, bucket |-> b, file |-> f, version |-> v, got |-> got]
StartRead(b, f) == Read("envelope", b, f, 0, <<>>)
Failed(r) == Read("failed", r.bucket, r.file, 0, <<>>)
Whole(r) == r.got # <<>> /\ \A i, j \in DOMAIN r.got : r.got[i] = r.got[j]

\* Mutant: the tag travels with the chunk, so that any version of it decrypts.
ChunkAsStored(r, v) == v # 0

\* The tag of a chunk is in the envelope: a chunk of another version does not decrypt.
DecryptChunk(r, v) == v # 0 /\ v = r.version

FetchEnvelope(r) ==
  LET v == IF r.bucket = Home[r.file] THEN object[r.file][0] ELSE 0 IN
  IF v = 0 THEN Failed(r)
  ELSE IF Shape[r.file] = "chunked" THEN Read("chunks", r.bucket, r.file, v, <<>>)
  ELSE Read("done", r.bucket, r.file, v, <<v>>)

\* getDecryptedByStorageKey gives the object as it is stored: what is in an envelope is still in it.
FetchRaw(r) ==
  LET e == FetchEnvelope(r) IN
  IF e.state = "failed" \/ Shape[r.file] = "plain" THEN e ELSE Read("raw", r.bucket, r.file, e.version, <<>>)

FetchChunk(r) ==
  LET i == Len(r.got) + 1 v == object[r.file][i] IN
  IF ~DecryptChunk(r, v) THEN Failed(r)
  ELSE Read(IF i = Chunks THEN "done" ELSE "chunks", r.bucket, r.file, r.version, Append(r.got, v))

Reading(r) == r.state \in {"envelope", "chunks"}
DecryptFxFile(r) == IF r.state = "envelope" THEN FetchEnvelope(r) ELSE FetchChunk(r)

\* A read that is over either failed or has every part of one version.
ReadIsWhole(r) == r.state = "done" => Whole(r)

STypeOK ==
  /\ object \in [File -> [0..Chunks -> 0..MaxVersion]] /\ version \in [File -> 1..MaxVersion]
  /\ upload \in [File -> SUBSET (0..Chunks)] /\ orphaned \subseteq Bucket
=============================================================================
