---------------------------- MODULE Files_proofs ----------------------------
(***************************************************************************)
(* What Files guarantees for any number of files, chunks, visitors, pins   *)
(* and policies, whatever is written, lost and cancelled meanwhile.        *)
(***************************************************************************)
EXTENDS Files, FiniteSetTheorems, SequenceTheorems, FunctionTheorems, TLAPS

-----------------------------------------------------------------------------
(* The store and its readers                                               *)

Reads == [state : {"envelope", "chunks", "done", "failed", "raw"}, bucket : Bucket, file : File,
          version : 0..MaxVersion, got : Seq(0..MaxVersion)]

\* A read under way has chunks of its envelope's version; one that is over has all.
Parts(r) ==
  /\ r \in Reads
  /\ \A j \in 1..Len(r.got) : r.got[j] = r.version
  /\ r.state = "done" => r.got # <<>>

LEMMA ReadHas ==
  ASSUME NEW s \in {"envelope", "chunks", "done", "failed", "raw"}, NEW b \in Bucket, NEW f \in File, NEW v \in 0..MaxVersion,
         NEW g \in Seq(0..MaxVersion), \A j \in 1..Len(g) : g[j] = v, s = "done" => g # <<>>
  PROVE  Parts(Read(s, b, f, v, g)) /\ Read(s, b, f, v, g).file = f
BY DEF Read, Reads, Parts

LEMMA ReadBegins == ASSUME NEW b \in Bucket, NEW f \in File PROVE Parts(StartRead(b, f)) /\ StartRead(b, f).file = f
BY StoreAssumption DEF StartRead, Read, Reads, Parts

LEMMA ReadFailed == ASSUME NEW r, Parts(r) PROVE Parts(Failed(r)) /\ Failed(r).file = r.file /\ Failed(r).state = "failed"
BY StoreAssumption DEF Failed, Read, Reads, Parts

\* Each step of a read takes a part of the version that its envelope names, or fails.
LEMMA ReadGoes ==
  ASSUME STypeOK, NEW r, Parts(r), Reading(r)
  PROVE  Parts(DecryptFxFile(r)) /\ DecryptFxFile(r).file = r.file
<1>1. CASE r.state = "envelope"
  <2> DEFINE v == IF r.bucket = Home[r.file] THEN object[r.file][0] ELSE 0
  <2>1. v \in 0..MaxVersion
    BY StoreAssumption DEF STypeOK, Reads, Parts
  <2>2. DecryptFxFile(r) = IF v = 0 THEN Failed(r)
                           ELSE IF Shape[r.file] = "chunked" THEN Read("chunks", r.bucket, r.file, v, <<>>)
                           ELSE Read("done", r.bucket, r.file, v, <<v>>)
    BY <1>1 DEF DecryptFxFile, FetchEnvelope
  <2> HIDE DEF v
  <2>3. r.bucket \in Bucket /\ r.file \in File
    BY DEF Reads, Parts
  <2>4. Parts(Read("chunks", r.bucket, r.file, v, <<>>)) /\ Read("chunks", r.bucket, r.file, v, <<>>).file = r.file
    <3> DEFINE e == <<>>
    <3>1. e \in Seq(0..MaxVersion) /\ Len(e) = 0
      OBVIOUS
    <3> HIDE DEF e
    <3>2. \A j \in 1..Len(e) : e[j] = v
      BY <3>1
    <3> DEFINE s == "chunks"
    <3>3. s \in {"envelope", "chunks", "done", "failed", "raw"} /\ s # "done"
      OBVIOUS
    <3> HIDE DEF s
    <3>4. Parts(Read(s, r.bucket, r.file, v, e)) /\ Read(s, r.bucket, r.file, v, e).file = r.file
      BY <2>1, <2>3, <3>1, <3>2, <3>3 DEF Read, Reads, Parts
    <3> QED
      BY <3>4 DEF e, s
  <2>5. Parts(Read("done", r.bucket, r.file, v, <<v>>)) /\ Read("done", r.bucket, r.file, v, <<v>>).file = r.file
    <3> DEFINE e == <<v>>
    <3>1. e \in Seq(0..MaxVersion) /\ Len(e) = 1 /\ e[1] = v /\ e # <<>>
      BY <2>1
    <3> HIDE DEF e
    <3>2. Parts(Read("done", r.bucket, r.file, v, e)) /\ Read("done", r.bucket, r.file, v, e).file = r.file
      BY <2>1, <2>3, <3>1, ReadHas
    <3> QED
      BY <3>2 DEF e
  <2> QED
    BY <2>2, <2>4, <2>5, ReadFailed
<1>2. CASE r.state = "chunks"
  <2> DEFINE i == Len(r.got) + 1
             v == object[r.file][i]
             s == IF i = Chunks THEN "done" ELSE "chunks"
             g == Append(r.got, v)
  <2>1. DecryptFxFile(r) = IF ~DecryptChunk(r, v) THEN Failed(r) ELSE Read(s, r.bucket, r.file, r.version, g)
    BY <1>2 DEF DecryptFxFile, FetchChunk
  <2>2. /\ r.bucket \in Bucket /\ r.file \in File /\ r.version \in 0..MaxVersion /\ r.got \in Seq(0..MaxVersion)
        /\ \A j \in 1..Len(r.got) : r.got[j] = r.version
    BY DEF Reads, Parts
  <2>3. ASSUME DecryptChunk(r, v)
        PROVE  Parts(Read(s, r.bucket, r.file, r.version, g)) /\ Read(s, r.bucket, r.file, r.version, g).file = r.file
    <3>1. v = r.version
      BY <2>3 DEF DecryptChunk
    <3> HIDE DEF v
    <3>2. /\ g \in Seq(0..MaxVersion) /\ Len(g) = Len(r.got) + 1 /\ g[Len(r.got) + 1] = r.version
          /\ \A j \in 1..Len(r.got) : g[j] = r.got[j]
      BY <2>2, <3>1
    <3>3. s \in {"envelope", "chunks", "done", "failed", "raw"}
      OBVIOUS
    <3> HIDE DEF g, s
    <3>4. Len(r.got) \in Nat
      BY <2>2
    <3>5. \A j \in 1..Len(g) : g[j] = r.version
      BY <2>2, <3>2, <3>4
    <3>6. g # <<>>
      BY <3>2, <3>4
    <3> QED
      BY <2>2, <3>2, <3>3, <3>5, <3>6, ReadHas
  <2> HIDE DEF v, s, g
  <2> QED
    BY <2>1, <2>3, ReadFailed
<1> QED
  BY <1>1, <1>2 DEF Reading

\* An object that is taken as it is stored is of the version that was stored.
LEMMA RawHas == ASSUME STypeOK, NEW b \in Bucket, NEW f \in File PROVE FetchRaw(StartRead(b, f)) \in Reads
<1>0. Parts(StartRead(b, f)) /\ StartRead(b, f).state = "envelope"
  BY ReadBegins DEF StartRead, Read
<1>1. PICK r : r = StartRead(b, f) /\ Parts(r) /\ r.state = "envelope"
  BY <1>0
<1>2. Parts(FetchEnvelope(r))
  BY <1>1, ReadGoes DEF Reading, DecryptFxFile
<1>3. PICK e : e = FetchEnvelope(r) /\ e \in Reads /\ r \in Reads
  BY <1>1, <1>2 DEF Parts
<1>4. Read("raw", r.bucket, r.file, e.version, <<>>) \in Reads
  BY <1>3 DEF Read, Reads
<1>5. FetchRaw(r) \in {e, Read("raw", r.bucket, r.file, e.version, <<>>)}
  BY <1>3 DEF FetchRaw
<1> QED
  BY <1>1, <1>3, <1>4, <1>5

\* A read with parts of one version is whole when it is done.
LEMMA PartsAreWhole == ASSUME NEW r, Parts(r) PROVE ReadIsWhole(r)
BY DEF Reads, Parts, ReadIsWhole, Whole

LEMMA StoreInit == SInit => STypeOK
<1> SUFFICES ASSUME SInit PROVE STypeOK
  OBVIOUS
<1>1. object \in [File -> [0..Chunks -> 0..MaxVersion]]
  BY StoreAssumption DEF SInit
<1> QED
  BY <1>1, StoreAssumption DEF SInit, STypeOK

LEMMA UploadKept == ASSUME STypeOK, NEW f \in File, Upload(f) PROVE STypeOK'
<1>1. version' \in [File -> 1..MaxVersion]
  BY StoreAssumption DEF STypeOK, Upload
<1>2. upload' \in [File -> SUBSET (0..Chunks)]
  <2>1. Objects(f) \in SUBSET (0..Chunks)
    BY StoreAssumption DEF Objects
  <2> HIDE DEF Objects
  <2> QED
    BY <2>1 DEF STypeOK, Upload
<1> QED
  BY <1>1, <1>2 DEF STypeOK, Upload

LEMMA PutObjectKept == ASSUME STypeOK, NEW f \in File, NEW o \in 0..Chunks, PutObject(f, o) PROVE STypeOK'
<1>1. object' \in [File -> [0..Chunks -> 0..MaxVersion]]
  <2> DEFINE g == [object[f] EXCEPT ![o] = version[f]]
  <2>1. g \in [0..Chunks -> 0..MaxVersion]
    BY StoreAssumption DEF STypeOK
  <2>2. object' = [object EXCEPT ![f] = g]
    BY DEF PutObject, STypeOK
  <2> HIDE DEF g
  <2> QED
    BY <2>1, <2>2 DEF STypeOK
<1>2. upload' \in [File -> SUBSET (0..Chunks)]
  BY DEF STypeOK, PutObject
<1> QED
  BY <1>1, <1>2 DEF STypeOK, PutObject

LEMMA DeleteKept == ASSUME STypeOK, NEW f \in File, DeleteFile(f) PROVE STypeOK'
<1>1. [o \in 0..Chunks |-> 0] \in [0..Chunks -> 0..MaxVersion]
  BY StoreAssumption
<1> QED
  BY <1>1 DEF STypeOK, DeleteFile

LEMMA OrphanKept == ASSUME STypeOK, NEW b \in Bucket, Orphan(b) PROVE STypeOK'
BY DEF STypeOK, Orphan

\* The lists are of files that are there.
LEMMA ListedAreFiles ==
  ASSUME NEW b
  PROVE  Listed(ListDecryptedFiles(b)) \subseteq File /\ Listed(ListDirectoryFiles(b)) \subseteq File
BY DEF Listed, ListDecryptedFiles, ListDirectoryFiles, ShouldSkip, Stored, Entry

-----------------------------------------------------------------------------
(* The gateway                                                             *)

Visited ==
  [pc : {"new", "policy", "loaded", "fetching", "wrapped", "served", "missing", "refused", "received", "gone", "routed"},
   cid : Cid \cup {0}, kind : Kinds, at : Nat, snap : [Cid -> Modes] \cup {<<>>}, open : BOOLEAN]

\* A CID has no policy, or one that is not older than a time.
Young(c, t) == policy[c] = "none" \/ since[c] >= t

\* A request has seen a policy, but for the ones that are younger than what it looked at.
Seen(x) ==
  /\ x.at <= now
  /\ x.pc \in {"policy", "loaded", "fetching", "wrapped", "served"} => x.cid \in Cid
  /\ x.pc = "loaded" => x.snap \in [Cid -> Modes] /\ \A c \in Cid : x.snap[c] = "none" => Young(c, x.at)
  /\ x.pc \in {"fetching", "wrapped", "served"} /\ ~x.open => Young(x.cid, x.at - TTL + 1)

\* The gateway's copy of the policies lacks none that is older than it.
CopyStands ==
  /\ cache \in [map : [Cid -> Modes], at : Int] /\ cache.at <= now
  /\ \A c \in Cid : cache.map[c] = "none" => Young(c, cache.at)

GatewayInv ==
  /\ GTypeOK /\ since \in [Cid -> Nat] /\ visit \in [Visit -> Visited]
  /\ CopyStands /\ \A v \in Visit : Seen(visit[v])

\* A request goes on.
LEMMA VisitGoes ==
  ASSUME GatewayInv, NEW v \in Visit, NEW x \in Visited, Seen(x), visit' = [visit EXCEPT ![v] = x],
         UNCHANGED <<now, policy, since, cache>>, mimes' \subseteq Cid, temp' \subseteq Visit
  PROVE  GatewayInv'
<1>1. visit' \in [Visit -> Visited] /\ visit'[v] = x /\ \A w \in Visit \ {v} : visit'[w] = visit[w]
  BY DEF GatewayInv
<1>2. ASSUME NEW w \in Visit PROVE Seen(visit[w])'
  <2>1. PICK y : y = visit'[w] /\ Seen(y)
    BY <1>1 DEF GatewayInv
  <2> QED
    BY <2>1 DEF Seen, Young
<1>3. CopyStands'
  BY DEF GatewayInv, CopyStands, Young
<1> QED
  BY <1>1, <1>2, <1>3 DEF GatewayInv, GTypeOK

\* What has been seen stays so when time passes and when policies come and go.
LEMMA PoliciesMove ==
  ASSUME GatewayInv, now' \in 0..MaxTime, now <= now', policy' \in [Cid -> Modes], since' \in [Cid -> Nat],
         \A c \in Cid : \/ policy'[c] = "none"
                        \/ policy'[c] = policy[c] /\ since'[c] = since[c]
                        \/ since'[c] = now,
         UNCHANGED <<cache, mimes, temp, visit>>
  PROVE  GatewayInv'
<1>1. ASSUME NEW c \in Cid, NEW t \in Int, t <= now, Young(c, t) PROVE Young(c, t)'
  BY <1>1 DEF Young, GatewayInv, GTypeOK
<1>2. TTL \in Nat \ {0} /\ now \in Nat
  BY GatewayAssumption DEF GatewayInv, GTypeOK
<1>3. ASSUME NEW v \in Visit PROVE Seen(visit[v])'
  <2>1. PICK y \in Visited : y = visit[v] /\ Seen(y)
    BY DEF GatewayInv
  <2>2. y.at \in Int /\ y.at - TTL + 1 \in Int /\ y.at - TTL + 1 <= now /\ y.at <= now /\ y.at <= now'
    BY <1>2, <2>1, GatewayAssumption DEF Seen, Visited
  <2>3. y.pc = "loaded" => \A c \in Cid : y.snap[c] = "none" => Young(c, y.at)'
    BY <1>1, <2>1, <2>2 DEF Seen
  <2>4. y.pc \in {"fetching", "wrapped", "served"} /\ ~y.open => y.cid \in Cid /\ Young(y.cid, y.at - TTL + 1)'
    BY <1>1, <2>1, <2>2 DEF Seen
  <2>5. y = visit'[v]
    BY <2>1
  <2> QED
    BY <2>1, <2>2, <2>3, <2>4, <2>5 DEF Seen, Young
<1>4. CopyStands'
  <2>1. cache.at \in Int /\ cache.at <= now /\ cache.at <= now' /\ cache' = cache
    BY <1>2, GatewayAssumption DEF GatewayInv, CopyStands
  <2>2. \A c \in Cid : cache.map[c] = "none" => Young(c, cache.at)
    BY DEF GatewayInv, CopyStands
  <2>3. ASSUME NEW c \in Cid, cache.map[c] = "none" PROVE Young(c, cache.at)'
    <3>1. PICK t \in Int : t = cache.at
      BY <2>1
    <3>2. Young(c, t)'
      BY <1>1, <2>1, <2>2, <2>3, <3>1
    <3> QED
      BY <2>1, <3>1, <3>2 DEF Young
  <2> QED
    BY <2>1, <2>3 DEF CopyStands, GatewayInv
<1> QED
  BY <1>3, <1>4 DEF GatewayInv, GTypeOK

\* A request is over, or does not look at policies.
LEMMA VisitOver ==
  ASSUME GatewayInv, NEW v \in Visit, NEW pc \in {"missing", "gone", "routed"}, Over(v, pc),
         UNCHANGED <<now, policy, since, cache>>, mimes' \subseteq Cid, temp' \subseteq Visit
  PROVE  GatewayInv'
<1> DEFINE x == [NewVisit EXCEPT !.pc = pc]
<1>1. x \in Visited /\ Seen(x)
  <2>1. now \in Nat
    BY GatewayAssumption DEF GatewayInv, GTypeOK
  <2>2. x \in Visited /\ x.pc = pc /\ x.at = 0
    BY <2>1 DEF NewVisit, Visited, Kinds
  <2> HIDE DEF x
  <2> QED
    BY <2>1, <2>2 DEF Seen
<1>2. visit' = [visit EXCEPT ![v] = x]
  BY DEF Over
<1> HIDE DEF x
<1> QED
  BY <1>1, <1>2, VisitGoes

LEMMA TickKept == ASSUME GatewayInv, Tick PROVE GatewayInv'
<1>1. now' \in 0..MaxTime /\ now <= now'
  BY GatewayAssumption DEF Tick, GatewayInv, GTypeOK
<1> QED
  BY <1>1, PoliciesMove DEF Tick, GatewayInv, GTypeOK

LEMMA AddPolicyKept ==
  ASSUME GatewayInv, NEW c \in Cid, NEW mode \in Modes \ {"none"}, AddPolicy(c, mode)
  PROVE  GatewayInv'
<1>1. now' \in 0..MaxTime /\ now <= now' /\ now \in Nat
  BY GatewayAssumption DEF AddPolicy, GatewayInv, GTypeOK
<1>2. /\ policy' \in [Cid -> Modes] /\ since' \in [Cid -> Nat]
      /\ \A d \in Cid : (policy'[d] = policy[d] /\ since'[d] = since[d]) \/ since'[d] = now
  BY <1>1 DEF AddPolicy, GatewayInv, GTypeOK
<1> QED
  BY <1>1, <1>2, PoliciesMove DEF AddPolicy

LEMMA RemovePolicyKept == ASSUME GatewayInv, NEW c \in Cid, RemovePolicy(c) PROVE GatewayInv'
<1>1. now' \in 0..MaxTime /\ now <= now'
  BY GatewayAssumption DEF RemovePolicy, GatewayInv, GTypeOK
<1>2. /\ policy' \in [Cid -> Modes] /\ since' \in [Cid -> Nat]
      /\ \A d \in Cid : policy'[d] = "none" \/ (policy'[d] = policy[d] /\ since'[d] = since[d])
  BY DEF RemovePolicy, GatewayInv, GTypeOK, Modes
<1> QED
  BY <1>1, <1>2, PoliciesMove DEF RemovePolicy

LEMMA ArriveKept ==
  ASSUME GatewayInv, NEW v \in Visit, NEW c \in Cid, NEW kind \in Kinds, Arrive(v, c, kind)
  PROVE  GatewayInv'
<1> DEFINE x == [NewVisit EXCEPT !.cid = c, !.kind = kind, !.at = now, !.pc = "policy"]
<1>1. x \in Visited /\ Seen(x)
  <2>1. now \in Nat
    BY GatewayAssumption DEF GatewayInv, GTypeOK
  <2>2. x \in Visited /\ x.pc = "policy" /\ x.at = now /\ x.cid = c
    BY <2>1 DEF NewVisit, Visited, Kinds
  <2> HIDE DEF x
  <2> QED
    BY <2>1, <2>2 DEF Seen
<1>2. visit' = [visit EXCEPT ![v] = x]
  BY DEF Arrive
<1> HIDE DEF x
<1> QED
  BY <1>1, <1>2, VisitGoes DEF Arrive, Rest, GatewayInv, GTypeOK

\* What the policy of a CID says, and what it lacks, is what the request goes by.
LEMMA Answered ==
  ASSUME GatewayInv, NEW v \in Visit, NEW mode \in Modes, visit[v].cid \in Cid, Answer(v, mode),
         mode = "none" => Young(visit[v].cid, visit[v].at - TTL + 1)
  PROVE  \E x \in Visited : Seen(x) /\ visit' = [visit EXCEPT ![v] = x]
<1> DEFINE y == visit[v]
           u == Unrefused(v)
           x == IF mode # "none" THEN [NewVisit EXCEPT !.pc = "refused"] ELSE [y EXCEPT !.snap = <<>>, !.pc = u]
<1>1. y \in Visited /\ u \in {"wrapped", "fetching"} /\ y.at <= now /\ y.cid \in Cid
  BY DEF GatewayInv, Unrefused, Seen
<1>2. visit' = [visit EXCEPT ![v] = x]
  BY DEF Answer, GatewayInv
<1>3. mode = "none" => Young(y.cid, y.at - TTL + 1)
  OBVIOUS
<1> HIDE DEF y, u
<1>4. x \in Visited
  BY <1>1 DEF Visited, NewVisit, Kinds
<1>5. Seen(x)
  BY <1>1, <1>3, GatewayAssumption DEF Visited, NewVisit, Seen, GatewayInv, GTypeOK
<1> QED
  BY <1>2, <1>4, <1>5

LEMMA CachedKept == ASSUME GatewayInv, NEW v \in Visit, CachedPolicy(v) PROVE GatewayInv'
<1> DEFINE c == visit[v].cid
<1>1. c \in Cid /\ visit[v].at \in Nat /\ visit[v].at - cache.at < TTL
  BY DEF CachedPolicy, VAt, GatewayInv, Seen, Visited
<1>2. cache.map[c] \in Modes /\ (cache.map[c] = "none" => Young(c, cache.at)) /\ cache.at \in Int
  BY <1>1 DEF GatewayInv, CopyStands
<1>3. cache.map[c] = "none" => Young(c, visit[v].at - TTL + 1)
  <2>1. cache.at >= visit[v].at - TTL + 1
    BY <1>1, <1>2, GatewayAssumption
  <2>2. since[c] \in Nat
    BY <1>1 DEF GatewayInv
  <2> QED
    BY <1>1, <1>2, <2>1, <2>2, GatewayAssumption DEF Young
<1>4. PICK x \in Visited : Seen(x) /\ visit' = [visit EXCEPT ![v] = x]
  BY <1>1, <1>2, <1>3, Answered DEF CachedPolicy
<1> QED
  BY <1>4, VisitGoes DEF CachedPolicy, Rest, GatewayInv, GTypeOK

LEMMA LoadKept == ASSUME GatewayInv, NEW v \in Visit, LoadPolicies(v) PROVE GatewayInv'
<1> DEFINE y == visit[v]
           x == [y EXCEPT !.pc = "loaded", !.snap = policy]
<1>1. y \in Visited /\ y.at <= now /\ y.cid \in Cid
  BY DEF LoadPolicies, VAt, GatewayInv, Seen
<1>2. visit' = [visit EXCEPT ![v] = x]
  BY DEF LoadPolicies, GatewayInv
<1> HIDE DEF y
<1>3. x \in Visited /\ Seen(x)
  BY <1>1 DEF Visited, Seen, Young, GatewayInv, GTypeOK
<1> QED
  BY <1>2, <1>3, VisitGoes DEF LoadPolicies, Rest, GatewayInv, GTypeOK

LEMMA LoadedKept == ASSUME GatewayInv, NEW v \in Visit, PoliciesLoaded(v) PROVE GatewayInv'
<1> DEFINE c == visit[v].cid
           s == visit[v].snap
           t == visit[v].at
<1>1. /\ c \in Cid /\ t \in Nat /\ t <= now /\ s \in [Cid -> Modes]
      /\ \A d \in Cid : s[d] = "none" => Young(d, t)
  BY DEF PoliciesLoaded, VAt, GatewayInv, Seen, Visited
<1>2. cache' = [map |-> s, at |-> t] /\ Answer(v, s[c]) /\ UNCHANGED <<now, policy, since, mimes, present, temp>>
  BY DEF PoliciesLoaded
<1>3. s[c] \in Modes /\ (s[c] = "none" => Young(c, t - TTL + 1))
  <2>1. since[c] \in Nat /\ t >= t - TTL + 1
    BY <1>1, GatewayAssumption DEF GatewayInv
  <2> QED
    BY <1>1, <2>1, GatewayAssumption DEF Young
<1>4. PICK x \in Visited : Seen(x) /\ visit' = [visit EXCEPT ![v] = x]
  BY <1>1, <1>2, <1>3, Answered
<1> HIDE DEF c, s, t
<1>5. CopyStands'
  BY <1>1, <1>2 DEF CopyStands, Young
<1>6. visit' \in [Visit -> Visited] /\ visit'[v] = x /\ \A w \in Visit \ {v} : visit'[w] = visit[w]
  BY <1>4 DEF GatewayInv
<1>7. ASSUME NEW w \in Visit PROVE Seen(visit[w])'
  <2>1. PICK y : y = visit'[w] /\ Seen(y)
    BY <1>4, <1>6 DEF GatewayInv
  <2> QED
    BY <1>2, <2>1 DEF Seen, Young
<1> QED
  BY <1>2, <1>5, <1>6, <1>7 DEF GatewayInv, GTypeOK

LEMMA PolicyFailsKept == ASSUME GatewayInv, NEW v \in Visit, PolicyFails(v) PROVE GatewayInv'
<1> DEFINE y == visit[v]
           u == Unrefused(v)
           x == [y EXCEPT !.pc = u, !.open = TRUE]
<1>1. y \in Visited /\ u \in {"wrapped", "fetching"} /\ y.at <= now /\ y.cid \in Cid
  BY DEF GatewayInv, Unrefused, Seen, PolicyFails, VAt
<1>2. visit' = [visit EXCEPT ![v] = x]
  BY DEF PolicyFails, GatewayInv
<1> HIDE DEF y, u
<1>3. x \in Visited /\ Seen(x)
  BY <1>1 DEF Visited, Seen
<1> QED
  BY <1>2, <1>3, VisitGoes DEF PolicyFails, Rest, GatewayInv, GTypeOK

LEMMA ServeKept == ASSUME GatewayInv, NEW v \in Visit, Serve(v) PROVE GatewayInv'
<1> DEFINE y == visit[v]
<1>1. y \in Visited /\ Seen(y) /\ y.pc = "fetching" /\ y.cid \in Cid
  BY DEF GatewayInv, Seen, Serve, VAt
<1>2. mimes' \subseteq Cid
  BY <1>1 DEF Serve, GatewayInv, GTypeOK
<1>3. CASE y.cid \notin present
  BY <1>2, <1>3, VisitOver DEF Serve, GatewayInv, GTypeOK
<1>4. CASE y.cid \in present
  <2>1. PICK pc \in {"wrapped", "served"} : Turn(v, pc)
    BY <1>4 DEF Serve
  <2> DEFINE x == [y EXCEPT !.pc = pc]
  <2>2. visit' = [visit EXCEPT ![v] = x]
    BY <2>1 DEF Turn, GatewayInv
  <2> HIDE DEF y
  <2>3. x \in Visited /\ Seen(x)
    BY <1>1 DEF Visited, Seen
  <2> QED
    BY <1>2, <2>2, <2>3, VisitGoes DEF Serve, GatewayInv, GTypeOK
<1> QED
  BY <1>3, <1>4

LEMMA ReceiveKept == ASSUME GatewayInv, NEW v \in Visit, NEW c \in Cid, Receive(v, c) PROVE GatewayInv'
<1> DEFINE x == [NewVisit EXCEPT !.pc = "received", !.cid = c]
<1>1. x \in Visited /\ Seen(x)
  <2>1. now \in Nat
    BY GatewayAssumption DEF GatewayInv, GTypeOK
  <2>2. x \in Visited /\ x.pc = "received" /\ x.at = 0
    BY <2>1 DEF NewVisit, Visited, Kinds
  <2> HIDE DEF x
  <2> QED
    BY <2>1, <2>2 DEF Seen
<1>2. visit' = [visit EXCEPT ![v] = x]
  BY DEF Receive
<1> HIDE DEF x
<1> QED
  BY <1>1, <1>2, VisitGoes DEF Receive, GatewayInv, GTypeOK

LEMMA GatewayInit == GInit => GatewayInv
<1> SUFFICES ASSUME GInit PROVE GatewayInv
  OBVIOUS
<1>1. NewVisit \in Visited /\ Seen(NewVisit)
  BY GatewayAssumption DEF NewVisit, Visited, Kinds, Seen, GInit
<1>2. visit \in [Visit -> Visited] /\ \A v \in Visit : visit[v] = NewVisit
  BY <1>1 DEF GInit
<1>3. policy \in [Cid -> Modes] /\ since \in [Cid -> Nat] /\ \A c \in Cid : policy[c] = "none"
  BY DEF GInit, Modes
<1>4. cache = [map |-> policy, at |-> -TTL] /\ -TTL \in Int /\ -TTL <= now /\ now = 0
  BY GatewayAssumption DEF GInit
<1>5. CopyStands
  BY <1>3, <1>4 DEF CopyStands, Young
<1>6. GTypeOK
  BY <1>3, GatewayAssumption DEF GInit, GTypeOK
<1> QED
  BY <1>1, <1>2, <1>3, <1>5, <1>6 DEF GatewayInv

LEMMA GatewayKept ==
  ASSUME GatewayInv, GatewayArrivals \/ PolicyChanges \/ GatewayStep \/ GatewayFault
  PROVE  GatewayInv'
<1>1. CASE GatewayArrivals
  <2>1. PICK v \in Visit : \/ \E c \in Cid : Receive(v, c) \/ \E kind \in Kinds : Arrive(v, c, kind)
                           \/ \E pool \in {1, 5} : Route(v, pool)
    BY <1>1 DEF GatewayArrivals
  <2>2. ASSUME NEW pool \in {1, 5}, Route(v, pool) PROVE GatewayInv'
    BY <2>2, VisitOver DEF Route, Rest, GatewayInv, GTypeOK
  <2> QED
    BY <2>1, <2>2, ReceiveKept, ArriveKept
<1>2. CASE PolicyChanges
  BY <1>2, RemovePolicyKept, AddPolicyKept DEF PolicyChanges
<1>3. CASE GatewayStep
  <2>1. ASSUME NEW v \in Visit, NEW ok \in BOOLEAN, AddToIpfs(v, ok) PROVE GatewayInv'
    BY <2>1, VisitOver DEF AddToIpfs, GatewayInv, GTypeOK
  <2> QED
    BY <1>3, <2>1, TickKept, CachedKept, LoadKept, LoadedKept, ServeKept DEF GatewayStep
<1>4. CASE GatewayFault
  <2>1. ASSUME NEW v \in Visit, ServeFails(v) PROVE GatewayInv'
    BY <2>1, VisitOver DEF ServeFails, Rest, GatewayInv, GTypeOK
  <2> QED
    BY <1>4, <2>1, PolicyFailsKept DEF GatewayFault
<1> QED
  BY <1>1, <1>2, <1>3, <1>4

LEMMA BlockedFollows == GatewayInv => BlockedIsRefused
<1> SUFFICES ASSUME GatewayInv, NEW v \in Visit, visit[v].pc \in {"served", "wrapped", "fetching"}, ~visit[v].open
             PROVE  policy[visit[v].cid] = "none" \/ since[visit[v].cid] > visit[v].at - TTL
  BY DEF BlockedIsRefused
<1> DEFINE c == visit[v].cid
           t == visit[v].at
<1>1. c \in Cid /\ t \in Nat /\ Young(c, t - TTL + 1)
  BY DEF GatewayInv, Seen, Visited
<1>2. since[c] \in Nat
  BY <1>1 DEF GatewayInv
<1> QED
  BY <1>1, <1>2, GatewayAssumption DEF Young

-----------------------------------------------------------------------------
(* Share links                                                             *)

View == [pc : {"new", "password", "parsed", "error", "manifest", "content", "folder", "reading", "read", "failed", "shown"},
         folder : BOOLEAN, v : {1, 2}, files : Nat, since : Nat]

\* A tab shows nothing older than what stood when its link was opened.
Fresher(x) ==
  /\ x.since <= latest
  /\ x.files # Fragment => x.files >= x.since

\* The manifest that counts is the one the server prefers.
ManifestStands ==
  /\ manifest \in [stored : BOOLEAN, encrypted : Nat, plain : Nat, dated : BOOLEAN]
  /\ edits \in 0..MaxManifests /\ manifest.encrypted <= edits /\ manifest.plain <= edits
  /\ latest = Newest
  /\ manifest.encrypted # 0 /\ manifest.plain # 0 => manifest.plain > manifest.encrypted

SharingInv == ManifestStands /\ view \in [Tab -> View] /\ \A t \in Tab : Fresher(view[t])

\* A tab goes on.
LEMMA TabGoes ==
  ASSUME SharingInv, NEW t \in Tab, NEW x \in View, Fresher(x), view' = [view EXCEPT ![t] = x],
         UNCHANGED <<manifest, expired, edits, latest>>
  PROVE  SharingInv'
<1>1. view' \in [Tab -> View] /\ \A u \in Tab : view'[u] = IF u = t THEN x ELSE view[u]
  BY DEF SharingInv
<1>2. ManifestStands'
  BY DEF SharingInv, ManifestStands, Newest
<1>3. ASSUME NEW u \in Tab PROVE Fresher(view[u])'
  <2>1. PICK y : y = view'[u] /\ Fresher(y)
    BY <1>1 DEF SharingInv
  <2> QED
    BY <2>1 DEF Fresher
<1> QED
  BY <1>1, <1>2, <1>3 DEF SharingInv

\* The sharer stores a manifest, which is newer than all before.
LEMMA ManifestPut ==
  ASSUME SharingInv, ManifestStands', latest <= latest', UNCHANGED view
  PROVE  SharingInv'
<1>1. latest \in Nat /\ latest' \in Nat
  BY DEF SharingInv, ManifestStands, Newest
<1>2. ASSUME NEW t \in Tab PROVE Fresher(view[t])'
  <2>1. PICK y \in View : y = view'[t] /\ Fresher(y)
    BY DEF SharingInv
  <2>2. y.since \in Nat
    BY DEF View
  <2> QED
    BY <1>1, <2>1, <2>2 DEF Fresher
<1> QED
  BY <1>2 DEF SharingInv

LEMMA EncryptedKept == ASSUME SharingInv, NEW dated \in BOOLEAN, PutEncrypted(dated) PROVE SharingInv'
<1>1. edits \in Nat /\ MaxManifests \in Nat /\ edits < MaxManifests /\ latest <= edits
  BY SharingAssumption DEF PutEncrypted, SharingInv, ManifestStands, Newest
<1>2. PICK n \in Nat : n = edits + 1 /\ n # 0 /\ n \in 0..MaxManifests
  BY <1>1
<1>3. manifest' = [stored |-> TRUE, encrypted |-> n, plain |-> 0, dated |-> dated] /\ latest' = n /\ edits' = n
  BY <1>2 DEF PutEncrypted
<1>4. ManifestStands'
  BY <1>2, <1>3 DEF ManifestStands, Newest
<1>5. latest <= latest'
  BY <1>1, <1>2, <1>3 DEF SharingInv, ManifestStands, Newest
<1> QED
  BY <1>4, <1>5, ManifestPut DEF PutEncrypted

LEMMA PlainKept == ASSUME SharingInv, NEW dated \in BOOLEAN, PutPlain(dated) PROVE SharingInv'
<1>1. edits \in Nat /\ MaxManifests \in Nat /\ edits < MaxManifests /\ latest <= edits /\ latest \in Nat
  BY SharingAssumption DEF PutPlain, SharingInv, ManifestStands, Newest
<1>2. PICK n \in Nat : n = edits + 1 /\ n # 0 /\ n \in 0..MaxManifests
  BY <1>1
<1>3. /\ manifest' \in [stored : BOOLEAN, encrypted : Nat, plain : Nat, dated : BOOLEAN]
      /\ manifest'.encrypted = manifest.encrypted /\ manifest'.plain = n /\ edits' = n
      /\ latest' = IF manifest.encrypted = 0 THEN n ELSE latest
      /\ manifest.encrypted \in Nat /\ manifest.encrypted <= edits
  BY <1>2 DEF PutPlain, SharingInv, ManifestStands
<1>4. latest = IF manifest.encrypted # 0 THEN manifest.encrypted ELSE manifest.plain
  BY DEF SharingInv, ManifestStands, Newest
<1>5. ManifestStands'
  BY <1>1, <1>2, <1>3, <1>4 DEF ManifestStands, Newest
<1> QED
  BY <1>1, <1>2, <1>3, <1>5, ManifestPut DEF PutPlain

\* A tab moves on without a new page.
LEMMA ShowKept ==
  ASSUME SharingInv, NEW t \in Tab, NEW pc \in {"parsed", "error", "manifest", "content", "reading", "read", "failed"},
         Show(t, pc)
  PROVE  SharingInv'
<1> DEFINE y == view[t]
           x == [y EXCEPT !.pc = pc]
<1>1. y \in View /\ Fresher(y)
  BY DEF SharingInv
<1>2. view' = [view EXCEPT ![t] = x]
  BY DEF Show, SharingInv
<1> HIDE DEF y
<1>3. x \in View /\ Fresher(x)
  BY <1>1 DEF View, Fresher
<1> QED
  BY <1>2, <1>3, TabGoes DEF Show

LEMMA OpenLinkKept == ASSUME SharingInv, NEW t \in Tab, NEW l \in Link, OpenLink(t, l) PROVE SharingInv'
<1> DEFINE pc == IF l.password THEN "password" ELSE IF l.sk THEN "parsed" ELSE "error"
           d == l.folder /\ l.v = 2
           x == [NewView EXCEPT !.pc = pc, !.folder = d, !.v = l.v, !.since = latest]
<1>1. view' = [view EXCEPT ![t] = x]
  BY DEF OpenLink
<1>2. pc \in {"password", "parsed", "error"} /\ d \in BOOLEAN /\ l.v \in {1, 2} /\ latest \in Nat
  BY DEF Link, SharingInv, ManifestStands, Newest
<1> HIDE DEF pc, d
<1>3. x \in View /\ x.since = latest /\ x.files = 0 /\ x.pc = pc
  BY <1>2 DEF View, NewView
<1> HIDE DEF x
<1>4. Fresher(x)
  BY <1>2, <1>3 DEF Fresher, Fragment
<1> QED
  BY <1>1, <1>3, <1>4, TabGoes DEF OpenLink

LEMMA OfferKept ==
  ASSUME SharingInv, NEW t \in Tab, NEW n \in Nat, n = Fragment \/ n = Newest, Offer(t, n)
  PROVE  SharingInv'
<1> DEFINE y == view[t]
           x == [y EXCEPT !.pc = "folder", !.files = n]
<1>1. y \in View /\ Fresher(y) /\ (n = Fragment \/ n = latest)
  BY DEF SharingInv, ManifestStands
<1>2. view' = [view EXCEPT ![t] = x]
  BY DEF Offer, SharingInv
<1> HIDE DEF y
<1>3. x \in View /\ x.files = n /\ x.since = y.since /\ x.pc = "folder"
  BY <1>1 DEF View
<1> HIDE DEF x
<1>4. Fresher(x)
  BY <1>1, <1>3 DEF View, Fresher, Fragment
<1> QED
  BY <1>2, <1>3, <1>4, TabGoes DEF Offer

LEMMA ShowContentKept == ASSUME SharingInv, NEW t \in Tab, ShowContent(t) PROVE SharingInv'
<1> DEFINE y == view[t]
           x == IF y.folder THEN [y EXCEPT !.pc = "folder"] ELSE [NewView EXCEPT !.pc = "shown"]
<1>1. y \in View /\ Fresher(y) /\ latest \in Nat
  BY DEF SharingInv, ManifestStands, Newest
<1>2. view' = [view EXCEPT ![t] = x]
  BY DEF ShowContent, SharingInv
<1> HIDE DEF y
<1>3. x \in View /\ Fresher(x)
  <2>1. CASE y.folder
    BY <1>1, <2>1 DEF View, Fresher
  <2>2. CASE ~y.folder
    <3>1. x \in View /\ x.pc = "shown" /\ x.files = 0 /\ x.since = 0
      BY <2>2 DEF View, NewView
    <3> HIDE DEF x
    <3> QED
      BY <1>1, <3>1 DEF Fresher, Fragment
  <2> QED
    BY <2>1, <2>2
<1> QED
  BY <1>2, <1>3, TabGoes DEF ShowContent

LEMMA SharingStays == ASSUME SharingInv, UNCHANGED <<manifest, view, edits, latest>> PROVE SharingInv'
<1>1. ManifestStands'
  BY DEF SharingInv, ManifestStands, Newest
<1>2. latest <= latest'
  BY DEF SharingInv, ManifestStands, Newest
<1> QED
  BY <1>1, <1>2, ManifestPut

LEMMA SharingInit == HInit => SharingInv
<1> SUFFICES ASSUME HInit PROVE SharingInv
  OBVIOUS
<1>1. NewView \in View /\ Fresher(NewView)
  BY DEF NewView, View, Fresher, HInit, Fragment
<1>2. ManifestStands
  BY SharingAssumption DEF HInit, ManifestStands, Newest
<1>3. view \in [Tab -> View] /\ \A t \in Tab : view[t] = NewView
  BY <1>1 DEF HInit
<1> QED
  BY <1>1, <1>2, <1>3 DEF SharingInv

LEMMA SharingKept ==
  ASSUME SharingInv, Sharer \/ (\E t \in Tab, l \in Link : OpenLink(t, l)) \/ ShareStep \/ ShareFault
  PROVE  SharingInv'
<1>1. CASE Sharer
  BY <1>1, EncryptedKept, PlainKept DEF Sharer
<1>2. CASE \E t \in Tab, l \in Link : OpenLink(t, l)
  BY <1>2, OpenLinkKept
<1>3. CASE ShareStep
  <2>1. CASE LinksExpire
    BY <2>1, SharingStays DEF LinksExpire
  <2>2. ASSUME NEW t \in Tab, NEW right \in BOOLEAN, SubmitPassword(t, right) PROVE SharingInv'
    BY <2>2, ShowKept, SharingStays DEF SubmitPassword, Unlock, hvars
  <2>3. ASSUME NEW t \in Tab, ProcessPayload(t) PROVE SharingInv'
    BY <2>3, ShowKept DEF ProcessPayload
  <2>4. ASSUME NEW t \in Tab, FetchManifest(t) PROVE SharingInv'
    <3>1. Newest \in Nat
      BY DEF SharingInv, ManifestStands, Newest
    <3> QED
      BY <2>4, <3>1, OfferKept DEF FetchManifest
  <2>5. ASSUME NEW t \in Tab, UseFragment(t) PROVE SharingInv'
    <3>1. Fragment \in Nat
      BY DEF Fragment
    <3> QED
      BY <2>5, <3>1, OfferKept, ShowKept DEF UseFragment
  <2>6. ASSUME NEW t \in Tab, FetchSharedContent(t) \/ GetShareContent(t) \/ GetShareObject(t) PROVE SharingInv'
    BY <2>6, ShowKept DEF FetchSharedContent, GetShareContent, GetShareObject
  <2> QED
    BY <1>3, <2>1, <2>2, <2>3, <2>4, <2>5, <2>6, ShowContentKept DEF ShareStep
<1>4. CASE ShareFault
  <2>1. ASSUME NEW t \in Tab, ManifestFails(t) PROVE SharingInv'
    <3>1. Fragment \in Nat
      BY DEF Fragment
    <3> QED
      BY <2>1, <3>1, OfferKept, ShowKept DEF ManifestFails
  <2> QED
    BY <1>4, <2>1, ShowKept DEF ShareFault, ContentFails
<1> QED
  BY <1>1, <1>2, <1>3, <1>4

LEMMA FolderFollows == SharingInv => FolderIsCurrent
BY DEF SharingInv, Fresher, ManifestStands, FolderIsCurrent

-----------------------------------------------------------------------------
(* The bulk download                                                       *)

Run == [pc : {"idle", "picking", "listing", "downloading", "closed", "saved"},
        buckets : SUBSET Bucket, planned : SUBSET File, todo : SUBSET File, reads : SUBSET Reads,
        archive : SUBSET Reads, failures : SUBSET (File \cup Bucket), done : Nat, aborted : BOOLEAN,
        picker : BOOLEAN]

FilesOf(R) == {r.file : r \in R}
OnePerFile(R) == \A r, s \in R : r.file = s.file => r = s
Active == {"downloading", "closed", "saved"}

\* Before the download begins nothing is read; from then on each planned file is
\* waiting, being read, in the archive or among the failures, and is counted once
\* it is read.
Accounts(x) ==
  /\ x.pc \notin Active => x.todo = {} /\ x.reads = {} /\ x.archive = {} /\ x.done = 0 /\ x.failures \cap File = {}
  /\ x.pc \in {"closed", "saved"} => x.todo = {} /\ x.reads = {}
  /\ x.pc \in Active =>
       LET A == FilesOf(x.archive) R == FilesOf(x.reads) F == x.failures \cap File IN
       /\ x.planned = x.todo \cup R \cup A \cup F
       /\ x.todo \cap (R \cup A \cup F) = {} /\ R \cap (A \cup F) = {} /\ A \cap F = {}
       /\ x.done = Cardinality(A \cup F)
  /\ (\A r \in x.reads : Parts(r)) /\ OnePerFile(x.reads)
  /\ (\A r \in x.archive : Parts(r)) /\ OnePerFile(x.archive)

BulkInv ==
  /\ bulk \in Run /\ Accounts(bulk) /\ late \subseteq File
  /\ panel \in {"none", "listing", "finalizing", "done", "aborted", "error"}

\* A run begins and ends with nothing.
LEMMA NothingYet ==
  /\ NewBulk \in Run /\ Accounts(NewBulk)
  /\ \A p \in BOOLEAN : LET x == [NewBulk EXCEPT !.pc = "picking", !.picker = p, !.buckets = Bucket]
                        IN x \in Run /\ Accounts(x)
BY DEF NewBulk, Run, Accounts, Active, OnePerFile

LEMMA ReturnKept == ASSUME BulkInv, NEW phase \in {"done", "aborted", "error"}, Return(phase) PROVE BulkInv'
BY NothingYet DEF BulkInv, Return

\* A step that moves the run and leaves its books alone.
LEMMA RunMoves ==
  ASSUME BulkInv, NEW x \in Run, bulk' = x, UNCHANGED late,
         panel' \in {"none", "listing", "finalizing", "done", "aborted", "error"},
         x.todo = bulk.todo, x.reads = bulk.reads, x.archive = bulk.archive, x.done = bulk.done,
         x.failures \cap File = bulk.failures \cap File, x.pc \in Active <=> bulk.pc \in Active,
         x.pc \in Active => x.planned = bulk.planned,
         x.pc \in {"closed", "saved"} => x.todo = {} /\ x.reads = {}
  PROVE  BulkInv'
<1>1. Accounts(x)
  <2> HIDE DEF Active
  <2> QED
    BY DEF BulkInv, Accounts
<1> QED
  BY <1>1 DEF BulkInv

LEMMA ListBucketKept == ASSUME BulkInv, NEW b \in Bucket, ListBucket(b) PROVE BulkInv'
<1> DEFINE L == Listed(ListDecryptedFiles(b))
           x == [bulk EXCEPT !.buckets = @ \ {b}, !.planned = @ \cup L]
<1>1. L \subseteq File /\ bulk \in Run /\ bulk.pc = "listing"
  BY ListedAreFiles DEF BulkInv, ListBucket
<1>2. bulk' = x
  BY DEF ListBucket
<1> HIDE DEF L
<1>3. /\ x \in Run /\ x.pc = bulk.pc /\ x.todo = bulk.todo /\ x.reads = bulk.reads /\ x.archive = bulk.archive
      /\ x.done = bulk.done /\ x.failures = bulk.failures
  BY <1>1 DEF Run
<1> HIDE DEF x
<1> QED
  BY <1>1, <1>2, <1>3, RunMoves DEF Active, ListBucket, BulkInv

LEMMA UnlistedKept == ASSUME BulkInv, NEW b \in Bucket, BucketUnlisted(b) PROVE BulkInv'
<1> DEFINE x == [bulk EXCEPT !.buckets = @ \ {b}, !.failures = @ \cup {b}]
<1>1. bulk \in Run /\ bulk.pc = "listing" /\ b \notin File
  BY StoreAssumption DEF BulkInv, BucketUnlisted
<1>2. bulk' = x
  BY DEF BucketUnlisted
<1>3. /\ x \in Run /\ x.pc = bulk.pc /\ x.todo = bulk.todo /\ x.reads = bulk.reads /\ x.archive = bulk.archive
      /\ x.done = bulk.done /\ x.failures = bulk.failures \cup {b}
  BY <1>1 DEF Run
<1> HIDE DEF x
<1>4. x.failures \cap File = bulk.failures \cap File
  BY <1>1, <1>3
<1> QED
  BY <1>1, <1>2, <1>3, <1>4, RunMoves DEF Active, BucketUnlisted, BulkInv

\* The flag of a cancel, and the places a run passes.
LEMMA PassKept ==
  ASSUME BulkInv, NEW pc, NEW a \in BOOLEAN, bulk' = [bulk EXCEPT !.pc = pc, !.aborted = a], UNCHANGED late,
         panel' = panel \/ panel' = "done",
         \/ pc = bulk.pc \/ (pc = "listing" /\ bulk.pc = "picking") \/ (pc = "saved" /\ bulk.pc = "closed")
         \/ pc = "closed" /\ bulk.pc = "downloading" /\ bulk.todo = {} /\ bulk.reads = {}
  PROVE  BulkInv'
<1> DEFINE x == [bulk EXCEPT !.pc = pc, !.aborted = a]
<1>1. /\ x \in Run /\ x.pc = pc /\ x.todo = bulk.todo /\ x.reads = bulk.reads /\ x.archive = bulk.archive
      /\ x.done = bulk.done /\ x.failures = bulk.failures /\ x.planned = bulk.planned
  BY DEF Run, BulkInv
<1>2. bulk' = x
  OBVIOUS
<1> HIDE DEF x
<1>3. x.pc \in Active <=> bulk.pc \in Active
  BY <1>1 DEF Active
<1>4. x.pc \in {"closed", "saved"} => x.todo = {} /\ x.reads = {}
  BY <1>1 DEF BulkInv, Accounts
<1> QED
  BY <1>1, <1>2, <1>3, <1>4, RunMoves DEF BulkInv

LEMMA AllListedKept == ASSUME BulkInv, AllListed PROVE BulkInv'
<1>1. CASE bulk.planned = {} /\ bulk.failures = {}
  BY <1>1, ReturnKept DEF AllListed
<1>2. CASE ~(bulk.planned = {} /\ bulk.failures = {})
  <2> DEFINE x == [bulk EXCEPT !.pc = "downloading", !.todo = bulk.planned]
  <2>1. bulk' = x /\ panel' = "finalizing" /\ UNCHANGED late /\ bulk.pc = "listing"
    BY <1>2 DEF AllListed
  <2>2. bulk \in Run /\ bulk.reads = {} /\ bulk.archive = {} /\ bulk.done = 0 /\ bulk.failures \cap File = {}
    BY <2>1 DEF BulkInv, Accounts, Active
  <2>3. /\ x \in Run /\ x.pc = "downloading" /\ x.todo = bulk.planned /\ x.reads = {} /\ x.archive = {}
        /\ x.done = 0 /\ x.failures = bulk.failures /\ x.planned = bulk.planned
    BY <2>2 DEF Run
  <2> HIDE DEF x
  <2>4. FilesOf({}) = {} /\ Cardinality({}) = 0
    BY FS_EmptySet DEF FilesOf
  <2>5. Accounts(x)
    BY <2>2, <2>3, <2>4 DEF Accounts, Active, OnePerFile
  <2> QED
    BY <2>1, <2>3, <2>5 DEF BulkInv
<1> QED
  BY <1>1, <1>2

LEMMA LaunchKept == ASSUME BulkInv, NEW f \in File, Launch(f) PROVE BulkInv'
<1> DEFINE r == StartRead(Home[f], f)
           x == [bulk EXCEPT !.todo = @ \ {f}, !.reads = @ \cup {r}]
<1>1. Parts(r) /\ r.file = f
  BY StoreAssumption, ReadBegins
<1>2. bulk' = x /\ f \in bulk.todo /\ bulk.pc = "downloading" /\ UNCHANGED <<panel, late>> /\ bulk \in Run /\ Accounts(bulk)
  BY DEF Launch, BulkInv
<1> HIDE DEF r
<1>3. /\ x \in Run /\ x.pc = "downloading" /\ x.todo = bulk.todo \ {f} /\ x.reads = bulk.reads \cup {r}
      /\ x.archive = bulk.archive /\ x.done = bulk.done /\ x.failures = bulk.failures /\ x.planned = bulk.planned
  BY <1>1, <1>2 DEF Run, Parts
<1> HIDE DEF x
<1> DEFINE A == FilesOf(bulk.archive) R == FilesOf(bulk.reads) F == bulk.failures \cap File
<1>4. /\ bulk.planned = bulk.todo \cup R \cup A \cup F
      /\ bulk.todo \cap (R \cup A \cup F) = {} /\ R \cap (A \cup F) = {} /\ A \cap F = {}
      /\ bulk.done = Cardinality(A \cup F)
      /\ (\A s \in bulk.reads : Parts(s)) /\ OnePerFile(bulk.reads)
      /\ (\A s \in bulk.archive : Parts(s)) /\ OnePerFile(bulk.archive)
  BY <1>2 DEF Accounts, Active
<1>5. FilesOf(x.reads) = R \cup {f} /\ FilesOf(x.archive) = A
  BY <1>1, <1>3 DEF FilesOf
<1>6. OnePerFile(x.reads)
  <2>1. f \notin R
    BY <1>2, <1>4
  <2> QED
    BY <1>1, <1>3, <1>4, <2>1 DEF OnePerFile, FilesOf
<1> HIDE DEF A, R, F
<1>7. x.failures \cap File = F
  BY <1>3 DEF F
<1>8. /\ x.planned = x.todo \cup (R \cup {f}) \cup A \cup F
      /\ x.todo \cap ((R \cup {f}) \cup A \cup F) = {} /\ (R \cup {f}) \cap (A \cup F) = {}
  BY <1>2, <1>3, <1>4
<1>9. Accounts(x)
  BY <1>1, <1>3, <1>4, <1>5, <1>6, <1>7, <1>8 DEF Accounts, Active
<1> QED
  BY <1>2, <1>3, <1>9 DEF BulkInv

LEMMA WorkerReadsKept ==
  ASSUME BulkInv, NEW r \in bulk.reads, NEW next, Parts(next), next.file = r.file, WorkerReads(r, next)
  PROVE  BulkInv'
<1> DEFINE x == [bulk EXCEPT !.reads = (@ \ {r}) \cup {next}]
<1>1. bulk' = x /\ bulk.pc = "downloading" /\ UNCHANGED <<panel, late>> /\ bulk \in Run /\ Accounts(bulk)
  BY DEF WorkerReads, BulkInv
<1>2. /\ x \in Run /\ x.pc = "downloading" /\ x.todo = bulk.todo /\ x.reads = (bulk.reads \ {r}) \cup {next}
      /\ x.archive = bulk.archive /\ x.done = bulk.done /\ x.failures = bulk.failures /\ x.planned = bulk.planned
  BY <1>1 DEF Run, Parts
<1> HIDE DEF x
<1>3. FilesOf(x.reads) = FilesOf(bulk.reads)
  BY <1>2 DEF FilesOf
<1>4. OnePerFile(bulk.reads) /\ \A s \in bulk.reads : Parts(s)
  BY <1>1 DEF Accounts
<1>5. OnePerFile(x.reads) /\ \A s \in x.reads : Parts(s)
  BY <1>2, <1>4 DEF OnePerFile
<1>6. Accounts(x)
  BY <1>1, <1>2, <1>3, <1>5 DEF Accounts, Active
<1> QED
  BY <1>1, <1>2, <1>6 DEF BulkInv

LEMMA WorkerEndsKept == ASSUME BulkInv, NEW r \in bulk.reads, WorkerEnds(r) PROVE BulkInv'
<1> DEFINE ok == r.state = "done"
           P == IF ok THEN bulk.archive \cup {r} ELSE bulk.archive
           Q == IF ok THEN bulk.failures ELSE bulk.failures \cup {r.file}
           x == [bulk EXCEPT !.reads = @ \ {r}, !.done = @ + 1, !.archive = P, !.failures = Q]
<1>1. bulk' = x /\ bulk.pc = "downloading" /\ UNCHANGED <<panel, late>> /\ bulk \in Run /\ Accounts(bulk)
  BY DEF WorkerEnds, Push, BulkInv
<1>2. Parts(r) /\ r \in Reads /\ r.file \in File
  BY <1>1 DEF Accounts, Parts, Reads
<1>3. P \in SUBSET Reads /\ Q \in SUBSET (File \cup Bucket) /\ bulk.done \in Nat
  BY <1>1, <1>2 DEF Run
<1> HIDE DEF P, Q, ok
<1> DEFINE d == bulk.reads \ {r} n == bulk.done + 1
<1>15. d \in SUBSET Reads /\ n \in Nat
  BY <1>1, <1>3 DEF Run
<1>16. x = [bulk EXCEPT !.reads = d, !.done = n, !.archive = P, !.failures = Q]
  BY <1>1 DEF Run
<1> HIDE DEF d, n, x
<1>17. x \in Run
  BY <1>1, <1>3, <1>15, <1>16 DEF Run
<1>18. x.pc = "downloading" /\ x.todo = bulk.todo /\ x.planned = bulk.planned
  BY <1>1, <1>16 DEF Run
<1>19. x.reads = d /\ x.done = n /\ x.archive = P /\ x.failures = Q
  BY <1>1, <1>16 DEF Run
<1>4. /\ x \in Run /\ x.pc = "downloading" /\ x.todo = bulk.todo /\ x.reads = bulk.reads \ {r}
      /\ x.archive = P /\ x.done = bulk.done + 1 /\ x.failures = Q /\ x.planned = bulk.planned
  BY <1>17, <1>18, <1>19 DEF d, n
<1> HIDE DEF x
<1> DEFINE A == FilesOf(bulk.archive) R == FilesOf(bulk.reads) F == bulk.failures \cap File f == r.file
<1>5. /\ bulk.planned = bulk.todo \cup R \cup A \cup F
      /\ bulk.todo \cap (R \cup A \cup F) = {} /\ R \cap (A \cup F) = {} /\ A \cap F = {}
      /\ bulk.done = Cardinality(A \cup F)
      /\ (\A s \in bulk.reads : Parts(s)) /\ OnePerFile(bulk.reads)
      /\ (\A s \in bulk.archive : Parts(s)) /\ OnePerFile(bulk.archive)
  BY <1>1 DEF Accounts, Active
<1>6. f \in R /\ f \in File
  BY <1>2 DEF FilesOf
<1>7. FilesOf(x.reads) = R \ {f}
  BY <1>4, <1>5 DEF FilesOf, OnePerFile
<1>8. OnePerFile(x.reads) /\ \A s \in x.reads : Parts(s)
  BY <1>4, <1>5 DEF OnePerFile
<1>9. FilesOf(x.archive) = (IF ok THEN A \cup {f} ELSE A) /\ (\A s \in x.archive : Parts(s))
  BY <1>2, <1>4, <1>5 DEF FilesOf, P
<1>10. OnePerFile(x.archive)
  <2>1. f \notin A
    BY <1>5, <1>6
  <2> QED
    BY <1>4, <1>5, <2>1 DEF OnePerFile, FilesOf, P
<1>11. x.failures \cap File = IF ok THEN F ELSE F \cup {f}
  BY <1>4, <1>6 DEF Q
<1>12. Cardinality((A \cup F) \cup {f}) = Cardinality(A \cup F) + 1
  <2>1. A \cup F \subseteq File /\ IsFiniteSet(File)
    BY <1>1, StoreAssumption DEF FilesOf, Run, Reads
  <2>2. IsFiniteSet(A \cup F) /\ f \notin A \cup F
    BY <1>5, <1>6, <2>1, FS_Subset
  <2> QED
    BY <2>2, FS_AddElement
<1> HIDE DEF A, R, F, f
<1>13. PICK A2, R2, F2 : A2 = FilesOf(x.archive) /\ R2 = FilesOf(x.reads) /\ F2 = x.failures \cap File
  OBVIOUS
<1>20. R2 = R \ {f} /\ ((A2 = A \cup {f} /\ F2 = F) \/ (A2 = A /\ F2 = F \cup {f}))
  BY <1>7, <1>9, <1>11, <1>13
<1>21. A2 \cup F2 = (A \cup F) \cup {f}
  BY <1>20
<1>22. x.planned = x.todo \cup R2 \cup A2 \cup F2
  <2>1. R2 \cup (A2 \cup F2) = R \cup (A \cup F)
    BY <1>6, <1>20, <1>21
  <2> QED
    BY <1>4, <1>5, <2>1
<1>23. x.todo \cap (R2 \cup A2 \cup F2) = {}
  BY <1>4, <1>5, <1>6, <1>20
<1>24. R2 \cap (A2 \cup F2) = {} /\ A2 \cap F2 = {}
  BY <1>5, <1>6, <1>20
<1>25. x.done = Cardinality(A2 \cup F2)
  BY <1>4, <1>5, <1>12, <1>21
<1>14. Accounts(x)
  BY <1>4, <1>8, <1>9, <1>10, <1>13, <1>22, <1>23, <1>24, <1>25 DEF Accounts, Active
<1> QED
  BY <1>1, <1>4, <1>14 DEF BulkInv

LEMMA CancelledLateKept == ASSUME BulkInv, CancelledLate PROVE BulkInv'
<1>1. late' \subseteq File
  BY DEF CancelledLate, BulkInv, Run, Reads
<1> QED
  BY <1>1, NothingYet DEF CancelledLate, BulkInv

LEMMA BulkInit == BInit => BulkInv
BY NothingYet DEF BInit, BulkInv

LEMMA BulkKept ==
  ASSUME STypeOK, BulkInv, Cancel \/ (\E picker \in BOOLEAN : Start(picker)) \/ BulkStep \/ BulkFault
  PROVE  BulkInv'
<1>0. bulk \in Run
  BY DEF BulkInv
<1>1. CASE Cancel
  <2>1. bulk' = [bulk EXCEPT !.pc = bulk.pc, !.aborted = TRUE]
    BY <1>0, <1>1 DEF Cancel, Run
  <2> QED
    BY <1>1, <2>1, PassKept DEF Cancel
<1>2. ASSUME NEW picker \in BOOLEAN, Start(picker) PROVE BulkInv'
  BY <1>2, NothingYet DEF Start, BulkInv
<1>3. CASE Pick
  <2>1. bulk' = [bulk EXCEPT !.pc = "listing", !.aborted = bulk.aborted] /\ bulk.aborted \in BOOLEAN
    BY <1>0, <1>3 DEF Pick, Run
  <2> QED
    BY <1>3, <2>1, PassKept DEF Pick
<1>4. CASE PoolDone
  <2>1. bulk' = [bulk EXCEPT !.pc = "closed", !.aborted = bulk.aborted] /\ bulk.aborted \in BOOLEAN
    BY <1>0, <1>4 DEF PoolDone, Run
  <2> QED
    BY <1>4, <2>1, PassKept DEF PoolDone
<1>5. CASE Save
  <2>1. bulk' = [bulk EXCEPT !.pc = "saved", !.aborted = bulk.aborted] /\ bulk.aborted \in BOOLEAN
    BY <1>0, <1>5 DEF Save, Run
  <2> QED
    BY <1>5, <2>1, PassKept DEF Save
<1>6. CASE PickNone \/ CancelledEarly \/ StartFails \/ ModulePanics \/ SaveFails
  BY <1>6, ReturnKept DEF PickNone, CancelledEarly, StartFails, ModulePanics, SaveFails
<1>7. CASE Finish
  BY <1>7, NothingYet DEF Finish, BulkInv
<1>8. CASE Dismiss
  BY <1>8 DEF Dismiss, BulkInv
<1>9. ASSUME NEW f \in File, LateWorker(f) PROVE BulkInv'
  BY <1>9 DEF LateWorker, BulkInv
<1>10. ASSUME NEW r \in bulk.reads, WorkerReads(r, DecryptFxFile(r)) \/ WorkerReads(r, Failed(r)) PROVE BulkInv'
  <2>1. Parts(r) /\ Reading(r)
    BY <1>10 DEF BulkInv, Accounts, WorkerReads
  <2> QED
    BY <1>10, <2>1, ReadGoes, ReadFailed, WorkerReadsKept
<1>11. CASE BulkStep
  BY <1>3, <1>4, <1>5, <1>6, <1>7, <1>8, <1>9, <1>10, <1>11, AllListedKept, CancelledLateKept, ListBucketKept,
     LaunchKept, WorkerEndsKept DEF BulkStep
<1>12. CASE BulkFault
  BY <1>6, <1>10, <1>12, UnlistedKept DEF BulkFault
<1> QED
  BY <1>1, <1>2, <1>11, <1>12

LEMMA ArchiveFollows == BulkInv => ArchiveIsComplete
<1> SUFFICES ASSUME BulkInv, bulk.pc = "saved" PROVE ArchiveIsComplete
  BY DEF ArchiveIsComplete
<1> DEFINE A == {r.file : r \in bulk.archive} F == bulk.failures \cap File
<1>1. /\ bulk.planned = A \cup F /\ A \cap F = {} /\ bulk.done = Cardinality(A \cup F)
      /\ (\A r \in bulk.archive : Parts(r)) /\ OnePerFile(bulk.archive)
  BY DEF BulkInv, Accounts, Active, FilesOf
<1>2. A \subseteq File
  BY DEF BulkInv, Run, Reads
<1>3. A \cap bulk.failures = {}
  BY <1>1, <1>2
<1>4. \A r \in bulk.archive : ReadIsWhole(r)
  BY <1>1, PartsAreWhole
<1> QED
  BY <1>1, <1>3, <1>4 DEF ArchiveIsComplete, OnePerFile

LEMMA BulkTyped == BulkInv => BTypeOK
<1> SUFFICES ASSUME BulkInv PROVE BTypeOK
  OBVIOUS
<1>1. bulk.todo \subseteq bulk.planned
  BY DEF BulkInv, Accounts
<1>2. bulk.done \in 0..Cardinality(File)
  <2>1. IsFiniteSet(File) /\ Cardinality(File) \in Nat
    BY StoreAssumption, FS_CardinalityType
  <2>2. CASE bulk.pc \notin Active
    BY <2>1, <2>2 DEF BulkInv, Accounts
  <2>3. CASE bulk.pc \in Active
    <3> DEFINE S == FilesOf(bulk.archive) \cup (bulk.failures \cap File)
    <3>1. bulk.done = Cardinality(S) /\ S \subseteq File
      BY <2>3 DEF BulkInv, Accounts, Run, Reads, FilesOf
    <3> HIDE DEF S
    <3>2. Cardinality(S) <= Cardinality(File) /\ Cardinality(S) \in Nat
      BY <2>1, <3>1, FS_Subset, FS_CardinalityType
    <3> QED
      BY <2>1, <3>1, <3>2
  <2> QED
    BY <2>2, <2>3
<1> QED
  BY <1>1, <1>2 DEF BulkInv, BTypeOK, Run


-----------------------------------------------------------------------------
(* The page of pins and files                                              *)

\* The pins that the page knows, in its list and in what is on its way, have been made.
ListInv ==
  /\ made \in 0..MaxPins /\ pins \subseteq 1..made
  /\ fetches \subseteq Fetch /\ \A f \in fetches : f.rows # None => f.rows[1] \subseteq 1..made
  /\ list \in [page : Page, rows : SUBSET (1..made), selected : SUBSET (1..made)]

FxInv ==
  /\ fx \in [bucket : Bucket \cup {None}, files : SUBSET File, preview : {None} \cup Reads]
  /\ fx.preview # None => Parts(fx.preview)
  /\ keyring \in {"none", "fresh", "expired"} /\ user \in {"in", "leaving", "out"} /\ ready \in BOOLEAN

Clicked ==
  [pc : {"new", "ended", "import", "imported", "add", "added", "unpin", "unpinned", "refresh", "browse", "browsed",
         "read", "search", "saved", "setup", "fetch", "retrieved"},
   page : Page, todo : SUBSET Nat, failed : SUBSET Nat, b : Bucket \cup File \cup {None}, rows : SUBSET (Nat \cup File),
   read : {None} \cup Reads, tries : Seq(Bucket)]

\* A removal under way has the pins it is still to remove, and the ones that failed,
\* among those that stand; a read goes on as reads do.
Promised(x, P, m) ==
  /\ x.pc = "read" => Parts(x.read)
  /\ x.pc \in {"unpin", "unpinned"} => x.rows \subseteq 1..m /\ x.rows \cap P \subseteq x.failed \cup x.todo
  /\ x.pc = "unpinned" => x.todo = {}
  /\ x.pc \in {"browse", "browsed"} => x.b \in Bucket \cup {None} /\ x.rows \subseteq File
  /\ x.pc \in {"search", "setup", "retrieved"} => x.b \in File

CallsInv == call \in [Call -> Clicked] /\ \A i \in Call : Promised(call[i], pins, made)

PageInv == ListInv /\ FxInv /\ CallsInv

\* The buckets can be tried one after the other.
LEMMA BucketsInTurn == SetToSeq(Bucket) \in Seq(Bucket)
<1> DEFINE n == Cardinality(Bucket)
<1>1. n \in Nat /\ \E g \in [1..n -> Bucket] : IsInjective(g)
  <2>1. n \in Nat /\ ExistsBijection(1..n, Bucket)
    BY StoreAssumption, FS_CardinalityType
  <2>2. PICK g : g \in Bijection(1..n, Bucket)
    BY <2>1 DEF ExistsBijection
  <2> QED
    BY <2>1, <2>2 DEF Bijection, Injection
<1>2. SetToSeq(Bucket) \in [1..n -> Bucket]
  BY <1>1 DEF SetToSeq
<1> QED
  BY <1>1, <1>2

\* A new call, one that is over, and one that waits for an answer.
LEMMA CallsBegin ==
  ASSUME NEW P, NEW m,
         NEW pc \in {"new", "ended", "import", "imported", "add", "added", "refresh"},
         NEW n \in Page, NEW S \in SUBSET Nat
  PROVE  LET x == [NewCall EXCEPT !.pc = pc, !.page = n, !.todo = S] IN x \in Clicked /\ Promised(x, P, m)
<1>1. <<>> \in Seq(Bucket)
  OBVIOUS
<1> QED
  BY <1>1 DEF NewCall, Clicked, Promised

LEMMA CallOver == ASSUME NEW P, NEW m PROVE Ended \in Clicked /\ Promised(Ended, P, m)
<1>1. <<>> \in Seq(Bucket)
  OBVIOUS
<1> QED
  BY <1>1, PageAssumption DEF NewCall, Ended, Clicked, Promised

\* A call goes on, and the others are what they were: pins that are made later are not theirs.
LEMMA CallGoes ==
  ASSUME CallsInv, NEW i \in Call, NEW x \in Clicked, call' = [call EXCEPT ![i] = x], Promised(x, pins', made'),
         made \in Nat, made' \in Nat, made <= made', pins' \cap (1..made) \subseteq pins
  PROVE  CallsInv'
<1>1. call' \in [Call -> Clicked] /\ call'[i] = x /\ \A j \in Call \ {i} : call'[j] = call[j]
  BY DEF CallsInv
<1>2. ASSUME NEW j \in Call \ {i} PROVE Promised(call[j], pins', made')
  BY <1>2 DEF CallsInv, Promised
<1>3. ASSUME NEW j \in Call PROVE Promised(call'[j], pins', made')
  BY <1>1, <1>2
<1> QED
  BY <1>1, <1>3 DEF CallsInv

LEMMA CallsStay == ASSUME CallsInv, UNCHANGED <<pins, made, call>> PROVE CallsInv'
BY DEF CallsInv, Promised

LEMMA CallEnds ==
  ASSUME ListInv, CallsInv, NEW i \in Call, End(i), UNCHANGED <<pins, made>>
  PROVE  CallsInv'
<1>1. Ended \in Clicked /\ Promised(Ended, pins', made')
  BY CallOver
<1>2. made \in Nat
  BY PageAssumption DEF ListInv
<1>3. PICK x : x = Ended
  OBVIOUS
<1>4. x \in Clicked /\ Promised(x, pins', made') /\ call' = [call EXCEPT ![i] = x]
  BY <1>1, <1>3 DEF End
<1>5. pins' \cap (1..made) \subseteq pins /\ made' = made /\ made <= made
  BY <1>2
<1> QED
  BY <1>2, <1>4, <1>5, CallGoes

LEMMA FxStays == ASSUME FxInv, UNCHANGED <<fx, keyring, user, ready>> PROVE FxInv'
BY DEF FxInv

LEMMA ListStays == ASSUME ListInv, UNCHANGED <<pins, made, fetches, list>> PROVE ListInv'
BY DEF ListInv

\* Pages are asked for, and the list turns to one or loses its selection.
LEMMA PagesAsked ==
  ASSUME ListInv, NEW S \in SUBSET Page, fetches' = fetches \cup {[page |-> n, rows |-> None] : n \in S},
         UNCHANGED <<pins, made>>, list' \in [page : Page, rows : SUBSET (1..made), selected : SUBSET (1..made)]
  PROVE  ListInv'
<1>1. \A f \in fetches' : f \in Fetch /\ (f.rows # None => f.rows[1] \subseteq 1..made)
  BY DEF ListInv, Fetch
<1> QED
  BY <1>1 DEF ListInv

LEMMA PageAsked == ASSUME ListInv, NEW n \in Page, FetchPins(n), UNCHANGED <<pins, made>>,
                          list' \in [page : Page, rows : SUBSET (1..made), selected : SUBSET (1..made)]
                   PROVE  ListInv'
<1>1. fetches' = fetches \cup {[page |-> k, rows |-> None] : k \in {n}}
  BY DEF FetchPins
<1> QED
  BY <1>1, PagesAsked

LEMMA PageTurned ==
  ASSUME ListInv, NEW n \in Page
  PROVE  /\ [list EXCEPT !.page = n] \in [page : Page, rows : SUBSET (1..made), selected : SUBSET (1..made)]
         /\ [list EXCEPT !.selected = {}] \in [page : Page, rows : SUBSET (1..made), selected : SUBSET (1..made)]
BY DEF ListInv


LEMMA PageInit == PInit => PageInv
<1> SUFFICES ASSUME PInit PROVE PageInv
  OBVIOUS
<1>1. made \in 0..MaxPins /\ pins \subseteq 1..made
  BY PageAssumption DEF PInit
<1>2. ListInv
  BY <1>1, PageAssumption DEF PInit, ListInv
<1>3. FxInv
  BY DEF PInit, FxInv
<1>4. NewCall \in Clicked /\ Promised(NewCall, pins, made)
  <2>1. <<>> \in Seq(Bucket)
    OBVIOUS
  <2> QED
    BY <2>1, PageAssumption DEF NewCall, Clicked, Promised
<1> HIDE DEF NewCall
<1>5. CallsInv
  BY <1>4 DEF PInit, CallsInv
<1> QED
  BY <1>2, <1>3, <1>5 DEF PageInv

\* The answers of the list.
LEMMA AnswerPinsKept == ASSUME PageInv, NEW f \in fetches, AnswerPins(f) PROVE PageInv'
<1>1. Rows(f.page) \subseteq 1..made /\ Rows(f.page) \in SUBSET Pin
  <2>1. Rows(f.page) \subseteq pins
    BY DEF Rows
  <2>2. pins \subseteq 1..made /\ 1..made \subseteq Pin
    BY PageAssumption DEF PageInv, ListInv, Pin
  <2> QED
    BY <2>1, <2>2
<1> DEFINE g == [page |-> f.page, rows |-> <<Rows(f.page)>>]
<1>2. fetches' = (fetches \ {f}) \cup {g} /\ UNCHANGED <<made, pins, list>>
  BY DEF AnswerPins
<1> HIDE DEF Rows
<1>3. g \in Fetch /\ g.rows[1] \subseteq 1..made
  BY <1>1 DEF PageInv, ListInv, Fetch
<1> HIDE DEF g
<1>4. ListInv'
  BY <1>2, <1>3 DEF PageInv, ListInv
<1> QED
  BY <1>4, CallsStay, FxStays DEF AnswerPins, PageInv

LEMMA ShowPinsKept == ASSUME PageInv, NEW f \in fetches, ShowPins(f) PROVE PageInv'
<1>1. f.rows[1] \in SUBSET (1..made)
  BY DEF ShowPins, PageInv, ListInv
<1>2. ListInv'
  BY <1>1 DEF ShowPins, PageInv, ListInv
<1> QED
  BY <1>2, CallsStay, FxStays DEF ShowPins, PageInv

LEMMA ListKept ==
  ASSUME PageInv, (\E p \in Pin : ToggleSelectPin(p)) \/ ToggleSelectAll \/ \E f \in fetches : LosePins(f)
  PROVE  PageInv'
<1>1. UNCHANGED <<pins, made, fx, keyring, user, ready, call>> /\ fetches' \subseteq fetches
  BY DEF ToggleSelectPin, ToggleSelectAll, LosePins
<1>2. list' \in [page : Page, rows : SUBSET (1..made), selected : SUBSET (1..made)]
  <2>1. CASE \E f \in fetches : LosePins(f)
    BY <2>1 DEF LosePins, PageInv, ListInv
  <2>2. CASE ToggleSelectAll
    BY <2>2 DEF ToggleSelectAll, PageInv, ListInv
  <2>3. ASSUME NEW p \in Pin, ToggleSelectPin(p)
        PROVE  list' \in [page : Page, rows : SUBSET (1..made), selected : SUBSET (1..made)]
    <3> DEFINE s == IF p \in list.selected THEN list.selected \ {p} ELSE list.selected \cup {p}
    <3>1. s \in SUBSET (1..made) /\ list' = [list EXCEPT !.selected = s]
      BY <2>3 DEF ToggleSelectPin, PageInv, ListInv
    <3> HIDE DEF s
    <3> QED
      BY <3>1 DEF PageInv, ListInv
  <2> QED
    BY <2>1, <2>2, <2>3
<1> QED
  BY <1>1, <1>2, CallsStay, FxStays DEF PageInv, ListInv

\* Clicks and answers that end a call and may ask for pages.
LEMMA EndsKept ==
  ASSUME PageInv, NEW i \in Call,
         \/ \E n \in Page : OpenPage(i, n)
         \/ Search(i) \/ PinAdded(i) \/ PinsUnpinned(i) \/ PinRefreshed(i) \/ FetchPinNodes(i)
  PROVE  PageInv'
<1>1. End(i) /\ UNCHANGED <<pins, made, fx, keyring, user, ready>>
  BY DEF OpenPage, Search, PinAdded, PinsUnpinned, PinRefreshed, FetchPinNodes
<1>2. list.page \in Page /\ call[i].page \in Page /\ 1 \in Page /\ ListInv
  BY PageAssumption DEF PageInv, ListInv, CallsInv, Clicked
<1>3. CASE PinRefreshed(i) \/ FetchPinNodes(i)
  <2>1. UNCHANGED list /\ (UNCHANGED fetches \/ FetchPins(call[i].page))
    BY <1>3 DEF PinRefreshed, FetchPinNodes
  <2>2. list \in [page : Page, rows : SUBSET (1..made), selected : SUBSET (1..made)]
    BY <1>2 DEF ListInv
  <2>3. ListInv'
    BY <1>1, <1>2, <2>1, <2>2, PageAsked, ListStays
  <2> QED
    BY <1>1, <2>3, CallEnds, FxStays DEF PageInv
<1>4. CASE PinsUnpinned(i)
  <2>1. ListInv'
    BY <1>1, <1>2, <1>4, PageAsked, PageTurned DEF PinsUnpinned
  <2> QED
    BY <1>1, <2>1, CallEnds, FxStays DEF PageInv
<1>5. CASE PinAdded(i) \/ Search(i)
  <2>1. PICK S \in SUBSET Page : fetches' = fetches \cup {[page |-> k, rows |-> None] : k \in S}
    <3>1. {call[i].page, 1} \in SUBSET Page /\ {list.page, 1} \in SUBSET Page
      BY <1>2
    <3> QED
      BY <1>5, <3>1 DEF PinAdded, Search
  <2>2. list' = [list EXCEPT !.page = 1]
    BY <1>5 DEF PinAdded, Search
  <2>3. ListInv'
    BY <1>1, <1>2, <2>1, <2>2, PagesAsked, PageTurned
  <2> QED
    BY <1>1, <2>3, CallEnds, FxStays DEF PageInv
<1>6. ASSUME NEW n \in Page, OpenPage(i, n) PROVE PageInv'
  <2>1. ListInv'
    BY <1>1, <1>2, <1>6, PageAsked, PageTurned DEF OpenPage
  <2> QED
    BY <1>1, <2>1, CallEnds, FxStays DEF PageInv
<1> QED
  BY <1>3, <1>4, <1>5, <1>6


\* Pins that are made, and calls that wait for them.
LEMMA MadeKept == ASSUME PageInv, NEW i \in Call, PostPin(i) \/ ImportDag(i) PROVE PageInv'
<1>1. PICK pc \in {"added", "imported"} : Go(i, pc) /\ call[i].pc \in {"add", "import"}
  BY DEF PostPin, ImportDag, At
<1>2. /\ made' = made + 1 /\ pins' = pins \cup {made + 1} /\ made < MaxPins
      /\ UNCHANGED <<fetches, list, fx, keyring, user, ready>>
  BY DEF PostPin, ImportDag
<1>3. made \in Nat /\ made' \in Nat /\ made' \in 0..MaxPins /\ made <= made' /\ 1..made \subseteq 1..made' /\ made + 1 \notin 1..made
  BY <1>2, PageAssumption DEF PageInv, ListInv
<1>4. pins \subseteq 1..made /\ pins' \subseteq 1..made' /\ pins' \cap (1..made) \subseteq pins
  BY <1>2, <1>3 DEF PageInv, ListInv
<1>5. list' \in [page : Page, rows : SUBSET (1..made'), selected : SUBSET (1..made')]
  BY <1>2, <1>3 DEF PageInv, ListInv
<1>6. \A f \in fetches' : f.rows # None => f.rows[1] \subseteq 1..made'
  <2>1. \A f \in fetches : f.rows # None => f.rows[1] \subseteq 1..made
    BY DEF PageInv, ListInv
  <2> QED
    BY <1>2, <1>3, <2>1
<1>7. ListInv'
  BY <1>2, <1>3, <1>4, <1>5, <1>6 DEF PageInv, ListInv
<1>8. PICK x : x = [call[i] EXCEPT !.pc = pc]
  OBVIOUS
<1>9. call' = [call EXCEPT ![i] = x] /\ x \in Clicked /\ Promised(x, pins', made')
  BY <1>1, <1>8 DEF PageInv, CallsInv, Clicked, Promised, Go
<1>10. CallsInv'
  BY <1>3, <1>4, <1>9, CallGoes DEF PageInv
<1> QED
  BY <1>2, <1>7, <1>10, FxStays DEF PageInv

\* A pin that is removed, or that is reported as failed.
LEMMA UnpinOneKept ==
  ASSUME PageInv, NEW i \in Call, NEW p \in Pin, NEW ok \in BOOLEAN, UnpinOne(i, p, ok)
  PROVE  PageInv'
<1>1. PICK y \in Clicked : y = call[i]
  BY DEF PageInv, CallsInv
<1> DEFINE t == y.todo \ {p} e == IF ok THEN y.failed ELSE y.failed \cup {p}
<1>2. /\ pins' = (IF ok THEN pins \ {p} ELSE pins) /\ UNCHANGED <<made, fetches, list, fx, keyring, user, ready>>
      /\ y.pc = "unpin" /\ p \in y.todo
  BY <1>1 DEF UnpinOne, At
<1>3. PICK x : x = [y EXCEPT !.todo = t, !.failed = e]
  OBVIOUS
<1>4. call' = [call EXCEPT ![i] = x]
  BY <1>1, <1>3 DEF UnpinOne, PageInv, CallsInv, Clicked
<1>5. t \in SUBSET Nat /\ e \in SUBSET Nat
  BY <1>1, <1>2, PageAssumption DEF Pin, Clicked
<1>6. y.rows \subseteq 1..made /\ y.rows \cap pins \subseteq y.failed \cup y.todo
  BY <1>1, <1>2 DEF PageInv, CallsInv, Promised
<1>7. y.rows \cap pins' \subseteq e \cup t
  BY <1>2, <1>6
<1> HIDE DEF t, e
<1>8. x \in Clicked /\ x.pc = "unpin" /\ x.rows = y.rows /\ x.todo = t /\ x.failed = e
  BY <1>1, <1>2, <1>3, <1>5 DEF Clicked
<1>9. Promised(x, pins', made')
  BY <1>2, <1>6, <1>7, <1>8 DEF Promised
<1>10. made \in Nat /\ made' = made /\ made <= made' /\ pins' \subseteq pins
  BY <1>2, PageAssumption DEF PageInv, ListInv
<1>11. CallsInv'
  BY <1>4, <1>8, <1>9, <1>10, CallGoes DEF PageInv
<1>12. ListInv'
  BY <1>2, <1>10 DEF PageInv, ListInv
<1> QED
  BY <1>2, <1>11, <1>12, FxStays DEF PageInv

\* A call becomes another, and nothing but the key changes beside it.
LEMMA CallMoves ==
  ASSUME PageInv, NEW i \in Call, NEW x \in Clicked, Promised(x, pins, made), call' = [call EXCEPT ![i] = x],
         UNCHANGED <<pins, made, fetches, list>>, FxInv'
  PROVE  PageInv'
<1>1. made \in Nat /\ made' = made /\ made <= made /\ pins' \cap (1..made) \subseteq pins
  BY PageAssumption DEF PageInv, ListInv
<1>2. Promised(x, pins', made')
  BY DEF Promised
<1>3. CallsInv'
  BY <1>1, <1>2, CallGoes DEF PageInv
<1> QED
  BY <1>3, ListStays DEF PageInv

\* A file begins to be read.
LEMMA ReadOpens ==
  ASSUME NEW b \in Bucket, NEW f \in File, NEW P, NEW m
  PROVE  \E x \in Clicked : x = [NewCall EXCEPT !.pc = "read", !.read = StartRead(b, f)] /\ Promised(x, P, m)
<1>1. PICK r : r = StartRead(b, f) /\ Parts(r) /\ r \in Reads
  BY ReadBegins DEF Parts
<1>2. <<>> \in Seq(Bucket)
  OBVIOUS
<1>3. PICK x : x = [NewCall EXCEPT !.pc = "read", !.read = r]
  OBVIOUS
<1>4. x \in Clicked /\ x.pc = "read" /\ x.read = r
  BY <1>1, <1>2, <1>3, PageAssumption DEF NewCall, Clicked
<1>5. Promised(x, P, m)
  BY <1>1, <1>4 DEF Promised
<1> QED
  BY <1>1, <1>3, <1>4, <1>5

\* A click begins a call.
LEMMA BeginsKept ==
  ASSUME PageInv, NEW i \in Call,
         StartImport(i) \/ AddPin(i) \/ UnpinSelected(i) \/ RefreshPin(i) \/ FetchFxBuckets(i) \/ \E b \in Bucket : Navigate(i, b)
  PROVE  PageInv'
<1>1. UNCHANGED <<pins, made, fetches, list, fx, keyring, user, ready>>
  BY DEF StartImport, AddPin, UnpinSelected, RefreshPin, FetchFxBuckets, Navigate
<1>2. FxInv'
  BY <1>1, FxStays DEF PageInv
<1>3. <<>> \in Seq(Bucket)
  OBVIOUS
<1>4. list.page \in Page /\ list.rows \subseteq 1..made /\ list.selected \subseteq 1..made /\ 1..made \subseteq Nat
  BY PageAssumption DEF PageInv, ListInv
<1>5. \E x \in Clicked : Promised(x, pins, made) /\ call' = [call EXCEPT ![i] = x]
  <2>1. CASE StartImport(i)
    BY <1>3, <1>4, <2>1, PageAssumption DEF StartImport, Begin, NewCall, Clicked, Promised
  <2>2. CASE AddPin(i)
    BY <1>3, <1>4, <2>2, PageAssumption DEF AddPin, Begin, NewCall, Clicked, Promised
  <2>3. CASE UnpinSelected(i)
    BY <1>3, <1>4, <2>3, PageAssumption DEF UnpinSelected, Begin, NewCall, Clicked, Promised
  <2>4. ASSUME NEW p \in list.rows, Begin(i, [NewCall EXCEPT !.pc = "refresh", !.page = list.page, !.todo = {p}])
        PROVE  \E x \in Clicked : Promised(x, pins, made) /\ call' = [call EXCEPT ![i] = x]
    BY <1>3, <1>4, <2>4, PageAssumption DEF Begin, NewCall, Clicked, Promised
  <2>5. CASE FetchFxBuckets(i)
    BY <1>3, <1>4, <2>5, PageAssumption DEF FetchFxBuckets, Begin, NewCall, Clicked, Promised
  <2>6. ASSUME NEW b \in Bucket, Navigate(i, b)
        PROVE  \E x \in Clicked : Promised(x, pins, made) /\ call' = [call EXCEPT ![i] = x]
    BY <1>3, <1>4, <2>6, PageAssumption DEF Navigate, Begin, NewCall, Clicked, Promised
  <2> QED
    BY <2>1, <2>2, <2>3, <2>4, <2>5, <2>6 DEF RefreshPin
<1> QED
  BY <1>1, <1>2, <1>5, CallMoves


\* Files that are listed, shown and read.
LEMMA BrowseKept == ASSUME PageInv, NEW i \in Call, ListFiles(i) \/ ShowFiles(i) PROVE PageInv'
<1>1. PICK y \in Clicked : y = call[i] /\ Promised(y, pins, made)
  BY DEF PageInv, CallsInv
<1>2. CASE ListFiles(i)
  <2>1. PICK R : /\ call' = [call EXCEPT ![i].pc = "browsed", ![i].rows = R] /\ R \subseteq File
                 /\ y.pc = "browse" /\ UNCHANGED <<pins, made, fetches, list, fx, keyring, user, ready>>
    BY <1>1, <1>2, ListedAreFiles DEF ListFiles, At
  <2>2. PICK x : x = [y EXCEPT !.pc = "browsed", !.rows = R]
    OBVIOUS
  <2>3. call' = [call EXCEPT ![i] = x] /\ x \in Clicked /\ Promised(x, pins, made)
    BY <1>1, <2>1, <2>2 DEF PageInv, CallsInv, Clicked, Promised
  <2>4. FxInv'
    BY <2>1, FxStays DEF PageInv
  <2> QED
    BY <2>1, <2>3, <2>4, CallMoves
<1>3. CASE ShowFiles(i)
  <2>1. y.b \in Bucket \cup {None} /\ y.rows \subseteq File
    BY <1>1, <1>3 DEF ShowFiles, At, Promised
  <2>2. FxInv'
    BY <1>1, <1>3, <2>1 DEF ShowFiles, FxInv, PageInv
  <2>3. CallsInv' /\ ListInv'
    BY <1>3, CallEnds, ListStays DEF ShowFiles, PageInv
  <2> QED
    BY <2>2, <2>3 DEF PageInv
<1> QED
  BY <1>2, <1>3

LEMMA OpensKept ==
  ASSUME PageInv, NEW i \in Call, NEW f \in File, OpenFile(i, f) \/ FetchPlaylists(i, f) PROVE PageInv'
<1>1. FxInv' /\ UNCHANGED <<pins, made, fetches, list>>
  BY FxStays DEF OpenFile, FetchPlaylists, PageInv
<1>2. PICK b \in Bucket : Begin(i, [NewCall EXCEPT !.pc = "read", !.read = StartRead(b, f)])
  BY StoreAssumption DEF OpenFile, FetchPlaylists, PageInv, FxInv
<1>3. PICK x \in Clicked : x = [NewCall EXCEPT !.pc = "read", !.read = StartRead(b, f)] /\ Promised(x, pins, made)
  BY ReadOpens
<1>4. call' = [call EXCEPT ![i] = x]
  BY <1>2, <1>3 DEF Begin
<1> QED
  BY <1>1, <1>3, <1>4, CallMoves

LEMMA ReadsKept ==
  ASSUME STypeOK, PageInv, NEW i \in Call, ReadStep(i) \/ ReadFails(i) \/ DownloadFxFile(i) \/ PreviewFxFile(i)
  PROVE  PageInv'
<1>1. PICK y \in Clicked : y = call[i] /\ Parts(y.read)
  BY DEF PageInv, CallsInv, Promised, ReadStep, ReadFails, DownloadFxFile, PreviewFxFile, At
<1>2. CASE ReadStep(i) \/ ReadFails(i)
  <2>1. PICK r : call' = [call EXCEPT ![i].read = r] /\ Parts(r)
    BY <1>1, <1>2, ReadGoes, ReadFailed DEF ReadStep, ReadFails
  <2>2. PICK x : x = [y EXCEPT !.read = r]
    OBVIOUS
  <2>3. call' = [call EXCEPT ![i] = x] /\ x \in Clicked /\ x.pc = "read" /\ x.read = r
    BY <1>1, <1>2, <2>1, <2>2 DEF PageInv, CallsInv, Clicked, Parts, ReadStep, ReadFails, At
  <2>4. Promised(x, pins, made)
    BY <2>1, <2>3 DEF Promised
  <2>5. FxInv' /\ UNCHANGED <<pins, made, fetches, list>>
    BY <1>2, FxStays DEF ReadStep, ReadFails, PageInv
  <2> QED
    BY <2>3, <2>4, <2>5, CallMoves
<1>3. CASE DownloadFxFile(i)
  BY <1>3, CallEnds, ListStays, FxStays DEF DownloadFxFile, PageInv
<1>4. CASE PreviewFxFile(i)
  <2>1. FxInv'
    BY <1>1, <1>4 DEF PreviewFxFile, PageInv, FxInv, Parts
  <2>2. CallsInv' /\ ListInv'
    BY <1>4, CallEnds, ListStays DEF PreviewFxFile, PageInv
  <2> QED
    BY <2>1, <2>2 DEF PageInv
<1> QED
  BY <1>2, <1>3, <1>4

\* A download by its CID goes from bucket to bucket.
LEMMA SearchKept ==
  ASSUME STypeOK, PageInv, NEW i \in Call, TryBucket(i) \/ BucketFails(i) \/ NotInAnyBucket(i) \/ DownloadSaved(i)
  PROVE  PageInv'
<1>1. PICK y \in Clicked : y = call[i] /\ Promised(y, pins, made)
  BY DEF PageInv, CallsInv
<1>2. FxInv' /\ UNCHANGED <<pins, made, fetches, list>>
  BY FxStays DEF TryBucket, BucketFails, NotInAnyBucket, DownloadSaved, PageInv
<1>3. ASSUME y.tries # <<>> PROVE Tail(y.tries) \in Seq(Bucket)
  <2>1. PICK s \in Seq(Bucket) : s = y.tries
    BY <1>1 DEF Clicked
  <2> QED
    BY <1>3, <2>1
<1>4. ASSUME NEW x, y.tries # <<>>, y.pc = "search", x = [y EXCEPT !.tries = Tail(y.tries)], call' = [call EXCEPT ![i] = x]
      PROVE  PageInv'
  <2>1. PICK t : t = Tail(y.tries) /\ t \in Seq(Bucket)
    BY <1>3, <1>4
  <2>2. x = [y EXCEPT !.tries = t]
    BY <1>4, <2>1
  <2>3. x \in Clicked /\ Promised(x, pins, made)
    BY <1>1, <1>4, <2>1, <2>2 DEF Clicked, Promised
  <2> QED
    BY <1>2, <1>4, <2>3, CallMoves
<1>5. ASSUME End(i) PROVE PageInv'
  BY <1>2, <1>5, CallEnds, ListStays DEF PageInv
<1>6. CASE BucketFails(i)
  <2>1. PICK x : x = [y EXCEPT !.tries = Tail(y.tries)]
    OBVIOUS
  <2>2. call' = [call EXCEPT ![i] = x] /\ y.tries # <<>> /\ y.pc = "search"
    BY <1>1, <1>6, <2>1 DEF BucketFails, At, PageInv, CallsInv
  <2> QED
    BY <1>4, <2>1, <2>2
<1>7. CASE NotInAnyBucket(i) \/ DownloadSaved(i)
  BY <1>5, <1>7 DEF NotInAnyBucket, DownloadSaved
<1>8. CASE TryBucket(i)
  <2>1. PICK x : x = [y EXCEPT !.tries = Tail(y.tries)]
    OBVIOUS
  <2>2. CASE call' = [call EXCEPT ![i].tries = Tail(@)]
    <3>1. call' = [call EXCEPT ![i] = x] /\ y.tries # <<>> /\ y.pc = "search"
      BY <1>1, <1>8, <2>1, <2>2 DEF TryBucket, At, PageInv, CallsInv
    <3> QED
      BY <1>4, <2>1, <3>1
  <2>3. PICK r : r = FetchRaw(StartRead(Head(y.tries), y.b)) /\ r \in Reads
    <3>1. y.b \in File /\ y.tries # <<>>
      BY <1>1, <1>8 DEF TryBucket, At, Promised
    <3>2. PICK s \in Seq(Bucket) : s = y.tries
      BY <1>1 DEF Clicked
    <3>3. Head(y.tries) \in Bucket
      BY <3>1, <3>2
    <3> QED
      BY <3>1, <3>3, RawHas
  <2>4. CASE call' = [call EXCEPT ![i].pc = "saved", ![i].read = r]
    <3>1. PICK z : z = [y EXCEPT !.pc = "saved", !.read = r]
      OBVIOUS
    <3>2. call' = [call EXCEPT ![i] = z] /\ z \in Clicked /\ z.pc = "saved"
      BY <1>1, <2>3, <2>4, <3>1 DEF PageInv, CallsInv, Clicked
    <3>3. Promised(z, pins, made)
      BY <3>2 DEF Promised
    <3> QED
      BY <1>2, <3>2, <3>3, CallMoves
  <2> QED
    BY <1>1, <1>8, <2>2, <2>3, <2>4 DEF TryBucket
<1> QED
  BY <1>6, <1>7, <1>8

LEMMA DownloadKept == ASSUME PageInv, NEW i \in Call, NEW f \in File, DownloadDecrypted(i, f) PROVE PageInv'
<1>1. FxInv' /\ UNCHANGED <<pins, made, fetches, list>>
  BY FxStays DEF DownloadDecrypted, PageInv
<1>2. PICK s \in Seq(Bucket) : s = SetToSeq(Bucket)
  BY BucketsInTurn
<1>3. <<>> \in Seq(Bucket)
  OBVIOUS
<1>4. PICK x : x = IF ready THEN [NewCall EXCEPT !.pc = "search", !.tries = s, !.b = f]
                   ELSE [NewCall EXCEPT !.pc = "setup", !.b = f]
  OBVIOUS
<1>5. call' = [call EXCEPT ![i] = x]
  BY <1>2, <1>4 DEF DownloadDecrypted, Begin
<1>6. x \in Clicked /\ x.pc \in {"search", "setup"} /\ x.b = f
  BY <1>3, <1>4, PageAssumption DEF NewCall, Clicked
<1>7. Promised(x, pins, made)
  BY <1>6 DEF Promised
<1> QED
  BY <1>1, <1>5, <1>6, <1>7, CallMoves

\* The key is stored, touched, looked at, and cleared.
LEMMA KeyKept ==
  ASSUME PageInv, NEW i \in Call,
         \/ StoreKey(i) \/ DownloadDecryptedWithKey(i) \/ TouchKey(i) \/ CheckKey(i) \/ Logout(i) \/ CallFails(i)
         \/ \E f \in File : RetrieveKey(i, f)
  PROVE  PageInv'
<1>1. UNCHANGED <<pins, made, fetches, list, fx>>
  BY DEF StoreKey, DownloadDecryptedWithKey, TouchKey, CheckKey, Logout, CallFails, RetrieveKey
<1>2. FxInv'
  BY DEF PageInv, FxInv, StoreKey, PutKey, DownloadDecryptedWithKey, TouchKey, CheckKey, Logout, CallFails, RetrieveKey
<1>3. ASSUME End(i) PROVE PageInv'
  BY <1>1, <1>2, <1>3, CallEnds, ListStays DEF PageInv
<1>6. CASE StoreKey(i)
  <2>1. PICK x : x = [call[i] EXCEPT !.pc = "fetch"]
    OBVIOUS
  <2>2. call' = [call EXCEPT ![i] = x] /\ x \in Clicked /\ x.pc = "fetch"
    BY <1>6, <2>1 DEF StoreKey, Go, PageInv, CallsInv, Clicked
  <2>3. Promised(x, pins, made)
    BY <2>2 DEF Promised
  <2> QED
    BY <1>1, <1>2, <2>2, <2>3, CallMoves
<1>4. CASE TouchKey(i)
  <2>1. call[i].b \in File
    BY <1>4 DEF TouchKey, At, PageInv, CallsInv, Promised
  <2>2. Home[call[i].b] \in Bucket
    BY <2>1, StoreAssumption
  <2>3. PICK x \in Clicked : /\ x = [NewCall EXCEPT !.pc = "read", !.read = StartRead(Home[call[i].b], call[i].b)]
                             /\ Promised(x, pins, made)
    BY <2>1, <2>2, ReadOpens
  <2>4. call' = [call EXCEPT ![i] = x]
    BY <1>4, <2>3 DEF TouchKey, Begin
  <2> QED
    BY <1>1, <1>2, <2>3, <2>4, CallMoves
<1>5. ASSUME NEW f \in File, Begin(i, [NewCall EXCEPT !.pc = "retrieved", !.b = f]) PROVE PageInv'
  <2>1. <<>> \in Seq(Bucket)
    OBVIOUS
  <2>2. PICK x : x = [NewCall EXCEPT !.pc = "retrieved", !.b = f]
    OBVIOUS
  <2>3. x \in Clicked /\ Promised(x, pins, made) /\ call' = [call EXCEPT ![i] = x]
    BY <1>5, <2>1, <2>2, PageAssumption DEF NewCall, Clicked, Promised, Begin
  <2> QED
    BY <1>1, <1>2, <2>3, CallMoves
<1> QED
  BY <1>3, <1>4, <1>5, <1>6 DEF DownloadDecryptedWithKey, CheckKey, Logout, CallFails, RetrieveKey

LEMMA AnsweredKept == ASSUME PageInv, NEW i \in Call, UnpinAnswered(i) PROVE PageInv'
<1>1. FxInv' /\ UNCHANGED <<pins, made, fetches, list>>
  BY FxStays DEF UnpinAnswered, PageInv
<1>2. PICK x : x = [call[i] EXCEPT !.pc = "unpinned"]
  OBVIOUS
<1>3. call' = [call EXCEPT ![i] = x] /\ x \in Clicked /\ Promised(x, pins, made)
  BY <1>2 DEF UnpinAnswered, Go, At, PageInv, CallsInv, Clicked, Promised
<1> QED
  BY <1>1, <1>3, CallMoves

LEMMA AsideKept == ASSUME PageInv, CloseFxPreview \/ ClearAllKeys \/ KeyExpires PROVE PageInv'
<1>1. FxInv'
  BY DEF PageInv, FxInv, CloseFxPreview, ClearAllKeys, KeyExpires
<1> QED
  BY <1>1, CallsStay, ListStays DEF PageInv, CloseFxPreview, ClearAllKeys, KeyExpires

LEMMA PageKept ==
  ASSUME STypeOK, PageInv, (\E i \in Call : ClickPins(i) \/ ClickFiles(i)) \/ PageStep \/ PageFault
  PROVE  PageInv'
<1>1. ASSUME NEW i \in Call, ClickPins(i) PROVE PageInv'
  BY <1>1, EndsKept, BeginsKept DEF ClickPins
<1>2. ASSUME NEW i \in Call, ClickFiles(i) PROVE PageInv'
  BY <1>2, BeginsKept, OpensKept, DownloadKept, KeyKept DEF ClickFiles
<1>3. CASE PageStep
  <2>1. ASSUME NEW i \in Call, NEW p \in Pin, UnpinOne(i, p, p \in pins) PROVE PageInv'
    <3>1. PICK ok \in BOOLEAN : ok <=> p \in pins
      OBVIOUS
    <3>2. UnpinOne(i, p, ok)
      BY <2>1, <3>1 DEF UnpinOne
    <3> QED
      BY <3>2, UnpinOneKept
  <2>2. ASSUME NEW f \in fetches, AnswerPins(f) \/ ShowPins(f) PROVE PageInv'
    BY <2>2, AnswerPinsKept, ShowPinsKept
  <2>3. ASSUME NEW i \in Call,
               \/ PostPin(i) \/ ImportDag(i) \/ PinAdded(i) \/ UnpinAnswered(i) \/ PinsUnpinned(i) \/ PinRefreshed(i)
        PROVE  PageInv'
    BY <2>3, MadeKept, EndsKept, AnsweredKept
  <2>4. ASSUME NEW i \in Call,
               \/ ListFiles(i) \/ ShowFiles(i) \/ ReadStep(i) \/ DownloadFxFile(i) \/ PreviewFxFile(i)
               \/ TryBucket(i) \/ NotInAnyBucket(i) \/ DownloadSaved(i) \/ StoreKey(i) \/ DownloadDecryptedWithKey(i) \/ TouchKey(i)
        PROVE  PageInv'
    BY <2>4, BrowseKept, ReadsKept, SearchKept, KeyKept
  <2>5. CASE (\E p \in Pin : ToggleSelectPin(p)) \/ ToggleSelectAll \/ CloseFxPreview \/ ClearAllKeys \/ KeyExpires
    BY <2>5, ListKept, AsideKept
  <2> QED
    BY <1>3, <2>1, <2>2, <2>3, <2>4, <2>5 DEF PageStep
<1>4. CASE PageFault
  BY <1>4, ListKept, ReadsKept, SearchKept, KeyKept, UnpinOneKept DEF PageFault
<1> QED
  BY <1>1, <1>2, <1>3, <1>4


-----------------------------------------------------------------------------
(* All of them over one store                                              *)

FilesInv ==
  /\ scene \in Scene /\ events \in 0..MaxEvents[scene] /\ faults \in 0..MaxFaults
  /\ STypeOK /\ PageInv /\ BulkInv /\ SharingInv /\ GatewayInv

\* What stands still stays as it is.
LEMMA StoreStays == ASSUME STypeOK, UNCHANGED svars PROVE STypeOK'
BY DEF STypeOK, svars

LEMMA PageStays == ASSUME PageInv, UNCHANGED pvars PROVE PageInv'
<1>1. /\ UNCHANGED <<pins, made, fetches, list>> /\ UNCHANGED <<pins, made, call>>
      /\ UNCHANGED <<fx, keyring, user, ready>>
  BY DEF pvars
<1> QED
  BY <1>1, ListStays, CallsStay, FxStays DEF PageInv

LEMMA BulkStays == ASSUME BulkInv, UNCHANGED bvars PROVE BulkInv'
BY DEF BulkInv, bvars

LEMMA ShareStays == ASSUME SharingInv, UNCHANGED hvars PROVE SharingInv'
BY SharingStays DEF hvars

LEMMA GatewayStays == ASSUME GatewayInv, UNCHANGED gvars PROVE GatewayInv'
BY DEF GatewayInv, GTypeOK, CopyStands, Seen, Young, gvars

\* None of the readers writes to the store.
LEMMA ReadersOnly ==
  /\ (\E i \in Call : ClickPins(i) \/ ClickFiles(i)) \/ PageStep \/ PageFault => UNCHANGED svars
  /\ Cancel \/ (\E picker \in BOOLEAN : Start(picker)) \/ BulkStep \/ BulkFault => UNCHANGED svars
<1>1. ASSUME NEW i \in Call, ClickPins(i) PROVE UNCHANGED svars
  BY <1>1 DEF ClickPins, OpenPage, Search, AddPin, StartImport, UnpinSelected, RefreshPin, FetchPinNodes, svars
<1>2. ASSUME NEW i \in Call, ClickFiles(i) PROVE UNCHANGED svars
  BY <1>2 DEF ClickFiles, FetchFxBuckets, CheckKey, Logout, Navigate, OpenFile, FetchPlaylists, DownloadDecrypted,
     RetrieveKey, svars
<1>3. ASSUME PageStep PROVE UNCHANGED svars
  <2>1. ASSUME NEW f \in fetches, AnswerPins(f) \/ ShowPins(f) PROVE UNCHANGED svars
    BY <2>1 DEF AnswerPins, ShowPins, svars
  <2>2. CASE (\E p \in Pin : ToggleSelectPin(p)) \/ ToggleSelectAll \/ CloseFxPreview \/ ClearAllKeys \/ KeyExpires
    BY <2>2 DEF ToggleSelectPin, ToggleSelectAll, CloseFxPreview, ClearAllKeys, KeyExpires, svars
  <2>3. ASSUME NEW i \in Call, NEW p \in Pin, UnpinOne(i, p, p \in pins) PROVE UNCHANGED svars
    BY <2>3 DEF UnpinOne, svars
  <2>4. ASSUME NEW i \in Call,
               \/ PostPin(i) \/ ImportDag(i) \/ PinAdded(i) \/ UnpinAnswered(i) \/ PinsUnpinned(i) \/ PinRefreshed(i)
               \/ ListFiles(i) \/ ShowFiles(i) \/ ReadStep(i) \/ DownloadFxFile(i) \/ PreviewFxFile(i)
               \/ TryBucket(i) \/ NotInAnyBucket(i) \/ DownloadSaved(i) \/ StoreKey(i) \/ DownloadDecryptedWithKey(i) \/ TouchKey(i)
        PROVE  UNCHANGED svars
    BY <2>4 DEF PostPin, ImportDag, PinAdded, UnpinAnswered, PinsUnpinned, PinRefreshed, ListFiles, ShowFiles, ReadStep,
       DownloadFxFile, PreviewFxFile, TryBucket, NotInAnyBucket, DownloadSaved, StoreKey, DownloadDecryptedWithKey,
       TouchKey, svars
  <2> QED
    BY <1>3, <2>1, <2>2, <2>3, <2>4 DEF PageStep
<1>4. ASSUME PageFault PROVE UNCHANGED svars
  <2>1. ASSUME NEW i \in Call, ReadFails(i) \/ BucketFails(i) \/ CallFails(i) PROVE UNCHANGED svars
    BY <2>1 DEF ReadFails, BucketFails, CallFails, svars
  <2>2. ASSUME NEW i \in Call, NEW p \in Pin, UnpinOne(i, p, FALSE) PROVE UNCHANGED svars
    BY <2>2 DEF UnpinOne, svars
  <2>3. ASSUME NEW f \in fetches, LosePins(f) PROVE UNCHANGED svars
    BY <2>3 DEF LosePins, svars
  <2> QED
    BY <1>4, <2>1, <2>2, <2>3 DEF PageFault
<1>5. ASSUME Cancel \/ (\E picker \in BOOLEAN : Start(picker)) \/ BulkStep \/ BulkFault PROVE UNCHANGED svars
  BY <1>5 DEF Cancel, Start, BulkStep, BulkFault, PickNone, Pick, CancelledEarly, Dismiss, AllListed, PoolDone, Save,
     CancelledLate, Finish, ListBucket, Launch, LateWorker, WorkerReads, WorkerEnds, StartFails, ModulePanics, SaveFails,
     BucketUnlisted, Return, svars
<1> QED
  BY <1>1, <1>2, <1>3, <1>4, <1>5

\* Whatever happens is counted up to a bound.
LEMMA Counted ==
  ASSUME scene \in Scene, events \in 0..MaxEvents[scene], faults \in 0..MaxFaults, Event \/ Fault \/ NoCount
  PROVE  (scene \in Scene /\ events \in 0..MaxEvents[scene] /\ faults \in 0..MaxFaults)'
<1>1. MaxEvents[scene] \in Nat /\ MaxFaults \in Nat
  BY FilesAssumption
<1> QED
  BY <1>1 DEF Event, Fault, NoCount

LEMMA FilesInit == Init => FilesInv
<1> SUFFICES ASSUME Init PROVE FilesInv
  OBVIOUS
<1>1. MaxEvents[scene] \in Nat /\ MaxFaults \in Nat
  BY FilesAssumption DEF Init
<1> QED
  BY <1>1, StoreInit, PageInit, BulkInit, SharingInit, GatewayInit DEF Init, FilesInv

LEMMA FilesKept == FilesInv /\ [Next]_vars => FilesInv'
<1> SUFFICES ASSUME FilesInv, [Next]_vars PROVE FilesInv'
  OBVIOUS
<1>0. /\ scene \in Scene /\ events \in 0..MaxEvents[scene] /\ faults \in 0..MaxFaults
      /\ STypeOK /\ PageInv /\ BulkInv /\ SharingInv /\ GatewayInv
  BY DEF FilesInv
<1>1. CASE StoreNext
  <2>1. STypeOK'
    BY <1>0, <1>1, UploadKept, PutObjectKept, DeleteKept, OrphanKept DEF StoreNext
  <2>2. UNCHANGED <<pvars, bvars, hvars, gvars>> /\ (Event \/ Fault \/ NoCount)
    BY <1>1 DEF StoreNext
  <2>3. PageInv' /\ BulkInv' /\ SharingInv' /\ GatewayInv'
    BY <1>0, <2>2, PageStays, BulkStays, ShareStays, GatewayStays
  <2> QED
    BY <1>0, <2>1, <2>2, <2>3, Counted DEF FilesInv
<1>2. CASE PageNext
  <2>1. UNCHANGED <<bvars, hvars, gvars>> /\ (Event \/ Fault \/ NoCount)
    BY <1>2 DEF PageNext
  <2>2. (\E i \in Call : ClickPins(i) \/ ClickFiles(i)) \/ PageStep \/ PageFault
    BY <1>2 DEF PageNext
  <2>3. STypeOK' /\ PageInv' /\ BulkInv' /\ SharingInv' /\ GatewayInv'
    BY <1>0, <2>1, <2>2, PageKept, ReadersOnly, StoreStays, BulkStays, ShareStays, GatewayStays
  <2> QED
    BY <1>0, <2>1, <2>3, Counted DEF FilesInv
<1>3. CASE BulkNext
  <2>1. UNCHANGED <<pvars, hvars, gvars>> /\ (Event \/ Fault \/ NoCount)
    BY <1>3 DEF BulkNext
  <2>2. Cancel \/ (\E picker \in BOOLEAN : Start(picker)) \/ BulkStep \/ BulkFault
    BY <1>3 DEF BulkNext
  <2>3. STypeOK' /\ PageInv' /\ BulkInv' /\ SharingInv' /\ GatewayInv'
    BY <1>0, <2>1, <2>2, BulkKept, ReadersOnly, StoreStays, PageStays, ShareStays, GatewayStays
  <2> QED
    BY <1>0, <2>1, <2>3, Counted DEF FilesInv
<1>4. CASE ShareNext
  <2>1. UNCHANGED <<pvars, bvars, gvars>> /\ (Event \/ Fault \/ NoCount)
    BY <1>4 DEF ShareNext
  <2>0. UNCHANGED svars
    BY <1>4 DEF ShareNext
  <2>2. Sharer \/ (\E t \in Tab, l \in Link : OpenLink(t, l)) \/ ShareStep \/ ShareFault
    BY <1>4 DEF ShareNext
  <2>3. STypeOK' /\ PageInv' /\ BulkInv' /\ SharingInv' /\ GatewayInv'
    BY <1>0, <2>0, <2>1, <2>2, SharingKept, StoreStays, PageStays, BulkStays, GatewayStays
  <2> QED
    BY <1>0, <2>1, <2>3, Counted DEF FilesInv
<1>5. CASE GatewayNext
  <2>1. UNCHANGED <<svars, pvars, bvars, hvars>> /\ (Event \/ Fault \/ NoCount)
    BY <1>5 DEF GatewayNext
  <2>2. GatewayArrivals \/ PolicyChanges \/ GatewayStep \/ GatewayFault
    BY <1>5 DEF GatewayNext
  <2>3. STypeOK' /\ PageInv' /\ BulkInv' /\ SharingInv' /\ GatewayInv'
    BY <1>0, <2>1, <2>2, GatewayKept, StoreStays, PageStays, BulkStays, ShareStays
  <2> QED
    BY <1>0, <2>1, <2>3, Counted DEF FilesInv
<1>6. CASE UNCHANGED vars
  <2>1. UNCHANGED <<svars, pvars, bvars, hvars, gvars>> /\ NoCount
    BY <1>6 DEF vars, NoCount
  <2>2. STypeOK' /\ PageInv' /\ BulkInv' /\ SharingInv' /\ GatewayInv'
    BY <1>0, <2>1, StoreStays, PageStays, BulkStays, ShareStays, GatewayStays
  <2> QED
    BY <1>0, <2>1, <2>2, Counted DEF FilesInv
<1> QED
  BY <1>1, <1>2, <1>3, <1>4, <1>5, <1>6 DEF Next

\* The invariant of the store, of its readers and of the gateway.
THEOREM FilesInvariance == Spec => []FilesInv
<1> QED
  BY FilesInit, FilesKept, PTL DEF Spec

\* What decryptFxFile reads for a download or a preview of a listed file, and what is read of
\* the lists of shares and playlists, is one version, whole, or the read fails.
THEOREM ReadsAreWhole == Spec => []NoTornFile
<1>1. FilesInv => NoTornFile
  <2> SUFFICES ASSUME FilesInv PROVE NoTornFile
    OBVIOUS
  <2>1. \A i \in Call : At(i, "read") => ReadIsWhole(call[i].read)
    BY PartsAreWhole DEF At, FilesInv, PageInv, CallsInv, Promised
  <2>2. fx.preview # None => ReadIsWhole(fx.preview)
    BY PartsAreWhole DEF FilesInv, PageInv, FxInv
  <2> QED
    BY <2>1, <2>2 DEF NoTornFile
<1> QED
  BY <1>1, FilesInvariance, PTL

\* A removal that is answered has removed each pin or reported it (POST /api/pins/bulk-unpin).
THEOREM RemovedOrReported == Spec => []UnpinnedOrReported
<1>1. FilesInv => UnpinnedOrReported
  BY DEF FilesInv, PageInv, CallsInv, Promised, UnpinnedOrReported, At
<1> QED
  BY <1>1, FilesInvariance, PTL

\* An archive that is saved holds each file that was found, or lists it as failed
\* (downloadAllFxFiles).
THEOREM ArchiveStands == Spec => []ArchiveIsComplete
<1>1. FilesInv => ArchiveIsComplete
  BY ArchiveFollows DEF FilesInv
<1> QED
  BY <1>1, FilesInvariance, PTL

\* A visitor sees a folder no older than the link that was opened found it
\* (PUT and GET /api/share/v2/manifest).
THEOREM FolderStands == Spec => []FolderIsCurrent
<1>1. FilesInv => FolderIsCurrent
  BY FolderFollows DEF FilesInv
<1> QED
  BY <1>1, FilesInvariance, PTL

\* Content whose policy is as old as the gateway remembers policies is refused (getBlockedCidMode).
THEOREM BlockedStaysOut == Spec => []BlockedIsRefused
<1>1. FilesInv => BlockedIsRefused
  BY BlockedFollows DEF FilesInv
<1> QED
  BY <1>1, FilesInvariance, PTL

\* The types of the page, of the download, of the links and of the gateway.
THEOREM FilesTypeCorrect == Spec => []TypeOK
<1>1. FilesInv => TypeOK
  <2> SUFFICES ASSUME FilesInv PROVE TypeOK
    OBVIOUS
  <2>1. PTypeOK
    <3>1. 1..made \subseteq Pin
      BY PageAssumption DEF FilesInv, PageInv, ListInv, Pin
    <3>2. pins \subseteq Pin /\ list.page \in Page /\ list.rows \subseteq Pin /\ list.selected \subseteq Pin
      BY <3>1 DEF FilesInv, PageInv, ListInv
    <3> QED
      BY <3>2 DEF FilesInv, PageInv, ListInv, FxInv, PTypeOK
  <2>2. HTypeOK
    <3>1. manifest.encrypted \in Nat /\ manifest.plain \in Nat
      BY DEF FilesInv, SharingInv, ManifestStands
    <3> QED
      BY <3>1, SharingAssumption DEF FilesInv, SharingInv, ManifestStands, HTypeOK
  <2>3. BTypeOK /\ GTypeOK
    BY BulkTyped DEF FilesInv, GatewayInv
  <2> QED
    BY <2>1, <2>2, <2>3 DEF FilesInv, TypeOK
<1> QED
  BY <1>1, FilesInvariance, PTL
=============================================================================
