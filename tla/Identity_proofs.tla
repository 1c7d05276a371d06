--------------------------- MODULE Identity_proofs ----------------------------
(***************************************************************************)
(* Who is who, for any number of browsers, users, vaults, keys, challenges,*)
(* AIs, tabs, calls and tokens: the accounts of the web UI, and the keys,  *)
(* grants and scoped tokens of the agents that the connector signs in.     *)
(***************************************************************************)
EXTENDS Accounts, Connector, FiniteSetTheorems, WellFoundedInduction, TLAPS

-----------------------------------------------------------------------------
(***************************************************************************)
(* Sign-in, vaults and keys: Accounts                                      *)
(***************************************************************************)

Registers == {"register-mode-b", "register-mode-c"}
SignUp    == {"newUser", "userKey", "userSession", "userCode", "link"}
Erasing   == {"eraseKeys", "eraseCodes", "erase"}

Signature == [signed : [purpose : Purpose \cup {"none"}, vault : Vault \cup {NoUser},
                        nonce : Nonce \cup {0}],
              by : PubKey \cup {NoKey}]

Req == [op : {"none", "key", "delete", "codes", "erase", "login"} \cup Purpose,
        pc : {"idle", "challenge", "oauth", "store", "lookup", "activeKey", "newKey", "keySession",
              "answer", "dropSession", "defaultCode", "namedCode", "dropCode"} \cup SignUp \cup Erasing,
        user : User \cup {NoUser}, code : Code \cup {0}, by : User \cup {NoUser},
        key : ApiKey \cup {0} \cup {Newest(S) : S \in SUBSET ApiKey}, pub : PubKey \cup {NoKey}, proof : Signature,
        isNew : BOOLEAN, signed : BOOLEAN,
        made : SUBSET ApiKey, open : SUBSET ApiKey, rows : SUBSET ApiKey, codes : SUBSET Code]

\* What a request is about, by the place it is at.
Shaped(r) ==
  /\ r.op = "login" => r.user \in Oauth
  /\ r.op \in Purpose => r.user \in Vault /\ r.pub \in PubKey
  /\ r.signed => r.op = "login"
  /\ r.pc \in {"challenge", "oauth", "store", "lookup"} => r.op \in Purpose
  /\ r.pc \in SignUp => r.op = "login"
  /\ r.pc = "link" => r.by \in User /\ r.code \in Code

Typed == TypeOK /\ call \in [Browser -> Req] /\ issued \in Nat /\ spent \in [Nonce -> Nat]
Shapes == \A b \in Browser : Shaped(call[b])

\* A challenge that is still in the store has let no request through, and no
\* other vault has it.
Unspent ==
  /\ \A n \in Nonce : n > issued => spent[n] = 0
  /\ \A v \in Vault : challenge[v] # None =>
       /\ challenge[v].nonce \in Nonce /\ challenge[v].nonce <= issued
       /\ spent[challenge[v].nonce] = 0
       /\ \A w \in Vault \ {v} : challenge[w].nonce # challenge[v].nonce

\* The key of a vault is there before the request that registers it goes on.
Registered ==
  \A b \in Browser :
    /\ cookie[b] \in Vault => proof[b] # NoKey
    /\ call[b].op \in Registers /\ call[b].pc \in {"activeKey", "newKey", "keySession", "answer"}
         => seedKey[call[b].user] = call[b].pub

\* Whose the keys are that a request is making or is about to erase.
Making(b) == call[b].pc \in {"keySession", "userSession"}
Accounted ==
  /\ \A k \in ApiKey : owner[k] = NoUser => k \notin sessions /\ listed[k] = "absent"
  /\ \A b \in Browser : call[b].pc = "dropSession" => call[b].key \in ApiKey
  /\ \A b \in Browser : Making(b) =>
       /\ call[b].key \in ApiKey /\ owner[call[b].key] # NoUser
       /\ listed[call[b].key] = "live" \/ call[b].key \in raced
  /\ \A b \in Browser : call[b].pc \in Erasing => \A k \in call[b].made :
       /\ owner[k] # NoUser
       /\ k \in sessions => k \in call[b].open \cup torn \cup raced
       /\ k \in BeingMade => k \in raced

-----------------------------------------------------------------------------
(* A request and what it moves                                             *)

\* The request that is none.
LEMMA IdleReq == Idle \in Req /\ Shaped(Idle)
BY DEF Idle, Req, Shaped, NoProof, Signature, SignUp, Erasing, Purpose

\* A request takes another shape, and no other one is touched.
LEMMA ReqSet ==
  ASSUME Typed, Shapes, NEW b \in Browser, NEW r \in Req, Shaped(r), call' = [call EXCEPT ![b] = r]
  PROVE  call' \in [Browser -> Req] /\ Shapes'
<1>1. call \in [Browser -> Req]
  BY DEF Typed
<1>2. call' \in [Browser -> Req] /\ call'[b] = r /\ \A x \in Browser \ {b} : call'[x] = call[x]
  BY <1>1
<1> QED
  BY <1>2 DEF Shapes

\* A request arrives.
LEMMA ReqArrives ==
  ASSUME Typed, Shapes, NEW b \in Browser, NEW r \in Req, Shaped(r), Arrives(b, r)
  PROVE  call' \in [Browser -> Req] /\ Shapes'
BY ReqSet DEF Arrives

\* A request goes on to a place that suits it.
LEMMA ReqGoes ==
  ASSUME Typed, Shapes, NEW b \in Browser,
         NEW pc \in {"store", "oauth", "lookup", "activeKey", "newKey", "keySession", "answer",
                     "userKey", "userSession", "userCode"},
         Goto(b, pc),
         pc \in {"store", "oauth", "lookup"} => call[b].op \in Purpose,
         pc \in SignUp => call[b].op = "login"
  PROVE  call' \in [Browser -> Req] /\ Shapes'
<1> DEFINE r == [call[b] EXCEPT !.pc = pc]
<1>1. call[b] \in Req /\ Shaped(call[b])
  BY DEF Typed, Shapes
<1>2. r \in Req
  BY <1>1 DEF Req, SignUp
<1>3. Shaped(r)
  BY <1>1, <1>2 DEF Shaped, Req, SignUp
<1>4. call' = [call EXCEPT ![b] = r]
  BY DEF Goto, Typed
<1> HIDE DEF r
<1> QED
  BY <1>2, <1>3, <1>4, ReqSet

\* A request ends, with a cookie if it was a sign-in with Google or Apple.
LEMMA ReqOver ==
  ASSUME Typed, Shapes, NEW b \in Browser, Over(b)
  PROVE  /\ call' \in [Browser -> Req] /\ Shapes'
         /\ cookie' \in [Browser -> User \cup {NoUser}] /\ proof' = proof
<1>1. call[b].user \in User \cup {NoUser}
  BY DEF Typed, Req
<1> QED
  BY <1>1, IdleReq, ReqSet DEF Over, Me, Typed, TypeOK, cookies

\* An authenticated request.
LEMMA ReqSigned ==
  ASSUME Typed, Shapes, NEW b \in Browser,
         NEW r \in Req, r.op \notin {"login"} \cup Purpose, r.signed = FALSE, r.user = NoUser,
         r.pc \in {"idle", "newKey", "activeKey", "dropSession", "defaultCode", "namedCode", "dropCode", "eraseKeys"},
         SignedIn(b, r)
  PROVE  call' \in [Browser -> Req] /\ Shapes'
<1> DEFINE q == [r EXCEPT !.user = cookie[b]]
<1>1. cookie[b] \in User \cup {NoUser}
  BY DEF Typed, TypeOK
<1>2. q \in Req
  BY <1>1 DEF Req
<1>3. q.op = r.op /\ q.signed = r.signed /\ q.pc = r.pc
  BY DEF Req
<1>4. Shaped(q)
  BY <1>3 DEF Shaped, SignUp
<1>5. Arrives(b, q)
  BY DEF SignedIn
<1> HIDE DEF q
<1> QED
  BY <1>2, <1>4, <1>5, ReqArrives


\* A deletion of a profile goes from one statement to the next.
LEMMA ReqErases ==
  ASSUME Typed, Shapes, NEW b \in Browser, EraseKeys(b) \/ EraseCodes(b)
  PROVE  \E r \in Req : /\ call' = [call EXCEPT ![b] = r] /\ Shaped(r)
                        /\ r.pc \in {"idle", "eraseCodes", "erase"}
                        /\ r.pc \in Erasing => r.made = call[b].made /\ r.open = call[b].open
<1>0. call[b] \in Req /\ Shaped(call[b]) /\ KeysOf(Me(b)) \subseteq ApiKey /\ CodesOf(Me(b)) \subseteq Code
  BY DEF Typed, Shapes, KeysOf, CodesOf
<1>1. CASE EraseKeys(b)
  <2> DEFINE r == [call[b] EXCEPT !.pc = "eraseCodes", !.rows = KeysOf(Me(b))]
  <2>1. r \in Req
    BY <1>0 DEF Req, Erasing
  <2>2. Shaped(r) /\ r.pc = "eraseCodes" /\ r.made = call[b].made /\ r.open = call[b].open
    BY <1>0, <2>1 DEF Shaped, Req, SignUp
  <2>3. call' = [call EXCEPT ![b] = r]
    BY <1>1 DEF EraseKeys, Typed
  <2> HIDE DEF r
  <2> QED
    BY <2>1, <2>2, <2>3
<1>2. CASE EraseCodes(b)
  <2> DEFINE r == [call[b] EXCEPT !.pc = "erase", !.codes = CodesOf(Me(b))]
  <2>1. r \in Req
    BY <1>0 DEF Req, Erasing
  <2>2. Shaped(r) /\ r.pc = "erase" /\ r.made = call[b].made /\ r.open = call[b].open
    BY <1>0, <2>1 DEF Shaped, Req, SignUp
  <2>3. call' = [call EXCEPT ![b] = r] \/ call' = [call EXCEPT ![b] = Idle]
    BY <1>2 DEF EraseCodes, Typed
  <2>4. Idle.pc = "idle" /\ "idle" \notin Erasing
    BY DEF Idle, Erasing
  <2> HIDE DEF r
  <2> QED
    BY <2>1, <2>2, <2>3, <2>4, IdleReq
<1> QED
  BY <1>1, <1>2

-----------------------------------------------------------------------------
(* Every variable keeps its type and every request its shape               *)

LEMMA KeyTyped ==
  ASSUME Typed, Shapes, NEW b \in Browser, NEW pc \in {"keySession", "userSession"},
         pc = "userSession" => call[b].op = "login", InsertKey(b, pc)
  PROVE  Typed' /\ Shapes'
<1>1. PICK k \in ApiKey : InsertKey(b, pc)!1!(k)
  BY DEF InsertKey
<1>2. CASE Me(b) \in account
  <2> DEFINE r == [call[b] EXCEPT !.pc = pc, !.key = k]
  <2>1. call[b] \in Req /\ Shaped(call[b])
    BY DEF Typed, Shapes
  <2>2. r \in Req
    BY <2>1 DEF Req, SignUp
  <2>3. Shaped(r)
    BY <2>1, <2>2 DEF Shaped, Req, SignUp
  <2>4. call' = [call EXCEPT ![b] = r]
    BY <1>1, <1>2 DEF Typed
  <2> HIDE DEF r
  <2>5. call' \in [Browser -> Req] /\ Shapes'
    BY <2>2, <2>3, <2>4, ReqSet
  <2>6. TypeOK'
    BY <1>1, <1>2 DEF InsertKey, Typed, TypeOK, codes, seeds, client, cookies
  <2> QED
    BY <2>5, <2>6 DEF InsertKey, Typed, seeds
<1>3. CASE Me(b) \notin account
  <2>1. Over(b) /\ UNCHANGED <<owner, listed>>
    BY <1>1, <1>3
  <2>2. call' \in [Browser -> Req] /\ Shapes' /\ cookie' \in [Browser -> User \cup {NoUser}] /\ proof' = proof
    BY <2>1, ReqOver
  <2> QED
    BY <2>1, <2>2 DEF InsertKey, Typed, TypeOK, codes, seeds, client
<1> QED
  BY <1>2, <1>3

LEMMA SessionTyped ==
  ASSUME Typed, Shapes, NEW b \in Browser, Making(b), NEW pc \in {"answer", "userCode"},
         call[b].key \in ApiKey, pc = "userCode" => call[b].op = "login", InsertSession(b, pc)
  PROVE  Typed' /\ Shapes'
<1>1. call' \in [Browser -> Req] /\ Shapes'
  BY ReqGoes DEF InsertSession, SignUp
<1> QED
  BY <1>1 DEF InsertSession, Typed, TypeOK, codes, seeds, client, cookies

LEMMA CodeTyped ==
  ASSUME Typed, Shapes, NEW b \in Browser, NEW d \in BOOLEAN, NEW r \in Req, Shaped(r), InsertCode(b, d, r)
  PROVE  Typed' /\ Shapes'
<1>1. PICK c \in Code : InsertCode(b, d, r)!1!(c)
  BY DEF InsertCode
<1>2. CASE Me(b) \in account
  <2>1. call' = [call EXCEPT ![b] = r]
    BY <1>1, <1>2
  <2>2. call' \in [Browser -> Req] /\ Shapes'
    BY <2>1, ReqSet
  <2>3. TypeOK'
    BY <1>1, <1>2 DEF InsertCode, Typed, TypeOK, keys, seeds, client, cookies
  <2> QED
    BY <2>2, <2>3 DEF InsertCode, Typed, seeds
<1>3. CASE Me(b) \notin account
  <2>1. Over(b) /\ UNCHANGED <<codeOwner, default>>
    BY <1>1, <1>3
  <2>2. call' \in [Browser -> Req] /\ Shapes' /\ cookie' \in [Browser -> User \cup {NoUser}] /\ proof' = proof
    BY <2>1, ReqOver
  <2> QED
    BY <2>1, <2>2 DEF InsertCode, Typed, TypeOK, keys, seeds, client
<1> QED
  BY <1>2, <1>3

\* What is left of a sign-in once the user is there.
LEMMA LinkingTyped ==
  ASSUME Typed, NEW r \in Req, Shaped(r), r.op = "login", r.code = 0 \/ r.code \in Code
  PROVE  Linking(r) \in Req /\ Shaped(Linking(r))
<1>1. CASE MayLink(r.user, r.code)
  <2>1. Referrer(r.code) \in User /\ r.code \in Code
    BY <1>1, AccountsAssumption DEF MayLink, Referrer
  <2>2. Linking(r) = [r EXCEPT !.pc = "link", !.by = Referrer(r.code)]
    BY <1>1 DEF Linking
  <2> QED
    BY <2>1, <2>2 DEF Req, Shaped, SignUp
<1>2. CASE ~MayLink(r.user, r.code)
  <2>1. Linking(r) = [r EXCEPT !.pc = "activeKey"]
    BY <1>2 DEF Linking
  <2> QED
    BY <2>1 DEF Req, Shaped, SignUp
<1> QED
  BY <1>1, <1>2

LEMMA ChallengeTyped ==
  ASSUME Typed, Shapes, NEW b \in Browser, NEW pc \in {"oauth", "store", "lookup"},
         TakeChallenge(b, pc)
  PROVE  Typed' /\ Shapes'
<1> DEFINE n == call[b].proof.signed.nonce
<1>0. call[b] \in Req /\ Shaped(call[b]) /\ call[b].op \in Purpose /\ call[b].user \in Vault
  BY DEF Typed, Shapes, TakeChallenge, At, Shaped
<1>1. challenge' \in [Vault -> [nonce : Nonce \cup {0}, purpose : Purpose \cup {"none"}]]
  BY DEF TakeChallenge, TakeIfValid, Typed, TypeOK, None
<1>2. CASE challenge[Me(b)] = [nonce |-> n, purpose |-> call[b].op]
  <2>1. Goto(b, pc) /\ spent' = [spent EXCEPT ![n] = @ + 1] /\ UNCHANGED cookies
    BY <1>2 DEF TakeChallenge
  <2>2. call' \in [Browser -> Req] /\ Shapes'
    BY <1>0, <2>1, ReqGoes DEF SignUp
  <2>3. spent' \in [Nonce -> Nat]
    <3>1. spent \in [Nonce -> Nat]
      BY DEF Typed
    <3> HIDE DEF n
    <3>2. spent' = [m \in Nonce |-> IF m = n THEN spent[m] + 1 ELSE spent[m]]
      BY <2>1, <3>1
    <3>3. \A m \in Nonce : (IF m = n THEN spent[m] + 1 ELSE spent[m]) \in Nat
      BY <3>1
    <3> QED
      BY <3>2, <3>3
  <2> QED
    BY <1>1, <2>1, <2>2, <2>3 DEF TakeChallenge, Typed, TypeOK, keys, codes, client, cookies
<1>3. CASE challenge[Me(b)] # [nonce |-> n, purpose |-> call[b].op]
  <2>1. Over(b) /\ UNCHANGED spent
    BY <1>3 DEF TakeChallenge
  <2>2. call' \in [Browser -> Req] /\ Shapes' /\ cookie' \in [Browser -> User \cup {NoUser}] /\ proof' = proof
    BY <2>1, ReqOver
  <2> QED
    BY <1>1, <2>1, <2>2 DEF TakeChallenge, Typed, TypeOK, keys, codes, client
<1> QED
  BY <1>2, <1>3

LEMMA IssueTyped ==
  ASSUME Typed, Shapes, NEW b \in Browser, NEW v \in Vault, NEW p \in Purpose,
         IssueChallenge(b, v, p)
  PROVE  Typed' /\ Shapes'
<1>1. PICK pub \in PubKey :
        Arrives(b, [Idle EXCEPT !.op = p, !.pc = "challenge", !.user = v, !.pub = pub,
                                !.proof = Proof(p, v, issued + 1, pub)])
  BY DEF IssueChallenge
<1> DEFINE r == [Idle EXCEPT !.op = p, !.pc = "challenge", !.user = v, !.pub = pub,
                             !.proof = Proof(p, v, issued + 1, pub)]
<1>2. Proof(p, v, issued + 1, pub) \in Signature
  BY DEF IssueChallenge, Proof, Transcript, Signature
<1>3. r \in Req
  BY <1>2, IdleReq DEF Req, User
<1>4. Shaped(r)
  BY <1>3, AccountsAssumption DEF Shaped, Idle, Purpose, SignUp
<1>5. call' \in [Browser -> Req] /\ Shapes'
  <2> HIDE DEF r
  <2> QED
    BY <1>1, <1>3, <1>4, ReqArrives DEF r
<1>6. TypeOK'
  BY DEF IssueChallenge, Typed, TypeOK, keys, codes, cookies
<1> QED
  BY <1>5, <1>6 DEF IssueChallenge, Typed


\* A pending request is what it should be: the keys it names are keys.
LEMMA TypedStep == ASSUME Typed, Shapes, Accounted, Next PROVE Typed' /\ Shapes'
<1> USE DEF Making
<1>1. ASSUME NEW b \in Browser, PostKey(b) PROVE Typed' /\ Shapes'
  <2> DEFINE r == [Idle EXCEPT !.op = "key", !.pc = "newKey"]
  <2>1. r \in Req /\ r.op = "key" /\ r.signed = FALSE /\ r.user = NoUser /\ r.pc = "newKey"
    BY IdleReq DEF Req, Idle
  <2>2. call' \in [Browser -> Req] /\ Shapes'
    <3>1. SignedIn(b, r)
      BY <1>1 DEF PostKey
    <3> HIDE DEF r
    <3> QED
      BY <2>1, <3>1, ReqSigned DEF Purpose
  <2> QED
    BY <1>1, <2>2 DEF PostKey, Typed, TypeOK, keys, codes, seeds, cookies, client
<1>2. ASSUME NEW b \in Browser, NEW k \in ApiKey, DeleteKey(b, k) PROVE Typed' /\ Shapes'
  <2> DEFINE r == [Idle EXCEPT !.op = "delete", !.pc = "dropSession", !.key = k]
  <2>1. r \in Req /\ r.op = "delete" /\ r.signed = FALSE /\ r.user = NoUser /\ r.pc = "dropSession"
    BY IdleReq DEF Req, Idle
  <2>2. call' \in [Browser -> Req] /\ Shapes'
    <3>1. SignedIn(b, r)
      BY <1>2 DEF DeleteKey
    <3> HIDE DEF r
    <3> QED
      BY <2>1, <3>1, ReqSigned DEF Purpose
  <2> QED
    BY <1>2, <2>2 DEF DeleteKey, Typed, TypeOK, codes, seeds, cookies, client
<1>3. ASSUME NEW b \in Browser, GetActiveKey(b) PROVE Typed' /\ Shapes'
  <2> DEFINE r == [Idle EXCEPT !.op = "key", !.pc = "activeKey"]
  <2>1. r \in Req /\ r.op = "key" /\ r.signed = FALSE /\ r.user = NoUser /\ r.pc = "activeKey"
    BY IdleReq DEF Req, Idle
  <2>2. call' \in [Browser -> Req] /\ Shapes'
    <3>1. SignedIn(b, r)
      BY <1>3 DEF GetActiveKey
    <3> HIDE DEF r
    <3> QED
      BY <2>1, <3>1, ReqSigned DEF Purpose
  <2> QED
    BY <1>3, <2>2 DEF GetActiveKey, Typed, TypeOK, keys, codes, seeds, cookies, client
<1>4. ASSUME NEW b \in Browser, GetReferral(b) PROVE Typed' /\ Shapes'
  <2> DEFINE r == [Idle EXCEPT !.op = "codes", !.pc = "defaultCode"]
  <2>1. r \in Req /\ r.op = "codes" /\ r.signed = FALSE /\ r.user = NoUser /\ r.pc = "defaultCode"
    BY IdleReq DEF Req, Idle
  <2>2. call' \in [Browser -> Req] /\ Shapes'
    <3>1. SignedIn(b, r)
      BY <1>4 DEF GetReferral
    <3> HIDE DEF r
    <3> QED
      BY <2>1, <3>1, ReqSigned DEF Purpose
  <2> QED
    BY <1>4, <2>2 DEF GetReferral, Typed, TypeOK, keys, codes, seeds, cookies, client
<1>5. ASSUME NEW b \in Browser, PostCode(b) PROVE Typed' /\ Shapes'
  <2> DEFINE r == [Idle EXCEPT !.op = "codes", !.pc = "namedCode"]
  <2>1. r \in Req /\ r.op = "codes" /\ r.signed = FALSE /\ r.user = NoUser /\ r.pc = "namedCode"
    BY IdleReq DEF Req, Idle
  <2>2. call' \in [Browser -> Req] /\ Shapes'
    <3>1. SignedIn(b, r)
      BY <1>5 DEF PostCode
    <3> HIDE DEF r
    <3> QED
      BY <2>1, <3>1, ReqSigned DEF Purpose
  <2> QED
    BY <1>5, <2>2 DEF PostCode, Typed, TypeOK, keys, codes, seeds, cookies, client
<1>6. ASSUME NEW b \in Browser, NEW c \in Code, DeleteCode(b, c) PROVE Typed' /\ Shapes'
  <2> DEFINE r == [Idle EXCEPT !.op = "codes", !.pc = "dropCode", !.code = c]
  <2>1. r \in Req /\ r.op = "codes" /\ r.signed = FALSE /\ r.user = NoUser /\ r.pc = "dropCode"
    BY IdleReq DEF Req, Idle
  <2>2. call' \in [Browser -> Req] /\ Shapes'
    <3>1. SignedIn(b, r)
      BY <1>6 DEF DeleteCode
    <3> HIDE DEF r
    <3> QED
      BY <2>1, <3>1, ReqSigned DEF Purpose
  <2> QED
    BY <1>6, <2>2 DEF DeleteCode, Typed, TypeOK, keys, codes, seeds, cookies, client
<1>7. ASSUME NEW b \in Browser, DeleteProfile(b) PROVE Typed' /\ Shapes'
  <2> DEFINE u == cookie[b]
             r == [Idle EXCEPT !.op = "erase", !.pc = "eraseKeys", !.made = KeysOf(u) \ BeingMade,
                     !.open = {k \in sessions : owner[k] = u}]
  <2>0. KeysOf(u) \subseteq ApiKey /\ {k \in sessions : owner[k] = u} \subseteq ApiKey
    BY DEF KeysOf, Typed, TypeOK
  <2>1. r \in Req /\ r.op \in {"none", "erase"} /\ r.signed = FALSE /\ r.user = NoUser /\ r.pc = "eraseKeys"
    BY <2>0, IdleReq DEF Req, Idle, Erasing
  <2>2. call' \in [Browser -> Req] /\ Shapes'
    <3>1. SignedIn(b, r)
      BY <1>7 DEF DeleteProfile
    <3> HIDE DEF r
    <3> QED
      BY <2>1, <3>1, ReqSigned DEF Purpose
  <2> QED
    BY <1>7, <2>2 DEF DeleteProfile, Typed, TypeOK, keys, codes, seeds, cookies, client
<1>7e. ASSUME NEW b \in Browser, EraseKeys(b) \/ EraseCodes(b) PROVE Typed' /\ Shapes'
  <2>1. call' \in [Browser -> Req] /\ Shapes'
    BY <1>7e, ReqErases, ReqSet
  <2> QED
    BY <1>7e, <2>1 DEF EraseKeys, EraseCodes, Typed, TypeOK, keys, codes, seeds, cookies, client
<1>8. ASSUME NEW b \in Browser, NEW u \in Oauth, NEW c \in Code \cup {0}, Login(b, u, c) PROVE Typed' /\ Shapes'
  <2> DEFINE r == [Idle EXCEPT !.op = "login", !.user = u, !.code = c, !.isNew = u \notin account]
             q == IF u \notin account THEN [r EXCEPT !.pc = "newUser"] ELSE Existing(r)
  <2>1. r \in Req /\ r.op = "login" /\ r.user = u /\ r.code = c /\ r.signed = FALSE /\ r.pc = "idle"
    BY IdleReq DEF Req, Idle, User
  <2>2. Shaped(r)
    BY <2>1, AccountsAssumption DEF Shaped, Purpose, SignUp
  <2>3. Arrives(b, q)
    BY <1>8 DEF Login
  <2>4. q \in Req /\ Shaped(q)
    <3> HIDE DEF r
    <3>1. Linking(r) \in Req /\ Shaped(Linking(r))
      BY <2>1, <2>2, LinkingTyped
    <3>2. \A pc \in {"newUser", "activeKey"} : [r EXCEPT !.pc = pc] \in Req /\ Shaped([r EXCEPT !.pc = pc])
      <4> TAKE pc \in {"newUser", "activeKey"}
      <4>1. [r EXCEPT !.pc = pc] \in Req
        BY <2>1 DEF Req, SignUp
      <4> QED
        BY <2>1, <2>2, <4>1 DEF Req, Shaped, SignUp, Purpose
    <3> QED
      BY <3>1, <3>2 DEF Existing
  <2>5. call' \in [Browser -> Req] /\ Shapes'
    <3> HIDE DEF q
    <3> QED
      BY <2>3, <2>4, ReqArrives
  <2> QED
    BY <1>8, <2>5 DEF Login, Typed, TypeOK, keys, codes, seeds, cookies
<1>9. ASSUME NEW b \in Browser, Logout(b) PROVE Typed' /\ Shapes'
  BY <1>9 DEF Logout, Typed, TypeOK, Shapes, keys, codes, seeds, client
<1>10. ASSUME NEW b \in Browser, ModeCPage(b) PROVE Typed' /\ Shapes'
  <2>1. CASE WriteDown(b)
    BY <2>1 DEF WriteDown, Typed, TypeOK, Shapes, keys, codes, seeds, cookies
  <2>2. ASSUME NEW v \in Vault, ShowPhrase(b, v) PROVE Typed' /\ Shapes'
    BY <2>2 DEF ShowPhrase, Typed, TypeOK, Shapes, keys, codes, seeds, cookies
  <2>3. ASSUME NEW v \in Vault, VerifyPhrase(b, v) \/ RestorePhrase(b, v) PROVE Typed' /\ Shapes'
    BY <2>3, IssueTyped DEF VerifyPhrase, RestorePhrase, Purpose
  <2> QED
    BY <1>10, <2>1, <2>2, <2>3 DEF ModeCPage
<1>11. ASSUME NEW b \in Browser, ModeBPage(b) \/ AppSignIn(b) PROVE Typed' /\ Shapes'
  BY <1>11, IssueTyped, AccountsAssumption DEF ModeBPage, AppSignIn, Purpose
<1>12. ASSUME NEW b \in Browser, ActiveKey(b) PROVE Typed' /\ Shapes'
  <2> DEFINE r == [call[b] EXCEPT !.signed = call[b].op = "login"]
             S == Live(Me(b))
             q == IF S # {} THEN [r EXCEPT !.pc = "answer", !.key = Newest(S)]
                  ELSE [r EXCEPT !.pc = "newKey"]
  <2>1. call[b] \in Req /\ Shaped(call[b])
    BY DEF Typed, Shapes
  <2>2. r \in Req /\ r.signed = (r.op = "login")
    <3> DEFINE f == call[b].op = "login"
    <3>1. f \in BOOLEAN
      OBVIOUS
    <3>2. r = [call[b] EXCEPT !.signed = f]
      OBVIOUS
    <3> HIDE DEF f
    <3>3. [call[b] EXCEPT !.signed = f] \in Req
      BY <2>1, <3>1 DEF Req
    <3>4. [call[b] EXCEPT !.signed = f].signed = f /\ [call[b] EXCEPT !.signed = f].op = call[b].op
      BY <2>1 DEF Req
    <3> HIDE DEF r
    <3> QED
      BY <3>2, <3>3, <3>4 DEF f
  <2>3. Shaped(r)
    BY <2>1, <2>2 DEF Shaped, Req
  <2>4. Newest(S) \in {Newest(T) : T \in SUBSET ApiKey}
    <3>1. S \in SUBSET ApiKey
      BY DEF Live
    <3> HIDE DEF S
    <3> QED
      BY <3>1
  <2>5. q \in Req /\ Shaped(q)
    <3> HIDE DEF r, S
    <3>1. q \in Req
      BY <2>2, <2>4 DEF Req
    <3> QED
      BY <2>2, <2>3, <3>1 DEF Req, Shaped, SignUp
  <2>6. call' = [call EXCEPT ![b] = q]
    BY <1>12 DEF ActiveKey
  <2>7. call' \in [Browser -> Req] /\ Shapes'
    <3> HIDE DEF q
    <3> QED
      BY <2>5, <2>6, ReqSet
  <2> QED
    BY <1>12, <2>7 DEF ActiveKey, Typed, TypeOK, keys, codes, seeds, cookies, client
<1>13. ASSUME NEW b \in Browser, CreateKey(b) \/ UserKey(b) PROVE Typed' /\ Shapes'
  <2>1. call[b].pc = "userKey" => call[b].op = "login"
    BY DEF Shapes, Shaped, SignUp
  <2> QED
    BY <1>13, <2>1, KeyTyped DEF CreateKey, UserKey, At
<1>14. ASSUME NEW b \in Browser, KeySession(b) \/ UserSession(b) PROVE Typed' /\ Shapes'
  <2>1. call[b].pc = "userSession" => call[b].op = "login"
    BY DEF Shapes, Shaped, SignUp
  <2>2. Making(b) /\ call[b].key \in ApiKey
    BY <1>14 DEF KeySession, UserSession, At, Accounted
  <2> QED
    BY <1>14, <2>1, <2>2, SessionTyped DEF KeySession, UserSession, At
<1>15. ASSUME NEW b \in Browser, DropSession(b) PROVE Typed' /\ Shapes'
  <2>1. call' \in [Browser -> Req] /\ Shapes' /\ cookie' \in [Browser -> User \cup {NoUser}] /\ proof' = proof
    BY <1>15, ReqOver DEF DropSession
  <2> QED
    BY <1>15, <2>1 DEF DropSession, Typed, TypeOK, codes, seeds, client
<1>16. ASSUME NEW b \in Browser, DefaultCode(b) \/ NamedCode(b) PROVE Typed' /\ Shapes'
  BY <1>16, CodeTyped, IdleReq DEF DefaultCode, NamedCode
<1>17. ASSUME NEW b \in Browser, UserCode(b) PROVE Typed' /\ Shapes'
  <2>1. call[b] \in Req /\ Shaped(call[b]) /\ call[b].op = "login" /\ (call[b].code = 0 \/ call[b].code \in Code)
    BY <1>17 DEF UserCode, At, Typed, Shapes, Shaped, SignUp, Req
  <2>2. Linking(call[b]) \in Req /\ Shaped(Linking(call[b]))
    BY <2>1, LinkingTyped
  <2> DEFINE r == Linking(call[b])
  <2>3. InsertCode(b, TRUE, r)
    BY <1>17 DEF UserCode
  <2> HIDE DEF r
  <2> QED
    BY <2>2, <2>3, CodeTyped DEF r
<1>18. ASSUME NEW b \in Browser, DropCode(b) PROVE Typed' /\ Shapes'
  <2>1. call' \in [Browser -> Req] /\ Shapes'
    BY <1>18, IdleReq, ReqSet DEF DropCode
  <2> QED
    BY <1>18, <2>1 DEF DropCode, Typed, TypeOK, keys, seeds, cookies, client
<1>19. ASSUME NEW b \in Browser, NewUser(b) PROVE Typed' /\ Shapes'
  <2>1. call[b].op = "login" /\ call[b].user \in User
    BY <1>19 DEF NewUser, At, Shapes, Shaped, SignUp, User
  <2>2. CASE Me(b) \in account
    <3>1. Over(b) /\ UNCHANGED account
      BY <1>19, <2>2 DEF NewUser
    <3>2. call' \in [Browser -> Req] /\ Shapes' /\ cookie' \in [Browser -> User \cup {NoUser}] /\ proof' = proof
      BY <3>1, ReqOver
    <3> QED
      BY <1>19, <3>1, <3>2 DEF NewUser, Typed, TypeOK, keys, codes, seeds, client
  <2>3. CASE Me(b) \notin account
    <3>1. account' = account \cup {Me(b)} /\ Goto(b, "userKey") /\ UNCHANGED cookies
      BY <1>19, <2>3 DEF NewUser
    <3>2. call' \in [Browser -> Req] /\ Shapes'
      BY <2>1, <3>1, ReqGoes
    <3> QED
      BY <1>19, <2>1, <3>1, <3>2 DEF NewUser, Me, Typed, TypeOK, keys, codes, seeds, client, cookies
  <2> QED
    BY <2>2, <2>3
<1>20. ASSUME NEW b \in Browser, Link(b) PROVE Typed' /\ Shapes'
  <2> DEFINE u == Me(b)
             r == [by |-> call[b].by, code |-> call[b].code]
  <2>1. call[b].by \in User /\ call[b].code \in Code
    BY <1>20 DEF Link, At, Shapes, Shaped
  <2>2. r \in [by : User \cup {NoUser}, code : Code \cup {0}]
    BY <2>1
  <2>3. referral' \in [User -> [by : User \cup {NoUser}, code : Code \cup {0}]]
    BY <1>20, <2>2 DEF Link, Typed, TypeOK
  <2>4. CASE Over(b)
    <3>1. call' \in [Browser -> Req] /\ Shapes' /\ cookie' \in [Browser -> User \cup {NoUser}] /\ proof' = proof
      BY <2>4, ReqOver
    <3> QED
      BY <1>20, <2>3, <3>1 DEF Link, Typed, TypeOK, keys, seeds, client
  <2>5. CASE Goto(b, "activeKey") /\ UNCHANGED cookies
    <3>1. call' \in [Browser -> Req] /\ Shapes'
      BY <2>5, ReqGoes DEF SignUp
    <3> QED
      BY <1>20, <2>3, <2>5, <3>1 DEF Link, Typed, TypeOK, keys, seeds, client, cookies
  <2> QED
    BY <1>20, <2>4, <2>5 DEF Link
<1>21. ASSUME NEW b \in Browser, Erase(b) PROVE Typed' /\ Shapes'
  <2>1. call' \in [Browser -> Req] /\ Shapes'
    BY <1>21, IdleReq, ReqSet DEF Erase
  <2>2. TypeOK'
    <3>1. listed' \in [ApiKey -> {"absent", "live", "deleted"}]
      BY <1>21 DEF Erase, Typed, TypeOK
    <3>2. codeOwner' \in [Code -> User \cup {NoUser, Unmade}]
      BY <1>21 DEF Erase, Typed, TypeOK
    <3>3. cookie' \in [Browser -> User \cup {NoUser}]
      BY <1>21 DEF Erase, Typed, TypeOK
    <3>4. account' \subseteq User /\ sessions' \subseteq ApiKey /\ default' \subseteq Code
      BY <1>21 DEF Erase, Typed, TypeOK
    <3> QED
      BY <1>21, <3>1, <3>2, <3>3, <3>4 DEF Erase, Typed, TypeOK, seeds, client
  <2> QED
    BY <1>21, <2>1, <2>2 DEF Erase, Typed, seeds
<1>22. ASSUME NEW b \in Browser, NEW pc \in {"oauth", "store", "lookup"}, TakeChallenge(b, pc)
       PROVE  Typed' /\ Shapes'
  BY <1>22, ChallengeTyped
<1>23. ASSUME NEW b \in Browser, VerifyOAuth(b) PROVE Typed' /\ Shapes'
  <2>1. call[b].op \in Purpose
    BY <1>23 DEF VerifyOAuth, At, Shapes, Shaped
  <2>2. CASE Goto(b, "store") /\ UNCHANGED cookies
    <3>1. call' \in [Browser -> Req] /\ Shapes'
      BY <2>1, <2>2, ReqGoes DEF SignUp
    <3> QED
      BY <1>23, <2>2, <3>1 DEF VerifyOAuth, Typed, TypeOK, keys, codes, seeds, client, cookies
  <2>3. CASE Over(b)
    <3>1. call' \in [Browser -> Req] /\ Shapes' /\ cookie' \in [Browser -> User \cup {NoUser}] /\ proof' = proof
      BY <2>3, ReqOver
    <3> QED
      BY <1>23, <3>1 DEF VerifyOAuth, Typed, TypeOK, keys, codes, seeds, client
  <2> QED
    BY <1>23, <2>2, <2>3 DEF VerifyOAuth
<1>24. ASSUME NEW b \in Browser, StoreSeedUser(b) PROVE Typed' /\ Shapes'
  <2>1. call[b].user \in Vault /\ call[b].pub \in PubKey
    BY <1>24 DEF StoreSeedUser, At, Shapes, Shaped
  <2>2. CASE seedKey[Me(b)] \in {NoKey, call[b].pub}
    <3>1. /\ seedKey' = [seedKey EXCEPT ![Me(b)] = call[b].pub]
          /\ account' = account \cup {Me(b)} /\ Goto(b, "activeKey") /\ UNCHANGED cookies
      BY <1>24, <2>2 DEF StoreSeedUser
    <3>2. call' \in [Browser -> Req] /\ Shapes'
      BY <3>1, ReqGoes DEF SignUp
    <3> QED
      BY <1>24, <2>1, <3>1, <3>2 DEF StoreSeedUser, Me, User, Typed, TypeOK, keys, codes, client, cookies
  <2>3. CASE seedKey[Me(b)] \notin {NoKey, call[b].pub}
    <3>1. Over(b) /\ UNCHANGED <<account, seedKey>>
      BY <1>24, <2>3 DEF StoreSeedUser
    <3>2. call' \in [Browser -> Req] /\ Shapes' /\ cookie' \in [Browser -> User \cup {NoUser}] /\ proof' = proof
      BY <3>1, ReqOver
    <3> QED
      BY <1>24, <3>1, <3>2 DEF StoreSeedUser, Typed, TypeOK, keys, codes, client
  <2> QED
    BY <2>2, <2>3
<1>25. ASSUME NEW b \in Browser, LookUpKey(b) PROVE Typed' /\ Shapes'
  <2>2. CASE Goto(b, "answer") /\ UNCHANGED cookies
    <3>1. call' \in [Browser -> Req] /\ Shapes'
      BY <2>2, ReqGoes DEF SignUp
    <3> QED
      BY <1>25, <2>2, <3>1 DEF LookUpKey, Typed, TypeOK, keys, codes, seeds, client, cookies
  <2>3. CASE Over(b)
    <3>1. call' \in [Browser -> Req] /\ Shapes' /\ cookie' \in [Browser -> User \cup {NoUser}] /\ proof' = proof
      BY <2>3, ReqOver
    <3> QED
      BY <1>25, <3>1 DEF LookUpKey, Typed, TypeOK, keys, codes, seeds, client
  <2> QED
    BY <1>25, <2>2, <2>3 DEF LookUpKey
<1>26. ASSUME NEW b \in Browser, Answer(b) PROVE Typed' /\ Shapes'
  <2>1. call' \in [Browser -> Req] /\ Shapes'
    BY <1>26, IdleReq, ReqSet DEF Answer
  <2>2. call[b].user \in User \cup {NoUser} /\ call[b].pub \in PubKey \cup {NoKey}
    BY DEF Typed, Req
  <2> QED
    BY <1>26, <2>1, <2>2 DEF Answer, Typed, TypeOK, keys, codes, seeds
<1>27. ASSUME NEW b \in Browser, LoseAnswer(b) PROVE Typed' /\ Shapes'
  <2> DEFINE r == IF call[b].op \in Purpose THEN [call[b] EXCEPT !.pc = "challenge", !.key = 0] ELSE Idle
  <2>1. call[b] \in Req /\ Shaped(call[b])
    BY DEF Typed, Shapes
  <2>2. [call[b] EXCEPT !.pc = "challenge", !.key = 0] \in Req
    BY <2>1 DEF Req
  <2>3. r \in Req /\ Shaped(r)
    BY <2>1, <2>2, IdleReq DEF Shaped, Req, SignUp
  <2>4. call' = [call EXCEPT ![b] = r]
    BY <1>27 DEF LoseAnswer, Typed
  <2>5. call' \in [Browser -> Req] /\ Shapes'
    <3> HIDE DEF r
    <3> QED
      BY <2>3, <2>4, ReqSet
  <2> QED
    BY <1>27, <2>5 DEF LoseAnswer, Typed, TypeOK, keys, codes, seeds, cookies, client
<1>28. ASSUME NEW b \in Browser, StatementFails(b) PROVE Typed' /\ Shapes'
  <2>1. call' \in [Browser -> Req] /\ Shapes' /\ cookie' \in [Browser -> User \cup {NoUser}] /\ proof' = proof
    BY <1>28, ReqOver DEF StatementFails
  <2> QED
    BY <1>28, <2>1 DEF StatementFails, Typed, TypeOK, codes, seeds, client
<1>29. ASSUME NEW v \in Vault, Expire(v) PROVE Typed' /\ Shapes'
  BY <1>29 DEF Expire, Typed, TypeOK, Shapes, None, keys, codes, cookies, client
<1>30. CASE Restart
  <2>1. call' \in [Browser -> Req] /\ Shapes'
    BY <1>30, IdleReq DEF Restart, Typed, Shapes
  <2>2. challenge' \in [Vault -> [nonce : Nonce \cup {0}, purpose : Purpose \cup {"none"}]]
    BY <1>30 DEF Restart, None
  <2>3. cookie' \in [Browser -> User \cup {NoUser}]
    BY <1>30 DEF Restart
  <2> QED
    BY <1>30, <2>1, <2>2, <2>3 DEF Restart, Typed, TypeOK, codes, client
<1> QED
  BY <1>1, <1>2, <1>3, <1>4, <1>5, <1>6, <1>7, <1>7e, <1>8, <1>9, <1>10, <1>11, <1>12, <1>13, <1>14, <1>15,
     <1>16, <1>17, <1>18, <1>19, <1>20, <1>21, <1>22, <1>23, <1>24, <1>25, <1>26, <1>27, <1>28, <1>29, <1>30
  DEF Next, ApiKeysPage, GetKeyPage, ReferralsPage, LoginPage, ProfilePage, KeyStep, CodeStep, UserStep,
      EraseStep, RegisterModeB, RegisterModeC, SignIn


-----------------------------------------------------------------------------
(* Challenges                                                              *)

\* Who writes the store of challenges.
LEMMA ChallengesMove ==
  ASSUME Next
  PROVE  \/ UNCHANGED <<challenge, issued, spent>>
         \/ \E b \in Browser, v \in Vault, p \in Purpose : IssueChallenge(b, v, p)
         \/ \E b \in Browser, pc \in {"oauth", "store", "lookup"} : TakeChallenge(b, pc)
         \/ \E v \in Vault : Expire(v)
         \/ Restart
<1> DEFINE G == \/ UNCHANGED <<challenge, issued, spent>>
                \/ \E b \in Browser, v \in Vault, p \in Purpose : IssueChallenge(b, v, p)
                \/ \E b \in Browser, pc \in {"oauth", "store", "lookup"} : TakeChallenge(b, pc)
                \/ \E v \in Vault : Expire(v)
                \/ Restart
<1>1. ASSUME NEW b \in Browser, ApiKeysPage(b) \/ GetKeyPage(b) PROVE G
  BY <1>1 DEF ApiKeysPage, GetKeyPage, PostKey, DeleteKey, GetActiveKey, seeds
<1>2. ASSUME NEW b \in Browser, ReferralsPage(b) \/ LoginPage(b) \/ ProfilePage(b) PROVE G
  BY <1>2 DEF ReferralsPage, LoginPage, ProfilePage, GetReferral, PostCode, DeleteCode, Login,
              DeleteProfile, Logout, seeds
<1>3. ASSUME NEW b \in Browser, ModeCPage(b) PROVE G
  BY <1>3 DEF ModeCPage, WriteDown, ShowPhrase, VerifyPhrase, RestorePhrase, Purpose, seeds
<1>4. ASSUME NEW b \in Browser, ModeBPage(b) \/ AppSignIn(b) PROVE G
  BY <1>4, AccountsAssumption DEF ModeBPage, AppSignIn, Purpose
<1>5. ASSUME NEW b \in Browser, KeyStep(b) \/ CodeStep(b) PROVE G
  BY <1>5 DEF KeyStep, CodeStep, ActiveKey, CreateKey, InsertKey, KeySession, InsertSession, DropSession,
              DefaultCode, NamedCode, InsertCode, DropCode, seeds
<1>6. ASSUME NEW b \in Browser, UserStep(b) PROVE G
  BY <1>6 DEF UserStep, NewUser, UserKey, InsertKey, UserSession, InsertSession, UserCode, InsertCode,
              Link, seeds
<1>6e. ASSUME NEW b \in Browser, EraseStep(b) PROVE G
  BY <1>6e DEF EraseStep, EraseKeys, EraseCodes, Erase, seeds
<1>7. ASSUME NEW b \in Browser, RegisterModeB(b) \/ RegisterModeC(b) \/ SignIn(b) PROVE G
  BY <1>7 DEF RegisterModeB, RegisterModeC, SignIn, VerifyOAuth, StoreSeedUser, LookUpKey, seeds
<1>8. ASSUME NEW b \in Browser, Answer(b) \/ LoseAnswer(b) \/ StatementFails(b) PROVE G
  BY <1>8 DEF Answer, LoseAnswer, StatementFails, seeds
<1> QED
  BY <1>1, <1>2, <1>3, <1>4, <1>5, <1>6, <1>6e, <1>7, <1>8 DEF Next

LEMMA UnspentStep ==
  ASSUME Typed, Shapes, Unspent, ChallengeSpentOnce, Next
  PROVE  Unspent' /\ ChallengeSpentOnce'
<1>0. Nonce \subseteq Nat \ {0} /\ None \notin [nonce : Nonce, purpose : Purpose]
  BY AccountsAssumption DEF None
<1>1. CASE UNCHANGED <<challenge, issued, spent>>
  BY <1>1 DEF Unspent, ChallengeSpentOnce
<1>2. ASSUME NEW b \in Browser, NEW v \in Vault, NEW p \in Purpose, IssueChallenge(b, v, p)
      PROVE  Unspent' /\ ChallengeSpentOnce'
  <2>1. /\ issued + 1 \in Nonce /\ issued' = issued + 1 /\ spent' = spent
        /\ challenge' = [challenge EXCEPT ![v] = [nonce |-> issued + 1, purpose |-> p]]
    BY <1>2 DEF IssueChallenge
  <2>2. /\ challenge'[v].nonce = issued + 1
        /\ \A w \in Vault \ {v} : challenge'[w] = challenge[w]
    BY <2>1 DEF Typed, TypeOK
  <2>3. spent[issued + 1] = 0
    BY <1>0, <2>1 DEF Unspent, Typed
  <2>4. \A w \in Vault : challenge[w] = None => challenge[w].nonce # issued + 1
    BY <1>0, <2>1 DEF None
  <2>5. \A w \in Vault : challenge[w].nonce # issued + 1
    BY <1>0, <2>1, <2>4 DEF Unspent, Typed
  <2>6. \A n \in Nonce : n > issued' => spent'[n] = 0
    BY <1>0, <2>1 DEF Unspent, Typed
  <2>7. ASSUME NEW w \in Vault, challenge'[w] # None
        PROVE  /\ challenge'[w].nonce \in Nonce /\ challenge'[w].nonce <= issued'
               /\ spent'[challenge'[w].nonce] = 0
               /\ \A x \in Vault \ {w} : challenge'[x].nonce # challenge'[w].nonce
    <3>1. CASE w = v
      BY <1>0, <2>1, <2>2, <2>3, <2>5, <3>1 DEF Typed
    <3>2. CASE w # v
      <4>1. challenge'[w] = challenge[w] /\ challenge[w] # None
        BY <2>2, <2>7, <3>2
      <4>2. /\ challenge[w].nonce \in Nonce /\ challenge[w].nonce <= issued
            /\ spent[challenge[w].nonce] = 0
            /\ \A x \in Vault \ {w} : challenge[x].nonce # challenge[w].nonce
        BY <4>1 DEF Unspent
      <4>3. challenge[w].nonce <= issued + 1 /\ challenge[w].nonce # issued + 1
        <5>1. challenge[w].nonce # issued + 1
          BY <2>5
        <5>2. challenge[w].nonce \in Nat /\ issued \in Nat
          BY <1>0, <4>2 DEF Typed
        <5> QED
          BY <4>2, <5>1, <5>2
      <4> QED
        BY <2>1, <2>2, <4>1, <4>2, <4>3
    <3> QED
      BY <3>1, <3>2
  <2> QED
    BY <2>1, <2>6, <2>7 DEF Unspent, ChallengeSpentOnce
<1>3. ASSUME NEW b \in Browser, NEW pc \in {"oauth", "store", "lookup"}, TakeChallenge(b, pc), Shaped(call[b])
      PROVE  Unspent' /\ ChallengeSpentOnce'
  <2> DEFINE n == call[b].proof.signed.nonce
             v == Me(b)
  <2>1. v \in Vault /\ call[b].op \in Purpose
    BY <1>3 DEF TakeChallenge, At, Shaped, Me
  <2>2. /\ challenge' \in [Vault -> [nonce : Nonce \cup {0}, purpose : Purpose \cup {"none"}]]
        /\ challenge' = challenge \/ challenge' = [challenge EXCEPT ![v] = None]
        /\ issued' = issued
    BY <1>3 DEF TakeChallenge, TakeIfValid, Typed, TypeOK, None
  <2>3. \A w \in Vault : challenge'[w] # None => challenge'[w] = challenge[w]
    BY <2>2 DEF Typed, TypeOK
  <2>4. \A w \in Vault : challenge'[w] = challenge[w] \/ challenge'[w] = None
    BY <2>2 DEF Typed, TypeOK
  <2>5. CASE challenge[v] = [nonce |-> n, purpose |-> call[b].op]
    <3>1. challenge'[v] = None
      BY <1>3, <2>1, <2>5 DEF TakeChallenge, TakeIfValid, Typed, TypeOK
    <3>2. spent' = [spent EXCEPT ![n] = @ + 1]
      BY <1>3, <2>5 DEF TakeChallenge
    <3>3. challenge[v] # None /\ challenge[v].nonce = n
      BY <2>1, <2>5 DEF None, Purpose
    <3>4. n \in Nonce /\ n <= issued /\ spent[n] = 0 /\ \A w \in Vault \ {v} : challenge[w].nonce # n
      BY <2>1, <3>3 DEF Unspent
    <3> HIDE DEF n, v
    <3>5. spent'[n] = 1 /\ \A m \in Nonce \ {n} : spent'[m] = spent[m]
      BY <3>2, <3>4 DEF Typed
    <3>6. ChallengeSpentOnce'
      BY <3>5 DEF ChallengeSpentOnce
    <3>7. \A m \in Nonce : m > issued' => spent'[m] = 0
      BY <1>0, <2>2, <3>4, <3>5 DEF Unspent, Typed
    <3>8. ASSUME NEW w \in Vault, challenge'[w] # None
          PROVE  /\ challenge'[w].nonce \in Nonce /\ challenge'[w].nonce <= issued'
                 /\ spent'[challenge'[w].nonce] = 0
                 /\ \A x \in Vault \ {w} : challenge'[x].nonce # challenge'[w].nonce
      <4>1. w # v /\ challenge'[w] = challenge[w] /\ challenge[w] # None
        BY <2>3, <3>1, <3>8
      <4>2. challenge[w].nonce \in Nonce /\ challenge[w].nonce <= issued /\ challenge[w].nonce # n
            /\ spent[challenge[w].nonce] = 0 /\ \A x \in Vault \ {w} : challenge[x].nonce # challenge[w].nonce
        BY <3>4, <4>1 DEF Unspent
      <4>3. \A x \in Vault \ {w} : challenge'[x].nonce # challenge[w].nonce
        BY <1>0, <2>4, <4>2 DEF None
      <4> QED
        BY <2>2, <3>5, <4>1, <4>2, <4>3
    <3> QED
      BY <3>6, <3>7, <3>8 DEF Unspent
  <2>6. CASE challenge[v] # [nonce |-> n, purpose |-> call[b].op]
    <3>1. spent' = spent
      BY <1>3, <2>6 DEF TakeChallenge
    <3>8. ASSUME NEW w \in Vault, challenge'[w] # None
          PROVE  /\ challenge'[w].nonce \in Nonce /\ challenge'[w].nonce <= issued'
                 /\ spent'[challenge'[w].nonce] = 0
                 /\ \A x \in Vault \ {w} : challenge'[x].nonce # challenge'[w].nonce
      <4>1. challenge'[w] = challenge[w] /\ challenge[w] # None
        BY <2>3, <3>8
      <4>2. \A x \in Vault \ {w} : challenge'[x].nonce # challenge[w].nonce
        BY <1>0, <2>4, <4>1 DEF None, Unspent
      <4>3. challenge[w].nonce \in Nonce /\ challenge[w].nonce <= issued /\ spent[challenge[w].nonce] = 0
        BY <4>1 DEF Unspent
      <4> QED
        BY <2>2, <3>1, <4>1, <4>2, <4>3
    <3> QED
      BY <2>2, <3>1, <3>8 DEF Unspent, ChallengeSpentOnce
  <2> QED
    BY <2>5, <2>6
<1>4. ASSUME NEW v \in Vault, Expire(v) PROVE Unspent' /\ ChallengeSpentOnce'
  <2>1. issued' = issued /\ spent' = spent /\ challenge' = [challenge EXCEPT ![v] = None]
    BY <1>4 DEF Expire
  <2>2. \A w \in Vault : challenge'[w] = IF w = v THEN None ELSE challenge[w]
    BY <2>1 DEF Typed, TypeOK
  <2>3. \A w \in Vault, n \in Nonce : challenge'[w].nonce = n => challenge[w].nonce = n
    BY <1>0, <2>2 DEF None
  <2> QED
    BY <2>1, <2>2, <2>3 DEF Unspent, ChallengeSpentOnce
<1>5. CASE Restart
  BY <1>5 DEF Restart, Unspent, ChallengeSpentOnce
<1> QED
  BY <1>1, <1>2, <1>3, <1>4, <1>5, ChallengesMove DEF Shapes


-----------------------------------------------------------------------------
(* Vaults                                                                  *)

\* Requests after the transaction that registers the vault.
Late(r) == r.op \in Registers /\ r.pc \in {"activeKey", "newKey", "keySession", "answer"}

\* A cookie of a vault comes with the answer to a registration.
CookieMoves == \A x \in Browser : cookie'[x] \in Vault =>
  \/ cookie'[x] = cookie[x] /\ proof'[x] = proof[x]
  \/ Late(call[x]) /\ cookie'[x] = call[x].user /\ proof'[x] = call[x].pub

\* A registered key is never replaced.
SeedStands == \A v \in Vault : seedKey[v] # NoKey => seedKey'[v] = seedKey[v]

\* Nothing but that transaction makes a request late.
LateMoves == \A x \in Browser : Late(call'[x]) =>
  \/ Late(call[x]) /\ call'[x].user = call[x].user /\ call'[x].pub = call[x].pub
  \/ call'[x].user \in Vault /\ seedKey'[call'[x].user] = call'[x].pub

Vaults == CookieMoves /\ SeedStands /\ LateMoves

LEMMA VaultsQuiet ==
  ASSUME Typed, NEW b \in Browser, NEW r, ~Late(r), call' = [call EXCEPT ![b] = r], UNCHANGED <<cookie, proof, seedKey>>
  PROVE  Vaults
BY DEF Typed, Vaults, CookieMoves, SeedStands, LateMoves

LEMMA VaultsSigned ==
  ASSUME Typed, NEW b \in Browser, NEW r \in Req, r.op \notin Registers, SignedIn(b, r),
         UNCHANGED <<cookie, proof, seedKey>>
  PROVE  Vaults
<1> DEFINE q == [r EXCEPT !.user = cookie[b]]
<1>1. call' = [call EXCEPT ![b] = q]
  BY DEF SignedIn, Arrives
<1>2. ~Late(q)
  BY DEF Late, Req
<1> HIDE DEF q
<1> QED
  BY <1>1, <1>2, VaultsQuiet

LEMMA VaultsGo ==
  ASSUME Typed, NEW b \in Browser, NEW pc, Goto(b, pc), UNCHANGED <<cookie, proof, seedKey>>,
         pc \in {"activeKey", "newKey", "keySession", "answer"} => call[b].op \notin Registers \/ Late(call[b])
  PROVE  Vaults
<1>1. /\ call'[b].op = call[b].op /\ call'[b].pc = pc /\ call'[b].user = call[b].user /\ call'[b].pub = call[b].pub
      /\ \A x \in Browser \ {b} : call'[x] = call[x]
  BY DEF Goto, Typed, Req
<1> QED
  BY <1>1 DEF Vaults, CookieMoves, SeedStands, LateMoves, Late

LEMMA VaultsOver ==
  ASSUME Typed, Shapes, NEW b \in Browser, Over(b), UNCHANGED seedKey
  PROVE  Vaults
<1>1. \/ cookie' = cookie
      \/ cookie' = [cookie EXCEPT ![b] = Me(b)] /\ Me(b) \notin Vault
  BY AccountsAssumption DEF Over, Me, Shapes, Shaped
<1>2. call' = [call EXCEPT ![b] = Idle] /\ proof' = proof
  BY DEF Over
<1>3. ~Late(Idle)
  BY DEF Late, Idle, Registers
<1> QED
  BY <1>1, <1>2, <1>3 DEF Typed, TypeOK, Vaults, CookieMoves, SeedStands, LateMoves

LEMMA VaultsMove ==
  ASSUME Typed, Shapes, Next
  PROVE  Vaults
<1>0. ~Late(Idle) /\ \A r \in Req : r.op \notin Registers => ~Late(r)
  BY DEF Late, Idle, Registers
<1>1. ASSUME NEW b \in Browser, ApiKeysPage(b) \/ GetKeyPage(b) PROVE Vaults
  <2>1. ASSUME PostKey(b) PROVE Vaults
    <3> DEFINE r == [Idle EXCEPT !.op = "key", !.pc = "newKey"]
    <3>1. r \in Req /\ r.op \notin Registers
      BY IdleReq DEF Req, Idle, Registers
    <3>2. SignedIn(b, r) /\ UNCHANGED <<cookie, proof, seedKey>>
      BY <2>1 DEF PostKey, cookies, seeds
    <3> HIDE DEF r
    <3> QED
      BY <3>1, <3>2, VaultsSigned
  <2>2. ASSUME NEW k \in ApiKey, DeleteKey(b, k) PROVE Vaults
    <3> DEFINE r == [Idle EXCEPT !.op = "delete", !.pc = "dropSession", !.key = k]
    <3>1. r \in Req /\ r.op \notin Registers
      BY IdleReq DEF Req, Idle, Registers
    <3>2. SignedIn(b, r) /\ UNCHANGED <<cookie, proof, seedKey>>
      BY <2>2 DEF DeleteKey, cookies, seeds
    <3> HIDE DEF r
    <3> QED
      BY <3>1, <3>2, VaultsSigned
  <2>3. ASSUME GetActiveKey(b) PROVE Vaults
    <3> DEFINE r == [Idle EXCEPT !.op = "key", !.pc = "activeKey"]
    <3>1. r \in Req /\ r.op \notin Registers
      BY IdleReq DEF Req, Idle, Registers
    <3>2. SignedIn(b, r) /\ UNCHANGED <<cookie, proof, seedKey>>
      BY <2>3 DEF GetActiveKey, cookies, seeds
    <3> HIDE DEF r
    <3> QED
      BY <3>1, <3>2, VaultsSigned
  <2> QED
    BY <1>1, <2>1, <2>2, <2>3 DEF ApiKeysPage, GetKeyPage
<1>2. ASSUME NEW b \in Browser, ReferralsPage(b) \/ DeleteProfile(b) PROVE Vaults
  <2>1. ASSUME GetReferral(b) PROVE Vaults
    <3> DEFINE r == [Idle EXCEPT !.op = "codes", !.pc = "defaultCode"]
    <3>1. r \in Req /\ r.op \notin Registers
      BY IdleReq DEF Req, Idle, Registers
    <3>2. SignedIn(b, r) /\ UNCHANGED <<cookie, proof, seedKey>>
      BY <2>1 DEF GetReferral, cookies, seeds
    <3> HIDE DEF r
    <3> QED
      BY <3>1, <3>2, VaultsSigned
  <2>2. ASSUME PostCode(b) PROVE Vaults
    <3> DEFINE r == [Idle EXCEPT !.op = "codes", !.pc = "namedCode"]
    <3>1. r \in Req /\ r.op \notin Registers
      BY IdleReq DEF Req, Idle, Registers
    <3>2. SignedIn(b, r) /\ UNCHANGED <<cookie, proof, seedKey>>
      BY <2>2 DEF PostCode, cookies, seeds
    <3> HIDE DEF r
    <3> QED
      BY <3>1, <3>2, VaultsSigned
  <2>3. ASSUME NEW c \in Code, DeleteCode(b, c) PROVE Vaults
    <3> DEFINE r == [Idle EXCEPT !.op = "codes", !.pc = "dropCode", !.code = c]
    <3>1. r \in Req /\ r.op \notin Registers
      BY IdleReq DEF Req, Idle, Registers
    <3>2. SignedIn(b, r) /\ UNCHANGED <<cookie, proof, seedKey>>
      BY <2>3 DEF DeleteCode, cookies, seeds
    <3> HIDE DEF r
    <3> QED
      BY <3>1, <3>2, VaultsSigned
  <2>4. ASSUME DeleteProfile(b) PROVE Vaults
    <3> DEFINE u == cookie[b]
               r == [Idle EXCEPT !.op = "erase", !.pc = "eraseKeys", !.made = KeysOf(u) \ BeingMade,
                       !.open = {k \in sessions : owner[k] = u}]
    <3>0. KeysOf(u) \subseteq ApiKey /\ {k \in sessions : owner[k] = u} \subseteq ApiKey
      BY DEF KeysOf, Typed, TypeOK
    <3>1. r \in Req /\ r.op \notin Registers
      BY <3>0, IdleReq DEF Req, Idle, Registers, Erasing
    <3>2. SignedIn(b, r) /\ UNCHANGED <<cookie, proof, seedKey>>
      BY <2>4 DEF DeleteProfile, cookies, seeds
    <3> HIDE DEF r
    <3> QED
      BY <3>1, <3>2, VaultsSigned
  <2> QED
    BY <1>2, <2>1, <2>2, <2>3, <2>4 DEF ReferralsPage
<1>3. ASSUME NEW b \in Browser, LoginPage(b) PROVE Vaults
  <2>1. PICK u \in Oauth, c \in Code \cup {0} : Login(b, u, c)
    BY <1>3 DEF LoginPage
  <2> DEFINE r == [Idle EXCEPT !.op = "login", !.user = u, !.code = c, !.isNew = u \notin account]
             q == IF u \notin account THEN [r EXCEPT !.pc = "newUser"] ELSE Existing(r)
  <2>2. call' = [call EXCEPT ![b] = q]
    BY <2>1 DEF Login, Arrives
  <2>3. q.op = "login"
    BY DEF Existing, Linking, Idle
  <2>4. ~Late(q)
    BY <2>3 DEF Late, Registers
  <2> HIDE DEF q
  <2> QED
    BY <2>1, <2>2, <2>4, VaultsQuiet DEF Login, seeds, cookies
<1>4. ASSUME NEW b \in Browser, Logout(b) PROVE Vaults
  <2>1. /\ cookie' = [cookie EXCEPT ![b] = NoUser] /\ proof' = proof /\ seedKey' = seedKey /\ call' = call
        /\ NoUser \notin Vault
    BY <1>4, AccountsAssumption DEF Logout, seeds, User
  <2> QED
    BY <2>1 DEF Typed, TypeOK, Vaults, CookieMoves, SeedStands, LateMoves
<1>5. ASSUME NEW b \in Browser, WriteDown(b) \/ \E v \in Vault : ShowPhrase(b, v) PROVE Vaults
  BY <1>5 DEF WriteDown, ShowPhrase, seeds, cookies, Vaults, CookieMoves, SeedStands, LateMoves
<1>6. ASSUME NEW b \in Browser, NEW v \in Vault, NEW p \in Purpose, IssueChallenge(b, v, p) PROVE Vaults
  <2>1. PICK pub \in PubKey :
           Arrives(b, [Idle EXCEPT !.op = p, !.pc = "challenge", !.user = v, !.pub = pub,
                                   !.proof = Proof(p, v, issued + 1, pub)])
    BY <1>6 DEF IssueChallenge
  <2> DEFINE r == [Idle EXCEPT !.op = p, !.pc = "challenge", !.user = v, !.pub = pub,
                               !.proof = Proof(p, v, issued + 1, pub)]
  <2>2. call' = [call EXCEPT ![b] = r]
    BY <2>1 DEF Arrives
  <2>3. ~Late(r)
    BY DEF Late, Idle
  <2> HIDE DEF r
  <2> QED
    BY <1>6, <2>2, <2>3, VaultsQuiet DEF IssueChallenge, cookies
<1>7. ASSUME NEW b \in Browser, ActiveKey(b) PROVE Vaults
  <2>1. /\ call'[b].op = call[b].op /\ call'[b].user = call[b].user /\ call'[b].pub = call[b].pub
        /\ \A x \in Browser \ {b} : call'[x] = call[x]
    BY <1>7 DEF ActiveKey, Typed, Req
  <2>2. call[b].pc = "activeKey" /\ UNCHANGED <<cookie, proof, seedKey>>
    BY <1>7 DEF ActiveKey, At, cookies, seeds
  <2> QED
    BY <2>1, <2>2 DEF Vaults, CookieMoves, SeedStands, LateMoves, Late
<1>8. ASSUME NEW b \in Browser, CreateKey(b) \/ UserKey(b) PROVE Vaults
  <2>0. call[b].op \notin Registers \/ Late(call[b])
    BY <1>8 DEF CreateKey, UserKey, At, Shapes, Shaped, SignUp, Late, Registers
  <2>1. CASE Over(b)
    BY <1>8, <2>1, VaultsOver DEF CreateKey, UserKey, InsertKey, seeds
  <2>2. ASSUME NEW k \in ApiKey, NEW pc \in {"keySession", "userSession"},
               call' = [call EXCEPT ![b].pc = pc, ![b].key = k], UNCHANGED cookies PROVE Vaults
    <3>1. /\ call'[b].op = call[b].op /\ call'[b].user = call[b].user /\ call'[b].pub = call[b].pub
          /\ \A x \in Browser \ {b} : call'[x] = call[x]
      BY <2>2 DEF Typed, Req
    <3>2. UNCHANGED <<cookie, proof, seedKey>>
      BY <1>8, <2>2 DEF CreateKey, UserKey, InsertKey, cookies, seeds
    <3> QED
      BY <2>0, <3>1, <3>2 DEF Vaults, CookieMoves, SeedStands, LateMoves, Late
  <2> QED
    BY <1>8, <2>1, <2>2 DEF CreateKey, UserKey, InsertKey
<1>9. ASSUME NEW b \in Browser, KeySession(b) \/ UserSession(b) PROVE Vaults
  <2>1. PICK pc \in {"answer", "userCode"} :
           Goto(b, pc) /\ UNCHANGED <<cookie, proof, seedKey>> /\ (pc = "answer" => call[b].pc = "keySession")
    BY <1>9 DEF KeySession, UserSession, At, InsertSession, cookies, seeds
  <2> QED
    BY <2>1, VaultsGo DEF Late
<1>10. ASSUME NEW b \in Browser, DropSession(b) PROVE Vaults
  BY <1>10, VaultsOver DEF DropSession, seeds
<1>11. ASSUME NEW b \in Browser, DefaultCode(b) \/ NamedCode(b) \/ UserCode(b) PROVE Vaults
  <2> DEFINE r == IF call[b].pc = "userCode" THEN Linking(call[b]) ELSE Idle
  <2>0. ~Late(r)
    <3>1. CASE call[b].pc = "userCode"
      <4>1. call[b] \in Req /\ call[b].op = "login"
        BY <3>1 DEF Typed, Shapes, Shaped, SignUp
      <4>2. r.op = "login"
        BY <3>1, <4>1 DEF Linking, Req
      <4> QED
        BY <4>2 DEF Late, Registers
    <3>2. CASE call[b].pc # "userCode"
      BY <1>0, <3>2
    <3> QED
      BY <3>1, <3>2
  <2>1. CASE Over(b)
    BY <1>11, <2>1, VaultsOver DEF DefaultCode, NamedCode, UserCode, InsertCode, seeds
  <2>2. CASE call' = [call EXCEPT ![b] = r] /\ UNCHANGED cookies
    <3>1. UNCHANGED <<cookie, proof, seedKey>>
      BY <1>11, <2>2 DEF DefaultCode, NamedCode, UserCode, InsertCode, seeds, cookies
    <3> HIDE DEF r
    <3> QED
      BY <2>0, <2>2, <3>1, VaultsQuiet
  <2> QED
    BY <1>11, <2>1, <2>2 DEF DefaultCode, NamedCode, UserCode, InsertCode, At
<1>12. ASSUME NEW b \in Browser, DropCode(b) PROVE Vaults
  BY <1>0, <1>12, VaultsQuiet DEF DropCode, seeds, cookies
<1>13. ASSUME NEW b \in Browser, NewUser(b) \/ Link(b) PROVE Vaults
  <2>0. call[b].op = "login" /\ UNCHANGED seedKey
    BY <1>13 DEF NewUser, Link, At, Shapes, Shaped, SignUp, seeds
  <2>1. CASE Over(b)
    BY <2>0, <2>1, VaultsOver
  <2>2. ASSUME NEW pc \in {"userKey", "activeKey"}, Goto(b, pc), UNCHANGED cookies PROVE Vaults
    BY <2>0, <2>2, VaultsGo DEF Registers, cookies
  <2> QED
    BY <1>13, <2>1, <2>2 DEF NewUser, Link
<1>14e. ASSUME NEW b \in Browser, EraseKeys(b) \/ EraseCodes(b) PROVE Vaults
  <2>1. PICK r \in Req : call' = [call EXCEPT ![b] = r] /\ r.pc \in {"idle", "eraseCodes", "erase"}
    BY <1>14e, ReqErases
  <2>2. ~Late(r) /\ UNCHANGED <<cookie, proof, seedKey>>
    BY <1>14e, <2>1 DEF Late, EraseKeys, EraseCodes, cookies, seeds
  <2> QED
    BY <2>1, <2>2, VaultsQuiet
<1>14. ASSUME NEW b \in Browser, Erase(b) PROVE Vaults
  <2>1. /\ cookie' = cookie \/ cookie' = [cookie EXCEPT ![b] = NoUser]
        /\ proof' = proof /\ seedKey' = seedKey /\ call' = [call EXCEPT ![b] = Idle] /\ NoUser \notin Vault
    BY <1>14, AccountsAssumption DEF Erase, seeds, User
  <2> QED
    BY <1>0, <2>1 DEF Typed, TypeOK, Vaults, CookieMoves, SeedStands, LateMoves
<1>15. ASSUME NEW b \in Browser, NEW pc \in {"oauth", "store", "lookup"}, TakeChallenge(b, pc) PROVE Vaults
  <2>1. CASE Over(b)
    BY <1>15, <2>1, VaultsOver DEF TakeChallenge
  <2>2. CASE Goto(b, pc) /\ UNCHANGED cookies
    BY <1>15, <2>2, VaultsGo DEF TakeChallenge, cookies
  <2> QED
    BY <1>15, <2>1, <2>2 DEF TakeChallenge
<1>16. ASSUME NEW b \in Browser, VerifyOAuth(b) PROVE Vaults
  BY <1>16, VaultsOver, VaultsGo DEF VerifyOAuth, seeds, cookies
<1>17. ASSUME NEW b \in Browser, StoreSeedUser(b) PROVE Vaults
  <2>1. CASE Over(b) /\ UNCHANGED seedKey
    BY <2>1, VaultsOver
  <2>2. CASE /\ seedKey[Me(b)] \in {NoKey, call[b].pub}
             /\ seedKey' = [seedKey EXCEPT ![Me(b)] = call[b].pub] /\ Goto(b, "activeKey") /\ UNCHANGED cookies
    <3>1. Me(b) = call[b].user /\ call[b].user \in Vault
      BY <1>17 DEF StoreSeedUser, At, Me, Shapes, Shaped
    <3>2. /\ call'[b].user = call[b].user /\ call'[b].pub = call[b].pub
          /\ \A x \in Browser \ {b} : call'[x] = call[x]
      BY <2>2 DEF Goto, Typed, Req
    <3> QED
      BY <2>2, <3>1, <3>2 DEF Typed, TypeOK, Vaults, CookieMoves, SeedStands, LateMoves, cookies
  <2> QED
    BY <1>17, <2>1, <2>2 DEF StoreSeedUser
<1>18. ASSUME NEW b \in Browser, LookUpKey(b), call[b].op = "sign-in" PROVE Vaults
  BY <1>18, VaultsOver, VaultsGo DEF LookUpKey, Registers, seeds, cookies
<1>19. ASSUME NEW b \in Browser, Answer(b) PROVE Vaults
  <2>1. call[b].pc = "answer" /\ call' = [call EXCEPT ![b] = Idle] /\ seedKey' = seedKey
    BY <1>19 DEF Answer, At, seeds
  <2>2. \A x \in Browser \ {b} : cookie'[x] = cookie[x] /\ proof'[x] = proof[x]
    BY <1>19 DEF Answer, Typed, TypeOK
  <2>3. cookie'[b] \in Vault => \/ cookie'[b] = cookie[b] /\ proof'[b] = proof[b]
                                \/ Late(call[b]) /\ cookie'[b] = call[b].user /\ proof'[b] = call[b].pub
    <3>1. CASE call[b].op \in Registers
      BY <1>19, <2>1, <3>1 DEF Answer, Typed, TypeOK, Late, Registers
    <3>2. CASE call[b].op = "login"
      BY <1>19, <3>2, AccountsAssumption DEF Answer, Typed, TypeOK, Shapes, Shaped
    <3>3. CASE call[b].op \notin Registers \cup {"login"}
      BY <1>19, <3>3 DEF Answer, Registers
    <3> QED
      BY <3>1, <3>2, <3>3
  <2> QED
    BY <1>0, <2>1, <2>2, <2>3 DEF Typed, Vaults, CookieMoves, SeedStands, LateMoves
<1>20. ASSUME NEW b \in Browser, LoseAnswer(b) PROVE Vaults
  <2> DEFINE r == IF call[b].op \in Purpose THEN [call[b] EXCEPT !.pc = "challenge", !.key = 0] ELSE Idle
  <2>1. call' = [call EXCEPT ![b] = r]
    BY <1>20 DEF LoseAnswer, Typed
  <2>2. ~Late(r)
    BY <1>0 DEF Typed, Req, Late
  <2> HIDE DEF r
  <2> QED
    BY <1>20, <2>1, <2>2, VaultsQuiet DEF LoseAnswer, seeds, cookies
<1>21. ASSUME NEW b \in Browser, StatementFails(b) PROVE Vaults
  BY <1>21, VaultsOver DEF StatementFails, seeds
<1>22. ASSUME NEW v \in Vault, Expire(v) PROVE Vaults
  BY <1>22 DEF Expire, cookies, Vaults, CookieMoves, SeedStands, LateMoves
<1>23. CASE Restart
  <2>1. \A x \in Browser : cookie'[x] = NoUser /\ call'[x] \in {call[x], Idle}
    BY <1>23 DEF Restart
  <2>2. seedKey' = seedKey /\ NoUser \notin Vault
    BY <1>23, AccountsAssumption DEF Restart, User
  <2> QED
    BY <1>0, <2>1, <2>2 DEF Vaults, CookieMoves, SeedStands, LateMoves
<1> QED
  BY <1>1, <1>2, <1>3, <1>4, <1>5, <1>6, <1>7, <1>8, <1>9, <1>10, <1>11, <1>12, <1>13, <1>14, <1>14e, <1>15,
     <1>16, <1>17, <1>18, <1>19, <1>20, <1>21, <1>22, <1>23, AccountsAssumption
  DEF Next, ProfilePage, ModeCPage, VerifyPhrase, RestorePhrase, ModeBPage, AppSignIn, Purpose, KeyStep, CodeStep, UserStep,
      EraseStep, RegisterModeB, RegisterModeC, SignIn

LEMMA RegisteredStep ==
  ASSUME Typed, Shapes, Registered, VaultKeyStands, Vaults
  PROVE  Registered' /\ VaultKeyStands'
<1>1. \A x \in Browser : Late(call[x]) =>
        call[x].user \in Vault /\ call[x].pub \in PubKey /\ seedKey[call[x].user] = call[x].pub
  BY DEF Shapes, Shaped, Registered, Late, Registers, Purpose
<1>2. NoKey \notin PubKey
  BY AccountsAssumption
<1>3. ASSUME NEW x \in Browser, cookie'[x] \in Vault
      PROVE  proof'[x] # NoKey /\ seedKey'[cookie'[x]] = proof'[x]
  BY <1>1, <1>2, <1>3 DEF Vaults, CookieMoves, SeedStands, Registered, VaultKeyStands
<1>4. ASSUME NEW x \in Browser, Late(call'[x]) PROVE seedKey'[call'[x].user] = call'[x].pub
  BY <1>1, <1>2, <1>4 DEF Vaults, LateMoves, SeedStands
<1> QED
  BY <1>3, <1>4 DEF Registered, VaultKeyStands, Late


-----------------------------------------------------------------------------
(* Keys                                                                    *)

\* Places of a request at which a key is half made, half deleted or about to
\* be erased.
Halfway == {"keySession", "userSession", "dropSession"} \cup Erasing

\* A step that writes no key and takes no request to or from such a place,
\* except that one which makes a key may end.
Quiet ==
  /\ UNCHANGED keys
  /\ \A x \in Browser : \/ call'[x] = call[x]
                        \/ call'[x].pc \notin Halfway /\ call[x].pc # "dropSession"

LEMMA QuietOne ==
  ASSUME Typed, NEW b \in Browser, NEW r, call' = [call EXCEPT ![b] = r], r.pc \notin Halfway,
         call[b].pc # "dropSession", UNCHANGED keys
  PROVE  Quiet
BY DEF Typed, Quiet

LEMMA QuietGo ==
  ASSUME Typed, NEW b \in Browser, NEW pc, Goto(b, pc), pc \notin Halfway,
         call[b].pc # "dropSession", UNCHANGED keys
  PROVE  Quiet
BY DEF Goto, Typed, Req, Quiet

LEMMA QuietOver ==
  ASSUME Typed, NEW b \in Browser, Over(b), call[b].pc # "dropSession", UNCHANGED keys
  PROVE  Quiet
BY QuietOne DEF Over, Idle, Halfway, Erasing

LEMMA QuietSigned ==
  ASSUME Typed, NEW b \in Browser, NEW r \in Req, r.pc \notin Halfway, SignedIn(b, r), UNCHANGED keys
  PROVE  Quiet
<1> DEFINE q == [r EXCEPT !.user = cookie[b]]
<1>1. call' = [call EXCEPT ![b] = q] /\ call[b].pc = "idle"
  BY DEF SignedIn, Arrives, At
<1>2. q.pc \notin Halfway
  BY DEF Req
<1> HIDE DEF q
<1> QED
  BY <1>1, <1>2, QuietOne

\* The steps that touch a key.
Touches ==
  \/ \E b \in Browser : \/ \E k \in ApiKey : DeleteKey(b, k)
                        \/ \E pc \in {"keySession", "userSession"} : InsertKey(b, pc) /\ call[b].pc # "dropSession"
                        \/ \E pc \in {"answer", "userCode"} : Making(b) /\ InsertSession(b, pc)
                        \/ DropSession(b) \/ DeleteProfile(b) \/ EraseStep(b) \/ StatementFails(b)
  \/ Restart

LEMMA KeysMove ==
  ASSUME Typed, Shapes, Next
  PROVE  Quiet \/ Touches
<1>0. Idle.pc \notin Halfway
  BY DEF Idle, Halfway, Erasing
<1>1. ASSUME NEW b \in Browser, PostKey(b) PROVE Quiet
  <2> DEFINE r == [Idle EXCEPT !.op = "key", !.pc = "newKey"]
  <2>1. r \in Req /\ r.pc \notin Halfway
    BY IdleReq DEF Req, Idle, Halfway, Erasing
  <2>2. SignedIn(b, r) /\ UNCHANGED keys
    BY <1>1 DEF PostKey
  <2> HIDE DEF r
  <2> QED
    BY <2>1, <2>2, QuietSigned
<1>2. ASSUME NEW b \in Browser, GetActiveKey(b) PROVE Quiet
  <2> DEFINE r == [Idle EXCEPT !.op = "key", !.pc = "activeKey"]
  <2>1. r \in Req /\ r.pc \notin Halfway
    BY IdleReq DEF Req, Idle, Halfway, Erasing
  <2>2. SignedIn(b, r) /\ UNCHANGED keys
    BY <1>2 DEF GetActiveKey
  <2> HIDE DEF r
  <2> QED
    BY <2>1, <2>2, QuietSigned
<1>3. ASSUME NEW b \in Browser, GetReferral(b) PROVE Quiet
  <2> DEFINE r == [Idle EXCEPT !.op = "codes", !.pc = "defaultCode"]
  <2>1. r \in Req /\ r.pc \notin Halfway
    BY IdleReq DEF Req, Idle, Halfway, Erasing
  <2>2. SignedIn(b, r) /\ UNCHANGED keys
    BY <1>3 DEF GetReferral
  <2> HIDE DEF r
  <2> QED
    BY <2>1, <2>2, QuietSigned
<1>4. ASSUME NEW b \in Browser, PostCode(b) PROVE Quiet
  <2> DEFINE r == [Idle EXCEPT !.op = "codes", !.pc = "namedCode"]
  <2>1. r \in Req /\ r.pc \notin Halfway
    BY IdleReq DEF Req, Idle, Halfway, Erasing
  <2>2. SignedIn(b, r) /\ UNCHANGED keys
    BY <1>4 DEF PostCode
  <2> HIDE DEF r
  <2> QED
    BY <2>1, <2>2, QuietSigned
<1>5. ASSUME NEW b \in Browser, NEW c \in Code, DeleteCode(b, c) PROVE Quiet
  <2> DEFINE r == [Idle EXCEPT !.op = "codes", !.pc = "dropCode", !.code = c]
  <2>1. r \in Req /\ r.pc \notin Halfway
    BY IdleReq DEF Req, Idle, Halfway, Erasing
  <2>2. SignedIn(b, r) /\ UNCHANGED keys
    BY <1>5 DEF DeleteCode
  <2> HIDE DEF r
  <2> QED
    BY <2>1, <2>2, QuietSigned
<1>6. ASSUME NEW b \in Browser, LoginPage(b) PROVE Quiet
  <2>1. PICK u \in Oauth, c \in Code \cup {0} : Login(b, u, c)
    BY <1>6 DEF LoginPage
  <2> DEFINE r == [Idle EXCEPT !.op = "login", !.user = u, !.code = c, !.isNew = u \notin account]
             q == IF u \notin account THEN [r EXCEPT !.pc = "newUser"] ELSE Existing(r)
  <2>2. call' = [call EXCEPT ![b] = q] /\ call[b].pc = "idle" /\ UNCHANGED keys
    BY <2>1 DEF Login, Arrives, At
  <2>3. q.pc \in {"newUser", "link", "activeKey"}
    BY DEF Existing, Linking, Idle
  <2> HIDE DEF q
  <2> QED
    BY <2>2, <2>3, QuietOne DEF Halfway, Erasing
<1>7. ASSUME NEW b \in Browser, Logout(b) \/ WriteDown(b) \/ \E v \in Vault : ShowPhrase(b, v) PROVE Quiet
  BY <1>7 DEF Logout, WriteDown, ShowPhrase, Quiet
<1>8. ASSUME NEW b \in Browser, NEW v \in Vault, NEW p \in Purpose, IssueChallenge(b, v, p) PROVE Quiet
  <2>1. PICK pub \in PubKey :
           Arrives(b, [Idle EXCEPT !.op = p, !.pc = "challenge", !.user = v, !.pub = pub,
                                   !.proof = Proof(p, v, issued + 1, pub)])
    BY <1>8 DEF IssueChallenge
  <2> DEFINE r == [Idle EXCEPT !.op = p, !.pc = "challenge", !.user = v, !.pub = pub,
                               !.proof = Proof(p, v, issued + 1, pub)]
  <2>2. call' = [call EXCEPT ![b] = r] /\ call[b].pc = "idle" /\ UNCHANGED keys
    BY <1>8, <2>1 DEF IssueChallenge, Arrives, At
  <2>3. r.pc = "challenge"
    BY DEF Idle
  <2> HIDE DEF r
  <2> QED
    BY <2>2, <2>3, QuietOne DEF Halfway, Erasing
<1>9. ASSUME NEW b \in Browser, ActiveKey(b) PROVE Quiet
  <2>1. call'[b].pc \in {"answer", "newKey"} /\ \A x \in Browser \ {b} : call'[x] = call[x]
    BY <1>9 DEF ActiveKey, Typed, Req
  <2> QED
    BY <1>9, <2>1 DEF ActiveKey, At, Quiet, Halfway, Erasing
<1>10. ASSUME NEW b \in Browser, CreateKey(b) \/ UserKey(b) PROVE Touches
  BY <1>10 DEF CreateKey, UserKey, At, Touches
<1>11. ASSUME NEW b \in Browser, KeySession(b) \/ UserSession(b) PROVE Touches
  BY <1>11 DEF KeySession, UserSession, At, Making, Touches
<1>12. ASSUME NEW b \in Browser, DefaultCode(b) \/ NamedCode(b) \/ UserCode(b) PROVE Quiet
  <2> DEFINE r == IF call[b].pc = "userCode" THEN Linking(call[b]) ELSE Idle
  <2>0. r.pc \notin Halfway /\ UNCHANGED keys /\ call[b].pc # "dropSession"
    BY <1>0, <1>12 DEF Linking, Typed, Req, Halfway, Erasing, DefaultCode, NamedCode, UserCode, InsertCode, At
  <2>1. CASE Over(b)
    BY <2>0, <2>1, QuietOver
  <2>2. CASE call' = [call EXCEPT ![b] = r]
    <3> HIDE DEF r
    <3> QED
      BY <2>0, <2>2, QuietOne
  <2> QED
    BY <1>12, <2>1, <2>2 DEF DefaultCode, NamedCode, UserCode, InsertCode, At
<1>13. ASSUME NEW b \in Browser, DropCode(b) PROVE Quiet
  BY <1>0, <1>13, QuietOne DEF DropCode, At
<1>14. ASSUME NEW b \in Browser, NewUser(b) \/ Link(b) PROVE Quiet
  BY <1>14, QuietOver, QuietGo DEF NewUser, Link, At, Halfway, Erasing
<1>15. ASSUME NEW b \in Browser, NEW pc \in {"oauth", "store", "lookup"}, TakeChallenge(b, pc) PROVE Quiet
  BY <1>15, QuietOver, QuietGo DEF TakeChallenge, At, Halfway, Erasing
<1>16. ASSUME NEW b \in Browser, VerifyOAuth(b) \/ StoreSeedUser(b) \/ LookUpKey(b) PROVE Quiet
  BY <1>16, QuietOver, QuietGo DEF VerifyOAuth, StoreSeedUser, LookUpKey, At, Halfway, Erasing
<1>17. ASSUME NEW b \in Browser, Answer(b) PROVE Quiet
  BY <1>0, <1>17, QuietOne DEF Answer, At
<1>18. ASSUME NEW b \in Browser, LoseAnswer(b) PROVE Quiet
  <2> DEFINE r == IF call[b].op \in Purpose THEN [call[b] EXCEPT !.pc = "challenge", !.key = 0] ELSE Idle
  <2>1. call' = [call EXCEPT ![b] = r] /\ UNCHANGED keys /\ call[b].pc = "answer"
    BY <1>18 DEF LoseAnswer, At, Typed
  <2>2. r.pc \notin Halfway
    BY <1>0 DEF Typed, Req, Halfway, Erasing
  <2> HIDE DEF r
  <2> QED
    BY <2>1, <2>2, QuietOne
<1>19. ASSUME NEW v \in Vault, Expire(v) PROVE Quiet
  BY <1>19 DEF Expire, Quiet
<1>20. ASSUME NEW b \in Browser, DropSession(b) \/ DeleteProfile(b) \/ EraseStep(b) \/ StatementFails(b)
                \/ \E k \in ApiKey : DeleteKey(b, k) PROVE Touches
  BY <1>20 DEF Touches
<1> QED
  BY <1>1, <1>2, <1>3, <1>4, <1>5, <1>6, <1>7, <1>8, <1>9, <1>10, <1>11, <1>12, <1>13, <1>14, <1>15,
     <1>16, <1>17, <1>18, <1>19, <1>20, AccountsAssumption
  DEF Next, Touches, ApiKeysPage, GetKeyPage, ReferralsPage, LoginPage, ProfilePage, ModeCPage, VerifyPhrase, RestorePhrase,
      ModeBPage, AppSignIn, Purpose, KeyStep, CodeStep, UserStep, EraseStep, RegisterModeB, RegisterModeC, SignIn


LEMMA QuietStep ==
  ASSUME Accounted, DeadKeyIsOut, Quiet
  PROVE  Accounted' /\ DeadKeyIsOut'
<1>1. \A x \in Browser : call'[x].pc \in Halfway => call'[x] = call[x]
  BY DEF Quiet
<1>2. BeingMade' \subseteq BeingMade
  BY <1>1 DEF BeingMade, Halfway, Erasing
<1>3. owner' = owner /\ listed' = listed /\ sessions' = sessions /\ torn' = torn /\ raced' = raced
  BY DEF Quiet, keys
<1>4. \A x \in Browser : call[x].pc = "dropSession" => call'[x] = call[x]
  BY DEF Quiet
<1>5. Accounted'
  BY <1>1, <1>2, <1>3 DEF Accounted, Making, Halfway, Erasing
<1>6. DeadKeyIsOut'
  BY <1>3, <1>4 DEF DeadKeyIsOut, PinAccepts, WebAccepts, At
<1> QED
  BY <1>5, <1>6

LEMMA InsertKeyStep ==
  ASSUME Typed, Accounted, DeadKeyIsOut, NEW b \in Browser, NEW pc \in {"keySession", "userSession"},
         InsertKey(b, pc), call[b].pc # "dropSession"
  PROVE  Accounted' /\ DeadKeyIsOut'
<1>1. PICK k \in ApiKey : InsertKey(b, pc)!1!(k)
  BY DEF InsertKey
<1>2. sessions' = sessions /\ torn' = torn /\ raced' = raced
  BY DEF InsertKey
<1>3. CASE Me(b) \in account
  <2>1. /\ owner' = [owner EXCEPT ![k] = Me(b)] /\ listed' = [listed EXCEPT ![k] = "live"]
        /\ call' = [call EXCEPT ![b].pc = pc, ![b].key = k]
    BY <1>1, <1>3
  <2>2. owner[k] = NoUser /\ k \notin sessions /\ Me(b) # NoUser
    BY <1>1, <1>3, AccountsAssumption DEF Unused, Accounted, Typed, TypeOK
  <2>3. /\ \A i \in ApiKey : owner'[i] = (IF i = k THEN Me(b) ELSE owner[i])
        /\ \A i \in ApiKey : listed'[i] = (IF i = k THEN "live" ELSE listed[i])
    BY <2>1 DEF Typed, TypeOK
  <2>4. /\ call'[b].pc = pc /\ call'[b].key = k
        /\ \A x \in Browser \ {b} : call'[x] = call[x]
    BY <2>1 DEF Typed, Req
  <2>5. BeingMade' \subseteq BeingMade \cup {k}
    BY <2>4 DEF BeingMade
  <2>6. \A i \in ApiKey : owner'[i] = NoUser => i \notin sessions' /\ listed'[i] = "absent"
    BY <1>2, <2>2, <2>3 DEF Accounted
  <2>7. ASSUME NEW x \in Browser, call'[x].pc = "dropSession" PROVE call'[x].key \in ApiKey
    BY <2>4, <2>7 DEF Accounted
  <2>8. ASSUME NEW x \in Browser, call'[x].pc \in {"keySession", "userSession"}
        PROVE /\ call'[x].key \in ApiKey /\ owner'[call'[x].key] # NoUser
              /\ listed'[call'[x].key] = "live" \/ call'[x].key \in raced'
    <3>1. CASE x = b
      BY <2>2, <2>3, <2>4, <3>1
    <3>2. CASE x # b
      <4>1. call'[x] = call[x] /\ Making(x)
        BY <2>4, <2>8, <3>2 DEF Making
      <4>2. /\ call[x].key \in ApiKey /\ owner[call[x].key] # NoUser
            /\ listed[call[x].key] = "live" \/ call[x].key \in raced
        BY <4>1 DEF Accounted
      <4> QED
        BY <1>2, <2>2, <2>3, <4>1, <4>2
    <3> QED
      BY <3>1, <3>2
  <2>9. ASSUME NEW x \in Browser, call'[x].pc \in Erasing, NEW i \in call'[x].made
        PROVE /\ owner'[i] # NoUser
              /\ i \in sessions' => i \in call'[x].open \cup torn' \cup raced'
              /\ i \in BeingMade' => i \in raced'
    <3>1. call'[x] = call[x] /\ call[x].pc \in Erasing
      BY <2>4, <2>9 DEF Erasing
    <3>2. owner[i] # NoUser /\ i \in ApiKey
      BY <2>9, <3>1 DEF Accounted, Typed, Req
    <3> QED
      BY <1>2, <2>2, <2>3, <2>5, <2>9, <3>1, <3>2 DEF Accounted
  <2>10. DeadKeyIsOut'
    BY <1>2, <2>2, <2>3, <2>4 DEF DeadKeyIsOut, PinAccepts, WebAccepts, At
  <2> QED
    BY <2>6, <2>7, <2>8, <2>9, <2>10 DEF Accounted, Making
<1>4. CASE Me(b) \notin account
  <2>1. UNCHANGED keys
    BY <1>1, <1>2, <1>4 DEF keys
  <2>2. Over(b)
    BY <1>1, <1>4
  <2> QED
    BY <2>1, <2>2, QuietOver, QuietStep
<1> QED
  BY <1>3, <1>4

LEMMA InsertSessionStep ==
  ASSUME Typed, Accounted, DeadKeyIsOut, NEW b \in Browser, NEW pc \in {"answer", "userCode"},
         Making(b), InsertSession(b, pc)
  PROVE  Accounted' /\ DeadKeyIsOut'
<1> DEFINE k == call[b].key
<1>1. k \in ApiKey /\ owner[k] # NoUser /\ (listed[k] = "live" \/ k \in raced) /\ k \in BeingMade
  BY DEF Accounted, Making, BeingMade
<1>2. sessions' = sessions \cup {k} /\ owner' = owner /\ listed' = listed /\ torn' = torn /\ raced' = raced
  BY DEF InsertSession
<1>3. call'[b].pc = pc /\ \A x \in Browser \ {b} : call'[x] = call[x]
  BY DEF InsertSession, Goto, Typed, Req
<1> HIDE DEF k
<1>4. BeingMade' \subseteq BeingMade
  BY <1>3 DEF BeingMade
<1>5. Accounted'
  BY <1>1, <1>2, <1>3, <1>4 DEF Accounted, Making, Erasing
<1>6. DeadKeyIsOut'
  BY <1>1, <1>2, <1>3 DEF DeadKeyIsOut, PinAccepts, WebAccepts, At, Making
<1> QED
  BY <1>5, <1>6

LEMMA DeleteKeyStep ==
  ASSUME Typed, Accounted, DeadKeyIsOut, NEW b \in Browser, NEW k \in ApiKey, DeleteKey(b, k)
  PROVE  Accounted' /\ DeadKeyIsOut'
<1>1. /\ owner' = owner /\ sessions' = sessions /\ torn' = torn /\ raced' = raced \cup (BeingMade \cap {k})
      /\ listed' = listed \/ listed' = [listed EXCEPT ![k] = "deleted"]
      /\ cookie[b] # NoUser /\ owner[k] = cookie[b]
  BY DEF DeleteKey, SignedIn
<1>2. /\ call'[b].pc = "dropSession" /\ call'[b].key = k /\ call[b].pc = "idle"
      /\ \A x \in Browser \ {b} : call'[x] = call[x]
  BY DEF DeleteKey, SignedIn, Arrives, At, Idle, Typed
<1>3. \A i \in ApiKey : i # k => listed'[i] = listed[i]
  BY <1>1 DEF Typed, TypeOK
<1>4. BeingMade' \subseteq BeingMade
  BY <1>2 DEF BeingMade
<1>5. \A i \in ApiKey : owner'[i] = NoUser => i \notin sessions' /\ listed'[i] = "absent"
  BY <1>1, <1>3 DEF Accounted
<1>6. ASSUME NEW x \in Browser, call'[x].pc = "dropSession" PROVE call'[x].key \in ApiKey
  BY <1>2, <1>6 DEF Accounted
<1>7. ASSUME NEW x \in Browser, call'[x].pc \in {"keySession", "userSession"}
      PROVE /\ call'[x].key \in ApiKey /\ owner'[call'[x].key] # NoUser
            /\ listed'[call'[x].key] = "live" \/ call'[x].key \in raced'
  <2>1. call'[x] = call[x] /\ Making(x) /\ call[x].key \in BeingMade
    BY <1>2, <1>7 DEF Making, BeingMade
  <2>2. /\ call[x].key \in ApiKey /\ owner[call[x].key] # NoUser
        /\ listed[call[x].key] = "live" \/ call[x].key \in raced
    BY <2>1 DEF Accounted
  <2> QED
    BY <1>1, <1>3, <2>1, <2>2
<1>8. ASSUME NEW x \in Browser, call'[x].pc \in Erasing, NEW i \in call'[x].made
      PROVE /\ owner'[i] # NoUser
            /\ i \in sessions' => i \in call'[x].open \cup torn' \cup raced'
            /\ i \in BeingMade' => i \in raced'
  BY <1>1, <1>2, <1>4, <1>8 DEF Accounted, Erasing
<1>9. DeadKeyIsOut'
  <2>1. \A x \in Browser : call[x].pc = "dropSession" => call'[x] = call[x]
    BY <1>2
  <2>2. ASSUME NEW i \in ApiKey, i \in sessions'
        PROVE listed'[i] = "live" \/ i \in torn' \cup raced' \/ \E x \in Browser : call'[x].pc = "dropSession" /\ call'[x].key = i
    BY <1>1, <1>2, <1>3, <2>1, <2>2 DEF DeadKeyIsOut, PinAccepts, WebAccepts, At
  <2> QED
    BY <2>2 DEF DeadKeyIsOut, PinAccepts, WebAccepts, At
<1> QED
  BY <1>5, <1>6, <1>7, <1>8, <1>9 DEF Accounted, Making

LEMMA EraseEnds ==
  ASSUME Typed, Accounted, DeadKeyIsOut, NEW b \in Browser, Erase(b)
  PROVE  Accounted' /\ DeadKeyIsOut'
<1>1. owner' = owner /\ torn' = torn /\ raced \subseteq raced' /\ call[b].pc = "erase" /\ call[b].pc \in Erasing
  BY DEF Erase, At, Erasing
<1>2. call'[b].pc = "idle" /\ \A x \in Browser \ {b} : call'[x] = call[x]
  BY DEF Erase, Typed, Idle
<1>3. BeingMade' \subseteq BeingMade
  BY <1>2 DEF BeingMade
<1>4. CASE UNCHANGED <<listed, sessions, raced>>
  BY <1>1, <1>2, <1>4, QuietStep DEF Quiet, keys, Halfway, Erasing
<1>5. CASE /\ listed' = [k \in ApiKey |-> IF k \in call[b].rows THEN "absent" ELSE listed[k]]
           /\ sessions' = sessions \ call[b].open /\ raced' = raced \cup (call[b].rows \ call[b].made)
  <2>1. \A k \in ApiKey : owner'[k] = NoUser => k \notin sessions' /\ listed'[k] = "absent"
    BY <1>1, <1>5 DEF Accounted
  <2>2. ASSUME NEW x \in Browser, call'[x].pc \in {"keySession", "userSession"}
        PROVE /\ call'[x].key \in ApiKey /\ owner'[call'[x].key] # NoUser
              /\ listed'[call'[x].key] = "live" \/ call'[x].key \in raced'
    <3>1. call'[x] = call[x] /\ Making(x) /\ call[x].key \in BeingMade
      BY <1>2, <2>2 DEF Making, BeingMade
    <3>2. /\ call[x].key \in ApiKey /\ owner[call[x].key] # NoUser
          /\ listed[call[x].key] = "live" \/ call[x].key \in raced
      BY <3>1 DEF Accounted
    <3>3. call[x].key \in call[b].rows => call[x].key \in raced'
      BY <1>1, <1>5, <3>1 DEF Accounted
    <3> QED
      BY <1>1, <1>5, <3>1, <3>2, <3>3
  <2>3. ASSUME NEW x \in Browser, call'[x].pc \in Erasing, NEW i \in call'[x].made
        PROVE /\ owner'[i] # NoUser
              /\ i \in sessions' => i \in call'[x].open \cup torn' \cup raced'
              /\ i \in BeingMade' => i \in raced'
    BY <1>1, <1>2, <1>3, <1>5, <2>3 DEF Accounted, Erasing
  <2>4. DeadKeyIsOut'
    <3>1. \A k \in ApiKey : k \in sessions' /\ k \in call[b].rows => k \in torn \cup raced'
      BY <1>1, <1>5 DEF Accounted
    <3>2. \A x \in Browser : call[x].pc = "dropSession" => call'[x] = call[x]
      BY <1>1, <1>2
    <3> QED
      BY <1>1, <1>5, <3>1, <3>2 DEF DeadKeyIsOut, PinAccepts, WebAccepts, At
  <2>5. \A x \in Browser : call'[x].pc = "dropSession" => call'[x].key \in ApiKey
    BY <1>2 DEF Accounted
  <2> QED
    BY <2>1, <2>2, <2>3, <2>4, <2>5 DEF Accounted, Making
<1> QED
  BY <1>4, <1>5 DEF Erase

LEMMA AccountedStep ==
  ASSUME Typed, Shapes, Accounted, DeadKeyIsOut, Next
  PROVE  Accounted' /\ DeadKeyIsOut'
<1>1. CASE Quiet
  BY <1>1, QuietStep
<1>2. ASSUME NEW b \in Browser, DropSession(b) PROVE Accounted' /\ DeadKeyIsOut'
  <2> DEFINE k == call[b].key
  <2>1. /\ sessions' = sessions \ {k} /\ owner' = owner /\ listed' = listed
        /\ torn' = torn /\ raced' = raced /\ call[b].pc = "dropSession"
    BY <1>2 DEF DropSession, At
  <2>2. call'[b].pc = "idle" /\ \A x \in Browser \ {b} : call'[x] = call[x]
    BY <1>2 DEF DropSession, Over, Idle, Typed
  <2> HIDE DEF k
  <2>3. BeingMade' \subseteq BeingMade
    BY <2>2 DEF BeingMade
  <2>4. Accounted'
    BY <2>1, <2>2, <2>3 DEF Accounted, Making, Erasing
  <2>5. DeadKeyIsOut'
    BY <2>1, <2>2 DEF DeadKeyIsOut, PinAccepts, WebAccepts, At, k
  <2> QED
    BY <2>4, <2>5
<1>3. ASSUME NEW b \in Browser, DeleteProfile(b) PROVE Accounted' /\ DeadKeyIsOut'
  <2> DEFINE u == cookie[b]
  <2>1. UNCHANGED keys /\ u # NoUser
    BY <1>3 DEF DeleteProfile, SignedIn
  <2>2. /\ call[b].pc = "idle" /\ \A x \in Browser \ {b} : call'[x] = call[x]
        /\ call'[b].pc = "eraseKeys" /\ call'[b].made = KeysOf(u) \ BeingMade
        /\ call'[b].open = {k \in sessions : owner[k] = u}
    BY <1>3 DEF DeleteProfile, SignedIn, Arrives, At, Idle, Typed
  <2>3. BeingMade' \subseteq BeingMade
    BY <2>2 DEF BeingMade
  <2>4. \A k \in KeysOf(u) : k \in ApiKey /\ owner[k] = u
    BY DEF KeysOf
  <2> HIDE DEF u
  <2>5. ASSUME NEW x \in Browser, call'[x].pc \in Erasing, NEW i \in call'[x].made
        PROVE /\ owner'[i] # NoUser
              /\ i \in sessions' => i \in call'[x].open \cup torn' \cup raced'
              /\ i \in BeingMade' => i \in raced'
    <3>1. CASE x = b
      BY <2>1, <2>2, <2>3, <2>4, <2>5, <3>1 DEF keys
    <3>2. CASE x # b
      BY <2>1, <2>2, <2>3, <2>5, <3>2 DEF Accounted, keys
    <3> QED
      BY <3>1, <3>2
  <2>6. Accounted'
    BY <2>1, <2>2, <2>5 DEF Accounted, Making, keys
  <2>7. DeadKeyIsOut'
    BY <2>1, <2>2 DEF DeadKeyIsOut, PinAccepts, WebAccepts, At, keys
  <2> QED
    BY <2>6, <2>7
<1>3e. ASSUME NEW b \in Browser, EraseKeys(b) \/ EraseCodes(b) PROVE Accounted' /\ DeadKeyIsOut'
  <2>1. UNCHANGED keys /\ call[b].pc \in Erasing
    BY <1>3e DEF EraseKeys, EraseCodes, At, Erasing
  <2>2. PICK r \in Req : /\ call' = [call EXCEPT ![b] = r] /\ r.pc \in {"idle", "eraseCodes", "erase"}
                         /\ r.pc \in Erasing => r.made = call[b].made /\ r.open = call[b].open
    BY <1>3e, ReqErases
  <2>3. call'[b] = r /\ \A x \in Browser \ {b} : call'[x] = call[x]
    BY <2>2 DEF Typed
  <2>4. BeingMade' \subseteq BeingMade
    BY <2>2, <2>3 DEF BeingMade
  <2>5. Accounted'
    BY <2>1, <2>2, <2>3, <2>4 DEF Accounted, Making, keys
  <2>6. DeadKeyIsOut'
    BY <2>1, <2>2, <2>3 DEF DeadKeyIsOut, PinAccepts, WebAccepts, At, keys, Erasing
  <2> QED
    BY <2>5, <2>6
<1>4. ASSUME NEW b \in Browser, StatementFails(b) PROVE Accounted' /\ DeadKeyIsOut'
  <2>1. /\ sessions' = sessions /\ owner' = owner /\ listed' = listed
        /\ torn' = torn \cup Halves({b}) /\ raced' = raced
    BY <1>4 DEF StatementFails
  <2>2. call'[b].pc = "idle" /\ \A x \in Browser \ {b} : call'[x] = call[x]
    BY <1>4 DEF StatementFails, Over, Idle, Typed
  <2>3. call[b].pc = "dropSession" => call[b].key \in torn'
    BY <2>1 DEF Halves
  <2>4. BeingMade' \subseteq BeingMade
    BY <2>2 DEF BeingMade
  <2>5. Accounted'
    BY <2>1, <2>2, <2>4 DEF Accounted, Making, Erasing
  <2>6. DeadKeyIsOut'
    BY <2>1, <2>2, <2>3 DEF DeadKeyIsOut, PinAccepts, WebAccepts, At
  <2> QED
    BY <2>5, <2>6
<1>5. CASE Restart
  <2>1. /\ sessions' = sessions /\ owner' = owner /\ listed' = listed
        /\ torn' = torn \cup Halves(Browser) /\ raced' = raced
    BY <1>5 DEF Restart
  <2>2. \A x \in Browser : call'[x].pc \in {"idle", "challenge"}
    BY <1>5 DEF Restart, At, Idle
  <2>3. \A x \in Browser : call[x].pc = "dropSession" => call[x].key \in torn'
    BY <2>1 DEF Halves
  <2>5. Accounted'
    BY <2>1, <2>2 DEF Accounted, Making, Erasing
  <2>6. DeadKeyIsOut'
    BY <2>1, <2>2, <2>3 DEF DeadKeyIsOut, PinAccepts, WebAccepts, At
  <2> QED
    BY <2>5, <2>6
<1> QED
  BY <1>1, <1>2, <1>3, <1>3e, <1>4, <1>5, KeysMove, DeleteKeyStep, InsertKeyStep, InsertSessionStep, EraseEnds
  DEF Touches, EraseStep

-----------------------------------------------------------------------------
(* The referral graph                                                      *)

\* A set of numbers that has 0 and the successor of each of its members has all.
LEMMA AllNumbers ==
  ASSUME NEW T \in SUBSET Nat, 0 \in T, \A n \in T : n + 1 \in T
  PROVE  \A n \in Nat : n \in T
<1> SUFFICES ASSUME NEW m \in Nat, m \notin T PROVE FALSE
  OBVIOUS
<1> DEFINE R == {ss \in Nat \X Nat : ss[1] < ss[2]}
           F == Nat \ T
<1>1. IsWellFoundedOn(R, Nat)
  BY NatLessThanWellFounded DEF OpToRel
<1>2. F \in SUBSET Nat /\ F # {}
  OBVIOUS
<1>3. \E x \in F : \A y \in F : ~ (<<y, x>> \in R)
  <2> HIDE DEF R, F
  <2> QED
    BY <1>1, <1>2, WFMin
<1>4. PICK x \in F : \A y \in F : ~ (<<y, x>> \in R)
  BY <1>3
<1>5. x # 0 /\ x - 1 \in Nat /\ x - 1 + 1 = x
  BY <1>4
<1>6. x - 1 \notin T
  BY <1>4, <1>5
<1>7. <<x - 1, x>> \in R
  BY <1>4, <1>5
<1> QED
  BY <1>4, <1>5, <1>6, <1>7

\* The graph: everybody has a referrer, or none.
Graph(ref) == \A w \in User : ref[w].by \in User \cup {NoUser}

\* One level up, as the loop of the cycle check goes, and the loop.
Climb(ref, S) == S \cup ({ref[w].by : w \in S} \ {NoUser})
Levels(ref, u) == CHOOSE up : up = [n \in Nat |-> IF n = 0 THEN {u} ELSE Climb(ref, up[n-1])]
Above(ref, u) == Levels(ref, u)[Cardinality(User)]

LEMMA UpIsAbove == /\ \A u \in User : Up(u) = Above(referral, u)
                   /\ \A u \in User : Up(u)' = Above(referral', u)
BY DEF Up, Above, Levels, Climb

\* Ways up, which may rest.
Ways(ref, u) == {s \in [Nat -> User] : s[0] = u /\ \A i \in Nat : s[i+1] \in {s[i], ref[s[i]].by}}

\* The loop has a value: the ends of the ways of its length.
LEMMA LevelsAre ==
  ASSUME NEW ref, Graph(ref), NEW u \in User
  PROVE  Levels(ref, u) = [n \in Nat |-> IF n = 0 THEN {u} ELSE Climb(ref, Levels(ref, u)[n-1])]
<1> DEFINE W == Ways(ref, u)
           g == [n \in Nat |-> {s[n] : s \in W}]
           h == [n \in Nat |-> IF n = 0 THEN {u} ELSE Climb(ref, g[n-1])]
<1>1. \A s \in W : s \in [Nat -> User] /\ s[0] = u /\ \A i \in Nat : s[i+1] \in {s[i], ref[s[i]].by}
  BY DEF Ways
<1>2. ASSUME NEW s \in [Nat -> User], s[0] = u, \A i \in Nat : s[i+1] \in {s[i], ref[s[i]].by}
      PROVE  s \in W
  BY <1>2 DEF Ways
<1> HIDE DEF W
<1>3. g[0] = {u}
  <2> DEFINE s == [n \in Nat |-> u]
  <2>1. s \in W
    BY <1>2
  <2>2. s[0] = u
    OBVIOUS
  <2> HIDE DEF s
  <2> QED
    BY <1>1, <2>1, <2>2
<1>4. ASSUME NEW n \in Nat, n # 0 PROVE g[n] = Climb(ref, g[n-1])
  <2>0. n - 1 \in Nat /\ (n - 1) + 1 = n
    BY <1>4
  <2>1. ASSUME NEW s \in W PROVE s[n] \in Climb(ref, g[n-1])
    <3>1. s[n-1] \in g[n-1] /\ s[n] \in User /\ s[n] # NoUser
      <4>1. NoUser \notin User
        BY AccountsAssumption
      <4> QED
        BY <1>1, <2>0, <4>1
    <3>2. s[n] \in {s[n-1], ref[s[n-1]].by}
      BY <1>1, <2>0
    <3> HIDE DEF g
    <3> QED
      BY <3>1, <3>2 DEF Climb
  <2>2. ASSUME NEW y \in Climb(ref, g[n-1]) PROVE y \in g[n]
    <3>1. PICK w \in g[n-1] : y = w \/ (y = ref[w].by /\ y # NoUser)
      BY DEF Climb
    <3>2. PICK s \in W : w = s[n-1]
      BY <2>0, <3>1
    <3>3. y \in User
      BY <1>1, <2>0, <3>1, <3>2 DEF Graph
    <3> DEFINE t == [i \in Nat |-> IF i < n THEN s[i] ELSE y]
    <3>4. t \in [Nat -> User] /\ t[0] = u /\ t[n] = y
      BY <1>1, <1>4, <3>3
    <3>5. ASSUME NEW i \in Nat PROVE t[i+1] \in {t[i], ref[t[i]].by}
      <4>1. CASE i + 1 < n
        BY <1>1, <4>1
      <4>2. CASE i + 1 = n
        BY <3>1, <3>2, <4>2
      <4>3. CASE i + 1 > n
        BY <4>3
      <4> QED
        BY <4>1, <4>2, <4>3
    <3>6. t \in W
      <4> HIDE DEF t
      <4> QED
        BY <1>2, <3>4, <3>5
    <3> HIDE DEF t
    <3> QED
      BY <3>4, <3>6
  <2> HIDE DEF g
  <2>3. \A s \in W : s[n] \in Climb(ref, g[n-1])
    BY <2>1
  <2>4. g[n] = {s[n] : s \in W}
    BY DEF g
  <2> QED
    BY <2>2, <2>3, <2>4
<1>5. g = h
  <2> HIDE DEF W
  <2>1. \A n \in Nat : g[n] = IF n = 0 THEN {u} ELSE Climb(ref, g[n-1])
    BY <1>3, <1>4
  <2> QED
    BY <2>1
<1> HIDE DEF g
<1>6. \E up : up = [n \in Nat |-> IF n = 0 THEN {u} ELSE Climb(ref, up[n-1])]
  BY <1>5 DEF h
<1> QED
  BY <1>6, Zenon DEF Levels

LEMMA LevelZero == ASSUME NEW ref, Graph(ref), NEW u \in User PROVE Levels(ref, u)[0] = {u}
<1> DEFINE c == Levels(ref, u)
<1>1. c = [n \in Nat |-> IF n = 0 THEN {u} ELSE Climb(ref, c[n-1])]
  BY LevelsAre
<1> HIDE DEF c
<1>2. c[0] = {u}
  BY <1>1
<1> QED
  BY <1>2 DEF c

LEMMA LevelNext ==
  ASSUME NEW ref, Graph(ref), NEW u \in User, NEW n \in Nat
  PROVE  Levels(ref, u)[n+1] = Climb(ref, Levels(ref, u)[n])
<1> DEFINE c == Levels(ref, u)
<1>1. c = [m \in Nat |-> IF m = 0 THEN {u} ELSE Climb(ref, c[m-1])]
  BY LevelsAre
<1> HIDE DEF c
<1>2. n + 1 \in Nat /\ n + 1 # 0 /\ (n + 1) - 1 = n
  OBVIOUS
<1>3. c[n+1] = Climb(ref, c[(n+1)-1])
  BY <1>1, <1>2
<1>4. c[n+1] = Climb(ref, c[n])
  BY <1>2, <1>3
<1> QED
  BY <1>4 DEF c

\* Whatever holds u and the referrers of all it holds, holds everybody above u.
LEMMA AboveLeast ==
  ASSUME NEW ref, Graph(ref), NEW u \in User, NEW S, u \in S,
         \A w \in S : ref[w].by \in S \cup {NoUser}
  PROVE  Above(ref, u) \subseteq S
<1> DEFINE T == {n \in Nat : Levels(ref, u)[n] \subseteq S}
<1>1. 0 \in T
  BY LevelZero
<1>2. ASSUME NEW n \in T PROVE n + 1 \in T
  BY LevelNext DEF Climb
<1>3. T \in SUBSET Nat
  OBVIOUS
<1> HIDE DEF T
<1>4. Cardinality(User) \in T
  <2>1. Cardinality(User) \in Nat
    BY AccountsAssumption, FS_CardinalityType
  <2> QED
    BY <1>1, <1>2, <1>3, <2>1, AllNumbers
<1> QED
  BY <1>4 DEF T, Above

\* As many rounds as there are users reach everybody above u: while a round finds
\* somebody, the loop has found as many as it has made rounds.
LEMMA AboveClosed ==
  ASSUME NEW ref, Graph(ref), NEW u \in User
  PROVE  /\ u \in Above(ref, u) /\ Above(ref, u) \subseteq User
         /\ \A w \in Above(ref, u) : ref[w].by \in Above(ref, u) \cup {NoUser}
<1> DEFINE c(n) == Levels(ref, u)[n]
           Full(n) == \A w \in c(n) : ref[w].by \in c(n) \cup {NoUser}
           T == {n \in Nat : u \in c(n) /\ c(n) \subseteq User /\ (Full(n) \/ Cardinality(c(n)) > n)}
<1>0. c(0) = {u} /\ \A n \in Nat : c(n+1) = Climb(ref, c(n))
  BY LevelZero, LevelNext
<1> HIDE DEF c
<1>1. 0 \in T
  <2>1. u \in c(0) /\ c(0) \subseteq User /\ Cardinality(c(0)) > 0
    BY <1>0, FS_Singleton
  <2> QED
    BY <2>1
<1>2. ASSUME NEW n \in T PROVE n + 1 \in T
  <2>1. n \in Nat /\ u \in c(n) /\ c(n) \subseteq User /\ (Full(n) \/ Cardinality(c(n)) > n)
    OBVIOUS
  <2>2. u \in c(n+1) /\ c(n) \subseteq c(n+1) /\ c(n+1) \subseteq User
    BY <1>0, <2>1 DEF Climb, Graph
  <2>3. CASE Full(n)
    <3>1. c(n+1) = c(n)
      <4>1. ASSUME NEW y \in c(n+1) PROVE y \in c(n)
        <5>1. y \in c(n) \/ \E w \in c(n) : y = ref[w].by /\ y # NoUser
          BY <1>0, <2>1 DEF Climb
        <5> QED
          BY <2>3, <5>1
      <4> QED
        BY <2>2, <4>1
    <3>2. Full(n+1)
      BY <2>3, <3>1
    <3> QED
      BY <2>1, <2>2, <3>2
  <2>4. CASE ~Full(n) /\ Cardinality(c(n)) > n
    <3>1. c(n+1) # c(n)
      <4>1. PICK w \in c(n) : ref[w].by \notin c(n) \cup {NoUser}
        BY <2>4
      <4>2. ref[w].by \in c(n+1)
        BY <1>0, <2>1, <4>1 DEF Climb
      <4> QED
        BY <4>1, <4>2
    <3>2. IsFiniteSet(c(n)) /\ IsFiniteSet(c(n+1))
      BY <2>1, <2>2, AccountsAssumption, FS_Subset
    <3>3. Cardinality(c(n)) < Cardinality(c(n+1)) /\ Cardinality(c(n)) \in Nat /\ Cardinality(c(n+1)) \in Nat
      BY <2>2, <3>1, <3>2, FS_Subset, FS_CardinalityType
    <3>4. Cardinality(c(n+1)) > n + 1
      BY <2>1, <2>4, <3>3
    <3> QED
      BY <2>1, <2>2, <3>4
  <2> QED
    BY <2>1, <2>3, <2>4
<1>3. T \in SUBSET Nat
  OBVIOUS
<1> HIDE DEF T
<1>4. Cardinality(User) \in Nat /\ Cardinality(User) \in T
  <2>1. Cardinality(User) \in Nat
    BY AccountsAssumption, FS_CardinalityType
  <2> QED
    BY <1>1, <1>2, <1>3, <2>1, AllNumbers
<1> DEFINE m == Cardinality(User)
<1>5. u \in c(m) /\ c(m) \subseteq User /\ (Full(m) \/ Cardinality(c(m)) > m)
  BY <1>4 DEF T
<1>6. Cardinality(c(m)) \in Nat /\ Cardinality(c(m)) <= m
  BY <1>5, AccountsAssumption, FS_Subset, FS_CardinalityType
<1>7. Full(m)
  <2> DEFINE k == Cardinality(c(m))
  <2>1. k \in Nat /\ k <= m /\ m \in Nat /\ (Full(m) \/ k > m)
    BY <1>4, <1>5, <1>6
  <2> HIDE DEF k, m
  <2>2. ~(k > m)
    BY <2>1
  <2> QED
    BY <2>1, <2>2
<1> QED
  BY <1>5, <1>7 DEF c, Above

\* Nobody is above themselves.
Acyclic(ref) == \A w \in User : ref[w].by # NoUser => w \notin Above(ref, ref[w].by)

\* A referral by somebody below whom the user is not closes no circle.
LEMMA LinkedAcyclic ==
  ASSUME NEW ref, Graph(ref), Acyclic(ref), NEW u \in User, NEW r \in User, u # r, u \notin Above(ref, r),
         NEW new, Graph(new), new[u].by = r, \A w \in User \ {u} : new[w] = ref[w]
  PROVE  Acyclic(new)
<1> DEFINE B == Above(ref, r)
<1>1. r \in B /\ B \subseteq User /\ \A w \in B : ref[w].by \in B \cup {NoUser}
  BY AboveClosed
<1>2. \A w \in B : new[w].by \in B \cup {NoUser}
  BY <1>1
<1> HIDE DEF B
<1> SUFFICES ASSUME NEW w \in User, new[w].by # NoUser PROVE w \notin Above(new, new[w].by)
  BY DEF Acyclic
<1>3. CASE w = u
  BY <1>1, <1>2, <1>3, AboveLeast DEF B
<1>4. CASE w # u
  <2> DEFINE p == ref[w].by
             P == Above(ref, p)
             S == IF u \in P THEN P \cup B ELSE P
  <2>1. new[w].by = p /\ p \in User /\ w \notin P
    BY <1>4 DEF Graph, Acyclic
  <2> HIDE DEF p
  <2>2. p \in P /\ P \subseteq User /\ \A x \in P : ref[x].by \in P \cup {NoUser}
    BY <2>1, AboveClosed
  <2> HIDE DEF P
  <2>3. \A x \in S : new[x].by \in S \cup {NoUser}
    <3> SUFFICES ASSUME NEW x \in S PROVE new[x].by \in S \cup {NoUser}
      OBVIOUS
    <3>1. CASE u \in P /\ x \in B
      BY <1>2, <3>1
    <3>2. CASE x \in P /\ x # u
      BY <2>2, <3>2
    <3>3. CASE x \in P /\ x = u
      BY <1>1, <3>3
    <3> QED
      BY <3>1, <3>2, <3>3
  <2>4. Above(new, p) \subseteq S
    <3>1. p \in S
      BY <2>2
    <3> HIDE DEF S
    <3> QED
      BY <2>1, <2>3, <3>1, AboveLeast
  <2>5. u \in P => w \notin B
    <3> SUFFICES ASSUME u \in P, w \in B PROVE FALSE
      OBVIOUS
    <3>1. p \in B
      BY <1>1, <2>1 DEF p
    <3>2. P \subseteq B
      BY <1>1, <2>1, <3>1, AboveLeast DEF P
    <3> QED
      BY <3>2 DEF B
  <2> QED
    BY <2>1, <2>4, <2>5
<1> QED
  BY <1>3, <1>4

-----------------------------------------------------------------------------
(* Referrals                                                               *)

\* A request that is about to link a user to a referrer below whom the user is not.
Fits(r) == r.by \in User /\ r.user \in User /\ r.by # r.user /\ r.user \notin Up(r.by)

\* Unless two sign-ins were about to link at once, what the cycle check found
\* out still holds when the referral is inserted.
LinksFit == overlap \/ \A b \in Browser : call[b].pc = "link" => Fits(call[b])

\* Who has a referral has a referrer.
Referrers == \A u \in User : referral[u] = NoRef \/ referral[u].by \in User

\* Nothing moves in the graph but what a sign-in links, and who is about to link
\* has been checked.
GraphRests ==
  /\ UNCHANGED <<referral, overlap>>
  /\ \A x \in Browser : call'[x].pc = "link" => call'[x] = call[x] \/ Fits(call'[x])

LEMMA RestsOne ==
  ASSUME Typed, NEW b \in Browser, NEW r, call' = [call EXCEPT ![b] = r], r.pc = "link" => Fits(r),
         UNCHANGED <<referral, overlap>>
  PROVE  GraphRests
BY DEF Typed, GraphRests

LEMMA RestsGo ==
  ASSUME Typed, NEW b \in Browser, NEW pc, Goto(b, pc), pc # "link", UNCHANGED <<referral, overlap>>
  PROVE  GraphRests
BY DEF Goto, Typed, Req, GraphRests

LEMMA RestsOver ==
  ASSUME Typed, NEW b \in Browser, Over(b), UNCHANGED <<referral, overlap>>
  PROVE  GraphRests
BY RestsOne DEF Over, Idle

LEMMA RestsSigned ==
  ASSUME Typed, NEW b \in Browser, NEW r, r.pc # "link", r \in Req, SignedIn(b, r), UNCHANGED <<referral, overlap>>
  PROVE  GraphRests
<1> DEFINE q == [r EXCEPT !.user = cookie[b]]
<1>1. call' = [call EXCEPT ![b] = q]
  BY DEF SignedIn, Arrives
<1>2. q.pc # "link"
  BY DEF Req
<1> HIDE DEF q
<1> QED
  BY <1>1, <1>2, RestsOne

\* The check of a sign-in.
LEMMA LinkingFits ==
  ASSUME NEW r \in Req, r.user \in User, r.pc # "link"
  PROVE  Linking(r).pc = "link" => Fits(Linking(r))
<1>1. CASE MayLink(r.user, r.code)
  <2>1. Linking(r) = [r EXCEPT !.pc = "link", !.by = Referrer(r.code)]
    BY <1>1 DEF Linking
  <2>2. Linking(r).by = Referrer(r.code) /\ Linking(r).user = r.user
    BY <2>1 DEF Req
  <2> QED
    BY <1>1, <2>2 DEF MayLink, Fits
<1>2. CASE ~MayLink(r.user, r.code)
  BY <1>2 DEF Linking, Req
<1> QED
  BY <1>1, <1>2

LEMMA GraphMoves ==
  ASSUME Typed, Shapes, Next
  PROVE  GraphRests \/ \E b \in Browser : Link(b)
<1>1. ASSUME NEW b \in Browser, PostKey(b) \/ GetActiveKey(b) \/ GetReferral(b) \/ PostCode(b) PROVE GraphRests
  <2>1. PICK op \in {"key", "codes"}, pc \in {"newKey", "activeKey", "defaultCode", "namedCode"} :
           SignedIn(b, [Idle EXCEPT !.op = op, !.pc = pc]) /\ UNCHANGED <<referral, overlap>>
    BY <1>1 DEF PostKey, GetActiveKey, GetReferral, PostCode, codes
  <2> DEFINE r == [Idle EXCEPT !.op = op, !.pc = pc]
  <2>2. r \in Req /\ r.pc # "link"
    BY IdleReq DEF Req, Idle
  <2> HIDE DEF r
  <2> QED
    BY <2>1, <2>2, RestsSigned DEF r
<1>2. ASSUME NEW b \in Browser, NEW k \in ApiKey, DeleteKey(b, k) PROVE GraphRests
  <2> DEFINE r == [Idle EXCEPT !.op = "delete", !.pc = "dropSession", !.key = k]
  <2>1. r \in Req /\ r.pc # "link"
    BY IdleReq DEF Req, Idle
  <2>2. SignedIn(b, r) /\ UNCHANGED <<referral, overlap>>
    BY <1>2 DEF DeleteKey, codes
  <2> HIDE DEF r
  <2> QED
    BY <2>1, <2>2, RestsSigned
<1>3. ASSUME NEW b \in Browser, NEW c \in Code, DeleteCode(b, c) PROVE GraphRests
  <2> DEFINE r == [Idle EXCEPT !.op = "codes", !.pc = "dropCode", !.code = c]
  <2>1. r \in Req /\ r.pc # "link"
    BY IdleReq DEF Req, Idle
  <2>2. SignedIn(b, r) /\ UNCHANGED <<referral, overlap>>
    BY <1>3 DEF DeleteCode, codes
  <2> HIDE DEF r
  <2> QED
    BY <2>1, <2>2, RestsSigned
<1>4. ASSUME NEW b \in Browser, DeleteProfile(b) PROVE GraphRests
  <2> DEFINE u == cookie[b]
             r == [Idle EXCEPT !.op = "erase", !.pc = "eraseKeys", !.made = KeysOf(u) \ BeingMade,
                     !.open = {k \in sessions : owner[k] = u}]
  <2>0. KeysOf(u) \subseteq ApiKey /\ {k \in sessions : owner[k] = u} \subseteq ApiKey
    BY DEF KeysOf, Typed, TypeOK
  <2>1. r \in Req /\ r.pc # "link"
    BY <2>0, IdleReq DEF Req, Idle, Erasing
  <2>2. SignedIn(b, r) /\ UNCHANGED <<referral, overlap>>
    BY <1>4 DEF DeleteProfile, codes
  <2> HIDE DEF r
  <2> QED
    BY <2>1, <2>2, RestsSigned
<1>5. ASSUME NEW b \in Browser, LoginPage(b) PROVE GraphRests
  <2>1. PICK u \in Oauth, c \in Code \cup {0} : Login(b, u, c)
    BY <1>5 DEF LoginPage
  <2> DEFINE r == [Idle EXCEPT !.op = "login", !.user = u, !.code = c, !.isNew = u \notin account]
             q == IF u \notin account THEN [r EXCEPT !.pc = "newUser"] ELSE Existing(r)
  <2>2. call' = [call EXCEPT ![b] = q] /\ UNCHANGED <<referral, overlap>>
    BY <2>1 DEF Login, Arrives, codes
  <2>3. r \in Req /\ r.user \in User /\ r.pc # "link"
    BY IdleReq DEF Req, Idle, User
  <2> HIDE DEF r
  <2>4. q.pc = "link" => Fits(q)
    <3>1. CASE u \notin account
      BY <2>3, <3>1 DEF Req
    <3>2. CASE u \in account /\ referral[r.user] = NoRef
      BY <2>3, <3>2, LinkingFits DEF Existing
    <3>3. CASE u \in account /\ referral[r.user] # NoRef
      BY <2>3, <3>3 DEF Existing, Req
    <3> QED
      BY <3>1, <3>2, <3>3
  <2> HIDE DEF q
  <2> QED
    BY <2>2, <2>4, RestsOne
<1>6. ASSUME NEW b \in Browser, Logout(b) \/ WriteDown(b) \/ \E v \in Vault : ShowPhrase(b, v) PROVE GraphRests
  BY <1>6 DEF Logout, WriteDown, ShowPhrase, codes, GraphRests
<1>7. ASSUME NEW b \in Browser, NEW v \in Vault, NEW p \in Purpose, IssueChallenge(b, v, p) PROVE GraphRests
  <2>1. PICK pub \in PubKey :
           Arrives(b, [Idle EXCEPT !.op = p, !.pc = "challenge", !.user = v, !.pub = pub,
                                   !.proof = Proof(p, v, issued + 1, pub)])
    BY <1>7 DEF IssueChallenge
  <2> DEFINE r == [Idle EXCEPT !.op = p, !.pc = "challenge", !.user = v, !.pub = pub,
                               !.proof = Proof(p, v, issued + 1, pub)]
  <2>2. call' = [call EXCEPT ![b] = r] /\ r.pc # "link"
    BY <2>1 DEF Arrives, Idle
  <2> HIDE DEF r
  <2> QED
    BY <1>7, <2>2, RestsOne DEF IssueChallenge, codes
<1>8. ASSUME NEW b \in Browser, ActiveKey(b) PROVE GraphRests
  <2>1. call'[b].pc # "link" /\ \A x \in Browser \ {b} : call'[x] = call[x]
    BY <1>8 DEF ActiveKey, Typed, Req
  <2> QED
    BY <1>8, <2>1 DEF ActiveKey, codes, GraphRests
<1>9. ASSUME NEW b \in Browser, CreateKey(b) \/ UserKey(b) PROVE GraphRests
  <2>0. UNCHANGED <<referral, overlap>>
    BY <1>9 DEF CreateKey, UserKey, InsertKey, codes
  <2>1. CASE Over(b)
    BY <2>0, <2>1, RestsOver
  <2>2. ASSUME NEW k \in ApiKey, NEW pc \in {"keySession", "userSession"},
               call' = [call EXCEPT ![b].pc = pc, ![b].key = k] PROVE GraphRests
    <3>1. call'[b].pc # "link" /\ \A x \in Browser \ {b} : call'[x] = call[x]
      BY <2>2 DEF Typed, Req
    <3> QED
      BY <2>0, <3>1 DEF GraphRests
  <2> QED
    BY <1>9, <2>1, <2>2 DEF CreateKey, UserKey, InsertKey
<1>10. ASSUME NEW b \in Browser, KeySession(b) \/ UserSession(b) PROVE GraphRests
  <2>1. PICK pc \in {"answer", "userCode"} : Goto(b, pc) /\ UNCHANGED <<referral, overlap>>
    BY <1>10 DEF KeySession, UserSession, InsertSession, codes
  <2> QED
    BY <2>1, RestsGo
<1>11. ASSUME NEW b \in Browser, DefaultCode(b) \/ NamedCode(b) \/ UserCode(b) PROVE GraphRests
  <2> DEFINE r == IF call[b].pc = "userCode" THEN Linking(call[b]) ELSE Idle
  <2>0. UNCHANGED <<referral, overlap>>
    BY <1>11 DEF DefaultCode, NamedCode, UserCode, InsertCode
  <2>1. r.pc = "link" => Fits(r)
    <3>1. CASE call[b].pc = "userCode"
      <4>1. call[b] \in Req /\ call[b].user \in User
        BY <3>1 DEF Typed, Shapes, Shaped, SignUp, User
      <4> QED
        BY <3>1, <4>1, LinkingFits
    <3>2. CASE call[b].pc # "userCode"
      BY <3>2 DEF Idle
    <3> QED
      BY <3>1, <3>2
  <2>2. CASE Over(b)
    BY <2>0, <2>2, RestsOver
  <2>3. CASE call' = [call EXCEPT ![b] = r]
    <3> HIDE DEF r
    <3> QED
      BY <2>0, <2>1, <2>3, RestsOne
  <2> QED
    BY <1>11, <2>2, <2>3 DEF DefaultCode, NamedCode, UserCode, InsertCode, At
<1>12. ASSUME NEW b \in Browser, DropCode(b) \/ Erase(b) PROVE GraphRests
  BY <1>12, RestsOne DEF DropCode, Erase, Idle
<1>12e. ASSUME NEW b \in Browser, EraseKeys(b) \/ EraseCodes(b) PROVE GraphRests
  BY <1>12e, ReqErases, RestsOne DEF EraseKeys, EraseCodes, codes
<1>13. ASSUME NEW b \in Browser, NewUser(b) PROVE GraphRests
  BY <1>13, RestsOver, RestsGo DEF NewUser, codes
<1>14. ASSUME NEW b \in Browser, NEW pc \in {"oauth", "store", "lookup"}, TakeChallenge(b, pc) PROVE GraphRests
  BY <1>14, RestsOver, RestsGo DEF TakeChallenge, codes
<1>15. ASSUME NEW b \in Browser, VerifyOAuth(b) \/ StoreSeedUser(b) \/ LookUpKey(b) PROVE GraphRests
  BY <1>15, RestsOver, RestsGo DEF VerifyOAuth, StoreSeedUser, LookUpKey, codes
<1>16. ASSUME NEW b \in Browser, Answer(b) \/ DropSession(b) \/ StatementFails(b) PROVE GraphRests
  BY <1>16, RestsOne, RestsOver DEF Answer, DropSession, StatementFails, Idle, codes
<1>17. ASSUME NEW b \in Browser, LoseAnswer(b) PROVE GraphRests
  <2> DEFINE r == IF call[b].op \in Purpose THEN [call[b] EXCEPT !.pc = "challenge", !.key = 0] ELSE Idle
  <2>1. call' = [call EXCEPT ![b] = r] /\ UNCHANGED <<referral, overlap>>
    BY <1>17 DEF LoseAnswer, Typed, codes
  <2>2. r.pc # "link"
    BY DEF Typed, Req, Idle
  <2> HIDE DEF r
  <2> QED
    BY <2>1, <2>2, RestsOne
<1>18. ASSUME NEW v \in Vault, Expire(v) PROVE GraphRests
  BY <1>18 DEF Expire, codes, GraphRests
<1>19. CASE Restart
  BY <1>19 DEF Restart, codes, GraphRests, Idle
<1> QED
  BY <1>1, <1>2, <1>3, <1>4, <1>5, <1>6, <1>7, <1>8, <1>9, <1>10, <1>11, <1>12, <1>12e, <1>13, <1>14, <1>15,
     <1>16, <1>17, <1>18, <1>19, AccountsAssumption
  DEF Next, ApiKeysPage, GetKeyPage, ReferralsPage, ProfilePage, ModeCPage, VerifyPhrase, RestorePhrase, ModeBPage,
      AppSignIn, Purpose, KeyStep, CodeStep, UserStep, EraseStep, RegisterModeB, RegisterModeC, SignIn

\* A sign-in links its user, unless somebody else has meanwhile.
LEMMA LinkKeeps ==
  ASSUME Typed, Shapes, Referrers, LinksFit, NoLoneCycle, NEW b \in Browser, Link(b)
  PROVE  Referrers' /\ LinksFit' /\ NoLoneCycle'
<1> DEFINE u == call[b].user
           r == [by |-> call[b].by, code |-> call[b].code]
<1>1. /\ call[b].pc = "link" /\ u \in User /\ r.by \in User /\ r.code \in Code
      /\ overlap' = (overlap \/ \E x \in Browser \ {b} : At(x, "link"))
      /\ referral' = referral \/ (referral' = [referral EXCEPT ![u] = r] /\ referral[u] = NoRef)
      /\ call'[b].pc # "link" /\ \A x \in Browser \ {b} : call'[x] = call[x]
  <2>1. At(b, "link")
    BY DEF Link
  <2>2. call[b].pc = "link" /\ call[b].user \in User /\ call[b].by \in User /\ call[b].code \in Code
    BY <2>1 DEF At, Shapes, Shaped, SignUp, User
  <2>3. call'[b].pc # "link" /\ \A x \in Browser \ {b} : call'[x] = call[x]
    <3>1. CASE Over(b)
      BY <3>1 DEF Over, Idle, Typed
    <3>2. CASE Goto(b, "activeKey")
      BY <3>2 DEF Goto, Typed, Req
    <3> QED
      BY <3>1, <3>2 DEF Link
  <2>4. referral' = referral \/ (referral' = [referral EXCEPT ![u] = r] /\ referral[u] = NoRef)
    BY DEF Link, Me
  <2> QED
    BY <2>2, <2>3, <2>4 DEF Link
<1> HIDE DEF r
<1>2. referral \in [User -> [by : User \cup {NoUser}, code : Code \cup {0}]] /\ NoUser \notin User
  BY AccountsAssumption DEF Typed, TypeOK
<1>3. Referrers'
  <2> SUFFICES ASSUME NEW w \in User PROVE referral'[w] = NoRef \/ referral'[w].by \in User
    BY DEF Referrers
  <2>1. referral'[w] = referral[w] \/ referral'[w] = r
    BY <1>1, <1>2
  <2> QED
    BY <1>1, <2>1 DEF Referrers
<1>4. LinksFit'
  BY <1>1 DEF LinksFit, At
<1>5. NoLoneCycle'
  <2> SUFFICES ASSUME ~overlap' PROVE \A w \in User : referral'[w] # NoRef => w \notin Up(referral[w].by)'
    BY DEF NoLoneCycle
  <2>1. ~overlap /\ Fits(call[b])
    BY <1>1 DEF LinksFit
  <2>2. Graph(referral) /\ Acyclic(referral)
    <3>1. Graph(referral)
      BY <1>2 DEF Graph
    <3>2. ASSUME NEW w \in User, referral[w].by # NoUser PROVE w \notin Above(referral, referral[w].by)
      <4>1. referral[w].by \in User /\ referral[w] # NoRef
        BY <1>2, <3>2 DEF NoRef
      <4>2. w \notin Up(referral[w].by)
        BY <2>1, <4>1 DEF NoLoneCycle
      <4> QED
        BY <4>1, <4>2, UpIsAbove
    <3> QED
      BY <3>1, <3>2 DEF Acyclic
  <2>3. Acyclic(referral')
    <3>1. CASE referral' = referral
      <4>1. PICK ref : ref = referral /\ Acyclic(ref)
        BY <2>2
      <4> QED
        BY <3>1, <4>1
    <3>2. CASE referral' = [referral EXCEPT ![u] = r] /\ referral[u] = NoRef
      <4>1. u # r.by /\ u \notin Above(referral, r.by)
        BY <2>1, UpIsAbove DEF Fits, r
      <4>2. referral'[u].by = r.by /\ \A w \in User \ {u} : referral'[w] = referral[w]
        BY <1>1, <1>2, <3>2
      <4>3. Graph(referral')
        BY <1>1, <1>2, <4>2 DEF Graph
      <4> QED
        BY <1>1, <2>2, <4>1, <4>2, <4>3, LinkedAcyclic
    <3> QED
      BY <1>1, <3>1, <3>2
  <2>4. ASSUME NEW w \in User, referral'[w] # NoRef PROVE w \notin Up(referral[w].by)'
    <3>1. referral'[w].by # NoUser
      BY <1>2, <1>3, <2>4 DEF Referrers
    <3>2. w \notin Above(referral', referral'[w].by)
      BY <2>3, <3>1 DEF Acyclic
    <3> QED
      BY <1>2, <1>3, <2>4, <3>2, UpIsAbove DEF Referrers
  <2> QED
    BY <2>4
<1> QED
  BY <1>3, <1>4, <1>5

LEMMA GraphKept ==
  ASSUME Referrers, LinksFit, NoLoneCycle, GraphRests
  PROVE  Referrers' /\ LinksFit' /\ NoLoneCycle'
<1>1. referral' = referral /\ overlap' = overlap
  BY DEF GraphRests
<1>2. \A u \in User : Up(u)' = Up(u)
  BY <1>1, UpIsAbove
<1>3. Referrers'
  BY <1>1 DEF Referrers
<1>4. NoLoneCycle'
  <2>1. \A u \in User : referral[u] # NoRef => referral[u].by \in User
    BY DEF Referrers
  <2> QED
    BY <1>1, <1>2, <2>1 DEF NoLoneCycle
<1>5. \A x \in Browser : Fits(call'[x]) => Fits(call[x])'
  BY <1>2 DEF Fits
<1>6. \A x \in Browser : call'[x].pc = "link" => call'[x] = call[x] \/ Fits(call'[x])
  BY <1>1 DEF GraphRests
<1>7. LinksFit'
  BY <1>1, <1>5, <1>6 DEF LinksFit
<1> QED
  BY <1>3, <1>4, <1>7

LEMMA GraphStep ==
  ASSUME Typed, Shapes, Referrers, LinksFit, NoLoneCycle, Next
  PROVE  Referrers' /\ LinksFit' /\ NoLoneCycle'
BY GraphMoves, LinkKeeps, GraphKept

-----------------------------------------------------------------------------
(* The invariant and what follows from it                                  *)

AccountsInv ==
  /\ Typed /\ Shapes
  /\ Unspent /\ ChallengeSpentOnce
  /\ Registered /\ VaultKeyStands
  /\ Accounted /\ DeadKeyIsOut
  /\ Referrers /\ LinksFit /\ NoLoneCycle

LEMMA AccountsInit == Init => AccountsInv
<1> SUFFICES ASSUME Init PROVE AccountsInv
  OBVIOUS
<1>0. \A b \in Browser : call[b] = Idle
  BY DEF Init
<1>1. PICK n \in 0..Len(Start) :
        LET First(i) == IF i <= n THEN Start[i] ELSE NoUser
            A        == {Start[i] : i \in 1..n}
        IN  /\ account = A
            /\ owner = [k \in ApiKey |-> First(k)]
            /\ listed = [k \in ApiKey |-> IF k <= n THEN "live" ELSE "absent"]
            /\ sessions = 1..n
            /\ codeOwner = [c \in Code |-> IF c <= n THEN Start[c] ELSE Unmade]
            /\ default = 1..n
            /\ cookie \in [Browser -> A \cup {NoUser}]
  BY DEF Init
<1>2. /\ n \in Nat /\ 1..n \subseteq ApiKey \cap Code /\ ApiKey \subseteq Nat \ {0} /\ Code \subseteq Nat \ {0}
      /\ \A i \in 1..n : Start[i] \in Oauth
  <2>1. Start \in Seq(Oauth) /\ 1..Len(Start) \subseteq ApiKey \cap Code
    BY AccountsAssumption
  <2>2. Len(Start) \in Nat /\ \A i \in 1..Len(Start) : Start[i] \in Oauth
    BY <2>1
  <2>3. n \in Nat /\ 1..n \subseteq 1..Len(Start)
    BY <1>1, <2>2
  <2> QED
    BY <2>1, <2>2, <2>3, AccountsAssumption
<1>3. \A k \in ApiKey \cup Code : k <= n => k \in 1..n
  BY <1>2
<1>4. /\ account \subseteq User /\ sessions \subseteq ApiKey /\ default \subseteq Code
      /\ cookie \in [Browser -> Oauth \cup {NoUser}]
  BY <1>1, <1>2 DEF User
<1>5. /\ owner \in [ApiKey -> User \cup {NoUser}] /\ listed \in [ApiKey -> {"absent", "live", "deleted"}]
      /\ codeOwner \in [Code -> User \cup {NoUser, Unmade}]
  BY <1>1, <1>2, <1>3 DEF User
<1>6. TypeOK
  BY <1>4, <1>5 DEF Init, TypeOK, NoRef, None, User
<1>7. Typed /\ Shapes
  BY <1>0, <1>6, IdleReq DEF Init, Typed, Shapes
<1>8. Unspent /\ ChallengeSpentOnce
  BY DEF Init, Unspent, ChallengeSpentOnce
<1>9. Registered /\ VaultKeyStands
  BY <1>0, <1>4, AccountsAssumption DEF Registered, VaultKeyStands, Idle, User
<1>10. Accounted
  <2>1. \A k \in ApiKey : owner[k] = NoUser => ~(k <= n)
    BY <1>1, <1>2, <1>3, AccountsAssumption DEF User
  <2> QED
    BY <1>0, <1>1, <1>2, <2>1 DEF Accounted, Making, Idle
<1>11. DeadKeyIsOut
  BY <1>1, <1>2 DEF DeadKeyIsOut, PinAccepts, WebAccepts
<1>12. Referrers /\ LinksFit /\ NoLoneCycle
  <2>1. \A u \in User : referral[u] = NoRef
    BY DEF Init
  <2> QED
    BY <1>0, <2>1 DEF Referrers, LinksFit, NoLoneCycle, Idle
<1> QED
  BY <1>7, <1>8, <1>9, <1>10, <1>11, <1>12 DEF AccountsInv

LEMMA AccountsStep == AccountsInv /\ [Next]_vars => AccountsInv'
<1> SUFFICES ASSUME AccountsInv, [Next]_vars PROVE AccountsInv'
  OBVIOUS
<1>1. CASE Next
  BY <1>1, TypedStep, UnspentStep, VaultsMove, RegisteredStep, AccountedStep, GraphStep DEF AccountsInv
<1>2. CASE UNCHANGED vars
  <2>1. UNCHANGED <<account, listed, sessions, owner, torn, raced, codeOwner, default, referral, seedKey,
                    challenge, issued, spent, cookie, proof, call, overlap>>
    BY <1>2 DEF vars, keys, codes, seeds, cookies
  <2>2. (Typed /\ Shapes)'
    BY <2>1 DEF AccountsInv, Typed, TypeOK, Shapes
  <2>3. (Unspent /\ ChallengeSpentOnce /\ Registered /\ VaultKeyStands)'
    BY <2>1 DEF AccountsInv, Unspent, ChallengeSpentOnce, Registered, VaultKeyStands
  <2>4. (Accounted /\ DeadKeyIsOut)'
    BY <2>1 DEF AccountsInv, Accounted, Making, BeingMade, DeadKeyIsOut, PinAccepts, WebAccepts, At
  <2>5. (Referrers /\ LinksFit /\ NoLoneCycle)'
    <3>1. GraphRests
      BY <2>1 DEF GraphRests
    <3> QED
      BY <3>1, GraphKept DEF AccountsInv
  <2> QED
    BY <2>2, <2>3, <2>4, <2>5 DEF AccountsInv
<1> QED
  BY <1>1, <1>2

(* Every reachable state of the sign-in, vault, key and referral code (auth.ts,
   the vault and key routes of app.ts) satisfies the inductive invariant. *)
THEOREM AccountsInvariance == Spec => []AccountsInv
BY AccountsInit, AccountsStep, PTL DEF Spec

\* Every variable keeps its type.
THEOREM AccountsTypeCorrect == Spec => []TypeOK
<1>1. AccountsInv => TypeOK
  BY DEF AccountsInv, Typed
<1> QED
  BY <1>1, AccountsInvariance, PTL

\* A challenge lets one request through, with any number of browsers that
\* send what they signed again, vaults, expiries and restarts.
THEOREM ChallengeOnce == Spec => []ChallengeSpentOnce
<1>1. AccountsInv => ChallengeSpentOnce
  BY DEF AccountsInv
<1> QED
  BY <1>1, AccountsInvariance, PTL

\* Whoever is signed in to a vault has signed with the key that was
\* registered first, whatever was asked for in the meantime.
THEOREM FirstKeyStands == Spec => []VaultKeyStands
<1>1. AccountsInv => VaultKeyStands
  BY DEF AccountsInv
<1> QED
  BY <1>1, AccountsInvariance, PTL

\* The pinning service accepts no deleted key, unless a fault cut its making
\* or its deletion in two, it was deleted while it was being made, or it was
\* made between the statements that delete its owner's profile.
THEOREM DeletedIsOut == Spec => []DeadKeyIsOut
<1>1. AccountsInv => DeadKeyIsOut
  BY DEF AccountsInv
<1> QED
  BY <1>1, AccountsInvariance, PTL

\* The public key of a vault is never replaced, whichever requests to register
\* it run at once.
THEOREM SeedForGood == Spec => [][SeedStands]_vars
<1>1. AccountsInv /\ [Next]_vars => [SeedStands]_vars
  BY VaultsMove DEF AccountsInv, Vaults
<1> QED
  BY <1>1, AccountsInvariance, PTL DEF Spec

\* Nobody is above themselves in the referral graph, unless two sign-ins were
\* about to link at once, each after its own check, with any number of users.
THEOREM NoCircle == Spec => []NoLoneCycle
<1>1. AccountsInv => NoLoneCycle
  BY DEF AccountsInv
<1> QED
  BY <1>1, AccountsInvariance, PTL

-----------------------------------------------------------------------------
(***************************************************************************)
(* Agents: Connector                                                       *)
(***************************************************************************)

CallPc == {"idle", "select", "unwrap", "seal", "fetch", "told", "refused", "failed"}
Keyed == {"unwrap", "seal", "fetch"}
Kind == {"identity", "callback", "tool", "bundle", "late"}
TabPc == {"closed", "google", "back", "verify", "loading", "interstitial"}
FetchPc == {"idle", "verified", "checked", "answered"}

CallRec == [pc : CallPc, kind : Kind, user : Member \cup {Null}, ai : Client \cup {Null},
            client : Client \cup {Null}, key : 0..MaxKey, first : BOOLEAN]
TabRec == [pc : TabPc, nonce : 0..MaxFlows, ai : Client \cup {Null}, user : Member \cup {Null}, call : Call \cup {Null}]
Cookie == [nonce : 0..MaxFlows, user : Member \cup {Null}, ai : Client \cup {Null}]

Shape ==
  /\ ConnectorTypeOK
  /\ request \in [Call -> CallRec]
  /\ tab \in [Tab -> TabRec]
  /\ stateCookie \in Cookie /\ continueCookie \in Cookie
  /\ fetch \in [Fetch -> [pc : FetchPc, jti : Jti \cup {Unbound}, late : BOOLEAN, got : SUBSET Grant]]

-----------------------------------------------------------------------------
(* Custody                                                                 *)

\* A request has a key from the SELECT to its end, and knows whose it is.
Known(c) ==
  /\ c.pc \in Keyed \cup {"select"} => c.user \in Member /\ c.ai \in Client /\ c.client = c.ai
  /\ c.pc \in Keyed <=> c.key # 0
  /\ c.first => c.pc = "seal"

CallKnown == \A i \in Call : Known(request[i])

\* A key is in a row, in the hands of a request or shown, for one user and client only.
Holds(s, k) ==
  \/ rows[s] = k
  \/ \E i \in Call : request[i].key = k /\ SlotOf(i) = s
  \/ \E x \in shown : x.key = k /\ <<x.user, x.client>> = s

OneSlot ==
  /\ \A k \in Key, s, t \in Slot : Holds(s, k) /\ Holds(t, k) => s = t
  /\ \A k \in Key, s \in Slot : Holds(s, k) => k <= made
  /\ \A x \in shown : x.client = x.ai

\* Whoever holds a key of a slot that was never contested holds the row's; and a first
\* request, which has yet to write the row, is alone.
Steady ==
  \A s \in Slot \ contested :
    /\ \A x \in shown : <<x.user, x.client>> = s => rows[s] = x.key
    /\ \A i \in Call : SlotOf(i) = s /\ request[i].key # 0 => rows[s] = (IF request[i].first THEN 0 ELSE request[i].key)
    /\ \A i, j \in Call : SlotOf(i) = s /\ SlotOf(j) = s /\ request[i].first /\ request[j].first => i = j

-----------------------------------------------------------------------------
(* Sign-in and tokens                                                      *)

\* Nonces are used once; what a tab or a cookie says after Google was asked for.
Signing(r) ==
  /\ r.nonce <= flows
  /\ r.pc \in {"google", "back"} =>
       /\ r.nonce # 0 /\ r.ai \in Client
       /\ stateCookie.nonce = r.nonce => stateCookie.ai = r.ai
  /\ r.pc \in {"back", "verify", "loading", "interstitial"} => <<r.user, r.ai>> \in chosen
  /\ r.pc = "loading" => r.call \in Call

Asked ==
  /\ stateCookie.nonce <= flows
  /\ \A t \in Tab : Signing(tab[t])
  /\ continueCookie # NoCookie => <<continueCookie.user, continueCookie.ai>> \in chosen
  /\ GrantIsWhatWasAsked

\* A request with a token revoked before it came does not pass the look-up.
Belated == \A f \in Fetch : fetch[f].late => fetch[f].pc = "verified" /\ fetch[f].jti \in revoked

IInv == Shape /\ CallKnown /\ OneSlot /\ Steady /\ Asked /\ Belated

-----------------------------------------------------------------------------
(* What a step does to the custody of keys                                 *)

Rest == UNCHANGED <<rows, made, shown, contested>>

\* A request begins, ends, goes on unseen, or takes its next step with the same key.
Asks(i) ==
  /\ \E u \in Member, a \in Client, kind \in Kind :
       request' = [request EXCEPT ![i] = [NoCall EXCEPT !.pc = "select", !.kind = kind, !.user = u, !.ai = a, !.client = a]]
  /\ Rest
Closes(i) == (\E how \in CallPc \ (Keyed \cup {"select"}) : Close(i, how)) /\ Rest
Unseen(i) == request' = [request EXCEPT ![i].kind = "late"] /\ Rest
GoesOn(i) ==
  /\ CAt(i, "unwrap") /\ Rest
  /\ \E pc \in {"seal", "fetch"} : request' = [request EXCEPT ![i].pc = pc]

CallMoves(i) ==
  Asks(i) \/ Closes(i) \/ Unseen(i) \/ GoesOn(i) \/ RowFound(i) \/ FirstCall(i) \/ Tell(i) \/ Seal(i)

\* Every step is one of these, and it happens to one request.
LEMMA OneCallMoves ==
  ASSUME Shape, Asked, ConnectorNext
  PROVE  UNCHANGED <<rows, made, shown, contested, request>> \/ \E i \in Call : CallMoves(i)
<1>1. ASSUME NEW i \in Call, NEW g \in [user : Member, ai : Client, named : BOOLEAN], NEW kind \in Kind, Ask(i, g, kind)
      PROVE  CallMoves(i)
  <2>1. ClientOf(g) = g.ai
    BY <1>1 DEF Ask, ClientOf
  <2>2. g.user \in Member /\ g.ai \in Client
    OBVIOUS
  <2>. QED BY <1>1, <2>1, <2>2 DEF Ask, CallMoves, Asks, Rest
<1>2. CASE TokensNext
  BY <1>2 DEF TokensNext, cvars
<1>3. CASE Connected
  <2>1. CASE \E i \in Call, g \in grants, kind \in {"identity", "tool", "bundle"} : ~Busy(i) /\ Ask(i, g, kind)
    BY <1>1, <2>1 DEF Shape, ConnectorTypeOK, Kind
  <2>2. CASE \E u \in Member, k \in Key, g \in Group : Deliver(u, k, g)
    BY <2>2 DEF Deliver
  <2>. QED BY <1>3, <2>1, <2>2 DEF Connected
<1>4. CASE CustodyStep
  <2>1. PICK i \in Call : \/ RowFound(i) \/ FirstCall(i) \/ NoIdentity(i) \/ Tell(i) \/ StoreCollabBundle(i)
                          \/ LoadCollabSession(i) \/ Seal(i) \/ FetchBundleByPubkey(i)
    BY <1>4 DEF CustodyStep
  <2>2. CASE NoIdentity(i) \/ FetchBundleByPubkey(i)
    BY <2>2 DEF NoIdentity, FetchBundleByPubkey, CallMoves, Closes, Rest, CallPc, Keyed
  <2>3. CASE StoreCollabBundle(i) \/ LoadCollabSession(i)
    BY <2>3 DEF StoreCollabBundle, LoadCollabSession, Opened, CallMoves, GoesOn, Rest, CAt
  <2>. QED BY <2>1, <2>2, <2>3 DEF CallMoves
<1>5. CASE SignInStep
  <2>1. PICK t \in Tab :
          \/ \E a \in Client : HandleAuthorize(t, a)
          \/ \E u \in Member : PickAccount(t, u)
          \/ HandleCallback(t) \/ Interstitial(t) \/ Direct(t) \/ HandleCallbackContinue(t)
          \/ \E i \in Call : ~Busy(i) /\ ShowIdentity(t, i)
    BY <1>5 DEF SignInStep
  <2>2. CASE \E i \in Call : ShowIdentity(t, i)
    <3>1. TAt(t, "verify") => TabGrant(t) \in [user : Member, ai : Client, named : BOOLEAN]
      BY DEF Shape, ConnectorTypeOK, Asked, Signing, TAt, TabGrant
    <3>. QED BY <1>1, <2>2, <3>1 DEF ShowIdentity, Kind
  <2>3. CASE Interstitial(t) \/ Direct(t)
    <3>1. TAt(t, "loading") => tab[t].call \in Call
      BY DEF Asked, Signing, TAt
    <3>2. UNCHANGED request \/ (TAt(t, "loading") /\ Close(tab[t].call, "idle"))
      BY <2>3 DEF Interstitial, Direct, TAt
    <3>3. Rest
      BY <2>3 DEF Interstitial, Direct, Rest
    <3>. QED BY <3>1, <3>2, <3>3 DEF CallMoves, Closes, Rest, CallPc, Keyed
  <2>4. CASE (\E a \in Client : HandleAuthorize(t, a)) \/ (\E u \in Member : PickAccount(t, u))
             \/ HandleCallback(t) \/ HandleCallbackContinue(t)
    BY <2>4 DEF HandleAuthorize, PickAccount, HandleCallback, HandleCallbackContinue, cvars
  <2>. QED BY <2>1, <2>2, <2>3, <2>4
<1>6. CASE ConnectorFault
  <2>1. CASE \E i \in Call : BaoFails(i) \/ FetchFails(i)
    BY <2>1 DEF BaoFails, FetchFails, CallMoves, Closes, Rest, CallPc, Keyed
  <2>2. ASSUME NEW t \in Tab, NEW goesOn \in BOOLEAN, WithTimeout(t, goesOn)
        PROVE  \E i \in Call : CallMoves(i)
    <3>1. tab[t].call \in Call
      BY <2>2 DEF WithTimeout, Asked, Signing, TAt
    <3>2. Unseen(tab[t].call) \/ Closes(tab[t].call)
      BY <2>2 DEF WithTimeout, Unseen, Closes, Rest, CallPc, Keyed
    <3>. QED BY <3>1, <3>2 DEF CallMoves
  <2>3. CASE CookiesExpire \/ \E t \in Tab : VerifyFails(t)
    BY <2>3 DEF CookiesExpire, VerifyFails, cvars
  <2>. QED BY <1>6, <2>1, <2>2, <2>3 DEF ConnectorFault
<1>. QED BY <1>2, <1>3, <1>4, <1>5, <1>6 DEF ConnectorNext, ConnectNext

-----------------------------------------------------------------------------
(* One request's step keeps the keys apart                                    *)

\* The variables and the records keep their types, and a request its user and client.
CTypes == request \in [Call -> CallRec] /\ CTypeOK

LEMMA NoCallKnown == NoCall \in CallRec /\ Known(NoCall) /\ NoCall.key = 0 /\ ~NoCall.first
  BY CustodyAssumption DEF NoCall, CallRec, CallPc, Kind, Known, Keyed

\* What Asks makes of a record without a key, and what Closes makes of it.
LEMMA FreshCall ==
  ASSUME NEW n \in CallRec, n.key = 0, ~n.first,
         NEW u \in Member, NEW a \in Client, NEW kind \in Kind
  PROVE  LET c == [n EXCEPT !.pc = "select", !.kind = kind, !.user = u, !.ai = a, !.client = a]
         IN  c \in CallRec /\ Known(c) /\ c.key = 0 /\ ~c.first
  BY DEF CallRec, CallPc, Known, Keyed

LEMMA EndedCall ==
  ASSUME NEW n \in CallRec, n.key = 0, ~n.first, NEW how \in CallPc \ (Keyed \cup {"select"})
  PROVE  LET d == [n EXCEPT !.pc = how] IN d \in CallRec /\ Known(d) /\ d.key = 0 /\ ~d.first
  BY DEF CallRec, CallPc, Known, Keyed

LEMMA CallSet ==
  ASSUME request \in [Call -> CallRec], CallKnown, NEW i \in Call, NEW c \in CallRec, Known(c),
         request' = [request EXCEPT ![i] = c]
  PROVE  request' \in [Call -> CallRec] /\ CallKnown'
  BY DEF CallKnown

LEMMA CallTypes ==
  ASSUME CTypes, CallKnown, NEW i \in Call, CallMoves(i)
  PROVE  CTypes' /\ CallKnown'
<1>0. request \in [Call -> CallRec] /\ request[i] \in CallRec /\ Known(request[i]) /\ MaxKey \in Nat
  BY CustodyAssumption DEF CTypes, CallKnown
<1>1. CASE Asks(i)
  <2>1. PICK u \in Member, a \in Client, kind \in Kind :
          request' = [request EXCEPT ![i] = [NoCall EXCEPT !.pc = "select", !.kind = kind, !.user = u, !.ai = a, !.client = a]]
    BY <1>1 DEF Asks
  <2> DEFINE c == [NoCall EXCEPT !.pc = "select", !.kind = kind, !.user = u, !.ai = a, !.client = a]
  <2>2. c \in CallRec /\ Known(c)
    BY NoCallKnown, FreshCall
  <2>3. CTypeOK'
    BY <1>1 DEF Asks, Rest, CTypes, CTypeOK
  <2>. QED BY <1>0, <2>1, <2>2, <2>3, CallSet DEF CTypes
<1>2. ASSUME \E how \in CallPc \ (Keyed \cup {"select"}) : Close(i, how)
      PROVE  request' \in [Call -> CallRec] /\ CallKnown'
  <2>1. PICK how \in CallPc \ (Keyed \cup {"select"}) : Close(i, how)
    BY <1>2
  <2>2. [NoCall EXCEPT !.pc = how] \in CallRec /\ Known([NoCall EXCEPT !.pc = how])
    BY NoCallKnown, EndedCall
  <2>. QED BY <1>0, <2>1, <2>2, CallSet DEF Close
<1>3. CASE Closes(i)
  BY <1>2, <1>3 DEF Closes, Rest, CTypes, CTypeOK
<1>4. CASE Unseen(i)
  <2>1. [request[i] EXCEPT !.kind = "late"] \in CallRec /\ Known([request[i] EXCEPT !.kind = "late"])
    BY <1>0 DEF CallRec, Kind, Known
  <2>2. request' = [request EXCEPT ![i] = [request[i] EXCEPT !.kind = "late"]]
    BY <1>4 DEF Unseen
  <2>. QED BY <1>0, <1>4, <2>1, <2>2, CallSet DEF Unseen, Rest, CTypes, CTypeOK
<1>5. CASE GoesOn(i)
  <2>1. PICK pc \in {"seal", "fetch"} : request' = [request EXCEPT ![i].pc = pc]
    BY <1>5 DEF GoesOn
  <2>2. [request[i] EXCEPT !.pc = pc] \in CallRec /\ Known([request[i] EXCEPT !.pc = pc])
    BY <1>0, <1>5 DEF GoesOn, CAt, CallRec, CallPc, Known, Keyed
  <2>3. request' = [request EXCEPT ![i] = [request[i] EXCEPT !.pc = pc]]
    BY <2>1
  <2>. QED BY <1>0, <1>5, <2>2, <2>3, CallSet DEF GoesOn, Rest, CTypes, CTypeOK
<1>6. CASE RowFound(i)
  <2> DEFINE c == [request[i] EXCEPT !.pc = "unwrap", !.key = rows[SlotOf(i)]]
  <2>1. SlotOf(i) \in Slot
    BY <1>0, <1>6 DEF RowFound, CAt, Known, SlotOf, Slot
  <2>2. rows[SlotOf(i)] \in 0..MaxKey /\ rows[SlotOf(i)] # 0
    BY <1>6, <2>1 DEF RowFound, CTypes, CTypeOK
  <2>3. c \in CallRec /\ Known(c)
    BY <1>0, <1>6, <2>2 DEF RowFound, CAt, CallRec, CallPc, Known, Keyed
  <2>4. request' = [request EXCEPT ![i] = c]
    BY <1>6 DEF RowFound
  <2>. QED BY <1>0, <1>6, <2>3, <2>4, CallSet DEF RowFound, CTypes, CTypeOK
<1>7. CASE FirstCall(i)
  <2> DEFINE c == [request[i] EXCEPT !.pc = "seal", !.key = made + 1, !.first = TRUE]
  <2>1. SlotOf(i) \in Slot
    BY <1>0, <1>7 DEF FirstCall, CAt, Known, SlotOf, Slot
  <2>2. made + 1 \in 1..MaxKey
    BY <1>0, <1>7 DEF FirstCall, CTypes, CTypeOK
  <2>3. c \in CallRec /\ Known(c)
    BY <1>0, <1>7, <2>2 DEF FirstCall, CAt, CallRec, CallPc, Known, Keyed
  <2>4. request' = [request EXCEPT ![i] = c]
    BY <1>7 DEF FirstCall
  <2>5. CTypeOK'
    BY <1>0, <1>7, <2>1, <2>2 DEF FirstCall, CTypes, CTypeOK
  <2>. QED BY <1>0, <2>3, <2>4, <2>5, CallSet DEF CTypes
<1>8. ASSUME request[i].pc \in Keyed
      PROVE  Tellable(i) \subseteq [user : Member, ai : Client, client : Client, key : Key]
  <2>1. request[i].user \in Member /\ request[i].ai \in Client /\ request[i].client \in Client /\ request[i].key \in Key
    BY <1>0, <1>8 DEF Known, CallRec, Key
  <2>. QED BY <2>1 DEF Tellable
<1>9. CASE Tell(i)
  <2>1. request[i].pc \in Keyed
    BY <1>9 DEF Tell, Opened, CAt, Keyed
  <2>2. CTypeOK'
    BY <1>8, <1>9, <2>1 DEF Tell, Opened, CTypes, CTypeOK
  <2>. QED BY <1>2, <1>9, <2>2 DEF Tell, CTypes, CallPc, Keyed
<1>10. CASE Seal(i)
  <2>1. request[i].pc \in Keyed /\ request[i].key \in 0..MaxKey
    BY <1>0, <1>10 DEF Seal, CAt, Keyed, CallRec
  <2>2. rows' \in [Slot -> 0..MaxKey]
    BY <1>10, <2>1 DEF Seal, CTypes, CTypeOK
  <2>3. CTypeOK'
    BY <1>8, <1>10, <2>1, <2>2 DEF Seal, CTypes, CTypeOK
  <2>. QED BY <1>2, <1>10, <2>3 DEF Seal, CTypes, CallPc, Keyed
<1>. QED BY <1>1, <1>3, <1>4, <1>5, <1>6, <1>7, <1>9, <1>10 DEF CallMoves

\* What the other calls hold does not change; what a step makes a slot hold, that slot held
\* before, but for the new key of a first request.
LEMMA HoldsNothingNew ==
  ASSUME CTypes, CallKnown, OneSlot, NEW i \in Call, CallMoves(i),
         NEW s \in Slot, NEW k \in Key, Holds(s, k)'
  PROVE  Holds(s, k) \/ (FirstCall(i) /\ k = made + 1 /\ s = SlotOf(i))
<1>0. request[i] \in CallRec /\ MaxKey \in Nat /\ k # 0
  BY CustodyAssumption DEF CTypes, Key
<1>1. CASE Asks(i)
  BY <1>0, <1>1 DEF Asks, Rest, NoCall, Holds, SlotOf, CTypes
<1>2. CASE Closes(i)
  BY <1>0, <1>2 DEF Closes, Close, Rest, NoCall, Holds, SlotOf, CTypes
<1>3. CASE Unseen(i)
  BY <1>0, <1>3 DEF Unseen, Rest, Holds, SlotOf, CTypes, CallRec
<1>4. CASE GoesOn(i)
  BY <1>0, <1>4 DEF GoesOn, Rest, Holds, SlotOf, CTypes, CallRec
<1>5. CASE RowFound(i)
  BY <1>0, <1>5 DEF RowFound, Holds, SlotOf, CTypes, CallRec
<1>6. CASE FirstCall(i)
  BY <1>0, <1>6 DEF FirstCall, Holds, SlotOf, CTypes, CallRec
<1>7. CASE Tell(i)
  BY <1>0, <1>7 DEF Tell, Opened, Close, NoCall, Tellable, Holds, SlotOf, CTypes, CallRec
<1>8. CASE Seal(i)
  BY <1>0, <1>8 DEF Seal, Close, NoCall, Tellable, Holds, SlotOf, CTypes, CTypeOK, CallRec
<1>. QED BY <1>1, <1>2, <1>3, <1>4, <1>5, <1>6, <1>7, <1>8 DEF CallMoves

LEMMA OneSlotStep ==
  ASSUME CTypes, CallKnown, OneSlot, NEW i \in Call, CallMoves(i)
  PROVE  OneSlot'
<1>1. made \in Nat /\ made' \in Nat /\ made' >= made /\ (FirstCall(i) => made' = made + 1)
  <2>1. made \in Nat /\ made' \in Nat
    BY CustodyAssumption, CallTypes DEF CTypes, CTypeOK
  <2>2. made' = made \/ made' = made + 1
    BY DEF CallMoves, Asks, Closes, Unseen, GoesOn, Rest, RowFound, FirstCall, Tell, Opened, Seal
  <2>. QED BY <2>1, <2>2 DEF FirstCall
<1>2. ASSUME NEW k \in Key, NEW s \in Slot, Holds(s, k)'
      PROVE  k <= made'
  <2>1. k \in Nat
    BY CustodyAssumption DEF Key
  <2>. QED BY <1>1, <1>2, <2>1, HoldsNothingNew DEF OneSlot
<1>3. ASSUME NEW k \in Key, NEW s \in Slot, NEW t \in Slot, Holds(s, k)', Holds(t, k)'
      PROVE  s = t
  <2>1. Holds(s, k) \/ (FirstCall(i) /\ k = made + 1 /\ s = SlotOf(i))
    BY <1>3, HoldsNothingNew
  <2>2. Holds(t, k) \/ (FirstCall(i) /\ k = made + 1 /\ t = SlotOf(i))
    BY <1>3, HoldsNothingNew
  <2>3. k = made + 1 => ~Holds(s, k) /\ ~Holds(t, k)
    BY <1>1 DEF OneSlot
  <2>. QED BY <2>1, <2>2, <2>3 DEF OneSlot
<1>4. \A x \in shown' : x.client = x.ai
  <2>1. CASE Tell(i) \/ Seal(i)
    BY <2>1 DEF Tell, Opened, Seal, CAt, Tellable, CallKnown, Known, Keyed, OneSlot
  <2>2. CASE ~(Tell(i) \/ Seal(i))
    BY <2>2 DEF CallMoves, Asks, Closes, Unseen, GoesOn, Rest, RowFound, FirstCall, OneSlot
  <2>. QED BY <2>1, <2>2
<1>. QED BY <1>2, <1>3, <1>4 DEF OneSlot


\* In a slot that was never contested a first request finds no row and no other first request.
LEMMA SteadyStep ==
  ASSUME CTypes, CallKnown, OneSlot, Steady, NEW i \in Call, CallMoves(i)
  PROVE  Steady'
<1>0. /\ request \in [Call -> CallRec] /\ \A j \in Call : request[j] \in CallRec /\ Known(request[j])
      /\ rows \in [Slot -> 0..MaxKey] /\ shown \subseteq [user : Member, ai : Client, client : Client, key : Key]
      /\ \A x \in shown : x.key # 0
      /\ contested \subseteq contested'
  <2>1. contested \subseteq contested'
    BY DEF CallMoves, Asks, Closes, Unseen, GoesOn, Rest, RowFound, FirstCall, Tell, Opened, Seal
  <2>2. \A x \in shown : x.key # 0
    BY CustodyAssumption DEF CTypes, CTypeOK, Key
  <2>. QED BY <2>1, <2>2 DEF CTypes, CTypeOK, CallKnown
<1>. SUFFICES ASSUME NEW s \in Slot, s \notin contested'
              PROVE  /\ \A x \in shown' : <<x.user, x.client>> = s => rows'[s] = x.key
                     /\ \A j \in Call : SlotOf(j)' = s /\ request'[j].key # 0
                          => rows'[s] = (IF request'[j].first THEN 0 ELSE request'[j].key)
                     /\ \A j, h \in Call : SlotOf(j)' = s /\ SlotOf(h)' = s /\ request'[j].first /\ request'[h].first => j = h
  BY DEF Steady
<1>1. /\ s \notin contested
      /\ \A x \in shown : <<x.user, x.client>> = s => rows[s] = x.key
      /\ \A j \in Call : SlotOf(j) = s /\ request[j].key # 0 => rows[s] = (IF request[j].first THEN 0 ELSE request[j].key)
      /\ \A j, h \in Call : SlotOf(j) = s /\ SlotOf(h) = s /\ request[j].first /\ request[h].first => j = h
  BY <1>0 DEF Steady
<1>2. CASE Asks(i)
  <2>1. /\ request'[i].key = 0 /\ ~request'[i].first
        /\ \A j \in Call \ {i} : request'[j] = request[j]
        /\ Rest
    BY <1>0, <1>2 DEF Asks, NoCall
  <2>. QED BY <1>1, <2>1 DEF Rest, SlotOf
<1>3. CASE Closes(i)
  <2>1. /\ request'[i].key = 0 /\ ~request'[i].first
        /\ \A j \in Call \ {i} : request'[j] = request[j]
        /\ Rest
    BY <1>0, <1>3 DEF Closes, Close, NoCall
  <2>. QED BY <1>1, <2>1 DEF Rest, SlotOf
<1>4. CASE Unseen(i) \/ GoesOn(i)
  <2>1. /\ \A j \in Call : SlotOf(j)' = SlotOf(j) /\ request'[j].key = request[j].key /\ request'[j].first = request[j].first
        /\ Rest
    BY <1>0, <1>4 DEF Unseen, GoesOn, SlotOf, CallRec
  <2>. QED BY <1>1, <2>1 DEF Rest
<1>5. CASE RowFound(i)
  <2>1. /\ \A j \in Call \ {i} : request'[j] = request[j]
        /\ SlotOf(i)' = SlotOf(i) /\ request'[i].key = rows[SlotOf(i)] /\ ~request'[i].first
    BY <1>0, <1>5 DEF RowFound, CAt, SlotOf, CallRec, Known
  <2>2. UNCHANGED <<rows, shown>>
    BY <1>5 DEF RowFound
  <2>. QED BY <1>1, <2>1, <2>2 DEF SlotOf
<1>6. CASE FirstCall(i)
  <2>1. /\ \A j \in Call \ {i} : request'[j] = request[j]
        /\ SlotOf(i)' = SlotOf(i) /\ request'[i].first /\ rows[SlotOf(i)] = 0
    BY <1>0, <1>6 DEF FirstCall, SlotOf, CallRec
  <2>2. UNCHANGED <<rows, shown>>
    BY <1>6 DEF FirstCall
  <2>3. SlotOf(i) = s => ~OtherFirst(i)
    BY <1>6 DEF FirstCall
  <2>4. ASSUME NEW j \in Call \ {i}, SlotOf(i) = s, SlotOf(j) = s, request[j].first
        PROVE  FALSE
    BY <1>0, <2>3, <2>4 DEF OtherFirst, CAt, Known
  <2>. QED BY <1>1, <2>1, <2>2, <2>4 DEF SlotOf
<1>7. CASE Tell(i)
  <2>1. /\ \A j \in Call \ {i} : request'[j] = request[j]
        /\ request'[i].key = 0 /\ ~request'[i].first
        /\ rows' = rows /\ shown' = shown \cup Tellable(i)
    BY <1>0, <1>7 DEF Tell, Opened, Close, NoCall
  <2>2. request[i].key # 0 /\ ~request[i].first
    BY <1>0, <1>7 DEF Tell, Opened, CAt, Known, Keyed
  <2>3. \A x \in Tellable(i) : x.key = request[i].key /\ <<x.user, x.client>> = SlotOf(i)
    BY DEF Tellable, SlotOf
  <2>. QED BY <1>1, <2>1, <2>2, <2>3 DEF SlotOf
<1>8. CASE Seal(i)
  <2>1. /\ \A j \in Call \ {i} : request'[j] = request[j]
        /\ request'[i].key = 0 /\ ~request'[i].first
        /\ rows' = [rows EXCEPT ![SlotOf(i)] = request[i].key]
        /\ \A x \in shown' : x \in shown \/ (x.key = request[i].key /\ <<x.user, x.client>> = SlotOf(i))
    BY <1>0, <1>8 DEF Seal, Close, NoCall, Tellable, SlotOf
  <2>2. request[i].key # 0
    BY <1>0, <1>8 DEF Seal, CAt, Known, Keyed
  <2>3. CASE SlotOf(i) # s
    BY <1>0, <1>1, <2>1, <2>3 DEF SlotOf
  <2>4. CASE SlotOf(i) = s /\ ~request[i].first
    <3>1. rows[s] = request[i].key /\ rows' = rows
      BY <1>0, <1>1, <2>1, <2>2, <2>4
    <3>. QED BY <1>1, <2>1, <3>1 DEF SlotOf
  <2>5. CASE SlotOf(i) = s /\ request[i].first
    <3>1. rows[s] = 0 /\ rows'[s] = request[i].key
      BY <1>0, <1>1, <2>1, <2>2, <2>5
    <3>2. \A x \in shown : <<x.user, x.client>> # s
      BY <1>0, <1>1, <3>1
    <3>3. \A j \in Call \ {i} : SlotOf(j) = s => request[j].key = 0 \/ request[j].first
      BY <1>1, <3>1
    <3>4. \A j \in Call \ {i} : SlotOf(j) = s => ~request[j].first
      BY <1>1, <2>5
    <3>. QED BY <2>1, <3>1, <3>2, <3>3, <3>4 DEF SlotOf
  <2>. QED BY <2>3, <2>4, <2>5
<1>. QED BY <1>2, <1>3, <1>4, <1>5, <1>6, <1>7, <1>8 DEF CallMoves


-----------------------------------------------------------------------------
(* The tabs and their cookies                                              *)

WTypes ==
  /\ flows \in 0..MaxFlows /\ chosen \subseteq Member \X Client
  /\ grants \subseteq [user : Member, ai : Client, named : BOOLEAN]
  /\ tab \in [Tab -> TabRec] /\ stateCookie \in Cookie /\ continueCookie \in Cookie

LEMMA ClosedTab == NewTab \in TabRec /\ NoCookie \in Cookie /\ NoCookie.nonce = 0 /\ NewTab.nonce = 0 /\ NewTab.pc = "closed"
  BY ConnectorAssumption DEF NewTab, NoCookie, TabRec, TabPc, Cookie

\* One tab changes its record and the others can keep theirs.
LEMMA TabSet ==
  ASSUME WTypes, Asked, NEW t \in Tab, NEW r \in TabRec, tab' = [tab EXCEPT ![t] = r],
         flows' \in Nat, flows' >= flows, chosen \subseteq chosen',
         stateCookie' = stateCookie \/ stateCookie'.nonce = 0 \/ stateCookie'.nonce > flows,
         Signing(r)'
  PROVE  tab' \in [Tab -> TabRec] /\ \A u \in Tab : Signing(tab[u])'
<1>1. tab' \in [Tab -> TabRec] /\ tab'[t] = r /\ \A u \in Tab \ {t} : tab'[u] = tab[u]
  BY DEF WTypes
<1>2. ASSUME NEW u \in Tab \ {t}
      PROVE  Signing(tab[u])'
  <2>1. tab[u] \in TabRec /\ tab[u].nonce \in Nat /\ flows \in Nat
    BY ConnectorAssumption DEF WTypes, TabRec
  <2>2. Signing(tab[u])
    BY DEF Asked
  <2>3. tab'[u] = tab[u]
    BY <1>1
  <2>4. tab[u].nonce <= flows'
    BY <2>1, <2>2 DEF Signing
  <2>5. tab[u].pc \in {"google", "back"} => (stateCookie'.nonce = tab[u].nonce => stateCookie'.ai = tab[u].ai)
    BY <2>1, <2>2 DEF Signing
  <2>. QED BY <2>2, <2>3, <2>4, <2>5 DEF Signing
<1>. QED BY <1>1, <1>2

\* A tab is closed, or takes a step that keeps its nonce, its user and its AI.
LEMMA TabCloses ==
  ASSUME WTypes, Asked, NEW t \in Tab, Shut(t), flows' = flows, chosen' = chosen,
         stateCookie' = stateCookie \/ stateCookie' = NoCookie
  PROVE  tab' \in [Tab -> TabRec] /\ \A u \in Tab : Signing(tab[u])'
<1>1. flows \in Nat
  BY ConnectorAssumption DEF WTypes
<1>2. PICK r \in TabRec : r = NewTab
  BY ClosedTab
<1>3. Signing(r)'
  BY <1>1, <1>2, ClosedTab DEF Signing
<1>4. flows' \in Nat /\ flows' >= flows /\ chosen \subseteq chosen' /\ (stateCookie' = stateCookie \/ stateCookie'.nonce = 0)
  BY <1>1, ClosedTab
<1>5. tab' = [tab EXCEPT ![t] = r]
  BY <1>2 DEF Shut
<1>. QED BY <1>3, <1>4, <1>5, TabSet

LEMMA GoesKept ==
  ASSUME WTypes, Asked, NEW t \in Tab, NEW pc \in {"verify", "loading", "interstitial"}, NEW i \in Call \cup {Null},
         <<tab[t].user, tab[t].ai>> \in chosen, pc = "loading" => i \in Call,
         tab' = [tab EXCEPT ![t] = [tab[t] EXCEPT !.pc = pc, !.call = i]], flows' = flows, chosen' = chosen,
         stateCookie' = stateCookie \/ stateCookie' = NoCookie
  PROVE  tab' \in [Tab -> TabRec] /\ \A u \in Tab : Signing(tab[u])'
<1>1. flows \in Nat /\ tab[t] \in TabRec /\ Signing(tab[t])
  BY ConnectorAssumption DEF WTypes, Asked
<1>2. PICK r \in TabRec : r = [tab[t] EXCEPT !.pc = pc, !.call = i]
  BY <1>1 DEF TabRec, TabPc
<1>3. r.pc = pc /\ r.nonce = tab[t].nonce /\ r.user = tab[t].user /\ r.ai = tab[t].ai /\ r.call = i
  BY <1>1, <1>2 DEF TabRec
<1>4. Signing(r)'
  BY <1>1, <1>3 DEF Signing
<1>5. flows' \in Nat /\ flows' >= flows /\ chosen \subseteq chosen' /\ (stateCookie' = stateCookie \/ stateCookie'.nonce = 0)
  BY <1>1, ClosedTab
<1>6. tab' = [tab EXCEPT ![t] = r]
  BY <1>2
<1>. QED BY <1>4, <1>5, <1>6, TabSet

\* What is granted was asked for.
LEMMA GrantAdded ==
  ASSUME WTypes, Asked, NEW u, NEW a, <<u, a>> \in chosen, chosen' = chosen,
         CompleteAuthorization([user |-> u, ai |-> a, named |-> TRUE])
  PROVE  GrantIsWhatWasAsked' /\ grants' \subseteq [user : Member, ai : Client, named : BOOLEAN]
<1>1. u \in Member /\ a \in Client
  BY DEF WTypes
<1> DEFINE g == [user |-> u, ai |-> a, named |-> TRUE]
<1>2. g \in [user : Member, ai : Client, named : BOOLEAN] /\ <<g.user, g.ai>> \in chosen
  BY <1>1
<1>3. grants' = grants \cup {g}
  BY DEF CompleteAuthorization
<1>. QED BY <1>2, <1>3 DEF WTypes, Asked, GrantIsWhatWasAsked

LEMMA HandleAuthorizeStep ==
  ASSUME WTypes, Asked, NEW t \in Tab, NEW a \in Client, HandleAuthorize(t, a)
  PROVE  WTypes' /\ Asked'
<1> DEFINE c == [nonce |-> flows + 1, user |-> Null, ai |-> a]
<1>1. flows \in Nat /\ flows' = flows + 1 /\ flows' \in 0..MaxFlows
  BY ConnectorAssumption DEF WTypes, HandleAuthorize
<1>2. PICK n \in TabRec : n = NewTab
  BY ClosedTab
<1>2a. PICK r \in TabRec : r = [n EXCEPT !.pc = "google", !.nonce = flows + 1, !.ai = a]
  BY <1>1 DEF TabRec, TabPc
<1>2b. r.pc = "google" /\ r.nonce = flows + 1 /\ r.ai = a
  BY <1>2a DEF TabRec
<1>3. c \in Cookie /\ stateCookie' = c
  BY <1>1 DEF Cookie, HandleAuthorize
<1>4. Signing(r)'
  BY <1>1, <1>2b, <1>3 DEF Signing
<1>5. tab' \in [Tab -> TabRec] /\ \A u \in Tab : Signing(tab[u])'
  <2>1. chosen' = chosen /\ tab' = [tab EXCEPT ![t] = r]
    BY <1>2, <1>2a DEF HandleAuthorize
  <2>2. flows' >= flows /\ stateCookie'.nonce > flows /\ flows' \in Nat
    BY <1>1, <1>3
  <2>. QED BY <1>4, <2>1, <2>2, TabSet
<1>. QED BY <1>1, <1>3, <1>5 DEF HandleAuthorize, WTypes, Asked, GrantIsWhatWasAsked

LEMMA PickAccountStep ==
  ASSUME WTypes, Asked, NEW t \in Tab, NEW u \in Member, PickAccount(t, u)
  PROVE  WTypes' /\ Asked'
<1>1. flows \in Nat /\ tab[t] \in TabRec /\ Signing(tab[t]) /\ tab[t].pc = "google"
  BY ConnectorAssumption DEF WTypes, Asked, PickAccount, TAt
<1>2. PICK r \in TabRec : r = [tab[t] EXCEPT !.pc = "back", !.user = u]
  BY <1>1 DEF TabRec, TabPc
<1>2a. r.pc = "back" /\ r.nonce = tab[t].nonce /\ r.user = u /\ r.ai = tab[t].ai
  BY <1>1, <1>2 DEF TabRec
<1>3. chosen' = chosen \cup {<<u, tab[t].ai>>} /\ tab[t].ai \in Client /\ UNCHANGED <<flows, stateCookie, continueCookie, grants>>
  BY <1>1 DEF PickAccount, Signing
<1>4. Signing(r)'
  BY <1>1, <1>2a, <1>3 DEF Signing
<1>5. tab' = [tab EXCEPT ![t] = r]
  BY <1>2 DEF PickAccount
<1>6. tab' \in [Tab -> TabRec] /\ \A v \in Tab : Signing(tab[v])'
  <2>1. flows' \in Nat /\ flows' >= flows /\ chosen \subseteq chosen' /\ stateCookie' = stateCookie
    BY <1>1, <1>3
  <2>. QED BY <1>4, <1>5, <2>1, TabSet
<1>. QED BY <1>3, <1>6 DEF WTypes, Asked, GrantIsWhatWasAsked

LEMMA HandleCallbackStep ==
  ASSUME WTypes, Asked, NEW t \in Tab, HandleCallback(t)
  PROVE  WTypes' /\ Asked'
<1>1. UNCHANGED <<flows, stateCookie, continueCookie, chosen, grants>>
  BY DEF HandleCallback
<1>2. tab' \in [Tab -> TabRec] /\ \A v \in Tab : Signing(tab[v])'
  <2>1. CASE stateCookie.nonce # tab[t].nonce
    BY <1>1, <2>1, TabCloses DEF HandleCallback
  <2>2. CASE stateCookie.nonce = tab[t].nonce
    <3>1. tab[t] \in TabRec /\ Signing(tab[t]) /\ tab[t].pc = "back"
      BY DEF WTypes, Asked, HandleCallback, TAt
    <3>2. stateCookie.ai = tab[t].ai /\ <<tab[t].user, tab[t].ai>> \in chosen /\ tab[t].call \in Call \cup {Null}
      BY <2>2, <3>1 DEF Signing, TabRec
    <3>3. [tab[t] EXCEPT !.pc = "verify", !.ai = stateCookie.ai] = [tab[t] EXCEPT !.pc = "verify", !.call = tab[t].call]
      BY <3>1, <3>2 DEF TabRec
    <3>4. tab' = [tab EXCEPT ![t] = [tab[t] EXCEPT !.pc = "verify", !.ai = stateCookie.ai]]
      BY <2>2 DEF HandleCallback
    <3>. QED BY <1>1, <3>2, <3>3, <3>4, GoesKept
  <2>. QED BY <2>1, <2>2
<1>. QED BY <1>1, <1>2 DEF WTypes, Asked, GrantIsWhatWasAsked

LEMMA ShowIdentityStep ==
  ASSUME WTypes, Asked, NEW t \in Tab, NEW i \in Call, ShowIdentity(t, i)
  PROVE  WTypes' /\ Asked'
<1>1. UNCHANGED <<flows, stateCookie, continueCookie, chosen, grants>>
  BY DEF ShowIdentity
<1>2. <<tab[t].user, tab[t].ai>> \in chosen
  BY DEF Asked, Signing, ShowIdentity, TAt
<1>3. tab' = [tab EXCEPT ![t] = [tab[t] EXCEPT !.pc = "loading", !.call = i]]
  BY DEF ShowIdentity
<1>4. tab' \in [Tab -> TabRec] /\ \A v \in Tab : Signing(tab[v])'
  BY <1>1, <1>2, <1>3, GoesKept
<1>. QED BY <1>1, <1>4 DEF WTypes, Asked, GrantIsWhatWasAsked

LEMMA InterstitialStep ==
  ASSUME WTypes, Asked, NEW t \in Tab, Interstitial(t)
  PROVE  WTypes' /\ Asked'
<1> DEFINE c == [nonce |-> 0, user |-> tab[t].user, ai |-> tab[t].ai]
<1>1. stateCookie' = NoCookie /\ continueCookie' = c /\ UNCHANGED <<flows, chosen, grants>>
  BY DEF Interstitial
<1>2. tab[t] \in TabRec /\ <<tab[t].user, tab[t].ai>> \in chosen /\ tab[t].call \in Call \cup {Null}
  BY DEF WTypes, Asked, Signing, Interstitial, TAt, TabRec
<1>3. [tab[t] EXCEPT !.pc = "interstitial"] = [tab[t] EXCEPT !.pc = "interstitial", !.call = tab[t].call]
  BY <1>2 DEF TabRec
<1>4. tab' = [tab EXCEPT ![t] = [tab[t] EXCEPT !.pc = "interstitial", !.call = tab[t].call]]
  BY <1>3 DEF Interstitial, Goes
<1>5. tab' \in [Tab -> TabRec] /\ \A v \in Tab : Signing(tab[v])'
  BY <1>1, <1>2, <1>4, GoesKept
<1>6. c \in Cookie /\ <<c.user, c.ai>> \in chosen
  BY <1>2, ConnectorAssumption DEF Cookie, WTypes
<1>7. NoCookie.nonce <= flows
  BY ClosedTab, ConnectorAssumption DEF WTypes
<1>. QED BY <1>1, <1>5, <1>6, <1>7, ClosedTab DEF WTypes, Asked, GrantIsWhatWasAsked


\* The tab's own account and AI are granted, and the tab is shut.
LEMMA GrantAndShut ==
  ASSUME WTypes, Asked, NEW t \in Tab, TAt(t, "verify") \/ TAt(t, "loading"),
         CompleteAuthorization(TabGrant(t)), Shut(t), stateCookie' = NoCookie, UNCHANGED <<flows, continueCookie, chosen>>
  PROVE  WTypes' /\ Asked'
<1>1. PICK u, a : u = tab[t].user /\ a = tab[t].ai
  OBVIOUS
<1>2. <<u, a>> \in chosen
  BY <1>1 DEF Asked, Signing, TAt
<1>3. CompleteAuthorization([user |-> u, ai |-> a, named |-> TRUE])
  BY <1>1 DEF TabGrant
<1>4. GrantIsWhatWasAsked' /\ grants' \subseteq [user : Member, ai : Client, named : BOOLEAN]
  BY <1>2, <1>3, GrantAdded
<1>5. tab' \in [Tab -> TabRec] /\ \A v \in Tab : Signing(tab[v])'
  BY TabCloses
<1>6. NoCookie.nonce <= flows
  BY ClosedTab, ConnectorAssumption DEF WTypes
<1>. QED BY <1>4, <1>5, <1>6, ClosedTab DEF WTypes, Asked

LEMMA ContinueStep ==
  ASSUME WTypes, Asked, NEW t \in Tab, HandleCallbackContinue(t)
  PROVE  WTypes' /\ Asked'
<1>1. tab' \in [Tab -> TabRec] /\ \A v \in Tab : Signing(tab[v])'
  BY TabCloses DEF HandleCallbackContinue
<1>2. GrantIsWhatWasAsked' /\ grants' \subseteq [user : Member, ai : Client, named : BOOLEAN]
  <2>1. CASE continueCookie = NoCookie
    BY <2>1 DEF HandleCallbackContinue, WTypes, Asked, GrantIsWhatWasAsked
  <2>2. CASE continueCookie # NoCookie
    <3>1. PICK u, a : u = continueCookie.user /\ a = continueCookie.ai
      OBVIOUS
    <3>2. <<u, a>> \in chosen /\ CompleteAuthorization([user |-> u, ai |-> a, named |-> TRUE])
      BY <2>2, <3>1 DEF Asked, HandleCallbackContinue
    <3>. QED BY <3>2, GrantAdded DEF HandleCallbackContinue
  <2>. QED BY <2>1, <2>2
<1>. QED BY <1>1, <1>2, ClosedTab DEF WTypes, Asked, HandleCallbackContinue

LEMMA CookiesExpireStep ==
  ASSUME WTypes, Asked, CookiesExpire
  PROVE  WTypes' /\ Asked'
<1>1. NoCookie \in Cookie /\ NoCookie.nonce = 0 /\ flows \in Nat
  BY ClosedTab, ConnectorAssumption DEF WTypes
<1>2. ASSUME NEW t \in Tab
      PROVE  Signing(tab[t])'
  BY <1>1 DEF CookiesExpire, Asked, Signing
<1>. QED BY <1>1, <1>2 DEF CookiesExpire, WTypes, Asked, GrantIsWhatWasAsked

\* The steps that leave the tabs and the cookies alone.
LEMMA WUntouched ==
  ASSUME WTypes, Asked, UNCHANGED wvars
  PROVE  WTypes' /\ Asked'
  BY DEF wvars, WTypes, Asked, Signing, GrantIsWhatWasAsked

LEMMA SignInNext ==
  ASSUME WTypes, Asked, ConnectorNext
  PROVE  WTypes' /\ Asked'
<1>1. CASE SignInStep
  <2>1. PICK t \in Tab :
          \/ \E a \in Client : HandleAuthorize(t, a)
          \/ \E u \in Member : PickAccount(t, u)
          \/ HandleCallback(t) \/ Interstitial(t) \/ Direct(t) \/ HandleCallbackContinue(t)
          \/ \E i \in Call : ShowIdentity(t, i)
    BY <1>1 DEF SignInStep
  <2>2. CASE Direct(t)
    BY <2>2, GrantAndShut DEF Direct
  <2>. QED BY <2>1, <2>2, HandleAuthorizeStep, PickAccountStep, HandleCallbackStep, InterstitialStep,
              ContinueStep, ShowIdentityStep
<1>2. CASE ConnectorFault
  <2>1. CASE \E t \in Tab : VerifyFails(t)
    <3>1. PICK t \in Tab : VerifyFails(t)
      BY <2>1
    <3>2. tab' \in [Tab -> TabRec] /\ \A v \in Tab : Signing(tab[v])'
      BY <3>1, TabCloses DEF VerifyFails
    <3>. QED BY <3>1, <3>2 DEF VerifyFails, WTypes, Asked, GrantIsWhatWasAsked
  <2>2. CASE \E t \in Tab, goesOn \in BOOLEAN : WithTimeout(t, goesOn)
    BY <2>2, GrantAndShut DEF WithTimeout
  <2>. QED BY <1>2, <2>1, <2>2, CookiesExpireStep, WUntouched DEF ConnectorFault
<1>. QED BY <1>1, <1>2, WUntouched DEF ConnectorNext, ConnectNext, TokensNext, Connected

-----------------------------------------------------------------------------
(* Tokens and grants of agents                                             *)

TTypes == TTypeOK /\ fetch \in [Fetch -> [pc : FetchPc, jti : Jti \cup {Unbound}, late : BOOLEAN, got : SUBSET Grant]]

LEMMA TokensNextStep ==
  ASSUME TTypes, Belated, TokenStep
  PROVE  TTypes' /\ Belated'
<1>0. /\ clock \in 0..MaxClock /\ MaxClock \in Nat
      /\ granted \in [Grant -> [sub : Person \cup {Unbound}, cnf : Agent \cup {Unbound}, until : 0..MaxClock, live : BOOLEAN]]
  BY ScopedTokensAssumption DEF TTypes, TTypeOK
<1>1. CASE Minute
  BY <1>0, <1>1 DEF Minute, TTypes, TTypeOK, Belated
<1>2. CASE ListRevokedMcpJtis
  BY <1>0, <1>2 DEF ListRevokedMcpJtis, TTypes, TTypeOK, Belated
<1>3. CASE \E j \in Jti, u \in Person : RevokeToken(j, u)
  BY <1>0, <1>3 DEF RevokeToken, TTypes, TTypeOK, Belated
<1>4. CASE \E j \in Jti, u \in Person, agent \in Agent \cup {Unbound}, ttl \in Ttls : IssueToken(j, u, agent, ttl)
  BY <1>4 DEF IssueToken, TTypes, TTypeOK, Belated
<1>5. CASE \E u \in Person, batch \in SUBSET Grant, agent \in Agent : PublishGrants(batch, u, agent, MaxClock)
  <2>1. PICK u \in Person, batch \in SUBSET Grant, agent \in Agent : PublishGrants(batch, u, agent, MaxClock)
    BY <1>5
  <2>2. [sub |-> u, cnf |-> agent, until |-> MaxClock, live |-> TRUE]
          \in [sub : Person \cup {Unbound}, cnf : Agent \cup {Unbound}, until : 0..MaxClock, live : BOOLEAN]
    BY <1>0
  <2>3. granted' \in [Grant -> [sub : Person \cup {Unbound}, cnf : Agent \cup {Unbound}, until : 0..MaxClock, live : BOOLEAN]]
    BY <1>0, <2>1, <2>2 DEF PublishGrants, InsertMcpGrants
  <2>. QED BY <2>1, <2>3 DEF PublishGrants, TTypes, TTypeOK, Belated
<1>6. CASE \E u \in Person, target \in SUBSET Grant : RevokeGrants(u, target)
  <2>1. PICK u \in Person, target \in SUBSET Grant : RevokeGrants(u, target)
    BY <1>6
  <2>2. \A r \in [sub : Person \cup {Unbound}, cnf : Agent \cup {Unbound}, until : 0..MaxClock, live : BOOLEAN] :
          [r EXCEPT !.live = FALSE] \in [sub : Person \cup {Unbound}, cnf : Agent \cup {Unbound}, until : 0..MaxClock, live : BOOLEAN]
    OBVIOUS
  <2>3. granted' \in [Grant -> [sub : Person \cup {Unbound}, cnf : Agent \cup {Unbound}, until : 0..MaxClock, live : BOOLEAN]]
    BY <1>0, <2>1, <2>2 DEF RevokeGrants, RevokeMcpGrant
  <2>. QED BY <2>1, <2>3 DEF RevokeGrants, TTypes, TTypeOK, Belated
<1>7. ASSUME NEW f \in Fetch,
             CheckRevoked(f) \/ CheckFails(f) \/ ListActiveGrants(f) \/ Answered(f) \/ \E j \in Jti : FetchGrants(f, j)
      PROVE  TTypes' /\ Belated'
  <2> DEFINE R == [pc : FetchPc, jti : Jti \cup {Unbound}, late : BOOLEAN, got : SUBSET Grant]
  <2>0. fetch[f] \in R /\ (fetch[f].late => fetch[f].pc = "verified" /\ fetch[f].jti \in revoked)
    BY DEF TTypes, Belated
  <2>1. NoFetch \in R /\ ~NoFetch.late
    BY DEF NoFetch, FetchPc
  <2>2. PICK r \in R : fetch' = [fetch EXCEPT ![f] = r] /\ (r.late => r.pc = "verified" /\ r.jti \in revoked)
    <3>1. CASE CheckRevoked(f)
      <4>1. CASE fetch[f].jti \in revoked
        BY <3>1, <4>1, <2>1 DEF CheckRevoked, IsMcpJtiRevoked
      <4>2. CASE fetch[f].jti \notin revoked
        <5>1. fetch' = [fetch EXCEPT ![f] = [fetch[f] EXCEPT !.pc = "checked"]]
          BY <3>1, <4>2 DEF CheckRevoked, IsMcpJtiRevoked
        <5>2. [fetch[f] EXCEPT !.pc = "checked"] \in R /\ ~[fetch[f] EXCEPT !.pc = "checked"].late
          BY <2>0, <4>2 DEF FetchPc
        <5>. QED BY <5>1, <5>2
      <4>. QED BY <4>1, <4>2
    <3>2. CASE CheckFails(f) \/ Answered(f)
      BY <3>2, <2>1 DEF CheckFails, Answered
    <3>3. CASE ListActiveGrants(f)
      <4>1. PICK got \in SUBSET Grant : fetch' = [fetch EXCEPT ![f] = [fetch[f] EXCEPT !.pc = "answered", !.got = got]]
        BY <3>3 DEF ListActiveGrants
      <4>2. [fetch[f] EXCEPT !.pc = "answered", !.got = got] \in R /\ ~[fetch[f] EXCEPT !.pc = "answered", !.got = got].late
        BY <2>0, <3>3 DEF FetchPc, ListActiveGrants
      <4>. QED BY <4>1, <4>2
    <3>4. CASE \E j \in Jti : FetchGrants(f, j)
      <4>1. PICK j \in Jti : FetchGrants(f, j)
        BY <3>4
      <4>2. PICK n \in R : n = NoFetch
        BY <2>1
      <4>2a. PICK b \in BOOLEAN : b = (j \in revoked)
        <5>1. CASE j \in revoked
          <6>1. TRUE = (j \in revoked)
            BY <5>1
          <6>. QED BY <6>1
        <5>2. CASE j \notin revoked
          <6>1. FALSE = (j \in revoked)
            BY <5>2
          <6>. QED BY <6>1
        <5>. QED BY <5>1, <5>2
      <4>3. fetch' = [fetch EXCEPT ![f] = [n EXCEPT !.pc = "verified", !.jti = j, !.late = b]]
        BY <4>1, <4>2, <4>2a, Zenon DEF FetchGrants
      <4>4. PICK r \in R : r = [n EXCEPT !.pc = "verified", !.jti = j, !.late = b]
        BY DEF FetchPc
      <4>5. r.pc = "verified" /\ r.jti = j /\ r.late = b
        BY <4>4
      <4>. QED BY <4>2a, <4>3, <4>4, <4>5
    <3>. QED BY <1>7, <3>1, <3>2, <3>3, <3>4
  <2>3. UNCHANGED <<clock, tokens, revoked, feed, granted>>
    BY <1>7 DEF CheckRevoked, CheckFails, ListActiveGrants, Answered, FetchGrants
  <2>. QED BY <2>2, <2>3 DEF TTypes, TTypeOK, Belated
<1>. QED BY <1>1, <1>2, <1>3, <1>4, <1>5, <1>6, <1>7 DEF TokenStep


-----------------------------------------------------------------------------
(* The invariant and what follows from it                                  *)

\* Nothing is held, shown, asked for or granted before the first step, but for grants
\* without a client.
LEMMA ConnectorBegins == ConnectorInit => IInv
<1>. SUFFICES ASSUME ConnectorInit
              PROVE  IInv
  OBVIOUS
<1>0. MaxKey \in Nat /\ MaxFlows \in Nat /\ MaxClock \in Nat
  BY CustodyAssumption, ConnectorAssumption, ScopedTokensAssumption
<1>1. CTypes /\ CallKnown
  <2>1. \A i \in Call : request[i] = NoCall
    BY DEF ConnectorInit, CInit
  <2>2. request \in [Call -> CallRec]
    BY NoCallKnown DEF ConnectorInit, CInit
  <2>. QED BY <1>0, <2>1, <2>2, NoCallKnown DEF ConnectorInit, CInit, CTypes, CTypeOK, CallKnown
<1>2. OneSlot /\ Steady
  <2>1. \A s \in Slot, k \in Key : ~Holds(s, k)
    BY <1>0, NoCallKnown DEF ConnectorInit, CInit, Holds, Key
  <2>. QED BY <2>1, NoCallKnown DEF ConnectorInit, CInit, OneSlot, Steady
<1>3. WTypes /\ Asked
  <2>1. /\ grants \subseteq [user : Member, ai : Client, named : BOOLEAN] /\ \A g \in grants : ~g.named
        /\ flows \in 0..MaxFlows
    <3>1. PICK u \in Member : grants \in {{}, {[user |-> u, ai |-> a, named |-> FALSE] : a \in Client}}
      BY DEF ConnectorInit
    <3>2. ASSUME NEW g \in grants
          PROVE  g \in [user : Member, ai : Client, named : BOOLEAN] /\ ~g.named
      <4>1. PICK a \in Client : g = [user |-> u, ai |-> a, named |-> FALSE]
        BY <3>1
      <4>. QED BY <4>1
    <3>3. flows \in 0..MaxFlows
      BY <1>0, ConnectorAssumption DEF ConnectorInit
    <3>. QED BY <3>2, <3>3
  <2>2. Signing(NewTab)
    BY <1>0, <2>1, ClosedTab DEF Signing
  <2>3. tab \in [Tab -> TabRec] /\ \A t \in Tab : tab[t] = NewTab
    BY ClosedTab DEF ConnectorInit
  <2>. QED BY <1>0, <2>1, <2>2, <2>3, ClosedTab DEF ConnectorInit, WTypes, Asked, GrantIsWhatWasAsked
<1>4. TTypes /\ Belated
  <2>1. NoGrant \in [sub : Person \cup {Unbound}, cnf : Agent \cup {Unbound}, until : 0..MaxClock, live : BOOLEAN]
    BY <1>0 DEF NoGrant
  <2>2. NoFetch \in [pc : FetchPc, jti : Jti \cup {Unbound}, late : BOOLEAN, got : SUBSET Grant] /\ ~NoFetch.late
    BY DEF NoFetch, FetchPc
  <2>. QED BY <1>0, <2>1, <2>2 DEF ConnectorInit, TInit, TTypes, TTypeOK, Belated
<1>. QED BY <1>1, <1>2, <1>3, <1>4 DEF IInv, Shape, ConnectorTypeOK, CTypes, WTypes, TTypes

\* Calls, tabs and tokens keep their parts of the invariant, each by its own lemmas.
LEMMA Step ==
  ASSUME IInv, [ConnectorNext]_connectorVars
  PROVE  IInv'
<1>1. CTypes /\ CallKnown /\ OneSlot /\ Steady /\ WTypes /\ Asked /\ TTypes /\ Belated
  BY DEF IInv, Shape, ConnectorTypeOK, CTypes, WTypes, TTypes
<1>2. CTypes' /\ CallKnown' /\ OneSlot' /\ Steady'
  <2>1. CASE UNCHANGED <<rows, made, shown, contested, request>>
    BY <1>1, <2>1 DEF CTypes, CTypeOK, CallKnown, OneSlot, Holds, SlotOf, Steady
  <2>2. CASE \E i \in Call : CallMoves(i)
    BY <1>1, <2>2, CallTypes, OneSlotStep, SteadyStep
  <2>3. CASE ConnectorNext
    BY <1>1, <2>1, <2>2, <2>3, OneCallMoves DEF IInv
  <2>. QED BY <2>1, <2>3 DEF connectorVars, cvars
<1>3. WTypes' /\ Asked'
  BY <1>1, SignInNext, WUntouched DEF connectorVars
<1>4. TTypes' /\ Belated'
  <2>1. CASE UNCHANGED tvars
    BY <1>1, <2>1 DEF tvars, TTypes, TTypeOK, Belated
  <2>2. CASE TokensNext
    BY <1>1, <2>2, TokensNextStep DEF TokensNext
  <2>3. CASE ConnectNext
    BY <2>1, <2>3 DEF ConnectNext
  <2>. QED BY <2>1, <2>2, <2>3 DEF ConnectorNext, connectorVars
<1>. QED BY <1>2, <1>3, <1>4 DEF IInv, Shape, ConnectorTypeOK, CTypes, WTypes, TTypes

LEMMA Invariant == ConnectorSpec => []IInv
<1>1. IInv /\ [ConnectorNext]_connectorVars => IInv'
  BY Step
<1>. QED BY ConnectorBegins, <1>1, PTL DEF ConnectorSpec

\* The connector's variables keep their types.
THEOREM TypeCorrect == ConnectorSpec => []ConnectorTypeOK
<1>1. IInv => ConnectorTypeOK
  BY DEF IInv, Shape
<1>. QED BY Invariant, <1>1, PTL

\* Two AIs are never shown one key: a key is held for one user and one client only, and the
\* client of a grant is its AI (mcp.ts, resolveClientId; custody.ts, isValidClientId).
THEOREM KeysApart == ConnectorSpec => []EachItsOwn
<1>1. ASSUME IInv
      PROVE  EachItsOwn
  <2>. SUFFICES ASSUME NEW x \in shown, NEW y \in shown, x.key = y.key
                PROVE  x.user = y.user /\ x.ai = y.ai
    BY DEF EachItsOwn
  <2>1. x.key \in Key /\ <<x.user, x.client>> \in Slot /\ <<y.user, y.client>> \in Slot
    BY <1>1 DEF IInv, Shape, ConnectorTypeOK, CTypeOK, Slot
  <2>2. Holds(<<x.user, x.client>>, x.key) /\ Holds(<<y.user, y.client>>, x.key)
    BY DEF Holds
  <2>3. <<x.user, x.client>> = <<y.user, y.client>>
    BY <1>1, <2>1, <2>2 DEF IInv, OneSlot
  <2>. QED BY <1>1, <2>3 DEF IInv, OneSlot
<1>. QED BY Invariant, <1>1, PTL

\* A FULA-id that was shown stays the AI's, whatever OpenBao does, where no two first calls
\* overlapped (capability.ts, handleCollabConnection).
THEOREM ShownForGood == ConnectorSpec => []ShownStands
<1>1. ASSUME IInv
      PROVE  ShownStands
  <2>. SUFFICES ASSUME NEW x \in shown, <<x.user, x.client>> \notin contested
                PROVE  rows[<<x.user, x.client>>] = x.key
    BY DEF ShownStands
  <2>1. <<x.user, x.client>> \in Slot
    BY <1>1 DEF IInv, Shape, ConnectorTypeOK, CTypeOK, Slot
  <2>. QED BY <1>1, <2>1 DEF IInv, Steady
<1>. QED BY Invariant, <1>1, PTL

\* An AI is granted an account only after that account was picked for it, whatever the tabs
\* do with their shared cookies (google.ts, handleCallback).
THEOREM GrantsAsAsked == ConnectorSpec => []GrantIsWhatWasAsked
<1>1. IInv => GrantIsWhatWasAsked
  BY DEF IInv, Asked
<1>. QED BY Invariant, <1>1, PTL

\* A token that was revoked before its request came opens no grant (app.ts, GET /api/mcp/grants).
THEOREM RevokedOpensNothing == ConnectorSpec => []RevokedGetsNothing
<1>1. IInv => RevokedGetsNothing
  BY DEF IInv, Belated, RevokedGetsNothing
<1>. QED BY Invariant, <1>1, PTL
=============================================================================
