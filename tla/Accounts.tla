------------------------------ MODULE Accounts ------------------------------
(***************************************************************************)
(* Accounts of the web UI: sign-in with Google or Apple (mode A) and with  *)
(* a recovery phrase (modes B and C), the cookie sessions and the sign-in  *)
(* challenges the process keeps in memory, the API keys and the `sessions` *)
(* rows through which the pinning service accepts them, referral codes and *)
(* the deletion of a profile.                                              *)
(*                                                                         *)
(* A handler is a sequence of statements, each committed on its own: a     *)
(* step is one write with the reads that follow it, up to the next write.  *)
(* A browser makes one request at a time.  Names, pictures, e-mails and    *)
(* statistics are left out; what Google, Apple and Ed25519 verify is taken *)
(* as verified.                                                            *)
(***************************************************************************)
EXTENDS Integers, FiniteSets, Sequences

CONSTANTS
  Browser,
  Oauth,       \* users of mode A: SHA-256 of the e-mail address
  Vault, ModeB, \* users of modes B and C: effective_user_id; those of mode B
  PubKey,      \* Ed25519 public keys
  ApiKey,      \* JWTs with their random jti, in the order they are made
  Code,        \* referral codes, likewise
  Nonce,       \* challenges, likewise
  Start,       \* users who may have signed in before, each once
  MaxCodes,    \* 10 codes a user
  MaxCalls, MaxFaults, \* bounds: requests; restarts, failed statements, lost answers, expiries
  NoUser, NoKey,
  Unmade       \* owner of a code that has not been made yet

User == Oauth \cup Vault

ASSUME AccountsAssumption ==
  /\ ApiKey \subseteq Nat \ {0} /\ Code \subseteq Nat \ {0} /\ Nonce \subseteq Nat \ {0}
  /\ ModeB \subseteq Vault /\ Oauth \cap Vault = {} /\ NoUser \notin User /\ Unmade \notin User /\ Unmade # NoUser
  /\ NoKey \notin PubKey
  /\ IsFiniteSet(User)
  /\ Start \in Seq(Oauth) /\ \A i, j \in 1..Len(Start) : Start[i] = Start[j] => i = j
  /\ 1..Len(Start) \subseteq ApiKey \cap Code
  /\ MaxCodes \in Nat /\ MaxCalls \in Nat /\ MaxFaults \in Nat

VARIABLES
  account,    \* webui_users
  listed,     \* api_keys: absent, live or deleted
  sessions,   \* the keys the pinning service accepts
  owner,      \* the sub of each JWT made
  codeOwner,  \* referral_codes
  default,    \* the codes with is_default
  referral,   \* referrals, by referred_id: the referrer and the code
  seedKey,    \* seed_users
  challenge,  \* ChallengeStore
  cookie,     \* express-session, by browser
  stored,     \* localStorage: the referral code of the first link followed
  recorded,   \* vaults whose recovery phrase their owner has written down
  page,       \* the vault whose phrase a browser shows or has been given
  call,       \* the request of each browser
  calls, faults,
  \* History, read by the properties only:
  torn,       \* keys whose creation or deletion a fault cut in two
  raced,      \* keys deleted while the request that makes them was running,
              \* or made while their owner's profile was being deleted
  issued,     \* the challenges issued so far
  spent,      \* how many requests each challenge let through
  proof,      \* the public key with which a vault's cookie was earned
  overlap     \* two sign-ins were about to link a referral at once

keys   == <<listed, sessions, owner, torn, raced>>
codes  == <<codeOwner, default, referral, overlap>>
seeds  == <<seedKey, challenge, issued, spent>>
cookies == <<cookie, proof>>
client == <<stored, recorded, page>>
vars   == <<account, keys, codes, seeds, cookies, client, call, calls, faults>>

NoRef == [by |-> NoUser, code |-> 0]
None  == [nonce |-> 0, purpose |-> "none"]
Purpose == {"sign-in", "register-mode-b", "register-mode-c"}

NoProof == [signed |-> [purpose |-> "none", vault |-> NoUser, nonce |-> 0], by |-> NoKey]

Idle == [op |-> "none", pc |-> "idle", user |-> NoUser, code |-> 0, by |-> NoUser,
         key |-> 0, pub |-> NoKey, proof |-> NoProof, isNew |-> FALSE, signed |-> FALSE,
         made |-> {}, open |-> {}, rows |-> {}, codes |-> {}]

\* Accounts as complete sign-ins leave them, a key the pinning service
\* accepts and a default code each, and the browsers still signed in.
Init ==
  /\ \E n \in 0..Len(Start) :
       LET First(i) == IF i <= n THEN Start[i] ELSE NoUser
           A        == {Start[i] : i \in 1..n}
       IN  /\ account = A
           /\ owner = [k \in ApiKey |-> First(k)]
           /\ listed = [k \in ApiKey |-> IF k <= n THEN "live" ELSE "absent"]
           /\ sessions = 1..n
           /\ codeOwner = [c \in Code |-> IF c <= n THEN Start[c] ELSE Unmade]
           /\ default = 1..n
           /\ cookie \in [Browser -> A \cup {NoUser}]
  /\ referral = [u \in User |-> NoRef]
  /\ seedKey = [v \in Vault |-> NoKey]
  /\ challenge = [v \in Vault |-> None]
  /\ stored = [b \in Browser |-> 0]
  /\ recorded = {} /\ page = [b \in Browser |-> NoUser]
  /\ call = [b \in Browser |-> Idle]
  /\ calls = 0 /\ faults = 0
  /\ torn = {} /\ raced = {}
  /\ issued = 0 /\ spent = [n \in Nonce |-> 0]
  /\ proof = [b \in Browser |-> NoKey]
  /\ overlap = FALSE

-----------------------------------------------------------------------------
(* Requests                                                                *)

At(b, pc)   == call[b].pc = pc
Goto(b, pc) == call' = [call EXCEPT ![b].pc = pc]
Me(b) == call[b].user

Arrives(b, r) ==
  /\ At(b, "idle") /\ calls < MaxCalls
  /\ calls' = calls + 1
  /\ call' = [call EXCEPT ![b] = r]

\* An authenticated request: requireAuth reads the cookie's session.
SignedIn(b, r) == cookie[b] # NoUser /\ Arrives(b, [r EXCEPT !.user = cookie[b]])

\* An error is answered.  The sign-in with Google or Apple has set
\* req.session.user before it looks for a key: its cookie is good all the same.
Over(b) ==
  /\ call' = [call EXCEPT ![b] = Idle]
  /\ cookie' = IF call[b].signed THEN [cookie EXCEPT ![b] = Me(b)] ELSE cookie
  /\ UNCHANGED proof

-----------------------------------------------------------------------------
(* API keys                                                                *)

KeysOf(u) == {k \in ApiKey : listed[k] # "absent" /\ owner[k] = u}
Live(u)   == {k \in ApiKey : listed[k] = "live" /\ owner[k] = u}
Newest(S) == CHOOSE k \in S : \A i \in S : i <= k
Unused(k) == owner[k] = NoUser /\ \A i \in ApiKey : i < k => owner[i] # NoUser

\* INSERT INTO api_keys, whose user_id references webui_users.
InsertKey(b, pc) ==
  /\ \E k \in ApiKey :
       /\ Unused(k)
       /\ IF Me(b) \in account
          THEN /\ owner' = [owner EXCEPT ![k] = Me(b)]
               /\ listed' = [listed EXCEPT ![k] = "live"]
               /\ call' = [call EXCEPT ![b].pc = pc, ![b].key = k]
               /\ UNCHANGED cookies
          ELSE Over(b) /\ UNCHANGED <<owner, listed>>
  /\ UNCHANGED <<account, sessions, torn, raced, codes, seeds, client, calls, faults>>

\* INSERT INTO sessions: no foreign key.
InsertSession(b, pc) ==
  /\ sessions' = sessions \cup {call[b].key}
  /\ Goto(b, pc)
  /\ UNCHANGED <<account, listed, owner, torn, raced, codes, seeds, cookies, client,
                 calls, faults>>

\* getOrCreateActiveApiKey.
ActiveKey(b) ==
  /\ At(b, "activeKey")
  /\ LET r == [call[b] EXCEPT !.signed = call[b].op = "login"]
         S == Live(Me(b))
     IN  call' = [call EXCEPT ![b] =
           IF S # {} THEN [r EXCEPT !.pc = "answer", !.key = Newest(S)]
           ELSE [r EXCEPT !.pc = "newKey"]]
  /\ UNCHANGED <<account, keys, codes, seeds, cookies, client, calls, faults>>

\* createApiKey: two statements.
CreateKey(b) == At(b, "newKey") /\ InsertKey(b, "keySession")
KeySession(b) == At(b, "keySession") /\ InsertSession(b, "answer")

PostKey(b) ==
  /\ SignedIn(b, [Idle EXCEPT !.op = "key", !.pc = "newKey"])
  /\ UNCHANGED <<account, keys, codes, seeds, cookies, client, faults>>
GetActiveKey(b) ==
  /\ SignedIn(b, [Idle EXCEPT !.op = "key", !.pc = "activeKey"])
  /\ UNCHANGED <<account, keys, codes, seeds, cookies, client, faults>>

\* Keys that a request has listed and not entered in `sessions` yet.
BeingMade == {call[b].key : b \in {x \in Browser : call[x].pc \in {"keySession", "userSession"}}}

\* deleteApiKey: the UPDATE, then the DELETE, whatever the UPDATE found.
DeleteKey(b, k) ==
  /\ owner[k] = cookie[b]
  /\ SignedIn(b, [Idle EXCEPT !.op = "delete", !.pc = "dropSession", !.key = k])
  /\ listed' = IF listed[k] = "live" THEN [listed EXCEPT ![k] = "deleted"] ELSE listed
  /\ raced' = raced \cup (BeingMade \cap {k})
  /\ UNCHANGED <<account, sessions, owner, torn, codes, seeds, cookies, client, faults>>

\* Mutant: the key leaves the list and stays in `sessions`.
KeepSession(b) ==
  /\ At(b, "dropSession") /\ Over(b)
  /\ UNCHANGED <<account, keys, codes, seeds, client, calls, faults>>

DropSession(b) ==
  /\ At(b, "dropSession") /\ Over(b)
  /\ sessions' = sessions \ {call[b].key}
  /\ UNCHANGED <<account, listed, owner, torn, raced, codes, seeds, client, calls, faults>>

-----------------------------------------------------------------------------
(* Referral codes and the referral graph                                   *)

CodesOf(u)  == {c \in Code : codeOwner[c] = u}
Referrer(c) == IF c = 0 THEN NoUser ELSE codeOwner[c]
Referred(c) == {u \in User : referral[u].code = c}

\* u and everyone above u in the referral graph.
Up(u) ==
  LET up[n \in Nat] == IF n = 0 THEN {u}
                       ELSE up[n-1] \cup ({referral[w].by : w \in up[n-1]} \ {NoUser})
  IN  up[Cardinality(User)]

\* The code is someone else's, of whom u is no ancestor.
MayLink(u, c) == Referrer(c) \in User \ {u} /\ u \notin Up(Referrer(c))

\* What is left of getOrCreateWebuiUser: the referral, or nothing.
Linking(r) ==
  IF MayLink(r.user, r.code) THEN [r EXCEPT !.pc = "link", !.by = Referrer(r.code)]
  ELSE [r EXCEPT !.pc = "activeKey"]

\* What getOrCreateWebuiUser finds for a user who exists.
Existing(r) == IF referral[r.user] = NoRef THEN Linking(r) ELSE [r EXCEPT !.pc = "activeKey"]

\* INSERT INTO referral_codes, whose user_id references webui_users.
InsertCode(b, isDefault, r) ==
  /\ \E c \in Code :
       /\ codeOwner[c] = Unmade /\ \A d \in Code : d < c => codeOwner[d] # Unmade
       /\ IF Me(b) \in account
          THEN /\ codeOwner' = [codeOwner EXCEPT ![c] = Me(b)]
               /\ default' = IF isDefault THEN default \cup {c} ELSE default
               /\ call' = [call EXCEPT ![b] = r] /\ UNCHANGED cookies
          ELSE Over(b) /\ UNCHANGED <<codeOwner, default>>
  /\ UNCHANGED <<account, keys, referral, overlap, seeds, client, calls, faults>>

\* GET /api/referral makes a default code for who has none.
GetReferral(b) ==
  /\ CodesOf(cookie[b]) = {}
  /\ SignedIn(b, [Idle EXCEPT !.op = "codes", !.pc = "defaultCode"])
  /\ UNCHANGED <<account, keys, codes, seeds, cookies, client, faults>>
DefaultCode(b) == At(b, "defaultCode") /\ InsertCode(b, TRUE, Idle)

\* createUserReferralCode: the count, then the INSERT.
PostCode(b) ==
  /\ Cardinality(CodesOf(cookie[b])) < MaxCodes
  /\ SignedIn(b, [Idle EXCEPT !.op = "codes", !.pc = "namedCode"])
  /\ UNCHANGED <<account, keys, codes, seeds, cookies, client, faults>>
NamedCode(b) == At(b, "namedCode") /\ InsertCode(b, FALSE, Idle)

\* deleteUserReferralCode: three checks, then the DELETE.
DeleteCode(b, c) ==
  /\ c \in CodesOf(cookie[b]) \ default
  /\ Referred(c) = {} /\ Cardinality(CodesOf(cookie[b])) > 1
  /\ SignedIn(b, [Idle EXCEPT !.op = "codes", !.pc = "dropCode", !.code = c])
  /\ UNCHANGED <<account, keys, codes, seeds, cookies, client, faults>>

\* referrals.referral_code references referral_codes: a code that has earned
\* a referral since the check stays.
DropCode(b) ==
  /\ At(b, "dropCode")
  /\ codeOwner' = IF Referred(call[b].code) = {}
                  THEN [codeOwner EXCEPT ![call[b].code] = NoUser] ELSE codeOwner
  /\ call' = [call EXCEPT ![b] = Idle]
  /\ UNCHANGED <<account, keys, default, referral, overlap, seeds, cookies, client,
                 calls, faults>>

-----------------------------------------------------------------------------
(* Sign-in with Google or Apple: getOrCreateWebuiUser                      *)

\* The page sends the code of the first referral link it was opened with.
LinkCodes(b) ==
  IF stored[b] # 0 THEN {stored[b]} ELSE {0} \cup {c \in Code : codeOwner[c] \in User}

\* Mutant: an existing user is linked whoever is above the referrer.
LinkUnguarded(b, u, c) ==
  /\ cookie[b] = NoUser /\ c \in LinkCodes(b)
  /\ stored' = [stored EXCEPT ![b] = c]
  /\ LET r == [Idle EXCEPT !.op = "login", !.user = u, !.code = c, !.by = Referrer(c),
                           !.isNew = u \notin account]
     IN  Arrives(b, [r EXCEPT !.pc = IF u \notin account THEN "newUser"
                                     ELSE IF referral[u] = NoRef /\ r.by \in User \ {u}
                                     THEN "link" ELSE "activeKey"])
  /\ UNCHANGED <<account, keys, codes, seeds, cookies, recorded, page, faults>>

\* Who has an account is linked if no referral is there yet.
Login(b, u, c) ==
  /\ cookie[b] = NoUser /\ c \in LinkCodes(b)
  /\ stored' = [stored EXCEPT ![b] = c]
  /\ LET r == [Idle EXCEPT !.op = "login", !.user = u, !.code = c, !.isNew = u \notin account]
     IN  Arrives(b, IF u \notin account THEN [r EXCEPT !.pc = "newUser"]
                    ELSE Existing(r))
  /\ UNCHANGED <<account, keys, codes, seeds, cookies, recorded, page, faults>>

\* A second sign-in may have inserted the row since: the sign-in fails.
NewUser(b) ==
  /\ At(b, "newUser")
  /\ IF Me(b) \in account THEN Over(b) /\ UNCHANGED account
     ELSE account' = account \cup {Me(b)} /\ Goto(b, "userKey") /\ UNCHANGED cookies
  /\ UNCHANGED <<keys, codes, seeds, client, calls, faults>>

UserKey(b) == At(b, "userKey") /\ InsertKey(b, "userSession")
UserSession(b) == At(b, "userSession") /\ InsertSession(b, "userCode")
UserCode(b) == At(b, "userCode") /\ InsertCode(b, TRUE, Linking(call[b]))

\* INSERT INTO referrals ON CONFLICT DO NOTHING; referrer, referred and code
\* are foreign keys.
Link(b) ==
  /\ At(b, "link")
  /\ LET u == Me(b)
         r == [by |-> call[b].by, code |-> call[b].code]
     IN  CASE referral[u] # NoRef -> Goto(b, "activeKey") /\ UNCHANGED <<referral, cookies>>
           [] referral[u] = NoRef /\ {u, r.by} \subseteq account /\ codeOwner[r.code] = r.by ->
                referral' = [referral EXCEPT ![u] = r] /\ Goto(b, "activeKey") /\ UNCHANGED cookies
           [] OTHER -> Over(b) /\ UNCHANGED referral
  /\ overlap' = (overlap \/ \E x \in Browser \ {b} : At(x, "link"))
  /\ UNCHANGED <<account, keys, codeOwner, default, seeds, client, calls, faults>>

Logout(b) ==
  /\ cookie[b] # NoUser /\ At(b, "idle")
  /\ cookie' = [cookie EXCEPT ![b] = NoUser]
  /\ UNCHANGED <<account, keys, codes, seeds, proof, client, call, calls, faults>>

-----------------------------------------------------------------------------
(* Deletion of a profile: one transaction                                  *)

\* DELETE FROM sessions: each statement deletes the rows that are committed
\* when it runs, and nothing locks the user.  `made` is read by the
\* properties only: the keys whose making was over by then.
DeleteProfile(b) ==
  LET u == cookie[b]
  IN  /\ SignedIn(b, [Idle EXCEPT !.op = "erase", !.pc = "eraseKeys", !.made = KeysOf(u) \ BeingMade,
                                  !.open = {k \in sessions : owner[k] = u}])
      /\ UNCHANGED <<account, keys, codes, seeds, cookies, client, faults>>

\* DELETE FROM api_keys.
EraseKeys(b) ==
  /\ At(b, "eraseKeys")
  /\ call' = [call EXCEPT ![b].pc = "eraseCodes", ![b].rows = KeysOf(Me(b))]
  /\ UNCHANGED <<account, keys, codes, seeds, cookies, client, calls, faults>>

\* DELETE FROM referral_codes: a code that earned a referral stops it.
EraseCodes(b) ==
  /\ At(b, "eraseCodes")
  /\ call' = [call EXCEPT ![b] = IF \E c \in CodesOf(Me(b)) : Referred(c) # {} THEN Idle
                                ELSE [@ EXCEPT !.pc = "erase", !.codes = CodesOf(Me(b))]]
  /\ UNCHANGED <<account, keys, codes, seeds, cookies, client, calls, faults>>

\* The DELETE of webui_users, refused while any row refers to it, and COMMIT;
\* then this browser's session is destroyed, and no other.
Erase(b) ==
  /\ At(b, "erase")
  /\ call' = [call EXCEPT ![b] = Idle]
  /\ LET u == Me(b)
     IN  IF /\ KeysOf(u) \subseteq call[b].rows /\ CodesOf(u) \subseteq call[b].codes
            /\ \A w \in User : referral[w] # NoRef => u \notin {w, referral[w].by}
         THEN /\ account' = account \ {u}
              /\ listed' = [k \in ApiKey |-> IF k \in call[b].rows THEN "absent" ELSE listed[k]]
              /\ sessions' = sessions \ call[b].open
              /\ codeOwner' = [c \in Code |-> IF codeOwner[c] = u THEN NoUser ELSE codeOwner[c]]
              /\ default' = default \ call[b].codes
              /\ cookie' = [cookie EXCEPT ![b] = NoUser]
              /\ raced' = raced \cup (call[b].rows \ call[b].made)
         ELSE UNCHANGED <<account, listed, sessions, codeOwner, default, cookie, raced>>
  /\ UNCHANGED <<owner, torn, referral, overlap, seeds, proof, client, calls, faults>>

-----------------------------------------------------------------------------
(* Vaults: challenges, signatures and registration                         *)

\* What is signed, by the client and again by the server.
Transcript(purpose, v, n)    == [purpose |-> purpose, vault |-> v, nonce |-> n]
Proof(purpose, v, n, pub)    == [signed |-> Transcript(purpose, v, n), by |-> pub]
Verifies(pub, t, sig)        == sig.signed = t /\ sig.by = pub

\* takeIfValid: a challenge for another purpose stays, any other is used up.
TakeIfValid(v, purpose) ==
  challenge' = IF challenge[v].purpose = purpose THEN [challenge EXCEPT ![v] = None] ELSE challenge

\* POST /auth/challenge: of each vault the last challenge counts.
IssueChallenge(b, v, purpose) ==
  /\ cookie[b] = NoUser
  /\ purpose = "sign-in" => seedKey[v] # NoKey
  /\ issued + 1 \in Nonce
  /\ \E pub \in PubKey :
       Arrives(b, [Idle EXCEPT !.op = purpose, !.pc = "challenge", !.user = v, !.pub = pub,
                               !.proof = Proof(purpose, v, issued + 1, pub)])
  /\ challenge' = [challenge EXCEPT ![v] = [nonce |-> issued + 1, purpose |-> purpose]]
  /\ issued' = issued + 1
  /\ UNCHANGED <<account, keys, codes, seedKey, spent, cookies, stored, recorded, faults>>

\* Mutant: a challenge is looked up and left in the store.
TakeAndKeep(b, pc) ==
  /\ At(b, "challenge")
  /\ LET r == call[b]
         n == r.proof.signed.nonce
     IN  IF challenge[Me(b)] = [nonce |-> n, purpose |-> r.op]
         THEN Goto(b, pc) /\ spent' = [spent EXCEPT ![n] = @ + 1] /\ UNCHANGED cookies
         ELSE Over(b) /\ UNCHANGED spent
  /\ UNCHANGED <<account, keys, codes, seedKey, challenge, issued, client, calls, faults>>

\* The challenge is taken before it is compared with the one the client
\* signed, so that a request with an older one uses it up.
TakeChallenge(b, pc) ==
  /\ At(b, "challenge")
  /\ LET r == call[b]
         n == r.proof.signed.nonce
     IN  /\ TakeIfValid(Me(b), r.op)
         /\ IF challenge[Me(b)] = [nonce |-> n, purpose |-> r.op]
            THEN Goto(b, pc) /\ spent' = [spent EXCEPT ![n] = @ + 1] /\ UNCHANGED cookies
            ELSE Over(b) /\ UNCHANGED spent
  /\ UNCHANGED <<account, keys, codes, seedKey, issued, client, calls, faults>>

\* Google or Apple verify the token that came with the request, or do not.
VerifyOAuth(b) ==
  /\ At(b, "oauth")
  /\ (Goto(b, "store") /\ UNCHANGED cookies) \/ Over(b)
  /\ UNCHANGED <<account, keys, codes, seeds, client, calls, faults>>

\* Mutant: INSERT ... ON CONFLICT DO UPDATE SET public_key.
Rebind(b) ==
  /\ At(b, "store")
  /\ seedKey' = [seedKey EXCEPT ![Me(b)] = call[b].pub]
  /\ account' = account \cup {Me(b)} /\ Goto(b, "activeKey")
  /\ UNCHANGED <<keys, codes, challenge, issued, spent, cookies, client, calls, faults>>

\* One transaction: insertOrAssertSeedUser and the upsert of webui_users.
StoreSeedUser(b) ==
  /\ At(b, "store")
  /\ LET v == Me(b)
     IN  IF seedKey[v] \in {NoKey, call[b].pub}
         THEN /\ seedKey' = [seedKey EXCEPT ![v] = call[b].pub]
              /\ account' = account \cup {v}
              /\ Goto(b, "activeKey") /\ UNCHANGED cookies
         ELSE Over(b) /\ UNCHANGED <<account, seedKey>>
  /\ UNCHANGED <<keys, codes, challenge, issued, spent, client, calls, faults>>

\* The key that is registered is the one that signed.
Signed(b) == Verifies(call[b].pub, Transcript(call[b].op, Me(b), call[b].proof.signed.nonce), call[b].proof)

RegisterModeB(b) ==
  /\ call[b].op = "register-mode-b"
  /\ (Signed(b) /\ TakeChallenge(b, "oauth")) \/ VerifyOAuth(b) \/ StoreSeedUser(b)

RegisterModeC(b) ==
  /\ call[b].op = "register-mode-c"
  /\ (Signed(b) /\ TakeChallenge(b, "store")) \/ StoreSeedUser(b)

\* /auth/sign-in: the registered key must have signed.  The JWT is fresh, and
\* in no table.
LookUpKey(b) ==
  /\ At(b, "lookup")
  /\ IF seedKey[Me(b)] = call[b].proof.by THEN Goto(b, "answer") /\ UNCHANGED cookies ELSE Over(b)
  /\ UNCHANGED <<account, keys, codes, seeds, client, calls, faults>>
SignIn(b) == call[b].op = "sign-in" /\ (TakeChallenge(b, "lookup") \/ LookUpKey(b))

-----------------------------------------------------------------------------
(* Vaults: the pages                                                       *)

\* CreateFlow: 24 random words are shown, and the owner writes them down.
ShowPhrase(b, v) ==
  /\ page[b] = NoUser /\ cookie[b] = NoUser /\ At(b, "idle") /\ calls < MaxCalls
  /\ v \notin recorded /\ \A x \in Browser : page[x] # v
  /\ page' = [page EXCEPT ![b] = v]
  /\ UNCHANGED <<account, keys, codes, seeds, cookies, stored, recorded, call, calls, faults>>

WriteDown(b) ==
  /\ page[b] \notin recorded \cup {NoUser} /\ At(b, "idle")
  /\ recorded' = recorded \cup {page[b]}
  /\ UNCHANGED <<account, keys, codes, seeds, cookies, stored, page, call, calls, faults>>

\* Three of the words are asked for before the vault is registered.
VerifyPhrase(b, v) ==
  /\ page[b] = v /\ v \in recorded
  /\ IssueChallenge(b, v, "register-mode-c") /\ UNCHANGED page

\* RestorePanel: the owner types the phrase.
RestorePhrase(b, v) ==
  /\ page[b] = NoUser /\ v \in recorded
  /\ IssueChallenge(b, v, "register-mode-c") /\ UNCHANGED page

ModeCPage(b) ==
  \/ WriteDown(b)
  \/ \E v \in Vault \ ModeB : ShowPhrase(b, v) \/ VerifyPhrase(b, v) \/ RestorePhrase(b, v)

\* ModeBSignup: signing up and coming back are the same request.
ModeBPage(b) ==
  \E v \in ModeB : page[b] = NoUser /\ IssueChallenge(b, v, "register-mode-b") /\ UNCHANGED page

\* Clients other than the web UI: FxFiles signs in with what it kept.
AppSignIn(b) ==
  \E v \in Vault : page[b] = NoUser /\ IssueChallenge(b, v, "sign-in") /\ UNCHANGED page

-----------------------------------------------------------------------------
(* Answers and faults                                                      *)

\* The answer with the key: the browser has the cookie, and forgets the
\* referral code once it has served a new user.
Answer(b) ==
  /\ At(b, "answer")
  /\ LET r == call[b]
     IN  /\ cookie' = IF r.op \in {"login", "register-mode-b", "register-mode-c"} THEN [cookie EXCEPT ![b] = r.user] ELSE cookie
         /\ proof' = IF r.op \in {"register-mode-b", "register-mode-c"} THEN [proof EXCEPT ![b] = r.pub] ELSE proof
         /\ stored' = IF r.isNew THEN [stored EXCEPT ![b] = 0] ELSE stored
  /\ page' = [page EXCEPT ![b] = NoUser]
  /\ call' = [call EXCEPT ![b] = Idle]
  /\ UNCHANGED <<account, keys, codes, seeds, recorded, calls, faults>>

Fault == faults < MaxFaults /\ faults' = faults + 1

\* ChallengeStore: a challenge lives 60 seconds.
Expire(v) ==
  /\ Fault /\ challenge[v] # None
  /\ challenge' = [challenge EXCEPT ![v] = None]
  /\ UNCHANGED <<account, keys, codes, seedKey, issued, spent, cookies, client, call, calls>>

\* Keys that B's requests have written in one of two tables.
Halves(B) == {call[b].key : b \in {x \in B : call[x].pc \in {"userSession", "keySession", "dropSession"}}}

\* The answer never comes; the client of a vault sends what it signed again.
LoseAnswer(b) ==
  /\ Fault /\ At(b, "answer")
  /\ call' = [call EXCEPT ![b] =
       IF call[b].op \in Purpose THEN [@ EXCEPT !.pc = "challenge", !.key = 0]
       ELSE Idle]
  /\ UNCHANGED <<account, keys, codes, seeds, cookies, client, calls>>

\* A statement fails; the deletion of a profile rolls back.
StatementFails(b) ==
  /\ Fault /\ call[b].pc \notin {"idle", "challenge", "answer"}
  /\ Over(b)
  /\ torn' = torn \cup Halves({b})
  /\ UNCHANGED <<account, listed, sessions, owner, raced, codes, seeds, client, calls>>

\* Sessions and challenges are in the memory of the process.
Restart ==
  /\ Fault
  /\ cookie' = [b \in Browser |-> NoUser]
  /\ challenge' = [v \in Vault |-> None]
  /\ call' = [b \in Browser |-> IF At(b, "challenge") THEN call[b] ELSE Idle]
  /\ torn' = torn \cup Halves(Browser)
  /\ UNCHANGED <<account, listed, sessions, owner, raced, codes, seedKey, issued, spent,
                 proof, client, calls>>

-----------------------------------------------------------------------------

ApiKeysPage(b)   == PostKey(b) \/ \E k \in ApiKey : DeleteKey(b, k)
GetKeyPage(b)    == GetActiveKey(b)
ReferralsPage(b) == GetReferral(b) \/ PostCode(b) \/ \E c \in Code : DeleteCode(b, c)
LoginPage(b)     == \E u \in Oauth, c \in Code \cup {0} : Login(b, u, c)
ProfilePage(b)   == DeleteProfile(b) \/ Logout(b)

\* The handlers go on.
KeyStep(b)  == ActiveKey(b) \/ CreateKey(b) \/ KeySession(b) \/ DropSession(b)
CodeStep(b) == DefaultCode(b) \/ NamedCode(b) \/ DropCode(b)
EraseStep(b) == EraseKeys(b) \/ EraseCodes(b) \/ Erase(b)
UserStep(b) == NewUser(b) \/ UserKey(b) \/ UserSession(b) \/ UserCode(b) \/ Link(b)

Next ==
  \/ \E b \in Browser :
       \/ ApiKeysPage(b) \/ GetKeyPage(b) \/ ReferralsPage(b) \/ LoginPage(b) \/ ProfilePage(b)
       \/ ModeCPage(b) \/ ModeBPage(b) \/ AppSignIn(b)
       \/ KeyStep(b) \/ CodeStep(b) \/ UserStep(b) \/ EraseStep(b)
       \/ RegisterModeB(b) \/ RegisterModeC(b) \/ SignIn(b)
       \/ Answer(b) \/ LoseAnswer(b) \/ StatementFails(b)
  \/ \E v \in Vault : Expire(v)
  \/ Restart

Spec == Init /\ [][Next]_vars

-----------------------------------------------------------------------------
(* Properties                                                              *)

\* Every variable has its type.
TypeOK ==
  /\ account \subseteq User
  /\ listed \in [ApiKey -> {"absent", "live", "deleted"}] /\ sessions \subseteq ApiKey
  /\ owner \in [ApiKey -> User \cup {NoUser}]
  /\ codeOwner \in [Code -> User \cup {NoUser, Unmade}] /\ default \subseteq Code
  /\ referral \in [User -> [by : User \cup {NoUser}, code : Code \cup {0}]]
  /\ seedKey \in [Vault -> PubKey \cup {NoKey}]
  /\ challenge \in [Vault -> [nonce : Nonce \cup {0}, purpose : Purpose \cup {"none"}]]
  /\ cookie \in [Browser -> User \cup {NoUser}] /\ proof \in [Browser -> PubKey \cup {NoKey}]

\* requireApiAuth looks a key up in api_keys, the pinning service in sessions.
WebAccepts(k) == listed[k] = "live"
PinAccepts(k) == k \in sessions

\* The pinning service accepts no key that was deleted, by itself or with its
\* account: not even a deletion and an answer apart, unless a fault came
\* between the two statements of its making or of its deletion, it was still
\* being made, or it was made while the profile was being deleted.
DeadKeyIsOut ==
  \A k \in ApiKey :
    PinAccepts(k) => \/ WebAccepts(k) \/ k \in torn \cup raced
                     \/ \E b \in Browser : At(b, "dropSession") /\ call[b].key = k

\* Nobody is above themselves in the referral graph, unless two sign-ins were
\* about to link at the same time, each after its own cycle check.
NoLoneCycle ==
  \/ overlap
  \/ \A u \in User : referral[u] # NoRef => u \notin Up(referral[u].by)

\* After the deletion of a profile no key of the user is left in `sessions`,
\* without any exception: what "delete user account and all data" promises.
\* Does not hold (README, section 8).
GoneForGood == \A k \in sessions : owner[k] \in account

\* Nobody is above themselves in the referral graph, at any time: what the
\* cycle guard of getOrCreateWebuiUser is there for. Does not hold either.
NoCycle == \A u \in User : referral[u] # NoRef => u \notin Up(referral[u].by)

\* A challenge lets one request through, also when the same request comes
\* again, and none after a restart or after a later challenge.
ChallengeSpentOnce == \A n \in Nonce : spent[n] <= 1

\* Whoever is signed in to a vault has signed with the key that was
\* registered first.
VaultKeyStands ==
  \A b \in Browser : cookie[b] \in Vault => seedKey[cookie[b]] = proof[b]

=============================================================================
