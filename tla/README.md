# A verification project for the pinning service

TLA+ modules of the parts of this repository that move credits, accept data and keep it, the TLC
configurations that model-check them, and theorems about them checked by TLAPS. Every definition
is a translation of code; `PROJECT.json` ("map") names the file, lines and symbol behind each.

    tlc -workers 2 -config CreditLedger_checks.cfg MCCreditLedger     # a run
    tlapm CreditLedger_proofs.tla                                     # a proof

Contents: [1 the system](#1-the-system) · [2 modules](#2-modules-and-how-they-correspond-to-the-code)
· [3 runs](#3-runs-what-is-checked-and-what-it-shows) · [4 bounds](#4-bounds) ·
[5 fairness](#5-fairness) · [6 proofs](#6-proofs) · [7 model-checked only](#7-what-is-model-checked-only)
· [8 disagreements](#8-where-code-and-promise-disagree) · [9 not modelled](#9-what-is-not-modelled)
· [10 what remains](#10-what-remains)

## 1. The system

Six programs share two databases and an IPFS cluster.

    browser (React) ──┐                      ┌── explorers of the chains (FULA deposits)
    hosted agents ──► cloudflare worker ──►  │
                      web UI server (Express) ── PostgreSQL: users, wallets, credits, history,
    AI service ──── POST /api/admin/adjust ─►│      deposits, connections, manifests, pins
    x402 gateway ── POST /api/admin/adjust ─►┘            ▲
        │  S3, facilitator, SQLite                        │
    Go pinning service ──────────────── pins, user_credits┘
        └── IPFS cluster (pinset), upload server, pool proxy

### Inventory

| component | source | state it keeps | operations | what is hard | what makes it correct |
|---|---|---|---|---|---|
| credit ledger | `server/services/creditService.ts`, `deductionJob.ts` | `user_credits`, `credit_history`, `referral_bonuses` | creditUser with up to three levels of bonus, hourly deduction, suspension sweep, admin unsuspend | concurrent transactions, row locks in several orders, a balance read before it is used, statements that fail half way | every history is a statement of account; bonuses are booked with their source or not at all; no deadlock for any referral graph; suspended only for debt, and lifted in the end |
| deposit ingestion | `server/services/blockScanner.ts`, claim, wallet and admin routes of `server/app.ts` | `token_transactions`, `user_wallets`, `chain_sync_state`, `isScanning` | timer's scan, administrator's scan, two claim routes, connect and disconnect a wallet | three writers that each check before they insert; one deposit is three transactions; a scan cut short | one credit per transfer; no transfer below the saved block forgotten; what a linked wallet sends is credited |
| x402 gateway | `x402-skale/src` | `x402_payment_logs`, `x402_ephemeral_objects`, the object store | paid PUT, POST /credit, DELETE, timer's and administrator's cleanup | four remote systems, each may act and lose its answer; a retried payment; a cleanup working from an old list | a payment is spent once; money moves only for a stored upload; paid objects are kept, expired ones deleted |
| connections and collab write access | `server/app.ts` (1040-1180, 1700-2600), `server/database/postgres.ts`, `mcpConnections.ts`, `collabTokens.ts` | `mcp_connections` with a JSON scope and bundle, `collab_manifests.collab_writes_revoked`, tokens in circulation | pair, revoke, authorize and remove groups, refresh, fetch bundle, kill switch, requireCollabWriteAuth | the scope is read, merged and written back; tokens outlive the row they were minted from; lookups that fail | a revoked connection, a killed or a removed group is shut at once; a scope stays mintable |
| collaboration manifest | `cloudflare/src/fula/collab`, `src/pages/Collab.tsx`, `CollabUploader.tsx`, sync handlers of `server/app.ts` | one encrypted manifest per group with a version, its creator, blobs in S3 | store, create_folder, remove of agents; upload and new folder of tabs; sync, upload, delete handlers | conditional PUT against blind PUT, retries, lost replies, who the creator is when the blob is stored | what an agent was told stands; nobody's entry is taken away; what is listed can be read; calls end |
| AI jobs | `ai/src` | `ai_generations`, `ai_social_posts`, pools and queues in memory, credits held elsewhere | POST /generate (websites, posts), executors, shutdown, boot, reaper | deduct, insert, enqueue, refund are four systems; double submission; restarts; stragglers of the old process | paid exactly for what was produced, refunded at most once, every job ends |
| pins | `openapi/go` on PostgreSQL | `pins`, the cluster's pinset, `importLimiter` | POST /pins, POST /pins/import/car, GET, POST, DELETE /pins/{requestid} and the goroutines they leave behind | the answer precedes the work; a CID is shared by users; count, then unpin; late status writes; contexts that expire | deleting takes no pin a counted row holds and leaves none behind; import slots come back |
| accounts | `server/app.ts` (sign-in, keys, referrals, profile), `database/postgres.ts`, `services/seedAuth.ts`; `src/pages/Login.tsx`, `ModeBSignup.tsx`, `ModeCSignup.tsx`, `ApiKeys.tsx` | `webui_users`, `api_keys`, `sessions`, `referral_codes`, `referrals`, `seed_users`; cookies and challenges in memory | sign-in with Google or Apple and with a recovery phrase, registering a vault, making and deleting keys and codes, logging out, deleting a profile | two tables name a key and are written one after the other; checks before inserts; challenges that are answered twice or after a restart | a deleted key is accepted nowhere; nobody is above themselves; a challenge lets one request through; a vault stays its first key's |
| AI questions | `ai/src/routes/ask.ts`, `ask_postgres.ts` | `ask_user_stats`, `ask_generations`, `ask_response_cache` with answers of the last hour, credits held elsewhere | POST /ask: claim the free files, deduct, ask the model, cache, log, refund | no job: the request is the job, and five statements may each be the last one; a repeated key | whoever is answered has paid, whoever is not has not |
| websites and directory | `ai/src/routes/directory.ts`, `generate.ts`, `directory_postgres.ts`, `directoryListing.ts`, admin routes of `server/app.ts` | `ai_generations`, `directory_categories`, `directory_reports`, a 60 s cache, memory of summaries under way | build and revise, list and withdraw by build or by group, visit, report, summarize, remove and restore | a website is as many rows as builds; one row's flag is all rows' business; two servers write, one caches | what is removed or withdrawn stays hidden; pages in the cache follow |
| pins page, files, bulk download | `src/pages/Pins.tsx`, `services/fulaClientService.ts`, `fxFilesBulkDownload.ts`, `secureStorage.ts`, endpoints of `server/app.ts` | lists, selections and spinners of a page, a key in IndexedDB, a pool of workers, an archive | list, search, add, import, unpin many, refresh, browse, decrypt, download, cancel, log out | answers in any order; the store is written meanwhile; workers that outlive their run | reads are whole or fail; an archive is complete; a failed removal is reported |
| share links | `src/pages/View.tsx`, `sharingService.ts`, share routes of `server/app.ts` | `share_manifests`, in two formats | store a manifest, open a link, unlock it, fetch | two formats of one manifest, either may be stored over the other | a visitor sees no older folder than the one stored |
| public gateway | `ipfs-server/server.js`, `ipfs-server/database/postgres.js`, `pool-server/main.go`, policy routes of `server/app.ts` | `blocked_cids`, a copy of it for a minute, temporary uploads | serve, wrap, upload, block, unblock | several requests reload the copy at once | what is blocked is refused after a minute |
| hosted connector | `cloudflare/src/google.ts`, `mcp.ts`, `fula/custody.ts`, `openbao.ts`, `capability.ts`, `identity.ts` | two cookies, `mcp_capabilities` with keys sealed by OpenBao, grants | authorize an AI through Google, make, open and use its key, deliver and recover bundles | two tabs and one pair of cookies; first calls that overlap; time-outs whose work goes on | an AI is granted what was picked for it; each AI has its own key; a key that was shown stays |
| scoped tokens | `server/mcpTokens.ts`, `mcpGrants.ts`, `database/postgres.ts`, routes of `server/app.ts` | `mcp_revoked_tokens`, `mcp_grants` | issue, verify, revoke a token, list revoked ones, publish, fetch and revoke grants | clocks and tolerances on both sides | a revoked token is told nothing |
| the rest | see section 9 | | | | |

How they interact. The web UI server is the ledger of all: deposits end in `creditUser`; the
x402 gateway and the AI service call `POST /api/admin/adjust` with the system key, which is
`creditUser(…, 'adjustment')`; the Go service reads `user_credits` before it accepts a pin and
the hourly deduction reads sizes from `pins`. The cloudflare worker fetches a connection's bundle
and write tokens from the web UI server and edits manifests through it, as do the browser's tabs.
The Go service accepts an API key when `sessions` has it, a table that the web UI server fills
beside its own `api_keys`. The web UI server and the AI service both write `ai_generations`, and
only the latter caches the directory. Policies on CIDs are written by the web UI server and read,
and remembered, by the gateway.

The hazards this code is exposed to are listed at their lines in `PROJECT.json` ("hazards"), each
with the properties that watch over it or the reason why none does.

## 2. Modules, and how they correspond to the code

In the order they were written; what moves credits first, then who may write, then what is kept.

| module | models | composition |
|---|---|---|
| `LedgerRows` | rows, entries and pure rules of the ledger: chain of referrers, bonus of a level, what an entry does to a row | used by both ledgers |
| `Ledger` | abstract: a credit with its bonuses, a deduction, a suspension each happen in one step | specification of `CreditLedger` |
| `CreditLedger` | the same as statements of concurrent transactions with row locks | implements `Ledger` (`Atomic == INSTANCE Ledger`) |
| `DepositIngestion` | scanner, administrator's scan, claims, wallets | `creditUser` is one step (`Pay`), which `AtomicLedger` justifies |
| `X402Gateway` | paid requests, the two tables, cleanup | the same for `/api/admin/adjust` |
| `CollabAccess` | connections, scopes, tokens, kill switch, write check | |
| `CollabManifest` | agents' and tabs' edits of one manifest | who may write is `CollabAccess`: here any request may be refused |
| `AiJobs` | paid website and social post jobs | credit calls are one step that may fail either way |
| `PinService` | rows of `pins`, pinset, goroutines, limiter | the credit gate is a free choice |
| `Accounts` | sign-in, vaults, keys, referral codes, profiles of the web UI server | the `sessions` rows are what the Go service reads |
| `Questions`, `Directory` | paid questions; websites, their listing and the cache | |
| `AiService` | one process with both halves, which restarts | composes `Questions` and `Directory` |
| `FileStore` | a user's encrypted files, as an app goes on writing them, and how they are read piece by piece | used by the next two |
| `PinsPage`, `BulkDownload` | the page of pins and files; the archive of everything | EXTEND `FileStore` |
| `Sharing` | links to a file or a folder, the manifest of a shared folder | |
| `Gateway` | policies, the gateway's copy of them, uploads, routing to pools | |
| `Files` | one of the two readers beside the writer, or the links, or the gateway | composes the last five |
| `Custody`, `ScopedTokens` | the keys of AIs; tokens, revocations and grants of agents | |
| `Connector` | the sign-in of an AI in two tabs, with what its tools do | composes `Custody` and `ScopedTokens` |
| `MC…` | definitions of small instances | EXTEND the above |
| `CreditLedger_proofs`, `DepositIngestion_proofs`, `X402Gateway_proofs`, `PinService_proofs`, `Files_proofs` | theorems about the module of that name and those it composes | EXTEND it and TLAPS |
| `Collab_proofs`, `Ai_proofs`, `Identity_proofs` | theorems about `CollabAccess` and `CollabManifest`; `AiJobs` and `AiService`; `Accounts` and `Connector` | EXTEND both, whose names are therefore distinct (`ManifestInit`, `ServiceNext`, `ConnectorSpec`), and TLAPS |

**One action is one atomic step of the code**: one SQL statement outside a transaction, one
statement inside it where locks matter, one remote call, one block between two awaits. A handler
keeps its place in `pc` and what it read in its record. Errors are actions of their own (`…Fails`,
`…Throws`, `Crash`, `Restart`), counted by `faults` or `failures`. Identity checks and validation that only
refuse are left out or are one action.

**CreditLedger.** `credits`, `history` and `bonuses` are the committed tables. A transaction that
updated a row holds `lock[u]`, and what it will commit is `draft[u]`. `CreditBegin` computes the
chain (`getReferralBonuses`), `CreditApply` is one upsert and its history entry in the order of
user ids ("Deadlock safety"), `CreditCommit` adds the entries and the bonus rows. The job goes
through `sweep` (users with credit and a suspension), and for each due user `DeductSelect`
(`FOR UPDATE`), `DeductUpdate`, `DeductInsert`, `DeductCommit`. Amounts are integers.

**DepositIngestion.** `row` is `token_transactions`, `lastScanned` is `chain_sync_state`. A
scanner goes next → insert → lookup → credit → mark for one transfer after the other, and saves
its block at the end. `isScanning` keeps timer runs apart, not the administrator's. A claim reads
the row, checks the receipt (`ClaimCheck`), inserts or updates, credits. `paid` remembers every
credit and what entitled to it. An explorer may answer with a first part of the new
blocks only, and a chunk that it answers with neither error nor result counts as empty while the
chunks behind it are read (`Fetched(upto)`, `InSilence`). History: `missed` are transfers that a
run passed without a row, `lost` those that a failure keeps from their credit.

**X402Gateway.** A request goes verify → log → mark → handler (put, track, credit) → settle →
settled, with the catch block (`check`, `fail`, `blind`) behind each. `taken` is the facilitator's
own record of the payments it moved: `SettleThrows` may have moved one. `Expire` is the passing
of a TTL, `Age` of the five minutes phase 1 waits. Each cleaner reads its lists once, deletes by
key and marks by row. `hidden` (history) are the uploads in the store whose row was marked
deleted: a mark that comes late falls on the row of the next upload of its key.

**CollabAccess.** A request holds the scope it read (`G`), the row's key (`seen`) and what was
shut while it ran (`banned`). Tokens are the pairs in `held`, which expire together
(`TokensExpire`). `requireCollabWriteAuth` is `WriteArrives`, `CheckConnection`, `CheckKillSwitch`,
`Write`, and `QueryFails` where a lookup throws.

**CollabManifest.** A tool call is `fetchBase` (GET), `Upload`, `MergedWith` (the merge), `Put` (PUT
with the version it loaded), and `Conflict` with a refetch up to `MaxRetries` times. A tab
goes `Load`, `Begin`, `TabUpload`, `PutManifest`, `Sync`; the last has no version. `Spaces` are
the users whose space a request may be given by `getCollabS3Jwt`: the creator's, or the session
user's where there is no creator, the creator has no key or the look-up throws. DELETE asks
nothing of the manifest. `clobbered` remembers what a tab wrote over, `astray` the files whose
blob went to another space than the creator's, or was deleted while they were not removed.

**AiJobs.** The handlers are `Arrive`/`ArriveSite`, `Deduct`, `Insert`, `Start` (worker, queue or
shed), the executors `Load`, `Publish`, `Complete`, `Fail`, `Refund`. `proc` are processes that
boot, run, stop and die; a stopping one finishes while the next boots. `paid[r]` is what the user
paid for request r in total: a second refund makes it negative.

**PinService.** `pins` is the table with a status, `pinset` the cluster. A call lives on after its
answer as the goroutine it started: `AddPin` → `Pinned`/`PinFails`/`PinTimesOut` → `Report`;
delete → `MarkDeleted`, `Count`, `Count` again, `Unpin`; GET → `GetStatus`, `GetWrites`;
replace → `Drop`. `global` and `perUser` are `importLimiter`. `secured`, `exposed` and
`forgotten` are history variables that only the properties read.

**Accounts.** A browser makes one request at a time, `call[b]`, and a step is one write of it:
`InsertKey` and `InsertSession` are the two statements of `createApiKey`, `DeleteKey` and
`DropSession` those of its deletion, `Login`, `NewUser`, `UserKey`, `UserSession`, `UserCode` and
`Link` the first sign-in. A deletion is `DeleteProfile` (the sessions of the keys the user has
then), `EraseKeys`, `EraseCodes` and `Erase`, each of which sees what others have committed
(READ COMMITTED, no lock on the user), and all of which the foreign key of a referral takes back. `TakeIfValid` is the single place that reads and forgets a challenge.
A page makes the requests the page of the front end makes, in its order. `spent`, `proof`,
`torn`, `raced` and `overlap` are history.

**Questions, Directory, AiService.** A question goes claim → insert → deduct → model → cache →
log, and a failure turns off to `reverse` or `refund`, but that of `mkdirSync`, which comes after
the deduction and before the block that refunds (`MkdirFails`); `funds` are the credits and `charged` what a
question has cost. A website is the set of rows that
`GroupKey` names: its group, any text of the client's, or the build by itself; so a group may be
another build's id (`Aliased`), and then `ToggleById` of that build leaves the other listed.
`DetailsFail` is a statement that fails behind a committed switch: the answer is 500 and the cache
is left. `ToggleById`, `ToggleByGroup`, `Delist`
and `RemoveSite` are the four ways to a listing, each ending in `ClearCache` or, from the web UI
server, without. `QueryPage` and `CachePage` are apart, as the query is awaited. `late`,
`withdrawn`, `removed` and `uncleared` are history.

**FileStore, PinsPage, BulkDownload, Sharing.** A chunked file is an envelope and chunks that are
objects of their own: `Upload` announces a version and `PutObject` replaces one object after the
other in any order, because the app that does it is not in this repository. `StartRead`,
`FetchEnvelope`, `FetchChunk` are the read, and authenticated decryption is what refuses a piece
of another version (`DecryptChunk`). Not every download goes this way: one by CID saves the object
as the bucket has it (`TryBucket`, `FetchRaw`), envelope or not, and one by storage key asks the
gateway for a single block (`StoreKey`, `DownloadDecryptedWithKey`). A page's request is `call[i]`; answers are actions of their
own and come in any order. Of a bulk download, `Launch` starts a worker, `Push` hands a file to
the archive, `Cancel` ends the run and leaves workers behind (`LateWorker`). Of a share, the
manifest is one row with two columns, `encrypted` and `plain`; an encrypted one empties the other
column, a plaintext one does not, and `GET` prefers the encrypted one. What a visitor opens is one
block from the gateway or comes out of the fula client (`GetShareObject`): content or an error.

**Gateway.** `CachedPolicy`, `LoadPolicies`, `PoliciesLoaded` are the use and the refresh of the copy, which
several requests may make at once. Time is a tick; `TTL` ticks are the minute.

**Custody, ScopedTokens, Connector.** Rows of custody are by user and client. A call goes select →
(first call: seal) → unwrap → told. Tabs share `stateCookie` and `continueCookie`.
A token is a row of history: who issued it, until when; `revoked` and `feed` are the table and
what the gateway is told of it. A behaviour follows either the sign-ins and tools ("connect")
or the tokens ("tokens"), which share nothing but public keys.

## 3. Runs: what is checked and what it shows

| run | instance | properties | what it shows |
|---|---|---|---|
| `ledger` | `CreditLedger_checks` | HistoryChain, NoDeadlock, AtomicLedger, CreditLiftsSuspension | concurrent credits, the deduction, the sweep, an administrator, a failure: books in order, no deadlock, implements the atomic ledger (bonuses are booked with their source or not at all) |
| `deposit_race` | `Deposit_race` | OneInserterPays, NothingSkipped, LinkedDepositsCredited | the timer's scanner, an administrator's, a claim and a wallet that comes and goes: one inserter pays, nothing is skipped |
| `deposit_twice` | `Deposit_twice` | PaidOnce (violated) | two claims of an unclaimed row, or a claim and the scanner, both credit |
| `x402_retry` | `X402_retry` | PaymentSpentOnce, TakenForUpload, ExpiredIsDeleted | one payment sent twice, or one key uploaded twice, with failures, lost replies and a restart anywhere |
| `collab_access` | `CollabAccess_checks` | RevokedNeverWrites, KilledNeverWrites, RemovedAlone | two requests of any kind at once |
| `collab_manifest` | `CollabManifest_edits` | ToldIsSo, ListedIsReadable, NothingTaken, CallsEnd | two agents and a tab on one manifest |
| `ai_jobs` | `AiJobs_checks` | CompletedIsPaid, AcceptedRefundedOnce, PaidIffServed, JobsEnd | three mixes of three requests, a full queue, a restart, a failed call |
| `pins` | `PinService_checks` | HoldersKeepTheirPin, NothingLeftPinned | three requests of two users on one CID with their goroutines |
| `accounts` | `Accounts_checks` | DeadKeyIsOut, NoLoneCycle, ChallengeSpentOnce, VaultKeyStands | three requests of two browsers and a fault: keys, referrals, challenges and vaults |
| `ai_directory` | `AiService_checks` | PaidIffAnswered, RemovedIsHidden, WithdrawnUnlessBuilding, CacheIsCurrent | two requests to the AI service, a restart, a failure, while websites are being built and described |
| `files` | `Files_checks` | NoTornFile, UnpinnedOrReported, ArchiveIsComplete, FolderIsCurrent, BlockedIsRefused | a reader of each kind beside the writer of the files; the gateway while its policies change |
| `connector` | `Connector_checks` | EachItsOwn, ShownStands, GrantIsWhatWasAsked, RevokedGetsNothing | two AIs and two accounts in two tabs, failures of OpenBao and time-outs; an agent's tokens as they run out |

Each property of a passing run has a mutant in `PROJECT.json`: a plausible bug of one definition
(a lock order dropped, a condition of an UPDATE dropped, a release made twice) under which TLC
finds the property violated, so that no property holds whatever the code does. The mutated forms
stand in the modules, right before the definitions they replace, and nothing else uses them.

Where two properties say nearly the same, one is what the code promises and does not keep, and the
other is what it does keep. The weaker one draws the line: its exceptions are named by history
variables, and are the ways the counterexamples of the stronger one take (section 8).

| kept, and proved if it is a safety property | does not hold | between them |
|---|---|---|
| `OneInserterPays` | `PaidOnce` | claims of a row that is there already |
| `NothingSkipped` | `NothingMissed` | an INSERT that failed, a chunk of logs answered without a result |
| `ExpiredIsDeleted` | `ExpiredIsGone`, `PaidObjectsKept` | a key that is uploaded again while a cleanup works through its list |
| `RemovedAlone` | `RemovedNeverWrites` | an authorization that overlaps a removal |
| `AcceptedRefundedOnce` | `RefundedOnce` | an INSERT that was committed and not answered |
| `HoldersKeepTheirPin` | `HeldIsPinned` | a row that becomes active between a delete's last count and its unpin |
| `DeadKeyIsOut` | `GoneForGood` | keys half made when their row or their owner goes |
| `NoLoneCycle` | `NoCycle` | two sign-ins that link at once |
| `PaidIffAnswered` | `FailedIsRefunded` | a failure between the deduction and the block that refunds |
| `WithdrawnUnlessBuilding` | `WithdrawnStaysOut`, `GrouplessIsAlone` | builds under way; rows with another's id for a group |
| `CacheIsCurrent` | `NotBehindCache`, `ToggleClears` | a page looked up before the clearing; a switch that failed before it |
| `NoTornFile` | `DownloadIsFile` | downloads that do not go through `decryptFxFile` |

## 4. Bounds

| run | bounds | why they are enough |
|---|---|---|
| `ledger` | users 1..3, referrals 1 ↔ 2 and 3 → 2 (a cycle, as concurrent sign-ups can leave one, and chains that meet); two connections and the job; amounts 60 and -60; Fee 5; MaxCredits 2, MaxDeductions 1, MaxFaults 1 | two calls and the job are three transactions over rows they take in opposite chain orders; the deduction takes a balance below zero and a credit brings it back; -60 is the charge of a job, which earns no bonus. The chain rules are independent of the amounts' size |
| `deposit_race` | one user, one wallet, linked, two transfers in blocks 1 and 2; one timer, one administrator, one claim, one linker; one fault | the timer's runs follow each other; two blocks are needed to save one and miss the other; every pair of the writers meets on a row |
| `deposit_twice` | two users, one transfer, timer, two claims, one linker, no faults | the smallest with two claims of one row |
| `x402_retry` | two cleaners, MaxAttempts 2 (5 in the code), and one of three plans: one payment in an upload and a top-up with a DELETE and MaxFaults 3; two payments uploading one key with a DELETE and no failure; the same with one failure and no DELETE | payments are independent but for the object they write; two failed deletions reach the limit and leave one failure elsewhere; a cleanup meets the second upload of a key at any of its steps |
| `collab_access` | one owner and creator, one connection, two groups, two requests, MaxGroups 1 | a scope is a connection's own; two groups exceed the cap of one; two requests give every overlap of reads and writes |
| `collab_manifest` | two agents, one tab, two users (one signed in), a file, a folder, MaxRetries 1 (4 in the code), MaxCalls 4 | an agent loses to the other agent and to the tab, once with a retry left and once without; an id can be added, removed and brought back |
| `ai_jobs` | three mixes of three requests (three posts; two posts with one key and a third; a post and two websites), MaxConcurrent 1, MaxQueued 1, FreeSites 1, Initial 2, MaxBoots 2, MaxFaults 1 | one runs, one waits, one is shed; credits for two of three; the first website is free, the second paid; one restart with a straggler |
| `pins` | two users, one CID, four rows of which one may be settled from the start, three requests, MaxGlobal 2, MaxPerUser 1 (5 and 1 in the code's defaults), one fault | CIDs do not affect one another but by replacing, and replacing one by another is dropping it and a refused or accepted pin of the other, both of which one CID has; three requests are a delete, another that changes its count and a third that acts between |
| `accounts` | two browsers, two users of Google or Apple who may have signed in before, a vault of mode B and one of mode C, two public keys, five keys, four codes, two challenges, MaxCodes 2 (10), MaxCalls 3, MaxFaults 1 | a key is made, deleted and made again; two sign-ins link to one another; a challenge is asked for, used and used again; a third request reads what the two left |
| `ai_directory` | two owners, three builds of which two stand at the start in one group, alone, or one with the other's id as its group; groups are a text, a build's id or empty; one category, two calls, MaxRequests 2, MaxFailures 1, MaxReports 1 (20), MaxPages 1 (500); two questions of two files, one free, credits 2, a key that fits and one that does not | a website of two builds and a third that is under way; a page that is looked up while one is withdrawn; the second question pays with what the first left |
| `files` | three files in two buckets (two chunks, one block, one whose name only the second listing knows), two versions, three pins on pages of two, two calls, MaxEvents 3, one fault, Concurrency 2 (1), two manifests, two CIDs, TTL 1, MaxTime 2, two visits | a read meets a second version between any two of its pieces; a worker is left behind and another starts; two requests reload the policies across the minute |
| `connector` | two users, two clients, two tabs, two authorizations, three keys, two calls, two requests, one fault; two tokens, two grants, one fetch, MaxTtl 2, Skew 2, MaxClock 4 | tabs overwrite one another's cookie; two first calls overlap; a token is revoked and looked up before its exp, within the tolerance and after |

`Max…` that count calls or faults are bounds of the models and stand in guards; `MaxGroups`,
`MaxAttempts`, `MaxRetries`, `MaxConcurrent`, `MaxQueued`, `MaxGlobal`, `MaxPerUser`, `MaxCodes`,
`MaxReports`, `MaxPages`, `MaxTtl`, `Skew`, `TTL`, `PageSize` and `Concurrency` are limits of the code with
other values, mostly smaller ones (`Concurrency` is larger, so that workers meet). The theorems hold for
all values of both.

`CHECK_DEADLOCK FALSE` stands where the modelled requests all end and the system then rests. The
ledger and the connections never stop, and TLC checks that.

## 5. Fairness

Safety assumes none, and the runs `collab_access`, `pins`, `accounts`, `ai_directory`, `files` and
`connector` have none. The liveness properties assume what the code's scheduling gives:

- `CreditLiftsSuspension`: `setInterval` fires again and the job's statements return
  (`WF(JobStep)`), and some open call's statement returns (`WF(∃ t : CreditStep(t))`, weaker than
  fairness to each: calls that wait for one another's locks are not promised to go on, and
  `NoDeadlock` says that one always can). Administrators, new calls and failures may never come.
- `LinkedDepositsCredited`: blocks are mined, the timer's scan goes on, and the explorer answers
  again and again with all there is (strong fairness: it may miss the newest blocks in between).
  The property is about transfers that no failure fell upon (`lost`): a failed INSERT, or a chunk
  without a result, does lose the transfer it fell upon, and no other.
- `ExpiredIsDeleted`: handlers run, and the minute timer's cleanup goes on. The administrator's
  is not needed. Failures are as many as `MaxFaults` allows, and `attempts` counts them.
- `CallsEnd`: every request an agent sends is answered or fails, for each agent. That is all: the
  bound on retries is what ends the call.
- `JobsEnd`: some job takes a step as long as one can; the code's timeouts abort each remote call.
  Boots and requests need not come.

## 6. Proofs

For every value of the constants that satisfies the named assumptions of the modules
(`LedgerAssumption`, `TxnAssumption`, `DepositAssumption`, `X402Gateway!GatewayAssumption`,
`CollabAssumption`, `ManifestAssumption`, `JobsAssumption`, `PinAssumption`, `AccountsAssumption`,
`QuestionsAssumption`, `DirectoryAssumption`, `TablesAssumption`, `ServiceAssumption`,
`StoreAssumption`, `PageAssumption`, `BulkAssumption`, `SharingAssumption`,
`Gateway!GatewayAssumption`, `FilesAssumption`, `CustodyAssumption`, `ScopedTokensAssumption`,
`ConnectorAssumption`): types of the parameters, values that are distinct from each other, finite
sets where the code counts, limits that are positive where the code would not run with zero. TLC
evaluates each of them in the runs. TLAPS checks every leaf of every proof.

Every safety property and every invariant or action property of a passing run is stated by a
theorem; liveness is not (section 7).

| theorem | what | why it is true: the strengthening |
|---|---|---|
| `CreditLedger_proofs!TypeCorrect`, `StatementsOfAccount` | `TypeOK`, `HistoryChain` | A call drafts an entry from the balance it locked. `Promised(u)` says so while the lock is held, `LockInv` who may hold it, `JobInv` that the job's balance read `FOR UPDATE` is still the row's when the UPDATE comes. `CommitEffect` turns promised drafts into a longer statement of account |
| `DeadlockFreedom` | `NoDeadlock` for any referral graph, cycles included | `OrderInv`: what a call holds precedes what it has yet to update. In a circle of waiting calls the one with the largest wanted row waits for a row it or a later one holds, which precedes it; the job holds at most one row and never waits with it. `OpsProperties` shows that an operation list names a user once, which is why the guard against cycles in the chain matters |
| `Implements` | `AtomicLedger`, the refinement | `CallInv`: what an open call has done of its operations, and nothing else, is in its drafts, each drafted from the balance that is still the row's; `ChargeInv`: the row the job has locked is not suspended, and its draft is the charge of the balance that is there. So a commit is one step of `Ledger` (`Credit`, `Deduct`), lifting a suspension is another and everything else is a stutter; `SameOps` and `SameApply` identify the two modules' rules |
| `DepositIngestion_proofs!FirstComerPays` | `OneInserterPays` | `Exclusive`: of all who are past an INSERT that made the row and those who already paid for it there is at most one; `Untouched`: while there is no row, there is none at all |
| `NothingForgotten`, `TypeCorrect` | `NothingSkipped`, `TypeOK` | `Listed`: of the blocks up to the one a run of the timer is going to save, every transfer has a row, or is on the run's list still, or is among what the run has missed, by a failed statement or a chunk without a result. A fetch that breaks off lowers that block with the list |
| `X402Gateway_proofs!SpentOnce` | `PaymentSpentOnce` | `OneUser`: the unique key of the log lets one request with a payment through; `CreditOnce`: it has not credited yet while it is in front of the credit |
| `TypeCorrect`, `TakenForTracked` | `TypeOK`, `TakenForUpload` | `Tracked`: whoever is about to be credited or settled has its row in the object table; `RowsStand`: no step takes a row out of it |
| `HonestLog` | `LogHonest` | `InOrder`: verified before settled before logged as settled |
| `Collab_proofs!TypeCorrect`, `RevokedIsOut` | `CollabAccess!TypeOK`, `RevokedNeverWrites` | `Revocation`: a revoked row stays revoked, and the check reads it after the write arrived |
| `KilledIsOut` | `KilledNeverWrites` | `Killing`: the same for the switch, which fails closed |
| `RemovedIsOut` | `RemovedAlone` | `Scoping`: where nothing overlapped, a scope holds only what was asked for, and who is about to write it back read what it still is; `Standing`: a ban remains true of what was granted |
| `CapHolds` | `ScopeWithinCap` | `Capped`: what will be written back is within the cap, though it may be written over another's |
| `ManifestTypeCorrect`, `ToldStands`, `NothingLost` | `ManifestTypeOK`, `ToldIsSo`, `NothingTaken` | `Compared`: an agent whose version is still the row's read what the row still is; `Fresh`: ids are used once; `Apart`: nothing is listed and removed |
| `ListedCanBeRead` | `ListedIsReadable` | `Readable`: the same of everything any agent or tab may still write, and of the blob of an entry about to be listed. An entry whose blob is elsewhere is `astray`, and only the fallbacks of `getCollabS3Jwt`, a DELETE and the creator's change make one so |
| `Ai_proofs!TypeCorrect`, `CompletedPaid`, `RefundedAtMostOnce`, `TerminalForGood` | `AiJobs!TypeOK`, `CompletedIsPaid`, `AcceptedRefundedOnce`, `TerminalStays` | `Covered`: of the row that may still be completed, the executor's pending refund and the reaper's at most one has a claim to the payment, which is there as long as one has. A post's executor and the reaper get the claim only by the UPDATE that takes it from the row; a website has its executor alone. `Lines`: who waits in a queue waits once and in no other state, so that a worker that ends never starts a job twice |
| `NobodyPaysForNothing` | `PaidIffServed` | `Even`: a request that no failure has hit has paid once at most, nothing if it was free, and when it has paid somebody still has to serve it or to refund it (`Due`), or it is completed; `Turns`: processes follow one another, and only one that boots has refunds to make, so that no refund is left to a process that is gone |
| `ServiceInvariance`, `ServiceTypeCorrect`, `AnsweredPaid` | the invariant of both halves of the AI service, `AiService!ServiceTypeOK`, `PaidIffAnswered` | `Books`: what a question has taken is what it costs from the deduction to the answer or the refund, and nothing before and after. A failed call, `mkdirSync` or a restart gives it a fault of its own (`blame`), and nobody else's. What a question with a fault is left with is not said |
| `RemovedStaysHidden` | `RemovedIsHidden` | `Marked`: of what is removed, a completed build bears the mark, and `Visible` asks for a mark on any build of the website. `Named`: a group that is a build's id is that of a build that has a row. Without it a build that comes later could, by its own id, join a website that was removed before |
| `WithdrawnIsOut` | `WithdrawnUnlessBuilding` | `Out`: of what was withdrawn, only a build that was under way then (`late`), or whose website another row shares by its id (`Aliased`), is listed. A flag is written on all completed builds at once, and what completes later was under way |
| `CacheStaysCurrent` | `CacheIsCurrent` | `Pages`: a page looked up since the last clearing shows what some build lists or what a request is about to clear, also while it is on its way into the cache: a page is behind between the UPDATE and the clearing, and for good if the switch fails in between (`uncleared`) |
| `PinService_proofs!TypeCorrect`, `PinsKept` | `TypeOK`, `HoldersKeepTheirPin` | `SecuredActive`: a secured row is active, hence counted; `LateKnown`: while an unpin is under way, every active row of the CID is exposed, because the last count found none; `Reported`: what reports a confirmed pin finds it in the pinset or is late itself |
| `SlotsKept` | `SlotsAreImports` | `OpKnown`: a request keeps its operation and user until it ends, so the imports are those who acquired, and cardinalities change by one |
| `NoPinForgotten` | `NothingLeftPinned` | `Cared`: every CID that the cluster pins, and whose unpin nothing is known to have missed, is a listed row's, or a request is on its way to count, to unpin or to report it; `Dropped`, `Healing` and `Busy` say which rows and requests that cannot be |
| `Identity_proofs!AccountsInvariance`, `AccountsTypeCorrect`, `ChallengeOnce` | the invariant of Accounts, `TypeOK`, `ChallengeSpentOnce` | `Unspent`: a challenge in the store is one that was issued, has let nothing through and is no other vault's. Taking it removes it in the same step, and a restart empties the store |
| `FirstKeyStands`, `SeedForGood` | `VaultKeyStands`, `SeedStands` | `Registered`: when a registration goes on to make a key, the vault's row bears the key that it proved. `SeedStands`: INSERT … ON CONFLICT DO NOTHING and the comparison after it never replace a row, whichever registrations race; `CookieMoves` and `LateMoves` list how a cookie comes to name a vault |
| `DeletedIsOut` | `DeadKeyIsOut` | `Accounted`: a key without an owner is in neither table; one that is half made is listed, or was deleted meanwhile (`raced`); of the keys that a deletion of a profile is about to erase, those that were made when it began lose their `sessions` row too, and the others are `raced`. `Quiet` gathers the many steps that touch no key |
| `NoCircle` | `NoLoneCycle` | `LinksFit`: unless two sign-ins were about to link at once, what the check found stays true until the INSERT. `Up`, the loop of the check, is a recursive function with as many rounds as there are users: `LevelsAre` shows that it has a value, `AboveLeast` that it finds nobody but those above, `AboveClosed`, by counting, that it finds them all. So a referral by somebody below whom the user is not closes no circle (`LinkedAcyclic`) |
| `KeysApart`, `ShownForGood`, `TypeCorrect` | `EachItsOwn`, `ShownStands`, `ConnectorTypeOK` | `CallKnown`: a call knows whose key it holds; `OneSlot`: a key is in one row's, one slot's calls' hands only; `Steady`: unless two first calls overlapped, whoever holds a key of a slot holds the row's, and a first call is alone |
| `GrantsAsAsked` | `GrantIsWhatWasAsked` | `Signing`, `Asked`: nonces are used once, and what a tab or a cookie carries after Google was picked for that AI, whichever tab wrote the cookie last |
| `RevokedOpensNothing` | `RevokedGetsNothing` | `Belated`: a request whose token was revoked before it came has not passed the look-up |
| `Files_proofs!FilesInvariance`, `FilesTypeCorrect`, `ReadsAreWhole` | the invariant of the five parts, their types, `NoTornFile` | `Parts`: a read under way has pieces of the version its envelope named, because a piece of another does not decrypt. It is said of every record that holds such a read: of the page, of a worker. Reads by CID or storage key are not such |
| `RemovedOrReported` | `UnpinnedOrReported` | `Promised`: of the pins a removal was asked for, those that stand are still to be tried or among its failures, whatever the page shows or reloads meanwhile |
| `ArchiveStands` | `ArchiveIsComplete` | `Accounts(x)`: each planned file is waiting, in the hands of one worker, in the archive or among the failures, in one of them only, and `done` counts the last two. Workers of a cancelled run are in none (`late`) |
| `FolderStands` | `FolderIsCurrent` | `ManifestStands`: which column of the row is the newer one, and that the server prefers it; `Fresher`: what a tab holds is at least as new as what stood when it was opened |
| `BlockedStaysOut` | `BlockedIsRefused` | `CopyStands`: the gateway's copy lacks no policy older than its own age; `Seen`: nor does what a request read of the table or of the copy. A copy's age counts from before its SELECT, so that a late answer makes none younger than it is (`Young`) |

Each `…_proofs` module has the same layout: the parts of the invariant, lemmas on the operators,
what each kind of step does to each part, the inductive step by cases of `Next`, and the theorems
with `PTL` at the end; where a module is about two, it has them one after the other. What carries
an invariant, the parts that the table names, was checked with TLC on the run's instance too.

Induction over the numbers is used in the form that the provers can take: `NatLessThanWellFounded`
and `WFMin` of the library name a least member of a set (`NatMin`, `AllNumbers`). That a recursive
function has a value has to be shown first (`LevelsAre` exhibits one).

## 7. What is model-checked only

- **Liveness** (`CreditLiftsSuspension`, `LinkedDepositsCredited`, `ExpiredIsDeleted`, `CallsEnd`,
  `JobsEnd`) and everything about ENABLED: beyond the prover.
- What a RECURSIVE operator computes: there is none in the modules that are proved about. Where a
  definition is recursive (`Up` of Accounts) it is a function, and the theorems of the library that
  take an operator as a parameter are not needed for it (section 6). The referral chain of the
  ledger is unfolded to its three levels, where nothing has to be proved by induction.
- Freedom from deadlock of the runs that check it, but for the ledger's (`DeadlockFreedom`): TLC
  looks at every state, and it is a statement about ENABLED.

## 8. Where code and promise disagree

The run `deposit_twice` shows the first (`PROJECT.json`, "findings"). The others are stated in their
modules, do not hold, and are no property of a run. TLC shows each within a few minutes when it
takes the place of the properties in the configuration named (as an INVARIANT, or as a PROPERTY
where it says so).

1. `PaidOnce`: a transfer is credited twice (`server/app.ts:4162`, an UPDATE without a condition on
   `claimed_at`; `docs/cloud-users/wallets.md:118`: "Transaction not already claimed").
2. `DepositIngestion!NothingMissed`, `Deposit_race`: the saved block passes a transfer whose INSERT
   failed, or that was in a chunk answered with neither error nor result (`blockScanner.ts:302`,
   `:105-113`; `docs/cloud-users/billing.md:70`: the scanner "credits your account when it sees
   your transfer").
3. `X402Gateway!PaidObjectsKept` (PROPERTY), `X402_retry`: the cleanup deletes a paid re-upload, because
   it deletes by name what it listed before (`cleanup.ts:131`;
   `docs/x402-developers/download.md:215`: "Content is available until TTL expires").
4. `X402Gateway!ExpiredIsGone` (PROPERTY), `X402_retry`: the mark meant for the expired upload falls on
   the row of the next, which is then never listed again (`cleanup.ts:134`;
   `x402-skale/README.md:23`: "Automatic cleanup after TTL expires").
5. `CollabAccess!RemovedNeverWrites`, `CollabAccess_checks` with `MaxGroups = 2`: an overlapping
   authorization undoes a removal (`server/database/postgres.ts:1355`).
6. `AiJobs!RefundedOnce`, `AiJobs_checks`: a post whose INSERT was committed but not answered is refunded
   by its handler and by the boot reaper (`ai/src/routes/social.ts:365`).
7. `PinService!HeldIsPinned`, `PinService_checks`: a pin added during another user's delete is lost
   (`openapi/go/api_pins_service_postgres.go:379`).
8. `Accounts!GoneForGood`, `Accounts_checks`: a key made between two statements of a profile's deletion
   keeps its `sessions` row, which the pinning service accepts (`database/postgres.ts:470`;
   `API.md:709`: "Delete user account and all data.").
9. `Accounts!NoCycle`, `Accounts_checks`: two sign-ins with each other's codes at once both pass the
   "Cycle guard" and both link (`database/postgres.ts:186`).
10. `Questions!FailedIsRefunded`, `AiService_checks`: `fs.mkdirSync` throws between the deduction and the
    block that refunds (`ai/src/routes/ask.ts:123`).
11. `Directory!WithdrawnStaysOut`, `AiService_checks`: withdrawing a website writes its completed builds
    only, so that one under way lists it again (`ai/src/database/directory_postgres.ts:302`; the
    comment at 288: "Consent is per website, so the write is too.").
12. `Directory!GrouplessIsAlone`, `AiService_checks`: "A row with no group IS its own group"
    (`generate.ts:455`), but another row's group, any text of the client's, may be its id.
13. `Directory!NotBehindCache`, `AiService_checks`: a page looked up before the switch is stored after the
    cache was cleared (`ai/src/routes/directory.ts:207`; `generate.ts:464`: "a toggle the user just
    made must not sit behind a 60s TTL").
14. `Directory!ToggleClears`, `AiService_checks`: the statement after the committed switch fails, and the
    handler ends before it clears (`generate.ts:551`; the same comment).
15. `PinsPage!DownloadIsFile`, `Files_checks`: a pin that is downloaded by its CID is saved as the bucket
    has it, envelope and all (`src/pages/Pins.tsx:440`, which calls `getDecryptedByStorageKey`;
    `encryptionService.ts:952`: it "does NOT decrypt files").
16. `PinsPage!KeyGone`, `Files_checks`: a request that is under way at logout touches or stores the key
    after `clearAllKeys` (`src/services/secureStorage.ts:184`).

Others were met while modelling. The models take these steps; no property is devoted to them:

- deposits: a claim is recorded and its credit fails, and the transfer can never be credited
  again; a wallet can be linked by two users at once, and either may be credited;
- x402: a payment settled whose answer is lost leaves the log at `verified` or `failed`, and the
  cleanup removes the paid object; a restart leaves `verified` rows that phase 1 never looks
  for; an upload whose tracking failed is never cleaned; `s3Proxy.ts:261` credits before the
  settlement; an error after `settled` can relabel the payment `failed`;
- collaboration: tabs write back what they loaded without a version although
  `Collab.tsx:81` calls it "always up-to-date"; the first tab to synchronise becomes the creator,
  and blobs uploaded before lie elsewhere; so do blobs whose upload could not look the creator's key
  up, as the session user's is taken then (`server/app.ts:3491`); DELETE does not ask whether the
  entry is still in the manifest (`:3648`);
- AI: refunds are positive adjustments, on which referral bonuses are paid; websites in the queue
  at a restart are neither finished nor refunded;
- pins: an import that finishes after its row was deleted leaves its CID pinned; replacing a pin
  never unpins the old one, though the API's description says that it is deleted; a time-out
  leaves rows `queued` or `pinning` because the failure is recorded with the expired context; a
  late status write revives a deleted row; concurrent requests insert two rows for one CID;
- accounts: a profile cannot be deleted by anyone who referred or was referred (the foreign key
  answers 500), and when it can, other browsers stay signed in; `/auth/sign-in` mints a key that no table has; a key
  deleted between the two statements that make it stays in `sessions`, and a fault between them
  leaves a listed key that the pinning service never accepts (`database/postgres.ts:364`);
- questions: a key that is used again after a failure or after its hour, or that exceeds 36
  characters, fails the log's INSERT: the answer is refunded, and stays in the cache, from where
  the next request has it for nothing; of two first questions at once one fails;
- directory: a removal through the web UI server leaves pages cached for up to 60 s; restoring
  through the AI service touches the build that is named only; two summaries of a website at once
  both call the model;
- files: a download by storage key decrypts one block of the gateway's, whatever the file's shape
  (`Pins.tsx:275`); workers a cancelled download left behind report "aborted" into the next run; a network
  error in the right bucket ends as "not found"; adding a pin and searching fetch the page that
  was current before; `toggleSelectAll` compares sizes only; the selection is cleared whatever the
  removal answered; a legacy plaintext manifest that is stored over an encrypted one is never
  seen; the gateway lets requests through when its database cannot be asked;
- connector: two overlapping first calls may replace a FULA-id that was shown (the code names it
  as a known limitation), also when the first is a callback that gave up waiting after 4 s; the header of
  `capability.ts` says that custody is by user, the code has user and client; "Finish" in one tab
  completes whichever AI's cookie is there; `gcExpiredMcpRevocations` and `gcExpiredGrants` have no
  caller; the list of revoked tokens drops one at its exp, though verification tolerates two
  minutes more (`postgres.ts:853`), which matters to the storage gateway only.

Hazards of a smaller kind that `PROJECT.json` does not list: rounding of REAL balances
(`001_initial_schema.sql:135`), a claim that is recorded and not credited (`app.ts:4191`), a key per
transaction where a transaction may hold two transfers (`blockScanner.ts:181`), rows that stay
`verified` after a restart (`ephemeralObjects.ts:79`), a failure recorded with the expired context
(`api_pins_service_postgres.go:277`), an INSERT of a post that was committed and not answered
(`social.ts:365`), the answer of a refunded question served from the cache for an hour
(`ask.ts:137`). The models take these steps but the first and the third, which are abstractions
(integers, one transfer per transaction).

## 9. What is not modelled

| part | why |
|---|---|
| credit status, billing windows, storage accounting | queries only; their answers are free choices where handlers consult them |
| invites and comments | statements on rows of their own that no other handler reads |
| connector: content and encryption | pure conversions and cryptography |
| the fula client (WASM) | not in the repository: what opens a share or decrypts an object inside it gives content or an error |
| AI service: captions, prices, publishing | remote calls without state of their own; the jobs and questions take each for done or failed |
| x402 prices, discovery, signatures | arithmetic and request signing |
| Go service: sessions, users, middleware | identity is settled before the modelled handlers; what they read, `sessions`, is written by Accounts |
| Go service: administrator's batch and size endpoints | a monitor that is not in the repository may set any status of any row through them: with them, nothing could be said of `pins.status`. For this reason the pinning service counts as partly modelled |
| Go service: checks of a CAR | a pure function of a file's bytes |
| SQLite and Firestore variants | earlier back ends of the handlers modelled on PostgreSQL |
| other pages of the front end | routing and display of what the modelled handlers answer |
| migrations, deployment, scripts | schema and set-up, mapped where a constraint matters |
| liveness of accounts, files and the connector | nothing there is retried by itself: a request ends or its browser gives up |

Abstractions inside the modelled parts: amounts are integers (the columns are REAL, see the
hazard at `001_initial_schema.sql:135`), one chain and one transfer per transaction, one user of
the AI jobs and of the questions, one connection's tokens expire together, and wording, sizes, names and encryption
have no state.

## 10. What remains

The modules were written in the order of section 2, each with its run, then its proofs. What a
next version of this project would add:

1. the monitor's batch updates in PinService, once the monitor's side is known;
2. several transfers in a transaction in DepositIngestion (the key is per transaction);
3. fairness and liveness of the scanner when statements fail, if the code comes to retry them.
