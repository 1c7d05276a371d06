-------------------------- MODULE DepositIngestion --------------------------
(***************************************************************************)
(* How FULA transfers to the vault become credit: the block scanner        *)
(* (pinning-webui/server/services/blockScanner.ts), the administrator's    *)
(* scan-blocks route, the two claim routes and the wallet routes of        *)
(* app.ts.  They share the tables token_transactions, user_wallets and     *)
(* chain_sync_state, each statement being a transaction of its own, and    *)
(* all of them end in creditUser, which is atomic (module CreditLedger).   *)
(*                                                                         *)
(* One enabled chain; a transaction holds one transfer to the vault.       *)
(***************************************************************************)
EXTENDS Integers, FiniteSets, Sequences

CONSTANTS
  User, NoUser, Wallet, NoWallet,
  Tx, NoTx,
  Sender,      \* the wallet a transaction transfers from
  Block,       \* the block it is mined in
  Dust,        \* transactions of less than 0.001 FULA
  Links0,      \* user_wallets at the start
  Cron,        \* runs of the interval timer
  Admin,       \* calls of POST /api/admin/scan-blocks
  Claimer,     \* calls of POST /api/credits/claim and /api/v1/credits/claim
  Linker,      \* calls of POST /api/wallets/connect and /api/v1/wallets/link
  MaxFaults    \* bound: failed statements and server crashes

ASSUME DepositAssumption ==
  /\ NoUser \notin User /\ NoTx \notin Tx /\ NoWallet \notin Wallet
  /\ Sender \in [Tx -> Wallet]
  /\ Block \in [Tx -> Nat \ {0}]
  /\ Dust \subseteq Tx
  /\ Links0 \subseteq User \X Wallet
  /\ Cron \cap Admin = {}
  /\ MaxFaults \in Nat

VARIABLES
  head,          \* the chain's newest block
  lastScanned,   \* chain_sync_state.last_scanned_block
  wallets,       \* user_wallets: verified <<user, wallet>> links
  row,           \* token_transactions: the row of a transaction
  paid,          \* the calls of creditUser made for a transaction
  scan,          \* the scanners
  claim,         \* the claim requests
  link,          \* the connect requests
  lost,          \* history: transactions a failure keeps from their credit
  faults

vars == <<head, lastScanned, wallets, row, paid, scan, claim, link, lost, faults>>

Scanner == Cron \cup Admin
Owners(w) == {u \in User : <<u, w>> \in wallets}
Newest(t, txs) == t \in txs /\ \A x \in txs : Block[x] <= Block[t]

IdleScan  == [pc |-> "idle", todo |-> {}, missed |-> {}, max |-> 0, tx |-> NoTx, user |-> NoUser]
NewClaim  == [pc |-> "new", user |-> NoUser, tx |-> NoTx, existing |-> FALSE]
NewLink   == [pc |-> "new", user |-> NoUser, wallet |-> NoWallet]
NoRow     == [status |-> "none", user |-> NoUser]

Init ==
  /\ head = 0 /\ lastScanned = 0 /\ wallets = Links0
  /\ row   = [t \in Tx |-> NoRow]
  /\ paid  = [t \in Tx |-> <<>>]
  /\ scan  = [s \in Scanner |-> IdleScan]
  /\ claim = [c \in Claimer |-> NewClaim]
  /\ link  = [l \in Linker |-> NewLink]
  /\ lost = {} /\ faults = 0

Mine ==
  /\ (\E t \in Tx : head < Block[t]) /\ head' = head + 1
  /\ UNCHANGED <<lastScanned, wallets, row, paid, scan, claim, link, lost, faults>>

-----------------------------------------------------------------------------
(* The scanners                                                            *)

\* Mutant: the block after the last scanned one is skipped.
FetchedLate(upto) == {t \in Tx : lastScanned + 1 < Block[t] /\ Block[t] <= upto}

\* getEnabledChains and the fetch: the transfers of every block after the
\* last scanned one, or, after an error, of only the first of them.
Fetched(upto) == {t \in Tx : lastScanned < Block[t] /\ Block[t] <= upto}

\* A chunk of eth_getLogs that is answered with neither an error nor a result
\* (resp.ok is not looked at) counts as empty, and the chunks after it are
\* still read.
InSilence(upto, silent) == {t \in Fetched(upto) : Block[t] \in silent}

\* scanChain with the transfers it got; empty chunks may hide others.
Begin(got, hidden, t) ==
  [IdleScan EXCEPT !.pc = "next", !.todo = got, !.max = Block[t],
                   !.missed = {x \in hidden : Block[x] < Block[t]}]

\* The interval's tick, skipped while a scan is running (isScanning).  A scan
\* without transfers changes nothing.
CronStart(s) ==
  /\ \A c \in Cron : scan[c].pc = "idle"
  /\ \E upto \in lastScanned..head, silent \in SUBSET (1..head) :
       /\ silent = {} \/ faults < MaxFaults
       /\ faults' = IF silent = {} THEN faults ELSE faults + 1
       /\ \E t \in Fetched(upto) \ InSilence(upto, silent) :
            /\ Newest(t, Fetched(upto) \ InSilence(upto, silent))
            /\ scan' = [scan EXCEPT ![s] = Begin(Fetched(upto) \ InSilence(upto, silent),
                                                 InSilence(upto, silent), t)]
  /\ UNCHANGED <<head, lastScanned, wallets, row, paid, claim, link, lost>>

\* The blocks an administrator names; one that is answered without a result is
\* passed over like one that is not named.
AdminStart(s) ==
  /\ scan[s].pc = "idle"
  /\ \E blocks \in (SUBSET (1..head)) \ {{}} :
       scan' = [scan EXCEPT ![s] = [IdleScan EXCEPT !.pc = "next",
                                    !.todo = {t \in Tx : Block[t] \in blocks}]]
  /\ UNCHANGED <<head, lastScanned, wallets, row, paid, claim, link, lost, faults>>

\* The scanner's list is in the order of the blocks, an administrator's not.
IsNext(s, t) ==
  /\ t \in scan[s].todo
  /\ s \in Cron => \A x \in scan[s].todo : Block[t] <= Block[x]

\* processTransfer: dust is skipped, a transaction that has a row already too
\* (ON CONFLICT DO NOTHING).
ScanInsert(s, t) ==
  /\ scan[s].pc = "next" /\ IsNext(s, t)
  /\ IF t \in Dust \/ row[t].status # "none"
     THEN /\ scan' = [scan EXCEPT ![s].todo = @ \ {t}]
          /\ UNCHANGED row
     ELSE /\ row'  = [row EXCEPT ![t].status = "unclaimed"]
          /\ scan' = [scan EXCEPT ![s].todo = @ \ {t}, ![s].pc = "lookup", ![s].tx = t]
  /\ UNCHANGED <<head, lastScanned, wallets, paid, claim, link, lost, faults>>

Done(s) == [scan EXCEPT ![s].pc = "next", ![s].tx = NoTx, ![s].user = NoUser]

\* The sender's account: the first row of a query without an order.
ScanLookup(s) ==
  /\ scan[s].pc = "lookup"
  /\ \/ /\ Owners(Sender[scan[s].tx]) = {}
        /\ scan' = Done(s)
     \/ \E u \in Owners(Sender[scan[s].tx]) :
          scan' = [scan EXCEPT ![s].pc = "credit", ![s].user = u]
  /\ UNCHANGED <<head, lastScanned, wallets, row, paid, claim, link, lost, faults>>

\* creditUser commits.
Pay(t, u, how) == paid' = [paid EXCEPT ![t] = Append(@, [user |-> u, how |-> how])]

ScanCredit(s) ==
  /\ scan[s].pc = "credit"
  /\ Pay(scan[s].tx, scan[s].user, "inserted")
  /\ scan' = [scan EXCEPT ![s].pc = "mark"]
  /\ UNCHANGED <<head, lastScanned, wallets, row, claim, link, lost, faults>>

ScanMark(s) ==
  /\ scan[s].pc = "mark"
  /\ row'  = [row EXCEPT ![scan[s].tx] = [status |-> "claimed", user |-> scan[s].user]]
  /\ scan' = Done(s)
  /\ UNCHANGED <<head, lastScanned, wallets, paid, claim, link, lost, faults>>

\* A statement of processTransfer fails; the error is caught and the scan
\* goes on with the next transfer.  Nobody comes back to a row without a
\* credit, nor the timer to a block it has saved.
ScanFail(s) ==
  /\ faults < MaxFaults /\ faults' = faults + 1
  /\ \/ \E t \in scan[s].todo \ Dust :
          /\ scan[s].pc = "next" /\ IsNext(s, t)
          /\ scan' = [scan EXCEPT ![s].todo = @ \ {t}, ![s].missed = @ \cup {t}]
          /\ UNCHANGED lost
     \/ /\ scan[s].pc \in {"lookup", "credit"}
        /\ scan' = Done(s) /\ lost' = lost \cup {scan[s].tx}
     \/ /\ scan[s].pc = "mark"
        /\ scan' = Done(s) /\ UNCHANGED lost
  /\ UNCHANGED <<head, lastScanned, wallets, row, paid, claim, link>>

Unseen(s) == {t \in scan[s].missed : row[t].status = "none"}

\* Mutant: the block is saved before its transfers are processed.
CronEndEarly(s) ==
  /\ scan[s].pc = "next" /\ lastScanned' = scan[s].max
  /\ lost' = lost \cup Unseen(s)
  /\ scan' = IF scan[s].todo = {} THEN [scan EXCEPT ![s] = IdleScan] ELSE scan
  /\ UNCHANGED <<head, wallets, row, paid, claim, link, faults>>

\* updateLastScannedBlock, with the newest block that had a transfer.
CronEnd(s) ==
  /\ scan[s].pc = "next" /\ scan[s].todo = {}
  /\ lastScanned' = scan[s].max
  /\ lost' = lost \cup Unseen(s)
  /\ scan' = [scan EXCEPT ![s] = IdleScan]
  /\ UNCHANGED <<head, wallets, row, paid, claim, link, faults>>

\* The statement that saves the block fails.
CronEndFails(s) ==
  /\ scan[s].pc = "next" /\ scan[s].todo = {}
  /\ faults < MaxFaults /\ faults' = faults + 1
  /\ scan' = [scan EXCEPT ![s] = IdleScan]
  /\ UNCHANGED <<head, lastScanned, wallets, row, paid, claim, link, lost>>

\* The last block is done, or the fetch of the next one fails.
AdminEnd(s) ==
  /\ scan[s].pc = "next"
  /\ \/ scan[s].todo = {} /\ UNCHANGED faults
     \/ scan[s].todo # {} /\ faults < MaxFaults /\ faults' = faults + 1
  /\ scan' = [scan EXCEPT ![s] = IdleScan]
  /\ UNCHANGED <<head, lastScanned, wallets, row, paid, claim, link, lost>>

-----------------------------------------------------------------------------
(* The claim routes                                                        *)

\* "Check if already claimed": the row as it is now decides, much later,
\* between an UPDATE and an INSERT.  A claimed row ends the request.
ClaimRead(c, u, t) ==
  /\ claim[c].pc = "new"
  /\ claim' = [claim EXCEPT ![c] =
                 [pc |-> IF row[t].status = "claimed" THEN "done" ELSE "check",
                  user |-> u, tx |-> t, existing |-> row[t].status # "none"]]
  /\ UNCHANGED <<head, lastScanned, wallets, row, paid, scan, link, lost, faults>>

\* The receipt must be there, be worth more than dust and come from a wallet
\* linked to the account.
ClaimCheck(c) ==
  /\ claim[c].pc = "check"
  /\ claim' = [claim EXCEPT ![c].pc =
       IF /\ Block[claim[c].tx] <= head /\ claim[c].tx \notin Dust
          /\ claim[c].user \in Owners(Sender[claim[c].tx])
       THEN "write" ELSE "done"]
  /\ UNCHANGED <<head, lastScanned, wallets, row, paid, scan, link, lost, faults>>

\* Mutant: an upsert in the place of the INSERT.
ClaimUpsert(c) ==
  /\ claim[c].pc = "write"
  /\ row' = [row EXCEPT ![claim[c].tx] = [status |-> "claimed", user |-> claim[c].user]]
  /\ claim' = [claim EXCEPT ![c].pc = "credit"]
  /\ UNCHANGED <<head, lastScanned, wallets, paid, scan, link, lost, faults>>

\* The UPDATE of a row the request found unclaimed has no condition on
\* claimed_at; the INSERT of one it did not find fails on a row made since.
ClaimWrite(c) ==
  /\ claim[c].pc = "write"
  /\ LET t == claim[c].tx
     IN  IF claim[c].existing \/ row[t].status = "none"
         THEN /\ row' = [row EXCEPT ![t] = [status |-> "claimed", user |-> claim[c].user]]
              /\ claim' = [claim EXCEPT ![c].pc = "credit"]
         ELSE /\ claim' = [claim EXCEPT ![c].pc = "done"]
              /\ UNCHANGED row
  /\ UNCHANGED <<head, lastScanned, wallets, paid, scan, link, lost, faults>>

ClaimCredit(c) ==
  /\ claim[c].pc = "credit"
  /\ Pay(claim[c].tx, claim[c].user, IF claim[c].existing THEN "updated" ELSE "inserted")
  /\ claim' = [claim EXCEPT ![c].pc = "done"]
  /\ UNCHANGED <<head, lastScanned, wallets, row, scan, link, lost, faults>>

\* Any await of the handler fails: 500, and nothing is undone.
ClaimFail(c) ==
  /\ claim[c].pc \in {"check", "write", "credit"}
  /\ faults < MaxFaults /\ faults' = faults + 1
  /\ claim' = [claim EXCEPT ![c].pc = "done"]
  /\ lost' = IF claim[c].pc = "credit" THEN lost \cup {claim[c].tx} ELSE lost
  /\ UNCHANGED <<head, lastScanned, wallets, row, paid, scan, link>>

-----------------------------------------------------------------------------
(* Wallets                                                                 *)

\* The signature is good; is the wallet "already linked to a DIFFERENT
\* user"?  Only the first row found is looked at.
LinkCheck(l, u, w) ==
  /\ link[l].pc = "new"
  /\ \E free \in {o = u : o \in IF Owners(w) = {} THEN {u} ELSE Owners(w)} :
       link' = [link EXCEPT ![l] = [pc |-> IF free THEN "write" ELSE "done",
                                    user |-> u, wallet |-> w]]
  /\ UNCHANGED <<head, lastScanned, wallets, row, paid, scan, claim, lost, faults>>

LinkWrite(l) ==
  /\ link[l].pc = "write"
  /\ wallets' = wallets \cup {<<link[l].user, link[l].wallet>>}
  /\ link' = [link EXCEPT ![l].pc = "done"]
  /\ UNCHANGED <<head, lastScanned, row, paid, scan, claim, lost, faults>>

\* unlinkWallet removes the account's rows of the wallet on every chain.
Unlink(u, w) ==
  /\ <<u, w>> \in wallets
  /\ wallets' = wallets \ {<<u, w>>}
  /\ UNCHANGED <<head, lastScanned, row, paid, scan, claim, link, lost, faults>>

-----------------------------------------------------------------------------
\* The server stops; everything it was doing is forgotten.
Crash ==
  /\ faults < MaxFaults /\ faults' = faults + 1
  /\ scan'  = [s \in Scanner |-> IdleScan]
  /\ claim' = [c \in Claimer |-> IF claim[c].pc = "new" THEN claim[c]
                                 ELSE [claim[c] EXCEPT !.pc = "done"]]
  /\ link'  = [l \in Linker |-> IF link[l].pc = "new" THEN link[l]
                                ELSE [link[l] EXCEPT !.pc = "done"]]
  /\ lost' = lost \cup {scan[s].tx : s \in {x \in Scanner : scan[x].pc \in {"lookup", "credit"}}}
                  \cup {claim[c].tx : c \in {x \in Claimer : claim[x].pc = "credit"}}
  /\ UNCHANGED <<head, lastScanned, wallets, row, paid>>

ScanStep(s) ==
  \/ \E t \in Tx : ScanInsert(s, t)
  \/ ScanLookup(s) \/ ScanCredit(s) \/ ScanMark(s)

CronStep(s)  == CronStart(s) \/ ScanStep(s) \/ CronEnd(s)
ClaimStep(c) ==
  \/ \E u \in User, t \in Tx : ClaimRead(c, u, t)
  \/ ClaimCheck(c) \/ ClaimWrite(c) \/ ClaimCredit(c)
LinkStep(l)  == (\E u \in User, w \in Wallet : LinkCheck(l, u, w)) \/ LinkWrite(l)

Next ==
  \/ Mine
  \/ \E s \in Cron : CronStep(s) \/ CronEndFails(s) \/ ScanFail(s)
  \/ \E s \in Admin : AdminStart(s) \/ ScanStep(s) \/ AdminEnd(s) \/ ScanFail(s)
  \/ \E c \in Claimer : ClaimStep(c) \/ ClaimFail(c)
  \/ \E l \in Linker : LinkStep(l)
  \/ \E u \in User, w \in Wallet : Unlink(u, w)
  \/ Crash

Spec == Init /\ [][Next]_vars

\* The timer keeps firing, blocks keep being mined, and again and again the
\* explorer answers with everything there is.
FullScan(s) == CronStart(s) /\ scan'[s].todo = Fetched(head)
Fairness ==
  /\ WF_vars(Mine)
  /\ \A s \in Cron : SF_vars(FullScan(s)) /\ WF_vars(ScanStep(s)) /\ WF_vars(CronEnd(s))
  /\ \A s \in Admin : WF_vars(ScanStep(s))
  /\ \A c \in Claimer : WF_vars(ClaimCheck(c) \/ ClaimWrite(c) \/ ClaimCredit(c))

FairSpec == Spec /\ Fairness

-----------------------------------------------------------------------------
(* Properties                                                              *)

\* Every variable has its type.
TypeOK ==
  /\ head \in Nat /\ lastScanned \in Nat /\ faults \in Nat
  /\ wallets \subseteq User \X Wallet
  /\ row \in [Tx -> [status : {"none", "unclaimed", "claimed"}, user : User \cup {NoUser}]]
  /\ paid \in [Tx -> Seq([user : User, how : {"inserted", "updated"}])]
  /\ scan \in [Scanner -> [pc : {"idle", "next", "lookup", "credit", "mark"},
                           todo : SUBSET Tx, missed : SUBSET Tx, max : Nat, tx : Tx \cup {NoTx},
                           user : User \cup {NoUser}]]
  /\ claim \in [Claimer -> [pc : {"new", "check", "write", "credit", "done"},
                            user : User \cup {NoUser}, tx : Tx \cup {NoTx},
                            existing : BOOLEAN]]
  /\ link \in [Linker -> [pc : {"new", "write", "done"}, user : User \cup {NoUser},
                          wallet : Wallet \cup {NoWallet}]]
  /\ lost \subseteq Tx

\* Whoever pays for a transaction because it made the row is alone in that:
\* the unique key of token_transactions decides between the timer's scanner,
\* an administrator's and the claims that found no row.
OneInserterPays ==
  \A t \in Tx :
    Cardinality({i \in DOMAIN paid[t] : paid[t][i].how = "inserted"}) <= 1

\* No transfer below the saved block is forgotten, though blocks arrive
\* while the scanner runs and fetches break off: it has a row, or the timer
\* passed it because the answer about its block was empty or because the
\* statement that should have made its row failed.
NothingSkipped ==
  \A t \in Tx \ Dust :
    Block[t] <= lastScanned => row[t].status # "none" \/ t \in lost

\* "The block scanner ... credits your account when it sees your transfer"
\* (docs/cloud-users/billing.md): what the timer leaves behind has a row.
\* Does not hold (README, section 8).
NothingMissed ==
  \A t \in Tx \ Dust : Block[t] <= lastScanned => row[t].status # "none"

\* A transaction is credited at most once.
PaidOnce == \A t \in Tx : Len(paid[t]) <= 1

\* A transfer from a wallet that stays linked is credited, whatever fails on
\* other transfers: only a failure that falls upon this one can keep the
\* scanner from it.
LinkedDepositsCredited ==
  \A t \in Tx \ Dust :
    [](Owners(Sender[t]) # {} /\ t \notin lost) => <>(paid[t] # <<>>)
=============================================================================
