------------------------------ MODULE AiService ------------------------------
(***************************************************************************)
(* The part of the AI service that Questions and Directory model, as one   *)
(* process that stops and starts (index.ts, app.ts): questions that are    *)
(* paid, and websites that are built and listed.                           *)
(***************************************************************************)
EXTENDS Questions, Directory

CONSTANTS
  MaxRequests, \* bound: requests
  MaxFailures   \* bound: failed calls and statements, stops, pruned sources

ASSUME ServiceAssumption == MaxRequests \in Nat /\ MaxFailures \in Nat

VARIABLES requests, failures

serviceVars == <<qvars, dvars, requests, failures>>

ServiceInit == QInit /\ DInit /\ requests = 0 /\ failures = 0

Request == requests < MaxRequests /\ requests' = requests + 1 /\ UNCHANGED failures
ServiceFault == failures < MaxFailures /\ failures' = failures + 1 /\ UNCHANGED requests
NoCount == UNCHANGED <<requests, failures>>

\* Requests take the next free handler.
NextCall == CHOOSE i \in Call : Fresh(i) /\ \A j \in Call : Fresh(j) => i <= j
NextAsk == CHOOSE r \in Ask : ask[r].pc = "new" /\ \A s \in Ask : ask[s].pc = "new" => r <= s
FreeBuild == CHOOSE b \in Build : build[b].status = "none"

Visitors(i) ==
  \/ \E f \in Slug \cup {All} : Visit(i, f)
  \/ \E b \in Rows : Report(i, b)

\* Any text of up to 200 characters, or none: a tag, the empty text, or the id of
\* a build, whoever it belongs to. Ids are random: nobody knows one before its row
\* is there.
Groups == {g \in Text \cup {None} : g \in Build => g \in Rows}

Owners(i) ==
  \E o \in Owner :
    \/ \E b \in Rows, on \in BOOLEAN : ToggleById(i, o, b, on)
    \/ \E g \in {build[b].group : b \in Rows} \ {None, Empty}, on \in BOOLEAN : ToggleByGroup(i, o, g, on)
    \/ /\ Rows # Build
       /\ \E g \in Groups, on \in BOOLEAN, cid \in {build[b].cid : b \in Done} \cup {None} :
            Generate(i, FreeBuild, o, g, on, cid)

Administrators(i) ==
  \/ \E b \in Rows, restore \in BOOLEAN : Delist(i, b, restore)
  \/ \E b \in Rows, restore \in BOOLEAN : RemoveSite(i, b, restore)
  \/ \E s \in Slug, on \in BOOLEAN : UpsertCategory(i, s, on)

\* A process that stops takes both halves with it, and the next one starts.
Restart == StopAsks /\ StopDirectory

AskNext ==
  /\ UNCHANGED dvars
  /\ \/ Request /\ \E k \in IdempotencyKey, n \in Files : QArrive(NextAsk, k, n)
     \/ NoCount /\ \E r \in Ask : AskStep(r)
     \/ ServiceFault /\ \E r \in Ask : AskFault(r)
     \/ NoCount /\ \E k \in IdempotencyKey : CleanupExpired(k)

DirectoryNext ==
  /\ UNCHANGED qvars
  /\ \/ Request /\ (Visitors(NextCall) \/ Owners(NextCall) \/ Administrators(NextCall))
     \/ NoCount /\ DirectoryStep
     \/ NoCount /\ \E i \in 1..MaxPages : Expire(i)
     \/ ServiceFault /\ ((\E b \in Build : PruneSource(b)) \/ (\E i \in Call : DetailsFail(i)))

ServiceNext == AskNext \/ DirectoryNext \/ (ServiceFault /\ Restart)

ServiceSpec == ServiceInit /\ [][ServiceNext]_serviceVars

ServiceTypeOK == QTypeOK /\ DTypeOK /\ requests \in 0..MaxRequests /\ failures \in 0..MaxFailures
=============================================================================
