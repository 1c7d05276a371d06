------------------------------ MODULE Directory ------------------------------
(***************************************************************************)
(* Websites of the AI service and the public directory they may be listed  *)
(* in: builds and revisions (ai/src/routes/generate.ts, generationService, *)
(* claudeService, revisionPlan), the listing and its 60 s cache            *)
(* (routes/directory.ts, directory_postgres.ts), the owners' switches,     *)
(* reports, the blurbs a model writes (directoryListing.ts), and removal   *)
(* by an administrator, through this service and through the web UI        *)
(* server, which shares the database but not the cache (app.ts).           *)
(*                                                                         *)
(* Every build of a website is a row of ai_generations. The name and link  *)
(* of an entry are data; credits of a build are in AiJobs. One visitor's   *)
(* address sends all reports.                                              *)
(***************************************************************************)
EXTENDS Integers, Sequences, FiniteSets, SequencesExt

CONSTANTS
  Build,       \* ids of rows, which are also text a client may send
  Owner,       \* users
  Text,        \* texts clients send as a website's group
  Empty,       \* the empty one
  Slug,        \* categories
  Call,        \* requests
  All,         \* no category
  None,
  MaxReports,  \* MAX_REPORTS_PER_IP_PER_DAY
  MaxPages,    \* LISTING_CACHE_MAX_ENTRIES
  First        \* the tables of rows there may be at the start

ASSUME DirectoryAssumption ==
  /\ MaxReports \in Nat /\ MaxPages \in Nat \ {0}
  /\ All \notin Slug /\ None \notin Build \cup Text \cup Slug \cup Owner
  /\ IsFiniteSet(Build)

VARIABLES
  build,      \* ai_generations
  task,       \* ensureListingSummary: by the worker of a build, or by a request
  call,       \* where the handler of each request is
  active,     \* directory_categories that are active
  report,     \* directory_reports: by request
  cache,      \* listingCache, oldest first
  \* history: what owners and administrators have asked for
  clears,     \* how often the cache was cleared
  removed,    \* websites removed by an administrator and not restored
  withdrawn,  \* websites whose owner switched listing off, and not on again
  late,       \* builds under way when their website was taken out
  uncleared   \* websites whose switch failed half way, since the cache was last cleared

dvars == <<build, task, call, active, report, cache, clears, removed, withdrawn, late, uncleared>>
history == <<clears, removed, withdrawn, late, uncleared>>

Statuses == {"none", "pending", "built", "completed", "error", "stuck"}
NewBuild == [status |-> "none", owner |-> None, group |-> None, listed |-> FALSE,
             delisted |-> FALSE, at |-> 0, base |-> None, cid |-> None,
             source |-> FALSE, wanted |-> FALSE, category |-> None]
NewCall == [pc |-> "new", b |-> None, on |-> FALSE, page |-> {}, filter |-> All, since |-> 0]
NewTask == [pc |-> "none", b |-> None, from |-> {}]

\* Rows that earlier requests have left, whose jobs have ended.
ASSUME TablesAssumption ==
  \A t \in First :
    /\ t \in [Build -> [status : {"none", "completed", "error", "stuck"}, owner : Owner \cup {None},
                       group : Text \cup {None}, listed : BOOLEAN, delisted : BOOLEAN,
                       at : 0..Cardinality(Build), base : Build \cup {None}, cid : Build \cup {None},
                       source : BOOLEAN, wanted : BOOLEAN, category : Slug \cup {None}]]
    /\ \A b, c \in Build : t[b].status # "none" /\ t[b].group = c => t[c].status # "none"

DInit ==
  /\ build \in First
  /\ task = [w \in Build \cup Call |-> NewTask]
  /\ call = [i \in Call |-> NewCall]
  /\ active = Slug
  /\ report = [i \in Call |-> [on |-> None, open |-> FALSE]]
  /\ cache = <<>>
  /\ clears = 0 /\ removed = {} /\ withdrawn = {} /\ late = {} /\ uncleared = {}

Set(B, f, v) == build' = [b \in Build |-> IF b \in B THEN [build[b] EXCEPT ![f] = v] ELSE build[b]]
Step(i, pc) == call' = [call EXCEPT ![i].pc = pc]
Ended(pc) == [NewCall EXCEPT !.pc = pc]
End(i, pc) == call' = [call EXCEPT ![i] = Ended(pc)]
Fresh(i) == call[i].pc = "new"
Rows == {b \in Build : build[b].status # "none"}
Done == {b \in Build : build[b].status = "completed"}
InProgress == {b \in Build : build[b].status \in {"pending", "built"}}
Newest(B) == CHOOSE b \in B : \A c \in B : build[c].at <= build[b].at

-----------------------------------------------------------------------------
(* What a website is and what the directory shows                          *)

\* OWNER_SCOPED_GROUP_KEY
GroupKey(b) == <<build[b].owner, IF build[b].group = None THEN b ELSE build[b].group>>
SameSite(b) == {c \in Rows : GroupKey(c) = GroupKey(b)}

\* Mutant: the flags of each build by itself.
VisibleAlone(b) == build[b].listed /\ ~build[b].delisted

Visible(b) == (\E c \in SameSite(b) \cap Done : build[c].listed)
              /\ ~(\E c \in SameSite(b) \cap Done : build[c].delisted)
Shown == {b \in Done : Visible(b) /\ build[b].listed
                       /\ b = Newest({c \in SameSite(b) \cap Done : build[c].listed})}
ListDirectory(filter) == {b \in Shown : filter = All \/ build[b].category = filter}
IsPubliclyListed(b) == b \in Rows /\ Visible(b)

Cached(filter) == {i \in DOMAIN cache : cache[i].filter = filter}

\* cacheListing: a full cache loses its oldest page first; a key keeps its place.
Store(page) ==
  LET kept == IF Len(cache) >= MaxPages THEN Tail(cache) ELSE cache IN
  cache' = IF \E i \in DOMAIN kept : kept[i].filter = page.filter
           THEN [i \in DOMAIN kept |-> IF kept[i].filter = page.filter THEN page ELSE kept[i]]
           ELSE Append(kept, page)
ClearCache == cache' = <<>> /\ clears' = clears + 1 /\ uncleared' = {}

-----------------------------------------------------------------------------
(* GET /directory and POST /directory/:id/report                           *)

\* A known category, or none; a page in the cache is the answer.
Visit(i, filter) ==
  /\ Fresh(i)
  /\ call' = [call EXCEPT ![i] = IF filter # All /\ filter \notin active THEN Ended("refused")
                                  ELSE IF Cached(filter) # {} THEN Ended("answered")
                                  ELSE [@ EXCEPT !.pc = "query", !.filter = filter]]
  /\ UNCHANGED <<build, task, active, report, cache, history>>

QueryPage(i) ==
  /\ call[i].pc = "query"
  /\ call' = [call EXCEPT ![i].pc = "page", ![i].page = ListDirectory(call[i].filter), ![i].since = clears]
  /\ UNCHANGED <<build, task, active, report, cache, history>>

CachePage(i) ==
  /\ call[i].pc = "page"
  /\ Store([filter |-> call[i].filter, page |-> call[i].page, since |-> call[i].since])
  /\ End(i, "answered")
  /\ UNCHANGED <<build, task, active, report, history>>

Expire(i) ==
  /\ i \in DOMAIN cache
  /\ cache' = RemoveAt(cache, i)
  /\ UNCHANGED <<build, task, call, active, report, history>>

\* Visitors know ids from pages they were shown.
Report(i, b) ==
  /\ Fresh(i) /\ b \in Rows
  /\ call' = [call EXCEPT ![i] = IF IsPubliclyListed(b) THEN [@ EXCEPT !.pc = "count", !.b = b] ELSE Ended("refused")]
  /\ UNCHANGED <<build, task, active, report, cache, history>>

Reports == {i \in Call : report[i].on # None}

CountReports(i) ==
  /\ call[i].pc = "count"
  /\ IF Cardinality(Reports) >= MaxReports THEN End(i, "refused") ELSE Step(i, "report")
  /\ UNCHANGED <<build, task, active, report, cache, history>>

CreateReport(i) ==
  /\ call[i].pc = "report"
  /\ report' = [report EXCEPT ![i] = [on |-> call[i].b, open |-> TRUE]]
  /\ End(i, "answered")
  /\ UNCHANGED <<build, task, active, cache, history>>

-----------------------------------------------------------------------------
(* The owner's switch: by id and by group                                  *)

Mine(b, o) == build[b].owner = o
OfGroup(g, o) == {b \in Done : build[b].group = g /\ Mine(b, o)}

ToggleById(i, o, b, on) ==
  /\ Fresh(i) /\ b \in Rows
  /\ call' = [call EXCEPT ![i] = IF Mine(b, o) /\ ~(on /\ build[b].delisted)
                                  THEN [@ EXCEPT !.pc = "set", !.b = b, !.on = on] ELSE Ended("refused")]
  /\ UNCHANGED <<build, task, active, report, cache, history>>

\* getGroupListingRow: the flags folded over the builds, the id of the newest.
ToggleByGroup(i, o, g, on) ==
  /\ Fresh(i)
  /\ LET rows == OfGroup(g, o) IN
     IF rows = {} \/ (on /\ \E b \in rows : build[b].delisted)
     THEN End(i, "refused")
     ELSE call' = [call EXCEPT ![i].pc = "set", ![i].b = Newest(rows), ![i].on = on]
  /\ UNCHANGED <<build, task, active, report, cache, history>>

\* Taken out: the builds under way for a website now may still list it later.
Keys(B) == {GroupKey(b) : b \in B}

\* Mutant: the one row that the id names.
SetListedOne(i) ==
  LET b == call[i].b IN
  /\ call[i].pc = "set"
  /\ Set({b}, "listed", call[i].on)
  /\ withdrawn' = IF call[i].on THEN withdrawn \ Keys({b}) ELSE withdrawn \cup Keys({b})
  /\ late' = IF call[i].on THEN late ELSE late \cup {c \in InProgress : GroupKey(c) = GroupKey(b)}
  /\ Step(i, "clear")
  /\ UNCHANGED <<task, active, report, cache, clears, removed, uncleared>>

\* setListedForGroup writes the completed builds, setListed the row by itself:
\* for it a row without a group, or with the empty text, is a website of its own.
Alone(b) == build[b].group \in {None, Empty}
Written(b) == IF Alone(b) THEN {b} ELSE OfGroup(build[b].group, build[b].owner)
SetListed(i) ==
  LET B == Written(call[i].b) IN
  /\ call[i].pc = "set"
  /\ Set(B, "listed", call[i].on)
  /\ withdrawn' = IF call[i].on THEN withdrawn \ Keys(B) ELSE withdrawn \cup Keys(B)
  /\ late' = IF call[i].on THEN late ELSE late \cup {c \in InProgress : GroupKey(c) \in Keys(B)}
  /\ IF B = {} THEN End(i, "refused") ELSE Step(i, "clear")
  /\ UNCHANGED <<task, active, report, cache, clears, removed, uncleared>>

\* The statement that writes the name and the link fails, after the one that
\* switched the listing: the answer is 500, and the cache is not cleared.
DetailsFail(i) ==
  /\ call[i].pc = "clear"
  /\ uncleared' = uncleared \cup {GroupKey(call[i].b)}
  /\ End(i, "failed")
  /\ UNCHANGED <<build, task, active, report, cache, clears, removed, withdrawn, late>>

\* Mutant: the pages that were looked up before stay.
AnswerUncleared(i) ==
  /\ call[i].pc = "clear"
  /\ task' = IF call[i].on /\ call[i].b \in Done
             THEN [task EXCEPT ![i] = [NewTask EXCEPT !.pc = "needed", !.b = call[i].b]] ELSE task
  /\ End(i, "answered")
  /\ UNCHANGED <<build, active, report, cache, history>>

\* The name and the link, clearDirectoryCache, the blurb in the background, the
\* answer.
AnswerToggle(i) ==
  /\ call[i].pc = "clear"
  /\ ClearCache
  /\ task' = IF call[i].on /\ call[i].b \in Done
             THEN [task EXCEPT ![i] = [NewTask EXCEPT !.pc = "needed", !.b = call[i].b]] ELSE task
  /\ End(i, "answered")
  /\ UNCHANGED <<build, active, report, removed, withdrawn, late>>

-----------------------------------------------------------------------------
(* Administrators: this service's route, and the web UI server's           *)

\* POST /directory/admin/:id/delist: the row that the id names.
Delist(i, b, restore) ==
  /\ Fresh(i) /\ b \in Rows
  /\ Set({b}, "delisted", ~restore)
  /\ removed' = IF restore THEN removed \ Keys({b})
                ELSE IF b \in Done THEN removed \cup Keys({b}) ELSE removed
  /\ call' = [call EXCEPT ![i].pc = IF restore THEN "cleared" ELSE "resolve", ![i].b = b]
  /\ UNCHANGED <<task, active, report, cache, clears, withdrawn, late, uncleared>>

Resolve(B) == report' = [i \in Call |-> IF report[i].on \in B THEN [report[i] EXCEPT !.open = FALSE] ELSE report[i]]

ResolveReports(i) ==
  /\ call[i].pc = "resolve"
  /\ Resolve({call[i].b}) /\ Step(i, "cleared")
  /\ UNCHANGED <<build, task, active, cache, history>>

AnswerDelist(i) ==
  /\ call[i].pc = "cleared"
  /\ ClearCache /\ End(i, "answered")
  /\ UNCHANGED <<build, task, active, report, removed, withdrawn, late>>

\* POST /api/admin/directory/:id/delist: the completed builds of the website.
RemoveSite(i, b, restore) ==
  /\ Fresh(i) /\ b \in Rows
  /\ LET B == SameSite(b) \cap Done IN
     IF B = {} THEN End(i, "refused") /\ UNCHANGED <<build, removed>>
     ELSE /\ Set(B, "delisted", ~restore)
          /\ removed' = IF restore THEN removed \ Keys({b}) ELSE removed \cup Keys({b})
          /\ call' = [call EXCEPT ![i] = IF restore THEN Ended("answered") ELSE [@ EXCEPT !.pc = "close", !.b = b]]
  /\ UNCHANGED <<task, active, report, cache, clears, withdrawn, late, uncleared>>

CloseReports(i) ==
  /\ call[i].pc = "close"
  /\ Resolve(SameSite(call[i].b)) /\ End(i, "answered")
  /\ UNCHANGED <<build, task, active, cache, history>>

UpsertCategory(i, s, on) ==
  /\ Fresh(i)
  /\ active' = IF on THEN active \cup {s} ELSE active \ {s}
  /\ End(i, "answered")
  /\ UNCHANGED <<build, task, report, cache, history>>

-----------------------------------------------------------------------------
(* Builds: the request, the worker, the model                              *)

\* findRevisionBase: the newest completed build of this user with this CID.
RevisionBase(o, cid) ==
  LET same == {b \in Done : build[b].cid = cid /\ Mine(b, o)} IN
  IF same = {} THEN None ELSE Newest(same)

\* A website from nothing, or a change of one whose source is stored. Nothing
\* to change is answered with the website there is.
Generate(i, b, o, g, on, cid) ==
  LET base == IF cid = None THEN None ELSE RevisionBase(o, cid) IN
  /\ Fresh(i) /\ build[b].status = "none"
  /\ IF cid # None /\ (base = None \/ ~build[base].source)
     THEN End(i, "refused") /\ UNCHANGED <<build, withdrawn>>
     ELSE \/ /\ build' = [build EXCEPT ![b] = [NewBuild EXCEPT !.status = "pending", !.owner = o,
                                                !.group = g, !.listed = on, !.base = base]]
             /\ withdrawn' = IF on THEN withdrawn \ {<<o, IF g = None THEN b ELSE g>>} ELSE withdrawn
             /\ End(i, "answered")
          \/ cid # None /\ End(i, "answered") /\ UNCHANGED <<build, withdrawn>>
  /\ UNCHANGED <<task, active, report, cache, clears, removed, late, uncleared>>

\* generateWebsite: a brief, a build that is tried again when it is cut short or
\* cannot be parsed, a polish that can only improve. Bytes may coincide.
GenerateWebsite(b) == {b} \cup {build[d].cid : d \in Done}

\* reviseWebsite: the base with the files the model returned; or no change.
ReviseWebsite(b) == {b, build[build[b].base].cid}

\* executeJob: what the model may return; nothing when the source is gone.
Results(b) ==
  IF build[b].base = None THEN GenerateWebsite(b)
  ELSE IF build[build[b].base].source THEN ReviseWebsite(b) ELSE {}

\* The worker keeps whether the row asked to be listed when the job began.
BuildSite(b) ==
  /\ build[b].status = "pending"
  /\ \E cid \in Results(b) :
       build' = [build EXCEPT ![b].status = "built", ![b].cid = cid, ![b].wanted = build[b].listed]
  /\ UNCHANGED <<task, call, active, report, cache, history>>

\* saveGenerationFiles, before the row is completed: the source is kept, unless it
\* is too large or the statement fails.
SourceKept == BOOLEAN

\* Published.
CompleteGeneration(b) ==
  /\ build[b].status = "built"
  /\ \E kept \in SourceKept :
       build' = [build EXCEPT ![b].status = "completed", ![b].at = Cardinality(Done) + 1, ![b].source = kept]
  /\ task' = IF build[b].wanted THEN [task EXCEPT ![b] = [NewTask EXCEPT !.pc = "needed", !.b = b]] ELSE task
  /\ UNCHANGED <<call, active, report, cache, history>>

FailGeneration(b) ==
  /\ build[b].status \in {"pending", "built"}
  /\ Set({b}, "status", "error")
  /\ UNCHANGED <<task, call, active, report, cache, history>>

\* External: the stored source of a build is pruned.
PruneSource(b) ==
  /\ build[b].source /\ b \in Done
  /\ Set({b}, "source", FALSE)
  /\ UNCHANGED <<task, call, active, report, cache, history>>

-----------------------------------------------------------------------------
(* ensureListingSummary                                                    *)

SummaryNeeded(b) == build[b].category = None

\* needsListingSummary looks at the row by itself.
VisibleBuild(b) == build[b].listed /\ ~build[b].delisted

\* No blurb was ever made, the row as it is now, and the categories there are.
StillListed(w) ==
  LET b == task[w].b IN
  /\ task[w].pc = "needed"
  /\ task' = [task EXCEPT ![w] = IF SummaryNeeded(b) /\ VisibleBuild(b) /\ active # {}
                                  THEN [@ EXCEPT !.pc = "model", !.from = active] ELSE NewTask]
  /\ UNCHANGED <<build, call, active, report, cache, history>>

\* The page is fetched and the model writes a blurb and picks one of the
\* categories it was offered; either may fail.
SaveSummary(w) ==
  /\ task[w].pc = "model"
  /\ \/ \E s \in task[w].from : build' = [build EXCEPT ![task[w].b].category = s]
     \/ UNCHANGED build
  /\ task' = [task EXCEPT ![w] = NewTask]
  /\ UNCHANGED <<call, active, report, cache, history>>

-----------------------------------------------------------------------------

\* The process stops: its cache, its handlers and its jobs are gone, and the rows
\* of the jobs stay as they are; the web UI server's handlers go on.
StopDirectory ==
  /\ call' = [i \in Call |-> IF call[i].pc \in {"query", "page", "count", "report", "set", "clear", "resolve", "cleared"}
                             THEN Ended("dead") ELSE call[i]]
  /\ task' = [w \in DOMAIN task |-> NewTask]
  /\ build' = [b \in Build |-> IF b \in InProgress THEN [build[b] EXCEPT !.status = "stuck"] ELSE build[b]]
  /\ ClearCache
  /\ UNCHANGED <<active, report, removed, withdrawn, late>>

DirectoryStep ==
  \/ \E i \in Call : \/ QueryPage(i) \/ CachePage(i) \/ CountReports(i) \/ CreateReport(i)
                     \/ SetListed(i) \/ AnswerToggle(i) \/ ResolveReports(i) \/ AnswerDelist(i) \/ CloseReports(i)
  \/ \E b \in Build : BuildSite(b) \/ CompleteGeneration(b) \/ FailGeneration(b)
  \/ \E w \in Build \cup Call : StillListed(w) \/ SaveSummary(w)

-----------------------------------------------------------------------------

\* A website that an administrator has removed is in no listing, whichever of its
\* builds was named, and whatever its owner switches on or builds afterwards,
\* until it is restored (directory_postgres.ts:25-33).
RemovedIsHidden == \A b \in Shown : GroupKey(b) \notin removed

\* A website that its owner took out is in no listing, but for a build that was
\* under way at that time, or a row that SetListed takes for a website of its own
\* and the listing does not (setListedForGroup, directory_postgres.ts:270).
Aliased(b) == \E c, d \in SameSite(b) : c # d /\ Alone(c)
Late(b) == \E c \in SameSite(b) \cap Done : build[c].listed /\ c \in late
WithdrawnUnlessBuilding ==
  \A b \in Done : GroupKey(b) \in withdrawn /\ Visible(b) => Late(b) \/ Aliased(b)

\* ... and no build that was under way lists it again once it is completed: the
\* owner withdrew the whole website (directory_postgres.ts:288). Does not hold
\* (README, section 8).
WithdrawnStaysOut == \A b \in Done : GroupKey(b) \in withdrawn /\ Visible(b) => Aliased(b)

\* ... and no other row shares the website of a row without a group, which "IS
\* its own group" (generate.ts:455). Does not hold either: another row's group
\* may be its id.
GrouplessIsAlone == \A b \in Done : GroupKey(b) \in withdrawn /\ Visible(b) => Late(b)

\* A page that was looked up since the cache was last cleared, and is still
\* there, shows no website all of whose builds were taken out by their owner,
\* unless the switch failed before it could clear the cache. What an
\* administrator removes stays on a page: the web UI server cannot clear this
\* cache (directory.ts:101, generate.ts:466).
Settled(k) == ~\E i \in Call : call[i].pc \in {"set", "clear"} /\ GroupKey(call[i].b) = k
Listed(b) == \E c \in SameSite(b) \cap Done : build[c].listed
CacheIsCurrent ==
  \A i \in DOMAIN cache : \A b \in cache[i].page :
    cache[i].since = clears /\ Settled(GroupKey(b)) /\ GroupKey(b) \notin uncleared => Listed(b)

\* A toggle the user has made does not sit behind the cache (generate.ts:464),
\* also when a page that was looked up before is stored after it. Does not hold
\* (README, section 8) ...
NotBehindCache ==
  \A i \in DOMAIN cache : \A b \in cache[i].page :
    Settled(GroupKey(b)) /\ GroupKey(b) \notin uncleared => Listed(b)

\* ... and also when the handler fails after its UPDATE. Does not hold either.
ToggleClears ==
  \A i \in DOMAIN cache : \A b \in cache[i].page :
    cache[i].since = clears /\ Settled(GroupKey(b)) => Listed(b)

DTypeOK ==
  /\ \A b \in Build :
       /\ build[b].status \in Statuses /\ build[b].owner \in Owner \cup {None}
       /\ build[b].group \in Text \cup {None} /\ build[b].base \in Build \cup {None}
       /\ build[b].category \in Slug \cup {None} /\ build[b].at \in 0..Cardinality(Build)
       /\ build[b].cid \in Build \cup {None}
       /\ {build[b].listed, build[b].delisted, build[b].source, build[b].wanted} \subseteq BOOLEAN
  /\ \A w \in DOMAIN task : task[w].pc \in {"none", "needed", "model"} /\ task[w].from \subseteq Slug
  /\ active \subseteq Slug /\ Len(cache) <= MaxPages
  /\ late \subseteq Build /\ clears \in Nat
=============================================================================
