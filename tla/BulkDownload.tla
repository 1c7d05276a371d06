---------------------------- MODULE BulkDownload ----------------------------
(***************************************************************************)
(* "Download All": every file of every bucket into one ZIP archive         *)
(* (fxFilesBulkDownload.ts, FxBulkDownloadContext.tsx). A pool of workers  *)
(* decrypts files and feeds a queue that the archive is made from; the     *)
(* user may cancel at any time and start again.                            *)
(*                                                                         *)
(* A run is over when start() returns; workers it left behind go on and    *)
(* still report to the panel. The dialog that picks a file is one answer.  *)
(***************************************************************************)
EXTENDS FileStore

CONSTANTS
  Concurrency \* files that are decrypted at once

ASSUME BulkAssumption == Concurrency \in Nat \ {0}

VARIABLES
  bulk,   \* the run under way
  panel,  \* the phase the progress panel shows
  late    \* files whose workers an earlier run left behind

bvars == <<bulk, panel, late>>

NewBulk ==
  [pc |-> "idle", buckets |-> {}, planned |-> {}, todo |-> {}, reads |-> {}, archive |-> {}, failures |-> {},
   done |-> 0, aborted |-> FALSE, picker |-> FALSE]

BInit == bulk = NewBulk /\ panel = "none" /\ late = {}

\* start() lets one run go at a time. An AbortController exists once the token and the buckets are there.
Start(picker) ==
  /\ bulk.pc = "idle"
  /\ bulk' = [NewBulk EXCEPT !.pc = "picking", !.picker = picker, !.buckets = Bucket]
  /\ panel' = "listing" /\ UNCHANGED <<svars, late>>

Return(phase) == bulk' = NewBulk /\ panel' = phase /\ UNCHANGED <<svars, late>>

\* Dismissing the file picker aborts the run; so does a token that cannot be had.
PickNone == bulk.pc = "picking" /\ bulk.picker /\ Return("aborted")
StartFails == bulk.pc = "picking" /\ Return("error")

Pick ==
  /\ bulk.pc = "picking" /\ ~bulk.aborted
  /\ bulk' = [bulk EXCEPT !.pc = "listing"] /\ UNCHANGED <<svars, panel, late>>

\* A cancel before the download begins surfaces in start(), as an error.
CancelledEarly == bulk.pc \in {"picking", "listing"} /\ bulk.aborted /\ Return("error")

Cancel ==
  /\ bulk.pc # "idle" /\ ~bulk.aborted
  /\ bulk' = [bulk EXCEPT !.aborted = TRUE] /\ UNCHANGED <<svars, panel, late>>

Dismiss == panel # "none" /\ panel' = "none" /\ UNCHANGED <<svars, bulk, late>>

ListBucket(b) ==
  /\ bulk.pc = "listing" /\ ~bulk.aborted /\ b \in bulk.buckets
  /\ bulk' = [bulk EXCEPT !.buckets = @ \ {b}, !.planned = @ \cup Listed(ListDecryptedFiles(b))]
  /\ UNCHANGED <<svars, panel, late>>

\* A bucket that cannot be listed is a failure of its own.
BucketUnlisted(b) ==
  /\ bulk.pc = "listing" /\ ~bulk.aborted /\ b \in bulk.buckets
  /\ bulk' = [bulk EXCEPT !.buckets = @ \ {b}, !.failures = @ \cup {b}]
  /\ UNCHANGED <<svars, panel, late>>

\* A panic of the WASM module spoils every later call.
ModulePanics ==
  /\ bulk.pc = "listing" /\ ~bulk.aborted /\ bulk.buckets # {} /\ Return("error")

AllListed ==
  /\ bulk.pc = "listing" /\ ~bulk.aborted /\ bulk.buckets = {}
  /\ IF bulk.planned = {} /\ bulk.failures = {} THEN Return("done")
     ELSE /\ bulk' = [bulk EXCEPT !.pc = "downloading", !.todo = bulk.planned] /\ panel' = "finalizing"
          /\ UNCHANGED <<svars, late>>

-----------------------------------------------------------------------------
(* The pool                                                                *)

Launch(f) ==
  /\ bulk.pc = "downloading" /\ ~bulk.aborted /\ f \in bulk.todo /\ Cardinality(bulk.reads) < Concurrency
  /\ bulk' = [bulk EXCEPT !.todo = @ \ {f}, !.reads = @ \cup {StartRead(Home[f], f)}]
  /\ UNCHANGED <<svars, panel, late>>

WorkerReads(r, next) ==
  /\ bulk.pc = "downloading" /\ r \in bulk.reads /\ Reading(r)
  /\ bulk' = [bulk EXCEPT !.reads = (@ \ {r}) \cup {next}]
  /\ UNCHANGED <<svars, panel, late>>

\* The queue that feeds the archive takes what was read.
Push(r) == IF r.state = "done" THEN bulk.archive \cup {r} ELSE bulk.archive

\* Mutant: a file that fails is dropped.
WorkerForgets(r) ==
  /\ bulk.pc = "downloading" /\ r \in bulk.reads /\ ~Reading(r)
  /\ bulk' = [bulk EXCEPT !.reads = @ \ {r}, !.done = @ + 1,
                          !.archive = Push(r)]
  /\ UNCHANGED <<svars, panel, late>>

WorkerEnds(r) ==
  /\ bulk.pc = "downloading" /\ r \in bulk.reads /\ ~Reading(r)
  /\ bulk' = [bulk EXCEPT !.reads = @ \ {r}, !.done = @ + 1,
                          !.archive = Push(r),
                          !.failures = IF r.state = "done" THEN @ ELSE @ \cup {r.file}]
  /\ UNCHANGED <<svars, panel, late>>

\* queue.close(): from here on a cancel no longer reaches the queue.
PoolDone ==
  /\ bulk.pc = "downloading" /\ ~bulk.aborted /\ bulk.todo = {} /\ bulk.reads = {}
  /\ bulk' = [bulk EXCEPT !.pc = "closed"] /\ UNCHANGED <<svars, panel, late>>

\* The archive is written while it is made; with a file picker a cancel stops the pipe.
Save ==
  /\ bulk.pc = "closed" /\ ~(bulk.aborted /\ bulk.picker)
  /\ bulk' = [bulk EXCEPT !.pc = "saved"] /\ panel' = "done" /\ UNCHANGED <<svars, late>>

SaveFails == bulk.pc = "closed" /\ Return("error")

\* The queue fails and the archive with it; workers in flight are left behind.
CancelledLate ==
  /\ bulk.aborted /\ (bulk.pc = "downloading" \/ (bulk.pc = "closed" /\ bulk.picker))
  /\ bulk' = NewBulk /\ panel' = "aborted" /\ late' = late \cup {r.file : r \in bulk.reads}
  /\ UNCHANGED svars

Finish == bulk.pc = "saved" /\ bulk' = NewBulk /\ UNCHANGED <<svars, panel, late>>

\* A worker left behind reports the old run, over whatever the panel shows by now.
LateWorker(f) == f \in late /\ late' = late \ {f} /\ panel' = "aborted" /\ UNCHANGED <<svars, bulk>>

BulkStep ==
  \/ PickNone \/ Pick \/ CancelledEarly \/ Dismiss \/ AllListed \/ PoolDone \/ Save \/ CancelledLate \/ Finish
  \/ \E b \in Bucket : ListBucket(b)
  \/ \E f \in File : Launch(f) \/ LateWorker(f)
  \/ \E r \in bulk.reads : WorkerReads(r, DecryptFxFile(r)) \/ WorkerEnds(r)

BulkFault ==
  \/ StartFails \/ ModulePanics \/ SaveFails
  \/ \E b \in Bucket : BucketUnlisted(b)
  \/ \E r \in bulk.reads : WorkerReads(r, Failed(r))

-----------------------------------------------------------------------------
(* Properties                                                              *)

BTypeOK ==
  /\ bulk.pc \in {"idle", "picking", "listing", "downloading", "closed", "saved"}
  /\ bulk.todo \subseteq bulk.planned /\ bulk.done \in 0..Cardinality(File)
  /\ panel \in {"none", "listing", "finalizing", "done", "aborted", "error"} /\ late \subseteq File

\* An archive that is saved as done holds each file that was found, whole and once, or the
\* file is among the failures it lists, whatever is written or deleted in the store meanwhile
\* (downloadAllFxFiles).
ArchiveIsComplete ==
  bulk.pc = "saved" =>
    /\ {r.file : r \in bulk.archive} \cup (bulk.failures \cap File) = bulk.planned
    /\ {r.file : r \in bulk.archive} \cap bulk.failures = {}
    /\ bulk.done = Cardinality(bulk.planned)
    /\ \A r \in bulk.archive : ReadIsWhole(r) /\ \A s \in bulk.archive : r.file = s.file => r = s
=============================================================================
