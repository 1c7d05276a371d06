------------------------------- MODULE Files -------------------------------
(***************************************************************************)
(* A user's files from the page and the bulk download, over one store that *)
(* the user's app goes on writing to, share links, and the gateway that    *)
(* serves content to everybody.                                            *)
(*                                                                         *)
(* The readers share the store, and none of them writes to it: a behaviour *)
(* follows one of them beside the writer, or the links or the gateway,     *)
(* which touch nothing of the others.                                      *)
(***************************************************************************)
EXTENDS PinsPage, BulkDownload, Sharing, Gateway

CONSTANTS
  MaxEvents,  \* bound: requests, uploads and changes of rows, by scene
  MaxFaults   \* bound: failures

Scene == {"pins", "files", "bulk", "share", "gateway"}
ASSUME FilesAssumption == MaxEvents \in [Scene -> Nat] /\ MaxFaults \in Nat

VARIABLES scene, events, faults

vars == <<svars, pvars, bvars, hvars, gvars, scene, events, faults>>

Init == SInit /\ PInit /\ BInit /\ HInit /\ GInit /\ scene \in Scene /\ events = 0 /\ faults = 0

Event == events < MaxEvents[scene] /\ events' = events + 1 /\ UNCHANGED <<scene, faults>>
Fault == faults < MaxFaults /\ faults' = faults + 1 /\ UNCHANGED <<scene, events>>
NoCount == UNCHANGED <<scene, events, faults>>

StoreNext ==
  /\ scene \in {"files", "bulk"}
  /\ UNCHANGED <<pvars, bvars, hvars, gvars>>
  /\ \/ Event /\ \E f \in File : Upload(f) \/ DeleteFile(f)
     \/ NoCount /\ \E f \in File, o \in 0..Chunks : PutObject(f, o)
     \/ Fault /\ \E b \in Bucket \ orphaned : Orphan(b)

PageNext ==
  /\ scene \in {"pins", "files"} /\ UNCHANGED <<bvars, hvars, gvars>>
  /\ \/ Event /\ scene = "pins" /\ \E i \in Call : ClickPins(i)
     \/ Event /\ scene = "files" /\ \E i \in Call : ClickFiles(i)
     \/ NoCount /\ PageStep
     \/ Fault /\ PageFault

BulkNext ==
  /\ scene = "bulk"
  /\ UNCHANGED <<pvars, hvars, gvars>>
  /\ \/ Event /\ (Cancel \/ \E picker \in BOOLEAN : Start(picker))
     \/ NoCount /\ BulkStep
     \/ Fault /\ BulkFault

ShareNext ==
  /\ scene = "share"
  /\ UNCHANGED <<svars, pvars, bvars, gvars>>
  /\ \/ Event /\ (Sharer \/ \E t \in Tab, l \in Link : OpenLink(t, l))
     \/ NoCount /\ ShareStep
     \/ Fault /\ ShareFault

GatewayNext ==
  /\ scene = "gateway"
  /\ UNCHANGED <<svars, pvars, bvars, hvars>>
  /\ \/ Event /\ (GatewayArrivals \/ PolicyChanges)
     \/ NoCount /\ GatewayStep
     \/ Fault /\ GatewayFault

Next == StoreNext \/ PageNext \/ BulkNext \/ ShareNext \/ GatewayNext

Spec == Init /\ [][Next]_vars

TypeOK ==
  /\ scene \in Scene
  /\ STypeOK /\ PTypeOK /\ BTypeOK /\ HTypeOK /\ GTypeOK
  /\ events \in 0..MaxEvents[scene] /\ faults \in 0..MaxFaults

\* What decryptFxFile reads for a download or a preview of a listed file, and what is read of
\* the lists of shares and playlists, is one version, whole, or the read fails, whatever is
\* being written meanwhile. A download by CID does not go through it (DownloadIsFile), and
\* what a visitor of a share is given is decrypted inside the fula client.
NoTornFile ==
  /\ \A i \in Call : At(i, "read") => ReadIsWhole(call[i].read)
  /\ fx.preview # None => ReadIsWhole(fx.preview)
=============================================================================
