CONSTANTS
  video = video
  note = note
  lost = lost
  media = media
  papers = papers
  File = {video, note, lost}
  Bucket = {media, papers}
  Home <- HomeDef
  Shape <- ShapeDef
  Unresolved = {lost}
  Chunks = 2
  MaxVersion = 2
  Call = {1, 2}
  MaxPins = 3
  PageSize = 2
  Page = {1, 2}
  None = None
  Concurrency = 2
  Tab = {1}
  MaxManifests = 2
  Cid = {1, 2}
  Html = {2}
  Visit = {1, 2}
  TTL = 1
  MaxTime = 2
  MaxEvents <- Events
  MaxFaults = 1
SPECIFICATION Spec
CHECK_DEADLOCK FALSE
INVARIANT NoTornFile
INVARIANT UnpinnedOrReported
INVARIANT ArchiveIsComplete
INVARIANT FolderIsCurrent
INVARIANT BlockedIsRefused
