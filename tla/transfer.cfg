CONSTANTS
  File = {f1}
  NoFile = NoFile
  Chunks <- TwoChunks
  StrayCtl = {"NO_ARG", "END_CONNECTION"}
  Cap = 5
  Name = {n1}
  NoPath = NoPath
  OldNames <- ClientOldNames
  Budget <- OneTransfer
  Faults = {"read_fails", "killed"}
SPECIFICATION FairSpec
INVARIANTS StreamIntact AnnouncedFileIsComplete OldFilesKept
PROPERTIES StopReachesClient
CHECK_DEADLOCK FALSE
