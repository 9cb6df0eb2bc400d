CONSTANTS
  File = {f1}
  NoFile = NoFile
  Chunks <- OneChunk
  StrayCtl = {"NO_ARG"}
  Cap = 2
  Name = {n1}
  NoPath = NoPath
  OldNames <- ClientOldNames
  Budget <- OneTransfer
  Faults = {"disk_full"}
SPECIFICATION Spec
INVARIANTS OldFilesKept
CHECK_DEADLOCK FALSE
