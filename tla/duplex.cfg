CONSTANTS
  File = {f1}
  NoFile = NoFile
  Chunks <- TwoChunks
  StrayCtl = {"NO_ARG"}
  Cap = 2
  Name = {n1}
  NoPath = NoPath
  OldNames <- ClientOldNames
  Budget <- BothOffer
  Faults = {}
SPECIFICATION FairSpec
INVARIANTS StreamIntact
PROPERTIES SendFileReturns FilesAreCopied
CHECK_DEADLOCK FALSE
