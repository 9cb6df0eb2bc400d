CONSTANTS
  File = {f1}
  NoFile = NoFile
  Chunks <- OneChunk
  StrayCtl = {"NO_ARG"}
  Cap = 2
  Name = {n1}
  NoPath = NoPath
  OldNames <- NoOldNames
  Budget <- OneTransfer
  Faults = {}
SPECIFICATION Spec
PROPERTIES AcceptanceStartsTransfer
CHECK_DEADLOCK FALSE
