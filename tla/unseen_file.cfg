CONSTANTS
  File = {f1, f2}
  NoFile = NoFile
  Chunks <- OneChunk
  StrayCtl = {"NO_ARG"}
  Cap = 3
  Name = {n1}
  NoPath = NoPath
  OldNames <- NoOldNames
  Budget <- OfferedTwice
  Faults = {}
SPECIFICATION Spec
INVARIANTS FileShownBeforeSent
CHECK_DEADLOCK FALSE
