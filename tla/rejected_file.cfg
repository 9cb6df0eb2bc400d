CONSTANTS
  File = {f1}
  NoFile = NoFile
  Chunks <- OneChunk
  StrayCtl = {"NO_ARG"}
  Cap = 2
  Name = {n1}
  NoPath = NoPath
  OldNames <- NoOldNames
  Budget <- AcceptThenReject
  Faults = {}
SPECIFICATION Spec
PROPERTIES RejectedFileNotWritten
CHECK_DEADLOCK FALSE
