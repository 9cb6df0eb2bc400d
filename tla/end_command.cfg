CONSTANTS
  File = {f1}
  NoFile = NoFile
  Chunks <- OneChunk
  StrayCtl = {"NO_ARG"}
  Cap = 2
  Name = {n1}
  NoPath = NoPath
  OldNames <- NoOldNames
  Budget <- Ending
  Faults = {}
SPECIFICATION FairSpec
PROPERTIES EndCommandEnds
CHECK_DEADLOCK FALSE
