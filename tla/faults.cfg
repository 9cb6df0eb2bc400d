CONSTANTS
  File = {f1}
  NoFile = NoFile
  Chunks <- OneChunk
  StrayCtl = {"NO_ARG", "END_CONNECTION"}
  Cap = 3
  Name = {n1}
  NoPath = NoPath
  OldNames <- NoOldNames
  Budget <- Repeated
  Faults = {"disk_full", "no_directory", "open_fails", "unsendable", "read_fails", "killed"}
SPECIFICATION Spec
INVARIANTS TypeOK NothingBeforeTarget NoFileWithoutAccept
CHECK_DEADLOCK FALSE
