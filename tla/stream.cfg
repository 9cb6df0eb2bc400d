CONSTANTS
  File = {f1}
  NoFile = NoFile
  Chunks <- NoChunks
  StrayCtl = {"NO_ARG"}
  Base = 16
  From = "server"
  Offered <- SomePackets
  BufBytes = 6
  IntMax = 13
  Sends = 3
  HostOrder <- Hosts
  Meta <- SomeMeta
  Data <- SomeData
  Words <- SomeWords
SPECIFICATION FairSpec
INVARIANTS TypeOK ReceivedIsSent MetadataSurvives
PROPERTIES PacketsAreWhole EveryPacketArrives
CHECK_DEADLOCK FALSE
