CONSTANTS
  Depth <- MCDepth
  InFlight = 1
  Consoles <- MCConsolesTwo
  ConfigName <- MCConfigName
  RootFs <- MCTree
  MaxFiles = 4
  MaxName = 50
  AddrMod = 65536
  MemSize = 8
  TextLen = 4
  TesterLinux = FALSE
  FirmwareMax = 8
  Prompt = FALSE
SPECIFICATION FairSpec
INVARIANTS
  TypeOK
  RightFile
PROPERTIES
  SutNeverOverruns
  ImplementsFileService
CHECK_DEADLOCK FALSE
