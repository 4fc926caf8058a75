CONSTANTS
  Depth <- MCDepth
  InFlight = 64
  Consoles <- MCConsolesPrompt
  ConfigName <- MCConfigName
  RootFs <- MCProgram
  MaxFiles = 4
  MaxName = 50
  AddrMod = 65536
  MemSize = 260
  TextLen = 3
  TesterLinux = TRUE
  FirmwareMax = 258
  Prompt = TRUE
SPECIFICATION FairSpec
INVARIANTS
  ImageIsComplete
PROPERTIES
  Completes
