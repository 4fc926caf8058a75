CONSTANTS
  Depth <- MCDepth
  InFlight = 0
  TesterLinux = FALSE
  Prompt = {"sut"}
  TextLen = 2
  Log <- MCLog
  Suites <- MCBareSuites
  Replies <- MCReplies
  ArenaSize = 12
  KeyBytes = 4
SPECIFICATION Spec
INVARIANTS
  TypeOK
  InStep
  ArenaFits
  ResultsAreThere
PROPERTIES
  ImplementsSession
