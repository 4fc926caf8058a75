CONSTANTS
  Depth <- MCDepth
  InFlight = 64
  TesterLinux = TRUE
  Prompt = {"sut"}
  TextLen = 2
  Log <- MCLog
  Suites <- MCFullSuites
  Replies <- MCFaulty
  ArenaSize = 12
  KeyBytes = 4
SPECIFICATION FairSpec
INVARIANTS
  ModeIsAgreed
  VerdictsAreRight
PROPERTIES
  Completes
