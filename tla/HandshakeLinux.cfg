CONSTANTS
  Depth <- MCDepth
  InFlight = 64
  Ack <- MCAck
  TesterLinux = TRUE
  NoiseBytes <- MCNoise
  NoiseMax = 4
SPECIFICATION FairSpec
INVARIANTS
  TypeOK
  AckIsGenuine
  AckNeverMissed
