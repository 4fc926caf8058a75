CONSTANTS
  Depth <- MCDepth
  InFlight = 1
  Ack <- MCAck
  TesterLinux = FALSE
  NoiseBytes = {}
  NoiseMax = 0
SPECIFICATION FairSpec
PROPERTIES
  Rendezvous
