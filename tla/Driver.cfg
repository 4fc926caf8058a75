CONSTANTS
  p1 = p1
  p2 = p2
  d1 = d1
  d2 = d2
  Procs <- MCProcs
  Devs <- MCDevs
  Failing <- MCReported
  HotUnbind = TRUE
  ReadRegs <- MCReadRegs
  WriteRegs <- MCWriteRegs
  RegSize = 8
  AddrSpace = 8
  MaxCount = 5
SYMMETRY MCSymmetry
SPECIFICATION Spec
INVARIANTS
  TypeOK
  LockIsTheOpener
  ReleasedOnce
  NothingLeaks
  ProbeSucceedsWhole
  UnloadsUnused
