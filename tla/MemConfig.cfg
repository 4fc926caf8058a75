CONSTANTS
  MaxFiles = 3
  MaxName = 3
  AddrMod = 1024
  Entries <- MCEntries
  Tails <- MCTails
SPECIFICATION Spec
INVARIANTS
  FilesAreTheEntries
  FitsTheArrays
PROPERTIES
  AllFilesFound
