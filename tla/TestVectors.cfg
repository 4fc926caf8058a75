SPECIFICATION Spec
CONSTANTS
  Files <- MCFiles
  Answers <- MCAnswers
  ArenaSize = 76
  Header = 4
  HashLen = 3
  KeyLen = 2
  BlockLen = 2
  SeedLen = 1
  PublicLen = 2
  SecretLen = 2
  PartLen = 1
INVARIANTS
  TypeOK
  TextAheadIsIntact
  InputsAreTheRecords
  TallyIsOfTheFile
  BytesGoToTheirLine
