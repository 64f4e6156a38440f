SPECIFICATION FairSpec
CONSTANTS
  dollar = dollar
  data = data
  LastTest = 2
  TESTPOINT_SLOT_SIZE = 2
  RecordBytes = 2
  SECTOR_SIZE = 4
  CrcSector = 2
  VerifyBytes = 2
  Records <- MCRecords
  Blank = Blank
  Torn = Torn
  VersionLo = VersionLo
  VersionHi = VersionHi
  MaxSpoilt = 1
  MaxFaults = 2
INVARIANTS
  AckedStaysReadable
  CrcReplyMeansStored
  VersionComesLast
PROPERTIES
  TestPointsWrittenOnce
  KeepsServing
