SPECIFICATION FairSelfSpec
CONSTANTS
  Pages = 1
  PageDwords = 1
  Code = {vec}
  BootWords = {vec}
  Erased = Erased
  Torn = Torn
  Zero = zero
  Versions = {v0xC00}
  Sizes = {1}
  INTERNAL_FLASH_VERSION = v0xC00
  BOOT_METADATA_MAGIC = BOOTSLOT
  App_Sig_Dword = FTUAPP00
  NUM_OF_DWORDS = 1
  BootTicks = 5
  PostLimit = 10
  Supplies = {p5v}
  SIZE = 2
  MaxFaults = 2
INVARIANTS
  SelfTestTypeOK
  NothingUntestedRuns
PROPERTY HealthyBoardBoots
CHECK_DEADLOCK FALSE
