\* each of three hosts, with two faults anywhere in the procedure
SPECIFICATION FairSessionSpec
CONSTANTS
  Pages = 2
  PageDwords = 2
  vec = vec
  txt = txt
  Code = {vec, txt}
  BootWords = {vec}
  Erased = Erased
  Torn = Torn
  Zero = txt
  Versions = {v0xC00}
  Sizes = {2}
  INTERNAL_FLASH_VERSION = v0xC00
  BOOT_METADATA_MAGIC = BOOTSLOT
  App_Sig_Dword = FTUAPP00
  NUM_OF_DWORDS = 1
  BootTicks = 2
  PostLimit = 6
  Image <- MCImage
  PacketStart <- MCPacketStart
  Hosts <- EachHost
  MaxFaults = 2
INVARIANTS
  OnlyTheImageRuns
  DoneMeansBootable
PROPERTY EndsRunning
CHECK_DEADLOCK FALSE
