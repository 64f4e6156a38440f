SPECIFICATION Spec
CONSTANTS
  Pages = 2
  PageDwords = 1
  Code = {vec}
  BootWords = {vec}
  Erased = Erased
  Torn = Torn
  Zero = zero
  Versions = {v0xC00}
  Sizes = {1, 2}
  INTERNAL_FLASH_VERSION = v0xC00
  BOOT_METADATA_MAGIC = BOOTSLOT
  App_Sig_Dword = FTUAPP00
  NUM_OF_DWORDS = 1
  BootTicks = 1
  PostLimit = 6
  MaxTorn = 1
INVARIANT InvalidSlotStaysInBootMode
