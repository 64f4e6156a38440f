SPECIFICATION Spec
CONSTANTS
  Pages = 3
  PageDwords = 1
  Code = {vec, txt}
  BootWords = {vec}
  Erased = Erased
  Torn = Torn
  Zero = txt
  Versions = {v0xC00}
  Sizes = {1}
  INTERNAL_FLASH_VERSION = v0xC00
  BOOT_METADATA_MAGIC = BOOTSLOT
  App_Sig_Dword = FTUAPP00
  NUM_OF_DWORDS = 2
  BootTicks = 1
  PostLimit = 5
  MaxTorn = 0
CONSTRAINT FewTorn
INVARIANTS
  TypeOK
  BootsOnlySealedImage
  PassMeansStored
  EraseSuccessMeansBlank
  StayHolds
PROPERTY RefinesSafeBoot
