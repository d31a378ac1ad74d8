SPECIFICATION FairSpec
CONSTANTS
  Image <- MCImage
  Version <- MCVersion
  BinSize <- MCBinSize
  NoImage = "none"
  OTA_RETRY_MAX = 1
  BankBlocks = 3
  ErasedBlocks = 3
PROPERTIES MasterEnds SlaveEnds
