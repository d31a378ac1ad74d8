SPECIFICATION MCSpec
CONSTANTS
  Parts = {"write", "fw_update", "fw_retry", "fw_lossy", "fw_slow", "fw_raced", "spp", "soft_uart", "cdc"}
  PAGE_SIZE = 2
  Pages = 3
  Sector = 2
  Bit = b
  MaxLen = 5
  Stack = 1
  Bits <- MCBits
  Data <- MCData
INVARIANTS Programmed SppRight BytesAsSent EchoRight
PROPERTIES UpdateRight ImplementsAtomicUpdate
CHECK_DEADLOCK FALSE
