SPECIFICATION MCSpec
CONSTANTS
  Parts = {"prot", "remote", "remote_calm", "keys", "keys_ring", "keys_woken", "mic", "audio", "codec", "ir_keys", "ir_code", "ir_learn", "led"}
  Chip <- AllChips
  Boot = {128, 256, 512}
  Other <- QeAndOtp
INVARIANTS FirmwareGuarded UpdateLands RemoteRight SoundRight
PROPERTIES KeysRight VoiceKept CodecAgrees InfraredRight LedRight ComesToRest
CHECK_DEADLOCK FALSE
