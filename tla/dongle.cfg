SPECIFICATION MCSpec
CONSTANTS
  Parts = {"central", "pair", "hid", "hid_kept", "control", "host_ota", "buttons", "buttons_test"}
  Devices = {a, b}
  NoDevice = none
  KeyA = keyA
  KeyB = keyB
  Volume = volume
  NoKey = noKey
  Chars = 3
  Reports = {2}
  Slow = TRUE
  DropsAnyTime = TRUE
INVARIANTS PendingRuns SavedOne
PROPERTIES CentralUnblocked BondsKept ReportsRight AnswersRight UpdatesSlave
CHECK_DEADLOCK FALSE
