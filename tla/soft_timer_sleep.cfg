SPECIFICATION Spec
CONSTANTS
  cb1 = cb1
  cb2 = cb2
  Callback <- MCCallback
  Interval = {1, 5}
  MAX_TIMER_NUM = 3
  Wrap = 36
  Quarter = 9
  SafePre = 1
  SafePost = 5
  Near = 6
  Results = {"same", "new"}
  MainOps = {"add"}
  CallbackOps = {}
  MaxGap = 1
  MaxSleep = 7
SYMMETRY Symmetry
INVARIANTS NoneMissed
PROPERTY InTurn
