SPECIFICATION Spec
CONSTANTS
  cb1 = cb1
  cb2 = cb2
  Callback <- MCCallback
  Interval = {1, 3}
  MAX_TIMER_NUM = 3
  Wrap = 32
  Quarter = 8
  SafePre = 1
  SafePost = 5
  Near = 6
  Results = {"stop", "same", "new"}
  MainOps = {"add", "delete"}
  CallbackOps = {"add", "delete"}
  MaxGap = 1
  MaxSleep = 1
SYMMETRY Symmetry
INVARIANTS Ordered WakesForFirst NoneMissed
