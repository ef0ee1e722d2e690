\* Two threads of one process, tokens that live for three ticks.
SPECIFICATION Spec
CONSTANTS
  w1 = w1
  w2 = w2
  None = None
  Threads = {w1, w2}
  Skew = 1
  Timeout = 2
  Lives = {3}
  Fallback = 2
  MaxTime = 4
  MaxTokens = 3
SYMMETRY ThreadSymmetry
CHECK_DEADLOCK FALSE
INVARIANTS TypeOK CarriedOutOnce OneFreshRetry RefusedIsGone
PROPERTIES HandedOutAlive
