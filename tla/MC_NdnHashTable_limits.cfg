CONSTANTS
  k1 = k1
  k2 = k2
  k3 = k3
  k4 = k4
  NoUrl = NoUrl
  Absent = Absent
  NoPort = NoPort
  Keys <- MCLimitKeys
  KeyLen <- MCLimitKeyLen
  LogHeadroom <- MCHeadroom
  t1 = t1
  t2 = t2
  Tags <- MCTags
  HashVals = {0, 1}
  NumBkt = 2
  BktSlots = 2
  LogCap = 8
  MaxUrlLen = 3
  Ports = {0, 1}

SPECIFICATION Spec
VIEW MCView

\* After a failed assert the process is gone and nothing can happen.
CHECK_DEADLOCK FALSE

INVARIANTS
  NoLogOverrun
