\* Every command line, every outcome of every setup call.
CONSTANTS
  Argvs <- MCArgvs
  IntBits = 8
  MaxLcore = 4
  QueueCap = 16384
  HugePage = 2097152
SPECIFICATION Spec
CHECK_DEADLOCK FALSE
INVARIANTS TypeOK QueueCountersAligned
