\* Two workers, rings of two, a threshold of two outstanding requests.
CONSTANTS
  WorkerLcores <- MCWorkerLcores
  QueueCap = 2
  QueueThresh = 2
  MaxLcore = 2
  IntBits = 8
  MaxPosts = 3
  a1 = a1
  a2 = a2
  a3 = a3
  Addrs <- MCAddrs
  PostAddrs <- MCPostAddrs
  Lookup <- MCLookup
  NoReq = NoReq
SPECIFICATION Spec
\* After a failed CUDA call the master has exited: the workers run out of
\* requests to post and the system stops.
CHECK_DEADLOCK FALSE
INVARIANTS TypeOK ResponsesMatch NoBatchOverflow
PROPERTIES Answered ServiceSpec
