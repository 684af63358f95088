\* One worker whose head passes the largest int: the C int is scaled down
\* to 3 bits (-4..3) so that this happens after four requests instead of
\* 2^31.  h_reqs holds WM_QUEUE_CAP * WM_MAX_LCORE = 2 requests.
CONSTANTS
  WorkerLcores <- MCOneWorker
  QueueCap = 2
  QueueThresh = 1
  MaxLcore = 1
  IntBits = 3
  MaxPosts = 5
  a1 = a1
  a2 = a2
  a3 = a3
  Addrs <- MCAddrs
  PostAddrs <- MCOnePostAddrs
  Lookup <- MCLookup
  NoReq = NoReq
SPECIFICATION Spec
\* A failed CUDA call ends the master (exit); that stop is not the question.
CHECK_DEADLOCK FALSE
INVARIANT NoBatchOverflow
