---------------------------- MODULE GpuMasterMain ----------------------------
(***************************************************************************)
(* main() of src/l2fwd/master.cu: the GPU master's setup, up to the call   *)
(* of master_gpu (modelled by WorkerMasterRing).                           *)
(*                                                                         *)
(*   - getopt over argv: -c <hex> sets lcore_mask = strtol(optarg, 16)     *)
(*     (a long stored into an int); any other option exits;                *)
(*   - assert(lcore_mask != -1): a mask was given;                         *)
(*   - the worker-master queues: wm_queue_bytes grows by 2 MB hugepages    *)
(*     until it holds WM_MAX_LCORE struct wm_queue, and the head, tail and *)
(*     sent counters of every queue are asserted to start a cache line;    *)
(*   - the CUDA stream (before the queues), then the request and         *)
(*     response buffers and the DIR-24-8 tables, one call after the other; *)
(*     a failure of a call wrapped in CPE prints and exits, the two table  *)
(*     copies are not checked;                                             *)
(*   - num_workers = bitcount(lcore_mask), worker_lcores =                 *)
(*     get_active_bits(lcore_mask), and master_gpu(...), which asserts    *)
(*     num_workers != 0.                                                   *)
(* shm_alloc, bitcount, get_active_bits and CPE are not in the repository: *)
(* shm_alloc returns a hugepage-aligned region, bitcount and               *)
(* get_active_bits count and list, in increasing order, the set bits of    *)
(* the int, and CPE(c, msg) exits when c holds.                            *)
(***************************************************************************)
EXTENDS Integers, Sequences, SequencesExt, FiniteSets

CONSTANTS
  Argvs,      \* the argument lists main may get: sequences of options
  IntBits,    \* width of the int lcore_mask (32)
  MaxLcore,   \* WM_MAX_LCORE
  QueueCap,   \* WM_QUEUE_CAP
  HugePage    \* M_2: the hugepage size shm_alloc rounds to

\* The CUDA and table calls of main after the queues, in order, and whether
\* CPE checks each.
SetupCalls == <<
  [name |-> "cudaMallocHost h_reqs",  checked |-> TRUE],
  [name |-> "cudaMalloc d_reqs",      checked |-> TRUE],
  [name |-> "cudaMallocHost h_resps", checked |-> TRUE],
  [name |-> "cudaMalloc d_resps",     checked |-> TRUE],
  [name |-> "cudaMalloc d_tbl_24",    checked |-> TRUE],
  [name |-> "cudaMemcpy tbl_24",      checked |-> FALSE],
  [name |-> "cudaMalloc d_tbl_long",  checked |-> TRUE],
  [name |-> "cudaMemcpy tbl_long",    checked |-> FALSE] >>

CallIdx == 1..Len(SetupCalls)

VARIABLES
  argv,           \* the options main was started with
  pc,             \* "getopt", "assert_mask", "stream", "queues", "setup",
                  \* "master"
                  \* (master_gpu runs), "exit", or the assert that stopped
                  \* main: "abort_mask", "abort_align", "abort_workers"
  optind,         \* the next option getopt returns
  lcore_mask,     \* int lcore_mask
  wm_queue_bytes, \* the size of the shared queue region
  call,           \* the next call of SetupCalls
  failed,         \* the calls that returned an error
  num_workers,
  worker_lcores

vars == <<argv, pc, optind, lcore_mask, wm_queue_bytes, call, failed,
          num_workers, worker_lcores>>

\* A long converted to an IntBits-bit int (gcc: modulo 2^IntBits).
IntOf(x) == ((x + 2^(IntBits - 1)) % 2^IntBits) - 2^(IntBits - 1)

\* The bits of an int, two's complement.
Bit(m, b) == ((m + 2^IntBits) \div 2^b) % 2
ActiveBits(m) == {b \in 0..(IntBits - 1) : Bit(m, b) = 1}

TypeOK ==
  /\ argv \in Argvs
  /\ pc \in {"getopt", "assert_mask", "stream", "queues", "setup", "master", "exit",
             "abort_mask", "abort_align", "abort_workers"}
  /\ optind \in 1..(Len(argv) + 1)
  /\ lcore_mask \in -(2^(IntBits - 1))..(2^(IntBits - 1) - 1)
  /\ wm_queue_bytes \in Nat
  /\ call \in 1..(Len(SetupCalls) + 1)
  /\ failed \subseteq CallIdx
  /\ num_workers \in 0..IntBits
  /\ worker_lcores \in Seq(0..(IntBits - 1))

Init ==
  /\ argv \in Argvs
  /\ pc = "getopt"
  /\ optind = 1
  /\ lcore_mask = -1
  /\ wm_queue_bytes = 0
  /\ call = 1
  /\ failed = {}
  /\ num_workers = 0
  /\ worker_lcores = << >>

---------------------------------------------------------------------------
(* The layout of struct wm_queue (cuckoo.c's worker-master header)        *)

\* mbufs (8-byte pointers), ipv4_address (ints) and ports (bytes), then
\* head, tail and sent each followed by seven long longs of padding.
CounterBlock == 8 + 7 * 8
HeadOff == 8 * QueueCap + 4 * QueueCap + QueueCap

\* Mutant: the padding after head is one long long short.
TailOff_short == HeadOff + CounterBlock - 8

TailOff == HeadOff + CounterBlock
SentOff == TailOff + CounterBlock

\* sizeof(struct wm_queue): rounded up to the 8-byte alignment of long long.
WmQueueSize == LET raw == SentOff + CounterBlock IN ((raw + 7) \div 8) * 8

\* while(wm_queue_bytes < WM_MAX_LCORE * sizeof(struct wm_queue))
\*     wm_queue_bytes += M_2;
RECURSIVE QueueBytes(_)
QueueBytes(b) == IF b < MaxLcore * WmQueueSize THEN QueueBytes(b + HugePage)
                                              ELSE b

\* The assert of the check loop, for queue q of a hugepage-aligned region.
CountersAligned(q) ==
  \A off \in {HeadOff, TailOff, SentOff} : (q * WmQueueSize + off) % 64 = 0

---------------------------------------------------------------------------
(* main                                                                    *)

\* case 'c': lcore_mask = strtol(optarg, NULL, 16).
GetoptMask ==
  /\ pc = "getopt"
  /\ optind <= Len(argv)
  /\ argv[optind].opt = "c"
  /\ lcore_mask' = IntOf(argv[optind].val)
  /\ optind' = optind + 1
  /\ UNCHANGED <<argv, pc, wm_queue_bytes, call, failed, num_workers,
                 worker_lcores>>

\* default: "I need coremask", exit(-1).
GetoptOther ==
  /\ pc = "getopt"
  /\ optind <= Len(argv)
  /\ argv[optind].opt # "c"
  /\ pc' = "exit"
  /\ UNCHANGED <<argv, optind, lcore_mask, wm_queue_bytes, call, failed,
                 num_workers, worker_lcores>>

\* getopt returns -1: the options are done.
GetoptEnd ==
  /\ pc = "getopt"
  /\ optind > Len(argv)
  /\ pc' = "assert_mask"
  /\ UNCHANGED <<argv, optind, lcore_mask, wm_queue_bytes, call, failed,
                 num_workers, worker_lcores>>

\* assert(lcore_mask != -1).
AssertMask ==
  /\ pc = "assert_mask"
  /\ pc' = IF lcore_mask # -1 THEN "stream" ELSE "abort_mask"
  /\ UNCHANGED <<argv, optind, lcore_mask, wm_queue_bytes, call, failed,
                 num_workers, worker_lcores>>

\* err = cudaStreamCreate(&my_stream); CPE(err != cudaSuccess, ...).
StreamCreate ==
  /\ pc = "stream"
  /\ \E ok \in BOOLEAN : pc' = IF ok THEN "queues" ELSE "exit"
  /\ UNCHANGED <<argv, optind, lcore_mask, wm_queue_bytes, call, failed,
                 num_workers, worker_lcores>>

\* Size and attach the queues, then assert that every queue's counters
\* start a cache line.
CreateQueues ==
  /\ pc = "queues"
  /\ wm_queue_bytes' = QueueBytes(HugePage)
  /\ pc' = IF \A q \in 0..(MaxLcore - 1) : CountersAligned(q)
              THEN "setup" ELSE "abort_align"
  /\ UNCHANGED <<argv, optind, lcore_mask, call, failed, num_workers,
                 worker_lcores>>

\* CPE(err != cudaSuccess, ...) follows the call.
Checked(k) == SetupCalls[k].checked

\* The next setup call returns success or an error; CPE exits on a checked
\* error, an unchecked one is ignored.
SetupCall ==
  /\ pc = "setup"
  /\ call <= Len(SetupCalls)
  /\ \E ok \in BOOLEAN :
       /\ failed' = IF ok THEN failed ELSE failed \cup {call}
       /\ pc' = IF ~ok /\ Checked(call) THEN "exit" ELSE "setup"
  /\ call' = call + 1
  /\ UNCHANGED <<argv, optind, lcore_mask, wm_queue_bytes, num_workers,
                 worker_lcores>>

\* Mutant: get_active_bits loops one bit past the int (i <= 32).
LaunchMaster_allbits ==
  /\ pc = "setup"
  /\ call > Len(SetupCalls)
  /\ num_workers' = Cardinality(ActiveBits(lcore_mask))
  /\ worker_lcores' =
       SetToSortSeq({b \in 0..IntBits : Bit(lcore_mask, b) = 1}, <)
  /\ pc' = IF num_workers' # 0 THEN "master" ELSE "abort_workers"
  /\ UNCHANGED <<argv, optind, lcore_mask, wm_queue_bytes, call, failed>>

\* num_workers = bitcount(lcore_mask); worker_lcores =
\* get_active_bits(lcore_mask); then master_gpu's assert(num_workers != 0).
LaunchMaster ==
  /\ pc = "setup"
  /\ call > Len(SetupCalls)
  /\ num_workers' = Cardinality(ActiveBits(lcore_mask))
  /\ worker_lcores' = SetToSortSeq(ActiveBits(lcore_mask), <)
  /\ pc' = IF num_workers' # 0 THEN "master" ELSE "abort_workers"
  /\ UNCHANGED <<argv, optind, lcore_mask, wm_queue_bytes, call, failed>>

Next ==
  \/ GetoptMask \/ GetoptOther \/ GetoptEnd \/ AssertMask \/ StreamCreate
  \/ CreateQueues
  \/ SetupCall \/ LaunchMaster

Spec == Init /\ [][Next]_vars /\ WF_vars(Next)

---------------------------------------------------------------------------
(* Properties                                                              *)

\* The cache-line assert on the queue counters never stops main: with
\* WM_QUEUE_CAP a multiple of 64 and the padding of struct wm_queue, every
\* queue of the region puts head, tail and sent on cache lines of their own.
QueueCountersAligned == pc # "abort_align"
====
