-------------------------- MODULE WorkerMasterRing --------------------------
(***************************************************************************)
(* master_gpu() of src/l2fwd/master.cu: the GPU master polling the         *)
(* per-worker request rings in shared memory.                              *)
(*                                                                         *)
(* Each worker lcore w has a struct wm_queue: reqs and resps rings of      *)
(* WM_QUEUE_CAP entries and the counters head (requests posted), tail      *)
(* (requests answered by the master) and sent (answers consumed by the     *)
(* worker), all of type long long.  One master pass:                       *)
(*   - for every worker, in worker_lcores order, snapshot head into        *)
(*     new_head, note req_lo = nb_req and copy reqs[prev_head..new_head)   *)
(*     into h_reqs, one int loop index i at a time;                        *)
(*   - nothing new: start the next pass;                                   *)
(*   - else launch the lookup kernel over h_reqs[0..nb_req) and wait; a    *)
(*     failed request copy, launch or answer copy exits the master (CPE);  *)
(*   - for every worker, copy its answers back into resps, then set        *)
(*     prev_head = new_head and publish tail = new_head;                   *)
(*   - nb_req = 0.                                                         *)
(* The worker code is not in the repository: a worker is environment that  *)
(* posts a request when it has fewer than WM_QUEUE_THRESH outstanding and  *)
(* a free ring slot, and consumes answers below tail in order.             *)
(***************************************************************************)
EXTENDS Integers, Sequences, FiniteSets

CONSTANTS
  WorkerLcores, \* worker_lcores: the workers' lcore ids, in order
  QueueCap,     \* WM_QUEUE_CAP (a power of two)
  QueueThresh,  \* WM_QUEUE_THRESH: outstanding requests a worker keeps
  MaxLcore,     \* WM_MAX_LCORE: h_reqs holds QueueCap * MaxLcore requests
  IntBits,      \* width of the C int loop index i (32)
  MaxPosts,     \* bound on the requests each worker posts
  Addrs,        \* IPv4 addresses the workers look up
  PostAddrs,    \* the addresses each worker may post (a subset of Addrs)
  Lookup,       \* the kernel's answer for each address
  NoReq         \* an h_reqs / h_resps entry never written

Workers == {WorkerLcores[n] : n \in DOMAIN WorkerLcores}
NumWorkers == Len(WorkerLcores)
BufCap == QueueCap * MaxLcore
BufIdx == 0..(BufCap - 1)
Ports == {Lookup[a] : a \in Addrs}

VARIABLES
  head, tail, sent,  \* the wm_queue counters of each worker
  reqs, resps,       \* the wm_queue rings of each worker
  pc,                \* where the master is in its pass, or "exited"
  w_i,               \* worker iterator of the current loop (1-based)
  i,                 \* the int loop index of the request copy
  prev_head, new_head, req_lo, nb_req,
  h_reqs, h_resps,   \* the kernel's input and output buffers
  posted, got        \* per worker: the addresses posted, answers consumed

ringVars == <<head, tail, sent, reqs, resps>>
masterVars == <<pc, w_i, i, prev_head, new_head, req_lo, nb_req, h_reqs,
                h_resps>>
vars == <<ringVars, masterVars, posted, got>>

\* A long long converted to an IntBits-bit int (gcc: modulo 2^IntBits).
IntOf(x) == ((x + 2^(IntBits - 1)) % 2^IntBits) - 2^(IntBits - 1)

\* The values i ++ can leave: past the largest int the increment is
\* undefined, and the build either wraps or has widened i to 64 bits.
NextI(x) == IF x = 2^(IntBits - 1) - 1 THEN {IntOf(x + 1), x + 1} ELSE {x + 1}

\* i & WM_QUEUE_CAP_ for a power-of-two capacity (also for negative i).
QIdx(x) == x % QueueCap

TypeOK ==
  /\ head \in [Workers -> 0..MaxPosts]
  /\ tail \in [Workers -> 0..MaxPosts]
  /\ sent \in [Workers -> 0..MaxPosts]
  /\ reqs \in [Workers -> [0..(QueueCap - 1) -> Addrs \cup {NoReq}]]
  /\ resps \in [Workers -> [0..(QueueCap - 1) -> Ports \cup {NoReq}]]
  /\ pc \in {"gather", "copy", "scatter", "exited"}
  /\ w_i \in 1..(NumWorkers + 1)
  /\ i \in Int
  /\ prev_head \in [Workers -> 0..MaxPosts]
  /\ new_head \in [Workers -> 0..MaxPosts]
  /\ req_lo \in [Workers -> Nat]
  /\ nb_req \in Nat
  /\ h_reqs \in [BufIdx -> Addrs \cup {NoReq}]
  /\ h_resps \in [BufIdx -> Ports \cup {NoReq}]
  /\ posted \in [Workers -> Seq(Addrs)]
  /\ got \in [Workers -> Seq(Ports)]

Init ==
  /\ head = [w \in Workers |-> 0]
  /\ tail = [w \in Workers |-> 0]
  /\ sent = [w \in Workers |-> 0]
  /\ reqs = [w \in Workers |-> [q \in 0..(QueueCap - 1) |-> NoReq]]
  /\ resps = [w \in Workers |-> [q \in 0..(QueueCap - 1) |-> NoReq]]
  /\ pc = "gather"
  /\ w_i = 1
  /\ i = 0
  /\ prev_head = [w \in Workers |-> 0]
  /\ new_head = [w \in Workers |-> 0]
  /\ req_lo = [w \in Workers |-> 0]
  /\ nb_req = 0
  /\ h_reqs = [b \in BufIdx |-> NoReq]
  /\ h_resps = [b \in BufIdx |-> NoReq]
  /\ posted = [w \in Workers |-> << >>]
  /\ got = [w \in Workers |-> << >>]

---------------------------------------------------------------------------
(* A worker (environment)                                                  *)

\* Post address a: reqs[head & WM_QUEUE_CAP_] = a, then head ++.
WorkerPost(w, a) ==
  /\ head[w] < MaxPosts
  /\ head[w] - tail[w] < QueueThresh
  /\ head[w] - sent[w] < QueueCap
  /\ reqs' = [reqs EXCEPT ![w][QIdx(head[w])] = a]
  /\ head' = [head EXCEPT ![w] = @ + 1]
  /\ posted' = [posted EXCEPT ![w] = Append(@, a)]
  /\ UNCHANGED <<tail, sent, resps, masterVars, got>>

\* Consume the answer of the oldest request below tail.
WorkerConsume(w) ==
  /\ sent[w] < tail[w]
  /\ got' = [got EXCEPT ![w] = Append(@, resps[w][QIdx(sent[w])])]
  /\ sent' = [sent EXCEPT ![w] = @ + 1]
  /\ UNCHANGED <<head, tail, reqs, resps, masterVars, posted>>

---------------------------------------------------------------------------
(* The master: master_gpu's while(1) loop                                  *)

\* The worker of the current iteration: w_lid = worker_lcores[w_i].
Wlid == WorkerLcores[w_i]

\* Mutant: the snapshot re-reads the previous head.
HeadSnapshot_stale(w) == prev_head[w]

\* new_head[w_lid] = lc_wmq->head.
HeadSnapshot(w) == head[w]

\* for(i = prev_head[w_lid]; ...): the long long is converted to int.
CopyStart(w) == IntOf(prev_head[w])

\* Snapshot the worker's head and note where its requests start in h_reqs.
GatherHead ==
  /\ pc = "gather"
  /\ w_i <= NumWorkers
  /\ new_head' = [new_head EXCEPT ![Wlid] = HeadSnapshot(Wlid)]
  /\ req_lo' = [req_lo EXCEPT ![Wlid] = nb_req]
  /\ i' = CopyStart(Wlid)
  /\ pc' = "copy"
  /\ UNCHANGED <<ringVars, w_i, prev_head, nb_req, h_reqs, h_resps, posted,
                 got>>

\* h_reqs[nb_req] = lc_wmq->reqs[i & WM_QUEUE_CAP_]; nb_req ++; i ++.
\* A write past the end of h_reqs is not recorded (NoBatchOverflow flags it).
CopyReq ==
  /\ pc = "copy"
  /\ i < new_head[Wlid]
  /\ h_reqs' = IF nb_req \in BufIdx
                 THEN [h_reqs EXCEPT ![nb_req] = reqs[Wlid][QIdx(i)]]
                 ELSE h_reqs
  /\ nb_req' = nb_req + 1
  /\ i' \in NextI(i)
  /\ UNCHANGED <<ringVars, pc, w_i, prev_head, new_head, req_lo, h_resps,
                 posted, got>>

\* The copy loop ends: next worker.
CopyDone ==
  /\ pc = "copy"
  /\ ~(i < new_head[Wlid])
  /\ w_i' = w_i + 1
  /\ pc' = "gather"
  /\ UNCHANGED <<ringVars, i, prev_head, new_head, req_lo, nb_req, h_reqs,
                 h_resps, posted, got>>

\* if(nb_req == 0) continue;
NoNewRequests ==
  /\ pc = "gather"
  /\ w_i > NumWorkers
  /\ nb_req = 0
  /\ w_i' = 1
  /\ UNCHANGED <<ringVars, pc, i, prev_head, new_head, req_lo, nb_req,
                 h_reqs, h_resps, posted, got>>

\* Copy h_reqs to the device, run ipv4Gpu on the nb_req requests, copy the
\* answers back and synchronise the stream.
LaunchKernel ==
  /\ pc = "gather"
  /\ w_i > NumWorkers
  /\ nb_req # 0
  /\ h_resps' = [b \in BufIdx |-> IF b < nb_req THEN Lookup[h_reqs[b]]
                                                ELSE h_resps[b]]
  /\ pc' = "scatter"
  /\ w_i' = 1
  /\ UNCHANGED <<ringVars, i, prev_head, new_head, req_lo, nb_req, h_reqs,
                 posted, got>>

\* err = cudaMemcpyAsync(d_reqs, ...), the kernel launch (cudaGetLastError)
\* or cudaMemcpyAsync(h_resps, ...) fails: CPE prints and exit(-1)s.  The
\* workers' queues stay as they are.
KernelFails ==
  /\ pc = "gather"
  /\ w_i > NumWorkers
  /\ nb_req # 0
  /\ pc' = "exited"
  /\ UNCHANGED <<ringVars, w_i, i, prev_head, new_head, req_lo, nb_req,
                 h_reqs, h_resps, posted, got>>

\* Mutant: the answer index ignores where the worker's requests start.
RespIdx_nolo(w, j) == j - prev_head[w]

\* req_i = req_lo[w_lid] + (i - prev_head[w_lid]).
RespIdx(w, j) == req_lo[w] + (j - prev_head[w])

\* Mutant: prev_head[w_lid] = new_head[w_lid] is missing.
NewPrevHead_keep(w) == prev_head[w]

\* prev_head[w_lid] = new_head[w_lid].
NewPrevHead(w) == new_head[w]

\* Mutant: the tail published is the worker's live head.
PublishedTail_head(w) == head[w]

\* lc_wmq->tail = new_head[w_lid].
PublishedTail(w) == new_head[w]

\* Mutant: the copy-back loop runs to i <= new_head[w_lid].
ScatterRange_incl(w) == CopyStart(w)..new_head[w]

\* for(i = prev_head[w_lid]; i < new_head[w_lid]; i ++), with the int i.
ScatterRange(w) == CopyStart(w)..(new_head[w] - 1)

\* Write the worker's answers into resps, then prev_head = new_head and
\* lc_wmq->tail = new_head: the stores are volatile and in program order.
ScatterWorker ==
  /\ pc = "scatter"
  /\ w_i <= NumWorkers
  /\ LET w == Wlid
         R == ScatterRange(w)
     IN  /\ resps' = [resps EXCEPT ![w] =
                       [q \in DOMAIN @ |->
                          IF \E j \in R : QIdx(j) = q
                            THEN h_resps[RespIdx(w, CHOOSE j \in R : QIdx(j) = q)]
                            ELSE @[q]]]
         /\ prev_head' = [prev_head EXCEPT ![w] = NewPrevHead(w)]
         /\ tail' = [tail EXCEPT ![w] = PublishedTail(w)]
  /\ w_i' = w_i + 1
  /\ UNCHANGED <<head, sent, reqs, pc, i, new_head, req_lo, nb_req, h_reqs,
                 h_resps, posted, got>>

\* End of the pass: nb_req = 0.
ScatterDone ==
  /\ pc = "scatter"
  /\ w_i > NumWorkers
  /\ nb_req' = 0
  /\ pc' = "gather"
  /\ w_i' = 1
  /\ UNCHANGED <<ringVars, i, prev_head, new_head, req_lo, h_reqs, h_resps,
                 posted, got>>

MasterStep ==
  \/ GatherHead \/ CopyReq \/ CopyDone \/ NoNewRequests \/ LaunchKernel
  \/ KernelFails \/ ScatterWorker \/ ScatterDone

Next ==
  \/ MasterStep
  \/ \E w \in Workers : \/ \E a \in PostAddrs[w] : WorkerPost(w, a)
                        \/ WorkerConsume(w)

\* The master spins on a core of its own and never blocks: weak fairness
\* of its loop, which may end in a CUDA error exit.  Workers may stop
\* posting or consuming at any time.
Spec == Init /\ [][Next]_vars /\ WF_vars(MasterStep)

---------------------------------------------------------------------------
(* Properties                                                              *)

\* Every answer a worker consumes is the kernel's answer for the request it
\* posted at that position of its ring, whatever the interleaving with the
\* other workers' requests in the same batch.
ResponsesMatch ==
  \A w \in Workers : \A n \in 1..Len(got[w]) :
    got[w][n] = Lookup[posted[w][n]]

\* The copy loop never writes past h_reqs, which is sized for WM_QUEUE_CAP
\* requests from each of WM_MAX_LCORE workers.
NoBatchOverflow == nb_req <= BufCap

\* Every request a worker posts is eventually answered, unless a CUDA call
\* of the master fails first: the master's tail for that worker passes it,
\* or the master has exited.
Answered ==
  \A w \in Workers : \A n \in 1..MaxPosts :
    (head[w] >= n) ~> (tail[w] >= n \/ pc = "exited")

\* The service each worker sees: its outstanding requests are the ring
\* slots between tail and head, its ready answers the resps slots between
\* sent and tail.  Both are read from the rings, not from the history.
RingOutstanding ==
  [w \in Workers |-> [k \in 1..(head[w] - tail[w]) |->
                        reqs[w][QIdx(tail[w] + k - 1)]]]
RingReady ==
  [w \in Workers |-> [k \in 1..(tail[w] - sent[w]) |->
                        resps[w][QIdx(sent[w] + k - 1)]]]

Service == INSTANCE WmService WITH outstanding <- RingOutstanding,
                                   ready <- RingReady,
                                   up <- pc # "exited"

\* master_gpu with the rings implements the FIFO lookup service: the tail it
\* publishes covers requests whose answers are in resps, no ring slot of an
\* outstanding request or of an unconsumed answer is overwritten, and every
\* outstanding request is answered in the end unless the master exits.
ServiceSpec == Service!Spec
=============================================================================
