# TLA+ models of gopt

This directory has TLA+ specifications of the parts of this repository whose
behaviour can be model-checked with TLC. It also has the TLC configurations
that check them. `PROJECT.json` lists the components, the runs, the mutants
that show each property can fail, the map from every definition to the source
lines it models, and the hazards of the code.

## The system

| Part | Source | What it does |
|---|---|---|
| NDN prefix table | `src/antlr/actual/ndn/ndn.c` `ndn_contains`, `ndn_ht_insert` | Two-choice, 8-way bucket index of 64-bit slots `(tag << 48) \| offset` over an append-only byte log of records `[len, is_terminal, dst_port, url bytes]`. A lookup may upgrade a non-terminal record to terminal. |
| Bulk loader / checker | `ndn.c` `ndn_init`, `ndn_check` | Reads a file of `/`-separated names. Inserts every proper prefix as non-terminal and the whole name (with a `/` appended) as terminal with a random port. Then looks every prefix up again and `assert(0)`s on a missing one. |
| URL file utilities | `ndn.c` `ndn_get_num_urls`, `ndn_get_url_array`, `ndn_print_url_stats`, `ndn_num_components` | Read the URL file line by line with `fscanf` into a fixed buffer. Count the lines, copy them into an array, or histogram their components. |
| GPU master | `src/l2fwd/master.cu` `master_gpu`, `ipv4Gpu`, `main` | Polls per-worker request rings (`head`/`tail`) in shared memory. Batches the requests to a DIR-24-8 IPv4 lookup kernel on the GPU. Writes the responses back and advances each worker's `tail`. `main` parses the worker coremask, creates the shared queues and the CUDA buffers, and copies the tables to the GPU. |
| Cuckoo benchmark | `src/l2fwd/cuckoo.c` | Fills a two-choice table at random and times lookups. |
| Random walk (FPP) | `src/antlr/actual/random-walk/goto.c` | Batched random walks with software prefetching, interleaved by a computed-goto coroutine loop. |
| Utilities | `src/unnamed/part_000` | `fastrand` (32-bit LCG) and memory fences. |

How the NDN parts interact:
- `ndn_init` is the single writer. It calls `ndn_ht_insert`, which first calls `ndn_contains` to deduplicate (and to upgrade).
- `ndn_check` and, in deployment, any number of reader processes call `ndn_contains` on the same shared memory.
- The GPU master and the workers share only the rings. The benchmarks are independent.

What is hard here:
- the two bucket derivations must agree;
- deduplication must hold under tag and bucket collisions;
- the log offsets must be exact;
- the terminal flag must act as a one-way latch;
- the log capacity is guarded by asserts;
- a bulk-load insert that fails partway leaves the later check to abort;
- in the GPU master, ring indices race with worker processes.

## Modules

**`NdnHashTable`** models `ndn_contains` and `ndn_ht_insert`.

State:
- `ht_index`: bucket → slot → `[tag, off]`. `off = 0` is empty, as in the code.
- `ht_log`: offset → record, with the record's key kept as the model value of the URL.
- `log_head`.
- `urlHash`, `tagOf`, `tagHash`: `CityHash64` and the tag byte. These are arbitrary functions chosen in `Init`, so every collision pattern is explored.
- `call`, `ret`, `aborted`: the last call, its return value, and whether an assert has stopped the process.

Operators and actions, with the code they stand for:
- `ContainsBucket` and `InsertBucket` are the two copies of the bucket derivation (lines 44-53 and 108-117). `&` and `^` are tabulated over the small hash range as `MaskBkt` and `XorHash`.
- `SlotMatches` is the tag, length and `memcmp` test (58-66). `FoundAt` is the first match in bucket and slot order.
- `Upgrade` is the latch (69-72).
- `ContainsReturns` and `ContainsAssertFails` are the two outcomes of `ndn_contains`.
- `InsertExisting`, `InsertIntoSlot`, `InsertLogFull` (assert at 126), `InsertBucketsFull` (return -1) and `InsertAssertFails` (89-93) are the outcomes of `ndn_ht_insert`.
- Each action is a whole call: the dedup lookup, the slot write, the `log_head` advance and the record write happen in one step.

**`PrefixStore`** is the abstract specification: a partial map from prefixes to `[is_terminal, dst_port]` with the latch. `NdnHashTable` refines it via `AbsStore`, which reads every key through the model's own `FoundAt` lookup.

**`NdnBulkLoad`** instantiates `NdnHashTable`. It adds the file, the loop position (`u`, `i`), `nb_fail` and the phase (`init`, then `check`).
- A URL is a sequence of one-character or empty components. The prefix of `j` components is the key. Its length and tag (`url[len-2]`, `'/'` for an empty component) are computed from it.
- `InitInsertPrefix`, `InitInsertUrl` and `InitEof` model `ndn_init`'s loops. `InitLineTooLong` is the assert at 189: `LineLen` is the line's `strlen`, and a line that does not leave room for its NUL in `url` stops the build before any of its prefixes is inserted.
- `CheckLookup`, `CheckAbsent`, `CheckPresent` and `CheckEof` model `ndn_check`'s loops.
- The index and the log are SysV segments that outlive the process. `Restart` is the program dying at any step, or finishing, and starting again on a urls file (one of `RestartFiles`). The segments keep their contents; `log_head` and the loop state are process memory and start afresh. `InitAttach` is `ndn_init`'s `shmget`/`shmat`, the two `memset`s and `log_head = 1` (160-175). The first run starts from fresh, zero-filled segments.
- A record write overwrites whatever an earlier run left at its offset, as `memcpy` does. The log is modelled record by record, so a slot that points into the middle of a record is not modelled. Only a stale slot from an earlier run could do that.

**`NdnUpgradeRace`** models `ndn_contains` on one matched record called by three processes at once, as in the multi-reader phase. Each call is a plain lookup (`is_terminal = 0`, port -1, as `ndn_check` calls it) or an upgrading one (lines 69-72). The record is as `ndn_ht_insert` built it (`built`): non-terminal with port -1, or terminal with a port. The search before the match reads only the slots, the length byte and the key bytes. No lookup writes those, so the search is not repeated here.
- The test `log_ptr[1] == 0`, the flag store and the port store are separate steps of each process.
- The two stores are plain, racy byte writes, so the build may emit them in either order. `Init` chooses the order once, for the binary.

**`WorkerMasterRing`** models `master_gpu` (`master.cu` 39-163) against worker processes.
- Per worker: the ring counters `head`, `tail`, `sent` and the `reqs`/`resps` rings.
- Master state: `prev_head`, `new_head`, `req_lo`, `nb_req`, the `h_reqs`/`h_resps` buffers, and the loop position (`pc`, `w_i`, the `int` index `i`).
- `GatherHead` snapshots one worker's head. `CopyReq` copies one request, with `i` kept an `int` of `IntBits` bits. `CopyDone` ends one worker's copy loop.
- `NoNewRequests` is the `continue`. `LaunchKernel` is the two copies, the kernel and the stream synchronisation, all succeeding. The kernel is an arbitrary answer per address; `Ipv4Dir248` models the real one.
- `KernelFails` is the `CPE` exit after a failed request copy, kernel launch or answer copy (lines 104, 113, 118). The three exits reach the same state: the master is gone (`pc = "exited"`) with the rings as they are. The ignored result of `cudaStreamSynchronize` is not modelled (see the `master.cu:121` hazard).
- `ScatterWorker` is one worker's copy-back with `prev_head` and `tail`. `ScatterDone` is `nb_req = 0`.
- The measurement counters and printing are left out.
- Workers are environment, because their code is not in the repository. A worker posts when it has fewer than `WM_QUEUE_THRESH` requests outstanding and a free ring slot, and consumes answers below `tail` in order. The counters' types and the threshold come from the `struct wm_queue` declarations at `cuckoo.c` 53-83.
- `master.cu` includes `worker-master.h`, which is not in the repository, and uses `reqs` and `resps` fields. The `struct wm_queue` kept in `cuckoo.c` has `mbufs`, `ipv4_address` and `ports` instead. The model uses the counters and the ring capacity, which both agree on. For `GpuMasterMain`'s layout, every array of `WM_QUEUE_CAP = 2^14` entries is a multiple of 64 bytes whatever its element type, so the counter offsets are cache-line aligned with either struct.
- The `resps` and `tail` stores are `volatile` and happen in program order on x86. So the answers and the tail of one worker are one step.

**`WmService`** is what the master promises each worker, with the rings abstracted away: a FIFO of outstanding addresses per worker, answered a prefix at a time, and a FIFO of answers the worker consumes in order. The master may fail for good (`Fail`), and answers nothing after that. `WorkerMasterRing` implements it under a mapping that reads the real ring slots: `RingOutstanding` is `reqs` between `tail` and `head`, and `RingReady` is `resps` between `sent` and `tail`. `up` is `pc # "exited"`.

**`Ipv4Dir248`** has the `ipv4Gpu` kernel (`master.cu` 16-33) as an operator. It is checked against a reference longest-prefix match.
- `dir_ipv4_init` is not in the repository. The tables are built in the layout the kernel's own indexing implies: a flagged `tbl_24` entry names a group of 256 `tbl_long` entries, one per low address byte.
- Addresses are scaled to 9 bits. The low byte and the kernel's constants are the code's.

**`FppRandomWalk`** models `process_batch` (`goto.c` 16-59): `BATCH_SIZE` walks interleaved on one thread by computed gotos. It also models `main`'s loop of calls over all nodes (80-83).
- `Start` is `fpp_start`. `Label1` is `fpp_label_1`: the sum, the random neighbour, `i[I]++`, then either the next `FPP_PSS` or `fpp_end`.
- `FppPss` saves the label and moves to the next slot. `FppEnd` sets the slot's bit and returns, or moves on.
- `NextBatch` is the next `process_batch(&nodes[i])` call with fresh locals. `MainLoopEnd` ends `main`'s loop.
- `fpp.h`, `rand-walk.h` and `rand_walk_init` are not in the repository. The two macros are modelled by what the labels and `batch_rips` of this function require. The graph is a constant. `NUM_NODES` a multiple of `BATCH_SIZE` is an `ASSUME`.
- A jump into a slot parked at `fpp_end` has no action of its own. A state that reached it would have no successor, and `Terminates` would fail.

**`NdnUrlFile`** models the URL file utilities (`ndn.c` 273-372). One run is one call of one utility.
- State: the file, the position of `url_fp`, and the byte buffer `url[NDN_MAX_URL_LENGTH]`. Also each utility's result: `nb_urls`, `url_arr`, `components_stats`.
- `fscanf("%s")` is modelled by what it does. `ScanInto` stores the line and its NUL from `url[0]`, whatever the length. At end of file the buffer is left alone. A line of `NDN_MAX_URL_LENGTH` bytes or more writes past the buffer. That write is left out: the model keeps the bytes that land inside `url`, and the assert after the read sees no NUL at its end.
- `CountUrl` and `CountEof` are `ndn_get_num_urls`'s loop, with its `url[0] = 0`.
- `ArrAlloc`, `ArrRead`, `ArrEnd` and `ArrEof` are `ndn_get_url_array`: the second `fopen`, the copy of `strlen` bytes per slot, the clear of `url` (`Cleared`), the assert, and the `break` at end of file. The file may be rewritten between `ndn_get_num_urls`'s read and the second `fopen` (`Rewrites`). That is the only way the `break` is reached.
- `StatsRead` and `StatsEof` are `ndn_print_url_stats`. `NumComponents` is `ndn_num_components`.
- Printing is left out.

**`GpuMasterMain`** models `main` of `master.cu` (165-265) up to the call of `master_gpu`, with that function's own asserts.
- `GetoptMask`, `GetoptOther` and `GetoptEnd` are the `getopt` loop. The `-c` value is `strtol`'s `long`, stored into the `int` by `IntOf`. `AssertMask` is `assert(lcore_mask != -1)`.
- `CreateQueues` sizes the hugepage region with `QueueBytes` and runs the cache-line assert. It uses the `struct wm_queue` layout of `cuckoo.c` 69-84 at the real `WM_QUEUE_CAP`.
- `StreamCreate` is `cudaStreamCreate` and its `CPE`, before the queues, as in the code.
- `SetupCall` is one of the eight CUDA calls after the queues, in order. Each may fail. `CPE` exits on the checked ones; the two table copies are unchecked.
- `LaunchMaster` computes `bitcount` and `get_active_bits` of the mask and enters `master_gpu`, which asserts `num_workers != 0`.
- `shm_alloc`, `bitcount`, `get_active_bits`, `CPE` and `dir_ipv4_init` are not in the repository. They are modelled by what their names and uses say.

## Runs

All runs are in `PROJECT.json`. Every passing property has a mutant: a plausible bug in the mapped code that makes TLC report it violated.

| Run | Checks | Shows |
|---|---|---|
| `ndn_table` (`MC_NdnHashTable.cfg`) | `TypeOK`, `NoFalseNegative`, `UniqueRecords`, `IndexMatchesLog`, `AbsSpec` | See below |
| `ndn_limits` | `NoLogOverrun` | With an 8-byte log and keys of length 1, 2, 3 and 5, the argument asserts and the headroom assert stop every insert that would write past `NDN_LOG_CAP`. |
| `ndn_bulk_load` | `TypeOK`, `TerminalExactlyLines`, `FirstPortWins`, `CheckFailsOnlyAfterReportedFailure`, `Terminates` | See below |
| `upgrade_race` | `TypeOK`, `UpgradeComplete` | Three concurrent plain or upgrading lookups, in either store order, leave a terminal record as built. A non-terminal record that some caller upgraded ends terminal with one upgrader's port. A record that only plain lookups saw is unchanged. |
| `upgrade_latch` (violation) | `PortLatched` | A terminal record's port can be overwritten by a concurrent upgrader (see Findings). |
| `ring` | `TypeOK`, `ResponsesMatch`, `NoBatchOverflow`, `Answered`, `ServiceSpec` | See below |
| `ring_intwrap` (violation) | `NoBatchOverflow` | The `int` copy index overruns `h_reqs` once a head passes `INT_MAX` (see Findings). |
| `ipv4_kernel` (violation) | `KernelIsLpm` | `ipv4Gpu` does not compute the longest-prefix match for routes longer than /24 (see Findings). |
| `random_walk` | `TypeOK`, `AllWalksComplete`, `Terminates` | Over two `process_batch` calls, every node gets exactly one walk of `STEPS` nodes, and `main` finishes. |
| `random_walk_path` (violation) | `WalkIsPath` | The walks do not move on from their current node (see Findings). |
| `url_file` | `TypeOK`, `ResultsMatchFile`, `StatsAbortJustified`, `ArrayHoldsReread`, `Terminates` | For every file of up to two lines, each utility returns the line count or the component histogram of the file. The asserts stop it only on a line that is too long or has too many components. If the file is rewritten between the two reads, `ndn_get_url_array` holds the lines of the second read and leaves the slots past its end empty. |
| `master_main` | `TypeOK`, `QueueCountersAligned` | Whatever the command line and whichever setup calls fail, the counter-alignment assert never fires, and the workers handed to `master_gpu` are lcores within the `int`. |

What `ndn_table` shows. Under any interleaving of lookups and inserts, with any hash collisions:
- every stored key is found;
- no key is stored twice;
- each slot's tag and bucket match its record;
- the table implements `PrefixStore`: every call returns what the abstract map would return and changes it the same way.

What `ndn_bulk_load` shows, for every two-line file over the URLs `a`, `a/b`, `a/` and `a/b/a`, in a first run and in a second run over whatever the first left in the segments:
- exactly this run's loaded lines are terminal, with the port of the first line that named them;
- the check aborts only after a counted insert failure;
- the loader and checker finish.

What `ring` shows. With two workers posting into two-entry rings that wrap, each with up to two requests outstanding, so that one batch holds two requests of one worker behind the other worker's:
- each worker gets the answers to its own requests, in order;
- `h_reqs` is never overfilled;
- no tail is published over an answer that has not been written (`TypeOK` types consumed answers as ports);
- every posted request is eventually answered, unless a CUDA call of the loop fails and the master exits;
- the master and rings implement `WmService` (`ServiceSpec`): every step is a post, an in-order answer of a prefix of one worker's outstanding requests, or an in-order consume, or the master's failure, and while it runs the master answers under weak fairness.

## Findings

The first four findings are violations that TLC reports in the runs named in `PROJECT.json`. The last three follow directly from reading the code. They are recorded as hazards, and no run checks them.

- **`master.cu:28`, `ipv4Gpu`.** The kernel indexes `tbl_long` with the `tbl_24` entry's low byte instead of the address's low byte. So every address of a /24 that holds a longer route gets the same answer. With `dst_ip & 0xff` the same check passes.
- **`master.cu:88`, `master_gpu`.** The copy loops use `int i` over `long long` heads. After 2^31 requests from one worker, the start index is negative. The loop then writes far past `h_reqs`, which the comment at lines 60-62 says cannot happen.
- **`goto.c:47`, `process_batch`.** The walk steps to `nodes[I].neighbors[...]`, a neighbour of its start node, instead of a neighbour of `cur_node[I]`.
- **`ndn.c:69`, `ndn_contains`.** The upgrade is a test followed by two unsynchronised stores. Two concurrent upgraders can overwrite the port of a record that is already terminal. Spec §4.4 calls the upgrade a one-way latch; spec §5 names the race as unguarded.
- **`ndn.c:311` (and 184, 237, 283, 339).** Every read loop uses `fscanf(url_fp, "%s", url)` with no width. A line of `NDN_MAX_URL_LENGTH` bytes or more is written past the stack buffer. The `assert(url[NDN_MAX_URL_LENGTH - 1] == 0)` after the read notices it only after the overwrite. `ndn_get_num_urls` has no check at all.
- **`master.cu:248` and `253`, `main`.** The copies of `tbl_24` and `tbl_long` to the GPU are the only setup calls without `CPE`. If one fails, the master serves lookups from uninitialised device memory.
- **`master.cu:257`, `main`.** The lcore ids of the coremask are never checked against `WM_MAX_LCORE`. `master_gpu` indexes its `WM_MAX_LCORE`-entry arrays `prev_head`, `new_head`, `req_lo` and `wmq` by them.

### Bounds

**`ndn_table`:**
- Three keys: two of length 2 and one of length 3.
- Two tags and two hash values.
- Two buckets of two slots. The code has 8 slots; the model uses 2 so that a full primary bucket forces the secondary bucket, and a full pair gives -1.
- A log of 18 bytes. This holds three records, so the secondary bucket is used.
- Symmetry over the two equal-length keys and over the tags.
- The run enumerates every hash function over these sets. That covers same-bucket, same-tag, and `bkt_2 = bkt_1` cases.

**`upgrade_race`:** three processes, two ports, and the four built records (non-terminal, or terminal with either port). Each process is a plain or an upgrading lookup. Two processes can pass the test before either stores, and a third can come between another's two stores.

**`ring`:**
- Two workers, with rings of `WM_QUEUE_CAP = 2` and `WM_QUEUE_THRESH = 2`. Three requests each, so each ring wraps. With two requests outstanding, a worker's second request sits at offset 1 of its extent (`i - prev_head` at line 132 is not 0), and the second worker's extent starts at `req_lo` 0, 1 or 2.
- `h_reqs` holds four requests, as many as two full rings.
- Three addresses with different answers. Worker 0 posts `a1` or `a2`, worker 1 posts `a3`. An answer taken from the wrong offset of worker 0's extent, or from the other worker's extent, is a different port. Letting worker 1 post two addresses as well makes the liveness checks five times slower and adds no case: a mix-up within worker 1's extent is the same offset arithmetic.
- `ring_intwrap` scales `int` down to 3 bits, so the wrap comes after four requests instead of 2^31.

**`random_walk`:** two batches of two walks of three steps on a four-node ring. This gives two `process_batch` calls, so the locals are re-initialised once.

**`url_file`:**
- Lines over the bytes `a` and `/`, and a buffer of 4 bytes. Lines of 1-3 bytes fit. A 4-byte line fills `url` with no NUL, and the assert after the read stops it (the write past `url` itself is not modelled).
- `NDN_MAX_COMPONENTS = 3`, so `///` trips the components assert.
- Every file of up to two lines, for each utility. That covers a short line after a long one, which is where a missing clear would show.
- The second read of `ndn_get_url_array` may find the same file, the empty file, `a`, or `a/a` then `a`. That gives a shorter file, which reaches the end-of-file `break`, and a longer one, which is cut at `nb_urls`.

**`master_main`:**
- `int` scaled to 8 bits and `WM_MAX_LCORE` to 4. `WM_QUEUE_CAP` and the 2 MB hugepage are the code's.
- Command lines: none, an unknown option, and `-c` with the masks 0, 0x3, 0x6, 0x11 (an lcore past the limit) and 0xff (the int -1). Also two `-c` options, and `-c` followed by an unknown option.
- Every success or failure of every setup call.

**`ndn_limits`:**
- Four keys, of length 1, 2, 3 and 5, against a maximum of 3.
- A log of 8 bytes, so the second legal record hits the headroom assert. The record of the length-5 key is larger than the headroom.
- No symmetry: the keys differ in length.

**`ndn_bulk_load`:**
- Two lines and one slot per bucket, so bucket-full failures happen.
- The URLs exercise nesting (`a` then `a/b`, in either order), duplicate lines with different ports, and a trailing slash (`a/` stored as `a//`).
- `a/b/a` is five bytes and does not fit the four-byte `url`, so the assert at 189 fires on it, first or second.
- One restart (`MaxRestarts = 1`), during `ndn_init`, after an assert, or after the end. `ndn_check` writes nothing, so a kill during the check leaves the segments as its end does. The second run reads `a` twice, or `a/` then `a/b` (`RestartFiles`). That covers a name the first run made terminal that is no longer a line, and a repeated name drawing another port. A second run over every file makes the liveness check of `Terminates` several times slower, without a new case.
- Each `memset` alone is enough at this level of detail. With the index cleared, leftover records are never referred to. With the log cleared, a stale slot points at a record that is rewritten at the same offset, or at zeros. Without both clears, an earlier run's terminal prefixes and ports survive. `InitAttach_nomemset` is the mutant that shows it.

### Fairness

`ndn_init` and `ndn_check` run to completion on one thread with no blocking. `NdnBulkLoad` assumes weak fairness of `Run`, the steps of one run of the program, and nothing more. A restart is never forced. The same holds for `main` and `process_batch` in `FppRandomWalk`, and for the utilities of `NdnUrlFile` and `main` of `GpuMasterMain`.

`WorkerMasterRing` assumes weak fairness of the master's loop only: `master_gpu` spins on its own core and never blocks. The loop's steps include `KernelFails`, but fairness never forces it: a failure may or may not happen, and after it no master step is enabled. `Answered` and `WmService`'s fairness are stated for a master that has not exited. Workers may stop at any time, and `Answered` needs nothing of them. `NdnHashTable` has no liveness properties: its callers decide what is called.

### Deadlock

The NDN runs, `upgrade_race`, `random_walk`, `url_file`, `master_main` and `ipv4_kernel` set `CHECK_DEADLOCK FALSE`: the calls modelled there return and nothing follows. The master of `ring` stops only by exiting on a CUDA error; after that the workers post up to their threshold and stop, so `ring` and `ring_intwrap` set `CHECK_DEADLOCK FALSE` too. Before an exit the master can always take a step (`NoNewRequests` at worst), and a stall with requests outstanding would fail `Answered`. In the NDN runs, after a failed assert (`aborted`) the process is gone and no step is possible. The bulk load also stops after `ndn_check` returns.

## Not modelled, and the plan

Not modelled:
- The loader's `fopen`, and a failed `shmget` (an assert). The write past `url` that `fscanf` makes for an overlong line is undefined behaviour. The model stops at the assert that follows it.
- `ndn_get_prefix`, called only to print a missing prefix before `assert(0)`.
- `main`'s measurement counters in `master_gpu` and the PAPI timing of the random walk.
- A reader of the table running during the build. The deployment phases the single writer before the readers (spec §5), and no code of the repository looks the table up during `ndn_init`.
- `cuckoo_init`. Its random fill overwrites entries by design, and no code in the repository states what it must keep.
- `fastrand` and the fences of `part_000`. Nothing in the repository calls them: the random walk uses `rand()`.
- The worker side of the rings, except as environment.
- `GpuMasterMain` composed with `WorkerMasterRing`. The ring's `Workers` is a constant, but the lcores come from a state variable of `main`. An `INSTANCE` cannot take a variable as a constant. A composed module would repeat the ring's actions over a variable set, which the two separate runs already cover between them.

Planned next:
1. Compose `NdnHashTable` with `NdnBulkLoad`'s URL model for longer files, with a refinement of the loader against `PrefixStore`.
2. In `WorkerMasterRing`, a worker that uses `tail` rather than `sent` for ring reuse, to show what the ring's safety depends on.
