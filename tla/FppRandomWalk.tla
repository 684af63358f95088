---------------------------- MODULE FppRandomWalk ----------------------------
(***************************************************************************)
(* process_batch() of src/antlr/actual/random-walk/goto.c: BATCH_SIZE      *)
(* random walks of STEPS steps, one per start node nodes[0..BATCH_SIZE),   *)
(* interleaved on one thread by computed gotos.  Slot I runs until         *)
(* FPP_PSS(addr, label), which prefetches addr, saves label as             *)
(* batch_rips[I] and jumps to batch_rips[(I + 1) & BATCH_SIZE_].  A walk   *)
(* that ends sets its bit in iMask, parks its slot at fpp_end and moves   *)
(* on; process_batch returns when every bit is set.  (fpp.h, which defines *)
(* FPP_PSS and FPP_SET, is not in the repository; the switch and the bit   *)
(* set are what the labels and batch_rips of this function require.)      *)
(* main() calls process_batch(&nodes[i]) for i = 0, BATCH_SIZE, ... below  *)
(* NUM_NODES; each call starts with fresh locals.  rand_walk_init, which   *)
(* builds the graph, is not in the repository: the graph is a constant.   *)
(***************************************************************************)
EXTENDS Integers, Sequences, FiniteSets

CONSTANTS
  BatchSize,  \* BATCH_SIZE (a power of two)
  Steps,      \* STEPS
  Nbrs        \* node id -> its neighbours (rand() % 7 picks one)

Node == DOMAIN Nbrs
NumNodes == Cardinality(Node)   \* NUM_NODES

\* main's loop reads nodes[i + I] for every slot of every batch: it stays in
\* the array only when NUM_NODES is a multiple of BATCH_SIZE (both are
\* defined in headers that are not in the repository).
ASSUME NumNodes % BatchSize = 0
Slots == 0..(BatchSize - 1)
AllDone == 2^BatchSize - 1

VARIABLES
  base,       \* main's i: the batch's first node, process_batch(&nodes[i])
  I,          \* the slot running
  batch_rips, \* per slot: the label it resumes at
  cur_node,   \* per slot: the node it is on
  i,          \* per slot: the step counter i[I]
  iMask,      \* slots whose walk has ended
  sum,        \* the global sum of the ids visited
  walk,       \* per start node: the nodes its walk visited (history)
  returned,   \* the current process_batch has returned
  done        \* main's loop has ended

vars == <<base, I, batch_rips, cur_node, i, iMask, sum, walk, returned, done>>
batchVars == <<I, batch_rips, cur_node, i, iMask, returned>>

Nbr(n) == {Nbrs[n][k] : k \in DOMAIN Nbrs[n]}

TypeOK ==
  /\ base \in Node
  /\ I \in Slots
  /\ batch_rips \in [Slots -> {"fpp_start", "fpp_label_1", "fpp_end"}]
  /\ cur_node \in [Slots -> Node]
  /\ i \in [Slots -> 0..Steps]
  /\ iMask \in 0..AllDone
  /\ sum \in Nat
  /\ walk \in [Node -> Seq(Node)]
  /\ returned \in BOOLEAN
  /\ done \in BOOLEAN

\* The locals of a process_batch call: every slot starts at fpp_start with
\* I = 0 and iMask = 0; cur_node and i are uninitialised until their slot
\* first runs, so their value is free.
BatchEntry ==
  /\ I' = 0
  /\ batch_rips' = [s \in Slots |-> "fpp_start"]
  /\ cur_node' \in [Slots -> Node]
  /\ i' \in [Slots -> 0..Steps]
  /\ iMask' = 0
  /\ returned' = FALSE

\* main: sum = 0 and the first call, process_batch(&nodes[0]).
Init ==
  /\ base = 0
  /\ I = 0
  /\ batch_rips = [s \in Slots |-> "fpp_start"]
  /\ cur_node \in [Slots -> Node]
  /\ i \in [Slots -> 0..Steps]
  /\ iMask = 0
  /\ sum = 0
  /\ walk = [n \in Node |-> << >>]
  /\ returned = FALSE
  /\ done = FALSE

\* I = (I + 1) & BATCH_SIZE_.
NextSlot(s) == (s + 1) % BatchSize

\* Mutant: FPP_SET's result is not stored back into iMask.
FppSet_noop(m, s) == m

\* FPP_SET(iMask, I): the slot's bit.
FppSet(m, s) == IF (m \div 2^s) % 2 = 1 THEN m ELSE m + 2^s

\* Mutant: return as soon as any walk has ended.
MaskFull_any(m) == m # 0

\* iMask == (1 << BATCH_SIZE) - 1.
MaskFull(m) == m = AllDone

\* fpp_end: park the slot, set its bit, return or go to the next slot.
FppEnd ==
  /\ batch_rips' = [batch_rips EXCEPT ![I] = "fpp_end"]
  /\ iMask' = FppSet(iMask, I)
  /\ IF MaskFull(iMask')
       THEN returned' = TRUE /\ I' = I
       ELSE returned' = FALSE /\ I' = NextSlot(I)

\* Mutant: the loop runs while i[I] <= STEPS.
LoopContinues_le(n) == n <= Steps

\* i[I] < STEPS.
LoopContinues(n) == n < Steps

\* FPP_PSS(cur_node[I], fpp_label_1): save the label and switch slots.
FppPss ==
  /\ batch_rips' = [batch_rips EXCEPT ![I] = "fpp_label_1"]
  /\ I' = NextSlot(I)
  /\ UNCHANGED <<iMask, returned>>

\* fpp_start: cur_node[I] = &nodes[I]; for(i[I] = 0; i[I] < STEPS; ...).
Start ==
  /\ ~returned
  /\ batch_rips[I] = "fpp_start"
  /\ cur_node' = [cur_node EXCEPT ![I] = base + I]
  /\ i' = [i EXCEPT ![I] = 0]
  /\ IF LoopContinues(0) THEN FppPss ELSE FppEnd
  /\ UNCHANGED <<base, sum, walk, done>>

\* cur_node[I] = nodes[I].neighbors[next_nbh[I]].
NextNode(s, k) == Nbrs[base + s][k]

\* fpp_label_1: sum += cur_node[I]->id, step to a random neighbour, i[I] ++,
\* and either the next FPP_PSS or the end of the walk.
Label1 ==
  /\ ~returned
  /\ batch_rips[I] = "fpp_label_1"
  /\ sum' = sum + cur_node[I]
  /\ walk' = [walk EXCEPT ![base + I] = Append(@, cur_node[I])]
  /\ \E k \in DOMAIN Nbrs[base + I] :
       cur_node' = [cur_node EXCEPT ![I] = NextNode(I, k)]
  /\ i' = [i EXCEPT ![I] = @ + 1]
  /\ IF LoopContinues(i[I] + 1) THEN FppPss ELSE FppEnd
  /\ UNCHANGED <<base, done>>

\* Mutant: main's loop steps by one node.
NextBase_one(b) == b + 1

\* i += BATCH_SIZE.
NextBase(b) == b + BatchSize

\* process_batch has returned: main calls it on the next BATCH_SIZE nodes.
NextBatch ==
  /\ returned
  /\ NextBase(base) < NumNodes
  /\ base' = NextBase(base)
  /\ BatchEntry
  /\ UNCHANGED <<sum, walk, done>>

\* The last batch has returned: main's loop ends.
MainLoopEnd ==
  /\ returned
  /\ ~done
  /\ ~(NextBase(base) < NumNodes)
  /\ done' = TRUE
  /\ UNCHANGED <<base, batchVars, sum, walk>>

\* A jump to a parked slot (goto *batch_rips[I] at fpp_end) is not an
\* action: a state that reached it would have no successor, and Terminates
\* would fail.
Next == Start \/ Label1 \/ NextBatch \/ MainLoopEnd

\* One thread runs main and its batches.
Spec == Init /\ [][Next]_vars /\ WF_vars(Next)

---------------------------------------------------------------------------
(* Properties                                                              *)

\* When process_batch returns, every node up to the end of its batch has
\* had exactly one walk of STEPS nodes and no later node has had one: no
\* walk is cut short by an early return, and main's batches neither
\* overlap nor skip a node.
AllWalksComplete ==
  returned =>
    \A n \in Node : Len(walk[n]) = IF n < base + BatchSize THEN Steps ELSE 0

\* Every process_batch call returns and main's loop ends.
Terminates == <>done

\* Each walk is a random walk: it starts at its own node and every node it
\* visits next is a neighbour of the node it visited before.
WalkIsPath ==
  \A n \in Node :
    /\ Len(walk[n]) > 0 => walk[n][1] = n
    /\ \A k \in 1..(Len(walk[n]) - 1) : walk[n][k + 1] \in Nbr(walk[n][k])
=============================================================================
