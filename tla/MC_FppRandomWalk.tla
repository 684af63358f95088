--------------------------- MODULE MC_FppRandomWalk ---------------------------
(***************************************************************************)
(* FppRandomWalk for TLC: batches of two walks of three steps on a ring of *)
(* four nodes, so main makes two process_batch calls; each node has two    *)
(* neighbours (rand() % 7 picks among seven in the code).                  *)
(***************************************************************************)
EXTENDS FppRandomWalk

MCNbrs == [n \in 0..3 |-> <<(n + 1) % 4, (n + 3) % 4>>]
=============================================================================
