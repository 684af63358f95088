------------------------- MODULE MC_WorkerMasterRing -------------------------
(***************************************************************************)
(* WorkerMasterRing for TLC: two workers on lcores 0 and 1 with rings of   *)
(* two entries, so ring indices wrap, and up to three requests each, over  *)
(* two addresses with different answers.  h_reqs holds four requests.     *)
(***************************************************************************)
EXTENDS WorkerMasterRing, TLC

CONSTANTS a1, a2, a3

MCAddrs == {a1, a2, a3}
MCLookup == (a1 :> 7) @@ (a2 :> 9) @@ (a3 :> 11)
MCPostAddrs == (0 :> {a1, a2}) @@ (1 :> {a3})
MCOnePostAddrs == 0 :> {a1, a2}
MCWorkerLcores == <<0, 1>>
MCOneWorker == <<0>>
=============================================================================
