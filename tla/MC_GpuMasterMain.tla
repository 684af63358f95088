---------------------------- MODULE MC_GpuMasterMain ----------------------------
(***************************************************************************)
(* GpuMasterMain for TLC.  The int is scaled to 8 bits and WM_MAX_LCORE to *)
(* 4 lcores; WM_QUEUE_CAP and the 2 MB hugepage are the code's.  The       *)
(* command lines: none, an unknown option, -c with the masks 0 (no         *)
(* workers), 0x3 and 0x6 (lcores within WM_MAX_LCORE), 0x11 (lcore 4, past *)
(* it) and 0xff (all bits: the int -1), and two -c options.                *)
(***************************************************************************)
EXTENDS GpuMasterMain

C(v) == [opt |-> "c", val |-> v]
Other == [opt |-> "?", val |-> 0]

MCArgvs ==
  {<< >>, <<Other>>, <<C(3), Other>>, <<C(3), C(6)>>}
  \cup {<<C(v)>> : v \in {0, 3, 6, 17, 255}}
=============================================================================
