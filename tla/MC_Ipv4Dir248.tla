---------------------------- MODULE MC_Ipv4Dir248 ----------------------------
(***************************************************************************)
(* Ipv4Dir248 for TLC: 9-bit addresses (two "/24"s of 256 addresses), and *)
(* routing tables of up to two routes out of: the first "/24" (port 1), a  *)
(* host route inside it (port 2) and a route of four addresses around that *)
(* host (port 3).                                                          *)
(***************************************************************************)
EXTENDS Ipv4Dir248

MCRouteSet ==
  { [prefix |-> 0, len |-> 1, port |-> 1],
    [prefix |-> 5, len |-> 9, port |-> 2],
    [prefix |-> 4, len |-> 7, port |-> 3] }
=============================================================================
