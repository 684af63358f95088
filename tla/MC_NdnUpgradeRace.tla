-------------------------- MODULE MC_NdnUpgradeRace --------------------------
(***************************************************************************)
(* NdnUpgradeRace for TLC: three processes and two ports, so that two      *)
(* processes can pass the test before either stores and a third can come  *)
(* in between the two stores of another.                                   *)
(***************************************************************************)
EXTENDS NdnUpgradeRace, TLC

CONSTANTS p1, p2, p3, d1, d2

MCProcs == {p1, p2, p3}
MCPorts == {d1, d2}
MCSymmetry == Permutations(MCProcs) \cup Permutations(MCPorts)
=============================================================================
