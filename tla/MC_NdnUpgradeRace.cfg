\* Three processes upgrading the same record with two ports.
CONSTANTS
  p1 = p1
  p2 = p2
  p3 = p3
  d1 = d1
  d2 = d2
  Procs <- MCProcs
  Ports <- MCPorts
  NoPort = NoPort
SYMMETRY MCSymmetry
SPECIFICATION Spec
\* Every process returns from ndn_contains and nothing follows.
CHECK_DEADLOCK FALSE
INVARIANTS TypeOK UpgradeComplete
