\* Two batches of two walks of three steps on a four-node ring.
CONSTANTS
  BatchSize = 2
  Steps = 3
  Nbrs <- MCNbrs
SPECIFICATION Spec
\* main returns after its last batch and nothing follows.
CHECK_DEADLOCK FALSE
INVARIANT WalkIsPath
