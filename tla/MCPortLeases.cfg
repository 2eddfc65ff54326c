\* Three runs of two stages each, and fewer blocks than turns.
SPECIFICATION Spec
CONSTANTS
  r1 = r1
  r2 = r2
  r3 = r3
  n1 = n1
  n2 = n2
  None = None
  Runs <- ThreeRuns
  Nodes <- TwoNodes
  Blocks <- TwoBlocks
  MaxCrashes = 1
SYMMETRY Symmetry
INVARIANTS
  Exclusive
PROPERTIES
  EnoughBlocks
