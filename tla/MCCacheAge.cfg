SPECIFICATION Spec
CONSTANTS
  w1 = w1
  w2 = w2
  p1 = p1
  Stacks <- OneProcessStacks
  Workers = {w1, w2}
  Processes = {p1}
  TTL <- MCTTL
  MaxDelay = 1
  MaxVersion = 3
  MaxTime = 5
SYMMETRY MCSymmetry
INVARIANTS
  TypeOK
  BoundedStaleness
