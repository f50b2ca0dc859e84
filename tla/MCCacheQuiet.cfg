SPECIFICATION Spec
CONSTANTS
  w1 = w1
  w2 = w2
  p1 = p1
  Stacks <- AllCaches
  Workers = {w1}
  Processes = {p1}
  TTL <- MCTTL
  MaxDelay = 1
  MaxVersion = 4
  MaxTime = 6
INVARIANTS
  QuietMeansCurrent
