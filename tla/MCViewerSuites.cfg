SPECIFICATION Spec
CONSTANTS
  Runs = {1, 2}
  Labels = {"jvm", "jvm "}
  Trimmed <- MCTrimmed
  Requests = {"q1"}
  MaxEvents = 3
INVARIANTS
  SuitesCanBeDissolved
