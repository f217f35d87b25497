SPECIFICATION Spec
CONSTANTS
  N = 2
  Window = 2
  Latencies = {1, 3, 9}
INVARIANTS
  TypeOK
  Undominated
  WorkingPreferred
  FirstOfTheBest
