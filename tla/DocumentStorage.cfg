CONSTANTS
  Requests = {r1, r2, r3}
  Lengths = {0, 2, 5}
  ChunkSize = 3
  Overlap = 1
  TopHits = 1
  Earlier = Earlier
SPECIFICATION Spec
SYMMETRY Symmetry
CHECK_DEADLOCK FALSE
INVARIANTS
  StoresAgree
  PassagesAreWhole
  SearchIsCurrent
