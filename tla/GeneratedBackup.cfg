CONSTANTS
  Requests = {r1, r2}
  Lengths = {0, 2, 5}
  ChunkSize = 3
  Overlap = 1
  TopHits = 1
  Earlier = Earlier
SPECIFICATION FairSpec
CHECK_DEADLOCK FALSE
PROPERTIES
  GeneratedIsBackedUp
