CONSTANTS
  Users = {u1}
  Sessions = {s1, s2}
  Customers = {k1}
  Calls = {c1, c2}
  None = None
  MaxEvents = 2
  MaxFailures = 1
SPECIFICATION FairSpec
CHECK_DEADLOCK FALSE
PROPERTIES
  CompletedIsAnnounced
