CONSTANTS
  Requests = {r1, r2, r3}
  People = {p1, p2}
  Statuses = {todo, done}
  Nobody = Nobody
  None = None
SPECIFICATION Spec
SYMMETRY Symmetry
CHECK_DEADLOCK FALSE
INVARIANTS
  AssigneeIsTold
  AcknowledgedStays
PROPERTIES
  ChangesAreAsked
