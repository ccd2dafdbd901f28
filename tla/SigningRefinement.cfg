CONSTANTS
  Requests = {r1, r2, r3, r4}
  Users = {owner, editor, reader}
  Owner = owner
  Staff = {editor}
  Emails = {e1}
  None = None
SPECIFICATION CalmSpec
SYMMETRY Symmetry
CHECK_DEADLOCK FALSE
PROPERTIES
  ImplementsWorkflow
