CONSTANTS
  Servers = {s1, s2}
  Changes = {c1, c2}
  Days = {30, 90}
  DefaultDays = 30
  None = None
  MaxTrouble = 2
  Asks = {a1}
  MaxTurns = 1
SPECIFICATION Spec
SYMMETRY Symmetry
CHECK_DEADLOCK FALSE
INVARIANTS
  AssistantIsAudited
  LogTellsTheStory
  NothingIsPassedOver
PROPERTIES
  KeptAsConfigured
