CONSTANTS
  Requests = {r1, r2, r3}
  Earlier = Earlier
  None = None
  Forms <- SomeForms
SPECIFICATION Spec
SYMMETRY Symmetry
CHECK_DEADLOCK FALSE
INVARIANTS
  SettingsAreReachable
  AcknowledgedIsKept
  LoginsAreAnswered
PROPERTIES
  TwoFactorIsConfirmed
