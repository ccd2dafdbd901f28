CONSTANTS
  Users = {ann, bob}
  Subscribers = {ann}
  MaxMessages = 2
  MaxFailures = 3
SPECIFICATION FairSpec
CHECK_DEADLOCK FALSE
INVARIANTS
  CommittedIsHandled
  RepeatsNeedFailures
  MailsKeepTheOrder
PROPERTIES
  AssignmentIsMailed
