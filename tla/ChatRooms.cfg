CONSTANTS
  Requests = {r1, r2, r3}
  Users = {ann, bob}
  MaxNamed = 2
  None = None
SPECIFICATION Spec
SYMMETRY Symmetry
CHECK_DEADLOCK FALSE
INVARIANTS
  TypeOK
  OneMembership
  DeletedRoomIsGone
  SenderHears
  RoomIsReachable
  MarkedStaysRead
PROPERTIES
  MembersAreKept
