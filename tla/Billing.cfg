CONSTANTS
  Users = {u1, u2}
  Sessions = {s1, s2}
  Customers = {k1, k2}
  Calls = {c1, c2}
  None = None
  MaxEvents = 3
  MaxFailures = 1
SPECIFICATION Spec
SYMMETRY Symmetry
CHECK_DEADLOCK FALSE
INVARIANTS
  TypeOK
  SubscriptionServesItsBuyer
  EventsFindTheAccount
  StatusFollowsStripe
