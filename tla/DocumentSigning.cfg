CONSTANTS
  Requests = {r1, r2, r3, r4}
  Users = {owner, editor, reader}
  Owner = owner
  Staff = {editor}
  Emails = {e1, e2}
  None = None
SPECIFICATION Spec
SYMMETRY Symmetry
CHECK_DEADLOCK FALSE
INVARIANTS
  TypeOK
  SignedMeansStamped
  FullySignedMeansCountersigned
  AcknowledgedSignatureIsKept
  InviteeHoldsTheLink
  SignedDocumentHasNoLink
  ShareLinkWorks
  DeletedMeansErased
PROPERTIES
  StatusNeverFallsBack
