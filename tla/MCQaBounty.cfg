CONSTANTS
  Users = {u1, u2}
  Topics = {t1}
  Comments = {c1}
  Handlers = {h1, h2}
  BountySettings = {TRUE, FALSE}
  MaxScore = 1
  MaxRows = 2
  None = None
SPECIFICATION Spec
SYMMETRY Symmetry
INVARIANTS
  TypeOK
  LedgerBalanced
  BountyDebitedOnce
  AcceptedIsSolved
  AcceptedAnswerPaid
PROPERTIES
  OneEventPerAppearance
  RefundWithDeletion
