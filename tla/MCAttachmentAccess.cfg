CONSTANTS
  Users = {author, reader}
  Admins = {}
  Attachments = {a1}
  Topics = {t1}
  Handlers = {h1, h2}
  MaxScore = 2
  None = None
SPECIFICATION Spec
SYMMETRY Symmetry
INVARIANTS
  TypeOK
  ChargedOncePerDownload
PROPERTIES
  UnlockCoveredAtCurrentPrice
  PaidAttachmentIsVisible
