-------------------------- MODULE MCAttachmentAccess --------------------------
EXTENDS AttachmentAccess, TLC

Symmetry ==
  Permutations(Handlers) \cup Permutations(Topics) \cup Permutations(Attachments)
=============================================================================
