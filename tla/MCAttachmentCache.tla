--------------------------- MODULE MCAttachmentCache ---------------------------
EXTENDS AttachmentCache, TLC

Symmetry ==
  Permutations(Users) \cup Permutations(Media) \cup Permutations(Components)
================================================================================
