SPECIFICATION Spec
CONSTANTS
  Slots = {r1, r2, r3}
  None = None
  MaxTokens = 4
SYMMETRY Symmetric
INVARIANTS
  ContinuesRotated
  FamilyLine
  RevocationComplete
  AccessFollowsCredential
PROPERTIES
  FirstReasonStands
CHECK_DEADLOCK FALSE
