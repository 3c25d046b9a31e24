SPECIFICATION Spec
CONSTANTS
  Slots = {r1, r2}
  None = None
  MaxTokens = 3
PROPERTIES
  SiblingTabSurvives
CHECK_DEADLOCK FALSE
