SPECIFICATION Spec
CONSTANTS
  Garbled = "garbled"
  Words = {"", "list", "garbled"}
  Sizes = {0, 80}
  MaxEvents = 1
INVARIANTS
  RequestArrives
  ResultIsOutcome
  OneKindPerLine
CHECK_DEADLOCK FALSE
