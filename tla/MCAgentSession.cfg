\* Two clients and three turns; close events come as late as they like.
SPECIFICATION Spec
CONSTANTS
  Callers = {c1, c2}
  TurnBound = 3
INVARIANTS
  TypeOK
  StrayOnlyByLateClose
PROPERTIES
  TurnSettles
\* The turns of the bound all end.
CHECK_DEADLOCK FALSE
