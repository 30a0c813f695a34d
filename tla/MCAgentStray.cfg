\* One client and two turns.
SPECIFICATION Spec
CONSTANTS
  Callers = {c1}
  TurnBound = 2
INVARIANTS
  AgentInReach
CHECK_DEADLOCK FALSE
