\* Three jobs with room for one record, so that pruning happens,
\* with a tool ahead of, between or behind the jobs on the lane.
SPECIFICATION Spec
CONSTANTS
  Keys = {r1}
  MaxCalls = 4
  JobBound = 3
  MAX_JOBS = 1
INVARIANTS
  JobsTypeOK
  ProcessAttended
  UnfinishedInReach
PROPERTIES
  FinalIsFinal
  EveryJobEnds
\* The server may exit.
CHECK_DEADLOCK FALSE
