\* Two repositories with a job each: the signal arrives at any moment.
SPECIFICATION Spec
CONSTANTS
  Keys = {r1, r2}
  MaxCalls = 2
  JobBound = 2
  MAX_JOBS = 1
INVARIANT NoJobSurvivesExit
CHECK_DEADLOCK FALSE
