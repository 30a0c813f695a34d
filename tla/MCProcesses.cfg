\* A capture limit of two chunks and a child that writes up to four.
\* Two running sessions allowed and four retained: the fifth start must prune.
\* A client's close may join one begun by the cleanup timer or the shutdown.
SPECIFICATION AllSpec
CONSTANTS
  MaxOutput = 2
  MaxSeen = 4
  PTY_MAX_SESSIONS = 2
  RetainFactor = 2
  StartBound = 5
  Clients = {c1}
INVARIANTS
  RunTypeOK
  KilledInTime
  ResultIsReal
  SessionsTypeOK
  ShellsAccounted
PROPERTIES
  SpawnedRunSettles
  CloseEnds
\* The run is over in the end, and the sessions of the bound all end.
CHECK_DEADLOCK FALSE
