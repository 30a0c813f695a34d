\* Six calls of the tools and two changes by others, of a file, the index or the branch,
\* in any order.
SPECIFICATION Spec
CONSTANTS
  f = f
  g = g
  s = s
  Files = {f, g, s}
  Secret = {s}
  agent = agent
  main = main
  Branches = {agent, main}
  Writable = {agent}
  MaxCalls = 6
  MaxOthers = 2
SYMMETRY Pairs
INVARIANTS
  TypeOK
  NothingForgotten
PROPERTIES
  CommitExact
  CommitsAllowed
\* The calls run out.
CHECK_DEADLOCK FALSE
