\* One file, two calls, two changes of the tree and one commit.
SPECIFICATION Spec
CONSTANTS
  Files = {f1}
  Callers = {c1, c2}
  Ops = {"query", "refresh", "index", "reindex"}
  MaxEntries = 1
  MaxWrites = 2
  MaxCommits = 2
  MaxCalls = 2
SYMMETRY Symmetry
INVARIANTS
  TypeOK
  BodiesTruthful
  NoneLeftWaiting
