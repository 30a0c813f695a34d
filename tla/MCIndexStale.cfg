\* A file that is written twice between two looks at the repository.
SPECIFICATION Spec
CONSTANTS
  Files = {f1, f2}
  Callers = {c1}
  Ops = {"index"}
  MaxEntries = 1
  MaxWrites = 2
  MaxCommits = 1
  MaxCalls = 2
INVARIANTS
  IndexIsCurrent
