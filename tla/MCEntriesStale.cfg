\* One query of one file that is written twice.
SPECIFICATION Spec
CONSTANTS
  Files = {f1}
  Callers = {c1}
  Ops = {"query"}
  MaxEntries = 1
  MaxWrites = 2
  MaxCommits = 1
  MaxCalls = 1
INVARIANTS
  EntriesTruthful
