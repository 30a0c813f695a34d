\* Patches of up to five lines on two paths; edits of all short texts; the commit of all
\* 64 plans of three changes, prepared by two workers.
SPECIFICATION AllSpec
CONSTANTS
  Paths = {p, q}
  NoPath = NoPath
  NoFile = NoFile
  TextLen = 4
  OldLen = 2
  Chars <- SomeChars
  EditTexts <- SomeTexts
  PatchTexts <- SomeFiles
  Lines <- SomeLines
  Olds <- SomeOlds
  News <- SomeNews
  MaxLines = 5
  MaxEdits = 2
  MaxFiles = 2
  MaxHunks = 2
  N = 3
  Workers = 2
SYMMETRY Symmetry
INVARIANTS
  PlanTypeOK
  ParsedAsWritten
  PlanIsSound
  MatchesAreRight
  RestIsKept
  TypeOK
  AnswerIsTrue
  CrashLosesNothing
\* Both parts end.
CHECK_DEADLOCK FALSE
