\* Two repositories, up to four calls on each: long enough for a call to time out
\* between one that runs and one that still waits, on one lane while the other works.
SPECIFICATION Spec
CONSTANTS
  Keys = {r1, r2}
  MaxCalls = 4
INVARIANTS
  TypeOK
  MutualExclusion
  StateReportExact
PROPERTIES
  GiveUpOnlyWhenHeld
  PatientServed
  ImplementsLease
\* The calls of the bound are all over in the end.
CHECK_DEADLOCK FALSE
