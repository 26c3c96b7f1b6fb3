SPECIFICATION FairSpec
CONSTANTS
  Var <- MCVar
  Jobs <- MCJobs
INVARIANTS
  TypeOK
  FirstErrorKept
  RetriesUsedUp
  CapturesFresh
PROPERTIES
  ImplementsContract
  TestReturns
