SPECIFICATION FairSpec
CONSTANTS
  Name <- MCName
  Test <- MCTest
  Suites <- MCSuites
INVARIANTS
  TypeOK
  DependenciesSettled
  RecordsAgree
  NoSlotDeadlock
  BailBound
  TotalsAgree
PROPERTIES
  ImplementsContract
  SortedSuiteReturns
  CancelReturns
