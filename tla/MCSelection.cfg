SPECIFICATION Spec
CONSTANTS
  Commands <- MCCommands
  ConfigFiles <- MCConfigFiles
  Processes <- MCProcesses
  Inputs <- MCInputs
  MaxRuns = 2
INVARIANTS
  SameNames
  DependenciesFirst
  RetriesAsAsked
  EachResultReported
