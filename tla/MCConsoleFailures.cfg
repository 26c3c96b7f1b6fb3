SPECIFICATION Spec
CONSTANTS
  Commands <- MCCommands
  ConfigFiles <- MCConfigFiles
  Processes <- MCProcesses
  Inputs <- FollowedInputs
  MaxRuns = 1
INVARIANT
  EveryFailureListed
