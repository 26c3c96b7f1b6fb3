SPECIFICATION MCSpec
CONSTANTS
  Files <- MCFiles
  Content <- Names
  Findings <- FindingsIn
  Does <- DoesAt
  Known <- AllKnown
  Contents <- MCContents
  Configs <- MCConfigs
  Owns <- MCOwns
  AreaSets <- MCAreaSets
  MaxCommands = 2
  Paths <- MCPaths
  Parsed <- MCParsed
  Lowered <- MCLowered
  TextTest <- MCTextTest
  Sprint <- AsString
  Sole <- MCSole
  Quoted <- MCQuoted
  Aggregates <- MCAggregates
  ArrayRoots <- MCArrayRoots
  Exprs <- MCExprs
  Policy <- MCPolicy
  BaseURL <- MCBaseURL
  Absolute <- MCAbsolute
INVARIANTS
  DifferenceReported
  MigrationKeepsBehaviour
CHECK_DEADLOCK FALSE
