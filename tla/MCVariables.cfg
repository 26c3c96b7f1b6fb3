SPECIFICATION Spec
CONSTANTS
  Names = {a, b, c}
  Blocks <- MCBlocks
  Depth = 3
  MaxReads = 2
SYMMETRY MCSymmetry
INVARIANTS TypeOK DependenciesFirst RefusedExactlyCycles BareReferencesAgree PlainVariablesFixed
