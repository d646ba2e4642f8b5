SPECIFICATION Spec
CONSTANTS
  MaxPath = 12
  MaxRules = 2
  Mappings <- MCMappings
  Excludes <- MCExcludes
  Inputs <- MCInputs
INVARIANTS
  TypeOK
  MatchesReference
  RoundTrip
