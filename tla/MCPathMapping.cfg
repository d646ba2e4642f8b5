SPECIFICATION Spec
CONSTANTS
  MaxPath = 20
  MaxRules = 4
  MappingEnv <- MCMapping
  ExcludeEnv <- MCExclude
  ReverseOn = TRUE
  Home <- MCHome
  SearchDir <- MCHome
  Disks <- MCDisks
  StartDirs <- MCStartDirs
  Names <- MCNames
  PairNames <- MCPairNames
  Targets <- MCTargets
  Temps <- MCTemps
  MarkNames <- MCMarkNames
INVARIANTS NamesReach
PROPERTIES SeenAsVirtual
