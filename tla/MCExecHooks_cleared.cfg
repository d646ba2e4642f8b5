SPECIFICATION Spec
CONSTANTS
  StartEnvs <- MCStartEnvs
  Programs <- MCPrograms
  Changes <- MCChanges
  Unsets <- MCUnsets
  Shipped <- MCShipped
  Locales <- MCLocales
INVARIANTS NeverFaults
