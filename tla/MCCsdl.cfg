SPECIFICATION Spec
CONSTANTS
  Bundles <- MCBundles
  NameOrder <- MCNameOrder
  NeverPrune <- MCNeverPrune
INVARIANTS
  CyclesDecided
  ShapeKept
  NamesResolve
