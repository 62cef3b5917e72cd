CONSTANTS
  p1 = p1
  p2 = p2
  rust = rust
  NoLang = NoLang
  Pass <- TwoPasses
  Lang <- OnlyRust
  Declared <- NoLanguages
  InitLoaded <- RustLoaded
  MaxSeedEdits = 1
  MaxInstallAttempts = 1
  MaxOpens = 1
  MaxVersion = 1
  MaxReloads = 0
  ParseMayFail = FALSE
SPECIFICATION Spec
SYMMETRY AnyPass
PROPERTIES
  TreelessPublishNeverBlocks
CHECK_DEADLOCK FALSE
