CONSTANTS
  p1 = p1
  p2 = p2
  rust = rust
  NoLang = NoLang
  Pass <- TwoPasses
  Lang <- OnlyRust
  Declared <- NoLanguages
  InitLoaded <- RustOrNone
  MaxSeedEdits = 1
  MaxInstallAttempts = 1
  MaxOpens = 1
  MaxVersion = 3
  MaxReloads = 1
  ParseMayFail = FALSE
SPECIFICATION Spec
SYMMETRY AnyPass
INVARIANTS
  TreesAreSound
PROPERTIES
  SnapshotNeverRegresses
CHECK_DEADLOCK FALSE
