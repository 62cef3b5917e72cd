CONSTANTS
  p1 = p1
  p2 = p2
  rust = rust
  ruby = ruby
  NoLang = NoLang
  Pass <- TwoPasses
  Lang <- BothLangs
  Declared <- OnlyRuby
  InitLoaded <- RustLoaded
  MaxSeedEdits = 2
  MaxInstallAttempts = 2
  MaxOpens = 2
  MaxVersion = 1
  MaxReloads = 0
  ParseMayFail = TRUE
SPECIFICATION ReadSpec
SYMMETRY AnyPass
INVARIANTS
  TypeOK
  SnapshotIsFaithful
  TreesAreSound
  ParkedReaderIsOwed
CHECK_DEADLOCK FALSE
