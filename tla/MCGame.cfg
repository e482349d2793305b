SPECIFICATION GameFairSpec
CONSTANTS
  HpWord = 2
  FramePeriod = 3
  Positions <- MCPositions
  Chords <- MCChords
INVARIANTS
  OneLifePerDeath
  NoDamageWhileDead
PROPERTIES
  DyingEndsMatch
  NoWrapInPlay
  FreshMatch
  JustVerdict
