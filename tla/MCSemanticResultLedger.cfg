\* Three keys compete for two entries and one tombstone.
CONSTANTS
  Keys = {k1, k2, k3}
  Meanings = {m1, m2}
  NoMeaning = NoMeaning
  ValidUntils = {2, 3, 5}
  ActiveWindow = 2
  TombstoneTtl = 2
  ActiveCapacity = 2
  TombstoneCapacity = 1
  MaxTime = 5
  MaxRuns = 3
SPECIFICATION Spec
SYMMETRY MCSymmetry
INVARIANTS
  AtMostOnce
  RunsAreSpaced
  TablesAreSound
PROPERTIES
  UnknownIsFinal
