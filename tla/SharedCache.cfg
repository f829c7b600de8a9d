\* Two writers add four entries to a cache of three, against two readers.
SPECIFICATION FairSpec
CONSTANTS
  r1 = r1
  r2 = r2
  w1 = w1
  w2 = w2
  k1 = k1
  k2 = k2
  Readers = {r1, r2}
  Writers = {w1, w2}
  Keys = {k1, k2}
  AddedKeys <- MCAddedKeys
  Lookups = 1
  MaxCacheSize = 3
  NoKey = NoKey
  NoValue = NoValue
  NoThread = NoThread
INVARIANTS TypeOK LockInv EntriesIntact PointersGood
PROPERTIES ImplementsLog ProgramEnds
