SPECIFICATION MCSpec
CONSTANTS
  Reader = {ntp}
  Word = {"epoch", "micros", "drift"}
  EpochWord = "epoch"
  Attempts = 4
  MaxPublish = 3
  SIZE = 2
  Key = {k1, k2}
  Field = {"key", "t"}
  KeyField = "key"
  TimeField = "t"
  DumpAttempts = 3
  MaxRecords = 4
INVARIANTS
  WholeRead
  WholeRecord
PROPERTIES
  AtomicSpec
  ReadReturns
  AtomicRingSpec
