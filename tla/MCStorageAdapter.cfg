SPECIFICATION StoreSpec
CONSTANTS
  ShimTable = 128
  ShimCount = 88
  Threads = {t1, t2}
  Templates = {"p1", "p2"}
  MaxFolds = 2
  MaxSize = 2
  SizeOf <- MCSizeOf
  Identities = {"subject"}
INVARIANTS
  StoreTypeOK
  NoMisuse
  CommitReturnsOwn
  RecordIsTheCallers
  LeftoverNeverSeen
PROPERTIES
  CallsAreAtomic
