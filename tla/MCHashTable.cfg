CONSTANTS
  NumElements = 9
  Hashes <- MCHashes
  InitialBuckets = 1
  Threshold = 2
  Readers = {r1}
SPECIFICATION Spec
INVARIANTS
  TypeOK
  Fsck
  ChainsBounded
  UndisturbedLookups
PROPERTIES
  LookupsEnd
