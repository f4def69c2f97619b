SPECIFICATION Spec
CONSTANTS
  DIM = 1
  dim_bits <- bits_1d
  STRIDE = 2
  BUCKETSIZE = 1
  INT_BITS = 16
  RuleLists <- lists_same
  Stray <- MCStray
  HiGarbage <- MCHiGarbage
  SplitGarbage <- MCSplitGarbage
INVARIANT TreeAgrees
