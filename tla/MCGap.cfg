SPECIFICATION Spec
CONSTANTS
  DIM = 1
  dim_bits <- bits_1d
  STRIDE = 3
  BUCKETSIZE = 1
  INT_BITS = 16
  RuleLists <- lists_hi
  Stray <- MCStray
  HiGarbage <- MCHiGarbage
  SplitGarbage <- MCSplitGarbage
INVARIANT TreeAgreesEverywhere
