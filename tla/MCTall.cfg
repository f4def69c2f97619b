SPECIFICATION Spec
CONSTANTS
  DIM = 2
  dim_bits <- bits_tall
  STRIDE = 5
  BUCKETSIZE = 1
  INT_BITS = 16
  RuleLists <- lists_tall
  Stray <- MCStray
  HiGarbage <- MCHiGarbage
  SplitGarbage <- MCSplitGarbage
INVARIANT ScratchSuffices
