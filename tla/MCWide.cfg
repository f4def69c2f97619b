SPECIFICATION Spec
CONSTANTS
  DIM = 2
  dim_bits <- bits_2d
  STRIDE = 2
  BUCKETSIZE = 1
  INT_BITS = 6
  RuleLists <- lists_wide
  Stray <- MCStray
  HiGarbage <- MCHiGarbage
  SplitGarbage <- MCSplitGarbage
INVARIANT CutsDivide
