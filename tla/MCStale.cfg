SPECIFICATION Spec
CONSTANTS
  DIM = 1
  dim_bits <- bits_5
  STRIDE = 2
  BUCKETSIZE = 1
  INT_BITS = 16
  RuleLists <- lists_groups
  Stray <- MCStray
  HiGarbage <- LargeCounts
  SplitGarbage <- MCSplitGarbage
INVARIANT NoFaults
