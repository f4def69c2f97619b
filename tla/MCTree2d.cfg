SPECIFICATION Spec
CONSTANTS
  DIM = 2
  dim_bits <- bits_2d
  STRIDE = 2
  BUCKETSIZE = 1
  INT_BITS = 16
  RuleLists <- lists_2d
  Stray <- MCStray
  HiGarbage <- MCHiGarbage
  SplitGarbage <- MCSplitGarbage
INVARIANTS OnlyStaleAuxFaults RecursionShrinks
PROPERTY IsClassifier
