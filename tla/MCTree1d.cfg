SPECIFICATION ProgramSpec
CONSTANTS
  DIM = 1
  dim_bits <- bits_1d
  STRIDE = 3
  BUCKETSIZE = 1
  INT_BITS = 16
  RuleLists <- lists_one
  Stray <- MCStray
  HiGarbage <- MCHiGarbage
  SplitGarbage <- MCSplitGarbage
  RAND_MAX = 15
INVARIANTS TypeOK AnswerKept OnlyStaleAuxFaults RecursionShrinks InfoExact OnlyEmptyRootFaults ArraySound SamplesAgree
PROPERTY MainEnds
