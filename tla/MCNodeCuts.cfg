SPECIFICATION NodeSpec
CONSTANTS
  DIM = 1
  dim_bits <- bits
  STRIDE = 4
  BUCKETSIZE = 1
  INT_BITS = 16
  RuleLists <- lists
  OldHist <- hists
  Few = {0, 1, 2, 3}
  FewRules = 4
  Points = {0, 1, 3, 6, 7, 12, 15}
  MAXRULES = 3
INVARIANTS RoomExact ChildrenExact AnswersKept LookupIsLongest SweepIsBestCut CountsExact SplitAlwaysGains SweepIsHist SegmentsFit SegmentsAlike
PROPERTY SweepsProgress
