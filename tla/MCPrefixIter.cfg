SPECIFICATION Spec
CONSTANT WORD = 5
INVARIANTS Contiguous CoversRange Canonical CountBounded
PROPERTIES NoOverlap LoopEnds
CHECK_DEADLOCK FALSE
