SPECIFICATION Spec
CONSTANTS
  ENG_W = 3
  ENG_H = 2
  MaxSide = 6
INVARIANTS
  ReadsInFrame
  WholeFrame
