SPECIFICATION Spec
CHECK_DEADLOCK FALSE
CONSTANTS
  ShimTable = 128
  ShimCount = 88
  Page = 2
  TlsBlock = 3
  Base = 8
  Files <- TlsFiles
INVARIANT ArmedOnEveryEntry
