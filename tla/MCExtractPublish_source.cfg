\* extract.h: the source is deleted after a successful extraction.
CONSTANTS
  a = a
  b = b
  x = x
  Top = {a, b}
  Kids = {x}
  Engines = {"zip"}
  MaxRuns = 1
SYMMETRY Symmetry
SPECIFICATION Spec
INVARIANT SourceGoneOnSuccess
CHECK_DEADLOCK FALSE
