\* zip_extract.h: on any failure dst_dir is left as it was.
CONSTANTS
  a = a
  b = b
  x = x
  Top = {a, b}
  Kids = {x}
  Engines = {"zip"}
  MaxRuns = 1
SYMMETRY Symmetry
SPECIFICATION Spec
INVARIANT DstRestored
CHECK_DEADLOCK FALSE
