\* Two names at the top, one below: a directory beside a file, merged or new.
CONSTANTS
  a = a
  b = b
  x = x
  Top = {a, b}
  Kids = {x, y}
  y = y
  Engines = {"zip", "7z"}
  MaxRuns = 2
SYMMETRY Symmetry
SPECIFICATION Spec
INVARIANTS
  UserDataKept
  SuccessIsComplete
  SourceKept
  ResidueOnlyInNewDirs
\* An extraction ends.
CHECK_DEADLOCK FALSE
