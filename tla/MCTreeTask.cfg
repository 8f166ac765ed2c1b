CONSTANTS
  Paths <- FewPaths
  Trees <- OneFolder
  Requests <- MoveAway
  Late = "late"
SPECIFICATION TreeSpec
INVARIANT NothingLostByErrors
CHECK_DEADLOCK FALSE
