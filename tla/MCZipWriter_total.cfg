CONSTANTS
  ZipArchives <- BelowTheCap
  IoBuffer = 2
  ZipMaxTotal = 6
  ZipMaxFile = 3
SPECIFICATION ZipSpec
INVARIANT ScannedTotalFits
CHECK_DEADLOCK FALSE
