CONSTANTS
  ZipArchives <- OneFile
  IoBuffer = 2
  ZipMaxTotal = 20
  ZipMaxFile = 3
SPECIFICATION ZipSpec
INVARIANT EntryBytesAsPacked
CHECK_DEADLOCK FALSE
