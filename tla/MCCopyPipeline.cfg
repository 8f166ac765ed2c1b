\* Three slots as in the code, buffers of 2 bytes and a file of 7: the ring
\* wraps, reads and writes come back short, and the last block is partial.
CONSTANTS
  Slots = 3
  BufSize = 2
  FileLen = 7
SPECIFICATION Spec
INVARIANTS
  TypeOK
  ReaderOwnsItsSlot
  DstWholeOrOld
  ReaderGoneBeforeFree
PROPERTIES
  CancelKeepsDst
  CopyEnds
  ImplementsFileCopy
\* The call returns, after which nothing is left to do.
CHECK_DEADLOCK FALSE
