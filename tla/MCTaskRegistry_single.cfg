\* README.md: copy, move, delete, upload and download run as single tasks.
CONSTANTS
  h1 = h1
  h2 = h2
  Handlers = {h1, h2}
  MaxTasks = 2
  Ops = {"copy", "upload"}
  Paths = {}
SPECIFICATION Spec
INVARIANT SingleActiveTask
CHECK_DEADLOCK FALSE
