\* extract.h: the creator answers with the id of its task.
CONSTANTS
  h1 = h1
  h2 = h2
  Handlers = {h1, h2}
  MaxTasks = 2
  Ops = {"extract"}
  Paths = {}
SPECIFICATION Spec
INVARIANT ReplyTaskAlive
CHECK_DEADLOCK FALSE
