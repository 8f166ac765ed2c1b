\* Every kind of task, created, fetched, streamed into, canceled and reaped
\* over two connections that race.  Each property relates two tasks at most.
CONSTANTS
  h1 = h1
  h2 = h2
  Handlers = {h1, h2}
  p1 = p1
  p2 = p2
  MaxTasks = 2
  Ops = {"copy", "extract", "download", "upload", "pkg"}
  Paths = {p1, p2}
SPECIFICATION Spec
INVARIANTS
  TypeOK
  OneActiveBesidesUploads
  OneDownloadStream
  WorkerTaskAlive
  CompletionIsDone
  StreamsCounted
  StreamTaskAlive
  PkgPathsDistinct
  PkgResultReported
PROPERTIES
  RevivedOnlyByOpenStream
  BackgroundTaskSettles
  UploadOutcomeKept
  PkgInstalled
\* The bound on the tasks created is the end of a behaviour.
CHECK_DEADLOCK FALSE
