----------------------------- MODULE TaskRegistry -----------------------------
(***************************************************************************)
(* The task registry of src/src/task.c (g_tasks, g_tasks_lock) and every   *)
(* actor that touches it: the HTTP request handlers of filemgr.c,          *)
(* upload.c, download.c and extract.c, the detached worker thread of each  *)
(* background task, and the one PKG installer thread.                      *)
(*                                                                         *)
(* A region under g_tasks_lock is one action.  What happens between two    *)
(* such regions (file system calls, network transfers) only shows as the   *)
(* step from one location of the actor to the next.                        *)
(*                                                                         *)
(* "copy" stands for COPY, MOVE, DELETE and CHMOD, which share             *)
(* create_task_response() and task_worker(); the other ops are EXTRACT,    *)
(* DOWNLOAD, UPLOAD and PKG_INSTALL.                                       *)
(*                                                                         *)
(* Ids are never reused, so the list is a function from ids to tasks and   *)
(* free_task() moves a task to "freed".  An actor that still holds a       *)
(* pointer to a freed task has no effect on the tasks that are alive: what *)
(* a use of freed memory does is undefined, and the model only shows where *)
(* it happens.                                                             *)
(***************************************************************************)
EXTENDS Integers, FiniteSets

CONSTANTS
  Handlers,    \* connection threads of the web server
  MaxTasks,    \* bound: how many tasks are ever created
  Ops,         \* the kinds of task the clients of this instance create
  Paths        \* package files

ASSUME MaxTasksAssumption == MaxTasks \in Nat \ {0}
ASSUME FiniteAssumption == IsFiniteSet(Handlers) /\ IsFiniteSet(Paths)
ASSUME OpsAssumption == Ops \subseteq {"copy", "extract", "download", "upload", "pkg"}

VARIABLES
  nextId,      \* g_next_task_id
  op, path, state, cancel, reported, streams,     \* fields of file_task_t
  completion,  \* g_last_completion.id, 0 for none
  wpc, wend,   \* worker thread of a task: location, outcome it will store
  hpc, htask, hend,   \* handler: location, its task pointer, outcome
  pkgpc, pkgTask      \* PKG installer thread

table    == <<nextId, op, path, cancel, reported, streams>>
worker   == <<wpc, wend>>
handler  == <<hpc, htask, hend>>
pkg      == <<pkgpc, pkgTask>>
vars     == <<table, state, completion, worker, handler, pkg>>

Id == 1 .. MaxTasks
NoTask == 0

ActiveStates   == {"queued", "running"}
TerminalStates == {"done", "failed", "canceled"}
Outcomes       == TerminalStates \cup {"none"}

DownloadLocs == {"prepare", "abort", "read", "sent", "close_oom", "settle", "settle_oom"}
StreamLocs   == {"opening", "data", "wrote", "fail", "free"}
WorkerLocs   == {"start", "work", "failed", "settle", "stuck"}

TypeOK ==
  /\ nextId \in 1 .. MaxTasks + 1
  /\ op \in [Id -> {"none", "copy", "extract", "download", "upload", "pkg"}]
  /\ path \in [Id -> Paths \cup {"none"}]
  /\ state \in [Id -> {"none", "freed"} \cup ActiveStates \cup TerminalStates]
  /\ \A t \in Id : state[t] = "none" <=> t >= nextId
  /\ cancel \in [Id -> BOOLEAN]
  /\ reported \in [Id -> BOOLEAN]
  /\ streams \in [Id -> Nat]
  /\ completion \in Id \cup {NoTask}
  /\ wpc \in [Id -> WorkerLocs \cup {"none", "exit"}]
  /\ wend \in [Id -> Outcomes]
  /\ hpc \in [Handlers -> DownloadLocs \cup StreamLocs \cup
                {"idle", "spawn", "reply", "oom", "checked", "found", "finish", "finishing",
                 "fileop"}]
  /\ htask \in [Handlers -> Id \cup {NoTask}]
  /\ hend \in [Handlers -> Outcomes]
  /\ pkgpc \in {"off", "look", "wait", "install"}
  /\ pkgTask \in Id \cup {NoTask}

Init ==
  /\ nextId = 1
  /\ op = [t \in Id |-> "none"] /\ path = [t \in Id |-> "none"]
  /\ state = [t \in Id |-> "none"]
  /\ cancel = [t \in Id |-> FALSE] /\ reported = [t \in Id |-> FALSE]
  /\ streams = [t \in Id |-> 0]
  /\ completion = NoTask
  /\ wpc = [t \in Id |-> "none"] /\ wend = [t \in Id |-> "none"]
  /\ hpc = [h \in Handlers |-> "idle"]
  /\ htask = [h \in Handlers |-> NoTask]
  /\ hend = [h \in Handlers |-> "none"]
  /\ pkgpc = "off" /\ pkgTask = NoTask

-------------------------------------------------------------------------------
(* task.c *)

IsActive(t) == state[t] \in ActiveStates
IsTerminal(t) == state[t] \in TerminalStates

HasActive == \E t \in Id : op[t] # "pkg" /\ IsActive(t)

ReapedInUse(rep) ==                 \* mutant: does not look at active_streams
  [t \in Id |-> IF IsTerminal(t) /\ (op[t] = "pkg" => rep[t]) THEN "freed" ELSE state[t]]

ReapedQueued(rep) ==                \* mutant: only a running task is in use
  [t \in Id |-> IF state[t] \in TerminalStates \cup {"queued"} /\ streams[t] = 0
                     /\ (op[t] = "pkg" => rep[t])
                THEN "freed" ELSE state[t]]

ReapedUnreported(rep) ==            \* mutant: PKG results are not kept back
  [t \in Id |-> IF IsTerminal(t) /\ streams[t] = 0 THEN "freed" ELSE state[t]]

(* remove_finished_tasks_locked(): what it leaves of every task. *)
Reaped(rep) ==
  [t \in Id |-> IF IsTerminal(t) /\ streams[t] = 0 /\ (op[t] = "pkg" => rep[t])
                THEN "freed" ELSE state[t]]

(* task_update(): stores the state unconditionally. *)
TaskUpdate(t, s) == state' = [state EXCEPT ![t] = IF @ = "freed" THEN @ ELSE s]

(* record_task_completion_locked() records only transfers that took long. *)
Completed(t) == IF op[t] = "extract" THEN UNCHANGED completion
                                     ELSE completion' \in {completion, t}

Goto(h, loc) == hpc' = [hpc EXCEPT ![h] = loc]

Handle(h, loc, t) ==
  /\ Goto(h, loc)
  /\ htask' = [htask EXCEPT ![h] = t]
  /\ UNCHANGED hend

(* The handler's call returns. *)
Return(h) ==
  /\ hpc' = [hpc EXCEPT ![h] = "idle"]
  /\ htask' = [htask EXCEPT ![h] = NoTask]
  /\ hend' = [hend EXCEPT ![h] = "none"]

Decide(h, loc, outcome) ==
  /\ Goto(h, loc)
  /\ hend' = [hend EXCEPT ![h] = outcome]
  /\ UNCHANGED htask

InsertSameId(o, s) ==               \* mutant: g_next_task_id is not advanced
  /\ nextId <= MaxTasks
  /\ op' = [op EXCEPT ![nextId] = o]
  /\ state' = [Reaped(reported) EXCEPT ![nextId] = s]
  /\ UNCHANGED <<nextId, path, cancel, reported, streams>>

(* The reap and the insertion at the head of g_tasks, one locked region. *)
Insert(o, s) ==
  /\ nextId <= MaxTasks
  /\ nextId' = nextId + 1
  /\ op' = [op EXCEPT ![nextId] = o]
  /\ state' = [Reaped(reported) EXCEPT ![nextId] = s]
  /\ UNCHANGED <<path, cancel, reported, streams>>

-------------------------------------------------------------------------------
(* Creating background tasks: create_task_response(), api_extract() and    *)
(* create_download_task_response().                                        *)

(* The creator goes on, without the lock, to start the thread or to write  *)
(* the id of the task into its reply.                                      *)
GoOn(h, o) == Handle(h, IF o = "download" THEN "reply" ELSE "spawn", nextId)

CreateTaskUnchecked(h, o) ==        \* mutant: has_active is not asked again
  /\ hpc[h] = "idle"
  /\ o \in Ops \cap {"copy", "extract", "download"}
  /\ Insert(o, "queued")
  /\ GoOn(h, o)
  /\ UNCHANGED <<completion, worker, pkg>>

CreateTask(h, o) ==
  /\ hpc[h] = "idle"
  /\ o \in Ops \cap {"copy", "extract", "download"}
  /\ ~HasActive
  /\ Insert(o, "queued")
  /\ GoOn(h, o)
  /\ UNCHANGED <<completion, worker, pkg>>

(* "another task is running": finished tasks are reaped all the same. *)
CreateRefused ==
  /\ HasActive
  /\ state' = Reaped(reported)
  /\ UNCHANGED <<table, completion, worker, handler, pkg>>

(* pthread_create() outside the lock; when it fails the task is FAILED. *)
SpawnWorker(h) ==
  /\ hpc[h] = "spawn"
  /\ \/ wpc' = [wpc EXCEPT ![htask[h]] = "start"] /\ UNCHANGED state
     \/ TaskUpdate(htask[h], "failed") /\ UNCHANGED wpc
  /\ Goto(h, "reply")
  /\ UNCHANGED <<table, completion, wend, htask, hend, pkg>>

(* task->thread is read for pthread_detach() and task->id for the reply.   *)
Reply(h) ==
  /\ hpc[h] = "reply"
  /\ Return(h)
  /\ UNCHANGED <<table, state, completion, worker, pkg>>

-------------------------------------------------------------------------------
(* task_worker() and extract_worker(). *)

WorkerStart(t) ==
  /\ wpc[t] = "start"
  /\ TaskUpdate(t, "running")
  /\ wpc' = [wpc EXCEPT ![t] = "work"]
  /\ UNCHANGED <<table, completion, wend, handler, pkg>>

(* The operation ran to its end; cancel_requested is not looked at again. *)
WorkerDone(t) ==
  /\ wpc[t] = "work"
  /\ TaskUpdate(t, "done")
  /\ Completed(t)
  /\ wpc' = [wpc EXCEPT ![t] = "exit"]
  /\ UNCHANGED <<table, wend, handler, pkg>>

(* A poll of cancel_requested saw the cancel. *)
WorkerCanceled(t) ==
  /\ wpc[t] = "work"
  /\ cancel[t]
  /\ wpc' = [wpc EXCEPT ![t] = "settle"]
  /\ wend' = [wend EXCEPT ![t] = "canceled"]
  /\ UNCHANGED <<table, state, completion, handler, pkg>>

(* A step failed.  task_worker() mostly asks again whether it was canceled *)
(* before it reports; extract_worker() reports the engine's status as is.  *)
WorkerFailed(t) ==
  /\ wpc[t] = "work"
  /\ \/ /\ op[t] = "copy"
        /\ wpc' = [wpc EXCEPT ![t] = "failed"]
        /\ UNCHANGED wend
     \/ /\ wpc' = [wpc EXCEPT ![t] = "settle"]
        /\ wend' = [wend EXCEPT ![t] = "failed"]
  /\ UNCHANGED <<table, state, completion, handler, pkg>>

(* The BCJ2 loop of sevenz_chain.c turns for ever on a damaged folder and  *)
(* polls no cancel (CoderChain).                                           *)
WorkerStuck(t) ==
  /\ wpc[t] = "work"
  /\ op[t] = "extract"
  /\ wpc' = [wpc EXCEPT ![t] = "stuck"]
  /\ UNCHANGED <<table, state, completion, wend, handler, pkg>>

WorkerRecheckSilent(t) ==           \* mutant: an error path returns unsettled
  /\ wpc[t] = "failed"
  /\ wpc' = [wpc EXCEPT ![t] = IF cancel[t] THEN "settle" ELSE "exit"]
  /\ wend' = [wend EXCEPT ![t] = IF cancel[t] THEN "canceled" ELSE "failed"]
  /\ UNCHANGED <<table, state, completion, handler, pkg>>

WorkerRecheck(t) ==
  /\ wpc[t] = "failed"
  /\ wpc' = [wpc EXCEPT ![t] = "settle"]
  /\ wend' = [wend EXCEPT ![t] = IF cancel[t] THEN "canceled" ELSE "failed"]
  /\ UNCHANGED <<table, state, completion, handler, pkg>>

WorkerSettleRecording(t) ==         \* mutant: a failed transfer is announced too
  /\ wpc[t] = "settle"
  /\ TaskUpdate(t, wend[t])
  /\ Completed(t)
  /\ wpc' = [wpc EXCEPT ![t] = "exit"]
  /\ UNCHANGED <<table, wend, handler, pkg>>

WorkerSettle(t) ==
  /\ wpc[t] = "settle"
  /\ TaskUpdate(t, wend[t])
  /\ wpc' = [wpc EXCEPT ![t] = "exit"]
  /\ UNCHANGED <<table, completion, wend, handler, pkg>>

Worker(t) ==
  \/ WorkerStart(t) \/ WorkerDone(t) \/ WorkerCanceled(t) \/ WorkerFailed(t)
  \/ WorkerStuck(t) \/ WorkerRecheck(t) \/ WorkerSettle(t)

-------------------------------------------------------------------------------
(* api_cancel() and api_tasks(), each one locked region. *)

ApiCancelSettling(t) ==             \* mutant: settles a running download as well
  /\ op[t] # "pkg" /\ IsActive(t)
  /\ cancel' = [cancel EXCEPT ![t] = TRUE]
  /\ state' = [state EXCEPT ![t] = IF op[t] = "download" THEN "canceled" ELSE @]
  /\ UNCHANGED <<nextId, op, path, reported, streams, completion, worker, handler, pkg>>

(* Only a download nobody fetches yet is settled on the spot. *)
ApiCancel(t) ==
  /\ op[t] # "pkg" /\ IsActive(t)
  /\ cancel' = [cancel EXCEPT ![t] = TRUE]
  /\ state' = [state EXCEPT ![t] =
                 IF op[t] = "download" /\ @ = "queued" THEN "canceled" ELSE @]
  /\ UNCHANGED <<nextId, op, path, reported, streams, completion, worker, handler, pkg>>

ApiTasks ==
  /\ reported' = [t \in Id |-> reported[t] \/ IsTerminal(t)]
  /\ state' = Reaped(reported')
  /\ UNCHANGED <<nextId, op, path, cancel, streams, completion, worker, handler, pkg>>

-------------------------------------------------------------------------------
(* api_download() and the callbacks of its response. *)

DownloadClaimAgain(h, t) ==         \* mutant: a second request may join in
  /\ hpc[h] = "idle"
  /\ op[t] = "download" /\ IsActive(t)
  /\ TaskUpdate(t, "running")
  /\ Handle(h, "prepare", t)
  /\ UNCHANGED <<table, completion, worker, pkg>>

DownloadClaim(h, t) ==
  /\ hpc[h] = "idle"
  /\ op[t] = "download" /\ state[t] = "queued"
  /\ TaskUpdate(t, "running")
  /\ Handle(h, "prepare", t)
  /\ UNCHANGED <<table, completion, worker, pkg>>

(* prepare_download_task() and the set-up of the stream, which may fail    *)
(* while scanning ("abort"), without a look at cancel_requested ("settle"),*)
(* or halfway through a TAR stream ("close_oom").                          *)
DownloadPrepare(h) ==
  /\ hpc[h] = "prepare"
  /\ TaskUpdate(htask[h], "running")
  /\ \/ \E loc \in {"read", "sent", "abort", "close_oom"} :
          Goto(h, loc) /\ UNCHANGED <<htask, hend>>
     \/ Decide(h, "settle", "failed")
  /\ UNCHANGED <<table, completion, worker, pkg>>

(* download_file_read() or tar_read(). *)
DownloadRead(h) ==
  /\ hpc[h] = "read"
  /\ ~cancel[htask[h]]
  /\ TaskUpdate(htask[h], "running")
  /\ \E loc \in {"read", "sent"} : Goto(h, loc)
  /\ UNCHANGED <<table, completion, worker, htask, hend, pkg>>

(* download_file_close() or tar_close() reads the cancel flag first. *)
DownloadClose(h) ==
  /\ hpc[h] \in {"read", "sent", "abort", "close_oom"}
  /\ Decide(h, IF hpc[h] = "close_oom" THEN "settle_oom" ELSE "settle",
            IF cancel[htask[h]] THEN "canceled"
            ELSE IF hpc[h] = "sent" THEN "done" ELSE "failed")
  /\ UNCHANGED <<table, state, completion, worker, pkg>>

DownloadSettle(h) ==
  /\ hpc[h] \in {"settle", "settle_oom"}
  /\ TaskUpdate(htask[h], hend[h])
  /\ IF hpc[h] = "settle" THEN Return(h)
     ELSE Goto(h, "oom") /\ UNCHANGED <<htask, hend>>
  /\ UNCHANGED <<table, completion, worker, pkg>>

(* api_download() reports "out of memory" after tar_close() has settled. *)
DownloadOom(h) ==
  /\ hpc[h] = "oom"
  /\ TaskUpdate(htask[h], "failed")
  /\ Return(h)
  /\ UNCHANGED <<table, completion, worker, pkg>>

-------------------------------------------------------------------------------
(* upload.c: api_upload_prepare(), the stream of one file, and             *)
(* api_upload_finish().                                                    *)

(* The first check, before the manifest is sized without the lock. *)
UploadCheck(h) ==
  /\ hpc[h] = "idle"
  /\ "upload" \in Ops
  /\ ~HasActive
  /\ state' = Reaped(reported)
  /\ Goto(h, "checked")
  /\ UNCHANGED <<table, completion, worker, htask, hend, pkg>>

(* The second check and the insertion; the task starts out RUNNING. *)
UploadPrepare(h) ==
  /\ hpc[h] = "checked"
  /\ \/ ~HasActive /\ Insert("upload", "running") /\ Handle(h, "reply", nextId)
     \/ state' = Reaped(reported) /\ UNCHANGED table /\ Return(h)   \* busy, or no space
  /\ UNCHANGED <<completion, worker, pkg>>

(* upload_task_from_conn(), for a stream and for /api/upload/finish. *)
UploadFind(h, t) ==
  /\ hpc[h] = "idle"
  /\ op[t] = "upload" /\ IsActive(t)
  /\ \E loc \in {"found", "finish"} : Handle(h, loc, t)
  /\ UNCHANGED <<table, state, completion, worker, pkg>>

(* The task was freed between finding it and using it. *)
StaleHandler(h) ==
  /\ hpc[h] \in {"found", "finish", "finishing"}
  /\ state[htask[h]] = "freed"
  /\ Return(h)
  /\ UNCHANGED <<table, state, completion, worker, pkg>>

StreamOpenUncounted(h) ==           \* mutant: the stream is not counted
  /\ hpc[h] = "found"
  /\ state[htask[h]] # "freed"
  /\ Goto(h, "opening")
  /\ UNCHANGED <<table, state, completion, worker, htask, hend, pkg>>

(* active_streams++, in a locked region of its own. *)
StreamOpen(h) ==
  /\ hpc[h] = "found"
  /\ state[htask[h]] # "freed"
  /\ streams' = [streams EXCEPT ![htask[h]] = @ + 1]
  /\ Goto(h, "opening")
  /\ UNCHANGED <<nextId, op, path, state, cancel, reported, completion, worker,
                 htask, hend, pkg>>

(* filemgr_upload_begin(): the cancel check, then path, permission, space  *)
(* and open() checks, each of which may fail.                              *)
StreamBegin(h) ==
  /\ hpc[h] = "opening"
  /\ \/ cancel[htask[h]] /\ Decide(h, "fail", "canceled")
     \/ ~cancel[htask[h]] /\ Decide(h, "fail", "failed")
     \/ ~cancel[htask[h]] /\ Goto(h, "data") /\ UNCHANGED <<htask, hend>>
  /\ UNCHANGED <<table, state, completion, worker, pkg>>

(* upload_flush(): the buffer is written unless a cancel is seen ... *)
StreamWrite(h) ==
  /\ hpc[h] = "data"
  /\ ~cancel[htask[h]]
  /\ Goto(h, "wrote")
  /\ UNCHANGED <<table, state, completion, worker, htask, hend, pkg>>

(* ... and then the task is stored as RUNNING, whatever it was. *)
StreamProgress(h) ==
  /\ hpc[h] = "wrote"
  /\ TaskUpdate(htask[h], "running")
  /\ Goto(h, "data")
  /\ UNCHANGED <<table, completion, worker, htask, hend, pkg>>

(* A write error, a wrong size, a failing rename, a cancel that was seen,  *)
(* or a client that went away.                                             *)
StreamStop(h) ==
  /\ hpc[h] = "data"
  /\ Decide(h, "fail", IF cancel[htask[h]] THEN "canceled" ELSE "failed")
  /\ UNCHANGED <<table, state, completion, worker, pkg>>

(* filemgr_upload_finish(): the file is renamed into place. *)
StreamDone(h) ==
  /\ hpc[h] = "data"
  /\ Goto(h, "free")
  /\ UNCHANGED <<table, state, completion, worker, htask, hend, pkg>>

FinishUploadAnyway(t, outcome) ==   \* mutant: overwrites an outcome
  /\ TaskUpdate(t, outcome)
  /\ IF outcome = "done" THEN Completed(t) ELSE UNCHANGED completion

(* finish_upload_task(): only an active task takes the outcome. *)
FinishUpload(t, outcome) ==
  IF IsActive(t)
  THEN /\ TaskUpdate(t, outcome)
       /\ IF outcome = "done" THEN Completed(t) ELSE UNCHANGED completion
  ELSE UNCHANGED <<state, completion>>

StreamFail(h) ==
  /\ hpc[h] = "fail"
  /\ FinishUpload(htask[h], hend[h])
  /\ Goto(h, "free")
  /\ UNCHANGED <<table, worker, htask, hend, pkg>>

StreamFreeLeaking(h) ==             \* mutant: a failed stream stays counted
  /\ hpc[h] = "free"
  /\ streams' = [streams EXCEPT ![htask[h]] = IF hend[h] = "none" THEN @ - 1 ELSE @]
  /\ Return(h)
  /\ UNCHANGED <<nextId, op, path, state, cancel, reported, completion, worker, pkg>>

(* filemgr_upload_free(). *)
StreamFree(h) ==
  /\ hpc[h] = "free"
  /\ streams' = [streams EXCEPT ![htask[h]] = IF @ > 0 THEN @ - 1 ELSE @]
  /\ Return(h)
  /\ UNCHANGED <<nextId, op, path, state, cancel, reported, completion, worker, pkg>>

(* api_upload_finish(): the cancel flag, then the outcome. *)
FinishCheck(h) ==
  /\ hpc[h] = "finish"
  /\ state[htask[h]] # "freed"
  /\ Decide(h, "finishing", IF cancel[htask[h]] THEN "canceled" ELSE "done")
  /\ UNCHANGED <<table, state, completion, worker, pkg>>

FinishSettle(h) ==
  /\ hpc[h] = "finishing"
  /\ state[htask[h]] # "freed"
  /\ FinishUpload(htask[h], hend[h])
  /\ Return(h)
  /\ UNCHANGED <<table, worker, pkg>>

-------------------------------------------------------------------------------
(* Operations without a task: rename, mkdir, saving a text file and an     *)
(* upload without a task id ask has_active_task() and then do their work.  *)

FileOpCheck(h) ==
  /\ hpc[h] = "idle"
  /\ ~HasActive
  /\ Goto(h, "fileop")
  /\ UNCHANGED <<table, state, completion, worker, htask, hend, pkg>>

FileOpDone(h) ==
  /\ hpc[h] = "fileop"
  /\ Return(h)
  /\ UNCHANGED <<table, state, completion, worker, pkg>>

-------------------------------------------------------------------------------
(* The PKG installer: enqueue_pkg_tasks() and pkg_task_worker().           *)

QueuedPkgs == {t \in Id : op[t] = "pkg" /\ state[t] = "queued"}
ActivePkgPath(p) == \E t \in Id : op[t] = "pkg" /\ IsActive(t) /\ path[t] = p

EnqueuePkgTwice(S) ==               \* mutant: an active path is queued again
  /\ "pkg" \in Ops /\ S # {} /\ nextId + Cardinality(S) <= MaxTasks + 1
  /\ nextId' = nextId + Cardinality(S)
  /\ \E f \in [nextId .. nextId + Cardinality(S) - 1 -> S] :
       /\ \A p \in S : \E t \in DOMAIN f : f[t] = p
       /\ path' = [t \in Id |-> IF t \in DOMAIN f THEN f[t] ELSE path[t]]
  /\ op' = [t \in Id |-> IF t \in nextId .. nextId' - 1 THEN "pkg" ELSE op[t]]
  /\ state' = [t \in Id |-> IF t \in nextId .. nextId' - 1 THEN "queued" ELSE state[t]]
  /\ pkgpc' = IF pkgpc \in {"off", "wait"} THEN "look" ELSE pkgpc
  /\ UNCHANGED <<cancel, reported, streams, completion, worker, handler, pkgTask>>

EnqueuePkgSilent(S) ==              \* mutant: no signal when the thread runs already
  /\ "pkg" \in Ops
  /\ LET New == {p \in S : ~ActivePkgPath(p)}
         ids == nextId .. nextId + Cardinality(New) - 1
     IN /\ New # {} /\ ids \subseteq Id
        /\ nextId' = nextId + Cardinality(New)
        /\ \E f \in [ids -> New] :
             /\ \A p \in New : \E t \in ids : f[t] = p
             /\ path' = [t \in Id |-> IF t \in ids THEN f[t] ELSE path[t]]
        /\ op' = [t \in Id |-> IF t \in ids THEN "pkg" ELSE op[t]]
        /\ state' = [t \in Id |-> IF t \in ids THEN "queued" ELSE state[t]]
  /\ pkgpc' = IF pkgpc = "off" THEN "look" ELSE pkgpc
  /\ UNCHANGED <<cancel, reported, streams, completion, worker, handler, pkgTask>>

(* The packages of one request, in some order, in one locked region: a     *)
(* path with an active task is answered with that task's id.  The first    *)
(* request starts the thread.                                              *)
EnqueuePkg(S) ==
  /\ "pkg" \in Ops
  /\ LET New == {p \in S : ~ActivePkgPath(p)}
         ids == nextId .. nextId + Cardinality(New) - 1
     IN /\ New # {} /\ ids \subseteq Id
        /\ nextId' = nextId + Cardinality(New)
        /\ \E f \in [ids -> New] :
             /\ \A p \in New : \E t \in ids : f[t] = p
             /\ path' = [t \in Id |-> IF t \in ids THEN f[t] ELSE path[t]]
        /\ op' = [t \in Id |-> IF t \in ids THEN "pkg" ELSE op[t]]
        /\ state' = [t \in Id |-> IF t \in ids THEN "queued" ELSE state[t]]
  /\ pkgpc' = IF pkgpc \in {"off", "wait"} THEN "look" ELSE pkgpc
  /\ UNCHANGED <<cancel, reported, streams, completion, worker, handler, pkgTask>>

PkgWait ==
  /\ pkgpc = "look"
  /\ QueuedPkgs = {}
  /\ pkgpc' = "wait"
  /\ UNCHANGED <<table, state, completion, worker, handler, pkgTask>>

(* next_pkg_task_locked(): the smallest queued id. *)
PkgTake ==
  /\ pkgpc = "look"
  /\ \E t \in QueuedPkgs :
       /\ \A u \in QueuedPkgs : t <= u
       /\ TaskUpdate(t, "running")
       /\ pkgTask' = t
  /\ pkgpc' = "install"
  /\ UNCHANGED <<table, completion, worker, handler>>

PkgInstall ==
  /\ pkgpc = "install"
  /\ \E outcome \in {"done", "failed"} : TaskUpdate(pkgTask, outcome)
  /\ pkgpc' = "look"
  /\ UNCHANGED <<table, completion, worker, handler, pkgTask>>

SpuriousPkgWakeup ==
  /\ pkgpc = "wait"
  /\ pkgpc' = "look"
  /\ UNCHANGED <<table, state, completion, worker, handler, pkgTask>>

PkgWorker == PkgWait \/ PkgTake \/ PkgInstall

-------------------------------------------------------------------------------
Create(h) == \E o \in Ops : CreateTask(h, o)

Download(h) ==
  \/ \E t \in Id : DownloadClaim(h, t)
  \/ DownloadPrepare(h) \/ DownloadRead(h) \/ DownloadClose(h)
  \/ DownloadSettle(h) \/ DownloadOom(h)

Upload(h) ==
  \/ UploadCheck(h) \/ UploadPrepare(h)
  \/ \E t \in Id : UploadFind(h, t)
  \/ StaleHandler(h)
  \/ StreamOpen(h) \/ StreamBegin(h) \/ StreamWrite(h) \/ StreamProgress(h)
  \/ StreamStop(h) \/ StreamDone(h) \/ StreamFail(h) \/ StreamFree(h)
  \/ FinishCheck(h) \/ FinishSettle(h)

FileOp(h) == FileOpCheck(h) \/ FileOpDone(h)

Handler(h) ==
  \/ Create(h) \/ SpawnWorker(h) \/ Reply(h)
  \/ Download(h) \/ Upload(h) \/ FileOp(h)

Client ==
  \/ CreateRefused
  \/ \E t \in Id : ApiCancel(t)
  \/ ApiTasks
  \/ \E S \in SUBSET Paths : EnqueuePkg(S)

Next ==
  \/ \E h \in Handlers : Handler(h)
  \/ \E t \in Id : Worker(t)
  \/ Client
  \/ PkgWorker \/ SpuriousPkgWakeup

(* Worker threads are scheduled and their file system calls return; an     *)
(* extraction may stay in its engine for ever (WorkerStuck).  A handler    *)
(* that inserted a task goes on to pthread_create, and the PKG thread      *)
(* runs.  Nothing is assumed of clients, so nothing of the handlers that   *)
(* wait for one.                                                           *)
Spec ==
  /\ Init /\ [][Next]_vars
  /\ \A t \in Id : WF_vars(Worker(t))
  /\ \A h \in Handlers : WF_vars(SpawnWorker(h))
  /\ WF_vars(PkgWorker)

-------------------------------------------------------------------------------
(* Safety of the registry as a whole. *)

(* README.md: file operations run one at a time.  As far as the code       *)
(* enforces it: of two distinct tasks that are queued or running, PKG      *)
(* installs aside, one is an upload, whichever handlers raced to create    *)
(* them.                                                                   *)
OneActiveBesidesUploads ==
  \A t, u \in Id :
    /\ t # u /\ IsActive(t) /\ IsActive(u)
    /\ op[t] # "pkg" /\ op[u] # "pkg"
    => op[t] = "upload" \/ op[u] = "upload"

(* The same without the exception for uploads, as README.md states it. *)
SingleActiveTask ==
  \A t, u \in Id :
    /\ IsActive(t) /\ IsActive(u)
    /\ op[t] # "pkg" /\ op[u] # "pkg"
    => t = u

(* A settled task that no open stream refers to stays settled until it is  *)
(* reaped: neither a worker nor a download nor a cancel brings it back.    *)
RevivedOnlyByOpenStream ==
  [][\A t \in Id : IsTerminal(t) /\ streams[t] = 0 => ~IsActive(t)']_vars

(* Two requests for the same download never stream it both.                *)
OneDownloadStream ==
  \A g, h \in Handlers :
    g # h /\ {hpc[g], hpc[h]} \subseteq DownloadLocs => htask[g] # htask[h]

(* free_task() never hits a task somebody still works on: its worker       *)
(* thread, the handler about to start that thread, or the one that streams *)
(* the download.  Excepted are handlers that only report afterwards: at    *)
(* "reply" (ReplyTaskAlive) and at "oom" the task may be freed.            *)
WorkerTaskAlive ==
  /\ \A t \in Id : wpc[t] \in WorkerLocs => IsActive(t)
  /\ \A h \in Handlers : hpc[h] \in DownloadLocs \cup {"spawn"} => IsActive(htask[h])

(* The transfer announced to the user as complete did complete.  An upload *)
(* is excepted: it may be announced while a stream is still open on it,    *)
(* and the next block of that stream makes it RUNNING again.               *)
CompletionIsDone ==
  completion # NoTask =>
    op[completion] = "upload" \/ state[completion] \in {"done", "freed"}

(* extract.h: the creator of a task answers with its id.  The task it      *)
(* reads the id from has not been freed meanwhile.                         *)
ReplyTaskAlive ==
  \A h \in Handlers : hpc[h] = "reply" => state[htask[h]] # "freed"

(* A copy, move, delete or chmod that was accepted is settled, on every    *)
(* error path, so that it cannot block the registry for ever, provided     *)
(* that every file system call returns; an extraction is settled unless,   *)
(* besides, its engine never returns.                                      *)
BackgroundTaskSettles ==
  \A t \in Id : (op[t] \in {"copy", "extract"} /\ IsActive(t))
                 ~> (~IsActive(t) \/ wpc[t] = "stuck")

-------------------------------------------------------------------------------
(* Uploads. *)

(* active_streams is the number of streams that are open on the task.      *)
StreamsCounted ==
  \A t \in Id : streams[t] =
    Cardinality({h \in Handlers : hpc[h] \in StreamLocs /\ htask[h] = t})

(* An upload is never freed under a stream that still writes to it, even   *)
(* when another request has settled it meanwhile.                          *)
StreamTaskAlive ==
  \A h \in Handlers : hpc[h] \in StreamLocs => state[htask[h]] # "freed"

(* No connection stores a second outcome over the one another connection   *)
(* stored: an upload leaves its outcome by the reap, or because a stream   *)
(* that is still open stores RUNNING.  In the second case the task is      *)
(* active again and may end otherwise than it did first.                   *)
UploadOutcomeKept ==
  [][\A t \in Id : op[t] = "upload" /\ IsTerminal(t) =>
       \/ state'[t] \in {state[t], "freed"}
       \/ streams[t] > 0 /\ state'[t] = "running"]_vars

-------------------------------------------------------------------------------
(* Package installation. *)

(* A path is never installed twice at the same time, nor queued twice.     *)
PkgPathsDistinct ==
  \A t, u \in Id : /\ t # u /\ op[t] = "pkg" /\ op[u] = "pkg"
                   /\ IsActive(t) /\ IsActive(u)
                   => path[t] # path[u]

(* The result of an installation is freed only after /api/tasks showed it, *)
(* although every other request that creates a task reaps too.             *)
PkgResultReported ==
  \A t \in Id : op[t] = "pkg" /\ state[t] = "freed" => reported[t]

(* A queued package is installed: no signal of the condition is lost.      *)
PkgInstalled ==
  \A t \in Id : (op[t] = "pkg" /\ state[t] = "queued") ~> ~IsActive(t)

===============================================================================
