# Verification of ps5-web-file-manager

TLA+ specifications of the file manager's C core (`src/*.c`), model-checked
with TLC, and theorems about them checked with TLAPS. Paths below are relative
to the repository root.

## 1. The system

A small HTTP server (libmicrohttpd, one thread per connection,
`src/websrv.c:233`) runs on a console and serves a browser front end. Requests
list, copy, move, delete, chmod, download, upload, edit and extract files and
queue package installations. Long operations are *tasks* in one global list;
each background task has a detached worker thread of its own.

### Components

| Component | Source | State it keeps | Operations |
|---|---|---|---|
| Task registry | `task.c`, `filemgr_internal.h` | `g_tasks`, `g_next_task_id`, `g_tasks_lock`; per task: op, state, cancel flag, reported flag, open streams, progress | busy check, reap, update, cancel |
| Background file tasks | `filemgr.c` | one worker thread per task | copy, move, delete, chmod; checks of space and permissions; tree walks |
| Large file copy | `filemgr.c` (`copy_file_pipeline`) | ring of 3 buffers, two indices, `done`, `error`, two condition variables, a temporary file | reader thread, writer loop, commit or discard |
| PKG queue | `filemgr.c`, `pkg_installer.c` | tasks of their own op, one thread, one condition variable | enqueue, install |
| Downloads | `download.c` | the open stream of one response, TAR directory stack | prepare, claim, read, close |
| Uploads | `upload.c` | per stream: temporary file, buffer, counters; per task: number of open streams | prepare, begin, data, finish, free |
| Extraction task | `extract.c` | a task and its worker | dispatch to an engine, map its status, delete the source archive |
| ZIP, RAR, 7z engines | `zip_extract.c`, `rar_extract.c`, `sevenz_extract.c` | staging directory, list of published paths, limits, name table, counters; 7z: the sink's plan of slices | open, scan, extract, publish, roll back, clean up |
| 7z coder chain | `sevenz_chain.c` (`sevenz_header.c`) | parsed coder graph; nodes with their buffers, offsets, program counters and flags | parse, check, build, pull, free |
| 7z parallel decoding | `sevenz_mt.c` | the threads of the vendored decoder | decode, or say that no thread could be started |
| Volume sets | `zipx_volume.c`, `*_volstream.c` | list of volume files, their sizes; position, open part, cached offset, sticky error | detect, seek, read, select a disk |
| Text editor | `text.c` | none; a content hash as version | open, create, save |
| HTTP server, main loop | `websrv.c`, `main.c` | body of the request being received | routing, start, exit |
| Helpers | `fs_util.c`, `path_util.c`, `list.c`, `space.c`, `json_util.c`, `mime.c`, `asset.c`, `file_response.c`, `pkg_info.c`, `app_installer.c`, `notify.c`, `version.c` | none | |
| Front end | `assets/` | browser state | drives the API |
| Vendored code | `third_party/` | | 7-Zip, minizip-ng, UnRAR, zlib |

### Interactions

* Every connection thread and every worker thread share the registry under
  `g_tasks_lock`, but keep raw `file_task_t *` across unlocked regions.
  `remove_finished_tasks_locked()` frees finished tasks from whatever request
  runs next; what protects a pointer is that its task is active, or that its
  `active_streams` is not zero, or (for package tasks) that it has not been
  reported.
* Creating a task checks and inserts in one locked region. Rename, mkdir, save
  and an upload without a task check, unlock, and then work.
* A worker polls `cancel_requested`; nothing interrupts it. Download callbacks
  and upload callbacks run in connection threads at the client's pace.
* The installer thread sleeps on a condition variable tied to the registry lock.
* `copy_file()` is called by the copy and move workers; it hands files from 256
  MiB on to the two-thread pipeline.
* The extraction worker calls an engine, which reports progress into the task,
  and then deletes the source archive if the task owns it.
* An engine first turns the selected file into a set of volumes
  (`zipx_volume_detect`), reads the set through a stream that hides the part
  boundaries, scans every entry, and only then writes into the staging directory.
* The 7z engine decodes folder by folder: `sz_chain_parse` and `sz_chain_check`
  read the graph of coders, `build_coder` makes a node for each, the root is
  pulled and what it returns is pushed into a sink that cuts it into files. A
  folder of one LZMA2 coder goes to the parallel decoder first.

### What is hard

Handlers that interleave between two locked regions; a late callback that
stores a state over a newer one; freeing what another thread still uses; lost
wakeups; a cancel that meets the last step; a failure half way through a
publication, the rollback of it, and the process dying inside it. In the
decoders: a pull that is answered with less than was asked for, at every level
of the chain at once; bytes carried from one call to the next; a byte source
that cannot report its failure; offsets cached across reads, seeks and part
boundaries; sizes an archive declares and does not keep. Each of these is listed at its line under `hazards` in `PROJECT.json`, with the properties
that would catch it going wrong.

### What makes each component correct

* Registry: at most one task besides uploads is active; settled tasks stay
  settled unless a stream is open on them; nothing is freed that a worker, a
  stream or a download still works on; every accepted copy settles, and every
  extraction whose engine returns.
* Pipeline: the target is replaced by the whole file or not at all; the two
  threads never share a buffer; the call returns and the reader is gone.
* Package queue: no path twice at once, every queued package is installed,
  every result is shown before it is freed.
* Uploads: the count of streams is exact, and no connection stores an outcome
  over another's. (A stream that is still open may make a settled upload RUNNING
  again, and then it may end differently: DONE can become FAILED in two steps.)
* Extraction: the user's data survive errors, cancels and crashes; success
  means that everything was published, unless a `readdir()` or an allocation of
  publishing failed; a failure takes back what it can.
* Scan: what is accepted can be created as a tree.
* Entry writers: a file takes its final name only when it is whole.
* Tree tasks: wherever a copy or a move ends, every file is still in its old
  place or in the new one; success means the whole of every source.
* Coder chain: the graph that is built is a tree, its nodes are freed once; the
  folder comes out whole and in order, or the call fails; every call returns.
* Volume sets: every part leads to the same, complete set; a stream over it is
  one file.

## 2. Modules

| Module | Models | Kind |
|---|---|---|
| `FileCopy` | what `copy_file()` promises: an atomic replacement that ends | abstract specification |
| `CopyPipeline` | `copy_file_pipeline()`, `copy_pipeline_reader()` | detailed, implements `FileCopy` |
| `CopyPipelineProofs` | inductive invariant and theorems | proofs |
| `TaskRegistry` | `task.c` and every actor that uses it | detailed |
| `TaskRegistryProofs` | inductive invariant and theorems | proofs |
| `ExtractPublish` | staging, publishing, rollback and cleanup of the three engines | detailed |
| `ExtractPublishProofs` | inductive invariant and theorems | proofs |
| `VolumeDetect` | `zipx_volume.c`, `open_archive()` | detailed |
| `FlatStream` | what a set of volumes promises its reader: one file | abstract specification |
| `VolumeStream` | `zipx_volstream.c`, `sevenz_volstream.c` | detailed, implements `FlatStream` |
| `VolumeProofs` | inductive invariants, the refinement and theorems about both | proofs |
| `ArchiveScan` | the scan of the three engines, their name table, the second pass of RAR | detailed |
| `ArchiveProofs` | inductive invariants and theorems on `ArchiveScan` and `SolidFolder` | proofs |
| `ZipWriter` | `extract_archive()`, `open_parent_dirs()`, `write_entry()` | detailed |
| `ZipWriterProofs` | inductive invariant and theorem | proofs |
| `ChainGraph` | `sz_chain_parse()`, `sz_chain_check()`, `build_coder()`, `free_nodes()` | detailed |
| `CoderChain` | `node_pull()`, `sz_chain_decode()` | detailed |
| `ChainProofs` | inductive invariants and theorems on `ChainGraph` and `CoderChain` | proofs |
| `SolidFolder` | the 7z engine's sink, checksums and parallel decoder | detailed |
| `TreeTask` | a task's copy, move or deletion of trees: `validate_task_target()`, `task_worker()`, `copy_path()`, `move_path()`, `remove_path()` | detailed |
| `TreeTaskProofs` | inductive invariants and theorems | proofs |
| `MCParts` | `VolumeDetect` to `TreeTask` without the proofs, side by side | model checking |
| `MC...` | instances for TLC, one `.cfg` per question | model checking |

### CopyPipeline

One action per locked region and one per unlocked call. `ReaderWait`,
`ReaderStop` and `ReaderClaim` are the three ways through the reader's first
region, `ReaderRead` is `read()`, `ReaderStore` the second region. `WriterOpen`
is everything up to `pthread_create`, with each of its failures; `WriterWait`,
`WriterEnd` and `WriterTake` the writer's first region; `WriterWrite` one turn
of the `write()` loop; `WriterRelease` the second region; `WriterFinish` what
follows the loop, and `WriterStop`, `WriterJoin`, `WriterClose`, `WriterCommit`
and `WriterDiscard` the code at `done:`. A buffer is the file position of its
first byte and its length; the temporary file is its length and whether every
byte so far stands where it stands in the source. `pthread_cond_wait` is the
location `wait`, left by a signal or by `SpuriousWakeup`.

### TaskRegistry

The list is a function from ids, which are never reused, to the fields of
`file_task_t`; `freed` stands for a task that `free_task()` released. A handler
is a location, its task pointer and the outcome it is about to store. Every
region under `g_tasks_lock` is one action (`CreateTask`, `CreateRefused`,
`ApiCancel`, `ApiTasks`, `DownloadClaim`, `UploadPrepare`, `StreamOpen`, ...);
between two of them the handler stands at a location and every other actor may
move. `task_update()` stores unconditionally (`TaskUpdate`), `finish_upload_task()`
only if the task is active (`FinishUpload`), and the difference matters. COPY,
MOVE, DELETE and CHMOD share one worker and are one op, "copy".

The creator of a task keeps its pointer after the locked region: at `spawn` it
starts the thread, at `reply` it reads `task->thread` and `task->id`, and only
`Reply` gives the pointer up. At `spawn` nothing can settle the task. At `reply`
the worker may have, and a reap may have freed the task; the run
`registry_reply` shows it. A download that runs out of memory stands at `oom`
after it has settled, with the same window. A worker may enter `stuck` and stay
there (`WorkerStuck`): the extraction that `chain_bcj2` shows never to return.

### ExtractPublish

The destination and the staging tree are functions from paths of one or two
components to what stands there. `PublishNew`, `PublishMerge`, `PublishReplace`,
`PublishDrop` and `PublishConflict` are the cases of `publish_entry()`;
`PublishBegin` and `PublishLeave` enter and leave a directory, and list it: all
of it, or, when `readdir()` fails on the way, any part of it (`Listed`,
`misread`), because the code takes the error for the end. `PublishError` is any
other call that fails; `Remember` is `remember_published()` with its failing
allocation (`oom`); `Rollback`, `Cleanup` and `Return` are the way out, and their
own system calls succeed. `Crash` may
happen at every point but the end and `RunAgain` starts the same extraction
again. `Engines` chooses between the two behaviours of a directory that exists
on both sides.

### VolumeDetect

A file name is a record of what the four detectors look at: stem, style, number,
padding, capitals. `ListName` takes the directory's names in any order;
`NumberedSet` and `DiskSet` are what follows `scan_parts()`; `NotMine` passes the
name on to the next detector. `NewStream`, `OpenFits` and `OpenMisfits` are the
two attempts of `open_archive()`, with the layout of the set as the environment's
choice: the archive is readable in one layout, or in none.

### VolumeStream

A byte of the set is its number, so what a read returns says which bytes it
read. `WalkBack` and `WalkOn` are the two loops that look for the part of the
position; `ReadZipPart`, `ReadSzPart` and `FailSzPart` one turn of the read
loops, in which the part may answer with anything up to what it was asked for.
The 7z stream's files keep offsets of their own (`fileOff`), which a skipped seek
trusts. `Flat == INSTANCE FlatStream` maps the position of the last finished read
and what it returned to the abstract stream.

### ChainGraph and CoderChain

The recursion of `build_coder()` is the variable `building` and that of
`node_pull()` is `stack`, a frame per call, so that every turn of a loop is a
step and a loop that does not end is a behaviour. A byte is the number of the
packed item it came from: copy, filters and AES hand items on, LZMA makes two of
one, BCJ2 puts an item of CALL or JUMP behind a branch of MAIN. A call of
`Bcj2Dec_Decode()` takes all it can, an item a step (location `decode`), and the
loop's own tests, the refill and the end of MAIN, come only before a call
(`BeginDecode`). The vendored
codecs are such decoders and nothing more; `Garbage` stands for what is decoded
from a byte that was never read. `Content` computes the same folder without
buffers, every coder applied to the whole of its input, and `BytesInOrder`
compares. Two readers of one output would share its bytes between them, which a
header with an idle coder brings about (`BuiltIsTree`); the two properties are for
folders where each output has one reader (`ReadOnce`).

### SolidFolder, ArchiveScan, ZipWriter

`SolidFolder` pushes a folder, in pieces of any size, into slices (one per file,
with or without a checksum), from the parallel decoder or from the chain.
`ArchiveScan` has one action per entry and engine; the name table is the open
addressing of `nameset_t`, slots, probing and growth included. `ZipWriter` has
one action per read of an entry and one per `write()`, which takes any part of
what it is given; the scan has accepted the archive before.

### TreeTask

The file system is a function from paths to what stands there; a file is the
name of its content, so a content found anywhere is a file not lost. A
recursive call of `copy_path()` or `remove_path()` is a frame of `calls` with
the entries its directory had at `opendir()` and those it has been given.
`CopyFile`, `CopyDir`, `NextEntry` and `CopyDirEnd` are the steps of the copy,
`RemoveFile`, `RemoveDir` and `RemoveDirEnd` those of the removal; `CopySource`
and `RenameSource` the two branches of `move_path()`, `Copied` is
`finish_copied_move()`, `Fails` any call that fails or sees the cancel, after
which all frames return. A file is copied in one step, which is what `FileCopy`
promises. A request may put a folder over the one that holds it (move `a/a` to
the place of `a`, with overwrite); then what is read changes while it is written,
and success is not the whole of it. TLC shows that case when `Apart` is taken from
`DoneIsWhole`. `CreateLate` is a request that passed the busy check before the task
was admitted and creates a file beneath the walk.

## 3. Runs

| Run | Instance | What it shows |
|---|---|---|
| `copy_pipeline` | 3 slots, 2-byte buffers, 7-byte file | types, buffer ownership, atomic target, join before free, cancel, termination, refinement of `FileCopy` |
| `registry` | 2 connections, 2 tasks of any kind, 2 packages | admission, one stream per download, nothing freed under a worker or a stream, stream count, completion record, package paths and results, no revival but by a stream, no outcome over another, settling |
| `extract_publish` | 2 names, 2 children, ZIP and 7z, 2 runs | user data, rollback; completeness and the source archive provided that no `readdir()` and no allocation of publishing failed |
| `registry_reply` (violation) | 2 connections, 2 extractions | the task is freed before its id is read for the reply |
| `extract_source` (violation) | as `extract_publish` | a failed `readdir()` of publishing, and the archive is deleted with nothing published |
| `single_task` (violation) | 2 connections, 2 tasks: copy, upload | a settled upload is revived by an open stream next to a new task |
| `extract_rollback` (violation) | ZIP | a published non-empty directory survives the rollback |
| `parts` | the modules that share no state, each from its own inputs (below) | sets found and opened, streams over them flat and ending, graphs built as trees and freed, folders whole and in order, calls that return, slices and checksums, accepted trees, names only for whole files, no file lost by a copy or a move |
| `chain_bcj2` (violation) | one BCJ2 folder whose CALL stream is empty | the pull loop never ends |
| `tree_readdir` (violation) | a folder of one file moved to another device | a file is removed that was not copied, because reading its folder failed |
| `zip_total` (violation) | two files, each within `ZipMaxFile` and together below `ZipMaxTotal` | the writer refuses what the scan accepted |
| `zip_short` (violation) | one file | a short write leaves wrong bytes under the final name |

The violations are disagreements between the code and what its README, headers
and comments say; each is quoted under `findings` in `PROJECT.json`. More of them
are noted under `hazards`, at their lines: success returned after a failed
allocation and a rollback (`zip_extract.c:144`), which ends in the loss that
`extract_source` shows, the staging tree that a crash
leaves for good (`zip_extract.c:942`), directories that OVERWRITE refuses to
merge (`zip_extract.c:1091`), the read error behind the last symbol of a PPMd
folder (`sevenz_chain.c:1073`), and two sources of one name that get one target
(`filemgr.c:1424`).

`parts` bundles modules that share no state: a behaviour is one module, chosen
in the initial state, while the variables of the others stay at rest. It is the
union of eight small runs, and nothing is composed.

### Bounds, and why they are enough

* Pipeline: seven bytes in blocks of at most two fill the three slots more than
  once, so both indices wrap, and short reads and writes give every block
  length. The safety properties are proved for all bounds.
* Registry: no property relates more than two tasks, and the races are of two
  handlers with a worker, or of two streams of one upload: `CreateRefused`,
  `ApiCancel`, `ApiTasks` and the enqueuing of packages are single regions that
  need no connection of their own. Two tasks of any kind let the second be
  created after the first was reaped, or next to an upload; `MaxTasks` bounds
  what is ever created, and behaviours stop there. All the safety properties of
  the run are proved for every number of connections and tasks; only
  `BackgroundTaskSettles` and `PkgInstalled` rest on the instance.
* Publishing: two top-level names let one entry be published before another
  fails, two children let a merged directory be half published, and depth two
  has a merged directory inside the root. Two runs are one crash and its retry.
* Volume detection: every subset of a directory of split numbers, of disks or of
  numbered parts, with a gap, a padded duplicate, capitals or another stem; every
  member selected, and every order of listing. `MaxParts = 4` is exceeded once.
* Volume streams: three parts of every division of up to three bytes, empty parts
  included, reads of up to three bytes. The safety part is proved for all sizes.
* Coder graphs: every way to bond up to three coders, with indices out of range
  where that keeps the number of headers small (up to two coders), BCJ2 with two
  inputs instead of four. Three coders give every tree of two levels and a cycle
  of three.
* Coder chain: pipelines of one, two and three coders over buffers of two and
  three bytes, smaller than every folder, so that each buffer is refilled, a
  filter carries a byte and AES has an odd tail; short answers at every level.
  Folders that declare more than they hold, and BCJ2 with side streams that fit,
  one of them behind a MAIN that ends in a branch. Not tested: a request that ends
  between that last branch and its operand, after which the test at
  `sevenz_chain.c:1358` ends the next request before the operand is out and the
  folder is refused; the model has that step.
* Scan: every list of up to three entries over names that collide with each other
  as files and directories, in every order, and single odd entries; a table of 4
  slots where most hashes collide and which grows when the fourth name comes.
* Writer: archives of up to two entries whose sizes are true, too small, too
  large or not declared, buffers of two bytes, every split of every `write()`.
  `ZipMaxTotal` is far above in the passing run and near in `zip_total`.
* Trees: a source of two levels beside a file, in front of an empty target, one
  with a folder to merge into, one with files in the way and one with a file
  where a folder must go, and a source with a special file; one and two sources,
  with and without overwrite, on one device and on two, a target inside its
  source, a deletion whose second source holds the first. One late file.
  `Paths` holds the targets of a request (`RequestsAssumption`); a deeper path
  fails, as one that is too long does, and a rename that would leave `Paths` is
  not taken. Everything but liveness is proved for every such `Paths`.
* Symmetry is used only in runs without liveness properties.

### Fairness

`CopyPipeline`: both threads are scheduled and system calls return, so
`ReaderNext` and `WriterNext` are weakly fair; the user's cancel and spurious
wakeups are not. `TaskRegistry`: worker threads, the step to `pthread_create` of
a handler that inserted a task, and the installer thread are weakly fair; that
`work` ends says that the file system calls of a worker return, which the code
takes for granted. Of an extraction it says less, since `WorkerStuck` is one of
the ways to leave `work`: `BackgroundTaskSettles` promises that the task settles
or its engine never returns, and in the second case the registry refuses every
later operation for good.
Nothing is assumed of clients, so nothing of the handlers that wait for one:
downloads and uploads may stay open for ever, and no liveness is claimed for
them. `ExtractPublish` states safety only. `VolumeStream`: the steps of a read
that has begun (`VolStep`) are weakly fair, a new read or seek is not.
`CoderChain`: the one thread that decodes keeps running (`ChainNext`), so that a
call returns unless its loop does not end. `TreeTask` states safety only.

## 4. Proofs

`CopyPipelineProofs` proves, for every number of slots, buffer size and file
length (`SlotsAssumption`, `BufSizeAssumption`, `FileLenAssumption`), the type
invariant, `ReaderOwnsItsSlot`, `DstWholeOrOld` and `ReaderGoneBeforeFree`, that
a cancel keeps the target (`CancelHonoured`), and that the two threads implement
the atomic copy: `RefinesFileCopy` maps the initial state and every step to one of
`FileCopy` or to a stutter. What is left of `ImplementsFileCopy` is its fairness.

None of these is inductive. `IInv` adds where the ring stands: for some `k`,
exactly the `k` slots from `write_index` on are ready, the reader's slot is the
one after them (`Ring`), the bytes of the ready slots continue one another up to
what was read (`Chain`), and what was written ends where the first of them
starts (`Front`). `ReaderInv` says what `done` without `error` means, and
`WriterInv` what success means. The reader claims only a slot that is not
ready, which with `Ring` is the slot after the ready ones; so storing takes `k`
to `k + 1`, releasing takes it to `k - 1`, and when the writer sees `done` and a
slot that is not ready, `k` is 0 and everything read has been written. One lemma
per action that moves the ring (`RingClaim`, `RingRead`, `RingStore`, `RingTake`,
`RingWrite`, `RingRelease`), `RingKept` for the others.

`TaskRegistryProofs` proves, for every set of connections and packages and every
number of tasks (`MaxTasksAssumption`, `OpsAssumption`, `FiniteAssumption`), every
safety property of the run `registry`, the two action properties included.
`CompletionIsDone` excepts uploads: one that is announced may be made RUNNING again
by the next block of a stream that is still open on it. `WorkersKeepTask`
speaks of worker threads, of handlers at `spawn` and of downloads being sent; the
handlers that only report (`reply`, `oom`) are excepted, because for them it is
false. `UploadKeepsOutcome` excludes one outcome stored over another, not the way
through RUNNING.

The inductive invariant `IInv` says what the task pointer of each actor points
to at each of its locations: a handler before `pthread_create` to a queued copy
or extraction without a thread (`SpawnInv`; of one at `reply` nothing is said), one that streams to a running
download that no other handler has (`DownloadInv`, `Unshared`), a worker thread
to an active task (`WorkerInv`), an upload handler to an upload, perhaps a freed
one (`UploadInv`). It is needed because `task_update()` looks at nothing: that a
store of DONE hits no other actor's task, and a store of RUNNING no settled one,
follows only from who can hold which pointer. Two notions carry the proof:
a step is `Tame` if no task becomes active but by a store of RUNNING in an
active task or an upload, which keeps what is said of the list as a whole
(`TameKeeps`); and it leaves a task `Undisturbed` if the holder of a pointer to
it sees no change. One lemma per actor then shows that its steps are tame and
disturb only its own task. Insertions (`InsertFacts`, `EnqueuePkgStep`) are
apart: `HasActive` was false in the same locked region, and `n` new package ids
for `n` new paths get a path each (a surjection between sets of one size).

`StreamInv`, the count of open streams and the life of their task, is proved on
top of `IInv`. `StateChanges` lists the ways a task's state can change in one
step; the two action properties are read off it.

`VolumeProofs` proves, for every number of parts, all their sizes and every
length of a read (`VolumeAssumption`), that a set of volumes is the flat stream:
`VolumesRefineFlat == VolSpec => VolumesAreFlat`. The step that matters is a read
that skips its seek. It is right only if the file of the open part stands where
the stream says (`cur`, `curOff`; `osPart` for ZIP), which is `VolumeInvariant`;
with the ranges of the variables, "nothing is pending between reads" and "a 7z
stream that failed reads no more" it is inductive (`VolInv`). Given that, a turn
of the read loop appends the bytes behind the position (`PartBytesFollow`), so
the pending bytes are always those in front of `vpos` and every finished read is
one `FlatRead`. The invariant also shows that the branch for an empty part at
`zipx_volstream.c:160` is never taken: the search for the part never ends at one.

The same module proves the two properties of `VolumeDetect`, for every name and
every directory. `OpenedAsWritten` needs what each detector that gave up has shown
of the name (`OpenInv`): they are asked in a fixed order, and the second opening
of `open_archive()` is only tried for a set whose first layout was refused.
`MembersAlwaysAgree` needs the same of the detectors gone by (`FindPart`: the name
is not of their style, or the directory has no family for it), and that the names
listed so far match and are few enough. A detector that has seen the whole
directory has then listed the whole family (`ListedAll`), and an ordering of it
without gaps or doubles is the set whichever member led there (`OrderedSet`).
`NumberedFinds` and `DiskFinds` are the two ways a set is concluded.

`ExtractPublishProofs` proves, for every set of names, archive, destination,
engine, policy and number of runs with crashes between them, the four properties
of publishing. What makes them true is where an entry is while `publish_entry()`
works: still in the staging tree, and then the destination is as it was found, or
gone from it, and then the destination holds what the policy asks for
(`PlacedInv`); as long as no `readdir()` failed, the names still to visit are
exactly those in the staging tree (`TodoInv`), so when none is left everything was
placed. `SuccessMeansComplete` and `KeepsSource` are therefore conditional: no
`readdir()` and no allocation of `remember_published()` failed. Without either
condition they are false (`extract_source`). `CreatedInv` says what
`created[]` records, and `ResidueInv` that what it does not record is in a new
directory; without it the rollback would have nothing to go by.

`ArchiveProofs` proves, for every archive whose entries have a count
(`EntriesAssumption`), `RarPassesAgree`: what the second pass of the RAR engine
meets is what the first one admitted. The passes share no state but the totals, so
the invariant counts: what a pass has counted is the number of entries in front of
it that are not a later segment of a file (`Counted`). The scan counts an entry
only after it took it, so a later segment must not slip in: a protected one is
refused for its password first (`RarRefusals`). `ZipRefusals` and `SzRefusals` say
the same of what the other engines refuse.

It also proves `AcceptedIsTree`: what a scan accepts can be created as a tree, and
the name table answers for every name what the accepted entries say of it. Hashes
are distinct and not zero (`HashAssumption`; zero marks a free slot), and the table
has four slots or more (`InitCapAssumption`; the code begins with 1024), which is
what the growth at seven tenths needs to leave one free. A table is sound when every
stored hash is reached from its home slot over occupied slots only (`Settled`);
a sound table answers by what is stored in it, wherever that lies (`GetSays`), an
insertion does not break another name's probe sequence (`PutSettles`), and a table
that grew stores what it stored (`GrownSame`). So an entry that would break the
tree finds a conflicting name on the line of its parents, or is found on another
one's (`TakingKeepsTree`).

And `SolidSlices`, for every 7z archive (`SolidAssumption`): a file that is complete
has its own slice of the folder, whatever pieces the decoders hand over and whichever
of them decodes. The sink is even with the decoder until the chain begins again
behind a parallel decoder that had given bytes; from then on it is ahead, and stays
so (`StreamInv`). While it is even every byte lies where it belongs (`BytesInv`);
when it is ahead the plan is used up before the decoder ends and the folder is
refused. `SumTo` and the growth of the table are recursive functions: that
such a function exists on an interval is proved from its restrictions, and what it
computes by induction stated as a fact about sets of numbers (`Upwards`), which
needs no operator parameter.

`ZipWriterProofs` proves, for every archive and buffer size
(`ZipArchivesAssumption`, `IoBufferAssumption`), `FinalNamesAreWhole`. The bytes in
the part file and those of the buffer still to write are always the bytes decoded,
however `write()` cuts the buffer (`Balanced`), and the loop goes to `close()` only
when the decoder has nothing more; so a name that is put in place is whole
(`NamesWhole`), and an entry that was passed was put in place and counted once
(`PassedInPlace`). The run `zip_short` shows the bytes themselves can be wrong.

`ChainProofs` proves, for every folder header (`GraphAssumption`), that the nodes
of a chain are accounted for (`NodesAlwaysAccounted`). A node is counted once
because the calls of `build_coder()` in progress are for different coders, those
marked in `visiting[]`, none of which is registered (`CallsOf`); the check for a
cycle keeps it so, and the marks bound the depth of the recursion.

`BuiltAlwaysTree` says that what is built is the tree of coders below the output
coder. The calls in progress form a path, each for a coder that feeds the one
before (`Nested`), so a coder met twice on it lies on a cycle; and a coder that was
built has everything below it built, and is not below itself (`WellBuilt`).
`Under` is defined by as many rounds as there are coders: that this many are enough
(`UnderClosed`) follows by cardinality, since a round that adds nothing is the last
one that can.

It also proves three theorems on the decoding pipeline, for every folder and every
size of the buffers (`GraphsAssumption`: a node is made after its inputs;
`ChainCapsAssumption`: a buffer holds more than what a converter leaves in it).
The invariant is `PullInv`. The calls of `node_pull()` in progress lead from the
root towards the packed streams, so their node numbers fall; each waits for the
one after it, and has room for what it asked for. What a call returned is for a
caller that waits, and a filter that waits has given out all it had converted.
Since only the caller reads the answer, what a filter's input has given out is at
every moment in the filter's buffers, behind its program counter, or in the answer
(`Holds`, `Arrived`), as long as no call failed; hence `PcAlwaysPosition`. It is
for filters that alone read their input (`OnlyReader`): a header with an idle coder
is not refused (`BuiltIsTree`), and may give an input a second reader. LZMA keeps
back one byte at most, by which its requests stay within their room.
`AnswersAlwaysFit`: no call fills more than its buffer, no node gives out more than
the header declares for it. `SuccessReadEverything`: a decoding that succeeds gave
the sink the declared size and, PPMd apart, met no failed read. It needs that a
failed read is on its way to the root or has arrived there (`EndPart`), which PPMd's
callback breaks.

Which bytes these are say `BytesAlwaysInOrder` and `SuccessIsWhole`, for every
folder without PPMd. What makes them hard is that a node's bytes are in five
places, and that its input may answer short at any time. The invariant (`Flow`)
says of every node that what it gave out, what its call in progress has and what
it keeps converted, one behind the other, are what its coder makes of the first
`q` bytes of its input, and that its buffer has the input's bytes from `q` on, as
far as they were taken (`Straight`; `q` is a multiple of the block for AES). `Taken` is
what a node gave out less the answer on its way, which only the call on top of
the stack is about to take; so a step concerns one node, the others keep what
they had (`RightSame`), and this is where `ReadOnce` is needed. BCJ2 is compared
with the merge of whole streams (`Merging`), a recursive function of the number
`q` of MAIN's bytes: between two of them its side buffers are what the merge has
left, in the middle of a branch those of the step before (`Branched`), and until
its side streams are read in full it has produced nothing (`Unread`). The merge is
only ever taken one byte further. That the recursive functions exist (`ContentIs`,
`MergingIs`) is shown by the step from `m` to `m + 1`, with a set of numbers in place
of the library's induction operator (`Upwards`). Once a node has failed, the failure
is the answer until the loop has it (`Streaming`).

`TreeTaskProofs` proves, for every set of paths closed under "above", file system,
request and late file (`PathsAssumption`, `TreesAssumption`, `RequestsAssumption`,
`LateAssumption`), that copying and moving lose nothing (`LosesNothing`) and that
done means whole (`DoneWhole`). The base (`BaseInv`) says that the file system
stays a tree and where the calls in progress work. A removal is right only if the
copy was whole, and the copy is the work of a recursion, which no invariant on the
file system alone describes; so the invariants say what the recursion still owes.
`Pending(q)`: a call in progress has not met `q` yet, because it is not open, or
because `q` is below an entry it has still to be given. `CopyInv`: a file of the
source has its copy or is pending. When the last call returned nothing is pending,
and the source may go. `KeptInv` follows each content nobody agreed to overwrite to
a place that no target at work or to come covers. For `DoneIsWhole` the same debt
is stated for what each source alone owns (`WaitInv`, `ThereInv`, `GoneInv`); that
no source lies above another's target follows from the checks of the request
(`SourceElsewhere`). The lemmas on paths (`MovedPath`, `MovedBetween`, `StepDown`)
say that a path keeps the rest of its names below another directory, and comes
back.

These proofs depend on the premises of the properties: `readdir()` does not fail
(`TreeTask!misread`, refuted by `tree_readdir` without it), no two sources get one target
(`OneTargetEach`, which no check of the code looks for), and for done no source
stands inside a target (`Apart`).

Only model-checked: the liveness properties (`CopyEnds`,
`BackgroundTaskSettles`, `PkgInstalled`, `ReadReturns`, `PullReturns`) and the
refinement of `FileCopy` with its fairness, because liveness under fairness is out
of the prover's reach; and `BytesInOrder` for folders with a PPMd coder, where it
allows a wrong byte anywhere.

## 5. Not modelled

Progress, speed and ETA; the wording of errors; the walk of chmod; the TAR encoder; the upload's temporary file; the text editor's save;
space and permission checks; `sevenz_header.c`, which reads encrypted headers for
the vendored archive reader; the codecs, checksums and ciphers themselves; the
callbacks of UnRAR. The multi-threaded copy and count queues in `filemgr.c` are
compiled out (`FILEMGR_AGGRESSIVE_COPY 0`). Reads and writes of freed memory have
no defined outcome: the windows are in the model (`StaleHandler`), their effects
are not. Two names with one 64-bit hash are taken for one by the name table; the
model gives every name a hash of its own (`HashAssumption`). Requests that do not
register as tasks (rename, mkdir, save) meet a task's files only as the one file
`TreeTask!CreateLate` makes. Symbolic links and hard links are not in the trees.

## 6. Plan

Modules still to write, in this order:

1. `UploadFile`: the temporary file of concurrent streams, composed with the
   registry's streams.
2. `TextSave`: two editors, the version check and the atomic replacement.
3. `TarStream`: entries, padding and directory stack against a reference
   encoding, files that shrink while they are read.
4. Composition of extraction with the registry's cancel.
