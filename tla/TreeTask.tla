------------------------------- MODULE TreeTask -------------------------------
(***************************************************************************)
(* What a COPY, MOVE or DELETE task does to the file system                *)
(* (src/src/filemgr.c): the checks of the request, the walk of task_worker *)
(* over its sources, copy_path() and remove_path() with their recursion    *)
(* as the variable `calls`, and move_path() with its fallback to copying.  *)
(* Every call may fail, the user may cancel at any time, and a request     *)
(* that does not register (api_text_create) may have passed its check just *)
(* before and creates a file while the task runs.                          *)
(*                                                                         *)
(* A path is the sequence of its names.  A path holds "none", "dir",       *)
(* "special", or a file, which is the name of its content.                 *)
(***************************************************************************)
EXTENDS Naturals, Sequences, FiniteSets, SequencesExt

CONSTANTS
  Paths,       \* every path of the model
  Trees,       \* file systems: [Paths -> what stands there]
  Requests,    \* [op, srcs, dst, overwrite, oneDevice]
  Late         \* the content such an unregistered request creates, once

Names == UNION { Range(p) : p \in Paths }
Inside(p, q) == IsPrefix(p, q)
IsFile(x) == x \notin {"none", "dir", "special"}

\* With a path, the paths above it.
ASSUME PathsAssumption ==
  \A p \in Paths :
    p \in Seq(Names) /\ p # <<>> /\ \A n \in 1 .. Len(p) : SubSeq(p, 1, n) \in Paths

\* What there is stands in directories.
ASSUME TreesAssumption ==
  \A t \in Trees :
    /\ t = [p \in Paths |-> t[p]]
    /\ \A p, q \in Paths : t[q] # "none" /\ Inside(p, q) /\ p # q => t[p] = "dir"

ASSUME RequestsAssumption ==
  \A r \in Requests :
    /\ r.srcs \in Seq(Paths) /\ r.dst \in Paths
    /\ \A t \in Trees : Len(r.srcs) > 1 \/ t[r.dst] = "dir" =>
         \A i \in DOMAIN r.srcs : Append(r.dst, Last(r.srcs[i])) \in Paths

ASSUME LateAssumption == IsFile(Late) /\ \A t \in Trees : \A p \in Paths : t[p] # Late

VARIABLES
  before,      \* the file system when the request came
  fs,          \* the file system
  req,         \* the request
  step,        \* "request", "prepare", "pick", "copying", "removing" or "over"
  nth,         \* the source at work
  calls,       \* calls of copy_path and remove_path, innermost last
  cancel,      \* cancel_requested
  misread,     \* a readdir() of copy_dir failed
  outcome      \* "", "refused", "done", "failed" or "canceled"

treeVars == <<before, fs, req, step, nth, calls, cancel, misread, outcome>>

TreeInit ==
  /\ before \in Trees /\ fs = before /\ req \in Requests
  /\ step = "request" /\ nth = 1 /\ calls = <<>>
  /\ cancel = FALSE /\ misread = FALSE /\ outcome = ""

Parent(p) == SubSeq(p, 1, Len(p) - 1)
DirEntries(f, p) == { q \in Paths : Len(q) = Len(p) + 1 /\ Inside(p, q) /\ f[q] # "none" }
\* The path below `to` that q has below `from`.
Moved(q, from, to) == to \o SubSeq(q, Len(from) + 1, Len(q))

\* request_target_path(), which task_target_path() repeats for the worker.
Target(i) ==
  IF Len(req.srcs) > 1 \/ before[req.dst] = "dir"
  THEN Append(req.dst, Last(req.srcs[i])) ELSE req.dst
Sources == DOMAIN req.srcs
Source == req.srcs[nth]

-------------------------------------------------------------------------------
(* The request: validate_task_target for every source.                     *)

ValidTarget(src, target) ==
  /\ src # target /\ fs[src] # "none"
  /\ fs[src] = "dir" => ~Inside(src, target)
  /\ fs[Parent(target)] \in {"dir", "none"}
  /\ fs[target] # "none" =>
       req.overwrite /\ (fs[src] = "dir" <=> fs[target] = "dir")

Acceptable ==
  req.op # "delete" =>
    /\ Len(req.srcs) > 1 => fs[req.dst] = "dir"
    /\ \A i \in Sources : ValidTarget(req.srcs[i], Target(i))

Accept ==
  /\ step = "request" /\ Acceptable
  /\ step' = "prepare" /\ UNCHANGED <<fs, nth, calls, cancel, misread, outcome>>

Reject ==
  /\ step = "request" /\ ~Acceptable
  /\ step' = "over" /\ outcome' = "refused"
  /\ UNCHANGED <<fs, nth, calls, cancel, misread>>

\* api_text_create() after its check: O_EXCL, so never over what is there.
CreateLate ==
  /\ step \notin {"request", "over"} /\ \A p \in Paths : fs[p] # Late
  /\ \E p \in Paths : /\ Len(p) > 1 /\ fs[p] = "none" /\ fs[Parent(p)] = "dir"
                      /\ fs' = [fs EXCEPT ![p] = Late]
  /\ UNCHANGED <<step, nth, calls, cancel, misread, outcome>>

CancelTask ==
  /\ step \notin {"request", "over"} /\ ~cancel /\ cancel' = TRUE
  /\ UNCHANGED <<fs, step, nth, calls, misread, outcome>>

-------------------------------------------------------------------------------
(* copy_path, copy_dir and remove_path: one frame per call, which has met  *)
(* what it works on (`todo` is what readdir must return) or not (`open`).  *)

NewCall(fn, from, to) ==
  [fn |-> fn, from |-> from, to |-> to, open |-> FALSE, todo |-> {}, seen |-> {}]
Inner == calls[Len(calls)]
Outer == SubSeq(calls, 1, Len(calls) - 1)
Working(fn) == step \in {"copying", "removing"} /\ calls # <<>> /\ Inner.fn = fn
Opened == Append(Outer, [Inner EXCEPT !.open = TRUE, !.todo = DirEntries(fs, Inner.from)])
SameTask == UNCHANGED <<step, nth, cancel, outcome>>

\* A file is copied into a temporary one that takes the target's name.
CopyFile ==
  /\ Working("copy") /\ ~Inner.open /\ IsFile(fs[Inner.from]) /\ ~cancel
  /\ fs[Inner.to] # "dir" /\ fs[Parent(Inner.to)] = "dir"
  /\ fs' = [fs EXCEPT ![Inner.to] = fs[Inner.from]] /\ calls' = Outer
  /\ SameTask /\ UNCHANGED misread

\* ensure_copy_dir() and opendir().
CopyDir ==
  /\ Working("copy") /\ ~Inner.open /\ fs[Inner.from] = "dir" /\ ~cancel
  /\ fs[Inner.to] \in {"none", "dir"} /\ fs[Parent(Inner.to)] = "dir"
  /\ fs' = [fs EXCEPT ![Inner.to] = "dir"] /\ calls' = Opened
  /\ SameTask /\ UNCHANGED misread

\* readdir() gives every entry there was at opendir(), and may give later ones.
\* path_join() fails on a path that is too long.
NextEntry ==
  /\ Working("copy") \/ Working("remove")
  /\ Inner.open /\ ~cancel
  /\ \E q \in DirEntries(fs, Inner.from) \ Inner.seen :
       /\ Moved(q, Inner.from, Inner.to) \in Paths
       /\ calls' = Append(Append(Outer, [Inner EXCEPT !.seen = @ \union {q}]),
                           NewCall(Inner.fn, q, Moved(q, Inner.from, Inner.to)))
  /\ UNCHANGED fs /\ SameTask /\ UNCHANGED misread

\* The loop ends when readdir() answers NULL, at the end or for an error.
CopyDirEnd ==
  /\ Working("copy") /\ Inner.open
  /\ calls' = Outer /\ misread' = (misread \/ ~(Inner.todo \subseteq Inner.seen))
  /\ UNCHANGED fs /\ SameTask

RemoveFile ==
  /\ Working("remove") /\ ~Inner.open /\ fs[Inner.from] \notin {"none", "dir"}
  /\ ~cancel
  /\ fs' = [fs EXCEPT ![Inner.from] = "none"] /\ calls' = Outer /\ SameTask /\ UNCHANGED misread

RemoveDir ==
  /\ Working("remove") /\ ~Inner.open /\ fs[Inner.from] = "dir" /\ ~cancel
  /\ calls' = Opened /\ UNCHANGED fs /\ SameTask /\ UNCHANGED misread

\* rmdir() refuses a directory that is not empty.
RemoveDirEnd ==
  /\ Working("remove") /\ Inner.open /\ Inner.todo \subseteq Inner.seen
  /\ DirEntries(fs, Inner.from) = {}
  /\ fs' = [fs EXCEPT ![Inner.from] = "none"] /\ calls' = Outer /\ SameTask /\ UNCHANGED misread

-------------------------------------------------------------------------------
(* task_worker and move_path.                                              *)

\* Targets, sizes and space are checked before anything is touched.
Prepare ==
  /\ step = "prepare" /\ ~cancel
  /\ step' = "pick"
  /\ UNCHANGED <<fs, nth, calls, cancel, misread, outcome>>

BothDirs == fs[Source] = "dir" /\ fs[Target(nth)] = "dir"

CopySource ==
  /\ step = "pick" /\ nth \in Sources
  /\ \/ req.op = "copy"
     \/ req.op = "move" /\ (BothDirs \/ ~req.oneDevice) /\ fs[Source] # "none"
  /\ step' = "copying" /\ calls' = <<NewCall("copy", Source, Target(nth))>>
  /\ UNCHANGED <<fs, nth, cancel, misread, outcome>>

\* rename() takes the whole tree along and replaces what it may replace; it does
\* not move a directory below itself.  Paths must have room for the tree: a bound.
RenameSource ==
  /\ step = "pick" /\ nth \in Sources /\ req.op = "move" /\ ~BothDirs /\ req.oneDevice
  /\ LET from == Source
         to == Target(nth)
     IN /\ fs[from] # "none" /\ fs[Parent(to)] = "dir" /\ ~Inside(from, to)
        /\ \A p \in Paths :
             Inside(from, p) /\ fs[p] # "none" => Moved(p, from, to) \in Paths
        /\ IF fs[from] = "dir" THEN fs[to] = "none" ELSE fs[to] # "dir"
        /\ fs' = [p \in Paths |->
             IF Inside(from, p) THEN "none"
             ELSE IF Inside(to, p) /\ Moved(p, to, from) \in Paths
             THEN fs[Moved(p, to, from)] ELSE fs[p]]
  /\ nth' = nth + 1 /\ UNCHANGED <<step, calls, cancel, misread, outcome>>

DeleteSource ==
  /\ step = "pick" /\ nth \in Sources /\ req.op = "delete"
  /\ step' = "removing" /\ calls' = <<NewCall("remove", Source, Source)>>
  /\ UNCHANGED <<fs, nth, cancel, misread, outcome>>

\* mutant: the source goes although its copy did not come to an end
CopiedAnyway ==
  /\ step = "copying" /\ req.op = "move" /\ ~cancel
  /\ step' = "removing" /\ calls' = <<NewCall("remove", Source, Source)>>
  /\ UNCHANGED <<fs, nth, cancel, misread, outcome>>

\* finish_copied_move(): the permissions of the source are checked first.
Copied ==
  /\ step = "copying" /\ calls = <<>> /\ req.op = "move" /\ ~cancel
  /\ step' = "removing" /\ calls' = <<NewCall("remove", Source, Source)>>
  /\ UNCHANGED <<fs, nth, cancel, misread, outcome>>

SourceDone ==
  /\ \/ step = "copying" /\ req.op = "copy"
     \/ step = "removing"
  /\ calls = <<>> /\ step' = "pick" /\ nth' = nth + 1
  /\ UNCHANGED <<fs, calls, cancel, misread, outcome>>

TaskDone ==
  /\ step = "pick" /\ nth \notin Sources
  /\ step' = "over" /\ outcome' = "done"
  /\ UNCHANGED <<fs, nth, calls, cancel, misread>>

\* mutant: copy_dir goes on with the next entry
FailsOnward ==
  /\ Working("copy") /\ Len(calls) > 1
  /\ calls' = Outer /\ UNCHANGED fs /\ SameTask /\ UNCHANGED misread

\* Any call may fail, a poll sees the cancel; all the calls in progress return.
Fails ==
  /\ step \notin {"request", "over"} /\ (step = "pick" => nth \in Sources)
  /\ step' = "over" /\ calls' = <<>>
  /\ outcome' = IF cancel THEN "canceled" ELSE "failed"
  /\ UNCHANGED <<fs, nth, cancel, misread>>

TreeNext ==
  /\ \/ Accept \/ Reject \/ CreateLate \/ CancelTask \/ Prepare
     \/ CopyFile \/ CopyDir \/ NextEntry \/ CopyDirEnd
     \/ RemoveFile \/ RemoveDir \/ RemoveDirEnd
     \/ CopySource \/ RenameSource \/ DeleteSource \/ Copied \/ SourceDone
     \/ TaskDone \/ Fails
  /\ UNCHANGED <<before, req>>

TreeSpec == TreeInit /\ [][TreeNext]_treeVars

-------------------------------------------------------------------------------
(* Properties.                                                             *)

\* Two sources of one name get one target, which no check looks for.
OneTargetEach == \A i, j \in Sources : i # j => Target(i) # Target(j)

\* A file the user agreed to overwrite: it stands where a source will stand.
Overwritable(p) == req.overwrite /\ \E i \in Sources : Inside(Target(i), p)

\* The files nobody agreed to overwrite are all in the file system somewhere.
AllThere ==
  \A p \in Paths : IsFile(before[p]) /\ ~Overwritable(p) =>
    \E q \in Paths : fs[q] = before[p]

\* Copying and moving never lose a file: wherever they fail, are canceled or
\* meet a directory that another request fills, every file there was is still
\* in the file system, in its old place or in the new one.
NothingLost == req.op # "delete" /\ OneTargetEach /\ ~misread => AllThere

\* The same when readdir() may fail while a directory is copied.
NothingLostByErrors == req.op # "delete" /\ OneTargetEach => AllThere

\* No source stands where another or itself is put: a folder copied over the one
\* that holds it changes while it is read.
Apart ==
  OneTargetEach /\ \A i, j \in Sources : ~Inside(Target(j), req.srcs[i])

\* Success means the whole of every source: all of it at the target, and after
\* a move or a deletion none of it where it was.
DoneIsWhole ==
  outcome = "done" /\ (req.op = "delete" \/ Apart) /\ ~misread =>
    \A i \in Sources : \A p \in Paths :
      /\ before[p] # "none"
      /\ \A j \in Sources : Inside(req.srcs[j], p) <=> j = i
      => /\ req.op # "delete" => fs[Moved(p, req.srcs[i], Target(i))] = before[p]
         /\ req.op # "copy" => fs[p] \in {"none", Late}
===============================================================================
