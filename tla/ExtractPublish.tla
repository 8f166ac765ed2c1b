---------------------------- MODULE ExtractPublish ----------------------------
(***************************************************************************)
(* One extraction as the ZIP engine (src/src/zip_extract.c) runs it, and   *)
(* the RAR and 7z engines with the same four phases: everything is written *)
(* to a staging directory next to the destination, and only then published *)
(* entry by entry with rename(); a failure rolls the published entries     *)
(* back, newest first, and removes the staging tree.  extract_worker() of  *)
(* extract.c deletes the source archive after a success when it owns it.   *)
(*                                                                         *)
(* A tree is a function from paths to what stands there; paths have one or *)
(* two components, so a directory can be renamed whole or merged into.     *)
(* The process may die at any point, and the user may then run the same    *)
(* extraction again.  System calls of the rollback and the cleanup succeed *)
(* here; every other one may fail, readdir() included, whose failure the   *)
(* code takes for the end of the directory.                                *)
(***************************************************************************)
EXTENDS Naturals, Sequences, FiniteSets

CONSTANTS
  Top,         \* names at the top level
  Kids,        \* names inside a directory
  Engines,     \* subset of {"zip", "rar", "7z"}
  MaxRuns      \* bound: the first run and those after a crash

ASSUME EnginesAssumption == Engines \subseteq {"zip", "rar", "7z"}
ASSUME MaxRunsAssumption == MaxRuns \in Nat \ {0}

VARIABLES
  engine, policy, owned,   \* which engine, conflict policy, remove_source
  arch,                    \* what the archive unpacks to
  dst, dst0, dstExists,    \* the destination, as the run found it, dst_existed
  stg, stgExists,          \* staging tree, staging_created
  stale,                   \* a staging directory left behind by a crash
  source,                  \* does the source archive exist?
  pc, cur, todo,           \* publish_dir(): directory open, names to visit
  created,                 \* created[] and created_is_dir[], oldest first
  oom,                     \* an allocation of remember_published() failed
  misread,                 \* a readdir() of publish_dir() failed
  status,                  \* result->status
  runs

setup  == <<engine, policy, owned, arch, runs>>
where  == <<dst0, dstExists>>
faults == <<oom, misread>>
vars   == <<setup, where, dst, stg, stgExists, stale, source, pc, cur, todo,
            created, faults, status>>

Root  == <<>>
Paths == {<<n>> : n \in Top} \cup {<<n, k>> : n \in Top, k \in Kids}

Parent(p) == SubSeq(p, 1, Len(p) - 1)
Under(p, q) == Len(p) <= Len(q) /\ SubSeq(q, 1, Len(p)) = p
Entries(tree, d) == {p \in Paths : Parent(p) = d /\ tree[p] # "none"}

Nothing == [p \in Paths |-> "none"]

(* Only directories at the top level have something below them. *)
Trees(contents) ==
  {f \in [Paths -> contents] :
     \A p \in Paths : Len(p) = 2 =>
       f[p] # "dir" /\ (f[p] # "none" => f[Parent(p)] = "dir")}

UserTrees    == Trees({"none", "dir", "file", "other"})
ArchiveTrees == Trees({"none", "dir", "arch"}) \ {Nothing}
Regular      == {"file", "arch"}

Init ==
  /\ engine \in Engines /\ policy \in {"fail", "overwrite", "merge"}
  /\ owned \in BOOLEAN
  /\ arch \in ArchiveTrees
  /\ \/ dstExists = TRUE /\ dst \in UserTrees
     \/ dstExists = FALSE /\ dst = Nothing
  /\ dst0 = dst
  /\ stg = Nothing /\ stgExists = FALSE /\ stale = FALSE
  /\ source = TRUE
  /\ pc = "scan" /\ cur = Root /\ todo = {}
  /\ created = <<>> /\ oom = FALSE /\ misread = FALSE /\ status = "none"
  /\ runs = 1

-------------------------------------------------------------------------------
(* `goto done` with a status, before anything has been published. *)
Fail(s) ==
  /\ status' = s
  /\ pc' = "cleanup"

(* Opening and scanning the archive, the limits, the space check. *)
Scan ==
  /\ pc = "scan"
  /\ \/ pc' = "stage" /\ UNCHANGED status
     \/ \E s \in {"failed", "canceled"} : Fail(s)
  /\ UNCHANGED <<setup, where, dst, stg, stgExists, stale, source, cur, todo, created, faults>>

(* The name holds the process id, the time and a counter: always a new     *)
(* directory, never one that an earlier run left.                          *)
MakeStaging ==
  /\ pc = "stage"
  /\ \/ stgExists' = TRUE /\ pc' = "extract" /\ UNCHANGED status
     \/ Fail("failed") /\ UNCHANGED stgExists
  /\ UNCHANGED <<setup, where, dst, stg, stale, source, cur, todo, created, faults>>

(* All entries, each with its CRC and limits, and the cancel check after.  *)
Extract ==
  /\ pc = "extract"
  /\ \/ stg' = arch /\ pc' = "publish" /\ UNCHANGED status
     \/ \E s \in {"failed", "canceled"} : Fail(s) /\ UNCHANGED stg
  /\ UNCHANGED <<setup, where, dst, stgExists, stale, source, cur, todo, created, faults>>

(* publish_staging() without a destination: the staging directory becomes  *)
(* the destination.                                                        *)
PublishWhole ==
  /\ pc = "publish"
  /\ ~dstExists
  /\ \/ /\ dst' = stg /\ stg' = Nothing
        /\ stgExists' = FALSE
        /\ status' = "ok" /\ pc' = "cleanup"
     \/ Fail("failed") /\ UNCHANGED <<dst, stg, stgExists>>
  /\ UNCHANGED <<setup, where, stale, source, cur, todo, created, faults>>

(* publish_dir() collects the names first: all of them, unless readdir()   *)
(* failed on the way; its NULL ends the loop and errno is not looked at.   *)
Listed(d, names) ==
  misread' = (misread \/ names # Entries(stg, d))

(* publish_dir() of the staging root. *)
PublishBegin ==
  /\ pc = "publish"
  /\ dstExists
  /\ pc' = "entries"
  /\ \E names \in SUBSET Entries(stg, Root) : Listed(Root, names) /\ todo' = names
  /\ UNCHANGED <<setup, where, dst, stg, stgExists, stale, source, cur, created, oom, status>>

-------------------------------------------------------------------------------
(* publish_entry() *)

AtEntry(p) == pc = "entries" /\ p \in todo /\ Parent(p) = cur

(* rename(): the entry and, for a directory, all that is in it. *)
Moved(p) ==
  /\ dst' = [q \in Paths |-> IF Under(p, q) THEN stg[q] ELSE dst[q]]
  /\ stg' = [q \in Paths |-> IF Under(p, q) THEN "none" ELSE stg[q]]

(* remember_published(): an allocation failure is a failure of the entry   *)
(* for which nothing was stored in result->status.                         *)
Remember(p, isDir) ==
  \/ /\ created' = Append(created, [path |-> p, dir |-> isDir])
     /\ UNCHANGED <<pc, oom>>
  \/ /\ oom' = TRUE
     /\ pc' = "rollback"
     /\ UNCHANGED created

PublishNew(p) ==
  /\ AtEntry(p)
  /\ dst[p] = "none"
  /\ Moved(p)
  /\ Remember(p, stg[p] = "dir")
  /\ todo' = todo \ {p}
  /\ UNCHANGED <<setup, where, stgExists, stale, source, cur, misread, status>>

(* ZIP and RAR merge directories only under MERGE, 7z under OVERWRITE too. *)
MergesDirs == policy = "merge" \/ (engine = "7z" /\ policy = "overwrite")

PublishMergeSkipping(p) ==          \* mutant: an existing directory is kept as it is
  /\ AtEntry(p)
  /\ dst[p] = "dir" /\ stg[p] = "dir" /\ MergesDirs
  /\ todo' = todo \ {p}
  /\ UNCHANGED <<setup, where, dst, stg, stgExists, stale, source, pc, cur, created, faults, status>>

PublishMerge(p) ==
  /\ AtEntry(p)
  /\ dst[p] = "dir" /\ stg[p] = "dir" /\ MergesDirs
  /\ cur' = p
  /\ \E names \in SUBSET Entries(stg, p) :
       Listed(p, names) /\ todo' = (todo \ {p}) \cup names
  /\ UNCHANGED <<setup, where, dst, stg, stgExists, stale, source, pc, created, oom, status>>

(* rmdir(src_child), whose result nobody looks at. *)
PublishLeave ==
  /\ pc = "entries"
  /\ cur # Root
  /\ \A p \in todo : Parent(p) # cur
  /\ cur' = Root
  /\ stg' = IF Entries(stg, cur) = {} THEN [stg EXCEPT ![cur] = "none"] ELSE stg
  /\ UNCHANGED <<setup, where, dst, stgExists, stale, source, pc, todo, created, faults, status>>

PublishReplaceMerging(p) ==         \* mutant: MERGE replaces the user's file
  /\ AtEntry(p)
  /\ dst[p] \in Regular /\ stg[p] = "arch" /\ policy # "fail"
  /\ Moved(p)
  /\ Remember(p, FALSE)
  /\ todo' = todo \ {p}
  /\ UNCHANGED <<setup, where, stgExists, stale, source, cur, misread, status>>

PublishReplace(p) ==
  /\ AtEntry(p)
  /\ dst[p] \in Regular /\ stg[p] = "arch" /\ policy = "overwrite"
  /\ Moved(p)
  /\ Remember(p, FALSE)
  /\ todo' = todo \ {p}
  /\ UNCHANGED <<setup, where, stgExists, stale, source, cur, misread, status>>

(* MERGE keeps the existing file and drops the staged one. *)
PublishDrop(p) ==
  /\ AtEntry(p)
  /\ dst[p] \in Regular /\ stg[p] = "arch" /\ policy = "merge"
  /\ stg' = [stg EXCEPT ![p] = "none"]
  /\ todo' = todo \ {p}
  /\ UNCHANGED <<setup, where, dst, stgExists, stale, source, pc, cur, created, faults, status>>

PublishConflict(p) ==
  /\ AtEntry(p)
  /\ dst[p] # "none"
  /\ ~(dst[p] = "dir" /\ stg[p] = "dir" /\ MergesDirs)
  /\ ~(dst[p] \in Regular /\ stg[p] = "arch" /\ policy # "fail")
  /\ status' = "conflict"
  /\ pc' = "rollback"
  /\ UNCHANGED <<setup, where, dst, stg, stgExists, stale, source, cur, todo, created, faults>>

(* opendir, lstat, rename, unlink or an allocation of publish_dir failed.  *)
PublishError ==
  /\ pc = "entries"
  /\ status' = "failed"
  /\ pc' = "rollback"
  /\ UNCHANGED <<setup, where, dst, stg, stgExists, stale, source, cur, todo, created, faults>>

PublishEnd ==
  /\ pc = "entries"
  /\ cur = Root /\ todo = {}
  /\ status' = "ok"
  /\ pc' = "cleanup"
  /\ UNCHANGED <<setup, where, dst, stg, stgExists, stale, source, cur, todo, created, faults>>

-------------------------------------------------------------------------------
(* unlink(), or rmdir(), which does nothing to a directory that is not     *)
(* empty.                                                                  *)
Removed(e) ==
  IF e.dir /\ Entries(dst, e.path) # {} THEN dst
  ELSE [dst EXCEPT ![e.path] = "none"]

RollbackAllButOne ==                \* mutant: the loop stops one entry early
  /\ pc = "rollback"
  /\ IF Len(created) <= 1
     THEN pc' = "cleanup" /\ UNCHANGED <<dst, created>>
     ELSE /\ dst' = Removed(created[Len(created)])
          /\ created' = SubSeq(created, 1, Len(created) - 1)
          /\ UNCHANGED pc
  /\ UNCHANGED <<setup, where, stg, stgExists, stale, source, cur, todo, faults, status>>

(* rollback_published(), newest first.  After it the function returns      *)
(* result->status, which is still ZIPX_OK if only remember_published()     *)
(* failed.                                                                 *)
Rollback ==
  /\ pc = "rollback"
  /\ IF created = <<>>
     THEN /\ pc' = "cleanup"
          /\ status' = IF status = "none" THEN "ok" ELSE status
          /\ UNCHANGED <<dst, created>>
     ELSE /\ dst' = Removed(created[Len(created)])
          /\ created' = SubSeq(created, 1, Len(created) - 1)
          /\ UNCHANGED <<pc, status>>
  /\ UNCHANGED <<setup, where, stg, stgExists, stale, source, cur, todo, faults>>

(* cleanup_staging() *)
Cleanup ==
  /\ pc = "cleanup"
  /\ stg' = Nothing /\ stgExists' = FALSE
  /\ pc' = "return"
  /\ UNCHANGED <<setup, where, dst, stale, source, cur, todo, created, faults, status>>

ReturnAnyway ==                     \* mutant: the archive goes whatever the status
  /\ pc = "return"
  /\ source' = (source /\ ~owned)
  /\ pc' = "done"
  /\ UNCHANGED <<setup, where, dst, stg, stgExists, stale, cur, todo, created, faults, status>>

(* extract_worker() looks at the status and may remove the archive. *)
Return ==
  /\ pc = "return"
  /\ source' = (source /\ ~(status = "ok" /\ owned))
  /\ pc' = "done"
  /\ UNCHANGED <<setup, where, dst, stg, stgExists, stale, cur, todo, created, faults, status>>

-------------------------------------------------------------------------------
Crash ==
  /\ pc \notin {"done", "crashed"}
  /\ pc' = "crashed"
  /\ stale' = (stale \/ stgExists)
  /\ stgExists' = FALSE /\ stg' = Nothing
  /\ cur' = Root /\ todo' = {} /\ created' = <<>> /\ oom' = FALSE /\ misread' = FALSE
  /\ status' = "none"
  /\ UNCHANGED <<setup, where, dst, source>>

RunAgain ==
  /\ pc = "crashed"
  /\ runs < MaxRuns
  /\ runs' = runs + 1
  /\ dst0' = dst
  /\ dstExists' = (dstExists \/ dst # Nothing)
  /\ pc' = "scan"
  /\ UNCHANGED <<engine, policy, owned, arch, dst, stg, stgExists, stale, source,
                 cur, todo, created, faults, status>>

PublishEntry(p) ==
  \/ PublishNew(p) \/ PublishMerge(p) \/ PublishReplace(p) \/ PublishDrop(p)
  \/ PublishConflict(p)

Next ==
  \/ Scan \/ MakeStaging \/ Extract
  \/ PublishWhole \/ PublishBegin
  \/ \E p \in Paths : PublishEntry(p)
  \/ PublishLeave \/ PublishError \/ PublishEnd
  \/ Rollback \/ Cleanup \/ Return
  \/ Crash \/ RunAgain

Spec == Init /\ [][Next]_vars

-------------------------------------------------------------------------------
Settled == pc \in {"return", "done"}

(* Whatever happens, errors, cancels and crashes included, an entry of the *)
(* user's is neither replaced nor removed unless the policy is OVERWRITE.  *)
UserDataKept ==
  policy # "overwrite" => \A p \in Paths : dst0[p] # "none" => dst[p] = dst0[p]

(* Every entry of the archive stands in the destination, except that MERGE *)
(* keeps what was there.                                                   *)
Complete ==
  \A p \in Paths : arch[p] # "none" =>
    dst[p] = arch[p] \/ (policy = "merge" /\ dst[p] = dst0[p] /\ dst0[p] \in Regular)

(* An extraction that reports success has published the whole archive,     *)
(* provided that remember_published() had memory, without which the code   *)
(* rolls back and returns ZIPX_OK all the same, and that no readdir() of   *)
(* publish_dir() failed, after which what was not listed is cleaned up     *)
(* with the staging tree.                                                  *)
SuccessIsComplete == Settled /\ status = "ok" /\ ~oom /\ ~misread => Complete

(* The archive is removed only by a task that owns it; and with the two    *)
(* provisions of SuccessIsComplete only after all of it was published.     *)
SourceKept ==
  pc = "done" /\ ~source => owned /\ (~oom /\ ~misread => Complete)

(* The same without the provisions.  extract.h: remove_source deletes the  *)
(* source after a successful extraction.                                   *)
SourceGoneOnSuccess == pc = "done" /\ ~source => owned /\ Complete

(* What a failed extraction leaves in the destination is at most inside a  *)
(* directory that was new, had entries, and was renamed whole: every file  *)
(* and every empty directory published at the top or into a merged         *)
(* directory is taken back, and the staging tree is gone.                  *)
ResidueOnlyInNewDirs ==
  Settled /\ status \notin {"ok", "none"} /\ policy # "overwrite" =>
    /\ ~stgExists
    /\ \A p \in Paths : dst[p] # dst0[p] =>
         LET top == SubSeq(p, 1, 1)
         IN dst0[top] = "none" /\ arch[top] = "dir" /\ Entries(arch, top) # {}

(* zip_extract.h: on any failure dst_dir is left as it was, except for     *)
(* objects already published with the overwrite policy.                    *)
DstRestored ==
  Settled /\ status \notin {"ok", "none"} /\ policy # "overwrite" => dst = dst0
===============================================================================
