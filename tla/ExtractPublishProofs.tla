------------------------- MODULE ExtractPublishProofs -------------------------
(***************************************************************************)
(* Proofs about ExtractPublish, for every set of names, engine, conflict   *)
(* policy, archive and destination, and for every number of runs with a    *)
(* crash between them.  The inductive invariant says where every entry of  *)
(* the archive is while publish_dir() works: still in the staging tree and *)
(* then the destination is as it was found, or gone from it and then the   *)
(* destination holds what the policy asks for.                             *)
(***************************************************************************)
EXTENDS ExtractPublish, SequenceTheorems, TLAPS

Content == {"none", "dir", "file", "other", "arch"}

(* What hangs below a directory is no directory, and hangs below one.      *)
IsTree(t) ==
  /\ t \in [Paths -> Content]
  /\ \A p \in Paths : Parent(p) # Root /\ t[p] # "none" =>
       t[p] # "dir" /\ t[Parent(p)] = "dir"

EarlyLocs == {"scan", "stage", "extract", "publish"}
LateLocs  == {"cleanup", "return", "done"}

TypeOK ==
  /\ engine \in {"zip", "rar", "7z"} /\ policy \in {"fail", "overwrite", "merge"}
  /\ owned \in BOOLEAN /\ source \in BOOLEAN
  /\ oom \in BOOLEAN /\ misread \in BOOLEAN
  /\ dstExists \in BOOLEAN /\ stgExists \in BOOLEAN /\ stale \in BOOLEAN
  /\ runs \in 1 .. MaxRuns
  /\ IsTree(arch) /\ IsTree(dst) /\ IsTree(dst0) /\ IsTree(stg)
  /\ pc \in EarlyLocs \cup LateLocs \cup {"entries", "rollback", "crashed"}
  /\ cur \in Paths \cup {Root}
  /\ todo \subseteq Paths
  /\ created \in Seq([path : Paths, dir : BOOLEAN])
  /\ status \in {"none", "ok", "failed", "canceled", "conflict"}

(* What each phase has left behind.                                        *)
PhaseInv ==
  /\ pc \in EarlyLocs => dst = dst0
  /\ pc \in EarlyLocs \cup {"crashed"} =>
       created = <<>> /\ ~oom /\ status = "none" /\ cur = Root /\ todo = {}
  /\ pc = "publish" => stg = arch
  /\ pc = "entries" => ~oom /\ status = "none"
  /\ pc = "rollback" => (oom <=> status = "none") /\ status \notin {"ok", "canceled"}
  /\ pc \in LateLocs => status # "none" /\ (status # "ok" => created = <<>>)
  /\ oom => status \in {"none", "ok"}
  /\ pc \in {"return", "done"} => ~stgExists
  /\ pc = "done" \/ source
  /\ ~source => owned /\ status = "ok"
  /\ ~dstExists => dst0 = Nothing

(* Only names of the archive change in the destination.                    *)
OnlyArchive == \A p \in Paths : arch[p] = "none" => dst[p] = dst0[p]

(* What created[] records was published; under a policy other than         *)
(* OVERWRITE nothing stood there.                                          *)
CreatedInv ==
  \A i \in 1 .. Len(created) :
    LET e == created[i]
    IN /\ arch[e.path] # "none"
       /\ e.dir <=> arch[e.path] = "dir"
       /\ ~e.dir => dst[e.path] # "dir"
       /\ policy # "overwrite" => dst0[e.path] = "none"

(* The directory that is open and the names still to visit: all that is    *)
(* left in the staging tree, unless a readdir() failed.                    *)
TodoInv ==
  /\ cur # Root => /\ Parent(cur) = Root /\ cur \notin todo
                   /\ stg[cur] = "dir" /\ dst[cur] = "dir" /\ arch[cur] = "dir"
  /\ \A p \in todo : stg[p] # "none" /\ Parent(p) \in {Root, cur}
  /\ \A p \in Paths : Parent(p) \in todo => stg[p] = arch[p]
  /\ ~misread => \A p \in Paths : stg[p] # "none" =>
       IF Parent(p) = Root THEN p \in todo \/ p = cur
       ELSE Parent(p) \in todo \/ (Parent(p) = cur /\ p \in todo)

Placed(p) ==
  dst[p] = arch[p] \/ (policy = "merge" /\ dst[p] = dst0[p] /\ dst0[p] \in Regular)

(* An entry waits in the staging tree, or it has been placed.              *)
PlacedInv ==
  \A p \in Paths : IF stg[p] # "none" THEN stg[p] = arch[p] /\ dst[p] = dst0[p]
                   ELSE arch[p] # "none" => Placed(p)

Recorded(p) == \E i \in 1 .. Len(created) : created[i].path = p

(* The top-level name a path belongs to.                                   *)
TopOf(p) == IF Parent(p) = Root THEN p ELSE Parent(p)

InNewDir(p) ==
  dst0[TopOf(p)] = "none" /\ arch[TopOf(p)] = "dir" /\ Entries(arch, TopOf(p)) # {}

(* What the rollback will not take back is inside a new directory.         *)
ResidueInv ==
  policy # "overwrite" /\ ~oom =>
    \A p \in Paths : dst[p] # dst0[p] => Recorded(p) \/ InNewDir(p)

IInv ==
  /\ TypeOK /\ PhaseInv /\ OnlyArchive /\ UserDataKept
  /\ CreatedInv
  /\ pc = "entries" => TodoInv /\ PlacedInv
  /\ pc \in {"entries", "rollback"} \/ (pc \in LateLocs /\ status # "ok") => ResidueInv
  /\ status = "ok" /\ ~oom /\ ~misread => Complete

-------------------------------------------------------------------------------
(* Paths and trees.                                                        *)

(* The prefixes of sequences of one or two names.                          *)
LEMMA Prefixes ==
  ASSUME NEW a, NEW b
  PROVE  /\ SubSeq(<<a>>, 1, 0) = <<>> /\ SubSeq(<<a>>, 1, 1) = <<a>>
         /\ SubSeq(<<a, b>>, 1, 1) = <<a>> /\ SubSeq(<<a, b>>, 1, 2) = <<a, b>>
<1> DEFINE S == {a, b}
<1>1. SubSeq(<<a>>, 1, 0) = <<>>
  BY SubSeqEmpty
<1>2. <<a>> \in Seq(S) /\ <<a, b>> \in Seq(S)
  OBVIOUS
<1>3. SubSeq(<<a>>, 1, 1) = <<a>> /\ SubSeq(<<a, b>>, 1, 2) = <<a, b>>
  BY <1>2, SubSeqFull
<1>4. SubSeq(<<a, b>>, 1, 1) = <<a>>
  <2> DEFINE t == SubSeq(<<a, b>>, 1, 1)
  <2>1. \A i \in 1 .. 1 : <<a, b>>[i] \in S
    OBVIOUS
  <2>2. t \in Seq(S)
    BY <2>1, SubSeqProperties
  <2>3. Len(t) = 1
    BY <2>1, SubSeqProperties
  <2>4. \A i \in 1 .. 1 : t[i] = <<a, b>>[1 + i - 1]
    BY <2>1, SubSeqProperties
  <2>5. t[1] = a
    BY <2>4
  <2>6. <<a>> \in Seq(S) /\ Len(<<a>>) = Len(t) /\ \A i \in 1 .. Len(t) : t[i] = <<a>>[i]
    BY <2>3, <2>5
  <2> HIDE DEF t
  <2>7. t = <<a>>
    BY <2>2, <2>6, SeqEqual
  <2> QED BY <2>7 DEF t
<1> QED BY <1>1, <1>3, <1>4

(* The parents of the two kinds of paths.                                  *)
LEMMA Parents ==
  ASSUME NEW n, NEW k
  PROVE  /\ Len(<<n>>) = 1 /\ Parent(<<n>>) = Root
         /\ Len(<<n, k>>) = 2 /\ Parent(<<n, k>>) = <<n>>
<1>1. Len(<<n>>) - 1 = 0 /\ Len(<<n, k>>) - 1 = 1
  OBVIOUS
<1>2. Parent(<<n>>) = SubSeq(<<n>>, 1, 0) /\ Parent(<<n, k>>) = SubSeq(<<n, k>>, 1, 1)
  BY <1>1 DEF Parent
<1> QED BY <1>2, Prefixes DEF Root

(* A path has a parent that is the root, or a path whose parent is.        *)
LEMMA PathFacts ==
  /\ Root \notin Paths
  /\ \A p \in Paths : Parent(p) = Root \/ (Parent(p) \in Paths /\ Parent(Parent(p)) = Root)
  /\ \A p \in Paths : Len(p) = 2 <=> Parent(p) # Root
  /\ \A p \in Paths : SubSeq(p, 1, 1) = TopOf(p)
<1>1. \A n : /\ Len(<<n>>) = 1 /\ Parent(<<n>>) = Root /\ SubSeq(<<n>>, 1, 1) = <<n>>
             /\ <<n>> # Root
  BY Prefixes, Parents DEF Root
<1>2. \A n, k : /\ Len(<<n, k>>) = 2 /\ Parent(<<n, k>>) = <<n>>
                /\ SubSeq(<<n, k>>, 1, 1) = <<n>> /\ <<n, k>> # Root
  BY Prefixes, Parents DEF Root
<1> QED BY <1>1, <1>2 DEF Paths, TopOf

(* Under a path are the path itself and what hangs below it.               *)
LEMMA UnderFacts ==
  ASSUME NEW p \in Paths, NEW q \in Paths
  PROVE  Under(p, q) <=> p = q \/ Parent(q) = p
<1>1. \A n : Len(<<n>>) = 1 /\ Parent(<<n>>) = <<>> /\ SubSeq(<<n>>, 1, 1) = <<n>>
  BY Prefixes, Parents DEF Root
<1>2. \A n, k : /\ Len(<<n, k>>) = 2 /\ Parent(<<n, k>>) = <<n>>
                /\ SubSeq(<<n, k>>, 1, 1) = <<n>> /\ SubSeq(<<n, k>>, 1, 2) = <<n, k>>
  BY Prefixes, Parents
<1>3. \/ \E m : p = <<m>>
      \/ \E m, j : p = <<m, j>>
  BY DEF Paths
<1>4. \/ \E n : q = <<n>>
      \/ \E n, k : q = <<n, k>>
  BY DEF Paths
<1>5. ASSUME NEW m, p = <<m>>
      PROVE  Under(p, q) <=> p = q \/ Parent(q) = p
  BY <1>1, <1>2, <1>4, <1>5 DEF Under
<1>6. ASSUME NEW m, NEW j, p = <<m, j>>
      PROVE  Under(p, q) <=> p = q \/ Parent(q) = p
  BY <1>1, <1>2, <1>4, <1>6 DEF Under
<1> QED BY <1>3, <1>5, <1>6

(* rename() moves an entry and what hangs below it, and nothing else.      *)
LEMMA MovedFacts ==
  ASSUME TypeOK, NEW p \in Paths, Moved(p)
  PROVE  /\ dst' \in [Paths -> Content] /\ stg' \in [Paths -> Content]
         /\ \A q \in Paths :
              /\ dst'[q] = IF p = q \/ Parent(q) = p THEN stg[q] ELSE dst[q]
              /\ stg'[q] = IF p = q \/ Parent(q) = p THEN "none" ELSE stg[q]
<1>1. \A q \in Paths : Under(p, q) <=> p = q \/ Parent(q) = p
  BY UnderFacts
<1>2. \A q \in Paths : dst[q] \in Content /\ stg[q] \in Content
  BY DEF TypeOK, IsTree
<1> QED BY <1>1, <1>2 DEF Moved, Content

(* Nothing at all is a tree, and so are the archive and what the user has. *)
LEMMA TreeFacts ==
  /\ IsTree(Nothing)
  /\ \A f \in ArchiveTrees \cup UserTrees : IsTree(f)
<1>1. IsTree(Nothing)
  BY DEF IsTree, Nothing, Content
<1>2. ASSUME NEW C \in SUBSET Content, NEW f \in Trees(C)
      PROVE  IsTree(f)
  BY <1>2, PathFacts DEF Trees, IsTree, Content
<1>3. {"none", "dir", "arch"} \in SUBSET Content
      /\ {"none", "dir", "file", "other"} \in SUBSET Content
  BY DEF Content
<1> QED BY <1>1, <1>2, <1>3 DEF ArchiveTrees, UserTrees

-------------------------------------------------------------------------------
(* Init, and the steps that leave the destination alone.                   *)

LEMMA InitIInv == Init => IInv
<1> SUFFICES ASSUME Init PROVE IInv
  OBVIOUS
<1>1. TypeOK
  <2>1. IsTree(arch) /\ IsTree(dst) /\ IsTree(dst0) /\ IsTree(stg)
    BY TreeFacts DEF Init
  <2>2. created \in Seq([path : Paths, dir : BOOLEAN]) /\ todo \subseteq Paths
    BY DEF Init
  <2>3. engine \in {"zip", "rar", "7z"} /\ runs \in 1 .. MaxRuns
    BY EnginesAssumption, MaxRunsAssumption DEF Init
  <2> QED BY <2>1, <2>2, <2>3 DEF Init, TypeOK, EarlyLocs
<1>2. PhaseInv
  BY DEF Init, PhaseInv, LateLocs, EarlyLocs
<1>3. OnlyArchive /\ UserDataKept /\ CreatedInv
  BY DEF Init, OnlyArchive, UserDataKept, CreatedInv
<1> QED BY <1>1, <1>2, <1>3 DEF Init, IInv, LateLocs

(* Until publish_dir() starts, and after the rollback, the destination     *)
(* stays as it is.                                                         *)
LEMMA QuietStep ==
  ASSUME IInv,
         Scan \/ MakeStaging \/ Extract \/ Cleanup \/ Return \/ Crash \/ UNCHANGED vars
  PROVE  IInv'
<1> USE DEF setup, where, faults, vars
<1>1. UNCHANGED <<engine, policy, owned, arch, runs, dst, dst0, dstExists>>
  BY DEF Scan, MakeStaging, Extract, Cleanup, Return, Crash
<1>2. TypeOK'
  <2>1. IsTree(stg)'
    BY TreeFacts
    DEF IInv, TypeOK, IsTree, Scan, MakeStaging, Extract, Cleanup, Return, Crash
  <2>2. IsTree(arch)' /\ IsTree(dst)' /\ IsTree(dst0)'
    BY <1>1 DEF IInv, TypeOK, IsTree
  <2>3. created' \in Seq([path : Paths, dir : BOOLEAN])
    <3>1. created' = created \/ created' = <<>>
      BY DEF Scan, MakeStaging, Extract, Cleanup, Return, Crash
    <3>2. <<>> \in Seq([path : Paths, dir : BOOLEAN])
      OBVIOUS
    <3> QED BY <3>1, <3>2 DEF IInv, TypeOK
  <2>4. todo' \subseteq Paths /\ cur' \in Paths \cup {Root}
    BY DEF IInv, TypeOK, Scan, MakeStaging, Extract, Cleanup, Return, Crash
  <2>5. /\ pc' \in EarlyLocs \cup LateLocs \cup {"entries", "rollback", "crashed"}
        /\ status' \in {"none", "ok", "failed", "canceled", "conflict"}
        /\ {source', stgExists', stale'} \subseteq BOOLEAN
    BY ZenonT(30) DEF IInv, TypeOK, Scan, MakeStaging, Extract, Cleanup, Return, Crash, Fail,
           EarlyLocs, LateLocs
  <2>6. oom' \in BOOLEAN /\ misread' \in BOOLEAN
    BY DEF IInv, TypeOK, Scan, MakeStaging, Extract, Cleanup, Return, Crash
  <2> QED BY <1>1, <2>1, <2>2, <2>3, <2>4, <2>5, <2>6 DEF IInv, TypeOK
<1>3. PhaseInv'
  BY <1>1 DEF IInv, PhaseInv, TypeOK, Scan, MakeStaging, Extract, Cleanup, Return, Crash, Fail,
              EarlyLocs, LateLocs
<1>4. OnlyArchive' /\ UserDataKept'
  BY <1>1 DEF IInv, OnlyArchive, UserDataKept
<1>5. CreatedInv'
  BY <1>1 DEF IInv, CreatedInv, Scan, MakeStaging, Extract, Cleanup, Return, Crash
<1>6. pc' = "entries" => TodoInv' /\ PlacedInv'
  <2>1. pc' = "entries" => UNCHANGED vars
    BY DEF Scan, MakeStaging, Extract, Cleanup, Return, Crash, Fail
  <2> QED BY <2>1 DEF IInv, TodoInv, PlacedInv, Placed
<1>7. status' = "ok" /\ ~oom' /\ ~misread' => Complete'
  BY <1>1 DEF IInv, PhaseInv, Complete, Scan, MakeStaging, Extract, Cleanup, Return, Crash, Fail,
              EarlyLocs
<1>8. pc' \in {"entries", "rollback"} \/ (pc' \in LateLocs /\ status' # "ok") => ResidueInv'
  <2>1. CASE dst = dst0
    BY <1>1, <2>1 DEF ResidueInv
  <2>2. CASE ResidueInv /\ UNCHANGED <<created, oom>>
    BY <1>1, <2>2 DEF ResidueInv, Recorded, InNewDir, TopOf, Entries
  <2>3. CASE Crash
    BY <2>3 DEF Crash, LateLocs
  <2> QED
    BY <2>1, <2>2, <2>3
    DEF IInv, PhaseInv, Scan, MakeStaging, Extract, Cleanup, Return, Fail, EarlyLocs, LateLocs
<1> QED BY <1>2, <1>3, <1>4, <1>5, <1>6, <1>7, <1>8 DEF IInv

(* A run after a crash takes the destination as it finds it.               *)
LEMMA RunAgainStep ==
  ASSUME IInv, RunAgain
  PROVE  IInv'
<1>1. /\ UNCHANGED <<engine, policy, owned, arch, dst, stg, stgExists, stale, source, cur, todo,
                     created, oom, misread, status>>
      /\ pc = "crashed" /\ pc' = "scan" /\ dst0' = dst /\ runs' = runs + 1 /\ runs < MaxRuns
      /\ dstExists' = (dstExists \/ dst # Nothing)
  BY DEF RunAgain, faults
<1>2. TypeOK'
  <2>1. IsTree(arch)' /\ IsTree(dst)' /\ IsTree(dst0)' /\ IsTree(stg)'
    BY <1>1 DEF IInv, TypeOK, IsTree
  <2>2. runs' \in 1 .. MaxRuns /\ dstExists' \in BOOLEAN
    BY <1>1, MaxRunsAssumption DEF IInv, TypeOK
  <2> QED BY <1>1, <2>1, <2>2 DEF IInv, TypeOK, EarlyLocs
<1>3. PhaseInv'
  BY <1>1 DEF IInv, PhaseInv, EarlyLocs, LateLocs
<1>4. OnlyArchive' /\ UserDataKept' /\ CreatedInv'
  BY <1>1 DEF IInv, PhaseInv, OnlyArchive, UserDataKept, CreatedInv
<1>5. status' = "none"
  BY <1>1 DEF IInv, PhaseInv
<1> QED BY <1>1, <1>2, <1>3, <1>4, <1>5 DEF IInv, LateLocs

(* The staging directory becomes the destination.                          *)
LEMMA PublishWholeStep ==
  ASSUME IInv, PublishWhole
  PROVE  IInv'
<1> USE DEF setup, where, faults
<1>1. /\ UNCHANGED <<engine, policy, owned, arch, runs, dst0, dstExists, stale, source, cur, todo,
                     created, oom, misread>>
      /\ pc = "publish" /\ pc' = "cleanup" /\ stg = arch /\ dst = dst0 /\ dst0 = Nothing
      /\ created = <<>> /\ ~oom /\ source
  BY DEF PublishWhole, Fail, IInv, PhaseInv, EarlyLocs
<1>2. CASE dst' = stg /\ stg' = Nothing /\ stgExists' = FALSE /\ status' = "ok"
  <2>1. IsTree(arch)' /\ IsTree(dst)' /\ IsTree(dst0)' /\ IsTree(stg)'
    BY <1>1, <1>2, TreeFacts DEF IInv, TypeOK, IsTree
  <2>2. TypeOK'
    BY <1>1, <1>2, <2>1 DEF IInv, TypeOK, LateLocs
  <2>3. PhaseInv'
    BY <1>1, <1>2 DEF IInv, PhaseInv, EarlyLocs, LateLocs
  <2>4. OnlyArchive' /\ UserDataKept' /\ CreatedInv' /\ Complete'
    BY <1>1, <1>2 DEF OnlyArchive, UserDataKept, CreatedInv, Complete, Nothing
  <2> QED BY <1>1, <1>2, <2>2, <2>3, <2>4 DEF IInv
<1>3. CASE Fail("failed") /\ UNCHANGED <<dst, stg, stgExists>>
  <2>1. IsTree(arch)' /\ IsTree(dst)' /\ IsTree(dst0)' /\ IsTree(stg)'
    BY <1>1, <1>3 DEF IInv, TypeOK, IsTree
  <2>2. TypeOK'
    BY <1>1, <1>3, <2>1 DEF IInv, TypeOK, LateLocs, Fail
  <2>3. PhaseInv'
    BY <1>1, <1>3 DEF IInv, PhaseInv, EarlyLocs, LateLocs, Fail
  <2>4. OnlyArchive' /\ UserDataKept' /\ CreatedInv' /\ ResidueInv'
    BY <1>1, <1>3 DEF IInv, OnlyArchive, UserDataKept, CreatedInv, ResidueInv
  <2> QED BY <1>1, <1>3, <2>2, <2>3, <2>4 DEF IInv, Fail
<1> QED BY <1>2, <1>3 DEF PublishWhole

-------------------------------------------------------------------------------
(* publish_dir().                                                          *)

LEMMA PublishBeginStep ==
  ASSUME IInv, PublishBegin
  PROVE  IInv'
<1> USE DEF setup, where, faults
<1>1. /\ UNCHANGED <<engine, policy, owned, arch, runs, dst0, dstExists, dst, stg, stgExists, stale,
                     source, cur, created, oom, status>>
      /\ pc = "publish" /\ pc' = "entries" /\ stg = arch /\ dst = dst0 /\ source
      /\ created = <<>> /\ ~oom /\ status = "none" /\ misread' \in BOOLEAN
      /\ todo' \subseteq Entries(arch, Root) /\ (~misread' => todo' = Entries(arch, Root))
  BY DEF PublishBegin, Listed, IInv, PhaseInv, TypeOK, EarlyLocs
<1>0. cur = Root
  BY <1>1 DEF IInv, PhaseInv, EarlyLocs
<1>2. /\ \A p \in todo' : p \in Paths /\ Parent(p) = Root /\ arch[p] # "none"
      /\ ~misread' => \A p \in Paths : Parent(p) = Root /\ arch[p] # "none" => p \in todo'
  BY <1>1 DEF Entries
<1>3. IsTree(arch)' /\ IsTree(dst)' /\ IsTree(dst0)' /\ IsTree(stg)'
  BY <1>1 DEF IInv, TypeOK, IsTree
<1>4. TypeOK'
  BY <1>1, <1>2, <1>3 DEF IInv, TypeOK
<1>5. PhaseInv'
  BY <1>1 DEF IInv, PhaseInv, EarlyLocs, LateLocs
<1>6. OnlyArchive' /\ UserDataKept' /\ CreatedInv' /\ ResidueInv'
  BY <1>1 DEF IInv, OnlyArchive, UserDataKept, CreatedInv, ResidueInv
<1>7. TodoInv'
  BY <1>0, <1>1, <1>2, PathFacts DEF IInv, TypeOK, IsTree, TodoInv
<1>8. PlacedInv'
  BY <1>1 DEF PlacedInv
<1> QED BY <1>1, <1>4, <1>5, <1>6, <1>7, <1>8 DEF IInv, LateLocs

(* Appending to a sequence adds one element at the end.                    *)
LEMMA AppendFacts ==
  ASSUME NEW S, NEW s \in Seq(S), NEW x \in S
  PROVE  /\ Append(s, x) \in Seq(S)
         /\ Len(Append(s, x)) = Len(s) + 1 /\ Len(s) \in Nat
         /\ \A i \in 1 .. Len(s) : Append(s, x)[i] = s[i]
         /\ Append(s, x)[Len(s) + 1] = x
  OBVIOUS

Record == [path : Paths, dir : BOOLEAN]

(* created[] holds paths.                                                  *)
LEMMA CreatedPaths ==
  ASSUME TypeOK, NEW i \in 1 .. Len(created)
  PROVE  created[i].path \in Paths /\ created[i].dir \in BOOLEAN
<1>1. created[i] \in Record
  BY ElementOfSeq DEF TypeOK, Record
<1> QED BY <1>1 DEF Record

(* The entry publish_dir() looks at is whole in the staging tree, and the  *)
(* destination is there as it was found.                                   *)
LEMMA EntryFacts ==
  ASSUME IInv, NEW p \in Paths, AtEntry(p)
  PROVE  /\ pc = "entries" /\ TodoInv /\ PlacedInv /\ ~oom /\ status = "none" /\ source
         /\ p \in todo /\ p # cur /\ p # Root
         /\ arch[p] # "none" /\ stg[p] = arch[p] /\ dst[p] = dst0[p]
         /\ \A q \in Paths : Parent(q) = p => stg[q] = arch[q]
         /\ dst[p] # "dir" => \A q \in Paths : Parent(q) = p => dst0[q] = "none"
<1>1. pc = "entries" /\ p \in todo /\ Parent(p) = cur
  BY DEF AtEntry
<1>2. TodoInv /\ PlacedInv /\ ~oom /\ status = "none" /\ source
  BY <1>1 DEF IInv, PhaseInv
<1>3. stg[p] = arch[p] /\ stg[p] # "none" /\ dst[p] = dst0[p] /\ p # cur
  BY <1>1, <1>2, PathFacts DEF TodoInv, PlacedInv
<1>4. \A q \in Paths : Parent(q) = p => stg[q] = arch[q]
  BY <1>1, <1>2, PathFacts DEF TodoInv
<1>5. dst[p] # "dir" => \A q \in Paths : Parent(q) = p => dst0[q] = "none"
  BY <1>3, PathFacts DEF IInv, TypeOK, IsTree
<1> QED BY <1>1, <1>2, <1>3, <1>4, <1>5, PathFacts

(* An entry is moved to where nothing stood, or over a file it may replace.*)
LEMMA MoveStep ==
  ASSUME IInv, NEW p \in Paths, AtEntry(p), Moved(p),
         NEW d \in BOOLEAN, d <=> stg[p] = "dir", Remember(p, d),
         dst[p] = "none" \/ (dst[p] \in Regular /\ policy = "overwrite"),
         todo' = todo \ {p},
         UNCHANGED <<setup, where, stgExists, stale, source, cur, misread, status>>
  PROVE  IInv'
<1> USE DEF setup, where, faults
<1> DEFINE here(q) == q = p \/ Parent(q) = p
<1>1. /\ pc = "entries" /\ TodoInv /\ PlacedInv /\ ~oom /\ status = "none" /\ source
      /\ p \in todo /\ p # cur /\ p # Root
      /\ arch[p] # "none" /\ dst[p] = dst0[p]
      /\ \A q \in Paths : here(q) => stg[q] = arch[q]
      /\ \A q \in Paths : Parent(q) = p => dst0[q] = "none"
  BY EntryFacts DEF Regular
<1>2. /\ dst' \in [Paths -> Content] /\ stg' \in [Paths -> Content]
      /\ \A q \in Paths : dst'[q] = IF here(q) THEN arch[q] ELSE dst[q]
      /\ \A q \in Paths : stg'[q] = IF here(q) THEN "none" ELSE stg[q]
  <2>1. TypeOK
    BY DEF IInv
  <2> QED BY <1>1, <2>1, MovedFacts
<1>3. \A q \in Paths : Parent(q) # Root => ~here(Parent(q)) \/ Parent(q) = p
  BY <1>1, PathFacts
<1>4. IsTree(arch) /\ IsTree(dst) /\ IsTree(dst0) /\ IsTree(stg)
  BY DEF IInv, TypeOK
<1>5. IsTree(stg)'
  BY <1>2, <1>3, <1>4, PathFacts DEF IsTree
<1>6. IsTree(dst)'
  <2>1. cur # Root => dst'[cur] = "dir"
    BY <1>1, <1>2, PathFacts DEF TodoInv, IInv, TypeOK
  <2>2. Parent(p) = cur
    BY DEF AtEntry
  <2>3. ASSUME NEW q \in Paths, Parent(q) # Root, dst'[q] # "none"
        PROVE  dst'[q] # "dir" /\ dst'[Parent(q)] = "dir"
    <3>1. CASE q = p
      BY <1>2, <1>4, <2>1, <2>2, <2>3, <3>1 DEF IsTree
    <3>2. CASE Parent(q) = p
      BY <1>2, <1>4, <2>3, <3>2 DEF IsTree
    <3>3. CASE ~here(q)
      BY <1>2, <1>3, <1>4, <2>3, <3>3, PathFacts DEF IsTree
    <3> QED BY <3>1, <3>2, <3>3
  <2> QED BY <1>2, <2>3 DEF IsTree
<1>7. IsTree(arch)' /\ IsTree(dst0)'
  BY <1>4 DEF IsTree
<1>8. \/ /\ created' = Append(created, [path |-> p, dir |-> d])
         /\ UNCHANGED <<pc, oom>>
      \/ oom' = TRUE /\ pc' = "rollback" /\ UNCHANGED created
  BY DEF Remember
<1>9. [path |-> p, dir |-> d] \in Record /\ created \in Seq(Record)
  BY DEF IInv, TypeOK, Record
<1>10. created' \in Seq([path : Paths, dir : BOOLEAN])
  <2>1. created' \in Seq(Record)
    BY <1>8, <1>9, AppendFacts
  <2> QED BY <2>1 DEF Record
<1>11. TypeOK'
  <2>1. /\ oom' \in BOOLEAN /\ misread' \in BOOLEAN /\ todo' \subseteq Paths
        /\ pc' \in EarlyLocs \cup LateLocs \cup {"entries", "rollback", "crashed"}
    BY <1>8 DEF IInv, TypeOK
  <2> QED BY <1>5, <1>6, <1>7, <1>10, <2>1, ZenonT(30) DEF IInv, TypeOK
<1>12. PhaseInv'
  BY <1>1, <1>8 DEF IInv, PhaseInv, EarlyLocs, LateLocs
<1>13. OnlyArchive' /\ UserDataKept'
  BY <1>1, <1>2 DEF IInv, OnlyArchive, UserDataKept, Regular
<1>14. CASE oom' = TRUE /\ pc' = "rollback" /\ UNCHANGED created
  <2>1. CreatedInv'
    BY <1>2, <1>14, CreatedPaths DEF IInv, CreatedInv
  <2>2. ResidueInv' /\ pc' # "entries" /\ status' # "ok"
    BY <1>1, <1>14 DEF ResidueInv
  <2> QED BY <1>11, <1>12, <1>13, <2>1, <2>2 DEF IInv
<1>15. CASE /\ created' = Append(created, [path |-> p, dir |-> d])
            /\ UNCHANGED <<pc, oom>>
  <2>1. /\ Len(created') = Len(created) + 1 /\ Len(created) \in Nat
        /\ \A i \in 1 .. Len(created) : created'[i] = created[i] /\ created[i].path \in Paths
        /\ created'[Len(created) + 1] = [path |-> p, dir |-> d]
    <3>1. /\ Len(created') = Len(created) + 1 /\ Len(created) \in Nat
          /\ \A i \in 1 .. Len(created) : created'[i] = created[i]
          /\ created'[Len(created) + 1] = [path |-> p, dir |-> d]
      BY <1>9, <1>15, AppendFacts
    <3> QED BY <3>1, CreatedPaths DEF IInv
  <2>2. CreatedInv'
    <3> SUFFICES ASSUME NEW i \in 1 .. Len(created')
                 PROVE  LET e == created'[i]
                        IN /\ arch[e.path] # "none"
                           /\ e.dir <=> arch[e.path] = "dir"
                           /\ ~e.dir => dst'[e.path] # "dir"
                           /\ policy # "overwrite" => dst0[e.path] = "none"
      BY DEF CreatedInv
    <3>1. CASE i = Len(created) + 1
      <4>1. created'[i].path = p /\ created'[i].dir = d
        BY <2>1, <3>1
      <4> QED BY <1>1, <1>2, <4>1 DEF Regular
    <3>2. CASE i \in 1 .. Len(created)
      BY <1>2, <2>1, <3>2 DEF IInv, CreatedInv
    <3> QED BY <2>1, <3>1, <3>2
  <2>3. \A q \in Paths : Recorded(q) \/ q = p => Recorded(q)'
    BY <2>1 DEF Recorded
  <2>4. ResidueInv'
    <3> SUFFICES ASSUME policy # "overwrite", ~oom, NEW q \in Paths, dst'[q] # dst0[q]
                 PROVE  Recorded(q)' \/ InNewDir(q)'
      BY <1>15 DEF ResidueInv
    <3>1. CASE Parent(q) = p
      <4>1. arch[q] # "none" /\ arch[p] = "dir" /\ dst0[p] = "none"
        BY <1>1, <1>2, <1>4, <3>1 DEF IsTree
      <4>2. TopOf(q) = p /\ q \in Entries(arch, p)
        BY <1>1, <3>1, <4>1 DEF TopOf, Entries
      <4> QED BY <4>1, <4>2 DEF InNewDir, TopOf, Entries
    <3>2. CASE ~here(q)
      <4>1. Recorded(q) \/ InNewDir(q)
        BY <1>1, <1>2, <3>2 DEF IInv, ResidueInv
      <4> QED BY <2>3, <4>1 DEF InNewDir, TopOf, Entries
    <3> QED BY <2>3, <3>1, <3>2
  <2>5. TodoInv'
    <3>1. cur # Root => ~here(cur)
      BY <1>1, PathFacts DEF TodoInv
    <3>2. \A q \in todo : Parent(q) # p
      BY <1>1, PathFacts DEF TodoInv
    <3>3. Root \notin todo /\ cur \notin todo /\ Parent(p) = cur /\ todo \subseteq Paths
      BY <1>1, PathFacts DEF TodoInv, AtEntry, IInv, TypeOK
    <3>4. cur \in Paths \cup {Root}
      BY DEF IInv, TypeOK
    <3>5. cur # Root => /\ Parent(cur) = Root /\ cur \notin todo'
                        /\ stg'[cur] = "dir" /\ dst'[cur] = "dir" /\ arch[cur] = "dir"
      BY <1>1, <1>2, <3>1, <3>3, <3>4 DEF TodoInv
    <3>6. \A q \in todo' : stg'[q] # "none" /\ Parent(q) \in {Root, cur}
      BY <1>1, <1>2, <3>2, <3>3 DEF TodoInv
    <3>7. \A q \in Paths : Parent(q) \in todo' => stg'[q] = arch[q]
      BY <1>1, <1>2, <3>3 DEF TodoInv
    <3>8. ~misread' => \A q \in Paths : stg'[q] # "none" =>
             IF Parent(q) = Root THEN q \in todo' \/ q = cur
             ELSE Parent(q) \in todo' \/ (Parent(q) = cur /\ q \in todo')
      BY <1>1, <1>2 DEF TodoInv
    <3> QED BY <3>5, <3>6, <3>7, <3>8 DEF TodoInv
  <2>6. PlacedInv'
    BY <1>1, <1>2 DEF PlacedInv, Placed
  <2> QED BY <1>1, <1>11, <1>12, <1>13, <2>2, <2>4, <2>5, <2>6 DEF IInv
<1> QED BY <1>8, <1>14, <1>15

(* publish_dir() enters a directory that is merged with an existing one.   *)
LEMMA MergeStep ==
  ASSUME IInv, NEW p \in Paths, PublishMerge(p)
  PROVE  IInv'
<1> USE DEF setup, where, faults
<1>1. /\ pc = "entries" /\ TodoInv /\ PlacedInv /\ p \in todo /\ p # Root
      /\ stg[p] = arch[p] /\ stg[p] = "dir" /\ dst[p] = "dir"
      /\ cur' = p /\ misread' \in BOOLEAN
      /\ UNCHANGED <<setup, where, dst, stg, stgExists, stale, source, pc, created, oom, status>>
  BY EntryFacts DEF PublishMerge, Listed, IInv, TypeOK
<1>2. Parent(p) = Root /\ cur = Root
  BY <1>1, PathFacts DEF IInv, TypeOK, IsTree, PublishMerge, AtEntry
<1>0. PICK names \in SUBSET Entries(stg, p) : Listed(p, names) /\ todo' = (todo \ {p}) \cup names
  BY DEF PublishMerge
<1>3. /\ \A q \in todo' : (q \in todo /\ q # p) \/ (Parent(q) = p /\ stg[q] # "none")
      /\ \A q \in todo : q # p => q \in todo'
      /\ ~misread' => ~misread /\ \A q \in Paths : Parent(q) = p /\ stg[q] # "none" => q \in todo'
  BY <1>0 DEF Entries, Listed
<1>4. todo' \subseteq Paths
  BY <1>0 DEF Entries, IInv, TypeOK
<1>5. IsTree(arch)' /\ IsTree(dst)' /\ IsTree(dst0)' /\ IsTree(stg)'
  BY <1>1 DEF IInv, TypeOK, IsTree
<1>6. TypeOK'
  BY <1>1, <1>4, <1>5 DEF IInv, TypeOK
<1>7. PhaseInv' /\ OnlyArchive' /\ UserDataKept' /\ CreatedInv'
  BY <1>1 DEF IInv, PhaseInv, OnlyArchive, UserDataKept, CreatedInv, EarlyLocs, LateLocs
<1>8. ResidueInv'
  BY <1>1 DEF IInv, ResidueInv, Recorded, InNewDir, TopOf, Entries
<1>9. TodoInv'
  <2>1. /\ p \notin todo' /\ Root \notin todo'
        /\ arch[p] = "dir"
    BY <1>1, <1>2, <1>3, <1>4, PathFacts
  <2>2. \A q \in todo' : stg[q] # "none" /\ Parent(q) \in {Root, p}
    BY <1>1, <1>2, <1>3, <1>4 DEF TodoInv
  <2>3. \A q \in Paths : Parent(q) \in todo' => Parent(q) \in todo
    BY <1>2, <1>3, <1>4, <2>1, PathFacts
  <2>4. ~misread' => \A q \in Paths : stg[q] # "none" =>
           IF Parent(q) = Root THEN q \in todo' \/ q = p
           ELSE Parent(q) \in todo' \/ (Parent(q) = p /\ q \in todo')
    BY <1>1, <1>2, <1>3, PathFacts DEF TodoInv
  <2> QED BY <1>1, <1>2, <2>1, <2>2, <2>3, <2>4 DEF TodoInv
<1>10. PlacedInv'
  BY <1>1 DEF PlacedInv, Placed
<1> QED BY <1>1, <1>6, <1>7, <1>8, <1>9, <1>10 DEF IInv, PhaseInv

(* It leaves the directory when all the entries it listed were placed; the *)
(* rmdir() fails if a readdir() failed and something is left.              *)
LEMMA LeaveStep ==
  ASSUME IInv, PublishLeave
  PROVE  IInv'
<1> USE DEF setup, where, faults
<1>1. /\ pc = "entries" /\ TodoInv /\ PlacedInv /\ status = "none"
      /\ cur # Root /\ cur' = Root /\ (\A p \in todo : Parent(p) # cur)
      /\ stg' = IF Entries(stg, cur) = {} THEN [stg EXCEPT ![cur] = "none"] ELSE stg
      /\ UNCHANGED <<setup, where, dst, stgExists, stale, source, pc, todo, created, faults, status>>
  BY DEF PublishLeave, IInv, PhaseInv
<1>2. /\ cur \in Paths /\ Parent(cur) = Root /\ cur \notin todo
      /\ stg[cur] = "dir" /\ dst[cur] = "dir" /\ arch[cur] = "dir"
  BY <1>1 DEF TodoInv, IInv, TypeOK
<1>3. /\ stg' \in [Paths -> Content]
      /\ \A q \in Paths : q # cur => stg'[q] = stg[q]
      /\ \/ stg'[cur] = "none" /\ \A q \in Paths : Parent(q) = cur => stg[q] = "none"
         \/ stg'[cur] = stg[cur] /\ \E q \in Paths : Parent(q) = cur /\ stg[q] # "none"
  <2>1. stg \in [Paths -> Content] /\ "none" \in Content
    BY DEF IInv, TypeOK, IsTree, Content
  <2>2. CASE Entries(stg, cur) = {}
    BY <1>1, <1>2, <2>1, <2>2 DEF Entries
  <2>3. CASE Entries(stg, cur) # {}
    BY <1>1, <1>2, <2>1, <2>3 DEF Entries
  <2> QED BY <2>2, <2>3
<1>4. ~misread => stg'[cur] = "none" /\ \A q \in Paths : Parent(q) = cur => stg[q] = "none"
  BY <1>1, <1>2, <1>3, PathFacts DEF TodoInv
<1>5. IsTree(stg)'
  <2>1. IsTree(stg)
    BY DEF IInv, TypeOK
  <2> QED BY <1>2, <1>3, <2>1, PathFacts DEF IsTree
<1>6. IsTree(arch)' /\ IsTree(dst)' /\ IsTree(dst0)'
  BY <1>1 DEF IInv, TypeOK, IsTree
<1>7. TypeOK'
  BY <1>1, <1>5, <1>6 DEF IInv, TypeOK
<1>8. PhaseInv' /\ OnlyArchive' /\ UserDataKept' /\ CreatedInv'
  BY <1>1 DEF IInv, PhaseInv, OnlyArchive, UserDataKept, CreatedInv, EarlyLocs, LateLocs
<1>9. ResidueInv'
  BY <1>1 DEF IInv, ResidueInv, Recorded, InNewDir, TopOf, Entries
<1>10. TodoInv'
  <2>1. Root \notin todo /\ todo \subseteq Paths
    BY PathFacts DEF IInv, TypeOK
  <2>2. \A p \in todo : stg'[p] # "none" /\ Parent(p) = Root
    BY <1>1, <1>2, <1>3, <2>1 DEF TodoInv
  <2>3. \A p \in Paths : Parent(p) \in todo => stg'[p] = arch[p]
    BY <1>1, <1>2, <1>3, <2>1 DEF TodoInv
  <2>4. ~misread => \A p \in Paths : stg'[p] # "none" =>
           IF Parent(p) = Root THEN p \in todo ELSE Parent(p) \in todo
    BY <1>1, <1>2, <1>3, <1>4 DEF TodoInv
  <2> QED BY <1>1, <2>2, <2>3, <2>4 DEF TodoInv
<1>11. PlacedInv'
  BY <1>1, <1>2, <1>3 DEF PlacedInv, Placed
<1> QED BY <1>1, <1>7, <1>8, <1>9, <1>10, <1>11 DEF IInv

(* MERGE drops a staged file where one stands already.                     *)
LEMMA DropStep ==
  ASSUME IInv, NEW p \in Paths, PublishDrop(p)
  PROVE  IInv'
<1> USE DEF setup, where, faults
<1>1. /\ pc = "entries" /\ TodoInv /\ PlacedInv /\ status = "none"
      /\ p \in todo /\ p # cur /\ p # Root /\ Parent(p) = cur
      /\ stg[p] = "arch" /\ dst[p] = dst0[p] /\ dst[p] \in Regular /\ policy = "merge"
      /\ stg' = [stg EXCEPT ![p] = "none"] /\ todo' = todo \ {p}
      /\ UNCHANGED <<setup, where, dst, stgExists, stale, source, pc, cur, created, faults, status>>
  BY EntryFacts DEF PublishDrop, AtEntry
<1>2. /\ stg' \in [Paths -> Content]
      /\ \A q \in Paths : stg'[q] = IF q = p THEN "none" ELSE stg[q]
  BY <1>1 DEF IInv, TypeOK, IsTree, Content
<1>3. \A q \in Paths : Parent(q) = p => stg[q] = "none"
  BY <1>1, PathFacts DEF IInv, TypeOK, IsTree
<1>4. IsTree(stg)'
  <2>1. IsTree(stg)
    BY DEF IInv, TypeOK
  <2> QED BY <1>2, <1>3, <2>1, PathFacts DEF IsTree
<1>5. IsTree(arch)' /\ IsTree(dst)' /\ IsTree(dst0)'
  BY <1>1 DEF IInv, TypeOK, IsTree
<1>6. TypeOK'
  BY <1>1, <1>4, <1>5 DEF IInv, TypeOK
<1>7. PhaseInv' /\ OnlyArchive' /\ UserDataKept' /\ CreatedInv'
  BY <1>1 DEF IInv, PhaseInv, OnlyArchive, UserDataKept, CreatedInv, EarlyLocs, LateLocs
<1>8. ResidueInv'
  BY <1>1 DEF IInv, ResidueInv, Recorded, InNewDir, TopOf, Entries
<1>9. TodoInv'
  <2>1. Root \notin todo /\ cur \notin todo
    BY <1>1, PathFacts DEF TodoInv, IInv, TypeOK
  <2> QED BY <1>1, <1>2, <1>3, <2>1, PathFacts DEF TodoInv, IInv, TypeOK
<1>10. PlacedInv'
  BY <1>1, <1>2 DEF PlacedInv, Placed
<1> QED BY <1>1, <1>6, <1>7, <1>8, <1>9, <1>10 DEF IInv

(* A conflict or an error stops the publishing where it is.                *)
LEMMA StopStep ==
  ASSUME IInv, PublishError \/ (\E p \in Paths : PublishConflict(p))
  PROVE  IInv'
<1> USE DEF setup, where, faults
<1>1. /\ pc = "entries" /\ pc' = "rollback" /\ status' \in {"failed", "conflict"} /\ ~oom /\ source
      /\ UNCHANGED <<setup, where, dst, stg, stgExists, stale, source, cur, todo, created, faults>>
  BY DEF PublishError, PublishConflict, AtEntry, IInv, PhaseInv
<1>2. IsTree(arch)' /\ IsTree(dst)' /\ IsTree(dst0)' /\ IsTree(stg)'
  BY <1>1 DEF IInv, TypeOK, IsTree
<1>3. TypeOK'
  BY <1>1, <1>2 DEF IInv, TypeOK
<1>4. PhaseInv' /\ OnlyArchive' /\ UserDataKept' /\ CreatedInv'
  BY <1>1 DEF IInv, PhaseInv, OnlyArchive, UserDataKept, CreatedInv, EarlyLocs, LateLocs
<1>5. ResidueInv'
  BY <1>1 DEF IInv, ResidueInv, Recorded, InNewDir, TopOf, Entries
<1> QED BY <1>1, <1>3, <1>4, <1>5 DEF IInv

(* With nothing left to visit every entry of the archive was placed, if    *)
(* every readdir() listed its directory to the end.                        *)
LEMMA EndStep ==
  ASSUME IInv, PublishEnd
  PROVE  IInv'
<1> USE DEF setup, where, faults
<1>1. /\ pc = "entries" /\ pc' = "cleanup" /\ status' = "ok" /\ ~oom /\ source
      /\ cur = Root /\ todo = {} /\ TodoInv /\ PlacedInv
      /\ UNCHANGED <<setup, where, dst, stg, stgExists, stale, source, cur, todo, created, faults>>
  BY DEF PublishEnd, IInv, PhaseInv
<1>2. IsTree(arch)' /\ IsTree(dst)' /\ IsTree(dst0)' /\ IsTree(stg)'
  BY <1>1 DEF IInv, TypeOK, IsTree
<1>3. TypeOK'
  BY <1>1, <1>2 DEF IInv, TypeOK, LateLocs
<1>4. PhaseInv' /\ OnlyArchive' /\ UserDataKept' /\ CreatedInv'
  BY <1>1 DEF IInv, PhaseInv, OnlyArchive, UserDataKept, CreatedInv, EarlyLocs, LateLocs
<1>5. ~misread => \A p \in Paths : stg[p] = "none"
  BY <1>1, PathFacts DEF TodoInv
<1>6. ~misread => Complete'
  BY <1>1, <1>5 DEF PlacedInv, Placed, Complete
<1> QED BY <1>1, <1>3, <1>4, <1>6 DEF IInv

-------------------------------------------------------------------------------
(* The rollback, newest first.                                             *)

(* What unlink() and rmdir() leave: the path is gone, unless it is a       *)
(* directory that something stands in.                                     *)
LEMMA RemovedFacts ==
  ASSUME TypeOK, NEW e \in Record
  PROVE  /\ Removed(e) \in [Paths -> Content]
         /\ \A q \in Paths : q # e.path => Removed(e)[q] = dst[q]
         /\ \/ Removed(e)[e.path] = "none" /\ (e.dir => Entries(dst, e.path) = {})
            \/ Removed(e) = dst /\ e.dir /\ Entries(dst, e.path) # {}
<1>1. e.path \in Paths /\ dst \in [Paths -> Content] /\ "none" \in Content
  BY DEF TypeOK, IsTree, Record, Content
<1>2. CASE e.dir /\ Entries(dst, e.path) # {}
  BY <1>1, <1>2 DEF Removed
<1>3. CASE ~(e.dir /\ Entries(dst, e.path) # {})
  <2>1. Removed(e) = [dst EXCEPT ![e.path] = "none"]
    BY <1>3 DEF Removed
  <2> QED BY <1>1, <1>3, <2>1
<1> QED BY <1>2, <1>3

(* Taking the last element off.                                            *)
LEMMA FrontFacts ==
  ASSUME NEW S, NEW s \in Seq(S), s # <<>>
  PROVE  LET t == SubSeq(s, 1, Len(s) - 1)
         IN /\ t \in Seq(S) /\ Len(t) = Len(s) - 1 /\ Len(s) \in Nat \ {0}
            /\ \A i \in 1 .. Len(t) : t[i] = s[i]
<1>1. Len(s) \in Nat \ {0}
  OBVIOUS
<1>2. \A i \in 1 .. Len(s) - 1 : s[i] \in S
  BY <1>1, ElementOfSeq
<1> DEFINE n == Len(s) - 1
           t == SubSeq(s, 1, n)
<1>3. n \in Nat /\ \A i \in 1 .. n : s[i] \in S
  BY <1>1, <1>2
<1> HIDE DEF n
<1>4. /\ t \in Seq(S) /\ Len(t) = n
      /\ \A i \in 1 .. n : t[i] = s[i]
  BY <1>3, SubSeqProperties
<1> QED BY <1>1, <1>4 DEF n

LEMMA RollbackStep ==
  ASSUME IInv, Rollback
  PROVE  IInv'
<1> USE DEF setup, where, faults
<1>1. /\ pc = "rollback" /\ source /\ ResidueInv
      /\ oom <=> status = "none"
      /\ status \notin {"ok", "canceled"}
      /\ UNCHANGED <<setup, where, stg, stgExists, stale, source, cur, todo, faults>>
  BY DEF Rollback, IInv, PhaseInv
<1>2. IsTree(arch) /\ IsTree(dst) /\ IsTree(dst0) /\ IsTree(stg) /\ TypeOK
  BY DEF IInv, TypeOK
<1>3. IsTree(arch)' /\ IsTree(dst0)' /\ IsTree(stg)'
  BY <1>1, <1>2 DEF IsTree
<1>4. CASE created = <<>>
  <2>1. /\ pc' = "cleanup" /\ status' = (IF status = "none" THEN "ok" ELSE status)
        /\ UNCHANGED <<dst, created>>
    BY <1>4 DEF Rollback
  <2>2. IsTree(dst)'
    BY <1>2, <2>1 DEF IsTree
  <2>3. TypeOK'
    BY <1>1, <1>3, <2>1, <2>2 DEF IInv, TypeOK, LateLocs
  <2>4. PhaseInv' /\ OnlyArchive' /\ UserDataKept' /\ CreatedInv'
    BY <1>1, <1>4, <2>1
    DEF IInv, TypeOK, PhaseInv, OnlyArchive, UserDataKept, CreatedInv, EarlyLocs, LateLocs
  <2>5. ResidueInv'
    BY <1>1, <2>1 DEF ResidueInv, Recorded, InNewDir, TopOf, Entries
  <2>6. status' = "ok" => oom'
    BY <1>1, <2>1
  <2> QED BY <2>1, <2>3, <2>4, <2>5, <2>6 DEF IInv
<1>5. CASE created # <<>>
  <2> DEFINE e == created[Len(created)]
             p == e.path
  <2>1. /\ dst' = Removed(e) /\ created' = SubSeq(created, 1, Len(created) - 1)
        /\ UNCHANGED <<pc, status>>
    BY <1>5 DEF Rollback
  <2>2. created \in Seq(Record)
    BY DEF IInv, TypeOK, Record
  <2>3. /\ created' \in Seq(Record) /\ Len(created) \in Nat \ {0}
        /\ Len(created') = Len(created) - 1
        /\ \A i \in 1 .. Len(created') : created'[i] = created[i]
    BY <1>5, <2>1, <2>2, FrontFacts
  <2>4. e \in Record /\ p \in Paths /\ e.dir \in BOOLEAN
    <3>1. Len(created) \in 1 .. Len(created)
      BY <2>3
    <3>2. e \in Record
      BY <2>2, <3>1, ElementOfSeq
    <3> QED BY <3>2 DEF Record
  <2>5. /\ arch[p] # "none" /\ (e.dir <=> arch[p] = "dir")
        /\ (~e.dir => dst[p] # "dir") /\ (policy # "overwrite" => dst0[p] = "none")
    BY <2>3 DEF IInv, CreatedInv
  <2> HIDE DEF e
  <2>6. /\ dst' \in [Paths -> Content]
        /\ \A q \in Paths : q # p => dst'[q] = dst[q]
        /\ \/ dst'[p] = "none" /\ (e.dir => Entries(dst, p) = {})
           \/ dst' = dst /\ e.dir /\ Entries(dst, p) # {}
    BY <1>2, <2>1, <2>4, RemovedFacts
  <2>7. dst'[p] = "none" => \A q \in Paths : Parent(q) = p => dst[q] = "none"
    <3>1. p # Root
      BY <2>4, PathFacts
    <3>2. dst[p] # "dir" => \A q \in Paths : Parent(q) = p => dst[q] = "none"
      BY <1>2, <3>1 DEF IsTree
    <3>3. CASE dst' = dst
      BY <3>2, <3>3
    <3>4. CASE e.dir => Entries(dst, p) = {}
      BY <2>5, <3>2, <3>4 DEF Entries
    <3> QED BY <2>6, <3>3, <3>4
  <2>8. IsTree(dst)'
    BY <1>2, <2>4, <2>6, <2>7, PathFacts DEF IsTree
  <2>9. TypeOK'
    BY <1>1, <1>3, <2>1, <2>3, <2>8 DEF IInv, TypeOK, Record
  <2>10. PhaseInv'
    BY <1>1, <2>1 DEF IInv, PhaseInv, EarlyLocs, LateLocs
  <2>11. OnlyArchive' /\ UserDataKept'
    BY <1>1, <2>4, <2>5, <2>6 DEF IInv, OnlyArchive, UserDataKept
  <2>12. CreatedInv'
    <3>1. \A i \in 1 .. Len(created') : created[i].path \in Paths /\ i \in 1 .. Len(created)
      BY <1>2, <2>3, CreatedPaths
    <3>2. \A q \in Paths : dst[q] # "dir" => dst'[q] # "dir"
      BY <2>4, <2>6
    <3> QED BY <1>1, <2>3, <3>1, <3>2 DEF IInv, CreatedInv
  <2>13. ResidueInv'
    <3> SUFFICES ASSUME policy # "overwrite", ~oom, NEW q \in Paths, dst'[q] # dst0[q]
                 PROVE  Recorded(q)' \/ InNewDir(q)'
      BY <1>1 DEF ResidueInv
    <3>1. InNewDir(q)' <=> InNewDir(q)
      BY <1>1 DEF InNewDir, TopOf, Entries
    <3>2. CASE q # p
      <4>1. Recorded(q) \/ InNewDir(q)
        BY <1>1, <2>6, <3>2 DEF ResidueInv
      <4>2. Recorded(q) => Recorded(q)'
        BY <2>3, <3>2 DEF Recorded, e
      <4> QED BY <3>1, <4>1, <4>2
    <3>3. CASE q = p
      <4>1. dst' = dst /\ e.dir /\ Entries(dst, p) # {} /\ dst0[p] = "none"
        BY <2>5, <2>6, <3>3
      <4>2. PICK k \in Paths : Parent(k) = p /\ dst[k] # "none"
        BY <4>1 DEF Entries
      <4>3. p # Root
        BY <2>4, PathFacts
      <4>4. dst0[k] = "none"
        BY <1>2, <4>1, <4>2, <4>3 DEF IsTree
      <4>5. arch[k] # "none"
        BY <4>2, <4>4 DEF IInv, OnlyArchive
      <4>6. Parent(p) = Root
        BY <4>2, <4>3, PathFacts
      <4>7. k \in Entries(arch, p) /\ arch[p] = "dir"
        BY <2>5, <4>1, <4>2, <4>5 DEF Entries
      <4> QED BY <3>1, <3>3, <4>1, <4>6, <4>7 DEF InNewDir, TopOf
    <3> QED BY <3>2, <3>3
  <2> QED BY <1>1, <2>1, <2>9, <2>10, <2>11, <2>12, <2>13 DEF IInv
<1> QED BY <1>4, <1>5

-------------------------------------------------------------------------------
(* The theorems.                                                           *)

LEMMA NextIInv == IInv /\ [Next]_vars => IInv'
<1> SUFFICES ASSUME IInv, [Next]_vars PROVE IInv'
  OBVIOUS
<1>1. CASE Scan \/ MakeStaging \/ Extract \/ Cleanup \/ Return \/ Crash \/ UNCHANGED vars
  BY <1>1, QuietStep
<1>2. CASE PublishWhole \/ PublishBegin
  BY <1>2, PublishWholeStep, PublishBeginStep
<1>3. ASSUME NEW p \in Paths, PublishEntry(p)
      PROVE  IInv'
  <2>1. CASE PublishNew(p)
    <3>1. PICK d \in BOOLEAN : d = (stg[p] = "dir")
      OBVIOUS
    <3>2. Remember(p, d)
      BY <2>1, <3>1, Zenon DEF PublishNew
    <3> QED BY <2>1, <3>1, <3>2, MoveStep DEF PublishNew
  <2>2. CASE PublishReplace(p)
    BY <2>2, MoveStep DEF PublishReplace
  <2>3. CASE PublishConflict(p)
    BY <2>3, StopStep
  <2> QED BY <1>3, <2>1, <2>2, <2>3, MergeStep, DropStep DEF PublishEntry
<1>4. CASE PublishLeave \/ PublishError \/ PublishEnd
  BY <1>4, LeaveStep, StopStep, EndStep
<1>5. CASE Rollback \/ RunAgain
  BY <1>5, RollbackStep, RunAgainStep
<1> QED BY <1>1, <1>2, <1>3, <1>4, <1>5 DEF Next

(* The inductive invariant holds for every archive and destination,        *)
(* whichever step fails, and across crashes.                               *)
THEOREM ExtractInvariance == Spec => []IInv
<1> QED BY InitIInv, NextIInv, PTL DEF Spec

(* Every variable keeps its type; in particular the staging tree and the   *)
(* destination are trees in every state: no entry hangs below a name that  *)
(* was removed or is a file.                                               *)
THEOREM ExtractTypeCorrect == Spec => []TypeOK
<1>1. IInv => TypeOK
  BY DEF IInv
<1> QED BY ExtractInvariance, <1>1, PTL

(* Errors, cancels, rollbacks and crashes included, nothing of the user's  *)
(* is replaced or removed unless the policy is OVERWRITE.                  *)
THEOREM KeepsUserData == Spec => []UserDataKept
<1>1. IInv => UserDataKept
  BY DEF IInv
<1> QED BY ExtractInvariance, <1>1, PTL

(* An extraction that reports success has published the whole archive,     *)
(* provided that no allocation of remember_published() and no readdir() of *)
(* publish_dir() failed.  After the first the code rolls back and returns  *)
(* ZIPX_OK with nothing published; after the second the names that were    *)
(* not listed are removed with the staging tree.                           *)
THEOREM SuccessMeansComplete == Spec => []SuccessIsComplete
<1>1. IInv => SuccessIsComplete
  BY DEF IInv, SuccessIsComplete
<1> QED BY ExtractInvariance, <1>1, PTL

(* The archive is only removed by a task that owns it; and, with the two   *)
(* provisions of SuccessMeansComplete, only after everything in it was     *)
(* published.  Without them it is not: SourceGoneOnSuccess is refuted.     *)
THEOREM KeepsSource == Spec => []SourceKept
<1>1. IInv => SourceKept
  BY DEF IInv, PhaseInv, SourceKept
<1> QED BY ExtractInvariance, <1>1, PTL

(* A failed extraction leaves at most what is inside a directory that was  *)
(* renamed whole.                                                          *)
THEOREM RollbackResidue == Spec => []ResidueOnlyInNewDirs
<1>1. IInv => ResidueOnlyInNewDirs
  <2> SUFFICES ASSUME IInv, Settled, status \notin {"ok", "none"}, policy # "overwrite"
               PROVE  /\ ~stgExists
                      /\ \A p \in Paths : dst[p] # dst0[p] =>
                           LET top == SubSeq(p, 1, 1)
                           IN dst0[top] = "none" /\ arch[top] = "dir" /\ Entries(arch, top) # {}
    BY DEF ResidueOnlyInNewDirs
  <2>1. ResidueInv /\ created = <<>> /\ ~oom /\ ~stgExists
    BY DEF Settled, IInv, PhaseInv, LateLocs
  <2>2. \A p \in Paths : ~Recorded(p)
    BY <2>1 DEF Recorded
  <2>3. \A p \in Paths : SubSeq(p, 1, 1) = TopOf(p)
    BY PathFacts
  <2> QED BY <2>1, <2>2, <2>3 DEF ResidueInv, InNewDir
<1> QED BY ExtractInvariance, <1>1, PTL

===============================================================================
