----------------------------- MODULE ArchiveProofs ----------------------------
(***************************************************************************)
(* Proofs about archives, for every archive: that the two passes over a    *)
(* RAR set agree (RarPassesAgree of ArchiveScan), that what a scan accepts *)
(* is a tree (AcceptedIsTree) for every limit and name table, and that a   *)
(* 7z extraction that succeeds gave each entry its own bytes (SolidSlices  *)
(* of SolidFolder).                                                        *)
(*                                                                         *)
(* Both passes count the entries that are not a later segment of a file    *)
(* behind the one they look at (Counted).  The scan counts an entry only   *)
(* after it was taken, so that a protected later segment does not slip in: *)
(* it is refused for its password first (RarRefusals).                     *)
(*                                                                         *)
(* The table of names is sound when every hash is found in the slot that   *)
(* holds it (Settled) and a slot is free.  A sound table answers by what   *)
(* is stored in it, wherever that lies (GetSays); storing a name moves no  *)
(* other one out of its probe sequence (PutSettles), and a table that      *)
(* grows stores what it stored (GrownSame).  With that a lookup says what  *)
(* the accepted entries say, and an entry that would break the tree is     *)
(* found on the line of a name that is there already, or has one on its    *)
(* own (TakingKeepsTree).                                                  *)
(*                                                                         *)
(* A 7z folder's sink is even with the decoder or ahead of it, and ahead   *)
(* only once the chain began again behind a parallel decoder that had      *)
(* given bytes (StreamInv).  While it is even, a byte lies where the       *)
(* decoder gave it for (BytesInv); once it is ahead it stays ahead, the    *)
(* plan is not used up exactly at the end, and the folder is refused.      *)
(***************************************************************************)
EXTENDS ArchiveScan, SolidFolder, FiniteSetTheorems, WellFoundedInduction, TLAPS

-------------------------------------------------------------------------------
(* Induction over an interval, as a fact about sets.                       *)

LEMMA LeastOf ==
  ASSUME NEW S \in SUBSET Nat, S # {}
  PROVE  /\ Min(S) \in S /\ \A x \in S : Min(S) <= x
         /\ \A m \in S : (\A x \in S : m <= x) => Min(S) = m
<1> DEFINE R == OpToRel(<, Nat)
<1>1. IsWellFoundedOn(R, Nat)
  BY NatLessThanWellFounded
<1>2. \A x, y \in Nat : <<y, x>> \in R <=> y < x
  BY DEF OpToRel
<1> HIDE DEF R
<1>3. \E x \in S : \A y \in S : ~(<<y, x>> \in R)
  BY <1>1, WFMin
<1>4. PICK x \in S : \A y \in S : ~(<<y, x>> \in R)
  BY <1>3
<1>5. \A y \in S : x <= y
  <2> SUFFICES ASSUME NEW y \in S PROVE x <= y
    OBVIOUS
  <2>1. x \in Nat /\ y \in Nat /\ ~(y < x)
    BY <1>2, <1>4
  <2> QED  BY <2>1
<1>6. Min(S) \in S /\ \A y \in S : Min(S) <= y
  BY <1>5, Zenon DEF Min
<1>7. ASSUME NEW m \in S, \A y \in S : m <= y PROVE Min(S) = m
  <2>1. Min(S) \in Nat /\ m \in Nat /\ Min(S) <= m /\ m <= Min(S)
    BY <1>6, <1>7
  <2> QED  BY <2>1
<1> QED  BY <1>6, <1>7

LEMMA Upwards ==
  ASSUME NEW n \in Nat, NEW P, 0 \in P, \A i \in 0 .. n - 1 : i \in P => i + 1 \in P
  PROVE  \A i \in 0 .. n : i \in P
<1> DEFINE S == { i \in 0 .. n : i \notin P }
<1> SUFFICES ASSUME S # {} PROVE FALSE
  OBVIOUS
<1>1. Min(S) \in S /\ \A x \in S : Min(S) <= x
  BY LeastOf
<1> DEFINE m == Min(S)
<1>2. m \in 1 .. n /\ m \notin P
  BY <1>1
<1> HIDE DEF m
<1>3. m - 1 \in 0 .. n - 1 /\ (m - 1) + 1 = m
  BY <1>2
<1>4. m - 1 \notin P
  BY <1>2, <1>3
<1>5. m - 1 \in S
  BY <1>3, <1>4
<1> QED  BY <1>1, <1>2, <1>5 DEF m

-------------------------------------------------------------------------------
(* What the first check that fails says.                                   *)

LEMMA FirstFailure ==
  ASSUME NEW n \in 1 .. 9, NEW checks, DOMAIN checks = 1 .. n,
         NEW Said, \A i \in 1 .. n : checks[i][1] => checks[i][2] \in Said
  PROVE  /\ FirstOf(checks) \in Said \cup {"ok"}
         /\ FirstOf(checks) = "ok" /\ "ok" \notin Said => \A i \in 1 .. n : ~checks[i][1]
<1> DEFINE failed == { i \in DOMAIN checks : checks[i][1] }
<1>1. failed \in SUBSET Nat
  OBVIOUS
<1>2. CASE failed = {}
  BY <1>2 DEF FirstOf
<1>3. CASE failed # {}
  <2>1. Min(failed) \in failed
    BY <1>1, <1>3, LeastOf
  <2>2. FirstOf(checks) = checks[Min(failed)][2]
    BY <1>3 DEF FirstOf
  <2> QED  BY <2>1, <2>2
<1> QED  BY <1>2, <1>3

\* What a scan says of an entry it does not take.
Refusals == {"UNSAFE_NAME", "LIMIT_NAME", "LIMIT_DEPTH", "PASSWORD", "SPECIAL", "DUPLICATE",
             "LIMIT_FILE", "LIMIT_RATIO", "LIMIT_TOTAL", "LIMIT_ENTRIES"}

LEMMA NameRefusals ==
  ASSUME NEW name, NEW segs
  PROVE  PathStatus(name, segs) \in Refusals \cup {"ok"}
<1>1. \A s : SegmentStatus(s) \in {"UNSAFE_NAME", "LIMIT_NAME", "ok"}
  BY DEF SegmentStatus
<1> DEFINE bad == { i \in DOMAIN segs : SegmentStatus(segs[i]) # "ok" }
           s == SegmentStatus(segs[Min(bad)])
<1>2. s \in {"UNSAFE_NAME", "LIMIT_NAME", "ok"}
  BY <1>1
<1>3. PathStatus(name, segs) =
        CASE name[1] \in {"", "c:"} -> "UNSAFE_NAME"
          [] name[1] \notin {"", "c:"} /\ bad # {} -> s
          [] OTHER -> IF Len(segs) > MaxDepth THEN "LIMIT_DEPTH" ELSE "ok"
  BY DEF PathStatus
<1> HIDE DEF s, bad
<1> QED  BY <1>2, <1>3 DEF Refusals

LEMMA ZipRefusals ==
  ASSUME NEW e
  PROVE  /\ ZipRefusal(e) \in Refusals \cup {"ok"}
         /\ ZipRefusal(e) = "ok" =>
              ZipNameStatus(e.name) = "ok" /\ ~Clashes(names, e.name, ZipIsDir(e))
<1> DEFINE name == ZipNameStatus(e.name)
<1>1. name \in Refusals \cup {"ok"}
  BY NameRefusals DEF ZipNameStatus
<1> DEFINE checks ==
  <<
    <<name # "ok", name>>,
    <<e.enc /\ ~input.password, "PASSWORD">>,
    <<e.kind = "symlink", "SPECIAL">>,
    <<~ZipIsDir(e) /\ e.kind = "special", "SPECIAL">>,
    <<Clashes(names, e.name, ZipIsDir(e)), "DUPLICATE">>,
    <<~ZipIsDir(e) /\ e.size > MaxFile, "LIMIT_FILE">>,
    <<~ZipIsDir(e) /\ e.packed > 0 /\ e.size >= RatioMin
        /\ e.size > e.packed * MaxRatio, "LIMIT_RATIO">>,
    <<~ZipIsDir(e) /\ AboveTotal(e.size), "LIMIT_TOTAL">>,
    <<entriesTotal + 1 > MaxEntries, "LIMIT_ENTRIES">> >>
<1>2. ZipRefusal(e) = FirstOf(checks)
  BY DEF ZipRefusal
<1> HIDE DEF name
<1>3. DOMAIN checks = 1 .. 9
  OBVIOUS
<1>4. \A i \in 1 .. 9 : checks[i][1] => checks[i][2] \in Refusals
  <2>1. checks[1][1] => checks[1][2] \in Refusals
    BY <1>1 DEF Refusals
  <2>2. checks[2][1] => checks[2][2] \in Refusals
    BY <1>1 DEF Refusals
  <2>3. checks[3][1] => checks[3][2] \in Refusals
    BY <1>1 DEF Refusals
  <2>4. checks[4][1] => checks[4][2] \in Refusals
    BY <1>1 DEF Refusals
  <2>5. checks[5][1] => checks[5][2] \in Refusals
    BY <1>1 DEF Refusals
  <2>6. checks[6][1] => checks[6][2] \in Refusals
    BY <1>1 DEF Refusals
  <2>7. checks[7][1] => checks[7][2] \in Refusals
    BY <1>1 DEF Refusals
  <2>8. checks[8][1] => checks[8][2] \in Refusals
    BY <1>1 DEF Refusals
  <2>9. checks[9][1] => checks[9][2] \in Refusals
    BY <1>1 DEF Refusals
  <2> HIDE DEF checks
  <2> QED  BY <2>1, <2>2, <2>3, <2>4, <2>5, <2>6, <2>7, <2>8, <2>9
<1>5. /\ checks[1][1] <=> name # "ok"
      /\ checks[5][1] <=> Clashes(names, e.name, ZipIsDir(e))
  OBVIOUS
<1> HIDE DEF checks
<1>6. "ok" \notin Refusals
  BY DEF Refusals
<1>7. FirstOf(checks) = "ok" => \A i \in 1 .. 9 : ~checks[i][1]
  BY <1>3, <1>4, <1>6, FirstFailure
<1> QED  BY <1>2, <1>3, <1>4, <1>5, <1>6, <1>7, FirstFailure DEF name

LEMMA SzRefusals ==
  ASSUME NEW e
  PROVE  /\ SzRefusal(e) \in Refusals \cup {"ok"}
         /\ SzRefusal(e) = "ok" =>
              SzNameStatus(e.name) = "ok" /\ ~Clashes(names, e.name, SzIsDir(e))
<1> DEFINE name == SzNameStatus(e.name)
<1>1. name \in Refusals \cup {"ok"}
  BY NameRefusals DEF SzNameStatus
<1> DEFINE checks ==
  <<
    <<name # "ok", name>>,
    <<e.kind \in {"symlink", "special"}, "SPECIAL">>,
    <<Clashes(names, e.name, SzIsDir(e)), "DUPLICATE">>,
    <<~SzIsDir(e) /\ e.size > MaxFile, "LIMIT_FILE">>,
    <<~SzIsDir(e) /\ e.size > 0 /\ AboveTotal(e.size), "LIMIT_TOTAL">>,
    <<entriesTotal + 1 > MaxEntries, "LIMIT_ENTRIES">> >>
<1>2. SzRefusal(e) = FirstOf(checks)
  BY DEF SzRefusal
<1> HIDE DEF name
<1>3. DOMAIN checks = 1 .. 6
  OBVIOUS
<1>4. \A i \in 1 .. 6 : checks[i][1] => checks[i][2] \in Refusals
  <2>1. checks[1][1] => checks[1][2] \in Refusals
    BY <1>1 DEF Refusals
  <2>2. checks[2][1] => checks[2][2] \in Refusals
    BY <1>1 DEF Refusals
  <2>3. checks[3][1] => checks[3][2] \in Refusals
    BY <1>1 DEF Refusals
  <2>4. checks[4][1] => checks[4][2] \in Refusals
    BY <1>1 DEF Refusals
  <2>5. checks[5][1] => checks[5][2] \in Refusals
    BY <1>1 DEF Refusals
  <2>6. checks[6][1] => checks[6][2] \in Refusals
    BY <1>1 DEF Refusals
  <2> HIDE DEF checks
  <2> QED  BY <2>1, <2>2, <2>3, <2>4, <2>5, <2>6
<1>5. /\ checks[1][1] <=> name # "ok"
      /\ checks[3][1] <=> Clashes(names, e.name, SzIsDir(e))
  OBVIOUS
<1> HIDE DEF checks
<1>6. "ok" \notin Refusals
  BY DEF Refusals
<1>7. FirstOf(checks) = "ok" => \A i \in 1 .. 6 : ~checks[i][1]
  BY <1>3, <1>4, <1>6, FirstFailure
<1> QED  BY <1>2, <1>3, <1>4, <1>5, <1>6, <1>7, FirstFailure DEF name

\* A RAR entry is taken only with the password it needs.
LEMMA RarRefusals ==
  ASSUME NEW e
  PROVE  /\ RarRefusal(e) \in Refusals \cup {"ok"}
         /\ RarRefusal(e) = "ok" =>
              /\ ~(e.enc /\ ~input.password)
              /\ RarNameStatus(e.name) = "ok" /\ ~Clashes(names, e.name, RarIsDir(e))
<1> DEFINE name == RarNameStatus(e.name)
<1>1. name \in Refusals \cup {"ok"}
  BY NameRefusals DEF RarNameStatus
<1> DEFINE checks ==
  <<
    <<e.enc /\ ~input.password, "PASSWORD">>,
    <<name # "ok", name>>,
    <<Clashes(names, e.name, RarIsDir(e)), "DUPLICATE">>,
    <<~RarIsDir(e) /\ e.size > MaxFile, "LIMIT_FILE">>,
    <<~RarIsDir(e) /\ AboveTotal(e.size), "LIMIT_TOTAL">>,
    <<entriesTotal + 1 > MaxEntries, "LIMIT_ENTRIES">> >>
<1>2. RarRefusal(e) = FirstOf(checks)
  BY DEF RarRefusal
<1> HIDE DEF name
<1>3. DOMAIN checks = 1 .. 6
  OBVIOUS
<1>4. \A i \in 1 .. 6 : checks[i][1] => checks[i][2] \in Refusals
  <2>1. checks[1][1] => checks[1][2] \in Refusals
    BY <1>1 DEF Refusals
  <2>2. checks[2][1] => checks[2][2] \in Refusals
    BY <1>1 DEF Refusals
  <2>3. checks[3][1] => checks[3][2] \in Refusals
    BY <1>1 DEF Refusals
  <2>4. checks[4][1] => checks[4][2] \in Refusals
    BY <1>1 DEF Refusals
  <2>5. checks[5][1] => checks[5][2] \in Refusals
    BY <1>1 DEF Refusals
  <2>6. checks[6][1] => checks[6][2] \in Refusals
    BY <1>1 DEF Refusals
  <2> HIDE DEF checks
  <2> QED  BY <2>1, <2>2, <2>3, <2>4, <2>5, <2>6
<1>5. /\ checks[1][1] <=> (e.enc /\ ~input.password)
      /\ checks[2][1] <=> name # "ok"
      /\ checks[3][1] <=> Clashes(names, e.name, RarIsDir(e))
  OBVIOUS
<1> HIDE DEF checks
<1>6. "ok" \notin Refusals
  BY DEF Refusals
<1>7. FirstOf(checks) = "ok" => \A i \in 1 .. 6 : ~checks[i][1]
  BY <1>3, <1>4, <1>6, FirstFailure
<1> QED  BY <1>2, <1>3, <1>4, <1>5, <1>6, <1>7, FirstFailure DEF name

-------------------------------------------------------------------------------
(* The two passes count the entries that are not later segments.           *)

Counted(k) == { i \in 1 .. k : ~input.entries[i].split }
EntryCount == Len(input.entries)

\* Each pass has counted what is behind it.
PassInv ==
  /\ input \in ScanInputs /\ at \in 1 .. EntryCount + 1
  /\ {entriesTotal, done, made.files, made.dirs} \subseteq Nat
  /\ made = [files |-> made.files, dirs |-> made.dirs]
  /\ scan \in {"extract", "ok"} => input.engine = "rar"
  /\ scan = "scan" /\ input.engine = "rar" => entriesTotal = Cardinality(Counted(at - 1))
  /\ scan \in {"between", "extract", "ok"} /\ input.engine = "rar" =>
       entriesTotal = Cardinality(Counted(EntryCount))
  /\ scan \in {"scan", "between"} => done = 0 /\ made.files = 0 /\ made.dirs = 0
  /\ scan \in {"extract", "ok"} => made.files + made.dirs = done
  /\ scan = "extract" => done = Cardinality(Counted(at - 1))
  /\ scan = "ok" => done = Cardinality(Counted(EntryCount))

LEMMA CountNext ==
  ASSUME NEW k \in Nat
  PROVE  /\ Cardinality(Counted(k)) \in Nat
         /\ Cardinality(Counted(k + 1)) =
              IF input.entries[k + 1].split THEN Cardinality(Counted(k))
              ELSE Cardinality(Counted(k)) + 1
<1>1. IsFiniteSet(1 .. k) /\ Counted(k) \in SUBSET (1 .. k)
  BY FS_Interval DEF Counted
<1>2. IsFiniteSet(Counted(k)) /\ Cardinality(Counted(k)) \in Nat /\ k + 1 \notin Counted(k)
  BY <1>1, FS_Subset, FS_CardinalityType DEF Counted
<1>3. CASE input.entries[k + 1].split
  <2>1. Counted(k + 1) = Counted(k)
    BY <1>3 DEF Counted
  <2> QED  BY <1>2, <1>3, <2>1
<1>4. CASE ~input.entries[k + 1].split
  <2>1. Counted(k + 1) = Counted(k) \cup {k + 1}
    BY <1>4 DEF Counted
  <2> QED  BY <1>2, <1>4, <2>1, FS_AddElement
<1> QED  BY <1>2, <1>3, <1>4

LEMMA CountNone == Cardinality(Counted(0)) = 0
<1>1. Counted(0) = {}
  BY DEF Counted
<1> QED  BY <1>1, FS_EmptySet

LEMMA PassInit == ScanInit => PassInv
<1> SUFFICES ASSUME ScanInit PROVE PassInv
  OBVIOUS
<1>1. EntryCount \in Nat
  BY EntriesAssumption DEF ScanInit, EntryCount
<1> QED  BY <1>1, CountNone DEF ScanInit, PassInv

\* A scan that ends with a refusal, or goes on without a later segment.
LEMMA TakeKeeps ==
  ASSUME PassInv, scan = "scan", at <= EntryCount, NEW refusal \in Refusals \cup {"ok"}, NEW isDir,
         refusal = "ok" /\ input.engine = "rar" => ~Entry.split,
         TakeEntry(refusal, isDir)
  PROVE  PassInv'
<1>1. /\ UNCHANGED <<input, done, made>> /\ EntryCount' = EntryCount /\ EntryCount \in Nat
      /\ \A k : Counted(k)' = Counted(k)
  BY EntriesAssumption DEF TakeEntry, EntryCount, Counted, PassInv
<1>2. CASE refusal = "ok"
  <2>1. /\ entriesTotal' = entriesTotal + 1 /\ at' = at + 1 /\ scan' \in {"scan", "CANCELED"}
    BY <1>2 DEF TakeEntry
  <2>2. input.engine = "rar" => entriesTotal' = Cardinality(Counted(at' - 1))
    <3>1. at \in Nat /\ at - 1 \in Nat /\ (at - 1) + 1 = at /\ at' - 1 = at
      BY <1>1, <2>1 DEF PassInv
    <3>2. input.engine = "rar" => Cardinality(Counted(at)) = Cardinality(Counted(at - 1)) + 1
      BY <1>2, <3>1, CountNext DEF Entry
    <3> QED  BY <2>1, <3>1, <3>2 DEF PassInv
  <2> QED  BY <1>1, <2>1, <2>2 DEF PassInv
<1>3. CASE refusal # "ok"
  <2>1. scan' \in Refusals /\ UNCHANGED <<entriesTotal, at>>
    BY <1>3 DEF TakeEntry
  <2> QED  BY <1>1, <2>1 DEF PassInv, Refusals
<1> QED  BY <1>2, <1>3

LEMMA PassStep == PassInv /\ [ScanNext]_scanVars => PassInv'
<1> SUFFICES ASSUME PassInv, [ScanNext]_scanVars PROVE PassInv'
  OBVIOUS
<1>1. EntryCount \in Nat /\ at \in Nat \ {0}
  BY EntriesAssumption DEF EntryCount, PassInv
<1>2. ScanNext \/ UNCHANGED scanVars => UNCHANGED input
  BY DEF ScanNext, scanVars, ScanZipEntry, ScanSzEntry, ScanRarEntry, TakeEntry, ScanFails,
         ScanEnds, ReopenRar, ExtractRarEntry, ExtractRarEnds
<1>3. EntryCount' = EntryCount /\ \A k : Counted(k)' = Counted(k)
  BY <1>2 DEF EntryCount, Counted
<1>4. CASE UNCHANGED scanVars
  BY <1>3, <1>4 DEF PassInv, scanVars
<1>5. CASE ScanZipEntry
  BY <1>5, ZipRefusals, TakeKeeps DEF ScanZipEntry, Scanning, EntryCount
<1>6. CASE ScanSzEntry
  BY <1>6, SzRefusals, TakeKeeps DEF ScanSzEntry, Scanning, EntryCount
<1>7. CASE ScanRarEntry
  <2>1. scan = "scan" /\ input.engine = "rar" /\ at <= EntryCount
    BY <1>7 DEF ScanRarEntry, Scanning, EntryCount
  <2>2. CASE Entry.split /\ (~Entry.enc \/ input.password)
    <3>1. at' = at + 1 /\ UNCHANGED <<input, entriesTotal, scan, done, made>>
      BY <1>7, <2>2 DEF ScanRarEntry
    <3>2. at - 1 \in Nat /\ (at - 1) + 1 = at /\ at' - 1 = at
      BY <1>1, <3>1
    <3>3. Cardinality(Counted(at)) = Cardinality(Counted(at - 1))
      BY <2>2, <3>2, CountNext DEF Entry
    <3> QED  BY <1>1, <1>3, <2>1, <3>1, <3>2, <3>3 DEF PassInv
  <2>3. CASE ~(Entry.split /\ (~Entry.enc \/ input.password))
    <3>1. TakeEntry(RarRefusal(Entry), RarIsDir(Entry))
      BY <1>7, <2>3 DEF ScanRarEntry
    <3>2. RarRefusal(Entry) \in Refusals \cup {"ok"} /\ (RarRefusal(Entry) = "ok" => ~Entry.split)
      BY <2>3, RarRefusals
    <3> QED  BY <2>1, <3>1, <3>2, TakeKeeps
  <2> QED  BY <2>2, <2>3
<1>8. CASE ScanFails
  BY <1>3, <1>8 DEF ScanFails, PassInv
<1>9. CASE ScanEnds
  <2>1. at - 1 = EntryCount
    BY <1>1, <1>9 DEF ScanEnds, PassInv, EntryCount
  <2> QED  BY <1>3, <1>9, <2>1 DEF ScanEnds, PassInv
<1>10. CASE ReopenRar
  BY <1>1, <1>3, <1>10, CountNone DEF ReopenRar, PassInv
<1>11. CASE ExtractRarEntry
  <2>1. scan = "extract" /\ at <= EntryCount /\ UNCHANGED <<input, entriesTotal>> /\ input.engine = "rar"
    BY <1>11 DEF ExtractRarEntry, EntryCount, PassInv
  <2>2. CASE scan' \in {"CANCELED", "IO", "CRC"} /\ UNCHANGED <<at, done, made>>
    BY <1>3, <2>1, <2>2 DEF PassInv
  <2>3. CASE at' = at + 1 /\ UNCHANGED scan
    <3>1. IF Entry.split THEN UNCHANGED <<done, made>>
          ELSE /\ done' = done + 1
               /\ made' = IF RarIsDir(Entry) THEN [made EXCEPT !.dirs = @ + 1]
                          ELSE [made EXCEPT !.files = @ + 1]
      BY <1>11, <2>1, <2>3 DEF ExtractRarEntry
    <3>2. at - 1 \in Nat /\ (at - 1) + 1 = at /\ at' - 1 = at
      BY <1>1, <2>3
    <3>3. Cardinality(Counted(at)) = IF Entry.split THEN Cardinality(Counted(at - 1))
                                     ELSE Cardinality(Counted(at - 1)) + 1
      BY <3>2, CountNext DEF Entry
    <3>4. CASE Entry.split
      BY <1>1, <1>3, <2>1, <2>3, <3>1, <3>2, <3>3, <3>4 DEF PassInv
    <3>5. CASE ~Entry.split
      <4>1. /\ done' = done + 1 /\ made'.files + made'.dirs = made.files + made.dirs + 1
            /\ {made'.files, made'.dirs} \subseteq Nat
            /\ made' = [files |-> made'.files, dirs |-> made'.dirs]
        BY <3>1, <3>5 DEF PassInv
      <4> QED  BY <1>1, <1>3, <2>1, <2>3, <3>2, <3>3, <3>5, <4>1 DEF PassInv
    <3> QED  BY <3>4, <3>5
  <2> QED  BY <1>11, <2>2, <2>3 DEF ExtractRarEntry
<1>12. CASE ExtractRarEnds
  <2>1. at - 1 = EntryCount /\ scan = "extract" /\ scan' \in {"ok", "CANCELED"}
        /\ UNCHANGED <<input, at, entriesTotal, done, made>>
    BY <1>1, <1>12 DEF ExtractRarEnds, PassInv, EntryCount
  <2> QED  BY <1>3, <2>1 DEF PassInv
<1> QED  BY <1>4, <1>5, <1>6, <1>7, <1>8, <1>9, <1>10, <1>11, <1>12 DEF ScanNext

\* The scan and the extraction of a RAR set count the same entries, and success
\* means that every one of them was written: scan_archive and extract_archive of
\* rar_extract.c.
THEOREM RarPassesAlwaysAgree == ScanSpec => []RarPassesAgree
<1>1. PassInv => RarPassesAgree
  BY DEF PassInv, RarPassesAgree
<1> QED  BY <1>1, PassInit, PassStep, PTL DEF ScanSpec

-------------------------------------------------------------------------------
(* The name table.                                                         *)

LEMMA EverySlotIsProbed ==
  ASSUME NEW c \in Nat \ {0}, NEW h \in Nat, NEW j \in 0 .. c - 1
  PROVE  \E k \in 0 .. c - 1 : (h + k) % c = j
<1> DEFINE q == h \div c
           r == h % c
<1>1. q \in Nat /\ r \in 0 .. c - 1 /\ h = (c * q) + r
  OBVIOUS
<1> HIDE DEF q, r
<1>2. \A a \in Nat, p \in Nat, s \in 0 .. c - 1 : a = (c * p) + s => a % c = s
  OBVIOUS
<1>3. CASE r <= j
  <2>1. j - r \in 0 .. c - 1 /\ h + (j - r) \in Nat /\ h + (j - r) = (c * q) + j
    BY <1>1, <1>3
  <2> QED  BY <1>1, <1>2, <2>1
<1>4. CASE j < r
  <2>1. c * (q + 1) = (c * q) + c
    BY <1>1
  <2>2. (j - r) + c \in 0 .. c - 1 /\ h + ((j - r) + c) \in Nat /\ q + 1 \in Nat
        /\ h + ((j - r) + c) = (c * (q + 1)) + j
    BY <1>1, <1>4, <2>1
  <2> QED  BY <1>2, <2>2
<1> QED  BY <1>1, <1>3, <1>4

Slots(t) == 0 .. t.cap - 1
Used(t) == { i \in Slots(t) : t.hash[i] # 0 }

IsTable(t) ==
  /\ t = [cap |-> t.cap, count |-> t.count, hash |-> t.hash, dir |-> t.dir]
  /\ t.cap \in Nat /\ t.cap >= 4
  /\ t.hash \in [Slots(t) -> Nat] /\ t.dir \in [Slots(t) -> BOOLEAN]
  /\ t.count = Cardinality(Used(t))

\* Every hash in the table is found where it is: no free slot lies before it on its
\* probe sequence.
Settled(t) == \A i \in Used(t) : SlotOf(t, t.hash[i]) = i
SoundTable(t) == IsTable(t) /\ Settled(t) /\ t.count < t.cap

\* What the table says, whatever slot it says it in.
Stored(t) == { <<t.hash[i], t.dir[i]>> : i \in Used(t) }

Stops(t, h) == { k \in Slots(t) : t.hash[(h + k) % t.cap] \in {0, h} }

LEMMA UsedSlots ==
  ASSUME NEW t, IsTable(t)
  PROVE  /\ IsFiniteSet(Used(t)) /\ t.count \in Nat /\ t.count <= t.cap
         /\ t.count < t.cap => \E i \in Slots(t) : t.hash[i] = 0
<1>1. t.cap \in Nat /\ t.cap >= 4 /\ t.count = Cardinality(Used(t))
  BY DEF IsTable
<1>2. IsFiniteSet(Slots(t)) /\ Cardinality(Slots(t)) = t.cap
  <2> DEFINE c == t.cap
  <2>1. c \in Nat /\ c >= 4
    BY <1>1
  <2> HIDE DEF c
  <2>2. IsFiniteSet(0 .. c - 1) /\ Cardinality(0 .. c - 1) = c
    BY <2>1, FS_Interval
  <2> QED  BY <2>2 DEF c, Slots
<1>3. Used(t) \in SUBSET Slots(t)
  BY DEF Used
<1>4. IsFiniteSet(Used(t)) /\ Cardinality(Used(t)) <= t.cap
  BY <1>2, <1>3, FS_Subset
<1>5. Cardinality(Used(t)) \in Nat
  BY <1>4, FS_CardinalityType
<1>6. ASSUME t.count < t.cap PROVE \E i \in Slots(t) : t.hash[i] = 0
  <2> SUFFICES ASSUME \A i \in Slots(t) : t.hash[i] # 0 PROVE FALSE
    OBVIOUS
  <2>1. Used(t) = Slots(t)
    BY DEF Used
  <2> QED  BY <1>1, <1>2, <1>6, <2>1
<1> QED  BY <1>1, <1>4, <1>5, <1>6

LEMMA SlotFound ==
  ASSUME NEW t, IsTable(t), t.count < t.cap, NEW h \in Nat \ {0}
  PROVE  /\ Stops(t, h) \in SUBSET Nat /\ Stops(t, h) # {}
         /\ Min(Stops(t, h)) \in Stops(t, h)
         /\ SlotOf(t, h) = (h + Min(Stops(t, h))) % t.cap
         /\ SlotOf(t, h) \in Slots(t) /\ t.hash[SlotOf(t, h)] \in {0, h}
<1>1. t.cap \in Nat \ {0}
  BY DEF IsTable
<1>2. PICK i \in Slots(t) : t.hash[i] = 0
  BY UsedSlots
<1>3. PICK k \in 0 .. t.cap - 1 : (h + k) % t.cap = i
  <2> DEFINE c == t.cap
  <2>1. c \in Nat \ {0} /\ i \in 0 .. c - 1 /\ h \in Nat
    BY <1>1 DEF Slots
  <2> HIDE DEF c
  <2>2. \E k \in 0 .. c - 1 : (h + k) % c = i
    BY <2>1, EverySlotIsProbed
  <2> QED  BY <2>2 DEF c
<1>4. k \in Stops(t, h)
  BY <1>2, <1>3 DEF Stops, Slots
<1>5. Stops(t, h) \in SUBSET Nat
  BY <1>1 DEF Stops, Slots
<1>6. Min(Stops(t, h)) \in Stops(t, h)
  BY <1>4, <1>5, LeastOf
<1>7. SlotOf(t, h) = (h + Min(Stops(t, h))) % t.cap
  BY DEF SlotOf, Stops, Slots
<1>8. (h + Min(Stops(t, h))) \in Nat
  BY <1>5, <1>6
<1>9. SlotOf(t, h) \in Slots(t)
  BY <1>1, <1>7, <1>8 DEF Slots
<1> QED  BY <1>4, <1>5, <1>6, <1>7, <1>9 DEF Stops

Placed(t, h, d) ==
  (Stored(t) \ { <<h, FALSE>>, <<h, TRUE>> }) \union { <<h, d>> }

LEMMA OnePlace ==
  ASSUME NEW t, Settled(t), NEW i \in Used(t), NEW j \in Used(t), t.hash[i] = t.hash[j]
  PROVE  i = j
BY DEF Settled

LEMMA PutForm ==
  ASSUME NEW t, IsTable(t), t.count < t.cap, NEW h \in Nat \ {0}, NEW d \in BOOLEAN
  PROVE  LET u == PutHash(t, h, d)
             i == SlotOf(t, h)
         IN /\ i \in Slots(t) /\ t.hash[i] \in {0, h}
            /\ u.cap = t.cap /\ Slots(u) = Slots(t)
            /\ u.hash \in [Slots(t) -> Nat] /\ u.dir \in [Slots(t) -> BOOLEAN]
            /\ u = [cap |-> u.cap, count |-> u.count, hash |-> u.hash, dir |-> u.dir]
            /\ u.hash[i] = h /\ u.dir[i] = d
            /\ \A j \in Slots(t) \ {i} : u.hash[j] = t.hash[j] /\ u.dir[j] = t.dir[j]
            /\ u.count = IF t.hash[i] = 0 THEN t.count + 1 ELSE t.count
            /\ Used(u) = Used(t) \union {i}
<1> DEFINE i == SlotOf(t, h)
           u == PutHash(t, h, d)
           hash == t.hash
           dir == t.dir
<1>1. i \in Slots(t) /\ hash[i] \in {0, h}
  BY SlotFound
<1>2. /\ hash \in [Slots(t) -> Nat] /\ dir \in [Slots(t) -> BOOLEAN]
      /\ t = [cap |-> t.cap, count |-> t.count, hash |-> hash, dir |-> dir]
  BY DEF IsTable
<1>3. u = [cap |-> t.cap, count |-> IF hash[i] = 0 THEN t.count + 1 ELSE t.count,
           hash |-> [hash EXCEPT ![i] = h], dir |-> [dir EXCEPT ![i] = d]]
  <2> DEFINE n == IF hash[i] = 0 THEN t.count + 1 ELSE t.count
  <2>1. u = [t EXCEPT !.count = n, !.hash[i] = h, !.dir[i] = d]
    BY DEF PutHash
  <2> HIDE DEF u, i, n
  <2>2. [t EXCEPT !.count = n, !.hash[i] = h, !.dir[i] = d]
          = [t EXCEPT !.count = n, !.hash = [hash EXCEPT ![i] = h], !.dir = [dir EXCEPT ![i] = d]]
    BY <1>2
  <2> HIDE DEF hash, dir
  <2>3. u = [cap |-> t.cap, count |-> n, hash |-> [hash EXCEPT ![i] = h],
             dir |-> [dir EXCEPT ![i] = d]]
    BY <1>2, <2>1, <2>2
  <2> QED  BY <2>3 DEF n
<1> HIDE DEF i, u
<1>4. /\ u.cap = t.cap /\ u.count = IF hash[i] = 0 THEN t.count + 1 ELSE t.count
      /\ u.hash = [hash EXCEPT ![i] = h] /\ u.dir = [dir EXCEPT ![i] = d]
      /\ u = [cap |-> u.cap, count |-> u.count, hash |-> u.hash, dir |-> u.dir]
  BY <1>3
<1>5. Slots(u) = Slots(t)
  BY <1>4 DEF Slots
<1> HIDE DEF hash, dir
<1>6. /\ u.hash \in [Slots(t) -> Nat] /\ u.dir \in [Slots(t) -> BOOLEAN]
      /\ u.hash[i] = h /\ u.dir[i] = d
      /\ \A j \in Slots(t) \ {i} : u.hash[j] = hash[j] /\ u.dir[j] = dir[j]
  BY <1>1, <1>2, <1>4
<1>7. Used(u) = Used(t) \union {i}
  BY <1>1, <1>5, <1>6 DEF Used, hash
<1> QED  BY <1>1, <1>4, <1>5, <1>6, <1>7 DEF i, u, hash, dir

LEMMA PutTable ==
  ASSUME NEW t, IsTable(t), t.count < t.cap, NEW h \in Nat \ {0}, NEW d \in BOOLEAN
  PROVE  /\ IsTable(PutHash(t, h, d)) /\ PutHash(t, h, d).cap = t.cap
         /\ PutHash(t, h, d).count \in {t.count, t.count + 1}
<1> DEFINE u == PutHash(t, h, d)
           i == SlotOf(t, h)
<1>1. /\ i \in Slots(t) /\ u.cap = t.cap /\ Slots(u) = Slots(t)
      /\ u.hash \in [Slots(t) -> Nat] /\ u.dir \in [Slots(t) -> BOOLEAN]
      /\ u = [cap |-> u.cap, count |-> u.count, hash |-> u.hash, dir |-> u.dir]
      /\ u.count = IF t.hash[i] = 0 THEN t.count + 1 ELSE t.count
      /\ Used(u) = Used(t) \union {i}
  BY PutForm
<1> HIDE DEF u, i
<1>2. IsFiniteSet(Used(t)) /\ t.count = Cardinality(Used(t)) /\ t.count \in Nat
      /\ t.cap \in Nat /\ t.cap >= 4
  BY UsedSlots DEF IsTable
<1>3. u.count = Cardinality(Used(u))
  <2>1. i \in Used(t) <=> t.hash[i] # 0
    BY <1>1 DEF Used
  <2>2. i \in Used(t) => Used(u) = Used(t)
    BY <1>1
  <2>3. i \notin Used(t) => Cardinality(Used(u)) = Cardinality(Used(t)) + 1
    BY <1>1, <1>2, FS_AddElement
  <2> QED  BY <1>1, <1>2, <2>1, <2>2, <2>3
<1>4. IsTable(u)
  BY <1>1, <1>2, <1>3 DEF IsTable
<1> QED  BY <1>1, <1>4 DEF u

\* What was stored stays where it is found: a slot that was free when it was stored
\* can only be taken since.
LEMMA PutSettles ==
  ASSUME NEW t, IsTable(t), Settled(t), t.count < t.cap, NEW h \in Nat \ {0}, NEW d \in BOOLEAN
  PROVE  Settled(PutHash(t, h, d)) /\ Stored(PutHash(t, h, d)) = Placed(t, h, d)
<1> DEFINE u == PutHash(t, h, d)
           s == SlotOf(t, h)
<1>1. /\ s \in Slots(t) /\ t.hash[s] \in {0, h}
      /\ u.cap = t.cap /\ Slots(u) = Slots(t)
      /\ u.hash[s] = h /\ u.dir[s] = d
      /\ \A j \in Slots(t) \ {s} : u.hash[j] = t.hash[j] /\ u.dir[j] = t.dir[j]
      /\ Used(u) = Used(t) \union {s}
  BY PutForm
<1>2. t.cap \in Nat \ {0} /\ Used(t) \in SUBSET Slots(t)
      /\ \A i \in Used(t) : t.hash[i] \in Nat \ {0}
  BY DEF IsTable, Used
<1>3. \A g : SlotOf(u, g) = (g + Min(Stops(u, g))) % t.cap
  BY <1>1 DEF SlotOf, Stops, Slots
<1>4. \A g, k : k \in Stops(u, g) <=> k \in Slots(t) /\ u.hash[(g + k) % t.cap] \in {0, g}
  BY <1>1 DEF Stops
<1>5. \A g \in Nat, k \in Slots(t) : (g + k) % t.cap \in Slots(t)
  <2> DEFINE c == t.cap
  <2>1. c \in Nat \ {0}
    BY <1>2
  <2> HIDE DEF c
  <2>2. \A g \in Nat, k \in 0 .. c - 1 : (g + k) % c \in 0 .. c - 1
    BY <2>1
  <2> QED  BY <2>2 DEF c, Slots
<1> HIDE DEF u
<1>6. SlotOf(u, h) = s
  <2>1. ASSUME NEW k \in Slots(t)
        PROVE  u.hash[(h + k) % t.cap] \in {0, h} <=> t.hash[(h + k) % t.cap] \in {0, h}
    <3> DEFINE p == (h + k) % t.cap
    <3>1. p \in Slots(t)
      BY <1>5
    <3> HIDE DEF p, s
    <3>2. u.hash[p] \in {0, h} <=> t.hash[p] \in {0, h}
      BY <1>1, <3>1
    <3> QED  BY <3>2 DEF p
  <2>2. Stops(u, h) = Stops(t, h)
    BY <1>4, <2>1 DEF Stops
  <2> QED  BY <1>3, <2>2, SlotFound
<1>7. \A i \in Used(t) : i # s => t.hash[i] # h
  BY DEF Settled
<1>8. ASSUME NEW i \in Used(t), i # s PROVE SlotOf(u, t.hash[i]) = i
  <2> DEFINE g == t.hash[i]
             m == Min(Stops(t, g))
  <2>1. g \in Nat \ {0} /\ g # h /\ SlotOf(t, g) = i
    BY <1>2, <1>7, <1>8 DEF Settled
  <2> HIDE DEF g
  <2>2. /\ Stops(t, g) \in SUBSET Nat /\ m \in Stops(t, g) /\ (g + m) % t.cap = i
    BY <2>1, SlotFound
  <2>3. \A k \in Stops(t, g) : m <= k
    BY <2>2, LeastOf
  <2> HIDE DEF m
  <2>4. m \in Stops(u, g)
    BY <1>1, <1>2, <1>4, <1>8, <2>2 DEF g, Stops
  <2>5. Stops(u, g) \subseteq Stops(t, g)
    <3> SUFFICES ASSUME NEW k \in Stops(u, g) PROVE k \in Stops(t, g)
      OBVIOUS
    <3> DEFINE p == (g + k) % t.cap
    <3>1. k \in Slots(t) /\ u.hash[p] \in {0, g}
      BY <1>4
    <3>2. p \in Slots(t)
      BY <1>5, <2>1, <3>1
    <3>3. p # s
      BY <1>1, <2>1, <3>1
    <3>4. t.hash[p] \in {0, g}
      BY <1>1, <3>1, <3>2, <3>3
    <3> QED  BY <3>1, <3>4 DEF Stops
  <2>6. Min(Stops(u, g)) = m
    BY <2>2, <2>3, <2>4, <2>5, LeastOf
  <2> QED  BY <1>3, <2>2, <2>6 DEF g
<1>9. Settled(u)
  <2>1. \A i \in Used(u) : i = s \/ (i \in Used(t) /\ i # s /\ u.hash[i] = t.hash[i])
    BY <1>1, <1>2
  <2> QED  BY <1>1, <1>6, <1>8, <2>1 DEF Settled
<1>10. Stored(u) = Placed(t, h, d)
  <2> HIDE DEF s
  <2>1. ASSUME NEW i \in Used(t), i # s
        PROVE  <<t.hash[i], t.dir[i]>> \in Placed(t, h, d)
    BY <1>7, <2>1 DEF Stored, Placed
  <2>2. Stored(u) \subseteq Placed(t, h, d)
    <3> SUFFICES ASSUME NEW i \in Used(u) PROVE <<u.hash[i], u.dir[i]>> \in Placed(t, h, d)
      BY DEF Stored
    <3>1. CASE i = s
      BY <1>1, <3>1 DEF Placed
    <3>2. CASE i # s
      BY <1>1, <1>2, <2>1, <3>2
    <3> QED  BY <3>1, <3>2
  <2>3. <<h, d>> \in Stored(u)
    BY <1>1 DEF Stored
  <2>4. ASSUME NEW i \in Used(t), <<t.hash[i], t.dir[i]>> \notin {<<h, FALSE>>, <<h, TRUE>>}
        PROVE  <<t.hash[i], t.dir[i]>> \in Stored(u)
    <3>1. t.hash[i] # h
      BY <1>2, <2>4 DEF IsTable
    <3>2. i # s
      BY <1>1, <1>2, <3>1
    <3> QED  BY <1>1, <1>2, <3>2 DEF Stored
  <2>5. Placed(t, h, d) \subseteq Stored(u)
    BY <2>3, <2>4 DEF Placed, Stored
  <2> QED  BY <2>2, <2>5
<1> QED  BY <1>9, <1>10 DEF u

LEMMA NewTableSound ==
  ASSUME NEW c \in Nat, c >= 4
  PROVE  /\ SoundTable(NewTable(c)) /\ NewTable(c).cap = c /\ NewTable(c).count = 0
         /\ Stored(NewTable(c)) = {}
<1> DEFINE t == NewTable(c)
<1>1. /\ t.cap = c /\ t.count = 0 /\ t.hash = [i \in 0 .. c - 1 |-> 0]
      /\ t.dir = [i \in 0 .. c - 1 |-> FALSE]
      /\ t = [cap |-> t.cap, count |-> t.count, hash |-> t.hash, dir |-> t.dir]
  BY DEF NewTable
<1> HIDE DEF t
<1>2. Slots(t) = 0 .. c - 1
  BY <1>1 DEF Slots
<1>3. Used(t) = {}
  BY <1>1, <1>2 DEF Used
<1>4. IsTable(t) /\ Settled(t) /\ Stored(t) = {}
  BY <1>1, <1>2, <1>3, FS_EmptySet DEF IsTable, Settled, Stored
<1> QED  BY <1>1, <1>4 DEF t, SoundTable

\* nameset_grow's loop, as far as it came.
Moves(t, n, f) ==
  f = [i \in 0 .. n |-> IF i = 0 THEN NewTable(2 * t.cap)
                        ELSE IF t.hash[i - 1] = 0 THEN f[i - 1]
                        ELSE PutHash(f[i - 1], t.hash[i - 1], t.dir[i - 1])]

LEMMA MovesExist ==
  ASSUME NEW t, NEW n \in Nat
  PROVE  \E f : Moves(t, n, f)
<1> DEFINE P == { m \in 0 .. n : \E f : Moves(t, m, f) }
<1>1. 0 \in P
  <2> DEFINE f == [i \in 0 .. 0 |-> NewTable(2 * t.cap)]
  <2>1. Moves(t, 0, f)
    BY DEF Moves
  <2> QED  BY <2>1
<1>2. ASSUME NEW m \in 0 .. n - 1, m \in P PROVE m + 1 \in P
  <2>1. PICK f : Moves(t, m, f)
    BY <1>2
  <2> DEFINE next == IF t.hash[m] = 0 THEN f[m] ELSE PutHash(f[m], t.hash[m], t.dir[m])
             g == [i \in 0 .. m + 1 |-> IF i = m + 1 THEN next ELSE f[i]]
             h == [i \in 0 .. m + 1 |->
                     IF i = 0 THEN NewTable(2 * t.cap)
                     ELSE IF t.hash[i - 1] = 0 THEN g[i - 1]
                     ELSE PutHash(g[i - 1], t.hash[i - 1], t.dir[i - 1])]
  <2>2. ASSUME NEW i \in 0 .. m + 1 PROVE g[i] = h[i]
    <3>1. CASE i = m + 1
      <4>1. i # 0 /\ i - 1 = m /\ g[m] = f[m] /\ g[i] = next
        BY <1>2, <3>1
      <4> HIDE DEF g
      <4> QED  BY <4>1
    <3>2. CASE i # m + 1
      <4>1. i \in 0 .. m
        BY <3>2
      <4>2. f[i] = IF i = 0 THEN NewTable(2 * t.cap)
                   ELSE IF t.hash[i - 1] = 0 THEN f[i - 1]
                   ELSE PutHash(f[i - 1], t.hash[i - 1], t.dir[i - 1])
        BY <2>1, <4>1, Zenon DEF Moves
      <4>3. g[i] = f[i] /\ (i # 0 => g[i - 1] = f[i - 1])
        BY <1>2, <4>1
      <4>4. h[i] = IF i = 0 THEN NewTable(2 * t.cap)
                   ELSE IF t.hash[i - 1] = 0 THEN g[i - 1]
                   ELSE PutHash(g[i - 1], t.hash[i - 1], t.dir[i - 1])
        OBVIOUS
      <4> HIDE DEF g, h
      <4> QED  BY <4>2, <4>3, <4>4
    <3> QED  BY <3>1, <3>2
  <2>3. DOMAIN g = 0 .. m + 1 /\ DOMAIN h = 0 .. m + 1
        /\ g = [i \in DOMAIN g |-> g[i]] /\ h = [i \in DOMAIN h |-> h[i]]
    OBVIOUS
  <2> HIDE DEF next, g
  <2>4. g = h
    <3> HIDE DEF h
    <3> QED  BY <2>2, <2>3
  <2>5. Moves(t, m + 1, g)
    BY <2>4 DEF Moves
  <2> QED  BY <1>2, <2>5
<1> HIDE DEF P
<1>3. n \in P
  BY <1>1, <1>2, Upwards
<1> QED  BY <1>3 DEF P

LEMMA GrownForm ==
  ASSUME NEW t, t.cap \in Nat
  PROVE  \E f : /\ Grown(t) = f[t.cap] /\ f[0] = NewTable(2 * t.cap)
                /\ \A i \in 0 .. t.cap - 1 :
                     f[i + 1] = IF t.hash[i] = 0 THEN f[i]
                                ELSE PutHash(f[i], t.hash[i], t.dir[i])
<1> DEFINE f == CHOOSE g : Moves(t, t.cap, g)
<1>1. Moves(t, t.cap, f)
  BY MovesExist
<1>2. Grown(t) = f[t.cap]
  BY DEF Grown, Moves
<1> HIDE DEF f
<1> DEFINE n == t.cap
<1>3. n \in Nat
  OBVIOUS
<1> HIDE DEF n
<1>4. f = [i \in 0 .. n |-> IF i = 0 THEN NewTable(2 * t.cap)
                            ELSE IF t.hash[i - 1] = 0 THEN f[i - 1]
                            ELSE PutHash(f[i - 1], t.hash[i - 1], t.dir[i - 1])]
  BY <1>1 DEF Moves, n
<1>5. f[0] = NewTable(2 * t.cap)
  BY <1>3, <1>4
<1>6. ASSUME NEW i \in 0 .. n - 1
      PROVE  f[i + 1] = IF t.hash[i] = 0 THEN f[i] ELSE PutHash(f[i], t.hash[i], t.dir[i])
  <2>1. i + 1 \in 0 .. n /\ i + 1 # 0 /\ (i + 1) - 1 = i
    BY <1>3
  <2>2. \A j \in 0 .. n : f[j] = IF j = 0 THEN NewTable(2 * t.cap)
                                 ELSE IF t.hash[j - 1] = 0 THEN f[j - 1]
                                 ELSE PutHash(f[j - 1], t.hash[j - 1], t.dir[j - 1])
    BY <1>4, Zenon
  <2>3. f[i + 1] = IF i + 1 = 0 THEN NewTable(2 * t.cap)
                   ELSE IF t.hash[(i + 1) - 1] = 0 THEN f[(i + 1) - 1]
                   ELSE PutHash(f[(i + 1) - 1], t.hash[(i + 1) - 1], t.dir[(i + 1) - 1])
    BY <2>1, <2>2, Zenon
  <2> QED  BY <2>1, <2>3
<1> QED  BY <1>2, <1>5, <1>6 DEF n

\* A table that grew says what it said, and is not half full.
LEMMA GrownSame ==
  ASSUME NEW t, IsTable(t), Settled(t)
  PROVE  /\ IsTable(Grown(t)) /\ Settled(Grown(t)) /\ Stored(Grown(t)) = Stored(t)
         /\ Grown(t).cap = 2 * t.cap /\ Grown(t).count <= t.cap
<1>1. t.cap \in Nat /\ t.cap >= 4
  BY DEF IsTable
<1>2. PICK f : /\ Grown(t) = f[t.cap] /\ f[0] = NewTable(2 * t.cap)
               /\ \A i \in 0 .. t.cap - 1 :
                    f[i + 1] = IF t.hash[i] = 0 THEN f[i] ELSE PutHash(f[i], t.hash[i], t.dir[i])
  BY <1>1, GrownForm
<1> DEFINE Behind(i) == { <<t.hash[j], t.dir[j]>> : j \in { k \in Used(t) : k < i } }
           Right(i) == /\ IsTable(f[i]) /\ Settled(f[i]) /\ f[i].cap = 2 * t.cap
                       /\ f[i].count <= i /\ Stored(f[i]) = Behind(i)
           P == { i \in 0 .. t.cap : Right(i) }
<1>3. 0 \in P
  <2>1. Behind(0) = {}
    BY DEF Used, Slots
  <2>2. 2 * t.cap \in Nat /\ 2 * t.cap >= 4
    BY <1>1
  <2>3. Right(0)
    BY <1>2, <2>1, <2>2, NewTableSound DEF SoundTable
  <2> QED  BY <1>1, <2>3
<1>4. ASSUME NEW i \in 0 .. t.cap - 1, i \in P PROVE i + 1 \in P
  <2>1. Right(i) /\ i \in Slots(t) /\ i \in Nat /\ i + 1 \in 0 .. t.cap
    BY <1>1, <1>4 DEF Slots
  <2>2. \A k \in Used(t) : k < i + 1 <=> k < i \/ k = i
    BY <2>1 DEF Used, Slots
  <2>3. f[i].count \in Nat
    BY <2>1, UsedSlots
  <2>4. CASE t.hash[i] = 0
    <3>1. f[i + 1] = f[i] /\ i \notin Used(t)
      BY <1>2, <2>1, <2>4 DEF Used
    <3>2. Behind(i + 1) = Behind(i)
      BY <2>2, <3>1
    <3> HIDE DEF Behind
    <3>3. Right(i + 1)
      BY <2>1, <2>3, <3>1, <3>2
    <3> QED  BY <2>1, <3>3
  <2>5. CASE t.hash[i] # 0
    <3> DEFINE h == t.hash[i]
               d == t.dir[i]
    <3>1. f[i + 1] = PutHash(f[i], h, d)
      BY <1>2, <2>5
    <3>2. h \in Nat \ {0} /\ d \in BOOLEAN /\ i \in Used(t)
      BY <2>1, <2>5 DEF IsTable, Used
    <3>3. f[i].count < f[i].cap
      BY <1>1, <2>1, <2>3
    <3>4. /\ IsTable(f[i + 1]) /\ Settled(f[i + 1]) /\ f[i + 1].cap = 2 * t.cap
          /\ f[i + 1].count <= i + 1 /\ Stored(f[i + 1]) = Placed(f[i], h, d)
      BY <2>1, <2>3, <3>1, <3>2, <3>3, PutTable, PutSettles
    <3>5. Placed(f[i], h, d) = Behind(i + 1)
      <4>1. \A k \in Used(t) : k < i => t.hash[k] # h
        BY <2>1, <3>2, OnePlace
      <4>2. Behind(i) \cap {<<h, FALSE>>, <<h, TRUE>>} = {}
        <5> HIDE DEF h
        <5>1. \A k \in Used(t) : k < i => <<t.hash[k], t.dir[k]>> \notin {<<h, FALSE>>, <<h, TRUE>>}
          BY <4>1
        <5> QED  BY <5>1
      <4>3. Behind(i + 1) = Behind(i) \union {<<h, d>>}
        BY <2>2, <3>2
      <4> HIDE DEF Behind, h, d
      <4> QED  BY <2>1, <4>2, <4>3 DEF Placed
    <3> HIDE DEF Behind
    <3>6. Right(i + 1)
      BY <3>4, <3>5
    <3> QED  BY <2>1, <3>6
  <2> QED  BY <2>4, <2>5
<1>5. Right(t.cap)
  <2> HIDE DEF P
  <2>1. t.cap \in P
    BY <1>1, <1>3, <1>4, Upwards
  <2> QED  BY <2>1 DEF P
<1>6. Behind(t.cap) = Stored(t)
  <2>1. \A k \in Used(t) : k < t.cap
    BY <1>1 DEF Used, Slots
  <2> QED  BY <2>1 DEF Stored
<1> HIDE DEF Behind
<1> QED  BY <1>1, <1>2, <1>5, <1>6

LEMMA PutNameSound ==
  ASSUME NEW t, SoundTable(t), NEW k \in DOMAIN Hash, NEW d \in BOOLEAN
  PROVE  SoundTable(PutName(t, k, d)) /\ Stored(PutName(t, k, d)) = Placed(t, Hash[k], d)
<1> DEFINE u == IF t.count * 4 >= t.cap * 3 THEN Grown(t) ELSE t
<1>1. Hash[k] \in Nat \ {0}
  BY HashAssumption
<1>2. PutName(t, k, d) = PutHash(u, Hash[k], d)
  BY DEF PutName
<1>3. /\ t.cap \in Nat /\ t.cap >= 4 /\ t.count \in Nat /\ t.count < t.cap
      /\ IsTable(t) /\ Settled(t)
  BY UsedSlots DEF SoundTable, IsTable
<1>4. /\ IsTable(u) /\ Settled(u) /\ Stored(u) = Stored(t) /\ u.count \in Nat
      /\ u.cap \in Nat /\ u.count + 1 < u.cap
  <2>1. CASE t.count * 4 >= t.cap * 3
    <3>1. u = Grown(t)
      BY <2>1
    <3> HIDE DEF u
    <3>2. /\ IsTable(u) /\ Settled(u) /\ Stored(u) = Stored(t) /\ u.cap = 2 * t.cap
          /\ u.count <= t.cap /\ u.count \in Nat
      BY <1>3, <3>1, GrownSame, UsedSlots
    <3> QED  BY <1>3, <3>2
  <2>2. CASE ~(t.count * 4 >= t.cap * 3)
    <3>1. u = t
      BY <2>2
    <3> DEFINE c == t.cap
               n == t.count
    <3>2. c \in Nat /\ c >= 4 /\ n \in Nat /\ ~(n * 4 >= c * 3)
      BY <1>3, <2>2
    <3> HIDE DEF c, n
    <3>3. n + 1 < c
      BY <3>2
    <3> QED  BY <1>3, <3>1, <3>3 DEF c, n
  <2> QED  BY <2>1, <2>2
<1> HIDE DEF u
<1>5. /\ IsTable(PutHash(u, Hash[k], d)) /\ PutHash(u, Hash[k], d).cap = u.cap
      /\ PutHash(u, Hash[k], d).count \in {u.count, u.count + 1}
  BY <1>1, <1>4, PutTable
<1>6. Settled(PutHash(u, Hash[k], d)) /\ Stored(PutHash(u, Hash[k], d)) = Placed(u, Hash[k], d)
  BY <1>1, <1>4, PutSettles
<1>7. Placed(u, Hash[k], d) = Placed(t, Hash[k], d)
  BY <1>4 DEF Placed
<1> QED  BY <1>2, <1>4, <1>5, <1>6, <1>7 DEF SoundTable

\* The lookup answers what is stored: it stops at a free slot only when the hash is
\* not in the table.
LEMMA GetSays ==
  ASSUME NEW t, SoundTable(t), NEW k \in DOMAIN Hash
  PROVE  /\ GetName(t, k) = IF <<Hash[k], TRUE>> \in Stored(t) THEN "dir"
                            ELSE IF <<Hash[k], FALSE>> \in Stored(t) THEN "file" ELSE "absent"
         /\ ~(<<Hash[k], TRUE>> \in Stored(t) /\ <<Hash[k], FALSE>> \in Stored(t))
<1> DEFINE h == Hash[k]
           i == SlotOf(t, h)
<1>1. h \in Nat \ {0}
  BY HashAssumption
<1>2. IsTable(t) /\ Settled(t) /\ t.count < t.cap
  BY DEF SoundTable
<1> HIDE DEF h
<1>3. i \in Slots(t) /\ t.hash[i] \in {0, h}
  BY <1>1, <1>2, SlotFound
<1>4. \A j \in Used(t) : t.hash[j] = h => j = i
  BY <1>2 DEF Settled
<1>5. GetName(t, k) = IF t.hash[i] = 0 THEN "absent" ELSE IF t.dir[i] THEN "dir" ELSE "file"
  BY DEF GetName, h
<1> HIDE DEF i
<1>6. t.dir[i] \in BOOLEAN
  BY <1>2, <1>3 DEF IsTable
<1>7. CASE t.hash[i] = 0
  <2>1. \A j \in Used(t) : t.hash[j] # h
    BY <1>4, <1>7 DEF Used
  <2>2. \A d : <<h, d>> \notin Stored(t)
    BY <2>1 DEF Stored
  <2> QED  BY <1>5, <1>7, <2>2 DEF h
<1>8. CASE t.hash[i] # 0
  <2>1. i \in Used(t) /\ t.hash[i] = h
    BY <1>3, <1>8 DEF Used
  <2>2. \A d : <<h, d>> \in Stored(t) <=> d = t.dir[i]
    <3>1. \A d : <<h, d>> \in Stored(t) <=> \E j \in Used(t) : t.hash[j] = h /\ t.dir[j] = d
      BY DEF Stored
    <3> QED  BY <1>4, <2>1, <3>1
  <2> QED  BY <1>5, <1>6, <1>8, <2>2 DEF h
<1> QED  BY <1>7, <1>8

-------------------------------------------------------------------------------
(* A name and the directories above it.                                    *)

LEMMA NameParts ==
  ASSUME NEW k \in DOMAIN Hash
  PROVE  /\ k \in Seq(STRING) /\ Len(k) \in Nat \ {0}
         /\ Len(Above(k)) = Len(k) - 1 /\ DOMAIN Above(k) = 1 .. Len(k) - 1
         /\ \A i \in 1 .. Len(k) - 1 :
              /\ Above(k)[i] = SubSeq(k, 1, i) /\ Above(k)[i] \in DOMAIN Hash
              /\ Len(Above(k)[i]) = i
<1>1. k \in Seq(STRING) /\ Len(k) \in Nat \ {0}
  BY NamesAssumption
<1>2. \A i \in 1 .. Len(k) : SubSeq(k, 1, i) \in DOMAIN Hash
  BY NamesAssumption
<1>3. ASSUME NEW i \in 1 .. Len(k) - 1
      PROVE  /\ Above(k)[i] = SubSeq(k, 1, i) /\ Above(k)[i] \in DOMAIN Hash
             /\ Len(Above(k)[i]) = i
  <2>1. i \in 1 .. Len(k) /\ Above(k)[i] = SubSeq(k, 1, i)
    BY <1>1 DEF Above
  <2>2. Len(SubSeq(k, 1, i)) = i
    BY <1>1, <2>1
  <2> QED  BY <1>2, <2>1, <2>2
<1>4. DOMAIN Above(k) = 1 .. Len(k) - 1
  BY DEF Above
<1>5. Len(Above(k)) = Len(k) - 1
  <2> DEFINE a == Above(k)
             n == Len(k) - 1
  <2>1. n \in Nat
    BY <1>1
  <2>2. a = [i \in 1 .. n |-> SubSeq(k, 1, i)]
    BY DEF Above
  <2> HIDE DEF n, a
  <2>3. Len(a) = n
    BY <2>1, <2>2
  <2> QED  BY <2>3 DEF a, n
<1> QED  BY <1>1, <1>3, <1>4, <1>5

\* nameset_put, as its callers see it.
LEMMA PutSays ==
  ASSUME NEW t, SoundTable(t), NEW k \in DOMAIN Hash, NEW d \in BOOLEAN
  PROVE  /\ GetName(PutName(t, k, d), k) = IF d THEN "dir" ELSE "file"
         /\ \A l \in DOMAIN Hash \ {k} : GetName(PutName(t, k, d), l) = GetName(t, l)
<1> SUFFICES ASSUME NEW l \in DOMAIN Hash
             PROVE  /\ l = k => GetName(PutName(t, k, d), l) = IF d THEN "dir" ELSE "file"
                    /\ l # k => GetName(PutName(t, k, d), l) = GetName(t, l)
  OBVIOUS
<1> DEFINE u == PutName(t, k, d)
           h == Hash[k]
           g == Hash[l]
<1>1. SoundTable(u) /\ Stored(u) = Placed(t, h, d)
  BY PutNameSound
<1>2. h = g => k = l
  BY HashAssumption
<1>3. /\ GetName(u, l) = IF <<g, TRUE>> \in Stored(u) THEN "dir"
                         ELSE IF <<g, FALSE>> \in Stored(u) THEN "file" ELSE "absent"
      /\ GetName(t, l) = IF <<g, TRUE>> \in Stored(t) THEN "dir"
                         ELSE IF <<g, FALSE>> \in Stored(t) THEN "file" ELSE "absent"
  BY <1>1, GetSays
<1> HIDE DEF u
<1>4. CASE k = l
  <2>1. \A b \in BOOLEAN : <<g, b>> \in Stored(u) <=> b = d
    BY <1>1, <1>4 DEF Placed
  <2> QED  BY <1>3, <1>4, <2>1 DEF u
<1>5. CASE k # l
  <2>1. g # h
    BY <1>2, <1>5
  <2> HIDE DEF g, h
  <2>2. /\ <<g, TRUE>> \in Stored(u) <=> <<g, TRUE>> \in Stored(t)
        /\ <<g, FALSE>> \in Stored(u) <=> <<g, FALSE>> \in Stored(t)
    BY <1>1, <2>1 DEF Placed
  <2>3. GetName(u, l) = GetName(t, l)
    BY <1>3, <2>2
  <2> QED  BY <1>5, <2>3 DEF u
<1> QED  BY <1>4, <1>5

LEMMA PutDirSays ==
  ASSUME NEW t, SoundTable(t), NEW k \in DOMAIN Hash
  PROVE  /\ GetName(PutName(t, k, TRUE), k) = "dir"
         /\ \A l \in DOMAIN Hash \ {k} : GetName(PutName(t, k, TRUE), l) = GetName(t, l)
<1> DEFINE d == TRUE
<1>1. d \in BOOLEAN
  OBVIOUS
<1>2. d
  OBVIOUS
<1> HIDE DEF d
<1>3. /\ GetName(PutName(t, k, d), k) = IF d THEN "dir" ELSE "file"
      /\ \A l \in DOMAIN Hash \ {k} : GetName(PutName(t, k, d), l) = GetName(t, l)
  BY <1>1, PutSays
<1>4. GetName(PutName(t, k, d), k) = "dir"
  BY <1>2, <1>3
<1> QED  BY <1>3, <1>4, Zenon DEF d

\* nameset_add_path's loop over the directories above the name, as far as it came.
Adds(t, k, n, f) ==
  f = [i \in 0 .. n |-> IF i = 0 THEN t ELSE PutName(f[i - 1], Above(k)[i], TRUE)]

LEMMA AddsExist ==
  ASSUME NEW t, NEW k, NEW n \in Nat
  PROVE  \E f : Adds(t, k, n, f)
<1> DEFINE P == { m \in 0 .. n : \E f : Adds(t, k, m, f) }
<1>1. 0 \in P
  <2> DEFINE f == [i \in 0 .. 0 |-> t]
  <2>1. Adds(t, k, 0, f)
    BY DEF Adds
  <2> QED  BY <2>1
<1>2. ASSUME NEW m \in 0 .. n - 1, m \in P PROVE m + 1 \in P
  <2>1. PICK f : Adds(t, k, m, f)
    BY <1>2
  <2> DEFINE next == PutName(f[m], Above(k)[m + 1], TRUE)
             g == [i \in 0 .. m + 1 |-> IF i = m + 1 THEN next ELSE f[i]]
             h == [i \in 0 .. m + 1 |-> IF i = 0 THEN t ELSE PutName(g[i - 1], Above(k)[i], TRUE)]
  <2> HIDE DEF next
  <2>6. m \in Nat /\ g[m + 1] = next /\ \A j \in 0 .. m : g[j] = f[j]
    <3>1. m \in Nat
      OBVIOUS
    <3> HIDE DEF h, P
    <3> QED  BY <3>1
  <2>2. ASSUME NEW i \in 0 .. m + 1 PROVE g[i] = h[i]
    <3>1. CASE i = m + 1
      <4>1. i # 0 /\ i - 1 = m /\ m + 1 = i /\ m \in 0 .. m
        BY <2>6, <3>1
      <4>2. h[i] = IF i = 0 THEN t ELSE PutName(g[i - 1], Above(k)[i], TRUE)
        OBVIOUS
      <4> HIDE DEF g, h
      <4> QED  BY <2>6, <4>1, <4>2 DEF next
    <3>2. CASE i # m + 1
      <4>1. i \in 0 .. m
        BY <3>2
      <4>2. f[i] = IF i = 0 THEN t ELSE PutName(f[i - 1], Above(k)[i], TRUE)
        BY <2>1, <4>1, Zenon DEF Adds
      <4>3. g[i] = f[i] /\ (i # 0 => g[i - 1] = f[i - 1])
        <5> HIDE DEF g, h
        <5>1. i # 0 => i - 1 \in 0 .. m
          BY <2>6, <4>1
        <5> QED  BY <2>6, <4>1, <5>1
      <4>4. h[i] = IF i = 0 THEN t ELSE PutName(g[i - 1], Above(k)[i], TRUE)
        OBVIOUS
      <4> HIDE DEF g, h
      <4> QED  BY <4>2, <4>3, <4>4
    <3> QED  BY <3>1, <3>2
  <2>3. DOMAIN g = 0 .. m + 1 /\ DOMAIN h = 0 .. m + 1
        /\ g = [i \in DOMAIN g |-> g[i]] /\ h = [i \in DOMAIN h |-> h[i]]
    OBVIOUS
  <2> HIDE DEF g
  <2>4. g = h
    <3> HIDE DEF h
    <3> QED  BY <2>2, <2>3
  <2>5. Adds(t, k, m + 1, g)
    BY <2>4 DEF Adds
  <2> QED  BY <1>2, <2>5
<1> HIDE DEF P
<1>3. n \in P
  BY <1>1, <1>2, Upwards
<1> QED  BY <1>3 DEF P

AddsUp(t, k, d, f) ==
  /\ AddPath(t, k, d) = PutName(f[Len(k) - 1], k, d) /\ f[0] = t
  /\ \A i \in 0 .. Len(k) - 2 : f[i + 1] = PutName(f[i], Above(k)[i + 1], TRUE)

LEMMA AddPathForm ==
  ASSUME NEW t, NEW k \in DOMAIN Hash, NEW d \in BOOLEAN
  PROVE  \E f : AddsUp(t, k, d, f)
<1> DEFINE n == Len(k) - 1
           f == CHOOSE g : Adds(t, k, n, g)
<1>1. n \in Nat
  BY NameParts
<1>2. Adds(t, k, n, f)
  <2> HIDE DEF n
  <2> QED  BY <1>1, AddsExist
<1>3. AddPath(t, k, d) = PutName(f[n], k, d)
  BY DEF AddPath, Adds
<1> HIDE DEF f
<1>4. f = [i \in 0 .. n |-> IF i = 0 THEN t ELSE PutName(f[i - 1], Above(k)[i], TRUE)]
  BY <1>2 DEF Adds
<1>5. \A i \in 0 .. n : f[i] = IF i = 0 THEN t ELSE PutName(f[i - 1], Above(k)[i], TRUE)
  BY <1>4, Zenon
<1>6. f[0] = t
  <2>1. 0 \in 0 .. n
    BY <1>1
  <2> HIDE DEF n
  <2>2. f[0] = IF 0 = 0 THEN t ELSE PutName(f[0 - 1], Above(k)[0], TRUE)
    BY <1>5, <2>1, Zenon
  <2> QED  BY <2>2
<1>7. ASSUME NEW i \in 0 .. Len(k) - 2 PROVE f[i + 1] = PutName(f[i], Above(k)[i + 1], TRUE)
  <2>1. i + 1 \in 0 .. n /\ i + 1 # 0 /\ (i + 1) - 1 = i
    BY <1>1
  <2> HIDE DEF n
  <2>2. f[i + 1] = IF i + 1 = 0 THEN t ELSE PutName(f[(i + 1) - 1], Above(k)[i + 1], TRUE)
    BY <1>5, <2>1, Zenon
  <2> QED  BY <2>1, <2>2
<1>8. AddsUp(t, k, d, f)
  BY <1>3, <1>6, <1>7 DEF AddsUp
<1> QED  BY <1>8

\* A name and the directories above it, all that nameset_add_path touches.
Line(k) == {k} \union Range(Above(k))

LEMMA AddPathSays ==
  ASSUME NEW t, SoundTable(t), NEW k \in DOMAIN Hash, NEW d \in BOOLEAN
  PROVE  /\ SoundTable(AddPath(t, k, d))
         /\ \A l \in DOMAIN Hash : GetName(AddPath(t, k, d), l) =
              IF l = k THEN IF d THEN "dir" ELSE "file"
              ELSE IF l \in Range(Above(k)) THEN "dir" ELSE GetName(t, l)
<1>12. PICK f : AddsUp(t, k, d, f)
  BY AddPathForm
<1>2. /\ AddPath(t, k, d) = PutName(f[Len(k) - 1], k, d) /\ f[0] = t
      /\ \A i \in 0 .. Len(k) - 2 : f[i + 1] = PutName(f[i], Above(k)[i + 1], TRUE)
  BY <1>12 DEF AddsUp
<1> DEFINE n == Len(k) - 1
<1>1. /\ n \in Nat /\ Len(k) \in Nat \ {0} /\ DOMAIN Above(k) = 1 .. n
      /\ \A i \in 1 .. n : Above(k)[i] \in DOMAIN Hash
  BY NameParts
<1>3. \A i \in 0 .. n - 1 : f[i + 1] = PutName(f[i], Above(k)[i + 1], TRUE)
  <2>1. n - 1 = Len(k) - 2
    BY <1>1
  <2> QED  BY <1>2, <2>1, Zenon
<1> HIDE DEF n
<1> DEFINE Passed(i) == { Above(k)[j] : j \in 1 .. i }
           Right(i) == /\ SoundTable(f[i])
                       /\ \A l \in DOMAIN Hash :
                            GetName(f[i], l) = IF l \in Passed(i) THEN "dir" ELSE GetName(t, l)
           P == { i \in 0 .. n : Right(i) }
<1>4. 0 \in P
  <2>1. Passed(0) = {}
    OBVIOUS
  <2> HIDE DEF Passed
  <2>2. Right(0)
    BY <1>2, <2>1
  <2> QED  BY <1>1, <2>2
<1>5. ASSUME NEW i \in 0 .. n - 1, i \in P PROVE i + 1 \in P
  <2>1. Right(i) /\ i + 1 \in 1 .. n /\ i + 1 \in 0 .. n
    BY <1>1, <1>5
  <2> DEFINE a == Above(k)[i + 1]
  <2>2. a \in DOMAIN Hash /\ f[i + 1] = PutName(f[i], a, TRUE)
    BY <1>1, <1>3, <2>1
  <2>3. Passed(i + 1) = Passed(i) \union {a}
    BY <1>1, <2>1
  <2> HIDE DEF a, Passed
  <2>4. SoundTable(f[i + 1])
    BY <2>1, <2>2, PutNameSound
  <2>5. ASSUME NEW l \in DOMAIN Hash
        PROVE  GetName(f[i + 1], l) = IF l \in Passed(i + 1) THEN "dir" ELSE GetName(t, l)
    <3>1. GetName(f[i + 1], l) = IF l = a THEN "dir" ELSE GetName(f[i], l)
      <4>1. SoundTable(f[i])
        BY <2>1
      <4> HIDE DEF Right
      <4> DEFINE u == f[i]
      <4>3. SoundTable(u)
        BY <4>1
      <4> HIDE DEF u
      <4>2. /\ GetName(PutName(u, a, TRUE), a) = "dir"
            /\ \A j \in DOMAIN Hash \ {a} : GetName(PutName(u, a, TRUE), j) = GetName(u, j)
        BY <2>2, <4>3, PutDirSays
      <4> QED  BY <2>2, <4>2 DEF u
    <3> QED  BY <2>1, <2>3, <3>1
  <2> QED  BY <2>1, <2>4, <2>5
<1>6. Right(n)
  <2> HIDE DEF P
  <2>1. n \in Nat
    BY <1>1
  <2>2. \A i \in 0 .. n - 1 : i \in P => i + 1 \in P
    BY <1>5
  <2>3. n \in P
    BY <1>4, <2>1, <2>2, Upwards
  <2> QED  BY <2>3 DEF P
<1>7. Passed(n) = Range(Above(k))
  BY <1>1 DEF Range
<1> HIDE DEF Passed
<1> DEFINE u == f[n]
<1>10. SoundTable(u) /\ AddPath(t, k, d) = PutName(u, k, d)
  BY <1>2, <1>6 DEF n
<1>11. \A l \in DOMAIN Hash : GetName(u, l) = IF l \in Range(Above(k)) THEN "dir" ELSE GetName(t, l)
  BY <1>6, <1>7
<1> HIDE DEF u, P, Right
<1>8. SoundTable(AddPath(t, k, d))
  BY <1>10, PutNameSound
<1>9. ASSUME NEW l \in DOMAIN Hash
      PROVE  GetName(AddPath(t, k, d), l) =
               IF l = k THEN IF d THEN "dir" ELSE "file"
               ELSE IF l \in Range(Above(k)) THEN "dir" ELSE GetName(t, l)
  <2>1. /\ GetName(PutName(u, k, d), k) = IF d THEN "dir" ELSE "file"
        /\ \A j \in DOMAIN Hash \ {k} : GetName(PutName(u, k, d), j) = GetName(u, j)
    BY <1>10, PutSays
  <2> QED  BY <1>10, <1>11, <2>1
<1> QED  BY <1>8, <1>9

\* A file's path is a prefix of another's exactly when it is on its line; a trailing
\* separator does not count.
LEMMA PrefixIsOnLine ==
  ASSUME NEW k \in DOMAIN Hash, ~ZipTrailing(k), NEW e, e.name \in DOMAIN Hash
  PROVE  IsPrefix(k, Path(e)) <=> k \in Line(e.name)
<1> DEFINE n == e.name
           p == Path(e)
<1>1. /\ k \in Seq(STRING) /\ Len(k) \in Nat \ {0} /\ n \in Seq(STRING) /\ Len(n) \in Nat \ {0}
      /\ DOMAIN Above(n) = 1 .. Len(n) - 1
      /\ \A i \in 1 .. Len(n) - 1 : Above(n)[i] = SubSeq(n, 1, i) /\ Len(Above(n)[i]) = i
  BY NameParts
<1> HIDE DEF n
<1>2. IsPrefix(k, p) <=> Len(k) <= Len(p) /\ SubSeq(k, 1, Len(k)) = SubSeq(p, 1, Len(k))
  BY DEF IsPrefix
<1>3. SubSeq(k, 1, Len(k)) = k
  BY <1>1
<1>4. k \in Range(Above(n)) <=> Len(k) <= Len(n) - 1 /\ k = SubSeq(n, 1, Len(k))
  <2>1. k \in Range(Above(n)) <=> \E i \in 1 .. Len(n) - 1 : SubSeq(n, 1, i) = k
    BY <1>1 DEF Range
  <2>2. \A i \in 1 .. Len(n) - 1 : Len(SubSeq(n, 1, i)) = i
    BY <1>1
  <2> QED  BY <1>1, <2>1, <2>2
<1>5. SubSeq(n, 1, Len(n)) = n
  BY <1>1
<1>6. CASE ~ZipTrailing(n)
  <2>1. p = n
    BY <1>6 DEF Path, n
  <2>2. Len(k) <= Len(n) <=> Len(k) <= Len(n) - 1 \/ Len(k) = Len(n)
    BY <1>1
  <2> HIDE DEF p
  <2>3. k = n <=> Len(k) = Len(n) /\ k = SubSeq(n, 1, Len(k))
    BY <1>5
  <2>4. k \in Line(n) <=> k = n \/ k \in Range(Above(n))
    BY DEF Line
  <2>5. IsPrefix(k, p) <=> Len(k) <= Len(n) /\ k = SubSeq(n, 1, Len(k))
    BY <1>2, <1>3, <2>1
  <2> QED  BY <1>1, <1>4, <2>2, <2>3, <2>4, <2>5 DEF n, p
<1>7. CASE ZipTrailing(n)
  <2>1. p = SubSeq(n, 1, Len(n) - 1)
    BY <1>7 DEF Path, n, Front
  <2> HIDE DEF p
  <2>2. Len(p) = Len(n) - 1
    <3>1. n \in Seq(STRING) /\ Len(n) - 1 \in 0 .. Len(n)
      BY <1>1
    <3>2. \A m \in 0 .. Len(n) : Len(SubSeq(n, 1, m)) = m
      BY <3>1
    <3> QED  BY <2>1, <3>1, <3>2
  <2>3. k # n
    BY <1>7
  <2>4. Len(k) <= Len(n) - 1 => SubSeq(p, 1, Len(k)) = SubSeq(n, 1, Len(k))
    BY <1>1, <2>1
  <2> QED  BY <1>2, <1>3, <1>4, <2>2, <2>3, <2>4 DEF Line, n, p
<1> QED  BY <1>6, <1>7

-------------------------------------------------------------------------------
(* What a scan accepts is a tree.                                          *)

Takes == [name : DOMAIN Hash, dir : BOOLEAN,
          size : { x.entries[i].size : x \in ScanInputs, i \in Nat }]

\* The table is sound and says what the accepted entries say; no file is on the
\* line of another entry.
TreeInv ==
  /\ input \in ScanInputs /\ at \in Nat \ {0}
  /\ SoundTable(names)
  /\ taken \in Seq(Takes)
  /\ \A i \in DOMAIN taken : ~taken[i].dir => ~ZipTrailing(taken[i].name)
  /\ \A k \in DOMAIN Hash : GetName(names, k) = Expected(k)
  /\ \A i, j \in DOMAIN taken :
       i # j /\ ~taken[i].dir => taken[i].name \notin Line(taken[j].name)

LEMMA TakenTyped ==
  ASSUME TreeInv, NEW i \in DOMAIN taken
  PROVE  taken[i].name \in DOMAIN Hash /\ taken[i].dir \in BOOLEAN
<1>1. taken \in Seq(Takes)
  BY DEF TreeInv
<1>2. taken[i] \in Takes
  BY <1>1
<1> QED  BY <1>2 DEF Takes

LEMMA TreeSame ==
  ASSUME TreeInv, UNCHANGED <<input, names, taken>>, at' \in Nat \ {0}
  PROVE  TreeInv'
<1>1. input' \in ScanInputs /\ taken' \in Seq(Takes) /\ taken' = taken /\ names' = names
  BY DEF TreeInv
<1>2. SoundTable(names)'
  BY DEF TreeInv, SoundTable, IsTable, Settled, Used, Slots, SlotOf
<1>3. \A k \in DOMAIN Hash : GetName(names, k)' = Expected(k)'
  <2> SUFFICES ASSUME NEW k \in DOMAIN Hash PROVE GetName(names, k)' = Expected(k)'
    OBVIOUS
  <2>1. GetName(names, k)' = GetName(names, k)
    BY <1>1 DEF GetName, SlotOf
  <2>2. Expected(k)' = Expected(k)
    BY <1>1 DEF Expected, Above
  <2> QED  BY <2>1, <2>2 DEF TreeInv
<1>4. \A i, j \in DOMAIN taken' :
        i # j /\ ~taken'[i].dir => taken'[i].name \notin Line(taken'[j].name)
  BY <1>1 DEF TreeInv
<1>5. \A i \in DOMAIN taken' : ~taken'[i].dir => ~ZipTrailing(taken'[i].name)
  BY <1>1 DEF TreeInv
<1> QED  BY <1>1, <1>2, <1>3, <1>4, <1>5 DEF TreeInv, Line, Above, ZipTrailing

LEMMA TreeInit == ScanInit => TreeInv
<1> SUFFICES ASSUME ScanInit PROVE TreeInv
  OBVIOUS
<1>1. names = NewTable(InitCap) /\ taken = <<>> /\ at = 1 /\ input \in ScanInputs
  BY DEF ScanInit
<1>2. SoundTable(names) /\ Stored(names) = {}
  BY <1>1, NewTableSound, InitCapAssumption
<1>3. DOMAIN taken = {} /\ taken \in Seq(Takes)
  BY <1>1
<1>4. \A k \in DOMAIN Hash : GetName(names, k) = "absent"
  BY <1>2, GetSays
<1>5. \A k : Expected(k) = "absent"
  BY <1>3 DEF Expected
<1> QED  BY <1>1, <1>2, <1>3, <1>4, <1>5 DEF TreeInv

\* An entry that does not clash has no file on its line, and where it is a file
\* itself, is on nobody's line.
LEMMA NoClash ==
  ASSUME TreeInv, NEW n \in DOMAIN Hash, NEW d \in BOOLEAN, ~Clashes(names, n, d),
         NEW i \in DOMAIN taken
  PROVE  /\ ~taken[i].dir => taken[i].name \notin Line(n)
         /\ ~d => n \notin Line(taken[i].name)
<1>1. taken[i].name \in DOMAIN Hash /\ taken[i].dir \in BOOLEAN
  BY TakenTyped
<1>2. \A k \in DOMAIN Hash : GetName(names, k) = Expected(k)
  BY DEF TreeInv
<1>3. GetName(names, n) # "file" /\ (~d => GetName(names, n) # "dir")
      /\ \A l \in DOMAIN Above(n) : GetName(names, Above(n)[l]) # "file"
  BY DEF Clashes
<1> DEFINE m == taken[i].name
<1>4. ASSUME ~taken[i].dir PROVE GetName(names, m) = "file"
  <2>1. ASSUME NEW j \in DOMAIN taken
        PROVE  m \notin Range(Above(taken[j].name)) /\ ~(taken[j].name = m /\ taken[j].dir)
    <3>1. CASE j # i
      BY <1>4, <3>1 DEF TreeInv, Line
    <3>2. CASE j = i
      <4>1. /\ Len(m) \in Nat /\ DOMAIN Above(m) = 1 .. Len(m) - 1
            /\ \A l \in 1 .. Len(m) - 1 : Len(Above(m)[l]) = l
        BY <1>1, NameParts
      <4>2. \A l \in 1 .. Len(m) - 1 : Len(m) # l
        BY <4>1
      <4>3. m \notin Range(Above(m))
        BY <4>1, <4>2 DEF Range
      <4> QED  BY <1>4, <3>2, <4>3
    <3> QED  BY <3>1, <3>2
  <2>2. Expected(m) = "file"
    BY <2>1 DEF Expected
  <2> QED  BY <1>1, <1>2, <2>2
<1>5. ASSUME ~taken[i].dir PROVE m \notin Line(n)
  <2>1. m # n
    BY <1>3, <1>4, <1>5
  <2>2. m \notin Range(Above(n))
    <3> SUFFICES ASSUME NEW l \in DOMAIN Above(n), Above(n)[l] = m PROVE FALSE
      BY DEF Range
    <3> QED  BY <1>3, <1>4, <1>5
  <2> QED  BY <2>1, <2>2 DEF Line
<1>6. ASSUME ~d, n \in Line(m) PROVE FALSE
  <2>1. n \in Range(Above(taken[i].name)) \/ taken[i].name = n
    BY <1>6 DEF Line
  <2>2. Expected(n) \in {"dir", "file"}
    BY <2>1 DEF Expected
  <2> QED  BY <1>2, <1>3, <1>6, <2>2
<1> QED  BY <1>5, <1>6

\* nameset_add_path keeps the table saying what the entries say.
LEMMA TakenIsSaid ==
  ASSUME TreeInv, NEW n \in DOMAIN Hash, NEW d \in BOOLEAN, ~Clashes(names, n, d),
         NEW e, e.name = n, e.dir = d, e \in Takes,
         names' = AddPath(names, n, d), taken' = Append(taken, e)
  PROVE  \A k \in DOMAIN Hash : GetName(names, k)' = Expected(k)'
<1> SUFFICES ASSUME NEW k \in DOMAIN Hash PROVE GetName(names, k)' = Expected(k)'
  OBVIOUS
<1>1. /\ SoundTable(names) /\ GetName(names, k) = Expected(k)
      /\ taken \in Seq(Takes) /\ Len(taken) \in Nat
  BY DEF TreeInv
<1>2. /\ DOMAIN taken' = DOMAIN taken \union {Len(taken) + 1} /\ taken'[Len(taken) + 1] = e
      /\ \A i \in DOMAIN taken : taken'[i] = taken[i]
  BY <1>1
<1>3. GetName(names', k) = IF k = n THEN IF d THEN "dir" ELSE "file"
                           ELSE IF k \in Range(Above(n)) THEN "dir" ELSE GetName(names, k)
  BY <1>1, AddPathSays
<1>4. GetName(names, k)' = GetName(names', k)
  BY DEF GetName, SlotOf
<1> DEFINE IsDir == \E i \in DOMAIN taken : \/ k \in Range(Above(taken[i].name))
                                            \/ taken[i].name = k /\ taken[i].dir
           IsNamed == \E i \in DOMAIN taken : taken[i].name = k
           Here == k \in Range(Above(n)) \/ (n = k /\ d)
<1>5. Expected(k) = IF IsDir THEN "dir" ELSE IF IsNamed THEN "file" ELSE "absent"
  BY DEF Expected
<1>6. Expected(k)' = IF IsDir \/ Here THEN "dir" ELSE IF IsNamed \/ n = k THEN "file" ELSE "absent"
  <2>1. Expected(k)' =
          IF \E i \in DOMAIN taken' : \/ k \in Range(Above(taken'[i].name))
                                      \/ taken'[i].name = k /\ taken'[i].dir
          THEN "dir"
          ELSE IF \E i \in DOMAIN taken' : taken'[i].name = k THEN "file" ELSE "absent"
    BY DEF Expected, Above
  <2>2. (\E i \in DOMAIN taken' : \/ k \in Range(Above(taken'[i].name))
                                  \/ taken'[i].name = k /\ taken'[i].dir) <=> IsDir \/ Here
    BY <1>2
  <2>3. (\E i \in DOMAIN taken' : taken'[i].name = k) <=> IsNamed \/ n = k
    BY <1>2
  <2> QED  BY <2>1, <2>2, <2>3
<1>7. ASSUME k = n, ~d PROVE ~IsDir /\ ~Here
  <2>1. GetName(names, k) # "dir"
    BY <1>7 DEF Clashes
  <2>2. k \notin Range(Above(n))
    <3>1. /\ Len(n) \in Nat /\ DOMAIN Above(n) = 1 .. Len(n) - 1
          /\ \A l \in 1 .. Len(n) - 1 : Len(Above(n)[l]) = l
      BY NameParts
    <3>2. \A l \in 1 .. Len(n) - 1 : Len(n) # l
      BY <3>1
    <3> QED  BY <1>7, <3>1, <3>2 DEF Range
  <2> HIDE DEF IsDir
  <2> QED  BY <1>1, <1>5, <1>7, <2>1, <2>2
<1> HIDE DEF IsDir, IsNamed
<1> QED  BY <1>1, <1>3, <1>4, <1>5, <1>6, <1>7

LEMMA TakingKeepsTree ==
  ASSUME TreeInv, at <= EntryCount, NEW isDir \in BOOLEAN, NEW refusal,
         refusal = "ok" => /\ ~Clashes(names, Entry.name, isDir)
                           /\ ~isDir => ~ZipTrailing(Entry.name),
         TakeEntry(refusal, isDir)
  PROVE  TreeInv'
<1> DEFINE n == Entry.name
           e == [name |-> n, dir |-> isDir, size |-> Entry.size]
<1>1. /\ input \in ScanInputs /\ at \in Nat \ {0} /\ UNCHANGED input
      /\ taken \in Seq(Takes) /\ Len(taken) \in Nat /\ SoundTable(names)
  BY DEF TreeInv, TakeEntry
<1>2. CASE refusal # "ok"
  <2>1. UNCHANGED <<input, at, names, taken>>
    BY <1>2 DEF TakeEntry
  <2> QED  BY <1>1, <2>1, TreeSame
<1>3. CASE refusal = "ok"
  <2>1. n \in DOMAIN Hash
    <3>1. at \in 1 .. Len(input.entries)
      BY <1>1, EntriesAssumption DEF EntryCount
    <3> QED  BY <1>1, <3>1, EntriesAssumption DEF Entry
  <2>2. e \in Takes
    <3>1. Entry.size \in { x.entries[i].size : x \in ScanInputs, i \in Nat }
      BY <1>1 DEF Entry
    <3> HIDE DEF n
    <3> QED  BY <2>1, <3>1 DEF Takes
  <2>3. /\ names' = AddPath(names, n, isDir) /\ taken' = Append(taken, e) /\ at' = at + 1
        /\ ~Clashes(names, n, isDir) /\ (~isDir => ~ZipTrailing(n))
    BY <1>3 DEF TakeEntry
  <2> HIDE DEF n
  <2>4. \A k \in DOMAIN Hash : GetName(names, k)' = Expected(k)'
    <3>1. e.name = n /\ e.dir = isDir
      OBVIOUS
    <3> HIDE DEF e
    <3> QED  BY <2>1, <2>2, <2>3, <3>1, TakenIsSaid
  <2>5. SoundTable(names')
    BY <1>1, <2>1, <2>3, AddPathSays
  <2>6. SoundTable(names)'
    BY <2>5 DEF SoundTable, IsTable, Settled, Used, Slots, SlotOf
  <2>7. /\ DOMAIN taken' = DOMAIN taken \union {Len(taken) + 1} /\ taken'[Len(taken) + 1] = e
        /\ \A i \in DOMAIN taken : taken'[i] = taken[i] /\ i # Len(taken) + 1
        /\ taken' \in Seq(Takes)
    <3> HIDE DEF e
    <3> QED  BY <1>1, <2>2, <2>3
  <2>8. e.name = n /\ e.dir = isDir
    OBVIOUS
  <2> HIDE DEF e
  <2>9. \A i \in DOMAIN taken' : ~taken'[i].dir => ~ZipTrailing(taken'[i].name)
    BY <2>3, <2>7, <2>8 DEF TreeInv
  <2>10. \A i \in DOMAIN taken : /\ ~taken[i].dir => taken[i].name \notin Line(n)
                                 /\ ~isDir => n \notin Line(taken[i].name)
    BY <2>1, <2>3, NoClash
  <2>11. \A i, j \in DOMAIN taken' :
           i # j /\ ~taken'[i].dir => taken'[i].name \notin Line(taken'[j].name)
    BY <2>7, <2>8, <2>10 DEF TreeInv
  <2>12. input' \in ScanInputs /\ at' \in Nat \ {0} /\ taken' \in Seq(Takes)
    BY <1>1, <2>3, <2>7
  <2> QED  BY <2>4, <2>6, <2>9, <2>11, <2>12 DEF TreeInv, Line, Above, ZipTrailing
<1> QED  BY <1>2, <1>3

\* A file's name has no trailing separator: ZIP reads one as a directory, and to the
\* others it is an empty segment.
LEMMA NoTrailingFile ==
  ASSUME NEW name \in DOMAIN Hash, PathStatus(name, name) = "ok"
  PROVE  ~ZipTrailing(name)
<1> DEFINE bad == { i \in DOMAIN name : SegmentStatus(name[i]) # "ok" }
<1> SUFFICES ASSUME ZipTrailing(name) PROVE FALSE
  OBVIOUS
<1>1. name \in Seq(STRING) /\ Len(name) \in Nat \ {0}
  BY NameParts
<1>2. name[Len(name)] = "" /\ Len(name) \in DOMAIN name
  <2>1. name[Len(name)] = ""
    BY Zenon DEF ZipTrailing, Last
  <2>2. Len(name) \in DOMAIN name
    <3> HIDE DEF bad
    <3> QED  BY <1>1
  <2> QED  BY <2>1, <2>2, Zenon
<1>3. Len(name) \in bad
  BY <1>2 DEF SegmentStatus
<1>4. Min(bad) \in bad
  <2>1. bad \in SUBSET Nat
    BY <1>1
  <2> HIDE DEF bad
  <2> QED  BY <1>3, <2>1, LeastOf
<1>5. SegmentStatus(name[Min(bad)]) # "ok"
  BY <1>4
<1>6. PathStatus(name, name) =
        CASE name[1] \in {"", "c:"} -> "UNSAFE_NAME"
          [] name[1] \notin {"", "c:"} /\ bad # {} -> SegmentStatus(name[Min(bad)])
          [] OTHER -> IF Len(name) > MaxDepth THEN "LIMIT_DEPTH" ELSE "ok"
  BY DEF PathStatus
<1> HIDE DEF bad
<1> QED  BY <1>3, <1>5, <1>6

LEMMA TreeStep == TreeInv /\ [ScanNext]_scanVars => TreeInv'
<1> SUFFICES ASSUME TreeInv, [ScanNext]_scanVars PROVE TreeInv'
  OBVIOUS
<1>1. ASSUME UNCHANGED <<input, names, taken>>, at' \in Nat \ {0} PROVE TreeInv'
  BY <1>1, TreeSame
<1>2. at \in Nat \ {0} /\ input \in ScanInputs
  BY DEF TreeInv
<1>3. ASSUME scan = "scan", at <= EntryCount PROVE Entry.name \in DOMAIN Hash
  <2>1. at \in 1 .. Len(input.entries)
    BY <1>2, <1>3, EntriesAssumption DEF EntryCount
  <2> QED  BY <1>2, <2>1, EntriesAssumption DEF Entry
<1>4. CASE UNCHANGED scanVars
  BY <1>1, <1>2, <1>4 DEF scanVars
<1>5. CASE ScanZipEntry
  <2>1. /\ scan = "scan" /\ at <= EntryCount /\ ZipIsDir(Entry) \in BOOLEAN
        /\ TakeEntry(ZipRefusal(Entry), ZipIsDir(Entry))
    BY <1>5 DEF ScanZipEntry, Scanning, EntryCount, ZipIsDir
  <2>2. ~ZipIsDir(Entry) => ~ZipTrailing(Entry.name)
    BY DEF ZipIsDir
  <2> QED  BY <2>1, <2>2, ZipRefusals, TakingKeepsTree
<1>6. CASE ScanSzEntry
  <2>1. /\ scan = "scan" /\ at <= EntryCount /\ SzIsDir(Entry) \in BOOLEAN
        /\ TakeEntry(SzRefusal(Entry), SzIsDir(Entry))
    BY <1>6 DEF ScanSzEntry, Scanning, EntryCount, SzIsDir
  <2>2. SzRefusal(Entry) = "ok" => ~ZipTrailing(Entry.name)
    BY <1>3, <2>1, SzRefusals, NoTrailingFile DEF SzNameStatus
  <2> QED  BY <2>1, <2>2, SzRefusals, TakingKeepsTree
<1>7. CASE ScanRarEntry
  <2>1. scan = "scan" /\ at <= EntryCount /\ RarIsDir(Entry) \in BOOLEAN
    BY <1>7 DEF ScanRarEntry, Scanning, EntryCount, RarIsDir
  <2>2. CASE Entry.split /\ (~Entry.enc \/ input.password)
    <3>1. at' = at + 1 /\ UNCHANGED <<input, names, taken>>
      BY <1>7, <2>2 DEF ScanRarEntry
    <3> QED  BY <1>1, <1>2, <3>1
  <2>3. CASE ~(Entry.split /\ (~Entry.enc \/ input.password))
    <3>1. TakeEntry(RarRefusal(Entry), RarIsDir(Entry))
      BY <1>7, <2>3 DEF ScanRarEntry
    <3>2. RarRefusal(Entry) = "ok" => ~ZipTrailing(Entry.name)
      BY <1>3, <2>1, RarRefusals, NoTrailingFile DEF RarNameStatus
    <3> QED  BY <2>1, <3>1, <3>2, RarRefusals, TakingKeepsTree
  <2> QED  BY <2>2, <2>3
<1>8. CASE ScanFails
  BY <1>1, <1>2, <1>8 DEF ScanFails
<1>9. CASE ScanEnds
  BY <1>1, <1>2, <1>9 DEF ScanEnds
<1>10. CASE ReopenRar
  BY <1>1, <1>2, <1>10 DEF ReopenRar
<1>11. CASE ExtractRarEntry
  BY <1>1, <1>2, <1>11 DEF ExtractRarEntry
<1>12. CASE ExtractRarEnds
  BY <1>1, <1>2, <1>12 DEF ExtractRarEnds
<1> QED  BY <1>4, <1>5, <1>6, <1>7, <1>8, <1>9, <1>10, <1>11, <1>12 DEF ScanNext

\* The entries a scan accepts are a tree, whatever the archive, the hashes of its
\* names and the size of the table, and a lookup answers for every name what they
\* say of it: nameset_add_path and nameset_check_duplicate under the scans of the
\* three engines.
THEOREM AcceptedAlwaysTree == ScanSpec => []AcceptedIsTree
<1>1. TreeInv => AcceptedIsTree
  <2> SUFFICES ASSUME TreeInv PROVE AcceptedIsTree
    OBVIOUS
  <2>1. \A k \in DOMAIN Hash : GetName(names, k) = Expected(k)
    BY DEF TreeInv
  <2>2. ASSUME NEW i \in DOMAIN taken, NEW j \in DOMAIN taken, i # j, ~taken[i].dir
        PROVE  ~IsPrefix(Path(taken[i]), Path(taken[j]))
    <3>1. /\ taken[i].name \in DOMAIN Hash /\ taken[j].name \in DOMAIN Hash
          /\ ~ZipTrailing(taken[i].name) /\ taken[i].name \notin Line(taken[j].name)
      BY <2>2, TakenTyped DEF TreeInv
    <3>2. Path(taken[i]) = taken[i].name
      BY <3>1 DEF Path
    <3> QED  BY <3>1, <3>2, PrefixIsOnLine
  <2> QED  BY <2>1, <2>2 DEF AcceptedIsTree
<1> QED  BY <1>1, TreeInit, TreeStep, PTL DEF ScanSpec

-------------------------------------------------------------------------------
(* The plan of a folder: where in its stream each entry begins.            *)

SumsUp(s, n, f) == f = [i \in 0 .. n |-> IF i = 0 THEN 0 ELSE f[i - 1] + s[i]]

LEMMA SumsExist ==
  ASSUME NEW s, NEW n \in Nat
  PROVE  \E f : SumsUp(s, n, f)
<1> DEFINE P == { m \in 0 .. n : \E f : SumsUp(s, m, f) }
<1>1. 0 \in P
  <2> DEFINE f == [i \in 0 .. 0 |-> 0]
  <2>1. SumsUp(s, 0, f)
    BY DEF SumsUp
  <2> QED  BY <2>1
<1>2. ASSUME NEW m \in 0 .. n - 1, m \in P PROVE m + 1 \in P
  <2>1. PICK f : SumsUp(s, m, f)
    BY <1>2
  <2> DEFINE next == f[m] + s[m + 1]
             g == [i \in 0 .. m + 1 |-> IF i = m + 1 THEN next ELSE f[i]]
             h == [i \in 0 .. m + 1 |-> IF i = 0 THEN 0 ELSE g[i - 1] + s[i]]
  <2> HIDE DEF next
  <2>2. m \in Nat /\ g[m + 1] = next /\ \A j \in 0 .. m : g[j] = f[j]
    <3>1. m \in Nat
      OBVIOUS
    <3> HIDE DEF h, P
    <3> QED  BY <3>1
  <2>3. ASSUME NEW i \in 0 .. m + 1 PROVE g[i] = h[i]
    <3>1. h[i] = IF i = 0 THEN 0 ELSE g[i - 1] + s[i]
      OBVIOUS
    <3> HIDE DEF g, h
    <3>2. CASE i = m + 1
      <4>1. i # 0 /\ i - 1 = m /\ m \in 0 .. m
        BY <2>2, <3>2
      <4> QED  BY <2>2, <3>1, <3>2, <4>1 DEF next
    <3>3. CASE i # m + 1
      <4>1. i \in 0 .. m /\ (i # 0 => i - 1 \in 0 .. m)
        BY <2>2, <3>3
      <4>2. f[i] = IF i = 0 THEN 0 ELSE f[i - 1] + s[i]
        BY <2>1, <4>1, Zenon DEF SumsUp
      <4> QED  BY <2>2, <3>1, <4>1, <4>2
    <3> QED  BY <3>2, <3>3
  <2>4. DOMAIN g = 0 .. m + 1 /\ DOMAIN h = 0 .. m + 1
        /\ g = [i \in DOMAIN g |-> g[i]] /\ h = [i \in DOMAIN h |-> h[i]]
    OBVIOUS
  <2> HIDE DEF g
  <2>5. g = h
    <3> HIDE DEF h
    <3> QED  BY <2>3, <2>4
  <2>6. SumsUp(s, m + 1, g)
    BY <2>5 DEF SumsUp
  <2> QED  BY <1>2, <2>6
<1> HIDE DEF P
<1>3. n \in P
  BY <1>1, <1>2, Upwards
<1> QED  BY <1>3 DEF P

LEMMA SumFacts ==
  ASSUME NEW s \in Seq(Nat)
  PROVE  /\ SumTo(s, 0) = 0
         /\ \A n \in 0 .. Len(s) - 1 : SumTo(s, n + 1) = SumTo(s, n) + s[n + 1]
         /\ \A n \in 0 .. Len(s) : SumTo(s, n) \in Nat
<1> DEFINE f == CHOOSE g : SumsUp(s, Len(s), g)
<1>1. Len(s) \in Nat
  OBVIOUS
<1>2. SumsUp(s, Len(s), f)
  BY <1>1, SumsExist
<1>3. \A n : SumTo(s, n) = f[n]
  BY DEF SumTo, SumsUp
<1> HIDE DEF f
<1> DEFINE l == Len(s)
<1>4. l \in Nat /\ \A i \in 1 .. l : s[i] \in Nat
  OBVIOUS
<1>5. f = [i \in 0 .. l |-> IF i = 0 THEN 0 ELSE f[i - 1] + s[i]]
  BY <1>2 DEF SumsUp
<1> HIDE DEF l
<1>6. \A i \in 0 .. l : f[i] = IF i = 0 THEN 0 ELSE f[i - 1] + s[i]
  BY <1>5, Zenon
<1>7. f[0] = 0
  <2>1. 0 \in 0 .. l
    BY <1>4
  <2>2. f[0] = IF 0 = 0 THEN 0 ELSE f[0 - 1] + s[0]
    BY <1>6, <2>1, Zenon
  <2> QED  BY <2>2
<1>8. ASSUME NEW n \in 0 .. l - 1 PROVE f[n + 1] = f[n] + s[n + 1]
  <2>1. n + 1 \in 0 .. l /\ n + 1 # 0 /\ (n + 1) - 1 = n
    BY <1>4
  <2>2. f[n + 1] = IF n + 1 = 0 THEN 0 ELSE f[(n + 1) - 1] + s[n + 1]
    BY <1>6, <2>1, Zenon
  <2> QED  BY <2>1, <2>2
<1> DEFINE P == { n \in 0 .. l : f[n] \in Nat }
<1>9. 0 \in P
  BY <1>4, <1>7
<1>10. ASSUME NEW n \in 0 .. l - 1, n \in P PROVE n + 1 \in P
  <2>1. n + 1 \in 1 .. l /\ n + 1 \in 0 .. l
    BY <1>4
  <2>2. f[n] \in Nat /\ s[n + 1] \in Nat
    BY <1>4, <1>10, <2>1
  <2>3. f[n + 1] \in Nat
    BY <1>8, <2>2
  <2> QED  BY <2>1, <2>3
<1>11. \A n \in 0 .. l : n \in P
  <2> HIDE DEF P
  <2> QED  BY <1>4, <1>9, <1>10, Upwards
<1> QED  BY <1>3, <1>7, <1>8, <1>11 DEF l

\* What is behind a place in the stream covers every entry before it.
LEMMA SumGrows ==
  ASSUME NEW s \in Seq(Nat), NEW n \in 0 .. Len(s), NEW e \in 1 .. n
  PROVE  s[e] <= SumTo(s, n)
<1>1. /\ SumTo(s, 0) = 0
      /\ \A m \in 0 .. Len(s) - 1 : SumTo(s, m + 1) = SumTo(s, m) + s[m + 1]
      /\ \A m \in 0 .. Len(s) : SumTo(s, m) \in Nat
  BY SumFacts
<1>2. n \in Nat /\ e \in Nat /\ Len(s) \in Nat /\ \A i \in 1 .. Len(s) : s[i] \in Nat
  OBVIOUS
<1> DEFINE P == { m \in 0 .. n : e <= m => s[e] <= SumTo(s, m) }
<1>3. 0 \in P
  BY <1>2
<1>4. ASSUME NEW m \in 0 .. n - 1, m \in P PROVE m + 1 \in P
  <2>1. m + 1 \in 0 .. n /\ m + 1 \in 1 .. Len(s) /\ m \in 0 .. Len(s) - 1 /\ m \in 0 .. Len(s)
    BY <1>2
  <2>2. SumTo(s, m + 1) = SumTo(s, m) + s[m + 1] /\ SumTo(s, m) \in Nat /\ s[m + 1] \in Nat
    BY <1>1, <1>2, <2>1
  <2>3. CASE e <= m
    <3>1. s[e] <= SumTo(s, m) /\ s[e] \in Nat
      BY <1>2, <1>4, <2>3
    <3>2. s[e] <= SumTo(s, m + 1)
      BY <2>2, <3>1
    <3> QED  BY <2>1, <3>2
  <2>4. CASE e = m + 1
    <3>1. s[e] <= SumTo(s, m + 1)
      BY <2>2, <2>4
    <3> QED  BY <2>1, <3>1
  <2>5. CASE e > m + 1
    BY <1>2, <2>1, <2>5
  <2> QED  BY <1>2, <2>1, <2>3, <2>4, <2>5
<1>5. n \in P
  <2> HIDE DEF P
  <2>1. \A m \in 0 .. n : m \in P
    BY <1>2, <1>3, <1>4, Upwards
  <2> QED  BY <1>2, <2>1
<1> QED  BY <1>2, <1>5

-------------------------------------------------------------------------------
(* Each entry of a 7z folder gets its own slice.                           *)

FolderForm == [sizes : Seq(Nat), crcs : SUBSET Nat, crc : BOOLEAN, lzma2 : BOOLEAN]

SolidTypes ==
  /\ archive \in SolidArchives
  /\ folder \in 1 .. Len(archive.folders) + 1
  /\ mode \in {"start", "mt", "chain", "check", "empty"}
  /\ given \in Nat /\ planPos \in Nat \ {0} /\ written \in Nat
  /\ chunk \in Seq(Nat) /\ folderCrc \in Seq(Nat) /\ entryCrc \in Seq(Nat)
  /\ fdOpen \in BOOLEAN
  /\ file \in [Entries -> Seq(Nat)]

\* Where the extraction is when it decodes, is done, and succeeded.
PhaseInv ==
  /\ mode \in {"mt", "chain", "check"} => folder <= Len(archive.folders)
  /\ mode = "empty" \/ status = "ok" => folder > Len(archive.folders)
  /\ status = "run" /\ mode \notin {"mt", "chain"} => chunk = <<>>
  /\ mode = "start" => ~fdOpen

\* What SolidSlices says of an entry, and of the entries behind the current folder;
\* those ahead have no file yet.
HasSlice(p) ==
  /\ Len(file[p]) = Sizes(p[1])[p[2]]
  /\ \A i \in DOMAIN file[p] : file[p][i] \in {Slice(p[1], p[2])[i], Damaged}
  /\ (p[2] \in archive.folders[p[1]].crcs \/ archive.folders[p[1]].crc)
       => file[p] = Slice(p[1], p[2])
PastInv == \A p \in Entries : p[1] < folder => HasSlice(p)
AheadInv ==
  \A p \in Entries : p[1] > folder \/ (p[1] = folder /\ mode = "start") => file[p] = <<>>

\* The current folder.  The sink is at planPos, with `written` bytes in an open file;
\* what it closed has its size and passed its checksum.
PlanInv ==
  /\ planPos \in 1 .. Len(Folder.sizes) + 1
  /\ fdOpen => /\ planPos <= Len(Folder.sizes) /\ written < Folder.sizes[planPos]
               /\ Len(file[<<folder, planPos>>]) = written
               /\ entryCrc = file[<<folder, planPos>>]
  /\ ~fdOpen => written = 0
  /\ \A e \in 1 .. planPos - 1 :
       /\ Len(file[<<folder, e>>]) = Folder.sizes[e]
       /\ e \in Folder.crcs => file[<<folder, e>>] = Slice(folder, e)

\* The sink has had what the decoder gave, and more once the chain began again behind
\* a parallel decoder that had given something: then it never comes out even.
SinkAt == SumTo(Folder.sizes, planPos - 1) + written
StreamInv ==
  /\ SinkAt + Len(chunk) >= given
  /\ mode = "mt" => SinkAt + Len(chunk) = given
  /\ mode = "check" => chunk = <<>> /\ (SinkAt = given \/ given = UnpackSize(folder))

\* While it is even, each byte is at the place the decoder gave it for.
Place(i, e) == 10 * folder + SumTo(Folder.sizes, e - 1) + i
Clean == \A j \in DOMAIN folderCrc : folderCrc[j] = 10 * folder + j
InPlace(b, place) == b \in {place, Damaged} /\ (Clean => b = place)
BytesInv ==
  SinkAt + Len(chunk) = given =>
    /\ \A e \in 1 .. Len(Folder.sizes) :
         e < planPos \/ (e = planPos /\ fdOpen) =>
           \A i \in DOMAIN file[<<folder, e>>] : InPlace(file[<<folder, e>>][i], Place(i, e))
    /\ \A i \in DOMAIN chunk : InPlace(chunk[i], Place(written + i, planPos))

Decoding == status = "run" /\ mode \in {"mt", "chain", "check"}
SolidInv ==
  /\ SolidTypes /\ PhaseInv /\ PastInv /\ AheadInv
  /\ Decoding => PlanInv /\ StreamInv /\ BytesInv

LEMMA FolderFacts ==
  ASSUME SolidTypes, NEW f \in 1 .. Len(archive.folders)
  PROVE  /\ archive.folders[f] \in FolderForm
         /\ Sizes(f) \in Seq(Nat) /\ Len(Sizes(f)) \in Nat /\ Sizes(f) = archive.folders[f].sizes
         /\ \A e \in 1 .. Len(Sizes(f)) : <<f, e>> \in Entries /\ Sizes(f)[e] \in Nat
         /\ \A p \in Entries : p = <<p[1], p[2]>> /\ p[1] \in 1 .. Len(archive.folders)
                               /\ (p[1] = f => p[2] \in 1 .. Len(Sizes(f)))
<1>1. archive.folders \in Seq(FolderForm)
  BY SolidAssumption DEF SolidTypes, FolderForm
<1>2. archive.folders[f] \in FolderForm
  BY <1>1
<1>3. Sizes(f) \in Seq(Nat) /\ Sizes(f) = archive.folders[f].sizes
  BY <1>2 DEF Sizes, FolderForm
<1>4. Len(Sizes(f)) \in Nat /\ \A e \in 1 .. Len(Sizes(f)) : Sizes(f)[e] \in Nat
  <2> DEFINE s == Sizes(f)
  <2>1. s \in Seq(Nat)
    BY <1>3
  <2> HIDE DEF s
  <2>2. Len(s) \in Nat /\ \A e \in 1 .. Len(s) : s[e] \in Nat
    BY <2>1
  <2> QED  BY <2>2 DEF s
<1>5. \A e \in 1 .. Len(Sizes(f)) : <<f, e>> \in Entries
  BY DEF Entries
<1>6. ASSUME NEW p \in Entries
      PROVE  p = <<p[1], p[2]>> /\ p[1] \in 1 .. Len(archive.folders)
             /\ (p[1] = f => p[2] \in 1 .. Len(Sizes(f)))
  <2>1. PICK g \in 1 .. Len(archive.folders) : p \in {g} \X (1 .. Len(Sizes(g)))
    BY DEF Entries
  <2> QED  BY <2>1
<1> QED  BY <1>2, <1>3, <1>4, <1>5, <1>6

LEMMA SolidInitially == SolidInit => SolidInv
<1> SUFFICES ASSUME SolidInit PROVE SolidInv
  OBVIOUS
<1>1. archive.folders \in Seq(FolderForm) /\ Len(archive.folders) \in Nat
  BY SolidAssumption DEF SolidInit, FolderForm
<1>2. file = [p \in Entries |-> <<>>] /\ <<>> \in Seq(Nat)
  BY DEF SolidInit
<1>3. file \in [Entries -> Seq(Nat)] /\ \A p \in Entries : file[p] = <<>>
  BY <1>2
<1>4. SolidTypes
  <2>1. folder \in 1 .. Len(archive.folders) + 1
    <3>1. 1 \in 1 .. Len(archive.folders) + 1
      BY <1>1
    <3> QED  BY <3>1 DEF SolidInit
  <2>2. chunk \in Seq(Nat) /\ folderCrc \in Seq(Nat) /\ entryCrc \in Seq(Nat)
    BY <1>2 DEF SolidInit
  <2>3. fdOpen \in BOOLEAN
    BY Zenon DEF SolidInit
  <2> QED  BY <1>3, <2>1, <2>2, <2>3 DEF SolidInit, SolidTypes
<1>5. PastInv
  <2>1. \A p \in Entries : p[1] \in 1 .. Len(archive.folders)
    BY DEF Entries
  <2> QED  BY <2>1 DEF SolidInit, PastInv
<1> QED  BY <1>3, <1>4, <1>5 DEF SolidInit, SolidInv, PhaseInv, AheadInv, Decoding

\* Where the files, the archive and the folder stay.
LEMMA SolidSame ==
  ASSUME SolidInv, UNCHANGED <<archive, file>>
  PROVE  /\ Entries' = Entries
         /\ \A p \in Entries : HasSlice(p)' = HasSlice(p)
         /\ folder' = folder => Folder' = Folder /\ PastInv'
         /\ folder' = folder /\ (mode' = "start" => mode = "start") => AheadInv'
         /\ \A f \in 1 .. Len(archive.folders) : UnpackSize(f)' = UnpackSize(f)
<1>1. Entries' = Entries
  BY DEF Entries, Sizes
<1>2. ASSUME NEW p \in Entries PROVE HasSlice(p)' = HasSlice(p)
  BY DEF HasSlice, Sizes, Slice, SumTo
<1>3. folder' = folder => Folder' = Folder
  BY DEF Folder
<1>4. folder' = folder => PastInv'
  BY <1>1, <1>2 DEF SolidInv, PastInv
<1>5. folder' = folder /\ (mode' = "start" => mode = "start") => AheadInv'
  BY <1>1 DEF SolidInv, AheadInv
<1>6. \A f \in 1 .. Len(archive.folders) : UnpackSize(f)' = UnpackSize(f)
  BY DEF UnpackSize, Sizes, SumTo
<1> QED  BY <1>1, <1>2, <1>3, <1>4, <1>5, <1>6

\* What the invariants on the current folder look at.
LEMMA SinkSame ==
  ASSUME UNCHANGED <<archive, folder, planPos, written, fdOpen, file, entryCrc>>
  PROVE  /\ PlanInv' = PlanInv /\ SinkAt' = SinkAt
         /\ UNCHANGED <<given, chunk, folderCrc>> => BytesInv' = BytesInv
<1>1. Folder' = Folder /\ \A f, e : Slice(f, e)' = Slice(f, e)
  BY DEF Folder, Slice, Sizes, SumTo
<1>2. PlanInv' = PlanInv
  BY <1>1 DEF PlanInv
<1>3. SinkAt' = SinkAt
  BY <1>1 DEF SinkAt, SumTo
<1>4. ASSUME UNCHANGED <<given, chunk, folderCrc>> PROVE BytesInv' = BytesInv
  <2>1. (\A i, d : Place(i, d)' = Place(i, d)) /\ Clean' = Clean
    BY <1>1, <1>4 DEF Place, Clean, SumTo
  <2>2. \A b, place : InPlace(b, place)' = InPlace(b, place)
    BY <2>1 DEF InPlace
  <2> QED  BY <1>1, <1>3, <1>4, <2>1, <2>2 DEF BytesInv
<1> QED  BY <1>2, <1>3, <1>4

LEMMA StreamPlaces ==
  ASSUME NEW f \in Nat, NEW a \in Nat, NEW w \in Nat, NEW i \in Nat
  PROVE  /\ \A g : a + w = g => 10 * f + a + (w + i) = 10 * f + g + i
         /\ \A t \in Nat : \A z : w + t = z =>
              10 * f + a + (w + (t + i)) = 10 * f + (a + z) + (0 + i)
<1> DEFINE F == 10 * f
<1>1. F \in Nat
  OBVIOUS
<1> HIDE DEF F
<1>2. /\ F + a + (w + i) = F + (a + w) + i
      /\ \A t \in Nat : F + a + (w + (t + i)) = F + (a + (w + t)) + (0 + i)
  BY <1>1
<1> QED  BY <1>2 DEF F

LEMMA EndsKeep ==
  ASSUME SolidInv, NEW s, s # "run", s = "ok" => folder > Len(archive.folders), EndWith(s)
  PROVE  SolidInv'
<1>1. /\ UNCHANGED <<archive, folder, mode, given, planPos, written, file, entryCrc, folderCrc>>
      /\ status' = s /\ chunk' = <<>> /\ fdOpen' = FALSE
  BY DEF EndWith
<1>2. Entries' = Entries /\ PastInv' /\ AheadInv'
  BY <1>1, SolidSame
<1>3. SolidTypes'
  <2>1. chunk' \in Seq(Nat)
    BY <1>1
  <2>2. fdOpen' \in BOOLEAN
    BY <1>1, Zenon
  <2> QED  BY <1>1, <1>2, <2>1, <2>2 DEF SolidInv, SolidTypes
<1>4. PhaseInv'
  BY <1>1 DEF SolidInv, PhaseInv
<1> QED  BY <1>1, <1>2, <1>3, <1>4 DEF SolidInv, Decoding

LEMMA CancelKeeps == SolidInv /\ CancelSolid => SolidInv'
<1> SUFFICES ASSUME SolidInv, CancelSolid PROVE SolidInv'
  OBVIOUS
<1>1. UNCHANGED <<archive, folder, mode, given, chunk, planPos, written, fdOpen, file, entryCrc,
                  folderCrc, status>>
  BY DEF CancelSolid, placeVars
<1>2. Entries' = Entries /\ Folder' = Folder /\ PastInv' /\ AheadInv'
  BY <1>1, SolidSame
<1>3. SolidTypes' /\ PhaseInv'
  BY <1>1, <1>2 DEF SolidInv, SolidTypes, PhaseInv
<1>4. Decoding' = Decoding
  BY <1>1 DEF Decoding
<1>5. PlanInv' = PlanInv
  BY <1>1, SinkSame
<1>6. StreamInv' = StreamInv
  BY <1>1, <1>2 DEF StreamInv, SinkAt, UnpackSize, Sizes, SumTo
<1>7. BytesInv' = BytesInv
  BY <1>1, SinkSame
<1> QED  BY <1>2, <1>3, <1>4, <1>5, <1>6, <1>7 DEF SolidInv

\* A folder without bytes has only empty entries.
LEMMA StartKeeps == SolidInv /\ StartFolder => SolidInv'
<1> SUFFICES ASSUME SolidInv, StartFolder PROVE SolidInv'
  OBVIOUS
<1>1. /\ SolidTypes /\ PhaseInv /\ PastInv /\ AheadInv
      /\ status = "run" /\ mode = "start" /\ chunk = <<>> /\ folder <= Len(archive.folders)
  BY DEF SolidInv, StartFolder, Busy
<1>2. /\ Len(archive.folders) \in Nat /\ folder \in 1 .. Len(archive.folders)
      /\ folder + 1 \in 1 .. Len(archive.folders) + 1
  <2>1. archive.folders \in Seq(FolderForm)
    BY <1>1, SolidAssumption DEF SolidTypes, FolderForm
  <2>2. Len(archive.folders) \in Nat
    BY <2>1
  <2> QED  BY <1>1, <2>2 DEF SolidTypes
<1>3. /\ Sizes(folder) \in Seq(Nat) /\ Len(Sizes(folder)) \in Nat /\ Sizes(folder) = Folder.sizes
      /\ \A p \in Entries : p = <<p[1], p[2]>> /\ p[1] \in 1 .. Len(archive.folders)
                            /\ (p[1] = folder => p[2] \in 1 .. Len(Sizes(folder)))
  BY <1>1, <1>2, FolderFacts DEF Folder
<1>4. CASE EndWith("CANCELED") \/ EndWith("FORMAT")
  BY <1>4, EndsKeep
<1>5. CASE /\ UnpackSize(folder) = 0 /\ folder' = folder + 1
           /\ UNCHANGED <<archive, mode, given, chunk, placeVars, folderCrc, canceled, status>>
  <2>1. UNCHANGED <<archive, mode, given, chunk, planPos, written, fdOpen, file, entryCrc,
                    folderCrc, status>>
    BY <1>5 DEF placeVars
  <2>2. Entries' = Entries /\ \A p \in Entries : HasSlice(p)' = HasSlice(p)
    BY <2>1, SolidSame
  <2>3. SolidTypes' /\ PhaseInv'
    BY <1>1, <1>2, <1>5, <2>1, <2>2 DEF SolidTypes, PhaseInv
  <2>4. ASSUME NEW p \in Entries, p[1] = folder PROVE HasSlice(p)
    <3>1. file[p] = <<>>
      BY <1>1, <2>4 DEF AheadInv
    <3>2. p[2] \in 1 .. Len(Sizes(folder))
      BY <1>3, <2>4
    <3>3. Sizes(folder)[p[2]] <= 0 /\ Sizes(folder)[p[2]] \in Nat
      <4> DEFINE s == Sizes(folder)
                 n == Len(s)
                 e == p[2]
      <4>1. s \in Seq(Nat) /\ n \in 0 .. Len(s) /\ e \in 1 .. n /\ SumTo(s, n) = 0
        BY <1>3, <1>5, <3>2 DEF UnpackSize
      <4>2. s[e] \in Nat
        BY <1>3, <3>2
      <4> HIDE DEF s, n, e
      <4>3. s[e] <= SumTo(s, n)
        BY <4>1, SumGrows
      <4> QED  BY <4>1, <4>2, <4>3 DEF s, e
    <3>4. Sizes(folder)[p[2]] = 0
      BY <3>3
    <3>5. Slice(folder, p[2]) = <<>>
      <4>1. Slice(folder, p[2]) = [i \in 1 .. 0 |-> 10 * folder + SumTo(Sizes(folder), p[2] - 1) + i]
        BY <3>4 DEF Slice
      <4> QED  BY <4>1
    <3>6. Len(file[p]) = 0 /\ DOMAIN file[p] = {}
      BY <3>1
    <3> QED  BY <2>4, <3>1, <3>4, <3>5, <3>6 DEF HasSlice
  <2>5. PastInv'
    <3>1. ASSUME NEW p \in Entries, p[1] < folder + 1 PROVE HasSlice(p)
      <4>1. p[1] < folder \/ p[1] = folder
        BY <1>2, <1>3, <3>1
      <4> QED  BY <1>1, <2>4, <4>1 DEF PastInv
    <3> QED  BY <1>5, <2>2, <3>1 DEF PastInv
  <2>6. AheadInv'
    <3>1. ASSUME NEW p \in Entries, p[1] > folder + 1 \/ p[1] = folder + 1 PROVE file[p] = <<>>
      <4>1. p[1] > folder
        BY <1>2, <1>3, <3>1
      <4> QED  BY <1>1, <4>1 DEF AheadInv
    <3> QED  BY <1>5, <2>1, <2>2, <3>1 DEF AheadInv
  <2>7. ~Decoding'
    BY <1>1, <2>1 DEF Decoding
  <2> QED  BY <2>3, <2>5, <2>6, <2>7 DEF SolidInv
<1>6. CASE /\ mode' = (IF Folder.lzma2 THEN "mt" ELSE "chain")
           /\ planPos' = 1 /\ written' = 0 /\ given' = 0 /\ folderCrc' = <<>>
           /\ UNCHANGED <<archive, folder, chunk, fdOpen, file, entryCrc, entriesDone, canceled,
                          status>>
  <2>1. mode' \in {"mt", "chain"}
    BY <1>6
  <2>2. Entries' = Entries /\ Folder' = Folder /\ PastInv' /\ AheadInv'
    BY <1>6, <2>1, SolidSame
  <2>3. SolidTypes'
    <3>1. folderCrc' \in Seq(Nat) /\ planPos' \in Nat \ {0} /\ written' \in Nat /\ given' \in Nat
      BY <1>6
    <3> QED  BY <1>1, <1>6, <2>1, <2>2, <3>1 DEF SolidTypes
  <2>4. PhaseInv'
    BY <1>1, <1>6, <2>1 DEF PhaseInv
  <2>5. ~fdOpen' /\ chunk' = <<>>
    BY <1>1, <1>6 DEF PhaseInv
  <2>6. PlanInv'
    <3>1. 1 \in 1 .. Len(Folder.sizes) + 1
      BY <1>3
    <3>2. planPos' - 1 = 0
      BY <1>6
    <3> QED  BY <1>6, <2>2, <2>5, <3>1, <3>2 DEF PlanInv
  <2>7. SinkAt' = 0
    <3>1. SumTo(Folder.sizes, 0) = 0
      BY <1>3, SumFacts
    <3>2. SumTo(Folder.sizes, planPos - 1)' = SumTo(Folder.sizes, 0)
      BY <1>6, <2>2 DEF SumTo
    <3> QED  BY <1>6, <3>1, <3>2 DEF SinkAt
  <2>8. StreamInv'
    BY <1>6, <2>1, <2>5, <2>7 DEF StreamInv
  <2>9. BytesInv'
    <3>1. DOMAIN chunk' = {}
      BY <2>5
    <3>2. \A e \in Nat \ {0} : ~(e < planPos')
      BY <1>6
    <3> QED  BY <2>5, <3>1, <3>2 DEF BytesInv
  <2> QED  BY <2>2, <2>3, <2>4, <2>6, <2>8, <2>9 DEF SolidInv
<1> QED  BY <1>4, <1>5, <1>6 DEF StartFolder

\* What a decoder gives goes to the folder's checksum and to the sink: damage that
\* the sink gets is damage in the checksum.
LEMMA HandKeeps == SolidInv /\ HandOut => SolidInv'
<1> SUFFICES ASSUME SolidInv, HandOut PROVE SolidInv'
  OBVIOUS
<1>1. /\ SolidTypes /\ PhaseInv /\ status = "run" /\ mode \in {"mt", "chain"} /\ chunk = <<>>
      /\ PlanInv /\ StreamInv /\ BytesInv
  BY DEF SolidInv, HandOut, Busy, Decoding
<1>15. PICK k \in 1 .. SolidChunk : \E bad \in 0 .. k :
        /\ chunk' = [i \in 1 .. k |-> IF i = bad THEN Damaged ELSE 10 * folder + given + i]
        /\ given' = given + k /\ folderCrc' = folderCrc \o chunk'
  BY DEF HandOut
<1>2. PICK bad \in 0 .. k :
        /\ chunk' = [i \in 1 .. k |-> IF i = bad THEN Damaged ELSE 10 * folder + given + i]
        /\ given' = given + k /\ folderCrc' = folderCrc \o chunk'
  BY <1>15
<1>3. /\ UNCHANGED <<archive, folder, mode, planPos, written, fdOpen, file, entryCrc, status>>
      /\ k \in Nat
  BY SolidAssumption DEF HandOut, placeVars
<1>4. /\ folder \in Nat \ {0} /\ given \in Nat /\ planPos \in Nat \ {0} /\ written \in Nat
      /\ folderCrc \in Seq(Nat) /\ Len(folderCrc) \in Nat
  BY <1>1 DEF SolidTypes
<1>5. /\ Folder' = Folder /\ Entries' = Entries /\ PastInv' /\ AheadInv'
  BY <1>3, SolidSame
<1>6. /\ chunk' \in Seq(Nat) /\ Len(chunk') = k /\ DOMAIN chunk' = 1 .. k
      /\ \A i \in 1 .. k : chunk'[i] = IF i = bad THEN 0 ELSE 10 * folder + given + i
  <2>1. \A i \in 1 .. k : (IF i = bad THEN Damaged ELSE 10 * folder + given + i) \in Nat
    BY <1>4 DEF Damaged
  <2> QED  BY <1>2, <1>3, <2>1 DEF Damaged
<1>7. /\ folderCrc' \in Seq(Nat) /\ Len(folderCrc') = Len(folderCrc) + k
      /\ \A j \in 1 .. Len(folderCrc) : folderCrc'[j] = folderCrc[j]
      /\ \A i \in 1 .. k : folderCrc'[Len(folderCrc) + i] = chunk'[i]
  <2> DEFINE new == chunk'
  <2>1. new \in Seq(Nat) /\ Len(new) = k /\ folderCrc' = folderCrc \o new
    BY <1>2, <1>6
  <2> HIDE DEF new
  <2>2. /\ folderCrc \o new \in Seq(Nat) /\ Len(folderCrc \o new) = Len(folderCrc) + k
        /\ \A j \in 1 .. Len(folderCrc) : (folderCrc \o new)[j] = folderCrc[j]
        /\ \A i \in 1 .. k : (folderCrc \o new)[Len(folderCrc) + i] = new[i]
    BY <1>3, <1>4, <2>1
  <2> QED  BY <2>1, <2>2 DEF new
<1>14. SumTo(Folder.sizes, planPos - 1) \in Nat
  <2>1. folder \in 1 .. Len(archive.folders)
    BY <1>1 DEF SolidTypes, PhaseInv
  <2>2. Folder.sizes \in Seq(Nat) /\ Len(Folder.sizes) \in Nat
    BY <1>1, <2>1, FolderFacts DEF Folder
  <2>3. planPos - 1 \in 0 .. Len(Folder.sizes)
    BY <1>1, <1>4, <2>2 DEF PlanInv
  <2> QED  BY <2>2, <2>3, SumFacts
<1>8. SinkAt' = SinkAt /\ SinkAt \in Nat
  <2>1. SinkAt' = SinkAt
    BY <1>3, <1>5 DEF SinkAt, SumTo
  <2> QED  BY <1>4, <1>14, <2>1 DEF SinkAt
<1>9. SolidTypes' /\ PhaseInv'
  <2>1. given' \in Nat
    BY <1>2, <1>3, <1>4
  <2>2. SolidTypes'
    BY <1>1, <1>3, <1>5, <1>6, <1>7, <2>1 DEF SolidTypes
  <2>3. PhaseInv'
    BY <1>1, <1>3 DEF PhaseInv
  <2> QED  BY <2>2, <2>3
<1>10. PlanInv'
  <2>1. PlanInv' = PlanInv
    BY <1>3, <1>5 DEF PlanInv, Slice, Sizes, SumTo
  <2> QED  BY <1>1, <2>1
<1>11. Len(chunk) = 0 /\ Len(chunk') = k /\ given' = given + k
  BY <1>1, <1>2, <1>6
<1>12. StreamInv'
  BY <1>1, <1>3, <1>4, <1>8, <1>11 DEF StreamInv
<1>13. BytesInv'
  <2> SUFFICES ASSUME SinkAt' + Len(chunk') = given' PROVE BytesInv'
    BY DEF BytesInv
  <2>1. SinkAt = given /\ SinkAt + Len(chunk) = given
    BY <1>3, <1>4, <1>8, <1>11
  <2>2. Clean' => Clean
    <3> SUFFICES ASSUME Clean', NEW j \in DOMAIN folderCrc PROVE folderCrc[j] = 10 * folder + j
      BY DEF Clean
    <3>1. j \in 1 .. Len(folderCrc) /\ j \in Nat
      BY <1>4
    <3>2. j \in DOMAIN folderCrc'
      BY <1>3, <1>4, <1>7, <3>1
    <3> QED  BY <1>3, <1>7, <3>1, <3>2 DEF Clean
  <2>3. Clean' => \A i \in 1 .. k : chunk'[i] = 10 * folder + given + i
    <3> SUFFICES ASSUME Clean', NEW i \in 1 .. k PROVE chunk'[i] = 10 * folder + given + i
      OBVIOUS
    <3>1. Len(folderCrc) + i \in DOMAIN folderCrc'
      BY <1>3, <1>4, <1>7
    <3>2. chunk'[i] = 10 * folder + (Len(folderCrc) + i)
      BY <1>3, <1>7, <3>1 DEF Clean
    <3>3. chunk'[i] # 0
      BY <1>3, <1>4, <3>2
    <3> QED  BY <1>6, <3>3
  <2>4. \A i, e : Place(i, e)' = Place(i, e)
    BY <1>3, <1>5 DEF Place, SumTo
  <2>5. ASSUME NEW e \in 1 .. Len(Folder.sizes), e < planPos \/ (e = planPos /\ fdOpen),
               NEW i \in DOMAIN file[<<folder, e>>]
        PROVE  InPlace(file[<<folder, e>>][i], Place(i, e))'
    <3>1. InPlace(file[<<folder, e>>][i], Place(i, e))
      BY <1>1, <2>1, <2>5 DEF BytesInv
    <3> QED  BY <1>3, <2>2, <2>4, <3>1 DEF InPlace
  <2>6. ASSUME NEW i \in 1 .. k PROVE InPlace(chunk[i], Place(written + i, planPos))'
    <3> DEFINE sum == SumTo(Folder.sizes, planPos - 1)
    <3>1. sum + written = given
      BY <2>1 DEF SinkAt
    <3>2. Place(written + i, planPos)' = 10 * folder + sum + (written + i)
      BY <1>3, <1>5 DEF Place, SumTo
    <3>3. sum \in Nat
      BY <1>14
    <3> HIDE DEF sum
    <3>4. Place(written + i, planPos)' = 10 * folder + given + i
      <4>1. i \in Nat /\ folder \in Nat /\ written \in Nat
        BY <1>3, <1>4
      <4>2. 10 * folder + sum + (written + i) = 10 * folder + given + i
        BY <3>1, <3>3, <4>1, StreamPlaces
      <4> QED  BY <3>2, <4>2
    <3>5. chunk'[i] = 0 \/ chunk'[i] = 10 * folder + given + i
      BY <1>6
    <3> QED  BY <2>3, <3>4, <3>5 DEF InPlace, Damaged
  <2>7. UNCHANGED <<folder, planPos, fdOpen, file>> /\ Folder' = Folder /\ DOMAIN chunk' = 1 .. k
    BY <1>3, <1>5, <1>6
  <2> QED  BY <2>5, <2>6, <2>7 DEF BytesInv
<1> QED  BY <1>1, <1>3, <1>5, <1>9, <1>10, <1>12, <1>13 DEF SolidInv

LEMMA JoinedUp ==
  ASSUME NEW s \in Seq(Nat), NEW t \in Seq(Nat)
  PROVE  /\ s \o t \in Seq(Nat) /\ Len(s \o t) = Len(s) + Len(t)
         /\ \A i \in 1 .. Len(s) : (s \o t)[i] = s[i]
         /\ \A i \in 1 .. Len(t) : (s \o t)[Len(s) + i] = t[i]
OBVIOUS

\* The sink puts what it has behind what it put before, and closes an entry that is
\* full: its place in the stream moves on by what it took.
LEMMA PlaceKeeps == SolidInv /\ SinkPlaces => SolidInv'
<1> SUFFICES ASSUME SolidInv, SinkPlaces PROVE SolidInv'
  OBVIOUS
<1>1. /\ SolidTypes /\ PhaseInv /\ status = "run" /\ mode \in {"mt", "chain"} /\ chunk # <<>>
      /\ PlanInv /\ StreamInv /\ BytesInv /\ PastInv /\ AheadInv
      /\ planPos <= Len(Folder.sizes)
  BY DEF SolidInv, SinkPlaces, Decoding, PhaseInv
<1> DEFINE e == planPos
           p == <<folder, e>>
           size == Folder.sizes[e]
           room == size - written
           take == IF Len(chunk) < room THEN Len(chunk) ELSE room
           part == SubSeq(chunk, 1, take)
           full == written + take = size
           had == IF fdOpen THEN file[p] ELSE <<>>
           crc == (IF fdOpen THEN entryCrc ELSE <<>>) \o part
           bytes == had \o part
           bad == full /\ e \in Folder.crcs /\ crc # Slice(folder, e)
<1>2. /\ file' = [file EXCEPT ![p] = bytes]
      /\ entryCrc' = crc /\ fdOpen' = ~full
      /\ chunk' = IF bad THEN <<>> ELSE SubSeq(chunk, take + 1, Len(chunk))
      /\ status' = IF bad THEN "CRC" ELSE status
      /\ written' = IF full /\ ~bad THEN 0 ELSE written + take
      /\ planPos' = IF full /\ ~bad THEN e + 1 ELSE e
      /\ UNCHANGED <<archive, folder, mode, given, folderCrc>>
  BY DEF SinkPlaces
<1>3. /\ folder \in 1 .. Len(archive.folders) /\ folder \in Nat \ {0}
      /\ given \in Nat /\ planPos \in Nat \ {0} /\ written \in Nat
      /\ chunk \in Seq(Nat) /\ entryCrc \in Seq(Nat) /\ file \in [Entries -> Seq(Nat)]
  BY <1>1 DEF SolidTypes, PhaseInv
<1>4. /\ Folder.sizes \in Seq(Nat) /\ Len(Folder.sizes) \in Nat /\ Folder.sizes = Sizes(folder)
      /\ e \in 1 .. Len(Folder.sizes) /\ size \in Nat /\ p \in Entries
      /\ \A d \in 1 .. Len(Folder.sizes) : <<folder, d>> \in Entries
  <2> DEFINE S == Folder.sizes
  <2>1. /\ S \in Seq(Nat) /\ Len(S) \in Nat /\ S = Sizes(folder)
        /\ \A d \in 1 .. Len(S) : <<folder, d>> \in Entries /\ S[d] \in Nat
    BY <1>1, <1>3, FolderFacts DEF Folder
  <2>2. e \in 1 .. Len(S)
    BY <1>1, <1>3, <2>1
  <2> HIDE DEF S, e, size
  <2>3. S[e] \in Nat /\ <<folder, e>> \in Entries
    BY <2>1, <2>2
  <2> QED  BY <2>1, <2>2, <2>3 DEF S, size
<1>5. /\ had \in Seq(Nat) /\ Len(had) = written /\ written <= size
      /\ (fdOpen => entryCrc = had) /\ crc = bytes
  <2>1. CASE fdOpen
    <3>1. /\ written < size /\ Len(file[p]) = written /\ entryCrc = file[p]
      BY <1>1, <2>1 DEF PlanInv
    <3>2. had = file[p] /\ crc = entryCrc \o part /\ bytes = had \o part
      BY <2>1
    <3>3. file[p] \in Seq(Nat)
      BY <1>3, <1>4
    <3> HIDE DEF had, crc, bytes, part, size, p
    <3> QED  BY <1>3, <1>4, <3>1, <3>2, <3>3
  <2>2. CASE ~fdOpen
    <3>1. had = <<>> /\ written = 0 /\ crc = bytes
      BY <1>1, <2>2 DEF PlanInv
    <3> HIDE DEF had, size
    <3> QED  BY <1>4, <2>2, <3>1
  <2> QED  BY <2>1, <2>2
<1>6. /\ room \in Nat /\ take \in Nat /\ take <= Len(chunk) /\ written + take <= size
      /\ Len(chunk) \in Nat \ {0} /\ (~full => take = Len(chunk) /\ written + take < size)
  <2> DEFINE l == Len(chunk)
  <2>1. l \in Nat \ {0}
    BY <1>1, <1>3
  <2> HIDE DEF l, size, had
  <2> QED  BY <1>3, <1>4, <1>5, <2>1 DEF l
<1> HIDE DEF size, had, room, take, crc, bad, full, bytes
<1>7. /\ part \in Seq(Nat) /\ Len(part) = take /\ \A i \in 1 .. take : part[i] = chunk[i]
  BY <1>3, <1>6
<1>8. /\ SubSeq(chunk, take + 1, Len(chunk)) \in Seq(Nat)
      /\ Len(SubSeq(chunk, take + 1, Len(chunk))) = Len(chunk) - take
      /\ \A i \in 1 .. Len(chunk) - take :
           SubSeq(chunk, take + 1, Len(chunk))[i] = chunk[take + i]
  BY <1>3, <1>6
<1> HIDE DEF part
<1>18. bytes = had \o part
  BY DEF bytes
<1>9. /\ bytes \in Seq(Nat) /\ Len(bytes) = written + take
      /\ \A i \in 1 .. written : bytes[i] = had[i]
      /\ \A i \in 1 .. take : bytes[written + i] = part[i]
  <2>1. /\ had \o part \in Seq(Nat) /\ Len(had \o part) = Len(had) + Len(part)
        /\ \A i \in 1 .. Len(had) : (had \o part)[i] = had[i]
        /\ \A i \in 1 .. Len(part) : (had \o part)[Len(had) + i] = part[i]
    BY <1>5, <1>7, JoinedUp
  <2> QED  BY <1>5, <1>7, <1>18, <2>1
<1>10. /\ Entries' = Entries /\ Folder' = Folder /\ file' \in [Entries -> Seq(Nat)]
       /\ file'[p] = bytes /\ \A q \in Entries \ {p} : file'[q] = file[q]
  <2>1. Entries' = Entries /\ Folder' = Folder
    BY <1>2 DEF Entries, Sizes, Folder
  <2> HIDE DEF p
  <2> QED  BY <1>2, <1>3, <1>4, <1>9, <2>1
<1>11. PastInv'
  <2>1. ASSUME NEW q \in Entries, q[1] < folder PROVE HasSlice(q)'
    <3>1. q # p /\ HasSlice(q)
      BY <1>1, <1>3, <2>1 DEF PastInv
    <3>2. file'[q] = file[q]
      BY <1>10, <3>1
    <3>3. Sizes(q[1])' = Sizes(q[1]) /\ Slice(q[1], q[2])' = Slice(q[1], q[2])
      BY <1>2 DEF Sizes, Slice, SumTo
    <3> QED  BY <1>2, <3>1, <3>2, <3>3 DEF HasSlice
  <2> QED  BY <1>2, <1>10, <2>1 DEF PastInv
<1>12. AheadInv'
  <2>1. ASSUME NEW q \in Entries, q[1] > folder \/ (q[1] = folder /\ mode' = "start")
        PROVE  file'[q] = <<>>
    <3>1. mode' # "start" /\ q[1] > folder
      BY <1>1, <1>2, <2>1
    <3>2. q # p
      BY <1>3, <3>1
    <3> QED  BY <1>1, <1>10, <3>1, <3>2 DEF AheadInv
  <2> QED  BY <1>2, <1>10, <2>1 DEF AheadInv
<1>13. chunk' \in Seq(Nat) /\ entryCrc' \in Seq(Nat) /\ fdOpen' \in BOOLEAN
       /\ written' \in Nat /\ planPos' \in Nat \ {0}
  <2>1. fdOpen' \in BOOLEAN
    BY <1>2 DEF full
  <2>2. chunk' \in Seq(Nat)
    <3>1. <<>> \in Seq(Nat)
      OBVIOUS
    <3> QED  BY <1>2, <1>8, <3>1
  <2>3. entryCrc' \in Seq(Nat)
    BY <1>2, <1>5, <1>9
  <2> QED  BY <1>2, <1>3, <1>6, <2>1, <2>2, <2>3
<1>14. SolidTypes'
  BY <1>1, <1>2, <1>10, <1>13 DEF SolidTypes
<1>15. PhaseInv'
  BY <1>1, <1>2 DEF PhaseInv
<1>16. ASSUME ~bad PROVE PlanInv' /\ StreamInv' /\ BytesInv'
  <2>1. /\ chunk' = SubSeq(chunk, take + 1, Len(chunk)) /\ Len(chunk') = Len(chunk) - take
        /\ status' = status
        /\ written' = IF full THEN 0 ELSE written + take
        /\ planPos' = IF full THEN e + 1 ELSE e
    BY <1>2, <1>8, <1>16
  <2>2. SumTo(Folder.sizes, e) = SumTo(Folder.sizes, e - 1) + size
        /\ SumTo(Folder.sizes, e - 1) \in Nat
    <3>1. e - 1 \in 0 .. Len(Folder.sizes) - 1 /\ e - 1 \in 0 .. Len(Folder.sizes) /\ (e - 1) + 1 = e
      BY <1>3, <1>4
    <3>2. SumTo(Folder.sizes, (e - 1) + 1) = SumTo(Folder.sizes, e - 1) + Folder.sizes[(e - 1) + 1]
      BY <1>4, <3>1, SumFacts
    <3>3. SumTo(Folder.sizes, e - 1) \in Nat
      BY <1>4, <3>1, SumFacts
    <3> QED  BY <3>1, <3>2, <3>3 DEF size
  <2>3. SinkAt' = SinkAt + take /\ SinkAt \in Nat
    <3> DEFINE before == SumTo(Folder.sizes, e - 1)
    <3>1. SinkAt = before + written
      BY DEF SinkAt
    <3>2. SinkAt' = SumTo(Folder.sizes, planPos' - 1) + written'
      BY <1>10 DEF SinkAt, SumTo
    <3>3. CASE full
      <4>1. planPos' - 1 = e /\ written' = 0 /\ written + take = size
        BY <1>3, <2>1, <3>3 DEF full
      <4>2. SinkAt' = (before + size) + 0
        BY <2>2, <3>2, <4>1
      <4>3. before \in Nat
        BY <2>2
      <4>4. written \in Nat /\ take \in Nat /\ size \in Nat
        BY <1>3, <1>4, <1>6
      <4> HIDE DEF before, full, size, e
      <4>5. (before + written) + take = before + (written + take) /\ before + written \in Nat
        BY <4>3, <4>4
      <4>6. SinkAt' = before + size
        BY <4>2, <4>3, <4>4
      <4> QED  BY <3>1, <4>1, <4>5, <4>6
    <3>4. CASE ~full
      <4>1. SinkAt' = before + (written + take)
        BY <2>1, <3>2, <3>4
      <4>2. before \in Nat /\ written \in Nat /\ take \in Nat
        BY <1>3, <1>6, <2>2
      <4> HIDE DEF before, e
      <4> QED  BY <3>1, <4>1, <4>2
    <3> QED  BY <3>3, <3>4
  <2>4. SinkAt' + Len(chunk') = SinkAt + Len(chunk)
    <3> DEFINE l == Len(chunk)
               m == Len(chunk')
    <3>1. m = l - take /\ l \in Nat /\ take \in Nat
      BY <1>6, <2>1
    <3> HIDE DEF l, m
    <3>2. SinkAt' + m = SinkAt + l
      BY <2>3, <3>1
    <3> QED  BY <3>2 DEF l, m
  <2>5. StreamInv'
    <3>1. mode' \in {"mt", "chain"} /\ mode' = mode /\ given' = given
      BY <1>1, <1>2
    <3> QED  BY <1>1, <2>4, <3>1 DEF StreamInv
  <2>6. PlanInv'
    <3>1. planPos' \in 1 .. Len(Folder.sizes) + 1
      BY <1>4, <2>1
    <3>2. fdOpen' => /\ planPos' <= Len(Folder.sizes) /\ written' < Folder.sizes[planPos']
                     /\ Len(file'[<<folder, planPos'>>]) = written'
                     /\ entryCrc' = file'[<<folder, planPos'>>]
      <4> SUFFICES ASSUME ~full
                   PROVE  /\ planPos' <= Len(Folder.sizes) /\ written' < Folder.sizes[planPos']
                          /\ Len(file'[<<folder, planPos'>>]) = written'
                          /\ entryCrc' = file'[<<folder, planPos'>>]
        BY <1>2
      <4>1. planPos' = e /\ written' = written + take /\ written' < size
        BY <1>6, <2>1
      <4> QED  BY <1>1, <1>2, <1>5, <1>9, <1>10, <4>1 DEF size
    <3>3. ~fdOpen' => written' = 0
      BY <1>2, <2>1
    <3>4. ASSUME NEW d \in 1 .. planPos' - 1
          PROVE  /\ Len(file'[<<folder, d>>]) = Folder.sizes[d]
                 /\ d \in Folder.crcs => file'[<<folder, d>>] = Slice(folder, d)
      <4>1. CASE d < e
        <5>1. d \in 1 .. planPos - 1 /\ d \in 1 .. Len(Folder.sizes) /\ <<folder, d>> # p
          BY <1>3, <1>4, <4>1
        <5>2. file'[<<folder, d>>] = file[<<folder, d>>]
          BY <1>4, <1>10, <5>1
        <5> QED  BY <1>1, <5>1, <5>2 DEF PlanInv
      <4>2. CASE ~(d < e)
        <5>1. d = e /\ full
          BY <1>3, <2>1, <4>2
        <5>2. Len(bytes) = size
          BY <1>9, <5>1 DEF full
        <5>3. e \in Folder.crcs => bytes = Slice(folder, e)
          BY <1>5, <1>16, <5>1 DEF bad
        <5> QED  BY <1>10, <5>1, <5>2, <5>3 DEF size
      <4> QED  BY <4>1, <4>2
    <3>5. \A d : Slice(folder, d)' = Slice(folder, d)
      BY <1>2 DEF Slice, Sizes, SumTo
    <3> QED  BY <1>2, <1>10, <3>1, <3>2, <3>3, <3>4, <3>5 DEF PlanInv
  <2>7. BytesInv'
    <3> SUFFICES ASSUME SinkAt' + Len(chunk') = given' PROVE BytesInv'
      BY DEF BytesInv
    <3>1. SinkAt + Len(chunk) = given
      BY <1>2, <2>4
    <3>2. /\ \A d \in 1 .. Len(Folder.sizes) :
               d < planPos \/ (d = planPos /\ fdOpen) =>
                 \A i \in DOMAIN file[<<folder, d>>] : InPlace(file[<<folder, d>>][i], Place(i, d))
          /\ \A i \in DOMAIN chunk : InPlace(chunk[i], Place(written + i, planPos))
      BY <1>1, <3>1 DEF BytesInv
    <3>3. (\A i, d : Place(i, d)' = Place(i, d)) /\ Clean' = Clean
      BY <1>2, <1>10 DEF Place, Clean, SumTo
    <3>4. ASSUME NEW i \in DOMAIN bytes PROVE InPlace(bytes[i], Place(i, e))
      <4>1. i \in Nat \ {0} /\ i <= written + take
        BY <1>3, <1>6, <1>9
      <4>2. CASE i <= written
        <5>1. i \in 1 .. written
          BY <4>1, <4>2
        <5>2. fdOpen
          BY <1>1, <5>1, <1>3 DEF PlanInv
        <5>3. file[p] = had /\ i \in DOMAIN had
          BY <1>3, <1>5, <5>1, <5>2 DEF had
        <5>4. InPlace(had[i], Place(i, e))
          BY <1>4, <3>2, <5>2, <5>3
        <5> QED  BY <1>9, <5>1, <5>4
      <4>3. CASE ~(i <= written)
        <5>1. i - written \in 1 .. take /\ written + (i - written) = i
          BY <1>3, <1>6, <4>1, <4>3
        <5>2. bytes[i] = chunk[i - written] /\ i - written \in DOMAIN chunk
          <6> DEFINE j == i - written
          <6>1. j \in 1 .. take /\ written + j = i
            BY <5>1
          <6> HIDE DEF j
          <6>3. j \in DOMAIN chunk
            BY <1>3, <1>6, <6>1
          <6>2. bytes[written + j] = part[j] /\ part[j] = chunk[j] /\ j \in DOMAIN chunk
            BY <1>7, <1>9, <6>1, <6>3
          <6> QED  BY <6>1, <6>2 DEF j
        <5>3. InPlace(chunk[i - written], Place(written + (i - written), planPos))
          BY <3>2, <5>2
        <5> QED  BY <5>1, <5>2, <5>3
      <4> QED  BY <4>2, <4>3
    <3>5. ASSUME NEW d \in 1 .. Len(Folder.sizes), d < planPos' \/ (d = planPos' /\ fdOpen'),
                 NEW i \in DOMAIN file'[<<folder, d>>]
          PROVE  InPlace(file'[<<folder, d>>][i], Place(i, d))
      <4>1. CASE d = e
        <5>1. i \in DOMAIN bytes
          BY <1>10, <4>1, <3>5
        <5> QED  BY <1>10, <3>4, <4>1, <5>1
      <4>2. CASE d # e
        <5>3. /\ planPos' = e \/ (planPos' = e + 1 /\ ~fdOpen')
              /\ d < planPos' \/ (d = planPos' /\ fdOpen')
          BY <1>2, <2>1, <3>5
        <5>4. d \in Nat /\ e \in Nat
          BY <1>3
        <5>1. d < e /\ <<folder, d>> # p
          <6> HIDE DEF e
          <6> QED  BY <4>2, <5>3, <5>4
        <5>2. file'[<<folder, d>>] = file[<<folder, d>>]
          BY <1>4, <1>10, <5>1
        <5> QED  BY <3>2, <3>5, <5>1, <5>2
      <4> QED  BY <4>1, <4>2
    <3>6. ASSUME NEW i \in DOMAIN chunk' PROVE InPlace(chunk'[i], Place(written' + i, planPos'))
      <4>1. i \in 1 .. Len(chunk) - take /\ i \in Nat
        BY <1>6, <1>13, <2>1
      <4>2. take # Len(chunk) /\ full
        BY <1>6, <4>1
      <4>3. chunk'[i] = chunk[take + i] /\ take + i \in DOMAIN chunk
        <5> DEFINE n == Len(chunk)
        <5>1. n \in Nat /\ take \in Nat /\ DOMAIN chunk = 1 .. n
          BY <1>3, <1>6
        <5>2. i \in 1 .. n - take
          BY <4>1
        <5>3. chunk'[i] = chunk[take + i]
          BY <1>8, <2>1, <4>1
        <5> HIDE DEF n
        <5>4. take + i \in 1 .. n
          BY <5>1, <5>2
        <5> QED  BY <5>1, <5>3, <5>4
      <4>4. InPlace(chunk[take + i], Place(written + (take + i), planPos))
        BY <3>2, <4>3
      <4>5. Place(written + (take + i), e) = Place(0 + i, e + 1)
        <5> DEFINE before == SumTo(Folder.sizes, e - 1)
        <5>1. Place(0 + i, e + 1) = 10 * folder + SumTo(Folder.sizes, (e + 1) - 1) + (0 + i)
              /\ (e + 1) - 1 = e
          BY <1>3 DEF Place
        <5>2. Place(0 + i, e + 1) = 10 * folder + (before + size) + (0 + i)
          BY <2>2, <5>1
        <5>3. Place(written + (take + i), e) = 10 * folder + before + (written + (take + i))
          BY DEF Place
        <5>4. written + take = size
          BY <4>2 DEF full
        <5>5. before \in Nat
          BY <2>2
        <5> HIDE DEF before
        <5>6. 10 * folder + before + (written + (take + i)) = 10 * folder + (before + size) + (0 + i)
          <6>1. folder \in Nat /\ written \in Nat /\ i \in Nat /\ take \in Nat
            BY <1>3, <1>6, <4>1
          <6> HIDE DEF e
          <6> QED  BY <5>4, <5>5, <6>1, StreamPlaces
        <5> QED  BY <5>2, <5>3, <5>6
      <4>6. written' = 0 /\ planPos' = e + 1
        BY <2>1, <4>2
      <4> QED  BY <4>3, <4>4, <4>5, <4>6
    <3>7. /\ folder' = folder /\ Folder' = Folder
      BY <1>2, <1>10
    <3> QED  BY <3>3, <3>5, <3>6, <3>7 DEF BytesInv, InPlace
  <2> QED  BY <2>5, <2>6, <2>7
<1>17. Decoding' => ~bad
  BY <1>2 DEF Decoding
<1> QED  BY <1>11, <1>12, <1>14, <1>15, <1>16, <1>17 DEF SolidInv

LEMMA MtEndsKeep == SolidInv /\ MtEnds => SolidInv'
<1> SUFFICES ASSUME SolidInv, MtEnds PROVE SolidInv'
  OBVIOUS
<1>1. /\ SolidTypes /\ PhaseInv /\ PastInv /\ AheadInv /\ PlanInv /\ StreamInv /\ BytesInv
      /\ status = "run" /\ mode = "mt" /\ chunk = <<>>
  BY DEF SolidInv, MtEnds, Busy, Decoding
<1>2. CASE EndWith("FORMAT") \/ EndWith("CANCELED")
  BY <1>2, EndsKeep
<1>3. CASE mode' = "check"
           /\ UNCHANGED <<archive, folder, given, chunk, placeVars, folderCrc, canceled, status>>
  <2>1. UNCHANGED <<archive, folder, given, chunk, planPos, written, fdOpen, file, entryCrc,
                    folderCrc, status>>
    BY <1>3 DEF placeVars
  <2>2. Entries' = Entries /\ Folder' = Folder /\ PastInv' /\ AheadInv'
    BY <1>3, <2>1, SolidSame
  <2>3. SolidTypes' /\ PhaseInv'
    BY <1>1, <1>3, <2>1, <2>2 DEF SolidTypes, PhaseInv
  <2>4. PlanInv'
    BY <1>1, <2>1, SinkSame
  <2>5. StreamInv'
    <3>1. Len(chunk) = 0 /\ SinkAt + Len(chunk) = given /\ SinkAt' = SinkAt
      BY <1>1, <2>1, <2>2 DEF StreamInv, SinkAt, SumTo
    <3>2. SinkAt \in Nat
      <4>1. folder \in 1 .. Len(archive.folders) /\ Folder.sizes = Sizes(folder)
        BY <1>1 DEF SolidTypes, PhaseInv, Sizes, Folder
      <4>2. Folder.sizes \in Seq(Nat)
        BY <1>1, <4>1, FolderFacts
      <4>3. planPos - 1 \in 0 .. Len(Folder.sizes)
        BY <1>1, <4>2 DEF PlanInv
      <4>4. SumTo(Folder.sizes, planPos - 1) \in Nat
        BY <4>2, <4>3, SumFacts
      <4> QED  BY <1>1, <4>4 DEF SinkAt, SolidTypes
    <3>3. SinkAt' = given' /\ chunk' = <<>> /\ Len(chunk') = 0
      BY <1>1, <2>1, <3>1, <3>2
    <3>4. given' \in Nat
      BY <1>1, <2>1 DEF SolidTypes
    <3> QED  BY <1>3, <3>3, <3>4 DEF StreamInv
  <2>6. BytesInv'
    BY <1>1, <2>1, SinkSame
  <2> QED  BY <2>2, <2>3, <2>4, <2>5, <2>6 DEF SolidInv
<1> QED  BY <1>2, <1>3 DEF MtEnds

\* The walk begins at byte 0; only where nothing was placed is the sink there too.
LEMMA FallsKeep == SolidInv /\ MtFallsBack => SolidInv'
<1> SUFFICES ASSUME SolidInv, MtFallsBack PROVE SolidInv'
  OBVIOUS
<1>1. /\ SolidTypes /\ PhaseInv /\ PastInv /\ AheadInv /\ PlanInv /\ StreamInv /\ BytesInv
      /\ status = "run" /\ mode = "mt" /\ chunk = <<>>
  BY DEF SolidInv, MtFallsBack, Busy, Decoding
<1>2. UNCHANGED <<archive, folder, chunk, planPos, written, fdOpen, file, entryCrc, status>>
      /\ mode' = "chain" /\ given' = 0 /\ folderCrc' = <<>>
  BY DEF MtFallsBack, placeVars
<1>3. Entries' = Entries /\ Folder' = Folder /\ PastInv' /\ AheadInv'
  BY <1>2, SolidSame
<1>4. SolidTypes'
  <2>1. folderCrc' \in Seq(Nat)
    BY <1>2
  <2> QED  BY <1>1, <1>2, <1>3, <2>1 DEF SolidTypes
<1>5. PhaseInv'
  BY <1>1, <1>2 DEF PhaseInv
<1>6. PlanInv'
  BY <1>1, <1>2, SinkSame
<1>7. /\ folder \in 1 .. Len(archive.folders)
      /\ Folder.sizes \in Seq(Nat) /\ Len(Folder.sizes) \in Nat
      /\ \A d \in 1 .. Len(Folder.sizes) : <<folder, d>> \in Entries /\ Folder.sizes[d] \in Nat
  <2>1. folder \in 1 .. Len(archive.folders) /\ Folder.sizes = Sizes(folder)
    BY <1>1 DEF SolidTypes, PhaseInv, Sizes, Folder
  <2> QED  BY <1>1, <2>1, FolderFacts
<1>8. planPos - 1 \in 0 .. Len(Folder.sizes) /\ planPos \in Nat \ {0}
  BY <1>1, <1>7 DEF PlanInv
<1>9. SinkAt \in Nat /\ SumTo(Folder.sizes, planPos - 1) \in Nat /\ written \in Nat
  <2>1. SumTo(Folder.sizes, planPos - 1) \in Nat
    BY <1>7, <1>8, SumFacts
  <2> QED  BY <1>1, <2>1 DEF SinkAt, SolidTypes
<1>10. Len(chunk') = 0 /\ chunk' = <<>> /\ SinkAt' = SinkAt
  BY <1>1, <1>2, <1>3 DEF SinkAt, SumTo
<1>11. StreamInv'
  BY <1>2, <1>9, <1>10 DEF StreamInv
<1>12. BytesInv'
  <2> SUFFICES ASSUME SinkAt' + Len(chunk') = given' PROVE BytesInv'
    BY DEF BytesInv
  <2>1. SinkAt = 0
    BY <1>2, <1>9, <1>10
  <2>2. SumTo(Folder.sizes, planPos - 1) = 0 /\ written = 0
    BY <1>9, <2>1 DEF SinkAt
  <2>3. ASSUME NEW d \in 1 .. Len(Folder.sizes), d < planPos \/ (d = planPos /\ fdOpen)
        PROVE  DOMAIN file[<<folder, d>>] = {}
    <3>1. file[<<folder, d>>] \in Seq(Nat)
      BY <1>1, <1>7 DEF SolidTypes
    <3>2. Len(file[<<folder, d>>]) = 0
      <4>1. CASE d < planPos
        <5>1. d \in 1 .. planPos - 1
          BY <1>8, <4>1
        <5>2. Len(file[<<folder, d>>]) = Folder.sizes[d]
          BY <1>1, <5>1 DEF PlanInv
        <5>3. Folder.sizes[d] <= SumTo(Folder.sizes, planPos - 1)
          <6> DEFINE n == planPos - 1
          <6>1. n \in 0 .. Len(Folder.sizes) /\ d \in 1 .. n
            BY <1>8, <5>1
          <6> HIDE DEF n
          <6>2. Folder.sizes[d] <= SumTo(Folder.sizes, n)
            BY <1>7, <6>1, SumGrows
          <6> QED  BY <6>2 DEF n
        <5>4. Folder.sizes[d] \in Nat
          BY <1>7
        <5> QED  BY <2>2, <5>2, <5>3, <5>4
      <4>2. CASE d = planPos /\ fdOpen
        BY <1>1, <2>2, <4>2 DEF PlanInv
      <4> QED  BY <2>3, <4>1, <4>2
    <3> DEFINE b == file[<<folder, d>>]
    <3>3. b \in Seq(Nat) /\ Len(b) = 0
      BY <3>1, <3>2
    <3> HIDE DEF b
    <3>4. DOMAIN b = {}
      BY <3>3
    <3> QED  BY <3>4 DEF b
  <2>4. DOMAIN chunk' = {}
    BY <1>10
  <2> QED  BY <1>2, <1>3, <2>3, <2>4 DEF BytesInv
<1> QED  BY <1>3, <1>4, <1>5, <1>6, <1>11, <1>12 DEF SolidInv

LEMMA ChainEndsKeep == SolidInv /\ ChainEnds => SolidInv'
<1> SUFFICES ASSUME SolidInv, ChainEnds PROVE SolidInv'
  OBVIOUS
<1>1. /\ SolidTypes /\ PhaseInv /\ PastInv /\ AheadInv /\ PlanInv /\ StreamInv /\ BytesInv
      /\ status = "run" /\ mode = "chain" /\ chunk = <<>>
  BY DEF SolidInv, ChainEnds, Busy, Decoding
<1>2. CASE EndWith("FORMAT")
  BY <1>2, EndsKeep
<1>3. CASE given = UnpackSize(folder) /\ mode' = "check"
           /\ UNCHANGED <<archive, folder, given, chunk, placeVars, folderCrc, canceled, status>>
  <2>1. UNCHANGED <<archive, folder, given, chunk, planPos, written, fdOpen, file, entryCrc,
                    folderCrc, status>>
    BY <1>3 DEF placeVars
  <2>2. Entries' = Entries /\ Folder' = Folder /\ PastInv' /\ AheadInv'
    BY <1>3, <2>1, SolidSame
  <2>3. SolidTypes' /\ PhaseInv'
    BY <1>1, <1>3, <2>1, <2>2 DEF SolidTypes, PhaseInv
  <2>4. PlanInv'
    BY <1>1, <2>1, SinkSame
  <2>5. StreamInv'
    <3>1. UnpackSize(folder)' = UnpackSize(folder)
      BY <2>1 DEF UnpackSize, Sizes, SumTo
    <3>2. given' = UnpackSize(folder)' /\ chunk' = <<>>
      BY <1>1, <1>3, <3>1
    <3>3. (SinkAt + Len(chunk) >= given)' = (SinkAt + Len(chunk) >= given)
      BY <2>1, <2>2 DEF SinkAt, SumTo
    <3> QED  BY <1>1, <1>3, <3>2, <3>3 DEF StreamInv
  <2>6. BytesInv'
    BY <1>1, <2>1, SinkSame
  <2> QED  BY <2>2, <2>3, <2>4, <2>5, <2>6 DEF SolidInv
<1> QED  BY <1>2, <1>3 DEF ChainEnds

\* A folder whose plan is used up and whose checksum is right: the sink came out even
\* with the decoder, so every byte is where it belongs.
LEMMA FolderRight ==
  ASSUME SolidInv, Busy("check"), planPos = Len(Folder.sizes) + 1,
         Folder.crc => folderCrc = FolderBytes(folder),
         NEW p \in Entries, p[1] = folder
  PROVE  HasSlice(p)
<1> DEFINE e == p[2]
           f == file[<<folder, e>>]
           before == SumTo(Folder.sizes, e - 1)
           size == Folder.sizes[e]
<1>1. /\ SolidTypes /\ PhaseInv /\ PlanInv /\ StreamInv /\ BytesInv
      /\ mode = "check" /\ chunk = <<>>
  BY DEF SolidInv, Busy, Decoding
<1>2. folder \in 1 .. Len(archive.folders) /\ folder \in Nat /\ Folder.sizes = Sizes(folder)
  BY <1>1 DEF SolidTypes, PhaseInv, Sizes, Folder
<1>3. /\ Folder.sizes \in Seq(Nat) /\ Len(Folder.sizes) \in Nat
      /\ p = <<folder, e>> /\ e \in 1 .. Len(Folder.sizes)
  BY <1>1, <1>2, FolderFacts
<1>4. size \in Nat /\ f \in Seq(Nat)
  <2>1. \A d \in 1 .. Len(Folder.sizes) : <<folder, d>> \in Entries /\ Folder.sizes[d] \in Nat
    BY <1>1, <1>2, FolderFacts
  <2>2. file \in [Entries -> Seq(Nat)]
    BY <1>1 DEF SolidTypes
  <2> HIDE DEF e
  <2> QED  BY <1>3, <2>1, <2>2
<1>5. SinkAt = given
  <2>1. ~fdOpen /\ written = 0
    BY <1>1, <1>3 DEF PlanInv
  <2>2. planPos - 1 = Len(Folder.sizes) /\ Len(Folder.sizes) \in 0 .. Len(Folder.sizes)
    BY <1>3
  <2>3. SumTo(Folder.sizes, Len(Folder.sizes)) \in Nat
    BY <1>3, <2>2, SumFacts
  <2>4. SinkAt = UnpackSize(folder)
    BY <1>2, <2>1, <2>2, <2>3 DEF SinkAt, UnpackSize
  <2> QED  BY <1>1, <2>4 DEF StreamInv
<1>6. before \in Nat
  <2>1. e - 1 \in 0 .. Len(Folder.sizes)
    BY <1>3
  <2> QED  BY <1>3, <2>1, SumFacts
<1>7. Len(f) = size /\ (e \in Folder.crcs => f = Slice(folder, e))
  <2>1. e \in 1 .. planPos - 1
    BY <1>3
  <2> QED  BY <1>1, <2>1 DEF PlanInv
<1>8. \A i \in DOMAIN f : InPlace(f[i], Place(i, e))
  <2>1. SinkAt + Len(chunk) = given
    BY <1>1, <1>5 DEF SolidTypes
  <2>2. e < planPos
    BY <1>3
  <2> QED  BY <1>1, <1>3, <2>1, <2>2 DEF BytesInv
<1>9. Slice(folder, e) = [i \in 1 .. size |-> 10 * folder + before + i]
  BY <1>2 DEF Slice
<1>10. \A i \in 1 .. size : Slice(folder, e)[i] = Place(i, e)
  <2> HIDE DEF size, before
  <2>1. \A i \in 1 .. size : Slice(folder, e)[i] = 10 * folder + before + i
    BY <1>9
  <2> QED  BY <2>1 DEF Place, before
<1>11. DOMAIN f = 1 .. size
  <2> HIDE DEF f, size
  <2> QED  BY <1>4, <1>7
<1>12. \A i \in DOMAIN f : f[i] \in {Slice(folder, e)[i], Damaged}
  BY <1>8, <1>10, <1>11 DEF InPlace
<1>13. ASSUME Folder.crc PROVE f = Slice(folder, e)
  <2>1. Clean
    <3>1. folderCrc = [i \in 1 .. UnpackSize(folder) |-> 10 * folder + i]
      BY <1>13 DEF FolderBytes
    <3> QED  BY <3>1 DEF Clean
  <2>2. \A i \in 1 .. size : f[i] = Slice(folder, e)[i]
    BY <1>8, <1>10, <1>11, <2>1 DEF InPlace
  <2>3. DOMAIN Slice(folder, e) = 1 .. size /\ Slice(folder, e) = [i \in 1 .. size |-> Slice(folder, e)[i]]
    <3> HIDE DEF size, before
    <3> QED  BY <1>9
  <2>4. f = [i \in 1 .. size |-> f[i]]
    <3> HIDE DEF f, size
    <3> QED  BY <1>4, <1>11
  <2> HIDE DEF f, size
  <2> QED  BY <2>2, <2>3, <2>4
<1>14. HasSlice(<<folder, e>>)
  <2>1. <<folder, e>>[1] = folder /\ <<folder, e>>[2] = e
    OBVIOUS
  <2> HIDE DEF e, f, size
  <2> QED  BY <1>2, <1>7, <1>12, <1>13, <2>1 DEF HasSlice, f, size, Folder
<1> QED  BY <1>3, <1>14

LEMMA CheckKeeps == SolidInv /\ CheckFolder => SolidInv'
<1> SUFFICES ASSUME SolidInv, CheckFolder PROVE SolidInv'
  OBVIOUS
<1>1. /\ SolidTypes /\ PhaseInv /\ PastInv /\ AheadInv
      /\ Busy("check") /\ status = "run" /\ mode = "check" /\ chunk = <<>>
  BY DEF SolidInv, CheckFolder, Busy
<1>2. CASE EndWith("FORMAT") \/ EndWith("CRC")
  BY <1>2, EndsKeep
<1>3. CASE /\ planPos = Len(Folder.sizes) + 1 /\ (Folder.crc => folderCrc = FolderBytes(folder))
           /\ folder' = folder + 1 /\ mode' = "start" /\ fdOpen' = FALSE
           /\ UNCHANGED <<archive, given, chunk, planPos, written, file, entryCrc,
                          folderCrc, entriesDone, canceled, status>>
  <2>1. Entries' = Entries /\ \A p \in Entries : HasSlice(p)' = HasSlice(p)
    BY <1>3, SolidSame
  <2>2. \A p \in Entries : p[1] = folder => HasSlice(p)
    BY <1>1, <1>3, FolderRight
  <2>3. folder \in Nat /\ folder <= Len(archive.folders) /\ folder + 1 \in 1 .. Len(archive.folders) + 1
    <3>1. archive.folders \in Seq(FolderForm)
      BY <1>1, SolidAssumption DEF SolidTypes, FolderForm
    <3>2. Len(archive.folders) \in Nat
      BY <3>1
    <3> QED  BY <1>1, <3>2 DEF SolidTypes, PhaseInv
  <2>4. \A p \in Entries : p[1] \in Nat
    BY DEF Entries
  <2>5. PastInv'
    <3>1. ASSUME NEW p \in Entries, p[1] < folder + 1 PROVE HasSlice(p)
      <4>1. p[1] < folder \/ p[1] = folder
        BY <2>3, <2>4, <3>1
      <4> QED  BY <1>1, <2>2, <4>1 DEF PastInv
    <3> QED  BY <1>3, <2>1, <3>1 DEF PastInv
  <2>6. AheadInv'
    <3>1. ASSUME NEW p \in Entries, p[1] > folder + 1 \/ p[1] = folder + 1 PROVE file[p] = <<>>
      <4>1. p[1] > folder
        BY <2>3, <2>4, <3>1
      <4> QED  BY <1>1, <4>1 DEF AheadInv
    <3> QED  BY <1>3, <2>1, <3>1 DEF AheadInv
  <2>7. SolidTypes'
    <3>1. fdOpen' \in BOOLEAN
      BY <1>3, Zenon
    <3> QED  BY <1>1, <1>3, <2>1, <2>3, <3>1 DEF SolidTypes
  <2>8. PhaseInv' /\ ~Decoding'
    BY <1>1, <1>3 DEF PhaseInv, Decoding
  <2> QED  BY <2>5, <2>6, <2>7, <2>8 DEF SolidInv
<1> QED  BY <1>2, <1>3 DEF CheckFolder

LEMMA EmptyKeeps == SolidInv /\ EmptyEntries => SolidInv'
<1> SUFFICES ASSUME SolidInv, EmptyEntries PROVE SolidInv'
  OBVIOUS
<1>1. /\ SolidTypes /\ PhaseInv /\ PastInv /\ AheadInv
      /\ status = "run" /\ mode = "start" /\ chunk = <<>> /\ folder > Len(archive.folders)
  BY DEF SolidInv, EmptyEntries, Busy
<1>2. CASE EndWith("IO")
  BY <1>2, EndsKeep
<1>3. CASE mode' = "empty"
           /\ UNCHANGED <<archive, folder, given, chunk, planPos, written, fdOpen,
                          file, entryCrc, folderCrc, canceled, status>>
  <2>1. Entries' = Entries /\ PastInv' /\ AheadInv'
    BY <1>3, SolidSame
  <2>2. SolidTypes'
    BY <1>1, <1>3, <2>1 DEF SolidTypes
  <2>3. PhaseInv' /\ ~Decoding'
    BY <1>1, <1>3 DEF PhaseInv, Decoding
  <2> QED  BY <2>1, <2>2, <2>3 DEF SolidInv
<1> QED  BY <1>2, <1>3 DEF EmptyEntries

LEMMA SolidStep == SolidInv /\ [SolidNext]_solidVars => SolidInv'
<1> SUFFICES ASSUME SolidInv, [SolidNext]_solidVars PROVE SolidInv'
  OBVIOUS
<1>1. CASE SinkRefuses
  <2>1. PICK s \in {"FORMAT", "IO"} : EndWith(s)
    BY <1>1 DEF SinkRefuses
  <2> QED  BY <2>1, EndsKeep
<1>2. CASE FinishExtract
  <2>1. PICK s \in {"CANCELED", "FORMAT", "ok"} : EndWith(s)
    BY <1>2 DEF FinishExtract
  <2>2. folder > Len(archive.folders)
    BY <1>2 DEF FinishExtract, Busy, SolidInv, PhaseInv
  <2>3. s # "run"
    BY <2>1
  <2> QED  BY <2>1, <2>2, <2>3, EndsKeep
<1>3. CASE UNCHANGED solidVars
  <2>1. UNCHANGED <<archive, folder, mode, given, chunk, planPos, written, fdOpen, file, entryCrc,
                    folderCrc, status>>
    BY <1>3 DEF solidVars
  <2>2. Entries' = Entries /\ Folder' = Folder /\ PastInv' /\ AheadInv'
    BY <2>1, SolidSame
  <2>3. SolidTypes' /\ PhaseInv'
    BY <2>1, <2>2 DEF SolidInv, SolidTypes, PhaseInv
  <2>4. Decoding' = Decoding
    BY <2>1 DEF Decoding
  <2>5. PlanInv' = PlanInv
    BY <2>1, SinkSame
  <2>6. StreamInv' = StreamInv
    BY <2>1, <2>2 DEF StreamInv, SinkAt, UnpackSize, Sizes, SumTo
  <2>7. BytesInv' = BytesInv
    BY <2>1, SinkSame
  <2> QED  BY <2>2, <2>3, <2>4, <2>5, <2>6, <2>7 DEF SolidInv
<1> QED  BY <1>1, <1>2, <1>3, CancelKeeps, StartKeeps, HandKeeps, PlaceKeeps, MtEndsKeep,
            FallsKeep, ChainEndsKeep, CheckKeeps, EmptyKeeps DEF SolidNext

\* Whatever the archive's folders are and however its bytes are handed out: an
\* extraction of a 7z archive that succeeds (sevenz_extract.c: extract_folders,
\* szx_sink_write, and the walk that begins again behind sevenz_mt.c) has put the
\* whole of its own slice into each entry, exactly it where a checksum covers it.
THEOREM SlicesAlwaysRight == SolidSpec => []SolidSlices
<1>1. SolidInit => SolidInv
  BY SolidInitially
<1>2. SolidInv /\ [SolidNext]_solidVars => SolidInv'
  BY SolidStep
<1>3. SolidInv => SolidSlices
  <2> SUFFICES ASSUME SolidInv, status = "ok", NEW p \in Entries PROVE HasSlice(p)
    BY DEF SolidSlices, HasSlice
  <2>1. folder > Len(archive.folders) /\ folder \in Nat
    BY DEF SolidInv, PhaseInv, SolidTypes
  <2>2. p[1] \in 1 .. Len(archive.folders)
    BY DEF Entries
  <2>3. Len(archive.folders) \in Nat
    <3>1. archive.folders \in Seq(FolderForm)
      BY SolidAssumption DEF SolidInv, SolidTypes, FolderForm
    <3> QED  BY <3>1
  <2>4. p[1] < folder
    BY <2>1, <2>2, <2>3
  <2> QED  BY <2>4 DEF SolidInv, PastInv
<1> QED  BY <1>1, <1>2, <1>3, PTL DEF SolidSpec
===============================================================================
