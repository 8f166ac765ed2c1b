----------------------------- MODULE ArchiveScan ------------------------------
(***************************************************************************)
(* The scan of the three extraction engines: scan_archive of zip_extract.c *)
(* and rar_extract.c, scan_entries of sevenz_extract.c, with the name      *)
(* validation and the hash table of names they share, and the second pass  *)
(* of the RAR engine, which opens the archive again.  The scan writes      *)
(* nothing; what it accepts is what the extract phase then creates.        *)
(*                                                                         *)
(* A name is the sequence of its segments: "/a" is <<"", "a">> and "a/"    *)
(* is <<"a", "">>.  "long" stands for a segment above max_name_len, "ctl"  *)
(* for one with a control character and "c:" for a drive letter.  The 64   *)
(* bit FNV-1a hash is a number per name, and two names never share one.    *)
(***************************************************************************)
EXTENDS Naturals, Sequences, FiniteSetsExt, SequencesExt

CONSTANTS
  ScanInputs,    \* [engine, password, entries]
  Hash,          \* name -> its hash, not 0
  InitCap,       \* slots of a new name table
  MaxEntries, MaxTotal, MaxFile, MaxRatio, RatioMin, MaxDepth,
  PollEvery      \* entries between two polls for cancel

ASSUME HashAssumption ==
  /\ Hash \in [DOMAIN Hash -> Nat \ {0}]
  /\ \A k, l \in DOMAIN Hash : Hash[k] = Hash[l] => k = l
ASSUME NamesAssumption ==
  \A k \in DOMAIN Hash :
    k \in Seq(STRING) \ {<<>>} /\ \A i \in 1 .. Len(k) : SubSeq(k, 1, i) \in DOMAIN Hash
ASSUME EntriesAssumption ==
  \A x \in ScanInputs :
    Len(x.entries) \in Nat /\ \A i \in 1 .. Len(x.entries) : x.entries[i].name \in DOMAIN Hash
ASSUME InitCapAssumption == InitCap \in Nat /\ InitCap >= 4

VARIABLES
  input,
  at,            \* the next entry
  names,         \* the name table
  taken,         \* what the scan accepted, in order
  bytesTotal, entriesTotal,
  scan,          \* "scan", "between", "extract", "ok" or an error
  done, made     \* entries_done; files_created and dirs_created of the RAR pass

scanVars == <<input, at, names, taken, bytesTotal, entriesTotal, scan, done, made>>

-------------------------------------------------------------------------------
(* The name table: open addressing, 0 marks a free slot.                   *)

NewTable(cap) ==
  [cap |-> cap, count |-> 0,
   hash |-> [i \in 0 .. cap - 1 |-> 0], dir |-> [i \in 0 .. cap - 1 |-> FALSE]]

SlotOf(t, h) ==
  LET probe(k) == (h + k) % t.cap
      stops == { k \in 0 .. t.cap - 1 : t.hash[probe(k)] \in {0, h} }
  IN probe(Min(stops))

PutHash(t, h, isDir) ==
  LET i == SlotOf(t, h) IN
  [t EXCEPT !.count = IF t.hash[i] = 0 THEN @ + 1 ELSE @,
            !.hash[i] = h, !.dir[i] = isDir]

Grown(t) ==
  LET moved[i \in 0 .. t.cap] ==
        IF i = 0 THEN NewTable(2 * t.cap)
        ELSE IF t.hash[i - 1] = 0 THEN moved[i - 1]
        ELSE PutHash(moved[i - 1], t.hash[i - 1], t.dir[i - 1])
  IN moved[t.cap]

GetName(t, k) ==
  LET i == SlotOf(t, Hash[k]) IN
  IF t.hash[i] = 0 THEN "absent" ELSE IF t.dir[i] THEN "dir" ELSE "file"

PutName(t, k, isDir) ==
  PutHash(IF t.count * 4 >= t.cap * 3 THEN Grown(t) ELSE t, Hash[k], isDir)

Above(k) == [i \in 1 .. Len(k) - 1 |-> SubSeq(k, 1, i)]

\* mutant: files above are not looked for
ClashesHere(t, k, isDir) ==
  GetName(t, k) = "file" \/ (GetName(t, k) = "dir" /\ ~isDir)

\* nameset_check_duplicate and the clash nameset_add_path looks for.
Clashes(t, k, isDir) ==
  \/ GetName(t, k) = "file"
  \/ GetName(t, k) = "dir" /\ ~isDir
  \/ \E i \in DOMAIN Above(k) : GetName(t, Above(k)[i]) = "file"

AddPath(t, k, isDir) ==
  LET above[i \in 0 .. Len(k) - 1] ==
        IF i = 0 THEN t ELSE PutName(above[i - 1], Above(k)[i], TRUE)
  IN PutName(above[Len(k) - 1], k, isDir)

-------------------------------------------------------------------------------
(* normalize_name.                                                         *)

SegmentStatus(s) ==
  CASE s \in {"", ".", "..", "ctl"} -> "UNSAFE_NAME"
    [] s = "long" -> "LIMIT_NAME"
    [] OTHER -> "ok"

PathStatus(name, segs) ==
  LET bad == { i \in DOMAIN segs : SegmentStatus(segs[i]) # "ok" } IN
  CASE name[1] \in {"", "c:"} -> "UNSAFE_NAME"
    [] name[1] \notin {"", "c:"} /\ bad # {} -> SegmentStatus(segs[Min(bad)])
    [] OTHER -> IF Len(segs) > MaxDepth THEN "LIMIT_DEPTH" ELSE "ok"

\* ZIP announces a directory by a trailing separator, which stays in the name.
ZipTrailing(name) == Len(name) > 1 /\ Last(name) = ""
ZipNameStatus(name) ==
  PathStatus(name, IF ZipTrailing(name) THEN Front(name) ELSE name)

\* RAR and 7z names carry no trailing separator: one is an empty last segment.
RarNameStatus(name) == PathStatus(name, name)
SzNameStatus(name) == PathStatus(name, name)

-------------------------------------------------------------------------------
(* The scan.  FirstOf is the first check that fails, in the order of the   *)
(* code.                                                                   *)

FirstOf(checks) ==
  LET failed == { i \in DOMAIN checks : checks[i][1] } IN
  IF failed = {} THEN "ok" ELSE checks[Min(failed)][2]

AboveTotal(size) == size >= MaxTotal \/ bytesTotal > MaxTotal - size

ZipIsDir(e) == ZipTrailing(e.name) \/ e.kind = "dir"
ZipRefusal(e) ==
  FirstOf(<<
    <<ZipNameStatus(e.name) # "ok", ZipNameStatus(e.name)>>,
    <<e.enc /\ ~input.password, "PASSWORD">>,
    <<e.kind = "symlink", "SPECIAL">>,
    <<~ZipIsDir(e) /\ e.kind = "special", "SPECIAL">>,
    <<Clashes(names, e.name, ZipIsDir(e)), "DUPLICATE">>,
    <<~ZipIsDir(e) /\ e.size > MaxFile, "LIMIT_FILE">>,
    <<~ZipIsDir(e) /\ e.packed > 0 /\ e.size >= RatioMin
        /\ e.size > e.packed * MaxRatio, "LIMIT_RATIO">>,
    <<~ZipIsDir(e) /\ AboveTotal(e.size), "LIMIT_TOTAL">>,
    <<entriesTotal + 1 > MaxEntries, "LIMIT_ENTRIES">> >>)

\* The ratio is not screened, and a special file is whatever unrar makes of it.
RarIsDir(e) == e.kind = "dir"
RarRefusal(e) ==
  FirstOf(<<
    <<e.enc /\ ~input.password, "PASSWORD">>,
    <<RarNameStatus(e.name) # "ok", RarNameStatus(e.name)>>,
    <<Clashes(names, e.name, RarIsDir(e)), "DUPLICATE">>,
    <<~RarIsDir(e) /\ e.size > MaxFile, "LIMIT_FILE">>,
    <<~RarIsDir(e) /\ AboveTotal(e.size), "LIMIT_TOTAL">>,
    <<entriesTotal + 1 > MaxEntries, "LIMIT_ENTRIES">> >>)

\* The ratio is checked per folder, a password per folder in precheck_folders.
SzIsDir(e) == e.kind = "dir"
SzRefusal(e) ==
  FirstOf(<<
    <<SzNameStatus(e.name) # "ok", SzNameStatus(e.name)>>,
    <<e.kind \in {"symlink", "special"}, "SPECIAL">>,
    <<Clashes(names, e.name, SzIsDir(e)), "DUPLICATE">>,
    <<~SzIsDir(e) /\ e.size > MaxFile, "LIMIT_FILE">>,
    <<~SzIsDir(e) /\ e.size > 0 /\ AboveTotal(e.size), "LIMIT_TOTAL">>,
    <<entriesTotal + 1 > MaxEntries, "LIMIT_ENTRIES">> >>)

ScanInit ==
  /\ input \in ScanInputs
  /\ at = 1 /\ names = NewTable(InitCap) /\ taken = <<>>
  /\ bytesTotal = 0 /\ entriesTotal = 0 /\ scan = "scan"
  /\ done = 0 /\ made = [files |-> 0, dirs |-> 0]

Entry == input.entries[at]
Scanning(engine) ==
  scan = "scan" /\ input.engine = engine /\ at <= Len(input.entries)

\* Accepts the entry or ends the scan; after every PollEvery entries a cancel
\* may end it too.
TakeEntry(refusal, isDir) ==
  /\ IF refusal = "ok"
     THEN /\ names' = AddPath(names, Entry.name, isDir)
          /\ taken' = Append(taken, [name |-> Entry.name, dir |-> isDir,
                                     size |-> Entry.size])
          /\ bytesTotal' = IF isDir THEN bytesTotal ELSE bytesTotal + Entry.size
          /\ entriesTotal' = entriesTotal + 1
          /\ at' = at + 1
          /\ \/ scan' = scan
             \/ entriesTotal' % PollEvery = 0 /\ scan' = "CANCELED"
     ELSE /\ scan' = refusal
          /\ UNCHANGED <<names, taken, bytesTotal, entriesTotal, at>>
  /\ UNCHANGED <<input, done, made>>

ScanZipEntry == Scanning("zip") /\ TakeEntry(ZipRefusal(Entry), ZipIsDir(Entry))
ScanSzEntry == Scanning("7z") /\ TakeEntry(SzRefusal(Entry), SzIsDir(Entry))

\* A later segment of a file that spans volumes drives unrar on and counts for
\* nothing; the first one had the whole size.
ScanRarEntry ==
  /\ Scanning("rar")
  /\ IF Entry.split /\ (~Entry.enc \/ input.password)
     THEN /\ at' = at + 1
          /\ UNCHANGED <<input, names, taken, bytesTotal, entriesTotal, scan,
                         done, made>>
     ELSE TakeEntry(RarRefusal(Entry), RarIsDir(Entry))

\* The archive cannot be read on, a NUL in a name, an unknown method.
ScanFails ==
  /\ scan = "scan" /\ at <= Len(input.entries)
  /\ scan' = "FORMAT"
  /\ UNCHANGED <<input, at, names, taken, bytesTotal, entriesTotal, done, made>>

ScanEnds ==
  /\ scan = "scan" /\ at > Len(input.entries)
  /\ scan' = "between"
  /\ UNCHANGED <<input, at, names, taken, bytesTotal, entriesTotal, done, made>>

\* Cancel, check_space() and make_staging(), then the RAR engine opens the
\* archive a second time.
ReopenRar ==
  /\ scan = "between" /\ input.engine = "rar"
  /\ \/ scan' \in {"CANCELED", "SPACE", "IO", "OPEN"} /\ UNCHANGED at
     \/ scan' = "extract" /\ at' = 1
  /\ UNCHANGED <<input, names, taken, bytesTotal, entriesTotal, done, made>>

\* mutant: later segments count
ExtractRarEntryEach ==
  /\ scan = "extract" /\ at <= Len(input.entries)
  /\ at' = at + 1 /\ done' = done + 1
  /\ made' = IF RarIsDir(Entry) THEN [made EXCEPT !.dirs = @ + 1]
             ELSE [made EXCEPT !.files = @ + 1]
  /\ UNCHANGED <<input, names, taken, bytesTotal, entriesTotal, scan>>

\* extract_archive of rar_extract.c; a cancel is seen between two entries.
ExtractRarEntry ==
  /\ scan = "extract" /\ at <= Len(input.entries)
  /\ \/ scan' \in {"CANCELED", "IO", "CRC"} /\ UNCHANGED <<at, done, made>>
     \/ /\ at' = at + 1 /\ UNCHANGED scan
        /\ IF Entry.split THEN UNCHANGED <<done, made>>
           ELSE /\ done' = done + 1
                /\ made' = IF RarIsDir(Entry) THEN [made EXCEPT !.dirs = @ + 1]
                           ELSE [made EXCEPT !.files = @ + 1]
  /\ UNCHANGED <<input, names, taken, bytesTotal, entriesTotal>>

ExtractRarEnds ==
  /\ scan = "extract" /\ at > Len(input.entries)
  /\ scan' \in {"ok", "CANCELED"}
  /\ UNCHANGED <<input, at, names, taken, bytesTotal, entriesTotal, done, made>>

ScanNext ==
  \/ ScanZipEntry \/ ScanSzEntry \/ ScanRarEntry \/ ScanFails \/ ScanEnds
  \/ ReopenRar \/ ExtractRarEntry \/ ExtractRarEnds

ScanSpec == ScanInit /\ [][ScanNext]_scanVars

-------------------------------------------------------------------------------
(* Properties.                                                             *)

\* What the accepted entries say of a name: directories come with what is below
\* them too.
Expected(k) ==
  IF \E i \in DOMAIN taken : \/ k \in Range(Above(taken[i].name))
                             \/ taken[i].name = k /\ taken[i].dir
  THEN "dir"
  ELSE IF \E i \in DOMAIN taken : taken[i].name = k THEN "file" ELSE "absent"

Path(e) == IF ZipTrailing(e.name) THEN Front(e.name) ELSE e.name
\* The entries a scan accepts are a tree: no file is there twice, is also a
\* directory, or has something below it, whatever the order of the entries and
\* however a directory is spelled; and for that the hash table answers for every
\* name what the entries accepted so far say of it, through collisions,
\* wrap-around and every time it grew.  (What a refused entry leaves in the
\* table and the totals is never read.)
AcceptedIsTree ==
  /\ \A k \in DOMAIN Hash : GetName(names, k) = Expected(k)
  /\ \A i, j \in DOMAIN taken :
       i # j /\ ~taken[i].dir => ~IsPrefix(Path(taken[i]), Path(taken[j]))

\* The two passes over a RAR set count the same entries: a file split over
\* volumes is one entry in both, and success means all of them were written.
RarPassesAgree ==
  scan = "ok" => done = entriesTotal /\ made.files + made.dirs = entriesTotal

===============================================================================
