----------------------------- MODULE VolumeDetect -----------------------------
(***************************************************************************)
(* How a selected file becomes the set of volumes it belongs to            *)
(* (src/src/zipx_volume.c), and how the ZIP engine opens that set          *)
(* (open_archive in src/src/zip_extract.c).                                *)
(*                                                                         *)
(* A file name is a record: its stem; its style; its number; how many      *)
(* zeros pad the number; and whether its extension is in capitals.         *)
(*   "digit"  stem.001, the stem ending in .zip, .7z or .rar               *)
(*   "z"      stem.z01                                                     *)
(*   "zip"    stem.zip                                                     *)
(*   "part"   stem.part1.zip                                               *)
(*   "other"  anything else, stem.001 of an unknown kind too               *)
(***************************************************************************)
EXTENDS Naturals, Sequences, FiniteSets

CONSTANTS
  Folders,    \* directories, each a set of names
  MaxParts,   \* ZIPX_VOL_MAX_PARTS, 512
  Layouts     \* how the archive was split: "disk", "concat"; "bad" for neither

ASSUME DetectAssumption ==
  /\ MaxParts \in Nat \ {0}
  /\ Layouts \subseteq {"disk", "concat", "bad"}
  /\ \A d \in Folders : IsFiniteSet(d)

VARIABLES
  dir,        \* the directory's names
  sel,        \* the name selected
  split,      \* how its archive was really split
  stage,      \* the detector at work, then "open" and "over"
  listed,     \* names scan_parts has collected
  volumes,    \* vol->paths, <<>> for an ordinary file
  volMode,    \* vol->mode
  attempt,    \* of open_archive
  streams,    \* streams held
  found,      \* "set", "single", "refused"; "unreadable" when it cannot be opened
  faulted     \* memory ran out, or a directory or a file could not be read

detectVars == <<dir, sel, split, stage, listed, volumes, volMode, attempt,
                streams, found, faulted>>

DetectInit ==
  /\ dir \in Folders /\ sel \in dir /\ split \in Layouts
  /\ stage = "digit" /\ listed = {} /\ volumes = <<>> /\ volMode = "none"
  /\ attempt = 0 /\ streams = 0 /\ found = "unknown" /\ faulted = FALSE

-------------------------------------------------------------------------------
(* Detection.  Four detectors look at the name in turn.                    *)

Detectors == <<"digit", "z", "tail", "part">>
Detecting == \E i \in 1 .. 4 : Detectors[i] = stage
After(s) == LET i == CHOOSE k \in 1 .. 4 : Detectors[k] = s
            IN IF i = 4 THEN "open" ELSE Detectors[i + 1]

\* The name has the form the detector looks for; capitals do not matter here.
\* name.part1.zip ends in .zip too, but no volume is called name.part1.z01.
Applies == CASE stage = "tail" -> sel.style \in {"zip", "part"}
             [] OTHER          -> sel.style = stage

\* match_numbered compares the prefix and the suffix byte by byte.
Wanted(n) ==
  /\ n.stem = sel.stem /\ ~n.capitals
  /\ CASE stage = "tail" -> sel.style = "zip" /\ n.style = "z"
       [] OTHER          -> n.style = stage

\* The last of name.z01 ... name.zip takes a place of its own.
Room == IF stage \in {"z", "tail"} THEN MaxParts - 1 ELSE MaxParts

Conclude(f) == found' = f /\ stage' = (IF f = "refused" THEN "over" ELSE "open")

\* The detector returns 0: the next one looks.
Pass ==
  /\ listed' = {} /\ stage' = After(stage)
  /\ found' = IF stage = "part" THEN "single" ELSE found
  /\ UNCHANGED <<volumes, volMode>>

NotMine == Detecting /\ ~Applies /\ Pass
           /\ UNCHANGED <<dir, sel, split, attempt, streams, faulted>>

\* scan_parts: readdir hands out the names in any order.
ListName ==
  /\ Detecting /\ Applies
  /\ \E n \in dir \ listed :
       /\ Wanted(n)
       /\ IF Cardinality(listed) >= Room
          THEN Conclude("refused") /\ listed' = {}
          ELSE listed' = listed \union {n} /\ UNCHANGED <<stage, found>>
  /\ UNCHANGED <<dir, sel, split, volumes, volMode, attempt, streams, faulted>>

\* The directory cannot be read, or memory for a path or the set runs out.
DetectFails ==
  /\ Detecting /\ Applies
  /\ Conclude("refused") /\ listed' = {} /\ faulted' = TRUE
  /\ UNCHANGED <<dir, sel, split, volumes, volMode, attempt, streams>>

\* check_contiguous: the numbers are 1 .. count, each once.
Contiguous(s) == { n.num : n \in s } = 1 .. Cardinality(s)

\* qsort by number, and volume_take.
\* mutant: the parts are not sorted
InOrderUnsorted(s) ==
  [i \in 1 .. Cardinality(s) |-> CHOOSE n \in s : n.num = Cardinality(s) + 1 - i]
InOrder(s) == [i \in 1 .. Cardinality(s) |-> CHOOSE n \in s : n.num = i]
TakeSet(paths, mode) ==
  Conclude("set") /\ volumes' = paths /\ volMode' = mode /\ listed' = {}

Refuse == Conclude("refused") /\ listed' = {} /\ UNCHANGED <<volumes, volMode>>

AllListed == Detecting /\ Applies /\ \A n \in dir : Wanted(n) => n \in listed

\* detect_digit_suffix and detect_part_suffix.  A volume alone is an error.
\* (A part set is taken for split disks, a byte split for a concatenation.)
NumberedSet ==
  /\ AllListed /\ stage \in {"digit", "part"}
  /\ CASE listed = {}                                          -> Pass
       [] Cardinality(listed) = 1 \/ (listed # {} /\ ~Contiguous(listed)) -> Refuse
       [] OTHER -> TakeSet(InOrder(listed), IF stage = "digit" THEN "concat" ELSE "disk")
  /\ UNCHANGED <<dir, sel, split, attempt, streams, faulted>>

\* detect_z_suffix looks for stem.zip, detect_zip_tail was given it.
LastDisk == IF stage = "tail" THEN { sel }
            ELSE { n \in dir : n.style = "zip" /\ n.stem = sel.stem /\ ~n.capitals }

DiskSet ==
  /\ AllListed /\ stage \in {"z", "tail"}
  /\ CASE listed = {} -> Pass
       [] listed # {} /\ (~Contiguous(listed) \/ LastDisk = {}) -> Refuse
       [] OTHER -> \E last \in LastDisk : TakeSet(Append(InOrder(listed), last), "disk")
  /\ UNCHANGED <<dir, sel, split, attempt, streams, faulted>>

-------------------------------------------------------------------------------
(* open_archive.                                                           *)

\* mutant: the same layout again
OtherUnchanged(mode) == mode
Other(mode) == IF mode = "disk" THEN "concat" ELSE "disk"
Layout == IF attempt = 0 THEN volMode ELSE Other(volMode)
Tries == IF found = "set" THEN 2 ELSE 1

\* mz_zip_open finds the index; an ordinary file has no layout to guess.
Fits == IF found = "set" THEN split = Layout ELSE split # "bad"

\* No memory for the stream or the reader.
NoMemory ==
  /\ stage = "open" /\ streams = 0
  /\ stage' = "over" /\ found' = "unreadable" /\ faulted' = TRUE
  /\ UNCHANGED <<dir, sel, split, listed, volumes, volMode, attempt, streams>>

NewStream ==
  /\ stage = "open" /\ streams = 0
  /\ streams' = 1
  /\ UNCHANGED <<dir, sel, split, stage, listed, volumes, volMode, attempt, found,
                 faulted>>

\* The index is found, and the stream stays open.
OpenFits ==
  /\ stage = "open" /\ streams = 1 /\ Fits
  /\ stage' = "over"
  /\ UNCHANGED <<dir, sel, split, listed, volumes, volMode, attempt, streams, found,
                 faulted>>

\* The index is not where this layout puts it, or a volume cannot be read any
\* more: the stream is given back and the other layout tried.
OpenMisfits ==
  /\ stage = "open" /\ streams = 1
  /\ faulted' \in IF Fits THEN { TRUE } ELSE { faulted, TRUE }
  /\ streams' = 0
  /\ IF attempt + 1 < Tries
     THEN attempt' = attempt + 1 /\ UNCHANGED <<stage, found>>
     ELSE stage' = "over" /\ found' = "unreadable" /\ UNCHANGED attempt
  /\ UNCHANGED <<dir, sel, split, listed, volumes, volMode>>

DetectNext ==
  \/ NotMine \/ ListName \/ DetectFails \/ NumberedSet \/ DiskSet
  \/ NoMemory \/ NewStream \/ OpenFits \/ OpenMisfits

DetectSpec == DetectInit /\ [][DetectNext]_detectVars

-------------------------------------------------------------------------------
(* Properties.                                                             *)

\* The set a name belongs to, said without regard to how it is looked for: the
\* names of its stem and scheme, numbered from 1 without a gap or a double, and
\* stem.zip behind the z volumes.
Scheme(n) == CASE n.style \in {"z", "zip"} -> "z" [] OTHER -> n.style
Family(n) == { m \in dir : m.style = Scheme(n) /\ m.stem = n.stem }
Whole(n) ==
  LET k == Cardinality(Family(n)) IN
  /\ { m.num : m \in Family(n) } = 1 .. k
  /\ IF Scheme(n) = "z"
     THEN k \in 1 .. MaxParts - 1
          /\ \E m \in dir : m.style = "zip" /\ m.stem = n.stem
     ELSE Scheme(n) \in {"digit", "part"} /\ k \in 2 .. MaxParts
IsWholeSet(v, n) ==
  LET k == Cardinality(Family(n)) IN
  /\ \A i \in 1 .. k : v[i] \in Family(n) /\ v[i].num = i
  /\ IF Scheme(n) = "z"
     THEN Len(v) = k + 1 /\ v[k + 1].style = "zip" /\ v[k + 1].stem = n.stem
     ELSE Len(v) = k

\* Whichever volume the user selects, the same ordered set is found, only a
\* whole one is, and every whole one is: the four detectors and the two ways into
\* a z set agree.  (Names in capitals are not all recognised; this is about the
\* others.)
MembersAgree ==
  (\A n \in dir : ~n.capitals) =>
    /\ found = "set" => Whole(sel) /\ IsWholeSet(volumes, sel)
    /\ found \in {"single", "refused"} /\ ~faulted => ~Whole(sel)

\* A set is opened in the layout it was written in, whichever is tried first; it
\* is given up only when it has neither; and an attempt that failed leaves no
\* stream behind.
OpensAsWritten ==
  stage = "over" =>
    /\ streams = (IF found \in {"set", "single"} THEN 1 ELSE 0)
    /\ found = "set" => Layout = split
    /\ found = "unreadable" /\ ~faulted => split = "bad"
===============================================================================
