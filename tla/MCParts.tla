-------------------------------- MODULE MCParts --------------------------------
(***************************************************************************)
(* One run for the parts of the program that share no state: each          *)
(* behaviour is one of them, `running`, from each of its initial states,   *)
(* with the others at rest in one of theirs.                               *)
(***************************************************************************)
EXTENDS VolumeDetect, VolumeStream, ChainGraph, CoderChain, SolidFolder,
        ArchiveScan, ZipWriter, TreeTask

VARIABLE running

-------------------------------------------------------------------------------
(* Directories: split by number, split disks, numbered parts, capitals.    *)

FileName(style, num, pad, caps) ==
  [stem |-> "a", style |-> style, num |-> num, pad |-> pad, capitals |-> caps]
ZipA == FileName("zip", 0, 0, FALSE)
ZipB == [ZipA EXCEPT !.stem = "b"]

MCFolders ==
  LET numbered == { FileName("digit", n, 0, FALSE) : n \in 0 .. 3 }
      disks    == { FileName("z", n, 0, FALSE) : n \in 1 .. 3 }
      numParts == { FileName("part", n, 0, FALSE) : n \in 1 .. 3 }
  IN UNION { SUBSET (numbered \union {FileName("digit", 1, 1, FALSE)}),
             SUBSET (disks \union {ZipA, ZipB, FileName("z", 2, 1, FALSE)}),
             SUBSET (numParts \union {ZipA, FileName("other", 1, 0, FALSE)}),
             SUBSET {FileName("z", 1, 0, TRUE), FileName("zip", 0, 0, TRUE),
                     FileName("z", 1, 0, FALSE)},
             {numbered \union {FileName("digit", n, 0, FALSE) : n \in 4 .. 5}} }

\* Volume sets of up to 3 bytes a part boundary may fall anywhere in.
MCStarts ==
  { s \in [0 .. Count -> 0 .. 3] :
      s[0] = 0 /\ \A i \in 0 .. Count - 1 : s[i] <= s[i + 1] }

-------------------------------------------------------------------------------
(* 7z folder headers: up to three coders and every way to bond them.       *)

Header(methods, ins, bonds, packs, declared, whole, sized) ==
  [method |-> methods, ins |-> ins, bonds |-> bonds, packs |-> packs,
   declared |-> declared, whole |-> whole, sized |-> sized]

Bonded(methods, ins) ==
  LET n == Len(methods)
      total == FoldFunction(LAMBDA x, y : x + y, 0, ins)
      free == total - n + 1
      beyond == IF n < 3 THEN 1 ELSE 0    \* indices out of range too
  IN { Header(methods, ins, bonds, packs, free, TRUE, TRUE) :
         bonds \in [1 .. n - 1 -> (1 .. total + beyond) \X (1 .. n + beyond)],
         packs \in IF free = 1 THEN {<<>>} ELSE [1 .. free -> 1 .. total] }

MCHeaders ==
  UNION { Bonded(<<"one">>, <<i>>) : i \in 0 .. 2 }
    \union Bonded(<<"unknown">>, <<1>>)
    \union Bonded(<<"one", "one">>, <<1, 1>>)
    \union Bonded(<<"bcj2", "one">>, <<2, 1>>)
    \union Bonded(<<"one", "one", "one">>, <<1, 1, 1>>)
    \union Bonded(<<"bcj2", "one", "one">>, <<2, 1, 1>>)
    \union { Header(<<"one">>, <<1>>, <<>>, <<>>, d, w, z) : d \in 0 .. 2, w, z \in BOOLEAN }

-------------------------------------------------------------------------------
(* Folders for the coder chain.                                            *)

Pipe(kinds, sizes) ==
  [kind |-> kinds, size |-> sizes,
   ins |-> [n \in 1 .. Len(kinds) |-> IF n = 1 THEN <<>> ELSE <<n - 1>>]]

\* BCJ2 over MAIN, CALL, JUMP and RC.  MAIN is items 17 to 20, or the first of
\* them: a call, a jump, and two plain ones.
Bcj2(main, call, jump, rc) ==
  [kind |-> <<"pack", "pack", "pack", "pack", "bcj2">>,
   size |-> <<main, call, jump, rc, main + 2>>,
   ins  |-> <<<<>>, <<>>, <<>>, <<>>, <<1, 2, 3, 4>>>>]

\* True sizes, and coders that declare more than their input holds.
ChainGraphs ==
  { Pipe(<<"pack", "lzma">>, <<3, 6>>),
    Pipe(<<"pack", "lzma", "filter">>, <<3, 6, 6>>),
    Pipe(<<"pack", "filter", "copy">>, <<5, 6, 5>>),
    Pipe(<<"pack", "filter", "filter">>, <<5, 5, 5>>),
    Pipe(<<"pack", "aes", "lzma">>, <<4, 3, 6>>),
    Pipe(<<"pack", "aes", "copy">>, <<3, 3, 3>>),
    Pipe(<<"pack", "lzma">>, <<2, 5>>),
    Pipe(<<"pack", "ppmd", "filter">>, <<2, 3, 3>>),
    Bcj2(4, 1, 1, 2), Bcj2(4, 1, 2, 2), Bcj2(2, 1, 1, 2) }

\* Folders of up to two entries, some covered by a checksum of their own, some
\* by the folder's, some by none; and a folder of empty streams.
Solid(sizes, crcs, crc, lzma2) ==
  [sizes |-> sizes, crcs |-> crcs, crc |-> crc, lzma2 |-> lzma2]
MCSolids ==
  { [folders |-> <<Solid(<<2, 1>>, {1}, FALSE, TRUE), Solid(<<>>, {}, FALSE, FALSE)>>,
     empty |-> 1],
    [folders |-> <<Solid(<<1, 2>>, {}, TRUE, TRUE), Solid(<<2>>, {}, FALSE, FALSE)>>,
     empty |-> 0],
    [folders |-> <<Solid(<<2, 1>>, {2}, FALSE, TRUE)>>, empty |-> 0] }

-------------------------------------------------------------------------------
(* Archives to scan.                                                       *)

Item(path, type, size) ==
  [name |-> path, kind |-> type, size |-> size, packed |-> 1, enc |-> FALSE,
   split |-> FALSE]
Everyday ==
  { Item(<<"a">>, "file", 2), Item(<<"a", "b">>, "file", 3), Item(<<"a">>, "dir", 0),
    Item(<<"a", "b", "c">>, "file", 1), Item(<<"c">>, "file", 2) }
ZipOnly == { Item(<<"a", "">>, "file", 0), Item(<<"a", "b", "">>, "dir", 0) }
RarOnly == { [Item(<<"a">>, "file", 2) EXCEPT !.split = TRUE] }
Odd ==
  { Item(<<"", "a">>, "file", 1), Item(<<"c:", "a">>, "file", 1),
    Item(<<"a", "..">>, "file", 1), Item(<<"long">>, "file", 1),
    Item(<<"c">>, "symlink", 1), Item(<<"c">>, "special", 1),
    Item(<<"a", "b", "c", "c">>, "file", 1), Item(<<"a", "", "b">>, "file", 1),
    Item(<<"c">>, "file", 9), [Item(<<"a">>, "file", 8) EXCEPT !.packed = 2],
    [Item(<<"a">>, "file", 1) EXCEPT !.enc = TRUE] }
Growing == << Item(<<"a", "b">>, "file", 1), Item(<<"c">>, "file", 1),
              Item(<<"b", "a">>, "file", 1), Item(<<"b", "c">>, "file", 1) >>

UpTo(S, n) == UNION { [1 .. k -> S] : k \in 1 .. n }
Scans(by, lists) ==
  { [engine |-> by, password |-> FALSE, entries |-> s] : s \in lists }
MCInputs ==
  UNION { Scans("zip", UpTo(Everyday \union ZipOnly, 3)),
          Scans("rar", UpTo(Everyday \union RarOnly, 3)),
          Scans("7z", UpTo(Everyday, 3)),
          UNION { Scans(by, UpTo(Odd, 1) \union {Growing}) : by \in {"zip", "rar", "7z"} } }

\* Multiples of 3, so that in a table of 4 slots many names collide.
NameOrder ==
  << <<"a">>, <<"c">>, <<"a", "b">>, <<"a", "">>, <<"a", "b", "">>, <<"a", "b", "c">>,
     <<"b">>, <<"b", "a">>, <<"b", "c">>, <<"", "a">>, <<"c:", "a">>, <<"a", "..">>,
     <<"long">>, <<"a", "b", "c", "c">>, <<"a", "", "b">>, <<"">>, <<"c:">> >>
MCHash == [k \in Range(NameOrder) |-> 3 * (CHOOSE i \in DOMAIN NameOrder : NameOrder[i] = k)]

-------------------------------------------------------------------------------
(* Archives to write out, with sizes that are true, too small, not         *)
(* declared and too large.                                                 *)

Packed(path, isDir, declared, actual) ==
  [path |-> path, dir |-> isDir, declared |-> declared, actual |-> actual]
MCZips ==
  { << Packed(<<"a">>, TRUE, 0, 0), Packed(<<"a", "b">>, FALSE, 3, 3) >>,
    << Packed(<<"a", "b">>, FALSE, 2, 2), Packed(<<"c">>, FALSE, 1, 1) >>,
    << Packed(<<"c">>, FALSE, 1, 3) >>, << Packed(<<"c">>, FALSE, 0, 4) >>,
    << Packed(<<"c">>, FALSE, 3, 2) >> }

-------------------------------------------------------------------------------
(* Trees to copy, move and delete: a source folder of two levels beside a  *)
(* file, folders and files in its way at the target, and a special file.   *)

Roots == {"s", "d"}
TwoNames == {"a", "b"}
MCPaths ==
  { <<r>> : r \in Roots } \union (Roots \X TwoNames) \union (Roots \X TwoNames \X TwoNames)
    \union (Roots \X {"a"} \X {"a"} \X TwoNames)

Holding(stands) ==
  [p \in MCPaths |-> IF Len(p) = 1 THEN "dir"
                     ELSE IF p \in DOMAIN stands THEN stands[p] ELSE "none"]
\* A folder with a file and a folder in the source, and four destinations.
SrcTree == <<"s", "a">> :> "dir" @@ <<"s", "a", "a">> :> "dir"
             @@ <<"s", "a", "a", "b">> :> "f1" @@ <<"s", "a", "b">> :> "f2"
             @@ <<"s", "b">> :> "f3"
MCTrees ==
  { Holding(SrcTree @@ d) :
      d \in { <<"d", "b", "a">> :> "none",
              <<"d", "a">> :> "dir" @@ <<"d", "a", "b">> :> "g1" @@ <<"d", "a", "a">> :> "dir",
              <<"d", "a">> :> "dir" @@ <<"d", "a", "a">> :> "g2" @@ <<"d", "b">> :> "g3",
              <<"d", "a">> :> "g4" } }
  \union { Holding(<<"s", "a">> :> "dir" @@ <<"s", "a", "b">> :> "special"
                     @@ <<"s", "b">> :> "dir" @@ <<"s", "b", "a">> :> "f4") }
Ask(op, srcs, dst, over, one) ==
  [op |-> op, srcs |-> srcs, dst |-> dst, overwrite |-> over, oneDevice |-> one]
MCRequests ==
  { Ask(op, srcs, <<"d">>, over, one) :
      op \in {"copy", "move"}, over \in BOOLEAN, one \in BOOLEAN,
      srcs \in { << <<"s", "a">> >>, << <<"s", "b">>, <<"s", "a">> >> } }
  \union { Ask("delete", srcs, <<"d">>, FALSE, TRUE) :
      srcs \in { << <<"s", "a">> >>, << <<"s", "a", "a">>, <<"s", "a">> >> } }
  \union { Ask("move", << <<"s", "a", "b">>, <<"s", "b">> >>, <<"d">>, FALSE, FALSE),
           Ask("copy", << <<"s", "a">> >>, <<"s", "a", "a">>, TRUE, TRUE),
           Ask("move", << <<"s", "b">> >>, <<"d", "b">>, TRUE, TRUE)}

-------------------------------------------------------------------------------
AllParts == {"detect", "volume", "graph", "chain", "solid", "scan", "zip", "tree"}

\* At rest: one initial state of the component.
RestDetect == dir = {ZipA} /\ split = "disk" /\ DetectInit
RestVolume == kind = "disk" /\ start = [i \in 0 .. Count |-> 0] /\ VolInit
RestGraph == hdr = Header(<<"one">>, <<1>>, <<>>, <<>>, 1, TRUE, TRUE) /\ GraphInit
RestChain == graph = Pipe(<<"pack", "lzma">>, <<3, 6>>) /\ ChainInit
RestSolid == archive = (CHOOSE a \in MCSolids : a.empty = 1) /\ SolidInit
RestScan ==
  input = [engine |-> "zip", password |-> FALSE, entries |-> Growing] /\ ScanInit
RestTree ==
  before = Holding(SrcTree) /\ req = Ask("copy", << <<"s", "a">> >>, <<"d">>, FALSE, TRUE)
    /\ TreeInit
RestZip == zip = << Packed(<<"c">>, FALSE, 1, 3) >> /\ ZipInit

PartsInit ==
  /\ running \in AllParts
  /\ IF running = "detect" THEN TRUE ELSE RestDetect
  /\ IF running = "volume" THEN TRUE ELSE RestVolume
  /\ IF running = "graph" THEN TRUE ELSE RestGraph
  /\ IF running = "chain" THEN TRUE ELSE RestChain
  /\ IF running = "solid" THEN TRUE ELSE RestSolid
  /\ IF running = "scan" THEN TRUE ELSE RestScan
  /\ IF running = "zip" THEN TRUE ELSE RestZip
  /\ IF running = "tree" THEN TRUE ELSE RestTree
  /\ CASE running = "detect" -> DetectInit
       [] running = "volume" -> VolInit
       [] running = "graph" -> GraphInit
       [] running = "chain" -> ChainInit
       [] running = "solid" -> SolidInit
       [] running = "scan" -> ScanInit
       [] running = "zip" -> ZipInit
       [] running = "tree" -> TreeInit

RunDetect ==
  running = "detect" /\ DetectNext
    /\ UNCHANGED <<running, volVars, graphVars, chainVars, solidVars, scanVars, zipVars, treeVars>>
RunVolume ==
  running = "volume" /\ VolNext
    /\ UNCHANGED <<running, detectVars, graphVars, chainVars, solidVars, scanVars, zipVars, treeVars>>
RunGraph ==
  running = "graph" /\ GraphNext
    /\ UNCHANGED <<running, detectVars, volVars, chainVars, solidVars, scanVars, zipVars, treeVars>>
RunChain ==
  running = "chain" /\ ChainNext
    /\ UNCHANGED <<running, detectVars, volVars, graphVars, solidVars, scanVars, zipVars, treeVars>>
RunSolid ==
  running = "solid" /\ SolidNext
    /\ UNCHANGED <<running, detectVars, volVars, graphVars, chainVars, scanVars, zipVars, treeVars>>
RunScan ==
  running = "scan" /\ ScanNext
    /\ UNCHANGED <<running, detectVars, volVars, graphVars, chainVars, solidVars, zipVars, treeVars>>
RunZip ==
  running = "zip" /\ ZipNext
    /\ UNCHANGED <<running, detectVars, volVars, graphVars, chainVars, solidVars, scanVars, treeVars>>

RunTree ==
  running = "tree" /\ TreeNext
    /\ UNCHANGED <<running, detectVars, volVars, graphVars, chainVars, solidVars, scanVars,
                   zipVars>>

PartsNext ==
  RunDetect \/ RunVolume \/ RunGraph \/ RunChain \/ RunSolid \/ RunScan \/ RunZip
    \/ RunTree

partsVars == <<running, detectVars, volVars, graphVars, chainVars, solidVars,
                 scanVars, zipVars, treeVars>>

\* The fairness of VolSpec and of ChainSpec.
PartsSpec ==
  /\ PartsInit /\ [][PartsNext]_partsVars
  /\ WF_volVars(running = "volume" /\ VolStep)
  /\ WF_chainVars(running = "chain" /\ ChainNext)
===============================================================================
