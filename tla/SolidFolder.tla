----------------------------- MODULE SolidFolder ------------------------------
(***************************************************************************)
(* The extract phase of src/src/sevenz_extract.c.  A folder decodes to one *)
(* stream; the sink cuts it along the plan, the folder's non-empty entries *)
(* in stream order.  A folder of one plain LZMA2 coder goes to the SDK's   *)
(* multi-threaded decoder (sevenz_mt.c) first, and to the chain walk when  *)
(* that reports a thread failure: the walk begins at byte 0 again, the     *)
(* sink does not.                                                          *)
(*                                                                         *)
(* A byte is 10 * folder + its position, a checksum the bytes it covers.   *)
(***************************************************************************)
EXTENDS Naturals, Sequences

CONSTANTS
  SolidArchives,  \* [folders : Seq([sizes, crcs, crc, lzma2]), empty : Nat]
  SolidChunk        \* the most a decoder hands to the sink at once

ASSUME SolidAssumption ==
  /\ SolidChunk \in Nat
  /\ \A a \in SolidArchives :
       a.folders \in Seq([sizes : Seq(Nat), crcs : SUBSET Nat, crc : BOOLEAN, lzma2 : BOOLEAN])

VARIABLES
  archive, folder,
  mode,        \* "start", "mt", "chain", "check", or past the last folder
  given,       \* bytes this decoder has handed out
  chunk,       \* what szx_sink_write still has to place
  planPos, written, fdOpen,
  file,        \* folder and entry -> bytes in the staging tree
  entryCrc, folderCrc,
  entriesDone, canceled, status

solidVars == <<archive, folder, mode, given, chunk, planPos, written, fdOpen,
               file, entryCrc, folderCrc, entriesDone, canceled, status>>
placeVars == <<planPos, written, fdOpen, file, entryCrc, entriesDone>>

Damaged == 0
Folder == archive.folders[folder]
Sizes(f) == archive.folders[f].sizes
SumTo(s, n) ==
  LET upTo[i \in 0 .. Len(s)] == IF i = 0 THEN 0 ELSE upTo[i - 1] + s[i] IN upTo[n]
UnpackSize(f) == SumTo(Sizes(f), Len(Sizes(f)))
Slice(f, e) == [i \in 1 .. Sizes(f)[e] |-> 10 * f + SumTo(Sizes(f), e - 1) + i]
FolderBytes(f) == [i \in 1 .. UnpackSize(f) |-> 10 * f + i]
Entries == UNION { {f} \X (1 .. Len(Sizes(f))) : f \in 1 .. Len(archive.folders) }
EntriesTotal == SumTo([f \in 1 .. Len(archive.folders) |-> Len(Sizes(f))],
                      Len(archive.folders)) + archive.empty

SolidInit ==
  /\ archive \in SolidArchives
  /\ folder = 1 /\ mode = "start" /\ given = 0 /\ chunk = <<>>
  /\ planPos = 1 /\ written = 0 /\ fdOpen = FALSE
  /\ file = [p \in Entries |-> <<>>]
  /\ entryCrc = <<>> /\ folderCrc = <<>>
  /\ entriesDone = 0 /\ canceled = FALSE /\ status = "run"

Busy(m) == status = "run" /\ mode = m /\ chunk = <<>>

EndWith(s) ==
  /\ status' = s /\ chunk' = <<>> /\ fdOpen' = FALSE
  /\ UNCHANGED <<archive, folder, mode, given, planPos, written, file, entryCrc,
                 folderCrc, entriesDone, canceled>>

CancelSolid ==
  /\ status = "run" /\ ~canceled /\ canceled' = TRUE
  /\ UNCHANGED <<archive, folder, mode, given, chunk, placeVars, folderCrc, status>>

\* The top of extract_folders' loop: the cancel poll, the checks on the folder
\* and its coders, and szx_plan_build.  A folder without bytes is skipped.
StartFolder ==
  /\ Busy("start") /\ folder <= Len(archive.folders)
  /\ \/ canceled /\ EndWith("CANCELED")
     \/ ~canceled /\ EndWith("FORMAT")
     \/ /\ ~canceled /\ UnpackSize(folder) = 0
        /\ folder' = folder + 1
        /\ UNCHANGED <<archive, mode, given, chunk, placeVars, folderCrc,
                       canceled, status>>
     \/ /\ ~canceled /\ UnpackSize(folder) > 0
        /\ mode' = IF Folder.lzma2 THEN "mt" ELSE "chain"
        /\ planPos' = 1 /\ written' = 0 /\ given' = 0 /\ folderCrc' = <<>>
        /\ UNCHANGED <<archive, folder, chunk, fdOpen, file, entryCrc,
                       entriesDone, canceled, status>>

\* Either decoder hands the sink the next bytes of the stream, at most one of
\* them not what the archive's author packed.
HandOut ==
  /\ Busy("mt") \/ Busy("chain")
  /\ \E k \in 1 .. SolidChunk :
       \E bad \in 0 .. k :
         /\ given + k <= UnpackSize(folder)
         /\ chunk' = [i \in 1 .. k |-> IF i = bad THEN Damaged
                                       ELSE 10 * folder + given + i]
         /\ given' = given + k
         /\ folderCrc' = folderCrc \o chunk'
  /\ UNCHANGED <<archive, folder, mode, placeVars, canceled, status>>

\* One turn of szx_sink_write's loop: open the entry if none is open, write
\* what belongs to it, and close and check it when it is full.
SinkRefuses ==
  /\ status = "run" /\ chunk # <<>>
  /\ EndWith(IF planPos > Len(Folder.sizes) THEN "FORMAT" ELSE "IO")

SinkPlaces ==
  /\ status = "run" /\ chunk # <<>> /\ planPos <= Len(Folder.sizes)
  /\ LET e == planPos
         room == Folder.sizes[e] - written
         take == IF Len(chunk) < room THEN Len(chunk) ELSE room
         part == SubSeq(chunk, 1, take)
         full == written + take = Folder.sizes[e]
         crc == (IF fdOpen THEN entryCrc ELSE <<>>) \o part
         bytes == (IF fdOpen THEN file[<<folder, e>>] ELSE <<>>) \o part
         bad == full /\ e \in Folder.crcs /\ crc # Slice(folder, e)
     IN
     /\ file' = [file EXCEPT ![<<folder, e>>] = bytes]
     /\ entryCrc' = crc
     /\ fdOpen' = ~full
     /\ chunk' = IF bad THEN <<>> ELSE SubSeq(chunk, take + 1, Len(chunk))
     /\ status' = IF bad THEN "CRC" ELSE status
     /\ written' = IF full /\ ~bad THEN 0 ELSE written + take
     /\ planPos' = IF full /\ ~bad THEN e + 1 ELSE e
     /\ entriesDone' = IF full /\ ~bad THEN entriesDone + 1 ELSE entriesDone
  /\ UNCHANGED <<archive, folder, mode, given, folderCrc, canceled>>

\* szx_mt_decode returns.  It may have stopped short of the declared size; the
\* caller finds out from the plan.
MtEnds ==
  /\ Busy("mt")
  /\ \/ EndWith("FORMAT")
     \/ canceled /\ EndWith("CANCELED")
     \/ /\ mode' = "check"
        /\ UNCHANGED <<archive, folder, given, chunk, placeVars, folderCrc,
                       canceled, status>>

\* SZX_MT_ERR_THREADS.  The chain starts over; plan, file and entry stay.
MtFallsBack ==
  /\ Busy("mt")
  /\ mode' = "chain" /\ given' = 0 /\ folderCrc' = <<>>
  /\ UNCHANGED <<archive, folder, chunk, placeVars, canceled, status>>

\* sz_chain_decode is called without a cancel function.
ChainEnds ==
  /\ Busy("chain")
  /\ \/ EndWith("FORMAT")
     \/ /\ given = UnpackSize(folder)
        /\ mode' = "check"
        /\ UNCHANGED <<archive, folder, given, chunk, placeVars, folderCrc,
                       canceled, status>>

\* mutant: the folder checksum is ignored
CheckFolderUnsummed ==
  /\ Busy("check")
  /\ IF planPos # Len(Folder.sizes) + 1 THEN EndWith("FORMAT")
     ELSE /\ folder' = folder + 1 /\ mode' = "start" /\ fdOpen' = FALSE
          /\ UNCHANGED <<archive, given, chunk, planPos, written, file, entryCrc,
                         folderCrc, entriesDone, canceled, status>>

CheckFolder ==
  /\ Busy("check")
  /\ IF planPos # Len(Folder.sizes) + 1 THEN EndWith("FORMAT")
     ELSE IF Folder.crc /\ folderCrc # FolderBytes(folder) THEN EndWith("CRC")
     ELSE /\ folder' = folder + 1 /\ mode' = "start" /\ fdOpen' = FALSE
          /\ UNCHANGED <<archive, given, chunk, planPos, written, file, entryCrc,
                         folderCrc, entriesDone, canceled, status>>

\* extract_empty_entries and the checks of sevenz_extract behind it.
EmptyEntries ==
  /\ Busy("start") /\ folder > Len(archive.folders)
  /\ \/ EndWith("IO")
     \/ /\ mode' = "empty" /\ entriesDone' = entriesDone + archive.empty
        /\ UNCHANGED <<archive, folder, given, chunk, planPos, written, fdOpen,
                       file, entryCrc, folderCrc, canceled, status>>

FinishExtract ==
  /\ Busy("empty")
  /\ EndWith(IF canceled THEN "CANCELED"
             ELSE IF entriesDone # EntriesTotal THEN "FORMAT" ELSE "ok")

SolidNext ==
  \/ CancelSolid \/ StartFolder \/ HandOut \/ SinkRefuses \/ SinkPlaces
  \/ MtEnds \/ MtFallsBack \/ ChainEnds \/ CheckFolder
  \/ EmptyEntries \/ FinishExtract

SolidSpec == SolidInit /\ [][SolidNext]_solidVars

-------------------------------------------------------------------------------
(* Properties.                                                             *)

\* "the MT decoder can only ever add speed, never take correctness away"
\* (sevenz_extract.c, extract_folders): whatever was placed before a thread
\* failure made the chain begin again, an extraction that succeeds has in each
\* entry the bytes of its own slice, all of them and at their own place; only
\* the damage of a byte that no stored checksum covers can remain.
SolidSlices ==
  status = "ok" =>
    \A p \in Entries :
      LET f == p[1] e == p[2] IN
      /\ Len(file[p]) = Sizes(f)[e]
      /\ \A i \in DOMAIN file[p] : file[p][i] \in {Slice(f, e)[i], Damaged}
      /\ (e \in archive.folders[f].crcs \/ archive.folders[f].crc)
           => file[p] = Slice(f, e)

===============================================================================
