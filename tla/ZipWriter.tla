------------------------------ MODULE ZipWriter -------------------------------
(***************************************************************************)
(* The extract phase of src/src/zip_extract.c: extract_archive walks the   *)
(* entries the scan accepted, open_parent_dirs makes their directories and *)
(* write_entry decodes each file into a numbered part file that is renamed *)
(* to the entry's name when it is complete.                                *)
(*                                                                         *)
(* Paths are sequences of segments, <<>> the staging root.  Byte b of the  *)
(* data of entry i is 10 * i + b.  Every *at() call has a fallback with    *)
(* the full path; the two together are one call that works or fails.       *)
(***************************************************************************)
EXTENDS Naturals, Sequences, FiniteSets, SequencesExt

CONSTANTS
  ZipArchives,   \* sequences of [path, dir, declared, actual]
  IoBuffer,      \* ZIPX_IO_BUFFER
  ZipMaxTotal, ZipMaxFile  \* limits.max_total_bytes, limits.max_file_bytes

ASSUME ZipArchivesAssumption ==
  \A z \in ZipArchives :
    z \in Seq(Range(z)) /\ \A i \in DOMAIN z : z[i].actual \in Nat

ASSUME IoBufferAssumption == IoBuffer \in Nat \ {0}

VARIABLES
  zip, zipAt,
  zipPc,         \* "entry", "read", "write", "close" or "drop"
  dirs,          \* directories in the staging tree
  files,         \* path -> bytes, the entries renamed into place
  part,          \* the part file of the current entry
  buf, left,     \* the bytes last decoded, and how many are still to write
  decoded,       \* bytes of the entry the decoder has given
  zipWritten, bytesDone, filesCreated, zipEntriesDone,
  zipFailure,    \* why the current entry is dropped
  zipStatus

zipVars == <<zip, zipAt, zipPc, dirs, files, part, buf, left, decoded, zipWritten,
             bytesDone, filesCreated, zipEntriesDone, zipFailure, zipStatus>>

Least2(a, b) == IF a < b THEN a ELSE b
ZipEntry == zip[zipAt]
DirsAbove(p) == { SubSeq(p, 1, n) : n \in 0 .. Len(p) - 1 }
EntryData(i) == [b \in 1 .. zip[i].actual |-> 10 * i + b]

ZipInit ==
  /\ zip \in ZipArchives
  /\ zipAt = 1 /\ zipPc = "entry" /\ dirs = {<<>>} /\ files = <<>>
  /\ part = <<>> /\ buf = <<>> /\ left = 0 /\ decoded = 0 /\ zipWritten = 0
  /\ bytesDone = 0 /\ filesCreated = 0 /\ zipEntriesDone = 0 /\ zipStatus = "run"
  /\ zipFailure = "none"

ZipAtPc(pc) == zipStatus = "run" /\ zipPc = pc

\* Ends the extraction between two entries.
ZipStop(s) ==
  /\ zipStatus' = s
  /\ UNCHANGED <<zip, zipAt, zipPc, files, part, buf, left, decoded, zipWritten,
                 bytesDone, filesCreated, zipEntriesDone, zipFailure>>

\* Gives up the entry in progress: write_entry goes on to remove the part file.
DropEntry(s) ==
  /\ zipPc' = "drop" /\ zipFailure' = s
  /\ UNCHANGED <<zip, zipAt, dirs, files, part, buf, left, decoded, zipWritten,
                 bytesDone, filesCreated, zipEntriesDone, zipStatus>>

EntryOver ==
  /\ zipAt' = zipAt + 1 /\ zipEntriesDone' = zipEntriesDone + 1 /\ zipPc' = "entry"

\* The head of extract_archive's loop.  open_parent_dirs may stop part of the
\* way; what it made stays.
BeginEntry ==
  /\ ZipAtPc("entry") /\ zipAt <= Len(zip)
  /\ LET p == ZipEntry.path
         need == DirsAbove(p) \cup (IF ZipEntry.dir THEN {p} ELSE {}) IN
     \/ ZipStop("CANCELED") /\ UNCHANGED dirs
     \/ \E n \in 0 .. Len(p) : dirs' = dirs \cup { d \in need : Len(d) < n }
        /\ ZipStop("IO")
     \/ /\ ZipEntry.dir /\ dirs' = dirs \cup need
        /\ EntryOver
        /\ UNCHANGED <<zip, files, part, buf, left, decoded, zipWritten, bytesDone,
                       filesCreated, zipFailure, zipStatus>>
     \/ /\ ~ZipEntry.dir /\ dirs' = dirs \cup need
        /\ zipPc' = "read" /\ part' = <<>> /\ decoded' = 0 /\ zipWritten' = 0
        /\ UNCHANGED <<zip, zipAt, files, buf, left, bytesDone, filesCreated,
                       zipEntriesDone, zipFailure, zipStatus>>

\* mz_zip_entry_read and the two limits.  bytesDone has the bytes of this entry
\* already when the second one adds zipWritten to them.
ReadEntry ==
  /\ ZipAtPc("read")
  /\ LET n == Least2(IoBuffer, ZipEntry.actual - decoded)
         remaining == IF ZipEntry.declared > 0 THEN ZipEntry.declared ELSE ZipMaxFile
     IN
     \/ DropEntry("DATA")
     \/ /\ n = 0 /\ zipPc' = "close"
        /\ UNCHANGED <<zip, zipAt, dirs, files, part, buf, left, decoded, zipWritten,
                       bytesDone, filesCreated, zipEntriesDone, zipFailure, zipStatus>>
     \/ n > 0 /\ zipWritten + n > remaining /\ DropEntry("LIMIT_FILE")
     \/ /\ n > 0 /\ zipWritten + n <= remaining
        /\ zipWritten + n > ZipMaxTotal - bytesDone
        /\ DropEntry("LIMIT_TOTAL")
     \/ /\ n > 0 /\ zipWritten + n <= remaining
        /\ zipWritten + n <= ZipMaxTotal - bytesDone
        /\ buf' = SubSeq(EntryData(zipAt), decoded + 1, decoded + n)
        /\ left' = n /\ decoded' = decoded + n /\ zipPc' = "write"
        /\ UNCHANGED <<zip, zipAt, dirs, files, part, zipWritten, bytesDone,
                       filesCreated, zipEntriesDone, zipFailure, zipStatus>>

\* mutant: a short write ends the chunk
WriteChunkOnce ==
  /\ ZipAtPc("write") /\ left > 0
  /\ \E w \in 1 .. left :
       /\ part' = part \o SubSeq(buf, 1, w) /\ left' = 0
       /\ zipWritten' = zipWritten + w /\ bytesDone' = bytesDone + w
       /\ UNCHANGED <<zip, zipAt, zipPc, dirs, files, buf, decoded, filesCreated,
                      zipEntriesDone, zipFailure, zipStatus>>

\* write(fd, buf, n): every call of the loop starts at the buffer's first byte.
WriteChunk ==
  /\ ZipAtPc("write") /\ left > 0
  /\ \/ DropEntry("IO")
     \/ \E w \in 1 .. left :
          /\ part' = part \o SubSeq(buf, 1, w)
          /\ left' = left - w
          /\ zipWritten' = zipWritten + w /\ bytesDone' = bytesDone + w
          /\ UNCHANGED <<zip, zipAt, zipPc, dirs, files, buf, decoded, filesCreated,
                         zipEntriesDone, zipFailure, zipStatus>>

ChunkWritten ==
  /\ ZipAtPc("write") /\ left = 0
  /\ \/ DropEntry("CANCELED")
     \/ /\ zipPc' = "read"
        /\ UNCHANGED <<zip, zipAt, dirs, files, part, buf, left, decoded, zipWritten,
                       bytesDone, filesCreated, zipEntriesDone, zipFailure, zipStatus>>

\* The checksum, close() and the rename to the entry's own name.
FinishEntry ==
  /\ ZipAtPc("close")
  /\ \/ DropEntry("CRC")
     \/ DropEntry("IO")
     \/ /\ files' = [q \in DOMAIN files \cup {ZipEntry.path} |->
                       IF q = ZipEntry.path THEN part ELSE files[q]]
        /\ part' = <<>> /\ filesCreated' = filesCreated + 1
        /\ EntryOver
        /\ UNCHANGED <<zip, dirs, buf, left, decoded, zipWritten, bytesDone,
                       zipFailure, zipStatus>>

RemovePart ==
  /\ ZipAtPc("drop")
  /\ zipStatus' = zipFailure /\ part' = <<>>
  /\ UNCHANGED <<zip, zipAt, zipPc, dirs, files, buf, left, decoded, zipWritten,
                 bytesDone, filesCreated, zipEntriesDone, zipFailure>>

LastEntryDone ==
  /\ ZipAtPc("entry") /\ zipAt > Len(zip)
  /\ \E s \in {"ok", "CANCELED", "FORMAT"} : ZipStop(s)
  /\ UNCHANGED dirs

ZipNext ==
  \/ BeginEntry \/ ReadEntry \/ WriteChunk \/ ChunkWritten \/ FinishEntry
  \/ RemovePart \/ LastEntryDone

ZipSpec == ZipInit /\ [][ZipNext]_zipVars

-------------------------------------------------------------------------------
(* Properties.                                                             *)

\* A name of the archive never stands for part of a file: whatever fails, and
\* when, each file under its own name is complete and has its directories, and
\* success means that every entry is there and was counted once.
FinalNamesAreWhole ==
  /\ \A p \in DOMAIN files :
       /\ \E i \in DOMAIN zip : zip[i].path = p /\ Len(files[p]) = zip[i].actual
       /\ DirsAbove(p) \subseteq dirs
  /\ zipStatus = "ok" =>
       /\ \A i \in DOMAIN zip :
            zip[i].path \in (IF zip[i].dir THEN dirs ELSE DOMAIN files)
       /\ filesCreated = Cardinality({ i \in DOMAIN zip : ~zip[i].dir })
       /\ zipEntriesDone = Len(zip)

\* A file holds the bytes of its entry.  ("a byte-for-byte comparison of
\* extracted content", README.md)
EntryBytesAsPacked ==
  \A i \in DOMAIN zip : zip[i].path \in DOMAIN files => files[zip[i].path] = EntryData(i)

\* max_total_bytes is a cap on the whole archive (zipx_common.c): one that
\* scan_archive accepts, each entry declared within max_file_bytes and all of
\* them below the cap, and whose entries have their declared sizes is not
\* refused for it.
ScannedTotalFits ==
  (/\ FoldLeft(LAMBDA s, e : s + e.actual, 0, zip) < ZipMaxTotal
   /\ \A i \in DOMAIN zip : /\ zip[i].declared <= ZipMaxFile
                            /\ zip[i].actual = zip[i].declared)
    => zipStatus # "LIMIT_TOTAL"

===============================================================================
