---------------------------- MODULE ZipWriterProofs ----------------------------
(***************************************************************************)
(* Proof that the ZIP writer puts an entry's name on whole files only, and *)
(* that success means every entry (FinalNamesAreWhole of ZipWriter).       *)
(*                                                                         *)
(* The property speaks of the tree; what makes it true is the loop of      *)
(* write_entry: the bytes in the part file and the ones of the buffer that *)
(* are still to write are always the bytes the decoder gave (Balanced),    *)
(* however write() cuts a buffer, and the loop leaves for close() only     *)
(* when the decoder has nothing more.                                      *)
(***************************************************************************)
EXTENDS ZipWriter, FiniteSetTheorems, SequenceTheorems, TLAPS

FilesBefore(n) == { i \in DOMAIN zip : i < n /\ ~zip[i].dir }

ZipTypeOK ==
  /\ zip \in ZipArchives
  /\ zipAt \in 1 .. Len(zip) + 1
  /\ zipPc \in {"entry", "read", "write", "close", "drop"}
  /\ part \in Seq(Nat) /\ buf \in Seq(Nat)
  /\ left \in Nat /\ decoded \in Nat /\ zipWritten \in Nat /\ filesCreated \in Nat

\* The bytes of the entry in progress, from the decoder to the part file.
Balanced ==
  /\ zipPc \in {"entry", "read", "close"} => left = 0
  /\ zipPc \in {"read", "write", "close"} =>
       /\ zipAt <= Len(zip) /\ ~zip[zipAt].dir
       /\ DirsAbove(zip[zipAt].path) \subseteq dirs
       /\ Len(part) = zipWritten /\ zipWritten + left = decoded
       /\ decoded <= zip[zipAt].actual /\ left <= Len(buf)
  /\ zipPc = "close" => decoded = zip[zipAt].actual

\* Every name in place is the name of an entry the loop has passed.
NamesWhole ==
  \A p \in DOMAIN files :
    /\ \E i \in DOMAIN zip : zip[i].path = p /\ Len(files[p]) = zip[i].actual
    /\ DirsAbove(p) \subseteq dirs

\* Every entry the loop has passed is in place, and was counted once.
PassedInPlace ==
  /\ \A i \in DOMAIN zip :
       i < zipAt => zip[i].path \in (IF zip[i].dir THEN dirs ELSE DOMAIN files)
  /\ filesCreated = Cardinality(FilesBefore(zipAt))
  /\ zipEntriesDone = zipAt - 1

\* An entry is only given up for a failure.
OkAtEnd == zipFailure # "ok" /\ (zipStatus = "ok" => zipAt > Len(zip))

ZipInv == ZipTypeOK /\ Balanced /\ NamesWhole /\ PassedInPlace /\ OkAtEnd
-------------------------------------------------------------------------------
(* The operators.                                                          *)

\* The archive is a sequence with the sizes of its entries.
LEMMA ZipFacts ==
  ASSUME zip \in ZipArchives
  PROVE  /\ zip \in Seq(Range(zip)) /\ Len(zip) \in Nat /\ DOMAIN zip = 1 .. Len(zip)
         /\ \A i \in DOMAIN zip : zip[i].actual \in Nat /\ EntryData(i) \in Seq(Nat)
                                  /\ Len(EntryData(i)) = zip[i].actual
<1>1. zip \in Seq(Range(zip)) /\ \A i \in DOMAIN zip : zip[i].actual \in Nat
  BY ZipArchivesAssumption
<1>2. Len(zip) \in Nat /\ DOMAIN zip = 1 .. Len(zip)
  BY <1>1
<1>3. ASSUME NEW i \in DOMAIN zip
      PROVE  EntryData(i) \in Seq(Nat) /\ Len(EntryData(i)) = zip[i].actual
  <2>1. i \in Nat /\ zip[i].actual \in Nat
    BY <1>1, <1>2
  <2>2. EntryData(i) \in [1 .. zip[i].actual -> Nat]
    BY <2>1 DEF EntryData
  <2> QED  BY <2>1, <2>2
<1> QED  BY <1>1, <1>2, <1>3

\* A piece of a sequence of bytes.
LEMMA PieceFacts ==
  ASSUME NEW s \in Seq(Nat), NEW a \in Nat \ {0}, NEW b \in Nat, b <= Len(s), a <= b + 1
  PROVE  SubSeq(s, a, b) \in Seq(Nat) /\ Len(SubSeq(s, a, b)) = b - a + 1
BY SubSeqProperties

\* Passing an entry counts it when it is a file.
LEMMA CountOneMore ==
  ASSUME zip \in ZipArchives, NEW n \in DOMAIN zip
  PROVE  Cardinality(FilesBefore(n + 1)) =
           Cardinality(FilesBefore(n)) + (IF zip[n].dir THEN 0 ELSE 1)
<1>1. Len(zip) \in Nat /\ DOMAIN zip = 1 .. Len(zip) /\ n \in Nat
  BY ZipFacts
<1>2. IsFiniteSet(FilesBefore(n))
  <2>1. IsFiniteSet(1 .. Len(zip))
    BY <1>1, FS_Interval
  <2>2. FilesBefore(n) \in SUBSET (1 .. Len(zip))
    BY <1>1 DEF FilesBefore
  <2> QED  BY <2>1, <2>2, FS_Subset
<1>3. n \notin FilesBefore(n)
  BY <1>1 DEF FilesBefore
<1>4. CASE zip[n].dir
  <2>1. FilesBefore(n + 1) = FilesBefore(n)
    BY <1>1, <1>4 DEF FilesBefore
  <2>2. Cardinality(FilesBefore(n)) \in Nat
    BY <1>2, FS_CardinalityType
  <2> QED  BY <1>4, <2>1, <2>2
<1>5. CASE ~zip[n].dir
  <2>1. FilesBefore(n + 1) = FilesBefore(n) \cup {n}
    BY <1>1, <1>5 DEF FilesBefore
  <2> QED  BY <1>2, <1>3, <1>5, <2>1, FS_AddElement
<1> QED  BY <1>4, <1>5

-------------------------------------------------------------------------------
(* The steps.                                                              *)

LEMMA ZipInitInv == ZipInit => ZipInv
<1> SUFFICES ASSUME ZipInit PROVE ZipInv
  OBVIOUS
<1>1. Len(zip) \in Nat /\ DOMAIN zip = 1 .. Len(zip)
  BY ZipFacts DEF ZipInit
<1>2. ZipTypeOK
  BY <1>1 DEF ZipInit, ZipTypeOK
<1>3. FilesBefore(zipAt) = {}
  BY <1>1 DEF ZipInit, FilesBefore
<1>4. PassedInPlace
  BY <1>1, <1>3, FS_EmptySet DEF ZipInit, PassedInPlace
<1>5. Balanced /\ NamesWhole /\ OkAtEnd
  BY DEF ZipInit, Balanced, NamesWhole, OkAtEnd
<1> QED  BY <1>2, <1>4, <1>5 DEF ZipInv

\* Entries that are passed, and names in place, keep what they have when
\* nothing but the entry in progress moves.
LEMMA SameTree ==
  ASSUME NamesWhole, PassedInPlace, dirs \subseteq dirs',
         UNCHANGED <<zip, zipAt, files, filesCreated, zipEntriesDone>>
  PROVE  NamesWhole' /\ PassedInPlace'
<1>1. NamesWhole'
  BY DEF NamesWhole, DirsAbove
<1>2. FilesBefore(zipAt)' = FilesBefore(zipAt)
  BY DEF FilesBefore
<1>3. PassedInPlace'
  BY <1>2 DEF PassedInPlace
<1> QED  BY <1>1, <1>3

\* Giving up, between two entries or in one.
LEMMA StopInv ==
  ASSUME ZipInv, NEW s, ZipStop(s), zipPc = "entry", dirs \subseteq dirs',
         s = "ok" => zipAt > Len(zip)
  PROVE  ZipInv'
<1>1. NamesWhole' /\ PassedInPlace'
  BY SameTree DEF ZipStop, ZipInv
<1>2. ZipTypeOK' /\ Balanced' /\ OkAtEnd'
  BY DEF ZipStop, ZipInv, ZipTypeOK, Balanced, OkAtEnd
<1> QED  BY <1>1, <1>2 DEF ZipInv

LEMMA DropInv ==
  ASSUME ZipInv, NEW s, s # "ok", DropEntry(s)
  PROVE  ZipInv'
<1>1. NamesWhole' /\ PassedInPlace'
  BY SameTree DEF DropEntry, ZipInv
<1>2. ZipTypeOK' /\ Balanced' /\ OkAtEnd'
  BY DEF DropEntry, ZipInv, ZipTypeOK, Balanced, OkAtEnd
<1> QED  BY <1>1, <1>2 DEF ZipInv

\* Steps that touch only the bytes in flight.
LEMMA StreamInv ==
  ASSUME ZipInv, ZipTypeOK', Balanced',
         UNCHANGED <<zip, zipAt, dirs, files, filesCreated, zipEntriesDone, zipFailure,
                     zipStatus>>
  PROVE  ZipInv'
<1>1. NamesWhole' /\ PassedInPlace'
  BY SameTree DEF ZipInv
<1>2. OkAtEnd'
  BY DEF ZipInv, OkAtEnd
<1> QED  BY <1>1, <1>2 DEF ZipInv

LEMMA BeginEntryInv == ZipInv /\ BeginEntry => ZipInv'
<1> SUFFICES ASSUME ZipInv, BeginEntry PROVE ZipInv'
  OBVIOUS
<1> DEFINE need == DirsAbove(ZipEntry.path)
                     \cup (IF ZipEntry.dir THEN {ZipEntry.path} ELSE {})
<1>1. /\ zip \in ZipArchives /\ zipAt \in DOMAIN zip /\ zipAt \in Nat /\ Len(zip) \in Nat
      /\ DOMAIN zip = 1 .. Len(zip) /\ zipPc = "entry" /\ left = 0 /\ zipStatus = "run"
  BY ZipFacts DEF ZipInv, ZipTypeOK, Balanced, BeginEntry, ZipAtPc
<1>2. CASE ZipStop("CANCELED") /\ UNCHANGED dirs
  BY <1>1, <1>2, StopInv
<1>3. CASE \E n \in 0 .. Len(ZipEntry.path) :
             dirs' = dirs \cup { d \in need : Len(d) < n } /\ ZipStop("IO")
  <2>1. ZipStop("IO") /\ dirs \subseteq dirs'
    BY <1>3
  <2> QED  BY <1>1, <2>1, StopInv
<1>4. CASE /\ ZipEntry.dir /\ dirs' = dirs \cup need /\ EntryOver
           /\ UNCHANGED <<zip, files, part, buf, left, decoded, zipWritten, bytesDone,
                          filesCreated, zipFailure, zipStatus>>
  <2>1. ZipTypeOK' /\ Balanced' /\ OkAtEnd'
    BY <1>1, <1>4 DEF ZipInv, ZipTypeOK, Balanced, OkAtEnd, EntryOver
  <2>2. NamesWhole'
    BY <1>4 DEF ZipInv, NamesWhole, DirsAbove
  <2>3. ASSUME NEW i \in DOMAIN zip, i < zipAt + 1
        PROVE  zip[i].path \in (IF zip[i].dir THEN dirs' ELSE DOMAIN files)
    <3>1. CASE i = zipAt
      BY <1>4, <3>1 DEF ZipEntry
    <3>2. CASE i < zipAt
      BY <1>4, <3>2 DEF ZipInv, PassedInPlace
    <3> QED  BY <1>1, <2>3, <3>1, <3>2
  <2>4. FilesBefore(zipAt)' = FilesBefore(zipAt + 1)
    BY <1>4 DEF FilesBefore, EntryOver
  <2>5. Cardinality(FilesBefore(zipAt + 1)) = filesCreated
    BY <1>1, <1>4, CountOneMore DEF ZipInv, ZipTypeOK, PassedInPlace, ZipEntry
  <2>6. PassedInPlace'
    BY <1>1, <1>4, <2>3, <2>4, <2>5 DEF ZipInv, PassedInPlace, EntryOver
  <2> QED  BY <2>1, <2>2, <2>6 DEF ZipInv
<1>5. CASE /\ ~ZipEntry.dir /\ dirs' = dirs \cup need
           /\ zipPc' = "read" /\ part' = <<>> /\ decoded' = 0 /\ zipWritten' = 0
           /\ UNCHANGED <<zip, zipAt, files, buf, left, bytesDone, filesCreated,
                          zipEntriesDone, zipFailure, zipStatus>>
  <2>1. NamesWhole' /\ PassedInPlace'
    BY <1>5, SameTree DEF ZipInv
  <2>2. ZipTypeOK' /\ OkAtEnd'
    BY <1>1, <1>5 DEF ZipInv, ZipTypeOK, OkAtEnd
  <2>3. zip[zipAt].actual \in Nat /\ DirsAbove(zip[zipAt].path)' \subseteq dirs'
    BY <1>1, <1>5, ZipFacts DEF ZipEntry, DirsAbove
  <2>4. Balanced'
    BY <1>1, <1>5, <2>3 DEF ZipInv, ZipTypeOK, Balanced, ZipEntry
  <2> QED  BY <2>1, <2>2, <2>4 DEF ZipInv
<1> QED  BY <1>2, <1>3, <1>4, <1>5 DEF BeginEntry

LEMMA ReadEntryInv == ZipInv /\ ReadEntry => ZipInv'
<1> SUFFICES ASSUME ZipInv, ReadEntry PROVE ZipInv'
  OBVIOUS
<1> DEFINE n == Least2(IoBuffer, ZipEntry.actual - decoded)
<1>1. /\ zip \in ZipArchives /\ zipAt \in DOMAIN zip /\ zipPc = "read" /\ left = 0
      /\ zip[zipAt].actual \in Nat /\ decoded \in Nat /\ decoded <= zip[zipAt].actual
  BY ZipFacts DEF ZipInv, ZipTypeOK, Balanced, ReadEntry, ZipAtPc
<1>2. n \in Nat /\ n <= zip[zipAt].actual - decoded /\ (n = 0 => decoded = zip[zipAt].actual)
  BY <1>1, IoBufferAssumption DEF Least2, ZipEntry
<1>3. CASE \E s \in {"DATA", "LIMIT_FILE", "LIMIT_TOTAL"} : DropEntry(s)
  BY <1>3, DropInv
<1>4. CASE /\ n = 0 /\ zipPc' = "close"
           /\ UNCHANGED <<zip, zipAt, dirs, files, part, buf, left, decoded, zipWritten,
                          bytesDone, filesCreated, zipEntriesDone, zipFailure, zipStatus>>
  <2>1. ZipTypeOK' /\ Balanced'
    BY <1>1, <1>2, <1>4 DEF ZipInv, ZipTypeOK, Balanced, DirsAbove
  <2> QED  BY <1>4, <2>1, StreamInv
<1>5. CASE /\ n > 0 /\ buf' = SubSeq(EntryData(zipAt), decoded + 1, decoded + n)
           /\ left' = n /\ decoded' = decoded + n /\ zipPc' = "write"
           /\ UNCHANGED <<zip, zipAt, dirs, files, part, zipWritten, bytesDone,
                          filesCreated, zipEntriesDone, zipFailure, zipStatus>>
  <2>1. buf' \in Seq(Nat) /\ Len(buf') = n
    <3>1. EntryData(zipAt) \in Seq(Nat) /\ Len(EntryData(zipAt)) = zip[zipAt].actual
      BY <1>1, ZipFacts
    <3> HIDE DEF n
    <3> QED  BY <1>1, <1>2, <1>5, <3>1, PieceFacts
  <2>2. ZipTypeOK'
    <3> HIDE DEF n
    <3>1. buf' \in Seq(Nat) /\ left' \in Nat /\ decoded' \in Nat
      BY <1>1, <1>2, <1>5, <2>1
    <3> QED  BY <1>5, <3>1 DEF ZipInv, ZipTypeOK
  <2>3. Balanced'
    <3> HIDE DEF n
    <3> QED  BY <1>1, <1>2, <1>5, <2>1 DEF ZipInv, ZipTypeOK, Balanced, DirsAbove
  <2> QED  BY <1>5, <2>2, <2>3, StreamInv
<1> QED  BY <1>3, <1>4, <1>5 DEF ReadEntry

LEMMA WriteChunkInv == ZipInv /\ WriteChunk => ZipInv'
<1> SUFFICES ASSUME ZipInv, WriteChunk PROVE ZipInv'
  OBVIOUS
<1>1. CASE DropEntry("IO")
  BY <1>1, DropInv
<1>2. ASSUME NEW w \in 1 .. left,
             part' = part \o SubSeq(buf, 1, w), left' = left - w,
             zipWritten' = zipWritten + w, bytesDone' = bytesDone + w,
             UNCHANGED <<zip, zipAt, zipPc, dirs, files, buf, decoded, filesCreated,
                         zipEntriesDone, zipFailure, zipStatus>>
      PROVE  ZipInv'
  <2>1. /\ zipPc = "write" /\ left \in Nat /\ left <= Len(buf) /\ w \in Nat /\ w <= Len(buf)
        /\ buf \in Seq(Nat) /\ part \in Seq(Nat) /\ Len(buf) \in Nat /\ Len(part) \in Nat
    BY <1>2, SMTT(30) DEF ZipInv, ZipTypeOK, Balanced, WriteChunk, ZipAtPc
  <2>2. SubSeq(buf, 1, w) \in Seq(Nat) /\ Len(SubSeq(buf, 1, w)) = w
    BY <2>1, PieceFacts
  <2>3. part' \in Seq(Nat) /\ Len(part') = Len(part) + w
    <3> DEFINE chunk == SubSeq(buf, 1, w)
    <3>1. chunk \in Seq(Nat) /\ Len(chunk) = w /\ part' = part \o chunk
      BY <1>2, <2>2
    <3> HIDE DEF chunk
    <3>2. part \o chunk \in Seq(Nat) /\ Len(part \o chunk) = Len(part) + Len(chunk)
      BY <2>1, <3>1, ConcatProperties
    <3> QED  BY <3>1, <3>2
  <2>4. ZipTypeOK'
    BY <1>2, <2>1, <2>3 DEF ZipInv, ZipTypeOK
  <2>5. Balanced'
    <3>1. /\ zipAt <= Len(zip) /\ ~zip[zipAt].dir
          /\ DirsAbove(zip[zipAt].path) \subseteq dirs
          /\ Len(part) = zipWritten /\ zipWritten + left = decoded /\ zipWritten \in Nat
          /\ decoded <= zip[zipAt].actual
      BY <2>1 DEF ZipInv, ZipTypeOK, Balanced
    <3>2. Len(part') = zipWritten' /\ zipWritten' + left' = decoded /\ left' <= Len(buf)
      BY <1>2, <2>1, <2>3, <3>1
    <3> QED  BY <1>2, <2>1, <3>1, <3>2 DEF Balanced, DirsAbove
  <2> QED  BY <1>2, <2>4, <2>5, StreamInv
<1> QED  BY <1>1, <1>2 DEF WriteChunk

LEMMA ChunkWrittenInv == ZipInv /\ ChunkWritten => ZipInv'
<1> SUFFICES ASSUME ZipInv, ChunkWritten PROVE ZipInv'
  OBVIOUS
<1>1. CASE DropEntry("CANCELED")
  BY <1>1, DropInv
<1>2. CASE /\ zipPc' = "read"
           /\ UNCHANGED <<zip, zipAt, dirs, files, part, buf, left, decoded, zipWritten,
                          bytesDone, filesCreated, zipEntriesDone, zipFailure, zipStatus>>
  <2>1. ZipTypeOK' /\ Balanced'
    BY <1>2 DEF ChunkWritten, ZipAtPc, ZipInv, ZipTypeOK, Balanced, DirsAbove
  <2> QED  BY <1>2, <2>1, StreamInv
<1> QED  BY <1>1, <1>2 DEF ChunkWritten

\* The rename: the part file has the whole of the entry.
LEMMA FinishEntryInv == ZipInv /\ FinishEntry => ZipInv'
<1> SUFFICES ASSUME ZipInv, FinishEntry PROVE ZipInv'
  OBVIOUS
<1>1. CASE DropEntry("CRC") \/ DropEntry("IO")
  BY <1>1, DropInv
<1>2. CASE /\ files' = [q \in DOMAIN files \cup {ZipEntry.path} |->
                          IF q = ZipEntry.path THEN part ELSE files[q]]
           /\ part' = <<>> /\ filesCreated' = filesCreated + 1
           /\ EntryOver
           /\ UNCHANGED <<zip, dirs, buf, left, decoded, zipWritten, bytesDone,
                          zipFailure, zipStatus>>
  <2>1. /\ zip \in ZipArchives /\ zipAt \in DOMAIN zip /\ zipAt \in Nat /\ Len(zip) \in Nat
        /\ DOMAIN zip = 1 .. Len(zip) /\ zipPc = "close" /\ ~zip[zipAt].dir
        /\ left = 0 /\ zipStatus = "run"
    BY ZipFacts DEF ZipInv, ZipTypeOK, Balanced, FinishEntry, ZipAtPc
  <2>2. Len(part) = zip[zipAt].actual /\ DirsAbove(zip[zipAt].path) \subseteq dirs
    BY <2>1, ZipFacts DEF ZipInv, ZipTypeOK, Balanced
  <2>3. ZipTypeOK' /\ Balanced' /\ OkAtEnd'
    BY <1>2, <2>1 DEF ZipInv, ZipTypeOK, Balanced, OkAtEnd, EntryOver
  <2>4. ASSUME NEW p \in DOMAIN files'
        PROVE  /\ \E i \in DOMAIN zip : zip[i].path = p /\ Len(files'[p]) = zip[i].actual
               /\ DirsAbove(p) \subseteq dirs
    <3>1. CASE p = zip[zipAt].path
      BY <1>2, <2>1, <2>2, <3>1 DEF ZipEntry
    <3>2. CASE p # zip[zipAt].path
      <4>1. p \in DOMAIN files /\ files'[p] = files[p]
        BY <1>2, <2>4, <3>2 DEF ZipEntry
      <4> QED  BY <4>1 DEF ZipInv, NamesWhole
    <3> QED  BY <3>1, <3>2
  <2>5. NamesWhole'
    BY <1>2, <2>4, ZenonT(30) DEF NamesWhole, DirsAbove
  <2>6. ASSUME NEW i \in DOMAIN zip, i < zipAt + 1
        PROVE  zip[i].path \in (IF zip[i].dir THEN dirs ELSE DOMAIN files')
    <3>1. DOMAIN files' = DOMAIN files \cup {zip[zipAt].path}
      BY <1>2 DEF ZipEntry
    <3>2. CASE i = zipAt
      BY <2>1, <3>1, <3>2
    <3>3. CASE i < zipAt
      BY <3>1, <3>3 DEF ZipInv, PassedInPlace
    <3> QED  BY <2>1, <2>6, <3>2, <3>3
  <2>7. FilesBefore(zipAt)' = FilesBefore(zipAt + 1)
    BY <1>2 DEF FilesBefore, EntryOver
  <2>8. Cardinality(FilesBefore(zipAt + 1)) = filesCreated + 1
    BY <2>1, CountOneMore DEF ZipInv, PassedInPlace
  <2>9. PassedInPlace'
    BY <1>2, <2>1, <2>6, <2>7, <2>8 DEF ZipInv, PassedInPlace, EntryOver
  <2> QED  BY <2>3, <2>5, <2>9 DEF ZipInv
<1> QED  BY <1>1, <1>2 DEF FinishEntry

LEMMA ZipEndInv == ZipInv /\ (RemovePart \/ LastEntryDone) => ZipInv'
<1> SUFFICES ASSUME ZipInv, RemovePart \/ LastEntryDone PROVE ZipInv'
  OBVIOUS
<1>1. CASE RemovePart
  <2>1. NamesWhole' /\ PassedInPlace'
    BY <1>1, SameTree DEF RemovePart, ZipInv
  <2>2. ZipTypeOK' /\ Balanced' /\ OkAtEnd'
    BY <1>1 DEF RemovePart, ZipAtPc, ZipInv, ZipTypeOK, Balanced, OkAtEnd
  <2> QED  BY <2>1, <2>2 DEF ZipInv
<1>2. CASE LastEntryDone
  BY <1>2, StopInv DEF LastEntryDone, ZipAtPc
<1> QED  BY <1>1, <1>2

LEMMA ZipStep == ZipInv /\ [ZipNext]_zipVars => ZipInv'
<1> SUFFICES ASSUME ZipInv, [ZipNext]_zipVars PROVE ZipInv'
  OBVIOUS
<1>1. CASE UNCHANGED zipVars
  <2>1. ZipTypeOK' /\ Balanced'
    BY <1>1 DEF ZipInv, zipVars, ZipTypeOK, Balanced, DirsAbove
  <2> QED  BY <1>1, <2>1, StreamInv DEF zipVars
<1>2. CASE ZipNext
  BY <1>2, BeginEntryInv, ReadEntryInv, WriteChunkInv, ChunkWrittenInv, FinishEntryInv,
     ZipEndInv DEF ZipNext
<1> QED  BY <1>1, <1>2

\* The bytes in flight are the bytes decoded, the names in place are whole and
\* the entries passed are in place (write_entry and extract_archive,
\* zip_extract.c).
THEOREM ZipInvariance == ZipSpec => []ZipInv
BY ZipInitInv, ZipStep, PTL DEF ZipSpec

\* A name of the archive never stands for part of a file, and success means
\* that every entry is there and was counted once.
THEOREM NamesAreWhole == ZipSpec => []FinalNamesAreWhole
<1>1. ZipInv => FinalNamesAreWhole
  <2> SUFFICES ASSUME ZipInv PROVE FinalNamesAreWhole
    OBVIOUS
  <2>1. CASE zipStatus = "ok"
    <3>1. /\ zipAt = Len(zip) + 1 /\ DOMAIN zip = 1 .. Len(zip) /\ Len(zip) \in Nat
      BY <2>1, ZipFacts DEF ZipInv, ZipTypeOK, OkAtEnd
    <3>2. FilesBefore(zipAt) = { i \in DOMAIN zip : ~zip[i].dir }
      BY <3>1 DEF FilesBefore
    <3>3. \A i \in DOMAIN zip : i < zipAt
      BY <3>1
    <3>4. filesCreated = Cardinality({ i \in DOMAIN zip : ~zip[i].dir })
      BY <3>2 DEF ZipInv, PassedInPlace
    <3>5. zipEntriesDone = Len(zip)
      BY <3>1 DEF ZipInv, PassedInPlace
    <3> QED  BY <3>3, <3>4, <3>5 DEF ZipInv, NamesWhole, PassedInPlace, FinalNamesAreWhole
  <2>2. CASE zipStatus # "ok"
    BY <2>2 DEF ZipInv, NamesWhole, FinalNamesAreWhole
  <2> QED  BY <2>1, <2>2
<1> QED  BY <1>1, ZipInvariance, PTL
===============================================================================
