----------------------------- MODULE VolumeStream -----------------------------
(***************************************************************************)
(* A set of volume files presented as one stream: src/src/zipx_volstream.c *)
(* for ZIP, with one open file at a time, and src/src/sevenz_volstream.c   *)
(* for 7z, with every part open and a cached offset of the one last read.  *)
(* A read crosses parts: finding the part that holds the position and      *)
(* reading it are steps of it, and each read may be short or fail.         *)
(*                                                                         *)
(* Byte i of the set is the number i, so offset o of part p is the byte    *)
(* start[p] + o + 1.                                                       *)
(***************************************************************************)
EXTENDS Naturals, Integers, Sequences

CONSTANTS
  Kinds,      \* the streams checked: "disk" and "concat" for ZIP, "7z"
  Count,      \* number of parts
  Starts,     \* what opening the set may measure: 0 .. Count -> Nat
  MaxWant     \* the longest read

ASSUME VolumeAssumption ==
  /\ Kinds \subseteq {"disk", "concat", "7z"}
  /\ Count \in Nat \ {0} /\ MaxWant \in Nat
  /\ Starts \subseteq { s \in [0 .. Count -> Nat] :
                          s[0] = 0 /\ \A i, j \in 0 .. Count : i <= j => s[i] <= s[j] }

VARIABLES
  kind,       \* the stream: with "disk" offsets count from the active disk
  start,      \* prefix[] and start[]: where each part begins, and the total
  vpos,       \* pos
  disk,       \* disk, the active one
  vpc,        \* "idle", "walk" to the part of vpos, or "io"
  vpart,      \* i of vol_part_of and part_at
  want, got,  \* the read in progress: bytes asked for, and those read so far
  volRet,     \* what the last read returned
  osPart,     \* os_part: the part whose file is open, -1 for none (ZIP)
  fileOff,    \* the offset of every part's file (7z)
  cur, curOff, \* cur and cur_off: where the last read left a file (7z)
  volFailed   \* a read failed

volVars == <<kind, start, vpos, disk, vpc, vpart, want, got, volRet, osPart,
             fileOff, cur, curOff, volFailed>>

Parts == 0 .. Count - 1
VolTotal == start[Count]
PartBytes(p, o, n) == [i \in 1 .. n |-> start[p] + o + i]
Lower(a, b) == IF a < b THEN a ELSE b

\* sevenz_volstream_open(): 7-Zip cuts parts of one size and only the last may
\* differ; an empty set is refused.
CleanSplit(s) ==
  s[Count] > 0 /\ \A i \in 0 .. Count - 2 : s[i + 1] - s[i] = s[1]

\* vol_open(): a ZIP set opens at its last disk.
VolInit ==
  /\ kind \in Kinds
  /\ start \in { s \in Starts : kind = "7z" => CleanSplit(s) }
  /\ disk = IF kind = "disk" THEN Count - 1 ELSE 0
  /\ vpos = start[disk]
  /\ vpc = "idle" /\ vpart = 0 /\ want = 0 /\ got = <<>> /\ volRet = <<>>
  /\ osPart = -1 /\ fileOff = [p \in Parts |-> 0] /\ cur = 0 /\ curOff = 0
  /\ volFailed = FALSE

\* After a failed read the 7z decoder gives the archive up.
VolIdle == vpc = "idle" /\ (kind = "7z" => ~volFailed)

Clamped(t) == IF t < 0 THEN 0 ELSE IF t > VolTotal THEN VolTotal ELSE t

\* vol_seek: SEEK_SET counts from the active disk of a disk set.
SeekZip ==
  /\ VolIdle /\ kind # "7z"
  /\ \E off \in -MaxWant .. MaxWant :
       vpos' \in { Clamped(off + base) :
                     base \in {IF kind = "disk" THEN start[disk] ELSE 0, vpos, VolTotal} }
  /\ volRet' = <<>>
  /\ UNCHANGED <<kind, start, disk, vpc, vpart, want, got, osPart, fileOff, cur,
                 curOff, volFailed>>

\* The 7z stream refuses a seek to before its beginning.
SeekSz ==
  /\ VolIdle /\ kind = "7z"
  /\ \E off \in -MaxWant .. MaxWant, base \in {0, vpos, VolTotal} :
       base + off >= 0 /\ vpos' = Clamped(base + off)
  /\ volRet' = <<>>
  /\ UNCHANGED <<kind, start, disk, vpc, vpart, want, got, osPart, fileOff, cur,
                 curOff, volFailed>>

\* vol_set_prop: minizip-ng selects a disk, and -1 is the last one.
SelectDisk ==
  /\ VolIdle /\ kind = "disk"
  /\ disk' \in Parts
  /\ vpos' = start[disk'] /\ volRet' = <<>>
  /\ UNCHANGED <<kind, start, vpc, vpart, want, got, osPart, fileOff, cur, curOff,
                 volFailed>>

\* A read begins.  The ZIP stream walks from the part its file is open on, the
\* 7z stream from the first.
BeginRead ==
  /\ VolIdle
  /\ want' \in 1 .. MaxWant
  /\ vpc' = "walk" /\ got' = <<>>
  /\ vpart' = IF kind # "7z" /\ osPart >= 0 THEN osPart ELSE 0
  /\ UNCHANGED <<kind, start, vpos, disk, volRet, osPart, fileOff, cur, curOff,
                 volFailed>>

\* vol_part_of and part_at: back while the position is before the part, on while
\* it is behind it.
WalkBack ==
  /\ vpc = "walk" /\ vpos < VolTotal
  /\ vpart > 0 /\ vpos < start[vpart]
  /\ vpart' = vpart - 1
  /\ UNCHANGED <<kind, start, vpos, disk, vpc, want, got, volRet, osPart, fileOff,
                 cur, curOff, volFailed>>

\* mutant: stops one byte late
WalkOnPast ==
  /\ vpc = "walk" /\ vpos < VolTotal
  /\ vpart = 0 \/ vpos >= start[vpart]
  /\ IF vpart < Count - 1 /\ vpos > start[vpart + 1]
     THEN vpart' = vpart + 1 /\ UNCHANGED vpc
     ELSE vpc' = "io" /\ UNCHANGED vpart
  /\ UNCHANGED <<kind, start, vpos, disk, want, got, volRet, osPart, fileOff, cur,
                 curOff, volFailed>>

WalkOn ==
  /\ vpc = "walk" /\ vpos < VolTotal
  /\ vpart = 0 \/ vpos >= start[vpart]
  /\ IF vpart < Count - 1 /\ vpos >= start[vpart + 1]
     THEN vpart' = vpart + 1 /\ UNCHANGED vpc
     ELSE vpc' = "io" /\ UNCHANGED vpart
  /\ UNCHANGED <<kind, start, vpos, disk, want, got, volRet, osPart, fileOff, cur,
                 curOff, volFailed>>

\* The read returns these bytes.
Return(bytes) == vpc' = "idle" /\ volRet' = bytes /\ got' = <<>> /\ want' = 0

EndOfSet ==
  /\ vpc = "walk" /\ vpos >= VolTotal
  /\ Return(got)
  /\ UNCHANGED <<kind, start, vpos, disk, vpart, osPart, fileOff, cur, curOff,
                 volFailed>>

InPart == vpos - start[vpart]
Asked == Lower(want - Len(got), start[vpart + 1] - vpos)

\* n bytes from offset o of the part; the read goes on if the part had all that
\* was asked of it and more is wanted.
ReadFromPart(o, n) ==
  LET now == got \o PartBytes(vpart, o, n) IN
  /\ vpos' = vpos + n
  /\ IF n = Asked /\ Len(now) < want
     THEN got' = now /\ vpc' = "walk" /\ UNCHANGED <<want, volRet>>
     ELSE Return(now)

\* vol_use_part, the seek and the read of zipx_volstream.c.  The file is asked
\* for its position.  A part that cannot be opened leaves no file open.
ReadZipPart ==
  /\ vpc = "io" /\ kind # "7z"
  /\ \/ \E n \in 0 .. Asked : ReadFromPart(InPart, n) /\ osPart' = vpart /\ UNCHANGED volFailed
     \/ /\ Return(got) /\ volFailed' = TRUE
        /\ osPart' \in IF osPart = vpart THEN {vpart} ELSE {-1, vpart}
        /\ UNCHANGED vpos
  /\ UNCHANGED <<kind, start, disk, vpart, fileOff, cur, curOff>>

\* vol_read of sevenz_volstream.c seeks unless cur and cur_off say that the
\* part's file is already where the read begins.
\* mutant: the part is not compared
NeedsSeekByOffset == curOff # InPart
NeedsSeek == cur # vpart \/ curOff # InPart

ReadSzPart ==
  /\ vpc = "io" /\ kind = "7z"
  /\ LET from == IF NeedsSeek THEN InPart ELSE fileOff[vpart] IN
     \E n \in 0 .. Asked :
        /\ ReadFromPart(from, n)
        /\ fileOff' = [fileOff EXCEPT ![vpart] = from + n]
        /\ curOff' = InPart + n
  /\ cur' = vpart /\ vpart' = 0
  /\ UNCHANGED <<kind, start, disk, osPart, volFailed>>

\* A seek or a read that fails drops what the read had, and leaves the file
\* anywhere.
FailSzPart ==
  /\ vpc = "io" /\ kind = "7z"
  /\ Return(<<>>) /\ volFailed' = TRUE
  /\ \/ NeedsSeek /\ UNCHANGED <<cur, curOff, fileOff>>
     \/ /\ cur' = vpart /\ curOff' = InPart
        /\ \E o \in 0 .. Asked : fileOff' = [fileOff EXCEPT ![vpart] = InPart + o]
  /\ UNCHANGED <<kind, start, vpos, disk, vpart, osPart>>

VolStep == WalkBack \/ WalkOn \/ EndOfSet \/ ReadZipPart \/ ReadSzPart \/ FailSzPart
VolNext == SeekZip \/ SeekSz \/ SelectDisk \/ BeginRead \/ VolStep

\* A read is a call of the thread that decodes: it takes its steps.
VolSpec == VolInit /\ [][VolNext]_volVars /\ WF_volVars(VolStep)

-------------------------------------------------------------------------------
(* Properties.                                                             *)

\* A volume set is one flat stream: whatever parts it has, a read returns the
\* bytes that follow the position, across parts, after seeks, short reads and a
\* stale hint or cached offset.  A read takes effect when it returns, so until
\* then the position is where it began.
Flat == INSTANCE FlatStream
          WITH flatTotal <- VolTotal, flatRet <- volRet, flatPos <- vpos - Len(got)
VolumesAreFlat == Flat!FlatSpec

\* Every read comes back: the walk ends from a hint on either side of the
\* position, and over empty parts.
ReadReturns == (vpc # "idle") ~> (vpc = "idle")

\* Where the stream stands between and during reads.  What was read so far is
\* what precedes the position; a part is only read when it holds the position;
\* and the cached offset of the 7z stream is the file's own.
VolumeInvariant ==
  /\ got = [i \in 1 .. Len(got) |-> vpos - Len(got) + i]
  /\ vpc = "io" => start[vpart] <= vpos /\ vpos < start[vpart + 1]
  /\ ~volFailed => fileOff[cur] = curOff

===============================================================================
