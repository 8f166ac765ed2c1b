----------------------------- MODULE VolumeProofs -----------------------------
(***************************************************************************)
(* Proofs about volume sets.                                               *)
(*                                                                         *)
(* For every number of parts, every size of each and every length of a     *)
(* read: a volume set is the flat stream of FlatStream.  The refinement    *)
(* rests on VolumeInvariant, which is made inductive with the ranges of    *)
(* the variables, "no bytes are pending between reads" and "a 7z stream    *)
(* that failed reads no more".                                             *)
(*                                                                         *)
(* For every directory and every limit on parts: whichever volume is       *)
(* selected, the detectors find the same whole set or none (VolumeDetect), *)
(* because each that passed has shown what the name is not; and the set is *)
(* opened in the layout it was written in.                                 *)
(***************************************************************************)
EXTENDS VolumeStream, VolumeDetect, SequenceTheorems, FiniteSetTheorems, TLAPS

VolTypeOK ==
  /\ kind \in Kinds /\ start \in Starts
  /\ vpos \in 0 .. VolTotal /\ disk \in Parts
  /\ vpc \in {"idle", "walk", "io"} /\ vpart \in Parts
  /\ want \in Nat /\ got \in Seq(Nat) /\ Len(got) <= vpos
  /\ osPart \in Parts \union {-1}
  /\ fileOff \in [Parts -> Nat] /\ cur \in Parts /\ curOff \in Nat
  /\ volFailed \in BOOLEAN

VolInv ==
  /\ VolTypeOK
  /\ VolumeInvariant
  /\ vpc = "idle" => got = <<>>
  /\ kind = "7z" /\ vpc # "idle" => ~volFailed

-------------------------------------------------------------------------------
(* The numbers the bytes are.                                              *)

Upto(from, n) == [i \in 1 .. n |-> from + i]

LEMMA UptoIsSeq ==
  ASSUME NEW from \in Nat, NEW n \in Nat
  PROVE  Upto(from, n) \in Seq(Nat) /\ Len(Upto(from, n)) = n
BY DEF Upto

\* What follows the bytes up to p continues them.
LEMMA UptoConcat ==
  ASSUME NEW from \in Nat, NEW m \in Nat, NEW n \in Nat
  PROVE  Upto(from, m) \o Upto(from + m, n) = Upto(from, m + n)
<1> DEFINE a == Upto(from, m)
           b == Upto(from + m, n)
           c == Upto(from, m + n)
<1>0. from + m \in Nat /\ m + n \in Nat
  OBVIOUS
<1> HIDE DEF a, b, c
<1>1. /\ a \in Seq(Nat) /\ Len(a) = m
      /\ b \in Seq(Nat) /\ Len(b) = n
      /\ c \in Seq(Nat) /\ Len(c) = m + n
  <2>1. a \in Seq(Nat) /\ Len(a) = m
    BY UptoIsSeq DEF a
  <2>2. b \in Seq(Nat) /\ Len(b) = n
    BY <1>0, UptoIsSeq DEF b
  <2>3. c \in Seq(Nat) /\ Len(c) = m + n
    BY <1>0, UptoIsSeq DEF c
  <2> QED BY <2>1, <2>2, <2>3
<1>2. a \o b \in Seq(Nat) /\ Len(a \o b) = m + n
  BY <1>1, ConcatProperties
<1>3. \A i \in 1 .. m + n : (a \o b)[i] = c[i]
  <2> SUFFICES ASSUME NEW i \in 1 .. m + n PROVE (a \o b)[i] = c[i]
    OBVIOUS
  <2>1. c[i] = from + i
    BY DEF Upto, c
  <2>2. (a \o b)[i] = IF i <= m THEN a[i] ELSE b[i - m]
    BY <1>1, ConcatProperties
  <2>3. CASE i <= m
    <3>1. a[i] = from + i
      BY <2>3 DEF Upto, a
    <3> QED BY <2>1, <2>2, <2>3, <3>1
  <2>4. CASE ~(i <= m)
    <3>1. i - m \in 1 .. n /\ (from + m) + (i - m) = from + i
      BY <2>4
    <3>2. b[i - m] = (from + m) + (i - m)
      BY <3>1 DEF Upto, b
    <3> QED BY <2>1, <2>2, <2>4, <3>1, <3>2
  <2> QED BY <2>3, <2>4
<1>4. a \o b = c
  BY <1>1, <1>2, <1>3, SeqEqual
<1> QED BY <1>4 DEF a, b, c

-------------------------------------------------------------------------------
(* The sizes a set can have.                                               *)

LEMMA StartOrdered ==
  ASSUME start \in Starts
  PROVE  /\ start \in [0 .. Count -> Nat] /\ start[0] = 0
         /\ \A i, j \in 0 .. Count : i <= j => start[i] <= start[j]
         /\ VolTotal \in Nat
         /\ \A p \in Parts : start[p] \in Nat /\ start[p + 1] \in Nat
                               /\ start[p] <= VolTotal
BY VolumeAssumption DEF VolTotal, Parts

LEMMA NothingTaken ==
  ASSUME NEW n \in Nat, NEW p \in 0 .. n, NEW k, k = 0
  PROVE  p - k \in 0 .. n
OBVIOUS

LEMMA ClampedInside ==
  ASSUME VolTotal \in Nat, NEW t \in Int
  PROVE  Clamped(t) \in 0 .. VolTotal
BY DEF Clamped

\* The bytes a read of a part at its right offset returns are those behind the
\* position, and the read stays in the part.
LEMMA PartBytesFollow ==
  ASSUME VolInv, vpc = "io", NEW n \in 0 .. Asked
  PROVE  /\ InPart \in Nat /\ Asked \in Int
         /\ PartBytes(vpart, InPart, n) = Upto(vpos, n)
         /\ got \o PartBytes(vpart, InPart, n)
              = Upto(vpos - Len(got), Len(got) + n)
         /\ vpos + n <= VolTotal
<1> USE DEF VolInv, VolTypeOK
<1>1. /\ start[vpart] \in Nat /\ start[vpart + 1] \in Nat /\ VolTotal \in Nat
      /\ start[vpart] <= vpos /\ vpos < start[vpart + 1]
      /\ start[vpart + 1] <= VolTotal
  BY StartOrdered, VolumeAssumption DEF Parts, VolumeInvariant, VolTotal
<1>2. vpos \in Nat /\ Len(got) \in Nat /\ vpos - Len(got) \in Nat
  BY <1>1
<1>3. InPart \in Nat /\ Asked \in Int /\ n \in Nat /\ Asked <= start[vpart + 1] - vpos
  BY <1>1, <1>2, SMTT(30) DEF InPart, Asked, Lower
<1>4. PartBytes(vpart, InPart, n) = Upto(vpos, n)
  <2>1. start[vpart] + InPart = vpos
    BY <1>1, <1>2 DEF InPart
  <2> QED BY <2>1 DEF PartBytes, Upto
<1>5. got = Upto(vpos - Len(got), Len(got))
  BY DEF VolumeInvariant, Upto
<1> HIDE DEF VolInv, VolTypeOK
<1>6. Upto(vpos - Len(got), Len(got)) \o Upto(vpos, n)
        = Upto(vpos - Len(got), Len(got) + n)
  <2> DEFINE from == vpos - Len(got)
             m == Len(got)
  <2>1. from \in Nat /\ m \in Nat /\ n \in Nat /\ from + m = vpos
    BY <1>2, <1>3
  <2> HIDE DEF from, m
  <2>2. Upto(from, m) \o Upto(from + m, n) = Upto(from, m + n)
    BY <2>1, UptoConcat
  <2> QED BY <2>1, <2>2 DEF from, m
<1>7. vpos + n <= VolTotal
  BY <1>1, <1>2, <1>3
<1>8. got \o PartBytes(vpart, InPart, n) = Upto(vpos - Len(got), Len(got) + n)
  BY <1>4, <1>5, <1>6
<1> QED BY <1>3, <1>4, <1>7, <1>8

-------------------------------------------------------------------------------
(* The invariant.                                                          *)

LEMMA VolInitInv == VolInit => VolInv
<1> SUFFICES ASSUME VolInit PROVE VolInv
  OBVIOUS
<1> USE DEF VolInit
<1>1. start \in Starts /\ disk \in Parts /\ 0 \in Parts
  BY VolumeAssumption DEF Parts
<1>2. vpos \in 0 .. VolTotal
  BY <1>1, StartOrdered
<1>3. <<>> \in Seq(Nat) /\ Len(<<>>) = 0
  OBVIOUS
<1>4. VolTypeOK
  BY <1>1, <1>2, <1>3 DEF VolTypeOK
<1>5. VolumeInvariant
  <2>1. got = [i \in 1 .. Len(got) |-> vpos - Len(got) + i]
    BY <1>3, EmptySeq
  <2> QED BY <1>1, <2>1 DEF VolumeInvariant
<1> QED BY <1>4, <1>5 DEF VolInv

\* What the invariant says of `got`: nothing is pending at position p.
LEMMA NothingPending ==
  ASSUME NEW p \in Nat, NEW g, g = <<>>
  PROVE  /\ g = [i \in 1 .. Len(g) |-> p - Len(g) + i]
         /\ g \in Seq(Nat) /\ Len(g) <= p
<1>1. <<>> \in Seq(Nat) /\ Len(<<>>) = 0
  OBVIOUS
<1> QED BY <1>1

\* A part is read at the right offset: n bytes of it keep the invariant, whether
\* the read goes on or returns.
LEMMA ReadFromPartInv ==
  ASSUME VolInv, vpc = "io", NEW n \in 0 .. Asked, ReadFromPart(InPart, n),
         UNCHANGED start
  PROVE  /\ vpos' \in 0 .. VolTotal' /\ vpc' \in {"idle", "walk"} /\ want' \in Nat
         /\ got' = [i \in 1 .. Len(got') |-> vpos' - Len(got') + i]
         /\ got' \in Seq(Nat) /\ Len(got') <= vpos'
         /\ vpc' = "idle" => got' = <<>>
<1> DEFINE from == vpos - Len(got)
           now == got \o PartBytes(vpart, InPart, n)
<1>1. /\ vpos \in Nat /\ n \in Nat /\ Len(got) \in Nat /\ VolTotal \in Nat
      /\ from \in Nat /\ Len(got) + n \in Nat /\ vpos + n = from + (Len(got) + n)
  BY StartOrdered, PartBytesFollow, SMTT(30) DEF VolInv, VolTypeOK
<1>2. now = Upto(from, Len(got) + n) /\ vpos + n <= VolTotal
  BY PartBytesFollow
<1>3. vpos' = vpos + n /\ VolTotal' = VolTotal
  BY DEF ReadFromPart, VolTotal
<1>4. vpos' \in 0 .. VolTotal'
  BY <1>1, <1>2, <1>3
<1> HIDE DEF from
<1>5. CASE n = Asked /\ Len(now) < want
  <2>1. got' = Upto(from, Len(got) + n) /\ vpc' = "walk" /\ want' = want
    BY <1>2, <1>5 DEF ReadFromPart
  <2>2. vpos' = from + (Len(got) + n)
    BY <1>1, <1>3
  <2>3. /\ got' = [i \in 1 .. Len(got') |-> vpos' - Len(got') + i]
        /\ got' \in Seq(Nat) /\ Len(got') <= vpos'
    <3> DEFINE k == Len(got) + n
    <3>1. k \in Nat /\ from \in Nat /\ vpos' = from + k /\ got' = Upto(from, k)
      BY <1>1, <2>1, <2>2
    <3> HIDE DEF k
    <3>2. got' \in Seq(Nat) /\ Len(got') = k
      BY <3>1, UptoIsSeq
    <3>3. vpos' - Len(got') = from /\ Len(got') <= vpos'
      BY <3>1, <3>2
    <3>4. Upto(from, k) = [i \in 1 .. k |-> from + i]
      BY DEF Upto
    <3>5. got' = [i \in 1 .. Len(got') |-> vpos' - Len(got') + i]
      BY <3>1, <3>2, <3>3, <3>4
    <3> QED BY <3>2, <3>3, <3>5
  <2> QED BY <1>4, <2>1, <2>3 DEF VolInv, VolTypeOK
<1>6. CASE ~(n = Asked /\ Len(now) < want)
  <2>1. got' = <<>> /\ vpc' = "idle" /\ want' = 0
    BY <1>6 DEF ReadFromPart, Return
  <2>2. vpos' \in Nat
    BY <1>1, <1>3
  <2> QED BY <1>4, <2>1, <2>2, NothingPending
<1> QED BY <1>5, <1>6

LEMMA VolNextInv == VolInv /\ [VolNext]_volVars => VolInv'
<1> SUFFICES ASSUME VolInv, [VolNext]_volVars PROVE VolInv'
  OBVIOUS
<1>0. /\ start \in [0 .. Count -> Nat] /\ VolTotal \in Nat
      /\ \A p \in Parts : start[p] \in Nat /\ start[p + 1] \in Nat
                            /\ start[p] <= VolTotal
  BY StartOrdered DEF VolInv, VolTypeOK
<1>z. vpos \in Nat /\ disk \in Parts /\ vpart \in Parts /\ MaxWant \in Nat
  BY <1>0, VolumeAssumption DEF VolInv, VolTypeOK
<1>1. ASSUME vpc = "idle", vpos' \in 0 .. VolTotal, disk' \in Parts,
             UNCHANGED <<kind, start, vpc, vpart, want, got, osPart, fileOff, cur,
                         curOff, volFailed>>
      PROVE  VolInv'
  <2>1. VolTotal' = VolTotal /\ Parts' = Parts /\ vpos' \in Nat /\ got' = <<>>
    BY <1>0, <1>1 DEF VolTotal, Parts, VolInv
  <2>2. /\ got' = [i \in 1 .. Len(got') |-> vpos' - Len(got') + i]
        /\ got' \in Seq(Nat) /\ Len(got') <= vpos'
    BY <2>1, NothingPending
  <2>3. VolTypeOK'
    BY <1>1, <2>1, <2>2 DEF VolInv, VolTypeOK
  <2>4. VolumeInvariant'
    BY <1>1, <2>2 DEF VolInv, VolumeInvariant
  <2> QED BY <1>1, <2>1, <2>3, <2>4 DEF VolInv
<1>2. CASE SeekZip
  <2>1. PICK off \in -MaxWant .. MaxWant :
          vpos' \in { Clamped(off + base) :
                        base \in {IF kind = "disk" THEN start[disk] ELSE 0, vpos, VolTotal} }
    BY <1>2 DEF SeekZip
  <2>2. PICK base \in {IF kind = "disk" THEN start[disk] ELSE 0, vpos, VolTotal} :
          vpos' = Clamped(off + base)
    BY <2>1
  <2>3. off + base \in Int
    BY <1>0, <1>z, <2>1, <2>2
  <2>4. vpos' \in 0 .. VolTotal
    BY <1>0, <2>2, <2>3, ClampedInside
  <2> QED BY <1>1, <1>2, <1>z, <2>4 DEF SeekZip, VolIdle
<1>3. CASE SeekSz
  <2>1. PICK off \in -MaxWant .. MaxWant, base \in {0, vpos, VolTotal} :
          vpos' = Clamped(base + off)
    BY <1>3 DEF SeekSz
  <2>2. base + off \in Int
    BY <1>0, <1>z, <2>1
  <2>3. vpos' \in 0 .. VolTotal
    BY <1>0, <2>1, <2>2, ClampedInside
  <2> QED BY <1>1, <1>3, <1>z, <2>3 DEF SeekSz, VolIdle
<1>4. CASE SelectDisk
  <2>1. disk' \in Parts /\ vpos' = start[disk']
    BY <1>4 DEF SelectDisk
  <2>2. vpos' \in 0 .. VolTotal
    BY <1>0, <2>1
  <2> QED BY <1>1, <1>4, <2>1, <2>2 DEF SelectDisk, VolIdle
<1>5. CASE BeginRead
  <2>1. /\ vpc = "idle" /\ vpc' = "walk" /\ want' \in Nat /\ vpart' \in Parts
        /\ got = <<>> /\ got' = <<>> /\ (kind = "7z" => ~volFailed)
        /\ UNCHANGED <<kind, start, vpos, disk, osPart, fileOff, cur, curOff, volFailed>>
    BY <1>5, <1>z, VolumeAssumption DEF BeginRead, VolIdle, VolInv, VolTypeOK, Parts
  <2>2. VolTypeOK'
    BY <2>1 DEF VolInv, VolTypeOK, VolTotal, Parts
  <2>3. VolumeInvariant'
    BY <2>1 DEF VolInv, VolumeInvariant
  <2> QED BY <2>1, <2>2, <2>3 DEF VolInv
<1>6. CASE WalkBack
  <2>1. /\ vpc = "walk" /\ vpart' \in Parts
        /\ UNCHANGED <<kind, start, vpos, disk, vpc, want, got, osPart, fileOff, cur,
                       curOff, volFailed>>
    BY <1>6, <1>z, VolumeAssumption DEF WalkBack, Parts
  <2>2. VolTypeOK'
    BY <2>1 DEF VolInv, VolTypeOK, VolTotal, Parts
  <2>3. VolumeInvariant'
    BY <2>1 DEF VolInv, VolumeInvariant
  <2> QED BY <2>1, <2>2, <2>3 DEF VolInv
<1>7. CASE WalkOn
  <2>1. /\ vpc = "walk" /\ vpc' \in {"walk", "io"} /\ vpart' \in Parts
        /\ UNCHANGED <<kind, start, vpos, disk, want, got, osPart, fileOff, cur,
                       curOff, volFailed>>
    BY <1>7, <1>z, VolumeAssumption DEF WalkOn, Parts
  <2>2. VolTypeOK'
    BY <2>1 DEF VolInv, VolTypeOK, VolTotal, Parts
  <2>3. vpc' = "io" => start'[vpart'] <= vpos' /\ vpos' < start'[vpart' + 1]
    <3> SUFFICES ASSUME vpc' = "io"
                 PROVE  start[vpart] <= vpos /\ vpos < start[vpart + 1]
      BY <1>7, <2>1 DEF WalkOn
    <3>1. /\ vpos < VolTotal /\ (vpart = 0 \/ vpos >= start[vpart])
          /\ ~(vpart < Count - 1 /\ vpos >= start[vpart + 1])
      BY <1>7, <2>1 DEF WalkOn
    <3>2. start[0] = 0 /\ VolTotal = start[Count]
      BY StartOrdered DEF VolInv, VolTypeOK, VolTotal
    <3>3. start[vpart] <= vpos
      BY <1>0, <1>z, <3>1, <3>2
    <3>4. vpos < start[vpart + 1]
      <4>1. CASE vpart < Count - 1
        BY <1>0, <1>z, <3>1, <4>1
      <4>2. CASE ~(vpart < Count - 1)
        <5>1. vpart + 1 = Count
          BY <1>z, <4>2, VolumeAssumption DEF Parts
        <5> QED BY <3>1, <3>2, <5>1
      <4> QED BY <4>1, <4>2
    <3> QED BY <3>3, <3>4
  <2>4. VolumeInvariant'
    BY <2>1, <2>3 DEF VolInv, VolumeInvariant
  <2> QED BY <2>1, <2>2, <2>4 DEF VolInv
<1>8. ASSUME vpc' = "idle", got' = <<>>, want' = 0, osPart' \in Parts \union {-1},
             volFailed' \in BOOLEAN, volFailed' \/ UNCHANGED <<fileOff, cur, curOff, volFailed>>,
             fileOff' \in [Parts -> Nat], cur' \in Parts, curOff' \in Nat,
             UNCHANGED <<kind, start, vpos, disk, vpart>>
      PROVE  VolInv'
  <2>1. VolTotal' = VolTotal /\ Parts' = Parts
    BY <1>8 DEF VolTotal, Parts
  <2>2. /\ got' = [i \in 1 .. Len(got') |-> vpos' - Len(got') + i]
        /\ got' \in Seq(Nat) /\ Len(got') <= vpos'
    BY <1>8, <1>z, NothingPending
  <2>3. VolTypeOK'
    BY <1>8, <2>1, <2>2 DEF VolInv, VolTypeOK
  <2>4. VolumeInvariant'
    BY <1>8, <2>2 DEF VolInv, VolumeInvariant
  <2> QED BY <1>8, <2>3, <2>4 DEF VolInv
<1>9. CASE EndOfSet
  <2>1. /\ vpc' = "idle" /\ got' = <<>> /\ want' = 0
        /\ UNCHANGED <<kind, start, vpos, disk, vpart, osPart, fileOff, cur, curOff,
                       volFailed>>
    BY <1>9 DEF EndOfSet, Return
  <2> QED BY <1>8, <2>1 DEF VolInv, VolTypeOK
<1>10. CASE ReadZipPart
  <2>1. /\ vpc = "io" /\ kind # "7z"
        /\ UNCHANGED <<kind, start, disk, vpart, fileOff, cur, curOff>>
    BY <1>10 DEF ReadZipPart
  <2>2. CASE \E n \in 0 .. Asked :
               ReadFromPart(InPart, n) /\ osPart' = vpart /\ UNCHANGED volFailed
    <3>1. PICK n \in 0 .. Asked :
            ReadFromPart(InPart, n) /\ osPart' = vpart /\ UNCHANGED volFailed
      BY <2>2
    <3>2. /\ vpos' \in 0 .. VolTotal' /\ vpc' \in {"idle", "walk"} /\ want' \in Nat
          /\ got' = [i \in 1 .. Len(got') |-> vpos' - Len(got') + i]
          /\ got' \in Seq(Nat) /\ Len(got') <= vpos'
          /\ vpc' = "idle" => got' = <<>>
      BY <2>1, <3>1, ReadFromPartInv
    <3>3. VolTypeOK'
      BY <2>1, <3>1, <3>2 DEF VolInv, VolTypeOK, Parts
    <3>4. VolumeInvariant'
      BY <2>1, <3>1, <3>2 DEF VolInv, VolumeInvariant
    <3> QED BY <2>1, <3>2, <3>3, <3>4 DEF VolInv
  <2>3. CASE /\ Return(got) /\ volFailed' = TRUE
             /\ osPart' \in IF osPart = vpart THEN {vpart} ELSE {-1, vpart}
             /\ UNCHANGED vpos
    <3>1. vpc' = "idle" /\ got' = <<>> /\ want' = 0
      BY <2>3 DEF Return
    <3> QED BY <1>8, <1>z, <2>1, <2>3, <3>1 DEF VolInv, VolTypeOK
  <2> QED BY <1>10, <2>2, <2>3 DEF ReadZipPart
<1>11. CASE ReadSzPart
  <2>1. /\ vpc = "io" /\ kind = "7z" /\ ~volFailed
        /\ cur' = vpart /\ vpart' = 0
        /\ UNCHANGED <<kind, start, disk, osPart, volFailed>>
    BY <1>11 DEF ReadSzPart, VolInv
  <2>2. (IF NeedsSeek THEN InPart ELSE fileOff[vpart]) = InPart
    BY <2>1 DEF NeedsSeek, VolInv, VolumeInvariant
  <2>3. PICK n \in 0 .. Asked :
          /\ ReadFromPart(InPart, n)
          /\ fileOff' = [fileOff EXCEPT ![vpart] = InPart + n]
          /\ curOff' = InPart + n
    BY <1>11, <2>2 DEF ReadSzPart
  <2>4. /\ vpos' \in 0 .. VolTotal' /\ vpc' \in {"idle", "walk"} /\ want' \in Nat
        /\ got' = [i \in 1 .. Len(got') |-> vpos' - Len(got') + i]
        /\ got' \in Seq(Nat) /\ Len(got') <= vpos'
        /\ vpc' = "idle" => got' = <<>>
    BY <2>1, <2>3, ReadFromPartInv
  <2>5. InPart \in Nat /\ InPart + n \in Nat
    BY <2>1, <2>3, PartBytesFollow
  <2>6. fileOff' \in [Parts -> Nat] /\ fileOff'[cur'] = curOff' /\ 0 \in Parts
    BY <1>z, <2>1, <2>3, <2>5, VolumeAssumption, SMTT(30) DEF VolInv, VolTypeOK, Parts
  <2>7. VolTypeOK'
    BY <1>z, <2>1, <2>3, <2>4, <2>5, <2>6 DEF VolInv, VolTypeOK, Parts
  <2>8. VolumeInvariant'
    BY <2>1, <2>4, <2>6 DEF VolumeInvariant
  <2> QED BY <2>1, <2>4, <2>7, <2>8 DEF VolInv
<1>12. CASE FailSzPart
  <2>1. /\ vpc = "io" /\ vpc' = "idle" /\ got' = <<>> /\ want' = 0 /\ volFailed' = TRUE
        /\ UNCHANGED <<kind, start, vpos, disk, vpart, osPart>>
    BY <1>12 DEF FailSzPart, Return
  <2>2. fileOff' \in [Parts -> Nat] /\ cur' \in Parts /\ curOff' \in Nat
    <3>1. CASE UNCHANGED <<cur, curOff, fileOff>>
      BY <3>1 DEF VolInv, VolTypeOK
    <3>2. CASE /\ cur' = vpart /\ curOff' = InPart
               /\ \E o \in 0 .. Asked : fileOff' = [fileOff EXCEPT ![vpart] = InPart + o]
      <4>1. PICK o \in 0 .. Asked : fileOff' = [fileOff EXCEPT ![vpart] = InPart + o]
        BY <3>2
      <4>2. InPart \in Nat /\ InPart + o \in Nat
        BY <2>1, <4>1, PartBytesFollow
      <4> QED BY <1>z, <3>2, <4>1, <4>2 DEF VolInv, VolTypeOK
    <3> QED BY <1>12, <3>1, <3>2 DEF FailSzPart
  <2> QED BY <1>8, <2>1, <2>2 DEF VolInv, VolTypeOK
<1>13. CASE UNCHANGED volVars
  BY <1>13 DEF volVars, VolInv, VolTypeOK, VolumeInvariant, VolTotal, Parts
<1> QED BY <1>2, <1>3, <1>4, <1>5, <1>6, <1>7, <1>9, <1>10, <1>11, <1>12, <1>13
        DEF VolNext, VolStep

\* VolInv holds in every state zipx_volstream.c and sevenz_volstream.c reach.
THEOREM VolInvariance == VolSpec => []VolInv
<1>1. VolInit => VolInv
  BY VolInitInv
<1>2. VolInv /\ [VolNext]_volVars => VolInv'
  BY VolNextInv
<1> QED BY <1>1, <1>2, PTL DEF VolSpec

-------------------------------------------------------------------------------
(* The refinement of FlatStream.                                           *)

LEMMA FlatInitially == VolInit => Flat!FlatInit
<1> SUFFICES ASSUME VolInit PROVE Flat!FlatInit
  OBVIOUS
<1>1. VolTypeOK /\ got = <<>> /\ Len(got) = 0 /\ volRet = <<>>
  BY VolInitInv DEF VolInit, VolInv
<1>2. VolTotal \in Nat
  BY <1>1, StartOrdered DEF VolTypeOK
<1>3. vpos - Len(got) \in 0 .. VolTotal
  BY <1>1, <1>2 DEF VolTypeOK
<1> QED BY <1>1, <1>2, <1>3 DEF Flat!FlatInit

\* A seek: nothing was read, and the position is anywhere in the set.
LEMMA SeekIsFlat ==
  ASSUME VolInv, vpc = "idle", vpos' \in 0 .. VolTotal, UNCHANGED <<got, start>>,
         volRet' = <<>>
  PROVE  [Flat!FlatNext]_<<VolTotal, vpos - Len(got), volRet>>
<1>1. got' = <<>> /\ Len(got') = 0 /\ VolTotal' = VolTotal /\ VolTotal \in Nat
  BY StartOrdered DEF VolInv, VolTypeOK, VolTotal
<1>2. vpos' - Len(got') \in 0 .. VolTotal
  BY <1>1, NothingTaken
<1> QED BY <1>1, <1>2 DEF Flat!FlatNext, Flat!FlatSeek

\* A read that returns the bytes up to `to`, those it had among them.
LEMMA ReturnIsFlat ==
  ASSUME VolInv, NEW n \in Nat, vpos + n <= VolTotal, vpos' = vpos + n,
         Return(Upto(vpos - Len(got), Len(got) + n)), UNCHANGED start
  PROVE  [Flat!FlatNext]_<<VolTotal, vpos - Len(got), volRet>>
<1> DEFINE from == vpos - Len(got)
           k == Len(got) + n
<1>1. /\ VolTotal' = VolTotal /\ VolTotal \in Nat
      /\ from \in Nat /\ k \in Nat /\ vpos' = from + k /\ from + k <= VolTotal
  BY StartOrdered DEF VolInv, VolTypeOK, VolTotal
<1>2. /\ volRet' = Upto(from, k)
      /\ got' = <<>> /\ Len(got') = 0
  BY DEF Return
<1> HIDE DEF from, k
<1>3. k \in 0 .. VolTotal - from /\ vpos' - Len(got') = from + k
  BY <1>1, <1>2
<1>4. Flat!FlatRead
  BY <1>1, <1>2, <1>3 DEF Flat!FlatRead, Upto, from
<1> QED BY <1>1, <1>4 DEF Flat!FlatNext

LEMMA ReadFromPartIsFlat ==
  ASSUME VolInv, vpc = "io", NEW n \in 0 .. Asked, ReadFromPart(InPart, n),
         UNCHANGED start
  PROVE  [Flat!FlatNext]_<<VolTotal, vpos - Len(got), volRet>>
<1> DEFINE now == got \o PartBytes(vpart, InPart, n)
<1>1. /\ n \in Nat /\ vpos + n <= VolTotal /\ vpos' = vpos + n
      /\ now = Upto(vpos - Len(got), Len(got) + n)
  BY PartBytesFollow DEF ReadFromPart
<1>2. vpos \in Nat /\ Len(got) \in Nat /\ vpos - Len(got) \in Nat /\ Len(got) + n \in Nat
  BY <1>1, StartOrdered DEF VolInv, VolTypeOK
<1>3. CASE n = Asked /\ Len(now) < want
  <2>1. got' = now /\ volRet' = volRet /\ VolTotal' = VolTotal
    BY <1>3 DEF ReadFromPart, VolTotal
  <2>2. Len(got') = Len(got) + n
    BY <1>1, <1>2, <2>1, UptoIsSeq
  <2>3. vpos' - Len(got') = vpos - Len(got)
    BY <1>1, <1>2, <2>2
  <2> QED BY <2>1, <2>3
<1>4. CASE ~(n = Asked /\ Len(now) < want)
  <2>1. Return(now)
    BY <1>4 DEF ReadFromPart
  <2> HIDE DEF now
  <2> QED BY <1>1, <2>1, ReturnIsFlat
<1> QED BY <1>3, <1>4

LEMMA FlatStep ==
  VolInv /\ [VolNext]_volVars
    => [Flat!FlatNext]_<<VolTotal, vpos - Len(got), volRet>>
<1> SUFFICES ASSUME VolInv, [VolNext]_volVars
             PROVE  [Flat!FlatNext]_<<VolTotal, vpos - Len(got), volRet>>
  OBVIOUS
<1>1. VolInv'
  BY VolNextInv
<1>2. start' = start /\ VolTotal' = VolTotal
  BY DEF volVars, VolNext, VolStep, SeekZip, SeekSz, SelectDisk, BeginRead, WalkBack,
         WalkOn, EndOfSet, ReadZipPart, ReadSzPart, FailSzPart, VolTotal
<1>3. vpos' \in 0 .. VolTotal
  BY <1>1, <1>2 DEF VolInv, VolTypeOK
<1>4. CASE SeekZip
  BY <1>3, <1>4, SeekIsFlat DEF SeekZip, VolIdle
<1>5. CASE SeekSz
  BY <1>3, <1>5, SeekIsFlat DEF SeekSz, VolIdle
<1>6. CASE SelectDisk
  BY <1>3, <1>6, SeekIsFlat DEF SelectDisk, VolIdle
<1>7. CASE BeginRead
  BY <1>2, <1>7 DEF BeginRead, VolIdle, VolInv
<1>8. CASE WalkBack \/ WalkOn \/ UNCHANGED volVars
  BY <1>2, <1>8 DEF WalkBack, WalkOn, volVars
\* Returning what was read so far, with the position where it is.
<1>9. ASSUME Return(got), UNCHANGED vpos
      PROVE  [Flat!FlatNext]_<<VolTotal, vpos - Len(got), volRet>>
  <2>1. vpos \in Nat /\ Len(got) \in Nat /\ vpos + 0 = vpos /\ vpos <= VolTotal
        /\ Len(got) + 0 = Len(got)
    BY StartOrdered DEF VolInv, VolTypeOK
  <2>2. got = Upto(vpos - Len(got), Len(got) + 0)
    BY <2>1 DEF VolInv, VolumeInvariant, Upto
  <2> QED BY <1>2, <1>9, <2>1, <2>2, ReturnIsFlat
<1>10. CASE EndOfSet
  BY <1>9, <1>10 DEF EndOfSet
<1>11. CASE ReadZipPart
  <2>1. CASE \E n \in 0 .. Asked : ReadFromPart(InPart, n)
    BY <1>2, <1>11, <2>1, ReadFromPartIsFlat DEF ReadZipPart
  <2>2. CASE Return(got) /\ UNCHANGED vpos
    BY <1>9, <2>2
  <2> QED BY <1>11, <2>1, <2>2 DEF ReadZipPart
<1>12. CASE ReadSzPart
  <2>1. (IF NeedsSeek THEN InPart ELSE fileOff[vpart]) = InPart
    BY <1>12 DEF ReadSzPart, NeedsSeek, VolInv, VolumeInvariant
  <2>2. PICK n \in 0 .. Asked : ReadFromPart(InPart, n)
    BY <1>12, <2>1 DEF ReadSzPart
  <2> QED BY <1>2, <1>12, <2>2, ReadFromPartIsFlat DEF ReadSzPart
\* A failed read returns nothing and leaves the position where it got to.
<1>13. CASE FailSzPart
  <2>1. got' = <<>> /\ Len(got') = 0 /\ volRet' = <<>>
    BY <1>13 DEF FailSzPart, Return
  <2>2. VolTotal \in Nat /\ vpos' - Len(got') \in 0 .. VolTotal
    <3>1. VolTotal \in Nat
      BY StartOrdered DEF VolInv, VolTypeOK
    <3> QED BY <1>3, <2>1, <3>1, NothingTaken
  <2> QED BY <1>2, <2>1, <2>2 DEF Flat!FlatNext, Flat!FlatSeek
<1> QED BY <1>4, <1>5, <1>6, <1>7, <1>8, <1>10, <1>11, <1>12, <1>13
        DEF VolNext, VolStep

\* Both volume streams implement FlatStream: whatever parts a set has, its
\* readers see one stream of bytes, in order, across the boundaries.
THEOREM VolumesRefineFlat == VolSpec => VolumesAreFlat
<1>1. VolInit => Flat!FlatInit
  BY FlatInitially
<1>2. VolInv /\ [VolNext]_volVars
        => [Flat!FlatNext]_<<VolTotal, vpos - Len(got), volRet>>
  BY FlatStep
<1> QED BY <1>1, <1>2, VolInvariance, PTL DEF VolSpec, VolumesAreFlat, Flat!FlatSpec


-------------------------------------------------------------------------------
(* Detection and opening.                                                  *)

DetectTypeOK ==
  /\ dir \in Folders /\ sel \in dir /\ split \in Layouts
  /\ stage \in {"digit", "z", "tail", "part", "open", "over"}
  /\ volMode \in {"none", "disk", "concat"} /\ attempt \in {0, 1} /\ streams \in {0, 1}
  /\ found \in {"unknown", "set", "single", "refused", "unreadable"} /\ faulted \in BOOLEAN

\* What open_archive has tried: a second attempt is made of a set only, and the
\* first layout was not the one the archive was written in.
OpenPart ==
  /\ Detecting => found = "unknown" /\ attempt = 0 /\ streams = 0
  /\ stage = "open" => found \in {"set", "single"}
  /\ found = "set" => volMode \in {"disk", "concat"}
  /\ found = "single" => attempt = 0
  /\ attempt = 1 /\ found = "set" /\ ~faulted => split # volMode

OpenInv == DetectTypeOK /\ OpenPart /\ OpensAsWritten

LEMMA DetectingStages == Detecting <=> stage \in {"digit", "z", "tail", "part"}
BY DEF Detecting, Detectors

LEMMA AfterStages ==
  /\ After("digit") = "z" /\ After("z") = "tail" /\ After("tail") = "part"
  /\ After("part") = "open"
<1> DEFINE At(s) == CHOOSE k \in 1 .. 4 : Detectors[k] = s
<1>1. At("digit") = 1
  <2>1. Detectors[1] = "digit" /\ \A k \in 1 .. 4 : Detectors[k] = "digit" => k = 1
    BY DEF Detectors
  <2> QED  BY <2>1
<1>2. At("z") = 2
  <2>1. Detectors[2] = "z" /\ \A k \in 1 .. 4 : Detectors[k] = "z" => k = 2
    BY DEF Detectors
  <2> QED  BY <2>1
<1>3. At("tail") = 3
  <2>1. Detectors[3] = "tail" /\ \A k \in 1 .. 4 : Detectors[k] = "tail" => k = 3
    BY DEF Detectors
  <2> QED  BY <2>1
<1>4. At("part") = 4
  <2>1. Detectors[4] = "part" /\ \A k \in 1 .. 4 : Detectors[k] = "part" => k = 4
    BY DEF Detectors
  <2> QED  BY <2>1
<1> HIDE DEF At
<1>5. \A s : After(s) = IF At(s) = 4 THEN "open" ELSE Detectors[At(s) + 1]
  BY DEF After, At
<1> QED  BY <1>1, <1>2, <1>3, <1>4, <1>5 DEF Detectors

\* What one detector concludes, whichever it is.
LEMMA DetectorOpen ==
  ASSUME OpenInv, Detecting, UNCHANGED <<dir, sel, split, attempt, streams>>,
         \/ UNCHANGED <<stage, found, volMode, faulted>>
         \/ faulted' = faulted /\ Pass
         \/ Conclude("refused") /\ faulted' \in BOOLEAN /\ UNCHANGED volMode
         \/ Conclude("set") /\ volMode' \in {"disk", "concat"} /\ UNCHANGED faulted
  PROVE  OpenInv'
<1>1. /\ stage \in {"digit", "z", "tail", "part"} /\ found = "unknown" /\ attempt = 0
      /\ streams = 0
  BY DetectingStages DEF OpenInv, OpenPart
<1>2. CASE UNCHANGED <<stage, found, volMode, faulted>>
  BY <1>2 DEF OpenInv, DetectTypeOK, OpenPart, OpensAsWritten, Detecting, Layout, Other
<1>3. CASE faulted' = faulted /\ Pass
  <2>1. /\ volMode' = volMode
        /\ \/ stage' \in {"z", "tail", "part"} /\ found' = "unknown"
           \/ stage' = "open" /\ found' = "single"
    BY <1>1, <1>3, AfterStages DEF Pass
  <2> QED  BY <1>1, <1>3, <2>1 DEF OpenInv, DetectTypeOK, OpenPart, OpensAsWritten, Detecting, Detectors
<1>4. CASE Conclude("refused") /\ faulted' \in BOOLEAN /\ UNCHANGED volMode
  BY <1>1, <1>4 DEF Conclude, OpenInv, DetectTypeOK, OpenPart, OpensAsWritten, Detecting, Detectors
<1>5. CASE Conclude("set") /\ volMode' \in {"disk", "concat"} /\ UNCHANGED faulted
  BY <1>1, <1>5 DEF Conclude, OpenInv, DetectTypeOK, OpenPart, OpensAsWritten, Detecting, Detectors
<1> QED  BY <1>2, <1>3, <1>4, <1>5

LEMMA OpenInitially == DetectInit => OpenInv
BY DEF DetectInit, OpenInv, DetectTypeOK, OpenPart, OpensAsWritten

LEMMA OpenStep == OpenInv /\ [DetectNext]_detectVars => OpenInv'
<1> SUFFICES ASSUME OpenInv, [DetectNext]_detectVars PROVE OpenInv'
  OBVIOUS
<1>1. CASE UNCHANGED detectVars
  BY <1>1 DEF detectVars, OpenInv, DetectTypeOK, OpenPart, OpensAsWritten, Detecting, Layout, Other
<1>2. CASE NotMine
  BY <1>2, DetectorOpen DEF NotMine
<1>3. CASE ListName
  <2>1. Conclude("refused") \/ UNCHANGED <<stage, found>>
    BY <1>3 DEF ListName
  <2> QED  BY <1>3, <2>1, DetectorOpen DEF ListName, OpenInv, DetectTypeOK
<1>4. CASE DetectFails
  BY <1>4, DetectorOpen DEF DetectFails
<1>5. CASE NumberedSet
  <2>1. \/ Pass \/ (Conclude("refused") /\ UNCHANGED volMode)
        \/ (Conclude("set") /\ volMode' \in {"disk", "concat"})
    BY <1>5 DEF NumberedSet, Refuse, TakeSet
  <2>2. UNCHANGED <<dir, sel, split, attempt, streams, faulted>> /\ Detecting /\ faulted \in BOOLEAN
    BY <1>5 DEF NumberedSet, AllListed, OpenInv, DetectTypeOK
  <2> QED  BY <2>1, <2>2, DetectorOpen
<1>6. CASE DiskSet
  <2>1. \/ Pass \/ (Conclude("refused") /\ UNCHANGED volMode)
        \/ (Conclude("set") /\ volMode' \in {"disk", "concat"})
    BY <1>6 DEF DiskSet, Refuse, TakeSet
  <2>2. UNCHANGED <<dir, sel, split, attempt, streams, faulted>> /\ Detecting /\ faulted \in BOOLEAN
    BY <1>6 DEF DiskSet, AllListed, OpenInv, DetectTypeOK
  <2> QED  BY <2>1, <2>2, DetectorOpen
<1>7. CASE NoMemory
  BY <1>7, DetectingStages
     DEF NoMemory, OpenInv, DetectTypeOK, OpenPart, OpensAsWritten, Detecting, Detectors
<1>8. CASE NewStream
  BY <1>8 DEF NewStream, OpenInv, DetectTypeOK, OpenPart, OpensAsWritten, Detecting, Detectors
<1>9. CASE OpenFits
  <2>1. found \in {"set", "single"} /\ (found = "set" => split = Layout)
    BY <1>9 DEF OpenFits, Fits, OpenInv, OpenPart
  <2>2. Layout' = Layout
    BY <1>9 DEF OpenFits, Layout, Other
  <2> QED  BY <1>9, <2>1, <2>2
           DEF OpenFits, OpenInv, DetectTypeOK, OpenPart, OpensAsWritten, Detecting, Detectors
<1>10. CASE OpenMisfits
  <2>1. /\ stage = "open" /\ streams' = 0 /\ faulted' \in BOOLEAN /\ found \in {"set", "single"}
        /\ split \in {"disk", "concat", "bad"}
        /\ ~faulted' => ~faulted /\ ~Fits
        /\ UNCHANGED <<dir, sel, split, volMode>>
    BY <1>10, DetectAssumption DEF OpenMisfits, OpenInv, OpenPart, DetectTypeOK
  <2>2. CASE attempt + 1 < Tries
    <3>1. found = "set" /\ attempt = 0 /\ attempt' = 1 /\ UNCHANGED <<stage, found>>
      BY <1>10, <2>2 DEF OpenMisfits, Tries, OpenInv, DetectTypeOK
    <3>2. ~faulted' => split # volMode
      BY <2>1, <3>1 DEF Fits, Layout
    <3> QED  BY <2>1, <3>1, <3>2
             DEF OpenInv, DetectTypeOK, OpenPart, OpensAsWritten, Detecting, Detectors
  <2>3. CASE ~(attempt + 1 < Tries)
    <3>1. stage' = "over" /\ found' = "unreadable" /\ UNCHANGED attempt
      BY <1>10, <2>3 DEF OpenMisfits
    <3>2. found = "set" => attempt = 1 /\ volMode \in {"disk", "concat"}
      BY <2>3 DEF Tries, OpenInv, OpenPart, DetectTypeOK
    <3>3. ~faulted' => split = "bad"
      BY <2>1, <3>2 DEF Fits, Layout, Other, OpenInv, OpenPart
    <3> QED  BY <2>1, <3>1, <3>3
             DEF OpenInv, DetectTypeOK, OpenPart, OpensAsWritten, Detecting, Detectors
  <2> QED  BY <2>2, <2>3
<1> QED  BY <1>1, <1>2, <1>3, <1>4, <1>5, <1>6, <1>7, <1>8, <1>9, <1>10 DEF DetectNext

\* A set is opened in the layout it was written in, is given up only when it has
\* neither, and no stream is left over: open_archive of zip_extract.c.
THEOREM OpenedAsWritten == DetectSpec => []OpensAsWritten
<1>1. OpenInv => OpensAsWritten
  BY DEF OpenInv
<1> QED  BY <1>1, OpenInitially, OpenStep, PTL DEF DetectSpec

-------------------------------------------------------------------------------
(* Every member of a set leads to it.                                      *)

\* No name is in capitals.
Plain == \A n \in dir : ~n.capitals
Matching == { n \in dir : Wanted(n) }

\* What the detectors gone by have shown of the name.
FindPart ==
  Plain =>
    /\ Detecting => listed \subseteq Matching /\ Cardinality(listed) <= Room
    /\ stage = "z" => sel.style # "digit"
    /\ stage = "tail" => sel.style \notin {"digit", "z"}
    /\ stage = "part" => /\ sel.style \notin {"digit", "z"}
                         /\ sel.style = "zip" => Family(sel) = {}

LEMMA RoomNat == Room \in Nat /\ Room <= MaxParts
BY DetectAssumption DEF Room

LEMMA MatchingFinite ==
  ASSUME DetectTypeOK
  PROVE  /\ IsFiniteSet(Matching) /\ IsFiniteSet(Family(sel))
         /\ \A s \in SUBSET Matching : IsFiniteSet(s) /\ Cardinality(s) \in Nat
<1>1. IsFiniteSet(dir) /\ Matching \in SUBSET dir /\ Family(sel) \in SUBSET dir
  BY DetectAssumption DEF DetectTypeOK, Matching, Family
<1>2. IsFiniteSet(Matching) /\ IsFiniteSet(Family(sel))
  BY <1>1, FS_Subset
<1>3. ASSUME NEW s \in SUBSET Matching PROVE IsFiniteSet(s) /\ Cardinality(s) \in Nat
  BY <1>2, FS_Subset, FS_CardinalityType
<1> QED  BY <1>2, <1>3

LEMMA MatchingIsFamily ==
  ASSUME Plain, Applies, Detecting, stage = "tail" => sel.style = "zip"
  PROVE  Matching = Family(sel)
<1>1. stage \in {"digit", "z", "tail", "part"}
  BY DetectingStages
<1>2. \A n \in dir : Wanted(n) <=> n.style = Scheme(sel) /\ n.stem = sel.stem
  BY <1>1 DEF Plain, Applies, Wanted, Scheme
<1> QED  BY <1>2 DEF Matching, Family

\* The name selected is one of those looked for, but at the tail.
LEMMA SelMatches ==
  ASSUME DetectTypeOK, Plain, Applies, Detecting, stage # "tail"
  PROVE  sel \in Matching
BY DetectingStages DEF DetectTypeOK, Plain, Applies, Wanted, Matching

LEMMA ListedAll ==
  ASSUME DetectTypeOK, FindPart, Plain, AllListed
  PROVE  listed = Matching /\ Cardinality(Matching) <= Room
BY DEF AllListed, FindPart, Matching

\* A set found is put in order.
LEMMA OrderedSet ==
  ASSUME NEW s, IsFiniteSet(s), Contiguous(s)
  PROVE  LET k == Cardinality(s) IN
         /\ k \in Nat /\ Len(InOrder(s)) = k
         /\ \A i \in 1 .. k : InOrder(s)[i] \in s /\ InOrder(s)[i].num = i
         /\ \A x : /\ Len(Append(InOrder(s), x)) = k + 1
                   /\ Append(InOrder(s), x)[k + 1] = x
                   /\ \A i \in 1 .. k : Append(InOrder(s), x)[i] = InOrder(s)[i]
<1> DEFINE k == Cardinality(s)
<1>1. k \in Nat
  BY FS_CardinalityType
<1>2. ASSUME NEW i \in 1 .. k PROVE InOrder(s)[i] \in s /\ InOrder(s)[i].num = i
  <2>1. \E n \in s : n.num = i
    BY <1>2 DEF Contiguous
  <2>2. InOrder(s)[i] = CHOOSE n \in s : n.num = i
    BY <1>2 DEF InOrder
  <2> QED  BY <2>1, <2>2
<1>3. DOMAIN InOrder(s) = 1 .. k
  BY DEF InOrder
<1> HIDE DEF k
<1>4. InOrder(s) \in Seq(s)
  <2>1. InOrder(s) \in [1 .. k -> s]
    <3>1. InOrder(s) = [i \in 1 .. k |-> InOrder(s)[i]]
      BY DEF InOrder, k
    <3> QED  BY <1>2, <3>1
  <2> QED  BY <1>1, <2>1
<1>5. Len(InOrder(s)) = k
  BY <1>1, <1>3, <1>4
<1>6. ASSUME NEW x
      PROVE  /\ Len(Append(InOrder(s), x)) = k + 1
             /\ Append(InOrder(s), x)[k + 1] = x
             /\ \A i \in 1 .. k : Append(InOrder(s), x)[i] = InOrder(s)[i]
  <2> DEFINE u == InOrder(s)
  <2>1. u \in Seq(s \cup {x}) /\ x \in s \cup {x} /\ Len(u) = k
    BY <1>4, <1>5
  <2> HIDE DEF u
  <2>2. /\ Len(Append(u, x)) = k + 1 /\ Append(u, x)[k + 1] = x
        /\ \A i \in 1 .. k : Append(u, x)[i] = u[i]
    BY <1>1, <2>1
  <2> QED  BY <2>2 DEF u
<1> QED  BY <1>1, <1>2, <1>5, <1>6 DEF k

\* open_archive leaves what was found alone.
LEMMA OpenKeepsFound ==
  ASSUME OpenInv, MembersAgree, stage \in {"open", "over"}, stage' \in {"open", "over"},
         UNCHANGED <<dir, sel, volumes>>, found' = found \/ found' = "unreadable",
         ~faulted' => ~faulted
  PROVE  FindPart' /\ MembersAgree'
<1>1. Whole(sel)' = Whole(sel) /\ (IsWholeSet(volumes, sel))' = IsWholeSet(volumes, sel) /\ Plain' = Plain
  BY DEF Whole, IsWholeSet, Family, Plain, Scheme
<1>2. FindPart'
  BY DEF FindPart, Detecting, Detectors
<1>3. MembersAgree'
  BY <1>1 DEF MembersAgree
<1> QED  BY <1>2, <1>3

\* A detector that passes on.
LEMMA PassFinds ==
  ASSUME OpenInv, FindPart, Detecting, Pass, UNCHANGED <<dir, sel, faulted>>,
         Plain /\ stage # "tail" => sel.style # stage,
         Plain /\ stage = "tail" /\ sel.style = "zip" => Family(sel) = {}
  PROVE  FindPart' /\ MembersAgree'
<1>1. stage \in {"digit", "z", "tail", "part"} /\ found = "unknown"
  BY DetectingStages DEF OpenInv, OpenPart
<1>2. /\ listed' = {} /\ UNCHANGED <<volumes, volMode>>
      /\ \/ stage = "digit" /\ stage' = "z" /\ found' = "unknown"
         \/ stage = "z" /\ stage' = "tail" /\ found' = "unknown"
         \/ stage = "tail" /\ stage' = "part" /\ found' = "unknown"
         \/ stage = "part" /\ stage' = "open" /\ found' = "single"
  BY <1>1, AfterStages DEF Pass
<1>3. /\ Whole(sel)' = Whole(sel) /\ Family(sel)' = Family(sel) /\ Plain' = Plain
  BY DEF Whole, Family, Plain, Scheme
<1>4. FindPart'
  <2>1. listed' \subseteq Matching' /\ Cardinality(listed') <= Room'
    BY <1>2, FS_EmptySet, DetectAssumption DEF Room
  <2> QED  BY <1>2, <1>3, <2>1 DEF FindPart
<1>5. ASSUME Plain, stage = "part" PROVE ~Whole(sel)
  <2>1. sel.style \notin {"digit", "z", "part"} /\ (sel.style = "zip" => Family(sel) = {})
    BY <1>5 DEF FindPart
  <2>2. CASE sel.style = "zip"
    <3>1. Cardinality(Family(sel)) = 0
      BY <2>1, <2>2, FS_EmptySet
    <3> QED  BY <2>2, <3>1, DetectAssumption DEF Whole, Scheme
  <2>3. CASE sel.style # "zip"
    BY <2>1, <2>3 DEF Whole, Scheme
  <2> QED  BY <2>2, <2>3
<1>6. MembersAgree'
  BY <1>2, <1>3, <1>5 DEF MembersAgree, Plain
<1> QED  BY <1>4, <1>6

\* A detector that concludes: what it found is the set, or there is none.
LEMMA ConcludeFinds ==
  ASSUME OpenInv, FindPart, Detecting, UNCHANGED <<dir, sel>>, faulted' = faulted,
         NEW f \in {"set", "refused"}, Conclude(f),
         Plain /\ f = "set" => Whole(sel) /\ IsWholeSet(volumes', sel),
         Plain /\ f = "refused" => ~Whole(sel)
  PROVE  FindPart' /\ MembersAgree'
<1>1. found' = f /\ stage' \in {"open", "over"}
  BY DEF Conclude
<1>2. Whole(sel)' = Whole(sel) /\ (IsWholeSet(volumes, sel))' = IsWholeSet(volumes', sel) /\ Plain' = Plain
  BY DEF Whole, IsWholeSet, Family, Plain, Scheme
<1>3. FindPart'
  BY <1>1 DEF FindPart, Detecting, Detectors
<1>4. MembersAgree'
  BY <1>1, <1>2 DEF MembersAgree, Plain
<1> QED  BY <1>3, <1>4

LEMMA ListFinds ==
  ASSUME OpenInv, FindPart, ListName
  PROVE  FindPart' /\ MembersAgree'
<1>1. /\ Detecting /\ Applies /\ UNCHANGED <<dir, sel, faulted, volumes>>
  BY DEF ListName
<1>2. PICK n \in dir \ listed :
        /\ Wanted(n)
        /\ IF Cardinality(listed) >= Room
           THEN Conclude("refused") /\ listed' = {}
           ELSE listed' = listed \union {n} /\ UNCHANGED <<stage, found>>
  BY DEF ListName
<1>3. Plain => /\ listed \in SUBSET Matching /\ n \in Matching
               /\ Cardinality(listed) <= Room /\ Cardinality(listed) \in Nat
               /\ IsFiniteSet(listed)
  BY <1>1, <1>2, MatchingFinite DEF FindPart, OpenInv, Matching
<1>4. CASE Cardinality(listed) >= Room
  <2>1. ASSUME Plain PROVE ~Whole(sel)
    <3>1. Cardinality(listed \cup {n}) = Cardinality(listed) + 1
      BY <1>2, <1>3, <2>1, FS_AddElement
    <3>2. Cardinality(listed \cup {n}) <= Cardinality(Matching) /\ Cardinality(Matching) \in Nat
      BY <1>3, <2>1, MatchingFinite, FS_Subset, FS_CardinalityType DEF OpenInv
    <3>3. Cardinality(Matching) > Room
      BY <1>3, <1>4, <2>1, <3>1, <3>2, RoomNat
    <3>4. stage = "tail" => sel.style = "zip"
      BY <1>2 DEF Wanted
    <3>5. Cardinality(Family(sel)) > Room /\ Cardinality(Family(sel)) \in Nat
      BY <1>1, <2>1, <3>2, <3>3, <3>4, MatchingIsFamily
    <3>6. /\ stage \in {"digit", "part"} => Scheme(sel) = stage /\ Room = MaxParts
          /\ stage \in {"z", "tail"} => Scheme(sel) = "z" /\ Room = MaxParts - 1
          /\ stage \in {"digit", "z", "tail", "part"}
      BY <1>1, <3>4, DetectingStages DEF Applies, Scheme, Room
    <3> QED  BY <3>5, <3>6, DetectAssumption DEF Whole
  <2> QED  BY <1>1, <1>2, <1>4, <2>1, ConcludeFinds
<1>5. CASE ~(Cardinality(listed) >= Room)
  <2>1. listed' = listed \union {n} /\ UNCHANGED <<stage, found>>
    BY <1>2, <1>5
  <2>2. Plain' = Plain /\ Matching' = Matching /\ Room' = Room /\ Family(sel)' = Family(sel)
        /\ Detecting' = Detecting
    BY <1>1, <2>1 DEF Plain, Matching, Wanted, Room, Family, Scheme, Detecting
  <2>3. ASSUME Plain PROVE listed' \subseteq Matching /\ Cardinality(listed') <= Room
    <3>1. Cardinality(listed') = Cardinality(listed) + 1
      BY <1>2, <1>3, <2>1, <2>3, FS_AddElement
    <3> QED  BY <1>3, <1>5, <2>1, <2>3, <3>1, RoomNat
  <2>4. FindPart'
    BY <1>1, <2>1, <2>2, <2>3 DEF FindPart
  <2>5. found' = "unknown"
    BY <1>1, <2>1 DEF OpenInv, OpenPart
  <2>6. MembersAgree'
    BY <2>5 DEF MembersAgree
  <2> QED  BY <2>4, <2>6
<1> QED  BY <1>4, <1>5

LEMMA NumberedFinds ==
  ASSUME OpenInv, FindPart, NumberedSet
  PROVE  FindPart' /\ MembersAgree'
<1> DEFINE k == Cardinality(listed)
<1>1. /\ Detecting /\ Applies /\ AllListed /\ stage \in {"digit", "part"}
      /\ UNCHANGED <<dir, sel, faulted>> /\ faulted' = faulted
  BY DEF NumberedSet, AllListed
<1>2. sel.style = stage /\ Scheme(sel) = stage /\ Room = MaxParts
  BY <1>1 DEF Applies, Scheme, Room
<1>3. Plain => /\ listed = Family(sel) /\ k <= MaxParts /\ k \in Nat /\ IsFiniteSet(listed)
               /\ sel \in listed
  BY <1>1, <1>2, ListedAll, MatchingIsFamily, MatchingFinite, SelMatches DEF OpenInv
<1>4. CASE listed = {}
  <2>1. ~Plain
    BY <1>3, <1>4
  <2>2. Pass
    BY <1>1, <1>4, FS_EmptySet DEF NumberedSet
  <2> QED  BY <1>1, <2>1, <2>2, PassFinds
<1>5. CASE listed # {} /\ (k = 1 \/ ~Contiguous(listed))
  <2>1. Conclude("refused")
    BY <1>5 DEF NumberedSet, Refuse
  <2>2. Plain => ~Whole(sel)
    BY <1>1, <1>2, <1>3, <1>5 DEF Whole, Contiguous
  <2> QED  BY <1>1, <2>1, <2>2, ConcludeFinds
<1>6. CASE listed # {} /\ k # 1 /\ Contiguous(listed)
  <2>1. Conclude("set") /\ volumes' = InOrder(listed)
    BY <1>6 DEF NumberedSet, TakeSet
  <2>2. ASSUME Plain PROVE Whole(sel) /\ IsWholeSet(volumes', sel)
    <3>1. k \in 2 .. MaxParts
      <4>1. k # 0
        BY <1>3, <1>6, <2>2, FS_EmptySet
      <4> QED  BY <1>3, <1>6, <2>2, <4>1, DetectAssumption
    <3>2. Whole(sel)
      BY <1>1, <1>2, <1>3, <1>6, <2>2, <3>1 DEF Whole, Contiguous
    <3>3. Len(volumes') = k /\ \A i \in 1 .. k : volumes'[i] \in listed /\ volumes'[i].num = i
      BY <1>3, <1>6, <2>1, <2>2, OrderedSet
    <3>4. IsWholeSet(volumes', sel)
      BY <1>1, <1>2, <1>3, <2>2, <3>3 DEF IsWholeSet
    <3> QED  BY <3>2, <3>4
  <2> QED  BY <1>1, <2>1, <2>2, ConcludeFinds
<1> QED  BY <1>4, <1>5, <1>6

LEMMA DiskFinds ==
  ASSUME OpenInv, FindPart, DiskSet
  PROVE  FindPart' /\ MembersAgree'
<1> DEFINE k == Cardinality(listed)
<1>1. /\ Detecting /\ Applies /\ AllListed /\ stage \in {"z", "tail"}
      /\ UNCHANGED <<dir, sel, faulted>> /\ faulted' = faulted
  BY DEF DiskSet, AllListed
<1>2. stage = "z" => sel.style = "z"
  BY <1>1 DEF Applies
<1>3. Plain => listed = Matching
  BY <1>1, ListedAll DEF OpenInv
<1>4. ASSUME Plain, sel.style \in {"z", "zip"}
      PROVE  /\ listed = Family(sel) /\ k <= MaxParts - 1 /\ k \in Nat /\ IsFiniteSet(listed)
             /\ Scheme(sel) = "z"
             /\ LastDisk # {} <=> \E m \in dir : m.style = "zip" /\ m.stem = sel.stem
             /\ \A m \in LastDisk : m.style = "zip" /\ m.stem = sel.stem
  <2>1. stage = "tail" => sel.style = "zip"
    BY <1>1, <1>4 DEF FindPart
  <2>2. listed = Family(sel) /\ k <= MaxParts - 1 /\ k \in Nat /\ IsFiniteSet(listed)
    BY <1>1, <1>4, <2>1, ListedAll, MatchingIsFamily, MatchingFinite DEF OpenInv, Room
  <2>3. Scheme(sel) = "z" /\ sel \in dir
    BY <1>4 DEF Scheme, OpenInv, DetectTypeOK
  <2>4. /\ LastDisk # {} <=> \E m \in dir : m.style = "zip" /\ m.stem = sel.stem
        /\ \A m \in LastDisk : m.style = "zip" /\ m.stem = sel.stem
    BY <1>1, <1>4, <2>1, <2>3 DEF LastDisk, Plain
  <2> QED  BY <2>2, <2>3, <2>4
<1>5. CASE listed = {}
  <2>1. Pass
    BY <1>1, <1>5 DEF DiskSet
  <2>2. Plain /\ stage # "tail" => sel.style # stage
    BY <1>1, <1>3, <1>5, SelMatches DEF OpenInv
  <2>3. Plain /\ stage = "tail" /\ sel.style = "zip" => Family(sel) = {}
    BY <1>4, <1>5
  <2> QED  BY <1>1, <2>1, <2>2, <2>3, PassFinds
<1>6. ASSUME Plain, listed # {} PROVE sel.style \in {"z", "zip"}
  <2>1. \E n \in dir : Wanted(n)
    BY <1>3, <1>6 DEF Matching
  <2> QED  BY <1>1, <1>2, <2>1 DEF Wanted
<1>7. CASE listed # {} /\ (~Contiguous(listed) \/ LastDisk = {})
  <2>1. Conclude("refused")
    BY <1>7 DEF DiskSet, Refuse
  <2>2. Plain => ~Whole(sel)
    BY <1>4, <1>6, <1>7 DEF Whole, Contiguous
  <2> QED  BY <1>1, <2>1, <2>2, ConcludeFinds
<1>8. CASE listed # {} /\ Contiguous(listed) /\ LastDisk # {}
  <2>1. PICK last \in LastDisk : Conclude("set") /\ volumes' = Append(InOrder(listed), last)
    BY <1>8 DEF DiskSet, TakeSet
  <2>2. ASSUME Plain PROVE Whole(sel) /\ IsWholeSet(volumes', sel)
    <3>1. k \in 1 .. MaxParts - 1
      <4>1. k # 0
        BY <1>4, <1>6, <1>8, <2>2, FS_EmptySet
      <4> QED  BY <1>4, <1>6, <1>8, <2>2, <4>1, DetectAssumption
    <3>2. Whole(sel)
      BY <1>4, <1>6, <1>8, <2>2, <3>1 DEF Whole, Contiguous
    <3>3. /\ Len(volumes') = k + 1 /\ volumes'[k + 1] = last
          /\ \A i \in 1 .. k : volumes'[i] \in listed /\ volumes'[i].num = i
      BY <1>4, <1>6, <1>8, <2>1, <2>2, OrderedSet
    <3>4. IsWholeSet(volumes', sel)
      BY <1>4, <1>6, <1>8, <2>1, <2>2, <3>3 DEF IsWholeSet
    <3> QED  BY <3>2, <3>4
  <2> QED  BY <1>1, <2>1, <2>2, ConcludeFinds
<1> QED  BY <1>5, <1>7, <1>8

LEMMA FindInitially == DetectInit => FindPart /\ MembersAgree
BY FS_EmptySet, DetectAssumption DEF DetectInit, FindPart, MembersAgree, Room

LEMMA FindStep ==
  OpenInv /\ FindPart /\ MembersAgree /\ [DetectNext]_detectVars => FindPart' /\ MembersAgree'
<1> SUFFICES ASSUME OpenInv, FindPart, MembersAgree, [DetectNext]_detectVars
             PROVE  FindPart' /\ MembersAgree'
  OBVIOUS
<1>1. CASE UNCHANGED detectVars
  <2>1. UNCHANGED <<dir, sel, split, stage, listed, volumes, volMode, attempt, streams, found, faulted>>
    BY <1>1 DEF detectVars
  <2>2. /\ Whole(sel)' = Whole(sel) /\ (IsWholeSet(volumes, sel))' = IsWholeSet(volumes, sel)
        /\ Plain' = Plain /\ Family(sel)' = Family(sel) /\ Matching' = Matching /\ Room' = Room
        /\ Detecting' = Detecting
    BY <2>1 DEF Whole, IsWholeSet, Family, Plain, Scheme, Matching, Wanted, Room, Detecting
  <2>3. FindPart'
    BY <2>1, <2>2 DEF FindPart
  <2> QED  BY <2>1, <2>2, <2>3 DEF MembersAgree
<1>2. CASE NotMine
  <2>1. Detecting /\ ~Applies /\ Pass /\ UNCHANGED <<dir, sel, faulted>>
    BY <1>2 DEF NotMine
  <2> QED  BY <2>1, PassFinds DEF Applies
<1>3. CASE ListName
  BY <1>3, ListFinds
<1>4. CASE DetectFails
  <2>1. /\ faulted' = TRUE /\ found' = "refused" /\ stage' = "over"
    BY <1>4 DEF DetectFails, Conclude
  <2> QED  BY <2>1 DEF FindPart, MembersAgree, Detecting, Detectors
<1>5. CASE NumberedSet
  BY <1>5, NumberedFinds
<1>6. CASE DiskSet
  BY <1>6, DiskFinds
<1>7. CASE NoMemory \/ NewStream \/ OpenFits
  BY <1>7, OpenKeepsFound DEF NoMemory, NewStream, OpenFits
<1>8. CASE OpenMisfits
  <2>1. stage' \in {"open", "over"} /\ (found' = found \/ found' = "unreadable") /\ (~faulted' => ~faulted)
    BY <1>8 DEF OpenMisfits
  <2> QED  BY <1>8, <2>1, OpenKeepsFound DEF OpenMisfits
<1> QED  BY <1>1, <1>2, <1>3, <1>4, <1>5, <1>6, <1>7, <1>8 DEF DetectNext

\* Whichever volume is selected, zipx_volume.c finds the same ordered set, only
\* whole ones and every whole one.
THEOREM MembersAlwaysAgree == DetectSpec => []MembersAgree
<1>1. DetectInit => OpenInv /\ FindPart /\ MembersAgree
  BY OpenInitially, FindInitially
<1>2. OpenInv /\ FindPart /\ MembersAgree /\ [DetectNext]_detectVars
        => (OpenInv /\ FindPart /\ MembersAgree)'
  BY OpenStep, FindStep
<1> QED  BY <1>1, <1>2, PTL DEF DetectSpec
===============================================================================
