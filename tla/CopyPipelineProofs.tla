-------------------------- MODULE CopyPipelineProofs --------------------------
(***************************************************************************)
(* Proofs about CopyPipeline, for every number of slots, buffer size and   *)
(* file length.  The inductive invariant says where the ring stands: the   *)
(* k slots from write_index on are ready, the reader's slot is the one     *)
(* after them, and their bytes continue one another from what has been     *)
(* written to what has been read.                                          *)
(***************************************************************************)
EXTENDS CopyPipeline, TLAPS

Claimed == rpc \in {"read", "store"}

(* How far slot s is ahead of write_index. *)
Offset(s) == IF s >= writeIndex THEN s - writeIndex ELSE s - writeIndex + Slots

(* The file position of the first byte that no ready slot holds yet. *)
NextByte == IF rpc = "store" /\ rn > 0 THEN data[rslot] ELSE inPos

(* k slots are ready, and the reader fills the next one. *)
Ring(k) ==
  /\ \A s \in Slot : ready[s] <=> Offset(s) < k
  /\ Claimed => Offset(rslot) = k /\ readIndex = NextSlot(rslot)
  /\ ~Claimed /\ ~done => Offset(readIndex) = IF k = Slots THEN 0 ELSE k

(* The bytes of the k ready slots follow one another. *)
Chain(k) ==
  \A s \in Slot : Offset(s) < k =>
    data[s] + size[s] = IF Offset(s) + 1 = k THEN NextByte ELSE data[NextSlot(s)]

(* What has been written ends where the first of them starts. *)
Front(k) ==
  wpc \in {"open", "lock", "wait", "write", "finish"} =>
    outLen = IF k = 0 THEN NextByte
             ELSE data[writeIndex] + (IF wpc = "write" THEN off ELSE 0)

RingInv == \E k \in 0 .. Slots : Ring(k) /\ Chain(k) /\ Front(k)

ReaderInv ==
  /\ wpc = "open" => rpc = "none"
  /\ wpc = "open" \/ rpc # "none" \/ wpc \in {"close", "commit", "done"}
  /\ rpc = "store" /\ rn > 0 => data[rslot] + rn = inPos
  /\ rpc = "store" /\ rn = 0 => inPos = FileLen
  /\ done /\ ~error => cancel \/ (inPos = FileLen /\ ~Claimed)

WriterInv ==
  /\ outExact
  /\ wpc = "write" => /\ wslot = writeIndex /\ ready[wslot]
                      /\ wsize = size[wslot] /\ off <= wsize
  /\ wpc = "finish" => cancel \/ outLen = FileLen
  /\ wpc \notin {"stop", "join", "close", "commit", "done"} => ret = "fail"
  /\ ret = "ok" => cancel \/ outLen = FileLen
  /\ wpc = "commit" /\ ret = "ok" => outLen = FileLen

IInv ==
  /\ TypeOK /\ RingInv /\ ReaderInv /\ WriterInv
  /\ DstWholeOrOld /\ ReaderGoneBeforeFree

-------------------------------------------------------------------------------
(* Ring arithmetic.                                                        *)

(* The slot after i is i + 1, or 0 after the last one. *)
LEMMA NextSlotValue ==
  ASSUME NEW i \in Slot
  PROVE  NextSlot(i) = IF i = Slots - 1 THEN 0 ELSE i + 1
<1>1. CASE i = Slots - 1
  BY <1>1, SlotsAssumption DEF NextSlot, Slot
<1>2. CASE i # Slots - 1
  <2>1. i + 1 \in 0 .. Slots - 1
    BY <1>2, SlotsAssumption DEF Slot
  <2>2. (i + 1) % Slots = i + 1
    BY <2>1, SlotsAssumption
  <2> QED BY <1>2, <2>2 DEF NextSlot
<1> QED BY <1>1, <1>2

(* Offsets number the slots from write_index on. *)
LEMMA OffsetFacts ==
  ASSUME writeIndex \in Slot
  PROVE  /\ \A s \in Slot : Offset(s) \in Slot
         /\ Offset(writeIndex) = 0
         /\ \A s, u \in Slot : Offset(s) = Offset(u) => s = u
         /\ \A s \in Slot : /\ NextSlot(s) \in Slot
                           /\ Offset(NextSlot(s)) =
                                IF Offset(s) = Slots - 1 THEN 0 ELSE Offset(s) + 1
BY NextSlotValue, SlotsAssumption DEF Offset, Slot

(* When write_index moves on, every other slot comes one step closer. *)
LEMMA OffsetAfterRelease ==
  ASSUME writeIndex \in Slot, writeIndex' = NextSlot(writeIndex), NEW s \in Slot
  PROVE  Offset(s)' = IF Offset(s) = 0 THEN Slots - 1 ELSE Offset(s) - 1
BY NextSlotValue, SlotsAssumption DEF Offset, Slot

-------------------------------------------------------------------------------
(* Types.                                                                  *)

(* Every step of either thread leaves every variable within its type:      *)
(* in particular read_index and write_index stay inside slots[].           *)
LEMMA TypeStep == TypeOK /\ [Next]_vars => TypeOK'
<1> SUFFICES ASSUME TypeOK, [Next]_vars PROVE TypeOK'
  OBVIOUS
<1> USE SlotsAssumption, BufSizeAssumption, FileLenAssumption
        DEF TypeOK, vars, ring, reader, writer, result
<1>1. CASE ReaderWait
  BY <1>1 DEF ReaderWait
<1>2. CASE ReaderStop
  BY <1>2 DEF ReaderStop, WakeWriter
<1>3. CASE ReaderClaim
  <2>1. NextSlot(readIndex) \in Slot
    BY OffsetFacts
  <2> QED BY <1>3, <2>1 DEF ReaderClaim
<1>4. CASE ReaderRead
  BY <1>4 DEF ReaderRead
<1>5. CASE ReaderStore
  <2>1. ready' \in [Slot -> BOOLEAN]
    <3>1. ready' = ready \/ ready' = [ready EXCEPT ![rslot] = TRUE]
      BY <1>5 DEF ReaderStore
    <3> QED BY <3>1, Zenon
  <2>2. size' \in [Slot -> 0 .. BufSize]
    <3>1. size' = size \/ (rn \in 0 .. BufSize /\ size' = [size EXCEPT ![rslot] = rn])
      BY <1>5 DEF ReaderStore
    <3> QED BY <3>1, Zenon
  <2>3. done' \in BOOLEAN /\ error' \in BOOLEAN
    BY <1>5 DEF ReaderStore
  <2> QED BY <1>5, <2>1, <2>2, <2>3 DEF ReaderStore, WakeWriter
<1>6. CASE WriterOpen
  BY <1>6, ZenonT(30) DEF WriterOpen
<1>7. CASE WriterWait
  BY <1>7 DEF WriterWait
<1>8. CASE WriterEnd
  BY <1>8 DEF WriterEnd
<1>9. CASE WriterTake
  BY <1>9 DEF WriterTake
<1>10. CASE WriterWrite
  BY <1>10 DEF WriterWrite
<1>11. CASE WriterRelease
  <2>1. NextSlot(writeIndex) \in Slot
    BY OffsetFacts
  <2> QED BY <1>11, <2>1 DEF WriterRelease, WakeReader
<1>12. CASE WriterFinish
  BY <1>12 DEF WriterFinish
<1>13. CASE WriterStop
  BY <1>13 DEF WriterStop, WakeReader
<1>14. CASE WriterJoin
  BY <1>14 DEF WriterJoin
<1>15. CASE WriterClose
  BY <1>15 DEF WriterClose
<1>16. CASE WriterCommit \/ WriterDiscard
  BY <1>16, ZenonT(30) DEF WriterCommit, WriterDiscard
<1>17. CASE RequestCancel
  BY <1>17 DEF RequestCancel
<1>18. CASE SpuriousWakeup
  BY <1>18 DEF SpuriousWakeup
<1>19. CASE UNCHANGED vars
  BY <1>19
<1> QED
  BY <1>1, <1>2, <1>3, <1>4, <1>5, <1>6, <1>7, <1>8, <1>9, <1>10, <1>11, <1>12,
     <1>13, <1>14, <1>15, <1>16, <1>17, <1>18, <1>19 DEF Next, ReaderNext, WriterNext

-------------------------------------------------------------------------------
(* Who is where.                                                           *)

(* The reader thread is gone, or was never started, whenever the writer    *)
(* has passed its join; and done without an error means that the reader    *)
(* saw the end of the file or a cancel.                                    *)
LEMMA ReaderStep ==
  TypeOK /\ ReaderInv /\ ReaderGoneBeforeFree /\ [Next]_vars
    => ReaderInv' /\ ReaderGoneBeforeFree'
<1> SUFFICES ASSUME TypeOK, ReaderInv, ReaderGoneBeforeFree, [Next]_vars
             PROVE  ReaderInv' /\ ReaderGoneBeforeFree'
  OBVIOUS
<1> USE BufSizeAssumption, FileLenAssumption
        DEF TypeOK, ReaderInv, ReaderGoneBeforeFree, Claimed, vars, ring, reader, writer, result
<1>1. CASE ReaderWait \/ ReaderStop
  BY <1>1 DEF ReaderWait, ReaderStop, ReaderMustStop, WakeWriter
<1>2. CASE ReaderClaim
  BY <1>2 DEF ReaderClaim, ReaderMustStop
<1>3. CASE ReaderRead
  <2>1. /\ rpc' = "store" /\ rslot' = rslot /\ rn' \in Int
        /\ rn' > 0 => data'[rslot] + rn' = inPos'
        /\ rn' = 0 => inPos' = FileLen
    BY <1>3 DEF ReaderRead
  <2>2. ~(done /\ ~error) \/ cancel
    BY <1>3 DEF ReaderRead
  <2> QED BY <1>3, <2>1, <2>2 DEF ReaderRead
<1>4. CASE ReaderStore
  BY <1>4 DEF ReaderStore, WakeWriter
<1>5. CASE WriterOpen \/ WriterWait \/ WriterEnd \/ WriterTake
  BY <1>5 DEF WriterOpen, WriterWait, WriterEnd, WriterTake
<1>6. CASE WriterWrite
  BY <1>6 DEF WriterWrite
<1>7. CASE WriterRelease
  BY <1>7 DEF WriterRelease, WakeReader
<1>8. CASE WriterFinish \/ WriterStop
  BY <1>8 DEF WriterFinish, WriterStop, WakeReader
<1>9. CASE WriterJoin \/ WriterClose \/ WriterCommit \/ WriterDiscard
  BY <1>9 DEF WriterJoin, WriterClose, WriterCommit, WriterDiscard
<1>10. CASE RequestCancel \/ SpuriousWakeup \/ UNCHANGED vars
  BY <1>10 DEF RequestCancel, SpuriousWakeup
<1> QED
  BY <1>1, <1>2, <1>3, <1>4, <1>5, <1>6, <1>7, <1>8, <1>9, <1>10
     DEF Next, ReaderNext, WriterNext

-------------------------------------------------------------------------------
(* The ring.                                                               *)

(* A step that moves no slot, no index and no position keeps the ring as   *)
(* it is, as long as done does not become false and the writer does not    *)
(* come back into its loop.                                                *)
LEMMA RingKept ==
  ASSUME RingInv,
         UNCHANGED <<readIndex, writeIndex, ready, size, data, rslot, rn, inPos, outLen>>,
         Claimed' <=> Claimed, (rpc = "store")' <=> rpc = "store",
         done => done',
         wpc' = wpc \/ wpc' \in {"stop", "join", "close", "commit", "done"}
           \/ /\ wpc \in {"open", "lock", "wait", "finish"}
              /\ wpc' \in {"lock", "wait", "finish"},
         off' = off
  PROVE  RingInv'
<1>1. PICK k \in 0 .. Slots : Ring(k) /\ Chain(k) /\ Front(k)
  BY DEF RingInv
<1>2. NextByte' = NextByte /\ (\A s \in Slot : Offset(s)' = Offset(s))
  BY DEF NextByte, Offset
<1>3. Ring(k)'
  BY <1>1, <1>2 DEF Ring, Offset
<1>4. Chain(k)'
  BY <1>1, <1>2 DEF Chain, NextSlot, NextByte, Offset
<1>5. Front(k)'
  BY <1>1, <1>2 DEF Front
<1> QED BY <1>3, <1>4, <1>5 DEF RingInv

(* The reader only claims the slot right after the ready ones.             *)
LEMMA RingClaim ==
  ASSUME TypeOK, RingInv, ReaderClaim
  PROVE  RingInv'
<1> USE SlotsAssumption DEF TypeOK
<1>1. PICK k \in 0 .. Slots : Ring(k) /\ Chain(k) /\ Front(k)
  BY DEF RingInv
<1>2. ~done /\ ~ready[readIndex] /\ rpc = "lock"
  BY DEF ReaderClaim, ReaderMustWait, ReaderMustStop
<1>3. k # Slots /\ Offset(readIndex) = k
  BY <1>1, <1>2 DEF Ring, Claimed, Slot
<1>4. NextByte' = NextByte /\ (\A s \in Slot : Offset(s)' = Offset(s))
  BY <1>2 DEF NextByte, Offset, ReaderClaim
<1>5. Ring(k)'
  BY <1>1, <1>3, <1>4 DEF Ring, Claimed, Offset, ReaderClaim, NextSlot
<1>6. Chain(k)'
  BY <1>1, <1>4 DEF Chain, NextSlot, NextByte, Offset, ReaderClaim
<1>7. Front(k)'
  BY <1>1, <1>4 DEF Front, ReaderClaim, writer
<1> QED BY <1>5, <1>6, <1>7 DEF RingInv

(* read() overwrites the buffer of a slot that is not ready, and what it   *)
(* read starts where the ready slots end.                                  *)
LEMMA RingRead ==
  ASSUME TypeOK, RingInv, ReaderRead
  PROVE  RingInv'
<1> USE SlotsAssumption DEF TypeOK
<1>1. PICK k \in 0 .. Slots : Ring(k) /\ Chain(k) /\ Front(k)
  BY DEF RingInv
<1>2. /\ UNCHANGED <<readIndex, writeIndex, ready, size, rslot, done, wpc, off, outLen>>
      /\ rpc = "read" /\ rpc' = "store"
  BY DEF ReaderRead, writer
<1>3. Offset(rslot) = k
  BY <1>1, <1>2 DEF Ring, Claimed
<1>4. \A s \in Slot : s # rslot => data'[s] = data[s]
  BY DEF ReaderRead
<1>5. NextByte' = NextByte
  BY <1>2 DEF ReaderRead, NextByte
<1>6. \A s \in Slot : Offset(s)' = Offset(s)
  BY <1>2 DEF Offset
<1>7. Ring(k)'
  BY <1>1, <1>2, <1>6 DEF Ring, Claimed, Offset, NextSlot
<1>8. ASSUME NEW s \in Slot, Offset(s)' < k
      PROVE  data'[s] + size'[s] =
               IF Offset(s)' + 1 = k THEN NextByte' ELSE data'[NextSlot(s)]
  <2>1. s # rslot
    BY <1>3, <1>6, <1>8
  <2>2. Offset(s) + 1 # k => NextSlot(s) # rslot /\ NextSlot(s) \in Slot
    BY <1>3, <1>6, <1>8, OffsetFacts DEF Slot
  <2>3. data[s] + size[s] = IF Offset(s) + 1 = k THEN NextByte ELSE data[NextSlot(s)]
    BY <1>1, <1>6, <1>8 DEF Chain
  <2> QED BY <1>2, <1>4, <1>5, <1>6, <2>1, <2>2, <2>3
<1>9. Chain(k)'
  BY <1>8 DEF Chain, NextSlot
<1>10. Front(k)'
  <2>1. k # 0 => writeIndex # rslot
    BY <1>3, OffsetFacts
  <2> QED BY <1>1, <1>2, <1>4, <1>5, <2>1 DEF Front
<1> QED BY <1>7, <1>9, <1>10 DEF RingInv

(* A stored block continues the ready ones; without one the reader has     *)
(* finished.                                                               *)
LEMMA RingStore ==
  ASSUME TypeOK, ReaderInv, WriterInv, RingInv, ReaderStore
  PROVE  RingInv'
<1> USE SlotsAssumption DEF TypeOK
<1>1. PICK k \in 0 .. Slots : Ring(k) /\ Chain(k) /\ Front(k)
  BY DEF RingInv
<1>2. /\ UNCHANGED <<readIndex, writeIndex, data, rslot, rn, inPos, off, outLen>>
      /\ rpc = "store" /\ rpc' = "lock"
      /\ wpc' = IF wpc = "wait" THEN "lock" ELSE wpc
  BY DEF ReaderStore, WakeWriter
<1>3. Offset(rslot) = k /\ readIndex = NextSlot(rslot)
  BY <1>1, <1>2 DEF Ring, Claimed
<1>4. \A s \in Slot : Offset(s)' = Offset(s)
  BY <1>2 DEF Offset
<1>5. NextByte' = inPos
  BY <1>2 DEF NextByte
<1>6. CASE rn <= 0
  <2>1. done' /\ UNCHANGED <<ready, size>>
    BY <1>6 DEF ReaderStore
  <2>2. NextByte = inPos
    BY <1>6 DEF NextByte
  <2>3. Ring(k)'
    BY <1>1, <1>2, <1>4, <2>1 DEF Ring, Claimed, Offset
  <2>4. Chain(k)'
    BY <1>1, <1>2, <1>4, <1>5, <2>1, <2>2 DEF Chain, NextSlot, Offset, NextByte
  <2>5. Front(k)'
    BY <1>1, <1>2, <1>5, <2>2 DEF Front
  <2> QED BY <2>3, <2>4, <2>5 DEF RingInv
<1>7. CASE rn > 0
  <2>1. /\ ready' = [ready EXCEPT ![rslot] = TRUE]
        /\ size' = [size EXCEPT ![rslot] = rn]
        /\ UNCHANGED done
    BY <1>7 DEF ReaderStore
  <2>2. k + 1 \in 0 .. Slots
    BY <1>3, OffsetFacts DEF Slot
  <2>3. NextByte = data[rslot] /\ data[rslot] + rn = inPos
    BY <1>2, <1>7 DEF NextByte, ReaderInv
  <2>4. Ring(k + 1)'
    <3>1. \A s \in Slot : ready'[s] <=> Offset(s)' < k + 1
      <4> SUFFICES ASSUME NEW s \in Slot PROVE ready'[s] <=> Offset(s)' < k + 1
        OBVIOUS
      <4>1. CASE s = rslot
        BY <1>3, <1>4, <2>1, <4>1
      <4>2. CASE s # rslot
        <5>1. ready'[s] = ready[s] /\ Offset(s) # k
          BY <1>3, <2>1, <4>2, OffsetFacts
        <5>2. ready[s] <=> Offset(s) < k
          BY <1>1 DEF Ring
        <5>3. Offset(s) \in Int
          BY OffsetFacts DEF Slot
        <5> QED BY <1>4, <5>1, <5>2, <5>3
      <4> QED BY <4>1, <4>2
    <3>2. Offset(readIndex) = IF k + 1 = Slots THEN 0 ELSE k + 1
      <4>1. Offset(readIndex) = IF k = Slots - 1 THEN 0 ELSE k + 1
        BY <1>3, OffsetFacts
      <4> QED BY <4>1
    <3> QED BY <1>2, <1>4, <3>1, <3>2 DEF Ring, Claimed, Offset
  <2>5. ASSUME NEW s \in Slot, Offset(s)' < k + 1
        PROVE  data'[s] + size'[s] =
                 IF Offset(s)' + 1 = k + 1 THEN NextByte' ELSE data'[NextSlot(s)]
    <3>1. CASE s = rslot
      <4>1. Offset(s)' = k
        BY <1>3, <1>4, <3>1
      <4>2. data'[s] = data[rslot] /\ size'[s] = rn
        BY <1>2, <2>1, <3>1
      <4> QED BY <1>5, <2>3, <4>1, <4>2
    <3>2. CASE s # rslot
      <4>1. Offset(s)' = Offset(s) /\ Offset(s) < k /\ size'[s] = size[s] /\ data' = data
        <5>1. Offset(s) \in 0 .. Slots - 1
          BY OffsetFacts DEF Slot
        <5>2. Offset(s) # k
          BY <1>3, <3>2, OffsetFacts
        <5>3. size'[s] = size[s]
          BY <2>1, <3>2
        <5> QED BY <1>2, <1>4, <2>5, <5>1, <5>2, <5>3
      <4>2. Offset(s) + 1 = k => NextSlot(s) = rslot
        <5> SUFFICES ASSUME Offset(s) + 1 = k PROVE NextSlot(s) = rslot
          OBVIOUS
        <5>1. Offset(s) \in 0 .. Slots - 1 /\ Offset(rslot) \in 0 .. Slots - 1
          BY OffsetFacts DEF Slot
        <5>2. Offset(s) # Slots - 1
          BY <1>3, <5>1
        <5>3. Offset(NextSlot(s)) = Offset(rslot)
          BY <1>3, <5>2, OffsetFacts
        <5> QED BY <5>3, OffsetFacts
      <4>3. data[s] + size[s] = IF Offset(s) + 1 = k THEN NextByte ELSE data[NextSlot(s)]
        BY <1>1, <4>1 DEF Chain
      <4>4. Offset(s)' + 1 # k + 1
        <5>1. Offset(s) \in 0 .. Slots - 1
          BY OffsetFacts DEF Slot
        <5> QED BY <4>1, <5>1
      <4>5. CASE Offset(s) + 1 = k
        BY <2>3, <4>1, <4>2, <4>3, <4>4, <4>5
      <4>6. CASE Offset(s) + 1 # k
        BY <4>1, <4>3, <4>4, <4>6
      <4> QED BY <4>5, <4>6
    <3> QED BY <3>1, <3>2
  <2>6. Chain(k + 1)'
    BY <2>5 DEF Chain, NextSlot
  <2>7. Front(k + 1)'
    <3>1. k = 0 => rslot = writeIndex
      BY <1>3, OffsetFacts
    <3>2. k = 0 => wpc # "write"
      BY <1>1, OffsetFacts DEF Ring, WriterInv
    <3> QED BY <1>1, <1>2, <1>5, <2>3, <3>1, <3>2 DEF Front
  <2> QED BY <2>2, <2>4, <2>6, <2>7 DEF RingInv
<1> QED BY <1>6, <1>7

(* Taking the slot at write_index moves nothing in the ring.               *)
LEMMA RingTake ==
  ASSUME TypeOK, RingInv, WriterTake
  PROVE  RingInv'
<1> USE SlotsAssumption DEF TypeOK
<1>1. PICK k \in 0 .. Slots : Ring(k) /\ Chain(k) /\ Front(k)
  BY DEF RingInv
<1>2. UNCHANGED <<ring, reader, outLen>> /\ wpc = "lock" /\ wpc' = "write" /\ off' = 0
  BY DEF WriterTake
<1>3. NextByte' = NextByte /\ (\A s \in Slot : Offset(s)' = Offset(s))
  BY <1>2 DEF NextByte, Offset, ring, reader
<1>4. Ring(k)'
  BY <1>1, <1>2, <1>3 DEF Ring, Claimed, Offset, NextSlot, ring, reader
<1>5. Chain(k)'
  BY <1>1, <1>2, <1>3 DEF Chain, NextSlot, NextByte, Offset, ring, reader
<1>6. Front(k)'
  BY <1>1, <1>2, <1>3 DEF Front, ring, reader
<1> QED BY <1>4, <1>5, <1>6 DEF RingInv

(* write() moves the end of the temporary file along the slot it drains.   *)
LEMMA RingWrite ==
  ASSUME TypeOK, WriterInv, RingInv, WriterWrite
  PROVE  RingInv'
<1> USE SlotsAssumption, BufSizeAssumption DEF TypeOK
<1>1. PICK k \in 0 .. Slots : Ring(k) /\ Chain(k) /\ Front(k)
  BY DEF RingInv
<1>2. UNCHANGED <<ring, reader>> /\ wpc = "write"
  BY DEF WriterWrite
<1>3. NextByte' = NextByte /\ (\A s \in Slot : Offset(s)' = Offset(s))
  BY <1>2 DEF NextByte, Offset, ring, reader
<1>4. Ring(k)'
  BY <1>1, <1>2, <1>3 DEF Ring, Claimed, Offset, NextSlot, ring, reader
<1>5. Chain(k)'
  BY <1>1, <1>2, <1>3 DEF Chain, NextSlot, NextByte, Offset, ring, reader
<1>6. k # 0
  BY <1>1, <1>2, OffsetFacts DEF Ring, WriterInv
<1>7. outLen = data[writeIndex] + off
  BY <1>1, <1>2, <1>6 DEF Front
<1>8. \/ wpc' = "write" /\ \E n \in 1 .. BufSize : off' = off + n /\ outLen' = outLen + n
      \/ wpc' = "stop"
  BY <1>2 DEF WriterWrite
<1>9. Front(k)'
  BY <1>2, <1>6, <1>7, <1>8 DEF Front, ring
<1> QED BY <1>4, <1>5, <1>9 DEF RingInv

(* Freeing the drained slot leaves one ready slot less, and what has been  *)
(* written ends where the next one starts.                                 *)
LEMMA RingRelease ==
  ASSUME TypeOK, WriterInv, RingInv, WriterRelease
  PROVE  RingInv'
<1> USE SlotsAssumption DEF TypeOK
<1>1. PICK k \in 0 .. Slots : Ring(k) /\ Chain(k) /\ Front(k)
  BY DEF RingInv
<1>2. /\ UNCHANGED <<readIndex, done, size, data, rslot, rn, inPos, off, outLen>>
      /\ wpc = "write" /\ wpc' = "lock" /\ off = wsize
      /\ ready' = [ready EXCEPT ![writeIndex] = FALSE]
      /\ writeIndex' = NextSlot(writeIndex)
      /\ wslot = writeIndex /\ ready[writeIndex] /\ off = size[writeIndex]
      /\ rpc' = IF rpc = "wait" THEN "lock" ELSE rpc
  BY DEF WriterRelease, WriterInv, WakeReader
<1>3. k # 0 /\ k - 1 \in 0 .. Slots
  BY <1>1, <1>2, OffsetFacts DEF Ring
<1>4. \A s \in Slot : Offset(s)' = IF Offset(s) = 0 THEN Slots - 1 ELSE Offset(s) - 1
  BY <1>2, OffsetAfterRelease
<1>5. NextByte' = NextByte /\ (Claimed' <=> Claimed)
  BY <1>2 DEF NextByte, Claimed
<1>6. \A s \in Slot : /\ Offset(s) \in 0 .. Slots - 1
                      /\ Offset(s) = 0 <=> s = writeIndex
  BY OffsetFacts DEF Slot
<1>7. Ring(k - 1)'
  <2>1. \A s \in Slot : ready'[s] <=> Offset(s)' < k - 1
    <3> SUFFICES ASSUME NEW s \in Slot PROVE ready'[s] <=> Offset(s)' < k - 1
      OBVIOUS
    <3>1. CASE s = writeIndex
      <4>1. ~ready'[s]
        BY <1>2, <3>1
      <4>2. Offset(s)' = Slots - 1
        BY <1>4, <1>6, <3>1
      <4> QED BY <4>1, <4>2
    <3>2. CASE s # writeIndex
      <4>1. ready'[s] = ready[s]
        BY <1>2, <3>2
      <4>2. ready[s] <=> Offset(s) < k
        BY <1>1 DEF Ring
      <4>3. Offset(s)' = Offset(s) - 1
        BY <1>4, <1>6, <3>2
      <4>4. Offset(s) \in 0 .. Slots - 1
        BY <1>6
      <4> QED BY <4>1, <4>2, <4>3, <4>4
    <3> QED BY <3>1, <3>2
  <2>2. Claimed => /\ \A s \in Slot : s = rslot => Offset(s)' = k - 1
                   /\ readIndex = NextSlot(rslot)
    BY <1>1, <1>3, <1>4 DEF Ring
  <2>3. ~Claimed /\ ~done =>
          \A s \in Slot : s = readIndex => Offset(s)' = IF k - 1 = Slots THEN 0 ELSE k - 1
    BY <1>1, <1>3, <1>4 DEF Ring
  <2> QED BY <1>2, <1>5, <2>1, <2>2, <2>3 DEF Ring, Offset, NextSlot
<1>8. ASSUME NEW s \in Slot, Offset(s)' < k - 1
      PROVE  data'[s] + size'[s] =
               IF Offset(s)' + 1 = k - 1 THEN NextByte' ELSE data'[NextSlot(s)]
  <2>1. Offset(s) \in 0 .. Slots - 1
    BY <1>6
  <2>2. Offset(s) # 0 /\ Offset(s)' = Offset(s) - 1
    BY <1>4, <1>8, <2>1
  <2>3. data[s] + size[s] = IF Offset(s) + 1 = k THEN NextByte ELSE data[NextSlot(s)]
    <3>1. Offset(s) < k
      BY <1>8, <2>1, <2>2
    <3> QED BY <1>1, <3>1 DEF Chain
  <2>4. Offset(s)' + 1 = k - 1 <=> Offset(s) + 1 = k
    BY <2>1, <2>2
  <2> QED BY <1>2, <1>5, <2>3, <2>4
<1>9. Chain(k - 1)'
  BY <1>8 DEF Chain, NextSlot
<1>10. Front(k - 1)'
  <2>1. outLen = data[writeIndex] + size[writeIndex]
    BY <1>1, <1>2, <1>3 DEF Front
  <2>2. data[writeIndex] + size[writeIndex] =
          IF k = 1 THEN NextByte ELSE data[NextSlot(writeIndex)]
    BY <1>1, <1>3, OffsetFacts DEF Chain
  <2>3. data[NextSlot(writeIndex)] \in Int
    BY OffsetFacts
  <2>4. k - 1 = 0 <=> k = 1
    BY <1>1
  <2>5. CASE k = 1
    BY <1>2, <1>5, <2>1, <2>2, <2>5 DEF Front
  <2>6. CASE k # 1
    BY <1>2, <2>1, <2>2, <2>3, <2>4, <2>6 DEF Front
  <2> QED BY <2>5, <2>6
<1> QED BY <1>3, <1>7, <1>9, <1>10 DEF RingInv

(* Every step keeps the ring's bytes in line: the reader claims, fills and *)
(* stores only the slot after the ready ones, and the writer takes, writes *)
(* and frees only the first of them.                                       *)
LEMMA RingStep ==
  TypeOK /\ ReaderInv /\ WriterInv /\ RingInv /\ [Next]_vars => RingInv'
<1> SUFFICES ASSUME TypeOK, ReaderInv, WriterInv, RingInv, [Next]_vars
             PROVE  RingInv'
  OBVIOUS
<1> USE DEF Claimed, ring, reader, writer, result, vars
<1>1. CASE ReaderWait
  BY <1>1, RingKept DEF ReaderWait
<1>2. CASE ReaderStop
  BY <1>2, RingKept DEF ReaderStop, WakeWriter
<1>3. CASE ReaderClaim
  BY <1>3, RingClaim
<1>4. CASE ReaderRead
  BY <1>4, RingRead
<1>5. CASE ReaderStore
  BY <1>5, RingStore
<1>6. CASE WriterOpen
  BY <1>6, RingKept DEF WriterOpen, ReaderInv
<1>7. CASE WriterWait
  BY <1>7, RingKept DEF WriterWait
<1>8. CASE WriterEnd
  BY <1>8, RingKept DEF WriterEnd
<1>9. CASE WriterTake
  BY <1>9, RingTake
<1>10. CASE WriterWrite
  BY <1>10, RingWrite
<1>11. CASE WriterRelease
  BY <1>11, RingRelease
<1>12. CASE WriterFinish
  BY <1>12, RingKept DEF WriterFinish
<1>13. CASE WriterStop
  BY <1>13, RingKept DEF WriterStop, WakeReader
<1>14. CASE WriterJoin
  BY <1>14, RingKept DEF WriterJoin
<1>15. CASE WriterClose
  BY <1>15, RingKept DEF WriterClose
<1>16. CASE WriterCommit
  BY <1>16, RingKept DEF WriterCommit
<1>17. CASE WriterDiscard
  BY <1>17, RingKept DEF WriterDiscard
<1>18. CASE RequestCancel
  BY <1>18, RingKept DEF RequestCancel
<1>19. CASE SpuriousWakeup
  <2>1. CASE rpc = "wait" /\ rpc' = "lock" /\ UNCHANGED wpc
    BY <1>19, <2>1, RingKept DEF SpuriousWakeup
  <2>2. CASE wpc = "wait" /\ wpc' = "lock" /\ UNCHANGED rpc
    BY <1>19, <2>2, RingKept DEF SpuriousWakeup
  <2> QED BY <1>19, <2>1, <2>2 DEF SpuriousWakeup
<1>20. CASE UNCHANGED vars
  BY <1>20, RingKept
<1> QED
  BY <1>1, <1>2, <1>3, <1>4, <1>5, <1>6, <1>7, <1>8, <1>9, <1>10, <1>11, <1>12,
     <1>13, <1>14, <1>15, <1>16, <1>17, <1>18, <1>19, <1>20
     DEF Next, ReaderNext, WriterNext

-------------------------------------------------------------------------------
(* The temporary file and the target.                                      *)

(* When the writer leaves its loop with the reader done and no slot ready, *)
(* the temporary file is as long as the source, unless the copy was        *)
(* cancelled.                                                              *)
LEMMA DrainedAtEnd ==
  ASSUME TypeOK, RingInv, ReaderInv, wpc = "lock", ~error, done, ~ready[writeIndex]
  PROVE  cancel \/ outLen = FileLen
<1> USE SlotsAssumption DEF TypeOK
<1>1. PICK k \in 0 .. Slots : Ring(k) /\ Chain(k) /\ Front(k)
  BY DEF RingInv
<1>2. k = 0
  <2>1. ~(Offset(writeIndex) < k)
    BY <1>1 DEF Ring
  <2> QED BY <1>1, <2>1, OffsetFacts
<1>3. outLen = NextByte
  BY <1>1, <1>2 DEF Front
<1>4. CASE cancel
  BY <1>4
<1>5. CASE inPos = FileLen /\ ~Claimed
  BY <1>3, <1>5 DEF NextByte, Claimed
<1> QED BY <1>4, <1>5 DEF ReaderInv

(* While the writer drains a slot, the next byte it writes has the         *)
(* position in the temporary file that it has in the source.               *)
LEMMA WritesInPlace ==
  ASSUME TypeOK, RingInv, WriterInv, wpc = "write"
  PROVE  data[wslot] + off = outLen
<1> USE SlotsAssumption DEF TypeOK
<1>1. PICK k \in 0 .. Slots : Ring(k) /\ Chain(k) /\ Front(k)
  BY DEF RingInv
<1>2. k # 0
  BY <1>1, OffsetFacts DEF Ring, WriterInv
<1> QED BY <1>1, <1>2 DEF Front, WriterInv

(* The reader leaves a slot that is being drained alone: it is ready, the  *)
(* reader's slot is not.                                                   *)
LEMMA SlotsApart ==
  ASSUME TypeOK, RingInv, WriterInv
  PROVE  ReaderOwnsItsSlot
<1> USE SlotsAssumption DEF TypeOK
<1>1. PICK k \in 0 .. Slots : Ring(k) /\ Chain(k) /\ Front(k)
  BY DEF RingInv
<1>2. ASSUME Claimed PROVE ~ready[rslot]
  <2>1. Offset(rslot) = k /\ (ready[rslot] <=> Offset(rslot) < k)
    BY <1>1, <1>2 DEF Ring
  <2> QED BY <1>1, <2>1
<1> QED BY <1>2 DEF ReaderOwnsItsSlot, Claimed, WriterInv

(* The temporary file stays a prefix of the source, success is only        *)
(* recorded for the whole of it, and only the whole of it replaces the     *)
(* target.                                                                 *)
LEMMA WriterStep ==
  TypeOK /\ RingInv /\ ReaderInv /\ WriterInv /\ DstWholeOrOld /\ [Next]_vars
    => WriterInv' /\ DstWholeOrOld'
<1> SUFFICES ASSUME TypeOK, RingInv, ReaderInv, WriterInv, DstWholeOrOld, [Next]_vars
             PROVE  WriterInv' /\ DstWholeOrOld'
  OBVIOUS
<1> USE BufSizeAssumption
        DEF TypeOK, WriterInv, DstWholeOrOld, vars, ring, reader, writer, result
<1>1. CASE ReaderWait \/ ReaderClaim \/ ReaderRead
  BY <1>1 DEF ReaderWait, ReaderClaim, ReaderRead
<1>2. CASE ReaderStop
  BY <1>2 DEF ReaderStop, WakeWriter
<1>3. CASE ReaderStore
  <2>1. wpc = "write" => size'[wslot] = size[wslot] /\ ready'[wslot] = ready[wslot]
    <3>1. rpc = "store"
      BY <1>3 DEF ReaderStore
    <3>2. wpc = "write" => rslot # wslot
      BY <3>1, SlotsApart DEF ReaderOwnsItsSlot
    <3> QED BY <1>3, <3>2 DEF ReaderStore
  <2>2. (wpc = "write" <=> wpc' = "write") /\ (wpc = "finish" <=> wpc' = "finish")
    BY <1>3 DEF ReaderStore, WakeWriter
  <2> QED BY <1>3, <2>1, <2>2 DEF ReaderStore, WakeWriter
<1>4. CASE WriterOpen \/ WriterWait
  BY <1>4 DEF WriterOpen, WriterWait
<1>5. CASE WriterEnd
  <2>1. wpc' = "finish" => cancel \/ outLen = FileLen
    BY <1>5, DrainedAtEnd DEF WriterEnd
  <2> QED BY <1>5, <2>1 DEF WriterEnd
<1>6. CASE WriterTake
  BY <1>6 DEF WriterTake
<1>7. CASE WriterWrite
  <2>1. data[wslot] + off = outLen
    BY <1>7, WritesInPlace DEF WriterWrite
  <2>2. UNCHANGED <<ring, reader, wslot, wsize, result, cancel>> /\ wpc = "write"
    BY <1>7 DEF WriterWrite
  <2>3. CASE wpc' = "stop" /\ UNCHANGED <<off, outLen, outExact>>
    BY <2>2, <2>3
  <2>4. ASSUME NEW n \in 1 .. BufSize, n <= wsize - off, off' = off + n,
               outExact' = (outExact /\ data[wslot] + off = outLen), wpc' = wpc
        PROVE  WriterInv' /\ DstWholeOrOld'
    <3>1. outExact'
      BY <2>1, <2>4
    <3>2. off' <= wsize
      BY <2>4
    <3> QED BY <2>2, <2>4, <3>1, <3>2
  <2> QED BY <1>7, <2>3, <2>4 DEF WriterWrite
<1>8. CASE WriterRelease
  BY <1>8 DEF WriterRelease, WakeReader
<1>9. CASE WriterFinish
  BY <1>9 DEF WriterFinish
<1>10. CASE WriterStop
  BY <1>10 DEF WriterStop, WakeReader
<1>11. CASE WriterJoin
  BY <1>11 DEF WriterJoin
<1>12. CASE WriterClose
  BY <1>12 DEF WriterClose
<1>13. CASE WriterCommit
  BY <1>13 DEF WriterCommit
<1>14. CASE WriterDiscard
  BY <1>14 DEF WriterDiscard
<1>15. CASE RequestCancel
  BY <1>15 DEF RequestCancel
<1>16. CASE SpuriousWakeup
  BY <1>16 DEF SpuriousWakeup
<1>17. CASE UNCHANGED vars
  BY <1>17
<1> QED
  BY <1>1, <1>2, <1>3, <1>4, <1>5, <1>6, <1>7, <1>8, <1>9, <1>10, <1>11, <1>12,
     <1>13, <1>14, <1>15, <1>16, <1>17 DEF Next, ReaderNext, WriterNext

-------------------------------------------------------------------------------
(* The theorems.                                                           *)

(* The empty ring, no reader thread and no temporary file satisfy the      *)
(* inductive invariant.                                                    *)
LEMMA InitIInv == Init => IInv
<1> SUFFICES ASSUME Init PROVE IInv
  OBVIOUS
<1> USE SlotsAssumption, BufSizeAssumption, FileLenAssumption DEF Init
<1>1. TypeOK
  <2>1. 0 \in Slot
    BY DEF Slot
  <2>2. ready \in [Slot -> BOOLEAN]
    BY Zenon
  <2>3. size \in [Slot -> 0 .. BufSize] /\ data \in [Slot -> 0 .. FileLen]
    OBVIOUS
  <2>4. {done, error, outExact, temp, cancel} \subseteq BOOLEAN
    OBVIOUS
  <2>5. {readIndex, writeIndex, rslot, wslot} \subseteq Slot
    BY <2>1
  <2>6. rn \in -1 .. BufSize /\ {wsize, off} \subseteq 0 .. BufSize
        /\ inPos \in 0 .. FileLen /\ outLen \in Nat
    OBVIOUS
  <2>7. /\ rpc = "none" /\ wpc = "open" /\ dst = "old" /\ ret = "fail"
    OBVIOUS
  <2> HIDE DEF Init
  <2> QED BY <2>2, <2>3, <2>4, <2>5, <2>6, <2>7 DEF TypeOK
<1>2. RingInv
  <2>1. \A s \in Slot : Offset(s) = s /\ ~ready[s]
    <3>1. \A s \in Slot : ~ready[s]
      OBVIOUS
    <3>2. \A s \in Slot : Offset(s) = s
      BY DEF Offset, Slot
    <3> QED BY <3>1, <3>2
  <2>2. Ring(0)
    BY <2>1 DEF Ring, Claimed, Slot
  <2>3. Chain(0)
    BY <2>1 DEF Chain, Slot
  <2>4. Front(0)
    BY DEF Front, NextByte
  <2> QED BY <2>2, <2>3, <2>4 DEF RingInv
<1>3. ReaderInv /\ WriterInv /\ DstWholeOrOld /\ ReaderGoneBeforeFree
  BY DEF ReaderInv, WriterInv, DstWholeOrOld, ReaderGoneBeforeFree, Claimed
<1> QED BY <1>1, <1>2, <1>3 DEF IInv

(* The inductive invariant holds in every state the two threads can reach, *)
(* however they interleave and whatever read() and write() return.         *)
THEOREM Invariance == Spec => []IInv
<1>1. IInv /\ [Next]_vars => IInv'
  BY TypeStep, RingStep, ReaderStep, WriterStep DEF IInv
<1> QED BY InitIInv, <1>1, PTL DEF Spec

(* read_index, write_index and both threads' slots stay inside slots[],    *)
(* and no counter leaves its range.                                        *)
THEOREM TypeCorrect == Spec => []TypeOK
<1>1. IInv => TypeOK
  BY DEF IInv
<1> QED BY Invariance, <1>1, PTL

(* The slot the reader fills without the lock is never a slot whose bytes  *)
(* wait to be written, nor the one the writer is draining: the two threads *)
(* never touch the same buffer at once.                                    *)
THEOREM SlotOwnership == Spec => []ReaderOwnsItsSlot
<1>1. IInv => ReaderOwnsItsSlot
  BY SlotsApart DEF IInv
<1> QED BY Invariance, <1>1, PTL

(* copy_file_pipeline() replaces the target only by the whole source file, *)
(* every byte in its place.                                                *)
THEOREM WholeOrOld == Spec => []DstWholeOrOld
<1>1. IInv => DstWholeOrOld
  BY DEF IInv
<1> QED BY Invariance, <1>1, PTL

(* The slot buffers, the mutex and the condition variables are freed only  *)
(* when no reader thread is left to use them.                              *)
THEOREM JoinedBeforeFree == Spec => []ReaderGoneBeforeFree
<1>1. IInv => ReaderGoneBeforeFree
  BY DEF IInv
<1> QED BY Invariance, <1>1, PTL

-------------------------------------------------------------------------------
(* The temporary file and the target, seen from outside.                   *)

(* Until the call returns the target is untouched, and from the creation   *)
(* of the temporary file until then the file is there: the copy that is    *)
(* about to be renamed exists.                                             *)
TargetInv ==
  /\ wpc # "done" => dst = "old"
  /\ wpc = "open" => ~temp
  /\ wpc \notin {"open", "close", "commit", "done"} => temp
  /\ wpc # "done" /\ ret = "ok" => temp

LEMMA InitTargetInv == Init => TargetInv
  BY DEF Init, TargetInv

LEMMA TargetStep == IInv /\ TargetInv /\ [Next]_vars => TargetInv'
<1> SUFFICES ASSUME IInv, TargetInv, [Next]_vars PROVE TargetInv'
  OBVIOUS
<1>0. WriterInv
  BY DEF IInv
<1> USE DEF TargetInv, WriterInv, vars, ring, reader, writer, result
<1>1. CASE ReaderNext
  BY <1>1 DEF ReaderNext, ReaderWait, ReaderStop, ReaderClaim, ReaderRead, ReaderStore,
              WakeWriter
<1>2. CASE WriterOpen
  BY <1>0, <1>2 DEF WriterOpen
<1>3. CASE WriterWait \/ WriterEnd \/ WriterTake \/ WriterWrite \/ WriterRelease
  BY <1>3 DEF WriterWait, WriterEnd, WriterTake, WriterWrite, WriterRelease
<1>4. CASE WriterFinish \/ WriterStop \/ WriterJoin \/ WriterClose
  BY <1>4 DEF WriterFinish, WriterStop, WriterJoin, WriterClose
<1>5. CASE WriterCommit \/ WriterDiscard
  BY <1>5 DEF WriterCommit, WriterDiscard
<1>6. CASE RequestCancel \/ SpuriousWakeup \/ UNCHANGED vars
  BY <1>6 DEF RequestCancel, SpuriousWakeup
<1> QED BY <1>1, <1>2, <1>3, <1>4, <1>5, <1>6 DEF Next, WriterNext

LEMMA TargetInvariance == Spec => [](IInv /\ TargetInv)
<1>1. IInv /\ TargetInv /\ [Next]_vars => TargetInv'
  BY TargetStep
<1> QED BY Invariance, InitTargetInv, <1>1, PTL DEF Spec

(* A cancel that was seen or will be: from here on the copy can only fail. *)
Doomed == cancel /\ dst = "old" /\ (wpc \in {"commit", "done"} => ret = "fail")

LEMMA DoomedStep == IInv /\ Doomed /\ [Next]_vars => Doomed'
<1> SUFFICES ASSUME IInv, Doomed, [Next]_vars PROVE Doomed'
  OBVIOUS
<1>0. wpc = "open" => ret = "fail"
  BY DEF IInv, WriterInv
<1> USE DEF Doomed, vars, ring, reader, writer, result
<1>1. CASE ReaderNext
  BY <1>1 DEF ReaderNext, ReaderWait, ReaderStop, ReaderClaim, ReaderRead, ReaderStore,
              WakeWriter
<1>2. CASE WriterOpen \/ WriterWait \/ WriterEnd \/ WriterTake \/ WriterWrite \/ WriterRelease
  BY <1>0, <1>2 DEF WriterOpen, WriterWait, WriterEnd, WriterTake, WriterWrite, WriterRelease
<1>3. CASE WriterFinish \/ WriterStop \/ WriterJoin
  BY <1>3 DEF WriterFinish, WriterStop, WriterJoin
<1>4. CASE WriterClose \/ WriterCommit \/ WriterDiscard
  BY <1>4 DEF WriterClose, WriterCommit, WriterDiscard
<1>5. CASE RequestCancel \/ SpuriousWakeup \/ UNCHANGED vars
  BY <1>5 DEF RequestCancel, SpuriousWakeup
<1> QED BY <1>1, <1>2, <1>3, <1>4, <1>5 DEF Next, WriterNext

(* A cancel that arrives before the flag is read for the last time leaves  *)
(* the target as it was for ever, even when all bytes were copied.         *)
THEOREM CancelHonoured == Spec => CancelKeepsDst
<1>1. TargetInv /\ cancel /\ wpc \notin {"commit", "done"} => Doomed
  BY DEF TargetInv, Doomed
<1>2. Doomed => dst = "old"
  BY DEF Doomed
<1> QED BY TargetInvariance, DoomedStep, <1>1, <1>2, PTL DEF Spec, CancelKeepsDst

-------------------------------------------------------------------------------
(* The refinement of FileCopy.                                             *)

LEMMA InitRefines == Init => FC!Init
  BY DEF Init, FC!Init

(* Opening the temporary file, the rename and giving up are the abstract   *)
(* steps; every other step of either thread leaves the abstract copy as it *)
(* is.                                                                     *)
LEMMA StepRefines == IInv /\ TargetInv /\ [Next]_vars => [FC!Next]_(FC!vars)
<1> SUFFICES ASSUME IInv, TargetInv, [Next]_vars PROVE [FC!Next]_(FC!vars)
  OBVIOUS
<1>0. WriterInv
  BY DEF IInv
<1>1. ASSUME UNCHANGED result, wpc = "done" <=> wpc' = "done"
      PROVE  UNCHANGED FC!vars
  BY <1>1 DEF FC!vars, result
<1>2. CASE ReaderNext
  BY <1>1, <1>2 DEF ReaderNext, ReaderWait, ReaderStop, ReaderClaim, ReaderRead, ReaderStore,
                    WakeWriter, writer
<1>3. CASE WriterOpen
  <2>1. ~temp /\ wpc = "open" /\ ret = "fail" /\ UNCHANGED <<dst, ret>>
    BY <1>0, <1>3 DEF WriterOpen, TargetInv, WriterInv
  <2>2. CASE cancel
    <3>1. wpc' = "done" /\ temp' = FALSE
      BY <1>3, <2>1, <2>2 DEF WriterOpen
    <3>2. FC!GiveUp
      BY <2>1, <3>1 DEF FC!GiveUp
    <3> QED BY <3>2 DEF FC!Next
  <2>3. CASE ~cancel
    <3>1. wpc' # "done" /\ temp' \in BOOLEAN
      BY <1>3, <2>3 DEF WriterOpen
    <3>2. CASE temp'
      <4>1. FC!OpenTemp
        BY <2>1, <3>1, <3>2 DEF FC!OpenTemp
      <4> QED BY <4>1 DEF FC!Next
    <3>3. CASE ~temp'
      BY <2>1, <3>1, <3>3, <1>1 DEF result, IInv, TypeOK
    <3> QED BY <3>2, <3>3
  <2> QED BY <2>2, <2>3
<1>4. CASE WriterWait \/ WriterEnd \/ WriterTake \/ WriterWrite \/ WriterRelease
  BY <1>1, <1>4 DEF WriterWait, WriterEnd, WriterTake, WriterWrite, WriterRelease
<1>5. CASE WriterFinish \/ WriterClose
  BY <1>5 DEF WriterFinish, WriterClose, FC!vars
<1>6. CASE WriterStop \/ WriterJoin
  BY <1>1, <1>6 DEF WriterStop, WriterJoin
<1>7. CASE WriterCommit
  <2>1. temp /\ dst' = "new" /\ wpc = "commit" /\ wpc' = "done" /\ temp' = FALSE /\ ret' = "ok"
    BY <1>0, <1>7 DEF WriterCommit, TargetInv, WriterInv
  <2>2. FC!Replace
    BY <2>1 DEF FC!Replace
  <2> QED BY <2>2 DEF FC!Next
<1>8. CASE WriterDiscard
  <2>1. FC!GiveUp
    BY <1>8 DEF WriterDiscard, FC!GiveUp
  <2> QED BY <2>1 DEF FC!Next
<1>9. CASE RequestCancel \/ SpuriousWakeup \/ UNCHANGED vars
  BY <1>1, <1>9 DEF RequestCancel, SpuriousWakeup, vars, writer, reader, result
<1> QED BY <1>2, <1>3, <1>4, <1>5, <1>6, <1>7, <1>8, <1>9 DEF Next, WriterNext

(* copy_file_pipeline() keeps the safety part of what copy_file() promises *)
(* in FileCopy: the target changes in one step, from a temporary file that *)
(* is there, and the temporary file is gone when the call returns.         *)
THEOREM RefinesFileCopy == Spec => FC!Init /\ [][FC!Next]_(FC!vars)
<1> QED BY TargetInvariance, InitRefines, StepRefines, PTL DEF Spec

===============================================================================
