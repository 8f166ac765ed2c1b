----------------------------- MODULE CopyPipeline -----------------------------
(***************************************************************************)
(* copy_file_pipeline() and copy_pipeline_reader() of src/src/filemgr.c:   *)
(* the copy of one large file by two threads that share a ring of buffers. *)
(* The reader thread fills the slot at read_index and marks it ready; the  *)
(* calling thread (the "writer") drains the slot at write_index into the   *)
(* temporary file and marks it free.  One mutex guards the ring, two       *)
(* condition variables (can_read, can_write) put the threads to sleep, and *)
(* done / error tell each thread that the other has finished.              *)
(*                                                                         *)
(* Every region between pthread_mutex_lock and pthread_mutex_unlock is one *)
(* action; read(), write() and the calls after the loop run unlocked and   *)
(* are actions of their own.  pthread_cond_wait releases the mutex and is  *)
(* the program location "wait", left by a signal or by a spurious wakeup.  *)
(*                                                                         *)
(* The file is the byte positions 0 .. FileLen-1.  A buffer is abstracted  *)
(* to the position of its first byte (`data`) and its length (`size`), and *)
(* the temporary file to its length and to whether every byte in it stands *)
(* where it stands in the source.                                          *)
(***************************************************************************)
EXTENDS Integers

CONSTANTS
  Slots,     \* COPY_PIPELINE_SLOTS, 3 in the code
  BufSize,   \* COPY_BUFFER_SIZE
  FileLen    \* number of bytes in the source file

ASSUME SlotsAssumption   == Slots \in Nat \ {0}
ASSUME BufSizeAssumption == BufSize \in Nat \ {0}
ASSUME FileLenAssumption == FileLen \in Nat

VARIABLES
  readIndex, writeIndex, done, error,   \* copy_pipeline_t
  ready, size, data,                    \* its slots[]
  rpc, rslot, rn,                       \* reader: location, slot, n
  wpc, wslot, wsize, off,               \* writer: location, slot, size, off
  inPos,                                \* file offset of p.in
  outLen, outExact,                     \* the temporary file's contents
  temp, dst, ret,                       \* temp file exists, target, ret
  cancel                                \* task->cancel_requested

ring   == <<readIndex, writeIndex, done, error, ready, size, data>>
reader == <<rpc, rslot, rn, inPos>>
writer == <<wpc, wslot, wsize, off, outLen, outExact>>
result == <<temp, dst, ret>>
vars   == <<ring, reader, writer, result, cancel>>

Slot == 0 .. Slots - 1

TypeOK ==
  /\ readIndex \in Slot /\ writeIndex \in Slot
  /\ done \in BOOLEAN /\ error \in BOOLEAN
  /\ ready \in [Slot -> BOOLEAN]
  /\ size \in [Slot -> 0 .. BufSize]
  /\ data \in [Slot -> 0 .. FileLen]
  /\ rpc \in {"none", "lock", "wait", "read", "store", "exit"}
  /\ rslot \in Slot
  /\ rn \in -1 .. BufSize
  /\ wpc \in {"open", "lock", "wait", "write", "finish", "stop", "join",
              "close", "commit", "done"}
  /\ wslot \in Slot
  /\ wsize \in 0 .. BufSize /\ off \in 0 .. BufSize
  /\ inPos \in 0 .. FileLen
  /\ outLen \in Nat
  /\ outExact \in BOOLEAN
  /\ temp \in BOOLEAN
  /\ dst \in {"old", "new", "damaged"}
  /\ ret \in {"ok", "fail"}
  /\ cancel \in BOOLEAN

Init ==
  /\ readIndex = 0 /\ writeIndex = 0 /\ done = FALSE /\ error = FALSE
  /\ ready = [s \in Slot |-> FALSE]
  /\ size = [s \in Slot |-> 0]
  /\ data = [s \in Slot |-> 0]
  /\ rpc = "none" /\ rslot = 0 /\ rn = 0 /\ inPos = 0
  /\ wpc = "open" /\ wslot = 0 /\ wsize = 0 /\ off = 0
  /\ outLen = 0 /\ outExact = TRUE
  /\ temp = FALSE /\ dst = "old" /\ ret = "fail"
  /\ cancel = FALSE

-------------------------------------------------------------------------------
(* Ring arithmetic and condition variables. *)

NextSlotNoWrap(i) == i + 1                       \* mutant: the ring never wraps
NextSlot(i) == (i + 1) % Slots

(* A signal or a broadcast: the only thread that can be waiting goes back  *)
(* to re-test its condition.                                               *)
WakeReader == rpc' = IF rpc = "wait" THEN "lock" ELSE rpc
WakeWriter == wpc' = IF wpc = "wait" THEN "lock" ELSE wpc

-------------------------------------------------------------------------------
(* The reader thread. *)

ReaderMustWait == ~error /\ ~done /\ ready[readIndex]
ReaderMustStop == error \/ done \/ (cancel /\ ~ready[readIndex])

ReaderWait ==
  /\ rpc = "lock"
  /\ ReaderMustWait
  /\ rpc' = "wait"
  /\ UNCHANGED <<ring, rslot, rn, inPos, writer, result, cancel>>

ReaderStop ==
  /\ rpc = "lock"
  /\ ReaderMustStop
  /\ done' = TRUE
  /\ WakeWriter
  /\ rpc' = "exit"
  /\ UNCHANGED <<readIndex, writeIndex, error, ready, size, data, rslot, rn, inPos,
                 wslot, wsize, off, outLen, outExact, result, cancel>>

ReaderClaimUnchecked ==                 \* mutant: takes a slot not yet drained
  /\ rpc = "lock"
  /\ ~ReaderMustStop
  /\ rslot' = readIndex
  /\ readIndex' = NextSlot(readIndex)
  /\ rpc' = "read"
  /\ UNCHANGED <<writeIndex, done, error, ready, size, data, rn, inPos,
                 writer, result, cancel>>

ReaderClaim ==
  /\ rpc = "lock"
  /\ ~ReaderMustWait /\ ~ReaderMustStop
  /\ rslot' = readIndex
  /\ readIndex' = NextSlot(readIndex)
  /\ rpc' = "read"
  /\ UNCHANGED <<writeIndex, done, error, ready, size, data, rn, inPos,
                 writer, result, cancel>>

(* read(): any non-empty prefix of what is left, 0 at the end, or -1.  The *)
(* buffer of the claimed slot is overwritten here, without the lock.       *)
ReaderRead ==
  /\ rpc = "read"
  /\ \/ \E n \in 1 .. BufSize :
          /\ n <= FileLen - inPos
          /\ rn' = n
          /\ inPos' = inPos + n
          /\ data' = [data EXCEPT ![rslot] = inPos]
     \/ /\ inPos = FileLen
        /\ rn' = 0
        /\ UNCHANGED <<inPos, data>>
     \/ /\ rn' = -1
        /\ UNCHANGED <<inPos, data>>
  /\ rpc' = "store"
  /\ UNCHANGED <<readIndex, writeIndex, done, error, ready, size, rslot,
                 writer, result, cancel>>

ReaderStore ==
  /\ rpc = "store"
  /\ \/ /\ rn < 0                                    \* pipeline_fail_locked
        /\ error' = TRUE /\ done' = TRUE
        /\ UNCHANGED <<ready, size>>
     \/ /\ rn = 0
        /\ done' = TRUE
        /\ UNCHANGED <<error, ready, size>>
     \/ /\ rn > 0
        /\ size' = [size EXCEPT ![rslot] = rn]
        /\ ready' = [ready EXCEPT ![rslot] = TRUE]
        /\ UNCHANGED <<done, error>>
  /\ WakeWriter
  /\ rpc' = "lock"
  /\ UNCHANGED <<readIndex, writeIndex, data, rslot, rn, inPos,
                 wslot, wsize, off, outLen, outExact, result, cancel>>

-------------------------------------------------------------------------------
(* The calling thread: setup, then the drain loop. *)

(* The first cancel check returns before anything is opened; each failing  *)
(* open, init, allocation or pthread_create goes to `done:` with ret = -1, *)
(* after or before open_copy_temp() made the temporary file.               *)
WriterOpen ==
  /\ wpc = "open"
  /\ \/ /\ cancel
        /\ wpc' = "done"
        /\ UNCHANGED <<temp, rpc>>
     \/ /\ ~cancel
        /\ temp' \in BOOLEAN
        /\ wpc' = "close"
        /\ UNCHANGED rpc
     \/ /\ ~cancel
        /\ temp' = TRUE
        /\ rpc' = "lock"
        /\ wpc' = "lock"
  /\ UNCHANGED <<ring, rslot, rn, inPos, wslot, wsize, off, outLen, outExact,
                 dst, ret, cancel>>

WriterWait ==
  /\ wpc = "lock"
  /\ ~error /\ ~done /\ ~ready[writeIndex]
  /\ wpc' = "wait"
  /\ UNCHANGED <<ring, reader, wslot, wsize, off, outLen, outExact, result, cancel>>

WriterEndUndrained ==              \* mutant: leaves as soon as the reader is done
  /\ wpc = "lock"
  /\ \/ error /\ wpc' = "stop"
     \/ ~error /\ done /\ wpc' = "finish"
  /\ UNCHANGED <<ring, reader, wslot, wsize, off, outLen, outExact, result, cancel>>

(* The loop ends on an error, or when the reader is done and nothing it    *)
(* stored is left in the ring.                                             *)
WriterEnd ==
  /\ wpc = "lock"
  /\ \/ error /\ wpc' = "stop"
     \/ ~error /\ done /\ ~ready[writeIndex] /\ wpc' = "finish"
  /\ UNCHANGED <<ring, reader, wslot, wsize, off, outLen, outExact, result, cancel>>

WriterTake ==
  /\ wpc = "lock"
  /\ ~error /\ ready[writeIndex]
  /\ wslot' = writeIndex
  /\ wsize' = size[writeIndex]
  /\ off' = 0
  /\ wpc' = "write"
  /\ UNCHANGED <<ring, reader, outLen, outExact, result, cancel>>

(* write(): any non-empty prefix of what is left of the buffer, or an      *)
(* error; a pending cancel is seen before each call.                       *)
WriterWrite ==
  /\ wpc = "write"
  /\ off < wsize
  /\ \/ /\ ~cancel
        /\ \E n \in 1 .. BufSize :
             /\ n <= wsize - off
             /\ off' = off + n
             /\ outLen' = outLen + n
             /\ outExact' = (outExact /\ data[wslot] + off = outLen)
        /\ UNCHANGED wpc
     \/ /\ wpc' = "stop"
        /\ UNCHANGED <<off, outLen, outExact>>
  /\ UNCHANGED <<ring, reader, wslot, wsize, result, cancel>>

WriterReleaseSilent ==                  \* mutant: frees the slot without a signal
  /\ wpc = "write"
  /\ off = wsize
  /\ ready' = [ready EXCEPT ![wslot] = FALSE]
  /\ writeIndex' = NextSlot(writeIndex)
  /\ wpc' = "lock"
  /\ UNCHANGED <<readIndex, done, error, size, data, reader,
                 wslot, wsize, off, outLen, outExact, result, cancel>>

WriterRelease ==
  /\ wpc = "write"
  /\ off = wsize
  /\ ready' = [ready EXCEPT ![wslot] = FALSE]
  /\ writeIndex' = NextSlot(writeIndex)
  /\ WakeReader
  /\ wpc' = "lock"
  /\ UNCHANGED <<readIndex, done, error, size, data, rslot, rn, inPos,
                 wslot, wsize, off, outLen, outExact, result, cancel>>

(* fchmod_0777() and the cancel check after the loop. *)
WriterFinish ==
  /\ wpc = "finish"
  /\ \/ ~cancel /\ ret' = "ok"
     \/ ret' = "fail"
  /\ wpc' = "stop"
  /\ UNCHANGED <<ring, reader, wslot, wsize, off, outLen, outExact, temp, dst, cancel>>

-------------------------------------------------------------------------------
(* The calling thread: the `done:` label. *)

WriterStop ==
  /\ wpc = "stop"
  /\ done' = TRUE /\ error' = TRUE
  /\ WakeReader
  /\ wpc' = "join"
  /\ UNCHANGED <<readIndex, writeIndex, ready, size, data, rslot, rn, inPos,
                 wslot, wsize, off, outLen, outExact, result, cancel>>

WriterNoJoin ==                  \* mutant: frees the buffers without the join
  /\ wpc = "join"
  /\ wpc' = "close"
  /\ UNCHANGED <<ring, reader, wslot, wsize, off, outLen, outExact, result, cancel>>

(* pthread_join, after which the slot buffers are freed. *)
WriterJoin ==
  /\ wpc = "join"
  /\ rpc = "exit"
  /\ wpc' = "close"
  /\ UNCHANGED <<ring, reader, wslot, wsize, off, outLen, outExact, result, cancel>>

WriterCloseIgnoringCancel ==     \* mutant: no cancel check before the rename
  /\ wpc = "close"
  /\ ret' \in {ret, "fail"}
  /\ wpc' = "commit"
  /\ UNCHANGED <<ring, reader, wslot, wsize, off, outLen, outExact, temp, dst, cancel>>

(* close(out) may fail, and the cancel flag is read once more. *)
WriterClose ==
  /\ wpc = "close"
  /\ IF cancel THEN ret' = "fail" ELSE ret' \in {ret, "fail"}
  /\ wpc' = "commit"
  /\ UNCHANGED <<ring, reader, wslot, wsize, off, outLen, outExact, temp, dst, cancel>>

WriterCommit ==
  /\ wpc = "commit"
  /\ ret = "ok"
  /\ dst' = IF outExact /\ outLen = FileLen THEN "new" ELSE "damaged"
  /\ temp' = FALSE
  /\ wpc' = "done"
  /\ UNCHANGED <<ring, reader, wslot, wsize, off, outLen, outExact, ret, cancel>>

WriterDiscardKeepingTemp ==       \* mutant: a failed copy leaves its temporary file
  /\ wpc = "commit"
  /\ ret' = "fail"
  /\ wpc' = "done"
  /\ UNCHANGED <<ring, reader, wslot, wsize, off, outLen, outExact, temp, dst, cancel>>

(* ret was -1 already, or rename() failed: unlink(temp). *)
WriterDiscard ==
  /\ wpc = "commit"
  /\ ret' = "fail"
  /\ temp' = FALSE
  /\ wpc' = "done"
  /\ UNCHANGED <<ring, reader, wslot, wsize, off, outLen, outExact, dst, cancel>>

-------------------------------------------------------------------------------
(* The environment: the user cancels, a wait returns for no reason. *)

RequestCancel ==
  /\ wpc # "done"
  /\ ~cancel
  /\ cancel' = TRUE
  /\ UNCHANGED <<ring, reader, writer, result>>

SpuriousWakeup ==
  /\ \/ rpc = "wait" /\ rpc' = "lock" /\ UNCHANGED wpc
     \/ wpc = "wait" /\ wpc' = "lock" /\ UNCHANGED rpc
  /\ UNCHANGED <<ring, rslot, rn, inPos, wslot, wsize, off, outLen, outExact,
                 result, cancel>>

ReaderNext == ReaderWait \/ ReaderStop \/ ReaderClaim \/ ReaderRead \/ ReaderStore

WriterNext ==
  \/ WriterOpen \/ WriterWait \/ WriterEnd \/ WriterTake \/ WriterWrite
  \/ WriterRelease \/ WriterFinish \/ WriterStop \/ WriterJoin \/ WriterClose
  \/ WriterCommit \/ WriterDiscard

Next == ReaderNext \/ WriterNext \/ RequestCancel \/ SpuriousWakeup

(* Both threads are scheduled, and read() and write() return.  Nothing is  *)
(* assumed of the user or of spurious wakeups.                             *)
Spec == Init /\ [][Next]_vars /\ WF_vars(ReaderNext) /\ WF_vars(WriterNext)

-------------------------------------------------------------------------------
(* The slot the reader fills without the lock is never the slot the writer *)
(* drains without the lock, and never one whose bytes are still to be      *)
(* written: copy_pipeline_reader only claims a slot whose ready is 0.      *)
ReaderOwnsItsSlot ==
  rpc \in {"read", "store"} =>
    /\ ~ready[rslot]
    /\ wpc = "write" => wslot # rslot

(* The target is only ever replaced by the whole file, each byte in its    *)
(* place, whatever the sizes read() and write() return and whoever stops   *)
(* first: rename(temp, dst) is reached with nothing left in the ring.      *)
DstWholeOrOld == dst # "damaged"

(* The buffers and the condition variables are freed only after the reader *)
(* thread, if it was started, has returned.                                *)
ReaderGoneBeforeFree == wpc \in {"close", "commit", "done"} => rpc \in {"none", "exit"}

(* A cancel that arrives before the last check is honoured: the target is  *)
(* never replaced, even when every byte had already been copied.           *)
CancelKeepsDst == [](cancel /\ wpc \notin {"commit", "done"} => [](dst = "old"))

(* copy_file_pipeline() returns: no wakeup is lost, neither thread waits   *)
(* for the other for ever, and a cancelled or failed copy ends too.        *)
CopyEnds == <>(wpc = "done")

(* The pipeline keeps the promise of copy_file().                          *)
FC == INSTANCE FileCopy WITH
  result <- IF wpc # "done" THEN "none" ELSE IF ret = "ok" THEN "copied" ELSE "failed"

ImplementsFileCopy == FC!Spec

===============================================================================
