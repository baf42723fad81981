---------------------------- MODULE UploadBudget ----------------------------
(***************************************************************************)
(* Streaming uploads into temporary files under the per-file cap and the   *)
(* free-disk floor.                                                        *)
(*                                                                         *)
(* Everything between two chunks of a stream runs without suspending: the  *)
(* asyncio lock around the pledge counter is never held across an await,   *)
(* so taking it does not yield, and the size check, the look at the disk,  *)
(* the write and the release of the pledge are one step.  f.write goes     *)
(* through Python's write buffer, so a step may leave up to BufCap bytes   *)
(* in memory that the disk does not show yet.                              *)
(***************************************************************************)
EXTENDS Integers, FiniteSets, Functions

CONSTANTS
  Uploads,          \* the concurrent uploads
  MaxBytes,         \* attachment_max_file_bytes
  Floor,            \* attachment_free_disk_floor_bytes
  Disk,             \* size of the storage volume
  BufCap,           \* io.DEFAULT_BUFFER_SIZE
  ChunkSizes,       \* the sizes of chunks a client sends
  MaxCrashes        \* bound: restarts of the process

ASSUME UploadBudgetAssumption ==
  /\ IsFiniteSet(Uploads)
  /\ MaxBytes \in Nat \ {0} /\ Floor \in Nat /\ BufCap \in Nat
  /\ Disk \in Nat /\ Disk >= Floor /\ MaxCrashes \in Nat
  /\ ChunkSizes \subseteq Nat \ {0}

VARIABLES
  reserved,         \* _reserved_bytes
  up,               \* what each upload's coroutine holds
  stored,           \* bytes of complete and of abandoned files
  other,            \* bytes other programs have written to the volume
  crashes           \* restarts so far

vars == <<reserved, up, stored, other, crashes>>

Upload == [pc : {"idle", "streaming", "received"},
           fmt : {"pdf", "md"},
           own : 0..MaxBytes,       \* its outstanding pledge
           total : 0..MaxBytes,     \* bytes accepted
           buf : 0..BufCap,         \* of these, still in the write buffer
           disk : 0..MaxBytes]      \* of these, in the temporary file

NoUpload == [pc |-> "idle", fmt |-> "pdf", own |-> 0, total |-> 0,
             buf |-> 0, disk |-> 0]

Own      == [u \in Uploads |-> up[u].own]
Written  == [u \in Uploads |-> up[u].disk]
Buffered == [u \in Uploads |-> up[u].buf]

\* shutil.disk_usage(storage_dir).free
Free == Disk - other - stored - SumFunction(Written)

Init ==
  /\ reserved = 0 /\ stored = 0 /\ other = 0 /\ crashes = 0
  /\ up = [u \in Uploads |-> NoUpload]

----------------------------------------------------------------------------
(* The operations on the pledge counter, and the checks. *)

Reserve(res, n) == res + n
Release(res, n) == IF res >= n THEN res - n ELSE 0

TooLarge(s, n) == s.total + n > MaxBytes

\* _assert_disk_headroom: own pledge left out, the others' counted in full.
NoHeadroom_FirstChunkOnly(s, res, n) ==
  s.total = 0 /\ Free - n - (res - s.own) < Floor

NoHeadroom(s, res, n) == Free - n - (res - s.own) < Floor

\* The rejected or interrupted upload: its file is unlinked, and what is left
\* of its pledge released.
Abandon_KeepsPledge(u, s, res) ==
  /\ up' = [up EXCEPT ![u] = NoUpload]
  /\ reserved' = res
  /\ UNCHANGED <<stored, other, crashes>>

Abandon(u, s, res) ==
  /\ up' = [up EXCEPT ![u] = NoUpload]
  /\ reserved' = Release(res, s.own)
  /\ UNCHANGED <<stored, other, crashes>>

(* _validate_and_write and _write_chunk for n bytes, with the upload at s and
   the counter at res; each b is an amount the write may leave in the buffer.
   Markdown may turn out not to be text at any chunk. *)
WriteChunk(u, s, res, n) ==
  \/ /\ s.fmt = "md" \/ TooLarge(s, n) \/ NoHeadroom(s, res, n)
     /\ Abandon(u, s, res)
  \/ /\ ~TooLarge(s, n) /\ ~NoHeadroom(s, res, n)
     /\ \E b \in 0..BufCap :
          /\ b <= s.buf + n
          /\ up' = [up EXCEPT ![u] =
               [s EXCEPT !.total = @ + n, !.own = @ - n, !.buf = b,
                         !.disk = @ + s.buf + n - b]]
     /\ reserved' = Release(res, n)
     /\ UNCHANGED <<stored, other, crashes>>

(* receive_attachment_upload: the first bytes decide the format; the file is
   opened, the whole per-file cap pledged, and the prefix written.  (A stream
   that is empty, or for receive_pdf_upload no PDF, is refused before that.) *)
Open(u, fmt, n) ==
  /\ up[u].pc = "idle"
  /\ WriteChunk(u, [NoUpload EXCEPT !.pc = "streaming", !.fmt = fmt, !.own = MaxBytes],
                Reserve(reserved, MaxBytes), n)

Chunk(u, n) ==
  /\ up[u].pc = "streaming"
  /\ WriteChunk(u, up[u], reserved, n)

(* The end of the stream.  Markdown is flushed through the decoder and an
   empty chunk, whose checks may still reject it; then the file is closed. *)
EndOfStream(u) ==
  LET s == up[u] IN
  /\ s.pc = "streaming"
  /\ \/ s.fmt = "md" /\ Abandon(u, s, reserved)
     \/ /\ s.fmt = "md" => ~NoHeadroom(s, reserved, 0)
        /\ up' = [up EXCEPT ![u] = [s EXCEPT !.pc = "received", !.own = 0,
                                             !.buf = 0, !.disk = @ + s.buf]]
        /\ reserved' = Release(reserved, s.own)
        /\ UNCHANGED <<stored, other, crashes>>

\* A client that goes away, a read that times out, a cancelled request.
Disconnect(u) ==
  /\ up[u].pc = "streaming"
  /\ Abandon(u, up[u], reserved)

(* What add_room_attachment does with the received file: it becomes a blob,
   or it is dropped because the content is stored already or refused. *)
Store(u) ==
  /\ up[u].pc = "received"
  /\ stored' = stored + up[u].disk
  /\ up' = [up EXCEPT ![u] = NoUpload]
  /\ UNCHANGED <<reserved, other, crashes>>

Drop(u) ==
  /\ up[u].pc = "received"
  /\ up' = [up EXCEPT ![u] = NoUpload]
  /\ UNCHANGED <<reserved, stored, other, crashes>>

----------------------------------------------------------------------------
\* Other programs write while there is room for what the uploads still buffer.
OtherWrites ==
  /\ Free > SumFunction(Buffered)
  /\ other' = other + 1
  /\ UNCHANGED <<reserved, up, stored, crashes>>

OtherFrees ==
  /\ other > 0
  /\ other' = other - 1
  /\ UNCHANGED <<reserved, up, stored, crashes>>

\* The process dies: the counter starts at zero again, what was buffered is
\* lost, and the temporary files stay where they are.
Crash ==
  /\ crashes < MaxCrashes
  /\ crashes' = crashes + 1
  /\ reserved' = 0
  /\ stored' = stored + SumFunction(Written)
  /\ up' = [u \in Uploads |-> NoUpload]
  /\ UNCHANGED other

Next ==
  \/ \E u \in Uploads :
       \/ \E n \in ChunkSizes :
            Chunk(u, n) \/ \E fmt \in {"pdf", "md"} : Open(u, fmt, n)
       \/ EndOfStream(u) \/ Disconnect(u) \/ Store(u) \/ Drop(u)
  \/ OtherWrites \/ OtherFrees \/ Crash

Spec == Init /\ [][Next]_vars

----------------------------------------------------------------------------
\* The counter is exactly the sum of what the uploads in flight may still
\* write, whichever way each of them ends: no pledge leaks, none is given back
\* twice, and the clamp in _release_upload_budget never hides a mistake.
PledgesAddUp ==
  /\ reserved = SumFunction(Own)
  /\ \A u \in Uploads :
       up[u].own = IF up[u].pc = "streaming" THEN MaxBytes - up[u].total ELSE 0

\* However uploads interleave, and whatever else fills the volume, the uploads
\* by themselves never take it further below the floor than the write buffers
\* of all of them: a chunk's check does not see bytes that are accepted and
\* still buffered.
FloorHoldsUpToBuffers ==
  Free + other - SumFunction(Buffered)
    >= Floor - Cardinality(Uploads) * BufCap
=============================================================================
