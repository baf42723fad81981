----------------------------- MODULE BlobStore -----------------------------
(***************************************************************************)
(* What the attachment store promises, as one process would see it: a      *)
(* content is attached only to an open room with a file to spare and only  *)
(* while the stored bytes stay within the ceiling, and it is forgotten     *)
(* only when nothing is using it.  There are no locks, sessions, retries,  *)
(* counters or files here.  Blobs is shown to implement this specification.*)
(***************************************************************************)
EXTENDS Integers, FiniteSets

CONSTANTS Rooms, Contents,
          Size,          \* Size[S]: the bytes that the contents in S take
          Ceiling,       \* the bytes that may be stored
          MaxFiles       \* the attachments a room may have

VARIABLES status,        \* of each room: "open", "closed", "expired", "deleted"
          refs,          \* how many attachments of a room have a content
          stored,        \* the contents stored
          docs           \* the contents that Brain documents have

storeVars == <<status, refs, stored, docs>>

FileCount(r) == Cardinality(UNION {{h} \X (1 .. refs[r][h]) : h \in Contents})

InUse(h) ==
  \/ h \in docs
  \/ \E r \in Rooms : refs[r][h] > 0 /\ status[r] \in {"open", "closed"}

StoreInit ==
  /\ status = [r \in Rooms |-> "open"]
  /\ refs \in [Rooms -> [Contents -> 0..1]]
  /\ \A r \in Rooms : FileCount(r) <= MaxFiles
  /\ stored = {h \in Contents : \E r \in Rooms : refs[r][h] > 0}
  /\ Size[stored] <= Ceiling
  /\ docs = {}

\* A content is stored with its first attachment.
Attach(r, h) ==
  /\ status[r] = "open" /\ FileCount(r) < MaxFiles
  /\ refs' = [refs EXCEPT ![r][h] = @ + 1]
  /\ stored' = stored \cup {h}
  /\ Size[stored'] <= Ceiling
  /\ UNCHANGED <<status, docs>>

Detach(r, h) ==
  /\ refs[r][h] > 0
  /\ refs' = [refs EXCEPT ![r][h] = @ - 1]
  /\ UNCHANGED <<status, stored, docs>>

Save(h) ==
  /\ h \in stored
  /\ docs' = docs \cup {h}
  /\ UNCHANGED <<status, refs, stored>>

\* What a room past its grace period still refers to goes with the content.
Forget(h) ==
  /\ h \in stored /\ ~InUse(h)
  /\ stored' = stored \ {h}
  /\ refs' = [r \in Rooms |-> [refs[r] EXCEPT ![h] = 0]]
  /\ UNCHANGED <<status, docs>>

\* A room's attachments outlive its close, but not its deletion.
Close(r) ==
  /\ status[r] = "open"
  /\ status' = [status EXCEPT ![r] = "closed"]
  /\ UNCHANGED <<refs, stored, docs>>

Expire(r) ==
  /\ status[r] = "closed"
  /\ status' = [status EXCEPT ![r] = "expired"]
  /\ UNCHANGED <<refs, stored, docs>>

Delete(r) ==
  /\ status[r] # "deleted"
  /\ status' = [status EXCEPT ![r] = "deleted"]
  /\ refs' = [refs EXCEPT ![r] = [h \in Contents |-> 0]]
  /\ UNCHANGED <<stored, docs>>

StoreNext ==
  \/ \E r \in Rooms : Close(r) \/ Expire(r) \/ Delete(r)
  \/ \E r \in Rooms, h \in Contents : Attach(r, h) \/ Detach(r, h)
  \/ \E h \in Contents : Save(h) \/ Forget(h)

StoreSpec == StoreInit /\ [][StoreNext]_storeVars
============================================================================
