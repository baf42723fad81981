------------------------------- MODULE Blobs -------------------------------
(***************************************************************************)
(* The attachment store: the blob rows, the byte counter and the files     *)
(* behind them, and the sessions that add, link, detach and reclaim them.  *)
(*                                                                         *)
(* A session is a coroutine with its own transaction.  It takes row locks  *)
(* one statement at a time (SELECT ... FOR UPDATE on the room, the blob,   *)
(* the counter) and keeps each of them until it commits, rolls back or     *)
(* closes.  What it has not committed nobody sees, so its writes are the   *)
(* commit step's.  Files are not part of any transaction: a rename and an  *)
(* unlink take effect at once, whatever happens to the transaction.        *)
(*                                                                         *)
(* A content is its hash.  Time is abstract: a closed room "expires" when  *)
(* attachment_grace_period_days have passed since closed_at.               *)
(***************************************************************************)
EXTENDS Integers, FiniteSets

CONSTANTS
  Rooms,            \* the rooms
  Hashes,           \* the contents that are ever uploaded, by sha256
  Bytes,            \* Bytes[S]: how many bytes the contents in S take
  Ceiling,          \* attachment_global_ceiling_bytes
  MaxFiles,         \* attachment_max_files_per_room
  MaxAttempts,      \* MAX_ATTACHMENT_ATTEMPTS
  Clients,          \* the request sessions
  Sweeper,          \* the sweeper's session
  None,             \* nobody, nothing
  Ops,              \* the operations the clients of this instance request
  MaxRequests,      \* bound: requests ever made
  MaxCrashes        \* bound: restarts of the process

Sessions == Clients \cup {Sweeper}

ASSUME BlobsAssumption ==
  /\ Bytes \in [SUBSET Hashes -> Nat] /\ Bytes[{}] = 0
  /\ \A S \in SUBSET Hashes : \A h \in Hashes \ S :
       Bytes[S \cup {h}] = Bytes[S] + Bytes[{h}]
  /\ Ceiling \in Nat /\ MaxFiles \in Nat /\ MaxAttempts \in Nat \ {0}
  /\ MaxRequests \in Nat /\ MaxCrashes \in Nat
  /\ Sweeper \notin Clients /\ None \notin Sessions \cup Hashes \cup Rooms
  /\ Ops \subseteq {"upload", "brain", "detach", "save", "delete"}
  /\ IsFiniteSet(Rooms) /\ IsFiniteSet(Hashes)

VARIABLES
  status,           \* rooms.status, with the grace period folded in
  refs,             \* room_attachments: how many rows of a room name a blob
  blobs,            \* attachment_blobs rows
  docs,             \* blobs some mirrored_documents row is linked to
  total,            \* attachment_storage_stats.total_bytes
  files,            \* complete files at a hash path
  lock,             \* who holds each row FOR UPDATE
  ses,              \* what each session is doing
  requests,         \* requests made so far
  crashes           \* restarts so far

vars == <<status, refs, blobs, docs, total, files, lock, ses, requests, crashes>>
db   == <<status, refs, blobs, docs, total>>

\* The rows that are ever locked.
RoomRow(r) == <<"room", r>>
BlobRow(h) == <<"blob", h>>
StatsRow   == <<"stats", None>>
Lockables  == {RoomRow(r) : r \in Rooms} \cup {BlobRow(h) : h \in Hashes}
                \cup {StatsRow}

Session ==
  [op : {"idle", "upload", "brain", "detach", "save", "delete", "sweep"},
   pc : {"idle", "room", "lookup", "ceiling", "commit", "link", "next",
         "reclaim", "charge", "unlink", "announce"},
   room : Rooms \cup {None},
   hash : Hashes \cup {None},
   todo : SUBSET Hashes,
   temp : BOOLEAN,        \* its upload's temporary file is on disk
   attempt : 1..MaxAttempts]

IdleSession == [op |-> "idle", pc |-> "idle", room |-> None, hash |-> None,
                todo |-> {}, temp |-> FALSE, attempt |-> 1]

\* The room's attachment rows are <<h, 1>>, <<h, 2>>, ... for each content h.
RefCount(r) == Cardinality(UNION {{h} \X (1 .. refs[r][h]) : h \in Hashes})

\* _blob_is_referenced: a document links it, or a room that is open or still
\* within its grace period has a reference to it.
Referenced(h) ==
  \/ h \in docs
  \/ \E r \in Rooms : refs[r][h] > 0 /\ status[r] \in {"open", "closed"}

----------------------------------------------------------------------------
(* Row locks. *)

\* The row whose lock the session's next statement needs.  A row that is not
\* there is not locked: the statement returns nothing at once.
Wanted(p) ==
  LET s == ses[p] IN
  {l \in Lockables :
     \/ s.pc \in {"room", "announce"} /\ l = RoomRow(s.room)
          /\ status[s.room] # "deleted"
     \/ s.pc \in {"lookup", "reclaim", "link"} /\ l = BlobRow(s.hash)
          /\ s.hash \in blobs
     \/ s.pc \in {"ceiling", "charge"} /\ l = StatsRow}

\* The sessions p has to wait for.
BlockedBy(p) == {lock[l] : l \in Wanted(p)} \ {None, p}
Ready(p)     == BlockedBy(p) = {}

Taking(p)    == [l \in Lockables |-> IF l \in Wanted(p) THEN p ELSE lock[l]]
Releasing(p) == [l \in Lockables |-> IF lock[l] = p THEN None ELSE lock[l]]

\* The session goes on at pc, holding what it holds; it ends, or rolls back.
Goto(p, pc)  == ses' = [ses EXCEPT ![p].pc = pc]
Keep(p, pc)  == lock' = Taking(p) /\ Goto(p, pc)
End(p)       == lock' = Releasing(p) /\ ses' = [ses EXCEPT ![p] = IdleSession]

\* End of a request whose temporary file is unlinked on the way out.
Refuse(p) == End(p) /\ UNCHANGED <<db, files>>

----------------------------------------------------------------------------
(* Any set of stored contents, each with a reference in some open room. *)

Init ==
  /\ status = [r \in Rooms |-> "open"]
  /\ refs \in [Rooms -> [Hashes -> 0..1]]
  /\ \A r \in Rooms : RefCount(r) <= MaxFiles
  /\ blobs = {h \in Hashes : \E r \in Rooms : refs[r][h] > 0}
  /\ Bytes[blobs] <= Ceiling
  /\ docs = {}
  /\ total = Bytes[blobs]
  /\ files = blobs
  /\ lock = [l \in Lockables |-> None]
  /\ ses = [p \in Sessions |-> IdleSession]
  /\ requests = 0 /\ crashes = 0

(* A request arrives.  Its unlocked reads of the room, the attachment and the
   document are the conditions here; upload_pdf_attachment has streamed the
   content into a temporary file by now. *)
Begin_Unchecked(p, op, r, h) ==
  /\ ses[p].pc = "idle" /\ op = "detach" /\ op \in Ops /\ requests < MaxRequests
  /\ requests' = requests + 1
  /\ ses' = [ses EXCEPT ![p] = [IdleSession EXCEPT
       !.op = op, !.room = r, !.hash = h, !.pc = "next", !.todo = {h}]]
  /\ refs' = [refs EXCEPT ![r][h] = @ - 1]
  /\ UNCHANGED <<status, blobs, docs, total, files, lock, crashes>>

Begin(p, op, r, h) ==
  /\ ses[p].pc = "idle" /\ op \in Ops /\ requests < MaxRequests
  /\ status[r] # "deleted"
  /\ op \in {"detach", "save"} => refs[r][h] > 0
  /\ op = "brain" => h \in docs
  /\ requests' = requests + 1
  /\ ses' = [ses EXCEPT ![p] =
       [IdleSession EXCEPT
          !.op = op, !.room = r, !.hash = h, !.temp = (op = "upload"),
          !.pc = CASE op = "save" -> "link"
                   [] op = "detach" -> "next"
                   [] OTHER -> "room",
          !.todo = IF op = "detach" THEN {h} ELSE {}]]
  /\ refs' = IF op = "detach" THEN [refs EXCEPT ![r][h] = @ - 1] ELSE refs
  /\ UNCHANGED <<status, blobs, docs, total, files, lock, crashes>>

(* The attempt's first statement: the room FOR UPDATE, then the checks made
   under that lock. *)
Full(r) == RefCount(r) >= MaxFiles

LockRoom_NoForUpdate(p) ==
  LET r == ses[p].room IN
  /\ ses[p].pc = "room" /\ ses[p].op \in {"upload", "brain"} /\ Ready(p)
  /\ \/ /\ status[r] # "open" \/ Full(r)
        /\ Refuse(p)
     \/ /\ status[r] = "open" /\ ~Full(r)
        /\ Goto(p, IF ses[p].op = "upload" THEN "lookup" ELSE "link")
        /\ UNCHANGED <<db, files, lock>>
  /\ UNCHANGED <<requests, crashes>>

LockRoom(p) ==
  LET r == ses[p].room IN
  /\ ses[p].pc = "room" /\ ses[p].op \in {"upload", "brain"} /\ Ready(p)
  /\ \/ /\ status[r] # "open" \/ Full(r)
        /\ Refuse(p)
     \/ /\ status[r] = "open" /\ ~Full(r)
        /\ Keep(p, IF ses[p].op = "upload" THEN "lookup" ELSE "link")
        /\ UNCHANGED <<db, files>>
  /\ UNCHANGED <<requests, crashes>>

(* _get_or_create_blob: the blob row FOR UPDATE.  An existing one is reused,
   and the temporary file dropped. *)
Lookup_NoForUpdate(p) ==
  LET h == ses[p].hash IN
  /\ ses[p].pc = "lookup"
  /\ ses' = [ses EXCEPT ![p].pc = IF h \in blobs THEN "commit" ELSE "ceiling",
                        ![p].temp = h \notin blobs /\ @]
  /\ UNCHANGED <<db, files, lock, requests, crashes>>

Lookup(p) ==
  LET h == ses[p].hash IN
  /\ ses[p].pc = "lookup" /\ Ready(p)
  /\ lock' = Taking(p)
  /\ ses' = [ses EXCEPT ![p].pc = IF h \in blobs THEN "commit" ELSE "ceiling",
                        ![p].temp = h \notin blobs /\ @]
  /\ UNCHANGED <<db, files, requests, crashes>>

(* ... a new content: the counter FOR UPDATE, the ceiling, and the rename.
   A file that is already at the hash path is taken for the content. *)
CeilingCheck(p) ==
  LET h == ses[p].hash IN
  /\ ses[p].pc = "ceiling" /\ Ready(p)
  /\ \/ /\ total + Bytes[{h}] > Ceiling
        /\ Refuse(p)
     \/ /\ total + Bytes[{h}] <= Ceiling
        /\ h \notin files /\ ~ses[p].temp       \* attachment_storage_inconsistent
        /\ Refuse(p)
     \/ /\ total + Bytes[{h}] <= Ceiling
        /\ h \in files \/ ses[p].temp
        /\ files' = files \cup {h}
        /\ lock' = Taking(p)
        /\ ses' = [ses EXCEPT ![p].pc = "commit", ![p].temp = FALSE]
        /\ UNCHANGED db
  /\ UNCHANGED <<requests, crashes>>

(* The insert and the commit.  A hash that another transaction stored since
   Lookup violates the primary key: roll back and redo the whole attempt. *)
IsNew(p) == lock[StatsRow] = p

CommitUpload_NoRollback(p) ==
  LET s == ses[p] h == s.hash IN
  /\ s.pc = "commit"
  /\ IF IsNew(p) /\ h \in blobs
     THEN /\ ses' = [ses EXCEPT ![p].pc = "room"]
          /\ UNCHANGED <<lock, db>>
     ELSE /\ refs' = [refs EXCEPT ![s.room][h] = @ + 1]
          /\ blobs' = blobs \cup {h}
          /\ total' = IF IsNew(p) THEN total + Bytes[{h}] ELSE total
          /\ End(p)
          /\ UNCHANGED <<status, docs>>
  /\ UNCHANGED <<files, requests, crashes>>

CommitUpload(p) ==
  LET s == ses[p] h == s.hash IN
  /\ s.pc = "commit"
  /\ \/ /\ IsNew(p) /\ h \in blobs
        /\ lock' = Releasing(p)
        /\ ses' = [ses EXCEPT ![p] =
             IF s.attempt < MaxAttempts
             THEN [s EXCEPT !.pc = "room", !.attempt = @ + 1]
             ELSE IdleSession]
        /\ UNCHANGED db
     \/ /\ IsNew(p) => h \notin blobs
        /\ refs' = [refs EXCEPT ![s.room][h] = @ + 1]
        /\ blobs' = IF IsNew(p) THEN blobs \cup {h} ELSE blobs
        /\ total' = IF IsNew(p) THEN total + Bytes[{h}] ELSE total
        /\ End(p)
        /\ UNCHANGED <<status, docs>>
  /\ UNCHANGED <<files, requests, crashes>>

(* Both links to an existing blob: add_attachment_from_brain_document's
   insert, and the second commit of save_attachment_to_brain, which sets
   blob_sha256 on the document its deposit has committed before.  The foreign
   key takes the blob row in share mode, and fails when the row is gone. *)
Link(p) ==
  LET s == ses[p] IN
  /\ s.pc = "link" /\ Ready(p)
  /\ IF s.hash \in blobs
     THEN IF s.op = "brain"
          THEN refs' = [refs EXCEPT ![s.room][s.hash] = @ + 1] /\ UNCHANGED docs
          ELSE docs' = docs \cup {s.hash} /\ UNCHANGED refs
     ELSE UNCHANGED <<refs, docs>>
  /\ End(p)
  /\ UNCHANGED <<status, blobs, total, files, requests, crashes>>

(* delete_room: the room FOR UPDATE, the hashes of its references, the delete
   and its commit, which gives the lock back before any blob is looked at. *)
DeleteRoom(p) ==
  LET r == ses[p].room IN
  /\ ses[p].pc = "room" /\ ses[p].op = "delete" /\ Ready(p)
  /\ \/ status[r] = "deleted" /\ Refuse(p)
     \/ /\ status[r] # "deleted"
        /\ status' = [status EXCEPT ![r] = "deleted"]
        /\ refs' = [refs EXCEPT ![r] = [h \in Hashes |-> 0]]
        /\ ses' = [ses EXCEPT ![p].pc = "next",
                              ![p].todo = {h \in Hashes : refs[r][h] > 0}]
        /\ UNCHANGED <<blobs, docs, total, files, lock>>
  /\ UNCHANGED <<requests, crashes>>

(* sweep_expired_blobs: every stored hash is a candidate. *)
Sweep_OrphansOnly ==
  /\ ses[Sweeper].pc = "idle"
  /\ ses' = [ses EXCEPT ![Sweeper] = [IdleSession EXCEPT
               !.op = "sweep", !.pc = "next",
               !.todo = {h \in blobs : \A r \in Rooms : refs[r][h] = 0}]]
  /\ UNCHANGED <<db, files, lock, requests, crashes>>

Sweep ==
  /\ ses[Sweeper].pc = "idle"
  /\ ses' = [ses EXCEPT ![Sweeper] = [IdleSession EXCEPT
               !.op = "sweep", !.pc = "next", !.todo = blobs]]
  /\ UNCHANGED <<db, files, lock, requests, crashes>>

(* The loop over the candidates, in whatever order the query gave them.  At
   its end the session closes; the owner's detach goes on to announce the
   removal in the room, on the same session. *)
NextHash_NotPopped(p) ==
  LET s == ses[p] IN
  /\ s.pc = "next"
  /\ \/ \E h \in s.todo :
          /\ ses' = [ses EXCEPT ![p].pc = "reclaim", ![p].hash = h]
          /\ UNCHANGED lock
     \/ s.todo = {} /\ s.op = "detach" /\ Goto(p, "announce") /\ UNCHANGED lock
     \/ s.todo = {} /\ s.op # "detach" /\ End(p)
  /\ UNCHANGED <<db, files, requests, crashes>>

NextHash(p) ==
  LET s == ses[p] IN
  /\ s.pc = "next"
  /\ \/ \E h \in s.todo :
          /\ ses' = [ses EXCEPT ![p].pc = "reclaim", ![p].hash = h,
                                ![p].todo = @ \ {h}]
          /\ UNCHANGED lock
     \/ s.todo = {} /\ s.op = "detach" /\ Goto(p, "announce") /\ UNCHANGED lock
     \/ s.todo = {} /\ s.op # "detach" /\ End(p)
  /\ UNCHANGED <<db, files, requests, crashes>>

(* _reclaim_blob_if_unreferenced: the blob FOR UPDATE, then the check.  A
   blob that is kept stays locked: nothing ends the transaction. *)
Reclaim(p) ==
  LET h == ses[p].hash IN
  /\ ses[p].pc = "reclaim" /\ Ready(p)
  /\ Keep(p, IF h \notin blobs \/ Referenced(h) THEN "next" ELSE "charge")
  /\ UNCHANGED <<db, files, requests, crashes>>

(* ... the counter FOR UPDATE, the deletes and the commit, which releases
   every row the session has locked so far. *)
Charge_KeepsCount(p) ==
  LET h == ses[p].hash IN
  /\ ses[p].pc = "charge" /\ Ready(p)
  /\ refs' = [r \in Rooms |-> [refs[r] EXCEPT ![h] = 0]]
  /\ blobs' = blobs \ {h}
  /\ lock' = Releasing(p)
  /\ Goto(p, "unlink")
  /\ UNCHANGED <<total, status, docs, files, requests, crashes>>

Charge(p) ==
  LET h == ses[p].hash IN
  /\ ses[p].pc = "charge" /\ Ready(p)
  /\ refs' = [r \in Rooms |-> [refs[r] EXCEPT ![h] = 0]]
  /\ total' = total - Bytes[{h}]
  /\ blobs' = blobs \ {h}
  /\ lock' = Releasing(p)
  /\ Goto(p, "unlink")
  /\ UNCHANGED <<status, docs, files, requests, crashes>>

(* ... and only then the file. *)
Unlink(p) ==
  /\ ses[p].pc = "unlink"
  /\ files' = files \ {ses[p].hash}
  /\ Goto(p, "next")
  /\ UNCHANGED <<db, lock, requests, crashes>>

(* post_attachment_removed_message: the room FOR UPDATE, the message, the
   commit.  What it inserts is module Rooms' business. *)
Announce(p) ==
  /\ ses[p].pc = "announce" /\ Ready(p)
  /\ End(p)
  /\ UNCHANGED <<db, files, requests, crashes>>

----------------------------------------------------------------------------
(* The surroundings. *)

\* Any handler of module Rooms that closes a room.
CloseRoom(r) ==
  /\ status[r] = "open" /\ lock[RoomRow(r)] = None
  /\ status' = [status EXCEPT ![r] = "closed"]
  /\ UNCHANGED <<refs, blobs, docs, total, files, lock, ses, requests, crashes>>

Expire(r) ==
  /\ status[r] = "closed"
  /\ status' = [status EXCEPT ![r] = "expired"]
  /\ UNCHANGED <<refs, blobs, docs, total, files, lock, ses, requests, crashes>>

\* A set of sessions that wait for each other in a circle.
Circle(S) ==
  /\ S # {}
  /\ \A p \in S : \E q \in S : q \in BlockedBy(p)
  /\ \A q \in S : \E p \in S : q \in BlockedBy(p)

\* The database breaks a circle: the victim's statement fails with an error
\* that no handler catches, and its transaction is rolled back.  An upload's
\* temporary file stays behind.
Victim(p) ==
  /\ \E S \in SUBSET Sessions : p \in S /\ Circle(S)
  /\ End(p)
  /\ UNCHANGED <<db, files, requests, crashes>>

\* The process dies: open transactions are rolled back, files stay.
Crash ==
  /\ crashes < MaxCrashes
  /\ crashes' = crashes + 1
  /\ ses' = [p \in Sessions |-> IdleSession]
  /\ lock' = [l \in Lockables |-> None]
  /\ UNCHANGED <<db, files, requests>>

Step(p) ==
  \/ LockRoom(p) \/ Lookup(p) \/ CeilingCheck(p) \/ CommitUpload(p) \/ Link(p)
  \/ DeleteRoom(p) \/ NextHash(p) \/ Reclaim(p) \/ Charge(p) \/ Unlink(p)
  \/ Announce(p)

Next ==
  \/ \E p \in Clients, op \in Ops, r \in Rooms, h \in Hashes : Begin(p, op, r, h)
  \/ \E p \in Sessions : Step(p) \/ Victim(p)
  \/ Sweep
  \/ \E r \in Rooms : CloseRoom(r) \/ Expire(r)
  \/ Crash

Spec == Init /\ [][Next]_vars

\* A session is scheduled; a row is granted in the order in which sessions ask
\* for it, so none is overtaken for ever; the database finds every circle; and
\* the sweeper's loop comes round again.
Fairness ==
  /\ \A p \in Sessions : SF_vars(Step(p)) /\ WF_vars(Victim(p))
  /\ WF_vars(Sweep)

FairSpec == Spec /\ Fairness

----------------------------------------------------------------------------
TypeOK ==
  /\ status \in [Rooms -> {"open", "closed", "expired", "deleted"}]
  /\ refs \in [Rooms -> [Hashes -> Nat]]
  /\ blobs \subseteq Hashes /\ docs \subseteq Hashes /\ files \subseteq Hashes
  /\ total \in Int
  /\ lock \in [Lockables -> Sessions \cup {None}]
  /\ ses \in [Sessions -> Session]
  /\ requests \in Nat /\ crashes \in Nat

\* total_bytes is exactly what the stored blobs take, through deduplicated
\* uploads, retries, concurrent reclaims and crashes; so the ceiling that is
\* checked against it is a ceiling on the bytes stored.
CounterIsExact == total = Bytes[blobs] /\ total <= Ceiling

\* A blob that a room in use or a Brain document refers to is never reclaimed,
\* whoever links to it while a sweep, a detach or a room deletion looks at it:
\* links name stored blobs, and what is about to be deleted has no link left.
LinkedBlobsStay ==
  /\ docs \subseteq blobs
  /\ \A r \in Rooms, h \in Hashes : refs[r][h] > 0 => h \in blobs
  /\ \A p \in Sessions : ses[p].pc = "charge" => ~Referenced(ses[p].hash)

\* The row the session has locked only because an earlier candidate was kept.
KeepsLock(p) ==
  \E h \in Hashes : lock[BlobRow(h)] = p /\ ses[p].pc \in {"reclaim", "announce"}

\* Row locks are taken in the order room, blob, counter, so sessions that wait
\* for each other in a circle always include one that still holds the lock of
\* a blob it decided to keep.
Rank(l) == CASE l[1] = "room" -> 1 [] l[1] = "blob" -> 2 [] OTHER -> 3

LocksAreOrdered ==
  \A p, q \in Sessions :
    q \in BlockedBy(p) /\ ~KeepsLock(q) =>
      \A l \in Wanted(p), k \in Wanted(q) : Rank(l) < Rank(k)

Store == INSTANCE BlobStore WITH
           Contents <- Hashes, Size <- Bytes, stored <- blobs

\* Every commit of every session, with its locks taken one by one, its retries
\* and the deletions that race it, is one step of the serial store: attached
\* within a room's and the global limit, forgotten only when out of use.
ImplementsBlobStore == Store!StoreSpec

\* A stored blob has its bytes on disk ("never the other way around, a DB row
\* whose file is already gone").
StoredBytesExist == blobs \subseteq files

\* Every request and every sweep ends, in spite of the circles.
SessionsEnd == \A p \in Sessions : ses[p].pc # "idle" ~> ses[p].pc = "idle"

\* A blob nothing refers to any more is reclaimed, or referred to again.
GarbageIsCollected ==
  \A h \in Hashes :
    h \in blobs /\ ~Referenced(h) ~> h \notin blobs \/ Referenced(h)
============================================================================
