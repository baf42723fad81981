------------------------------- MODULE Rooms -------------------------------
(***************************************************************************)
(* One chat room of the Brain: its database rows, and the request handlers *)
(* and the background sweeper that run against them concurrently.          *)
(*                                                                         *)
(* A handler is an asyncio coroutine with its own database session.  It    *)
(* reads without a lock first (stage "checked" records that it got past    *)
(* that), then takes the room row with SELECT ... FOR UPDATE (stage        *)
(* "locked": `snap' is the ORM object that populate_existing refreshed     *)
(* from the locked row, `seq' the number _next_seq read), then writes and  *)
(* commits in one step, which releases the row.  A close or a ping is      *)
(* announced to the owner after that commit (stage "notify").              *)
(*                                                                         *)
(* Time is abstract.  `clock' says where the wall clock stands relative to *)
(* expires_at, `msgOld' and `polled' whether the newest message and each   *)
(* member's latest poll lie further back than stall_notify_secs.           *)
(***************************************************************************)
EXTENDS Integers, FiniteSets

CONSTANTS
  Members,          \* the agent names seated in the room (room_members rows)
  Machines,         \* the active machine tokens
  Clients,          \* the request coroutines that may run at once
  Sweeper,          \* the sweeper's coroutine
  Owner,            \* the owner, both as a principal and as a sender
  System,           \* the sender of server-authored messages
  None,             \* NULL
  Modes,            \* the room modes
  GatedModes,       \* _CONSENSUS_GATED_MODES
  MaxMessages,      \* Room.max_messages
  ConsensusFloor,   \* Room.consensus_floor
  Deadlines,        \* the deadlines a room may be created with
  Seatings,         \* the seat assignments a room may be created with
  Ops,              \* the operations the clients of this instance request
  Kinds,            \* the kinds they post
  Pollers,          \* the members that poll
  Reasons,          \* the reasons the owner's close gives
  MaxFiles,         \* attachment_max_files_per_room
  MaxSeq,           \* bound: messages ever inserted
  MaxCrashes        \* bound: restarts of the process

Threads == Clients \cup {Sweeper}

ASSUME ConstantsAssumption ==
  /\ MaxMessages \in Nat \ {0}
  /\ ConsensusFloor \in Nat
  /\ MaxFiles \in Nat /\ MaxSeq \in Nat /\ MaxCrashes \in Nat
  /\ GatedModes \subseteq Modes
  /\ Deadlines \subseteq {"none", "deferred", "set"}
  /\ Seatings \subseteq [Members -> Machines \cup {None}]
  /\ Pollers \subseteq Members
  /\ Kinds \subseteq {"message", "done", "objection"}
  /\ Reasons \subseteq {"done", "owner", "cap", "stall", "time"}
  /\ Sweeper \notin Clients
  /\ None \notin Threads \cup Machines \cup Members
  /\ None \notin {"done", "owner", "cap", "stall", "time", "closed", "stalled"}
  /\ Owner \notin Machines \cup Members \cup {None, System}
  /\ System \notin Members
  /\ (Members \cup {None})
       \cap {"nudge", "mode", "uploads", "gate_on", "gate_off", "file"} = {}

VARIABLES
  exists,           \* the rooms row is there
  room,             \* the rooms row
  messages,         \* the room_messages rows, by seq
  seats,            \* room_members.bound_machine_id
  files,            \* how many room_attachments rows the room has
  lock,             \* the session holding the room row FOR UPDATE
  req,              \* what each coroutine is doing
  sweep,            \* which scan the sweeper runs next
  clock,            \* now, relative to expires_at
  msgOld,           \* the newest message is older than stall_notify_secs
  polled,           \* each member's latest poll, from working_until
  cursor,           \* the `since' each polling agent sends
  told,             \* the room status each polling agent was last given
  sent,             \* how many pings of each sort reached the owner
  crashes           \* restarts so far

vars == <<exists, room, messages, seats, files, lock, req, sweep, clock, msgOld,
          polled, cursor, told, sent, crashes>>

\* The database rows, and what a committing handler leaves alone.
rows    == <<exists, room, messages, seats, files, msgOld>>
outside == <<sweep, clock, polled, cursor, told, sent, crashes>>

CloseReasons == {"done", "owner", "cap", "stall", "time"}   \* VALID_CLOSE_REASONS
PostKinds    == {"message", "done", "objection"}            \* VALID_POST_KINDS
PingKinds    == {"closed", "open_pending", "stalled"}

\* Operations that take the room row, and the ones among them that insert.
InsertOps == {"post", "nudge", "mode", "uploads", "gate", "seat", "announce",
              "attach"}
LockOps   == InsertOps \cup {"close", "delete_message", "delete_room",
                             "ping_open", "ping_stall"}

\* The columns of the rooms row that some handler reads or writes.
RoomRow ==
  [status : {"open", "closed"}, close_reason : CloseReasons \cup {None},
   message_count : Nat, mode : Modes, agent_uploads_allowed : BOOLEAN,
   requires_owner_open : BOOLEAN, opened : BOOLEAN,
   deadline : {"none", "deferred", "set"}, warned : BOOLEAN,
   reminded : BOOLEAN, stall_sent : BOOLEAN]

\* A message.  `principal' is who was authenticated (not a column: it is kept
\* here for the seat properties); `about' is what a system text announces.
MessageRow ==
  [sender : Members \cup {Owner, System},
   principal : Machines \cup {Owner, None},
   kind : PostKinds \cup {"system"},
   about : {"nudge", "mode", "uploads", "gate_on", "gate_off", "file", None}
             \cup Members,
   deleted : BOOLEAN]

Request ==
  [op : LockOps \cup {"idle", "poll"},
   stage : {"idle", "checked", "locked", "notify", "marking", "reading", "read"},
   sender : Members \cup {Owner, None},
   principal : Machines \cup {Owner, None},
   arg : PostKinds \cup CloseReasons \cup {"upload", "brain", "stalled", None},
   seq : Nat,
   snap : RoomRow \cup {None}]

Idle == [op |-> "idle", stage |-> "idle", sender |-> None, principal |-> None,
         arg |-> None, seq |-> 0, snap |-> None]

Seqs     == DOMAIN messages
Live     == {s \in Seqs : ~messages[s].deleted}
Posts    == {s \in Seqs : messages[s].sender # System}
AgentPosts == {s \in Posts : messages[s].sender # Owner}

\* requires_owner_open is on and the owner has not posted yet.
Waiting(row) == row.requires_owner_open /\ ~row.opened

----------------------------------------------------------------------------
(* The committed row of a room create_room has just made. *)

Init ==
  /\ exists = TRUE
  /\ \E mode \in Modes, deadline \in Deadlines :
       /\ mode \in GatedModes => ConsensusFloor < MaxMessages
       /\ room = [status |-> "open", close_reason |-> None,
                  message_count |-> 0, mode |-> mode,
                  agent_uploads_allowed |-> TRUE, requires_owner_open |-> TRUE,
                  opened |-> FALSE, deadline |-> deadline, warned |-> FALSE,
                  reminded |-> FALSE, stall_sent |-> FALSE]
  /\ messages = [s \in {} |-> None]
  /\ seats \in Seatings
  /\ files = 0
  /\ lock = None
  /\ req = [t \in Threads |-> Idle]
  /\ sweep = "close"
  /\ clock = "early"
  /\ msgOld = FALSE
  /\ polled = [m \in Members |-> "never"]
  /\ cursor = [m \in Members |-> 0]
  /\ told = [m \in Members |-> None]
  /\ sent = [p \in PingKinds |-> 0]
  /\ crashes = 0

----------------------------------------------------------------------------
(* Starting a request: what happens before the room row is locked. *)

\* Bound: every insertion in flight still fits under MaxSeq.
UnderBound ==
  Cardinality(Seqs) + Cardinality({t \in Threads : req[t].op \in InsertOps}) < MaxSeq

Start(t, op, sender, principal, arg) ==
  /\ req[t] = Idle
  /\ op \in InsertOps => UnderBound
  /\ req' = [req EXCEPT ![t] =
              [Idle EXCEPT !.op = op, !.stage = "checked", !.sender = sender,
                           !.principal = principal, !.arg = arg]]

\* Mutant: the owner-open gate is not consulted.
PostPrecheck_NoGate(t) ==
  /\ "post" \in Ops
  /\ exists /\ room.status = "open"
  /\ \E sender \in Members \cup {Owner}, principal \in Machines \cup {Owner},
        kind \in Kinds :
       /\ sender = Owner => principal = Owner
       /\ Start(t, "post", sender, principal, kind)
  /\ UNCHANGED <<rows, outside, lock>>

\* post_message up to its lock: the room exists and is open, only an owner
\* token may speak as the owner, and the owner-open gate lets the sender
\* through.  Membership is the range of `sender'.
PostPrecheck(t) ==
  /\ "post" \in Ops
  /\ exists /\ room.status = "open"
  /\ \E sender \in Members \cup {Owner}, principal \in Machines \cup {Owner},
        kind \in Kinds :
       /\ sender = Owner => principal = Owner
       /\ sender # Owner => ~Waiting(room)
       /\ Start(t, "post", sender, principal, kind)
  /\ UNCHANGED <<rows, outside, lock>>

\* The gate refuses a member's post (403 room_not_opened) after trying to
\* ping the owner in a session of its own.
PostNotOpened(t) ==
  /\ "post" \in Ops
  /\ exists /\ room.status = "open" /\ Waiting(room)
  /\ \E sender \in Members : Start(t, "ping_open", sender, None, None)
  /\ UNCHANGED <<rows, outside, lock>>

\* The owner's handlers: their unlocked read only checks that the room is
\* there.  Arguments that nothing reads before the commit are chosen there.
OwnerRequest(t) ==
  /\ exists
  /\ \/ \E reason \in Reasons :
          "close" \in Ops /\ Start(t, "close", None, Owner, reason)
     \/ \E op \in Ops \cap {"mode", "uploads", "gate", "seat", "delete_message",
                            "delete_room"} :
          Start(t, op, None, Owner, None)
  /\ UNCHANGED <<rows, outside, lock>>

\* add_room_attachment ("upload") and add_attachment_from_brain_document
\* ("brain").  _clean_sender runs under the lock but reads no state.
AttachRequest(t) ==
  /\ "attach" \in Ops
  /\ exists
  /\ \E sender \in Members \cup {Owner}, principal \in Machines \cup {Owner},
        source \in {"upload", "brain"} :
       /\ sender = Owner => principal = Owner
       /\ Start(t, "attach", sender, principal, source)
  /\ UNCHANGED <<rows, outside, lock>>

\* delete_room_attachment commits without the room row, in any room status;
\* the announcement is a transaction of its own.
DetachRequest(t) ==
  /\ "attach" \in Ops
  /\ exists /\ files > 0
  /\ files' = files - 1
  /\ Start(t, "announce", None, Owner, None)
  /\ UNCHANGED <<exists, room, messages, seats, lock, msgOld, outside>>

----------------------------------------------------------------------------
(* The row lock. *)

\* Mutant: `max_seq or 0', without the increment.
NextSeq_NoIncrement ==
  IF Seqs = {} THEN 0 ELSE CHOOSE s \in Seqs : \A u \in Seqs : u <= s

\* _next_seq: max(seq) of the room's messages, or 0, plus 1.
NextSeq ==
  IF Seqs = {} THEN 1
  ELSE (CHOOSE s \in Seqs : \A u \in Seqs : u <= s) + 1

\* Mutant: a plain SELECT, without FOR UPDATE.
Lock_NoForUpdate(t) ==
  /\ req[t].stage = "checked"
  /\ exists
  /\ lock' = t
  /\ req' = [req EXCEPT ![t].stage = "locked", ![t].snap = room,
                        ![t].seq = NextSeq]
  /\ UNCHANGED <<rows, outside>>

\* SELECT ... FOR UPDATE with populate_existing.
Lock(t) ==
  /\ req[t].stage = "checked"
  /\ lock = None /\ exists
  /\ lock' = t
  /\ req' = [req EXCEPT ![t].stage = "locked", ![t].snap = room,
                        ![t].seq = NextSeq]
  /\ UNCHANGED <<rows, outside>>

\* The row went away before the lock: 404, or a silent return.
LockGone(t) ==
  /\ req[t].stage = "checked"
  /\ lock = None /\ ~exists
  /\ req' = [req EXCEPT ![t] = Idle]
  /\ UNCHANGED <<rows, outside, lock>>

Holds(t, op) == req[t].stage = "locked" /\ req[t].op = op

\* The ways a locked handler ends: done, or with an owner ping still to send,
\* or with a second transaction still to run.
Finish(t) ==
  /\ lock' = None
  /\ req' = [req EXCEPT ![t] = Idle]

FinishNotify(t) ==
  /\ lock' = None
  /\ req' = [req EXCEPT ![t] = [Idle EXCEPT !.op = req[t].op, !.stage = "notify"]]

FinishAnnounce(t) ==
  /\ lock' = None
  /\ req' = [req EXCEPT ![t] = [Idle EXCEPT !.op = "announce", !.stage = "checked"]]

\* Adds the row under the number read after the lock.
Insert(t, row) ==
  /\ messages' = [s \in Seqs \cup {req[t].seq} |->
                    IF s = req[t].seq THEN row ELSE messages[s]]
  /\ msgOld' = FALSE

SystemRow(about) ==
  [sender |-> System, principal |-> None, kind |-> "system", about |-> about,
   deleted |-> FALSE]

\* Mutant: notices are left out of the counter.
Announced_NotCounted(row) == row

\* A server-authored message: next seq, message_count + 1, no cap guardrail.
Announced(row) == [row EXCEPT !.message_count = @ + 1]

----------------------------------------------------------------------------
(* post_message under the lock. *)

Objected(m) ==
  \E s \in Seqs : messages[s].sender = m /\ messages[s].kind = "objection"

\* Mutant: one objection is as good as one of every member.
GateRefuses_AnyObjection(row, sender, kind) ==
  /\ sender # Owner /\ kind = "done" /\ row.mode \in GatedModes
  /\ row.message_count < ConsensusFloor \/ \A m \in Members : ~Objected(m)

\* _check_close_as_agreed_gate refuses the post.
GateRefuses(row, sender, kind) ==
  /\ sender # Owner /\ kind = "done" /\ row.mode \in GatedModes
  /\ row.message_count < ConsensusFloor \/ \E m \in Members : ~Objected(m)

\* check_and_bind_seat: only a machine token acting as a member is bound.
Seated(sender, principal) == sender \in Members /\ principal \in Machines

SeatRefuses(sender, principal) ==
  Seated(sender, principal) /\ seats[sender] \notin {None, principal}

BindSeat(sender, principal) ==
  seats' = IF Seated(sender, principal)
           THEN [seats EXCEPT ![sender] = principal] ELSE seats

\* Mutant: the room closes one message past the cap.
PostedRow_PastCap(row, sender, kind) ==
  LET opens  == sender = Owner /\ ~row.opened
      count  == row.message_count + 1
      reason == IF kind = "done" THEN "done"
                ELSE IF count > MaxMessages THEN "cap" ELSE None
  IN  [row EXCEPT
         !.opened = @ \/ opens,
         !.deadline = IF opens /\ @ = "deferred" THEN "set" ELSE @,
         !.message_count = count,
         !.status = IF reason = None THEN @ ELSE "closed",
         !.close_reason = reason]

\* The row _insert_message_and_maybe_close commits: the owner's first post
\* opens the room and starts a deferred deadline; "done" or the cap closes.
PostedRow(row, sender, kind) ==
  LET opens  == sender = Owner /\ ~row.opened
      count  == row.message_count + 1
      reason == IF kind = "done" THEN "done"
                ELSE IF count >= MaxMessages THEN "cap" ELSE None
  IN  [row EXCEPT
         !.opened = @ \/ opens,
         !.deadline = IF opens /\ @ = "deferred" THEN "set" ELSE @,
         !.message_count = count,
         !.status = IF reason = None THEN @ ELSE "closed",
         !.close_reason = reason]

\* Mutant: the status is not read again under the lock.
PostCommit_NoRecheck(t) ==
  LET r == req[t] IN
  /\ Holds(t, "post")
  /\ ~GateRefuses(r.snap, r.sender, r.arg)
  /\ ~SeatRefuses(r.sender, r.principal)
  /\ Insert(t, [sender |-> r.sender, principal |-> r.principal, kind |-> r.arg,
                about |-> None, deleted |-> FALSE])
  /\ BindSeat(r.sender, r.principal)
  /\ room' = PostedRow(r.snap, r.sender, r.arg)
  /\ IF room'.status = "closed" THEN FinishNotify(t) ELSE Finish(t)
  /\ UNCHANGED <<exists, files, outside>>

PostCommit(t) ==
  LET r == req[t] IN
  /\ Holds(t, "post")
  /\ r.snap.status = "open"
  /\ ~GateRefuses(r.snap, r.sender, r.arg)
  /\ ~SeatRefuses(r.sender, r.principal)
  /\ Insert(t, [sender |-> r.sender, principal |-> r.principal, kind |-> r.arg,
                about |-> None, deleted |-> FALSE])
  /\ BindSeat(r.sender, r.principal)
  /\ room' = PostedRow(r.snap, r.sender, r.arg)
  /\ IF room'.status = "closed" THEN FinishNotify(t) ELSE Finish(t)
  /\ UNCHANGED <<exists, files, outside>>

PostRefused(t) ==
  LET r == req[t] IN
  /\ Holds(t, "post")
  /\ \/ r.snap.status # "open"
     \/ GateRefuses(r.snap, r.sender, r.arg)
     \/ SeatRefuses(r.sender, r.principal)
  /\ Finish(t)
  /\ UNCHANGED <<rows, outside>>

----------------------------------------------------------------------------
(* The owner's handlers under the lock. *)

\* Handlers that only an open room accepts: 409 room_closed, or a return.
NotOpen(t) ==
  /\ \E op \in {"mode", "uploads", "gate", "seat", "nudge", "attach"} : Holds(t, op)
  /\ req[t].snap.status # "open"
  /\ Finish(t)
  /\ UNCHANGED <<rows, outside>>

\* Mutant: an already closed room is closed again.
CloseRoom_NoRecheck(t) ==
  /\ Holds(t, "close")
  /\ room' = [req[t].snap EXCEPT !.status = "closed", !.close_reason = req[t].arg]
  /\ FinishNotify(t)
  /\ UNCHANGED <<exists, messages, seats, files, msgOld, outside>>

\* close_room: the first closer's reason stays; a later one changes nothing.
CloseRoom(t) ==
  LET r == req[t] IN
  /\ Holds(t, "close")
  /\ IF r.snap.status = "closed"
     THEN room' = room /\ Finish(t)
     ELSE /\ room' = [r.snap EXCEPT !.status = "closed", !.close_reason = r.arg]
          /\ FinishNotify(t)
  /\ UNCHANGED <<exists, messages, seats, files, msgOld, outside>>

\* Mutant: deleting a tombstone again lowers the counter again.
DeleteMessage_NotIdempotent(t) ==
  /\ Holds(t, "delete_message")
  /\ \E s \in Seqs : messages' = [messages EXCEPT ![s].deleted = TRUE]
  /\ room' = [req[t].snap EXCEPT !.message_count = IF @ > 0 THEN @ - 1 ELSE 0]
  /\ Finish(t)
  /\ UNCHANGED <<exists, seats, files, msgOld, outside>>

\* Mutant: the row is deleted, not tombstoned.
DeleteMessage_Hard(t) ==
  /\ Holds(t, "delete_message")
  /\ \E s \in Seqs : messages' = [u \in Seqs \ {s} |-> messages[u]]
  /\ room' = [req[t].snap EXCEPT !.message_count = IF @ > 0 THEN @ - 1 ELSE 0]
  /\ Finish(t)
  /\ UNCHANGED <<exists, seats, files, msgOld, outside>>

\* delete_message: a tombstone; the counter drops by one, never below zero.
DeleteMessage(t) ==
  LET r == req[t] IN
  /\ Holds(t, "delete_message")
  /\ \E s \in Seqs :
       IF messages[s].deleted
       THEN UNCHANGED <<room, messages>>
       ELSE /\ messages' = [messages EXCEPT ![s].deleted = TRUE]
            /\ room' = [r.snap EXCEPT !.message_count = IF @ > 0 THEN @ - 1 ELSE 0]
  /\ Finish(t)
  /\ UNCHANGED <<exists, seats, files, msgOld, outside>>

\* delete_message of an id that is not there: 404.
DeleteNothing(t) ==
  /\ Holds(t, "delete_message")
  /\ Finish(t)
  /\ UNCHANGED <<rows, outside>>

\* switch_room_mode; into a gated mode only with a reachable floor.
SwitchMode(t) ==
  LET r == req[t] IN
  /\ Holds(t, "mode") /\ r.snap.status = "open"
  /\ \E mode \in Modes :
       IF mode \in GatedModes /\ ConsensusFloor >= MaxMessages
       THEN UNCHANGED <<room, messages, msgOld>>
       ELSE /\ room' = Announced([r.snap EXCEPT !.mode = mode])
            /\ Insert(t, SystemRow("mode"))
  /\ Finish(t)
  /\ UNCHANGED <<exists, seats, files, outside>>

SetUploads(t) ==
  LET r == req[t] IN
  /\ Holds(t, "uploads") /\ r.snap.status = "open"
  /\ \E allowed \in BOOLEAN :
       room' = Announced([r.snap EXCEPT !.agent_uploads_allowed = allowed])
  /\ Insert(t, SystemRow("uploads"))
  /\ Finish(t)
  /\ UNCHANGED <<exists, seats, files, outside>>

\* Mutant: releasing a waiting room does not start its timer.
SetGate_TimerForgotten(t) ==
  LET r == req[t] IN
  /\ Holds(t, "gate") /\ r.snap.status = "open"
  /\ \E required \in BOOLEAN :
       /\ room' = Announced([r.snap EXCEPT !.requires_owner_open = required])
       /\ Insert(t, SystemRow(IF required THEN "gate_on" ELSE "gate_off"))
  /\ Finish(t)
  /\ UNCHANGED <<exists, seats, files, outside>>

\* set_requires_owner_open: releasing a waiting room starts its deferred
\* deadline but does not count as the owner having posted.
SetGate(t) ==
  LET r == req[t] IN
  /\ Holds(t, "gate") /\ r.snap.status = "open"
  /\ \E required \in BOOLEAN :
       /\ room' = Announced(
            [r.snap EXCEPT
               !.requires_owner_open = required,
               !.deadline = IF @ = "deferred" /\ ~required /\ Waiting(r.snap)
                            THEN "set" ELSE @])
       /\ Insert(t, SystemRow(IF required THEN "gate_on" ELSE "gate_off"))
  /\ Finish(t)
  /\ UNCHANGED <<exists, seats, files, outside>>

\* set_room_member_seat: release (None) or reassign to an active machine.
SetSeat(t) ==
  LET r == req[t] IN
  /\ Holds(t, "seat") /\ r.snap.status = "open"
  /\ \E m \in Members, machine \in Machines \cup {None} :
       /\ seats' = [seats EXCEPT ![m] = machine]
       /\ Insert(t, SystemRow(m))
  /\ room' = Announced(r.snap)
  /\ Finish(t)
  /\ UNCHANGED <<exists, files, outside>>

\* delete_room: messages, members and attachments, then the room, one commit.
DeleteRoom(t) ==
  /\ Holds(t, "delete_room")
  /\ exists' = FALSE
  /\ messages' = [s \in {} |-> None]
  /\ seats' = [m \in Members |-> None]
  /\ files' = 0
  /\ msgOld' = FALSE
  /\ Finish(t)
  /\ UNCHANGED <<room, outside>>

----------------------------------------------------------------------------
(* Attachments, as far as the room's own rows are concerned. *)

\* Mutant: an attachment takes the seat without checking who holds it.
AddReference_TakesSeat(t) ==
  /\ files < MaxFiles
  /\ BindSeat(req[t].sender, req[t].principal)
  /\ files' = files + 1
  /\ FinishAnnounce(t)
  /\ UNCHANGED <<exists, room, messages, msgOld, outside>>

\* The reference row and the seat claim commit together; the announcement
\* follows in a transaction of its own.
AddReference(t) ==
  /\ ~SeatRefuses(req[t].sender, req[t].principal)
  /\ files < MaxFiles
  /\ BindSeat(req[t].sender, req[t].principal)
  /\ files' = files + 1
  /\ FinishAnnounce(t)
  /\ UNCHANGED <<exists, room, messages, msgOld, outside>>

\* add_room_attachment: an agent uploads only while the owner allows it.
AttachUpload(t) ==
  LET r == req[t] IN
  /\ Holds(t, "attach") /\ r.arg = "upload" /\ r.snap.status = "open"
  /\ r.sender # Owner => r.snap.agent_uploads_allowed
  /\ AddReference(t)

\* add_attachment_from_brain_document: not subject to the uploads switch.
AttachFromBrain(t) ==
  LET r == req[t] IN
  /\ Holds(t, "attach") /\ r.arg = "brain" /\ r.snap.status = "open"
  /\ AddReference(t)

\* Uploads are off, the seat or the file cap refuses, or the blob cannot be
\* stored (which the room's rows do not show).
AttachRefused(t) ==
  /\ Holds(t, "attach") /\ req[t].snap.status = "open"
  /\ Finish(t)
  /\ UNCHANGED <<rows, outside>>

\* _post_attachment_system_message: any status, no guardrail.
Announce(t) ==
  /\ Holds(t, "announce")
  /\ Insert(t, SystemRow("file"))
  /\ room' = Announced(req[t].snap)
  /\ Finish(t)
  /\ UNCHANGED <<exists, seats, files, outside>>

\* A failure to announce is swallowed.
AnnounceFailed(t) ==
  /\ Holds(t, "announce")
  /\ Finish(t)
  /\ UNCHANGED <<rows, outside>>

----------------------------------------------------------------------------
(* Owner pings, and the long poll that triggers two of them. *)

\* The newest message, if there is one, lies stall_notify_secs back or more.
NewestIsOld == Seqs # {} => msgOld

\* _last_activity_at is known and lies that far back: only the newest message
\* and the polls of bound members count.
Stalled ==
  LET bound == {m \in Members : seats[m] # None} IN
  /\ Seqs # {} \/ \E m \in bound : polled[m] # "never"
  /\ NewestIsOld
  /\ \A m \in bound : polled[m] # "recent"

\* Mutant: the reminder's one-shot guard is not read under the lock.
PingOpen_NoGuard(t) ==
  LET row == req[t].snap IN
  /\ Holds(t, "ping_open")
  /\ IF row.status = "open" /\ Waiting(row)
     THEN room' = [row EXCEPT !.reminded = TRUE] /\ FinishNotify(t)
     ELSE room' = room /\ Finish(t)
  /\ UNCHANGED <<exists, messages, seats, files, msgOld, outside>>

\* _maybe_ping_owner_room_not_opened: check and set under the lock.
PingOpen(t) ==
  LET row == req[t].snap IN
  /\ Holds(t, "ping_open")
  /\ IF row.status = "open" /\ Waiting(row) /\ ~row.reminded
     THEN room' = [row EXCEPT !.reminded = TRUE] /\ FinishNotify(t)
     ELSE room' = room /\ Finish(t)
  /\ UNCHANGED <<exists, messages, seats, files, msgOld, outside>>

\* Mutants: the stall is not computed again under the lock; the one-shot
\* guard is not read there.
FindStall_NoRecheck(t) ==
  LET row == req[t].snap IN
  /\ Holds(t, "ping_stall") /\ req[t].arg = None
  /\ IF row.status = "open" /\ row.opened /\ ~row.stall_sent
     THEN req' = [req EXCEPT ![t].arg = "stalled"] /\ lock' = lock
     ELSE Finish(t)
  /\ UNCHANGED <<rows, outside>>

FindStall_NoGuard(t) ==
  LET row == req[t].snap IN
  /\ Holds(t, "ping_stall") /\ req[t].arg = None
  /\ IF row.status = "open" /\ row.opened /\ Stalled
     THEN req' = [req EXCEPT ![t].arg = "stalled"] /\ lock' = lock
     ELSE Finish(t)
  /\ UNCHANGED <<rows, outside>>

\* _maybe_ping_owner_stalled_room under the lock: it reads the newest message
\* and the members, and finds the room stalled (`arg' remembers that) or
\* returns.  The row lock keeps messages and seats as they were read; a lease
\* (MarkWorking) may still be written before the commit ...
FindStall(t) ==
  LET row == req[t].snap IN
  /\ Holds(t, "ping_stall") /\ req[t].arg = None
  /\ IF row.status = "open" /\ row.opened /\ ~row.stall_sent /\ Stalled
     THEN req' = [req EXCEPT ![t].arg = "stalled"] /\ lock' = lock
     ELSE Finish(t)
  /\ UNCHANGED <<rows, outside>>

FoundStalled(t) == Holds(t, "ping_stall") /\ req[t].arg = "stalled"

\* ... which sets the guard.
PingStall(t) ==
  /\ FoundStalled(t)
  /\ room' = [req[t].snap EXCEPT !.stall_sent = TRUE]
  /\ FinishNotify(t)
  /\ UNCHANGED <<exists, messages, seats, files, msgOld, outside>>

PingOf(op) == CASE op = "ping_open"  -> "open_pending"
                [] op = "ping_stall" -> "stalled"
                [] OTHER             -> "closed"

\* app/notify.py after the commit: best effort, so the ping may be lost.
Notify(t) ==
  /\ req[t].stage = "notify"
  /\ \/ sent' = [sent EXCEPT ![PingOf(req[t].op)] = @ + 1]
     \/ sent' = sent
  /\ req' = [req EXCEPT ![t] = Idle]
  /\ UNCHANGED <<rows, lock, sweep, clock, polled, cursor, told, crashes>>

\* poll_messages by member m.  Naming itself with the token of an open or of
\* its own seat, it will refresh that seat's lease; otherwise it only reads.
\* A later iteration of the same long poll is a poll that only reads.
PollStart(t) ==
  /\ "poll" \in Ops
  /\ req[t] = Idle
  /\ \E m \in Pollers, principal \in Machines \cup {None} :
       LET marks == exists /\ principal # None /\ seats[m] \in {None, principal}
       IN  req' = [req EXCEPT ![t] =
                     [Idle EXCEPT !.op = "poll", !.sender = m,
                                  !.principal = IF marks THEN principal ELSE None,
                                  !.stage = IF marks THEN "marking" ELSE "reading"]]
  /\ UNCHANGED <<rows, outside, lock>>

\* _maybe_refresh_working_marker's write, on a seat read earlier and without
\* a lock; the request fails when the member row has been deleted since.
MarkWorking(t) ==
  /\ req[t].stage = "marking"
  /\ IF exists
     THEN /\ polled' = [polled EXCEPT ![req[t].sender] = "recent"]
          /\ req' = [req EXCEPT ![t].stage = "reading", ![t].principal = None]
     ELSE polled' = polled /\ req' = [req EXCEPT ![t] = Idle]
  /\ UNCHANGED <<rows, lock, sweep, clock, cursor, told, sent, crashes>>

\* _room_and_messages_since is several READ COMMITTED statements: the room
\* row first (404 room_gone when it is missing) ...
PollReadRoom(t) ==
  /\ req[t].stage = "reading"
  /\ IF exists
     THEN /\ req' = [req EXCEPT ![t].stage = "read", ![t].snap = room]
          /\ told' = told
     ELSE /\ req' = [req EXCEPT ![t] = Idle]
          /\ told' = [told EXCEPT ![req[t].sender] = "gone"]
  /\ UNCHANGED <<rows, lock, sweep, clock, polled, cursor, sent, crashes>>

\* Mutant: the messages as of the first read, the status as of the second.
PollReadMessages_Swapped(t) ==
  LET m == req[t].sender
      seen == req[t].snap.message_count
  IN
  /\ req[t].stage = "read"
  /\ cursor' = [cursor EXCEPT ![m] = IF seen > @ THEN seen ELSE @]
  /\ told' = [told EXCEPT ![m] = room.status]
  /\ req' = [req EXCEPT ![t] = Idle]
  /\ UNCHANGED <<rows, lock, sweep, clock, polled, sent, crashes>>

\* ... and its messages after that.  The agent gets the status of the room
\* row and every message past its cursor.  On the way out the poll may ping
\* the owner, from the row it read.
PollReadMessages(t) ==
  LET m   == req[t].sender
      row == req[t].snap
      asks(op) == [Idle EXCEPT !.op = op, !.stage = "checked", !.sender = m]
  IN
  /\ req[t].stage = "read"
  /\ cursor' = [cursor EXCEPT ![m] = IF NextSeq - 1 > @ THEN NextSeq - 1 ELSE @]
  /\ told' = [told EXCEPT ![m] = row.status]
  /\ req' = [req EXCEPT ![t] =
               IF row.status = "open" /\ Waiting(row) THEN asks("ping_open")
               ELSE IF row.opened /\ ~row.stall_sent /\ Stalled
               THEN asks("ping_stall") ELSE Idle]
  /\ UNCHANGED <<rows, lock, sweep, clock, polled, sent, crashes>>

----------------------------------------------------------------------------
(* The sweeper: sweep_once runs its two room scans in turn. *)

\* Mutant: closing_warned_at is not written.
Nudge_NotRecorded(t) ==
  /\ Holds(t, "nudge") /\ req[t].snap.status = "open"
  /\ Insert(t, SystemRow("nudge"))
  /\ room' = Announced(req[t].snap)
  /\ Finish(t)
  /\ UNCHANGED <<exists, seats, files, outside>>

\* post_closing_nudge: once per room, by a flag set in the same commit.
Nudge(t) ==
  LET row == req[t].snap IN
  /\ Holds(t, "nudge") /\ row.status = "open"
  /\ IF row.warned
     THEN UNCHANGED <<room, messages, msgOld>>
     ELSE /\ Insert(t, SystemRow("nudge"))
          /\ room' = Announced([row EXCEPT !.warned = TRUE])
  /\ Finish(t)
  /\ UNCHANGED <<exists, seats, files, outside>>

\* Mutant: the scan skips the rooms that were warned.
SweepClose_SkipsWarned ==
  /\ sweep = "close" /\ req[Sweeper] = Idle
  /\ IF /\ exists /\ room.status = "open" /\ room.deadline = "set"
        /\ clock = "passed" /\ ~room.warned
     THEN Start(Sweeper, "close", None, None, "time")
     ELSE req' = req
  /\ sweep' = "warn"
  /\ UNCHANGED <<rows, lock, clock, polled, cursor, told, sent, crashes>>

\* _close_expired_rooms finds the room, or does not.
SweepClose ==
  /\ sweep = "close" /\ req[Sweeper] = Idle
  /\ IF exists /\ room.status = "open" /\ room.deadline = "set" /\ clock = "passed"
     THEN Start(Sweeper, "close", None, None, "time")
     ELSE req' = req
  /\ sweep' = "warn"
  /\ UNCHANGED <<rows, lock, clock, polled, cursor, told, sent, crashes>>

\* _warn_closing_rooms, with a `now' of its own.  (UnderBound: a nudge past
\* the bound is left out.)
SweepWarn ==
  /\ sweep = "warn" /\ req[Sweeper] = Idle
  /\ IF /\ exists /\ room.status = "open" /\ room.deadline = "set"
        /\ ~room.warned /\ clock \in {"soon", "passed"} /\ UnderBound
     THEN Start(Sweeper, "nudge", None, None, None)
     ELSE req' = req
  /\ sweep' = "close"
  /\ UNCHANGED <<rows, lock, clock, polled, cursor, told, sent, crashes>>

----------------------------------------------------------------------------
(* Time and failures. *)

\* The wall clock enters the last WARN_SECONDS, then passes the deadline.
Tick ==
  /\ exists /\ room.deadline = "set"
  /\ \/ clock = "early" /\ clock' = "soon"
     \/ clock = "soon" /\ clock' = "passed"
  /\ UNCHANGED <<exists, room, messages, seats, files, lock, req, sweep, msgOld,
                 polled, cursor, told, sent, crashes>>

\* stall_notify_secs go by: the newest message, or a poll, is old now.
Quiet ==
  /\ "quiet" \in Ops /\ exists
  /\ \/ Seqs # {} /\ ~msgOld /\ msgOld' = TRUE /\ polled' = polled
     \/ \E m \in Members : /\ polled[m] = "recent"
                           /\ polled' = [polled EXCEPT ![m] = "old"]
                           /\ msgOld' = msgOld
  /\ UNCHANGED <<exists, room, messages, seats, files, lock, req, sweep, clock,
                 cursor, told, sent, crashes>>

\* Mutant: the failed transaction is not rolled back and keeps its lock.
Fail_LeaksLock(t) ==
  /\ crashes < MaxCrashes
  /\ req[t] # Idle
  /\ req' = [req EXCEPT ![t] = Idle]
  /\ crashes' = crashes + 1
  /\ UNCHANGED <<rows, lock, sweep, clock, polled, cursor, told, sent>>

\* One transaction fails (a lost connection, a cancelled request): rolled
\* back, its lock released.  run_sweeper and the per-room handlers of
\* sweep_once go on with the next step.
Fail(t) ==
  /\ crashes < MaxCrashes
  /\ req[t] # Idle
  /\ req' = [req EXCEPT ![t] = Idle]
  /\ lock' = IF lock = t THEN None ELSE lock
  /\ crashes' = crashes + 1
  /\ UNCHANGED <<rows, sweep, clock, polled, cursor, told, sent>>

\* The process restarts: every request is gone, every transaction rolled
\* back, and the lifespan starts the sweeper afresh.
Crash ==
  /\ crashes < MaxCrashes
  /\ req' = [t \in Threads |-> Idle]
  /\ lock' = None
  /\ sweep' = "close"
  /\ crashes' = crashes + 1
  /\ UNCHANGED <<rows, clock, polled, cursor, told, sent>>

----------------------------------------------------------------------------
(* The specification. *)

Arrive(t) ==
  \/ PostPrecheck(t) \/ PostNotOpened(t) \/ OwnerRequest(t)
  \/ AttachRequest(t) \/ DetachRequest(t) \/ PollStart(t)

Locked(t) ==
  \/ PostCommit(t) \/ PostRefused(t) \/ NotOpen(t) \/ CloseRoom(t)
  \/ DeleteMessage(t) \/ DeleteNothing(t) \/ SwitchMode(t) \/ SetUploads(t)
  \/ SetGate(t) \/ SetSeat(t) \/ DeleteRoom(t) \/ AttachUpload(t)
  \/ AttachFromBrain(t) \/ AttachRefused(t) \/ Announce(t) \/ AnnounceFailed(t)
  \/ PingOpen(t) \/ FindStall(t) \/ PingStall(t) \/ Nudge(t)

Unlocked(t) ==
  LockGone(t) \/ Notify(t) \/ MarkWorking(t) \/ PollReadRoom(t) \/ PollReadMessages(t)

Next ==
  \/ \E t \in Clients : Arrive(t)
  \/ \E t \in Threads : Lock(t) \/ Locked(t) \/ Unlocked(t) \/ Fail(t)
  \/ SweepClose \/ SweepWarn
  \/ Tick \/ Quiet \/ Crash

Spec == Init /\ [][Next]_vars

\* A coroutine that can go on does; Postgres serves the waiters of a row in
\* turn, so one that is offered the row again and again gets it; the sweeper
\* loops for ever.  Nothing makes a client send a request, a clock tick fast
\* or a fault happen.
Fairness ==
  /\ \A t \in Threads : /\ WF_vars(Locked(t))
                        /\ WF_vars(Unlocked(t))
                        /\ SF_vars(Lock(t))
  /\ WF_vars(SweepClose) /\ WF_vars(SweepWarn)

FairSpec == Spec /\ Fairness

----------------------------------------------------------------------------
(* Invariants. *)

\* What a request carries at the stages that use it.
WellFormed(r) ==
  /\ r.op = "post" /\ r.stage \in {"checked", "locked"} =>
       /\ r.sender \in Members \cup {Owner}
       /\ r.principal \in Machines \cup {Owner}
       /\ r.arg \in PostKinds
  /\ r.op = "close" /\ r.stage \in {"checked", "locked"} => r.arg \in CloseReasons
  /\ r.op = "ping_stall" /\ r.stage = "checked" => r.arg = None
  /\ r.stage \in {"marking", "reading", "read"} => r.sender \in Members
  /\ r.stage = "read" => r.snap \in RoomRow

\* Every variable keeps the shape of the rows and requests it stands for.
TypeOK ==
  /\ exists \in BOOLEAN
  /\ room \in RoomRow
  /\ Seqs \subseteq Nat \ {0} /\ IsFiniteSet(Seqs)
  /\ messages \in [Seqs -> MessageRow]
  /\ seats \in [Members -> Machines \cup {None}]
  /\ files \in Nat
  /\ lock \in Threads \cup {None}
  /\ req \in [Threads -> Request]
  /\ \A t \in Threads : WellFormed(req[t])
  /\ sweep \in {"close", "warn"}
  /\ clock \in {"early", "soon", "passed"}
  /\ msgOld \in BOOLEAN
  /\ polled \in [Members -> {"never", "recent", "old"}]
  /\ cursor \in [Members -> Nat]
  /\ told \in [Members -> {"open", "closed", "gone", None}]
  /\ sent \in [PingKinds -> Nat]
  /\ crashes \in 0..MaxCrashes

\* What a handler holds under the row lock is the truth until it commits: it
\* alone holds the row, its ORM object equals the row and the seq it read is
\* still the next one, so the IntegrityError retry of post_message is never
\* taken ("should no longer fire", post_message).
LockedSnapshotIsCurrent ==
  \A t \in Threads : req[t].stage = "locked" =>
    lock = t /\ exists /\ req[t].snap = room /\ req[t].seq = NextSeq

\* message_count, which drives the cap and the consensus floor, is the number
\* of messages not tombstoned, whatever posts, deletions, announcements and
\* failures ran.
CountIsLive == exists => room.message_count = Cardinality(Live)

\* The hard cap is never overrun: at most max_messages live posts, and fewer
\* while the room is open.
CapHolds ==
  /\ Cardinality(Live \cap Posts) <= MaxMessages
  /\ exists /\ room.status = "open" => Cardinality(Live \cap Posts) < MaxMessages

\* The owner gets each sort of ping at most once per room, whoever races for
\* the close or the reminder.
PingedAtMostOnce == \A p \in PingKinds : sent[p] <= 1

\* The transcript has at most one closing nudge.
NudgedAtMostOnce ==
  Cardinality({s \in Seqs : messages[s].about = "nudge"}) <= 1

\* A member's "done" in a debate or critique room comes after consensus_floor
\* messages and after an objection of every member (tombstoned or not).
AgreedCloseIsEarned ==
  \A s \in AgentPosts :
    exists /\ messages[s].kind = "done" /\ room.mode \in GatedModes =>
      /\ Cardinality({u \in Seqs : u < s}) >= ConsensusFloor
      /\ \A m \in Members :
           \E u \in Seqs : u < s /\ messages[u].sender = m
                           /\ messages[u].kind = "objection"

\* No agent speaks before the owner has posted or has lifted the gate.
AgentsWaitForOwner ==
  \A s \in AgentPosts :
    \E u \in Seqs : u < s /\ (messages[u].sender = Owner
                              \/ messages[u].about = "gate_off")

\* A relative deadline is pending only as long as the room waits for its
\* owner: whichever way it is released, the timer runs from then on, and a
\* gate raised again does not stop it.
DeferredOnlyWhileWaiting == room.deadline = "deferred" => Waiting(room)

\* Two machines never speak as the same member unless the transcript says, in
\* between, that the seat changed hands.
SeatHandoverIsAnnounced ==
  \A s, u \in AgentPosts :
    /\ s < u
    /\ messages[s].sender = messages[u].sender
    /\ messages[s].principal \in Machines /\ messages[u].principal \in Machines
    /\ messages[s].principal # messages[u].principal
    => \E w \in Seqs : s < w /\ w < u /\ messages[w].about = messages[s].sender

\* An agent told that the room is closed has been given every post: the room
\* row is read before the messages, so the last word cannot slip in between.
ClosedPollIsComplete ==
  \A m \in Members : told[m] = "closed" => \A s \in Posts : s <= cursor[m]

\* The transcript is numbered 1, 2, 3, ... without a gap: tombstones keep
\* their number and no number is given twice.
GaplessTranscript == Seqs = 1 .. Cardinality(Seqs)

----------------------------------------------------------------------------
(* Action properties. *)

\* The first closer wins: its reason is never overwritten, nothing reopens.
CloseIsFinal ==
  [][room.status = "closed" =>
       room'.status = "closed" /\ room'.close_reason = room.close_reason]_vars

\* Once closed, the transcript only gains notices about files.
ClosedTranscriptFrozen ==
  [][room.status = "closed" =>
       \A s \in DOMAIN messages' \ Seqs : messages'[s].about = "file"]_vars

\* A message never appears at or below the cursor of a polling agent, which
\* would then never be given it.
NothingAppearsBehindACursor ==
  [][\A s \in DOMAIN messages' \ Seqs : \A m \in Members : cursor[m] < s]_vars

\* A poll decides to ping from what it read without a lock.  The reminder's
\* guard is only set while the room is open and waiting.  The alarm's guard is
\* only set in an open, opened room whose newest message is still old, by a
\* handler that found the room stalled under the lock; from there to its commit
\* nothing it went by changes except the members' leases, which are written
\* without the lock.
PingsAreNotStale ==
  [][/\ ~room.reminded /\ room'.reminded => room.status = "open" /\ Waiting(room)
     /\ ~room.stall_sent /\ room'.stall_sent =>
          /\ room.status = "open" /\ room.opened /\ NewestIsOld
          /\ \E t \in Threads : FoundStalled(t)
     /\ \A t \in Threads : FoundStalled(t)' =>
          /\ FoundStalled(t) \/ Stalled
          /\ UNCHANGED <<exists, room, messages, seats>>]_vars

----------------------------------------------------------------------------
(* Liveness, under FairSpec. *)

\* A room past its deadline is closed, in spite of clients that compete for
\* its row, and of a failed sweep.
ExpiredRoomCloses ==
  (exists /\ room.status = "open" /\ room.deadline = "set" /\ clock = "passed")
    ~> (~exists \/ room.status = "closed")

\* Every request ends: no handler waits for ever for the row.
RequestsComplete ==
  \A t \in Clients : (req[t] # Idle) ~> (req[t] = Idle)

----------------------------------------------------------------------------
(* The room implements a serial transcript. *)

Transcript == [s \in 1 .. Cardinality(Seqs) |->
                 [sender |-> messages[s].sender, deleted |-> messages[s].deleted]]

Log == INSTANCE RoomLog WITH
         Speakers <- Members \cup {Owner}, System <- System,
         MaxMessages <- MaxMessages, present <- exists, status <- room.status,
         log <- Transcript

\* Every commit of every handler, in whatever order they interleave, is one
\* step of the serial room: posts only extend an open room and close it at the
\* cap of live messages, notices only extend, tombstones keep their place.
ImplementsRoomLog == Log!LogSpec

============================================================================
