-------------------------- MODULE TranscriptProofs --------------------------
(***************************************************************************)
(* What the transcript of a room means, for every set of members, machines *)
(* and clients: proofs on top of the inductive invariant of RoomsProofs.   *)
(*                                                                         *)
(* Seen from the database, every step of Rooms is one of five commits: a   *)
(* post, a notice, a tombstone, the deletion of the room, or a change of   *)
(* the room row and the seats that writes no message.  StepKinds proves    *)
(* this once; each result below then looks at five cases, not at thirty    *)
(* actions.                                                                *)
(***************************************************************************)
EXTENDS RoomsProofs, SequenceTheorems

Adds(row) ==
  messages' = [s \in Seqs \cup {NextSeq} |-> IF s = NextSeq THEN row ELSE messages[s]]

Message(sender, principal, kind) ==
  [sender |-> sender, principal |-> principal, kind |-> kind, about |-> None,
   deleted |-> FALSE]

\* A post: into an open room, past the agreement gate and the seat check.
Said(sender, principal, kind) ==
  /\ exists /\ exists' = exists /\ room.status = "open"
  /\ sender \in Members \cup {Owner} /\ principal \in Machines \cup {Owner}
  /\ kind \in PostKinds
  /\ ~GateRefuses(room, sender, kind) /\ ~SeatRefuses(sender, principal)
  /\ Adds(Message(sender, principal, kind))
  /\ BindSeat(sender, principal)
  /\ room' = PostedRow(room, sender, kind)

Tags == {"nudge", "mode", "uploads", "gate_on", "gate_off", "file"}

\* A notice: a closed room gets only those about files; each flag moves only
\* with the notice that says so.
Noticed(about) ==
  /\ exists /\ exists' = exists
  /\ room.status = "open" \/ about = "file"
  /\ Adds(SystemRow(about))
  /\ \A m \in Members : seats'[m] # seats[m] => about = m
  /\ room'.status = room.status
  /\ room'.message_count = room.message_count + 1
  /\ room'.opened = room.opened
  /\ room'.reminded = room.reminded /\ room'.stall_sent = room.stall_sent
  /\ room'.mode # room.mode => room.status = "open"
  /\ room'.warned = (room.warned \/ about = "nudge")
  /\ about = "nudge" => ~room.warned
  /\ room.requires_owner_open /\ ~room'.requires_owner_open => about = "gate_off"
  /\ room'.deadline = "deferred" =>
       room.deadline = "deferred" /\ (Waiting(room) => Waiting(room'))

\* A tombstone: the content goes, the row stays.
Tombstoned(s) ==
  /\ exists /\ UNCHANGED <<exists, seats>>
  /\ s \in Seqs /\ ~messages[s].deleted
  /\ messages' = [messages EXCEPT ![s].deleted = TRUE]
  /\ \E count \in Nat : room' = [room EXCEPT !.message_count = count]

Removed ==
  /\ exists /\ ~exists' /\ room' = room
  /\ messages' = [s \in {} |-> None]

\* Anything else that commits: a close, a flag, a claimed seat.
Marked ==
  /\ UNCHANGED <<exists, messages>>
  /\ room' # room => exists
  /\ \/ room'.status = room.status
     \/ room.status = "open" /\ room'.status = "closed"
  /\ room'.message_count = room.message_count
  /\ room'.opened = room.opened /\ room'.mode = room.mode
  /\ room'.warned = room.warned
  /\ room'.requires_owner_open = room.requires_owner_open
  /\ room'.deadline = room.deadline
  /\ \A m \in Members : seats'[m] # seats[m] => seats[m] = None
  /\ ~room.stall_sent /\ room'.stall_sent => \E t \in Threads : PingStall(t)
  /\ ~room.reminded /\ room'.reminded => room.status = "open" /\ Waiting(room)
  /\ room.stall_sent => room'.stall_sent
  /\ room.reminded => room'.reminded

----------------------------------------------------------------------------
(* Every step is one of these. *)

\* A step that leaves the row of the room alone sets none of its flags.
LEMMA SameRow ==
  ASSUME IInv, UNCHANGED <<exists, messages, room>>,
         \A m \in Members : seats'[m] # seats[m] => seats[m] = None
  PROVE  Marked
<1>1. /\ room'.stall_sent = room.stall_sent /\ room'.reminded = room.reminded
      /\ room'.status = room.status /\ room'.message_count = room.message_count
      /\ room'.opened = room.opened /\ room'.mode = room.mode
      /\ room'.warned = room.warned /\ room'.deadline = room.deadline
      /\ room'.requires_owner_open = room.requires_owner_open
  OBVIOUS
<1>2. /\ ~(~room.stall_sent /\ room'.stall_sent) /\ ~(~room.reminded /\ room'.reminded)
      /\ (room.stall_sent => room'.stall_sent) /\ (room.reminded => room'.reminded)
  BY <1>1 DEF IInv, TypeOK, RoomRow
<1> QED
  BY <1>1, <1>2, Zenon DEF Marked

\* A step that leaves the rows alone marks nothing.
LEMMA MarksNothing ==
  ASSUME IInv, UNCHANGED <<exists, room, messages, seats>>
  PROVE  Marked
BY SameRow

\* Under the row lock, Insert adds the row at the next number.
LEMMA InsertAdds ==
  ASSUME IInv, NEW t \in Threads, req[t].stage = "locked", NEW row, Insert(t, row)
  PROVE  Adds(row)
<1>1. req[t].seq = NextSeq
  BY DEF IInv, LockedSnapshotIsCurrent
<1> QED
  BY <1>1 DEF Insert, Adds

\* post_message.
LEMMA PostKindOfStep ==
  ASSUME IInv, NEW t \in Threads, PostCommit(t)
  PROVE  Said(req[t].sender, req[t].principal, req[t].arg)
<1> DEFINE r == req[t]
<1>1. r.stage = "locked" /\ r.op = "post" /\ r.snap.status = "open"
  BY DEF PostCommit, Holds
<1>2. r.snap = room /\ exists /\ WellFormed(r)
  BY <1>1, Holder
<1>3. Adds(Message(r.sender, r.principal, r.arg))
  <2>1. Insert(t, Message(r.sender, r.principal, r.arg))
    BY DEF PostCommit, Message
  <2> QED
    BY <1>1, <2>1, InsertAdds
<1>4. /\ r.sender \in Members \cup {Owner} /\ r.principal \in Machines \cup {Owner}
      /\ r.arg \in PostKinds
  BY <1>1, <1>2 DEF WellFormed
<1> QED
  BY <1>1, <1>2, <1>3, <1>4 DEF PostCommit, Said

\* The commits that write a notice.
LEMMA NoticeKinds ==
  ASSUME IInv, NEW t \in Threads,
         \/ SwitchMode(t) \/ SetUploads(t) \/ SetGate(t) \/ SetSeat(t)
         \/ Announce(t) \/ Nudge(t)
  PROVE  Marked \/ \E about \in Tags \cup Members : Noticed(about)
<1> DEFINE r == req[t]
<1>0. r.stage = "locked"
  BY DEF SwitchMode, SetUploads, SetGate, SetSeat, Announce, Nudge, Holds
<1>1. r.snap = room /\ room \in RoomRow /\ exists /\ TypeOK
  BY <1>0, Holder
<1>2. seats \in [Members -> Machines \cup {None}]
  BY <1>1 DEF TypeOK
<1> USE DEF Tags
<1>3. CASE SwitchMode(t)
  <2>1. PICK mode \in Modes :
          \/ UNCHANGED <<room, messages, msgOld>>
          \/ /\ room' = Announced([room EXCEPT !.mode = mode])
             /\ Insert(t, SystemRow("mode"))
    BY <1>1, <1>3 DEF SwitchMode
  <2>2. room.status = "open" /\ UNCHANGED <<exists, seats>>
    BY <1>1, <1>3 DEF SwitchMode
  <2>3. CASE UNCHANGED <<room, messages, msgOld>>
    BY <2>2, <2>3, MarksNothing
  <2>4. CASE /\ room' = Announced([room EXCEPT !.mode = mode])
             /\ Insert(t, SystemRow("mode"))
    <3>1. Noticed("mode")
      BY <1>0, <1>1, <2>2, <2>4, InsertAdds DEF Noticed, Announced, RoomRow, Waiting
    <3> QED
      BY <3>1
  <2> QED
    BY <2>1, <2>3, <2>4
<1>4. CASE SetUploads(t)
  <2>1. PICK allowed \in BOOLEAN :
          room' = Announced([room EXCEPT !.agent_uploads_allowed = allowed])
    BY <1>1, <1>4 DEF SetUploads
  <2>2. /\ room.status = "open" /\ UNCHANGED <<exists, seats>>
        /\ Insert(t, SystemRow("uploads"))
    BY <1>1, <1>4 DEF SetUploads
  <2>3. Noticed("uploads")
    BY <1>0, <1>1, <2>1, <2>2, InsertAdds DEF Noticed, Announced, RoomRow, Waiting
  <2> QED
    BY <2>3
<1>5. CASE SetGate(t)
  <2>1. PICK required \in BOOLEAN :
          /\ room' = Announced(
               [room EXCEPT
                  !.requires_owner_open = required,
                  !.deadline = IF @ = "deferred" /\ ~required /\ Waiting(room)
                               THEN "set" ELSE @])
          /\ Insert(t, SystemRow(IF required THEN "gate_on" ELSE "gate_off"))
    BY <1>1, <1>5 DEF SetGate
  <2>2. room.status = "open" /\ UNCHANGED <<exists, seats>>
    BY <1>1, <1>5 DEF SetGate
  <2> DEFINE deadline == IF room.deadline = "deferred" /\ ~required /\ Waiting(room)
                         THEN "set" ELSE room.deadline
             about == IF required THEN "gate_on" ELSE "gate_off"
  <2>3. /\ room' = Announced([room EXCEPT !.requires_owner_open = required,
                                          !.deadline = deadline])
        /\ Insert(t, SystemRow(about))
    BY <2>1
  <2>4. /\ about \in {"gate_on", "gate_off"} /\ (~required => about = "gate_off")
        /\ deadline = "deferred" => room.deadline = "deferred" /\ (Waiting(room) => required)
    OBVIOUS
  <2> HIDE DEF deadline, about
  <2>5. Noticed(about)
    BY <1>0, <1>1, <2>2, <2>3, <2>4, InsertAdds DEF Noticed, Announced, RoomRow, Waiting
  <2> QED
    BY <2>4, <2>5
<1>6. CASE SetSeat(t)
  <2>1. PICK m \in Members, machine \in Machines \cup {None} :
          seats' = [seats EXCEPT ![m] = machine] /\ Insert(t, SystemRow(m))
    BY <1>6 DEF SetSeat
  <2>2. /\ room.status = "open" /\ UNCHANGED exists /\ room' = Announced(room)
        /\ \A x \in Members : seats'[x] # seats[x] => m = x
    BY <1>1, <1>2, <1>6, <2>1 DEF SetSeat
  <2>3. m # "nudge"
    BY ConstantsAssumption
  <2>4. Noticed(m)
    BY <1>0, <1>1, <2>1, <2>2, <2>3, InsertAdds DEF Noticed, Announced, RoomRow, Waiting
  <2> QED
    BY <2>4
<1>7. CASE Announce(t)
  <2>1. /\ UNCHANGED <<exists, seats>> /\ room' = Announced(room)
        /\ Insert(t, SystemRow("file"))
    BY <1>1, <1>7 DEF Announce
  <2>2. Noticed("file")
    BY <1>0, <1>1, <2>1, InsertAdds DEF Noticed, Announced, RoomRow, Waiting
  <2> QED
    BY <2>2
<1>8. CASE Nudge(t)
  <2>1. room.status = "open" /\ UNCHANGED <<exists, seats>>
    BY <1>1, <1>8 DEF Nudge
  <2>2. CASE room.warned
    BY <1>1, <1>8, <2>1, <2>2, MarksNothing DEF Nudge
  <2>3. CASE ~room.warned
    <3>1. /\ Insert(t, SystemRow("nudge"))
          /\ room' = Announced([room EXCEPT !.warned = TRUE])
      BY <1>1, <1>8, <2>3 DEF Nudge
    <3>2. Noticed("nudge")
      BY <1>0, <1>1, <2>1, <2>3, <3>1, InsertAdds DEF Noticed, Announced, RoomRow, Waiting
    <3> QED
      BY <3>2
  <2> QED
    BY <2>2, <2>3
<1> QED
  BY <1>3, <1>4, <1>5, <1>6, <1>7, <1>8

\* The other commits under the row lock.
LEMMA RowKinds ==
  ASSUME IInv, NEW t \in Threads,
         \/ CloseRoom(t) \/ AttachUpload(t) \/ AttachFromBrain(t)
         \/ PingOpen(t) \/ FindStall(t) \/ PingStall(t)
         \/ PostRefused(t) \/ NotOpen(t) \/ DeleteNothing(t)
         \/ AttachRefused(t) \/ AnnounceFailed(t)
  PROVE  Marked
<1> DEFINE r == req[t]
<1>0. r.stage = "locked"
  BY DEF CloseRoom, AttachUpload, AttachFromBrain, PingOpen, FindStall, PingStall,
     FoundStalled, PostRefused, NotOpen, DeleteNothing, AttachRefused, AnnounceFailed,
     Holds
<1>1. r.snap = room /\ room \in RoomRow /\ exists /\ TypeOK
  BY <1>0, Holder
<1>2. seats \in [Members -> Machines \cup {None}]
  BY <1>1 DEF TypeOK
<1>3. CASE CloseRoom(t)
  <2>1. UNCHANGED <<exists, messages, seats>>
    BY <1>3 DEF CloseRoom
  <2>2. CASE room.status = "closed"
    BY <1>1, <1>3, <2>1, <2>2, MarksNothing DEF CloseRoom
  <2>3. CASE room.status # "closed"
    <3>1. room' = [room EXCEPT !.status = "closed", !.close_reason = r.arg]
      BY <1>1, <1>3, <2>3 DEF CloseRoom
    <3> QED
      BY <1>1, <2>1, <2>3, <3>1 DEF Marked, RoomRow
  <2> QED
    BY <2>2, <2>3
<1>4. CASE AttachUpload(t) \/ AttachFromBrain(t)
  <2>1. AddReference(t)
    BY <1>4 DEF AttachUpload, AttachFromBrain
  <2>2. \A m \in Members : seats'[m] # seats[m] => seats[m] = None
    BY <1>2, <2>1 DEF AddReference, BindSeat, SeatRefuses, Seated
  <2> QED
    BY <2>1, <2>2, SameRow DEF AddReference
<1>5. CASE PingOpen(t)
  <2>1. UNCHANGED <<exists, messages, seats>>
    BY <1>5 DEF PingOpen
  <2>2. \/ room' = room
        \/ /\ room.status = "open" /\ Waiting(room)
           /\ room' = [room EXCEPT !.reminded = TRUE]
    BY <1>1, <1>5 DEF PingOpen
  <2>3. CASE room' = room
    BY <2>1, <2>3, MarksNothing
  <2>4. CASE /\ room.status = "open" /\ Waiting(room)
             /\ room' = [room EXCEPT !.reminded = TRUE]
    <3>1. /\ room'.stall_sent = room.stall_sent
          /\ room'.status = room.status /\ room'.message_count = room.message_count
          /\ room'.opened = room.opened /\ room'.mode = room.mode
          /\ room'.warned = room.warned /\ room'.deadline = room.deadline
          /\ room'.requires_owner_open = room.requires_owner_open
      BY <1>1, <2>4 DEF RoomRow
    <3>2. /\ ~(~room.stall_sent /\ room'.stall_sent)
          /\ (room.stall_sent => room'.stall_sent) /\ room'.reminded
      BY <1>1, <2>4, <3>1 DEF RoomRow
    <3> QED
      BY <1>1, <2>1, <2>4, <3>1, <3>2, Zenon DEF Marked
  <2> QED
    BY <2>2, <2>3, <2>4
<1>6. CASE PingStall(t)
  <2>1. UNCHANGED <<exists, messages, seats>> /\ room' = [room EXCEPT !.stall_sent = TRUE]
    BY <1>1, <1>6 DEF PingStall
  <2>2. /\ room'.reminded = room.reminded
        /\ room'.status = room.status /\ room'.message_count = room.message_count
        /\ room'.opened = room.opened /\ room'.mode = room.mode
        /\ room'.warned = room.warned /\ room'.deadline = room.deadline
        /\ room'.requires_owner_open = room.requires_owner_open
    BY <1>1, <2>1 DEF RoomRow
  <2>3. /\ ~(~room.reminded /\ room'.reminded)
        /\ (room.reminded => room'.reminded) /\ room'.stall_sent
    BY <1>1, <2>1, <2>2 DEF RoomRow
  <2> QED
    BY <1>1, <1>6, <2>1, <2>2, <2>3, Zenon DEF Marked
<1>7. CASE \/ PostRefused(t) \/ NotOpen(t) \/ DeleteNothing(t)
           \/ AttachRefused(t) \/ AnnounceFailed(t) \/ FindStall(t)
  BY <1>7, MarksNothing DEF PostRefused, NotOpen, DeleteNothing, AttachRefused,
     AnnounceFailed, FindStall, rows
<1> QED
  BY <1>3, <1>4, <1>5, <1>6, <1>7

\* delete_message: a tombstone, or nothing when there is one already.
LEMMA TombstoneKind ==
  ASSUME IInv, NEW t \in Threads, DeleteMessage(t)
  PROVE  Marked \/ \E s \in Seqs : Tombstoned(s)
<1> DEFINE r == req[t]
           count == IF room.message_count > 0 THEN room.message_count - 1 ELSE 0
<1>1. r.snap = room /\ room \in RoomRow /\ exists /\ UNCHANGED <<exists, seats>>
  BY Holder DEF DeleteMessage, Holds
<1>2. PICK s \in Seqs :
        IF messages[s].deleted THEN UNCHANGED <<room, messages>>
        ELSE /\ messages' = [messages EXCEPT ![s].deleted = TRUE]
             /\ room' = [room EXCEPT !.message_count = count]
  BY <1>1 DEF DeleteMessage
<1>3. count \in Nat
  BY <1>1 DEF RoomRow
<1> HIDE DEF count
<1>4. CASE messages[s].deleted
  BY <1>1, <1>2, <1>4, MarksNothing
<1>5. CASE ~messages[s].deleted
  <2>1. Tombstoned(s)
    BY <1>1, <1>2, <1>3, <1>5 DEF Tombstoned
  <2> QED
    BY <2>1
<1> QED
  BY <1>4, <1>5

\* Messages do not get younger but by a new one.
Ages == msgOld => msgOld'

\* The steps that do not hold the row leave the rows of the room alone.
LEMMA OutsideTheLock ==
  ASSUME \/ \E t \in Clients : Arrive(t)
         \/ \E t \in Threads : Lock(t) \/ Unlocked(t) \/ Fail(t)
         \/ SweepClose \/ SweepWarn \/ Tick \/ Quiet \/ Crash \/ UNCHANGED vars
  PROVE  UNCHANGED <<exists, room, messages, seats>> /\ Ages
<1> USE DEF rows, outside
<1>1. ASSUME NEW t \in Clients, Arrive(t)
      PROVE  UNCHANGED <<exists, room, messages, seats, msgOld>>
  BY <1>1 DEF Arrive, PostPrecheck, PostNotOpened, OwnerRequest, AttachRequest,
     DetachRequest, PollStart
<1>2. ASSUME NEW t \in Threads, Lock(t) \/ Unlocked(t) \/ Fail(t)
      PROVE  UNCHANGED <<exists, room, messages, seats, msgOld>>
  BY <1>2 DEF Lock, Unlocked, LockGone, Notify, MarkWorking, PollReadRoom,
     PollReadMessages, Fail
<1>3. ASSUME SweepClose \/ SweepWarn \/ Tick \/ Quiet \/ Crash \/ UNCHANGED vars
      PROVE  UNCHANGED <<exists, room, messages, seats>> /\ Ages
  BY <1>3 DEF SweepClose, SweepWarn, Tick, Quiet, Crash, vars, Ages
<1> QED
  BY <1>1, <1>2, <1>3 DEF Ages

\* Nobody finds a room stalled but under its lock.
LEMMA NoVerdictOutside ==
  ASSUME IInv, NEW t \in Threads, FoundStalled(t)',
         \/ \E u \in Clients : Arrive(u)
         \/ \E u \in Threads : Lock(u) \/ Unlocked(u) \/ Fail(u)
         \/ SweepClose \/ SweepWarn \/ Tick \/ Quiet \/ Crash \/ UNCHANGED vars
  PROVE  FoundStalled(t)
<1>0. /\ req \in [Threads -> Request] /\ \A u \in Threads : req[u] \in Request
      /\ \A u \in Threads : WellFormed(req[u])
      /\ None # "stalled" /\ Sweeper \in Threads /\ Clients \subseteq Threads
  BY ConstantsAssumption DEF IInv, TypeOK, Threads
<1>1. /\ req'[t].stage = "locked" /\ req'[t].op = "ping_stall"
      /\ req'[t].arg = "stalled"
  BY DEF FoundStalled, Holds
<1>2. ASSUME NEW u \in Threads, NEW next, next.stage # "locked",
             req' = [req EXCEPT ![u] = next]
      PROVE  FoundStalled(t)
  BY <1>0, <1>1, <1>2 DEF FoundStalled, Holds
<1>3. ASSUME req' = req PROVE FoundStalled(t)
  BY <1>1, <1>3 DEF FoundStalled, Holds
<1>4. ASSUME NEW u \in Threads, NEW op, NEW sender, NEW principal, NEW arg,
             Start(u, op, sender, principal, arg)
      PROVE  FoundStalled(t)
  BY <1>0, <1>1, <1>4 DEF Start, Idle, FoundStalled, Holds
<1>5. Idle.stage # "locked"
  BY DEF Idle
<1>6. ASSUME NEW u \in Clients, Arrive(u) PROVE FoundStalled(t)
  <2>0. u \in Threads
    BY <1>0
  <2>1. CASE PollStart(u)
    <3>1. \E m, principal : \E stage \in {"marking", "reading"} :
            req' = [req EXCEPT ![u] = [Idle EXCEPT !.op = "poll", !.sender = m,
                                         !.principal = principal, !.stage = stage]]
      <4>1. PICK m \in Pollers, principal \in Machines \cup {None} :
              LET marks == exists /\ principal # None /\ seats[m] \in {None, principal}
              IN  req' = [req EXCEPT ![u] =
                            [Idle EXCEPT !.op = "poll", !.sender = m,
                                         !.principal = IF marks THEN principal ELSE None,
                                         !.stage = IF marks THEN "marking" ELSE "reading"]]
        BY <2>1 DEF PollStart
      <4> QED
        BY <4>1
    <3>2. PICK m, principal : \E stage \in {"marking", "reading"} :
            req' = [req EXCEPT ![u] = [Idle EXCEPT !.op = "poll", !.sender = m,
                                         !.principal = principal, !.stage = stage]]
      BY <3>1
    <3>3. PICK stage \in {"marking", "reading"} :
            req' = [req EXCEPT ![u] = [Idle EXCEPT !.op = "poll", !.sender = m,
                                         !.principal = principal, !.stage = stage]]
      BY <3>2
    <3> DEFINE next == [Idle EXCEPT !.op = "poll", !.sender = m,
                                    !.principal = principal, !.stage = stage]
    <3>4. next.stage # "locked" /\ req' = [req EXCEPT ![u] = next]
      BY <3>3 DEF Idle
    <3> HIDE DEF next
    <3> QED
      BY <1>2, <2>0, <3>4
  <2>2. CASE ~PollStart(u)
    <3>1. \E op, sender, principal, arg : Start(u, op, sender, principal, arg)
      BY <1>6, <2>2 DEF Arrive, PostPrecheck, PostNotOpened, OwnerRequest,
         AttachRequest, DetachRequest
    <3> QED
      BY <1>4, <2>0, <3>1
  <2> QED
    BY <2>1, <2>2
<1>7. ASSUME NEW u \in Threads, Lock(u) PROVE FoundStalled(t)
  <2>1. /\ req' = [req EXCEPT ![u].stage = "locked", ![u].snap = room, ![u].seq = NextSeq]
        /\ req[u].stage = "checked" /\ req[u] \in Request /\ WellFormed(req[u])
    BY <1>0, <1>7 DEF Lock
  <2>2. CASE t = u
    <3>1. req[u].op = "ping_stall" /\ req[u].arg = "stalled"
      BY <1>0, <1>1, <2>1, <2>2 DEF Request
    <3> QED
      BY <1>0, <2>1, <3>1 DEF WellFormed
  <2>3. CASE t # u
    BY <1>0, <1>1, <2>1, <2>3 DEF FoundStalled, Holds
  <2> QED
    BY <2>2, <2>3
<1>8. ASSUME NEW u \in Threads, Unlocked(u) \/ Fail(u) PROVE FoundStalled(t)
  <2>1. CASE LockGone(u) \/ Notify(u) \/ Fail(u)
    BY <1>2, <1>5, <2>1 DEF LockGone, Notify, Fail
  <2>2. CASE MarkWorking(u) \/ PollReadRoom(u)
    <3>1. req[u] \in Request
      BY <1>0
    <3>2. \/ req' = [req EXCEPT ![u] = Idle]
          \/ req' = [req EXCEPT ![u].stage = "reading", ![u].principal = None]
          \/ req' = [req EXCEPT ![u].stage = "read", ![u].snap = room]
      BY <2>2 DEF MarkWorking, PollReadRoom
    <3> QED
      BY <1>0, <1>1, <1>2, <1>5, <3>1, <3>2 DEF Request, FoundStalled, Holds
  <2>3. CASE PollReadMessages(u)
    <3>1. \/ req' = [req EXCEPT ![u] = Idle]
          \/ \E op \in {"ping_open", "ping_stall"} :
               req' = [req EXCEPT ![u] =
                         [Idle EXCEPT !.op = op, !.stage = "checked",
                                      !.sender = req[u].sender]]
      BY <2>3 DEF PollReadMessages
    <3> QED
      BY <1>0, <1>1, <1>2, <1>5, <3>1 DEF Idle, FoundStalled, Holds
  <2> QED
    BY <1>8, <2>1, <2>2, <2>3 DEF Unlocked
<1>9. CASE SweepClose \/ SweepWarn
  <2>1. req' = req \/ \E op, arg : Start(Sweeper, op, None, None, arg)
    BY <1>9 DEF SweepClose, SweepWarn
  <2> QED
    BY <1>0, <1>3, <1>4, <2>1
<1>10. CASE Tick \/ Quiet \/ UNCHANGED vars
  BY <1>3, <1>10 DEF Tick, Quiet, vars
<1>11. CASE Crash
  BY <1>1, <1>5, <1>11 DEF Crash
<1> QED
  BY <1>6, <1>7, <1>8, <1>9, <1>10, <1>11

\* A handler under the row lock ends there, unless it goes on to sound the alarm.
LEMMA LockedLetsGo ==
  ASSUME NEW u \in Threads, Locked(u)
  PROVE  \/ Finish(u) \/ FinishAnnounce(u) \/ FinishNotify(u)
         \/ FindStall(u) /\ req' = [req EXCEPT ![u].arg = "stalled"]
<1>1. CASE \/ PostCommit(u) \/ CloseRoom(u) \/ PingOpen(u) \/ FindStall(u)
           \/ PingStall(u) \/ Nudge(u)
  BY <1>1 DEF PostCommit, CloseRoom, PingOpen, FindStall, PingStall, Nudge
<1>2. CASE \/ PostRefused(u) \/ NotOpen(u) \/ DeleteMessage(u) \/ DeleteNothing(u)
           \/ DeleteRoom(u) \/ AttachRefused(u) \/ AnnounceFailed(u)
  BY <1>2 DEF PostRefused, NotOpen, DeleteMessage, DeleteNothing, DeleteRoom,
     AttachRefused, AnnounceFailed
<1>3. CASE SwitchMode(u) \/ SetUploads(u) \/ SetGate(u) \/ SetSeat(u)
  BY <1>3 DEF SwitchMode, SetUploads, SetGate, SetSeat
<1>4. CASE AttachUpload(u) \/ AttachFromBrain(u) \/ Announce(u)
  BY <1>4 DEF AttachUpload, AttachFromBrain, AddReference, Announce
<1> QED
  BY <1>1, <1>2, <1>3, <1>4 DEF Locked

\* It holds the row before that.
LEMMA LockedHolds ==
  ASSUME NEW u \in Threads, Locked(u)
  PROVE  req[u].stage = "locked"
BY DEF Locked, Holds, PostCommit, PostRefused, NotOpen, CloseRoom, DeleteMessage,
   DeleteNothing, SwitchMode, SetUploads, SetGate, SetSeat, DeleteRoom, AttachUpload,
   AttachFromBrain, AttachRefused, Announce, AnnounceFailed, PingOpen, FindStall,
   PingStall, FoundStalled, Nudge

\* What any step does to the rows of the room.
LEMMA StepKinds ==
  ASSUME IInv, [Next]_vars
  PROVE  \/ Marked
         \/ \E t \in Threads : PostCommit(t)
         \/ \E about \in Tags \cup Members : Noticed(about)
         \/ \E s \in Seqs : Tombstoned(s)
         \/ Removed
<1>1. CASE \E t \in Threads : Locked(t)
  <2>1. PICK t \in Threads : Locked(t)
    BY <1>1
  <2>2. CASE DeleteRoom(t)
    BY <2>2, Holder DEF DeleteRoom, Removed, Holds
  <2> QED
    BY <2>1, <2>2, NoticeKinds, RowKinds, TombstoneKind DEF Locked
<1>2. CASE ~\E t \in Threads : Locked(t)
  <2>1. UNCHANGED <<exists, room, messages, seats>>
    BY <1>2, OutsideTheLock DEF Next
  <2> QED
    BY <2>1, MarksNothing
<1> QED
  BY <1>1, <1>2

----------------------------------------------------------------------------
(* The room implements the serial transcript of RoomLog. *)

Line == [sender : Members \cup {Owner, System}, deleted : BOOLEAN]

\* The transcript that a table of n messages stands for.
Lines(table, n) == [s \in 1 .. n |->
                      [sender |-> table[s].sender, deleted |-> table[s].deleted]]

\* It is a sequence of n lines.
LEMMA LinesAreASequence ==
  ASSUME NEW n \in Nat, NEW table \in [1 .. n -> MessageRow]
  PROVE  Lines(table, n) \in Seq(Line) /\ Len(Lines(table, n)) = n
<1> DEFINE l == Lines(table, n)
<1>1. ASSUME NEW s \in 1 .. n
      PROVE  [sender |-> table[s].sender, deleted |-> table[s].deleted] \in Line
  <2>1. table[s] \in MessageRow
    OBVIOUS
  <2> QED
    BY <2>1 DEF MessageRow, Line
<1>2. l \in [1 .. n -> Line]
  BY <1>1 DEF Lines
<1> HIDE DEF l
<1>3. l \in Seq(Line)
  BY <1>2, SeqDef
<1>4. Len(l) \in Nat /\ 1 .. Len(l) = 1 .. n
  BY <1>2, <1>3, LenProperties
<1> QED
  BY <1>3, <1>4 DEF l

\* The numbers of a transcript without gaps.
LEMMA Numbers ==
  ASSUME IInv
  PROVE  /\ Cardinality(Seqs) \in Nat /\ Seqs = 1 .. Cardinality(Seqs)
         /\ messages \in [1 .. Cardinality(Seqs) -> MessageRow]
         /\ NextSeq = Cardinality(Seqs) + 1
BY FiniteParts, NextSeqIsFresh DEF IInv, DataInv, GaplessTranscript, TypeOK

\* RoomLog counts as this module does.
LEMMA SameCount ==
  ASSUME NEW S
  PROVE  Log!Cardinality(S) = Cardinality(S)
BY DEF Log!Cardinality, Cardinality

\* What the abstract room counts is the number of live messages.
LEMMA LivesAgree ==
  ASSUME NEW n \in Nat, NEW table, DOMAIN table = 1 .. n
  PROVE  Log!LiveCount(Lines(table, n))
           = Cardinality({s \in DOMAIN table : ~table[s].deleted})
<1> DEFINE S == {i \in DOMAIN Lines(table, n) : ~Lines(table, n)[i].deleted}
<1>1. S = {s \in DOMAIN table : ~table[s].deleted}
  BY DEF Lines
<1>2. Log!LiveCount(Lines(table, n)) = Log!Cardinality(S)
  BY DEF Log!LiveCount
<1> HIDE DEF S
<1> QED
  BY <1>1, <1>2, SameCount

\* A row added at the next number is appended to the transcript.
LEMMA Appended ==
  ASSUME IInv, NEW row \in MessageRow, Adds(row), ~row.deleted,
         Cardinality(Seqs)' = Cardinality(Seqs) + 1
  PROVE  Transcript' = Append(Transcript, Log!Entry(row.sender))
<1> DEFINE n == Cardinality(Seqs)
           e == Log!Entry(row.sender)
           l == Append(Transcript, e)
           k == Transcript'
<1>1. /\ NextSeq = n + 1 /\ n \in Nat /\ Seqs = 1 .. n
      /\ messages \in [1 .. n -> MessageRow]
  BY Numbers
<1>2. Transcript = Lines(messages, n) /\ k = Lines(messages', n + 1)
  BY DEF Transcript, Lines
<1>3. /\ messages' \in [1 .. (n + 1) -> MessageRow]
      /\ messages'[n + 1] = row
      /\ \A s \in 1 .. n : messages'[s] = messages[s]
  <2>1. messages' = [s \in 1 .. (n + 1) |-> IF s = n + 1 THEN row ELSE messages[s]]
    BY <1>1 DEF Adds
  <2> HIDE DEF n
  <2> QED
    BY <1>1, <2>1
<1>4. /\ Transcript \in Seq(Line) /\ Len(Transcript) = n
      /\ k \in Seq(Line) /\ Len(k) = n + 1
  BY <1>1, <1>2, <1>3, LinesAreASequence
<1>5. e \in Line /\ e = [sender |-> row.sender, deleted |-> row.deleted]
  BY DEF Line, Log!Entry, MessageRow
<1>6. /\ l \in Seq(Line) /\ Len(l) = n + 1
      /\ \A i \in 1 .. n : l[i] = Transcript[i]
      /\ l[n + 1] = e
  BY <1>4, <1>5, AppendProperties
<1>7. /\ k[n + 1] = e
      /\ \A i \in 1 .. n : k[i] = Transcript[i]
  BY <1>1, <1>2, <1>3, <1>5 DEF Lines
<1> HIDE DEF l, e, n, k
<1>8. \A i \in 1 .. Len(k) : k[i] = l[i]
  BY <1>1, <1>4, <1>6, <1>7
<1>9. k = l
  BY <1>4, <1>6, <1>8, SeqEqual
<1> QED
  BY <1>9 DEF l, e, k

\* One row more.
LEMMA OneMore ==
  ASSUME IInv, NEW row \in MessageRow, Adds(row)
  PROVE  /\ Cardinality(Seqs)' = Cardinality(Seqs) + 1
         /\ DOMAIN messages' = 1 .. (Cardinality(Seqs) + 1)
<1> DEFINE n == Cardinality(Seqs)
<1>1. n \in Nat /\ Seqs = 1 .. n /\ NextSeq = n + 1 /\ IsFiniteSet(Seqs)
  BY Numbers DEF IInv, TypeOK
<1>2. Seqs' = Seqs \cup {n + 1}
  BY <1>1 DEF Adds, Seqs
<1>3. n + 1 \notin Seqs
  BY <1>1
<1>4. Cardinality(Seqs)' = n + 1
  BY <1>1, <1>2, <1>3, FS_AddElement
<1> HIDE DEF n
<1>5. DOMAIN messages' = 1 .. (n + 1)
  BY <1>1, <1>2 DEF Seqs
<1> QED
  BY <1>4, <1>5 DEF n

\* An empty table is the empty transcript.
LEMMA NoLines ==
  ASSUME NEW table
  PROVE  Lines(table, 0) = <<>>
<1> DEFINE l == Lines(table, 0)
<1>1. l \in [1 .. 0 -> Line] /\ DOMAIN l = 1 .. 0
  BY DEF Lines
<1> HIDE DEF l
<1>2. l \in Seq(Line)
  BY <1>1, SeqDef
<1>3. Len(l) \in Nat /\ 1 .. Len(l) = 1 .. 0
  BY <1>1, <1>2, LenProperties
<1>4. Len(l) = 0
  BY <1>3
<1>5. <<>> \in Seq(Line) /\ Len(<<>>) = 0
  BY EmptySeq
<1>6. \A i \in 1 .. Len(l) : l[i] = <<>>[i]
  BY <1>4
<1>7. l = <<>>
  BY <1>2, <1>4, <1>5, <1>6, SeqEqual
<1> QED
  BY <1>7 DEF l

\* A post says something in the abstract room, and closes it at the cap.
LEMMA PostIsSay ==
  ASSUME IInv, IInv', NEW sender, NEW principal, NEW kind,
         Said(sender, principal, kind)
  PROVE  Log!Say
<1> DEFINE row == Message(sender, principal, kind)
           n == Cardinality(Seqs)
<1>1. row \in MessageRow /\ row.sender = sender /\ ~row.deleted
  BY DEF Said, Message, MessageRow
<1>2. Adds(row) /\ n \in Nat
  BY Numbers DEF Said
<1> HIDE DEF row
<1>3. Cardinality(Seqs)' = n + 1 /\ DOMAIN messages' = 1 .. (n + 1)
  BY <1>1, <1>2, OneMore
<1>4. Transcript' = Append(Transcript, Log!Entry(sender))
  BY <1>1, <1>2, <1>3, Appended
<1>5. Transcript' = Lines(messages', n + 1)
  BY <1>3 DEF Transcript, Lines
<1>6. Log!LiveCount(Transcript') = Cardinality(Live)'
  <2>1. Log!LiveCount(Transcript')
          = Cardinality({s \in DOMAIN messages' : ~messages'[s].deleted})
    BY <1>2, <1>3, <1>5, LivesAgree
  <2> QED
    BY <2>1 DEF Live, Seqs
<1>7. room'.message_count = Cardinality(Live)'
  BY DEF IInv, DataInv, CountIsLive, Said
<1>8. /\ room'.status \in {"open", "closed"}
      /\ room'.message_count = room.message_count + 1
      /\ room'.status = "open" => room.message_count + 1 < MaxMessages
      /\ room.message_count \in Nat
  <2>1. room \in RoomRow /\ room' = PostedRow(room, sender, kind)
    BY DEF IInv, TypeOK, Said
  <2>2. room' \in RoomRow
    BY <2>1, PostedRowTyped
  <2>3. /\ room'.message_count = room.message_count + 1
        /\ room'.status = "open" => room.message_count + 1 < MaxMessages
    BY <2>1, PostedRowTyped
  <2> QED
    BY <2>1, <2>2, <2>3 DEF RoomRow
<1>9. Log!LiveCount(Transcript') >= MaxMessages => room'.status = "closed"
  BY <1>6, <1>7, <1>8, ConstantsAssumption
<1> QED
  BY <1>4, <1>8, <1>9 DEF Said, Log!Say

\* A notice is one in the abstract room.
LEMMA NoticeIsNotice ==
  ASSUME IInv, NEW about \in Tags \cup Members, Noticed(about)
  PROVE  Log!Notice
<1> DEFINE row == SystemRow(about)
<1>1. row \in MessageRow /\ row.sender = System /\ ~row.deleted
  BY DEF SystemRow, MessageRow, Tags
<1>2. Adds(row) /\ exists /\ exists' = exists /\ room'.status = room.status
  BY DEF Noticed
<1> HIDE DEF row
<1>3. Transcript' = Append(Transcript, Log!Entry(System))
  BY <1>1, <1>2, OneMore, Appended
<1> QED
  BY <1>2, <1>3 DEF Log!Notice

\* A tombstone keeps its place.
LEMMA TombstoneIsTombstone ==
  ASSUME IInv, NEW s \in Seqs, Tombstoned(s)
  PROVE  Log!Tombstone
<1>1. messages \in [Seqs -> MessageRow] /\ room \in RoomRow
  BY DEF IInv, TypeOK
<1>2. /\ DOMAIN messages' = Seqs
      /\ \A u \in Seqs : /\ messages'[u].sender = messages[u].sender
                         /\ messages'[u].deleted = IF u = s THEN TRUE ELSE messages[u].deleted
  BY <1>1 DEF Tombstoned, MessageRow
<1>3. Seqs' = Seqs /\ Cardinality(Seqs)' = Cardinality(Seqs)
  BY <1>2 DEF Seqs
<1>4. DOMAIN Transcript = Seqs /\ ~Transcript[s].deleted
  BY Numbers DEF Transcript, Tombstoned
<1>5. Transcript' = [Transcript EXCEPT ![s].deleted = TRUE]
  <2> DEFINE n == Cardinality(Seqs)
             stone == [Transcript[s] EXCEPT !.deleted = TRUE]
  <2>1. Seqs = 1 .. n
    BY Numbers
  <2>2. stone = [sender |-> messages[s].sender, deleted |-> TRUE]
    <3> DEFINE line == Transcript[s]
    <3>1. line = [sender |-> messages[s].sender, deleted |-> messages[s].deleted]
      BY <2>1 DEF Transcript
    <3>2. stone = [line EXCEPT !.deleted = TRUE]
      OBVIOUS
    <3> HIDE DEF line, stone
    <3> QED
      BY <3>1, <3>2
  <2>3. Transcript' = [u \in 1 .. n |->
          [sender |-> messages'[u].sender, deleted |-> messages'[u].deleted]]
    BY <1>3 DEF Transcript
  <2>4. Transcript = [u \in 1 .. n |->
          [sender |-> messages[u].sender, deleted |-> messages[u].deleted]]
    BY DEF Transcript
  <2> HIDE DEF stone, n
  <2>5. \A u \in 1 .. n :
          [sender |-> messages'[u].sender, deleted |-> messages'[u].deleted]
            = IF u = s THEN stone ELSE Transcript[u]
    <3> SUFFICES ASSUME NEW u \in 1 .. n
                 PROVE  [sender |-> messages'[u].sender, deleted |-> messages'[u].deleted]
                          = IF u = s THEN stone ELSE Transcript[u]
      OBVIOUS
    <3>1. CASE u = s
      BY <1>2, <2>1, <2>2, <3>1
    <3>2. CASE u # s
      BY <1>2, <2>1, <2>4, <3>2
    <3> QED
      BY <3>1, <3>2
  <2>6. Transcript' = [u \in 1 .. n |-> IF u = s THEN stone ELSE Transcript[u]]
    BY <2>3, <2>5
  <2>7. Transcript' = [Transcript EXCEPT ![s] = stone]
    BY <2>1, <2>4, <2>6
  <2> QED
    BY <2>7 DEF stone
<1>6. UNCHANGED exists /\ exists /\ room'.status = room.status
  BY <1>1 DEF Tombstoned, RoomRow
<1> QED
  BY <1>4, <1>5, <1>6 DEF Log!Tombstone

\* Every step of the room is a step of the abstract room, or none.
LEMMA StepIsSerial ==
  ASSUME IInv, IInv', [Next]_vars
  PROVE  [Log!LogNext]_(Log!logVars)
<1>1. CASE Marked
  <2>1. Transcript' = Transcript
    BY <1>1 DEF Marked, Transcript, Seqs
  <2>2. CASE room'.status = room.status
    BY <1>1, <2>1, <2>2 DEF Marked, Log!logVars
  <2>3. CASE room'.status # room.status
    <3>1. Log!Close
      BY <1>1, <2>1, <2>3 DEF Marked, Log!Close
    <3> QED
      BY <3>1 DEF Log!LogNext
  <2> QED
    BY <2>2, <2>3
<1>2. CASE \E t \in Threads : PostCommit(t)
  BY <1>2, PostKindOfStep, PostIsSay DEF Log!LogNext
<1>3. CASE \E about \in Tags \cup Members : Noticed(about)
  BY <1>3, NoticeIsNotice DEF Log!LogNext
<1>4. CASE \E s \in Seqs : Tombstoned(s)
  BY <1>4, TombstoneIsTombstone DEF Log!LogNext
<1>5. CASE Removed
  <2>1. Cardinality(Seqs)' = 0
    BY <1>5, FS_EmptySet DEF Removed, Seqs
  <2>2. Transcript' = Lines(messages', 0)
    BY <2>1 DEF Transcript, Lines
  <2>3. Transcript' = <<>>
    BY <2>2, NoLines
  <2>4. Log!Delete
    BY <1>5, <2>3 DEF Removed, Log!Delete
  <2> QED
    BY <2>4 DEF Log!LogNext
<1> QED
  BY <1>1, <1>2, <1>3, <1>4, <1>5, StepKinds

\* Every behaviour of the room, with its coroutines, locks, snapshots and
\* restarts, is one of the serial transcript of RoomLog.
THEOREM RoomsImplementRoomLog == Spec => ImplementsRoomLog
<1>1. Init => Log!LogInit
  <2> SUFFICES ASSUME Init PROVE Log!LogInit
    OBVIOUS
  <2>1. Cardinality(Seqs) = 0
    BY FS_EmptySet DEF Init, Seqs
  <2>2. Transcript = Lines(messages, 0)
    BY <2>1 DEF Transcript, Lines
  <2>3. Transcript = <<>>
    BY <2>2, NoLines
  <2> QED
    BY <2>3 DEF Init, Log!LogInit
<1>2. IInv /\ IInv' /\ [Next]_vars => [Log!LogNext]_(Log!logVars)
  BY StepIsSerial
<1> QED
  BY <1>1, <1>2, Invariance, PTL DEF Spec, ImplementsRoomLog, Log!LogSpec

----------------------------------------------------------------------------
(* What is on record in the transcript. *)

\* A commit that adds a row leaves the others as they are, all before it.
LEMMA Grows ==
  ASSUME IInv, NEW row, Adds(row)
  PROVE  /\ Seqs' = Seqs \cup {NextSeq} /\ NextSeq \notin Seqs
         /\ NextSeq \in Nat /\ \A s \in Seqs : s \in Nat /\ s < NextSeq
         /\ messages'[NextSeq] = row
         /\ \A s \in Seqs : messages'[s] = messages[s]
<1> DEFINE n == Cardinality(Seqs)
<1>1. n \in Nat /\ Seqs = 1 .. n /\ NextSeq = n + 1
  BY Numbers
<1> HIDE DEF n
<1>2. NextSeq \notin Seqs /\ NextSeq \in Nat /\ \A s \in Seqs : s \in Nat /\ s < NextSeq
  BY <1>1
<1>3. Seqs' = Seqs \cup {NextSeq}
  BY DEF Adds, Seqs
<1>4. messages'[NextSeq] = row
  BY DEF Adds
<1>5. \A s \in Seqs : messages'[s] = messages[s]
  BY <1>2 DEF Adds
<1> QED
  BY <1>2, <1>3, <1>4, <1>5

\* A tombstone changes nothing but the content and the counter.
LEMMA Erases ==
  ASSUME IInv, NEW s \in Seqs, Tombstoned(s)
  PROVE  /\ Seqs' = Seqs
         /\ \A u \in Seqs : /\ messages'[u].sender = messages[u].sender
                            /\ messages'[u].principal = messages[u].principal
                            /\ messages'[u].kind = messages[u].kind
                            /\ messages'[u].about = messages[u].about
         /\ UNCHANGED <<exists, seats>>
         /\ room'.status = room.status /\ room'.warned = room.warned
         /\ room'.mode = room.mode /\ room'.opened = room.opened
         /\ room'.requires_owner_open = room.requires_owner_open
         /\ room'.deadline = room.deadline /\ room'.reminded = room.reminded
         /\ room'.stall_sent = room.stall_sent
<1>1. messages \in [Seqs -> MessageRow] /\ room \in RoomRow
  BY DEF IInv, TypeOK
<1>2. DOMAIN messages' = Seqs
  BY <1>1 DEF Tombstoned
<1>3. ASSUME NEW u \in Seqs
      PROVE  /\ messages'[u].sender = messages[u].sender
             /\ messages'[u].principal = messages[u].principal
             /\ messages'[u].kind = messages[u].kind
             /\ messages'[u].about = messages[u].about
  BY <1>1 DEF Tombstoned, MessageRow
<1> QED
  BY <1>1, <1>2, <1>3 DEF Tombstoned, RoomRow, Seqs

\* The row a post writes back: only the owner opens the room, only the end of
\* the talk changes its status, and nothing else moves but the count.
LEMMA PostedRowKeeps ==
  ASSUME NEW row \in RoomRow, NEW sender, NEW kind
  PROVE  LET new == PostedRow(row, sender, kind) IN
         /\ new.mode = row.mode /\ new.warned = row.warned
         /\ new.requires_owner_open = row.requires_owner_open
         /\ new.reminded = row.reminded /\ new.stall_sent = row.stall_sent
         /\ new.opened = (row.opened \/ sender = Owner)
         /\ kind = "done" => new.status = "closed"
         /\ new.status \in {row.status, "closed"}
         /\ new.deadline = "deferred" =>
              row.deadline = "deferred" /\ (sender = Owner => row.opened)
<1> DEFINE opens  == sender = Owner /\ ~row.opened
           reason == IF kind = "done" THEN "done"
                     ELSE IF row.message_count + 1 >= MaxMessages THEN "cap" ELSE None
           opened == row.opened \/ opens
           deadline == IF opens /\ row.deadline = "deferred" THEN "set" ELSE row.deadline
           status == IF reason = None THEN row.status ELSE "closed"
           count  == row.message_count + 1
<1>1. PostedRow(row, sender, kind) =
        [row EXCEPT !.opened = opened, !.deadline = deadline,
                    !.message_count = count, !.status = status,
                    !.close_reason = reason]
  BY Zenon DEF PostedRow
<1>2. opened = (row.opened \/ sender = Owner)
  BY DEF RoomRow
<1>3. status \in {row.status, "closed"} /\ (kind = "done" => status = "closed")
  BY ConstantsAssumption
<1>4. deadline = "deferred" =>
        row.deadline = "deferred" /\ (sender = Owner => row.opened)
  OBVIOUS
<1> DEFINE new == PostedRow(row, sender, kind)
<1> HIDE DEF opens, reason, opened, deadline, status, count
<1>5. /\ new.mode = row.mode /\ new.warned = row.warned
      /\ new.requires_owner_open = row.requires_owner_open
      /\ new.reminded = row.reminded /\ new.stall_sent = row.stall_sent
      /\ new.opened = opened /\ new.status = status /\ new.deadline = deadline
  BY <1>1 DEF RoomRow
<1> HIDE DEF new
<1> QED
  BY <1>2, <1>3, <1>4, <1>5 DEF new

----------------------------------------------------------------------------
(* One closing nudge. *)

\* A nudge leaves its mark in the row, so there is only one.
OneNudge ==
  /\ exists => \A s \in Seqs : messages[s].about = "nudge" => room.warned
  /\ \A s, u \in Seqs : messages[s].about = "nudge" /\ messages[u].about = "nudge"
                          => s = u

\* Nothing but the first nudge adds one.
LEMMA OneNudgeStep == IInv /\ OneNudge /\ [Next]_vars => OneNudge'
<1> SUFFICES ASSUME IInv, OneNudge, [Next]_vars PROVE OneNudge'
  OBVIOUS
<1>1. CASE Marked
  BY <1>1 DEF Marked, OneNudge, Seqs
<1>2. CASE \E t \in Threads : PostCommit(t)
  <2>1. PICK sender, principal, kind : Said(sender, principal, kind)
    BY <1>2, PostKindOfStep
  <2> DEFINE row == Message(sender, principal, kind)
  <2>2. row.about # "nudge"
    BY ConstantsAssumption DEF Message
  <2>3. Adds(row) /\ exists /\ room'.warned = room.warned
    BY <2>1, PostedRowKeeps DEF Said, IInv, TypeOK
  <2> HIDE DEF row
  <2> QED
    BY <2>2, <2>3, Grows DEF OneNudge
<1>3. CASE \E about \in Tags \cup Members : Noticed(about)
  <2>1. PICK about \in Tags \cup Members : Noticed(about)
    BY <1>3
  <2> DEFINE row == SystemRow(about)
  <2>2. row.about = about
    BY DEF SystemRow
  <2>3. /\ Adds(row) /\ exists /\ room'.warned = (room.warned \/ about = "nudge")
        /\ about = "nudge" => ~room.warned
    BY <2>1 DEF Noticed
  <2> HIDE DEF row
  <2>4. \A s \in Seqs' : messages'[s].about = "nudge" => room'.warned
    BY <2>2, <2>3, Grows DEF OneNudge
  <2>5. \A s, u \in Seqs' : messages'[s].about = "nudge" /\ messages'[u].about = "nudge"
                              => s = u
    BY <2>2, <2>3, Grows DEF OneNudge
  <2> QED
    BY <2>4, <2>5 DEF OneNudge
<1>4. CASE \E s \in Seqs : Tombstoned(s)
  BY <1>4, Erases DEF OneNudge
<1>5. CASE Removed
  BY <1>5 DEF Removed, OneNudge, Seqs
<1> QED
  BY <1>1, <1>2, <1>3, <1>4, <1>5, StepKinds

\* The transcript of a room has at most one closing nudge, whatever scans,
\* failures and restarts of the sweeper there are.
THEOREM NudgedOnce == Spec => []NudgedAtMostOnce
<1>1. Init => OneNudge
  BY DEF Init, OneNudge, Seqs
<1>2. IInv /\ OneNudge => NudgedAtMostOnce
  <2> SUFFICES ASSUME IInv, OneNudge PROVE NudgedAtMostOnce
    OBVIOUS
  <2> DEFINE S == {s \in Seqs : messages[s].about = "nudge"}
  <2>1. CASE S = {}
    BY <2>1, FS_EmptySet DEF NudgedAtMostOnce
  <2>2. CASE S # {}
    <3>1. PICK s \in S : TRUE
      BY <2>2
    <3>4. \A u \in S : u = s
      BY <3>1 DEF OneNudge
    <3> HIDE DEF S
    <3>2. S = {s}
      BY <3>1, <3>4
    <3>3. Cardinality(S) = 1
      BY <3>2, FS_Singleton
    <3> QED
      BY <3>3 DEF NudgedAtMostOnce, S
  <2> QED
    BY <2>1, <2>2
<1> QED
  BY <1>1, <1>2, OneNudgeStep, Invariance, PTL DEF Spec

----------------------------------------------------------------------------
(* An agreed close is earned. *)

\* A member's "done" has closed the room, so its mode stays what it was.
DoneCloses ==
  exists => \A s \in AgentPosts : messages[s].kind = "done" => room.status = "closed"

Earned == DoneCloses /\ AgreedCloseIsEarned

\* What came before a message is what had come before it.
LEMMA SameBefore ==
  ASSUME IInv, NEW row, Adds(row), NEW s \in Seqs
  PROVE  {u \in Seqs' : u < s} = {u \in Seqs : u < s}
<1>1. Seqs' = Seqs \cup {NextSeq} /\ s \in Nat /\ NextSeq \in Nat /\ s < NextSeq
  BY Grows
<1>2. ~(NextSeq < s)
  BY <1>1
<1> QED
  BY <1>1, <1>2

\* A done is let through only when it is earned, and it stays so.
LEMMA EarnedStep == IInv /\ Earned /\ [Next]_vars => Earned'
<1> SUFFICES ASSUME IInv, Earned, [Next]_vars PROVE Earned'
  OBVIOUS
<1>0. room \in RoomRow
  BY DEF IInv, TypeOK
<1>1. CASE Marked
  BY <1>1 DEF Marked, Earned, DoneCloses, AgreedCloseIsEarned, AgentPosts, Posts, Seqs
<1>2. CASE \E t \in Threads : PostCommit(t)
  <2>1. PICK sender, principal, kind : Said(sender, principal, kind)
    BY <1>2, PostKindOfStep
  <2> DEFINE row == Message(sender, principal, kind)
  <2>2. row.sender = sender /\ row.kind = kind
    BY DEF Message
  <2>3. /\ Adds(row) /\ exists /\ exists' = exists /\ room.status = "open"
        /\ sender \in Members \cup {Owner} /\ ~GateRefuses(room, sender, kind)
        /\ room'.mode = room.mode /\ (kind = "done" => room'.status = "closed")
    BY <1>0, <2>1, PostedRowKeeps DEF Said
  <2> HIDE DEF row
  <2>4. /\ Seqs' = Seqs \cup {NextSeq} /\ NextSeq \notin Seqs
        /\ NextSeq \in Nat /\ \A s \in Seqs : s \in Nat /\ s < NextSeq
        /\ messages'[NextSeq] = row
        /\ \A s \in Seqs : messages'[s] = messages[s]
    BY <2>3, Grows
  <2>5. AgentPosts' \subseteq AgentPosts \cup {NextSeq}
    BY <2>4 DEF AgentPosts, Posts
  <2>6. \A s \in AgentPosts : messages[s].kind # "done"
    BY <2>3 DEF Earned, DoneCloses
  <2>7. \A s \in AgentPosts' : messages'[s].kind = "done" => s = NextSeq
    BY <2>4, <2>5, <2>6 DEF AgentPosts, Posts
  <2>8. DoneCloses'
    BY <2>2, <2>3, <2>4, <2>7 DEF DoneCloses
  <2>9. ASSUME NextSeq \in AgentPosts', kind = "done", room.mode \in GatedModes
        PROVE  /\ Cardinality({u \in Seqs' : u < NextSeq}) >= ConsensusFloor
               /\ \A m \in Members : \E u \in Seqs' :
                    u < NextSeq /\ messages'[u].sender = m
                    /\ messages'[u].kind = "objection"
    <3>1. sender # Owner
      BY <2>2, <2>4, <2>9 DEF AgentPosts, Posts
    <3>2. /\ ~(room.message_count < ConsensusFloor)
          /\ \A m \in Members : Objected(m)
      BY <2>3, <2>9, <3>1 DEF GateRefuses
    <3>3. {u \in Seqs' : u < NextSeq} = Seqs
      BY <2>4
    <3>4. Cardinality(Seqs) >= Cardinality(Live) /\ Cardinality(Live) \in Nat
          /\ Cardinality(Seqs) \in Nat
      <4>1. Live \subseteq Seqs /\ IsFiniteSet(Seqs)
        BY DEF Live, IInv, TypeOK
      <4> QED
        BY <4>1, FS_Subset, FS_CardinalityType
    <3>5. room.message_count = Cardinality(Live)
      BY <2>3 DEF IInv, DataInv, CountIsLive
    <3>6. Cardinality(Seqs) >= ConsensusFloor
      BY <3>2, <3>4, <3>5, ConstantsAssumption
    <3>7. \A m \in Members : \E u \in Seqs' :
            u < NextSeq /\ messages'[u].sender = m /\ messages'[u].kind = "objection"
      BY <2>4, <3>2 DEF Objected
    <3> QED
      BY <3>3, <3>6, <3>7
  <2>10. AgreedCloseIsEarned'
    <3> SUFFICES ASSUME NEW s \in AgentPosts', messages'[s].kind = "done",
                        room'.mode \in GatedModes
                 PROVE  /\ Cardinality({u \in Seqs' : u < s}) >= ConsensusFloor
                        /\ \A m \in Members : \E u \in Seqs' :
                             u < s /\ messages'[u].sender = m
                             /\ messages'[u].kind = "objection"
      BY DEF AgreedCloseIsEarned
    <3>1. s = NextSeq
      BY <2>7
    <3>2. kind = "done" /\ room.mode \in GatedModes
      BY <2>2, <2>3, <2>4, <3>1
    <3> QED
      BY <2>9, <3>1, <3>2
  <2> QED
    BY <2>8, <2>10 DEF Earned
<1>3. CASE \E about \in Tags \cup Members : Noticed(about)
  <2>1. PICK about \in Tags \cup Members : Noticed(about)
    BY <1>3
  <2> DEFINE row == SystemRow(about)
  <2>2. row.sender = System
    BY DEF SystemRow
  <2>3. /\ Adds(row) /\ exists /\ room'.status = room.status
        /\ room'.mode # room.mode => room.status = "open"
    BY <2>1 DEF Noticed
  <2> HIDE DEF row
  <2>4. /\ Seqs' = Seqs \cup {NextSeq} /\ NextSeq \notin Seqs
        /\ messages'[NextSeq] = row
        /\ \A s \in Seqs : messages'[s] = messages[s]
    BY <2>3, Grows
  <2>5. AgentPosts' = AgentPosts /\ \A s \in AgentPosts : s \in Seqs
    BY <2>2, <2>4 DEF AgentPosts, Posts
  <2>6. DoneCloses'
    BY <2>3, <2>4, <2>5 DEF Earned, DoneCloses
  <2>7. AgreedCloseIsEarned'
    <3> SUFFICES ASSUME NEW s \in AgentPosts, messages[s].kind = "done",
                        room'.mode \in GatedModes
                 PROVE  /\ Cardinality({u \in Seqs' : u < s}) >= ConsensusFloor
                        /\ \A m \in Members : \E u \in Seqs' :
                             u < s /\ messages'[u].sender = m
                             /\ messages'[u].kind = "objection"
      BY <2>4, <2>5 DEF AgreedCloseIsEarned
    <3>1. room.mode \in GatedModes
      BY <1>0, <2>3 DEF Earned, DoneCloses
    <3>2. /\ Cardinality({u \in Seqs : u < s}) >= ConsensusFloor
          /\ \A m \in Members : \E u \in Seqs :
               u < s /\ messages[u].sender = m /\ messages[u].kind = "objection"
      BY <2>3, <3>1 DEF Earned, AgreedCloseIsEarned
    <3>3. s \in Seqs
      BY <2>5
    <3>4. {u \in Seqs' : u < s} = {u \in Seqs : u < s}
      BY <2>3, <3>3, SameBefore
    <3>5. \A m \in Members : \E u \in Seqs' :
            u < s /\ messages'[u].sender = m /\ messages'[u].kind = "objection"
      <4> SUFFICES ASSUME NEW m \in Members
                   PROVE  \E u \in Seqs' :
                            u < s /\ messages'[u].sender = m
                            /\ messages'[u].kind = "objection"
        OBVIOUS
      <4>1. PICK u \in Seqs :
              u < s /\ messages[u].sender = m /\ messages[u].kind = "objection"
        BY <3>2
      <4> QED
        BY <2>4, <4>1
    <3> QED
      BY <3>2, <3>4, <3>5
  <2> QED
    BY <2>6, <2>7 DEF Earned
<1>4. CASE \E s \in Seqs : Tombstoned(s)
  <2>1. /\ Seqs' = Seqs /\ exists' = exists
        /\ \A u \in Seqs : /\ messages'[u].sender = messages[u].sender
                           /\ messages'[u].kind = messages[u].kind
        /\ room'.status = room.status /\ room'.mode = room.mode
    BY <1>4, Erases
  <2>2. AgentPosts' = AgentPosts
    BY <2>1 DEF AgentPosts, Posts
  <2> QED
    BY <2>1, <2>2 DEF Earned, DoneCloses, AgreedCloseIsEarned, AgentPosts, Posts
<1>5. CASE Removed
  BY <1>5 DEF Removed, Earned, DoneCloses, AgreedCloseIsEarned
<1> QED
  BY <1>1, <1>2, <1>3, <1>4, <1>5, StepKinds

\* A debate or critique room is closed as agreed by a member only after
\* consensus_floor messages and an objection of every member, for any number
\* of members and whatever changes of mode, deletions and posts interleave.
THEOREM CloseIsEarned == Spec => []AgreedCloseIsEarned
<1>1. Init => Earned
  BY DEF Init, Earned, DoneCloses, AgreedCloseIsEarned, AgentPosts, Posts, Seqs
<1>2. Earned => AgreedCloseIsEarned
  BY DEF Earned
<1> QED
  BY <1>1, <1>2, EarnedStep, Invariance, PTL DEF Spec

----------------------------------------------------------------------------
(* The deferred deadline. *)

\* A deadline is deferred by Init alone, and whatever ends the wait starts it.
LEMMA DeferredStep ==
  IInv /\ DeferredOnlyWhileWaiting /\ [Next]_vars => DeferredOnlyWhileWaiting'
<1> SUFFICES ASSUME IInv, DeferredOnlyWhileWaiting, [Next]_vars, room'.deadline = "deferred"
             PROVE  Waiting(room')
  BY DEF DeferredOnlyWhileWaiting
<1>0. room \in RoomRow /\ (room.deadline = "deferred" => Waiting(room))
  BY DEF IInv, TypeOK, DeferredOnlyWhileWaiting
<1>1. CASE Marked
  BY <1>0, <1>1, Zenon DEF Marked, Waiting
<1>2. CASE \E t \in Threads : PostCommit(t)
  <2>1. PICK sender, principal, kind : Said(sender, principal, kind)
    BY <1>2, PostKindOfStep
  <2>2. /\ room'.requires_owner_open = room.requires_owner_open
        /\ room'.opened = (room.opened \/ sender = Owner)
        /\ room.deadline = "deferred" /\ (sender = Owner => room.opened)
    BY <1>0, <2>1, PostedRowKeeps DEF Said
  <2>3. room.requires_owner_open /\ ~room.opened
    BY <1>0, <2>2 DEF Waiting
  <2>4. ~room'.opened
    BY <2>2, <2>3, Zenon
  <2> QED
    BY <2>2, <2>3, <2>4, Zenon DEF Waiting
<1>3. CASE \E about \in Tags \cup Members : Noticed(about)
  BY <1>0, <1>3 DEF Noticed
<1>4. CASE \E s \in Seqs : Tombstoned(s)
  <2>1. /\ room'.requires_owner_open = room.requires_owner_open
        /\ room'.opened = room.opened /\ room'.deadline = room.deadline
    BY <1>4, Erases
  <2> QED
    BY <1>0, <2>1, Zenon DEF Waiting
<1>5. CASE Removed
  BY <1>0, <1>5 DEF Removed
<1> QED
  BY <1>1, <1>2, <1>3, <1>4, <1>5, StepKinds

\* The relative deadline is pending only as long as the room waits for its
\* owner, whichever of post_message and set_requires_owner_open releases it and
\* whatever commits in between.
THEOREM DeferredCorrect == Spec => []DeferredOnlyWhileWaiting
<1>1. Init => DeferredOnlyWhileWaiting
  BY DEF Init, DeferredOnlyWhileWaiting, Waiting
<1> QED
  BY <1>1, DeferredStep, Invariance, PTL DEF Spec

----------------------------------------------------------------------------
(* What a step may never do. *)

\* Once the room is closed, every message that appears is a notice about a
\* file: no post, no nudge and no owner's notice gets past the check that each
\* handler repeats under the row lock.
THEOREM ClosedIsFrozen == Spec => ClosedTranscriptFrozen
<1> DEFINE Frozen == room.status = "closed" =>
                       \A s \in DOMAIN messages' \ Seqs : messages'[s].about = "file"
<1>1. ASSUME IInv, [Next]_vars PROVE Frozen
  <2> SUFFICES ASSUME room.status = "closed", NEW s \in Seqs', s \notin Seqs
               PROVE  messages'[s].about = "file"
    BY DEF Seqs
  <2>1. ~Marked /\ ~Removed
    BY DEF Marked, Removed, Seqs
  <2>2. ~\E t \in Threads : PostCommit(t)
    <3>1. ASSUME NEW sender, NEW principal, NEW kind, Said(sender, principal, kind)
          PROVE  FALSE
      BY <3>1 DEF Said
    <3> QED
      BY <1>1, <3>1, PostKindOfStep
  <2>3. ~\E u \in Seqs : Tombstoned(u)
    BY <1>1, Erases
  <2>4. PICK about \in Tags \cup Members : Noticed(about)
    BY <1>1, <2>1, <2>2, <2>3, StepKinds
  <2>5. about = "file" /\ Adds(SystemRow(about))
    BY <2>4 DEF Noticed
  <2>6. s = NextSeq /\ messages'[NextSeq] = SystemRow(about)
    BY <1>1, <2>5, Grows
  <2> QED
    BY <2>5, <2>6 DEF SystemRow
<1> QED
  BY <1>1, Invariance, PTL DEF Spec, ClosedTranscriptFrozen

\* The row is given up.
LEMMA Left ==
  ASSUME NEW u \in Threads, Finish(u) \/ FinishAnnounce(u) \/ FinishNotify(u)
  PROVE  \E next : next.stage # "locked" /\ req' = [req EXCEPT ![u] = next]
<1> DEFINE note == [Idle EXCEPT !.op = req[u].op, !.stage = "notify"]
           ann  == [Idle EXCEPT !.op = "announce", !.stage = "checked"]
<1>1. note.stage # "locked" /\ ann.stage # "locked" /\ Idle.stage # "locked"
  BY DEF Idle
<1>2. \E next \in {note, ann, Idle} : req' = [req EXCEPT ![u] = next]
  BY DEF Finish, FinishAnnounce, FinishNotify
<1> HIDE DEF note, ann
<1> QED
  BY <1>1, <1>2

\* What t goes by when it sets the alarm's guard.
Verdict(t) ==
  room.status = "open" /\ room.opened /\ ~room.stall_sent /\ NewestIsOld

VerdictsHold == \A t \in Threads : FoundStalled(t) => Verdict(t)

\* A handler that has found the room stalled after a step had before it, and
\* the step left the room to it; or this is the step in which it found out.
LEMMA VerdictKinds ==
  ASSUME IInv, [Next]_vars, NEW t \in Threads, FoundStalled(t)'
  PROVE  /\ UNCHANGED <<exists, room, messages, seats>> /\ Ages
         /\ FoundStalled(t) \/ (FindStall(t) /\ Stalled /\ Verdict(t))
<1>0. /\ req \in [Threads -> Request] /\ \A u \in Threads : req[u] \in Request
      /\ None # "stalled"
  BY ConstantsAssumption DEF IInv, TypeOK
<1>1. /\ req'[t].stage = "locked" /\ req'[t].op = "ping_stall"
      /\ req'[t].arg = "stalled"
  BY DEF FoundStalled, Holds
<1>2. ASSUME NEW u \in Threads, Locked(u)
      PROVE  /\ UNCHANGED <<exists, room, messages, seats>> /\ Ages
             /\ FoundStalled(t) \/ (FindStall(t) /\ Stalled /\ Verdict(t))
  <2>1. req[u].stage = "locked"
    BY <1>2, LockedHolds
  <2>2. CASE Finish(u) \/ FinishAnnounce(u) \/ FinishNotify(u)
    <3>0. \E next : next.stage # "locked" /\ req' = [req EXCEPT ![u] = next]
      BY <2>2, Left
    <3>1. req'[u].stage # "locked" /\ \A v \in Threads \ {u} : req'[v] = req[v]
      BY <1>0, <3>0
    <3>2. req[t].stage = "locked" /\ t # u
      BY <1>1, <3>1
    <3> QED
      BY <2>1, <3>2 DEF IInv, LockedSnapshotIsCurrent
  <2>3. CASE FindStall(u) /\ req' = [req EXCEPT ![u].arg = "stalled"]
    <3>1. req'[t].stage = req[t].stage /\ \A v \in Threads \ {u} : req'[v] = req[v]
      BY <1>0, <2>3 DEF Request
    <3>2. t = u
      BY <1>1, <2>1, <3>1 DEF IInv, LockedSnapshotIsCurrent
    <3>3. req[t].snap = room /\ ~Finish(t)
      BY <1>0, <1>1, <2>1, <3>2, Holder DEF Finish, Idle
    <3> QED
      BY <2>3, <3>2, <3>3 DEF FindStall, Verdict, Stalled, Ages, rows
  <2> QED
    BY <1>2, <2>2, <2>3, LockedLetsGo
<1>3. CASE ~\E u \in Threads : Locked(u)
  <2>0. \/ \E u \in Clients : Arrive(u)
        \/ \E u \in Threads : Lock(u) \/ Unlocked(u) \/ Fail(u)
        \/ SweepClose \/ SweepWarn \/ Tick \/ Quiet \/ Crash \/ UNCHANGED vars
    BY <1>3 DEF Next
  <2>1. UNCHANGED <<exists, room, messages, seats>> /\ Ages
    BY <2>0, OutsideTheLock
  <2>2. FoundStalled(t)
    BY <2>0, NoVerdictOutside
  <2> QED
    BY <2>1, <2>2
<1> QED
  BY <1>2, <1>3

\* As long as a handler holds on to its verdict, what it rests on stays true.
LEMMA VerdictsStep == IInv /\ VerdictsHold /\ [Next]_vars => VerdictsHold'
<1> SUFFICES ASSUME IInv, VerdictsHold, [Next]_vars, NEW t \in Threads, FoundStalled(t)'
             PROVE  Verdict(t)'
  BY DEF VerdictsHold
<1>1. Verdict(t) /\ UNCHANGED <<exists, room, messages, seats>> /\ Ages
  BY VerdictKinds DEF VerdictsHold
<1> QED
  BY <1>1 DEF Verdict, NewestIsOld, Ages, Seqs

THEOREM VerdictsAreGood == Spec => []VerdictsHold
<1>1. Init => VerdictsHold
  BY DEF Init, VerdictsHold, FoundStalled, Holds, Idle
<1> QED
  BY <1>1, VerdictsStep, Invariance, PTL DEF Spec

\* The guard of the reminder is set only by a commit that finds the room, as it
\* stands then, waiting; the guard of the alarm only by the handler that found
\* the room stalled under the row lock, and nothing it went by has changed
\* since, except perhaps a member's lease.
THEOREM PingsAreFresh == Spec => PingsAreNotStale
<1> DEFINE Fresh ==
      /\ ~room.reminded /\ room'.reminded => room.status = "open" /\ Waiting(room)
      /\ ~room.stall_sent /\ room'.stall_sent =>
           /\ room.status = "open" /\ room.opened /\ NewestIsOld
           /\ \E t \in Threads : FoundStalled(t)
      /\ \A t \in Threads : FoundStalled(t)' =>
           /\ FoundStalled(t) \/ Stalled
           /\ UNCHANGED <<exists, room, messages, seats>>
<1>1. ASSUME IInv, VerdictsHold, [Next]_vars PROVE Fresh
  <2>0. room \in RoomRow
    BY <1>1 DEF IInv, TypeOK
  <2>1. \A t \in Threads : FoundStalled(t)' =>
          /\ FoundStalled(t) \/ Stalled
          /\ UNCHANGED <<exists, room, messages, seats>>
    BY <1>1, VerdictKinds
  <2> DEFINE Guards ==
        /\ ~room.reminded /\ room'.reminded => room.status = "open" /\ Waiting(room)
        /\ ~room.stall_sent /\ room'.stall_sent => \E t \in Threads : PingStall(t)
  <2>2. Guards
    <3>1. CASE Marked
      BY <3>1, Zenon DEF Marked
    <3>2. CASE room'.stall_sent = room.stall_sent /\ room'.reminded = room.reminded
      BY <3>2, Zenon
    <3>3. CASE \E t \in Threads : PostCommit(t)
      <4>1. PICK sender, principal, kind : Said(sender, principal, kind)
        BY <1>1, <3>3, PostKindOfStep
      <4> QED
        BY <2>0, <3>2, <4>1, PostedRowKeeps DEF Said
    <3>4. CASE \E about \in Tags \cup Members : Noticed(about)
      BY <3>2, <3>4 DEF Noticed
    <3>5. CASE \E s \in Seqs : Tombstoned(s)
      BY <1>1, <3>2, <3>5, Erases
    <3>6. CASE Removed
      BY <3>2, <3>6 DEF Removed
    <3> QED
      BY <1>1, <3>1, <3>3, <3>4, <3>5, <3>6, StepKinds
  <2>3. ASSUME NEW t \in Threads, PingStall(t)
        PROVE  room.status = "open" /\ room.opened /\ NewestIsOld /\ FoundStalled(t)
    BY <1>1, <2>3 DEF PingStall, VerdictsHold, Verdict
  <2> QED
    BY <2>1, <2>2, <2>3
<1> QED
  BY <1>1, Invariance, VerdictsAreGood, PTL DEF Spec, PingsAreNotStale

----------------------------------------------------------------------------
(* Who speaks as whom. *)

\* Whoever last spoke as a member still has its seat, or the transcript says
\* since that the seat changed hands.
SeatsAreOnRecord ==
  \A s \in AgentPosts : messages[s].principal \in Machines =>
    \/ seats[messages[s].sender] = messages[s].principal
    \/ \E w \in Seqs : s < w /\ messages[w].about = messages[s].sender

OnRecord == SeatsAreOnRecord /\ SeatHandoverIsAnnounced

\* A member's message is by a member.
LEMMA AgentsAreMembers ==
  ASSUME IInv, NEW s \in AgentPosts
  PROVE  s \in Seqs /\ messages[s].sender \in Members
<1>1. s \in Seqs /\ messages \in [Seqs -> MessageRow]
  BY DEF AgentPosts, Posts, IInv, TypeOK
<1>2. messages[s] \in MessageRow
  BY <1>1
<1> QED
  BY <1>1, <1>2 DEF AgentPosts, Posts, MessageRow

\* A post binds a free seat or repeats the holder; a seat that changes hands
\* is announced by the same commit.
LEMMA OnRecordStep == IInv /\ OnRecord /\ [Next]_vars => OnRecord'
<1> SUFFICES ASSUME IInv, OnRecord, [Next]_vars PROVE OnRecord'
  OBVIOUS
<1>0. /\ \A s \in AgentPosts : s \in Seqs /\ messages[s].sender \in Members
      /\ None \notin Machines /\ seats \in [Members -> Machines \cup {None}]
  BY AgentsAreMembers, ConstantsAssumption DEF IInv, TypeOK
<1>1. CASE Marked
  <2>1. /\ UNCHANGED messages
        /\ \A m \in Members : seats'[m] # seats[m] => seats[m] = None
    BY <1>1 DEF Marked
  <2>2. AgentPosts' = AgentPosts /\ Seqs' = Seqs
    BY <2>1 DEF AgentPosts, Posts, Seqs
  <2>3. SeatsAreOnRecord'
    <3> SUFFICES ASSUME NEW s \in AgentPosts, messages[s].principal \in Machines
                 PROVE  \/ seats'[messages[s].sender] = messages[s].principal
                        \/ \E w \in Seqs : s < w /\ messages[w].about = messages[s].sender
      BY <2>1, <2>2 DEF SeatsAreOnRecord
    <3>1. \/ seats[messages[s].sender] = messages[s].principal
          \/ \E w \in Seqs : s < w /\ messages[w].about = messages[s].sender
      BY DEF OnRecord, SeatsAreOnRecord
    <3> QED
      BY <1>0, <2>1, <3>1
  <2> QED
    BY <2>1, <2>2, <2>3 DEF OnRecord, SeatHandoverIsAnnounced
<1>2. CASE \E t \in Threads : PostCommit(t)
  <2>1. PICK sender, principal, kind : Said(sender, principal, kind)
    BY <1>2, PostKindOfStep
  <2> DEFINE row == Message(sender, principal, kind)
  <2>2. row.sender = sender /\ row.principal = principal
    BY DEF Message
  <2>3. /\ Adds(row) /\ sender \in Members \cup {Owner}
        /\ ~SeatRefuses(sender, principal) /\ BindSeat(sender, principal)
    BY <2>1 DEF Said
  <2> HIDE DEF row
  <2>4. /\ Seqs' = Seqs \cup {NextSeq} /\ NextSeq \notin Seqs
        /\ \A s \in Seqs : s < NextSeq
        /\ messages'[NextSeq] = row
        /\ \A s \in Seqs : messages'[s] = messages[s]
    BY <2>3, Grows
  <2>5. AgentPosts' \subseteq AgentPosts \cup {NextSeq}
    BY <2>4 DEF AgentPosts, Posts
  <2>6. ASSUME NEW s \in AgentPosts, messages[s].principal \in Machines
        PROVE  \/ /\ seats[messages[s].sender] = messages[s].principal
                  /\ seats'[messages[s].sender] = messages[s].principal
               \/ \E w \in Seqs : s < w /\ messages[w].about = messages[s].sender
    <3>1. \/ seats[messages[s].sender] = messages[s].principal
          \/ \E w \in Seqs : s < w /\ messages[w].about = messages[s].sender
      BY <2>6 DEF OnRecord, SeatsAreOnRecord
    <3>2. CASE seats[messages[s].sender] = messages[s].principal
      BY <1>0, <2>3, <2>6, <3>2 DEF SeatRefuses, BindSeat, Seated
    <3> QED
      BY <3>1, <3>2
  <2>7. ASSUME NextSeq \in AgentPosts', principal \in Machines
        PROVE  sender \in Members /\ seats[sender] \in {None, principal}
               /\ seats'[sender] = principal
    <3>1. sender \in Members
      BY <2>2, <2>3, <2>4, <2>7 DEF AgentPosts, Posts
    <3> QED
      BY <1>0, <2>3, <2>7, <3>1 DEF SeatRefuses, BindSeat, Seated
  <2>8. SeatsAreOnRecord'
    <3> SUFFICES ASSUME NEW s \in AgentPosts', messages'[s].principal \in Machines
                 PROVE  \/ seats'[messages'[s].sender] = messages'[s].principal
                        \/ \E w \in Seqs' : s < w /\ messages'[w].about = messages'[s].sender
      BY DEF SeatsAreOnRecord
    <3>1. CASE s = NextSeq
      BY <2>2, <2>4, <2>7, <3>1
    <3>2. CASE s \in AgentPosts
      BY <1>0, <2>4, <2>6, <3>2
    <3> QED
      BY <2>5, <3>1, <3>2
  <2>9. SeatHandoverIsAnnounced'
    <3> SUFFICES ASSUME NEW s \in AgentPosts', NEW u \in AgentPosts', s < u,
                        messages'[s].sender = messages'[u].sender,
                        messages'[s].principal \in Machines,
                        messages'[u].principal \in Machines,
                        messages'[s].principal # messages'[u].principal
                 PROVE  \E w \in Seqs' : s < w /\ w < u
                                         /\ messages'[w].about = messages'[s].sender
      BY DEF SeatHandoverIsAnnounced
    <3>1. CASE s \in AgentPosts /\ u \in AgentPosts
      <4>1. messages'[s] = messages[s] /\ messages'[u] = messages[u]
        BY <1>0, <2>4, <3>1
      <4>2. PICK w \in Seqs : s < w /\ w < u /\ messages[w].about = messages[s].sender
        BY <3>1, <4>1 DEF OnRecord, SeatHandoverIsAnnounced
      <4> QED
        BY <2>4, <4>1, <4>2
    <3>2. CASE s \in AgentPosts /\ u = NextSeq
      <4>1. messages'[s] = messages[s] /\ s \in Seqs
        BY <1>0, <2>4, <3>2
      <4>2. messages[s].sender = sender /\ messages[s].principal # principal
        BY <2>2, <2>4, <3>2, <4>1
      <4>3. seats[sender] # messages[s].principal
        BY <1>0, <2>2, <2>4, <2>7, <3>2, <4>1, <4>2
      <4>4. PICK w \in Seqs : s < w /\ messages[w].about = messages[s].sender
        BY <2>6, <3>2, <4>1, <4>2, <4>3
      <4> QED
        BY <2>4, <3>2, <4>1, <4>4
    <3>3. CASE s = NextSeq
      <4>1. u \in Seqs \/ u = NextSeq
        BY <1>0, <2>5
      <4>2. NextSeq \in Nat /\ Seqs \subseteq Nat
        BY <2>3, Grows
      <4> QED
        BY <2>4, <3>3, <4>1, <4>2
    <3> QED
      BY <2>5, <3>1, <3>2, <3>3
  <2> QED
    BY <2>8, <2>9 DEF OnRecord
<1>3. CASE \E about \in Tags \cup Members : Noticed(about)
  <2>1. PICK about \in Tags \cup Members : Noticed(about)
    BY <1>3
  <2> DEFINE row == SystemRow(about)
  <2>2. row.sender = System /\ row.about = about
    BY DEF SystemRow
  <2>3. Adds(row) /\ \A m \in Members : seats'[m] # seats[m] => about = m
    BY <2>1 DEF Noticed
  <2> HIDE DEF row
  <2>4. /\ Seqs' = Seqs \cup {NextSeq} /\ NextSeq \notin Seqs
        /\ \A s \in Seqs : s < NextSeq
        /\ messages'[NextSeq] = row
        /\ \A s \in Seqs : messages'[s] = messages[s]
    BY <2>3, Grows
  <2>5. AgentPosts' = AgentPosts
    BY <2>2, <2>4 DEF AgentPosts, Posts
  <2>6. SeatsAreOnRecord'
    <3> SUFFICES ASSUME NEW s \in AgentPosts, messages[s].principal \in Machines
                 PROVE  \/ seats'[messages[s].sender] = messages[s].principal
                        \/ \E w \in Seqs' : s < w /\ messages'[w].about = messages[s].sender
      BY <1>0, <2>4, <2>5 DEF SeatsAreOnRecord
    <3>1. \/ seats[messages[s].sender] = messages[s].principal
          \/ \E w \in Seqs : s < w /\ messages[w].about = messages[s].sender
      BY DEF OnRecord, SeatsAreOnRecord
    <3>2. CASE seats'[messages[s].sender] # seats[messages[s].sender]
      BY <1>0, <2>2, <2>3, <2>4, <3>2
    <3> QED
      BY <2>4, <3>1, <3>2
  <2>7. SeatHandoverIsAnnounced'
    <3> SUFFICES ASSUME NEW s \in AgentPosts, NEW u \in AgentPosts, s < u,
                        messages[s].sender = messages[u].sender,
                        messages[s].principal \in Machines,
                        messages[u].principal \in Machines,
                        messages[s].principal # messages[u].principal
                 PROVE  \E w \in Seqs' : s < w /\ w < u
                                         /\ messages'[w].about = messages[s].sender
      BY <1>0, <2>4, <2>5 DEF SeatHandoverIsAnnounced
    <3>1. PICK w \in Seqs : s < w /\ w < u /\ messages[w].about = messages[s].sender
      BY DEF OnRecord, SeatHandoverIsAnnounced
    <3> QED
      BY <2>4, <3>1
  <2> QED
    BY <2>6, <2>7 DEF OnRecord
<1>4. CASE \E s \in Seqs : Tombstoned(s)
  <2>1. /\ Seqs' = Seqs /\ seats' = seats
        /\ \A u \in Seqs : /\ messages'[u].sender = messages[u].sender
                           /\ messages'[u].principal = messages[u].principal
                           /\ messages'[u].about = messages[u].about
    BY <1>4, Erases
  <2>2. AgentPosts' = AgentPosts
    BY <2>1 DEF AgentPosts, Posts
  <2>3. SeatsAreOnRecord'
    BY <1>0, <2>1, <2>2 DEF OnRecord, SeatsAreOnRecord
  <2>4. SeatHandoverIsAnnounced'
    BY <1>0, <2>1, <2>2 DEF OnRecord, SeatHandoverIsAnnounced
  <2> QED
    BY <2>3, <2>4 DEF OnRecord
<1>5. CASE Removed
  <2>1. AgentPosts' = {}
    BY <1>5 DEF Removed, AgentPosts, Posts, Seqs
  <2> QED
    BY <2>1 DEF OnRecord, SeatsAreOnRecord, SeatHandoverIsAnnounced
<1> QED
  BY <1>1, <1>2, <1>3, <1>4, <1>5, StepKinds

\* Two machines never speak as the same member unless the transcript says, in
\* between, that the seat changed hands: for any members and machines, and
\* whatever attachments, polls, releases and reassignments race for the seat.
THEOREM HandoverIsAnnounced == Spec => []SeatHandoverIsAnnounced
<1>1. Init => OnRecord
  <2> SUFFICES ASSUME Init PROVE OnRecord
    OBVIOUS
  <2>1. AgentPosts = {}
    BY DEF Init, AgentPosts, Posts, Seqs
  <2> QED
    BY <2>1 DEF OnRecord, SeatsAreOnRecord, SeatHandoverIsAnnounced
<1>2. OnRecord => SeatHandoverIsAnnounced
  BY DEF OnRecord
<1> QED
  BY <1>1, <1>2, OnRecordStep, Invariance, PTL DEF Spec

============================================================================
