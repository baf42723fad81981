--------------------------- MODULE RequestProofs ---------------------------
(***************************************************************************)
(* What a request may rely on while it is in flight, for every set of      *)
(* members, machines and clients: a post that passed the owner gate, a     *)
(* ping that is being sent, a long poll between its two reads.             *)
(*                                                                         *)
(* As StepKinds does for the rows, ReqKinds reduces the steps of a         *)
(* coroutine to eight kinds, and the results below look at those.          *)
(***************************************************************************)
EXTENDS TranscriptProofs

\* The flag whose setting a ping of kind p announces.
Flag(row, p) == CASE p = "closed"       -> row.status = "closed"
                  [] p = "open_pending" -> row.reminded
                  [] p = "stalled"      -> row.stall_sent

\* t has been let in and is to take the row: a member's post only past the
\* owner gate.
Begun(t) ==
  /\ req'[t].stage = "checked"
  /\ req'[t].op = "post" /\ req'[t].sender # Owner => ~Waiting(room)

\* t has taken the row.
Taken(t) ==
  /\ req[t].stage = "checked" /\ req'[t].stage = "locked"
  /\ req'[t].op = req[t].op /\ req'[t].sender = req[t].sender

\* t has committed the setting of a flag, and a ping is due.
Owes(t) ==
  /\ req[t].stage = "locked" /\ req'[t].stage = "notify"
  /\ req'[t].op = req[t].op /\ sent' = sent
  /\ FoundStalled(t) \/ ~Flag(room, PingOf(req[t].op))
  /\ Flag(room', PingOf(req[t].op))

\* t has found the room stalled and stays under its lock.
Sounds(t) ==
  /\ req[t].stage = "locked" /\ req'[t].stage = "locked"
  /\ req'[t].op = req[t].op /\ req'[t].sender = req[t].sender

\* t is a poll that has not read the room, and one that has.
Polls(t) == req'[t].stage \in {"marking", "reading"}

Reads(t) ==
  /\ req[t].stage = "reading" /\ req'[t].stage = "read"
  /\ req'[t].snap = room

----------------------------------------------------------------------------
(* Every step of a coroutine is one of these. *)

\* Start lets in one request.
LEMMA Started ==
  ASSUME TypeOK, NEW t \in Threads, NEW u \in Threads,
         NEW op, NEW sender, NEW principal, NEW arg,
         Start(u, op, sender, principal, arg)
  PROVE  IF t = u
         THEN /\ req'[t].stage = "checked" /\ req'[t].op = op
              /\ req'[t].sender = sender
         ELSE req'[t] = req[t]
BY DEF Start, Idle, TypeOK

\* The requests that arrive.
LEMMA ArriveKinds ==
  ASSUME IInv, NEW t \in Threads, NEW u \in Clients, Arrive(u)
  PROVE  req'[t] = req[t] \/ Begun(t) \/ Polls(t)
<1>0. u \in Threads /\ TypeOK
  BY DEF Threads, IInv
<1>1. CASE PostPrecheck(u)
  <2>1. PICK sender \in Members \cup {Owner}, principal \in Machines \cup {Owner},
             kind \in Kinds :
               /\ sender # Owner => ~Waiting(room)
               /\ Start(u, "post", sender, principal, kind)
    BY <1>1 DEF PostPrecheck
  <2> QED
    BY <1>0, <2>1, Started DEF Begun
<1>2. CASE PostNotOpened(u)
  BY <1>0, <1>2, Started DEF PostNotOpened, Begun
<1>3. CASE OwnerRequest(u)
  <2>1. PICK op, arg : op # "post" /\ Start(u, op, None, Owner, arg)
    BY <1>3 DEF OwnerRequest
  <2> QED
    BY <1>0, <2>1, Started DEF Begun
<1>4. CASE AttachRequest(u)
  <2>1. PICK sender, principal, source : Start(u, "attach", sender, principal, source)
    BY <1>4 DEF AttachRequest
  <2> QED
    BY <1>0, <2>1, Started DEF Begun
<1>5. CASE DetachRequest(u)
  BY <1>0, <1>5, Started DEF DetachRequest, Begun
<1>6. CASE PollStart(u)
  <2>1. PICK m \in Pollers, principal \in Machines \cup {None}, marks \in BOOLEAN :
          req' = [req EXCEPT ![u] =
                    [Idle EXCEPT !.op = "poll", !.sender = m,
                                 !.principal = IF marks THEN principal ELSE None,
                                 !.stage = IF marks THEN "marking" ELSE "reading"]]
    <3>1. PICK m \in Pollers, principal \in Machines \cup {None} :
            LET marks == exists /\ principal # None /\ seats[m] \in {None, principal}
            IN  req' = [req EXCEPT ![u] =
                          [Idle EXCEPT !.op = "poll", !.sender = m,
                                       !.principal = IF marks THEN principal ELSE None,
                                       !.stage = IF marks THEN "marking" ELSE "reading"]]
      BY <1>6 DEF PollStart
    <3> QED
      BY <3>1
  <2> QED
    BY <1>0, <2>1 DEF Polls, Idle, TypeOK
<1> QED
  BY <1>1, <1>2, <1>3, <1>4, <1>5, <1>6 DEF Arrive

\* The ways a handler gives up the row.
LEMMA GivenUp ==
  ASSUME IInv, NEW t \in Threads, NEW u \in Threads,
         Finish(u) \/ FinishAnnounce(u)
  PROVE  req'[t] = req[t] \/ req'[t] = Idle \/ Begun(t)
<1>1. req \in [Threads -> Request]
  BY DEF IInv, TypeOK
<1> QED
  BY <1>1 DEF Finish, FinishAnnounce, Begun, Idle

\* A ping is due after the commit that sets its flag and no other.
LEMMA PingDue ==
  ASSUME IInv, NEW t \in Threads, FinishNotify(t), sent' = sent,
         \/ PostCommit(t) \/ CloseRoom(t) \/ PingOpen(t) \/ PingStall(t)
  PROVE  Owes(t)
<1>0. req[t].stage = "locked"
  BY DEF PostCommit, CloseRoom, PingOpen, PingStall, FoundStalled, Holds
<1>1. req[t].snap = room /\ room \in RoomRow /\ req \in [Threads -> Request]
  BY <1>0, Holder DEF TypeOK
<1>2. req'[t].stage = "notify" /\ req'[t].op = req[t].op
  BY <1>1 DEF FinishNotify, Idle
<1>3. req'[t] # Idle
  BY <1>2 DEF Idle
<1>4. ~Finish(t)
  BY <1>1, <1>3 DEF Finish
<1>5. CASE PostCommit(t)
  <2>1. req[t].op = "post" /\ room.status = "open" /\ room'.status = "closed"
    BY <1>1, <1>4, <1>5 DEF PostCommit, Holds
  <2> QED
    BY <1>0, <1>2, <2>1 DEF Owes, PingOf, Flag
<1>6. CASE CloseRoom(t)
  <2>1. /\ req[t].op = "close" /\ room.status # "closed"
        /\ room' = [room EXCEPT !.status = "closed", !.close_reason = req[t].arg]
    BY <1>1, <1>4, <1>6 DEF CloseRoom, Holds
  <2>2. room'.status = "closed"
    BY <1>1, <2>1 DEF RoomRow
  <2> QED
    BY <1>0, <1>2, <2>1, <2>2 DEF Owes, PingOf, Flag
<1>7. CASE PingOpen(t)
  <2>1. /\ req[t].op = "ping_open" /\ ~room.reminded
        /\ room' = [room EXCEPT !.reminded = TRUE]
    BY <1>1, <1>4, <1>7 DEF PingOpen, Holds
  <2>2. room'.reminded
    BY <1>1, <2>1 DEF RoomRow
  <2> QED
    BY <1>0, <1>2, <2>1, <2>2 DEF Owes, PingOf, Flag
<1>8. CASE PingStall(t)
  <2>1. /\ FoundStalled(t) /\ req[t].op = "ping_stall"
        /\ room' = [room EXCEPT !.stall_sent = TRUE]
    BY <1>1, <1>8 DEF PingStall, FoundStalled, Holds
  <2>2. room'.stall_sent
    BY <1>1, <2>1 DEF RoomRow
  <2> QED
    BY <1>0, <1>2, <2>1, <2>2 DEF Owes, PingOf, Flag
<1> QED
  BY <1>5, <1>6, <1>7, <1>8

\* What every handler that holds the row leaves alone, and how it ends.
LEMMA LockedEnds ==
  ASSUME NEW u \in Threads, Locked(u)
  PROVE  /\ UNCHANGED <<sent, cursor, told>>
         /\ \/ Finish(u) \/ FinishAnnounce(u)
            \/ req' = [req EXCEPT ![u].arg = "stalled"]
            \/ /\ FinishNotify(u)
               /\ PostCommit(u) \/ CloseRoom(u) \/ PingOpen(u) \/ PingStall(u)
<1> USE DEF outside
<1>1. CASE PostCommit(u) \/ CloseRoom(u) \/ PingOpen(u) \/ FindStall(u) \/ PingStall(u)
  <2>1. CASE PostCommit(u)
    BY <2>1 DEF PostCommit
  <2>2. CASE CloseRoom(u)
    BY <2>2 DEF CloseRoom
  <2>3. CASE PingOpen(u) \/ FindStall(u) \/ PingStall(u)
    BY <2>3 DEF PingOpen, FindStall, PingStall
  <2> QED
    BY <1>1, <2>1, <2>2, <2>3
<1>2. CASE \/ PostRefused(u) \/ NotOpen(u) \/ DeleteMessage(u) \/ DeleteNothing(u)
           \/ DeleteRoom(u) \/ AttachRefused(u) \/ AnnounceFailed(u)
  BY <1>2 DEF PostRefused, NotOpen, DeleteMessage, DeleteNothing, DeleteRoom,
     AttachRefused, AnnounceFailed
<1>3. CASE SwitchMode(u) \/ SetUploads(u) \/ SetGate(u) \/ SetSeat(u)
  BY <1>3 DEF SwitchMode, SetUploads, SetGate, SetSeat
<1>4. CASE AttachUpload(u) \/ AttachFromBrain(u) \/ Announce(u) \/ Nudge(u)
  BY <1>4 DEF AttachUpload, AttachFromBrain, AddReference, Announce, Nudge
<1> QED
  BY <1>1, <1>2, <1>3, <1>4 DEF Locked

\* The commits under the row lock.
LEMMA LockedKinds ==
  ASSUME IInv, NEW t \in Threads, NEW u \in Threads, Locked(u)
  PROVE  /\ req'[t] = req[t] \/ req'[t] = Idle \/ Begun(t) \/ Owes(t) \/ Sounds(t)
         /\ UNCHANGED <<sent, cursor, told>>
<1>0. req \in [Threads -> Request]
  BY DEF IInv, TypeOK
<1>1. UNCHANGED <<sent, cursor, told>>
  BY LockedEnds
<1>2. CASE Finish(u) \/ FinishAnnounce(u)
  BY <1>1, <1>2, GivenUp, Zenon
<1>3. CASE /\ FinishNotify(u)
           /\ PostCommit(u) \/ CloseRoom(u) \/ PingOpen(u) \/ PingStall(u)
  <2>1. CASE t = u
    BY <1>1, <1>3, <2>1, PingDue, Zenon
  <2>2. CASE t # u
    <3>1. req'[t] = req[t]
      BY <1>0, <1>3, <2>2 DEF FinishNotify
    <3> QED
      BY <1>1, <3>1
  <2> QED
    BY <2>1, <2>2
<1>4. CASE req' = [req EXCEPT ![u].arg = "stalled"]
  <2>1. req[u] \in Request /\ req[u].stage = "locked"
    BY <1>0, LockedHolds
  <2> QED
    BY <1>0, <1>1, <1>4, <2>1 DEF Request, Sounds
<1> QED
  BY <1>2, <1>3, <1>4, LockedEnds, Zenon

\* The steps that do not hold the row.
LEMMA OtherKinds ==
  ASSUME IInv, NEW t \in Threads,
         \/ \E u \in Threads : Lock(u) \/ Unlocked(u) \/ Fail(u)
         \/ SweepClose \/ SweepWarn \/ Tick \/ Quiet \/ Crash \/ UNCHANGED vars
  PROVE  req'[t] = req[t] \/ req'[t] = Idle \/ Begun(t) \/ Taken(t) \/ Polls(t) \/ Reads(t)
<1>0. /\ req \in [Threads -> Request] /\ TypeOK /\ Sweeper \in Threads
      /\ \A u \in Threads : req[u] \in Request
  BY DEF IInv, TypeOK, Threads
<1>1. ASSUME NEW u \in Threads, Lock(u)
      PROVE  req'[t] = req[t] \/ Taken(t)
  <2>1. req[u] \in Request
    BY <1>0
  <2>2. req' = [req EXCEPT ![u].stage = "locked", ![u].snap = room, ![u].seq = NextSeq]
    BY <1>1 DEF Lock
  <2>3. t = u => req'[t].stage = "locked" /\ req'[t].op = req[t].op
                 /\ req'[t].sender = req[t].sender
    BY <1>0, <2>1, <2>2 DEF Request
  <2>4. t # u => req'[t] = req[t]
    BY <1>0, <2>2
  <2>5. req[u].stage = "checked"
    BY <1>1 DEF Lock
  <2> QED
    BY <2>3, <2>4, <2>5 DEF Taken
<1>2. ASSUME NEW u \in Threads, LockGone(u) \/ Notify(u) \/ Fail(u)
      PROVE  req'[t] = req[t] \/ req'[t] = Idle
  BY <1>0, <1>2 DEF LockGone, Notify, Fail
<1>3. ASSUME NEW u \in Threads, MarkWorking(u)
      PROVE  req'[t] = req[t] \/ req'[t] = Idle \/ Polls(t)
  <2>1. req[u] \in Request
    BY <1>0
  <2>2. \/ req' = [req EXCEPT ![u].stage = "reading", ![u].principal = None]
        \/ req' = [req EXCEPT ![u] = Idle]
    BY <1>3 DEF MarkWorking
  <2> QED
    BY <1>0, <2>1, <2>2 DEF Polls, Request
<1>4. ASSUME NEW u \in Threads, PollReadRoom(u)
      PROVE  req'[t] = req[t] \/ req'[t] = Idle \/ Reads(t)
  <2>1. req[u] \in Request
    BY <1>0
  <2>2. /\ req[u].stage = "reading"
        /\ \/ req' = [req EXCEPT ![u].stage = "read", ![u].snap = room]
           \/ req' = [req EXCEPT ![u] = Idle]
    BY <1>4 DEF PollReadRoom
  <2> QED
    BY <1>0, <2>1, <2>2 DEF Reads, Request
<1>5. ASSUME NEW u \in Threads, PollReadMessages(u)
      PROVE  req'[t] = req[t] \/ req'[t] = Idle \/ Begun(t)
  <2>1. \/ req' = [req EXCEPT ![u] = Idle]
        \/ \E op \in {"ping_open", "ping_stall"} :
             req' = [req EXCEPT ![u] =
                       [Idle EXCEPT !.op = op, !.stage = "checked",
                                    !.sender = req[u].sender]]
    BY <1>5 DEF PollReadMessages
  <2> QED
    BY <1>0, <2>1 DEF Begun, Idle
<1>6. CASE SweepClose \/ SweepWarn
  <2>1. \/ req' = req
        \/ \E op \in {"close", "nudge"} : \E arg : Start(Sweeper, op, None, None, arg)
    BY <1>6 DEF SweepClose, SweepWarn
  <2>2. ASSUME NEW op \in {"close", "nudge"}, NEW arg, Start(Sweeper, op, None, None, arg)
        PROVE  req'[t] = req[t] \/ Begun(t)
    BY <1>0, <2>2, Started DEF Begun
  <2> QED
    BY <2>1, <2>2
<1>7. CASE Tick \/ Quiet \/ Crash \/ UNCHANGED vars
  BY <1>7 DEF Tick, Quiet, Crash, vars
<1> QED
  BY <1>1, <1>2, <1>3, <1>4, <1>5, <1>6, <1>7 DEF Unlocked

\* What any step does to the request of a coroutine.
LEMMA ReqKinds ==
  ASSUME IInv, [Next]_vars, NEW t \in Threads
  PROVE  \/ req'[t] = req[t] \/ req'[t] = Idle
         \/ Begun(t) \/ Taken(t) \/ Owes(t) \/ Sounds(t) \/ Polls(t) \/ Reads(t)
<1>1. ASSUME NEW u \in Clients, Arrive(u)
      PROVE  req'[t] = req[t] \/ Begun(t) \/ Polls(t)
  BY <1>1, ArriveKinds
<1>2. ASSUME NEW u \in Threads, Locked(u)
      PROVE  req'[t] = req[t] \/ req'[t] = Idle \/ Begun(t) \/ Owes(t) \/ Sounds(t)
  BY <1>2, LockedKinds
<1> QED
  BY <1>1, <1>2, OtherKinds DEF Next

----------------------------------------------------------------------------
(* The owner speaks first. *)

\* The transcript shows why agents may speak.
Released ==
  \E s \in Seqs : messages[s].sender = Owner \/ messages[s].about = "gate_off"

\* A member's post that is past the owner gate and has not committed.
Speaking(t) ==
  /\ req[t].op = "post" /\ req[t].stage \in {"checked", "locked"}
  /\ req[t].sender # Owner

\* As long as the room is there, its being open to agents is on record: for
\* the next post, and for the posts already let in, which the gate does not
\* see again.
ReleaseIsOnRecord ==
  exists => /\ ~Waiting(room) => Released
            /\ \A t \in Threads : Speaking(t) => Released

OwnerFirst == ReleaseIsOnRecord /\ AgentsWaitForOwner

\* A step keeps the messages and their texts, unless it removes the room.
LEMMA MessagesStay ==
  ASSUME IInv, [Next]_vars, exists'
  PROVE  /\ exists
         /\ \A s \in Seqs : /\ s \in Seqs'
                            /\ messages'[s].sender = messages[s].sender
                            /\ messages'[s].about = messages[s].about
<1>1. CASE Marked
  BY <1>1 DEF Marked, Seqs
<1>2. CASE \E t \in Threads : PostCommit(t)
  <2>1. PICK sender, principal, kind : Said(sender, principal, kind)
    BY <1>2, PostKindOfStep
  <2>2. Adds(Message(sender, principal, kind)) /\ exists
    BY <2>1 DEF Said
  <2> QED
    BY <2>2, Grows
<1>3. CASE \E about \in Tags \cup Members : Noticed(about)
  <2>1. PICK about : Adds(SystemRow(about)) /\ exists
    BY <1>3 DEF Noticed
  <2> QED
    BY <2>1, Grows
<1>4. CASE \E s \in Seqs : Tombstoned(s)
  BY <1>4, Erases
<1>5. CASE Removed
  BY <1>5 DEF Removed
<1> QED
  BY <1>1, <1>2, <1>3, <1>4, <1>5, StepKinds

\* A room that stops waiting says why in the same commit.
LEMMA ReleaseIsWritten ==
  ASSUME IInv, [Next]_vars, exists', Waiting(room), ~Waiting(room')
  PROVE  Released'
<1>0. /\ room \in RoomRow /\ room.requires_owner_open = TRUE /\ room.opened = FALSE
      /\ room' \in RoomRow
  BY StepInv DEF IInv, TypeOK, RoomRow, Waiting
<1>1. room'.requires_owner_open # room.requires_owner_open \/ room'.opened # room.opened
  BY <1>0 DEF Waiting
<1>2. ~Marked
  BY <1>1 DEF Marked
<1>3. CASE \E t \in Threads : PostCommit(t)
  <2>1. PICK sender, principal, kind : Said(sender, principal, kind)
    BY <1>3, PostKindOfStep
  <2>2. /\ room'.requires_owner_open = room.requires_owner_open
        /\ room'.opened = (room.opened \/ sender = Owner)
    BY <1>0, <2>1, PostedRowKeeps DEF Said
  <2>3. sender = Owner
    BY <1>0, <1>1, <2>2, Zenon
  <2> DEFINE row == Message(sender, principal, kind)
  <2>4. Adds(row) /\ row.sender = Owner
    BY <2>1, <2>3 DEF Said, Message
  <2> HIDE DEF row
  <2> QED
    BY <2>4, Grows DEF Released
<1>4. CASE \E about \in Tags \cup Members : Noticed(about)
  <2>1. PICK about \in Tags \cup Members : Noticed(about)
    BY <1>4
  <2>2. about = "gate_off" /\ Adds(SystemRow(about))
    BY <1>0, <1>1, <2>1, StepInv DEF Noticed, IInv, TypeOK, RoomRow
  <2> DEFINE row == SystemRow(about)
  <2>3. Adds(row) /\ row.about = "gate_off"
    BY <2>2 DEF SystemRow
  <2> HIDE DEF row
  <2> QED
    BY <2>3, Grows DEF Released
<1>5. ~\E s \in Seqs : Tombstoned(s)
  BY <1>1, Erases
<1>6. ~Removed
  BY DEF Removed
<1> QED
  BY <1>2, <1>3, <1>4, <1>5, <1>6, StepKinds

\* What lets an agent speak is written before the agent does.
LEMMA OwnerFirstStep == IInv /\ OwnerFirst /\ [Next]_vars => OwnerFirst'
<1> SUFFICES ASSUME IInv, OwnerFirst, [Next]_vars PROVE OwnerFirst'
  OBVIOUS
<1>1. ASSUME exists', Released PROVE Released'
  BY <1>1, MessagesStay DEF Released
<1>2. ASSUME exists' PROVE ~Waiting(room') => Released'
  <2>1. exists
    BY <1>2, MessagesStay
  <2>2. CASE Waiting(room)
    BY <1>2, <2>2, ReleaseIsWritten
  <2>3. CASE ~Waiting(room)
    BY <1>1, <1>2, <2>1, <2>3 DEF OwnerFirst, ReleaseIsOnRecord
  <2> QED
    BY <2>2, <2>3
<1>3. ASSUME exists', NEW t \in Threads, Speaking(t)' PROVE Released'
  <2>1. exists
    BY <1>3, MessagesStay
  <2>2. /\ req'[t].op = "post" /\ req'[t].stage \in {"checked", "locked"}
        /\ req'[t].sender # Owner
    BY <1>3 DEF Speaking
  <2>3. Speaking(t) \/ ~Waiting(room)
    <3>1. CASE req'[t] = req[t]
      BY <2>2, <3>1 DEF Speaking
    <3>2. CASE Begun(t)
      BY <2>2, <3>2 DEF Begun
    <3>3. CASE Taken(t) \/ Sounds(t)
      BY <2>2, <3>3 DEF Taken, Sounds, Speaking
    <3>4. ~(req'[t] = Idle \/ Owes(t) \/ Polls(t) \/ Reads(t))
      BY <2>2 DEF Idle, Owes, Polls, Reads
    <3> QED
      BY <3>1, <3>2, <3>3, <3>4, ReqKinds
  <2>4. Released
    BY <2>1, <2>3 DEF OwnerFirst, ReleaseIsOnRecord
  <2> QED
    BY <1>1, <1>3, <2>4
<1>4. ReleaseIsOnRecord'
  BY <1>2, <1>3 DEF ReleaseIsOnRecord
<1>5. AgentsWaitForOwner'
  <2> SUFFICES ASSUME NEW s \in AgentPosts'
               PROVE  \E u \in Seqs' : u < s /\ (messages'[u].sender = Owner
                                                 \/ messages'[u].about = "gate_off")
    BY DEF AgentsWaitForOwner
  <2>1. s \in Seqs' /\ messages'[s].sender \notin {System, Owner}
    BY DEF AgentPosts, Posts
  <2>2. CASE exists' /\ s \in Seqs
    <3>1. s \in AgentPosts
      BY <2>1, <2>2, MessagesStay DEF AgentPosts, Posts
    <3>2. PICK u \in Seqs : u < s /\ (messages[u].sender = Owner
                                      \/ messages[u].about = "gate_off")
      BY <3>1 DEF OwnerFirst, AgentsWaitForOwner
    <3> QED
      BY <2>2, <3>2, MessagesStay
  <2>3. CASE exists' /\ s \notin Seqs
    <3>1. ~Marked /\ ~Removed
      BY <2>1, <2>3 DEF Marked, Removed, Seqs
    <3>2. ~\E u \in Seqs : Tombstoned(u)
      BY <2>1, <2>3, Erases
    <3>3. ~\E about \in Tags \cup Members : Noticed(about)
      <4>1. ASSUME NEW about, Adds(SystemRow(about)) PROVE FALSE
        <5> DEFINE row == SystemRow(about)
        <5>1. row.sender = System /\ Adds(row)
          BY <4>1 DEF SystemRow
        <5> HIDE DEF row
        <5> QED
          BY <2>1, <2>3, <5>1, Grows
      <4> QED
        BY <4>1 DEF Noticed
    <3>4. PICK t \in Threads : PostCommit(t)
      BY <3>1, <3>2, <3>3, StepKinds
    <3>5. Said(req[t].sender, req[t].principal, req[t].arg)
      BY <3>4, PostKindOfStep
    <3> DEFINE row == Message(req[t].sender, req[t].principal, req[t].arg)
    <3>6. Adds(row) /\ exists /\ row.sender = req[t].sender
      BY <3>5 DEF Said, Message
    <3> HIDE DEF row
    <3>7. s = NextSeq /\ req[t].sender # Owner
      BY <2>1, <2>3, <3>6, Grows
    <3>8. Speaking(t)
      BY <3>4, <3>7 DEF Speaking, PostCommit, Holds
    <3>9. PICK u \in Seqs : messages[u].sender = Owner \/ messages[u].about = "gate_off"
      BY <3>6, <3>8 DEF OwnerFirst, ReleaseIsOnRecord, Released
    <3> QED
      BY <3>6, <3>7, <3>9, Grows
  <2>4. CASE ~exists'
    <3>1. ~exists => Marked
      BY StepKinds, PostKindOfStep DEF Noticed, Tombstoned, Removed, Said
    <3>2. CASE Marked
      <4>1. s \in AgentPosts /\ messages' = messages /\ Seqs' = Seqs
        BY <2>1, <3>2 DEF Marked, AgentPosts, Posts, Seqs
      <4> QED
        BY <4>1 DEF OwnerFirst, AgentsWaitForOwner
    <3>3. CASE ~Marked
      <4>1. Removed
        BY <2>4, <3>3, StepKinds, PostKindOfStep DEF Noticed, Tombstoned, Said
      <4> QED
        BY <2>1, <4>1 DEF Removed, Seqs
    <3> QED
      BY <3>2, <3>3
  <2> QED
    BY <2>2, <2>3, <2>4
<1> QED
  BY <1>4, <1>5 DEF OwnerFirst

\* No agent speaks before the owner has posted or lifted the gate, although
\* post_message reads the gate before it takes the row and not again.
THEOREM OwnerSpeaksFirst == Spec => []AgentsWaitForOwner
<1>1. Init => OwnerFirst
  <2> SUFFICES ASSUME Init PROVE OwnerFirst
    OBVIOUS
  <2>1. AgentPosts = {}
    BY DEF Init, AgentPosts, Posts, Seqs
  <2>2. Waiting(room)
    BY DEF Init, Waiting
  <2>3. \A t \in Threads : ~Speaking(t)
    BY DEF Init, Speaking, Idle
  <2> QED
    BY <2>1, <2>2, <2>3 DEF OwnerFirst, ReleaseIsOnRecord, AgentsWaitForOwner
<1>2. OwnerFirst => AgentsWaitForOwner
  BY DEF OwnerFirst
<1> QED
  BY <1>1, <1>2, OwnerFirstStep, Invariance, PTL DEF Spec

----------------------------------------------------------------------------
(* One ping of each sort. *)

\* A ping of kind p is being sent.
Pinging(t, p) == req[t].stage = "notify" /\ PingOf(req[t].op) = p

\* A ping was sent or is due only if its flag is set; while it is due, it was
\* not sent before and nobody else sends it.
PingsFollowFlags ==
  \A p \in PingKinds :
    /\ sent[p] <= 1
    /\ sent[p] = 1 => Flag(room, p)
    /\ \A t \in Threads : Pinging(t, p) => Flag(room, p) /\ sent[p] = 0
    /\ \A t, u \in Threads : Pinging(t, p) /\ Pinging(u, p) => t = u

\* A flag once set stays set: the room is not reopened, and nothing resets
\* the reminders.
LEMMA FlagsStay ==
  ASSUME IInv, [Next]_vars, NEW p \in PingKinds, Flag(room, p)
  PROVE  Flag(room', p)
<1>0. room \in RoomRow /\ room' \in RoomRow
  BY StepInv DEF IInv, TypeOK
<1>1. SUFFICES /\ room.status = "closed" => room'.status = "closed"
               /\ room.reminded => room'.reminded
               /\ room.stall_sent => room'.stall_sent
  BY DEF Flag, PingKinds
<1>2. CASE Marked
  BY <1>2 DEF Marked
<1>3. CASE \E t \in Threads : PostCommit(t)
  <2>1. PICK sender, principal, kind : Said(sender, principal, kind)
    BY <1>3, PostKindOfStep
  <2> QED
    BY <1>0, <2>1, PostedRowKeeps DEF Said
<1>4. CASE \E about \in Tags \cup Members : Noticed(about)
  BY <1>4 DEF Noticed
<1>5. CASE \E s \in Seqs : Tombstoned(s)
  BY <1>5, Erases
<1>6. CASE Removed
  BY <1>6 DEF Removed
<1> QED
  BY <1>2, <1>3, <1>4, <1>5, <1>6, StepKinds

\* Only Notify sends.
LEMMA SendKinds ==
  ASSUME [Next]_vars
  PROVE  sent' = sent \/ \E u \in Threads : Notify(u)
<1>1. ASSUME NEW u \in Clients, Arrive(u) PROVE sent' = sent
  BY <1>1 DEF Arrive, PostPrecheck, PostNotOpened, OwnerRequest, AttachRequest,
     DetachRequest, PollStart, outside
<1>2. ASSUME NEW u \in Threads, Lock(u) \/ Fail(u) PROVE sent' = sent
  BY <1>2 DEF Lock, Fail, outside
<1>3. ASSUME NEW u \in Threads, Unlocked(u) PROVE sent' = sent \/ Notify(u)
  BY <1>3 DEF Unlocked, LockGone, MarkWorking, PollReadRoom, PollReadMessages, outside
<1>4. ASSUME SweepClose \/ SweepWarn \/ Tick \/ Quiet \/ Crash \/ UNCHANGED vars
      PROVE  sent' = sent
  BY <1>4 DEF SweepClose, SweepWarn, Tick, Quiet, Crash, vars
<1> QED
  BY <1>1, <1>2, <1>3, <1>4, LockedEnds DEF Next

\* A sent ping is the last of its kind.
LEMMA SentOnce ==
  ASSUME IInv, PingsFollowFlags, NEW u \in Threads, Notify(u)
  PROVE  PingsFollowFlags'
<1>0. /\ req \in [Threads -> Request] /\ sent \in [PingKinds -> Nat]
  BY DEF IInv, TypeOK
<1>1. /\ room' = room /\ req' = [req EXCEPT ![u] = Idle] /\ req[u].stage = "notify"
      /\ sent' = sent \/ sent' = [sent EXCEPT ![PingOf(req[u].op)] = @ + 1]
  BY DEF Notify, rows
<1>2. \A t \in Threads : req'[t].stage = "notify" => t # u /\ req'[t] = req[t]
  BY <1>0, <1>1 DEF Idle
<1> SUFFICES ASSUME NEW p \in PingKinds
             PROVE  /\ sent'[p] <= 1
                    /\ sent'[p] = 1 => Flag(room, p)
                    /\ \A t \in Threads : Pinging(t, p)' => Flag(room, p) /\ sent'[p] = 0
                    /\ \A t, v \in Threads : Pinging(t, p)' /\ Pinging(v, p)' => t = v
  BY <1>1 DEF PingsFollowFlags
<1>3. /\ sent[p] \in Nat /\ sent[p] <= 1 /\ (sent[p] = 1 => Flag(room, p))
      /\ \A t \in Threads : Pinging(t, p) => Flag(room, p) /\ sent[p] = 0
      /\ \A t, v \in Threads : Pinging(t, p) /\ Pinging(v, p) => t = v
  BY <1>0 DEF PingsFollowFlags
<1>4. \A t \in Threads : Pinging(t, p)' => t # u /\ Pinging(t, p)
  BY <1>2 DEF Pinging
<1>5. CASE sent'[p] = sent[p]
  BY <1>3, <1>4, <1>5
<1>6. CASE sent'[p] # sent[p]
  <2>1. p = PingOf(req[u].op) /\ sent'[p] = sent[p] + 1
    BY <1>0, <1>1, <1>6
  <2>2. Pinging(u, p)
    BY <1>1, <2>1 DEF Pinging
  <2>3. sent'[p] = 1 /\ Flag(room, p)
    BY <1>3, <2>1, <2>2
  <2>4. \A t \in Threads : ~Pinging(t, p)'
    BY <1>3, <1>4, <2>2
  <2> QED
    BY <2>3, <2>4
<1> QED
  BY <1>5, <1>6

\* A ping becomes due only with the commit that sets its flag.
LEMMA PingsStep ==
  IInv /\ VerdictsHold /\ PingsFollowFlags /\ [Next]_vars => PingsFollowFlags'
<1> SUFFICES ASSUME IInv, VerdictsHold, PingsFollowFlags, [Next]_vars
             PROVE  PingsFollowFlags'
  OBVIOUS
<1>1. CASE sent' = sent
  <2> SUFFICES ASSUME NEW p \in PingKinds
               PROVE  /\ sent[p] <= 1
                      /\ sent[p] = 1 => Flag(room', p)
                      /\ \A t \in Threads : Pinging(t, p)' => Flag(room', p) /\ sent[p] = 0
                      /\ \A t, u \in Threads : Pinging(t, p)' /\ Pinging(u, p)' => t = u
    BY <1>1 DEF PingsFollowFlags
  <2>1. /\ sent[p] \in Nat /\ sent[p] <= 1 /\ (sent[p] = 1 => Flag(room, p))
        /\ \A t \in Threads : Pinging(t, p) => Flag(room, p) /\ sent[p] = 0
        /\ \A t, u \in Threads : Pinging(t, p) /\ Pinging(u, p) => t = u
    BY DEF PingsFollowFlags, IInv, TypeOK
  <2>2. ASSUME NEW t \in Threads, Pinging(t, p)'
        PROVE  \/ Pinging(t, p)
               \/ req[t].stage = "locked" /\ ~Flag(room, p) /\ Flag(room', p)
    <3>1. req'[t].stage = "notify" /\ PingOf(req'[t].op) = p
      BY <2>2 DEF Pinging
    <3>2. CASE req'[t] = req[t]
      BY <3>1, <3>2 DEF Pinging
    <3>3. CASE Owes(t)
      <4>1. FoundStalled(t) => PingOf(req[t].op) = "stalled" /\ ~Flag(room, "stalled")
        BY DEF FoundStalled, Holds, PingOf, Flag, VerdictsHold, Verdict
      <4> QED
        BY <3>1, <3>3, <4>1 DEF Owes
    <3>4. ~(req'[t] = Idle \/ Begun(t) \/ Taken(t) \/ Sounds(t) \/ Polls(t) \/ Reads(t))
      BY <3>1 DEF Idle, Begun, Taken, Sounds, Polls, Reads
    <3> QED
      BY <3>2, <3>3, <3>4, ReqKinds
  <2>3. \A t, u \in Threads : req[t].stage = "locked" /\ req[u].stage = "locked" => t = u
    BY DEF IInv, LockedSnapshotIsCurrent
  <2>4. Flag(room, p) => Flag(room', p)
    BY FlagsStay
  <2>5. \A t \in Threads : Pinging(t, p)' => Flag(room', p) /\ sent[p] = 0
    BY <2>1, <2>2, <2>4
  <2>6. ASSUME NEW t \in Threads, NEW u \in Threads, Pinging(t, p)', Pinging(u, p)'
        PROVE  t = u
    <3>1. /\ \/ Pinging(t, p)
             \/ req[t].stage = "locked" /\ ~Flag(room, p)
          /\ \/ Pinging(u, p)
             \/ req[u].stage = "locked" /\ ~Flag(room, p)
      BY <2>2, <2>6
    <3> QED
      BY <2>1, <2>3, <3>1
  <2> QED
    BY <2>1, <2>4, <2>5, <2>6
<1>2. CASE \E u \in Threads : Notify(u)
  BY <1>2, SentOnce
<1> QED
  BY <1>1, <1>2, SendKinds

\* The owner gets each sort of ping at most once per room, whoever races for
\* the close or the reminder and whatever fails in between.
THEOREM PingedOnce == Spec => []PingedAtMostOnce
<1>1. Init => PingsFollowFlags
  <2> SUFFICES ASSUME Init PROVE PingsFollowFlags
    OBVIOUS
  <2>1. /\ \A p \in PingKinds : sent[p] = 0
        /\ \A t \in Threads : req[t].stage # "notify"
    BY DEF Init, Idle
  <2> QED
    BY <2>1 DEF PingsFollowFlags, Pinging
<1>2. PingsFollowFlags => PingedAtMostOnce
  BY DEF PingsFollowFlags, PingedAtMostOnce
<1> QED
  BY <1>1, <1>2, PingsStep, Invariance, VerdictsAreGood, PTL DEF Spec

----------------------------------------------------------------------------
(* What a poll hands to its agent. *)

\* Whoever was told that the room is closed, or is about to be, was told the
\* truth, and it stays true.
ToldIsFinal ==
  /\ \A m \in Members : told[m] = "closed" => room.status = "closed"
  /\ \A t \in Threads :
       req[t].stage = "read" /\ req[t].snap.status = "closed" => room.status = "closed"

\* A cursor is the number of a message that was there, or 0.
CursorsAreGiven == exists => \A m \in Members : cursor[m] \in Seqs \cup {0}

PollsAreHonest == ToldIsFinal /\ CursorsAreGiven /\ ClosedPollIsComplete

\* Only a poll's two reads give anything to an agent.
LEMMA PollKinds ==
  ASSUME [Next]_vars
  PROVE  \/ UNCHANGED <<cursor, told>>
         \/ \E u \in Threads : PollReadRoom(u) \/ PollReadMessages(u)
<1>1. ASSUME NEW u \in Clients, Arrive(u) PROVE UNCHANGED <<cursor, told>>
  BY <1>1 DEF Arrive, PostPrecheck, PostNotOpened, OwnerRequest, AttachRequest,
     DetachRequest, PollStart, outside
<1>2. ASSUME NEW u \in Threads, Lock(u) \/ Fail(u) PROVE UNCHANGED <<cursor, told>>
  BY <1>2 DEF Lock, Fail, outside
<1>3. ASSUME NEW u \in Threads, Unlocked(u)
      PROVE  UNCHANGED <<cursor, told>> \/ PollReadRoom(u) \/ PollReadMessages(u)
  BY <1>3 DEF Unlocked, LockGone, MarkWorking, Notify, outside
<1>4. ASSUME SweepClose \/ SweepWarn \/ Tick \/ Quiet \/ Crash \/ UNCHANGED vars
      PROVE  UNCHANGED <<cursor, told>>
  BY <1>4 DEF SweepClose, SweepWarn, Tick, Quiet, Crash, vars
<1> QED
  BY <1>1, <1>2, <1>3, <1>4, LockedEnds DEF Next

\* A closed room stays closed.
LEMMA ClosedStays ==
  ASSUME IInv, [Next]_vars, room.status = "closed"
  PROVE  room'.status = "closed"
BY FlagsStay DEF Flag, PingKinds

\* The first read leaves the agent with the status as it is.
LEMMA ToldStep == IInv /\ ToldIsFinal /\ [Next]_vars => ToldIsFinal'
<1> SUFFICES ASSUME IInv, ToldIsFinal, [Next]_vars PROVE ToldIsFinal'
  OBVIOUS
<1>0. told \in [Members -> {"open", "closed", "gone", None}]
  BY DEF IInv, TypeOK
<1>1. ASSUME NEW m \in Members, told'[m] = "closed" PROVE room.status = "closed"
  <2>1. CASE UNCHANGED <<cursor, told>>
    BY <1>1, <2>1 DEF ToldIsFinal
  <2>2. ASSUME NEW u \in Threads, PollReadRoom(u) PROVE room.status = "closed"
    <3>1. told' = told \/ told' = [told EXCEPT ![req[u].sender] = "gone"]
      BY <2>2 DEF PollReadRoom
    <3> QED
      BY <1>0, <1>1, <3>1 DEF ToldIsFinal
  <2>3. ASSUME NEW u \in Threads, PollReadMessages(u) PROVE room.status = "closed"
    <3>1. /\ told' = [told EXCEPT ![req[u].sender] = req[u].snap.status]
          /\ req[u].stage = "read"
      BY <2>3 DEF PollReadMessages
    <3> QED
      BY <1>0, <1>1, <3>1 DEF ToldIsFinal
  <2> QED
    BY <2>1, <2>2, <2>3, PollKinds
<1>2. ASSUME NEW t \in Threads, req'[t].stage = "read", req'[t].snap.status = "closed"
      PROVE  room.status = "closed"
  <2>1. CASE req'[t] = req[t]
    BY <1>2, <2>1 DEF ToldIsFinal
  <2>2. CASE Reads(t)
    BY <1>2, <2>2 DEF Reads
  <2>3. ~(req'[t] = Idle \/ Begun(t) \/ Taken(t) \/ Owes(t) \/ Sounds(t) \/ Polls(t))
    BY <1>2 DEF Idle, Begun, Taken, Owes, Sounds, Polls
  <2> QED
    BY <2>1, <2>2, <2>3, ReqKinds
<1> QED
  BY <1>1, <1>2, ClosedStays DEF ToldIsFinal

\* What the second read does to a cursor.
LEMMA CursorMoves ==
  ASSUME IInv, NEW u \in Threads, PollReadMessages(u), NEW m \in Members
  PROVE  /\ cursor'[m] \in {cursor[m], NextSeq - 1}
         /\ m = req[u].sender => \A s \in Seqs : s <= cursor'[m]
         /\ m # req[u].sender => cursor'[m] = cursor[m] /\ told'[m] = told[m]
         /\ NextSeq - 1 \in Seqs \cup {0}
         /\ UNCHANGED <<exists, messages, room>>
<1> DEFINE n == Cardinality(Seqs)
<1>0. /\ cursor \in [Members -> Nat] /\ cursor[m] \in Nat
      /\ told \in [Members -> {"open", "closed", "gone", None}]
  BY DEF IInv, TypeOK
<1>1. n \in Nat /\ Seqs = 1 .. n /\ NextSeq = n + 1
  BY Numbers
<1> HIDE DEF n
<1>2. /\ cursor' = [cursor EXCEPT ![req[u].sender] =
                      IF NextSeq - 1 > @ THEN NextSeq - 1 ELSE @]
      /\ told' = [told EXCEPT ![req[u].sender] = req[u].snap.status]
      /\ UNCHANGED <<exists, messages, room>>
  BY DEF PollReadMessages, rows
<1>3. NextSeq - 1 = n /\ n \in Seqs \cup {0}
  BY <1>1
<1>4. m = req[u].sender => cursor'[m] = IF n > cursor[m] THEN n ELSE cursor[m]
  BY <1>0, <1>2, <1>3
<1>5. m # req[u].sender => cursor'[m] = cursor[m] /\ told'[m] = told[m]
  BY <1>0, <1>2
<1>6. m = req[u].sender => \A s \in Seqs : s <= cursor'[m]
  BY <1>0, <1>1, <1>4
<1>7. cursor'[m] \in {cursor[m], n}
  BY <1>4, <1>5
<1> QED
  BY <1>2, <1>3, <1>5, <1>6, <1>7

\* A cursor moves to a message that is there.
LEMMA CursorStep == IInv /\ CursorsAreGiven /\ [Next]_vars => CursorsAreGiven'
<1> SUFFICES ASSUME IInv, CursorsAreGiven, [Next]_vars, exists', NEW m \in Members
             PROVE  cursor'[m] \in Seqs' \cup {0}
  BY DEF CursorsAreGiven
<1>1. cursor[m] \in Seqs' \cup {0}
  BY MessagesStay DEF CursorsAreGiven
<1>2. CASE cursor' = cursor
  BY <1>1, <1>2
<1>3. ASSUME NEW u \in Threads, PollReadMessages(u)
      PROVE  cursor'[m] \in Seqs' \cup {0}
  <2>1. /\ cursor'[m] \in {cursor[m], NextSeq - 1} /\ NextSeq - 1 \in Seqs \cup {0}
        /\ messages' = messages
    BY <1>3, CursorMoves
  <2> QED
    BY <1>1, <2>1 DEF Seqs
<1>4. ASSUME NEW u \in Threads, PollReadRoom(u) PROVE cursor' = cursor
  BY <1>4 DEF PollReadRoom
<1> QED
  BY <1>2, <1>3, <1>4, PollKinds

\* A closed room gets no more posts.
LEMMA NoMorePosts ==
  ASSUME IInv, [Next]_vars, room.status = "closed"
  PROVE  Posts' \subseteq Posts
<1>1. CASE Marked
  BY <1>1 DEF Marked, Posts, Seqs
<1>2. ~\E t \in Threads : PostCommit(t)
  BY PostKindOfStep DEF Said
<1>3. CASE \E about \in Tags \cup Members : Noticed(about)
  <2>1. PICK about : Adds(SystemRow(about))
    BY <1>3 DEF Noticed
  <2> DEFINE row == SystemRow(about)
  <2>2. Adds(row) /\ row.sender = System
    BY <2>1 DEF SystemRow
  <2> HIDE DEF row
  <2> QED
    BY <2>2, Grows DEF Posts
<1>4. CASE \E s \in Seqs : Tombstoned(s)
  BY <1>4, Erases DEF Posts
<1>5. CASE Removed
  BY <1>5 DEF Removed, Posts, Seqs
<1> QED
  BY <1>1, <1>2, <1>3, <1>4, <1>5, StepKinds

\* The last word of a room comes with the news of its close or before.
LEMMA CompleteStep ==
  IInv /\ ToldIsFinal /\ ClosedPollIsComplete /\ [Next]_vars => ClosedPollIsComplete'
<1> SUFFICES ASSUME IInv, ToldIsFinal, ClosedPollIsComplete, [Next]_vars,
                    NEW m \in Members, told'[m] = "closed", NEW s \in Posts'
             PROVE  s <= cursor'[m]
  BY DEF ClosedPollIsComplete
<1>0. told \in [Members -> {"open", "closed", "gone", None}]
  BY DEF IInv, TypeOK
<1>1. ASSUME told[m] = "closed", cursor'[m] = cursor[m] PROVE s <= cursor'[m]
  <2>1. room.status = "closed"
    BY <1>1 DEF ToldIsFinal
  <2>2. s \in Posts
    BY <2>1, NoMorePosts
  <2> QED
    BY <1>1, <2>2 DEF ClosedPollIsComplete
<1>2. ASSUME NEW u \in Threads, PollReadRoom(u)
      PROVE  told[m] = "closed" /\ cursor'[m] = cursor[m]
  <2>1. /\ told' = told \/ told' = [told EXCEPT ![req[u].sender] = "gone"]
        /\ cursor' = cursor
    BY <1>2 DEF PollReadRoom
  <2> QED
    BY <1>0, <2>1
<1>3. ASSUME NEW u \in Threads, PollReadMessages(u) PROVE s <= cursor'[m]
  <2>1. CASE m = req[u].sender
    <3>1. s \in Seqs
      BY <1>3, CursorMoves DEF Posts, Seqs
    <3> QED
      BY <1>3, <2>1, <3>1, CursorMoves
  <2>2. CASE m # req[u].sender
    BY <1>1, <1>3, <2>2, CursorMoves
  <2> QED
    BY <2>1, <2>2
<1> QED
  BY <1>1, <1>2, <1>3, PollKinds

\* What the polls rely on, in one invariant.
LEMMA PollsStep == IInv /\ PollsAreHonest /\ [Next]_vars => PollsAreHonest'
BY ToldStep, CursorStep, CompleteStep DEF PollsAreHonest

\* No member has been told anything when the room is made.
LEMMA PollsInit == Init => PollsAreHonest
<1> SUFFICES ASSUME Init PROVE PollsAreHonest
  OBVIOUS
<1>1. /\ \A m \in Members : told[m] # "closed" /\ cursor[m] = 0
      /\ \A t \in Threads : req[t].stage # "read"
  BY ConstantsAssumption DEF Init, Idle
<1>2. Posts = {}
  BY DEF Init, Posts, Seqs
<1> QED
  BY <1>1, <1>2 DEF PollsAreHonest, ToldIsFinal, CursorsAreGiven, ClosedPollIsComplete

\* An agent told that the room is closed has been given every post, however
\* the two reads of its poll interleave with posts, closes and deletions.
THEOREM ClosedPollCorrect == Spec => []ClosedPollIsComplete
<1>1. PollsAreHonest => ClosedPollIsComplete
  BY DEF PollsAreHonest
<1> QED
  BY <1>1, PollsInit, PollsStep, Invariance, PTL DEF Spec

\* A message never appears at or below the cursor of a polling agent.
THEOREM CursorsMissNothing == Spec => NothingAppearsBehindACursor
<1> DEFINE Ahead == \A s \in DOMAIN messages' \ Seqs : \A m \in Members : cursor[m] < s
<1>1. ASSUME IInv, PollsAreHonest, [Next]_vars PROVE Ahead
  <2> SUFFICES ASSUME NEW s \in Seqs', s \notin Seqs, NEW m \in Members
               PROVE  cursor[m] < s
    BY DEF Seqs
  <2>1. ASSUME NEW row, Adds(row), exists PROVE cursor[m] < s
    <3>1. s = NextSeq /\ cursor[m] \in Seqs \cup {0}
      BY <1>1, <2>1, Grows DEF PollsAreHonest, CursorsAreGiven
    <3>2. NextSeq \in Nat \ {0} /\ \A u \in Seqs : u < NextSeq
      BY <1>1, <2>1, Grows, NextSeqIsFresh DEF IInv, DataInv
    <3> QED
      BY <3>1, <3>2
  <2>2. ~Marked /\ ~Removed
    BY DEF Marked, Removed, Seqs
  <2>3. ~\E u \in Seqs : Tombstoned(u)
    BY <1>1, Erases
  <2>4. CASE \E t \in Threads : PostCommit(t)
    <3>1. PICK sender, principal, kind : Said(sender, principal, kind)
      BY <1>1, <2>4, PostKindOfStep
    <3> QED
      BY <2>1, <3>1 DEF Said
  <2>5. CASE \E about \in Tags \cup Members : Noticed(about)
    BY <2>1, <2>5 DEF Noticed
  <2> QED
    BY <1>1, <2>2, <2>3, <2>4, <2>5, StepKinds
<1> QED
  BY <1>1, PollsInit, PollsStep, Invariance, PTL DEF Spec, NothingAppearsBehindACursor

============================================================================
