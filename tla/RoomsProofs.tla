---------------------------- MODULE RoomsProofs ----------------------------
(***************************************************************************)
(* Proofs about Rooms for every set of members, machines and clients and   *)
(* every value of the caps and bounds.                                     *)
(*                                                                         *)
(* The inductive invariant is the conjunction of five parts.  None is      *)
(* inductive alone: CapHolds needs the counter to be the number of live    *)
(* messages, which needs the row a handler writes back to be the current   *)
(* one (LockedSnapshotIsCurrent) and its seq to be fresh, which needs      *)
(* GaplessTranscript; all of them need the types.                          *)
(***************************************************************************)
EXTENDS Rooms, TLAPS, FiniteSetTheorems

DataInv == GaplessTranscript /\ CountIsLive /\ CapHolds
IInv    == TypeOK /\ LockedSnapshotIsCurrent /\ DataInv

LivePosts == Live \cap Posts

----------------------------------------------------------------------------
(* The transcript and its cardinalities. *)

\* Facts about the finite sets the counters are about.
LEMMA FiniteParts ==
  ASSUME TypeOK
  PROVE  /\ IsFiniteSet(Live) /\ Cardinality(Live) \in Nat
         /\ IsFiniteSet(LivePosts) /\ Cardinality(LivePosts) \in Nat
         /\ Cardinality(LivePosts) <= Cardinality(Live)
         /\ Cardinality(Seqs) \in Nat
<1>1. Live \subseteq Seqs /\ LivePosts \subseteq Live
  BY DEF Live, LivePosts
<1>2. IsFiniteSet(Seqs)
  BY DEF TypeOK
<1> QED
  BY <1>1, <1>2, FS_Subset, FS_CardinalityType

\* _next_seq, on a transcript without gaps, counts its messages.
LEMMA NextSeqIsFresh ==
  ASSUME TypeOK, GaplessTranscript
  PROVE  /\ NextSeq = Cardinality(Seqs) + 1
         /\ NextSeq \in Nat \ {0}
         /\ NextSeq \notin Seqs
<1>0. Cardinality(Seqs) \in Nat
  BY FiniteParts
<1>1. CASE Seqs = {}
  <2>1. Cardinality(Seqs) = 0
    BY <1>1, FS_EmptySet
  <2> QED
    BY <1>1, <2>1 DEF NextSeq
<1>2. CASE Seqs # {}
  <2> DEFINE n == Cardinality(Seqs)
  <2>1. Seqs = 1 .. n
    BY DEF GaplessTranscript
  <2>2. n \in Seqs /\ \A u \in Seqs : u <= n
    BY <1>0, <1>2, <2>1
  <2>3. \A s \in Seqs : (\A u \in Seqs : u <= s) => s = n
    BY <1>0, <2>1, <2>2
  <2>4. (CHOOSE s \in Seqs : \A u \in Seqs : u <= s) = n
    <3> HIDE DEF n
    <3> QED BY <2>2, <2>3
  <2>5. NextSeq = n + 1
    BY <1>2, <2>4 DEF NextSeq
  <2>6. n + 1 \in Nat \ {0} /\ n + 1 \notin 1 .. n
    BY <1>0
  <2> QED
    BY <2>1, <2>5, <2>6
<1> QED
  BY <1>1, <1>2

\* A step that writes no message, leaves the counter alone and does not
\* reopen the room keeps the transcript's invariants.
LEMMA DataFrame ==
  ASSUME DataInv, UNCHANGED messages, exists' => exists,
         room'.message_count = room.message_count,
         room'.status = "open" => room.status = "open"
  PROVE  DataInv'
BY DEF DataInv, GaplessTranscript, CountIsLive, CapHolds, Live, Posts, Seqs

\* What adding a row under a fresh seq does to the sets.
LEMMA InsertEffect ==
  ASSUME IInv, NEW t \in Threads, NEW row \in MessageRow,
         req[t].stage = "locked", ~row.deleted, Insert(t, row)
  PROVE  /\ Seqs' = Seqs \cup {NextSeq}
         /\ messages' \in [Seqs' -> MessageRow]
         /\ GaplessTranscript'
         /\ IsFiniteSet(Seqs')
         /\ Cardinality(Live') = Cardinality(Live) + 1
         /\ row.sender = System => LivePosts' = LivePosts
         /\ Cardinality(LivePosts') <= Cardinality(LivePosts) + 1
<1>1. /\ req[t].seq = NextSeq /\ NextSeq \in Nat \ {0} /\ NextSeq \notin Seqs
      /\ NextSeq = Cardinality(Seqs) + 1
  BY NextSeqIsFresh DEF IInv, DataInv, LockedSnapshotIsCurrent
<1>2. messages' = [s \in Seqs \cup {NextSeq} |->
                     IF s = NextSeq THEN row ELSE messages[s]]
  BY <1>1 DEF Insert
<1>3. Seqs' = Seqs \cup {NextSeq}
  BY <1>2 DEF Seqs
<1>4. messages' \in [Seqs' -> MessageRow]
  BY <1>2, <1>3 DEF IInv, TypeOK
<1>5. IsFiniteSet(Seqs) /\ Cardinality(Seqs) \in Nat
  BY FiniteParts DEF IInv, TypeOK
<1>6. IsFiniteSet(Seqs') /\ Cardinality(Seqs') = Cardinality(Seqs) + 1
  BY <1>1, <1>3, <1>5, FS_AddElement
<1>7. GaplessTranscript'
  <2>1. Seqs = 1 .. Cardinality(Seqs)
    BY DEF IInv, DataInv, GaplessTranscript
  <2>2. Seqs' = 1 .. (Cardinality(Seqs) + 1)
    BY <1>1, <1>3, <1>5, <2>1
  <2> QED
    BY <1>6, <2>2 DEF GaplessTranscript
<1>8. Live' = Live \cup {NextSeq}
  BY <1>1, <1>2, <1>3 DEF Live, Seqs
<1>9. NextSeq \notin Live /\ NextSeq \notin LivePosts
  BY <1>1 DEF Live, LivePosts
<1>10. IsFiniteSet(Live) /\ IsFiniteSet(LivePosts)
       /\ Cardinality(LivePosts) \in Nat
  BY FiniteParts DEF IInv
<1>11. Cardinality(Live') = Cardinality(Live) + 1
  BY <1>8, <1>9, <1>10, FS_AddElement
<1>12. row.sender = System => LivePosts' = LivePosts
  BY <1>1, <1>2, <1>3 DEF Live, Posts, LivePosts, Seqs
<1>13. row.sender # System => LivePosts' = LivePosts \cup {NextSeq}
  BY <1>1, <1>2, <1>3 DEF Live, Posts, LivePosts, Seqs
<1>14. Cardinality(LivePosts \cup {NextSeq}) = Cardinality(LivePosts) + 1
  BY <1>9, <1>10, FS_AddElement
<1> QED
  BY <1>3, <1>4, <1>6, <1>7, <1>10, <1>11, <1>12, <1>13, <1>14

\* A server-authored notice: counted, but no post.
LEMMA DataNotice ==
  ASSUME IInv, NEW t \in Threads, NEW row \in MessageRow,
         req[t].stage = "locked", Insert(t, row),
         ~row.deleted, row.sender = System, UNCHANGED exists,
         room'.message_count = room.message_count + 1,
         room'.status = room.status
  PROVE  DataInv'
<1>1. /\ GaplessTranscript'
      /\ Cardinality(Live') = Cardinality(Live) + 1
      /\ LivePosts' = LivePosts
  BY InsertEffect
<1>2. CountIsLive'
  BY <1>1 DEF CountIsLive, IInv, DataInv
<1>3. CapHolds'
  BY <1>1 DEF CapHolds, LivePosts, IInv, DataInv
<1> QED
  BY <1>1, <1>2, <1>3 DEF DataInv

\* A post: counted, and the room is left open only below the cap.
LEMMA DataPost ==
  ASSUME IInv, NEW t \in Threads, NEW row \in MessageRow,
         req[t].stage = "locked", Insert(t, row),
         ~row.deleted, exists, UNCHANGED exists, room.status = "open",
         room'.message_count = room.message_count + 1,
         room'.status = "open" => room'.message_count < MaxMessages,
         TypeOK'
  PROVE  DataInv'
<1>1. /\ GaplessTranscript'
      /\ Cardinality(Live') = Cardinality(Live) + 1
      /\ Cardinality(LivePosts') <= Cardinality(LivePosts) + 1
  BY InsertEffect
<1>2. CountIsLive'
  BY <1>1 DEF CountIsLive, IInv, DataInv
<1>3. /\ Cardinality(LivePosts) \in Nat
      /\ Cardinality(LivePosts)' \in Nat
      /\ Cardinality(Live)' \in Nat
      /\ Cardinality(LivePosts)' <= Cardinality(Live)'
  <2>1. TypeOK BY DEF IInv
  <2>2. Cardinality(LivePosts) \in Nat BY <2>1, FiniteParts
  <2>3. Live' \subseteq Seqs' /\ LivePosts' \subseteq Live'
    BY DEF Live, LivePosts
  <2>4. IsFiniteSet(Seqs')
    BY DEF TypeOK
  <2> QED
    BY <2>2, <2>3, <2>4, FS_Subset, FS_CardinalityType
<1>4. Cardinality(LivePosts) < MaxMessages
  BY DEF IInv, DataInv, CapHolds, LivePosts
<1>5. MaxMessages \in Nat
  BY ConstantsAssumption
<1>6. Cardinality(LivePosts)' <= MaxMessages
  BY <1>1, <1>3, <1>4, <1>5
<1>7. exists' /\ room'.status = "open" => Cardinality(LivePosts)' < MaxMessages
  BY <1>2, <1>3, <1>5 DEF CountIsLive
<1> QED
  BY <1>1, <1>2, <1>6, <1>7 DEF DataInv, CapHolds, LivePosts

\* delete_message: the tombstone leaves the live set, the counter follows.
LEMMA DataTombstone ==
  ASSUME IInv, exists, UNCHANGED exists, NEW s \in Seqs, ~messages[s].deleted,
         messages' = [messages EXCEPT ![s].deleted = TRUE],
         room'.message_count = IF room.message_count > 0
                               THEN room.message_count - 1 ELSE 0,
         room'.status = room.status
  PROVE  DataInv'
<1>1. messages \in [Seqs -> MessageRow] /\ IsFiniteSet(Seqs)
  BY DEF IInv, TypeOK
<1>2. /\ DOMAIN messages' = Seqs
      /\ \A u \in Seqs : /\ messages'[u].deleted = (u = s \/ messages[u].deleted)
                         /\ messages'[u].sender = messages[u].sender
  BY <1>1 DEF MessageRow
<1>3. Live' = Live \ {s} /\ LivePosts' = LivePosts \ {s} /\ s \in Live
  BY <1>2 DEF Live, Posts, LivePosts, Seqs
<1>4. /\ IsFiniteSet(Live) /\ Cardinality(Live) \in Nat
      /\ IsFiniteSet(LivePosts) /\ Cardinality(LivePosts) \in Nat
  BY FiniteParts DEF IInv
<1>5. Cardinality(Live)' = Cardinality(Live) - 1 /\ Cardinality(Live) > 0
  <2>1. Cardinality(Live \ {s}) = Cardinality(Live) - 1
    BY <1>3, <1>4, FS_RemoveElement
  <2>2. IsFiniteSet(Live \ {s}) /\ Cardinality(Live \ {s}) \in Nat
    BY <1>4, FS_Subset, FS_CardinalityType
  <2> QED
    BY <1>3, <1>4, <2>1, <2>2
<1>6. Cardinality(LivePosts)' <= Cardinality(LivePosts)
      /\ Cardinality(LivePosts)' \in Nat
  BY <1>3, <1>4, FS_Subset, FS_CardinalityType
<1>7. GaplessTranscript'
  BY <1>2 DEF GaplessTranscript, Seqs, IInv, DataInv
<1>8. CountIsLive'
  BY <1>4, <1>5 DEF CountIsLive, IInv, DataInv
<1>9. CapHolds'
  BY <1>4, <1>6, ConstantsAssumption DEF CapHolds, LivePosts, IInv, DataInv
<1> QED
  BY <1>7, <1>8, <1>9 DEF DataInv

\* delete_room leaves nothing behind.
LEMMA DataDelete ==
  ASSUME messages' = [s \in {} |-> None], exists' = FALSE
  PROVE  DataInv' /\ IsFiniteSet(Seqs')
<1>1. Seqs' = {} /\ Live' = {} /\ (Live \cap Posts)' = {}
  BY DEF Seqs, Live, Posts
<1>2. Cardinality({}) = 0 /\ IsFiniteSet({})
  BY FS_EmptySet
<1>3. {} = 1 .. 0
  OBVIOUS
<1> QED
  BY <1>1, <1>2, <1>3, ConstantsAssumption
  DEF DataInv, GaplessTranscript, CountIsLive, CapHolds

----------------------------------------------------------------------------
(* The row lock. *)

\* The holder of the row gives it up: nobody is locked any more.
LEMMA LockGivenUp ==
  ASSUME IInv, NEW t \in Threads, req[t].stage = "locked", NEW next,
         next.stage # "locked", req' = [req EXCEPT ![t] = next]
  PROVE  LockedSnapshotIsCurrent'
<1> SUFFICES ASSUME NEW u \in Threads, req'[u].stage = "locked"
             PROVE  FALSE
  BY DEF LockedSnapshotIsCurrent
<1>1. u # t /\ req'[u] = req[u]
  BY DEF IInv, TypeOK
<1> QED
  BY <1>1 DEF IInv, LockedSnapshotIsCurrent

\* A thread that does not hold the row moves on without taking it; no row and
\* no message changes.
LEMMA LockElsewhere ==
  ASSUME IInv, NEW t \in Threads, NEW next, next.stage # "locked",
         req' = [req EXCEPT ![t] = next], \A u \in Threads \ {t} : lock = u => lock' = u,
         UNCHANGED <<exists, room, messages>>
  PROVE  LockedSnapshotIsCurrent'
<1> SUFFICES ASSUME NEW u \in Threads, req'[u].stage = "locked"
             PROVE  /\ lock' = u /\ exists' /\ req'[u].snap = room'
                    /\ req'[u].seq = NextSeq'
  BY DEF LockedSnapshotIsCurrent
<1>1. u # t /\ req'[u] = req[u]
  BY DEF IInv, TypeOK
<1>2. NextSeq' = NextSeq
  BY DEF NextSeq, Seqs
<1> QED
  BY <1>1, <1>2 DEF IInv, LockedSnapshotIsCurrent

----------------------------------------------------------------------------
(* The types. *)

\* Requests as they are born and as they end are well formed.
LEMMA IdleTyped == Idle \in Request /\ WellFormed(Idle)
BY DEF Idle, Request, WellFormed

\* A thread's next request keeps the type of `req'.
LEMMA ReqTyped ==
  ASSUME TypeOK, NEW t \in Threads, NEW next \in Request, WellFormed(next),
         req' = [req EXCEPT ![t] = next]
  PROVE  /\ req' \in [Threads -> Request]
         /\ \A u \in Threads : WellFormed(req'[u])
BY DEF TypeOK

\* The request a handler starts with.
LEMMA StartTyped ==
  ASSUME TypeOK, NEW t \in Threads, NEW op \in LockOps,
         NEW sender \in Members \cup {Owner, None},
         NEW principal \in Machines \cup {Owner, None},
         NEW arg \in PostKinds \cup CloseReasons \cup {"upload", "brain", None},
         op = "post" => /\ sender # None /\ principal # None /\ arg \in PostKinds,
         op = "close" => arg \in CloseReasons, op # "ping_stall",
         Start(t, op, sender, principal, arg)
  PROVE  /\ req' \in [Threads -> Request]
         /\ \A u \in Threads : WellFormed(req'[u])
         /\ \E next : next.stage # "locked" /\ req' = [req EXCEPT ![t] = next]
<1> DEFINE next == [Idle EXCEPT !.op = op, !.stage = "checked", !.sender = sender,
                                !.principal = principal, !.arg = arg]
<1>1. next \in Request
  BY DEF Idle, Request
<1>2. WellFormed(next)
  BY DEF Idle, WellFormed
<1>3. req' = [req EXCEPT ![t] = next]
  BY DEF Start
<1>4. next.stage # "locked"
  BY DEF Idle
<1> QED
  <2> HIDE DEF next
  <2> QED BY <1>1, <1>2, <1>3, <1>4, ReqTyped

\* A step that only starts a request keeps the invariant.
LEMMA StartKeepsInv ==
  ASSUME IInv, NEW t \in Threads, NEW next, next.stage # "locked",
         req' = [req EXCEPT ![t] = next],
         req' \in [Threads -> Request],
         \A u \in Threads : WellFormed(req'[u]),
         UNCHANGED <<exists, room, messages, seats, lock, msgOld>>,
         files' \in Nat, UNCHANGED <<clock, polled, cursor, told, sent, crashes>>,
         sweep' \in {"close", "warn"}
  PROVE  IInv'
<1>1. TypeOK'
  BY DEF IInv, TypeOK, Seqs
<1>2. LockedSnapshotIsCurrent'
  BY LockElsewhere
<1>3. DataInv'
  BY DataFrame DEF IInv
<1> QED
  BY <1>1, <1>2, <1>3 DEF IInv

----------------------------------------------------------------------------
(* The steps, action by action. *)

\* A request that arrives.
LEMMA ArriveStep ==
  ASSUME IInv, NEW t \in Clients, Arrive(t)
  PROVE  IInv'
<1>0. t \in Threads /\ TypeOK
  BY DEF Threads, IInv
<1>1. CASE PostPrecheck(t)
  <2>1. PICK sender \in Members \cup {Owner}, principal \in Machines \cup {Owner},
             kind \in Kinds : Start(t, "post", sender, principal, kind)
    BY <1>1 DEF PostPrecheck
  <2>2. kind \in PostKinds /\ sender # None /\ principal # None
    BY ConstantsAssumption DEF PostKinds
  <2>3. /\ req' \in [Threads -> Request]
        /\ \A u \in Threads : WellFormed(req'[u])
        /\ \E next : next.stage # "locked" /\ req' = [req EXCEPT ![t] = next]
    BY <1>0, <2>1, <2>2, StartTyped DEF LockOps, InsertOps
  <2> QED
    BY <1>0, <1>1, <2>3, StartKeepsInv DEF PostPrecheck, rows, outside, IInv, TypeOK
<1>2. CASE PostNotOpened(t)
  <2>1. PICK sender \in Members : Start(t, "ping_open", sender, None, None)
    BY <1>2 DEF PostNotOpened
  <2>3. /\ req' \in [Threads -> Request]
        /\ \A u \in Threads : WellFormed(req'[u])
        /\ \E next : next.stage # "locked" /\ req' = [req EXCEPT ![t] = next]
    BY <1>0, <2>1, StartTyped DEF LockOps, InsertOps
  <2> QED
    BY <1>0, <1>2, <2>3, StartKeepsInv DEF PostNotOpened, rows, outside, IInv, TypeOK
<1>3. CASE OwnerRequest(t)
  <2>1. \/ \E reason \in Reasons : Start(t, "close", None, Owner, reason)
        \/ \E op \in {"mode", "uploads", "gate", "seat", "delete_message",
                      "delete_room"} : Start(t, op, None, Owner, None)
    BY <1>3 DEF OwnerRequest
  <2>2. Reasons \subseteq CloseReasons
    BY ConstantsAssumption DEF CloseReasons
  <2>3. /\ req' \in [Threads -> Request]
        /\ \A u \in Threads : WellFormed(req'[u])
        /\ \E next : next.stage # "locked" /\ req' = [req EXCEPT ![t] = next]
    <3>1. CASE \E reason \in Reasons : Start(t, "close", None, Owner, reason)
      BY <1>0, <2>2, <3>1, StartTyped DEF LockOps, InsertOps
    <3>2. CASE \E op \in {"mode", "uploads", "gate", "seat", "delete_message",
                          "delete_room"} : Start(t, op, None, Owner, None)
      BY <1>0, <3>2, StartTyped DEF LockOps, InsertOps
    <3> QED
      BY <2>1, <3>1, <3>2
  <2> QED
    BY <1>0, <1>3, <2>3, StartKeepsInv DEF OwnerRequest, rows, outside, IInv, TypeOK
<1>4. CASE AttachRequest(t)
  <2>1. PICK sender \in Members \cup {Owner}, principal \in Machines \cup {Owner},
             source \in {"upload", "brain"} :
               Start(t, "attach", sender, principal, source)
    BY <1>4 DEF AttachRequest
  <2>3. /\ req' \in [Threads -> Request]
        /\ \A u \in Threads : WellFormed(req'[u])
        /\ \E next : next.stage # "locked" /\ req' = [req EXCEPT ![t] = next]
    BY <1>0, <2>1, StartTyped DEF LockOps, InsertOps
  <2> QED
    BY <1>0, <1>4, <2>3, StartKeepsInv DEF AttachRequest, rows, outside, IInv, TypeOK
<1>5. CASE DetachRequest(t)
  <2>1. Start(t, "announce", None, Owner, None)
    BY <1>5 DEF DetachRequest
  <2>3. /\ req' \in [Threads -> Request]
        /\ \A u \in Threads : WellFormed(req'[u])
        /\ \E next : next.stage # "locked" /\ req' = [req EXCEPT ![t] = next]
    BY <1>0, <2>1, StartTyped DEF LockOps, InsertOps
  <2>4. files' \in Nat
    BY <1>0, <1>5 DEF DetachRequest, TypeOK
  <2> QED
    BY <1>0, <1>5, <2>3, <2>4, StartKeepsInv DEF DetachRequest, outside, IInv, TypeOK
<1>6. CASE PollStart(t)
  <2>1. PICK m \in Members, who \in Machines \cup {None},
              stage \in {"marking", "reading"} :
          req' = [req EXCEPT ![t] =
                    [Idle EXCEPT !.op = "poll", !.sender = m, !.principal = who,
                                 !.stage = stage]]
    <3>1. PICK m \in Pollers, principal \in Machines \cup {None} :
            LET marks == exists /\ principal # None /\ seats[m] \in {None, principal}
            IN  req' = [req EXCEPT ![t] =
                     [Idle EXCEPT !.op = "poll", !.sender = m,
                                  !.principal = IF marks THEN principal ELSE None,
                                  !.stage = IF marks THEN "marking" ELSE "reading"]]
      BY <1>6 DEF PollStart
    <3>2. m \in Members
      BY ConstantsAssumption
    <3>3. CASE exists /\ principal # None /\ seats[m] \in {None, principal}
      BY <3>1, <3>2, <3>3
    <3>4. CASE ~(exists /\ principal # None /\ seats[m] \in {None, principal})
      BY <3>1, <3>2, <3>4
    <3> QED
      BY <3>3, <3>4
  <2> DEFINE next == [Idle EXCEPT !.op = "poll", !.sender = m, !.principal = who,
                                  !.stage = stage]
  <2>2. next \in Request /\ WellFormed(next) /\ next.stage # "locked"
    BY DEF Idle, Request, WellFormed
  <2>3. req' = [req EXCEPT ![t] = next]
    BY <2>1
  <2> HIDE DEF next
  <2>4. /\ req' \in [Threads -> Request]
        /\ \A u \in Threads : WellFormed(req'[u])
    BY <1>0, <2>2, <2>3, ReqTyped
  <2> QED
    BY <1>0, <1>6, <2>2, <2>3, <2>4, StartKeepsInv
    DEF PollStart, rows, outside, IInv, TypeOK
<1> QED
  BY <1>1, <1>2, <1>3, <1>4, <1>5, <1>6 DEF Arrive

\* SELECT ... FOR UPDATE: the snapshot is the row, the seq the next one.
LEMMA LockStep ==
  ASSUME IInv, NEW t \in Threads, Lock(t)
  PROVE  IInv'
<1> DEFINE next == [req[t] EXCEPT !.stage = "locked", !.snap = room, !.seq = NextSeq]
<1>0. TypeOK /\ GaplessTranscript /\ NextSeq \in Nat /\ req[t] \in Request
  BY NextSeqIsFresh DEF IInv, DataInv, TypeOK
<1>1. req' = [req EXCEPT ![t] = next]
  BY <1>0 DEF Lock, TypeOK
<1>2. next \in Request
  BY <1>0 DEF Request, TypeOK
<1>3. WellFormed(next)
  BY <1>0 DEF TypeOK, WellFormed, Lock, Request
<1>4. TypeOK'
  <2>1. /\ req' \in [Threads -> Request]
        /\ \A u \in Threads : WellFormed(req'[u])
    <3> HIDE DEF next
    <3> QED BY <1>0, <1>1, <1>2, <1>3, ReqTyped
  <2> QED
    BY <1>0, <2>1 DEF Lock, TypeOK, Seqs, outside, rows
<1>5. LockedSnapshotIsCurrent'
  <2> SUFFICES ASSUME NEW u \in Threads, req'[u].stage = "locked"
               PROVE  /\ lock' = u /\ exists' /\ req'[u].snap = room'
                      /\ req'[u].seq = NextSeq'
    BY DEF LockedSnapshotIsCurrent
  <2>1. NextSeq' = NextSeq
    BY DEF Lock, NextSeq, Seqs, rows
  <2>2. CASE u = t
    BY <1>0, <2>1, <2>2 DEF Lock, rows, TypeOK, Request
  <2>3. CASE u # t
    <3>1. req[u].stage = "locked"
      BY <1>0, <1>1, <2>3 DEF TypeOK
    <3>2. lock = u /\ lock = None
      BY <3>1 DEF IInv, LockedSnapshotIsCurrent, Lock
    <3> QED
      BY <3>2, ConstantsAssumption
  <2> QED
    BY <2>2, <2>3
<1>6. DataInv'
  BY DataFrame DEF Lock, IInv, rows
<1> QED
  BY <1>4, <1>5, <1>6 DEF IInv

\* However a handler ends, it gives the row up and leaves a typed request.
LEMMA FinishEffect ==
  ASSUME IInv, NEW t \in Threads, req[t].stage = "locked",
         Finish(t) \/ FinishNotify(t) \/ FinishAnnounce(t)
  PROVE  /\ lock' = None
         /\ req' \in [Threads -> Request]
         /\ \A u \in Threads : WellFormed(req'[u])
         /\ LockedSnapshotIsCurrent'
<1> DEFINE note == [Idle EXCEPT !.op = req[t].op, !.stage = "notify"]
           ann  == [Idle EXCEPT !.op = "announce", !.stage = "checked"]
<1>0. TypeOK /\ req[t] \in Request
  BY DEF IInv, TypeOK
<1>1. /\ note \in Request /\ WellFormed(note) /\ note.stage # "locked"
  <2> DEFINE op == req[t].op
  <2>1. op \in LockOps \cup {"idle", "poll"}
    BY <1>0 DEF Request
  <2>2. note = [Idle EXCEPT !.op = op, !.stage = "notify"]
    OBVIOUS
  <2> HIDE DEF note, op
  <2> QED
    BY <2>1, <2>2 DEF Idle, Request, WellFormed
<1>2. /\ ann \in Request /\ WellFormed(ann) /\ ann.stage # "locked"
  BY DEF Idle, Request, WellFormed, LockOps, InsertOps
<1>3. Idle \in Request /\ WellFormed(Idle) /\ Idle.stage # "locked"
  BY IdleTyped DEF Idle
<1>4. /\ lock' = None
      /\ \E next \in {Idle, note, ann} : req' = [req EXCEPT ![t] = next]
  BY DEF Finish, FinishNotify, FinishAnnounce
<1> HIDE DEF note, ann
<1> QED
  BY <1>0, <1>1, <1>2, <1>3, <1>4, ReqTyped, LockGivenUp

\* The row and the seq of the handler that holds the lock.
LEMMA Holder ==
  ASSUME IInv, NEW t \in Threads, req[t].stage = "locked"
  PROVE  /\ req[t].snap = room /\ room \in RoomRow /\ exists
         /\ req[t] \in Request /\ WellFormed(req[t]) /\ TypeOK
BY DEF IInv, TypeOK, LockedSnapshotIsCurrent

\* A verdict that the room is stalled, noted while the row stays locked.
LEMMA VerdictStep ==
  ASSUME IInv, NEW t \in Threads, req[t].stage = "locked", req[t].op = "ping_stall",
         req' = [req EXCEPT ![t].arg = "stalled"], UNCHANGED <<rows, lock, outside>>
  PROVE  IInv'
<1> DEFINE next == [req[t] EXCEPT !.arg = "stalled"]
<1>0. TypeOK /\ req \in [Threads -> Request] /\ req[t] \in Request
  BY DEF IInv, TypeOK
<1>1. /\ next \in Request /\ next.op = req[t].op /\ next.stage = req[t].stage
      /\ next.snap = req[t].snap /\ next.seq = req[t].seq
  BY <1>0 DEF Request
<1>2. WellFormed(next)
  BY <1>1 DEF WellFormed
<1>3. req' = [req EXCEPT ![t] = next]
  OBVIOUS
<1> HIDE DEF next
<1>4. /\ req' \in [Threads -> Request]
      /\ \A u \in Threads : WellFormed(req'[u])
  BY <1>0, <1>1, <1>2, <1>3, ReqTyped
<1>5. TypeOK'
  BY <1>0, <1>4 DEF TypeOK, Seqs, rows, outside
<1>6. \A u \in Threads : /\ req'[u].stage = req[u].stage
                         /\ req'[u].snap = req[u].snap /\ req'[u].seq = req[u].seq
  BY <1>0, <1>1, <1>3
<1>7. NextSeq' = NextSeq /\ UNCHANGED <<exists, room>>
  BY DEF NextSeq, Seqs, rows
<1>8. LockedSnapshotIsCurrent'
  BY <1>6, <1>7 DEF IInv, LockedSnapshotIsCurrent
<1>9. DataInv'
  BY DataFrame DEF IInv, rows
<1> QED
  BY <1>5, <1>8, <1>9 DEF IInv

\* A commit that writes no message.
LEMMA RowCommit ==
  ASSUME IInv, NEW t \in Threads, req[t].stage = "locked",
         Finish(t) \/ FinishNotify(t) \/ FinishAnnounce(t),
         UNCHANGED <<exists, messages, msgOld, outside>>,
         seats' \in [Members -> Machines \cup {None}], files' \in Nat,
         room' \in RoomRow, room'.message_count = room.message_count,
         room'.status = "open" => room.status = "open"
  PROVE  IInv'
<1>1. /\ lock' = None
      /\ req' \in [Threads -> Request]
      /\ \A u \in Threads : WellFormed(req'[u])
      /\ LockedSnapshotIsCurrent'
  BY FinishEffect
<1>2. TypeOK'
  BY <1>1 DEF IInv, TypeOK, Seqs, outside
<1>3. DataInv'
  BY DataFrame DEF IInv
<1> QED
  BY <1>1, <1>2, <1>3 DEF IInv

\* The types of a commit that adds a message.
LEMMA InsertTyped ==
  ASSUME IInv, NEW t \in Threads, req[t].stage = "locked",
         Finish(t) \/ FinishNotify(t) \/ FinishAnnounce(t),
         NEW row \in MessageRow, ~row.deleted, Insert(t, row),
         UNCHANGED <<exists, files, outside>>,
         seats' \in [Members -> Machines \cup {None}], room' \in RoomRow
  PROVE  TypeOK'
<1>1. /\ lock' = None
      /\ req' \in [Threads -> Request]
      /\ \A u \in Threads : WellFormed(req'[u])
  BY FinishEffect
<1>2. /\ Seqs' = Seqs \cup {NextSeq} /\ messages' \in [Seqs' -> MessageRow]
      /\ IsFiniteSet(Seqs')
  BY InsertEffect
<1>3. NextSeq \in Nat \ {0}
  BY NextSeqIsFresh DEF IInv, DataInv
<1>4. msgOld' \in BOOLEAN
  BY DEF Insert
<1> QED
  BY <1>1, <1>2, <1>3, <1>4 DEF IInv, TypeOK, outside

\* A server-authored notice.
LEMMA NoticeCommit ==
  ASSUME IInv, NEW t \in Threads, req[t].stage = "locked", Finish(t),
         NEW about \in {"nudge", "mode", "uploads", "gate_on", "gate_off",
                        "file", None} \cup Members,
         Insert(t, SystemRow(about)), UNCHANGED <<exists, files, outside>>,
         seats' \in [Members -> Machines \cup {None}],
         room' \in RoomRow, room'.message_count = room.message_count + 1,
         room'.status = room.status
  PROVE  IInv'
<1>1. /\ SystemRow(about) \in MessageRow /\ ~SystemRow(about).deleted
      /\ SystemRow(about).sender = System
  BY DEF SystemRow, MessageRow
<1>2. TypeOK'
  BY <1>1, InsertTyped
<1>3. LockedSnapshotIsCurrent'
  BY FinishEffect
<1>4. DataInv'
  BY <1>1, DataNotice
<1> QED
  BY <1>2, <1>3, <1>4 DEF IInv

\* The row a post commits has the type of a room row, counts the post and is
\* open only below the cap.
LEMMA PostedRowTyped ==
  ASSUME NEW row \in RoomRow, NEW sender, NEW kind
  PROVE  /\ PostedRow(row, sender, kind) \in RoomRow
         /\ PostedRow(row, sender, kind).message_count = row.message_count + 1
         /\ PostedRow(row, sender, kind).status = "open"
              => row.message_count + 1 < MaxMessages
<1> DEFINE opens  == sender = Owner /\ ~row.opened
           count  == row.message_count + 1
           reason == IF kind = "done" THEN "done"
                     ELSE IF count >= MaxMessages THEN "cap" ELSE None
           opened == row.opened \/ opens
           deadline == IF opens /\ row.deadline = "deferred" THEN "set"
                       ELSE row.deadline
           status == IF reason = None THEN row.status ELSE "closed"
<1>1. opened \in BOOLEAN
  BY DEF RoomRow
<1>2. deadline \in {"none", "deferred", "set"}
  BY DEF RoomRow
<1>3. count \in Nat /\ MaxMessages \in Nat
  BY ConstantsAssumption DEF RoomRow
<1>4. reason \in CloseReasons \cup {None} /\ (reason = None => count < MaxMessages)
  BY <1>3, ConstantsAssumption DEF CloseReasons
<1>5. status \in {"open", "closed"} /\ (status = "open" => reason = None)
  BY DEF RoomRow
<1>6. PostedRow(row, sender, kind) =
        [row EXCEPT !.opened = opened, !.deadline = deadline,
                    !.message_count = count, !.status = status,
                    !.close_reason = reason]
  BY Zenon DEF PostedRow
<1> HIDE DEF opens, count, reason, opened, deadline, status
<1>7. /\ PostedRow(row, sender, kind) \in RoomRow
      /\ PostedRow(row, sender, kind).message_count = count
      /\ PostedRow(row, sender, kind).status = status
  BY <1>1, <1>2, <1>3, <1>4, <1>5, <1>6 DEF RoomRow
<1> QED
  BY <1>4, <1>5, <1>7 DEF count

\* post_message.
LEMMA PostStep ==
  ASSUME IInv, NEW t \in Threads, PostCommit(t)
  PROVE  IInv'
<1> DEFINE r == req[t]
           row == [sender |-> r.sender, principal |-> r.principal,
                   kind |-> r.arg, about |-> None, deleted |-> FALSE]
<1>1. r.stage = "locked" /\ r.op = "post" /\ r.snap.status = "open"
  BY DEF PostCommit, Holds
<1>2. r.snap = room /\ room \in RoomRow /\ exists /\ r \in Request
      /\ WellFormed(r) /\ TypeOK
  BY <1>1, Holder
<1>3. /\ r.sender \in Members \cup {Owner}
      /\ r.principal \in Machines \cup {Owner} /\ r.arg \in PostKinds
  BY <1>1, <1>2 DEF WellFormed
<1>4. row \in MessageRow /\ ~row.deleted
  BY <1>3 DEF MessageRow
<1>5. room' = PostedRow(room, r.sender, r.arg)
  BY <1>2 DEF PostCommit
<1>6. room' \in RoomRow
  BY <1>2, <1>5, PostedRowTyped
<1>7. /\ room'.message_count = room.message_count + 1
      /\ room'.status = "open" => room'.message_count < MaxMessages
  BY <1>2, <1>5, PostedRowTyped
<1>8. seats' \in [Members -> Machines \cup {None}]
  BY <1>2 DEF PostCommit, BindSeat, Seated, TypeOK
<1>9. Insert(t, row) /\ (Finish(t) \/ FinishNotify(t))
      /\ UNCHANGED <<exists, files, outside>>
  BY DEF PostCommit
<1> HIDE DEF row, r
<1>10. TypeOK'
  BY <1>1, <1>4, <1>6, <1>8, <1>9, InsertTyped DEF r
<1>11. LockedSnapshotIsCurrent'
  BY <1>1, <1>9, FinishEffect DEF r
<1>12. DataInv'
  BY <1>1, <1>2, <1>4, <1>7, <1>9, <1>10, DataPost DEF r
<1> QED
  BY <1>10, <1>11, <1>12 DEF IInv

\* A notice's row: one message more, everything else as it was.
LEMMA AnnouncedTyped ==
  ASSUME NEW row \in RoomRow
  PROVE  /\ Announced(row) \in RoomRow
         /\ Announced(row).message_count = row.message_count + 1
         /\ Announced(row).status = row.status
BY DEF RoomRow, Announced

\* Every other commit of a handler that holds the row.
LEMMA LockedStep ==
  ASSUME IInv, NEW t \in Threads, Locked(t)
  PROVE  IInv'
<1> USE DEF Holds
<1>0. ASSUME req[t].stage = "locked"
      PROVE  /\ req[t].snap = room /\ room \in RoomRow /\ exists
             /\ req[t] \in Request /\ WellFormed(req[t]) /\ TypeOK
             /\ seats \in [Members -> Machines \cup {None}] /\ files \in Nat
  BY <1>0, Holder DEF TypeOK
<1>1. CASE PostCommit(t)
  BY <1>1, PostStep
<1>2. CASE PostRefused(t)
  BY <1>0, <1>2, RowCommit DEF PostRefused, rows
<1>3. CASE NotOpen(t)
  BY <1>0, <1>3, RowCommit DEF NotOpen, rows
<1>4. CASE CloseRoom(t)
  <2>1. req[t].stage = "locked" /\ req[t].arg \in CloseReasons
    BY <1>0, <1>4 DEF CloseRoom, WellFormed
  <2>2. /\ room' \in RoomRow /\ room'.message_count = room.message_count
        /\ room'.status = "open" => room.status = "open"
    <3>1. CASE room.status = "closed"
      BY <1>0, <1>4, <2>1, <3>1 DEF CloseRoom
    <3>2. CASE room.status # "closed"
      <4>1. room' = [room EXCEPT !.status = "closed", !.close_reason = req[t].arg]
        BY <1>0, <1>4, <2>1, <3>2 DEF CloseRoom
      <4> QED
        BY <1>0, <2>1, <4>1 DEF RoomRow
    <3> QED
      BY <3>1, <3>2
  <2>3. (Finish(t) \/ FinishNotify(t))
        /\ UNCHANGED <<exists, messages, msgOld, seats, files, outside>>
    BY <1>4 DEF CloseRoom
  <2> QED
    BY <1>0, <2>1, <2>2, <2>3, RowCommit
<1>5. CASE DeleteMessage(t)
  <2>0. req[t].stage = "locked"
    BY <1>5 DEF DeleteMessage
  <2>1. PICK s \in Seqs :
          IF messages[s].deleted
          THEN UNCHANGED <<room, messages>>
          ELSE /\ messages' = [messages EXCEPT ![s].deleted = TRUE]
               /\ room' = [room EXCEPT !.message_count = IF @ > 0 THEN @ - 1 ELSE 0]
    BY <1>0, <1>5, <2>0 DEF DeleteMessage
  <2>2. Finish(t) /\ UNCHANGED <<exists, seats, files, msgOld, outside>>
    BY <1>5 DEF DeleteMessage
  <2>3. CASE messages[s].deleted
    BY <1>0, <2>0, <2>1, <2>2, <2>3, RowCommit
  <2>4. CASE ~messages[s].deleted
    <3> DEFINE count == IF room.message_count > 0 THEN room.message_count - 1 ELSE 0
    <3>1. /\ messages' = [messages EXCEPT ![s].deleted = TRUE]
          /\ room' = [room EXCEPT !.message_count = count]
      BY <2>1, <2>4
    <3>2. count \in Nat
      BY <1>0, <2>0 DEF RoomRow
    <3>3. room' \in RoomRow /\ room'.message_count = count
          /\ room'.status = room.status
      <4> HIDE DEF count
      <4> QED BY <1>0, <2>0, <3>1, <3>2 DEF RoomRow
    <3>4. DataInv'
      BY <1>0, <2>0, <2>2, <2>4, <3>1, <3>3, DataTombstone
    <3>5. /\ lock' = None /\ LockedSnapshotIsCurrent'
          /\ req' \in [Threads -> Request]
          /\ \A u \in Threads : WellFormed(req'[u])
      BY <2>0, <2>2, FinishEffect
    <3>6. messages' \in [Seqs -> MessageRow] /\ Seqs' = Seqs
      <4> DEFINE row   == messages[s]
                 stone == [messages[s] EXCEPT !.deleted = TRUE]
      <4>1. messages \in [Seqs -> MessageRow]
        BY <1>0, <2>0 DEF TypeOK
      <4>2. row \in MessageRow
        BY <4>1
      <4>3. stone \in MessageRow
        <5>1. stone = [row EXCEPT !.deleted = TRUE]
          OBVIOUS
        <5> HIDE DEF row, stone
        <5> QED
          BY <4>2, <5>1 DEF MessageRow
      <4>4. messages' = [messages EXCEPT ![s] = stone]
        BY <3>1
      <4> HIDE DEF stone
      <4>5. messages' \in [Seqs -> MessageRow]
        BY <4>1, <4>3, <4>4
      <4>6. DOMAIN messages' = DOMAIN messages
        BY <4>4
      <4> QED
        BY <4>5, <4>6 DEF Seqs
    <3>7. TypeOK'
      BY <1>0, <2>0, <2>2, <3>3, <3>5, <3>6 DEF TypeOK, outside
    <3> QED
      BY <3>4, <3>5, <3>7 DEF IInv
  <2> QED
    BY <2>3, <2>4
<1>6. CASE DeleteNothing(t)
  BY <1>0, <1>6, RowCommit DEF DeleteNothing, rows
<1>7. CASE SwitchMode(t)
  <2>0. req[t].stage = "locked" /\ Finish(t) /\ UNCHANGED <<exists, seats, files, outside>>
    BY <1>7 DEF SwitchMode
  <2>1. PICK mode \in Modes :
          \/ UNCHANGED <<room, messages, msgOld>>
          \/ /\ room' = Announced([room EXCEPT !.mode = mode])
             /\ Insert(t, SystemRow("mode"))
    BY <1>0, <1>7, <2>0 DEF SwitchMode
  <2>2. CASE UNCHANGED <<room, messages, msgOld>>
    BY <1>0, <2>0, <2>2, RowCommit
  <2>3. CASE /\ room' = Announced([room EXCEPT !.mode = mode])
             /\ Insert(t, SystemRow("mode"))
    <3>1. /\ room' \in RoomRow /\ room'.message_count = room.message_count + 1
          /\ room'.status = room.status
      <4>1. PICK new \in RoomRow : /\ new.message_count = room.message_count
                                 /\ new.status = room.status
                                 /\ room' = Announced(new)
        <5> DEFINE new == [room EXCEPT !.mode = mode]
        <5>1. new \in RoomRow /\ new.message_count = room.message_count
              /\ new.status = room.status
          BY <1>0, <2>0 DEF RoomRow
        <5>2. room' = Announced(new)
          BY <2>3
        <5> HIDE DEF new
        <5> QED
          BY <5>1, <5>2
      <4> QED
        BY <4>1, AnnouncedTyped
    <3> QED
      BY <1>0, <2>0, <2>3, <3>1, NoticeCommit
  <2> QED
    BY <2>1, <2>2, <2>3
<1>8. CASE SetUploads(t)
  <2>0. req[t].stage = "locked" /\ Finish(t) /\ UNCHANGED <<exists, seats, files, outside>>
        /\ Insert(t, SystemRow("uploads"))
    BY <1>8 DEF SetUploads
  <2>1. /\ room' \in RoomRow /\ room'.message_count = room.message_count + 1
        /\ room'.status = room.status
    <3>0. PICK allowed \in BOOLEAN :
            room' = Announced([room EXCEPT !.agent_uploads_allowed = allowed])
      BY <1>0, <1>8, <2>0 DEF SetUploads
    <3>1. PICK new \in RoomRow : /\ new.message_count = room.message_count
                               /\ new.status = room.status
                               /\ room' = Announced(new)
      <4> DEFINE new == [room EXCEPT !.agent_uploads_allowed = allowed]
      <4>1. new \in RoomRow /\ new.message_count = room.message_count
            /\ new.status = room.status
        BY <1>0, <2>0 DEF RoomRow
      <4>2. room' = Announced(new)
        BY <3>0
      <4> HIDE DEF new
      <4> QED
        BY <4>1, <4>2
    <3> QED
      BY <3>1, AnnouncedTyped
  <2> QED
    BY <1>0, <2>0, <2>1, NoticeCommit
<1>9. CASE SetGate(t)
  <2>0. req[t].stage = "locked" /\ Finish(t) /\ UNCHANGED <<exists, seats, files, outside>>
    BY <1>9 DEF SetGate
  <2>1. PICK required \in BOOLEAN, deadline \in {"none", "deferred", "set"},
             about \in {"gate_on", "gate_off"} :
          /\ room' = Announced([room EXCEPT !.requires_owner_open = required,
                                            !.deadline = deadline])
          /\ Insert(t, SystemRow(about))
    <3>1. PICK required \in BOOLEAN :
            /\ room' = Announced(
                 [room EXCEPT
                    !.requires_owner_open = required,
                    !.deadline = IF @ = "deferred" /\ ~required /\ Waiting(room)
                                 THEN "set" ELSE @])
            /\ Insert(t, SystemRow(IF required THEN "gate_on" ELSE "gate_off"))
      BY <1>0, <1>9, <2>0 DEF SetGate
    <3> DEFINE deadline == IF room.deadline = "deferred" /\ ~required /\ Waiting(room)
                           THEN "set" ELSE room.deadline
               about == IF required THEN "gate_on" ELSE "gate_off"
    <3>2. deadline \in {"none", "deferred", "set"} /\ about \in {"gate_on", "gate_off"}
      BY <1>0, <2>0 DEF RoomRow
    <3>3. /\ room' = Announced([room EXCEPT !.requires_owner_open = required,
                                            !.deadline = deadline])
          /\ Insert(t, SystemRow(about))
      BY <3>1
    <3> HIDE DEF deadline, about
    <3> QED
      BY <3>2, <3>3
  <2>2. /\ room' \in RoomRow /\ room'.message_count = room.message_count + 1
        /\ room'.status = room.status
    <3>1. PICK new \in RoomRow : /\ new.message_count = room.message_count
                               /\ new.status = room.status
                               /\ room' = Announced(new)
      <4> DEFINE new == [room EXCEPT !.requires_owner_open = required,
                                !.deadline = deadline]
      <4>1. new \in RoomRow /\ new.message_count = room.message_count
            /\ new.status = room.status
        BY <1>0, <2>0 DEF RoomRow
      <4>2. room' = Announced(new)
        BY <2>1
      <4> HIDE DEF new
      <4> QED
        BY <4>1, <4>2
    <3> QED
      BY <3>1, AnnouncedTyped
  <2> QED
    BY <1>0, <2>0, <2>1, <2>2, NoticeCommit
<1>10. CASE SetSeat(t)
  <2>0. req[t].stage = "locked" /\ Finish(t) /\ UNCHANGED <<exists, files, outside>>
    BY <1>10 DEF SetSeat
  <2>1. PICK m \in Members, machine \in Machines \cup {None} :
          seats' = [seats EXCEPT ![m] = machine] /\ Insert(t, SystemRow(m))
    BY <1>10 DEF SetSeat
  <2>2. /\ room' \in RoomRow /\ room'.message_count = room.message_count + 1
        /\ room'.status = room.status
    BY <1>0, <1>10, <2>0, AnnouncedTyped DEF SetSeat
  <2>3. seats' \in [Members -> Machines \cup {None}]
    BY <1>0, <2>0, <2>1
  <2> QED
    BY <2>0, <2>1, <2>2, <2>3, NoticeCommit
<1>11. CASE DeleteRoom(t)
  <2>0. req[t].stage = "locked" /\ Finish(t) /\ UNCHANGED <<room, outside>>
        /\ messages' = [s \in {} |-> None] /\ exists' = FALSE
        /\ seats' = [m \in Members |-> None] /\ files' = 0 /\ msgOld' = FALSE
    BY <1>11 DEF DeleteRoom
  <2>1. /\ lock' = None /\ LockedSnapshotIsCurrent'
        /\ req' \in [Threads -> Request]
        /\ \A u \in Threads : WellFormed(req'[u])
    BY <2>0, FinishEffect
  <2>2. DataInv' /\ IsFiniteSet(Seqs')
    BY <2>0, DataDelete
  <2>3. Seqs' = {} /\ messages' \in [{} -> MessageRow]
    BY <2>0 DEF Seqs
  <2>4. TypeOK'
    BY <1>0, <2>0, <2>1, <2>2, <2>3 DEF TypeOK, outside
  <2> QED
    BY <2>1, <2>2, <2>4 DEF IInv
<1>12. CASE AttachUpload(t) \/ AttachFromBrain(t)
  <2>0. Holds(t, "attach") /\ AddReference(t)
    BY <1>12 DEF AttachUpload, AttachFromBrain
  <2>1. seats' \in [Members -> Machines \cup {None}] /\ files' \in Nat
    BY <1>0, <2>0 DEF AddReference, BindSeat, Seated
  <2> QED
    BY <1>0, <2>0, <2>1, RowCommit DEF AddReference
<1>13. CASE AttachRefused(t)
  BY <1>0, <1>13, RowCommit DEF AttachRefused, rows
<1>14. CASE Announce(t)
  <2>0. req[t].stage = "locked" /\ Finish(t) /\ UNCHANGED <<exists, seats, files, outside>>
        /\ Insert(t, SystemRow("file"))
    BY <1>14 DEF Announce
  <2>1. /\ room' \in RoomRow /\ room'.message_count = room.message_count + 1
        /\ room'.status = room.status
    BY <1>0, <1>14, <2>0, AnnouncedTyped DEF Announce
  <2> QED
    BY <1>0, <2>0, <2>1, NoticeCommit
<1>15. CASE AnnounceFailed(t)
  BY <1>0, <1>15, RowCommit DEF AnnounceFailed, rows
<1>16. CASE PingOpen(t)
  <2>0. req[t].stage = "locked" /\ (Finish(t) \/ FinishNotify(t))
        /\ UNCHANGED <<exists, messages, seats, files, msgOld, outside>>
    BY <1>16 DEF PingOpen
  <2>1. /\ room' \in RoomRow /\ room'.message_count = room.message_count
        /\ room'.status = room.status
    <3>1. room' = room \/ room' = [room EXCEPT !.reminded = TRUE]
      BY <1>0, <1>16, <2>0 DEF PingOpen
    <3> QED
      BY <1>0, <2>0, <3>1 DEF RoomRow
  <2> QED
    BY <1>0, <2>0, <2>1, RowCommit
<1>17. CASE PingStall(t)
  <2>0. req[t].stage = "locked" /\ FinishNotify(t)
        /\ UNCHANGED <<exists, messages, seats, files, msgOld, outside>>
    BY <1>17 DEF PingStall, FoundStalled, Holds
  <2>1. /\ room' \in RoomRow /\ room'.message_count = room.message_count
        /\ room'.status = room.status
    <3>1. room' = [room EXCEPT !.stall_sent = TRUE]
      BY <1>0, <1>17, <2>0 DEF PingStall
    <3> QED
      BY <1>0, <2>0, <3>1 DEF RoomRow
  <2> QED
    BY <1>0, <2>0, <2>1, RowCommit
<1>18. CASE Nudge(t)
  <2>0. req[t].stage = "locked" /\ Finish(t) /\ UNCHANGED <<exists, seats, files, outside>>
    BY <1>18 DEF Nudge
  <2>1. CASE UNCHANGED <<room, messages, msgOld>>
    BY <1>0, <2>0, <2>1, RowCommit
  <2>2. CASE /\ Insert(t, SystemRow("nudge"))
             /\ room' = Announced([room EXCEPT !.warned = TRUE])
    <3>1. /\ room' \in RoomRow /\ room'.message_count = room.message_count + 1
          /\ room'.status = room.status
      <4>1. PICK new \in RoomRow : /\ new.message_count = room.message_count
                                 /\ new.status = room.status
                                 /\ room' = Announced(new)
        <5> DEFINE new == [room EXCEPT !.warned = TRUE]
        <5>1. new \in RoomRow /\ new.message_count = room.message_count
              /\ new.status = room.status
          BY <1>0, <2>0 DEF RoomRow
        <5>2. room' = Announced(new)
          BY <2>2
        <5> HIDE DEF new
        <5> QED
          BY <5>1, <5>2
      <4> QED
        BY <4>1, AnnouncedTyped
    <3> QED
      BY <1>0, <2>0, <2>2, <3>1, NoticeCommit
  <2> QED
    BY <1>0, <1>18, <2>0, <2>1, <2>2 DEF Nudge
<1>19. CASE FindStall(t)
  <2>0. req[t].stage = "locked" /\ req[t].op = "ping_stall" /\ UNCHANGED <<rows, outside>>
    BY <1>19 DEF FindStall, Holds
  <2>1. CASE Finish(t)
    BY <1>0, <2>0, <2>1, RowCommit DEF rows
  <2>2. CASE req' = [req EXCEPT ![t].arg = "stalled"] /\ lock' = lock
    BY <2>0, <2>2, VerdictStep
  <2> QED
    BY <1>19, <2>1, <2>2 DEF FindStall
<1> QED
  BY <1>1, <1>2, <1>3, <1>4, <1>5, <1>6, <1>7, <1>8, <1>9, <1>10, <1>11, <1>12,
     <1>13, <1>14, <1>15, <1>16, <1>17, <1>18, <1>19 DEF Locked

\* A thread that does not touch the row moves on.
LEMMA MoveOn ==
  ASSUME IInv, NEW t \in Threads, NEW next \in Request, WellFormed(next),
         next.stage # "locked", req' = [req EXCEPT ![t] = next],
         UNCHANGED <<rows, lock, sweep, clock, crashes>>,
         polled' \in [Members -> {"never", "recent", "old"}],
         cursor' \in [Members -> Nat],
         told' \in [Members -> {"open", "closed", "gone", None}],
         sent' \in [PingKinds -> Nat]
  PROVE  IInv'
<1>1. /\ req' \in [Threads -> Request]
      /\ \A u \in Threads : WellFormed(req'[u])
  BY ReqTyped DEF IInv
<1>2. TypeOK'
  BY <1>1 DEF IInv, TypeOK, Seqs, rows
<1>3. LockedSnapshotIsCurrent'
  BY LockElsewhere DEF rows
<1>4. DataInv'
  BY DataFrame DEF IInv, rows
<1> QED
  BY <1>2, <1>3, <1>4 DEF IInv

\* The steps outside the row lock.
LEMMA UnlockedStep ==
  ASSUME IInv, NEW t \in Threads, Unlocked(t)
  PROVE  IInv'
<1>0. /\ TypeOK /\ req[t] \in Request /\ WellFormed(req[t])
      /\ polled \in [Members -> {"never", "recent", "old"}]
      /\ cursor \in [Members -> Nat]
      /\ told \in [Members -> {"open", "closed", "gone", None}]
      /\ sent \in [PingKinds -> Nat] /\ room \in RoomRow
      /\ NextSeq \in Nat \ {0}
  BY NextSeqIsFresh DEF IInv, DataInv, TypeOK
<1>00. Idle \in Request /\ WellFormed(Idle) /\ Idle.stage # "locked"
  BY IdleTyped DEF Idle
<1>1. CASE LockGone(t)
  BY <1>0, <1>00, <1>1, MoveOn DEF LockGone, rows, outside
<1>2. CASE Notify(t)
  <2>1. sent' \in [PingKinds -> Nat]
    BY <1>0, <1>2 DEF Notify, PingOf, PingKinds
  <2> QED
    BY <1>0, <1>00, <1>2, <2>1, MoveOn DEF Notify, rows
<1>3. CASE MarkWorking(t)
  <2> DEFINE next == [req[t] EXCEPT !.stage = "reading"]
  <2>1. req[t].sender \in Members
    BY <1>0, <1>3 DEF MarkWorking, WellFormed
  <2>2. next \in Request /\ WellFormed(next) /\ next.stage # "locked"
    BY <1>0, <2>1 DEF Request, WellFormed
  <2>3. /\ polled' \in [Members -> {"never", "recent", "old"}]
        /\ req' = [req EXCEPT ![t] = next] \/ req' = [req EXCEPT ![t] = Idle]
    BY <1>0, <1>3, <2>1 DEF MarkWorking, TypeOK
  <2>4. UNCHANGED <<rows, lock, sweep, clock, crashes, cursor, told, sent>>
    BY <1>3 DEF MarkWorking
  <2> HIDE DEF next
  <2> QED
    BY <1>0, <1>00, <2>2, <2>3, <2>4, MoveOn
<1>4. CASE PollReadRoom(t)
  <2> DEFINE next == [req[t] EXCEPT !.stage = "read", !.snap = room]
  <2>1. req[t].sender \in Members
    BY <1>0, <1>4 DEF PollReadRoom, WellFormed
  <2>2. next \in Request /\ WellFormed(next) /\ next.stage # "locked"
    <3>1. next \in Request
      BY <1>0 DEF Request
    <3>2. /\ next.stage = "read" /\ next.snap = room
          /\ next.sender = req[t].sender
      BY <1>0 DEF Request
    <3> HIDE DEF next
    <3> QED
      BY <1>0, <2>1, <3>1, <3>2 DEF WellFormed
  <2>3. /\ told' \in [Members -> {"open", "closed", "gone", None}]
        /\ req' = [req EXCEPT ![t] = next] \/ req' = [req EXCEPT ![t] = Idle]
    BY <1>0, <1>4, <2>1 DEF PollReadRoom, TypeOK
  <2>4. UNCHANGED <<rows, lock, sweep, clock, crashes, cursor, polled, sent>>
    BY <1>4 DEF PollReadRoom
  <2> HIDE DEF next
  <2> QED
    BY <1>0, <1>00, <2>2, <2>3, <2>4, MoveOn
<1>5. CASE PollReadMessages(t)
  <2> DEFINE m == req[t].sender
             ask(op) == [Idle EXCEPT !.op = op, !.stage = "checked", !.sender = m]
             seen == IF NextSeq - 1 > cursor[m] THEN NextSeq - 1 ELSE cursor[m]
  <2>1. m \in Members /\ req[t].snap \in RoomRow
    BY <1>0, <1>5 DEF PollReadMessages, WellFormed
  <2>2. \A op \in {"ping_open", "ping_stall"} :
          ask(op) \in Request /\ WellFormed(ask(op)) /\ ask(op).stage # "locked"
    BY <2>1 DEF Idle, Request, WellFormed, LockOps, InsertOps
  <2>3. \E next \in {ask("ping_open"), ask("ping_stall"), Idle} :
          req' = [req EXCEPT ![t] = next]
    BY <1>5 DEF PollReadMessages
  <2>4. cursor' \in [Members -> Nat]
    <3>1. seen \in Nat
      BY <1>0, <2>1
    <3>2. cursor' = [cursor EXCEPT ![m] = seen]
      BY <1>0, <1>5, <2>1 DEF PollReadMessages
    <3> QED
      BY <1>0, <3>1, <3>2
  <2>5. told' \in [Members -> {"open", "closed", "gone", None}]
    <3>1. req[t].snap.status \in {"open", "closed"}
      BY <2>1 DEF RoomRow
    <3>2. told' = [told EXCEPT ![m] = req[t].snap.status]
      BY <1>5 DEF PollReadMessages
    <3> QED
      BY <1>0, <3>1, <3>2
  <2>6. UNCHANGED <<rows, lock, sweep, clock, crashes, polled, sent>>
    BY <1>5 DEF PollReadMessages
  <2> HIDE DEF ask, m, seen
  <2>7. PICK next \in {ask("ping_open"), ask("ping_stall"), Idle} :
          req' = [req EXCEPT ![t] = next]
    BY <2>3
  <2>8. next \in Request /\ WellFormed(next) /\ next.stage # "locked"
    BY <1>00, <2>2
  <2> QED
    BY <1>0, <2>4, <2>5, <2>6, <2>7, <2>8, MoveOn
<1> QED
  BY <1>1, <1>2, <1>3, <1>4, <1>5 DEF Unlocked

\* A scan of the sweeper starts a request or finds nothing to do.
LEMMA SweepStep ==
  ASSUME IInv, SweepClose \/ SweepWarn
  PROVE  IInv'
<1>0. Sweeper \in Threads /\ TypeOK /\ sweep' \in {"close", "warn"}
      /\ UNCHANGED <<rows, lock, clock, polled, cursor, told, sent, crashes>>
  BY DEF SweepClose, SweepWarn, Threads, IInv
<1>1. \/ Start(Sweeper, "close", None, None, "time")
      \/ Start(Sweeper, "nudge", None, None, None)
      \/ req' = req
  BY DEF SweepClose, SweepWarn
<1>2. CASE req' = req
  <2>1. TypeOK'
    BY <1>0, <1>2 DEF TypeOK, Seqs, rows
  <2>2. LockedSnapshotIsCurrent'
    <3>1. NextSeq' = NextSeq
      BY <1>0 DEF NextSeq, Seqs, rows
    <3> QED
      BY <1>0, <1>2, <3>1 DEF IInv, LockedSnapshotIsCurrent, rows
  <2>3. DataInv'
    BY <1>0, DataFrame DEF IInv, rows
  <2> QED
    BY <2>1, <2>2, <2>3 DEF IInv
<1>3. CASE \/ Start(Sweeper, "close", None, None, "time")
           \/ Start(Sweeper, "nudge", None, None, None)
  <2>1. /\ req' \in [Threads -> Request]
        /\ \A u \in Threads : WellFormed(req'[u])
        /\ \E next : next.stage # "locked" /\ req' = [req EXCEPT ![Sweeper] = next]
    BY <1>0, <1>3, StartTyped DEF LockOps, InsertOps, CloseReasons
  <2>2. PICK next : next.stage # "locked" /\ req' = [req EXCEPT ![Sweeper] = next]
    BY <2>1
  <2>3. files' \in Nat
    BY <1>0 DEF rows, TypeOK
  <2> QED
    BY <1>0, <2>1, <2>2, <2>3, StartKeepsInv DEF rows
<1> QED
  BY <1>1, <1>2, <1>3

\* Time passes.
LEMMA TimeStep ==
  ASSUME IInv, Tick \/ Quiet \/ UNCHANGED vars
  PROVE  IInv'
<1>1. UNCHANGED <<exists, room, messages, seats, files, lock, req, sweep,
                  cursor, told, sent, crashes>>
  BY DEF Tick, Quiet, vars
<1>2. /\ clock' \in {"early", "soon", "passed"} /\ msgOld' \in BOOLEAN
      /\ polled' \in [Members -> {"never", "recent", "old"}]
  BY DEF IInv, TypeOK, Tick, Quiet, vars
<1>3. TypeOK'
  BY <1>1, <1>2 DEF IInv, TypeOK, Seqs
<1>4. LockedSnapshotIsCurrent'
  <2>1. NextSeq' = NextSeq
    BY <1>1 DEF NextSeq, Seqs
  <2> QED
    BY <1>1, <2>1 DEF IInv, LockedSnapshotIsCurrent
<1>5. DataInv'
  BY <1>1, DataFrame DEF IInv
<1> QED
  BY <1>3, <1>4, <1>5 DEF IInv

\* A transaction fails, or the process restarts.
LEMMA FailureStep ==
  ASSUME IInv, Crash \/ \E t \in Threads : Fail(t)
  PROVE  IInv'
<1>0. Idle \in Request /\ WellFormed(Idle) /\ Idle.stage # "locked"
  BY IdleTyped DEF Idle
<1>1. /\ UNCHANGED <<rows, clock, polled, cursor, told, sent>>
      /\ lock' \in Threads \cup {None} /\ sweep' \in {"close", "warn"}
      /\ crashes' \in 0 .. MaxCrashes
  BY ConstantsAssumption DEF Crash, Fail, IInv, TypeOK
<1>2. req' \in [Threads -> Request] /\ \A u \in Threads : WellFormed(req'[u])
  <2>1. CASE Crash
    BY <1>0, <2>1 DEF Crash
  <2>2. CASE \E t \in Threads : Fail(t)
    BY <1>0, <2>2, ReqTyped DEF Fail, IInv
  <2> QED
    BY <2>1, <2>2
<1>3. TypeOK'
  BY <1>1, <1>2 DEF IInv, TypeOK, Seqs, rows
<1>4. LockedSnapshotIsCurrent'
  <2>1. CASE Crash
    BY <1>0, <2>1 DEF Crash, LockedSnapshotIsCurrent
  <2>2. CASE \E t \in Threads : Fail(t)
    <3>1. PICK t \in Threads : Fail(t)
      BY <2>2
    <3> QED
      BY <1>0, <1>1, <3>1, LockElsewhere DEF Fail, rows
  <2> QED
    BY <2>1, <2>2
<1>5. DataInv'
  BY <1>1, DataFrame DEF IInv, rows
<1> QED
  BY <1>3, <1>4, <1>5 DEF IInv

----------------------------------------------------------------------------
(* The theorems. *)

\* A new room satisfies the invariant.
LEMMA InitInv == Init => IInv
<1> SUFFICES ASSUME Init PROVE IInv
  OBVIOUS
<1>1. PICK mode \in Modes, deadline \in Deadlines :
        room = [status |-> "open", close_reason |-> None, message_count |-> 0,
                mode |-> mode, agent_uploads_allowed |-> TRUE,
                requires_owner_open |-> TRUE, opened |-> FALSE,
                deadline |-> deadline, warned |-> FALSE, reminded |-> FALSE,
                stall_sent |-> FALSE]
  BY DEF Init
<1>2. room \in RoomRow
  BY <1>1, ConstantsAssumption DEF RoomRow
<1>3. Seqs = {} /\ Live = {} /\ Live \cap Posts = {}
  BY DEF Init, Seqs, Live, Posts
<1>4. Cardinality({}) = 0 /\ IsFiniteSet({}) /\ {} = 1 .. 0
  BY FS_EmptySet
<1>5. \A t \in Threads : req[t] = Idle
  BY DEF Init
<1>6. TypeOK
  <2>1. messages \in [{} -> MessageRow]
    BY DEF Init
  <2>2. /\ req \in [Threads -> Request] /\ \A t \in Threads : WellFormed(req[t])
    BY IdleTyped DEF Init
  <2>3. seats \in [Members -> Machines \cup {None}]
    BY ConstantsAssumption DEF Init
  <2>4. /\ exists = TRUE /\ files = 0 /\ lock = None /\ sweep = "close"
        /\ clock = "early" /\ msgOld = FALSE /\ crashes = 0
    BY DEF Init
  <2>5. /\ polled \in [Members -> {"never", "recent", "old"}]
        /\ cursor \in [Members -> Nat]
        /\ told \in [Members -> {"open", "closed", "gone", None}]
        /\ sent \in [PingKinds -> Nat]
    BY DEF Init
  <2>6. MaxCrashes \in Nat /\ 0 \in 0 .. MaxCrashes
    BY ConstantsAssumption
  <2> QED
    BY <1>2, <1>3, <1>4, <2>1, <2>2, <2>3, <2>4, <2>5, <2>6 DEF TypeOK
<1>7. LockedSnapshotIsCurrent
  BY <1>5 DEF LockedSnapshotIsCurrent, Idle
<1>8. DataInv
  BY <1>1, <1>3, <1>4, ConstantsAssumption
  DEF DataInv, GaplessTranscript, CountIsLive, CapHolds
<1> QED
  BY <1>6, <1>7, <1>8 DEF IInv

\* Every step keeps it.
LEMMA StepInv == IInv /\ [Next]_vars => IInv'
<1> SUFFICES ASSUME IInv, [Next]_vars PROVE IInv'
  OBVIOUS
<1>1. CASE \E t \in Clients : Arrive(t)
  BY <1>1, ArriveStep
<1>2. CASE \E t \in Threads : Lock(t)
  BY <1>2, LockStep
<1>3. CASE \E t \in Threads : Locked(t)
  BY <1>3, LockedStep
<1>4. CASE \E t \in Threads : Unlocked(t)
  BY <1>4, UnlockedStep
<1>5. CASE Crash \/ \E t \in Threads : Fail(t)
  BY <1>5, FailureStep
<1>6. CASE SweepClose \/ SweepWarn
  BY <1>6, SweepStep
<1>7. CASE Tick \/ Quiet \/ UNCHANGED vars
  BY <1>7, TimeStep
<1> QED
  BY <1>1, <1>2, <1>3, <1>4, <1>5, <1>6, <1>7 DEF Next

\* The inductive invariant holds in every reachable state of the room.
THEOREM Invariance == Spec => []IInv
BY InitInv, StepInv, PTL DEF Spec

\* The variables keep the shape of the rows and requests of app/rooms.py.
THEOREM TypeCorrect == Spec => []TypeOK
BY Invariance, PTL DEF IInv

\* What a handler holds under FOR UPDATE is current until it commits, so the
\* retry of post_message on a duplicate seq is dead code.
THEOREM LockProtects == Spec => []LockedSnapshotIsCurrent
BY Invariance, PTL DEF IInv

\* message_count is the number of live messages, for any number of handlers.
THEOREM CounterCorrect == Spec => []CountIsLive
BY Invariance, PTL DEF IInv, DataInv

\* The hard cap of post_message cannot be overrun by concurrent posts.
THEOREM CapCorrect == Spec => []CapHolds
BY Invariance, PTL DEF IInv, DataInv

\* Transcripts are numbered 1, 2, 3, ... under any interleaving of writers.
THEOREM NumberingCorrect == Spec => []GaplessTranscript
BY Invariance, PTL DEF IInv, DataInv

\* A close is final: no later handler that was already waiting for the row, no
\* sweep and no restart reopens the room or replaces the first closer's reason.
THEOREM CloseStands == Spec => CloseIsFinal
<1> DEFINE Final == room.status = "closed" =>
                      room'.status = "closed" /\ room'.close_reason = room.close_reason
<1>1. ASSUME IInv, [Next]_vars PROVE Final
  <2> SUFFICES ASSUME room.status = "closed"
               PROVE  room'.status = "closed" /\ room'.close_reason = room.close_reason
    OBVIOUS
  <2>1. CASE UNCHANGED room
    BY <2>1
  <2>2. ASSUME NEW t \in Threads, Locked(t), room' # room
        PROVE  Announce(t) \/ DeleteMessage(t) \/ PingStall(t)
    <3>1. req[t].stage = "locked" => req[t].snap = room
      BY <1>1, Holder
    <3>2. ~(PostRefused(t) \/ NotOpen(t) \/ DeleteNothing(t) \/ DeleteRoom(t)
             \/ AttachRefused(t) \/ AnnounceFailed(t))
      BY <2>2, SMTT(20) DEF PostRefused, NotOpen, DeleteNothing, DeleteRoom,
         AttachRefused, AnnounceFailed, rows
    <3>3. ~(PostCommit(t) \/ CloseRoom(t))
      BY <2>2, <3>1, SMTT(20) DEF Holds, PostCommit, CloseRoom
    <3>4. ~(SwitchMode(t) \/ SetUploads(t) \/ SetGate(t) \/ SetSeat(t))
      <4>1. SwitchMode(t) \/ SetUploads(t) \/ SetGate(t) \/ SetSeat(t)
              => req[t].stage = "locked" /\ req[t].snap.status = "open"
        BY DEF Holds, SwitchMode, SetUploads, SetGate, SetSeat
      <4> QED
        BY <3>1, <4>1
    <3>5. ~(AttachUpload(t) \/ AttachFromBrain(t) \/ PingOpen(t) \/ FindStall(t)
             \/ Nudge(t))
      BY <2>2, <3>1, SMTT(20) DEF Holds, AttachUpload, AttachFromBrain, AddReference,
         PingOpen, FindStall, Nudge, rows
    <3> QED
      BY <2>2, <3>2, <3>3, <3>4, <3>5 DEF Locked
  <2>3. ASSUME NEW t \in Threads, Announce(t) \/ DeleteMessage(t) \/ PingStall(t)
        PROVE  Final
    <3>0. req[t].stage = "locked" /\ req[t].snap = room /\ room \in RoomRow
      BY <1>1, <2>3, Holder DEF Announce, DeleteMessage, PingStall, FoundStalled, Holds
    <3>1. \/ UNCHANGED room
          \/ \E count : room' = [room EXCEPT !.message_count = count]
          \/ room' = [room EXCEPT !.stall_sent = TRUE]
      BY <2>3, <3>0 DEF Announce, DeleteMessage, PingStall, Announced
    <3> QED
      BY <3>0, <3>1 DEF RoomRow
  <2>4. CASE room' # room
    <3>1. PICK t \in Threads : Locked(t)
      <4> USE DEF rows, outside
      <4>1. ASSUME NEW t \in Clients, Arrive(t) PROVE UNCHANGED room
        BY <4>1 DEF Arrive, PostPrecheck, PostNotOpened, OwnerRequest,
           AttachRequest, DetachRequest, PollStart
      <4>2. ASSUME NEW t \in Threads, Lock(t) \/ Unlocked(t) \/ Fail(t)
            PROVE  UNCHANGED room
        BY <4>2 DEF Lock, Unlocked, LockGone, Notify, MarkWorking, PollReadRoom,
           PollReadMessages, Fail
      <4>3. ASSUME SweepClose \/ SweepWarn \/ Tick \/ Quiet \/ Crash \/ UNCHANGED vars
            PROVE  UNCHANGED room
        BY <4>3 DEF SweepClose, SweepWarn, Tick, Quiet, Crash, vars
      <4> QED
        BY <1>1, <2>4, <4>1, <4>2, <4>3 DEF Next
    <3> QED
      BY <2>2, <2>3, <2>4, <3>1
  <2> QED
    BY <2>1, <2>4
<1> QED
  BY <1>1, Invariance, PTL DEF Spec, CloseIsFinal

============================================================================
