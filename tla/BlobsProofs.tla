---------------------------- MODULE BlobsProofs ----------------------------
(***************************************************************************)
(* Proofs about Blobs: for any rooms, contents, sessions and bounds, the   *)
(* byte counter is exact and under the ceiling, and nothing that a room in *)
(* use or a document links to is ever reclaimed.                           *)
(*                                                                         *)
(* Both rest on what a session knows because of the row locks it holds     *)
(* (Ok): a blob whose row it has locked is stored, the counter it has      *)
(* locked leaves room for its content, a room it has locked is open.       *)
(***************************************************************************)
EXTENDS Blobs, TLAPS, FiniteSetTheorems

\* The steps at which a session may hold the row of some blob, of a room.
Holders   == {"next", "reclaim", "charge", "announce"}
Inserters == {"lookup", "ceiling", "commit", "link"}

\* The session is adding a reference to its room.
Attaching(s) == s.pc \in {"lookup", "ceiling", "commit"} \/ (s.pc = "link" /\ s.op = "brain")

StatsKnown(p) ==
  lock[StatsRow] = p =>
    ses[p].pc = "commit" /\ total + Bytes[{ses[p].hash}] <= Ceiling

BlobKnown(p) ==
  \A h \in Hashes : lock[BlobRow(h)] = p =>
    /\ h \in blobs
    /\ ses[p].pc \in Holders \/ (ses[p].pc = "commit" /\ ses[p].hash = h)

RoomKnown(p) ==
  \A r \in Rooms : lock[RoomRow(r)] = p =>
    ses[p].pc \in Inserters /\ ses[p].room = r /\ status[r] = "open"

HoldsRows(p) ==
  /\ ses[p].pc = "commit" => lock[StatsRow] = p \/ lock[BlobRow(ses[p].hash)] = p
  /\ ses[p].pc = "charge" => lock[BlobRow(ses[p].hash)] = p
  /\ Attaching(ses[p]) => ses[p].room \in Rooms /\ lock[RoomRow(ses[p].room)] = p

HasArgs(s) ==
  /\ s.pc \in {"room", "reclaim", "charge", "unlink"} \cup Inserters => s.hash \in Hashes
  /\ s.pc = "room" => s.room \in Rooms

Ok(p) ==
  StatsKnown(p) /\ BlobKnown(p) /\ RoomKnown(p) /\ HoldsRows(p) /\ HasArgs(ses[p])

IInv == TypeOK /\ CounterIsExact /\ LinkedBlobsStay /\ \A p \in Sessions : Ok(p)

----------------------------------------------------------------------------
(* The lockable rows. *)

\* A room, a blob and the counter are different rows.
LEMMA Rows ==
  /\ \A r \in Rooms : RoomRow(r) \in Lockables
  /\ \A h \in Hashes : BlobRow(h) \in Lockables
  /\ StatsRow \in Lockables
  /\ \A r, h : RoomRow(r) # BlobRow(h)
  /\ \A r : RoomRow(r) # StatsRow /\ BlobRow(r) # StatsRow
  /\ \A r, q : RoomRow(r) = RoomRow(q) => r = q
  /\ \A h, g : BlobRow(h) = BlobRow(g) => h = g
BY DEF Lockables, RoomRow, BlobRow, StatsRow

\* A statement that was granted its row takes it from nobody.
LEMMA TakingEffect ==
  ASSUME TypeOK, NEW p \in Sessions, Ready(p), lock' = Taking(p)
  PROVE  /\ lock' \in [Lockables -> Sessions \cup {None}]
         /\ \A l \in Lockables : lock'[l] = p <=> lock[l] = p \/ l \in Wanted(p)
         /\ \A q \in Sessions \ {p} : \A l \in Lockables : lock'[l] = q <=> lock[l] = q
         /\ \A l \in Wanted(p) : lock[l] \in {None, p}
<1>1. \A l \in Wanted(p) : l \in Lockables /\ lock[l] \in {None, p}
  BY DEF Ready, BlockedBy, Wanted
<1>2. \A l \in Lockables : lock'[l] = IF l \in Wanted(p) THEN p ELSE lock[l]
  BY DEF Taking
<1>3. \A q \in Sessions : q # None
  BY BlobsAssumption
<1>4. lock' \in [Lockables -> Sessions \cup {None}]
  BY DEF TypeOK, Taking
<1> QED
  BY <1>1, <1>2, <1>3, <1>4

\* Ending a transaction frees its rows, takes none and leaves the others'.
LEMMA ReleasingEffect ==
  ASSUME TypeOK, NEW p \in Sessions, lock' = Releasing(p)
  PROVE  /\ lock' \in [Lockables -> Sessions \cup {None}]
         /\ \A l \in Lockables : lock'[l] # p
         /\ \A q \in Sessions \ {p} : \A l \in Lockables : lock'[l] = q <=> lock[l] = q
<1>1. \A l \in Lockables : lock'[l] = IF lock[l] = p THEN None ELSE lock[l]
  BY DEF Releasing
<1>2. \A q \in Sessions : q # None
  BY BlobsAssumption
<1>3. lock' \in [Lockables -> Sessions \cup {None}]
  BY DEF TypeOK, Releasing
<1> QED
  BY <1>1, <1>2, <1>3

----------------------------------------------------------------------------
(* Sessions. *)

\* The pristine session is one.
LEMMA IdleTyped == IdleSession \in Session
BY BlobsAssumption DEF IdleSession, Session

\* A session without locks that neither commits, charges nor attaches knows
\* nothing that could become false.
LEMMA Unlocked ==
  ASSUME NEW p \in Sessions, \A l \in Lockables : lock'[l] # p,
         ~Attaching(ses'[p]), ses'[p].pc \notin {"commit", "charge"},
         HasArgs(ses'[p])
  PROVE  Ok(p)'
BY Rows DEF Ok, StatsKnown, BlobKnown, RoomKnown, HoldsRows

\* The sum of the detached references and the rest, written for the solver.
LEMMA Lowered ==
  \A a, b, c, d \in Int : a <= b /\ b + c <= d => a + c <= d
OBVIOUS

\* What a session knows survives the steps of the others.
LEMMA Frame ==
  ASSUME IInv, NEW q \in Sessions, ses'[q] = ses[q],
         \A l \in Lockables : lock'[l] = q <=> lock[l] = q,
         lock[StatsRow] = q => total' \in Int /\ total' <= total,
         \A h \in Hashes : lock[BlobRow(h)] = q => h \in blobs',
         \A r \in Rooms : lock[RoomRow(r)] = q => status'[r] = status[r]
  PROVE  Ok(q)'
<1>1. Ok(q) /\ ses[q] \in Session /\ total \in Int
  BY DEF IInv, TypeOK
<1>2. StatsKnown(q)'
  <2> SUFFICES ASSUME lock'[StatsRow] = q
               PROVE  ses'[q].pc = "commit" /\ total' + Bytes[{ses'[q].hash}] <= Ceiling
    BY DEF StatsKnown
  <2>1. lock[StatsRow] = q
    BY Rows
  <2>2. ses[q].pc = "commit" /\ total + Bytes[{ses[q].hash}] <= Ceiling
    BY <1>1, <2>1 DEF Ok, StatsKnown
  <2>3. ses[q].hash \in Hashes
    BY <1>1, <2>2 DEF Ok, HasArgs, Inserters
  <2>4. Bytes[{ses[q].hash}] \in Nat /\ Ceiling \in Nat
    BY <2>3, BlobsAssumption
  <2>5. total' \in Int /\ total' <= total
    BY <2>1
  <2>6. total' + Bytes[{ses[q].hash}] <= Ceiling
    BY <1>1, <2>2, <2>4, <2>5, Lowered
  <2> QED
    BY <2>2, <2>6
<1>3. BlobKnown(q)'
  BY <1>1, Rows DEF Ok, BlobKnown
<1>4. RoomKnown(q)'
  BY <1>1, Rows DEF Ok, RoomKnown
<1>5. HoldsRows(q)'
  <2>1. \A h \in Hashes : lock'[BlobRow(h)] = q <=> lock[BlobRow(h)] = q
    BY Rows
  <2>2. \A r \in Rooms : lock'[RoomRow(r)] = q <=> lock[RoomRow(r)] = q
    BY Rows
  <2>3. lock'[StatsRow] = q <=> lock[StatsRow] = q
    BY Rows
  <2> QED
    BY <1>1, <2>1, <2>2, <2>3 DEF Ok, HoldsRows, HasArgs, Inserters, Attaching
<1>6. HasArgs(ses[q])'
  BY <1>1 DEF Ok, HasArgs
<1> QED
  BY <1>2, <1>3, <1>4, <1>5, <1>6 DEF Ok

\* Goto moves one session's pc and nothing else.
LEMMA GotoEffect ==
  ASSUME TypeOK, NEW p \in Sessions,
         NEW c \in {"idle", "room", "lookup", "ceiling", "commit", "link", "next",
                    "reclaim", "charge", "unlink", "announce"},
         Goto(p, c)
  PROVE  /\ ses' \in [Sessions -> Session]
         /\ ses'[p].pc = c /\ ses'[p].hash = ses[p].hash
         /\ ses'[p].room = ses[p].room /\ ses'[p].op = ses[p].op
         /\ \A q \in Sessions \ {p} : ses'[q] = ses[q]
<1> DEFINE me == ses[p]
           new == [ses[p] EXCEPT !.pc = c]
<1>1. me \in Session /\ ses' = [ses EXCEPT ![p] = new]
  BY DEF TypeOK, Goto
<1>2. new = [me EXCEPT !.pc = c]
  OBVIOUS
<1>3. ses'[p] = new /\ \A q \in Sessions \ {p} : ses'[q] = ses[q]
  BY <1>1 DEF TypeOK
<1> HIDE DEF me, new
<1>4. new \in Session
  BY <1>1, <1>2 DEF Session
<1>5. new.pc = c /\ new.hash = me.hash /\ new.room = me.room /\ new.op = me.op
  BY <1>1, <1>2 DEF Session
<1>6. ses' \in [Sessions -> Session]
  BY <1>1, <1>4 DEF TypeOK
<1> QED
  BY <1>3, <1>5, <1>6 DEF me

\* A session that ends holds nothing and knows nothing.
LEMMA EndEffect ==
  ASSUME TypeOK, NEW p \in Sessions, End(p)
  PROVE  /\ ses' \in [Sessions -> Session]
         /\ ses'[p] = IdleSession
         /\ \A q \in Sessions \ {p} : ses'[q] = ses[q]
         /\ lock' \in [Lockables -> Sessions \cup {None}]
         /\ \A l \in Lockables : lock'[l] # p
         /\ \A q \in Sessions \ {p} : \A l \in Lockables : lock'[l] = q <=> lock[l] = q
         /\ Ok(p)'
<1>1. lock' = Releasing(p) /\ ses' = [ses EXCEPT ![p] = IdleSession]
  BY DEF End
<1>2. ses'[p] = IdleSession /\ \A q \in Sessions \ {p} : ses'[q] = ses[q]
  BY <1>1 DEF TypeOK
<1>3. ses' \in [Sessions -> Session]
  BY <1>1, IdleTyped DEF TypeOK
<1>4. \A l \in Lockables : lock'[l] # p
  BY <1>1, ReleasingEffect
<1>5. ~Attaching(ses'[p]) /\ ses'[p].pc \notin {"commit", "charge"} /\ HasArgs(ses'[p])
  BY <1>2 DEF IdleSession, Attaching, HasArgs, Inserters
<1>6. Ok(p)'
  BY <1>4, <1>5, Unlocked
<1> QED
  BY <1>1, <1>2, <1>3, <1>4, <1>6, ReleasingEffect

\* A step of p that changes no row of the database.
LEMMA QuietStep ==
  ASSUME IInv, NEW p \in Sessions, UNCHANGED db,
         files' \subseteq Hashes, requests' \in Nat, crashes' \in Nat,
         ses' \in [Sessions -> Session], lock' \in [Lockables -> Sessions \cup {None}],
         \A q \in Sessions \ {p} : ses'[q] = ses[q],
         \A q \in Sessions \ {p} : \A l \in Lockables : lock'[l] = q <=> lock[l] = q,
         Ok(p)', ses'[p].pc = "charge" => ~Referenced(ses'[p].hash)
  PROVE  IInv'
<1>1. TypeOK'
  BY DEF IInv, TypeOK, db
<1>2. CounterIsExact'
  BY DEF IInv, CounterIsExact, db
<1>3. LinkedBlobsStay'
  <2>1. docs' = docs /\ blobs' = blobs /\ refs' = refs /\ status' = status
    BY DEF db
  <2>2. ASSUME NEW q \in Sessions, ses'[q].pc = "charge"
        PROVE  ~Referenced(ses'[q].hash)
    BY <2>2 DEF IInv, LinkedBlobsStay
  <2>3. ASSUME NEW q \in Sessions, ses'[q].pc = "charge"
        PROVE  ~Referenced(ses[q].hash)'
    BY <2>1, <2>2, <2>3 DEF Referenced
  <2>4. (docs \subseteq blobs /\ \A r \in Rooms, h \in Hashes : refs[r][h] > 0 => h \in blobs)'
    BY <2>1 DEF IInv, LinkedBlobsStay
  <2> QED
    BY <2>3, <2>4 DEF LinkedBlobsStay
<1>4. ASSUME NEW q \in Sessions, q # p PROVE Ok(q)'
  <2>1. total' = total /\ blobs' = blobs /\ status' = status /\ total \in Int
    BY DEF db, IInv, TypeOK
  <2>2. \A h \in Hashes : lock[BlobRow(h)] = q => h \in blobs'
    BY <2>1 DEF IInv, Ok, BlobKnown
  <2>3. ses'[q] = ses[q] /\ \A l \in Lockables : lock'[l] = q <=> lock[l] = q
    BY <1>4
  <2> QED
    BY <2>1, <2>2, <2>3, Frame
<1> QED
  BY <1>1, <1>2, <1>3, <1>4 DEF IInv

\* A session that ends without a word.
LEMMA EndStep ==
  ASSUME IInv, NEW p \in Sessions, End(p), UNCHANGED <<db, files, requests, crashes>>
  PROVE  IInv'
<1>1. TypeOK
  BY DEF IInv
<1>2. ses'[p].pc # "charge"
  BY <1>1, EndEffect DEF IdleSession
<1>3. files' \subseteq Hashes /\ requests' \in Nat /\ crashes' \in Nat /\ UNCHANGED db
  BY <1>1 DEF TypeOK
<1> QED
  BY <1>1, <1>2, <1>3, EndEffect, QuietStep

----------------------------------------------------------------------------
(* The steps that leave the database as it is. *)

\* The room is locked: it stays open until this attempt is over.
LEMMA LockRoomStep ==
  ASSUME IInv, NEW p \in Sessions, LockRoom(p)
  PROVE  IInv'
<1> DEFINE r == ses[p].room
           c == IF ses[p].op = "upload" THEN "lookup" ELSE "link"
<1>1. /\ TypeOK /\ Ok(p) /\ ses[p].pc = "room" /\ ses[p].op \in {"upload", "brain"}
      /\ Ready(p) /\ UNCHANGED <<requests, crashes>>
  BY DEF IInv, LockRoom
<1>2. CASE Refuse(p)
  BY <1>1, <1>2, EndStep DEF Refuse
<1>3. CASE status[r] = "open" /\ Keep(p, c) /\ UNCHANGED <<db, files>>
  <2>1. r \in Rooms /\ ses[p].hash \in Hashes
    BY <1>1 DEF Ok, HasArgs
  <2>2. lock' = Taking(p) /\ Goto(p, c)
    BY <1>3 DEF Keep
  <2>3. RoomRow(r) \in Wanted(p)
    BY <1>1, <1>3, <2>1, Rows DEF Wanted
  <2>4. Wanted(p) \subseteq {RoomRow(r)}
    BY <1>1 DEF Wanted
  <2>5. /\ ses' \in [Sessions -> Session] /\ ses'[p].pc = c
        /\ ses'[p].hash = ses[p].hash /\ ses'[p].room = r /\ ses'[p].op = ses[p].op
        /\ \A q \in Sessions \ {p} : ses'[q] = ses[q]
    BY <1>1, <2>2, GotoEffect
  <2>6. /\ lock' \in [Lockables -> Sessions \cup {None}]
        /\ \A l \in Lockables : lock'[l] = p <=> lock[l] = p \/ l \in Wanted(p)
        /\ \A q \in Sessions \ {p} : \A l \in Lockables : lock'[l] = q <=> lock[l] = q
    BY <1>1, <2>2, TakingEffect
  <2>7. /\ lock'[StatsRow] # p
        /\ \A h \in Hashes : lock'[BlobRow(h)] # p
        /\ \A x \in Rooms : lock'[RoomRow(x)] = p <=> x = r
    BY <1>1, <2>1, <2>3, <2>4, <2>6, Rows
    DEF Ok, StatsKnown, BlobKnown, RoomKnown, Holders, Inserters
  <2>8. status'[r] = "open"
    BY <1>3 DEF db
  <2>9. Ok(p)'
    BY <1>1, <2>1, <2>5, <2>7, <2>8 DEF Ok, StatsKnown, BlobKnown, RoomKnown,
       HoldsRows, HasArgs, Attaching, Inserters
  <2>10. files' \subseteq Hashes /\ requests' \in Nat /\ crashes' \in Nat /\ UNCHANGED db
    BY <1>1, <1>3 DEF TypeOK
  <2> QED
    BY <2>5, <2>6, <2>9, <2>10, QuietStep
<1> QED
  BY <1>2, <1>3 DEF LockRoom

\* A content that is found stays stored: its row is locked.
LEMMA LookupStep ==
  ASSUME IInv, NEW p \in Sessions, Lookup(p)
  PROVE  IInv'
<1> DEFINE h == ses[p].hash
           c == IF h \in blobs THEN "commit" ELSE "ceiling"
           temp == h \notin blobs /\ ses[p].temp
           me == ses[p]
           new == ses'[p]
<1>1. /\ TypeOK /\ Ok(p) /\ me.pc = "lookup" /\ Ready(p) /\ lock' = Taking(p)
      /\ UNCHANGED <<db, files, requests, crashes>> /\ me \in Session
  BY DEF IInv, Lookup, TypeOK
<1>2. h \in Hashes
  BY <1>1 DEF Ok, HasArgs, Inserters
<1>3. /\ ses' = [ses EXCEPT ![p] = new] /\ new = [me EXCEPT !.pc = c, !.temp = temp]
      /\ \A q \in Sessions \ {p} : ses'[q] = ses[q]
  BY <1>1 DEF Lookup, TypeOK
<1>4. /\ new \in Session /\ new.pc = c /\ new.hash = me.hash /\ new.room = me.room
      /\ new.op = me.op
  <2> HIDE DEF new, me, h
  <2>1. temp \in BOOLEAN
    BY <1>1 DEF Session, me, h
  <2> HIDE DEF temp
  <2> QED
    BY <1>1, <1>3, <2>1 DEF Session
<1>5. ses' \in [Sessions -> Session]
  BY <1>1, <1>3, <1>4 DEF TypeOK
<1>6. /\ lock' \in [Lockables -> Sessions \cup {None}]
      /\ \A l \in Lockables : lock'[l] = p <=> lock[l] = p \/ l \in Wanted(p)
      /\ \A q \in Sessions \ {p} : \A l \in Lockables : lock'[l] = q <=> lock[l] = q
  BY <1>1, TakingEffect
<1>7. Wanted(p) = IF h \in blobs THEN {BlobRow(h)} ELSE {}
  BY <1>1, <1>2, Rows DEF Wanted
<1>8. /\ lock'[StatsRow] # p
      /\ \A g \in Hashes : lock'[BlobRow(g)] = p <=> g = h /\ h \in blobs
      /\ \A x \in Rooms : lock'[RoomRow(x)] = p <=> lock[RoomRow(x)] = p
  BY <1>1, <1>2, <1>6, <1>7, Rows DEF Ok, StatsKnown, BlobKnown, Holders
<1>9. blobs' = blobs /\ status' = status
  BY <1>1 DEF db
<1>10. Ok(p)'
  BY <1>1, <1>2, <1>4, <1>8, <1>9 DEF Ok, StatsKnown, BlobKnown, RoomKnown,
     HoldsRows, HasArgs, Attaching, Inserters
<1>11. files' \subseteq Hashes /\ requests' \in Nat /\ crashes' \in Nat /\ UNCHANGED db
  BY <1>1 DEF TypeOK
<1> QED
  BY <1>3, <1>4, <1>5, <1>6, <1>10, <1>11, QuietStep

\* The counter that passed the ceiling check stays locked until the commit.
LEMMA CeilingCheckStep ==
  ASSUME IInv, NEW p \in Sessions, CeilingCheck(p)
  PROVE  IInv'
<1> DEFINE h == ses[p].hash
           me == ses[p]
           new == ses'[p]
<1>1. /\ TypeOK /\ Ok(p) /\ me.pc = "ceiling" /\ Ready(p)
      /\ UNCHANGED <<requests, crashes>> /\ me \in Session
  BY DEF IInv, CeilingCheck, TypeOK
<1>2. CASE Refuse(p)
  BY <1>1, <1>2, EndStep DEF Refuse
<1>3. CASE /\ total + Bytes[{h}] <= Ceiling /\ files' = files \cup {h}
           /\ lock' = Taking(p) /\ UNCHANGED db
           /\ ses' = [ses EXCEPT ![p].pc = "commit", ![p].temp = FALSE]
  <2>1. h \in Hashes
    BY <1>1 DEF Ok, HasArgs, Inserters
  <2>2. /\ ses' = [ses EXCEPT ![p] = new] /\ new = [me EXCEPT !.pc = "commit", !.temp = FALSE]
        /\ \A q \in Sessions \ {p} : ses'[q] = ses[q]
    BY <1>1, <1>3 DEF TypeOK
  <2>3. /\ new \in Session /\ new.pc = "commit" /\ new.hash = me.hash
        /\ new.room = me.room /\ new.op = me.op
    <3> HIDE DEF new, me
    <3> QED
      BY <1>1, <2>2 DEF Session
  <2>4. ses' \in [Sessions -> Session]
    BY <1>1, <2>2, <2>3 DEF TypeOK
  <2>5. /\ lock' \in [Lockables -> Sessions \cup {None}]
        /\ \A l \in Lockables : lock'[l] = p <=> lock[l] = p \/ l \in Wanted(p)
        /\ \A q \in Sessions \ {p} : \A l \in Lockables : lock'[l] = q <=> lock[l] = q
    BY <1>1, <1>3, TakingEffect
  <2>6. Wanted(p) = {StatsRow}
    BY <1>1, Rows DEF Wanted
  <2>7. /\ lock'[StatsRow] = p
        /\ \A g \in Hashes : lock'[BlobRow(g)] # p
        /\ \A x \in Rooms : lock'[RoomRow(x)] = p <=> lock[RoomRow(x)] = p
    BY <1>1, <2>5, <2>6, Rows DEF Ok, BlobKnown, Holders
  <2>8. total' = total /\ status' = status
    BY <1>3 DEF db
  <2>9. Ok(p)'
    BY <1>1, <1>3, <2>1, <2>3, <2>7, <2>8 DEF Ok, StatsKnown, BlobKnown, RoomKnown,
       HoldsRows, HasArgs, Attaching, Inserters
  <2>10. files' \subseteq Hashes /\ requests' \in Nat /\ crashes' \in Nat
    BY <1>1, <1>3, <2>1 DEF TypeOK
  <2> QED
    BY <1>3, <2>2, <2>3, <2>4, <2>5, <2>9, <2>10, QuietStep
<1> QED
  BY <1>2, <1>3 DEF CeilingCheck

\* The loop over the candidates keeps whatever rows it has locked.
LEMMA NextHashStep ==
  ASSUME IInv, NEW p \in Sessions, NextHash(p)
  PROVE  IInv'
<1> DEFINE me == ses[p]
           new == ses'[p]
<1>1. /\ TypeOK /\ Ok(p) /\ me.pc = "next" /\ me \in Session
      /\ UNCHANGED <<db, files, requests, crashes>>
  BY DEF IInv, NextHash, TypeOK
<1>2. files' \subseteq Hashes /\ requests' \in Nat /\ crashes' \in Nat /\ UNCHANGED db
  BY <1>1 DEF TypeOK
<1>3. \A c \in {"reclaim", "announce"} :
        UNCHANGED lock /\ new.pc = c /\ (c = "reclaim" => new.hash \in Hashes) => Ok(p)'
  BY <1>1, Rows DEF Ok, StatsKnown, BlobKnown, RoomKnown, HoldsRows, HasArgs, Attaching,
     Inserters, Holders, db
<1>4. ASSUME UNCHANGED lock
      PROVE  /\ lock' \in [Lockables -> Sessions \cup {None}]
             /\ \A q \in Sessions \ {p} : \A l \in Lockables : lock'[l] = q <=> lock[l] = q
  BY <1>1, <1>4 DEF TypeOK
<1>5. ASSUME NEW h \in me.todo, UNCHANGED lock,
             ses' = [ses EXCEPT ![p].pc = "reclaim", ![p].hash = h, ![p].todo = @ \ {h}]
      PROVE  IInv'
  <2> DEFINE rest == me.todo \ {h}
  <2>1. h \in Hashes /\ rest \in SUBSET Hashes
    BY <1>1 DEF Session
  <2>2. /\ ses' = [ses EXCEPT ![p] = new]
        /\ new = [me EXCEPT !.pc = "reclaim", !.hash = h, !.todo = rest]
        /\ \A q \in Sessions \ {p} : ses'[q] = ses[q]
    BY <1>1, <1>5 DEF TypeOK
  <2>3. new \in Session /\ new.pc = "reclaim" /\ new.hash = h
    <3> HIDE DEF new, me, rest
    <3> QED
      BY <1>1, <2>1, <2>2 DEF Session
  <2>4. ses' \in [Sessions -> Session]
    BY <1>1, <2>2, <2>3 DEF TypeOK
  <2>5. Ok(p)'
    BY <1>3, <1>5, <2>1, <2>3
  <2> QED
    BY <1>2, <1>4, <1>5, <2>2, <2>3, <2>4, <2>5, QuietStep
<1>6. CASE Goto(p, "announce") /\ UNCHANGED lock
  <2>1. /\ ses' \in [Sessions -> Session] /\ new.pc = "announce"
        /\ \A q \in Sessions \ {p} : ses'[q] = ses[q]
    BY <1>1, <1>6, GotoEffect
  <2> QED
    BY <1>2, <1>3, <1>4, <1>6, <2>1, QuietStep
<1>7. CASE End(p)
  BY <1>1, <1>7, EndStep
<1> QED
  BY <1>5, <1>6, <1>7 DEF NextHash

\* A blob is given up only when nothing refers to it, and its row is locked.
LEMMA ReclaimStep ==
  ASSUME IInv, NEW p \in Sessions, Reclaim(p)
  PROVE  IInv'
<1> DEFINE h == ses[p].hash
           c == IF h \notin blobs \/ Referenced(h) THEN "next" ELSE "charge"
<1>1. /\ TypeOK /\ Ok(p) /\ ses[p].pc = "reclaim" /\ Ready(p)
      /\ lock' = Taking(p) /\ Goto(p, c)
      /\ UNCHANGED <<db, files, requests, crashes>>
  BY DEF IInv, Reclaim, Keep
<1>2. h \in Hashes
  BY <1>1 DEF Ok, HasArgs
<1>3. /\ ses' \in [Sessions -> Session] /\ ses'[p].pc = c /\ ses'[p].hash = h
      /\ \A q \in Sessions \ {p} : ses'[q] = ses[q]
  BY <1>1, GotoEffect
<1>4. /\ lock' \in [Lockables -> Sessions \cup {None}]
      /\ \A l \in Lockables : lock'[l] = p <=> lock[l] = p \/ l \in Wanted(p)
      /\ \A q \in Sessions \ {p} : \A l \in Lockables : lock'[l] = q <=> lock[l] = q
  BY <1>1, TakingEffect
<1>5. Wanted(p) = IF h \in blobs THEN {BlobRow(h)} ELSE {}
  BY <1>1, <1>2, Rows DEF Wanted
<1>6. /\ lock'[StatsRow] # p
      /\ \A g \in Hashes :
           lock'[BlobRow(g)] = p <=> lock[BlobRow(g)] = p \/ (g = h /\ h \in blobs)
      /\ \A x \in Rooms : lock'[RoomRow(x)] # p
  BY <1>1, <1>2, <1>4, <1>5, Rows DEF Ok, StatsKnown, RoomKnown, Inserters
<1>7. blobs' = blobs
  BY <1>1 DEF db
<1>8. Ok(p)'
  BY <1>1, <1>2, <1>3, <1>6, <1>7 DEF Ok, StatsKnown, BlobKnown, RoomKnown,
     HoldsRows, HasArgs, Attaching, Inserters, Holders
<1>9. files' \subseteq Hashes /\ requests' \in Nat /\ crashes' \in Nat /\ UNCHANGED db
  BY <1>1 DEF TypeOK
<1>10. ses'[p].pc = "charge" => ~Referenced(ses'[p].hash)
  BY <1>3
<1> QED
  BY <1>3, <1>4, <1>8, <1>9, <1>10, QuietStep

\* After its commit the session holds no row; it only drops the file.
LEMMA UnlinkStep ==
  ASSUME IInv, NEW p \in Sessions, Unlink(p)
  PROVE  IInv'
<1>1. /\ TypeOK /\ Ok(p) /\ ses[p].pc = "unlink" /\ Goto(p, "next")
      /\ UNCHANGED <<db, lock, requests, crashes>> /\ files' \subseteq files
  BY DEF IInv, Unlink
<1>2. /\ ses' \in [Sessions -> Session] /\ ses'[p].pc = "next"
      /\ \A q \in Sessions \ {p} : ses'[q] = ses[q]
  BY <1>1, GotoEffect
<1>3. Ok(p)'
  BY <1>1, <1>2, Rows DEF Ok, StatsKnown, BlobKnown, RoomKnown, HoldsRows, HasArgs,
     Attaching, Inserters, Holders, db
<1>4. /\ files' \subseteq Hashes /\ requests' \in Nat /\ crashes' \in Nat /\ UNCHANGED db
      /\ lock' \in [Lockables -> Sessions \cup {None}]
  BY <1>1 DEF TypeOK
<1> QED
  BY <1>1, <1>2, <1>3, <1>4, QuietStep

\* The reservations sweep touches no row of the blob store.
LEMMA SweepStep ==
  ASSUME IInv, Sweep
  PROVE  IInv'
<1> DEFINE p == Sweeper
           new == [IdleSession EXCEPT !.op = "sweep", !.pc = "next", !.todo = blobs]
<1>1. /\ TypeOK /\ p \in Sessions /\ Ok(p) /\ ses[p].pc = "idle"
      /\ ses' = [ses EXCEPT ![p] = new]
      /\ UNCHANGED <<db, files, lock, requests, crashes>>
  BY DEF IInv, Sweep, Sessions
<1>2. new \in Session /\ new.pc = "next"
  BY <1>1, IdleTyped DEF Session, IdleSession, TypeOK
<1> HIDE DEF new
<1>3. /\ ses' \in [Sessions -> Session] /\ ses'[p] = new
      /\ \A q \in Sessions \ {p} : ses'[q] = ses[q]
  BY <1>1, <1>2 DEF TypeOK
<1>4. Ok(p)'
  BY <1>1, <1>2, <1>3, Rows DEF Ok, StatsKnown, BlobKnown, RoomKnown, HoldsRows, HasArgs,
     Attaching, Inserters, Holders, db
<1>5. /\ files' \subseteq Hashes /\ requests' \in Nat /\ crashes' \in Nat /\ UNCHANGED db
      /\ lock' \in [Lockables -> Sessions \cup {None}]
  BY <1>1 DEF TypeOK
<1> QED
  BY <1>1, <1>2, <1>3, <1>4, <1>5, QuietStep

----------------------------------------------------------------------------
(* The steps that write rows. *)

\* A session about to delete a blob has its row, so nobody else has it.
LEMMA Charging ==
  ASSUME IInv, NEW q \in Sessions, ses[q].pc = "charge"
  PROVE  /\ ses[q].hash \in Hashes /\ ses[q].hash \in blobs
         /\ lock[BlobRow(ses[q].hash)] = q
         /\ ~Referenced(ses[q].hash)
BY DEF IInv, Ok, HoldsRows, HasArgs, BlobKnown, LinkedBlobsStay

\* A step of p that gives no link to a blob that another session is deleting.
LEMMA LinksStep ==
  ASSUME IInv, NEW p \in Sessions, \A q \in Sessions \ {p} : ses'[q] = ses[q],
         ses'[p].pc # "charge", docs' \subseteq blobs',
         \A r \in Rooms, h \in Hashes : refs'[r][h] > 0 => h \in blobs',
         \A q \in Sessions \ {p} : ses[q].pc = "charge" =>
           /\ ses[q].hash \in docs' => ses[q].hash \in docs
           /\ \A r \in Rooms :
                refs'[r][ses[q].hash] > 0 /\ status'[r] \in {"open", "closed"} =>
                  refs[r][ses[q].hash] > 0 /\ status[r] \in {"open", "closed"}
  PROVE  LinkedBlobsStay'
<1>1. ASSUME NEW q \in Sessions, ses'[q].pc = "charge"
      PROVE  ~Referenced(ses[q].hash)'
  <2>1. q # p /\ ses'[q] = ses[q] /\ ses[q].pc = "charge"
    BY <1>1
  <2>2. ~Referenced(ses[q].hash)
    BY <2>1, Charging
  <2> QED
    BY <2>1, <2>2 DEF Referenced
<1> QED
  BY <1>1 DEF LinkedBlobsStay

\* A request arrives; a detach takes one reference away at once.
LEMMA BeginStep ==
  ASSUME IInv, NEW p \in Clients, NEW op \in Ops, NEW r \in Rooms, NEW h \in Hashes,
         Begin(p, op, r, h)
  PROVE  IInv'
<1> DEFINE c == CASE op = "save" -> "link" [] op = "detach" -> "next" [] OTHER -> "room"
           todo == IF op = "detach" THEN {h} ELSE {}
           temp == op = "upload"
           new == [IdleSession EXCEPT !.op = op, !.room = r, !.hash = h, !.temp = temp,
                                      !.pc = c, !.todo = todo]
<1>1. /\ TypeOK /\ p \in Sessions /\ Ok(p) /\ ses[p].pc = "idle"
      /\ requests' = requests + 1 /\ ses' = [ses EXCEPT ![p] = new]
      /\ refs' = IF op = "detach" THEN [refs EXCEPT ![r][h] = @ - 1] ELSE refs
      /\ op = "detach" => refs[r][h] > 0
      /\ UNCHANGED <<status, blobs, docs, total, files, lock, crashes>>
  BY DEF IInv, Begin, Sessions
<1>2. /\ op \in {"upload", "brain", "detach", "save", "delete"}
      /\ c \in {"link", "next", "room"} /\ (c = "link" => op = "save")
      /\ todo \in SUBSET Hashes /\ temp \in BOOLEAN
  BY BlobsAssumption
<1>3. new = [IdleSession EXCEPT !.op = op, !.room = r, !.hash = h, !.temp = temp,
                                !.pc = c, !.todo = todo]
  OBVIOUS
<1> HIDE DEF c, todo, temp, new
<1>4. /\ new \in Session /\ new.op = op /\ new.room = r /\ new.hash = h /\ new.pc = c
  BY <1>2, <1>3, IdleTyped DEF Session, IdleSession
<1>5. /\ ses' \in [Sessions -> Session] /\ ses'[p] = new
      /\ \A q \in Sessions \ {p} : ses'[q] = ses[q]
  BY <1>1, <1>4 DEF TypeOK
<1>6. /\ refs' \in [Rooms -> [Hashes -> Nat]]
      /\ \A x \in Rooms, g \in Hashes : refs'[x][g] > 0 => refs[x][g] > 0
  <2>1. CASE op # "detach"
    BY <1>1, <2>1 DEF TypeOK
  <2>2. CASE op = "detach"
    <3> DEFINE n == refs[r][h] - 1
               row == [refs[r] EXCEPT ![h] = n]
    <3>1. n \in Nat /\ refs[r] \in [Hashes -> Nat] /\ refs' = [refs EXCEPT ![r] = row]
          /\ refs[r][h] \in Nat
      BY <1>1, <2>2 DEF TypeOK
    <3>2. n > 0 => refs[r][h] > 0
      BY <3>1
    <3>3. row \in [Hashes -> Nat] /\ row[h] = n /\ \A g \in Hashes : g # h => row[g] = refs[r][g]
      <4> HIDE DEF n
      <4> QED
        BY <3>1
    <3> HIDE DEF n, row
    <3>4. refs' \in [Rooms -> [Hashes -> Nat]]
      BY <1>1, <3>1, <3>3 DEF TypeOK
    <3>5. refs'[r] = row /\ \A x \in Rooms : x # r => refs'[x] = refs[x]
      BY <1>1, <3>1 DEF TypeOK
    <3> QED
      BY <3>2, <3>3, <3>4, <3>5
  <2> QED
    BY <2>1, <2>2
<1>7. TypeOK'
  BY <1>1, <1>5, <1>6 DEF TypeOK
<1>8. CounterIsExact'
  BY <1>1 DEF IInv, CounterIsExact
<1>9. ses'[p].pc # "charge"
  BY <1>2, <1>4, <1>5
<1>10. LinkedBlobsStay'
  <2>1. docs' \subseteq blobs'
        /\ \A x \in Rooms, g \in Hashes : refs'[x][g] > 0 => g \in blobs'
    BY <1>1, <1>6 DEF IInv, LinkedBlobsStay
  <2>2. ASSUME NEW q \in Sessions \ {p}, ses[q].pc = "charge"
        PROVE  /\ ses[q].hash \in docs' => ses[q].hash \in docs
               /\ \A x \in Rooms :
                    refs'[x][ses[q].hash] > 0 /\ status'[x] \in {"open", "closed"} =>
                      refs[x][ses[q].hash] > 0 /\ status[x] \in {"open", "closed"}
    <3>1. ses[q].hash \in Hashes
      BY <2>2, Charging
    <3> QED
      BY <1>1, <1>6, <3>1
  <2> QED
    BY <1>1, <1>5, <1>9, <2>1, <2>2, LinksStep
<1>11. Ok(p)'
  <2>1. \A l \in Lockables : lock'[l] # p
    BY <1>1 DEF Ok, StatsKnown, BlobKnown, RoomKnown, Holders, Inserters, Lockables
  <2>2. ~Attaching(ses'[p]) /\ ses'[p].pc \notin {"commit", "charge"} /\ HasArgs(ses'[p])
    BY <1>2, <1>4, <1>5 DEF Attaching, HasArgs, Inserters
  <2> QED
    BY <1>1, <2>1, <2>2, Unlocked
<1>12. ASSUME NEW q \in Sessions, q # p PROVE Ok(q)'
  <2>1. ses'[q] = ses[q] /\ total \in Int
    BY <1>1, <1>5, <1>12 DEF TypeOK
  <2>2. \A g \in Hashes : lock[BlobRow(g)] = q => g \in blobs'
    BY <1>1 DEF IInv, Ok, BlobKnown
  <2> QED
    BY <1>1, <2>1, <2>2, Frame
<1> QED
  BY <1>7, <1>8, <1>10, <1>11, <1>12 DEF IInv

\* One more reference to a content, and to no other.
LEMMA OneReference ==
  ASSUME TypeOK, NEW r \in Rooms, NEW h \in Hashes,
         refs' = [refs EXCEPT ![r][h] = @ + 1]
  PROVE  /\ refs' \in [Rooms -> [Hashes -> Nat]]
         /\ \A x \in Rooms, g \in Hashes : g # h => refs'[x][g] = refs[x][g]
<1> DEFINE n == refs[r][h] + 1
           row == [refs[r] EXCEPT ![h] = n]
<1>1. n \in Nat /\ refs[r] \in [Hashes -> Nat] /\ refs' = [refs EXCEPT ![r] = row]
  BY DEF TypeOK
<1>2. row \in [Hashes -> Nat] /\ \A g \in Hashes : g # h => row[g] = refs[r][g]
  <2> HIDE DEF n
  <2> QED
    BY <1>1
<1> HIDE DEF n, row
<1>3. refs' \in [Rooms -> [Hashes -> Nat]]
  BY <1>1, <1>2 DEF TypeOK
<1>4. refs'[r] = row /\ \A x \in Rooms : x # r => refs'[x] = refs[x]
  BY <1>1 DEF TypeOK
<1> QED
  BY <1>2, <1>3, <1>4

\* An upload is rolled back, to be redone or given up, or it commits: under
\* the blob's lock when it reuses one, under the counter's when it is new.
LEMMA CommitUploadStep ==
  ASSUME IInv, NEW p \in Sessions, CommitUpload(p)
  PROVE  IInv'
<1> DEFINE me == ses[p]
           h == ses[p].hash
           r == ses[p].room
<1>1. /\ TypeOK /\ Ok(p) /\ me.pc = "commit" /\ me \in Session
      /\ UNCHANGED <<files, requests, crashes>>
  BY DEF IInv, CommitUpload, TypeOK
<1>2. h \in Hashes /\ r \in Rooms /\ lock[RoomRow(r)] = p
  BY <1>1 DEF Ok, HasArgs, HoldsRows, Attaching, Inserters
<1>3. CASE /\ lock' = Releasing(p) /\ UNCHANGED db
           /\ ses' = [ses EXCEPT ![p] =
                IF me.attempt < MaxAttempts
                THEN [me EXCEPT !.pc = "room", !.attempt = @ + 1]
                ELSE IdleSession]
  <2> DEFINE again == [me EXCEPT !.pc = "room", !.attempt = @ + 1]
             new == IF me.attempt < MaxAttempts THEN again ELSE IdleSession
  <2>1. me.attempt < MaxAttempts =>
          /\ again \in Session /\ again.pc = "room" /\ again.hash = h /\ again.room = r
    <3> SUFFICES ASSUME me.attempt < MaxAttempts
                 PROVE  /\ again \in Session /\ again.pc = "room"
                        /\ again.hash = h /\ again.room = r
      OBVIOUS
    <3> DEFINE n == me.attempt + 1
    <3>1. me.attempt \in 1..MaxAttempts /\ MaxAttempts \in Nat
      BY <1>1, BlobsAssumption DEF Session
    <3>2. n \in 1..MaxAttempts /\ again = [me EXCEPT !.pc = "room", !.attempt = n]
      BY <3>1
    <3> HIDE DEF n, me
    <3> QED
      BY <1>1, <3>2 DEF Session, me
  <2>2. new \in Session /\ new.pc \in {"room", "idle"} /\ HasArgs(new)
    BY <1>2, <2>1, IdleTyped DEF IdleSession, HasArgs, Inserters
  <2> HIDE DEF new
  <2>3. /\ ses' \in [Sessions -> Session] /\ ses'[p] = new
        /\ \A q \in Sessions \ {p} : ses'[q] = ses[q]
    BY <1>1, <1>3, <2>2 DEF TypeOK, new
  <2>4. /\ lock' \in [Lockables -> Sessions \cup {None}]
        /\ \A l \in Lockables : lock'[l] # p
        /\ \A q \in Sessions \ {p} : \A l \in Lockables : lock'[l] = q <=> lock[l] = q
    BY <1>1, <1>3, ReleasingEffect
  <2>5. Ok(p)'
    <3>1. ~Attaching(ses'[p]) /\ ses'[p].pc \notin {"commit", "charge"} /\ HasArgs(ses'[p])
      BY <2>2, <2>3 DEF Attaching
    <3> QED
      BY <2>4, <3>1, Unlocked
  <2>6. files' \subseteq Hashes /\ requests' \in Nat /\ crashes' \in Nat
        /\ ses'[p].pc # "charge"
    BY <1>1, <2>2, <2>3 DEF TypeOK
  <2> QED
    BY <1>3, <2>3, <2>4, <2>5, <2>6, QuietStep
<1>4. CASE /\ IsNew(p) => h \notin blobs
           /\ refs' = [refs EXCEPT ![r][h] = @ + 1]
           /\ blobs' = IF IsNew(p) THEN blobs \cup {h} ELSE blobs
           /\ total' = IF IsNew(p) THEN total + Bytes[{h}] ELSE total
           /\ End(p) /\ UNCHANGED <<status, docs>>
  <2>1. /\ ses' \in [Sessions -> Session] /\ ses'[p] = IdleSession
        /\ \A q \in Sessions \ {p} : ses'[q] = ses[q]
        /\ lock' \in [Lockables -> Sessions \cup {None}]
        /\ \A q \in Sessions \ {p} : \A l \in Lockables : lock'[l] = q <=> lock[l] = q
        /\ Ok(p)'
    BY <1>1, <1>4, EndEffect
  <2>2. /\ refs' \in [Rooms -> [Hashes -> Nat]]
        /\ \A x \in Rooms, g \in Hashes : g # h => refs'[x][g] = refs[x][g]
    BY <1>1, <1>2, <1>4, OneReference
  <2>3. h \in blobs' /\ blobs \subseteq blobs' /\ blobs' \subseteq blobs \cup {h}
    BY <1>1, <1>2, <1>4 DEF Ok, HoldsRows, BlobKnown, IsNew
  <2>4. Bytes[{h}] \in Nat /\ total \in Int /\ blobs \subseteq Hashes
    BY <1>1, <1>2, BlobsAssumption DEF TypeOK
  <2>5. TypeOK'
    BY <1>1, <1>2, <1>4, <2>1, <2>2, <2>3, <2>4 DEF TypeOK
  <2>6. CounterIsExact'
    <3>1. total = Bytes[blobs] /\ total <= Ceiling
      BY DEF IInv, CounterIsExact
    <3>2. CASE IsNew(p)
      <4>1. total + Bytes[{h}] <= Ceiling
        BY <1>1, <3>2 DEF IsNew, Ok, StatsKnown
      <4>2. Bytes[blobs \cup {h}] = Bytes[blobs] + Bytes[{h}]
        BY <1>2, <1>4, <2>4, <3>2, BlobsAssumption
      <4> QED
        BY <1>4, <3>1, <3>2, <4>1, <4>2 DEF CounterIsExact
    <3>3. CASE ~IsNew(p)
      BY <1>4, <3>1, <3>3 DEF CounterIsExact
    <3> QED
      BY <3>2, <3>3
  <2>7. LinkedBlobsStay'
    <3>1. docs' \subseteq blobs'
          /\ \A x \in Rooms, g \in Hashes : refs'[x][g] > 0 => g \in blobs'
      BY <1>4, <2>2, <2>3 DEF IInv, LinkedBlobsStay
    <3>2. ASSUME NEW q \in Sessions \ {p}, ses[q].pc = "charge"
          PROVE  /\ ses[q].hash \in docs' => ses[q].hash \in docs
                 /\ \A x \in Rooms :
                      refs'[x][ses[q].hash] > 0 /\ status'[x] \in {"open", "closed"} =>
                        refs[x][ses[q].hash] > 0 /\ status[x] \in {"open", "closed"}
      <4>1. ses[q].hash \in Hashes /\ ses[q].hash \in blobs
            /\ lock[BlobRow(ses[q].hash)] = q
        BY <3>2, Charging
      <4>2. ses[q].hash # h
        BY <1>1, <1>4, <3>2, <4>1 DEF Ok, HoldsRows, IsNew
      <4> QED
        BY <1>4, <2>2, <4>1, <4>2
    <3>3. ses'[p].pc # "charge"
      BY <2>1 DEF IdleSession
    <3> QED
      BY <2>1, <3>1, <3>2, <3>3, LinksStep
  <2>8. ASSUME NEW q \in Sessions, q # p PROVE Ok(q)'
    <3>1. ses'[q] = ses[q] /\ \A l \in Lockables : lock'[l] = q <=> lock[l] = q
      BY <2>1, <2>8
    <3>2. lock[StatsRow] = q => total' \in Int /\ total' <= total
      BY <1>4, <2>4, <2>8 DEF IsNew
    <3>3. \A g \in Hashes : lock[BlobRow(g)] = q => g \in blobs'
      BY <2>3 DEF IInv, Ok, BlobKnown
    <3>4. status' = status
      BY <1>4
    <3> QED
      BY <3>1, <3>2, <3>3, <3>4, Frame
  <2> QED
    BY <2>1, <2>5, <2>6, <2>7, <2>8 DEF IInv
<1> QED
  BY <1>3, <1>4 DEF CommitUpload

\* A link goes only to a blob whose row nobody is about to delete.
LEMMA LinkStep ==
  ASSUME IInv, NEW p \in Sessions, Link(p)
  PROVE  IInv'
<1> DEFINE h == ses[p].hash
           r == ses[p].room
<1>1. /\ TypeOK /\ Ok(p) /\ ses[p].pc = "link" /\ Ready(p) /\ End(p)
      /\ UNCHANGED <<status, blobs, total, files, requests, crashes>>
  BY DEF IInv, Link
<1>2. h \in Hashes
  BY <1>1 DEF Ok, HasArgs, Inserters
<1>3. h \in blobs => lock[BlobRow(h)] \in {None, p}
  <2> SUFFICES ASSUME h \in blobs PROVE lock[BlobRow(h)] \in {None, p}
    OBVIOUS
  <2>1. BlobRow(h) \in Wanted(p)
    BY <1>1, <1>2, Rows DEF Wanted
  <2> QED
    BY <1>1, <2>1 DEF Ready, BlockedBy
<1>4. /\ ses' \in [Sessions -> Session] /\ ses'[p] = IdleSession
      /\ \A q \in Sessions \ {p} : ses'[q] = ses[q]
      /\ lock' \in [Lockables -> Sessions \cup {None}]
      /\ \A q \in Sessions \ {p} : \A l \in Lockables : lock'[l] = q <=> lock[l] = q
      /\ Ok(p)'
  BY <1>1, EndEffect
<1>5. /\ refs' \in [Rooms -> [Hashes -> Nat]]
      /\ docs' \subseteq IF h \in blobs THEN docs \cup {h} ELSE docs
      /\ \A x \in Rooms, g \in Hashes : g # h \/ h \notin blobs => refs'[x][g] = refs[x][g]
  <2>1. CASE h \in blobs /\ ses[p].op = "brain"
    <3>1. r \in Rooms
      BY <1>1, <2>1 DEF Ok, HoldsRows, Attaching
    <3>2. refs' = [refs EXCEPT ![r][h] = @ + 1] /\ docs' = docs
      BY <2>1 DEF Link
    <3> QED
      BY <1>1, <1>2, <2>1, <3>1, <3>2, OneReference
  <2>2. CASE ~(h \in blobs /\ ses[p].op = "brain")
    <3>1. refs' = refs
      BY <2>2 DEF Link
    <3>2. docs' \subseteq IF h \in blobs THEN docs \cup {h} ELSE docs
      BY <2>2 DEF Link
    <3> QED
      BY <1>1, <3>1, <3>2 DEF TypeOK
  <2> QED
    BY <2>1, <2>2
<1>6. TypeOK'
  BY <1>1, <1>2, <1>4, <1>5 DEF TypeOK
<1>7. CounterIsExact'
  BY <1>1 DEF IInv, CounterIsExact
<1>8. LinkedBlobsStay'
  <2>1. docs' \subseteq blobs'
        /\ \A x \in Rooms, g \in Hashes : refs'[x][g] > 0 => g \in blobs'
    BY <1>1, <1>5 DEF IInv, LinkedBlobsStay
  <2>2. ASSUME NEW q \in Sessions \ {p}, ses[q].pc = "charge"
        PROVE  /\ ses[q].hash \in docs' => ses[q].hash \in docs
               /\ \A x \in Rooms :
                    refs'[x][ses[q].hash] > 0 /\ status'[x] \in {"open", "closed"} =>
                      refs[x][ses[q].hash] > 0 /\ status[x] \in {"open", "closed"}
    <3>1. ses[q].hash \in Hashes /\ ses[q].hash \in blobs /\ lock[BlobRow(ses[q].hash)] = q
      BY <2>2, Charging
    <3>2. ses[q].hash # h
      BY <1>3, <2>2, <3>1, BlobsAssumption
    <3> QED
      BY <1>1, <1>5, <3>1, <3>2
  <2>3. ses'[p].pc # "charge"
    BY <1>4 DEF IdleSession
  <2> QED
    BY <1>4, <2>1, <2>2, <2>3, LinksStep
<1>9. ASSUME NEW q \in Sessions, q # p PROVE Ok(q)'
  <2>1. ses'[q] = ses[q] /\ \A l \in Lockables : lock'[l] = q <=> lock[l] = q
    BY <1>4, <1>9
  <2>2. total' = total /\ status' = status /\ total \in Int
    BY <1>1 DEF TypeOK
  <2>3. \A g \in Hashes : lock[BlobRow(g)] = q => g \in blobs'
    BY <1>1 DEF IInv, Ok, BlobKnown
  <2> QED
    BY <2>1, <2>2, <2>3, Frame
<1> QED
  BY <1>4, <1>6, <1>7, <1>8, <1>9 DEF IInv

\* A room is deleted while nobody is attaching to it.
LEMMA DeleteRoomStep ==
  ASSUME IInv, NEW p \in Sessions, DeleteRoom(p)
  PROVE  IInv'
<1> DEFINE r == ses[p].room
           me == ses[p]
           new == ses'[p]
           todo == {h \in Hashes : refs[r][h] > 0}
           none == [h \in Hashes |-> 0]
<1>1. /\ TypeOK /\ Ok(p) /\ me \in Session /\ me.pc = "room" /\ me.op = "delete"
      /\ Ready(p) /\ UNCHANGED <<requests, crashes>>
  BY DEF IInv, DeleteRoom, TypeOK
<1>2. CASE Refuse(p)
  BY <1>1, <1>2, EndStep DEF Refuse
<1>3. CASE /\ status[r] # "deleted" /\ status' = [status EXCEPT ![r] = "deleted"]
           /\ refs' = [refs EXCEPT ![r] = none]
           /\ ses' = [ses EXCEPT ![p].pc = "next", ![p].todo = todo]
           /\ UNCHANGED <<blobs, docs, total, files, lock>>
  <2>1. r \in Rooms
    BY <1>1 DEF Ok, HasArgs
  <2>2. lock[RoomRow(r)] \in {None, p}
    <3>1. RoomRow(r) \in Wanted(p)
      BY <1>1, <1>3, <2>1, Rows DEF Wanted
    <3> QED
      BY <1>1, <3>1 DEF Ready, BlockedBy
  <2>3. /\ ses' = [ses EXCEPT ![p] = new] /\ new = [me EXCEPT !.pc = "next", !.todo = todo]
        /\ \A q \in Sessions \ {p} : ses'[q] = ses[q]
    BY <1>1, <1>3 DEF TypeOK
  <2>4. new \in Session /\ new.pc = "next"
    <3>1. todo \in SUBSET Hashes
      OBVIOUS
    <3> HIDE DEF new, me, todo
    <3> QED
      BY <1>1, <2>3, <3>1 DEF Session
  <2>5. ses' \in [Sessions -> Session]
    BY <1>1, <2>3, <2>4 DEF TypeOK
  <2>6. /\ none \in [Hashes -> Nat] /\ refs' \in [Rooms -> [Hashes -> Nat]]
        /\ refs'[r] = none /\ \A x \in Rooms : x # r => refs'[x] = refs[x]
    <3>1. none \in [Hashes -> Nat]
      OBVIOUS
    <3> HIDE DEF none
    <3> QED
      BY <1>1, <1>3, <2>1, <3>1 DEF TypeOK
  <2>7. \A x \in Rooms, g \in Hashes : refs'[x][g] > 0 => x # r /\ refs[x][g] > 0
    <3>1. \A g \in Hashes : none[g] = 0
      OBVIOUS
    <3> HIDE DEF none
    <3> QED
      BY <2>6, <3>1
  <2>8. /\ status' \in [Rooms -> {"open", "closed", "expired", "deleted"}]
        /\ \A x \in Rooms : x # r => status'[x] = status[x]
    BY <1>1, <1>3, <2>1 DEF TypeOK
  <2>9. TypeOK'
    BY <1>1, <1>3, <2>5, <2>6, <2>8 DEF TypeOK
  <2>10. CounterIsExact'
    BY <1>3 DEF IInv, CounterIsExact
  <2>11. LinkedBlobsStay'
    <3>1. docs' \subseteq blobs'
          /\ \A x \in Rooms, g \in Hashes : refs'[x][g] > 0 => g \in blobs'
      BY <1>3, <2>7 DEF IInv, LinkedBlobsStay
    <3>2. ASSUME NEW q \in Sessions \ {p}, ses[q].pc = "charge"
          PROVE  /\ ses[q].hash \in docs' => ses[q].hash \in docs
                 /\ \A x \in Rooms :
                      refs'[x][ses[q].hash] > 0 /\ status'[x] \in {"open", "closed"} =>
                        refs[x][ses[q].hash] > 0 /\ status[x] \in {"open", "closed"}
      <4>1. ses[q].hash \in Hashes
        BY <3>2, Charging
      <4> QED
        BY <1>3, <2>7, <2>8, <4>1
    <3> QED
      BY <2>3, <2>4, <3>1, <3>2, LinksStep
  <2>12. Ok(p)'
    <3>1. \A l \in Lockables : lock'[l] # p
      BY <1>1, <1>3 DEF Ok, StatsKnown, BlobKnown, RoomKnown, Holders, Inserters, Lockables
    <3>2. ~Attaching(ses'[p]) /\ ses'[p].pc \notin {"commit", "charge"} /\ HasArgs(ses'[p])
      BY <2>4 DEF Attaching, HasArgs, Inserters
    <3> QED
      BY <3>1, <3>2, Unlocked
  <2>13. ASSUME NEW q \in Sessions, q # p PROVE Ok(q)'
    <3>1. ses'[q] = ses[q] /\ lock' = lock /\ total' = total /\ total \in Int
      BY <1>1, <1>3, <2>3, <2>13 DEF TypeOK
    <3>2. \A g \in Hashes : lock[BlobRow(g)] = q => g \in blobs'
      BY <1>3 DEF IInv, Ok, BlobKnown
    <3>3. \A x \in Rooms : lock[RoomRow(x)] = q => status'[x] = status[x]
      BY <2>2, <2>8, <2>13, BlobsAssumption
    <3> QED
      BY <3>1, <3>2, <3>3, Frame
  <2> QED
    BY <2>9, <2>10, <2>11, <2>12, <2>13 DEF IInv
<1> QED
  BY <1>2, <1>3 DEF DeleteRoom

\* A blob goes with its references and its bytes, and nothing linked goes.
LEMMA ChargeStep ==
  ASSUME IInv, NEW p \in Sessions, Charge(p)
  PROVE  IInv'
<1> DEFINE h == ses[p].hash
<1>1. /\ TypeOK /\ Ok(p) /\ ses[p].pc = "charge" /\ Ready(p) /\ Goto(p, "unlink")
      /\ lock' = Releasing(p) /\ refs' = [r \in Rooms |-> [refs[r] EXCEPT ![h] = 0]]
      /\ total' = total - Bytes[{h}] /\ blobs' = blobs \ {h}
      /\ UNCHANGED <<status, docs, files, requests, crashes>>
  BY DEF IInv, Charge
<1>2. /\ h \in Hashes /\ h \in blobs /\ lock[BlobRow(h)] = p /\ h \notin docs
  BY <1>1, Charging DEF Referenced
<1>3. /\ ses' \in [Sessions -> Session] /\ ses'[p].pc = "unlink" /\ ses'[p].hash = h
      /\ \A q \in Sessions \ {p} : ses'[q] = ses[q]
  BY <1>1, GotoEffect
<1>4. /\ lock' \in [Lockables -> Sessions \cup {None}]
      /\ \A l \in Lockables : lock'[l] # p
      /\ \A q \in Sessions \ {p} : \A l \in Lockables : lock'[l] = q <=> lock[l] = q
  BY <1>1, ReleasingEffect
<1>5. \A r \in Rooms : [refs[r] EXCEPT ![h] = 0] \in [Hashes -> Nat]
  BY <1>1, <1>2 DEF TypeOK
<1>6. refs' \in [Rooms -> [Hashes -> Nat]]
  BY <1>1, <1>5
<1>7. \A x \in Rooms, g \in Hashes : refs'[x][g] = IF g = h THEN 0 ELSE refs[x][g]
  <2> TAKE x \in Rooms, g \in Hashes
  <2>1. refs'[x] = [refs[x] EXCEPT ![h] = 0] /\ refs[x] \in [Hashes -> Nat]
    BY <1>1 DEF TypeOK
  <2> QED
    BY <1>2, <2>1
<1>8. Bytes[{h}] \in Nat /\ total \in Int /\ total' \in Int /\ total' <= total
  <2>1. Bytes[{h}] \in Nat /\ total \in Int
    BY <1>1, <1>2, BlobsAssumption DEF TypeOK
  <2> QED
    BY <1>1, <2>1
<1>9. TypeOK'
  BY <1>1, <1>3, <1>4, <1>6, <1>8 DEF TypeOK
<1>10. CounterIsExact'
  <2>1. total = Bytes[blobs] /\ total <= Ceiling /\ Ceiling \in Nat
    BY BlobsAssumption DEF IInv, CounterIsExact
  <2>2. Bytes[(blobs \ {h}) \cup {h}] = Bytes[blobs \ {h}] + Bytes[{h}]
        /\ Bytes[blobs \ {h}] \in Nat
    <3>1. blobs \ {h} \in SUBSET Hashes /\ h \in Hashes \ (blobs \ {h})
      BY <1>1, <1>2 DEF TypeOK
    <3> QED
      BY <3>1, BlobsAssumption
  <2>3. (blobs \ {h}) \cup {h} = blobs
    BY <1>2
  <2>4. total = Bytes[blobs \ {h}] + Bytes[{h}]
    BY <2>1, <2>2, <2>3
  <2>5. total' = Bytes[blobs \ {h}]
    BY <1>1, <1>8, <2>2, <2>4
  <2>6. total' <= Ceiling
    BY <1>8, <2>1
  <2> QED
    BY <1>1, <2>5, <2>6 DEF CounterIsExact
<1>11. LinkedBlobsStay'
  <2>1. docs' \subseteq blobs'
        /\ \A x \in Rooms, g \in Hashes : refs'[x][g] > 0 => g \in blobs'
    BY <1>1, <1>2, <1>7 DEF IInv, LinkedBlobsStay
  <2>2. ASSUME NEW q \in Sessions \ {p}, ses[q].pc = "charge"
        PROVE  /\ ses[q].hash \in docs' => ses[q].hash \in docs
               /\ \A x \in Rooms :
                    refs'[x][ses[q].hash] > 0 /\ status'[x] \in {"open", "closed"} =>
                      refs[x][ses[q].hash] > 0 /\ status[x] \in {"open", "closed"}
    <3>1. ses[q].hash \in Hashes
      BY <2>2, Charging
    <3> QED
      BY <1>1, <1>7, <3>1
  <2> QED
    BY <1>3, <2>1, <2>2, LinksStep
<1>12. Ok(p)'
  <2>1. ~Attaching(ses'[p]) /\ ses'[p].pc \notin {"commit", "charge"} /\ HasArgs(ses'[p])
    BY <1>2, <1>3 DEF Attaching, HasArgs, Inserters
  <2> QED
    BY <1>4, <2>1, Unlocked
<1>13. ASSUME NEW q \in Sessions, q # p PROVE Ok(q)'
  <2>1. ses'[q] = ses[q] /\ \A l \in Lockables : lock'[l] = q <=> lock[l] = q
    BY <1>3, <1>4, <1>13
  <2>2. \A g \in Hashes : lock[BlobRow(g)] = q => g \in blobs /\ g # h
    BY <1>2, <1>13 DEF IInv, Ok, BlobKnown
  <2>3. \A g \in Hashes : lock[BlobRow(g)] = q => g \in blobs'
    BY <1>1, <2>2
  <2>4. status' = status
    BY <1>1
  <2> QED
    BY <1>8, <2>1, <2>3, <2>4, Frame
<1> QED
  BY <1>9, <1>10, <1>11, <1>12, <1>13 DEF IInv

\* A room that nobody has locked is closed, or a closed one expires.
LEMMA StatusStep ==
  ASSUME IInv, NEW r \in Rooms, CloseRoom(r) \/ Expire(r)
  PROVE  IInv'
<1>1. /\ TypeOK /\ UNCHANGED <<refs, blobs, docs, total, files, lock, ses, requests, crashes>>
      /\ \/ status[r] = "open" /\ lock[RoomRow(r)] = None
            /\ status' = [status EXCEPT ![r] = "closed"]
         \/ status[r] = "closed" /\ status' = [status EXCEPT ![r] = "expired"]
  BY DEF IInv, CloseRoom, Expire
<1>2. /\ status' \in [Rooms -> {"open", "closed", "expired", "deleted"}]
      /\ \A x \in Rooms : x # r => status'[x] = status[x]
      /\ status[r] \in {"open", "closed"}
  BY <1>1 DEF TypeOK
<1>3. TypeOK' /\ CounterIsExact'
  BY <1>1, <1>2 DEF IInv, TypeOK, CounterIsExact
<1>4. LinkedBlobsStay'
  <2>1. ASSUME NEW q \in Sessions, ses[q].pc = "charge"
        PROVE  ~Referenced(ses[q].hash)'
    <3>1. ~Referenced(ses[q].hash)
      BY <2>1, Charging
    <3> QED
      BY <1>1, <1>2, <3>1 DEF Referenced
  <2>2. (docs \subseteq blobs /\ \A x \in Rooms, h \in Hashes : refs[x][h] > 0 => h \in blobs)'
    BY <1>1 DEF IInv, LinkedBlobsStay
  <2> QED
    BY <1>1, <2>1, <2>2 DEF LinkedBlobsStay
<1>5. ASSUME NEW q \in Sessions PROVE Ok(q)'
  <2>1. ses'[q] = ses[q] /\ lock' = lock /\ total' = total /\ total \in Int
    BY <1>1 DEF TypeOK
  <2>2. \A g \in Hashes : lock[BlobRow(g)] = q => g \in blobs'
    BY <1>1 DEF IInv, Ok, BlobKnown
  <2>3. lock[RoomRow(r)] # q
    BY <1>1, BlobsAssumption DEF IInv, Ok, RoomKnown
  <2>4. \A x \in Rooms : lock[RoomRow(x)] = q => status'[x] = status[x]
    BY <1>2, <2>3
  <2> QED
    BY <2>1, <2>2, <2>4, Frame
<1> QED
  BY <1>3, <1>4, <1>5 DEF IInv

\* After a restart nobody holds or does anything.
LEMMA AllIdle ==
  ASSUME ses' = [p \in Sessions |-> IdleSession], lock' = [l \in Lockables |-> None]
  PROVE  \A p \in Sessions : Ok(p)'
<1> TAKE p \in Sessions
<1>1. \A l \in Lockables : lock'[l] # p
  BY BlobsAssumption
<1>2. ~Attaching(ses'[p]) /\ ses'[p].pc \notin {"commit", "charge"} /\ HasArgs(ses'[p])
  BY DEF IdleSession, Attaching, HasArgs, Inserters
<1> QED
  BY <1>1, <1>2, Unlocked

\* A restart drops every session; the committed rows are as they were.
LEMMA CrashStep ==
  ASSUME IInv, Crash
  PROVE  IInv'
<1>1. /\ TypeOK /\ crashes' = crashes + 1 /\ UNCHANGED <<db, files, requests>>
      /\ ses' = [p \in Sessions |-> IdleSession] /\ lock' = [l \in Lockables |-> None]
  BY DEF IInv, Crash
<1>2. TypeOK'
  BY <1>1, IdleTyped DEF TypeOK, db
<1>3. CounterIsExact'
  BY <1>1 DEF IInv, CounterIsExact, db
<1>4. LinkedBlobsStay'
  <2>1. \A q \in Sessions : ses'[q].pc # "charge"
    BY <1>1 DEF IdleSession
  <2> QED
    BY <1>1, <2>1 DEF IInv, LinkedBlobsStay, db
<1> QED
  BY <1>1, <1>2, <1>3, <1>4, AllIdle DEF IInv

\* An empty store satisfies the invariant.
LEMMA InitInv == Init => IInv
<1> SUFFICES ASSUME Init PROVE IInv
  OBVIOUS
<1>1. /\ refs \in [Rooms -> [Hashes -> 0..1]]
      /\ blobs = {h \in Hashes : \E r \in Rooms : refs[r][h] > 0}
      /\ total = Bytes[blobs] /\ Bytes[blobs] <= Ceiling /\ docs = {}
      /\ ses = [p \in Sessions |-> IdleSession] /\ lock = [l \in Lockables |-> None]
  BY DEF Init
<1>2. \A p \in Sessions : ses[p] = IdleSession
  BY <1>1
<1>3. TypeOK
  <2>1. blobs \in SUBSET Hashes
    BY <1>1
  <2>2. Bytes[blobs] \in Nat
    BY <2>1, BlobsAssumption
  <2>3. refs \in [Rooms -> [Hashes -> Nat]]
    BY <1>1
  <2> QED
    BY <1>1, <2>1, <2>2, <2>3, IdleTyped DEF Init, TypeOK
<1>4. CounterIsExact
  BY <1>1 DEF CounterIsExact
<1>5. LinkedBlobsStay
  BY <1>1, <1>2 DEF LinkedBlobsStay, IdleSession
<1>6. ASSUME NEW p \in Sessions PROVE Ok(p)
  <2>1. \A l \in Lockables : lock[l] # p
    BY <1>1, BlobsAssumption
  <2>2. /\ ~Attaching(ses[p]) /\ ses[p].pc \notin {"commit", "charge"} /\ HasArgs(ses[p])
    BY <1>2 DEF IdleSession, Attaching, HasArgs, Inserters
  <2> QED
    BY <2>1, <2>2, Rows DEF Ok, StatsKnown, BlobKnown, RoomKnown, HoldsRows
<1> QED
  BY <1>3, <1>4, <1>5, <1>6 DEF IInv

\* Every step of every session, and of the environment, keeps it.
LEMMA StepInv == IInv /\ [Next]_vars => IInv'
<1> SUFFICES ASSUME IInv, [Next]_vars PROVE IInv'
  OBVIOUS
<1>1. ASSUME NEW p \in Clients, NEW op \in Ops, NEW r \in Rooms, NEW h \in Hashes,
             Begin(p, op, r, h)
      PROVE  IInv'
  BY <1>1, BeginStep
<1>2. ASSUME NEW p \in Sessions, Step(p) PROVE IInv'
  <2>1. ASSUME Announce(p) PROVE IInv'
    BY <2>1, EndStep DEF Announce
  <2> QED
    BY <1>2, <2>1, LockRoomStep, LookupStep, CeilingCheckStep, CommitUploadStep,
       LinkStep, DeleteRoomStep, NextHashStep, ReclaimStep, ChargeStep, UnlinkStep
    DEF Step
<1>3. ASSUME NEW p \in Sessions, Victim(p) PROVE IInv'
  BY <1>3, EndStep DEF Victim
<1>4. CASE Sweep
  BY <1>4, SweepStep
<1>5. ASSUME NEW r \in Rooms, CloseRoom(r) \/ Expire(r) PROVE IInv'
  BY <1>5, StatusStep
<1>6. CASE Crash
  BY <1>6, CrashStep
<1>7. CASE UNCHANGED vars
  <2>1. TypeOK' /\ CounterIsExact' /\ LinkedBlobsStay'
    BY <1>7 DEF IInv, TypeOK, CounterIsExact, LinkedBlobsStay, Referenced, vars
  <2>2. ASSUME NEW p \in Sessions PROVE Ok(p)'
    BY <1>7 DEF IInv, Ok, StatsKnown, BlobKnown, RoomKnown, HoldsRows, HasArgs, vars
  <2> QED
    BY <2>1, <2>2 DEF IInv
<1> QED
  BY <1>1, <1>2, <1>3, <1>4, <1>5, <1>6, <1>7 DEF Next

----------------------------------------------------------------------------

\* The invariant that the results below rest on.
THEOREM BlobsInvariance == Spec => []IInv
<1>1. Init => IInv
  BY InitInv
<1>2. IInv /\ [Next]_vars => IInv'
  BY StepInv
<1> QED
  BY <1>1, <1>2, PTL DEF Spec

\* Every variable keeps the shape of the rows and sessions it stands for.
THEOREM BlobsTypes == Spec => []TypeOK
BY BlobsInvariance, PTL DEF IInv

\* total_bytes counts exactly the stored blobs and never passes the ceiling,
\* whatever uploads, retries, reclaims and restarts interleave.
THEOREM CounterCorrect == Spec => []CounterIsExact
BY BlobsInvariance, PTL DEF IInv

\* Nothing that is linked is reclaimed between _blob_is_referenced and the
\* delete, whoever links to it meanwhile.
THEOREM LinksCorrect == Spec => []LinkedBlobsStay
BY BlobsInvariance, PTL DEF IInv

----------------------------------------------------------------------------
(* Waiting for row locks. *)

\* A session that is waited for and keeps no decided blob waits for a row of
\* a higher rank, if it waits at all.
LEMMA RankRises ==
  ASSUME IInv, NEW p \in Sessions, NEW q \in Sessions, q \in BlockedBy(p), ~KeepsLock(q),
         NEW l \in Wanted(p), NEW k \in Wanted(q)
  PROVE  Rank(l) < Rank(k)
<1>1. PICK held \in Wanted(p) : lock[held] = q
  BY DEF BlockedBy
<1>2. Ok(q) /\ held \in Lockables
  BY DEF IInv, Wanted
<1>3. /\ \A r : Rank(RoomRow(r)) = 1
      /\ \A h : Rank(BlobRow(h)) = 2
      /\ Rank(StatsRow) = 3
  BY DEF Rank, RoomRow, BlobRow, StatsRow
<1>4. held = l
  BY <1>1 DEF Wanted
<1>5. CASE held = StatsRow
  <2>1. ses[q].pc = "commit"
    BY <1>1, <1>2, <1>5 DEF Ok, StatsKnown
  <2> QED
    BY <2>1 DEF Wanted
<1>6. ASSUME NEW h \in Hashes, held = BlobRow(h)
      PROVE  Rank(l) < Rank(k)
  <2>1. lock[BlobRow(h)] = q
    BY <1>1, <1>6
  <2>2. ses[q].pc \in Holders \cup {"commit"}
    BY <1>2, <2>1 DEF Ok, BlobKnown
  <2>3. ses[q].pc \notin {"reclaim", "announce"}
    BY <2>1 DEF KeepsLock
  <2>4. k = StatsRow
    BY <2>2, <2>3 DEF Wanted, Holders
  <2> QED
    BY <1>3, <1>4, <1>6, <2>4
<1>7. ASSUME NEW r \in Rooms, held = RoomRow(r)
      PROVE  Rank(l) < Rank(k)
  <2>1. ses[q].pc \in Inserters
    BY <1>1, <1>2, <1>7 DEF Ok, RoomKnown
  <2>2. k = BlobRow(ses[q].hash) \/ k = StatsRow
    BY <2>1 DEF Wanted, Inserters
  <2> QED
    BY <1>3, <1>4, <1>7, <2>2
<1> QED
  BY <1>2, <1>5, <1>6, <1>7 DEF Lockables

\* Rows are taken in the order room, blob, counter; only a session that still
\* holds a blob it decided to keep is waited for out of that order.
THEOREM LockOrder == Spec => []LocksAreOrdered
<1>1. IInv => LocksAreOrdered
  <2> SUFFICES ASSUME IInv PROVE LocksAreOrdered
    OBVIOUS
  <2> QED
    BY RankRises DEF LocksAreOrdered
<1> QED
  BY <1>1, BlobsInvariance, PTL

\* So the sessions of a deadlock always include one that, in the loop of
\* _reclaim_blobs or on its way to announce a removal, still holds the row of
\* a blob it decided to keep: the only deadlock there is.
CirclesKeepABlob ==
  \A S \in SUBSET Sessions : Circle(S) => \E p \in S : KeepsLock(p)

\* Every circle of waiting sessions has a session that kept a candidate in it.
THEOREM OnlyKeptBlobsDeadlock == Spec => []CirclesKeepABlob
<1>1. IInv => CirclesKeepABlob
  <2> SUFFICES ASSUME IInv, NEW S \in SUBSET Sessions, Circle(S),
                      \A p \in S : ~KeepsLock(p)
               PROVE  FALSE
    BY DEF CirclesKeepABlob
  <2>1. \A p \in S : \E q \in S : q \in BlockedBy(p)
    BY DEF Circle
  <2>2. \A p \in S : \E l \in Wanted(p) : Rank(l) \in 1..3
    BY <2>1 DEF BlockedBy, Rank
  <2>3. \A p, q \in S : q \in BlockedBy(p) =>
          \A l \in Wanted(p), k \in Wanted(q) : Rank(l) < Rank(k)
    BY RankRises
  <2>4. PICK a \in S, b \in S, c \in S, d \in S :
          b \in BlockedBy(a) /\ c \in BlockedBy(b) /\ d \in BlockedBy(c)
    BY <2>1 DEF Circle
  <2>5. PICK i \in Wanted(a), j \in Wanted(b), k \in Wanted(c), m \in Wanted(d) :
          Rank(i) \in 1..3 /\ Rank(j) \in 1..3 /\ Rank(k) \in 1..3 /\ Rank(m) \in 1..3
    BY <2>2
  <2>6. Rank(i) < Rank(j) /\ Rank(j) < Rank(k) /\ Rank(k) < Rank(m)
    BY <2>3, <2>4
  <2> QED
    BY <2>5, <2>6
<1> QED
  BY <1>1, BlobsInvariance, PTL

----------------------------------------------------------------------------
(* What a step may never do. *)

\* A blob row disappears only when no document links it and no room that is
\* open, or closed within its grace period, refers to it.
ReclaimSparesLinks ==
  [][\A h \in Hashes : h \in blobs /\ h \notin blobs' => ~Referenced(h)]_vars

\* _reclaim_blob_if_unreferenced deletes no row that is linked when it commits.
THEOREM NothingLinkedIsReclaimed == Spec => ReclaimSparesLinks
<1> DEFINE Spared == \A h \in Hashes : h \in blobs /\ h \notin blobs' => ~Referenced(h)
<1>1. ASSUME IInv, [Next]_vars, NEW h \in Hashes, h \in blobs, h \notin blobs'
      PROVE  ~Referenced(h)
  <2>1. PICK p \in Sessions : Charge(p)
    <3>1. blobs' # blobs
      BY <1>1
    <3>2. ASSUME NEW p \in Sessions, Step(p)
          PROVE  Charge(p)
      BY <1>1, <3>1, <3>2 DEF Step, LockRoom, Lookup, CeilingCheck, CommitUpload, Link,
         DeleteRoom, NextHash, Reclaim, Unlink, Announce, Refuse, db
    <3>3. \A p \in Sessions : ~Victim(p)
      BY <3>1 DEF Victim, db
    <3>4. ~(\E p \in Clients, op \in Ops, r \in Rooms, g \in Hashes : Begin(p, op, r, g))
      BY <3>1 DEF Begin
    <3>5. ~Sweep /\ ~Crash /\ ~(UNCHANGED vars)
      BY <3>1 DEF Sweep, Crash, vars, db
    <3>6. \A r \in Rooms : ~CloseRoom(r) /\ ~Expire(r)
      BY <3>1 DEF CloseRoom, Expire
    <3> QED
      BY <1>1, <3>2, <3>3, <3>4, <3>5, <3>6 DEF Next
  <2>2. ses[p].hash = h
    BY <1>1, <2>1 DEF Charge
  <2> QED
    BY <1>1, <2>1, <2>2, Charging DEF Charge
<1>2. IInv /\ [Next]_vars => Spared
  BY <1>1
<1> QED
  BY <1>2, BlobsInvariance, PTL DEF Spec, ReclaimSparesLinks

\* p adds a reference to r, and ends.
AddsTo(p, r) ==
  /\ Attaching(ses[p]) /\ ses[p].room = r /\ End(p)
  /\ \E h \in Hashes : refs' = [refs EXCEPT ![r][h] = @ + 1]

\* A reference is only ever added by a session that holds the room.
LEMMA OnlyAttaching ==
  ASSUME IInv, [Next]_vars
  PROVE  \A r \in Rooms, h \in Hashes : refs'[r][h] > refs[r][h] =>
           \E p \in Sessions : AddsTo(p, r)
<1> DEFINE Additions == \A r \in Rooms, h \in Hashes : refs'[r][h] > refs[r][h] =>
                          \E p \in Sessions : AddsTo(p, r)
<1>0. TypeOK /\ \A r \in Rooms, h \in Hashes : refs[r][h] \in Nat
  BY DEF IInv, TypeOK
<1>1. CASE UNCHANGED refs
  BY <1>0, <1>1
<1>2. ASSUME NEW p \in Clients, NEW op \in Ops, NEW r \in Rooms, NEW h \in Hashes,
             Begin(p, op, r, h)
      PROVE  Additions
  <2>1. CASE op # "detach"
    BY <1>1, <1>2, <2>1 DEF Begin
  <2>2. CASE op = "detach"
    <3> DEFINE n == refs[r][h] - 1
    <3>1. refs' = [refs EXCEPT ![r][h] = n] /\ n \in Int /\ n < refs[r][h]
      BY <1>0, <1>2, <2>2 DEF Begin
    <3> HIDE DEF n
    <3>2. \A x \in Rooms, g \in Hashes :
            refs'[x][g] = IF x = r /\ g = h THEN n ELSE refs[x][g]
      BY <1>0, <3>1 DEF TypeOK
    <3>3. ASSUME NEW x \in Rooms, NEW g \in Hashes PROVE ~(refs'[x][g] > refs[x][g])
      BY <1>0, <3>1, <3>2
    <3> QED
      BY <3>3
  <2> QED
    BY <2>1, <2>2
<1>3. ASSUME NEW p \in Sessions, Step(p) \/ Victim(p)
      PROVE  Additions
  <2>0. Ok(p)
    BY DEF IInv
  <2>1. CASE CommitUpload(p) \/ Link(p)
    <3> DEFINE r == ses[p].room
               h == ses[p].hash
    <3>1. CASE UNCHANGED refs
      BY <1>1, <3>1
    <3>2. CASE ~UNCHANGED refs
      <4>1. refs' = [refs EXCEPT ![r][h] = @ + 1] /\ Attaching(ses[p]) /\ End(p)
        BY <2>1, <3>2 DEF CommitUpload, Link, Attaching, db
      <4>2. AddsTo(p, r)
        <5>1. h \in Hashes
          BY <2>0, <2>1 DEF CommitUpload, Link, Ok, HasArgs, Inserters
        <5> HIDE DEF h
        <5> QED
          BY <4>1, <5>1 DEF AddsTo
      <4>3. \A x \in Rooms : x # r => refs'[x] = refs[x]
        BY <1>0, <4>1 DEF TypeOK
      <4>4. ASSUME NEW x \in Rooms, NEW g \in Hashes, refs'[x][g] > refs[x][g]
            PROVE  x = r
        BY <1>0, <4>3, <4>4
      <4> QED
        BY <4>2, <4>4
    <3> QED
      BY <3>1, <3>2
  <2>2. CASE DeleteRoom(p)
    <3> DEFINE r == ses[p].room
               none == [h \in Hashes |-> 0]
    <3>1. CASE UNCHANGED refs
      BY <1>1, <3>1
    <3>2. CASE refs' = [refs EXCEPT ![r] = none]
      <4>1. \A x \in Rooms : refs'[x] = refs[x] \/ refs'[x] = none
        BY <1>0, <3>2 DEF TypeOK
      <4>2. \A h \in Hashes : none[h] = 0
        OBVIOUS
      <4> HIDE DEF none
      <4>3. ASSUME NEW x \in Rooms, NEW g \in Hashes PROVE ~(refs'[x][g] > refs[x][g])
        BY <1>0, <4>1, <4>2
      <4> QED
        BY <4>3
    <3> QED
      BY <2>2, <3>1, <3>2 DEF DeleteRoom, Refuse, db
  <2>3. CASE Charge(p)
    <3>1. \A x \in Rooms : refs'[x] = [refs[x] EXCEPT ![ses[p].hash] = 0]
                            /\ refs[x] \in [Hashes -> Nat]
      BY <1>0, <2>3 DEF Charge, TypeOK
    <3>2. ASSUME NEW x \in Rooms, NEW g \in Hashes PROVE ~(refs'[x][g] > refs[x][g])
      <4> DEFINE row == refs[x]
      <4>1. row \in [Hashes -> Nat] /\ refs'[x] = [row EXCEPT ![ses[p].hash] = 0]
        BY <3>1
      <4> HIDE DEF row
      <4>2. refs'[x][g] = 0 \/ refs'[x][g] = row[g]
        BY <4>1
      <4>3. row[g] \in Nat
        BY <4>1
      <4>4. ~(refs'[x][g] > row[g])
        BY <4>2, <4>3
      <4> QED
        BY <4>4 DEF row
    <3> QED
      BY <3>2
  <2>4. CASE LockRoom(p) \/ Lookup(p) \/ CeilingCheck(p) \/ NextHash(p) \/ Reclaim(p)
             \/ Unlink(p) \/ Announce(p) \/ Victim(p)
    <3>1. UNCHANGED refs
      BY <2>4 DEF LockRoom, Lookup, CeilingCheck, NextHash, Reclaim, Unlink, Announce,
         Victim, Refuse, db
    <3> QED
      BY <1>1, <3>1
  <2> QED
    BY <1>3, <2>1, <2>2, <2>3, <2>4 DEF Step
<1>4. CASE Sweep \/ Crash \/ UNCHANGED vars
  <2>1. UNCHANGED refs
    BY <1>4 DEF Sweep, Crash, vars, db
  <2> QED
    BY <1>1, <2>1
<1>5. ASSUME NEW r \in Rooms, CloseRoom(r) \/ Expire(r)
      PROVE  Additions
  <2>1. UNCHANGED refs
    BY <1>5 DEF CloseRoom, Expire
  <2> QED
    BY <1>1, <2>1
<1> QED
  BY <1>2, <1>3, <1>4, <1>5 DEF Next

\* A reference is only ever added to a room that is open at that moment: an
\* attachment that passed its check cannot land in a room closed meanwhile.
AttachesWhileOpen ==
  [][\A r \in Rooms, h \in Hashes : refs'[r][h] > refs[r][h] => status[r] = "open"]_vars

\* add_room_attachment and its siblings attach under the lock of an open room.
THEOREM NoLateAttachment == Spec => AttachesWhileOpen
<1> DEFINE Open == \A r \in Rooms, h \in Hashes : refs'[r][h] > refs[r][h] => status[r] = "open"
<1>1. ASSUME IInv, [Next]_vars PROVE Open
  <2> SUFFICES ASSUME NEW r \in Rooms, NEW h \in Hashes, refs'[r][h] > refs[r][h]
               PROVE  status[r] = "open"
    OBVIOUS
  <2>1. PICK p \in Sessions : AddsTo(p, r)
    BY <1>1, OnlyAttaching
  <2> QED
    BY <1>1, <2>1 DEF AddsTo, IInv, Ok, HoldsRows, RoomKnown
<1> QED
  BY <1>1, BlobsInvariance, PTL DEF Spec, AttachesWhileOpen

----------------------------------------------------------------------------
(* The file cap of a room. *)

\* The rows of one content in a room, and all its rows.
RowsOf(f, h) == {h} \X (1 .. f[h])
Files(f)     == UNION {RowsOf(f, h) : h \in Hashes}

LEMMA FilesFinite ==
  ASSUME NEW f \in [Hashes -> Nat]
  PROVE  IsFiniteSet(Files(f)) /\ Cardinality(Files(f)) \in Nat
<1> DEFINE T == {RowsOf(f, h) : h \in Hashes}
           g == [h \in Hashes |-> RowsOf(f, h)]
<1>1. IsFiniteSet(Hashes)
  BY BlobsAssumption
<1>2. g \in Surjection(Hashes, T)
  BY DEF Surjection
<1>3. IsFiniteSet(T)
  BY <1>1, <1>2, FS_Surjection
<1>4. ASSUME NEW x \in T PROVE IsFiniteSet(x)
  <2>0. \E h \in Hashes : x = RowsOf(f, h)
    BY Zenon
  <2>1. PICK h \in Hashes : x = {h} \X (1 .. f[h])
    BY <2>0 DEF RowsOf
  <2> HIDE DEF T
  <2>2. 1 \in Int /\ f[h] \in Int
    OBVIOUS
  <2>3. IsFiniteSet({h}) /\ IsFiniteSet(1 .. f[h])
    BY <2>2, FS_Singleton, FS_Interval
  <2> QED
    BY <2>1, <2>3, FS_Product
<1> HIDE DEF T
<1>5. IsFiniteSet(UNION T)
  BY <1>3, <1>4, FS_UNION
<1> QED
  BY <1>5, FS_CardinalityType DEF Files, T

\* Removing rows does not make them more.
LEMMA FewerFiles ==
  ASSUME NEW f \in [Hashes -> Nat], NEW g \in [Hashes -> Nat],
         \A h \in Hashes : g[h] <= f[h]
  PROVE  Cardinality(Files(g)) <= Cardinality(Files(f))
<1>1. ASSUME NEW h \in Hashes PROVE RowsOf(g, h) \subseteq RowsOf(f, h)
  <2>1. 1 .. g[h] \subseteq 1 .. f[h]
    OBVIOUS
  <2> QED
    BY <2>1 DEF RowsOf
<1>2. Files(g) \subseteq Files(f)
  BY <1>1 DEF Files
<1> QED
  BY <1>2, FilesFinite, FS_Subset

\* One reference more is at most one row more.
LEMMA OneMoreFile ==
  ASSUME NEW f \in [Hashes -> Nat], NEW h \in Hashes
  PROVE  Cardinality(Files([f EXCEPT ![h] = @ + 1])) <= Cardinality(Files(f)) + 1
<1> DEFINE n == f[h] + 1
           g == [f EXCEPT ![h] = n]
           F == Files(f)
           x == <<h, n>>
<1>1. n \in Nat /\ 1 .. n = (1 .. f[h]) \cup {n}
  OBVIOUS
<1>2. ASSUME NEW k \in Hashes PROVE RowsOf(g, k) \subseteq F \cup {x}
  <2>1. CASE k = h
    <3>1. RowsOf(g, h) = RowsOf(f, h) \cup {x}
      BY <1>1 DEF RowsOf
    <3> QED
      BY <2>1, <3>1 DEF Files
  <2>2. CASE k # h
    <3>1. RowsOf(g, k) = RowsOf(f, k)
      BY <2>2 DEF RowsOf
    <3> QED
      BY <3>1 DEF Files
  <2> QED
    BY <2>1, <2>2
<1>3. Files(g) \subseteq F \cup {x}
  BY <1>2 DEF Files
<1>4. g \in [Hashes -> Nat]
  BY <1>1
<1>5. IsFiniteSet(F) /\ Cardinality(F) \in Nat /\ Cardinality(Files(g)) \in Nat
  BY <1>4, FilesFinite
<1> HIDE DEF g, F, x
<1>6. IsFiniteSet(F \cup {x}) /\ Cardinality(F \cup {x}) <= Cardinality(F) + 1
  BY <1>5, FS_AddElement
<1>7. Cardinality(F \cup {x}) \in Nat /\ Cardinality(Files(g)) <= Cardinality(F \cup {x})
  BY <1>3, <1>6, FS_Subset, FS_CardinalityType
<1>8. Cardinality(Files(g)) <= Cardinality(F) + 1
  BY <1>5, <1>6, <1>7
<1> QED
  BY <1>8 DEF g, F, n

LEMMA RefCountIsFiles ==
  ASSUME NEW r \in Rooms
  PROVE  /\ RefCount(r) = Cardinality(Files(refs[r]))
         /\ RefCount(r)' = Cardinality(Files(refs'[r]))
BY DEF RefCount, Files, RowsOf

\* A session that adds a reference has found room for it, and nobody else
\* adds one while it holds the room.
HasRoom(s)  == Attaching(s) => RefCount(s.room) < MaxFiles
RoomToSpare == \A p \in Sessions : HasRoom(ses[p])

\* A session comes to be attaching only by the check under the room's lock.
LEMMA AttachingBegins ==
  ASSUME IInv, [Next]_vars, NEW p \in Sessions, Attaching(ses'[p])
  PROVE  \/ Attaching(ses[p]) /\ ses'[p].room = ses[p].room
         \/ LockRoom(p) /\ ~Full(ses[p].room) /\ UNCHANGED refs
              /\ ses'[p].room = ses[p].room /\ ses[p].room \in Rooms
<1>0. ses \in [Sessions -> Session] /\ Ok(p)
  BY DEF IInv, TypeOK
<1>1. CASE ses'[p] = ses[p]
  BY <1>1
<1>2. ~Attaching(IdleSession)
  BY DEF Attaching, IdleSession
<1>3. ASSUME NEW q \in Clients, NEW op \in Ops, NEW r \in Rooms, NEW h \in Hashes,
             Begin(q, op, r, h)
      PROVE  ses'[p] = ses[p]
  <2> DEFINE pc == CASE op = "save" -> "link" [] op = "detach" -> "next" [] OTHER -> "room"
             new == [IdleSession EXCEPT
                       !.op = op, !.room = r, !.hash = h, !.temp = (op = "upload"),
                       !.pc = pc, !.todo = IF op = "detach" THEN {h} ELSE {}]
  <2>1. ses' = [ses EXCEPT ![q] = new]
    BY <1>3 DEF Begin
  <2>2. new.pc = pc /\ new.op = op
    BY DEF IdleSession
  <2>3. pc \in {"link", "next", "room"} /\ (pc = "link" => op = "save")
    BY <1>3, BlobsAssumption DEF Begin
  <2> HIDE DEF new, pc
  <2>4. ~Attaching(new)
    BY <2>2, <2>3 DEF Attaching
  <2> QED
    BY <1>0, <2>1, <2>4
<1>4. ASSUME NEW q \in Sessions, q # p, Step(q) \/ Victim(q)
      PROVE  ses'[p] = ses[p]
  BY <1>0, <1>4 DEF Step, Victim, LockRoom, Lookup, CeilingCheck, CommitUpload, Link,
     DeleteRoom, NextHash, Reclaim, Charge, Unlink, Announce, Refuse, End, Keep, Goto
<1>5. CASE Step(p) \/ Victim(p)
  <2>1. CASE LockRoom(p)
    <3>1. ses[p].room \in Rooms
      BY <1>0, <2>1 DEF LockRoom, Ok, HasArgs
    <3>2. CASE End(p)
      BY <1>0, <1>2, <3>2 DEF End
    <3>3. CASE ~End(p)
      BY <1>0, <2>1, <3>1, <3>3 DEF LockRoom, Refuse, Keep, Goto, db, Session
    <3> QED
      BY <3>2, <3>3
  <2>2. CASE Lookup(p)
    BY <1>0, <2>2 DEF Lookup, Attaching, Session
  <2>3. CASE CeilingCheck(p)
    <3>1. CASE End(p)
      BY <1>0, <1>2, <3>1 DEF End
    <3>2. CASE ~End(p)
      BY <1>0, <2>3, <3>2 DEF CeilingCheck, Refuse, Attaching, Session
    <3> QED
      BY <3>1, <3>2
  <2>4. CASE CommitUpload(p)
    <3>1. ses'[p] = IdleSession \/ ses'[p].pc = "room"
      BY <1>0, <2>4 DEF CommitUpload, End, Session
    <3> QED
      BY <1>2, <3>1 DEF Attaching
  <2>5. CASE Link(p) \/ Announce(p) \/ Victim(p)
    <3>1. End(p)
      BY <2>5 DEF Link, Announce, Victim
    <3> QED
      BY <1>0, <1>2, <3>1 DEF End
  <2>6. CASE DeleteRoom(p) \/ NextHash(p)
    <3>1. CASE End(p)
      BY <1>0, <1>2, <3>1 DEF End
    <3>2. CASE ~End(p)
      <4>1. CASE DeleteRoom(p)
        BY <1>0, <3>2, <4>1 DEF DeleteRoom, Refuse, Attaching, Session
      <4>2. CASE NextHash(p)
        <5>1. CASE Goto(p, "announce")
          BY <1>0, <5>1 DEF Goto, Attaching, Session
        <5>2. CASE ~Goto(p, "announce")
          <6>1. PICK h : ses' = [ses EXCEPT ![p].pc = "reclaim", ![p].hash = h,
                                            ![p].todo = @ \ {h}]
            BY <3>2, <4>2, <5>2 DEF NextHash
          <6>2. ses'[p].pc = "reclaim"
            BY <1>0, <6>1 DEF Session
          <6> QED
            BY <6>2 DEF Attaching
        <5> QED
          BY <5>1, <5>2
      <4> QED
        BY <2>6, <4>1, <4>2
    <3> QED
      BY <3>1, <3>2
  <2>7. CASE Reclaim(p) \/ Charge(p) \/ Unlink(p)
    <3>1. ses'[p].pc \in {"next", "charge", "unlink"}
      BY <1>0, <2>7 DEF Reclaim, Charge, Unlink, Keep, Goto, Session
    <3> QED
      BY <3>1 DEF Attaching
  <2> QED
    BY <1>5, <2>1, <2>2, <2>3, <2>4, <2>5, <2>6, <2>7 DEF Step
<1>6. CASE Sweep
  <2>1. p # Sweeper => ses'[p] = ses[p]
    BY <1>0, <1>6 DEF Sweep
  <2>2. p = Sweeper => ses'[p].pc = "next"
    BY <1>0, <1>6 DEF Sweep, IdleSession, Sessions
  <2> QED
    BY <1>1, <2>1, <2>2 DEF Attaching
<1>7. CASE Crash
  BY <1>2, <1>7 DEF Crash
<1>8. CASE (\E r \in Rooms : CloseRoom(r) \/ Expire(r)) \/ UNCHANGED vars
  BY <1>1, <1>8 DEF CloseRoom, Expire, vars
<1> QED
  BY <1>1, <1>3, <1>4, <1>5, <1>6, <1>7, <1>8 DEF Next

LEMMA RoomToSpareStep ==
  ASSUME IInv, RoomToSpare, [Next]_vars
  PROVE  RoomToSpare'
<1> SUFFICES ASSUME NEW p \in Sessions, Attaching(ses'[p])
             PROVE  (RefCount(ses[p].room) < MaxFiles)'
  BY DEF RoomToSpare, HasRoom, Attaching
<1>0. /\ refs \in [Rooms -> [Hashes -> Nat]] /\ refs' \in [Rooms -> [Hashes -> Nat]]
      /\ MaxFiles \in Nat
  BY StepInv, BlobsAssumption DEF IInv, TypeOK
<1>1. ASSUME NEW r \in Rooms, ses'[p].room = r
      PROVE  RefCount(ses[p].room)' = Cardinality(Files(refs'[r]))
  BY <1>1 DEF RefCount, Files, RowsOf
<1>2. CASE Attaching(ses[p]) /\ ses'[p].room = ses[p].room
  <2>1. PICK r \in Rooms : /\ r = ses[p].room /\ lock[RoomRow(r)] = p
                           /\ RefCount(r) < MaxFiles
    BY <1>2 DEF IInv, Ok, HoldsRows, RoomToSpare, HasRoom
  <2>2. ASSUME NEW h \in Hashes, refs'[r][h] > refs[r][h] PROVE FALSE
    <3>1. PICK q \in Sessions : AddsTo(q, r)
      BY <2>1, <2>2, OnlyAttaching
    <3>2. lock[RoomRow(r)] = q /\ ses'[q] = IdleSession
      BY <3>1 DEF IInv, TypeOK, Ok, HoldsRows, AddsTo, End
    <3>3. ses'[p] = IdleSession
      BY <2>1, <3>2
    <3> QED
      BY <3>3 DEF Attaching, IdleSession
  <2> DEFINE f == refs[r]
             g == refs'[r]
  <2>3. f \in [Hashes -> Nat] /\ g \in [Hashes -> Nat]
    BY <1>0
  <2>4. \A h \in Hashes : ~(g[h] > f[h])
    BY <2>2
  <2>5. RefCount(r) = Cardinality(Files(f)) /\ RefCount(ses[p].room)' = Cardinality(Files(g))
    BY <1>1, <1>2, <2>1, RefCountIsFiles
  <2> HIDE DEF f, g
  <2>6. \A h \in Hashes : g[h] <= f[h]
    BY <2>3, <2>4
  <2>7. /\ Cardinality(Files(g)) <= Cardinality(Files(f))
        /\ Cardinality(Files(g)) \in Nat /\ Cardinality(Files(f)) \in Nat
    BY <2>3, <2>6, FewerFiles, FilesFinite
  <2> QED
    BY <1>0, <2>1, <2>5, <2>7
<1>3. CASE /\ ~Full(ses[p].room) /\ UNCHANGED refs
           /\ ses'[p].room = ses[p].room /\ ses[p].room \in Rooms
  <2>1. PICK r \in Rooms : r = ses[p].room /\ r = ses'[p].room
    BY <1>3
  <2>2. RefCount(ses[p].room)' = Cardinality(Files(refs[r])) /\ ~(RefCount(r) >= MaxFiles)
    BY <1>1, <1>3, <2>1 DEF Full
  <2>3. RefCount(r) = Cardinality(Files(refs[r])) /\ RefCount(r) \in Nat
    BY <1>0, RefCountIsFiles, FilesFinite
  <2> QED
    BY <1>0, <2>2, <2>3
<1> QED
  BY <1>2, <1>3, AttachingBegins

\* No room ever has more files than attachment_max_files_per_room, however
\* many uploads and links to it are under way.
FilesCapped == \A r \in Rooms : RefCount(r) <= MaxFiles

LEMMA FilesCappedStep ==
  ASSUME IInv, RoomToSpare, FilesCapped, [Next]_vars
  PROVE  FilesCapped'
<1> SUFFICES ASSUME NEW r \in Rooms PROVE RefCount(r)' <= MaxFiles
  BY DEF FilesCapped
<1> DEFINE f == refs[r]
           g == refs'[r]
<1>0. f \in [Hashes -> Nat] /\ g \in [Hashes -> Nat] /\ MaxFiles \in Nat
  BY StepInv, BlobsAssumption DEF IInv, TypeOK
<1>1. RefCount(r) = Cardinality(Files(f)) /\ RefCount(r)' = Cardinality(Files(g))
  BY RefCountIsFiles
<1>2. CASE \A h \in Hashes : ~(g[h] > f[h])
  <2> HIDE DEF f, g
  <2>1. \A h \in Hashes : g[h] <= f[h]
    BY <1>0, <1>2
  <2>2. /\ Cardinality(Files(g)) <= Cardinality(Files(f))
        /\ Cardinality(Files(g)) \in Nat /\ Cardinality(Files(f)) \in Nat
    BY <1>0, <2>1, FewerFiles, FilesFinite
  <2> QED
    BY <1>0, <1>1, <2>2 DEF FilesCapped
<1>3. CASE \E h \in Hashes : g[h] > f[h]
  <2>1. PICK p \in Sessions : AddsTo(p, r)
    BY <1>3, OnlyAttaching
  <2>2. PICK h \in Hashes : refs' = [refs EXCEPT ![r][h] = @ + 1]
    BY <2>1 DEF AddsTo
  <2>3. g = [f EXCEPT ![h] = @ + 1]
    BY <2>2 DEF IInv, TypeOK
  <2>4. RefCount(r) < MaxFiles
    BY <2>1 DEF AddsTo, RoomToSpare, HasRoom
  <2> HIDE DEF f, g
  <2>5. Cardinality(Files(g)) <= Cardinality(Files(f)) + 1
    BY <1>0, <2>3, OneMoreFile
  <2>6. Cardinality(Files(g)) \in Nat /\ Cardinality(Files(f)) \in Nat
    BY <1>0, FilesFinite
  <2> QED
    BY <1>0, <1>1, <2>4, <2>5, <2>6
<1> QED
  BY <1>2, <1>3

\* What LockRoom checked under the room's lock still holds at the commit.
THEOREM FileCapHolds == Spec => []FilesCapped
<1>1. Init => RoomToSpare /\ FilesCapped
  BY DEF Init, RoomToSpare, HasRoom, Attaching, IdleSession, FilesCapped
<1>2. IInv /\ RoomToSpare /\ [Next]_vars => RoomToSpare'
  BY RoomToSpareStep
<1>3. IInv /\ RoomToSpare /\ FilesCapped /\ [Next]_vars => FilesCapped'
  BY FilesCappedStep
<1> QED
  BY <1>1, <1>2, <1>3, BlobsInvariance, PTL DEF Spec

----------------------------------------------------------------------------
(* The store implements the serial one of BlobStore. *)

Stutters == UNCHANGED <<status, refs, blobs, docs>>

LEMMA CountsAgree ==
  ASSUME NEW r \in Rooms
  PROVE  Store!FileCount(r) = RefCount(r)
<1> DEFINE S == UNION {{h} \X (1 .. refs[r][h]) : h \in Hashes}
<1>1. Store!FileCount(r) = Store!Cardinality(S) /\ RefCount(r) = Cardinality(S)
  BY Zenon DEF Store!FileCount, RefCount
<1> HIDE DEF S
<1>2. Store!Cardinality(S) = Cardinality(S)
  BY DEF Store!Cardinality, Cardinality
<1> QED
  BY <1>1, <1>2

\* A commit that links a stored content to a room is one attachment.
LEMMA CommitIsAttach ==
  ASSUME IInv, IInv', NEW p \in Sessions, HasRoom(ses[p]), Attaching(ses[p]),
         NEW h \in Hashes, refs' = [refs EXCEPT ![ses[p].room][h] = @ + 1],
         blobs' = blobs \cup {h}, UNCHANGED <<status, docs>>
  PROVE  \E r \in Rooms : Store!Attach(r, h)
<1>1. PICK r \in Rooms : r = ses[p].room /\ lock[RoomRow(r)] = p
  BY DEF IInv, Ok, HoldsRows
<1>2. status[r] = "open"
  BY <1>1 DEF IInv, Ok, RoomKnown
<1>3. Store!FileCount(r) < MaxFiles
  BY <1>1, CountsAgree DEF HasRoom
<1>4. Bytes[blobs'] <= Ceiling
  BY BlobsAssumption DEF IInv, CounterIsExact
<1> QED
  BY <1>1, <1>2, <1>3, <1>4 DEF Store!Attach

LEMMA StepIsAtomic ==
  ASSUME IInv, IInv', RoomToSpare, [Next]_vars
  PROVE  [Store!StoreNext]_(Store!storeVars)
<1> SUFFICES Stutters \/ Store!StoreNext
  BY DEF Stutters, Store!storeVars
<1>0. TypeOK
  BY DEF IInv
<1>1. ASSUME NEW p \in Clients, NEW op \in Ops, NEW r \in Rooms, NEW h \in Hashes,
             Begin(p, op, r, h)
      PROVE  Stutters \/ Store!Detach(r, h)
  BY <1>1 DEF Begin, Stutters, Store!Detach
<1>2. ASSUME NEW p \in Sessions, CommitUpload(p)
      PROVE  Stutters \/ \E r \in Rooms, h \in Hashes : Store!Attach(r, h)
  <2> DEFINE h == ses[p].hash
  <2>0. Ok(p) /\ HasRoom(ses[p])
    BY DEF IInv, RoomToSpare
  <2>1. h \in Hashes /\ Attaching(ses[p])
    BY <1>2, <2>0 DEF CommitUpload, Ok, HasArgs, Inserters, Attaching
  <2>2. CASE UNCHANGED db
    BY <2>2 DEF Stutters, db
  <2>3. CASE ~UNCHANGED db
    <3>1. /\ refs' = [refs EXCEPT ![ses[p].room][h] = @ + 1]
          /\ blobs' = IF IsNew(p) THEN blobs \cup {h} ELSE blobs
          /\ UNCHANGED <<status, docs>>
      BY <1>2, <2>3 DEF CommitUpload
    <3>2. ~IsNew(p) => h \in blobs
      BY <1>2, <2>0, <2>1 DEF CommitUpload, IsNew, Ok, HoldsRows, BlobKnown
    <3>3. blobs' = blobs \cup {h}
      BY <3>1, <3>2
    <3> HIDE DEF h
    <3>4. \E r \in Rooms : Store!Attach(r, h)
      BY <2>0, <2>1, <3>1, <3>3, CommitIsAttach
    <3> QED
      BY <2>1, <3>4
  <2> QED
    BY <2>2, <2>3
<1>3. ASSUME NEW p \in Sessions, Link(p)
      PROVE  \/ Stutters
             \/ \E r \in Rooms, h \in Hashes : Store!Attach(r, h)
             \/ \E h \in Hashes : Store!Save(h)
  <2> DEFINE h == ses[p].hash
  <2>0. Ok(p) /\ HasRoom(ses[p]) /\ ses[p].pc = "link"
    BY <1>3 DEF IInv, RoomToSpare, Link
  <2>1. h \in Hashes
    BY <2>0 DEF Ok, HasArgs, Inserters
  <2>2. CASE h \notin blobs
    BY <1>3, <2>2 DEF Link, Stutters
  <2>3. CASE h \in blobs /\ ses[p].op = "brain"
    <3>1. /\ refs' = [refs EXCEPT ![ses[p].room][h] = @ + 1]
          /\ blobs' = blobs \cup {h} /\ UNCHANGED <<status, docs>>
      BY <1>3, <2>3 DEF Link
    <3>2. Attaching(ses[p])
      BY <2>0, <2>3 DEF Attaching
    <3> HIDE DEF h
    <3>3. \E r \in Rooms : Store!Attach(r, h)
      BY <2>0, <2>1, <3>1, <3>2, CommitIsAttach
    <3> QED
      BY <2>1, <3>3
  <2>4. CASE h \in blobs /\ ses[p].op # "brain"
    BY <1>3, <2>1, <2>4 DEF Link, Store!Save
  <2> QED
    BY <2>2, <2>3, <2>4
<1>4. ASSUME NEW p \in Sessions, DeleteRoom(p)
      PROVE  Stutters \/ \E r \in Rooms : Store!Delete(r)
  <2>1. ses[p].room \in Rooms
    BY <1>4 DEF DeleteRoom, IInv, Ok, HasArgs
  <2> QED
    BY <1>4, <2>1 DEF DeleteRoom, Refuse, db, Stutters, Store!Delete
<1>5. ASSUME NEW p \in Sessions, Charge(p)
      PROVE  \E h \in Hashes : Store!Forget(h)
  <2> DEFINE h == ses[p].hash
  <2>1. ses[p].pc = "charge" /\ h \in Hashes /\ h \in blobs
    BY <1>5 DEF Charge, IInv, Ok, HasArgs, HoldsRows, BlobKnown
  <2>2. ~Store!InUse(h)
    BY <2>1 DEF IInv, LinkedBlobsStay, Referenced, Store!InUse
  <2> QED
    BY <1>5, <2>1, <2>2 DEF Charge, Store!Forget
<1>6. ASSUME NEW p \in Sessions,
             \/ LockRoom(p) \/ Lookup(p) \/ CeilingCheck(p) \/ NextHash(p) \/ Reclaim(p)
             \/ Unlink(p) \/ Announce(p) \/ Victim(p)
      PROVE  Stutters
  BY <1>6 DEF LockRoom, Lookup, CeilingCheck, NextHash, Reclaim, Unlink, Announce, Victim,
     Refuse, db, Stutters
<1>7. CASE Sweep \/ Crash \/ UNCHANGED vars
  BY <1>7 DEF Sweep, Crash, vars, db, Stutters
<1>8. ASSUME NEW r \in Rooms, CloseRoom(r) \/ Expire(r)
      PROVE  Store!Close(r) \/ Store!Expire(r)
  BY <1>8 DEF CloseRoom, Expire, Store!Close, Store!Expire
<1> QED
  BY <1>1, <1>2, <1>3, <1>4, <1>5, <1>6, <1>7, <1>8 DEF Next, Step, Store!StoreNext

\* Every behaviour of the attachment store, with its sessions, row locks,
\* counter, retries and restarts, is one of the serial store of BlobStore.
THEOREM BlobsImplementBlobStore == Spec => ImplementsBlobStore
<1>1. Init => Store!StoreInit /\ RoomToSpare
  <2> SUFFICES ASSUME Init PROVE Store!StoreInit /\ RoomToSpare
    OBVIOUS
  <2>1. \A r \in Rooms : Store!FileCount(r) = RefCount(r)
    BY CountsAgree
  <2>2. Store!StoreInit
    BY <2>1 DEF Init, Store!StoreInit
  <2>3. RoomToSpare
    BY DEF Init, RoomToSpare, HasRoom, Attaching, IdleSession
  <2> QED
    BY <2>2, <2>3
<1>2. IInv /\ RoomToSpare /\ [Next]_vars => RoomToSpare'
  BY RoomToSpareStep
<1>3. IInv /\ IInv' /\ RoomToSpare /\ [Next]_vars => [Store!StoreNext]_(Store!storeVars)
  BY StepIsAtomic
<1> QED
  BY <1>1, <1>2, <1>3, BlobsInvariance, PTL DEF Spec, ImplementsBlobStore, Store!StoreSpec
============================================================================
