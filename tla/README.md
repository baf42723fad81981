# A verification of brainard in TLA+

brainard ("the Brain") is a FastAPI service over PostgreSQL through which a
fleet of agents shares knowledge (deposits, doctrine, a library kept in order by
a librarian) and meets in chat rooms.  This directory holds TLA+ models of it,
the TLC configurations that check them on small instances, and TLAPS proofs of
the theorems that hold on every instance.  Source lines are under `src/app/`
unless a path says otherwise; `PROJECT.json` maps every definition to its lines.

## 1. The system

One process, one event loop, many coroutines (several processes may start on one
database).  Every request has a database session of its own (READ COMMITTED;
`expire_on_commit=False`, so an ORM object keeps what it read until it is
refreshed).  Background tasks sweep the rooms and run the librarian.  Coroutines
interleave at every `await`, hence between any two SQL statements.

| Component | State | Operations | Correct when | Module |
|---|---|---|---|---|
| Rooms (`rooms.py`, `routers/rooms.py`) | `rooms`, `room_members`, `room_messages` | create, post, delete message, close, switch mode, uploads switch, owner-open gate, delete room | transcript numbered without gaps, `message_count` right, cap never overrun, close final, agents wait for the owner | `Rooms` |
| Long poll and working lease (`rooms.py`) | `working_until`, one-shot ping columns | poll, refresh lease, stall ping, open reminder | no message missed, each ping sent once and when due | `Rooms` |
| Seats (`room_seats.py`) | `bound_machine_id` | bind on first use, release, reassign | a name never changes hands silently | `Rooms` |
| Room sweeper (`room_sweeper.py`) | none of its own | close expired, warn closing, sweep blobs | expired rooms close, one warning per room, garbage goes | `Rooms`, `Blobs` |
| Owner pings (`notify.py`) | none of its own | best-effort send after a commit | at most one of each sort per room | `Rooms` |
| Attachment references (`attachments.py`) | `room_attachments` | upload, attach from Brain, delete | file cap, uploads switch, seat respected | `Rooms`, `Blobs` |
| Blob store (`attachments.py`) | `attachment_blobs`, a byte counter, files on disk | dedup insert, link, reclaim, sweep | a row always has its bytes, nothing in use is reclaimed, the counter matches the rows, the ceiling holds | `Blobs` |
| Upload budget (`attachments.py`) | `_reserved_bytes` | reserve, write chunk, release | pledges released on every exit, disk floor kept | `UploadBudget` |
| Deposits and library (`routers/deposits.py`) | deposits, knowledge entries, documents | deposit with replay, supersede, retire, mirror | what is acknowledged is stored, statuses match the lineage, versions contiguous | `Library` |
| Flags, proposals (`flags.py`, `proposals.py`) | flags, decisions on entries | raise, resolve, decide | outcomes are final, proposals stay apart | `Library` |
| Librarian (`librarian_engine.py`) | run records, call budget | run, flag phases, lesson phase | budget never exceeded, no merge repeated | `Librarian` |
| Versioned configuration (`llm_config.py`, `notifications.py`, `doctrine.py`) | append-only versions | write next version | versions contiguous, no write lost, conflicts are real | `Registry` |
| Machines, auth, first boot (`machines.py`, `auth.py`, `reserved_machines.py`, `startup.py`) | machine rows, owner token | mint, update, revoke, reactivate, bootstrap | a revoked machine is refused, the token that was shown works | `Registry` |
| Bootstrap (`routers/bootstrap.py`) | project stubs | compile doctrine, trim, serve | what is served is what its stamp names | `Registry` |
| Search, export, onboarding, UI, LLM client, migrations | read-only or wiring | | not modelled, see section 7 | |

How they interact: the HTTP and UI routers call the same functions of
`rooms.py`; attachments bind seats through `check_and_bind_seat` and announce
themselves through `_post_attachment_system_message`; the sweeper calls
`close_room`, `post_closing_nudge` and `sweep_expired_blobs`; closing a room
starts the grace period of its blobs, deleting it reclaims them at once; closes,
stalls and refused first posts call `notify.py` after their commit.  Save-to-Brain
and the room AI actions write deposits; the librarian writes deposits through
`create_deposit` and resolves flags; it and the room AI work under reserved
machine rows whose revocation is their kill switch.

What is hard: (1) every room handler checks first without a lock and then takes
`SELECT ... FOR UPDATE`, so what it checked may be stale; (2) the long poll never
takes the lock and reads in several statements; (3) four parties may close a
room (owner, "done", cap, sweeper), and each then pings the owner; (4) three
paths and the owner write a seat; (5) the room is released from waiting in two
ways, both of which have to start a deferred deadline; (6) a file and its row
are changed in two steps that cannot be one, and rows are locked in several
tables; (7) a deposit reads statuses and version numbers it writes later, and is
retried by clients and by itself; (8) the librarian keeps what it read across an
LLM call; (9) version numbers are computed before they are inserted; (10) the
bootstrap composes rows it reads one by one.

## 2. Modules

    RoomLog       what a room promises: a serial transcript, no locks, no counter
    Rooms         the room's rows, all handlers, the sweeper, time, failures
    BlobStore     what the attachment store promises: attach, save, forget, no locks
    Blobs         blob rows, byte counter, files, row locks, reclaims
    UploadBudget  pledges, chunks, write buffers, the free-disk floor
    Library       deposits, entries, documents, flags, decisions
    Librarian     EXTENDS Library: runs at work on it, in the same database
    Registry      owner token, machines, versioned records, bootstrap
    MCRooms, MCBlobs, MCUploads, MCLibrary, MCRegistry   instances for TLC

    RoomsProofs       Rooms: lock, counter, cap, numbering, final close
    TranscriptProofs  EXTENDS RoomsProofs: what the messages and the row say; RoomLog
    RequestProofs     EXTENDS TranscriptProofs: requests in flight, pings, polls
    BlobsProofs       Blobs: counter, links, lock order, file cap; BlobStore
    UploadProofs      UploadBudget: pledges and the floor, with sums over sets
    LibraryProofs     Library and Librarian
    RegistryProofs    Registry: types, numbering, revocation, owner token
    VersionProofs     EXTENDS RegistryProofs: conflicts and bootstraps

The modules share their manner.  A session (or coroutine, or run) is a record
with a program counter `pc`; a step is one SQL statement that can wait or whose
result can go stale, or one commit, or a stretch of Python without an `await`.
What a transaction has not committed is invisible, so its writes happen in the
step that commits.  Row locks and unique keys that are held until the end of the
transaction are modelled as such (`lock`, `keys`), and so is what the database
does about sessions that wait for each other in a circle (`Victim`).

### Rooms

The rows are `exists`, `room`, `messages` (by seq), `seats` and `files` (the
number of attachment references).  `lock` is the session that holds the room row
FOR UPDATE.  `req[t]` is what coroutine `t` is doing, by stage:

| Stage | Where in the code |
|---|---|
| `checked` | past the unlocked checks, waiting for the row |
| `locked` | past the FOR UPDATE with `populate_existing`; `snap` is the refreshed ORM object, `seq` what `_next_seq` returned |
| `notify` | committed, the ping to the owner not sent yet |
| `marking`, `reading`, `read` | the long poll: before the lease write, before the room row is read, before the messages are |

One action is one transaction's commit, or one statement where the code holds no
lock.  Between FOR UPDATE and the commit a handler goes by the room row, the
messages and the seats, which by `LockedSnapshotIsCurrent` no other session
changes meanwhile, so that stretch is one step; with one exception.  The alarm of
a quiet room also goes by the members' leases, and a poll writes those without the
room's lock (`rooms.py:2139`).  Its handler is therefore two steps: `FindStall`
reads the members and comes to a verdict, `PingStall` commits the guard, and a
lease may land in between.  Refusals are actions of their own (`PostRefused`, `NotOpen`,
`AttachRefused`, `LockGone`).  `Fail` rolls one transaction back; `Crash`
restarts the process.

| Action | Code |
|---|---|
| `Init` | `create_room` |
| `PostPrecheck`, `PostNotOpened`, `Lock`, `PostCommit`, `PostRefused` | `post_message`, `_insert_message_and_maybe_close`, `_check_close_as_agreed_gate`, `check_and_bind_seat` |
| `CloseRoom`, `DeleteMessage`, `SwitchMode`, `SetUploads`, `SetGate`, `SetSeat`, `DeleteRoom` | the owner's functions of those names |
| `AttachUpload`, `AttachFromBrain`, `DetachRequest`, `Announce` | `attachments.py` as far as the room's rows go, then `_post_attachment_system_message` |
| `PollStart`, `MarkWorking`, `PollReadRoom`, `PollReadMessages` | `poll_messages`, `_maybe_refresh_working_marker`, `_room_and_messages_since` |
| `PingOpen`, `FindStall`, `PingStall`, `Notify` | `_maybe_ping_owner_room_not_opened`, `_maybe_ping_owner_stalled_room`, `notify.py` |
| `SweepClose`, `SweepWarn`, `Nudge` | `_close_expired_rooms`, `_warn_closing_rooms`, `post_closing_nudge` |

Abstractions, and why nothing is lost that the properties see:

- Time is where the clock stands relative to `expires_at` (early, within
  `WARN_SECONDS`, passed) and whether the newest message and each member's latest
  poll lie further back than `stall_notify_secs`.  The poll's waiting loop is a
  sequence of polls that only read.
- Texts are what they announce (`about`); names, topics and group are left out,
  and so is `assign_group_to_rooms`, which touches only the group column.
- The statements of a poll after the room row (messages, members, last message)
  are one read.  The one separation that matters, row before messages, is kept.
- The IntegrityError retry of `post_message` is left out: `LockedSnapshotIsCurrent`
  shows it unreachable, which is what the code's comment says of it.
- `partner_working` is only returned to the caller and is left out.
- A blob that cannot be stored is a nondeterministic `AttachRefused`.

### RoomLog

Five serial operations (say, notice, tombstone, close, delete) on a transcript
and a status.  The cap is a condition on the transcript itself, "a post that
leaves as many live messages as the cap closes the room", where the code uses a
counter.  `ImplementsRoomLog` maps the message rows in order of their number to
the transcript; since all numbers are then 1..n it also says that the numbering
is right.

### Blobs

`status` folds a room's state and its grace period into open, closed, expired and
deleted.  `refs`, `blobs`, `docs`, `total` are the tables; `files` are the
complete files at a hash path, which no rollback touches.  `lock` maps each
lockable row (room, blob, counter) to its holder.

| Action | Code |
|---|---|
| `Begin` | a request after its unlocked reads; for a detach, its first commit too |
| `LockRoom`, `Lookup`, `CeilingCheck`, `CommitUpload` | `add_room_attachment` and `_get_or_create_blob`: room, blob and counter FOR UPDATE, ceiling, rename, insert and commit, or the IntegrityError and the next attempt |
| `Link` | the insert of `add_attachment_from_brain_document`, and the second commit of `save_attachment_to_brain` |
| `DeleteRoom` | `delete_room` up to its commit |
| `Sweep`, `NextHash`, `Reclaim`, `Charge`, `Unlink` | `sweep_expired_blobs`, `release_blobs_for_deleted_room` and the detach, around `_reclaim_blob_if_unreferenced` |
| `Announce` | the removal message on the detach's own session |
| `CloseRoom`, `Expire`, `Victim`, `Crash` | the surroundings |

Every content has a size, given for sets of contents (`Bytes`), so the counter
can be compared with a sum without a recursive definition.

### BlobStore

Seven serial operations (attach, detach, save, forget, close, expire, delete) on the
rooms, their references and the set of stored contents.  The file cap and the byte
ceiling are conditions on these sets, where the code checks one under the room's
lock some statements before the commit and the other against a counter; a content
is forgotten only when nothing uses it.  `ImplementsBlobStore` maps the tables to
it as they are.

### UploadBudget

An upload in flight has its pledge (`own`), the bytes accepted, and how many of
these are in Python's write buffer and on disk.  `Open`, `Chunk` and
`EndOfStream` are the stretches between two awaits of the stream in
`receive_attachment_upload` and `receive_pdf_upload`; `WriteChunk` is what they
share.  Any step may reject a Markdown upload (not text).  `Store` and `Drop` hand
the file to `Blobs`; `OtherWrites` and `OtherFrees` are the rest of the volume.

### Library and Librarian

`Library` runs `create_deposit` statement by statement: `Check`, `Validate`,
`Stub`, `StubInsert`, `DepositRow`, then for each reference `Parent` and `Write`,
then `Hints`, `Document`, `DocumentInsert`, `Commit`.  `Conflict` is the handler
of the IntegrityError, with its replay and its bounded retry.  `Resolve` and
`Decide` are the writes of `resolve_flag` and `decide`, whose reads were part of
the request's arrival (`ResolveRequest`, `DecideRequest`).  A client may send the
same deposit id any number of times, with the same or another body.

`Librarian` adds runs in sessions of the same database: `StartRun` (or a skip),
`NextPhase`, `FlagItem`, `LessonItem`, the three kinds of answer (`CallFails`,
`JudgedDistinct`, `JudgedMerge`), `Summary`, `Record`, `Timeout`, `Crash`.  A run
carries its budget (`calls`, `fails`, `aborted`) and, as history, the log of its
calls, against which the budget is checked.  What the parsers
of an answer look at is `Answer`; `SaysMerge` and `SaysRecord` are the answers that
count as a yes.  A merge is a deposit in `Library`'s own actions.  `held` is what makes the ORM's identity map
matter: entries the item's session loaded before the LLM call stay `active` to it.

Left out: what a run's record says (status, counts, texts; `rows` is only which
runs have one), events, handoffs, and the shape checks of a body (the bodies the
clients send have passed them); a deposit has one knowledge item and one document
at most, which keeps every conflict of two deposits but not one of an item with
another of the same deposit.

### Registry

The tables are `owner`, `machines`, `projects` and `rows` (all four versioned
records, by sequence).  `boot` is the start of each process (`Boot`,
`TokenInsert`, `Banner`); `printed` is what the owner can have read.  A session
writes a version (`Validate`, `NextVersion`, `Insert`, `Collide`), changes a
machine (`Mint`, `Load`, `Change`), works under a reserved identity (`Ensure`,
`EnsureInsert`, `KillSwitch`, `Work`), or fetches a bootstrap (`Authenticate`,
`Touch`, `GetProject`, `Stub`, `ReadGlobal`, `ReadOverlay`, `ReadChannel`,
`Compile`).  `barred` and `late` are history: the machines the owner's last
effective change revoked, and requests that came after it.

Two facts of the ORM are kept because the properties depend on them: an update
writes only the columns that differ from the row as loaded (`Change`, `Touch`),
and a revocation of a machine that was loaded as revoked writes nothing.

## 3. Runs

| Run | Instance | Shows |
|---|---|---|
| `posts` | 2 clients, cap 2, 3 messages, deferred deadline | counter, numbering, cap, the gate, final close, refinement of RoomLog |
| `poll` | 2 clients, one polling member, cap 2, 2 messages | no message missed, pings single and decided under the lock |
| `seats` | 2 clients, 2 machines, 4 messages, any initial seating | seat handovers are announced |
| `consensus` | 1 client, floor 4, cap 6, 5 messages, two modes | an agreed close is earned |
| `sweeper` | 2 clients, cap 2, 2 messages, deadline set or deferred, one failure or restart, `FairSpec` | one warning although it may be tried again, expired rooms close, requests end |
| `blobs` | 2 rooms, 2 contents of 1 and 2 bytes, ceiling 2, 2 clients and the sweeper, 3 requests, 1 restart | exact counter and ceiling, nothing in use reclaimed, lock order, refinement of BlobStore |
| `blobs_live` | 1 room, ceiling 3, 2 requests, `FairSpec` | sessions end in spite of circles, garbage goes |
| `blob_lost` | 1 content, 2 requests | see section 4 |
| `uploads` | 3 uploads of up to 3 bytes in chunks of 1 or 2, disk 9, floor 3, buffer 1, 1 restart | pledges add up, floor kept up to the buffers |
| `library` | entries x and y that resemble each other, a proposal, 2 clients with 2 requests, 2 deposit ids, 1 runner with 2 runs of at most 3 calls and 2 failures in a row, any restarts | acknowledged is stored, versions gapless, lineage, proposals inert, budget, no repeated merge |
| `outcomes_final` | one client request, one librarian run | see section 4 |
| `registry` | 2 processes, 2 sessions, 3 requests, 1 machine, 1 project, 2 attempts, 1 death; a new and a running installation | sequences, conflicts, bootstraps, revocation, owner token |

Why the bounds are enough.  Room handlers conflict over the row, and two clients
plus the sweeper give every pairwise interleaving (three parties with the
sweeper); a third client adds waiters, which the lock serves one after another.
Cap 2 with three messages is one message past the cap, so the close, the refused
post and a deletion that reopens the gap all occur.  Four messages in `seats` are
the shortest legal handover (the owner's opening, post, reassign, post).  Five in
`consensus` are the owner's opening, two objections, one more, and the done; one
client suffices there because the check and the insert are under one lock.  In
`blobs`, the ceiling admits either of the two sets of one content but not both,
so that the check decides; two rows are the fewest that can be locked in two
orders, three requests let one prepare the ground for two that race, and with
three attempts the last of them is never needed, which is what makes the bound
harmless.  In `uploads`, the disk above the floor is twice the per-file cap, so
that two pledges fill it and a third upload is refused by pledges alone.  In
`library` two requests, a run and the next run after a crash or a timeout
are the shortest story of a merge that is found again; two attempts let the
bounded retry run out.  Three calls and two failures make the two limits of a run
distinct: it can fail once, be answered and fail again without an abort, fail
twice in a row before its calls are used up, or use them up with an item left.
Crashes need no bound there, since what they can interrupt is bounded.  In `registry` three requests are what it takes to lose a
version number twice.  `MaxSeq`, `MaxRequests`, `MaxRuns` and `MaxCrashes` are
bounds without a counterpart in the code; where a run does not check deadlock,
the reason is that a system which has used up its requests has nothing left to
do.

Symmetry is used for clients, members, machines, rooms, deposit ids and processes
only where no constant or property names one of them, and never in the runs with
liveness properties.

Fairness.  `sweeper`: weak fairness of the steps inside a request and of the two
scans (a coroutine that can go on is scheduled, and `run_sweeper` loops for ever
and survives exceptions), strong fairness of `Lock`: Postgres queues the waiters
of a row, so one that is offered the row again and again gets it; weak fairness
would not do, since other clients hold the row in between.  `blobs_live`: strong
fairness of a session's steps for the same reason, weak fairness of the sweep
and of the database's deadlock detection.  Nothing is assumed about clients, the
clock, crashes or failures.  `outcomes_final` has weak fairness of the sessions
and the runs, though its counterexample is a single step that needs none.

Each property of a passing run has a mutant in `PROJECT.json`: a plausible slip
in one handler (`*_NoRecheck`, `*_NoGuard`, ...), defined beside the original,
that makes TLC report the property.

## 4. Where the code and its own words differ

Two runs are expected to end in a counterexample; in each, a comment states the
property and the code does not keep it.

- `blob_lost` - a reclaim commits the deletion of the row, then unlinks the file.
  An upload of the same content between the two finds no row but the file in
  place, keeps it, and commits a row whose bytes the unlink then removes.
  (`attachments.py:1181`: "never the other way around, a DB row whose file is
  already gone".)
- `outcomes_final` - `resolve_flag` and `decide` read without a lock and write
  later, so the second of two racing resolutions or decisions replaces the
  first.  (`flags.py:89-92`, `proposals.py:49`.)  A retirement can be replaced in
  the same way: a deposit that read the entry as active writes `superseded` over
  a `retired` committed meanwhile (`deposits.py:620-627`).

The following were met while modelling.  The models contain the behaviour, and the
properties are stated so as to hold in spite of it.

- Rooms: the owner-open gate is checked only before the lock (`rooms.py:1101`);
  a room released by the toggle has no `opened_at` and is never reported as quiet
  (`rooms.py:2382`); announcements raise `message_count` past the cap of an open
  room (`rooms.py:1591`), the next post then closes it; the warning scan has its
  own `now` and may warn a room that has expired (`room_sweeper.py:114`); a poll by
  a seat's former holder may refresh the new holder's lease (`rooms.py:2139`); a
  lease that is refreshed between the alarm's second look and its commit does not
  stop the alarm, so the owner may be told of a quiet room whose member has just
  come back (`rooms.py:2249-2259`).  `PingsAreNotStale` says what does hold: a
  handler found the room stalled under the lock, and of what it went by only the
  leases may have changed when its guard is set.
- Uploads: the disk check does not see bytes that are accepted and still in write
  buffers, so the floor can be missed by that much (`attachments.py:360`); hence
  `FloorHoldsUpToBuffers`.
- Blobs: a candidate the sweep or a detach keeps stays locked until the
  session's next commit (`attachments.py:1151`), and sessions can wait for each
  other in a circle; the database breaks it and the victim's request ends in an
  unhandled error, an upload's temporary file staying behind.  An upload that
  loses its insert and whose winner is reclaimed before the retry ends in 500
  `attachment_storage_inconsistent`.
- Save-to-Brain: if the blob is reclaimed between its two commits, the document
  is stored and its link fails (`attachments.py:1604`).
- Deposits: two concurrent supersessions of one entry read each other's absence,
  so the fork is not flagged (`deposits.py:600`); a retry that races its original
  may be refused by validation although the original is stored; deposits that
  name parents in opposite orders can deadlock, and that error is not retried; a
  librarian's deposit cannot retry at all, since refreshing its transient
  principal raises (`deposits.py:952`).
- Librarian: two overlapping runs can merge one pair twice, in spite of "safe to
  call concurrently with itself" (`librarian_engine.py:835-841`); `MergedOnce` is
  checked for one run at a time.  The kill switch is read at the start of a run
  only.
- Registry: doctrine writes do not catch a version collision; the loser of two
  first bootstraps of a project gets an unhandled error (`bootstrap.py:536`);
  an overlay's addition may have the id of a rule that a later global doctrine
  adds, and both are served; global and overlay are read in separate statements,
  so the stamp may pair versions that were never current together; a crash
  between the commit of the owner token and its banner loses the token.

## 5. Proofs

Every safety property that a passing run checks, invariant or action property,
is also a theorem here: TLC shows it on the instance of section 3, TLAPS for
every value of the constants that satisfies the module's assumption.  The proofs
of one component share one inductive invariant; a property that needs more adds
its own strengthening and cites the shared one.

### RoomsProofs

For any number of members, machines, clients, messages and failures:

| Theorem | States |
|---|---|
| `Invariance` | `Spec => []IInv` |
| `TypeCorrect`, `LockProtects` | `TypeOK`, `LockedSnapshotIsCurrent` |
| `CounterCorrect`, `CapCorrect`, `NumberingCorrect` | `CountIsLive`, `CapHolds`, `GaplessTranscript` |
| `CloseStands` | `CloseIsFinal` |

None of the data invariants is inductive alone.  A commit writes
`message_count` from the snapshot, so the counter stays right only if the
snapshot is the row: `LockedSnapshotIsCurrent`.  That in turn needs that at most
one session is at stage `locked` and that everything which changes the row,
the numbering or `exists` is at that stage.  The cap needs the counter: the
live posts are among the live messages, the counter says how many those are,
and a post that brings it to the cap closes the room in the same commit.  Hence

    IInv == TypeOK /\ LockedSnapshotIsCurrent /\ DataInv
    DataInv == GaplessTranscript /\ CountIsLive /\ CapHolds

The proof first shows what each kind of write does to `DataInv` (`DataNotice`,
`DataPost`, `DataTombstone`, `DataDelete`), what each kind of move does to the
lock (`LockGivenUp`, `LockElsewhere`), and then takes the actions one at a time.

### TranscriptProofs

| Theorem | States | Strengthening |
|---|---|---|
| `RoomsImplementRoomLog` | `ImplementsRoomLog` | none beyond `IInv` |
| `NudgedOnce` | `NudgedAtMostOnce` | `OneNudge`: a nudge in the transcript has left `warned` |
| `CloseIsEarned` | `AgreedCloseIsEarned` | `DoneCloses`: a member's "done" has closed the room, so its mode is frozen |
| `DeferredCorrect` | `DeferredOnlyWhileWaiting` | none |
| `ClosedIsFrozen` | `ClosedTranscriptFrozen` | none |
| `PingsAreFresh` | `PingsAreNotStale` | `VerdictsHold`: whoever has found the room stalled still has it open, opened, not yet reported and with an old newest message |
| `HandoverIsAnnounced` | `SeatHandoverIsAnnounced` | `SeatsAreOnRecord`: whoever last spoke under a name holds its seat, unless a later message says it changed hands |

`StepKinds` is proved once: to the database, every step is one of five commits (a
post, `Noticed`, `Tombstoned`, `Removed`, or `Marked`: no message at all), each
with what it may do to the row and the seats.  The results then look at five
cases instead of thirty actions.  The refinement writes the abstract transcript as
a function of the table (`Lines`), shows that an insert with the next number is an
append (`Appended`), that the live lines number what the counter says
(`LivesAgree`), and maps each kind to its serial operation (`PostIsSay`,
`NoticeIsNotice`, ...); `StepIsSerial` joins them.

### RequestProofs

| Theorem | States | Strengthening |
|---|---|---|
| `OwnerSpeaksFirst` | `AgentsWaitForOwner` | `ReleaseIsOnRecord`: if agents may speak, or one is already past the gate, the transcript shows why |
| `PingedOnce` | `PingedAtMostOnce` | `PingsFollowFlags`: a ping due excludes a ping sent, and another one due |
| `ClosedPollCorrect` | `ClosedPollIsComplete` | `ToldIsFinal` and `CursorsAreGiven` |
| `CursorsMissNothing` | `NothingAppearsBehindACursor` | the same |

`ReqKinds` does for the coroutines what `StepKinds` does for the rows: seven kinds
of step.  The first theorem is the one where a check before the lock is never
repeated: it holds because nothing un-releases a room without the owner having
spoken first, so the release that let the post in stays on record although the
gate may be raised again.

### BlobsProofs

| Theorem | States |
|---|---|
| `BlobsInvariance`, `BlobsTypes` | `IInv`, `TypeOK` |
| `CounterCorrect` | `CounterIsExact` |
| `LinksCorrect` | `LinkedBlobsStay` |
| `LockOrder` | `LocksAreOrdered` |
| `BlobsImplementBlobStore` | `ImplementsBlobStore` |
| `FileCapHolds` | no room has more than `MaxFiles` files |
| `OnlyKeptBlobsDeadlock` | every circle of waiting sessions contains one that keeps the row of a candidate it did not reclaim |
| `NothingLinkedIsReclaimed` | no step removes the row of a blob that is linked at that moment |
| `NoLateAttachment` | a reference is only added to a room that is open at that moment |

    IInv == TypeOK /\ CounterIsExact /\ LinkedBlobsStay /\ \A p \in Sessions : Ok(p)

`Ok` is what the locks a session holds let it know: a blob whose row it has
locked is stored; the counter it has locked leaves room for its content; a room
it has locked is open; and at `commit`, `charge` and while it attaches it does
hold the rows it needs.  Every step of another session that could spoil this
would have to hold the same row.  `LinkedBlobsStay` says three things of which
the third is what the deletion rests on (between the count of the links and the
commit no link appears); the first two alone would not be inductive.
The file cap, and with it the refinement, needs one fact more (`RoomToSpare`): a
session that is attaching found the room below its cap, and since only a holder of
the room adds a reference (`OnlyAttaching`), it still is.  The refinement then goes
by the commits: an upload's or a link's is `Attach`, the reclaim's is `Forget` by the
third part of `LinkedBlobsStay`, and everything else is a stutter.
`OnlyKeptBlobsDeadlock` follows from `LockOrder` because ranks would have to rise
for ever along a circle, and there are three.

### UploadProofs

| Theorem | States |
|---|---|
| `UploadsInvariance` | `IInv`: types, `Fits` for each upload, and the two below |
| `PledgesCorrect` | `PledgesAddUp` |
| `FloorCorrect` | `FloorHoldsUpToBuffers` |

Both are about sums over the uploads (`SumFunction`, a fold).  The first half of
the module proves what is needed of sums: that they exist, what changing one
summand does, bounds.  Induction over the set is made by a least counterexample
(`LeastSubset`, from the well-foundedness of the strict-subset relation), since an
induction rule with an operator parameter is out of reach.  `FloorHoldsUpToBuffers`
is inductive only together with the pledges: a chunk is admitted against the free
space minus the pledges of the others, and a byte that is accepted but still
buffered is in neither, so the buffers are what can be missing.

### LibraryProofs

| Theorem | States |
|---|---|
| `LibraryInvariance`, `LibraryTypes` | `IInv`, `TypeOK` |
| `AcknowledgedCorrect` | `AcknowledgedIsStored` |
| `VersionsCorrect` | `VersionsAreGapless` |
| `LineageCorrect` | `LineageMatchesStatus` |
| `ProposalsCorrect` | `ProposalsStayInert` |
| `BudgetCorrect` | `BudgetIsKept` |
| `MergedOnceCorrect` | `MergedOnce`, when there is one runner |

    IInv == TypeOK /\ TableInv /\ KeysApart /\ \A p \in Sessions : Ok(p)

`TableInv` relates the tables: a deposit is stored in all its parts or in none.
`KeysApart` says that no two transactions hold the same unique key.  `Ok` says
what each session may still believe although it read without locks: its
references exist (`Validated`); each of them is still to be handled, will be
updated, or is superseded or retired already (`Handled`), for entries never become
active again; its deposit id is free and its alone (`Owns`); the version it goes by
is at most the next, and with its key taken it is the next (`Numbered`); the flag it
will resolve is there (`Flagged`); the budget (`Budgeted`).  `Frame` is the one
lemma behind all of them: the tables move only one way, so what was believed
before another session's step is believed after it.  What remains is each session's
own step, of which `Commit` is the long one.

`BudgetIsKept` is about the log of the calls a run made, while the code keeps two
counts.  `Budgeted` joins them (`Told`): so many calls, the last `fails` of them
failures and the one before an answer, aborted after too many failures and never
short of a limit.  Without the answer before the failures, a run of failures could be longer
than its count; `Answered` and `Unanswered` show that a call keeps all of it.

`MergedOnceCorrect` has the hypothesis `\A r, s \in Runners : r = s`, because with
two overlapping runs it is false, and that is what the code does (section 4).  With
one, `Unmerged` carries it: what a run is about to merge no entry of the
librarian's supersedes yet.  It was active when the run loaded it, so by the lineage
nothing superseded it; what happens to it during the LLM call is a client's doing.

### RegistryProofs

For any sets of rules (finite), projects, machines, processes and sessions, any
rulebooks and overlays, and every value of the limits:

| Theorem | States |
|---|---|
| `RegistryInvariance`, `RegistryTypes` | `IInv`, `TypeOK` |
| `SequencesCorrect` | `SequencesAreGapless` |
| `RevocationHolds` | `RevokedIsRefused` |
| `TokenCorrect` | `PrintedTokenWorks` |

    IInv == TypeOK /\ BootInv /\ StatusInv /\ RowInv
              /\ \A s \in Sessions : Fine(ses[s])

Nothing here takes a lock either.  `Fine` says of a session that the version it is
about to insert is at most one ahead of the table (then the unique index admits it
only as the next one); that the versions it has read are stored; and that if it
came after a revocation it stands at a check, for a machine that is still revoked,
and has seen the revoked row if it is past the read.  `StatusInv` ties the owner's
last decision to the column `status`: a commit writes only the columns its request
changed, which is why an update or a touch that loaded the machine before the
revocation cannot undo it.  `BootInv` strengthens `PrintedTokenWorks` with the token
a process holds for its banner.

### VersionProofs

| Theorem | States |
|---|---|
| `ViewsInvariance` | `Views` |
| `ConflictsCorrect` | `ConflictsAreReal` |
| `FetchCorrect` | `FetchIsFaithful` |

`Views` stands on top of `IInv` and relates what a session saw to what the table
has become: a writer at its n-th attempt has seen n - 1 versions appear since it
came, and none of the rows is its own; what a bootstrap has read is no older than
what was current when it came; every stored global rulebook passed validation, so
its tiers are the known ones.  `TablesGrow` (rows are only added, and no version
twice) keeps all of that through the steps of others.  `NextMoved` sorts the steps
of a session into six kinds; `CompileIsFaithful` is about `_compile_doctrine` and the
size budget: trimming moves rules from one part of the answer to another and
loses none.

### Assumptions

Each module names its assumption (`ConstantsAssumption`, `BlobsAssumption`,
`UploadBudgetAssumption`, `LibraryAssumption`, `LibrarianAssumption`,
`RegistryAssumption`), and TLC evaluates it in every run.  They say that bounds are
naturals, that what the code draws from different columns is different (NULL, the
owner, the system sender, members, clients, the sweeper, runners), and where the
code validates an input, that the constants did pass:

- Rooms: the names of members are none of the tags that stand for announcements,
  and NULL is none of the close reasons.  The second half is true of the column;
  the first is how the model tells a seat's announcement from the others.
- Blobs: `Bytes` is additive; rooms and contents are finitely many.
- UploadBudget: the disk starts above the floor (below it nothing is admitted and
  there is nothing to keep).
- Library: every body has a shape that `_validate_knowledge_shape` accepts
  (`Shaped`); deposit ids of the librarian and of clients are different; an
  acknowledgment is not `None`.
- Registry: the founding doctrine has known tiers; project names differ from the
  names of the three other sequences; the reserved identity is no machine of the
  owner's.

### What is only model-checked

Liveness under fairness, and with it everything that rests on `ENABLED`, is out of
the prover's reach: `ExpiredRoomCloses`, `RequestsComplete`, `SessionsEnd` and
`GarbageIsCollected` stay with TLC, on their runs' instances.  So do the two
counterexamples of section 4.  The `FairSpec`s add only fairness to the `Spec`s
of the theorems.

## 6. Plan

What is left, by weight:

1. Deposits with several knowledge items and events with their lessons as data, and
   what two items of one deposit do to each other.
2. An abstract specification for the versioned records (an append-only log with a
   compare-and-append) and for the library (acknowledged deposits as a set), with
   the modules shown to implement them.
3. An argument for `SessionsEnd` that leaves only fairness to TLC: a measure that
   falls with each step of a session.

## 7. Not modelled

Search and its SQL, onboarding and briefing texts, export, pages and forms,
schemas, the LLM's HTTP client with its prompts and parsers, migrations and
scripts: text composition, read-only queries or wiring, without state of their
own.  Room modes are texts; which of them are gated is a constant.  Listing and
pagination change nothing.  The connection pool is not modelled: a refused first
post keeps its connection while it opens a second one for the ping
(`rooms.py:1103`), and what follows depends on a pool size the code leaves to its
library.  `PROJECT.json` gives the reason for each part.
