------------------------------ MODULE RoomLog ------------------------------
(***************************************************************************)
(* What a room promises, as one process would see it: a transcript that    *)
(* only grows at its end, tombstones that keep their place, and a cap on   *)
(* the live messages that a post may not leave the room open beyond.       *)
(* There are no locks, requests, snapshots or counters here.  Rooms is     *)
(* shown to implement this specification.                                  *)
(***************************************************************************)
EXTENDS Integers, FiniteSets, Sequences

CONSTANTS Speakers,      \* who posts: the members and the owner
          System,        \* the sender of notices
          MaxMessages    \* the cap

VARIABLES present,       \* the room has not been deleted
          status,        \* "open" or "closed"
          log            \* the transcript: a sequence of [sender, deleted]

logVars == <<present, status, log>>

LiveCount(l) == Cardinality({i \in DOMAIN l : ~l[i].deleted})
Entry(sender) == [sender |-> sender, deleted |-> FALSE]

LogInit == present = TRUE /\ status = "open" /\ log = <<>>

\* A post appends to an open room.  It may close the room, and has to when
\* the live messages have reached the cap.
Say ==
  /\ present /\ status = "open"
  /\ \E who \in Speakers : log' = Append(log, Entry(who))
  /\ status' \in {"open", "closed"}
  /\ LiveCount(log') >= MaxMessages => status' = "closed"
  /\ UNCHANGED present

\* A notice appends whatever the status and never closes the room.
Notice ==
  /\ present
  /\ log' = Append(log, Entry(System))
  /\ UNCHANGED <<present, status>>

Tombstone ==
  /\ present
  /\ \E i \in DOMAIN log : /\ ~log[i].deleted
                           /\ log' = [log EXCEPT ![i].deleted = TRUE]
  /\ UNCHANGED <<present, status>>

Close ==
  /\ present /\ status = "open"
  /\ status' = "closed"
  /\ UNCHANGED <<present, log>>

Delete ==
  /\ present
  /\ present' = FALSE /\ log' = <<>>
  /\ UNCHANGED status

LogNext == Say \/ Notice \/ Tombstone \/ Close \/ Delete
LogSpec == LogInit /\ [][LogNext]_logVars
============================================================================
