------------------------------ MODULE MCRooms ------------------------------
(***************************************************************************)
(* Instances of Rooms for TLC.  The configurations choose, through Ops,    *)
(* which requests the clients send; every other constant is a small set    *)
(* of model values or one of the definitions below.                        *)
(***************************************************************************)
EXTENDS Rooms, TLC

MCModes == {"freeform", "debate"}
MCGatedModes == {"debate"}
MCFreeform == {"freeform"}
MCNoModes == {}

NoDeadline  == {"none"}
Deferred    == {"deferred"}
BothDeadlines == {"deferred", "set"}

OpenSeats  == {[m \in Members |-> None]}
AnySeating == [Members -> Machines \cup {None}]

\* Clients are interchangeable; members and machines are where no constant
\* tells them apart.
ClientSymmetry == Permutations(Clients)
MemberSymmetry == Permutations(Clients) \cup Permutations(Members)
FullSymmetry   == Permutations(Clients) \cup Permutations(Members)
                    \cup Permutations(Machines)

MessageKind == {"message"}
PlainKinds  == {"message", "done"}
VoteKinds   == {"done", "objection"}
OwnerReason == {"owner"}

PostOps  == {"post", "gate", "delete_message", "close"}
SeatOps  == {"post", "seat", "attach"}
PollOps  == {"post", "poll", "delete_message", "seat", "quiet"}
ModeOps  == {"post", "mode", "delete_message"}
LiveOps  == {"post", "uploads", "delete_room"}
============================================================================
