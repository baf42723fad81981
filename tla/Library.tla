------------------------------ MODULE Library ------------------------------
(***************************************************************************)
(* The library: deposits with their knowledge entries and mirrored         *)
(* documents, the flags they raise, and the owner's decisions on proposals.*)
(*                                                                         *)
(* A session runs one deposit as a sequence of statements.  Reads see what *)
(* is committed (READ COMMITTED), and what they saw may be out of date     *)
(* when it is used.  An insert takes its unique key, an update its row,    *)
(* until the transaction ends: another session that needs it waits, and    *)
(* an insert finds the key taken if the holder committed.  Everything a    *)
(* deposit writes becomes visible with its one commit.                     *)
(*                                                                         *)
(* A deposit carries at most one knowledge item and one document; the      *)
(* entry it creates is named after the deposit.  Text is abstract: Similar *)
(* says which entries the full-text check takes for near-duplicates.       *)
(***************************************************************************)
EXTENDS Integers, Sequences, FiniteSets

CONSTANTS
  Base,             \* entries that exist at the start
  Proposals,        \* those of them that are doctrine proposals
  Deposits,         \* deposit ids the clients use, and use again
  Fresh,            \* deposit ids for the librarian's own deposits
  Similar,          \* Similar[e]: entries the duplicate check finds for e
  Bodies,           \* the bodies the clients send
  Paths,            \* document paths
  Clients, Runners, \* request sessions; the librarian's sessions
  None,             \* nothing, nobody
  MaxAttempts,      \* MAX_INSERT_ATTEMPTS
  MaxRequests       \* bound: requests ever made

DepositIds == Deposits \cup Fresh
Entries    == Base \cup DepositIds
Sessions   == Clients \cup Runners

\* What a deposit asks for: to create an entry that supersedes refs, to retire
\* an entry, or no knowledge at all; and a document, at a path or at none.
Body == [kind : {"create", "retire", "none"}, refs : Seq(Entries),
         proposal : BOOLEAN, path : Paths \cup {None}]

\* A retirement has one target, and a deposit without knowledge no references.
Shaped(b) ==
  /\ b.kind = "retire" => Len(b.refs) = 1
  /\ b.kind = "none" => b.refs = <<>>

\* The stored acknowledgment of a deposit.
Ack == [entry : Entries \cup {None}, version : Nat]

ASSUME LibraryAssumption ==
  /\ Proposals \subseteq Base
  /\ Bodies \subseteq Body /\ \A b \in Bodies : Shaped(b)
  /\ Similar \in [Entries -> SUBSET Entries]
  /\ Base \cap DepositIds = {} /\ Deposits \cap Fresh = {}
  /\ Clients \cap Runners = {}
  /\ None \notin Entries \cup Sessions \cup Paths \cup Ack
  /\ MaxAttempts \in Nat \ {0} /\ MaxRequests \in Nat

VARIABLES
  entries,          \* knowledge_entries
  flags,            \* flags, each with who resolved it
  deposits,         \* deposits: the stored acknowledgment, or None
  docs,             \* mirrored_documents: path, version, deposit
  project,          \* whether the project is registered
  ses,              \* what each session is doing
  acks,             \* the acknowledgments clients were given
  requests          \* requests made so far

libvars == <<entries, flags, deposits, docs, project, ses, acks, requests>>
tables  == <<entries, flags, deposits, docs, project>>

EntryRow == [status : {"none", "active", "superseded", "retired"},
             parents : SUBSET Entries, proposal : BOOLEAN,
             decision : {None, "approved", "rejected"}]
FlagRow  == [type : {"duplicate", "fork"}, entry : Entries, related : Entries,
             by : Sessions \cup {None}]
DocRow   == [path : Paths, version : Nat, dep : DepositIds]

Keys == {<<"project">>} \cup {<<"deposit", d>> : d \in DepositIds}
          \cup {<<"entry", e>> : e \in Entries}
          \cup {"doc"} \X Paths \X Nat

NoBody == [kind |-> "none", refs |-> <<>>, proposal |-> FALSE, path |-> None]

Session == [pc : {"idle", "check", "validate", "stub", "stubins", "row", "parent",
                  "write", "hints", "doc", "docins", "commit", "decide", "resolve",
                  "item", "llm", "summary", "record"},
            dep : DepositIds \cup {None}, body : Body,
            todo : Seq(Entries),          \* references still to be handled
            sets : SUBSET Entries,        \* rows whose status it has updated
            news : SUBSET FlagRow,        \* flags it has added
            ver : Nat,                    \* version of its document
            keys : SUBSET Keys,           \* keys and rows it holds
            held : SUBSET Entries,        \* entries it keeps as read: active
            flag : FlagRow \cup {None},   \* the flag it resolves
            choice : {None, "approved", "rejected"},
            attempt : 1..MaxAttempts,
            ok : {"idle", "resolve", "item"}, ko : {"idle", "item"}]

Idle == [pc |-> "idle", dep |-> None, body |-> NoBody, todo |-> <<>>, sets |-> {},
         news |-> {}, ver |-> 0, keys |-> {}, held |-> {}, flag |-> None,
         choice |-> None, attempt |-> 1, ok |-> "idle", ko |-> "idle"]

Exists(e)  == entries[e].status # "none"
Versions(x) == {d.version : d \in {y \in docs : y.path = x}}
MaxVersion(x) == Cardinality(Versions(x))

Flag(type, e, o) == [type |-> type, entry |-> e, related |-> o, by |-> None]

LibInit ==
  /\ entries = [e \in Entries |->
       [status |-> IF e \in Base THEN "active" ELSE "none", parents |-> {},
        proposal |-> e \in Proposals, decision |-> None]]
  /\ flags = {Flag("duplicate", x[1], x[2]) : x \in
                {y \in (Base \ Proposals) \X (Base \ Proposals) : y[2] \in Similar[y[1]]}}
  /\ deposits = [d \in DepositIds |-> None]
  /\ docs = {} /\ project = FALSE
  /\ ses = [p \in Sessions |-> Idle]
  /\ acks = {} /\ requests = 0

----------------------------------------------------------------------------
(* Waiting for keys and rows. *)

Wanted(p) ==
  LET s == ses[p] IN
  CASE s.pc = "stubins" -> {<<"project">>}
    [] s.pc = "row"     -> {<<"deposit", s.dep>>}
    [] s.pc = "write"   -> {<<"entry", Head(s.todo)>>}
    [] s.pc = "decide"  -> {<<"entry", Head(s.todo)>>}
    [] s.pc = "docins"  -> {<<"doc", s.body.path, s.ver>>}
    [] OTHER            -> {}

BlockedBy(p) == {q \in Sessions \ {p} : Wanted(p) \cap ses[q].keys # {}}
Ready(p)     == BlockedBy(p) = {}

Goto(p, pc) == ses' = [ses EXCEPT ![p].pc = pc]
Take(p, pc) == ses' = [ses EXCEPT ![p].pc = pc, ![p].keys = @ \cup Wanted(p)]

\* The transaction is over, and the session goes on elsewhere.
Finish(p, pc) ==
  ses' = [ses EXCEPT ![p] =
    IF pc = "resolve" THEN [Idle EXCEPT !.pc = pc, !.flag = ses[p].flag, !.ok = "item"]
                      ELSE [Idle EXCEPT !.pc = pc]]

\* Refused or failed: everything is rolled back.
Fail(p) == Finish(p, ses[p].ko) /\ UNCHANGED <<tables, acks>>

\* _build_ack from the stored row.
Replay(p) ==
  /\ acks' = acks \cup {[dep |-> ses[p].dep, ack |-> deposits[ses[p].dep]]}
  /\ Finish(p, ses[p].ok)
  /\ UNCHANGED tables

\* _insert_deposit starts, or starts again, from a clean transaction.
Attempt(s, n) ==
  [s EXCEPT !.pc = "stub", !.attempt = n, !.todo = s.body.refs, !.sets = {},
            !.news = {}, !.keys = {}, !.ver = 0,
            !.held = IF n = 1 THEN @ ELSE {}]

\* The loop over the references, and what comes after it.
LoopPc(s, todo) ==
  IF todo # <<>> THEN "parent" ELSE IF s.body.kind = "create" THEN "hints" ELSE "doc"

(* An IntegrityError: roll back and look again for this deposit.  The
   librarian's principal is no row of the session, so refreshing it for
   another attempt raises, and its deposit fails instead. *)
Conflict_OwnAck(p) ==
  LET s == ses[p] IN
  \/ /\ deposits[s.dep] # None
     /\ acks' = acks \cup {[dep |-> s.dep, ack |-> [entry |-> s.dep, version |-> s.ver]]}
     /\ Finish(p, s.ok)
     /\ UNCHANGED tables
  \/ deposits[s.dep] = None /\ Fail(p)

Conflict_Unbounded(p) ==
  LET s == ses[p] IN
  \/ deposits[s.dep] # None /\ Replay(p)
  \/ /\ deposits[s.dep] = None
     /\ ses' = [ses EXCEPT ![p] = Attempt(s, s.attempt + 1)]
     /\ UNCHANGED <<tables, acks>>

Conflict(p) ==
  LET s == ses[p] IN
  \/ deposits[s.dep] # None /\ Replay(p)
  \/ /\ deposits[s.dep] = None
     /\ s.attempt < MaxAttempts /\ p \in Clients
     /\ ses' = [ses EXCEPT ![p] = Attempt(s, s.attempt + 1)]
     /\ UNCHANGED <<tables, acks>>
  \/ /\ deposits[s.dep] = None
     /\ s.attempt = MaxAttempts \/ p \notin Clients
     /\ Fail(p)

----------------------------------------------------------------------------
(* create_deposit, statement by statement. *)

\* Is this deposit stored already?
Check(p) ==
  /\ ses[p].pc = "check"
  /\ \/ deposits[ses[p].dep] # None /\ Replay(p)
     \/ /\ deposits[ses[p].dep] = None
        /\ Goto(p, "validate") /\ UNCHANGED <<tables, acks>>
  /\ UNCHANGED requests

\* _validate_knowledge_references
Valid_OneSided(b) ==
  \A i \in DOMAIN b.refs :
    /\ Exists(b.refs[i])
    /\ b.kind = "retire" => entries[b.refs[i]].status = "active"
    /\ b.kind = "create" /\ b.proposal => entries[b.refs[i]].proposal

Valid(b) ==
  \A i \in DOMAIN b.refs :
    /\ Exists(b.refs[i])
    /\ b.kind = "retire" => entries[b.refs[i]].status = "active"
    /\ b.kind = "create" => entries[b.refs[i]].proposal = b.proposal

Validate(p) ==
  /\ ses[p].pc = "validate"
  /\ \/ ~Valid(ses[p].body) /\ Fail(p)
     \/ /\ Valid(ses[p].body)
        /\ ses' = [ses EXCEPT ![p] = Attempt(@, 1)]
        /\ UNCHANGED <<tables, acks>>
  /\ UNCHANGED requests

\* The project: registered already, or a stub to be inserted.
Stub(p) ==
  /\ ses[p].pc = "stub"
  /\ Goto(p, IF project THEN "row" ELSE "stubins")
  /\ UNCHANGED <<tables, acks, requests>>

StubInsert(p) ==
  /\ ses[p].pc = "stubins" /\ Ready(p)
  /\ \/ project /\ Conflict(p)
     \/ ~project /\ Take(p, "row") /\ UNCHANGED <<tables, acks>>
  /\ UNCHANGED requests

\* The deposit's own row, with its events and handoff.
DepositRow(p) ==
  LET s == ses[p] IN
  /\ s.pc = "row" /\ Ready(p)
  /\ \/ deposits[s.dep] # None /\ Conflict(p)
     \/ /\ deposits[s.dep] = None
        /\ Take(p, LoopPc(s, s.todo)) /\ UNCHANGED <<tables, acks>>
  /\ UNCHANGED requests

(* _apply_knowledge, one reference: its status, as the session has it, and
   the siblings that name the same parent. *)
Parent(p) ==
  LET s == ses[p]
      e == Head(s.todo)
      active == e \in s.held \/ entries[e].status = "active"
      siblings == {o \in Entries : Exists(o) /\ e \in entries[o].parents}
  IN
  /\ s.pc = "parent"
  /\ \/ s.body.kind = "retire" /\ ~active /\ Fail(p)
     \/ s.body.kind = "retire" /\ active /\ Goto(p, "write") /\ UNCHANGED <<tables, acks>>
     \/ /\ s.body.kind = "create"
        /\ ses' = [ses EXCEPT ![p] =
             [s EXCEPT !.news = @ \cup {Flag("fork", s.dep, o) : o \in siblings},
                       !.todo = IF active THEN @ ELSE Tail(@),
                       !.pc = IF active THEN "write" ELSE LoopPc(s, Tail(s.todo))]]
        /\ UNCHANGED <<tables, acks>>
  /\ UNCHANGED requests

\* ... the update of its row, whatever the row says by now.
Write_OnlyLast(p) ==
  LET s == ses[p] IN
  /\ s.pc = "write" /\ Ready(p)
  /\ ses' = [ses EXCEPT ![p] =
       [s EXCEPT !.keys = @ \cup Wanted(p), !.sets = {Head(s.todo)},
                 !.todo = Tail(@), !.pc = LoopPc(s, Tail(s.todo))]]
  /\ UNCHANGED <<tables, acks, requests>>

Write(p) ==
  LET s == ses[p] IN
  /\ s.pc = "write" /\ Ready(p)
  /\ ses' = [ses EXCEPT ![p] =
       [s EXCEPT !.keys = @ \cup Wanted(p), !.sets = @ \cup {Head(s.todo)},
                 !.todo = Tail(@), !.pc = LoopPc(s, Tail(s.todo))]]
  /\ UNCHANGED <<tables, acks, requests>>

\* _duplicate_hints: active, no proposal, and not what the entry supersedes.
Hints(p) ==
  LET s == ses[p]
      found == {o \in Similar[s.dep] \ (s.sets \cup {s.body.refs[i] : i \in DOMAIN s.body.refs}) :
                  entries[o].status = "active" /\ ~entries[o].proposal}
  IN
  /\ s.pc = "hints"
  /\ ses' = [ses EXCEPT ![p] =
       [s EXCEPT !.pc = "doc", !.news = @ \cup {Flag("duplicate", s.dep, o) :
                                              o \in IF s.body.proposal THEN {} ELSE found}]]
  /\ UNCHANGED <<tables, acks, requests>>

\* _apply_documents: the next version, read and then inserted.
Document(p) ==
  LET s == ses[p] IN
  /\ s.pc = "doc"
  /\ ses' = [ses EXCEPT ![p].pc = IF s.body.path = None THEN "commit" ELSE "docins",
                        ![p].ver = IF s.body.path = None THEN 0 ELSE MaxVersion(s.body.path) + 1]
  /\ UNCHANGED <<tables, acks, requests>>

DocumentInsert_NoUniqueIndex(p) ==
  /\ ses[p].pc = "docins"
  /\ Goto(p, "commit") /\ UNCHANGED <<tables, acks, requests>>

DocumentInsert(p) ==
  LET s == ses[p] IN
  /\ s.pc = "docins" /\ Ready(p)
  /\ \/ s.ver \in Versions(s.body.path) /\ Conflict(p)
     \/ /\ s.ver \notin Versions(s.body.path)
        /\ Take(p, "commit") /\ UNCHANGED <<tables, acks>>
  /\ UNCHANGED requests

Commit(p) ==
  LET s == ses[p]
      b == s.body
      ack == [entry |-> CASE b.kind = "create" -> s.dep
                          [] b.kind = "retire" -> b.refs[1]
                          [] OTHER -> None,
              version |-> s.ver]
  IN
  /\ s.pc = "commit"
  /\ entries' = [e \in Entries |->
       IF e = s.dep /\ b.kind = "create"
       THEN [status |-> "active", parents |-> {b.refs[i] : i \in DOMAIN b.refs},
             proposal |-> b.proposal, decision |-> None]
       ELSE IF e \in s.sets
            THEN [entries[e] EXCEPT !.status = IF b.kind = "retire" THEN "retired" ELSE "superseded"]
            ELSE entries[e]]
  /\ flags' = flags \cup s.news
  /\ deposits' = [deposits EXCEPT ![s.dep] = ack]
  /\ docs' = IF b.path = None THEN docs
             ELSE docs \cup {[path |-> b.path, version |-> s.ver, dep |-> s.dep]}
  /\ project' = TRUE
  /\ acks' = acks \cup {[dep |-> s.dep, ack |-> ack]}
  /\ Finish(p, s.ok)
  /\ UNCHANGED requests

----------------------------------------------------------------------------
(* The two decisions that are read first and written later. *)

SetBy(f, p) == (flags \ {f}) \cup {[f EXCEPT !.by = p]}
Unresolved  == {f \in flags : f.by = None}

\* resolve_flag's update, for whoever found the flag unresolved.
Resolve(p) ==
  LET s == ses[p]
      row == CHOOSE f \in flags : [f EXCEPT !.by = None] = s.flag
  IN
  /\ s.pc = "resolve"
  /\ flags' = SetBy(row, p)
  /\ Finish(p, s.ok)
  /\ UNCHANGED <<entries, deposits, docs, project, acks, requests>>

\* decide's update, for whoever found the proposal undecided.
Decide(p) ==
  LET s == ses[p] IN
  /\ s.pc = "decide" /\ Ready(p)
  /\ entries' = [entries EXCEPT ![Head(s.todo)].decision = s.choice]
  /\ Finish(p, s.ok)
  /\ UNCHANGED <<flags, deposits, docs, project, acks, requests>>

\* A deposit arrives, its shape checked.
DepositRequest(p, d, b) ==
  ses' = [ses EXCEPT ![p] = [Idle EXCEPT !.pc = "check", !.dep = d, !.body = b]]

\* A flag is to be resolved, and found unresolved.
ResolveRequest(p, f) ==
  /\ f \in Unresolved
  /\ ses' = [ses EXCEPT ![p] = [Idle EXCEPT !.pc = "resolve", !.flag = f]]

\* A proposal is to be decided, and found undecided.
DecideRequest(p, e, c) ==
  /\ Exists(e) /\ entries[e].proposal /\ entries[e].decision = None
  /\ ses' = [ses EXCEPT ![p] =
       [Idle EXCEPT !.pc = "decide", !.todo = <<e>>, !.choice = c]]

Request(p) ==
  /\ ses[p].pc = "idle" /\ requests < MaxRequests
  /\ requests' = requests + 1
  /\ \/ \E d \in Deposits, b \in Bodies : DepositRequest(p, d, b)
     \/ \E f \in flags : ResolveRequest(p, f)
     \/ \E e \in Entries, c \in {"approved", "rejected"} : DecideRequest(p, e, c)
  /\ UNCHANGED <<tables, acks>>

\* Sessions that wait for each other in a circle: the database fails one of
\* them with an error that is no IntegrityError.
Circle(S) ==
  /\ \A p \in S : BlockedBy(p) \cap S # {}
  /\ \A q \in S : \E p \in S : q \in BlockedBy(p)

Victim(p) ==
  /\ \E S \in SUBSET Sessions : p \in S /\ Circle(S)
  /\ Fail(p)
  /\ UNCHANGED requests

DepositStep(p) ==
  \/ Check(p) \/ Validate(p) \/ Stub(p) \/ StubInsert(p) \/ DepositRow(p)
  \/ Parent(p) \/ Write(p) \/ Hints(p) \/ Document(p) \/ DocumentInsert(p)
  \/ Commit(p) \/ Resolve(p) \/ Decide(p)

----------------------------------------------------------------------------
\* Whatever a client was acknowledged, for the original or for a retry that
\* raced it, is what is stored under that deposit id, in all its parts: the
\* document at its version, the entry it created or retired.
AcknowledgedIsStored ==
  \A a \in acks :
    /\ deposits[a.dep] = a.ack
    /\ a.ack.version > 0 =>
         \E d \in docs : d.dep = a.dep /\ d.version = a.ack.version
    /\ a.ack.entry # None => Exists(a.ack.entry)

\* The versions of a document are 1, 2, 3, ..., each stored once, although
\* deposits read the next one and insert it later.
VersionsAreGapless ==
  \A x \in Paths :
    LET rows == {d \in docs : d.path = x} IN
    /\ Versions(x) = 1..Cardinality(rows)
    /\ Cardinality(rows) = Cardinality(Versions(x))

\* Status and lineage agree, whatever raced or was retried: what an entry
\* supersedes is not active any more, and nothing is superseded without a
\* stored entry that supersedes it.
LineageMatchesStatus ==
  /\ \A c \in Entries : Exists(c) =>
       \A e \in entries[c].parents : entries[e].status \in {"superseded", "retired"}
  /\ \A e \in Entries : entries[e].status = "superseded" =>
       \E c \in Entries : Exists(c) /\ e \in entries[c].parents

\* Proposals and the library never supersede one another, and no proposal is
\* ever reported as a duplicate.
ProposalsStayInert ==
  /\ \A c \in Entries : Exists(c) =>
       \A e \in entries[c].parents : entries[e].proposal = entries[c].proposal
  /\ \A f \in flags : f.type = "duplicate" =>
       ~entries[f.entry].proposal /\ ~entries[f.related].proposal

\* A retirement, a decision on a proposal and the resolution of a flag are
\* final: nothing replaces them later.
OutcomesAreFinal ==
  [][/\ \A e \in Entries :
          /\ entries[e].status = "retired" => entries'[e].status = "retired"
          /\ entries[e].decision # None => entries'[e].decision = entries[e].decision
     /\ \A f \in flags : f.by # None => f \in flags']_libvars
============================================================================
