--------------------------- MODULE LibraryProofs ---------------------------
(***************************************************************************)
(* Proofs about Library and Librarian: for any entries, deposits, sessions *)
(* and bounds, what is acknowledged is stored, document versions have no   *)
(* gaps, statuses match the lineage, proposals and the library stay apart, *)
(* the librarian keeps to its budget, and one run at a time merges no      *)
(* entry twice.                                                            *)
(*                                                                         *)
(* A deposit reads first and writes later, so the proofs rest on what a    *)
(* session may still believe at each step (Ok): what it read can only have *)
(* moved one way (Frame), or the unique key it holds keeps the others from *)
(* moving it.                                                              *)
(***************************************************************************)
EXTENDS Librarian, TLAPS, FiniteSetTheorems

Elems(s) == {s[i] : i \in DOMAIN s}

\* The steps of a deposit whose row is in, of one that was found valid, of all.
Loop       == {"parent", "write", "hints", "doc", "docins", "commit"}
Trying     == {"stub", "stubins", "row"} \cup Loop
Depositing == {"check", "validate"} \cup Trying

Gone(e) == entries[e].status \in {"superseded", "retired"}

\* The flag x is stored, by whomever it may have been resolved by now.
Raised(x) == \E f \in flags : x = [f EXCEPT !.by = None]

----------------------------------------------------------------------------
(* What holds of the tables. *)

\* A deposit is stored in all its parts or in none.
Stored ==
  \A d \in DepositIds :
    /\ deposits[d] = None => entries[d].status = "none"
    /\ deposits[d] # None =>
         /\ deposits[d].version > 0 =>
              \E x \in docs : x.dep = d /\ x.version = deposits[d].version
         /\ deposits[d].entry # None => Exists(deposits[d].entry)

Acked == \A a \in acks : deposits[a.dep] = a.ack

NothingFromNothing == \A e \in Entries : ~Exists(e) => entries[e].parents = {}

FlagsStand ==
  \A f \in flags : f.type = "duplicate" => Exists(f.entry) /\ Exists(f.related)

TableInv ==
  /\ IsFiniteSet(docs) /\ Stored /\ Acked /\ NothingFromNothing /\ FlagsStand
  /\ VersionsAreGapless /\ LineageMatchesStatus /\ ProposalsStayInert

(* What holds of each session. *)

\* Where it is says what it holds in its own variables.
Placed(p) ==
  LET s == ses[p] IN
  /\ s.pc \in Depositing => s.dep \in DepositIds /\ Shaped(s.body)
  /\ s.pc \in {"parent", "write", "decide"} => s.todo # <<>>
  /\ s.pc \in {"hints", "doc", "docins", "commit"} => s.todo = <<>>
  /\ s.pc = "hints" => s.body.kind = "create"
  /\ p \in Clients => s.dep \in Deposits \cup {None} /\ s.pc # "llm"
  /\ p \in Runners => s.dep \in Fresh \cup {None}

\* What _validate_knowledge_references found is still so.
Validated(p) ==
  LET s == ses[p] IN
  s.pc \in Trying =>
    \A e \in Elems(s.body.refs) :
      Exists(e) /\ (s.body.kind = "create" => entries[e].proposal = s.body.proposal)

\* Every reference is still to be handled, is updated, or needs no update.
Handled(p) ==
  LET s == ses[p] IN
  s.pc \in Trying =>
    /\ s.sets \cup Elems(s.todo) \subseteq Elems(s.body.refs)
    /\ s.body.kind = "create" =>
         \A e \in Elems(s.body.refs) : e \in s.sets \/ e \in Elems(s.todo) \/ Gone(e)

\* The flags it will raise are about its new entry.
Noted(p) ==
  LET s == ses[p] IN
  s.pc \in Trying =>
    \A f \in s.news :
      /\ f.entry = s.dep /\ s.body.kind = "create"
      /\ f.type = "duplicate" =>
           ~s.body.proposal /\ Exists(f.related) /\ ~entries[f.related].proposal

\* Its row is in: nobody else stores this deposit.
Owns(p) ==
  ses[p].pc \in Loop =>
    deposits[ses[p].dep] = None /\ <<"deposit", ses[p].dep>> \in ses[p].keys

\* The version it goes by is at most the next one, and with its key taken it is.
Numbered(p) ==
  LET s == ses[p] IN
  /\ s.pc = "docins" =>
       s.body.path # None /\ s.ver \in 1 .. MaxVersion(s.body.path) + 1
  /\ s.pc = "commit" =>
       IF s.body.path = None THEN s.ver = 0
       ELSE /\ s.ver = MaxVersion(s.body.path) + 1
            /\ <<"doc", s.body.path, s.ver>> \in s.keys

\* A flag it will resolve is there.
Flagged(p) ==
  LET s == ses[p] IN
  s.pc = "resolve" \/ s.ok = "resolve" \/ (s.pc = "llm" /\ run[p].phase # "lessons") =>
    Raised(s.flag)

\* The counts of a run are those of the calls it made: so many calls, the last
\* of them failures and no more, aborted after too many failures, and never
\* short of a limit.
Told(b) ==
  /\ Len(b.log) = b.calls /\ b.fails <= b.calls
  /\ \A i \in b.calls - b.fails + 1 .. b.calls : ~b.log[i]
  /\ b.fails < b.calls => b.log[b.calls - b.fails]
  /\ \A i \in 1..b.calls : Tripped(b.log, i) => i = b.calls /\ b.aborted
  /\ b.aborted => b.calls = MaxCalls \/ Tripped(b.log, b.calls)

\* The budget of the run it works for, and the flags still in its queue.
Budgeted(p) ==
  p \in Runners =>
    /\ Told(run[p])
    /\ run[p].calls <= MaxCalls /\ run[p].fails <= MaxFailures
    /\ ~run[p].aborted => run[p].fails < MaxFailures
    /\ ses[p].pc = "llm" => ~run[p].aborted /\ run[p].calls < MaxCalls
    /\ run[p].phase # "lessons" => \A f \in run[p].queue : f \in FlagRow /\ f.by = None

Ok(p) ==
  /\ Placed(p) /\ Validated(p) /\ Handled(p) /\ Noted(p)
  /\ Owns(p) /\ Numbered(p) /\ Flagged(p) /\ Budgeted(p)

KeysApart ==
  \A p, q \in Sessions : p # q => ses[p].keys \cap ses[q].keys = {}

IInv == TypeOK /\ TableInv /\ KeysApart /\ \A p \in Sessions : Ok(p)

\* With one run at a time: what the librarian is about to merge, no entry of
\* its own supersedes yet.
Unmerged(r) ==
  LET s == ses[r] IN
  \A d \in Fresh :
    /\ s.pc = "llm" /\ run[r].phase # "lessons" =>
         s.flag.entry \notin entries[d].parents /\ s.flag.related \notin entries[d].parents
    /\ Elems(s.body.refs) \cap entries[d].parents = {}

\* A run that has not begun has made no call.
LEMMA NothingTold == NoRun \in Run /\ Told(NoRun)
<1>1. /\ NoRun.log = <<>> /\ NoRun.calls = 0 /\ NoRun.fails = 0 /\ NoRun.aborted = FALSE
      /\ NoRun \in Run
  BY LibrarianAssumption DEF NoRun, Run
<1> QED
  BY <1>1 DEF Told

\* The set of entries a sequence of references names.
LEMMA ElemsEmpty == Elems(<<>>) = {}
  BY DEF Elems

LEMMA ElemsTyped ==
  ASSUME NEW S, NEW s \in Seq(S)
  PROVE  Elems(s) \subseteq S
  BY DEF Elems

LEMMA ElemsSplit ==
  ASSUME NEW S, NEW s \in Seq(S), s # <<>>
  PROVE  /\ Head(s) \in S /\ Tail(s) \in Seq(S)
         /\ Elems(s) = {Head(s)} \cup Elems(Tail(s))
<1>1. Head(s) \in S /\ Tail(s) \in Seq(S) /\ Head(s) = s[1]
  OBVIOUS
<1>2. Len(s) \in Nat /\ Len(s) >= 1 /\ DOMAIN s = 1..Len(s) /\ DOMAIN Tail(s) = 1..(Len(s) - 1)
  OBVIOUS
<1>3. \A i \in 1..(Len(s) - 1) : Tail(s)[i] = s[i + 1]
  OBVIOUS
<1>4. ASSUME NEW e \in Elems(s) PROVE e = Head(s) \/ e \in Elems(Tail(s))
  <2>1. PICK i \in 1..Len(s) : e = s[i]
    BY <1>2, <1>4 DEF Elems
  <2>2. CASE i = 1
    BY <1>1, <2>1, <2>2
  <2>3. CASE i # 1
    <3>1. i - 1 \in 1..(Len(s) - 1) /\ (i - 1) + 1 = i
      BY <1>2, <2>3
    <3>2. Tail(s)[i - 1] = s[i]
      BY <1>3, <3>1
    <3> QED
      BY <1>2, <2>1, <3>1, <3>2 DEF Elems
  <2> QED
    BY <2>2, <2>3
<1>5. ASSUME NEW e \in Elems(Tail(s)) PROVE e \in Elems(s)
  <2>1. PICK i \in 1..(Len(s) - 1) : e = Tail(s)[i]
    BY <1>2, <1>5 DEF Elems
  <2>2. i + 1 \in 1..Len(s) /\ e = s[i + 1]
    BY <1>2, <1>3, <2>1
  <2> QED
    BY <1>2, <2>2 DEF Elems
<1>6. Head(s) \in Elems(s)
  <2>1. 1 \in 1..Len(s)
    BY <1>2
  <2> QED
    BY <1>1, <1>2, <2>1 DEF Elems
<1> QED
  BY <1>1, <1>4, <1>5, <1>6

----------------------------------------------------------------------------
(* Sessions. *)

\* The pristine session is one, and carries nothing.
LEMMA IdleTyped ==
  /\ NoBody \in Body /\ NoBody.kind = "none" /\ NoBody.refs = <<>> /\ NoBody.path = None
  /\ NoBody.proposal = FALSE
  /\ Idle \in Session /\ Idle.pc = "idle" /\ Idle.dep = None /\ Idle.body = NoBody
  /\ Idle.keys = {} /\ Idle.ok = "idle" /\ Idle.ko = "idle" /\ Idle.held = {}
  /\ Idle.todo = <<>> /\ Idle.flag = None /\ Idle.news = {} /\ Idle.sets = {}
<1>1. NoBody \in Body
  BY DEF NoBody, Body
<1>2. 1 \in 1..MaxAttempts
  BY LibraryAssumption
<1>3. Idle \in Session
  BY <1>1, <1>2 DEF Idle, Session
<1> QED
  BY <1>1, <1>3, Zenon DEF NoBody, Idle

\* A session whose transaction is over keeps at most the flag it will resolve.
LEMMA FinishEffect ==
  ASSUME TypeOK, NEW p \in Sessions, NEW c \in {"idle", "resolve", "item"}, Finish(p, c)
  PROVE  /\ ses' \in [Sessions -> Session]
         /\ \A q \in Sessions \ {p} : ses'[q] = ses[q]
         /\ ses'[p].pc = c /\ ses'[p].dep = None /\ ses'[p].body = NoBody
         /\ ses'[p].keys = {} /\ ses'[p].ok \in {"idle", "item"}
         /\ c = "resolve" => ses'[p].flag = ses[p].flag
<1> DEFINE me == ses[p]
           new == IF c = "resolve"
                  THEN [Idle EXCEPT !.pc = c, !.flag = me.flag, !.ok = "item"]
                  ELSE [Idle EXCEPT !.pc = c]
<1>1. me \in Session /\ ses' = [ses EXCEPT ![p] = new]
  BY DEF TypeOK, Finish
<1>2. ses'[p] = new /\ \A q \in Sessions \ {p} : ses'[q] = ses[q]
  BY <1>1 DEF TypeOK
<1> HIDE DEF me
<1>3. me.flag \in FlagRow \cup {None}
  BY <1>1 DEF Session
<1>4. CASE c = "resolve"
  <2>1. new = [Idle EXCEPT !.pc = c, !.flag = me.flag, !.ok = "item"]
    BY <1>4
  <2> HIDE DEF new
  <2>2. /\ new \in Session /\ new.pc = c /\ new.dep = Idle.dep /\ new.body = Idle.body
        /\ new.keys = Idle.keys /\ new.ok = "item" /\ new.flag = me.flag
    BY <1>3, <1>4, <2>1, IdleTyped DEF Session
  <2>3. ses' \in [Sessions -> Session]
    BY <1>1, <2>2 DEF TypeOK
  <2> QED
    BY <1>2, <2>2, <2>3, IdleTyped DEF me
<1>5. CASE c # "resolve"
  <2>1. new = [Idle EXCEPT !.pc = c]
    BY <1>5
  <2> HIDE DEF new
  <2>2. /\ new \in Session /\ new.pc = c /\ new.dep = Idle.dep /\ new.body = Idle.body
        /\ new.keys = Idle.keys /\ new.ok = Idle.ok
    BY <1>5, <2>1, IdleTyped DEF Session
  <2>3. ses' \in [Sessions -> Session]
    BY <1>1, <2>2 DEF TypeOK
  <2> QED
    BY <1>2, <1>5, <2>2, <2>3, IdleTyped
<1> QED
  BY <1>4, <1>5

----------------------------------------------------------------------------
(* What the steps of one session leave to the others. *)

\* A finite set of rows has finitely many versions.
LEMMA VersionsFinite ==
  ASSUME NEW D, IsFiniteSet(D), NEW x
  PROVE  /\ IsFiniteSet({d.version : d \in {y \in D : y.path = x}})
         /\ Cardinality({d.version : d \in {y \in D : y.path = x}}) \in Nat
<1> DEFINE R == {y \in D : y.path = x}
           V == {d.version : d \in R}
<1>1. IsFiniteSet(R)
  <2>1. R \subseteq D
    OBVIOUS
  <2> QED
    BY <2>1, FS_Subset
<1> HIDE DEF R
<1>2. IsFiniteSet(V)
  <2> DEFINE f == [d \in R |-> d.version]
  <2>1. f \in Surjection(R, V)
    BY DEF Surjection
  <2> HIDE DEF f, V
  <2> QED
    BY <1>1, <2>1, FS_Surjection
<1>3. Cardinality(V) \in Nat
  BY <1>2, FS_CardinalityType
<1> QED
  BY <1>2, <1>3 DEF R

\* With more rows there are no fewer versions.
LEMMA MoreVersions ==
  ASSUME IsFiniteSet(docs), IsFiniteSet(docs'), docs \subseteq docs', NEW x
  PROVE  /\ MaxVersion(x) \in Nat /\ MaxVersion(x)' \in Nat
         /\ MaxVersion(x) <= MaxVersion(x)'
<1>1. IsFiniteSet(Versions(x)) /\ MaxVersion(x) \in Nat
  BY VersionsFinite DEF Versions, MaxVersion
<1>2. IsFiniteSet(Versions(x)') /\ MaxVersion(x)' \in Nat
  BY VersionsFinite DEF Versions, MaxVersion
<1>3. Versions(x) \subseteq Versions(x)'
  BY DEF Versions
<1>4. Cardinality(Versions(x)) <= Cardinality(Versions(x)')
  BY <1>2, <1>3, FS_Subset
<1> QED
  BY <1>1, <1>2, <1>4 DEF MaxVersion

\* What a session believes survives the steps of the others.
LEMMA Frame ==
  ASSUME IInv, NEW q \in Sessions, ses'[q] = ses[q], q \in Runners => run'[q] = run[q],
         \A e \in Entries : Exists(e) => Exists(e)' /\ entries'[e].proposal = entries[e].proposal,
         \A e \in Entries : Gone(e) => Gone(e)',
         \A x : Raised(x) => Raised(x)',
         ses[q].pc \in Loop => deposits'[ses[q].dep] = None,
         IsFiniteSet(docs'), docs \subseteq docs',
         \A x \in Paths : ses[q].pc = "commit" /\ x = ses[q].body.path => MaxVersion(x)' = MaxVersion(x)
  PROVE  Ok(q)'
<1>1. PICK m \in Session : m = ses[q]
  BY DEF IInv, TypeOK
<1>2. ses'[q] = m /\ Ok(q) /\ IsFiniteSet(docs)
  BY <1>1 DEF IInv, TableInv
<1>3. /\ m.body.refs \in Seq(Entries) /\ m.body.path \in Paths \cup {None}
      /\ m.news \subseteq FlagRow /\ m.ver \in Nat
  BY <1>1 DEF Session, Body
<1>4. Elems(m.body.refs) \subseteq Entries
  BY <1>3, ElemsTyped
<1>5. \A f \in m.news : f.related \in Entries
  BY <1>3 DEF FlagRow
<1>6. Placed(q)'
  BY <1>1, <1>2 DEF Ok, Placed
<1>7. Validated(q)'
  BY <1>1, <1>2, <1>4 DEF Ok, Validated
<1>8. Handled(q)'
  BY <1>1, <1>2, <1>4 DEF Ok, Handled
<1>9. Noted(q)'
  BY <1>1, <1>2, <1>5 DEF Ok, Noted
<1>10. Owns(q)'
  BY <1>1, <1>2 DEF Ok, Owns
<1>11. Numbered(q)'
  <2>1. ASSUME m.pc = "docins"
        PROVE  m.body.path # None /\ m.ver \in 1 .. MaxVersion(m.body.path)' + 1
    <3>1. m.body.path # None /\ m.ver \in 1 .. MaxVersion(m.body.path) + 1
      BY <1>1, <1>2, <2>1 DEF Ok, Numbered
    <3> QED
      BY <1>2, <3>1, MoreVersions
  <2>2. ASSUME m.pc = "commit", m.body.path # None
        PROVE  m.ver = MaxVersion(m.body.path)' + 1 /\ <<"doc", m.body.path, m.ver>> \in m.keys
    <3>1. m.ver = MaxVersion(m.body.path) + 1 /\ <<"doc", m.body.path, m.ver>> \in m.keys
      BY <1>1, <1>2, <2>2 DEF Ok, Numbered
    <3>2. MaxVersion(m.body.path)' = MaxVersion(m.body.path)
      BY <1>1, <1>3, <2>2
    <3> QED
      BY <3>1, <3>2
  <2>3. m.pc = "commit" /\ m.body.path = None => m.ver = 0
    BY <1>1, <1>2 DEF Ok, Numbered
  <2> HIDE <1>1
  <2>4. ses'[q] = m
    BY <1>2
  <2> QED
    BY <2>1, <2>2, <2>3, <2>4 DEF Numbered
<1>12. Flagged(q)'
  <2>1. q \notin Runners => m.pc # "llm"
    BY <1>1, <1>2 DEF Ok, Placed, Sessions
  <2> QED
    BY <1>1, <1>2, <2>1 DEF Ok, Flagged
<1>13. Budgeted(q)'
  BY <1>1, <1>2 DEF Ok, Budgeted
<1> QED
  BY <1>6, <1>7, <1>8, <1>9, <1>10, <1>11, <1>12, <1>13 DEF Ok

\* Everything about the tables is as before when they are.
LEMMA TablesKept ==
  ASSUME TableInv, UNCHANGED tables, \A a \in acks' : deposits[a.dep] = a.ack
  PROVE  /\ TableInv'
         /\ \A e \in Entries : Exists(e) => Exists(e)' /\ entries'[e].proposal = entries[e].proposal
         /\ \A e \in Entries : Gone(e) => Gone(e)'
         /\ \A x : Raised(x) => Raised(x)'
         /\ IsFiniteSet(docs') /\ docs \subseteq docs'
         /\ \A x : MaxVersion(x)' = MaxVersion(x)
<1>1. /\ entries' = entries /\ flags' = flags /\ deposits' = deposits /\ docs' = docs
      /\ project' = project
  BY DEF tables
<1>2. Stored' /\ Acked' /\ NothingFromNothing' /\ FlagsStand' /\ IsFiniteSet(docs')
  BY <1>1 DEF TableInv, Stored, Acked, NothingFromNothing, FlagsStand, Exists
<1>3. VersionsAreGapless' /\ \A x : MaxVersion(x)' = MaxVersion(x)
  BY <1>1 DEF TableInv, VersionsAreGapless, Versions, MaxVersion
<1>4. LineageMatchesStatus' /\ ProposalsStayInert'
  BY <1>1 DEF TableInv, LineageMatchesStatus, ProposalsStayInert, Exists
<1> QED
  BY <1>1, <1>2, <1>3, <1>4 DEF TableInv, Exists, Gone, Raised

\* A step of p that leaves the tables alone, takes no key of another session
\* and leaves p with what it may believe.
LEMMA QuietStep ==
  ASSUME IInv, NEW p \in Sessions, UNCHANGED tables,
         acks' \subseteq [dep : DepositIds, ack : Ack],
         \A a \in acks' : deposits[a.dep] = a.ack,
         requests' \in Nat, run' \in [Runners -> Run], rows' \subseteq 0..MaxRuns,
         started' \in 0..MaxRuns,
         ses' \in [Sessions -> Session],
         \A q \in Sessions \ {p} : ses'[q] = ses[q],
         \A q \in Sessions \ {p} : ses'[p].keys \cap ses[q].keys = {},
         \A r \in Runners \ {p} : run'[r] = run[r],
         Ok(p)'
  PROVE  IInv'
<1>1. TypeOK /\ TableInv /\ KeysApart
  BY DEF IInv
<1>2. /\ TableInv'
      /\ \A e \in Entries : Exists(e) => Exists(e)' /\ entries'[e].proposal = entries[e].proposal
      /\ \A e \in Entries : Gone(e) => Gone(e)'
      /\ \A x : Raised(x) => Raised(x)'
      /\ IsFiniteSet(docs') /\ docs \subseteq docs'
      /\ \A x : MaxVersion(x)' = MaxVersion(x)
  BY <1>1, TablesKept
<1>3. TypeOK'
  BY <1>1 DEF TypeOK, tables
<1>4. KeysApart'
  BY <1>1 DEF KeysApart
<1>5. ASSUME NEW q \in Sessions \ {p} PROVE Ok(q)'
  <2>1. deposits' = deposits
    BY DEF tables
  <2>2. ses[q].pc \in Loop => deposits'[ses[q].dep] = None
    BY <2>1 DEF IInv, Ok, Owns
  <2>3. ses'[q] = ses[q] /\ (q \in Runners => run'[q] = run[q])
    OBVIOUS
  <2> QED
    BY <1>2, <2>2, <2>3, Frame
<1> QED
  BY <1>2, <1>3, <1>4, <1>5 DEF IInv

LEMMA InitIInv == Init => IInv
<1> SUFFICES ASSUME Init PROVE IInv
  OBVIOUS
<1>1. /\ entries = [e \in Entries |->
           [status |-> IF e \in Base THEN "active" ELSE "none", parents |-> {},
            proposal |-> e \in Proposals, decision |-> None]]
      /\ flags = {Flag("duplicate", x[1], x[2]) : x \in
                    {y \in (Base \ Proposals) \X (Base \ Proposals) : y[2] \in Similar[y[1]]}}
      /\ deposits = [d \in DepositIds |-> None] /\ docs = {} /\ project = FALSE
      /\ ses = [p \in Sessions |-> Idle] /\ acks = {} /\ requests = 0
      /\ run = [r \in Runners |-> NoRun] /\ rows = {}
      /\ started = 0
  BY DEF Init, LibInit
<1>2. ASSUME NEW f \in flags
      PROVE  /\ f \in FlagRow /\ f.entry \in Base \ Proposals /\ f.related \in Base \ Proposals
  <2>1. PICK x \in (Base \ Proposals) \X (Base \ Proposals) : f = Flag("duplicate", x[1], x[2])
    BY <1>1, <1>2
  <2>2. x[1] \in Base \ Proposals /\ x[2] \in Base \ Proposals
    BY <2>1
  <2> QED
    BY <2>1, <2>2 DEF Flag, FlagRow, Entries
<1>3. \A e \in Entries :
        /\ entries[e] \in EntryRow /\ entries[e].parents = {}
        /\ entries[e].status = IF e \in Base THEN "active" ELSE "none"
        /\ entries[e].proposal = (e \in Proposals)
  BY <1>1 DEF EntryRow
<1>4. \A p \in Sessions : ses[p] = Idle
  BY <1>1
<1>5. TypeOK
  <2>1. entries \in [Entries -> EntryRow] /\ flags \subseteq FlagRow
    BY <1>1, <1>2, <1>3
  <2>2. ses \in [Sessions -> Session]
    BY <1>1, IdleTyped
  <2>3. NoRun \in Run
    BY NothingTold
  <2>4. run \in [Runners -> Run] /\ rows \subseteq 0..MaxRuns /\ started \in 0..MaxRuns
    BY <1>1, <2>3, LibrarianAssumption
  <2> QED
    BY <1>1, <2>1, <2>2, <2>4 DEF TypeOK
<1>6. TableInv
  <2>1. IsFiniteSet(docs)
    BY <1>1, FS_EmptySet
  <2>2. Base \subseteq Entries /\ Base \cap DepositIds = {} /\ DepositIds \subseteq Entries
    BY LibraryAssumption DEF Entries
  <2>3. Stored
    BY <1>1, <1>3, <2>2 DEF Stored
  <2>4. Acked /\ NothingFromNothing
    BY <1>1, <1>3 DEF Acked, NothingFromNothing
  <2>5. FlagsStand
    BY <1>2, <1>3, <2>2 DEF FlagsStand, Exists
  <2>6. VersionsAreGapless
    <3> SUFFICES ASSUME NEW x \in Paths
                 PROVE  LET rows_ == {d \in docs : d.path = x} IN
                        /\ Versions(x) = 1..Cardinality(rows_)
                        /\ Cardinality(rows_) = Cardinality(Versions(x))
      BY DEF VersionsAreGapless
    <3>1. {d \in docs : d.path = x} = {} /\ Versions(x) = {}
      BY <1>1 DEF Versions
    <3>2. Cardinality({}) = 0 /\ 1..0 = {}
      BY FS_EmptySet
    <3> QED
      BY <3>1, <3>2
  <2>7. LineageMatchesStatus
    BY <1>3 DEF LineageMatchesStatus, Exists
  <2>8. ProposalsStayInert
    BY <1>2, <1>3, <2>2 DEF ProposalsStayInert
  <2> QED
    BY <2>1, <2>3, <2>4, <2>5, <2>6, <2>7, <2>8 DEF TableInv
<1>7. KeysApart
  BY <1>4, IdleTyped DEF KeysApart
<1>8. ASSUME NEW p \in Sessions PROVE Ok(p)
  <2>1. ses[p].pc = "idle" /\ ses[p].dep = None /\ ses[p].ok = "idle"
    BY <1>4, IdleTyped
  <2>2. Placed(p)
    BY <2>1 DEF Placed, Depositing, Trying, Loop
  <2>3. Validated(p) /\ Handled(p) /\ Noted(p) /\ Owns(p) /\ Numbered(p) /\ Flagged(p)
    BY <2>1 DEF Validated, Handled, Noted, Owns, Numbered, Flagged, Trying, Loop
  <2>4. Budgeted(p)
    <3>1. p \in Runners => run[p] = NoRun
      BY <1>1
    <3> QED
      BY <2>1, <3>1, NothingTold, LibrarianAssumption DEF Budgeted, NoRun
  <2> QED
    BY <2>2, <2>3, <2>4 DEF Ok
<1> QED
  BY <1>5, <1>6, <1>7, <1>8 DEF IInv

----------------------------------------------------------------------------
(* Steps that end a session's transaction without a trace. *)

\* A session that is over believes nothing but that its flag is there.
LEMMA FinishedOk ==
  ASSUME NEW p \in Sessions, ses'[p].pc \in {"idle", "resolve", "item"},
         ses'[p].dep = None, ses'[p].ok \in {"idle", "item"},
         NEW x, ses'[p].pc = "resolve" => ses'[p].flag = x /\ Raised(x)',
         Budgeted(p)'
  PROVE  Ok(p)'
<1>1. Placed(p)'
  BY DEF Placed, Depositing, Trying, Loop
<1>2. Validated(p)' /\ Handled(p)' /\ Noted(p)' /\ Owns(p)' /\ Numbered(p)' /\ Flagged(p)'
  BY DEF Validated, Handled, Noted, Owns, Numbered, Flagged, Trying, Loop
<1> QED
  BY <1>1, <1>2 DEF Ok

\* The run of a session that makes no call stays within its budget.
LEMMA BudgetKept ==
  ASSUME IInv, NEW p \in Sessions, ses'[p].pc # "llm", p \in Runners => run'[p] = run[p]
  PROVE  Budgeted(p)'
BY DEF IInv, Ok, Budgeted

\* The end of a session's transaction, with nothing of it stored.
LEMMA FinishStep ==
  ASSUME IInv, NEW p \in Sessions, NEW c \in {"idle", "resolve", "item"}, Finish(p, c),
         c = "resolve" => Raised(ses[p].flag),
         UNCHANGED tables,
         acks' \subseteq [dep : DepositIds, ack : Ack],
         \A a \in acks' : deposits[a.dep] = a.ack,
         requests' \in Nat, run' \in [Runners -> Run], rows' \subseteq 0..MaxRuns,
         started' \in 0..MaxRuns,
         \A r \in Runners \ {p} : run'[r] = run[r], Budgeted(p)'
  PROVE  IInv'
<1>1. /\ ses' \in [Sessions -> Session]
      /\ \A q \in Sessions \ {p} : ses'[q] = ses[q]
      /\ ses'[p].pc = c /\ ses'[p].dep = None
      /\ ses'[p].keys = {} /\ ses'[p].ok \in {"idle", "item"}
      /\ c = "resolve" => ses'[p].flag = ses[p].flag
  BY FinishEffect DEF IInv
<1>2. PICK x : x = ses[p].flag
  OBVIOUS
<1>3. Raised(x) => Raised(x)'
  BY DEF Raised, tables
<1>4. ses'[p].pc = "resolve" => ses'[p].flag = x /\ Raised(x)'
  BY <1>1, <1>2, <1>3
<1>5. Ok(p)'
  BY <1>1, <1>4, FinishedOk
<1>6. \A q \in Sessions \ {p} : ses'[p].keys \cap ses[q].keys = {}
  BY <1>1
<1> QED
  BY <1>1, <1>5, <1>6, QuietStep

\* The variables of the librarian and the request count, in a deposit's steps.
Aside == UNCHANGED <<requests, run, rows, started>>

LEMMA AsideTyped ==
  ASSUME IInv, Aside
  PROVE  /\ requests' \in Nat /\ run' \in [Runners -> Run] /\ rows' \subseteq 0..MaxRuns
         /\ started' \in 0..MaxRuns /\ run' = run
BY DEF IInv, TypeOK, Aside

LEMMA FailStep ==
  ASSUME IInv, NEW p \in Sessions, Fail(p), Aside
  PROVE  IInv'
<1>1. ses[p].ko \in {"idle", "item"}
  BY DEF IInv, TypeOK, Session
<1>2. Finish(p, ses[p].ko) /\ UNCHANGED tables /\ acks' = acks
  BY DEF Fail
<1>3. PICK c \in {"idle", "item"} : c = ses[p].ko
  BY <1>1
<1>4. Finish(p, c)
  BY <1>2, <1>3
<1>5. ses'[p].pc # "llm"
  BY <1>4, FinishEffect DEF IInv
<1>6. Budgeted(p)'
  BY <1>5, AsideTyped, BudgetKept
<1>7. acks' \subseteq [dep : DepositIds, ack : Ack] /\ \A a \in acks' : deposits[a.dep] = a.ack
  BY <1>2 DEF IInv, TypeOK, TableInv, Acked
<1> QED
  BY <1>2, <1>4, <1>6, <1>7, AsideTyped, FinishStep

\* A replay acknowledges what is stored.
LEMMA ReplayStep ==
  ASSUME IInv, NEW p \in Sessions, Replay(p), Aside,
         ses[p].dep \in DepositIds, deposits[ses[p].dep] # None
  PROVE  IInv'
<1>1. ses[p].ok \in {"idle", "resolve", "item"}
  BY DEF IInv, TypeOK, Session
<1>2. /\ Finish(p, ses[p].ok) /\ UNCHANGED tables
      /\ acks' = acks \cup {[dep |-> ses[p].dep, ack |-> deposits[ses[p].dep]]}
  BY DEF Replay
<1>3. PICK c \in {"idle", "resolve", "item"} : c = ses[p].ok
  BY <1>1
<1>4. Finish(p, c)
  BY <1>2, <1>3
<1>5. ses'[p].pc # "llm"
  BY <1>4, FinishEffect DEF IInv
<1>6. Budgeted(p)'
  BY <1>5, AsideTyped, BudgetKept
<1>7. acks' \subseteq [dep : DepositIds, ack : Ack]
  BY <1>2 DEF IInv, TypeOK
<1>8. \A a \in acks' : deposits[a.dep] = a.ack
  BY <1>2 DEF IInv, TableInv, Acked
<1>9. c = "resolve" => Raised(ses[p].flag)
  BY <1>3 DEF IInv, Ok, Flagged
<1> QED
  BY <1>2, <1>4, <1>6, <1>7, <1>8, <1>9, AsideTyped, FinishStep

----------------------------------------------------------------------------
(* Steps within a deposit, before its commit. *)

\* What does not change within a deposit.
Same(m, n) == n.dep = m.dep /\ n.body = m.body /\ n.ok = m.ok /\ n.flag = m.flag

\* The session m, as n, has taken no step that its place in the deposit forbids.
Fit(m, n) ==
  /\ n.pc \in {"parent", "write"} => n.todo # <<>>
  /\ n.pc \in {"hints", "doc", "docins", "commit"} => n.todo = <<>>
  /\ n.pc = "hints" => m.body.kind = "create"
  /\ n.pc \in Loop => deposits[m.dep] = None /\ <<"deposit", m.dep>> \in n.keys
  /\ n.pc = "docins" => m.body.path # None /\ n.ver \in 1 .. MaxVersion(m.body.path) + 1
  /\ n.pc = "commit" =>
       IF m.body.path = None THEN n.ver = 0
       ELSE n.ver = MaxVersion(m.body.path) + 1 /\ <<"doc", m.body.path, n.ver>> \in n.keys

\* What it believes of its references and of its flags is so.
Right(m, n) ==
  /\ \A e \in Elems(m.body.refs) :
       Exists(e) /\ (m.body.kind = "create" => entries[e].proposal = m.body.proposal)
  /\ n.sets \cup Elems(n.todo) \subseteq Elems(m.body.refs)
  /\ m.body.kind = "create" =>
       \A e \in Elems(m.body.refs) : e \in n.sets \/ e \in Elems(n.todo) \/ Gone(e)
  /\ \A f \in n.news :
       /\ f.entry = m.dep /\ m.body.kind = "create"
       /\ f.type = "duplicate" =>
            ~m.body.proposal /\ Exists(f.related) /\ ~entries[f.related].proposal

LEMMA Moved ==
  ASSUME IInv, NEW p \in Sessions, NEW m \in Session, m = ses[p], m.pc \in Depositing,
         NEW n \in Session, ses' = [ses EXCEPT ![p] = n], UNCHANGED <<tables, acks>>, Aside,
         Same(m, n), n.pc \in Depositing, Fit(m, n), n.pc \in Trying => Right(m, n),
         n.keys \subseteq m.keys \/ (Ready(p) /\ n.keys \subseteq m.keys \cup Wanted(p))
  PROVE  IInv'
<1>1. Ok(p) /\ TypeOK /\ TableInv
  BY DEF IInv
<1>2. /\ ses'[p] = n /\ ses' \in [Sessions -> Session]
      /\ \A q \in Sessions \ {p} : ses'[q] = ses[q]
  BY <1>1 DEF TypeOK
<1>3. /\ entries' = entries /\ flags' = flags /\ deposits' = deposits /\ docs' = docs
      /\ acks' = acks
  BY DEF tables
<1>4. n.pc # "llm" /\ n.pc # "decide" /\ n.pc # "resolve"
  BY DEF Depositing, Trying, Loop
<1>5. Placed(p)'
  BY <1>1, <1>2, <1>4 DEF Ok, Placed, Same, Fit
<1>6. Validated(p)'
  BY <1>2, <1>3 DEF Validated, Exists, Same, Right
<1>7. Handled(p)'
  BY <1>2, <1>3 DEF Handled, Gone, Same, Right
<1>8. Noted(p)'
  BY <1>2, <1>3 DEF Noted, Exists, Same, Right
<1>9. Owns(p)'
  BY <1>2, <1>3 DEF Owns, Same, Fit
<1>10. Numbered(p)'
  <2>1. \A x : MaxVersion(x)' = MaxVersion(x)
    BY <1>3 DEF MaxVersion, Versions
  <2>2. n.pc = "docins" =>
          n.body.path # None /\ n.ver \in 1 .. MaxVersion(n.body.path)' + 1
    BY <2>1 DEF Fit, Same
  <2>3. n.pc = "commit" =>
          IF n.body.path = None THEN n.ver = 0
          ELSE n.ver = MaxVersion(n.body.path)' + 1 /\ <<"doc", n.body.path, n.ver>> \in n.keys
    BY <2>1 DEF Fit, Same
  <2>4. ses'[p] = n
    BY <1>2
  <2> QED
    BY <2>2, <2>3, <2>4 DEF Numbered
<1>11. Flagged(p)'
  <2>1. \A x : Raised(x) => Raised(x)'
    BY <1>3 DEF Raised
  <2>2. n.ok = "resolve" => Raised(n.flag)'
    BY <1>1, <2>1 DEF Ok, Flagged, Same
  <2> QED
    BY <1>2, <1>4, <2>2 DEF Flagged
<1>12. Budgeted(p)'
  BY <1>2, <1>4, AsideTyped, BudgetKept
<1>13. Ok(p)'
  BY <1>5, <1>6, <1>7, <1>8, <1>9, <1>10, <1>11, <1>12 DEF Ok
<1>14. \A q \in Sessions \ {p} : ses'[p].keys \cap ses[q].keys = {}
  <2>1. \A q \in Sessions \ {p} : m.keys \cap ses[q].keys = {}
    BY DEF IInv, KeysApart
  <2>2. Ready(p) => \A q \in Sessions \ {p} : Wanted(p) \cap ses[q].keys = {}
    BY DEF Ready, BlockedBy
  <2> QED
    BY <1>2, <2>1, <2>2
<1>15. acks' \subseteq [dep : DepositIds, ack : Ack] /\ \A a \in acks' : deposits[a.dep] = a.ack
  BY <1>1, <1>3 DEF TypeOK, TableInv, Acked
<1>16. UNCHANGED tables /\ \A r \in Runners \ {p} : run'[r] = run[r]
  BY AsideTyped
<1> QED
  BY <1>2, <1>13, <1>14, <1>15, <1>16, AsideTyped, QuietStep

\* What a session in a deposit is known to be.
LEMMA InDeposit ==
  ASSUME IInv, NEW p \in Sessions, ses[p].pc \in Depositing
  PROVE  /\ ses[p] \in Session /\ ses[p].dep \in DepositIds /\ ses[p].body \in Body
         /\ Shaped(ses[p].body) /\ ses[p].body.refs \in Seq(Entries)
         /\ ses[p].todo \in Seq(Entries) /\ ses[p].body.path \in Paths \cup {None}
         /\ ses[p].keys \subseteq Keys /\ ses[p].sets \subseteq Entries
         /\ ses[p].news \subseteq FlagRow /\ ses[p].ver \in Nat
         /\ ses[p].body.kind \in {"create", "retire", "none"} /\ ses[p].body.proposal \in BOOLEAN
<1>1. ses[p] \in Session /\ Placed(p)
  BY DEF IInv, TypeOK, Ok
<1>2. ses[p].dep \in DepositIds /\ Shaped(ses[p].body)
  BY <1>1 DEF Placed
<1>3. /\ ses[p].body \in Body /\ ses[p].todo \in Seq(Entries)
      /\ ses[p].keys \subseteq Keys /\ ses[p].sets \subseteq Entries
      /\ ses[p].news \subseteq FlagRow /\ ses[p].ver \in Nat
  BY <1>1 DEF Session
<1>4. /\ ses[p].body.refs \in Seq(Entries) /\ ses[p].body.path \in Paths \cup {None}
      /\ ses[p].body.kind \in {"create", "retire", "none"} /\ ses[p].body.proposal \in BOOLEAN
  BY <1>3 DEF Body
<1> QED
  BY <1>1, <1>2, <1>3, <1>4

\* What one on its way to the commit may rely on.
LEMMA InTransaction ==
  ASSUME IInv, NEW p \in Sessions, ses[p].pc \in Trying
  PROVE  Right(ses[p], ses[p])
BY DEF IInv, Ok, Validated, Handled, Noted, Right

\* The start of an attempt, the first or another.
LEMMA AttemptStep ==
  ASSUME IInv, NEW p \in Sessions, ses[p].pc \in Depositing,
         NEW k \in 1..MaxAttempts, ses' = [ses EXCEPT ![p] = Attempt(ses[p], k)],
         UNCHANGED <<tables, acks>>, Aside,
         ses[p].pc \in Trying \/ Valid(ses[p].body)
  PROVE  IInv'
<1>1. PICK m \in Session : m = ses[p]
  BY DEF IInv, TypeOK
<1> DEFINE held == IF k = 1 THEN m.held ELSE {}
           n == [m EXCEPT !.pc = "stub", !.attempt = k, !.todo = m.body.refs, !.sets = {},
                          !.news = {}, !.keys = {}, !.ver = 0, !.held = held]
<1>2. ses' = [ses EXCEPT ![p] = n]
  BY <1>1 DEF Attempt
<1>3. m.held \subseteq Entries /\ m.body.refs \in Seq(Entries)
  BY <1>1, InDeposit DEF Session
<1>4. held \subseteq Entries
  BY <1>3
<1>5. n = [m EXCEPT !.pc = "stub", !.attempt = k, !.todo = m.body.refs, !.sets = {},
                    !.news = {}, !.keys = {}, !.ver = 0, !.held = held]
  OBVIOUS
<1> HIDE DEF n, held
<1>6. /\ n \in Session /\ n.pc = "stub" /\ n.todo = m.body.refs /\ n.sets = {} /\ n.news = {}
      /\ n.keys = {} /\ n.dep = m.dep /\ n.body = m.body /\ n.ok = m.ok /\ n.flag = m.flag
  BY <1>3, <1>4, <1>5 DEF Session
<1>7. \A e \in Elems(m.body.refs) :
        Exists(e) /\ (m.body.kind = "create" => entries[e].proposal = m.body.proposal)
  <2>1. CASE m.pc \in Trying
    BY <1>1, <2>1, InTransaction DEF Right
  <2>2. CASE Valid(m.body)
    BY <2>2 DEF Valid, Elems
  <2> QED
    BY <1>1, <2>1, <2>2
<1>8. n.pc \in Depositing /\ n.pc \notin Loop /\ m.pc \in Depositing /\ n.keys \subseteq m.keys
  BY <1>1, <1>6 DEF Depositing, Trying, Loop
<1>9. Same(m, n) /\ Fit(m, n)
  BY <1>6, <1>8 DEF Same, Fit
<1>10. Right(m, n)
  BY <1>6, <1>7 DEF Right
<1> QED
  BY <1>1, <1>2, <1>6, <1>8, <1>9, <1>10, Moved

\* What a session waits for is a key.
LEMMA WantedKeys ==
  ASSUME IInv, NEW p \in Sessions, ses[p].pc \in Depositing
  PROVE  Wanted(p) \subseteq Keys
<1>1. PICK m \in Session : m = ses[p]
  BY DEF IInv, TypeOK
<1>2. /\ m.dep \in DepositIds /\ m.todo \in Seq(Entries) /\ m.ver \in Nat
      /\ m.body.path \in Paths \cup {None}
  BY <1>1, InDeposit
<1>3. CASE m.pc = "stubins"
  BY <1>1, <1>3 DEF Wanted, Keys
<1>4. CASE m.pc = "row"
  BY <1>1, <1>2, <1>4 DEF Wanted, Keys
<1>5. CASE m.pc = "write"
  <2>1. m.todo # <<>>
    BY <1>1, <1>5 DEF IInv, Ok, Placed
  <2>2. Head(m.todo) \in Entries
    BY <1>2, <2>1, ElemsSplit
  <2> QED
    BY <1>1, <1>5, <2>2 DEF Wanted, Keys
<1>6. CASE m.pc = "docins"
  <2>1. m.body.path # None
    BY <1>1, <1>6 DEF IInv, Ok, Numbered
  <2>2. <<"doc", m.body.path, m.ver>> \in {"doc"} \X Paths \X Nat
    BY <1>2, <2>1
  <2>3. Wanted(p) = {<<"doc", m.body.path, m.ver>>}
    BY <1>1, <1>6 DEF Wanted
  <2> QED
    BY <2>2, <2>3 DEF Keys
<1>7. CASE m.pc \notin {"stubins", "row", "write", "docins"}
  <2>1. m.pc # "decide"
    BY <1>1 DEF Depositing, Trying, Loop
  <2>2. Wanted(p) = {}
    BY <1>1, <1>7, <2>1 DEF Wanted
  <2> QED
    BY <2>2
<1> QED
  BY <1>3, <1>4, <1>5, <1>6, <1>7

\* Goto and Take move a session and leave the rest of it alone.
LEMMA GotoRecord ==
  ASSUME TypeOK, NEW p \in Sessions, NEW c \in Depositing, Goto(p, c)
  PROVE  \E n \in Session :
           /\ ses' = [ses EXCEPT ![p] = n] /\ n.pc = c
           /\ n.dep = ses[p].dep /\ n.body = ses[p].body /\ n.ok = ses[p].ok
           /\ n.flag = ses[p].flag /\ n.todo = ses[p].todo /\ n.sets = ses[p].sets
           /\ n.news = ses[p].news /\ n.ver = ses[p].ver /\ n.keys = ses[p].keys
<1>1. PICK m \in Session : m = ses[p]
  BY DEF TypeOK
<1> DEFINE n == [m EXCEPT !.pc = c]
<1>2. ses' = [ses EXCEPT ![p] = n] /\ n = [m EXCEPT !.pc = c]
  BY <1>1 DEF Goto
<1> HIDE DEF n
<1>3. /\ n \in Session /\ n.pc = c /\ n.dep = m.dep /\ n.body = m.body /\ n.ok = m.ok
      /\ n.flag = m.flag /\ n.todo = m.todo /\ n.sets = m.sets
      /\ n.news = m.news /\ n.ver = m.ver /\ n.keys = m.keys
  BY <1>2 DEF Session, Depositing, Trying, Loop
<1> QED
  BY <1>1, <1>2, <1>3

LEMMA TakeRecord ==
  ASSUME TypeOK, NEW p \in Sessions, NEW c \in Depositing, Take(p, c), Wanted(p) \subseteq Keys
  PROVE  \E n \in Session :
           /\ ses' = [ses EXCEPT ![p] = n] /\ n.pc = c
           /\ n.dep = ses[p].dep /\ n.body = ses[p].body /\ n.ok = ses[p].ok
           /\ n.flag = ses[p].flag /\ n.todo = ses[p].todo /\ n.sets = ses[p].sets
           /\ n.news = ses[p].news /\ n.ver = ses[p].ver
           /\ n.keys = ses[p].keys \cup Wanted(p)
<1>1. PICK m \in Session : m = ses[p]
  BY DEF TypeOK
<1> DEFINE K == m.keys \cup Wanted(p)
           n == [m EXCEPT !.pc = c, !.keys = K]
<1>2. ses' = [ses EXCEPT ![p] = n] /\ n = [m EXCEPT !.pc = c, !.keys = K]
  BY <1>1 DEF Take
<1>3. K \subseteq Keys
  BY DEF Session
<1> HIDE DEF n, K
<1>4. /\ n \in Session /\ n.pc = c /\ n.dep = m.dep /\ n.body = m.body /\ n.ok = m.ok
      /\ n.flag = m.flag /\ n.todo = m.todo /\ n.sets = m.sets
      /\ n.news = m.news /\ n.ver = m.ver /\ n.keys = K
  BY <1>2, <1>3 DEF Session, Depositing, Trying, Loop
<1> QED
  BY <1>1, <1>2, <1>4 DEF K

\* A session that goes on, with the key it waited for if it did.
LEMMA Shift ==
  ASSUME IInv, NEW p \in Sessions, NEW c \in Depositing, ses[p].pc \in Depositing,
         Goto(p, c) \/ (Ready(p) /\ Take(p, c)), UNCHANGED <<tables, acks>>, Aside,
         c \in Trying => ses[p].pc \in Trying,
         c \in {"parent", "write"} => ses[p].todo # <<>>,
         c \in {"hints", "doc", "docins", "commit"} => ses[p].todo = <<>>,
         c = "hints" => ses[p].body.kind = "create",
         c \in Loop =>
           \/ ses[p].pc \in Loop
           \/ /\ Take(p, c) /\ deposits[ses[p].dep] = None
              /\ <<"deposit", ses[p].dep>> \in Wanted(p),
         c # "docins",
         c = "commit" =>
           /\ Take(p, c) /\ ses[p].body.path # None
           /\ ses[p].ver = MaxVersion(ses[p].body.path) + 1
           /\ <<"doc", ses[p].body.path, ses[p].ver>> \in Wanted(p)
  PROVE  IInv'
<1>1. PICK m \in Session : m = ses[p]
  BY DEF IInv, TypeOK
<1>2. PICK n \in Session :
        /\ ses' = [ses EXCEPT ![p] = n] /\ n.pc = c
        /\ n.dep = m.dep /\ n.body = m.body /\ n.ok = m.ok
        /\ n.flag = m.flag /\ n.todo = m.todo /\ n.sets = m.sets
        /\ n.news = m.news /\ n.ver = m.ver
        /\ n.keys = m.keys \/ (Ready(p) /\ n.keys = m.keys \cup Wanted(p))
        /\ Take(p, c) => m.keys \cup Wanted(p) \subseteq n.keys
  <2>1. Wanted(p) \subseteq Keys /\ TypeOK
    BY WantedKeys DEF IInv
  <2>2. CASE Take(p, c) /\ Ready(p)
    BY <1>1, <2>1, <2>2, TakeRecord
  <2>3. CASE Goto(p, c)
    <3>1. PICK n \in Session :
           /\ ses' = [ses EXCEPT ![p] = n] /\ n.pc = c
           /\ n.dep = ses[p].dep /\ n.body = ses[p].body /\ n.ok = ses[p].ok
           /\ n.flag = ses[p].flag /\ n.todo = ses[p].todo /\ n.sets = ses[p].sets
           /\ n.news = ses[p].news /\ n.ver = ses[p].ver /\ n.keys = ses[p].keys
      BY <2>1, <2>3, GotoRecord
    <3>2. ASSUME Take(p, c) PROVE m.keys \cup Wanted(p) \subseteq n.keys
      <4>1. PICK k \in Session : ses' = [ses EXCEPT ![p] = k] /\ k.keys = m.keys \cup Wanted(p)
        BY <1>1, <2>1, <3>2, TakeRecord
      <4>2. ses'[p] = n /\ ses'[p] = k
        BY <2>1, <3>1, <4>1 DEF TypeOK
      <4> QED
        BY <4>1, <4>2
    <3> QED
      BY <1>1, <3>1, <3>2
  <2> QED
    BY <2>2, <2>3
<1>3. n.pc \in Trying => Right(m, n)
  <2> SUFFICES ASSUME n.pc \in Trying PROVE Right(m, n)
    OBVIOUS
  <2>1. Right(m, m)
    BY <1>1, <1>2, InTransaction
  <2> QED
    BY <1>2, <2>1 DEF Right
<1>4. n.pc \in Loop => deposits[m.dep] = None /\ <<"deposit", m.dep>> \in n.keys
  <2>1. m.pc \in Loop => deposits[m.dep] = None /\ <<"deposit", m.dep>> \in m.keys
    BY <1>1 DEF IInv, Ok, Owns
  <2> QED
    BY <1>1, <1>2, <2>1
<1>5. n.pc = "commit" =>
        IF m.body.path = None THEN n.ver = 0
        ELSE n.ver = MaxVersion(m.body.path) + 1 /\ <<"doc", m.body.path, n.ver>> \in n.keys
  BY <1>1, <1>2
<1>6. Fit(m, n)
  BY <1>1, <1>2, <1>4, <1>5 DEF Fit
<1>7. n.keys \subseteq m.keys \/ (Ready(p) /\ n.keys \subseteq m.keys \cup Wanted(p))
  BY <1>2
<1>8. Same(m, n) /\ n.pc \in Depositing /\ m.pc \in Depositing
  BY <1>1, <1>2 DEF Same
<1> QED
  BY <1>1, <1>2, <1>3, <1>6, <1>7, <1>8, Moved

LEMMA CheckStep ==
  ASSUME IInv, NEW p \in Sessions, Check(p), Aside
  PROVE  IInv'
<1>1. ses[p].pc = "check" /\ "check" \in Depositing /\ "validate" \in Depositing
  BY DEF Check, Depositing
<1>2. ses[p].dep \in DepositIds
  BY <1>1, InDeposit
<1>3. CASE deposits[ses[p].dep] # None /\ Replay(p)
  BY <1>2, <1>3, ReplayStep
<1>4. CASE deposits[ses[p].dep] = None /\ Goto(p, "validate") /\ UNCHANGED <<tables, acks>>
  <2>1. "validate" \notin Trying /\ "validate" \notin Loop
    BY DEF Trying, Loop
  <2> QED
    BY <1>1, <1>4, <2>1, Shift
<1> QED
  BY <1>3, <1>4 DEF Check

LEMMA ValidateStep ==
  ASSUME IInv, NEW p \in Sessions, Validate(p), Aside
  PROVE  IInv'
<1>1. ses[p].pc \in Depositing /\ 1 \in 1..MaxAttempts
  BY LibraryAssumption DEF Validate, Depositing
<1>2. CASE Fail(p)
  BY <1>2, FailStep
<1>3. CASE Valid(ses[p].body) /\ ses' = [ses EXCEPT ![p] = Attempt(ses[p], 1)]
           /\ UNCHANGED <<tables, acks>>
  BY <1>1, <1>3, AttemptStep
<1> QED
  BY <1>2, <1>3 DEF Validate

\* An IntegrityError: a replay, another attempt or an error, and no trace.
LEMMA ConflictStep ==
  ASSUME IInv, NEW p \in Sessions, ses[p].pc \in Trying, Conflict(p), Aside
  PROVE  IInv'
<1>1. ses[p].pc \in Depositing
  BY DEF Depositing
<1>2. ses[p].dep \in DepositIds /\ ses[p].attempt \in 1..MaxAttempts
  BY <1>1, InDeposit DEF IInv, TypeOK, Session
<1>3. CASE deposits[ses[p].dep] # None /\ Replay(p)
  BY <1>2, <1>3, ReplayStep
<1>4. CASE /\ ses[p].attempt < MaxAttempts
           /\ ses' = [ses EXCEPT ![p] = Attempt(ses[p], ses[p].attempt + 1)]
           /\ UNCHANGED <<tables, acks>>
  <2>1. PICK k \in 1..MaxAttempts : k = ses[p].attempt + 1
    BY <1>2, <1>4, LibraryAssumption
  <2>2. ses' = [ses EXCEPT ![p] = Attempt(ses[p], k)]
    BY <1>4, <2>1
  <2> QED
    BY <1>1, <1>4, <2>2, AttemptStep
<1>5. CASE Fail(p)
  BY <1>5, FailStep
<1> QED
  BY <1>3, <1>4, <1>5 DEF Conflict

LEMMA StubStep ==
  ASSUME IInv, NEW p \in Sessions, Stub(p) \/ StubInsert(p), Aside
  PROVE  IInv'
<1>1. ses[p].pc \in Trying /\ ses[p].pc \in Depositing
  BY DEF Stub, StubInsert, Depositing, Trying
<1>2. /\ {"row", "stubins"} \subseteq Depositing /\ {"row", "stubins"} \subseteq Trying
      /\ {"row", "stubins"} \cap Loop = {}
  BY DEF Depositing, Trying, Loop
<1>3. CASE Conflict(p)
  BY <1>1, <1>3, ConflictStep
<1>4. CASE Ready(p) /\ Take(p, "row") /\ UNCHANGED <<tables, acks>>
  BY <1>1, <1>2, <1>4, Shift
<1>5. CASE Stub(p)
  <2>1. PICK c \in {"row", "stubins"} : Goto(p, c)
    BY <1>5 DEF Stub
  <2>2. UNCHANGED <<tables, acks>>
    BY <1>5 DEF Stub
  <2> QED
    BY <1>1, <1>2, <2>1, <2>2, Shift
<1> QED
  BY <1>3, <1>4, <1>5 DEF StubInsert

\* What follows a deposit's row, or a reference that is done with.
LEMMA LoopPcIs ==
  ASSUME NEW s, NEW todo
  PROVE  \/ todo # <<>> /\ LoopPc(s, todo) = "parent"
         \/ todo = <<>> /\ s.body.kind = "create" /\ LoopPc(s, todo) = "hints"
         \/ todo = <<>> /\ s.body.kind # "create" /\ LoopPc(s, todo) = "doc"
BY DEF LoopPc

\* The deposit's row: from here on nobody else stores it.
LEMMA DepositRowStep ==
  ASSUME IInv, NEW p \in Sessions, DepositRow(p), Aside
  PROVE  IInv'
<1>1. /\ ses[p].pc = "row" /\ Ready(p) /\ ses[p].pc \in Trying /\ ses[p].pc \in Depositing
      /\ Wanted(p) = {<<"deposit", ses[p].dep>>}
  BY DEF DepositRow, Wanted, Depositing, Trying
<1>2. CASE Conflict(p)
  BY <1>1, <1>2, ConflictStep
<1>3. CASE deposits[ses[p].dep] = None /\ Take(p, LoopPc(ses[p], ses[p].todo))
           /\ UNCHANGED <<tables, acks>>
  <2>1. PICK c \in {"parent", "hints", "doc"} :
          /\ Take(p, c)
          /\ c = "parent" => ses[p].todo # <<>>
          /\ c # "parent" => ses[p].todo = <<>>
          /\ c = "hints" => ses[p].body.kind = "create"
    BY <1>3, LoopPcIs
  <2>2. c \in Depositing /\ c \in Trying
    BY DEF Depositing, Trying, Loop
  <2> QED
    BY <1>1, <1>3, <2>1, <2>2, Shift
<1> QED
  BY <1>2, <1>3 DEF DepositRow

\* A reference: the flags for its other children, and whether it is active.
LEMMA ParentStep ==
  ASSUME IInv, NEW p \in Sessions, Parent(p), Aside
  PROVE  IInv'
<1>1. PICK m \in Session : m = ses[p]
  BY DEF IInv, TypeOK
<1>2. m.pc = "parent" /\ m.pc \in Loop /\ m.pc \in Trying /\ m.pc \in Depositing
  BY <1>1 DEF Parent, Loop, Trying, Depositing
<1>3. m.todo # <<>> /\ m.todo \in Seq(Entries) /\ m.body.refs \in Seq(Entries)
  BY <1>1, <1>2, InDeposit DEF IInv, Ok, Placed
<1> DEFINE e == Head(m.todo)
           active == e \in m.held \/ entries[e].status = "active"
           siblings == {o \in Entries : Exists(o) /\ e \in entries[o].parents}
<1>4. /\ e \in Entries /\ Tail(m.todo) \in Seq(Entries)
      /\ Elems(m.todo) = {e} \cup Elems(Tail(m.todo))
  BY <1>3, ElemsSplit
<1>5. CASE Fail(p)
  BY <1>5, FailStep
<1>6. CASE Goto(p, "write") /\ UNCHANGED <<tables, acks>>
  <2>1. "write" \in Loop /\ "write" \in Depositing
    BY DEF Loop, Trying, Depositing
  <2> QED
    BY <1>1, <1>2, <1>3, <1>6, <2>1, Shift
<1>7. CASE /\ m.body.kind = "create"
           /\ ses' = [ses EXCEPT ![p] =
                [m EXCEPT !.news = @ \cup {Flag("fork", m.dep, o) : o \in siblings},
                          !.todo = IF active THEN @ ELSE Tail(@),
                          !.pc = IF active THEN "write" ELSE LoopPc(m, Tail(m.todo))]]
           /\ UNCHANGED <<tables, acks>>
  <2>1. PICK N : N = m.news \cup {Flag("fork", m.dep, o) : o \in siblings}
    OBVIOUS
  <2>2. PICK T \in Seq(Entries) : T = IF active THEN m.todo ELSE Tail(m.todo)
    BY <1>3, <1>4
  <2>3. PICK c \in {"write", "parent", "hints"} :
          /\ c = IF active THEN "write" ELSE LoopPc(m, Tail(m.todo))
          /\ c \in {"write", "parent"} => T # <<>>
          /\ c = "hints" => T = <<>>
    <3>1. CASE active
      BY <1>3, <2>2, <3>1
    <3>2. CASE ~active
      BY <1>7, <2>2, <3>2, LoopPcIs
    <3> QED
      BY <3>1, <3>2
  <2> DEFINE n == [m EXCEPT !.news = N, !.todo = T, !.pc = c]
  <2>4. ses' = [ses EXCEPT ![p] = n] /\ n = [m EXCEPT !.news = N, !.todo = T, !.pc = c]
    BY <1>7, <2>1, <2>2, <2>3
  <2>5. N \subseteq FlagRow
    <3>1. m.news \subseteq FlagRow /\ m.dep \in Entries
      BY <1>1, <1>2, InDeposit DEF Entries
    <3> QED
      BY <2>1, <3>1 DEF Flag, FlagRow
  <2> HIDE DEF n
  <2>6. /\ n \in Session /\ n.pc = c /\ n.todo = T /\ n.news = N /\ n.sets = m.sets
        /\ n.keys = m.keys /\ n.dep = m.dep /\ n.body = m.body /\ n.ok = m.ok
        /\ n.flag = m.flag /\ n.ver = m.ver
    BY <2>4, <2>5 DEF Session
  <2>7. Right(m, m)
    BY <1>1, <1>2, InTransaction
  <2>8. Elems(T) \subseteq Elems(m.todo)
    BY <1>4, <2>2
  <2>9. n.sets \cup Elems(n.todo) \subseteq Elems(m.body.refs)
    BY <2>6, <2>7, <2>8 DEF Right
  <2>10. \A x \in Elems(m.body.refs) : x \in n.sets \/ x \in Elems(n.todo) \/ Gone(x)
    <3> SUFFICES ASSUME NEW x \in Elems(m.body.refs), x \notin m.sets, ~Gone(x)
                 PROVE  x \in Elems(T)
      BY <2>6
    <3>1. x \in Elems(m.todo) /\ Exists(x)
      BY <1>7, <2>7 DEF Right
    <3>2. CASE active
      BY <2>2, <3>1, <3>2
    <3>3. CASE ~active
      <4>1. x \in Entries /\ entries[x] \in EntryRow
        BY <1>3, ElemsTyped DEF IInv, TypeOK
      <4>2. entries[x].status = "active"
        BY <3>1, <4>1 DEF Exists, Gone, EntryRow
      <4>3. x # e
        BY <3>3, <4>2
      <4> QED
        BY <1>4, <2>2, <3>1, <3>3, <4>3
    <3> QED
      BY <3>2, <3>3
  <2>11. \A f \in n.news :
           f \in m.news \/ (f.entry = m.dep /\ f.type = "fork")
    <3>1. \A o : Flag("fork", m.dep, o).entry = m.dep /\ Flag("fork", m.dep, o).type = "fork"
      BY DEF Flag
    <3> QED
      BY <2>1, <2>6, <3>1
  <2>12. Right(m, n)
    BY <1>7, <2>7, <2>9, <2>10, <2>11 DEF Right
  <2>13. deposits[m.dep] = None /\ <<"deposit", m.dep>> \in n.keys
    BY <1>1, <1>2, <2>6 DEF IInv, Ok, Owns
  <2>14. Fit(m, n) /\ Same(m, n) /\ n.pc \in Depositing
    BY <1>7, <2>3, <2>6, <2>13 DEF Fit, Same, Depositing, Trying, Loop
  <2>15. n.keys \subseteq m.keys
    BY <2>6
  <2> QED
    BY <1>1, <1>2, <1>7, <2>4, <2>6, <2>12, <2>14, <2>15, Moved
<1> QED
  BY <1>1, <1>5, <1>6, <1>7 DEF Parent

\* ... and its row, held until the commit.
LEMMA WriteStep ==
  ASSUME IInv, NEW p \in Sessions, Write(p), Aside
  PROVE  IInv'
<1>1. PICK m \in Session : m = ses[p]
  BY DEF IInv, TypeOK
<1>2. m.pc = "write" /\ m.pc \in Loop /\ m.pc \in Trying /\ m.pc \in Depositing /\ Ready(p)
  BY <1>1 DEF Write, Loop, Trying, Depositing
<1>3. m.todo # <<>> /\ m.todo \in Seq(Entries) /\ m.body.refs \in Seq(Entries)
  BY <1>1, <1>2, InDeposit DEF IInv, Ok, Placed
<1>4. /\ Head(m.todo) \in Entries /\ Tail(m.todo) \in Seq(Entries)
      /\ Elems(m.todo) = {Head(m.todo)} \cup Elems(Tail(m.todo))
  BY <1>3, ElemsSplit
<1>5. PICK T \in Seq(Entries) : T = Tail(m.todo)
  BY <1>4
<1>6. PICK S \in SUBSET Entries : S = m.sets \cup {Head(m.todo)}
  BY <1>1, <1>2, <1>4, InDeposit
<1>7. PICK c \in {"parent", "hints", "doc"} :
        /\ c = LoopPc(m, T)
        /\ c = "parent" => T # <<>>
        /\ c # "parent" => T = <<>>
        /\ c = "hints" => m.body.kind = "create"
  BY LoopPcIs
<1>8. PICK K \in SUBSET Keys : K = m.keys \cup Wanted(p)
  BY <1>1, <1>2, WantedKeys, InDeposit
<1> DEFINE n == [m EXCEPT !.keys = K, !.sets = S, !.todo = T, !.pc = c]
<1>9. ses' = [ses EXCEPT ![p] = n] /\ n = [m EXCEPT !.keys = K, !.sets = S, !.todo = T, !.pc = c]
  BY <1>1, <1>5, <1>6, <1>7, <1>8 DEF Write
<1> HIDE DEF n
<1>10. /\ n \in Session /\ n.pc = c /\ n.todo = T /\ n.news = m.news /\ n.sets = S
       /\ n.keys = K /\ n.dep = m.dep /\ n.body = m.body /\ n.ok = m.ok
       /\ n.flag = m.flag /\ n.ver = m.ver
  BY <1>9 DEF Session
<1>11. Right(m, m)
  BY <1>1, <1>2, InTransaction
<1>12. Right(m, n)
  <2>1. S \cup Elems(T) = m.sets \cup Elems(m.todo)
    BY <1>4, <1>5, <1>6
  <2> QED
    BY <1>10, <1>11, <2>1 DEF Right
<1>13. deposits[m.dep] = None /\ <<"deposit", m.dep>> \in n.keys
  BY <1>1, <1>2, <1>8, <1>10 DEF IInv, Ok, Owns
<1>14. Fit(m, n) /\ Same(m, n) /\ n.pc \in Depositing
  BY <1>7, <1>10, <1>13 DEF Fit, Same, Depositing, Trying, Loop
<1>15. Ready(p) /\ n.keys \subseteq m.keys \cup Wanted(p) /\ UNCHANGED <<tables, acks>>
  BY <1>2, <1>8, <1>10 DEF Write
<1> QED
  BY <1>1, <1>2, <1>9, <1>10, <1>12, <1>14, <1>15, Moved

\* The duplicate check flags entries that are active, and no proposals.
LEMMA HintsStep ==
  ASSUME IInv, NEW p \in Sessions, Hints(p), Aside
  PROVE  IInv'
<1>1. PICK m \in Session : m = ses[p]
  BY DEF IInv, TypeOK
<1>2. m.pc = "hints" /\ m.pc \in Loop /\ m.pc \in Trying /\ m.pc \in Depositing
  BY <1>1 DEF Hints, Loop, Trying, Depositing
<1>3. m.todo = <<>> /\ m.body.kind = "create"
  BY <1>1, <1>2 DEF IInv, Ok, Placed
<1>4. m.dep \in Entries /\ Similar[m.dep] \subseteq Entries
  BY <1>1, <1>2, InDeposit, LibraryAssumption DEF Entries
<1> DEFINE found == {o \in Similar[m.dep] \ (m.sets \cup {m.body.refs[i] : i \in DOMAIN m.body.refs}) :
                       entries[o].status = "active" /\ ~entries[o].proposal}
           hints == IF m.body.proposal THEN {} ELSE found
<1>5. PICK N : N = m.news \cup {Flag("duplicate", m.dep, o) : o \in hints}
  OBVIOUS
<1> DEFINE n == [m EXCEPT !.pc = "doc", !.news = N]
<1>6. ses' = [ses EXCEPT ![p] = n] /\ n = [m EXCEPT !.pc = "doc", !.news = N]
  BY <1>1, <1>5 DEF Hints
<1>7. N \subseteq FlagRow
  <2>1. m.news \subseteq FlagRow
    BY <1>1, <1>2, InDeposit
  <2>2. \A o \in Entries : Flag("duplicate", m.dep, o) \in FlagRow
    BY <1>4 DEF Flag, FlagRow
  <2>3. hints \subseteq Entries
    BY <1>4
  <2> HIDE DEF hints
  <2>4. \A f \in N : f \in m.news \/ \E o \in hints : f = Flag("duplicate", m.dep, o)
    BY <1>5
  <2> QED
    BY <2>1, <2>2, <2>3, <2>4
<1>8. \A o \in hints : ~m.body.proposal /\ Exists(o) /\ ~entries[o].proposal
  BY DEF Exists
<1>9. \A f \in N : f \in m.news \/ \E o \in hints : f.entry = m.dep /\ f.related = o
  <2>1. \A o : Flag("duplicate", m.dep, o).entry = m.dep /\ Flag("duplicate", m.dep, o).related = o
    BY DEF Flag
  <2> QED
    BY <1>5, <2>1
<1> HIDE DEF n, hints
<1>10. /\ n \in Session /\ n.pc = "doc" /\ n.todo = m.todo /\ n.news = N /\ n.sets = m.sets
       /\ n.keys = m.keys /\ n.dep = m.dep /\ n.body = m.body /\ n.ok = m.ok
       /\ n.flag = m.flag
  BY <1>6, <1>7 DEF Session
<1>11. Right(m, m)
  BY <1>1, <1>2, InTransaction
<1>12. \A f \in N :
         /\ f.entry = m.dep
         /\ f.type = "duplicate" =>
              ~m.body.proposal /\ Exists(f.related) /\ ~entries[f.related].proposal
  BY <1>8, <1>9, <1>11 DEF Right
<1>13. Right(m, n)
  BY <1>3, <1>10, <1>11, <1>12 DEF Right
<1>14. deposits[m.dep] = None /\ <<"deposit", m.dep>> \in n.keys
  BY <1>1, <1>2, <1>10 DEF IInv, Ok, Owns
<1>15. Fit(m, n) /\ Same(m, n) /\ n.pc \in Depositing /\ n.keys \subseteq m.keys
  BY <1>3, <1>10, <1>14 DEF Fit, Same, Depositing, Trying, Loop
<1>16. UNCHANGED <<tables, acks>>
  BY DEF Hints
<1> QED
  BY <1>1, <1>2, <1>6, <1>10, <1>13, <1>15, <1>16, Moved

\* The versions there are, and the number of them.
LEMMA VersionsAre ==
  ASSUME IInv, NEW x \in Paths
  PROVE  MaxVersion(x) \in Nat /\ Versions(x) = 1 .. MaxVersion(x)
<1>1. IsFiniteSet(docs) /\ VersionsAreGapless
  BY DEF IInv, TableInv
<1>2. MaxVersion(x) \in Nat
  BY <1>1, VersionsFinite DEF Versions, MaxVersion
<1>3. Versions(x) = 1 .. Cardinality({d \in docs : d.path = x})
      /\ Cardinality({d \in docs : d.path = x}) = Cardinality(Versions(x))
  BY <1>1 DEF VersionsAreGapless
<1> QED
  BY <1>2, <1>3 DEF MaxVersion

\* The next version is read.
LEMMA DocumentStep ==
  ASSUME IInv, NEW p \in Sessions, Document(p), Aside
  PROVE  IInv'
<1>1. PICK m \in Session : m = ses[p]
  BY DEF IInv, TypeOK
<1>2. m.pc = "doc" /\ m.pc \in Loop /\ m.pc \in Trying /\ m.pc \in Depositing
  BY <1>1 DEF Document, Loop, Trying, Depositing
<1>3. m.todo = <<>> /\ m.body.path \in Paths \cup {None}
  BY <1>1, <1>2, InDeposit DEF IInv, Ok, Placed
<1>4. PICK c \in {"commit", "docins"} : c = IF m.body.path = None THEN "commit" ELSE "docins"
  OBVIOUS
<1>5. PICK v : v = IF m.body.path = None THEN 0 ELSE MaxVersion(m.body.path) + 1
  OBVIOUS
<1>6. v \in Nat /\ (m.body.path # None => v \in 1 .. MaxVersion(m.body.path) + 1)
  BY <1>3, <1>5, VersionsAre
<1> DEFINE n == [m EXCEPT !.pc = c, !.ver = v]
<1>7. ses' = [ses EXCEPT ![p] = n] /\ n = [m EXCEPT !.pc = c, !.ver = v]
  BY <1>1, <1>4, <1>5 DEF Document
<1> HIDE DEF n
<1>8. /\ n \in Session /\ n.pc = c /\ n.todo = m.todo /\ n.news = m.news /\ n.sets = m.sets
      /\ n.keys = m.keys /\ n.dep = m.dep /\ n.body = m.body /\ n.ok = m.ok
      /\ n.flag = m.flag /\ n.ver = v
  BY <1>6, <1>7 DEF Session
<1>9. Right(m, m)
  BY <1>1, <1>2, InTransaction
<1>10. Right(m, n)
  BY <1>8, <1>9 DEF Right
<1>11. deposits[m.dep] = None /\ <<"deposit", m.dep>> \in n.keys
  BY <1>1, <1>2, <1>8 DEF IInv, Ok, Owns
<1>12. n.pc = "docins" => m.body.path # None /\ n.ver \in 1 .. MaxVersion(m.body.path) + 1
  BY <1>4, <1>6, <1>8
<1>13. n.pc = "commit" => m.body.path = None /\ n.ver = 0
  BY <1>4, <1>5, <1>8
<1>14. Fit(m, n) /\ Same(m, n) /\ n.pc \in Depositing /\ n.keys \subseteq m.keys
  BY <1>3, <1>8, <1>11, <1>12, <1>13 DEF Fit, Same, Depositing, Trying, Loop
<1>15. UNCHANGED <<tables, acks>>
  BY DEF Document
<1> QED
  BY <1>1, <1>2, <1>7, <1>8, <1>10, <1>14, <1>15, Moved

\* ... and inserted, when nobody took it: then it is still the next one.
LEMMA DocumentInsertStep ==
  ASSUME IInv, NEW p \in Sessions, DocumentInsert(p), Aside
  PROVE  IInv'
<1>1. PICK m \in Session : m = ses[p]
  BY DEF IInv, TypeOK
<1>2. m.pc = "docins" /\ m.pc \in Loop /\ m.pc \in Trying /\ m.pc \in Depositing /\ Ready(p)
  BY <1>1 DEF DocumentInsert, Loop, Trying, Depositing
<1>3. /\ m.todo = <<>> /\ m.body.path \in Paths /\ m.ver \in Nat
      /\ m.ver \in 1 .. MaxVersion(m.body.path) + 1
  BY <1>1, <1>2, InDeposit DEF IInv, Ok, Placed, Numbered
<1>4. CASE Conflict(p)
  BY <1>1, <1>2, <1>4, ConflictStep
<1>5. CASE m.ver \notin Versions(m.body.path) /\ Take(p, "commit") /\ UNCHANGED <<tables, acks>>
  <2>1. MaxVersion(m.body.path) \in Nat /\ Versions(m.body.path) = 1 .. MaxVersion(m.body.path)
    BY <1>3, VersionsAre
  <2>2. m.ver = MaxVersion(m.body.path) + 1
    BY <1>3, <1>5, <2>1
  <2>3. <<"doc", m.body.path, m.ver>> \in Wanted(p)
    BY <1>1, <1>2 DEF Wanted
  <2>4. m.body.path # None
    BY <1>3, LibraryAssumption
  <2>5. "commit" \in Depositing /\ "commit" \in Loop
    BY DEF Depositing, Trying, Loop
  <2> QED
    BY <1>1, <1>2, <1>3, <1>5, <2>2, <2>3, <2>4, <2>5, Shift
<1> QED
  BY <1>1, <1>4, <1>5 DEF DocumentInsert

----------------------------------------------------------------------------
(* The commit of a deposit. *)

\* What a session that may commit holds and believes.
LEMMA AtCommit ==
  ASSUME IInv, NEW p \in Sessions, ses[p].pc = "commit"
  PROVE  /\ ses[p].pc \in Loop /\ ses[p].pc \in Trying /\ ses[p].pc \in Depositing
         /\ deposits[ses[p].dep] = None /\ ~Exists(ses[p].dep) /\ ses[p].dep \in Entries
         /\ <<"deposit", ses[p].dep>> \in ses[p].keys
         /\ Right(ses[p], ses[p]) /\ ses[p].todo = <<>>
         /\ Elems(ses[p].body.refs) \subseteq Entries
         /\ ses[p].dep \notin Elems(ses[p].body.refs)
         /\ ses[p].sets \subseteq Elems(ses[p].body.refs)
         /\ IF ses[p].body.path = None THEN ses[p].ver = 0
            ELSE /\ ses[p].ver = MaxVersion(ses[p].body.path) + 1
                 /\ <<"doc", ses[p].body.path, ses[p].ver>> \in ses[p].keys
<1>1. ses[p].pc \in Loop /\ ses[p].pc \in Trying /\ ses[p].pc \in Depositing
  BY DEF Depositing, Trying, Loop
<1>2. ses[p].dep \in DepositIds /\ ses[p].body.refs \in Seq(Entries)
  BY <1>1, InDeposit
<1>3. deposits[ses[p].dep] = None /\ <<"deposit", ses[p].dep>> \in ses[p].keys
  BY <1>1 DEF IInv, Ok, Owns
<1>4. ~Exists(ses[p].dep) /\ ses[p].dep \in Entries
  BY <1>2, <1>3 DEF IInv, TableInv, Stored, Exists, Entries
<1>5. Right(ses[p], ses[p])
  BY <1>1, InTransaction
<1>6. ses[p].todo = <<>>
  BY DEF IInv, Ok, Placed
<1>7. Elems(ses[p].body.refs) \subseteq Entries
  BY <1>2, ElemsTyped
<1>8. ses[p].dep \notin Elems(ses[p].body.refs) /\ ses[p].sets \subseteq Elems(ses[p].body.refs)
  BY <1>4, <1>5 DEF Right
<1>9. Numbered(p)
  BY DEF IInv, Ok
<1> QED
  BY <1>1, <1>3, <1>4, <1>5, <1>6, <1>7, <1>8, <1>9 DEF Numbered

\* What it does to the entries: its own, those it updated, and the others.
LEMMA CommitEntries ==
  ASSUME IInv, NEW p \in Sessions, Commit(p), NEW m \in Session, m = ses[p]
  PROVE  /\ entries' \in [Entries -> EntryRow]
         /\ m.body.kind = "create" =>
              /\ entries'[m.dep].status = "active" /\ entries'[m.dep].parents = Elems(m.body.refs)
              /\ entries'[m.dep].proposal = m.body.proposal
         /\ \A e \in m.sets :
              /\ entries'[e].status = IF m.body.kind = "retire" THEN "retired" ELSE "superseded"
              /\ entries'[e].parents = entries[e].parents
              /\ entries'[e].proposal = entries[e].proposal
         /\ \A e \in Entries :
              e \notin m.sets /\ (e = m.dep => m.body.kind # "create") => entries'[e] = entries[e]
<1> DEFINE b == m.body
           own == [status |-> "active", parents |-> {b.refs[i] : i \in DOMAIN b.refs},
                   proposal |-> b.proposal, decision |-> None]
           st == IF b.kind = "retire" THEN "retired" ELSE "superseded"
           upd(e) == [entries[e] EXCEPT !.status = st]
<1>1. entries' = [e \in Entries |->
         IF e = m.dep /\ b.kind = "create" THEN own
         ELSE IF e \in m.sets THEN upd(e) ELSE entries[e]]
  BY DEF Commit
<1>2. /\ m.dep \in Entries /\ m.dep \notin Elems(b.refs) /\ m.sets \subseteq Elems(b.refs)
      /\ Elems(b.refs) \subseteq Entries /\ b.proposal \in BOOLEAN
  BY AtCommit, InDeposit DEF Commit
<1>3. own.parents = Elems(b.refs)
  BY DEF Elems
<1>4. own \in EntryRow
  <2>1. own.parents \subseteq Entries
    BY <1>2, <1>3
  <2> QED
    BY <1>2, <2>1 DEF EntryRow
<1>5. ASSUME NEW e \in Entries
      PROVE  /\ upd(e) \in EntryRow /\ upd(e).status = st
             /\ upd(e).parents = entries[e].parents /\ upd(e).proposal = entries[e].proposal
  <2>1. entries[e] \in EntryRow
    BY DEF IInv, TypeOK
  <2> QED
    BY <2>1 DEF EntryRow
<1>6. \A e \in Entries : entries[e] \in EntryRow
  BY DEF IInv, TypeOK
<1>7. own.status = "active" /\ own.proposal = b.proposal
  OBVIOUS
<1> HIDE DEF own, upd, st
<1>8. entries' \in [Entries -> EntryRow]
  BY <1>1, <1>4, <1>5, <1>6
<1>9. b.kind = "create" => entries'[m.dep] = own
  BY <1>1, <1>2
<1>10. \A e \in m.sets : entries'[e] = upd(e)
  BY <1>1, <1>2
<1>11. \A e \in Entries : e \notin m.sets /\ (e = m.dep => b.kind # "create") => entries'[e] = entries[e]
  BY <1>1
<1>12. m.sets \subseteq Entries
  BY <1>2
<1> QED
  BY <1>3, <1>5, <1>7, <1>8, <1>9, <1>10, <1>11, <1>12 DEF st

\* It takes nothing back: entries, lineage and flags only grow.
LEMMA CommitGrows ==
  ASSUME IInv, NEW p \in Sessions, Commit(p)
  PROVE  /\ \A e \in Entries : Exists(e) => Exists(e)' /\ entries'[e].proposal = entries[e].proposal
         /\ \A e \in Entries : Gone(e) => Gone(e)'
         /\ \A x : Raised(x) => Raised(x)'
         /\ IsFiniteSet(docs') /\ docs \subseteq docs'
<1>1. PICK m \in Session : m = ses[p]
  BY DEF IInv, TypeOK
<1>2. m.pc = "commit"
  BY <1>1 DEF Commit
<1>3. ~Exists(m.dep) /\ m.sets \subseteq Elems(m.body.refs) /\ Elems(m.body.refs) \subseteq Entries
  BY <1>1, <1>2, AtCommit
<1>4. ASSUME NEW e \in Entries, Exists(e)
      PROVE  Exists(e)' /\ entries'[e].proposal = entries[e].proposal /\ (Gone(e) => Gone(e)')
  <2>1. CASE e \in m.sets
    <3>1. entries'[e].status \in {"retired", "superseded"} /\ entries'[e].proposal = entries[e].proposal
      BY <1>1, <2>1, CommitEntries
    <3> QED
      BY <3>1 DEF Exists, Gone
  <2>2. CASE e \notin m.sets
    <3>1. entries'[e] = entries[e]
      BY <1>1, <1>3, <1>4, <2>2, CommitEntries
    <3> QED
      BY <1>4, <3>1 DEF Exists, Gone
  <2> QED
    BY <2>1, <2>2
<1>5. \A e \in Entries : Gone(e) => Exists(e)
  BY DEF Gone, Exists
<1>6. flags \subseteq flags'
  BY DEF Commit
<1>7. IsFiniteSet(docs') /\ docs \subseteq docs'
  <2>1. docs' = docs \/ \E d : docs' = docs \cup {d}
    BY DEF Commit
  <2> QED
    BY <2>1, FS_AddElement DEF IInv, TableInv
<1> QED
  BY <1>4, <1>5, <1>6, <1>7 DEF Raised

\* Its document is the next version, and only at its path.
LEMMA CommitVersions ==
  ASSUME IInv, NEW p \in Sessions, Commit(p)
  PROVE  /\ VersionsAreGapless'
         /\ \A x \in Paths : x # ses[p].body.path => MaxVersion(x)' = MaxVersion(x)
<1>1. PICK m \in Session : m = ses[p]
  BY DEF IInv, TypeOK
<1>2. m.pc = "commit"
  BY <1>1 DEF Commit
<1>3. m.body.path \in Paths \cup {None} /\ m.ver \in Nat
  BY <1>1, <1>2, AtCommit, InDeposit
<1> DEFINE row == [path |-> m.body.path, version |-> m.ver, dep |-> m.dep]
<1>4. docs' = IF m.body.path = None THEN docs ELSE docs \cup {row}
  BY <1>1 DEF Commit
<1>5. row.path = m.body.path /\ row.version = m.ver
  OBVIOUS
<1> HIDE DEF row
<1>6. ASSUME NEW x \in Paths, x # m.body.path
      PROVE  {d \in docs' : d.path = x} = {d \in docs : d.path = x}
  BY <1>4, <1>5, <1>6
<1>7. ASSUME NEW x \in Paths, x # m.body.path PROVE MaxVersion(x)' = MaxVersion(x) /\ Versions(x)' = Versions(x)
  BY <1>6, <1>7 DEF MaxVersion, Versions
<1>8. ASSUME NEW x \in Paths
      PROVE  /\ Versions(x)' = 1..Cardinality({d \in docs' : d.path = x})
             /\ Cardinality({d \in docs' : d.path = x}) = Cardinality(Versions(x)')
  <2>1. /\ Versions(x) = 1..Cardinality({d \in docs : d.path = x})
        /\ Cardinality({d \in docs : d.path = x}) = Cardinality(Versions(x))
    BY DEF IInv, TableInv, VersionsAreGapless
  <2>2. CASE x # m.body.path
    BY <1>6, <1>7, <2>1, <2>2
  <2>3. CASE x = m.body.path
    <3>0. x # None
      BY LibraryAssumption
    <3>1. docs' = docs \cup {row} /\ m.ver = MaxVersion(x) + 1
      BY <1>1, <1>2, <1>4, <2>3, <3>0, AtCommit
    <3>2. PICK R : R = {d \in docs : d.path = x}
      OBVIOUS
    <3>3. {d \in docs' : d.path = x} = R \cup {row}
      BY <1>5, <2>3, <3>1, <3>2
    <3>4. Versions(x)' = Versions(x) \cup {m.ver}
      <4>1. Versions(x)' = {d.version : d \in {y \in docs' : y.path = x}}
        BY DEF Versions
      <4>2. Versions(x) = {d.version : d \in R}
        BY <3>2 DEF Versions
      <4> QED
        BY <1>5, <3>3, <4>1, <4>2
    <3>5. IsFiniteSet(R) /\ IsFiniteSet(Versions(x)) /\ MaxVersion(x) \in Nat
      <4>1. IsFiniteSet(docs)
        BY DEF IInv, TableInv
      <4>2. IsFiniteSet(R)
        BY <3>2, <4>1, FS_Subset
      <4> QED
        BY <4>1, <4>2, VersionsFinite DEF Versions, MaxVersion
    <3>6. m.ver \notin Versions(x) /\ Versions(x) = 1 .. MaxVersion(x)
      BY <3>1, VersionsAre
    <3>7. row \notin R
      BY <1>5, <3>2, <3>6 DEF Versions
    <3>8. Cardinality(R) = MaxVersion(x)
      BY <2>1, <3>2 DEF MaxVersion
    <3>9. Cardinality(R \cup {row}) = MaxVersion(x) + 1
      BY <3>5, <3>7, <3>8, FS_AddElement
    <3>10. Cardinality(Versions(x) \cup {m.ver}) = MaxVersion(x) + 1
      BY <3>5, <3>6, FS_AddElement DEF MaxVersion
    <3>11. Versions(x) \cup {m.ver} = 1 .. MaxVersion(x) + 1
      BY <3>1, <3>5, <3>6
    <3> QED
      BY <3>3, <3>4, <3>9, <3>10, <3>11
  <2> QED
    BY <2>2, <2>3
<1> QED
  BY <1>1, <1>7, <1>8 DEF VersionsAreGapless

\* The acknowledgment it stores and gives.
LEMMA CommitAck ==
  ASSUME IInv, NEW p \in Sessions, Commit(p), NEW m \in Session, m = ses[p]
  PROVE  \E ack \in Ack :
           /\ ack.version = m.ver
           /\ ack.entry # None => Exists(ack.entry)'
           /\ deposits' = [deposits EXCEPT ![m.dep] = ack]
           /\ acks' = acks \cup {[dep |-> m.dep, ack |-> ack]}
<1> DEFINE b == m.body
           entry == CASE b.kind = "create" -> m.dep
                      [] b.kind = "retire" -> b.refs[1]
                      [] OTHER -> None
           ack == [entry |-> entry, version |-> m.ver]
<1>1. /\ m.pc = "commit" /\ deposits' = [deposits EXCEPT ![m.dep] = ack]
      /\ acks' = acks \cup {[dep |-> m.dep, ack |-> ack]}
  BY DEF Commit
<1>2. /\ m.dep \in Entries /\ m.ver \in Nat /\ b.refs \in Seq(Entries) /\ Shaped(b)
      /\ m.dep \notin m.sets
  BY <1>1, AtCommit, InDeposit
<1>3. entry # None => entry \in Entries /\ Exists(entry)'
  <2>1. CASE b.kind = "create"
    <3>1. entries'[m.dep].status = "active" /\ entry = m.dep
      BY <2>1, CommitEntries
    <3> QED
      BY <1>2, <3>1 DEF Exists
  <2>2. CASE b.kind = "retire"
    <3>1. entry = b.refs[1] /\ Len(b.refs) = 1
      BY <1>2, <2>2 DEF Shaped
    <3>2. b.refs[1] \in Entries /\ b.refs[1] \in Elems(b.refs)
      BY <1>2, <3>1 DEF Elems
    <3>3. Exists(b.refs[1])
      BY <1>1, <3>2, AtCommit DEF Right
    <3>4. Exists(b.refs[1])'
      BY <3>2, <3>3, CommitGrows
    <3>5. b.refs[1]' = b.refs[1]
      OBVIOUS
    <3> QED
      BY <3>1, <3>2, <3>4
  <2>3. CASE b.kind \notin {"create", "retire"}
    BY <2>3
  <2> QED
    BY <2>1, <2>2, <2>3
<1> HIDE DEF entry
<1>4. ack \in Ack /\ ack.version = m.ver /\ ack.entry = entry
  BY <1>2, <1>3 DEF Ack
<1> QED
  BY <1>1, <1>3, <1>4

\* It leaves the tables as they should be.
LEMMA CommitTables ==
  ASSUME IInv, NEW p \in Sessions, Commit(p)
  PROVE  TableInv'
<1>1. PICK m \in Session : m = ses[p]
  BY DEF IInv, TypeOK
<1> DEFINE b == m.body
<1>2. m.pc = "commit" /\ flags' = flags \cup m.news /\ TableInv /\ TypeOK
  BY <1>1 DEF Commit, IInv
<1>3. /\ deposits[m.dep] = None /\ ~Exists(m.dep) /\ m.dep \in Entries
      /\ Right(m, m) /\ m.todo = <<>>
      /\ Elems(b.refs) \subseteq Entries /\ m.dep \notin Elems(b.refs)
      /\ m.sets \subseteq Elems(b.refs)
  BY <1>1, <1>2, AtCommit
<1>4. /\ m.dep \in DepositIds /\ b.kind \in {"create", "retire", "none"} /\ m.news \subseteq FlagRow
      /\ b.refs \in Seq(Entries) /\ Shaped(b)
  BY <1>1, <1>2, AtCommit, InDeposit
<1>5. PICK ack \in Ack :
        /\ ack.version = m.ver
        /\ ack.entry # None => Exists(ack.entry)'
        /\ deposits' = [deposits EXCEPT ![m.dep] = ack]
        /\ acks' = acks \cup {[dep |-> m.dep, ack |-> ack]}
  BY <1>1, CommitAck
<1>6. /\ b.kind = "create" =>
           /\ entries'[m.dep].status = "active" /\ entries'[m.dep].parents = Elems(b.refs)
           /\ entries'[m.dep].proposal = b.proposal
      /\ \A e \in m.sets :
           /\ entries'[e].status = IF b.kind = "retire" THEN "retired" ELSE "superseded"
           /\ entries'[e].parents = entries[e].parents
           /\ entries'[e].proposal = entries[e].proposal
      /\ \A e \in Entries :
           e \notin m.sets /\ (e = m.dep => b.kind # "create") => entries'[e] = entries[e]
  BY <1>1, CommitEntries
<1>7. /\ \A e \in Entries : Exists(e) => Exists(e)' /\ entries'[e].proposal = entries[e].proposal
      /\ \A e \in Entries : Gone(e) => Gone(e)'
      /\ IsFiniteSet(docs') /\ docs \subseteq docs'
  BY CommitGrows
<1>8. ack # None
  BY LibraryAssumption
<1>9. \A e \in Elems(b.refs) : Exists(e)
  BY <1>3 DEF Right
<1>10. DepositIds \subseteq Entries
  BY DEF Entries
<1>11. \A e \in Entries : e # m.dep => entries'[e].parents = entries[e].parents
  BY <1>6
<1>12. \A e \in Entries : (e = m.dep => b.kind # "create") /\ ~Exists(e) => entries'[e] = entries[e]
  BY <1>3, <1>6, <1>9
<1>13. Stored'
  <2> SUFFICES ASSUME NEW d \in DepositIds
               PROVE  /\ deposits'[d] = None => entries'[d].status = "none"
                      /\ deposits'[d] # None =>
                           /\ deposits'[d].version > 0 =>
                                \E x \in docs' : x.dep = d /\ x.version = deposits'[d].version
                           /\ deposits'[d].entry # None =>
                                entries'[deposits'[d].entry].status # "none"
    BY DEF Stored, Exists
  <2>1. CASE d = m.dep
    <3>1. deposits'[d] = ack
      BY <1>2, <1>5, <2>1 DEF TypeOK
    <3>2. ack.version > 0 => \E x \in docs' : x.dep = d /\ x.version = ack.version
      <4>1. IF b.path = None THEN m.ver = 0 ELSE docs' = docs \cup {[path |-> b.path, version |-> m.ver, dep |-> m.dep]}
        BY <1>1, <1>2, AtCommit DEF Commit
      <4>2. b.path # None => \E x \in docs' : x.dep = m.dep /\ x.version = m.ver
        <5> DEFINE row == [path |-> b.path, version |-> m.ver, dep |-> m.dep]
        <5>1. b.path # None => docs' = docs \cup {row}
          BY <4>1
        <5>2. row.dep = m.dep /\ row.version = m.ver
          OBVIOUS
        <5> HIDE DEF row
        <5> QED
          BY <5>1, <5>2
      <4>3. m.ver = 0 => ~(m.ver > 0)
        OBVIOUS
      <4> QED
        BY <1>5, <2>1, <4>1, <4>2, <4>3
    <3> QED
      BY <1>5, <1>8, <3>1, <3>2 DEF Exists
  <2>2. CASE d # m.dep
    <3>1. deposits'[d] = deposits[d]
      BY <1>2, <1>5, <2>2 DEF TypeOK
    <3>2. deposits[d] = None => entries[d].status = "none" /\ entries'[d] = entries[d]
      BY <1>2, <1>10, <1>12, <2>2 DEF TableInv, Stored, Exists
    <3>3. ASSUME deposits[d] # None
          PROVE  /\ deposits[d].version > 0 =>
                      \E x \in docs' : x.dep = d /\ x.version = deposits[d].version
                 /\ deposits[d].entry # None => entries'[deposits[d].entry].status # "none"
      <4>1. /\ deposits[d].version > 0 => \E x \in docs : x.dep = d /\ x.version = deposits[d].version
            /\ deposits[d].entry # None => Exists(deposits[d].entry)
        BY <1>2, <3>3 DEF TableInv, Stored
      <4>2. deposits[d] \in Ack
        BY <1>2, <3>3 DEF TypeOK
      <4>3. deposits[d].entry # None => deposits[d].entry \in Entries
        BY <4>2 DEF Ack
      <4>4. \A e \in Entries : Exists(e) => entries'[e].status # "none"
        BY <1>7 DEF Exists
      <4> QED
        BY <1>7, <4>1, <4>3, <4>4
    <3> QED
      BY <3>1, <3>2, <3>3 DEF Exists
  <2> QED
    BY <2>1, <2>2
<1>14. Acked'
  <2> SUFFICES ASSUME NEW a \in acks' PROVE deposits'[a.dep] = a.ack
    BY DEF Acked
  <2>1. CASE a \in acks
    <3>1. deposits[a.dep] = a.ack /\ a.ack \in Ack /\ a.dep \in DepositIds
      BY <1>2, <2>1 DEF TableInv, Acked, TypeOK
    <3>2. a.dep # m.dep
      BY <1>3, <3>1, LibraryAssumption
    <3> QED
      BY <1>2, <1>5, <3>1, <3>2 DEF TypeOK
  <2>2. CASE a = [dep |-> m.dep, ack |-> ack]
    BY <1>2, <1>4, <1>5, <2>2 DEF TypeOK
  <2> QED
    BY <1>5, <2>1, <2>2
<1>15. NothingFromNothing'
  <2> SUFFICES ASSUME NEW e \in Entries, ~Exists(e)' PROVE entries'[e].parents = {}
    BY DEF NothingFromNothing
  <2>1. ~Exists(e) /\ (e = m.dep => b.kind # "create")
    BY <1>6, <1>7 DEF Exists
  <2> QED
    BY <1>2, <1>12, <2>1 DEF TableInv, NothingFromNothing
<1>16. \A f \in m.news :
         /\ f.entry = m.dep /\ b.kind = "create"
         /\ f.type = "duplicate" =>
              ~b.proposal /\ f.related \in Entries /\ Exists(f.related) /\ ~entries[f.related].proposal
  BY <1>3, <1>4 DEF Right, FlagRow
<1>17. \A f \in flags : f.entry \in Entries /\ f.related \in Entries
  BY <1>2 DEF TypeOK, FlagRow
<1>18. FlagsStand'
  <2> SUFFICES ASSUME NEW f \in flags', f.type = "duplicate"
               PROVE  Exists(f.entry)' /\ Exists(f.related)'
    BY DEF FlagsStand, Exists
  <2>1. CASE f \in flags
    BY <1>2, <1>7, <1>17, <2>1 DEF TableInv, FlagsStand
  <2>2. CASE f \in m.news
    <3>1. Exists(f.related)' /\ f.entry = m.dep /\ entries'[m.dep].status = "active"
      BY <1>6, <1>7, <1>16, <2>2
    <3> QED
      BY <3>1 DEF Exists
  <2> QED
    BY <1>2, <2>1, <2>2
<1>19. LineageMatchesStatus'
  <2>1. ASSUME NEW c \in Entries, Exists(c)', NEW e \in entries'[c].parents, e \in Entries
        PROVE  Gone(e)'
    <3>1. CASE c = m.dep /\ b.kind = "create"
      <4>1. e \in Elems(b.refs)
        BY <1>6, <2>1, <3>1
      <4>2. e \in m.sets \/ Gone(e)
        BY <1>3, <3>1, <4>1, ElemsEmpty DEF Right
      <4>3. e \in m.sets => Gone(e)'
        BY <1>6 DEF Gone
      <4> QED
        BY <1>7, <2>1, <4>2, <4>3
    <3>2. CASE ~(c = m.dep /\ b.kind = "create")
      <4>1. Exists(c)
        BY <1>12, <2>1, <3>2 DEF Exists
      <4>2. e \in entries[c].parents
        BY <1>3, <1>11, <2>1, <4>1
      <4>3. Gone(e)
        BY <1>2, <4>1, <4>2 DEF TableInv, LineageMatchesStatus, Gone
      <4> QED
        BY <1>7, <2>1, <4>3
    <3> QED
      BY <3>1, <3>2
  <2>2. ASSUME NEW e \in Entries, entries'[e].status = "superseded"
        PROVE  \E c \in Entries : Exists(c)' /\ e \in entries'[c].parents
    <3>1. CASE e \in m.sets
      <4>1. b.kind # "retire"
        BY <1>6, <2>2, <3>1
      <4>2. b.kind # "none"
        BY <1>3, <1>4, <3>1, ElemsEmpty DEF Shaped
      <4>3. b.kind = "create"
        BY <1>4, <4>1, <4>2
      <4> QED
        BY <1>3, <1>6, <3>1, <4>3 DEF Exists
    <3>2. CASE e \notin m.sets
      <4>1. ~(e = m.dep /\ b.kind = "create")
        BY <1>6, <2>2
      <4>2. entries[e].status = "superseded"
        BY <1>6, <2>2, <3>2, <4>1
      <4>3. PICK c \in Entries : Exists(c) /\ e \in entries[c].parents
        BY <1>2, <4>2 DEF TableInv, LineageMatchesStatus
      <4>4. c # m.dep
        BY <1>3, <4>3
      <4> QED
        BY <1>7, <1>11, <4>3, <4>4
    <3> QED
      BY <3>1, <3>2
  <2>3. \A c \in Entries : entries'[c].parents \subseteq Entries
    BY <1>1, CommitEntries DEF EntryRow
  <2> QED
    BY <2>1, <2>2, <2>3 DEF LineageMatchesStatus, Gone, Exists
<1>20. ProposalsStayInert'
  <2>1. ASSUME NEW c \in Entries, Exists(c)', NEW e \in entries'[c].parents, e \in Entries
        PROVE  entries'[e].proposal = entries'[c].proposal
    <3>1. CASE c = m.dep /\ b.kind = "create"
      <4>1. e \in Elems(b.refs) /\ entries'[c].proposal = b.proposal
        BY <1>6, <2>1, <3>1
      <4>2. Exists(e) /\ entries[e].proposal = b.proposal
        BY <1>3, <3>1, <4>1 DEF Right
      <4>3. entries'[e].proposal = entries[e].proposal
        BY <1>7, <2>1, <4>2
      <4> QED
        BY <4>1, <4>2, <4>3
    <3>2. CASE ~(c = m.dep /\ b.kind = "create")
      <4>1. Exists(c)
        BY <1>12, <2>1, <3>2 DEF Exists
      <4>2. e \in entries[c].parents
        BY <1>3, <1>11, <2>1, <4>1
      <4>3. Exists(e)
        <5>1. entries[e].status \in {"superseded", "retired"}
          BY <1>2, <4>1, <4>2 DEF TableInv, LineageMatchesStatus
        <5> QED
          BY <5>1 DEF Exists
      <4>4. entries[e].proposal = entries[c].proposal
        BY <1>2, <4>1, <4>2 DEF TableInv, ProposalsStayInert
      <4>5. entries'[e].proposal = entries[e].proposal
        BY <1>7, <2>1, <4>3
      <4>6. entries'[c].proposal = entries[c].proposal
        BY <1>7, <4>1
      <4> QED
        BY <4>4, <4>5, <4>6
    <3> QED
      BY <3>1, <3>2
  <2>2. ASSUME NEW f \in flags', f.type = "duplicate"
        PROVE  ~entries'[f.entry].proposal /\ ~entries'[f.related].proposal
    <3>1. CASE f \in flags
      <4>1. /\ Exists(f.entry) /\ Exists(f.related)
            /\ ~entries[f.entry].proposal /\ ~entries[f.related].proposal
        BY <1>2, <2>2, <3>1 DEF TableInv, FlagsStand, ProposalsStayInert
      <4>2. /\ entries'[f.entry].proposal = entries[f.entry].proposal
            /\ entries'[f.related].proposal = entries[f.related].proposal
        BY <1>7, <1>17, <3>1, <4>1
      <4> QED
        BY <4>1, <4>2, Zenon
    <3>2. CASE f \in m.news
      <4>1. /\ f.entry = m.dep /\ b.kind = "create" /\ ~b.proposal /\ f.related \in Entries
            /\ Exists(f.related) /\ ~entries[f.related].proposal
        BY <1>16, <2>2, <3>2
      <4>2. entries'[m.dep].proposal = b.proposal
        BY <1>6, <4>1
      <4>3. entries'[f.related].proposal = entries[f.related].proposal
        BY <1>7, <4>1
      <4> QED
        BY <4>1, <4>2, <4>3, Zenon
    <3> QED
      BY <1>2, <3>1, <3>2
  <2>3. \A c \in Entries : entries'[c].parents \subseteq Entries
    BY <1>1, CommitEntries DEF EntryRow
  <2> QED
    BY <2>1, <2>2, <2>3 DEF ProposalsStayInert, Exists
<1> QED
  BY <1>7, <1>13, <1>14, <1>15, <1>18, <1>19, <1>20, CommitVersions DEF TableInv

\* A deposit becomes visible: the tables stay as they should be, and the keys
\* it held kept the others from counting on anything it changed.
LEMMA CommitStep ==
  ASSUME IInv, NEW p \in Sessions, Commit(p), Aside
  PROVE  IInv'
<1>1. PICK m \in Session : m = ses[p]
  BY DEF IInv, TypeOK
<1>2. m.pc = "commit" /\ flags' = flags \cup m.news /\ project' = TRUE /\ TypeOK /\ Finish(p, m.ok)
  BY <1>1 DEF Commit, IInv
<1>3. m.dep \in DepositIds /\ m.news \subseteq FlagRow /\ m.body.path \in Paths \cup {None} /\ m.ver \in Nat
  BY <1>1, <1>2, AtCommit, InDeposit
<1>4. PICK c \in {"idle", "resolve", "item"} : c = m.ok
  BY DEF Session
<1>5. /\ ses' \in [Sessions -> Session]
      /\ \A q \in Sessions \ {p} : ses'[q] = ses[q]
      /\ ses'[p].pc = c /\ ses'[p].dep = None
      /\ ses'[p].keys = {} /\ ses'[p].ok \in {"idle", "item"}
      /\ c = "resolve" => ses'[p].flag = m.flag
  <2>1. Finish(p, c)
    BY <1>2, <1>4
  <2> QED
    BY <1>1, <1>2, <2>1, FinishEffect
<1>6. /\ \A e \in Entries : Exists(e) => Exists(e)' /\ entries'[e].proposal = entries[e].proposal
      /\ \A e \in Entries : Gone(e) => Gone(e)'
      /\ \A x : Raised(x) => Raised(x)'
      /\ IsFiniteSet(docs') /\ docs \subseteq docs'
  BY CommitGrows
<1>7. PICK ack \in Ack :
        /\ deposits' = [deposits EXCEPT ![m.dep] = ack]
        /\ acks' = acks \cup {[dep |-> m.dep, ack |-> ack]}
  BY <1>1, CommitAck
<1>8. TypeOK'
  <2>1. entries' \in [Entries -> EntryRow]
    BY <1>1, CommitEntries
  <2>2. flags' \subseteq FlagRow /\ project' \in BOOLEAN
    BY <1>2, <1>3 DEF TypeOK
  <2>3. deposits' \in [DepositIds -> Ack \cup {None}] /\ acks' \subseteq [dep : DepositIds, ack : Ack]
    BY <1>2, <1>3, <1>7 DEF TypeOK
  <2>4. docs' \subseteq DocRow
    <3>1. m.body.path # None => [path |-> m.body.path, version |-> m.ver, dep |-> m.dep] \in DocRow
      BY <1>3 DEF DocRow
    <3>2. docs' = IF m.body.path = None THEN docs
                  ELSE docs \cup {[path |-> m.body.path, version |-> m.ver, dep |-> m.dep]}
      BY <1>1 DEF Commit
    <3> QED
      BY <1>2, <3>1, <3>2 DEF TypeOK
  <2> QED
    BY <1>2, <1>5, <2>1, <2>2, <2>3, <2>4, AsideTyped DEF TypeOK
<1>9. KeysApart'
  BY <1>5 DEF IInv, KeysApart
<1>10. Ok(p)'
  <2>1. PICK x : x = m.flag
    OBVIOUS
  <2>2. c = "resolve" => Raised(x)
    BY <1>1, <1>4, <2>1 DEF IInv, Ok, Flagged
  <2>3. ses'[p].pc = "resolve" => ses'[p].flag = x /\ Raised(x)'
    BY <1>5, <1>6, <2>1, <2>2
  <2>4. Budgeted(p)'
    BY <1>5, AsideTyped, BudgetKept
  <2> QED
    BY <1>5, <2>3, <2>4, FinishedOk
<1>11. ASSUME NEW q \in Sessions \ {p} PROVE Ok(q)'
  <2>1. PICK k \in Session : k = ses[q]
    BY DEF IInv, TypeOK
  <2>2. m.keys \cap k.keys = {}
    BY <1>1, <2>1 DEF IInv, KeysApart
  <2>3. k.pc \in Loop => deposits'[k.dep] = None
    <3> SUFFICES ASSUME k.pc \in Loop PROVE deposits'[k.dep] = None
      OBVIOUS
    <3>1. deposits[k.dep] = None /\ <<"deposit", k.dep>> \in k.keys
      BY <2>1 DEF IInv, Ok, Owns
    <3>2. <<"deposit", m.dep>> \in m.keys
      BY <1>1, <1>2, AtCommit
    <3>3. k.dep # m.dep
      BY <2>2, <3>1, <3>2
    <3>4. k.dep \in DepositIds
      BY <2>1, InDeposit DEF Depositing, Trying
    <3> QED
      BY <1>2, <1>7, <3>1, <3>3, <3>4 DEF TypeOK
  <2>4. ASSUME NEW x \in Paths, k.pc = "commit", x = k.body.path
        PROVE  MaxVersion(x)' = MaxVersion(x)
    <3>1. x # None
      BY LibraryAssumption
    <3>2. k.ver = MaxVersion(x) + 1 /\ <<"doc", x, k.ver>> \in k.keys
      BY <2>1, <2>4, <3>1, AtCommit
    <3>3. m.body.path = x => <<"doc", x, MaxVersion(x) + 1>> \in m.keys
      BY <1>1, <1>2, <3>1, AtCommit
    <3>4. m.body.path # x
      BY <2>2, <3>2, <3>3
    <3> QED
      BY <1>1, <3>4, CommitVersions
  <2>5. ses'[q] = ses[q] /\ (q \in Runners => run'[q] = run[q])
    BY <1>5, AsideTyped
  <2>6. ses[q].pc \in Loop => deposits'[ses[q].dep] = None
    BY <2>1, <2>3
  <2>7. \A x \in Paths : ses[q].pc = "commit" /\ x = ses[q].body.path => MaxVersion(x)' = MaxVersion(x)
    BY <2>1, <2>4
  <2> QED
    BY <1>6, <2>5, <2>6, <2>7, Frame
<1> QED
  BY <1>8, <1>9, <1>10, <1>11, CommitTables DEF IInv

----------------------------------------------------------------------------
(* Resolutions, decisions, failures and requests. *)

\* The end of a transaction that changes who resolved a flag, or a decision.
LEMMA DecisionStep ==
  ASSUME IInv, NEW p \in Sessions, Finish(p, ses[p].ok), Aside,
         UNCHANGED <<deposits, docs, project, acks>>,
         entries' \in [Entries -> EntryRow], flags' \subseteq FlagRow,
         \A e \in Entries : /\ entries'[e].status = entries[e].status
                            /\ entries'[e].parents = entries[e].parents
                            /\ entries'[e].proposal = entries[e].proposal,
         \A g \in flags' : \E f \in flags :
           g.type = f.type /\ g.entry = f.entry /\ g.related = f.related,
         \A x : Raised(x) => Raised(x)'
  PROVE  IInv'
<1>1. PICK m \in Session : m = ses[p]
  BY DEF IInv, TypeOK
<1>2. PICK c \in {"idle", "resolve", "item"} : c = m.ok
  BY DEF Session
<1>3. /\ ses' \in [Sessions -> Session]
      /\ \A q \in Sessions \ {p} : ses'[q] = ses[q]
      /\ ses'[p].pc = c /\ ses'[p].dep = None
      /\ ses'[p].keys = {} /\ ses'[p].ok \in {"idle", "item"}
      /\ c = "resolve" => ses'[p].flag = m.flag
  <2>1. Finish(p, c)
    BY <1>1, <1>2
  <2> QED
    BY <1>1, <2>1, FinishEffect DEF IInv
<1>4. TypeOK'
  BY <1>3, AsideTyped DEF IInv, TypeOK
<1>5. TableInv /\ TypeOK
  BY DEF IInv
<1>6. \A e \in Entries : Exists(e)' <=> Exists(e)
  BY DEF Exists
<1>7. \A f \in flags : f.entry \in Entries /\ f.related \in Entries
  BY <1>5 DEF TypeOK, FlagRow
<1>8. TableInv'
  <2>1. Stored'
    <3>1. DepositIds \subseteq Entries /\ \A d \in DepositIds : deposits[d] # None => deposits[d] \in Ack
      BY <1>5 DEF Entries, TypeOK
    <3>2. \A d \in DepositIds : deposits[d] # None /\ deposits[d].entry # None => deposits[d].entry \in Entries
      BY <3>1 DEF Ack
    <3> QED
      BY <1>5, <3>1, <3>2 DEF TableInv, Stored, Exists
  <2>2. Acked' /\ NothingFromNothing' /\ IsFiniteSet(docs')
    BY <1>5, <1>6 DEF TableInv, Acked, NothingFromNothing
  <2>3. FlagsStand'
    <3> SUFFICES ASSUME NEW g \in flags', g.type = "duplicate"
                 PROVE  entries'[g.entry].status # "none" /\ entries'[g.related].status # "none"
      BY DEF FlagsStand, Exists
    <3>1. PICK f \in flags : g.type = f.type /\ g.entry = f.entry /\ g.related = f.related
      OBVIOUS
    <3>2. Exists(f.entry) /\ Exists(f.related)
      BY <1>5, <3>1 DEF TableInv, FlagsStand
    <3> QED
      BY <1>7, <3>1, <3>2 DEF Exists
  <2>4. VersionsAreGapless'
    BY <1>5 DEF TableInv, VersionsAreGapless, Versions
  <2>5. \A e \in Entries : entries[e].parents \subseteq Entries
    BY <1>5 DEF TypeOK, EntryRow
  <2>6. LineageMatchesStatus'
    <3> SUFFICES /\ \A c_ \in Entries : Exists(c_) =>
                      \A e \in entries[c_].parents : entries'[e].status \in {"superseded", "retired"}
                 /\ \A e \in Entries : entries[e].status = "superseded" =>
                      \E c_ \in Entries : Exists(c_) /\ e \in entries[c_].parents
      BY <1>6 DEF LineageMatchesStatus
    <3> QED
      BY <1>5, <2>5 DEF TableInv, LineageMatchesStatus
  <2>7. ProposalsStayInert'
    <3>1. ASSUME NEW d \in Entries, Exists(d)', NEW e \in entries'[d].parents
          PROVE  entries'[e].proposal = entries'[d].proposal
      <4>1. e \in entries[d].parents /\ e \in Entries /\ Exists(d)
        BY <1>6, <2>5, <3>1
      <4>2. entries[e].proposal = entries[d].proposal
        BY <1>5, <4>1 DEF TableInv, ProposalsStayInert
      <4> QED
        BY <4>1, <4>2
    <3>2. ASSUME NEW g \in flags', g.type = "duplicate"
          PROVE  ~entries'[g.entry].proposal /\ ~entries'[g.related].proposal
      <4>1. PICK f \in flags : g.type = f.type /\ g.entry = f.entry /\ g.related = f.related
        OBVIOUS
      <4>2. ~entries[f.entry].proposal /\ ~entries[f.related].proposal
        BY <1>5, <3>2, <4>1 DEF TableInv, ProposalsStayInert
      <4>3. /\ entries'[g.entry].proposal = entries[f.entry].proposal
            /\ entries'[g.related].proposal = entries[f.related].proposal
        BY <1>7, <4>1
      <4> QED
        BY <4>2, <4>3, Zenon
    <3> QED
      BY <3>1, <3>2 DEF ProposalsStayInert
  <2> QED
    BY <2>1, <2>2, <2>3, <2>4, <2>6, <2>7 DEF TableInv
<1>9. KeysApart'
  BY <1>3 DEF IInv, KeysApart
<1>10. Ok(p)'
  <2>1. PICK x : x = m.flag
    OBVIOUS
  <2>2. c = "resolve" => Raised(x)
    BY <1>1, <1>2, <2>1 DEF IInv, Ok, Flagged
  <2>3. ses'[p].pc = "resolve" => ses'[p].flag = x /\ Raised(x)'
    BY <1>3, <2>1, <2>2
  <2>4. Budgeted(p)'
    BY <1>3, AsideTyped, BudgetKept
  <2> QED
    BY <1>3, <2>3, <2>4, FinishedOk
<1>11. ASSUME NEW q \in Sessions \ {p} PROVE Ok(q)'
  <2>1. ses[q].pc \in Loop => deposits'[ses[q].dep] = None
    BY DEF IInv, Ok, Owns
  <2>2. ses'[q] = ses[q] /\ (q \in Runners => run'[q] = run[q])
    BY <1>3, AsideTyped
  <2>3. \A x \in Paths : MaxVersion(x)' = MaxVersion(x)
    BY DEF MaxVersion, Versions
  <2>4. \A e \in Entries : Exists(e) => Exists(e)' /\ entries'[e].proposal = entries[e].proposal
    BY <1>6
  <2>5. \A e \in Entries : Gone(e) => Gone(e)'
    BY DEF Gone
  <2>6. IsFiniteSet(docs') /\ docs \subseteq docs'
    BY <1>5 DEF TableInv
  <2> QED
    BY <2>1, <2>2, <2>3, <2>4, <2>5, <2>6, Frame
<1> QED
  BY <1>4, <1>8, <1>9, <1>10, <1>11 DEF IInv

\* The flag a session resolves is there, whoever has resolved it meanwhile.
LEMMA ResolveStep ==
  ASSUME IInv, NEW p \in Sessions, Resolve(p), Aside
  PROVE  IInv'
<1>1. PICK x : x = ses[p].flag
  OBVIOUS
<1>2. Raised(x)
  BY <1>1 DEF IInv, Ok, Flagged, Resolve
<1>3. \E f \in flags : [f EXCEPT !.by = None] = x
  BY <1>2 DEF Raised
<1> DEFINE row == CHOOSE f \in flags : [f EXCEPT !.by = None] = x
           new == [row EXCEPT !.by = p]
<1>4. row \in flags /\ [row EXCEPT !.by = None] = x
  BY <1>3, Zenon
<1>5. flags' = (flags \ {row}) \cup {new}
  BY <1>1 DEF Resolve, SetBy
<1>6. flags \subseteq FlagRow
  BY DEF IInv, TypeOK
<1> HIDE DEF row
<1>7. /\ new \in FlagRow /\ new.type = row.type /\ new.entry = row.entry /\ new.related = row.related
      /\ [new EXCEPT !.by = None] = [row EXCEPT !.by = None]
  BY <1>4, <1>6 DEF FlagRow
<1> HIDE DEF new
<1>8. flags' \subseteq FlagRow
  BY <1>5, <1>6, <1>7
<1>9. \A g \in flags' : \E f \in flags : g.type = f.type /\ g.entry = f.entry /\ g.related = f.related
  BY <1>4, <1>5, <1>7
<1>10. ASSUME NEW y, Raised(y) PROVE Raised(y)'
  <2>1. PICK f \in flags : y = [f EXCEPT !.by = None]
    BY <1>10 DEF Raised
  <2>2. CASE f = row
    <3>1. y = [new EXCEPT !.by = None] /\ new \in flags'
      BY <1>5, <1>7, <2>1, <2>2
    <3> QED
      BY <3>1 DEF Raised
  <2>3. CASE f # row
    <3>1. f \in flags'
      BY <1>5, <2>3
    <3> QED
      BY <2>1, <3>1 DEF Raised
  <2> QED
    BY <2>2, <2>3
<1>11. /\ Finish(p, ses[p].ok) /\ UNCHANGED <<deposits, docs, project, acks>> /\ entries' = entries
  BY DEF Resolve
<1>12. entries' \in [Entries -> EntryRow]
  BY <1>11 DEF IInv, TypeOK
<1> QED
  BY <1>8, <1>9, <1>10, <1>11, <1>12, DecisionStep

\* A decision changes nothing of an entry but itself.
LEMMA DecideStep ==
  ASSUME IInv, NEW p \in Sessions, Decide(p), Aside
  PROVE  IInv'
<1>1. PICK m \in Session : m = ses[p]
  BY DEF IInv, TypeOK
<1>2. m.todo # <<>> /\ m.todo \in Seq(Entries) /\ m.choice \in {None, "approved", "rejected"}
  BY <1>1 DEF IInv, Ok, Placed, Decide, Session
<1>3. PICK e \in Entries : e = Head(m.todo)
  BY <1>2, ElemsSplit
<1>4. entries' = [entries EXCEPT ![e].decision = m.choice]
  BY <1>1, <1>3 DEF Decide
<1>5. \A x \in Entries : entries[x] \in EntryRow
  BY DEF IInv, TypeOK
<1>6. entries \in [Entries -> EntryRow]
  BY DEF IInv, TypeOK
<1>7. entries' = [entries EXCEPT ![e] = [entries[e] EXCEPT !.decision = m.choice]]
  BY <1>4, <1>6
<1> DEFINE new == [entries[e] EXCEPT !.decision = m.choice]
<1>8. /\ new \in EntryRow /\ new.status = entries[e].status /\ new.parents = entries[e].parents
      /\ new.proposal = entries[e].proposal
  BY <1>2, <1>5 DEF EntryRow
<1>9. entries' = [entries EXCEPT ![e] = new]
  BY <1>7
<1> HIDE DEF new
<1>10. entries' \in [Entries -> EntryRow]
  BY <1>6, <1>8, <1>9
<1>11. \A x \in Entries : /\ entries'[x].status = entries[x].status
                          /\ entries'[x].parents = entries[x].parents
                          /\ entries'[x].proposal = entries[x].proposal
  BY <1>6, <1>8, <1>9
<1>12. /\ Finish(p, ses[p].ok) /\ UNCHANGED <<deposits, docs, project, acks>> /\ flags' = flags
  BY DEF Decide
<1>13. flags' \subseteq FlagRow /\ \A y : Raised(y) => Raised(y)'
  BY <1>12 DEF IInv, TypeOK, Raised
<1>14. \A g \in flags' : \E f \in flags : g.type = f.type /\ g.entry = f.entry /\ g.related = f.related
  BY <1>12
<1> QED
  BY <1>10, <1>11, <1>12, <1>13, <1>14, DecisionStep

\* The deadlock's victim fails like any other.
LEMMA VictimStep ==
  ASSUME IInv, NEW p \in Sessions, Victim(p), UNCHANGED <<run, rows, started>>
  PROVE  IInv'
<1>1. Fail(p) /\ Aside
  BY DEF Victim, Aside
<1> QED
  BY <1>1, FailStep

\* A step of p outside a transaction, which touches no table.
LEMMA OutsideStep ==
  ASSUME IInv, NEW p \in Sessions, NEW n \in Session, ses' = [ses EXCEPT ![p] = n],
         UNCHANGED <<tables, acks>>,
         requests' \in Nat, run' \in [Runners -> Run], rows' \subseteq 0..MaxRuns,
         started' \in 0..MaxRuns,
         \A r \in Runners \ {p} : run'[r] = run[r],
         n.pc \notin Trying, n.keys \subseteq ses[p].keys,
         n.pc \in Depositing => n.dep \in DepositIds /\ Shaped(n.body),
         n.pc = "decide" => n.todo # <<>>,
         p \in Clients => n.dep \in Deposits \cup {None} /\ n.pc # "llm",
         p \in Runners => n.dep \in Fresh \cup {None},
         n.pc = "resolve" \/ n.ok = "resolve" \/ (n.pc = "llm" /\ run'[p].phase # "lessons")
           => Raised(n.flag),
         Budgeted(p)'
  PROVE  IInv'
<1>1. /\ ses'[p] = n /\ ses' \in [Sessions -> Session]
      /\ \A q \in Sessions \ {p} : ses'[q] = ses[q]
  BY DEF IInv, TypeOK
<1>2. flags' = flags /\ acks' = acks
  BY DEF tables
<1>3. n.pc \notin {"parent", "write", "hints", "doc", "docins", "commit"}
  BY DEF Trying, Loop
<1>4. Placed(p)'
  BY <1>1, <1>3 DEF Placed
<1>5. Validated(p)' /\ Handled(p)' /\ Noted(p)'
  BY <1>1 DEF Validated, Handled, Noted
<1>6. Owns(p)' /\ Numbered(p)'
  BY <1>1, <1>3 DEF Owns, Numbered, Loop
<1>7. Flagged(p)'
  <2>1. \A x : Raised(x) => Raised(x)'
    BY <1>2 DEF Raised
  <2>2. n.pc = "resolve" \/ n.ok = "resolve" \/ (n.pc = "llm" /\ run'[p].phase # "lessons")
          => Raised(n.flag)'
    BY <2>1
  <2> QED
    BY <1>1, <2>2 DEF Flagged
<1>8. Ok(p)'
  BY <1>4, <1>5, <1>6, <1>7 DEF Ok
<1>9. \A q \in Sessions \ {p} : ses'[p].keys \cap ses[q].keys = {}
  BY <1>1 DEF IInv, KeysApart
<1>10. acks' \subseteq [dep : DepositIds, ack : Ack] /\ \A a \in acks' : deposits[a.dep] = a.ack
  BY <1>2 DEF IInv, TypeOK, TableInv, Acked
<1> QED
  BY <1>1, <1>8, <1>9, <1>10, QuietStep

\* A request starts from what is committed now.
LEMMA RequestStep ==
  ASSUME IInv, NEW p \in Clients, Request(p), UNCHANGED <<run, rows, started>>
  PROVE  IInv'
<1>1. p \in Sessions /\ p \notin Runners
  BY LibraryAssumption DEF Sessions
<1>2. TypeOK /\ requests' \in Nat /\ UNCHANGED <<tables, acks>>
  BY DEF IInv, TypeOK, Request
<1>3. /\ run' \in [Runners -> Run] /\ rows' \subseteq 0..MaxRuns
      /\ started' \in 0..MaxRuns /\ run' = run
  BY <1>2 DEF TypeOK
<1>4. Budgeted(p)'
  BY <1>1 DEF Budgeted
<1>5. ASSUME NEW n \in Session, ses' = [ses EXCEPT ![p] = n], n.keys = {}, n.ok = "idle",
             \/ n.pc = "check" /\ n.dep \in Deposits /\ Shaped(n.body)
             \/ n.pc = "resolve" /\ n.dep = None /\ Raised(n.flag)
             \/ n.pc = "decide" /\ n.dep = None /\ n.todo # <<>>
      PROVE  IInv'
  <2>1. /\ n.pc \notin Trying /\ n.pc # "llm" /\ n.keys \subseteq ses[p].keys
        /\ n.pc = "decide" => n.todo # <<>>
        /\ n.dep \in Deposits \cup {None}
        /\ n.pc = "resolve" \/ n.ok = "resolve" => Raised(n.flag)
    BY <1>5 DEF Trying, Loop
  <2>2. n.pc \in Depositing => n.dep \in DepositIds /\ Shaped(n.body)
    BY <1>5 DEF Depositing, Trying, Loop, DepositIds
  <2> QED
    BY <1>1, <1>2, <1>3, <1>4, <1>5, <2>1, <2>2, OutsideStep
<1>6. ASSUME NEW d \in Deposits, NEW b \in Bodies, DepositRequest(p, d, b) PROVE IInv'
  <2> DEFINE n == [Idle EXCEPT !.pc = "check", !.dep = d, !.body = b]
  <2>1. ses' = [ses EXCEPT ![p] = n] /\ n = [Idle EXCEPT !.pc = "check", !.dep = d, !.body = b]
    BY <1>6 DEF DepositRequest
  <2>2. b \in Body /\ Shaped(b) /\ d \in DepositIds
    BY LibraryAssumption DEF DepositIds
  <2> HIDE DEF n
  <2>3. n \in Session /\ n.keys = Idle.keys /\ n.ok = Idle.ok /\ n.pc = "check" /\ n.dep = d /\ n.body = b
    BY <2>1, <2>2, IdleTyped DEF Session
  <2> QED
    BY <1>5, <2>1, <2>2, <2>3, IdleTyped
<1>7. ASSUME NEW f \in flags, ResolveRequest(p, f) PROVE IInv'
  <2> DEFINE n == [Idle EXCEPT !.pc = "resolve", !.flag = f]
  <2>1. /\ ses' = [ses EXCEPT ![p] = n] /\ n = [Idle EXCEPT !.pc = "resolve", !.flag = f]
        /\ f.by = None /\ f \in FlagRow
    BY <1>2, <1>7 DEF ResolveRequest, Unresolved, TypeOK
  <2> HIDE DEF n
  <2>2. n \in Session /\ n.keys = Idle.keys /\ n.ok = Idle.ok /\ n.pc = "resolve" /\ n.flag = f /\ n.dep = Idle.dep
    BY <2>1, IdleTyped DEF Session
  <2>3. f = [f EXCEPT !.by = None]
    BY <2>1 DEF FlagRow
  <2>4. Raised(f)
    BY <2>3 DEF Raised
  <2> QED
    BY <1>5, <2>1, <2>2, <2>4, IdleTyped
<1>8. ASSUME NEW e \in Entries, NEW c \in {"approved", "rejected"}, DecideRequest(p, e, c) PROVE IInv'
  <2> DEFINE t == <<e>>
             n == [Idle EXCEPT !.pc = "decide", !.todo = t, !.choice = c]
  <2>1. ses' = [ses EXCEPT ![p] = n] /\ n = [Idle EXCEPT !.pc = "decide", !.todo = t, !.choice = c]
    BY <1>8 DEF DecideRequest
  <2>2. t \in Seq(Entries) /\ t # <<>>
    OBVIOUS
  <2> HIDE DEF n, t
  <2>3. n \in Session /\ n.keys = Idle.keys /\ n.ok = Idle.ok /\ n.pc = "decide" /\ n.todo = t /\ n.dep = Idle.dep
    BY <2>1, <2>2, IdleTyped DEF Session
  <2> QED
    BY <1>5, <2>1, <2>2, <2>3, IdleTyped
<1> QED
  BY <1>6, <1>7, <1>8 DEF Request

----------------------------------------------------------------------------
(* The librarian. *)

\* A run b, its runner at c, is within its budget.
InBudget(b, c) ==
  /\ Told(b)
  /\ b.calls <= MaxCalls /\ b.fails <= MaxFailures
  /\ ~b.aborted => b.fails < MaxFailures
  /\ c = "llm" => ~b.aborted /\ b.calls < MaxCalls
  /\ b.phase # "lessons" => \A f \in b.queue : f \in FlagRow /\ f.by = None

LEMMA RunnerIs ==
  ASSUME IInv, NEW r \in Runners
  PROVE  /\ r \in Sessions /\ r \notin Clients /\ run[r] \in Run /\ InBudget(run[r], ses[r].pc)
         /\ ses[r] \in Session /\ ses[r].dep \in Fresh \cup {None}
<1>1. r \in Sessions /\ r \notin Clients
  BY LibraryAssumption DEF Sessions
<1>2. run[r] \in Run /\ ses[r] \in Session
  BY <1>1 DEF IInv, TypeOK
<1>3. Budgeted(r) /\ Placed(r)
  BY <1>1 DEF IInv, Ok
<1> QED
  BY <1>1, <1>2, <1>3 DEF Budgeted, Placed, InBudget

\* A runner moves on outside a transaction, its run becoming b.
LEMMA RunnerStep ==
  ASSUME IInv, NEW r \in Runners, NEW b \in Run, run' = [run EXCEPT ![r] = b],
         NEW n \in Session, ses' = [ses EXCEPT ![r] = n],
         UNCHANGED <<tables, acks, requests>>,
         rows' \subseteq 0..MaxRuns, started' \in 0..MaxRuns,
         n.pc \notin Trying \cup {"validate", "decide"}, n.keys \subseteq ses[r].keys,
         n.dep \in Fresh \cup {None},
         n.pc = "check" => n.dep # None /\ Shaped(n.body),
         n.pc = "resolve" \/ n.ok = "resolve" \/ (n.pc = "llm" /\ b.phase # "lessons")
           => Raised(n.flag),
         InBudget(b, n.pc)
  PROVE  IInv'
<1>1. r \in Sessions /\ r \notin Clients
  BY RunnerIs
<1>2. /\ requests' \in Nat /\ run' \in [Runners -> Run] /\ run'[r] = b
      /\ \A k \in Runners \ {r} : run'[k] = run[k]
      /\ ses'[r] = n
  BY <1>1 DEF IInv, TypeOK
<1>3. Budgeted(r)'
  BY <1>2 DEF Budgeted, InBudget
<1>4. n.pc \in Depositing => n.dep \in DepositIds /\ Shaped(n.body)
  BY DEF Depositing, DepositIds
<1>5. n.pc \notin Trying /\ n.pc # "decide" /\ UNCHANGED <<tables, acks>>
  OBVIOUS
<1> QED
  BY <1>1, <1>2, <1>3, <1>4, <1>5, OutsideStep

\* ... or is done with an item or with the run.
LEMMA RunnerFinish ==
  ASSUME IInv, NEW r \in Runners, NEW b \in Run, run' = [run EXCEPT ![r] = b],
         NEW c \in {"idle", "item"}, Finish(r, c),
         UNCHANGED <<tables, acks, requests>>,
         rows' \subseteq 0..MaxRuns, started' \in 0..MaxRuns,
         InBudget(b, c)
  PROVE  IInv'
<1>1. r \in Sessions
  BY RunnerIs
<1>2. /\ requests' \in Nat /\ run' \in [Runners -> Run] /\ run'[r] = b
      /\ \A k \in Runners \ {r} : run'[k] = run[k]
  BY <1>1 DEF IInv, TypeOK
<1>3. ses'[r].pc = c
  BY <1>1, FinishEffect DEF IInv
<1>4. Budgeted(r)'
  BY <1>2, <1>3 DEF Budgeted, InBudget
<1>5. acks' \subseteq [dep : DepositIds, ack : Ack] /\ \A a \in acks' : deposits[a.dep] = a.ack
  BY DEF IInv, TypeOK, TableInv, Acked
<1>6. UNCHANGED tables /\ c # "resolve"
  OBVIOUS
<1> QED
  BY <1>1, <1>2, <1>4, <1>5, <1>6, FinishStep

\* The runs a run can become keep to the budget it kept to.
LEMMA WorkedOff ==
  ASSUME NEW b \in Run, NEW c, InBudget(b, c), NEW x, NEW k, k = "llm" => CanCall(b)
  PROVE  /\ [b EXCEPT !.queue = @ \ {x}] \in Run
         /\ [b EXCEPT !.queue = @ \ {x}].phase = b.phase
         /\ InBudget([b EXCEPT !.queue = @ \ {x}], k)
<1> DEFINE n == [b EXCEPT !.queue = @ \ {x}]
<1>1. /\ n \in Run /\ n.phase = b.phase /\ n.calls = b.calls /\ n.fails = b.fails
      /\ n.aborted = b.aborted /\ n.queue = b.queue \ {x} /\ n.log = b.log
  BY DEF Run
<1> HIDE DEF n
<1>2. Told(n)
  BY <1>1 DEF InBudget, Told
<1>3. InBudget(n, k)
  BY <1>1, <1>2 DEF InBudget, CanCall
<1> QED
  BY <1>1, <1>3 DEF n

LEMMA Stopped ==
  ASSUME NEW b \in Run, NEW c, InBudget(b, c), OutOfCalls(b)
  PROVE  /\ [b EXCEPT !.aborted = TRUE, !.queue = {}] \in Run
         /\ InBudget([b EXCEPT !.aborted = TRUE, !.queue = {}], "item")
<1> DEFINE n == [b EXCEPT !.aborted = TRUE, !.queue = {}]
<1>1. /\ n \in Run /\ n.calls = b.calls /\ n.fails = b.fails
      /\ n.aborted = TRUE /\ n.queue = {} /\ n.log = b.log
  BY DEF Run
<1> HIDE DEF n
<1>2. b.aborted \/ b.calls = MaxCalls
  BY LibrarianAssumption DEF OutOfCalls, InBudget, Run
<1>3. Told(n)
  BY <1>1, <1>2 DEF InBudget, Told
<1>4. InBudget(n, "item")
  BY <1>1, <1>3 DEF InBudget
<1> QED
  BY <1>1, <1>4 DEF n

\* One call more: what the log said of the calls before, it says still.
LEMMA Logged ==
  ASSUME NEW log \in Seq(BOOLEAN), NEW e \in BOOLEAN
  PROVE  /\ Append(log, e) \in Seq(BOOLEAN) /\ Len(Append(log, e)) = Len(log) + 1
         /\ Append(log, e)[Len(log) + 1] = e
         /\ \A i \in 1..Len(log) : Append(log, e)[i] = log[i]
         /\ \A i \in 1..Len(log) : Tripped(Append(log, e), i) <=> Tripped(log, i)
<1> DEFINE l == Append(log, e)
<1>1. /\ l \in Seq(BOOLEAN) /\ Len(l) = Len(log) + 1 /\ l[Len(log) + 1] = e
      /\ \A i \in 1..Len(log) : l[i] = log[i]
  OBVIOUS
<1> HIDE DEF l
<1>2. ASSUME NEW i \in 1..Len(log) PROVE Tripped(l, i) <=> Tripped(log, i)
  <2>1. /\ i \in Nat /\ i <= Len(log) /\ MaxFailures \in Nat /\ MaxFailures >= 1 /\ Len(log) \in Nat
    BY LibrarianAssumption
  <2>2. i >= MaxFailures => \A j \in i - MaxFailures + 1 .. i : j \in 1..Len(log)
    BY <2>1
  <2>3. i >= MaxFailures => \A j \in i - MaxFailures + 1 .. i : l[j] = log[j]
    BY <1>1, <2>2
  <2> QED
    BY <2>3 DEF Tripped
<1> QED
  BY <1>1, <1>2 DEF l

LEMMA Answered ==
  ASSUME NEW b \in Run, InBudget(b, "llm"), NEW k, k # "llm"
  PROVE  Succeeded(b) \in Run /\ Succeeded(b).phase = b.phase /\ InBudget(Succeeded(b), k)
<1> DEFINE calls == b.calls + 1
           log == Append(b.log, TRUE)
           n == [b EXCEPT !.calls = calls, !.fails = 0, !.log = log]
<1>1. /\ b.calls \in Nat /\ MaxCalls \in Nat /\ MaxFailures \in Nat \ {0}
      /\ b.log \in Seq(BOOLEAN) /\ Told(b) /\ ~b.aborted
  BY LibrarianAssumption DEF Run, InBudget
<1>2. calls \in Nat /\ calls <= MaxCalls /\ calls = Len(b.log) + 1
  BY <1>1 DEF InBudget, Told
<1>3. n = Succeeded(b)
  BY DEF Succeeded
<1>4. /\ log \in Seq(BOOLEAN) /\ Len(log) = calls /\ log[calls]
      /\ \A i \in 1..b.calls : Tripped(log, i) <=> Tripped(b.log, i)
  BY <1>1, <1>2, Logged DEF Told
<1> HIDE DEF log
<1>5. ASSUME NEW i \in 1..calls PROVE ~Tripped(log, i)
  <2>1. CASE i = calls
    <3>1. calls \in i - MaxFailures + 1 .. i
      BY <1>1, <1>2, <2>1
    <3> QED
      BY <1>4, <3>1 DEF Tripped
  <2>2. CASE i # calls
    <3>1. i \in 1..b.calls
      BY <1>1, <2>2
    <3> QED
      BY <1>1, <1>4, <3>1 DEF Told
  <2> QED
    BY <2>1, <2>2
<1> HIDE DEF calls
<1>6. /\ n \in Run /\ n.phase = b.phase /\ n.calls = calls /\ n.fails = 0
      /\ n.aborted = b.aborted /\ n.queue = b.queue /\ n.log = log
  BY <1>2, <1>4 DEF Run
<1> HIDE DEF n
<1>7. Told(n)
  <2>1. /\ n.fails <= n.calls /\ n.calls - n.fails = calls /\ ~n.aborted
        /\ n.calls - n.fails + 1 .. n.calls = {}
    BY <1>1, <1>2, <1>6
  <2> QED
    BY <1>4, <1>5, <1>6, <2>1 DEF Told
<1>8. 0 <= MaxFailures /\ 0 < MaxFailures
  BY <1>1
<1>9. InBudget(n, k)
  BY <1>2, <1>6, <1>7, <1>8 DEF InBudget
<1> QED
  BY <1>3, <1>6, <1>9

LEMMA Unanswered ==
  ASSUME NEW b \in Run, InBudget(b, "llm")
  PROVE  Failed(b) \in Run /\ InBudget(Failed(b), "item")
<1> DEFINE calls == b.calls + 1
           fails == b.fails + 1
           over == (b.fails + 1 >= MaxFailures)
           log == Append(b.log, FALSE)
           n == [b EXCEPT !.calls = calls, !.fails = fails, !.log = log, !.aborted = over]
<1>1. /\ b.calls \in Nat /\ b.fails \in Nat /\ MaxCalls \in Nat /\ MaxFailures \in Nat \ {0}
      /\ b.calls < MaxCalls /\ b.fails < MaxFailures /\ b.fails <= b.calls
      /\ b.log \in Seq(BOOLEAN) /\ Told(b) /\ ~b.aborted
  BY LibrarianAssumption DEF Run, InBudget, Told
<1>2. /\ calls \in Nat /\ calls <= MaxCalls /\ fails \in Nat /\ fails <= MaxFailures
      /\ calls = Len(b.log) + 1 /\ fails <= calls /\ over \in BOOLEAN
      /\ calls - fails = b.calls - b.fails
  BY <1>1 DEF Told
<1>3. n = Failed(b)
  BY DEF Failed
<1>4. /\ log \in Seq(BOOLEAN) /\ Len(log) = calls /\ ~log[calls]
      /\ \A i \in 1..b.calls : log[i] = b.log[i]
      /\ \A i \in 1..b.calls : Tripped(log, i) <=> Tripped(b.log, i)
  BY <1>1, <1>2, Logged DEF Told
<1> HIDE DEF log
<1>5. ASSUME NEW i \in calls - fails + 1 .. calls PROVE ~log[i]
  <2>1. CASE i = calls
    BY <1>4, <2>1
  <2>2. CASE i # calls
    <3>1. i \in b.calls - b.fails + 1 .. b.calls /\ i \in 1..b.calls
      BY <1>1, <2>2
    <3> QED
      BY <1>1, <1>4, <3>1 DEF Told
  <2> QED
    BY <2>1, <2>2
<1>6. fails < calls => log[calls - fails]
  <2> SUFFICES ASSUME fails < calls PROVE log[calls - fails]
    OBVIOUS
  <2>1. b.fails < b.calls /\ b.calls - b.fails \in 1..b.calls /\ calls - fails = b.calls - b.fails
    BY <1>1
  <2> QED
    BY <1>1, <1>4, <2>1 DEF Told
<1>7. ASSUME NEW i \in 1..calls, Tripped(log, i) PROVE i = calls /\ over
  <2>1. i = calls
    <3> SUFFICES ASSUME i # calls PROVE FALSE
      OBVIOUS
    <3>1. i \in 1..b.calls
      BY <1>1
    <3> QED
      BY <1>1, <1>4, <1>7, <3>1 DEF Told
  <2>2. over
    <3> SUFFICES ASSUME ~over PROVE FALSE
      OBVIOUS
    <3>1. calls >= MaxFailures /\ \A j \in calls - MaxFailures + 1 .. calls : ~log[j]
      BY <1>7, <2>1 DEF Tripped
    <3>2. fails < calls /\ calls - fails \in calls - MaxFailures + 1 .. calls
      BY <1>1, <3>1
    <3> QED
      BY <1>6, <3>1, <3>2
  <2> QED
    BY <2>1, <2>2
<1>8. over => Tripped(log, calls)
  <2> SUFFICES ASSUME over PROVE Tripped(log, calls)
    OBVIOUS
  <2>1. fails = MaxFailures
    BY <1>1
  <2>2. calls >= MaxFailures
    BY <1>2, <2>1
  <2> QED
    BY <1>5, <2>1, <2>2 DEF Tripped
<1>9. ~over => fails < MaxFailures
  BY <1>1
<1> HIDE DEF calls, fails, over
<1>10. /\ n \in Run /\ n.calls = calls /\ n.fails = fails /\ n.phase = b.phase
       /\ n.queue = b.queue /\ n.log = log
  BY <1>2, <1>4 DEF Run
<1>11. n.aborted = over
  <2>1. b = [id |-> b.id, phase |-> b.phase, queue |-> b.queue, calls |-> b.calls,
             fails |-> b.fails, aborted |-> b.aborted, log |-> b.log]
    BY DEF Run
  <2> QED
    BY <2>1, Zenon
<1> HIDE DEF n
<1>12. Told(n)
  <2>1. \A i \in n.calls - n.fails + 1 .. n.calls : ~n.log[i]
    BY <1>5, <1>10
  <2>2. n.fails < n.calls => n.log[n.calls - n.fails]
    BY <1>6, <1>10
  <2>3. \A i \in 1..n.calls : Tripped(n.log, i) => i = n.calls /\ n.aborted
    BY <1>7, <1>10, <1>11, Zenon
  <2>4. n.aborted => Tripped(n.log, n.calls)
    BY <1>8, <1>10, <1>11, Zenon
  <2> QED
    BY <1>2, <1>4, <1>10, <2>1, <2>2, <2>3, <2>4 DEF Told
<1>13. ~n.aborted => n.fails < MaxFailures
  BY <1>9, <1>10, <1>11, Zenon
<1>14. InBudget(n, "item")
  BY <1>2, <1>10, <1>12, <1>13 DEF InBudget
<1> QED
  BY <1>3, <1>10, <1>14

\* A flag that is stored is one, by nobody.
LEMMA RaisedTyped ==
  ASSUME TypeOK, NEW x, Raised(x)
  PROVE  x \in FlagRow /\ x.entry \in Entries /\ x.related \in Entries
<1>1. PICK f \in flags : x = [f EXCEPT !.by = None]
  BY DEF Raised
<1>2. f \in FlagRow
  BY DEF TypeOK
<1>3. x \in FlagRow
  BY <1>1, <1>2 DEF FlagRow
<1> QED
  BY <1>3 DEF FlagRow

LEMMA NextPhaseStep ==
  ASSUME IInv, NEW r \in Runners, NextPhase(r)
  PROVE  IInv'
<1>1. PICK b \in Run : b = run[r] /\ InBudget(b, "item")
  BY RunnerIs DEF NextPhase
<1>2. PICK m \in Session : m = ses[r] /\ m.pc = "item" /\ m.dep \in Fresh \cup {None}
  BY RunnerIs DEF NextPhase
<1>3. /\ UNCHANGED <<tables, acks, requests>> /\ r \in Sessions
      /\ rows' \subseteq 0..MaxRuns /\ started' \in 0..MaxRuns
  BY RunnerIs DEF NextPhase, IInv, TypeOK
<1>4. m.ok = "resolve" => Raised(m.flag)
  BY <1>2, <1>3 DEF IInv, Ok, Flagged
<1>5. ses \in [Sessions -> Session] /\ run \in [Runners -> Run] /\ flags \subseteq FlagRow
  BY DEF IInv, TypeOK
<1>6. CASE Goto(r, "summary") /\ UNCHANGED run
  <2> DEFINE n == [m EXCEPT !.pc = "summary"]
  <2>1. ses' = [ses EXCEPT ![r] = n] /\ run' = [run EXCEPT ![r] = b]
    BY <1>1, <1>2, <1>5, <1>6 DEF Goto
  <2>2. /\ n \in Session /\ n.pc = "summary" /\ n.keys = m.keys /\ n.dep = m.dep
        /\ n.ok = m.ok /\ n.flag = m.flag
    BY DEF Session
  <2> HIDE DEF n
  <2>3. n.pc \notin Trying \cup {"validate", "decide"}
    BY <2>2 DEF Trying, Loop
  <2>4. InBudget(b, n.pc)
    BY <1>1, <2>2 DEF InBudget
  <2>5. /\ n.keys \subseteq ses[r].keys /\ n.dep \in Fresh \cup {None} /\ n.pc # "check"
        /\ n.pc = "resolve" \/ n.ok = "resolve" \/ (n.pc = "llm" /\ b.phase # "lessons") => Raised(n.flag)
    BY <1>2, <1>4, <2>2
  <2> QED
    BY <1>3, <2>1, <2>2, <2>3, <2>4, <2>5, RunnerStep
<1>7. ASSUME NEW next \in {"fork", "lessons"},
             run' = [run EXCEPT ![r].phase = next, ![r].queue = ItemsOf(next)], UNCHANGED ses
      PROVE  IInv'
  <2>1. PICK Q : Q = ItemsOf(next)
    OBVIOUS
  <2>2. Q \subseteq FlagRow \cup Lessons /\ (next # "lessons" => \A f \in Q : f \in FlagRow /\ f.by = None)
    BY <1>5, <2>1 DEF ItemsOf, Unresolved
  <2> DEFINE k == [b EXCEPT !.phase = next, !.queue = Q]
  <2>3. run' = [run EXCEPT ![r] = k] /\ ses' = [ses EXCEPT ![r] = m]
    BY <1>1, <1>2, <1>3, <1>5, <1>7, <2>1
  <2>4. /\ k \in Run /\ k.phase = next /\ k.queue = Q /\ k.calls = b.calls /\ k.fails = b.fails
        /\ k.aborted = b.aborted /\ k.log = b.log
    BY <2>2 DEF Run
  <2> HIDE DEF k
  <2>5. InBudget(k, "item")
    <3>1. Told(k)
      BY <1>1, <2>4 DEF InBudget, Told
    <3> QED
      BY <1>1, <2>2, <2>4, <3>1 DEF InBudget
  <2>6. m.pc \notin Trying \cup {"validate", "decide"}
    BY <1>2 DEF Trying, Loop
  <2>7. /\ m.keys \subseteq ses[r].keys /\ m.pc # "check"
        /\ m.pc = "resolve" \/ m.ok = "resolve" \/ (m.pc = "llm" /\ k.phase # "lessons") => Raised(m.flag)
    BY <1>2, <1>4
  <2>8. InBudget(k, m.pc)
    BY <1>2, <2>5
  <2> QED
    BY <1>2, <1>3, <2>3, <2>4, <2>6, <2>7, <2>8, RunnerStep
<1> QED
  BY <1>6, <1>7 DEF NextPhase

\* One item of a phase: skipped, resolved without a call, or put to the LLM.
LEMMA ItemStep ==
  ASSUME IInv, NEW r \in Runners, NEW x \in run[r].queue, FlagItem(r, x) \/ LessonItem(r, x)
  PROVE  IInv'
<1>1. PICK b \in Run : b = run[r] /\ InBudget(b, "item")
  BY RunnerIs DEF FlagItem, LessonItem
<1>2. PICK m \in Session : m = ses[r] /\ m.pc = "item" /\ m.dep \in Fresh \cup {None}
  BY RunnerIs DEF FlagItem, LessonItem
<1>3. /\ UNCHANGED <<tables, acks, requests>> /\ r \in Sessions
      /\ rows' \subseteq 0..MaxRuns /\ started' \in 0..MaxRuns
  BY RunnerIs DEF FlagItem, LessonItem, IInv, TypeOK
<1>4. m.ok = "resolve" => Raised(m.flag)
  BY <1>2, <1>3 DEF IInv, Ok, Flagged
<1>5. ses \in [Sessions -> Session] /\ run \in [Runners -> Run] /\ flags \subseteq FlagRow
  BY DEF IInv, TypeOK
<1> DEFINE k == [b EXCEPT !.queue = @ \ {x}]
           a == [b EXCEPT !.aborted = TRUE, !.queue = {}]
<1>6. /\ k \in Run /\ k.phase = b.phase
      /\ \A c : (c = "llm" => CanCall(b)) => InBudget(k, c)
      /\ InBudget(k, "item")
  BY <1>1, WorkedOff
<1>7. OutOfCalls(b) => a \in Run /\ InBudget(a, "item")
  BY <1>1, Stopped
<1>8. run' = [run EXCEPT ![r].queue = @ \ {x}] => run' = [run EXCEPT ![r] = k]
  BY <1>1, <1>5
<1>9. run' = [run EXCEPT ![r].aborted = TRUE, ![r].queue = {}] => run' = [run EXCEPT ![r] = a]
  BY <1>1, <1>5
<1> HIDE DEF k, a
<1>10. ASSUME UNCHANGED ses, NEW j \in Run, run' = [run EXCEPT ![r] = j], InBudget(j, "item")
       PROVE  IInv'
  <2>1. ses' = [ses EXCEPT ![r] = m]
    BY <1>2, <1>3, <1>5, <1>10
  <2>2. m.pc \notin Trying \cup {"validate", "decide"}
    BY <1>2 DEF Trying, Loop
  <2>3. /\ m.keys \subseteq ses[r].keys /\ m.pc # "check" /\ InBudget(j, m.pc)
        /\ m.pc = "resolve" \/ m.ok = "resolve" \/ (m.pc = "llm" /\ j.phase # "lessons") => Raised(m.flag)
    BY <1>2, <1>4, <1>10
  <2> QED
    BY <1>2, <1>3, <1>10, <2>1, <2>2, <2>3, RunnerStep
<1>11. ASSUME NEW n \in Session, ses' = [ses EXCEPT ![r] = n], run' = [run EXCEPT ![r] = k],
              n.keys = {}, n.dep = None, n.ok # "resolve",
              \/ n.pc = "resolve" /\ Raised(n.flag)
              \/ n.pc = "llm" /\ CanCall(b) /\ (b.phase # "lessons" => Raised(n.flag))
       PROVE  IInv'
  <2>1. n.pc \notin Trying \cup {"validate", "decide"} /\ n.pc # "check" /\ n.keys \subseteq ses[r].keys
    BY <1>11 DEF Trying, Loop
  <2>2. InBudget(k, n.pc)
    BY <1>6, <1>11
  <2>3. n.pc = "resolve" \/ n.ok = "resolve" \/ (n.pc = "llm" /\ k.phase # "lessons") => Raised(n.flag)
    BY <1>6, <1>11
  <2> QED
    BY <1>3, <1>6, <1>11, <2>1, <2>2, <2>3, RunnerStep
<1>12. ASSUME FlagItem(r, x) PROVE IInv'
  <2>1. b.phase # "lessons" /\ x \in FlagRow /\ x.by = None
    BY <1>1, <1>12 DEF FlagItem, InBudget
  <2>2. x \in flags => Raised(x)
    <3>1. x = [x EXCEPT !.by = None]
      BY <2>1 DEF FlagRow
    <3> QED
      BY <3>1 DEF Raised
  <2>3. CASE run' = [run EXCEPT ![r].queue = @ \ {x}] /\ UNCHANGED ses
    BY <1>6, <1>8, <1>10, <2>3
  <2>4. CASE /\ x \in flags /\ run' = [run EXCEPT ![r].queue = @ \ {x}]
             /\ ses' = [ses EXCEPT ![r] = [Idle EXCEPT !.pc = "resolve", !.flag = x, !.ok = "item"]]
    <3> DEFINE n == [Idle EXCEPT !.pc = "resolve", !.flag = x, !.ok = "item"]
    <3>1. /\ n \in Session /\ n.pc = "resolve" /\ n.flag = x /\ n.ok = "item"
          /\ n.keys = Idle.keys /\ n.dep = Idle.dep
      BY <2>1, IdleTyped DEF Session
    <3>2. ses' = [ses EXCEPT ![r] = n]
      BY <2>4
    <3> HIDE DEF n
    <3> QED
      BY <1>8, <1>11, <2>2, <2>4, <3>1, <3>2, IdleTyped
  <2>5. CASE /\ x \in flags /\ CanCall(b) /\ run' = [run EXCEPT ![r].queue = @ \ {x}]
             /\ ses' = [ses EXCEPT ![r] =
                  [Idle EXCEPT !.pc = "llm", !.flag = x, !.held = {x.entry, x.related}]]
    <3> DEFINE h == {x.entry, x.related}
               n == [Idle EXCEPT !.pc = "llm", !.flag = x, !.held = h]
    <3>1. h \subseteq Entries
      BY <2>1 DEF FlagRow
    <3>2. ses' = [ses EXCEPT ![r] = n]
      BY <2>5
    <3> HIDE DEF h
    <3>3. /\ n \in Session /\ n.pc = "llm" /\ n.flag = x /\ n.ok = Idle.ok
          /\ n.keys = Idle.keys /\ n.dep = Idle.dep
      BY <2>1, <3>1, IdleTyped DEF Session
    <3> HIDE DEF n
    <3> QED
      BY <1>8, <1>11, <2>2, <2>5, <3>2, <3>3, IdleTyped
  <2>6. CASE /\ OutOfCalls(b) /\ run' = [run EXCEPT ![r].aborted = TRUE, ![r].queue = {}]
             /\ UNCHANGED ses
    BY <1>7, <1>9, <1>10, <2>6
  <2> QED
    BY <1>1, <1>12, <2>3, <2>4, <2>5, <2>6 DEF FlagItem
<1>13. ASSUME LessonItem(r, x) PROVE IInv'
  <2>1. b.phase = "lessons"
    BY <1>1, <1>13 DEF LessonItem
  <2>2. CASE run' = [run EXCEPT ![r].queue = @ \ {x}] /\ UNCHANGED ses
    BY <1>6, <1>8, <1>10, <2>2
  <2>3. CASE /\ CanCall(b) /\ run' = [run EXCEPT ![r].queue = @ \ {x}]
             /\ ses' = [ses EXCEPT ![r] = [Idle EXCEPT !.pc = "llm"]]
    <3> DEFINE n == [Idle EXCEPT !.pc = "llm"]
    <3>1. /\ n \in Session /\ n.pc = "llm" /\ n.ok = Idle.ok
          /\ n.keys = Idle.keys /\ n.dep = Idle.dep
      BY IdleTyped DEF Session
    <3>2. ses' = [ses EXCEPT ![r] = n]
      BY <2>3
    <3> HIDE DEF n
    <3> QED
      BY <1>8, <1>11, <2>1, <2>3, <3>1, <3>2, IdleTyped
  <2>4. CASE /\ OutOfCalls(b) /\ run' = [run EXCEPT ![r].aborted = TRUE, ![r].queue = {}]
             /\ UNCHANGED ses
    BY <1>7, <1>9, <1>10, <2>4
  <2> QED
    BY <1>1, <1>13, <2>2, <2>3, <2>4 DEF LessonItem
<1> QED
  BY <1>12, <1>13

\* A call that is not answered counts as a failure.
LEMMA CallFailsStep ==
  ASSUME IInv, NEW r \in Runners, CallFails(r)
  PROVE  IInv'
<1>1. PICK b \in Run : b = run[r] /\ InBudget(b, "llm")
  BY RunnerIs DEF CallFails
<1>2. /\ UNCHANGED <<tables, acks, requests>> /\ Finish(r, "item")
      /\ rows' \subseteq 0..MaxRuns /\ started' \in 0..MaxRuns
      /\ run' = [run EXCEPT ![r] = Failed(b)]
  BY <1>1 DEF CallFails, IInv, TypeOK
<1>3. Failed(b) \in Run /\ InBudget(Failed(b), "item")
  BY <1>1, Unanswered
<1> QED
  BY <1>2, <1>3, RunnerFinish

\* An answer: the flag is resolved, the entries are merged, or nothing happens.
LEMMA JudgedStep ==
  ASSUME IInv, NEW r \in Runners, NEW a \in Answer, JudgedDistinct(r, a) \/ JudgedMerge(r, a)
  PROVE  IInv'
<1>0. ses[r].pc = "llm"
  BY Zenon DEF JudgedDistinct, JudgedMerge
<1>1. PICK b \in Run : b = run[r] /\ InBudget(b, "llm")
  BY <1>0, RunnerIs
<1>2. PICK m \in Session : m = ses[r] /\ m.pc = "llm" /\ m.dep \in Fresh \cup {None}
  BY <1>0, RunnerIs
<1>3. /\ UNCHANGED <<tables, acks, requests>> /\ r \in Sessions
      /\ rows' \subseteq 0..MaxRuns /\ started' \in 0..MaxRuns
      /\ run' = [run EXCEPT ![r] = Succeeded(b)]
  BY <1>1, RunnerIs DEF JudgedDistinct, JudgedMerge, IInv, TypeOK
<1>4. b.phase # "lessons" => Raised(m.flag)
  BY <1>1, <1>2, <1>3 DEF IInv, Ok, Flagged
<1>5. PICK k \in Run : /\ k = Succeeded(b) /\ k.phase = b.phase
                       /\ InBudget(k, "item") /\ InBudget(k, "resolve") /\ InBudget(k, "check")
  <2>1. \A c : c # "llm" => Succeeded(b) \in Run /\ Succeeded(b).phase = b.phase /\ InBudget(Succeeded(b), c)
    BY <1>1, Answered
  <2>2. InBudget(Succeeded(b), "item") /\ InBudget(Succeeded(b), "resolve") /\ InBudget(Succeeded(b), "check")
    BY <2>1
  <2>3. Succeeded(b) \in Run /\ Succeeded(b).phase = b.phase
    BY <2>1
  <2> QED
    BY <2>2, <2>3
<1>6. CASE Finish(r, "item")
  BY <1>3, <1>5, <1>6, RunnerFinish
<1>7. CASE b.phase # "lessons" /\ ses' = [ses EXCEPT ![r].pc = "resolve", ![r].ok = "item"]
  <2> DEFINE n == [m EXCEPT !.pc = "resolve", !.ok = "item"]
  <2>1. ses' = [ses EXCEPT ![r] = n]
    BY <1>2, <1>3, <1>7 DEF IInv, TypeOK
  <2>2. /\ n \in Session /\ n.pc = "resolve" /\ n.flag = m.flag /\ n.keys = m.keys /\ n.dep = m.dep
    BY DEF Session
  <2> HIDE DEF n
  <2>3. n.pc \notin Trying \cup {"validate", "decide"} /\ n.pc # "check"
    BY <2>2 DEF Trying, Loop
  <2>4. Raised(n.flag) /\ n.keys \subseteq ses[r].keys /\ InBudget(k, n.pc)
    BY <1>2, <1>4, <1>5, <1>7, <2>2
  <2> QED
    BY <1>2, <1>3, <1>5, <2>1, <2>2, <2>3, <2>4, RunnerStep
<1>8. ASSUME NEW d \in Unused, NEW rs,
             rs = IF b.phase = "lessons" THEN <<>> ELSE <<m.flag.entry, m.flag.related>>,
             NEW ok, ok = IF b.phase = "lessons" THEN "item" ELSE "resolve",
             ses' = [ses EXCEPT ![r] =
               [m EXCEPT !.pc = "check", !.dep = d,
                         !.body = [NoBody EXCEPT !.kind = "create", !.refs = rs],
                         !.ok = ok, !.ko = "item"]]
      PROVE  IInv'
  <2>1. rs \in Seq(Entries)
    <3>1. CASE b.phase = "lessons"
      BY <1>8, <3>1
    <3>2. CASE b.phase # "lessons"
      <4>1. m.flag.entry \in Entries /\ m.flag.related \in Entries
        BY <1>4, <3>2, RaisedTyped DEF IInv
      <4> QED
        BY <1>8, <3>2, <4>1
    <3> QED
      BY <3>1, <3>2
  <2> DEFINE body == [NoBody EXCEPT !.kind = "create", !.refs = rs]
             n == [m EXCEPT !.pc = "check", !.dep = d, !.body = body, !.ok = ok, !.ko = "item"]
  <2>2. body \in Body /\ body.kind = "create"
    BY <2>1, IdleTyped DEF Body
  <2>3. ses' = [ses EXCEPT ![r] = n]
    BY <1>8
  <2> HIDE DEF body
  <2>4. d \in Fresh /\ d \in DepositIds /\ ok \in {"item", "resolve"}
    BY <1>8 DEF Unused, DepositIds
  <2>5. /\ n \in Session /\ n.pc = "check" /\ n.dep = d /\ n.body = body
        /\ n.ok = ok /\ n.flag = m.flag /\ n.keys = m.keys
    BY <2>2, <2>4 DEF Session
  <2> HIDE DEF n
  <2>6. Shaped(n.body)
    BY <2>2, <2>5 DEF Shaped
  <2>7. n.pc \notin Trying \cup {"validate", "decide"} /\ n.dep # None
    BY <2>4, <2>5, LibraryAssumption DEF Trying, Loop, Entries
  <2>8. n.ok = "resolve" => Raised(n.flag)
    BY <1>4, <1>8, <2>5
  <2>9. n.keys \subseteq ses[r].keys /\ InBudget(k, n.pc) /\ n.pc # "resolve" /\ n.pc # "llm"
        /\ n.dep \in Fresh \cup {None}
    BY <1>2, <1>5, <2>4, <2>5
  <2> QED
    BY <1>3, <1>5, <2>3, <2>5, <2>6, <2>7, <2>8, <2>9, RunnerStep
<1>9. ASSUME JudgedMerge(r, a) PROVE IInv'
  <2>1. PICK rs : rs = IF b.phase = "lessons" THEN <<>> ELSE <<m.flag.entry, m.flag.related>>
    OBVIOUS
  <2>2. PICK ok : ok = IF b.phase = "lessons" THEN "item" ELSE "resolve"
    OBVIOUS
  <2>3. PICK d \in Unused : ses' = [ses EXCEPT ![r] =
               [m EXCEPT !.pc = "check", !.dep = d,
                         !.body = [NoBody EXCEPT !.kind = "create", !.refs = rs],
                         !.ok = ok, !.ko = "item"]]
    BY <1>1, <1>2, <1>9, <2>1, <2>2 DEF JudgedMerge
  <2> QED
    BY <1>8, <2>1, <2>2, <2>3
<1> QED
  BY <1>1, <1>6, <1>7, <1>9 DEF JudgedDistinct

\* The summary and the row of a run.
LEMMA SummaryStep ==
  ASSUME IInv, NEW r \in Runners, Summary(r)
  PROVE  IInv'
<1>1. PICK b \in Run : b = run[r] /\ InBudget(b, "summary")
  BY RunnerIs DEF Summary
<1>2. PICK m \in Session : m = ses[r] /\ m.pc = "summary" /\ m.dep \in Fresh \cup {None}
  BY RunnerIs DEF Summary
<1>3. /\ UNCHANGED <<tables, acks, requests>> /\ r \in Sessions
      /\ rows' \subseteq 0..MaxRuns /\ started' \in 0..MaxRuns
  BY RunnerIs DEF Summary, IInv, TypeOK
<1>4. m.ok = "resolve" => Raised(m.flag)
  BY <1>2, <1>3 DEF IInv, Ok, Flagged
<1> DEFINE n == [m EXCEPT !.pc = "record"]
<1>5. run' = [run EXCEPT ![r] = b] /\ ses' = [ses EXCEPT ![r] = n]
  BY <1>1, <1>2, <1>3 DEF Summary, Goto, IInv, TypeOK
<1>6. n \in Session /\ n.pc = "record" /\ n.flag = m.flag /\ n.keys = m.keys /\ n.dep = m.dep /\ n.ok = m.ok
  BY DEF Session
<1> HIDE DEF n
<1>7. InBudget(b, n.pc)
  BY <1>1, <1>6 DEF InBudget
<1>8. n.pc \notin Trying \cup {"validate", "decide"} /\ n.pc # "check"
  BY <1>6 DEF Trying, Loop
<1>9. /\ n.keys \subseteq ses[r].keys /\ n.dep \in Fresh \cup {None}
      /\ n.pc = "resolve" \/ n.ok = "resolve" \/ (n.pc = "llm" /\ b.phase # "lessons") => Raised(n.flag)
  BY <1>2, <1>4, <1>6
<1> QED
  BY <1>3, <1>5, <1>6, <1>7, <1>8, <1>9, RunnerStep

\* A run that has not begun.
LEMMA NoRunTyped == NoRun \in Run /\ \A c : c # "llm" => InBudget(NoRun, c)
BY NothingTold, LibrarianAssumption DEF NoRun, Run, InBudget

LEMMA RecordStep ==
  ASSUME IInv, NEW r \in Runners, RecordRow(r),
         UNCHANGED <<tables, acks, requests, started>>
  PROVE  IInv'
<1>1. /\ rows' \subseteq 0..MaxRuns /\ started' \in 0..MaxRuns
      /\ run' = [run EXCEPT ![r] = NoRun] /\ Finish(r, "idle")
  BY RunnerIs DEF RecordRow, IInv, TypeOK, Run
<1>2. NoRun \in Run /\ InBudget(NoRun, "idle") /\ UNCHANGED <<tables, acks, requests>>
  BY NoRunTyped
<1> QED
  BY <1>1, <1>2, RunnerFinish

LEMMA StartRunStep ==
  ASSUME IInv, NEW r \in Runners, NEW on \in BOOLEAN, StartRun(r, on)
  PROVE  IInv'
<1>1. /\ ses[r].pc = "idle" /\ UNCHANGED <<tables, acks, requests>>
      /\ started' = started + 1 /\ started < MaxRuns
  BY DEF StartRun
<1>2. started' \in 0..MaxRuns /\ started + 1 \in 0..MaxRuns
  BY <1>1, LibrarianAssumption DEF IInv, TypeOK
<1>3. flags \subseteq FlagRow /\ rows \subseteq 0..MaxRuns /\ run \in [Runners -> Run]
      /\ ses \in [Sessions -> Session] /\ r \in Sessions
  BY RunnerIs DEF IInv, TypeOK
<1>4. CASE on
  <2>1. PICK Q : Q = ItemsOf("duplicate")
    OBVIOUS
  <2>2. Q \subseteq FlagRow \cup Lessons /\ \A f \in Q : f \in FlagRow /\ f.by = None
    BY <1>3, <2>1 DEF ItemsOf, Unresolved
  <2>3. PICK i \in 0..MaxRuns : i = started + 1
    BY <1>2
  <2> DEFINE k == [NoRun EXCEPT !.id = i, !.phase = "duplicate", !.queue = Q]
  <2>4. run' = [run EXCEPT ![r] = k] /\ Finish(r, "item") /\ rows' = rows
    BY <1>4, <2>1, <2>3 DEF StartRun
  <2>5. /\ k \in Run /\ k.queue = Q /\ k.calls = NoRun.calls /\ k.fails = NoRun.fails
        /\ k.aborted = NoRun.aborted /\ k.log = NoRun.log
    BY <2>2, NoRunTyped DEF Run
  <2> HIDE DEF k
  <2>6. InBudget(NoRun, "item")
    BY NoRunTyped
  <2>7. InBudget(k, "item")
    <3>1. Told(k)
      BY <2>5, NothingTold DEF Told
    <3> QED
      BY <2>2, <2>5, <2>6, <3>1 DEF InBudget
  <2> QED
    BY <1>1, <1>2, <1>3, <2>4, <2>5, <2>7, RunnerFinish
<1>5. CASE ~on
  <2>1. PICK m \in Session : m = ses[r]
    BY <1>3
  <2>2. rows' = rows \cup {started + 1} /\ run' = run /\ ses' = ses
    BY <1>5 DEF StartRun
  <2>3. rows' \subseteq 0..MaxRuns
    BY <1>2, <1>3, <2>2
  <2>4. ses' = [ses EXCEPT ![r] = m] /\ run' = [run EXCEPT ![r] = run[r]]
    BY <1>3, <2>1, <2>2
  <2>5. /\ run[r] \in Run /\ InBudget(run[r], m.pc) /\ m.dep \in Fresh \cup {None}
    BY <2>1, RunnerIs
  <2>6. m.pc \notin Trying \cup {"validate", "decide"} /\ m.pc # "check" /\ m.keys \subseteq ses[r].keys
    BY <1>1, <2>1 DEF Trying, Loop
  <2>7. m.pc = "resolve" \/ m.ok = "resolve" \/ (m.pc = "llm" /\ run[r].phase # "lessons") => Raised(m.flag)
    BY <1>1, <1>3, <2>1 DEF IInv, Ok, Flagged
  <2>8. PICK k \in Run : k = run[r]
    BY <2>5
  <2> QED
    BY <1>1, <1>2, <2>3, <2>4, <2>5, <2>6, <2>7, <2>8, RunnerStep
<1> QED
  BY <1>4, <1>5

\* After a crash no session believes anything, and the tables are as they were.
LEMMA CrashStep ==
  ASSUME IInv, Crash
  PROVE  IInv'
<1>1. /\ ses' = [p \in Sessions |-> Idle] /\ run' = [r \in Runners |-> NoRun]
      /\ UNCHANGED <<tables, acks, requests, rows, started>>
  BY DEF Crash
<1>2. TypeOK /\ TableInv /\ acks' = acks
  BY DEF IInv, Crash
<1>3. TableInv'
  <2>1. \A a \in acks' : deposits[a.dep] = a.ack
    BY <1>2 DEF TableInv, Acked
  <2> QED
    BY <1>1, <1>2, <2>1, TablesKept
<1>4. TypeOK'
  <2>1. ses' \in [Sessions -> Session]
    BY <1>1, IdleTyped
  <2>2. run' \in [Runners -> Run]
    BY <1>1, NoRunTyped
  <2>3. rows' \subseteq 0..MaxRuns
    BY <1>1, <1>2 DEF TypeOK
  <2> QED
    BY <1>1, <1>2, <2>1, <2>2, <2>3 DEF TypeOK, tables
<1>5. \A p \in Sessions : ses'[p] = Idle
  BY <1>1
<1>6. KeysApart'
  BY <1>5, IdleTyped DEF KeysApart
<1>7. ASSUME NEW p \in Sessions PROVE Ok(p)'
  <2>1. PICK x : x = Idle.flag
    OBVIOUS
  <2>2. ses'[p].pc = "idle" /\ ses'[p].dep = None /\ ses'[p].ok = "idle"
    BY <1>5, IdleTyped
  <2>3. Budgeted(p)'
    <3>1. p \in Runners => run'[p] = NoRun
      BY <1>1
    <3>2. InBudget(NoRun, "idle")
      BY NoRunTyped
    <3> QED
      BY <2>2, <3>1, <3>2 DEF Budgeted, InBudget
  <2> QED
    BY <2>2, <2>3, FinishedOk
<1> QED
  BY <1>3, <1>4, <1>6, <1>7 DEF IInv

----------------------------------------------------------------------------
(* The theorems. *)

LEMMA NextIInv == IInv /\ [Next]_vars => IInv'
<1> SUFFICES ASSUME IInv, [Next]_vars PROVE IInv'
  OBVIOUS
<1>1. ASSUME NEW p \in Clients, Request(p), UNCHANGED <<run, rows, started>> PROVE IInv'
  BY <1>1, RequestStep
<1>2. ASSUME NEW p \in Sessions, Step(p) PROVE IInv'
  <2>1. DepositStep(p) /\ UNCHANGED <<run, rows, started>>
    BY <1>2 DEF Step
  <2>2. Aside
    BY <2>1 DEF DepositStep, Aside, Check, Validate, Stub, StubInsert, DepositRow, Parent, Write,
               Hints, Document, DocumentInsert, Commit, Resolve, Decide
  <2> QED
    BY <2>1, <2>2, CheckStep, ValidateStep, StubStep, DepositRowStep, ParentStep, WriteStep,
       HintsStep, DocumentStep, DocumentInsertStep, CommitStep, ResolveStep, DecideStep DEF DepositStep
<1>3. ASSUME NEW p \in Sessions, Victim(p), UNCHANGED <<run, rows, started>> PROVE IInv'
  BY <1>3, VictimStep
<1>4. ASSUME NEW r \in Runners, RunStep(r) PROVE IInv'
  <2>1. CASE Record(r)
    BY <2>1, RecordStep DEF Record
  <2> QED
    BY <1>4, <2>1, NextPhaseStep, CallFailsStep, JudgedStep, ItemStep, SummaryStep DEF RunStep
<1>5. ASSUME NEW r \in Runners, Timeout(r) PROVE IInv'
  BY <1>5, RecordStep DEF Timeout, RecordTimeout
<1>6. ASSUME NEW r \in Runners, NEW on \in BOOLEAN, StartRun(r, on) PROVE IInv'
  BY <1>6, StartRunStep
<1>7. CASE UNCHANGED vars
  <2>1. UNCHANGED <<entries, flags, deposits, docs, project, ses, acks, requests,
                    run, rows, started>>
    BY <1>7 DEF vars, libvars
  <2>2. UNCHANGED tables /\ TypeOK' /\ KeysApart' /\ \A a \in acks' : deposits[a.dep] = a.ack
    BY <2>1 DEF tables, IInv, TypeOK, KeysApart, TableInv, Acked
  <2>3. /\ TableInv'
        /\ \A e \in Entries : Exists(e) => Exists(e)' /\ entries'[e].proposal = entries[e].proposal
        /\ \A e \in Entries : Gone(e) => Gone(e)'
        /\ \A x : Raised(x) => Raised(x)'
        /\ IsFiniteSet(docs') /\ docs \subseteq docs'
        /\ \A x : MaxVersion(x)' = MaxVersion(x)
    BY <2>2, TablesKept DEF IInv
  <2>4. ASSUME NEW q \in Sessions PROVE Ok(q)'
    <3>1. ses[q].pc \in Loop => deposits'[ses[q].dep] = None
      BY <2>1 DEF IInv, Ok, Owns
    <3>2. ses'[q] = ses[q] /\ (q \in Runners => run'[q] = run[q])
      BY <2>1
    <3> QED
      BY <2>3, <3>1, <3>2, Frame
  <2> QED
    BY <2>2, <2>3, <2>4 DEF IInv
<1> QED
  BY <1>1, <1>2, <1>3, <1>4, <1>5, <1>6, <1>7, CrashStep DEF Next

\* IInv holds of every reachable state.
THEOREM LibraryInvariance == Spec => []IInv
<1>1. Init => IInv
  BY InitIInv
<1>2. IInv /\ [Next]_vars => IInv'
  BY NextIInv
<1> QED
  BY <1>1, <1>2, PTL DEF Spec

\* The tables, the sessions, the runs and the acknowledgments keep their types.
THEOREM LibraryTypes == Spec => []TypeOK
<1>1. IInv => TypeOK
  BY DEF IInv
<1> QED
  BY <1>1, LibraryInvariance, PTL

\* What create_deposit acknowledges, to the original or to a retry that raced
\* it, is what the tables hold under that deposit id, in all its parts.
THEOREM AcknowledgedCorrect == Spec => []AcknowledgedIsStored
<1>1. IInv => AcknowledgedIsStored
  <2> SUFFICES ASSUME IInv, NEW a \in acks
               PROVE  /\ deposits[a.dep] = a.ack
                      /\ a.ack.version > 0 =>
                           \E d \in docs : d.dep = a.dep /\ d.version = a.ack.version
                      /\ a.ack.entry # None => Exists(a.ack.entry)
    BY DEF AcknowledgedIsStored
  <2>1. a.dep \in DepositIds /\ a.ack \in Ack /\ deposits[a.dep] = a.ack
    BY DEF IInv, TypeOK, TableInv, Acked
  <2>2. deposits[a.dep] # None
    BY <2>1, LibraryAssumption
  <2> QED
    BY <2>1, <2>2 DEF IInv, TableInv, Stored
<1> QED
  BY <1>1, LibraryInvariance, PTL

\* The versions of a mirrored document are 1, 2, 3, ..., each stored once,
\* although deposits read the next one and insert it later.
THEOREM VersionsCorrect == Spec => []VersionsAreGapless
<1>1. IInv => VersionsAreGapless
  BY DEF IInv, TableInv
<1> QED
  BY <1>1, LibraryInvariance, PTL

\* What a stored entry supersedes is not active, and what is superseded has a
\* stored entry that supersedes it, whatever raced, failed or was retried.
THEOREM LineageCorrect == Spec => []LineageMatchesStatus
<1>1. IInv => LineageMatchesStatus
  BY DEF IInv, TableInv
<1> QED
  BY <1>1, LibraryInvariance, PTL

\* Proposals and the library never supersede one another, nor does a proposal
\* show up in a duplicate flag.
THEOREM ProposalsCorrect == Spec => []ProposalsStayInert
<1>1. IInv => ProposalsStayInert
  BY DEF IInv, TableInv
<1> QED
  BY <1>1, LibraryInvariance, PTL

\* No run of the librarian makes more LLM calls than its limit, in whichever
\* phases it makes them, none after too many failures in a row; and it gives up
\* for no other reason.
THEOREM BudgetCorrect == Spec => []BudgetIsKept
<1>1. IInv => BudgetIsKept
  <2>1. ASSUME IInv, NEW r \in Runners
        PROVE  LET b == run[r]
                   n == Len(b.log)
               IN
               /\ n <= MaxCalls /\ (ses[r].pc = "llm" => n < MaxCalls)
               /\ \A i \in 1..n : Tripped(b.log, i) =>
                    i = n /\ b.aborted /\ ses[r].pc # "llm"
               /\ b.aborted => n = MaxCalls \/ Tripped(b.log, n)
    <3>1. PICK b \in Run : b = run[r] /\ InBudget(b, ses[r].pc)
      BY <2>1, RunnerIs
    <3>2. /\ Len(b.log) = b.calls /\ b.calls <= MaxCalls
          /\ ses[r].pc = "llm" => ~b.aborted /\ b.calls < MaxCalls
      BY <3>1 DEF InBudget, Told
    <3>3. \A i \in 1..b.calls : Tripped(b.log, i) => i = b.calls /\ b.aborted
      BY <3>1 DEF InBudget, Told
    <3>4. b.aborted => b.calls = MaxCalls \/ Tripped(b.log, b.calls)
      BY <3>1 DEF InBudget, Told
    <3> QED
      BY <3>1, <3>2, <3>3, <3>4
  <2> QED
    BY <2>1 DEF BudgetIsKept
<1> QED
  BY <1>1, LibraryInvariance, PTL

----------------------------------------------------------------------------
(* One run at a time merges no entry twice. *)

\* A session that did not go to the LLM, nor take up a body it had not.
Carried(p) ==
  /\ \A q \in Sessions \ {p} : ses'[q] = ses[q]
  /\ ses'[p].body = ses[p].body \/ ses'[p].body = NoBody
  /\ ses'[p].pc # "llm"

LEMMA FinishCarries ==
  ASSUME TypeOK, NEW p \in Sessions, NEW c \in {"idle", "resolve", "item"}, Finish(p, c)
  PROVE  Carried(p)
BY FinishEffect DEF Carried

LEMMA FailCarries ==
  ASSUME TypeOK, NEW p \in Sessions, Fail(p)
  PROVE  Carried(p) /\ entries' = entries
<1>1. PICK c \in {"idle", "item"} : c = ses[p].ko
  BY DEF TypeOK, Session
<1> QED
  BY <1>1, FinishCarries DEF Fail, tables

LEMMA OkFinishCarries ==
  ASSUME TypeOK, NEW p \in Sessions, Finish(p, ses[p].ok)
  PROVE  Carried(p)
<1>1. PICK c \in {"idle", "resolve", "item"} : c = ses[p].ok
  BY DEF TypeOK, Session
<1> QED
  BY <1>1, FinishCarries

LEMMA RecordCarries ==
  ASSUME TypeOK, NEW p \in Sessions, NEW n, ses' = [ses EXCEPT ![p] = n],
         n.body = ses[p].body, n.pc # "llm"
  PROVE  Carried(p)
BY DEF Carried, TypeOK

LEMMA MoveCarries ==
  ASSUME TypeOK, NEW p \in Sessions, NEW c, c # "llm", Goto(p, c) \/ Take(p, c)
  PROVE  Carried(p)
<1>1. PICK m \in Session : m = ses[p]
  BY DEF TypeOK
<1> DEFINE g == [m EXCEPT !.pc = c]
           K == m.keys \cup Wanted(p)
           t == [m EXCEPT !.pc = c, !.keys = K]
<1>2. ses' = [ses EXCEPT ![p] = g] \/ ses' = [ses EXCEPT ![p] = t]
  BY <1>1 DEF Goto, Take
<1> HIDE DEF K
<1>3. g.body = m.body /\ g.pc = c /\ t.body = m.body /\ t.pc = c
  BY DEF Session
<1> HIDE DEF g, t
<1> QED
  BY <1>1, <1>2, <1>3, RecordCarries

LEMMA AttemptCarries ==
  ASSUME TypeOK, NEW p \in Sessions, NEW k, ses' = [ses EXCEPT ![p] = Attempt(ses[p], k)]
  PROVE  Carried(p)
<1>1. PICK m \in Session : m = ses[p]
  BY DEF TypeOK
<1>2. Attempt(m, k).body = m.body /\ Attempt(m, k).pc = "stub"
  BY DEF Attempt, Session
<1> QED
  BY <1>1, <1>2, RecordCarries

LEMMA ConflictCarries ==
  ASSUME TypeOK, NEW p \in Sessions, Conflict(p)
  PROVE  Carried(p) /\ entries' = entries
<1>1. CASE Replay(p)
  BY <1>1, OkFinishCarries DEF Replay, tables
<1>2. CASE Fail(p)
  BY <1>2, FailCarries
<1>3. CASE ses' = [ses EXCEPT ![p] = Attempt(ses[p], ses[p].attempt + 1)] /\ UNCHANGED <<tables, acks>>
  <2>1. PICK k : k = ses[p].attempt + 1
    OBVIOUS
  <2> QED
    BY <1>3, <2>1, AttemptCarries DEF tables
<1> QED
  BY <1>1, <1>2, <1>3 DEF Conflict

\* Up to its commit a deposit is carried along, and the entries stay.
LEMMA DepositCarries ==
  ASSUME IInv, NEW p \in Sessions, DepositStep(p)
  PROVE  /\ Carried(p)
         /\ ~Commit(p) => \A e \in Entries : entries'[e].parents = entries[e].parents
<1>0. TypeOK
  BY DEF IInv
<1>1. PICK m \in Session : m = ses[p]
  BY <1>0 DEF TypeOK
<1>2. ASSUME NEW todo PROVE LoopPc(m, todo) \in {"parent", "hints", "doc"}
  BY LoopPcIs
<1>3. CASE Check(p)
  BY <1>0, <1>3, OkFinishCarries, MoveCarries DEF Check, Replay, tables
<1>4. CASE Validate(p)
  BY <1>0, <1>4, FailCarries, AttemptCarries DEF Validate, tables
<1>5. CASE Stub(p) \/ StubInsert(p)
  <2>1. CASE Conflict(p)
    BY <1>0, <2>1, ConflictCarries
  <2>2. CASE UNCHANGED <<tables, acks>> /\ (Goto(p, "row") \/ Goto(p, "stubins") \/ Take(p, "row"))
    BY <1>0, <2>2, MoveCarries DEF tables
  <2> QED
    BY <1>5, <2>1, <2>2 DEF Stub, StubInsert
<1>6. CASE DepositRow(p)
  <2>1. CASE Conflict(p)
    BY <1>0, <2>1, ConflictCarries
  <2>2. CASE UNCHANGED <<tables, acks>> /\ Take(p, LoopPc(m, m.todo))
    <3>1. PICK c \in {"parent", "hints", "doc"} : c = LoopPc(m, m.todo)
      BY <1>2
    <3>2. Take(p, c) /\ c # "llm" /\ entries' = entries
      BY <2>2, <3>1 DEF tables
    <3> QED
      BY <1>0, <3>2, MoveCarries
  <2> QED
    BY <1>1, <1>6, <2>1, <2>2 DEF DepositRow
<1>7. CASE Parent(p)
  <2>1. CASE Fail(p)
    BY <1>0, <2>1, FailCarries
  <2>2. CASE Goto(p, "write") /\ UNCHANGED <<tables, acks>>
    BY <1>0, <2>2, MoveCarries DEF tables
  <2>3. ASSUME NEW N, NEW T, NEW c \in {"write", "parent", "hints", "doc"},
               ses' = [ses EXCEPT ![p] = [m EXCEPT !.news = N, !.todo = T, !.pc = c]],
               UNCHANGED <<tables, acks>>
        PROVE  Carried(p) /\ entries' = entries
    <3> DEFINE n == [m EXCEPT !.news = N, !.todo = T, !.pc = c]
    <3>1. n.body = m.body /\ n.pc = c
      BY DEF Session
    <3>2. ses' = [ses EXCEPT ![p] = n]
      BY <2>3
    <3> HIDE DEF n
    <3> QED
      BY <1>0, <1>1, <2>3, <3>1, <3>2, RecordCarries DEF tables
  <2>4. ASSUME ~Fail(p), ~Goto(p, "write")
        PROVE  Carried(p) /\ entries' = entries
    <3> DEFINE e == Head(m.todo)
               active == e \in m.held \/ entries[e].status = "active"
               siblings == {o \in Entries : Exists(o) /\ e \in entries[o].parents}
    <3>1. /\ ses' = [ses EXCEPT ![p] =
                [m EXCEPT !.news = @ \cup {Flag("fork", m.dep, o) : o \in siblings},
                          !.todo = IF active THEN @ ELSE Tail(@),
                          !.pc = IF active THEN "write" ELSE LoopPc(m, Tail(m.todo))]]
          /\ UNCHANGED <<tables, acks>>
      BY <1>1, <1>7, <2>4 DEF Parent
    <3>2. PICK N : N = m.news \cup {Flag("fork", m.dep, o) : o \in siblings}
      OBVIOUS
    <3>3. PICK T : T = IF active THEN m.todo ELSE Tail(m.todo)
      OBVIOUS
    <3>4. PICK c \in {"write", "parent", "hints", "doc"} :
            c = IF active THEN "write" ELSE LoopPc(m, Tail(m.todo))
      BY <1>2
    <3>5. ses' = [ses EXCEPT ![p] = [m EXCEPT !.news = N, !.todo = T, !.pc = c]]
      BY <3>1, <3>2, <3>3, <3>4
    <3>6. UNCHANGED <<tables, acks>>
      BY <3>1
    <3> HIDE DEF e, active, siblings
    <3> QED
      BY <2>3, <3>5, <3>6, Zenon
  <2>5. Fail(p) \/ ~Goto(p, "write") \/ (Goto(p, "write") /\ UNCHANGED <<tables, acks>>)
    BY <1>7, Zenon DEF Parent
  <2>6. CASE ~Fail(p) /\ ~Goto(p, "write")
    BY <2>4, <2>6
  <2> QED
    BY <2>1, <2>2, <2>5, <2>6, Zenon
<1>8. CASE Write(p)
  <2>1. PICK c \in {"parent", "hints", "doc"} : c = LoopPc(m, Tail(m.todo))
    BY <1>2
  <2> DEFINE K == m.keys \cup Wanted(p)
             S == m.sets \cup {Head(m.todo)}
             n == [m EXCEPT !.keys = K, !.sets = S, !.todo = Tail(m.todo), !.pc = c]
  <2>2. ses' = [ses EXCEPT ![p] = n] /\ entries' = entries
    BY <1>1, <1>8, <2>1 DEF Write, tables
  <2> HIDE DEF K, S
  <2>3. n.body = m.body /\ n.pc = c
    BY DEF Session
  <2> HIDE DEF n
  <2> QED
    BY <1>0, <1>1, <2>1, <2>2, <2>3, RecordCarries
<1>9. CASE Hints(p)
  <2> DEFINE found == {o \in Similar[m.dep] \ (m.sets \cup {m.body.refs[i] : i \in DOMAIN m.body.refs}) :
                         entries[o].status = "active" /\ ~entries[o].proposal}
             N == m.news \cup {Flag("duplicate", m.dep, o) : o \in IF m.body.proposal THEN {} ELSE found}
             n == [m EXCEPT !.pc = "doc", !.news = N]
  <2>1. ses' = [ses EXCEPT ![p] = n] /\ entries' = entries
    BY <1>1, <1>9 DEF Hints, tables
  <2> HIDE DEF N
  <2>2. n.body = m.body /\ n.pc = "doc"
    BY DEF Session
  <2> HIDE DEF n
  <2> QED
    BY <1>0, <1>1, <2>1, <2>2, RecordCarries
<1>10. CASE Document(p)
  <2>1. PICK c \in {"commit", "docins"} : c = IF m.body.path = None THEN "commit" ELSE "docins"
    OBVIOUS
  <2>2. PICK v : v = IF m.body.path = None THEN 0 ELSE MaxVersion(m.body.path) + 1
    OBVIOUS
  <2> DEFINE n == [m EXCEPT !.pc = c, !.ver = v]
  <2>3. ses' = [ses EXCEPT ![p] = n] /\ entries' = entries
    BY <1>1, <1>10, <2>1, <2>2 DEF Document, tables
  <2>4. n.body = m.body /\ n.pc = c
    BY DEF Session
  <2> HIDE DEF n
  <2> QED
    BY <1>0, <1>1, <2>1, <2>3, <2>4, RecordCarries
<1>11. CASE DocumentInsert(p)
  BY <1>0, <1>11, ConflictCarries, MoveCarries DEF DocumentInsert, tables
<1>12. CASE Commit(p)
  BY <1>0, <1>12, OkFinishCarries DEF Commit
<1>13. CASE Resolve(p)
  BY <1>0, <1>13, OkFinishCarries DEF Resolve
<1>14. CASE Decide(p)
  <2>1. PICK e : e = Head(ses[p].todo)
    OBVIOUS
  <2>2. PICK c : c = ses[p].choice
    OBVIOUS
  <2>3. entries' = [entries EXCEPT ![e].decision = c] /\ Finish(p, ses[p].ok)
    BY <1>14, <2>1, <2>2 DEF Decide
  <2>4. \A x \in Entries : entries'[x].parents = entries[x].parents
    <3> SUFFICES ASSUME NEW x \in Entries PROVE entries'[x].parents = entries[x].parents
      OBVIOUS
    <3>1. entries[x] \in EntryRow /\ entries \in [Entries -> EntryRow]
      BY <1>0 DEF TypeOK
    <3>2. [entries[x] EXCEPT !.decision = c].parents = entries[x].parents
      BY <3>1 DEF EntryRow
    <3>3. x # e => entries'[x] = entries[x]
      BY <2>3, <3>1
    <3>4. x = e => entries'[x] = [entries[x] EXCEPT !.decision = c]
      BY <2>3, <3>1
    <3> QED
      BY <3>2, <3>3, <3>4
  <2>5. Carried(p)
    BY <1>0, <2>3, OkFinishCarries
  <2> QED
    BY <2>4, <2>5
<1> QED
  BY <1>3, <1>4, <1>5, <1>6, <1>7, <1>8, <1>9, <1>10, <1>11, <1>12, <1>13, <1>14 DEF DepositStep

\* Entries that keep their parents keep the runner's merge a new one.
LEMMA UnmergedKept ==
  ASSUME NEW r \in Runners, Unmerged(r),
         \A d \in Fresh : entries'[d].parents = entries[d].parents,
         ses'[r].body = ses[r].body \/ ses'[r].body = NoBody,
         ses'[r].pc = "llm" =>
           ses[r].pc = "llm" /\ ses'[r].flag = ses[r].flag /\ run'[r].phase = run[r].phase
  PROVE  Unmerged(r)'
<1>1. ASSUME NEW d \in Fresh
      PROVE  /\ ses'[r].pc = "llm" /\ run'[r].phase # "lessons" =>
                  /\ ses'[r].flag.entry \notin entries'[d].parents
                  /\ ses'[r].flag.related \notin entries'[d].parents
             /\ Elems(ses[r].body.refs) \cap entries'[d].parents = {}
  BY DEF Unmerged
<1>2. PICK b : b = ses'[r].body
  OBVIOUS
<1>3. ASSUME NEW d \in Fresh PROVE Elems(b.refs) \cap entries'[d].parents = {}
  BY <1>1, <1>2, ElemsEmpty, IdleTyped
<1> QED
  BY <1>1, <1>2, <1>3 DEF Unmerged, Elems

\* ... as does one that merges nothing.
LEMMA NothingToMerge ==
  ASSUME NEW r \in Runners, ses'[r].body = NoBody, ses'[r].pc # "llm"
  PROVE  Unmerged(r)'
<1>1. DOMAIN NoBody.refs = {}
  BY IdleTyped
<1> QED
  BY <1>1 DEF Unmerged, Elems

\* A commit gives a new entry its parents, and the others keep theirs.
LEMMA CommitUnmerged ==
  ASSUME IInv, MergedOnce, \A r \in Runners : Unmerged(r), \A r, s \in Runners : r = s,
         NEW p \in Sessions, Commit(p), UNCHANGED run
  PROVE  MergedOnce' /\ \A r \in Runners : Unmerged(r)'
<1>1. PICK m \in Session : m = ses[p]
  BY DEF IInv, TypeOK
<1>2. m.pc = "commit" /\ Finish(p, m.ok)
  BY <1>1 DEF Commit
<1>3. /\ m.sets \subseteq Elems(m.body.refs) /\ Elems(m.body.refs) \subseteq Entries
      /\ m.dep \notin Elems(m.body.refs) /\ m.dep \in DepositIds
  BY <1>1, <1>2, AtCommit, InDeposit
<1>4. /\ m.body.kind = "create" => entries'[m.dep].parents = Elems(m.body.refs)
      /\ \A e \in Entries : e # m.dep \/ m.body.kind # "create" =>
           entries'[e].parents = entries[e].parents
  BY <1>1, <1>3, CommitEntries
<1>5. Fresh \subseteq Entries /\ Deposits \cap Fresh = {} /\ Clients \cap Runners = {}
      /\ Sessions = Clients \cup Runners /\ None \notin DepositIds
  BY LibraryAssumption DEF Entries, DepositIds, Sessions
<1>6. PICK c \in {"idle", "resolve", "item"} : c = m.ok
  BY DEF Session
<1>7. /\ \A q \in Sessions \ {p} : ses'[q] = ses[q]
      /\ ses'[p].body = NoBody /\ ses'[p].pc # "llm"
  BY <1>2, <1>6, FinishEffect DEF IInv
<1>8. CASE p \in Clients
  <2>1. m.dep \in Deposits
    BY <1>1, <1>3, <1>5, <1>8 DEF IInv, Ok, Placed
  <2>2. \A d \in Fresh : entries'[d].parents = entries[d].parents
    BY <1>4, <1>5, <2>1
  <2>3. ASSUME NEW r \in Runners PROVE Unmerged(r)'
    <3>1. ses'[r] = ses[r]
      BY <1>5, <1>7, <1>8
    <3> QED
      BY <2>2, <3>1, UnmergedKept
  <2> QED
    BY <2>2, <2>3 DEF MergedOnce
<1>9. CASE p \in Runners
  <2>1. ASSUME NEW d \in Fresh PROVE Elems(m.body.refs) \cap entries[d].parents = {}
    BY <1>1, <1>9 DEF Unmerged
  <2>2. MergedOnce'
    BY <1>4, <1>5, <2>1 DEF MergedOnce
  <2>3. Unmerged(p)'
    BY <1>7, <1>9, NothingToMerge
  <2> QED
    BY <1>9, <2>2, <2>3
<1> QED
  BY <1>5, <1>8, <1>9

\* What the librarian puts to the LLM, or deposits, is merged for the first time.
LEMMA RunnerUnmerged ==
  ASSUME IInv, NEW r \in Runners, Unmerged(r), RunStep(r)
  PROVE  entries' = entries /\ Unmerged(r)'
<1>0. TypeOK /\ r \in Sessions
  BY RunnerIs DEF IInv
<1>1. entries' = entries
  <2>1. UNCHANGED tables
    BY Zenon DEF RunStep, NextPhase, CallFails, Record, JudgedDistinct, JudgedMerge, FlagItem,
                 LessonItem, Summary
  <2> QED
    BY <2>1 DEF tables
<1>2. CASE \E c \in {"idle", "item"} : Finish(r, c)
  <2>1. ses'[r].body = NoBody /\ ses'[r].pc # "llm"
    BY <1>0, <1>2, FinishEffect
  <2> QED
    BY <1>1, <2>1, NothingToMerge
<1>3. CASE Carried(r)
  BY <1>1, <1>3, UnmergedKept DEF Carried
<1>4. CASE ses' = ses /\ ses[r].pc # "llm"
  BY <1>1, <1>4, UnmergedKept
<1>5. CASE NextPhase(r)
  <2>1. CASE Goto(r, "summary")
    BY <1>0, <1>3, <2>1, MoveCarries
  <2> QED
    BY <1>4, <1>5, <2>1 DEF NextPhase
<1>6. CASE CallFails(r) \/ Record(r)
  BY <1>2, <1>6 DEF CallFails, Record, RecordRow
<1>7. ASSUME Summary(r) PROVE Unmerged(r)'
  BY <1>0, <1>3, <1>7, MoveCarries DEF Summary
<1>8. ASSUME NEW a \in Answer, JudgedDistinct(r, a) PROVE Unmerged(r)'
  <2>1. CASE ses' = [ses EXCEPT ![r].pc = "resolve", ![r].ok = "item"]
    <3>1. PICK m \in Session : m = ses[r]
      BY <1>0 DEF TypeOK
    <3> DEFINE n == [m EXCEPT !.pc = "resolve", !.ok = "item"]
    <3>2. ses' = [ses EXCEPT ![r] = n]
      BY <1>0, <2>1, <3>1 DEF TypeOK
    <3>3. n.body = m.body /\ n.pc = "resolve"
      BY DEF Session
    <3> HIDE DEF n
    <3> QED
      BY <1>0, <1>3, <3>1, <3>2, <3>3, RecordCarries
  <2> QED
    BY <1>2, <1>8, <2>1 DEF JudgedDistinct
<1>9. ASSUME NEW a \in Answer, JudgedMerge(r, a) PROVE Unmerged(r)'
  <2>1. PICK m \in Session : m = ses[r]
    BY <1>0 DEF TypeOK
  <2>2. PICK rs : rs = IF run[r].phase = "lessons" THEN <<>> ELSE <<m.flag.entry, m.flag.related>>
    OBVIOUS
  <2>3. PICK ok : ok = IF run[r].phase = "lessons" THEN "item" ELSE "resolve"
    OBVIOUS
  <2>4. PICK d : ses' = [ses EXCEPT ![r] =
               [m EXCEPT !.pc = "check", !.dep = d,
                         !.body = [NoBody EXCEPT !.kind = "create", !.refs = rs],
                         !.ok = ok, !.ko = "item"]]
    BY <1>9, <2>1, <2>2, <2>3, Zenon DEF JudgedMerge
  <2> DEFINE body == [NoBody EXCEPT !.kind = "create", !.refs = rs]
             n == [m EXCEPT !.pc = "check", !.dep = d, !.body = body, !.ok = ok, !.ko = "item"]
  <2>5. body.refs = rs
    BY DEF NoBody
  <2>6. ses' = [ses EXCEPT ![r] = n]
    BY <2>4
  <2> HIDE DEF body
  <2>7. n.body = body /\ n.pc = "check"
    BY DEF Session
  <2> HIDE DEF n
  <2>8. ses'[r] = n
    BY <1>0, <2>6 DEF TypeOK
  <2>9. ASSUME NEW e \in Fresh PROVE Elems(rs) \cap entries[e].parents = {}
    <3>1. CASE run[r].phase = "lessons"
      BY <2>2, <3>1, ElemsEmpty
    <3>2. CASE run[r].phase # "lessons"
      <4>1. m.flag.entry \notin entries[e].parents /\ m.flag.related \notin entries[e].parents
        BY <1>9, <2>1, <3>2 DEF Unmerged, JudgedMerge
      <4>2. Elems(rs) = {m.flag.entry, m.flag.related}
        <5>1. DOMAIN rs = {1, 2} /\ rs[1] = m.flag.entry /\ rs[2] = m.flag.related
          BY <2>2, <3>2
        <5> QED
          BY <5>1 DEF Elems
      <4> QED
        BY <4>1, <4>2
    <3> QED
      BY <3>1, <3>2
  <2> QED
    BY <1>1, <2>5, <2>7, <2>8, <2>9 DEF Unmerged, Elems
<1>10. ASSUME NEW x \in run[r].queue, FlagItem(r, x) PROVE Unmerged(r)'
  <2>0. run[r].phase # "lessons" /\ ses[r].pc = "item" /\ x \in FlagRow
    BY <1>10, RunnerIs DEF FlagItem, InBudget
  <2>1. CASE UNCHANGED ses
    BY <1>4, <2>0, <2>1
  <2>2. CASE ses' = [ses EXCEPT ![r] = [Idle EXCEPT !.pc = "resolve", !.flag = x, !.ok = "item"]]
    <3> DEFINE n == [Idle EXCEPT !.pc = "resolve", !.flag = x, !.ok = "item"]
    <3>1. n.body = Idle.body /\ n.pc = "resolve"
      BY IdleTyped DEF Session
    <3>2. ses' = [ses EXCEPT ![r] = n]
      BY <2>2
    <3> HIDE DEF n
    <3>3. ses'[r] = n
      BY <1>0, <3>2 DEF TypeOK
    <3> QED
      BY <3>1, <3>3, IdleTyped, NothingToMerge
  <2>3. CASE /\ Mergeable(x)
             /\ ses' = [ses EXCEPT ![r] =
                  [Idle EXCEPT !.pc = "llm", !.flag = x, !.held = {x.entry, x.related}]]
    <3> DEFINE h == {x.entry, x.related}
               n == [Idle EXCEPT !.pc = "llm", !.flag = x, !.held = h]
    <3>1. ses' = [ses EXCEPT ![r] = n]
      BY <2>3
    <3> HIDE DEF h
    <3>2. n.body = Idle.body /\ n.flag = x
      BY IdleTyped DEF Session
    <3> HIDE DEF n
    <3>3. ses'[r] = n
      BY <1>0, <3>1 DEF TypeOK
    <3>4. ASSUME NEW d \in Fresh
          PROVE  x.entry \notin entries[d].parents /\ x.related \notin entries[d].parents
      <4>1. d \in Entries
        BY DEF Entries, DepositIds
      <4>2. ~Exists(d) => entries[d].parents = {}
        BY <4>1 DEF IInv, TableInv, NothingFromNothing
      <4>3. Exists(d) => \A e \in entries[d].parents : entries[e].status # "active"
        BY <4>1 DEF IInv, TableInv, LineageMatchesStatus
      <4>4. entries[x.entry].status = "active" /\ entries[x.related].status = "active"
        BY <2>3 DEF Mergeable
      <4> QED
        BY <4>2, <4>3, <4>4
    <3>5. DOMAIN n.body.refs = {}
      BY <3>2, IdleTyped
    <3> QED
      BY <1>1, <3>2, <3>3, <3>4, <3>5 DEF Unmerged, Elems
  <2> QED
    BY <1>10, <2>1, <2>2, <2>3 DEF FlagItem
<1>11. ASSUME NEW x \in run[r].queue, LessonItem(r, x) PROVE Unmerged(r)'
  <2>0. run[r].phase = "lessons" /\ ses[r].pc = "item" /\ run \in [Runners -> Run]
    BY <1>0, <1>11 DEF LessonItem, TypeOK
  <2>1. CASE UNCHANGED ses
    BY <1>4, <2>0, <2>1
  <2>2. CASE /\ run' = [run EXCEPT ![r].queue = @ \ {x}]
             /\ ses' = [ses EXCEPT ![r] = [Idle EXCEPT !.pc = "llm"]]
    <3> DEFINE n == [Idle EXCEPT !.pc = "llm"]
               k == [run[r] EXCEPT !.queue = run[r].queue \ {x}]
    <3>1. n.body = Idle.body /\ ses' = [ses EXCEPT ![r] = n] /\ run' = [run EXCEPT ![r] = k]
      BY <2>2, IdleTyped DEF Session
    <3>2. k.phase = "lessons"
      BY <2>0 DEF Run
    <3> HIDE DEF n, k
    <3>3. ses'[r] = n /\ run'[r] = k
      BY <1>0, <2>0, <3>1 DEF TypeOK
    <3>4. DOMAIN n.body.refs = {}
      BY <3>1, IdleTyped
    <3> QED
      BY <3>2, <3>3, <3>4 DEF Unmerged, Elems
  <2> QED
    BY <1>11, <2>1, <2>2 DEF LessonItem
<1> QED
  BY <1>1, <1>5, <1>6, <1>7, <1>8, <1>9, <1>10, <1>11 DEF RunStep

LEMMA NextUnmerged ==
  ASSUME IInv, MergedOnce, \A r \in Runners : Unmerged(r), \A r, s \in Runners : r = s, [Next]_vars
  PROVE  MergedOnce' /\ \A r \in Runners : Unmerged(r)'
<1>0. /\ TypeOK /\ Clients \cap Runners = {} /\ Sessions = Clients \cup Runners /\ Fresh \subseteq Entries
      /\ None \notin Runners
  BY LibraryAssumption DEF IInv, Sessions, Entries, DepositIds
<1>1. ASSUME \A e \in Entries : entries'[e].parents = entries[e].parents,
             \A r \in Runners : Unmerged(r)'
      PROVE  MergedOnce' /\ \A r \in Runners : Unmerged(r)'
  BY <1>0, <1>1 DEF MergedOnce
<1>2. ASSUME NEW p \in Sessions, Carried(p), run' = run,
             \A e \in Entries : entries'[e].parents = entries[e].parents
      PROVE  MergedOnce' /\ \A r \in Runners : Unmerged(r)'
  <2>1. ASSUME NEW r \in Runners PROVE Unmerged(r)'
    <3>1. r \in Sessions /\ \A d \in Fresh : entries'[d].parents = entries[d].parents
      BY <1>0, <1>2
    <3>2. CASE r = p
      BY <1>2, <3>1, <3>2, UnmergedKept DEF Carried
    <3>3. CASE r # p
      <4>1. ses'[r] = ses[r]
        BY <1>2, <3>1, <3>3 DEF Carried
      <4> QED
        BY <1>2, <3>1, <4>1, UnmergedKept
    <3> QED
      BY <3>2, <3>3
  <2> QED
    BY <1>1, <1>2, <2>1
<1>3. ASSUME entries' = entries, run' = run, \A r \in Runners : ses'[r] = ses[r]
      PROVE  MergedOnce' /\ \A r \in Runners : Unmerged(r)'
  BY <1>1, <1>3, UnmergedKept
<1>4. ASSUME NEW p \in Clients, Request(p), UNCHANGED <<run, rows, started>>
      PROVE  MergedOnce' /\ \A r \in Runners : Unmerged(r)'
  <2>1. \E n : ses' = [ses EXCEPT ![p] = n]
    BY <1>4 DEF Request, DepositRequest, ResolveRequest, DecideRequest
  <2>2. \A r \in Runners : ses'[r] = ses[r]
    BY <1>0, <2>1 DEF TypeOK
  <2>3. entries' = entries
    BY <1>4 DEF Request, tables
  <2>4. run' = run
    BY <1>4
  <2> QED
    BY <1>3, <2>2, <2>3, <2>4
<1>5. ASSUME NEW p \in Sessions, Step(p)
      PROVE  MergedOnce' /\ \A r \in Runners : Unmerged(r)'
  <2>1. DepositStep(p) /\ run' = run
    BY <1>5 DEF Step
  <2>2. CASE Commit(p)
    BY <2>1, <2>2, CommitUnmerged
  <2>3. CASE ~Commit(p)
    BY <1>2, <2>1, <2>3, DepositCarries
  <2> QED
    BY <2>2, <2>3
<1>6. ASSUME NEW p \in Sessions, Victim(p), UNCHANGED <<run, rows, started>>
      PROVE  MergedOnce' /\ \A r \in Runners : Unmerged(r)'
  BY <1>0, <1>2, <1>6, FailCarries DEF Victim
<1>7. ASSUME NEW r \in Runners, RunStep(r)
      PROVE  MergedOnce' /\ \A s \in Runners : Unmerged(s)'
  BY <1>1, <1>7, RunnerUnmerged
<1>8. ASSUME NEW r \in Runners, Timeout(r) \/ \E on \in BOOLEAN : StartRun(r, on)
      PROVE  MergedOnce' /\ \A s \in Runners : Unmerged(s)'
  <2>1. entries' = entries
    BY <1>8 DEF Timeout, StartRun, tables
  <2>2. CASE \E c \in {"idle", "item"} : Finish(r, c)
    <3>1. ses'[r].body = NoBody /\ ses'[r].pc # "llm"
      BY <1>0, <2>2, FinishEffect
    <3>2. Unmerged(r)'
      BY <3>1, NothingToMerge
    <3> QED
      BY <1>1, <2>1, <3>2
  <2>3. CASE UNCHANGED <<run, ses>>
    BY <1>3, <2>1, <2>3
  <2> QED
    BY <1>8, <2>2, <2>3 DEF Timeout, RecordTimeout, RecordRow, StartRun
<1>9. ASSUME Crash
      PROVE  MergedOnce' /\ \A r \in Runners : Unmerged(r)'
  <2>1. entries' = entries /\ ses' = [p \in Sessions |-> Idle]
    BY <1>9 DEF Crash, tables
  <2>2. ASSUME NEW r \in Runners PROVE Unmerged(r)'
    <3>1. ses'[r].body = NoBody /\ ses'[r].pc # "llm"
      BY <1>0, <2>1, IdleTyped
    <3> QED
      BY <3>1, NothingToMerge
  <2> QED
    BY <1>1, <2>1, <2>2
<1>10. CASE UNCHANGED vars
  BY <1>3, <1>10 DEF vars, libvars
<1> QED
  BY <1>4, <1>5, <1>6, <1>7, <1>8, <1>9, <1>10 DEF Next

\* With one run of the librarian at a time, however many crash, time out or
\* fail half-way, no two of its deposits supersede the same entry.
THEOREM MergedOnceCorrect ==
  ASSUME \A r, s \in Runners : r = s
  PROVE  Spec => []MergedOnce
<1> DEFINE Once == MergedOnce /\ \A r \in Runners : Unmerged(r)
<1>1. Init => Once
  <2> SUFFICES ASSUME Init PROVE Once
    OBVIOUS
  <2>1. \A e \in Entries : entries[e].parents = {}
    BY DEF Init, LibInit
  <2>2. \A d \in Fresh : entries[d].parents = {}
    BY <2>1 DEF Entries, DepositIds
  <2>3. \A r \in Runners : ses[r].pc = "idle" 
    BY IdleTyped DEF Init, LibInit, Sessions
  <2> QED
    BY <2>2, <2>3 DEF MergedOnce, Unmerged
<1>2. IInv /\ Once /\ [Next]_vars => Once'
  BY NextUnmerged
<1>3. Once => MergedOnce
  OBVIOUS
<1> QED
  BY <1>1, <1>2, <1>3, LibraryInvariance, PTL DEF Spec
=============================================================================
