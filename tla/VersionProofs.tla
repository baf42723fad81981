--------------------------- MODULE VersionProofs ---------------------------
(***************************************************************************)
(* What the writers and the readers of versioned records are told, for     *)
(* every set of rules, projects and sessions: that a conflict is real and  *)
(* that a bootstrap is faithful.                                           *)
(*                                                                         *)
(* Both are about what a session saw and what the table has become since.  *)
(* View says it for one session; as a table only grows, and never has two  *)
(* rows of one version, what a session saw stays good until its next step. *)
(***************************************************************************)
EXTENDS RegistryProofs

Writing == {"validate", "next", "insert"}

\* What _validate_global_rules lets through has no tier but these.
Tiered(rules) == \A i \in DOMAIN rules : rules[i].tier \in Tiers

\* How often a refused writer has lost.
Lost(me) == IF me.pc = "refused" THEN MaxAttempts ELSE 1

\* FetchIsFaithful for one session.
Faithful(me) ==
  LET r     == me.reply
      rules == ContentOf("global", r.global).rules
      over  == Elems(ContentOf(me.seq, r.overlay).over)
  IN  /\ r.global >= me.since["global"] /\ r.channel >= me.since["notify"]
      /\ r.global # 0 => r.overlay >= me.since[me.seq]
      /\ r.fixed = {x \in Elems(Ids(rules)) :
                      \E i \in DOMAIN rules :
                         rules[i] = [id |-> x, tier |-> "non_negotiable"]}
      /\ r.fixed \cup r.kept \cup r.replaced = Elems(Ids(rules))
      /\ r.replaced \subseteq over /\ r.kept \cap over = {}

\* No row is of the request of this session.
Unwritten(me) == \A r \in rows : r.by # me.req

\* A writer's number of attempts never exceeds the versions that appeared.
WriterView(me) ==
  /\ me.pc \in Writing => Unwritten(me)
  /\ me.pc \in {"validate", "next"} =>
       me.since[me.seq] + me.tries \in Versions(me.seq) \cup {0}
  /\ me.pc = "insert" => me.tries >= 1 /\ me.ver >= me.since[me.seq] + me.tries
  /\ me.pc = "validate" /\ me.seq = "global" => me.op = "global"
  /\ me.pc \in {"next", "insert"} /\ me.seq = "global" => Tiered(me.content.rules)
  /\ me.pc \in {"refused", "failed"} /\ me.op # "bootstrap" =>
       me.since[me.seq] + Lost(me) \in Versions(me.seq) /\ Unwritten(me)

\* What a bootstrap has read is no older than what was current when it came.
ReaderView(me) ==
  /\ me.pc \in Fetching => me.op = "bootstrap"
  /\ me.pc \in {"overlay", "channel", "compile"} => me.read.global >= me.since["global"]
  /\ me.pc \in {"channel", "compile"} => me.read.overlay >= me.since[me.seq]
  /\ me.pc = "compile" => me.reply.channel >= me.since["notify"]
  /\ me.pc = "served" =>
       /\ me.reply.global \in Versions("global") \cup {0}
       /\ me.reply.overlay \in Versions(me.seq) \cup {0}
       /\ Faithful(me)

View(me) ==
  /\ me.pc # "idle" => me.req \in 1..requests
  /\ \A q \in Seqs : me.since[q] \in Versions(q) \cup {0}
  /\ WriterView(me) /\ ReaderView(me)

TableInv ==
  /\ \A r, u \in rows : r.seq = u.seq /\ r.version = u.version => r = u
  /\ \A r \in rows : r.by <= requests
  /\ \A r \in rows : r.seq = "global" => Tiered(r.content.rules)
  /\ \A s, t \in Sessions :
       s # t /\ ses[s].pc # "idle" /\ ses[t].pc # "idle" => ses[s].req # ses[t].req

Views == TableInv /\ \A s \in Sessions : View(ses[s])

----------------------------------------------------------------------------
(* The tables only grow. *)

\* What a step does to the rows.
LEMMA RowKinds ==
  ASSUME IInv, [Next]_vars
  PROVE  \/ rows' = rows
         \/ \E s \in Sessions :
              /\ ses[s].pc = "insert" /\ ses[s].ver \notin Versions(ses[s].seq)
              /\ Stored(s) /\ Goto(s, "done") /\ UNCHANGED requests
<1>1. ASSUME NEW p \in Procs, Boot(p) \/ TokenInsert(p) \/ Banner(p)
      PROVE  rows' = rows
  BY <1>1 DEF Boot, TokenInsert, Banner
<1>2. ASSUME NEW s \in Sessions, Arrive(s)
      PROVE  rows' = rows
  BY <1>2 DEF Arrive, Request, data
<1>3. ASSUME NEW s \in Sessions,
             \/ Respond(s) \/ Validate(s) \/ NextVersion(s)
             \/ Mint(s) \/ Load(s) \/ Change(s) \/ Authenticate(s) \/ Touch(s)
      PROVE  rows' = rows
  BY <1>3, Zenon DEF Respond, Validate, NextVersion, Mint, Load, Change, Authenticate,
     Touch, data
<1>4. ASSUME NEW s \in Sessions,
             \/ Ensure(s) \/ EnsureInsert(s) \/ KillSwitch(s) \/ Work(s)
             \/ GetProject(s) \/ Stub(s) \/ ReadGlobal(s) \/ ReadOverlay(s)
             \/ ReadChannel(s) \/ Compile(s)
      PROVE  rows' = rows
  BY <1>4, Zenon DEF Ensure, EnsureInsert, KillSwitch, Work, GetProject, Stub, ReadGlobal,
     ReadOverlay, ReadChannel, Compile, data
<1>5. ASSUME NEW s \in Sessions, Insert(s)
      PROVE  \/ rows' = rows
             \/ /\ ses[s].pc = "insert" /\ ses[s].ver \notin Versions(ses[s].seq)
                /\ Stored(s) /\ Goto(s, "done") /\ UNCHANGED requests
  BY <1>5 DEF Insert
<1>6. ASSUME Crash \/ UNCHANGED vars
      PROVE  rows' = rows
  BY <1>6 DEF Crash, vars
<1> QED
  BY <1>1, <1>2, <1>3, <1>4, <1>5, <1>6 DEF Next

\* No row is lost, and what was under a version stays under it.
LEMMA TablesGrow ==
  ASSUME IInv, TableInv, [Next]_vars, NEW q \in Seqs
  PROVE  /\ rows \subseteq rows'
         /\ Versions(q) \subseteq Versions(q)'
         /\ \A v \in Versions(q) \cup {0} : ContentOf(q, v)' = ContentOf(q, v)
<1>1. CASE rows' = rows
  BY <1>1 DEF Versions, OfSeq, ContentOf
<1>2. ASSUME NEW s \in Sessions, ses[s].ver \notin Versions(ses[s].seq), Stored(s)
      PROVE  /\ rows \subseteq rows'
             /\ Versions(q) \subseteq Versions(q)'
             /\ \A v \in Versions(q) \cup {0} : ContentOf(q, v)' = ContentOf(q, v)
  <2> DEFINE row == [seq |-> ses[s].seq, version |-> ses[s].ver,
                     content |-> ses[s].content, by |-> ses[s].req]
  <2>1. rows' = rows \cup {row} /\ row.seq = ses[s].seq /\ row.version = ses[s].ver
    BY <1>2 DEF Stored
  <2> HIDE DEF row
  <2>2. Versions(q) \subseteq Versions(q)'
    BY <2>1 DEF Versions, OfSeq
  <2>3. ASSUME NEW v \in Versions(q) \cup {0} PROVE ContentOf(q, v)' = ContentOf(q, v)
    <3>1. CASE v = 0
      BY <3>1 DEF ContentOf
    <3>2. CASE v # 0
      <4>1. PICK r \in rows : r.seq = q /\ r.version = v
        BY <3>2 DEF Versions, OfSeq
      <4>2. ~(row.seq = q /\ row.version = v)
        BY <1>2, <2>1, <4>1 DEF Versions, OfSeq
      <4>3. /\ \A x \in rows : x.seq = q /\ x.version = v => x = r
            /\ \A x \in rows' : x.seq = q /\ x.version = v => x = r
        BY <2>1, <4>1, <4>2 DEF TableInv
      <4>4. ContentOf(q, v) = r.content /\ ContentOf(q, v)' = r.content
        <5> DEFINE c == CHOOSE x \in rows : x.seq = q /\ x.version = v
                   d == CHOOSE x \in rows' : x.seq = q /\ x.version = v
        <5>1. /\ r \in rows /\ r.seq = q /\ r.version = v
              /\ r \in rows'
          BY <2>1, <4>1
        <5>2. c \in rows /\ c.seq = q /\ c.version = v
          BY <5>1, Zenon
        <5>3. d \in rows' /\ d.seq = q /\ d.version = v
          BY <5>1, Zenon
        <5> HIDE DEF c, d
        <5>4. c = r /\ d = r
          BY <4>3, <5>2, <5>3
        <5>5. ContentOf(q, v) = c.content
          BY <3>2, Zenon DEF ContentOf, c
        <5>6. ContentOf(q, v)' = d.content
          BY <3>2, Zenon DEF ContentOf, d
        <5> QED
          BY <5>4, <5>5, <5>6
      <4> QED
        BY <4>4
    <3> QED
      BY <3>1, <3>2
  <2> QED
    BY <2>1, <2>2, <2>3
<1> QED
  BY <1>1, <1>2, RowKinds

\* The numbers of requests only grow.
LEMMA RequestsGrow ==
  ASSUME IInv, [Next]_vars
  PROVE  requests \in Nat /\ requests' \in Nat /\ requests <= requests'
<1>0. requests \in Nat /\ requests' \in Nat
  BY NextIInv, RegistryAssumption DEF IInv, TypeOK
<1>1. requests' = requests \/ requests' = requests + 1
  <2>1. ASSUME NEW p \in Procs, Boot(p) \/ TokenInsert(p) \/ Banner(p)
        PROVE  requests' = requests
    BY <2>1 DEF Boot, TokenInsert, Banner
  <2>2. ASSUME NEW s \in Sessions, Arrive(s)
        PROVE  requests' = requests + 1
    BY <2>2, Zenon DEF Arrive, Request
  <2>3. ASSUME NEW s \in Sessions,
               \/ Respond(s) \/ Validate(s) \/ NextVersion(s) \/ Insert(s)
               \/ Mint(s) \/ Load(s) \/ Change(s) \/ Authenticate(s) \/ Touch(s)
        PROVE  requests' = requests
    BY <2>3, Zenon DEF Respond, Validate, NextVersion, Insert, Mint, Load, Change,
       Authenticate, Touch
  <2>4. ASSUME NEW s \in Sessions,
               \/ Ensure(s) \/ EnsureInsert(s) \/ KillSwitch(s) \/ Work(s)
               \/ GetProject(s) \/ Stub(s) \/ ReadGlobal(s) \/ ReadOverlay(s)
               \/ ReadChannel(s) \/ Compile(s)
        PROVE  requests' = requests
    BY <2>4, Zenon DEF Ensure, EnsureInsert, KillSwitch, Work, GetProject, Stub,
       ReadGlobal, ReadOverlay, ReadChannel, Compile
  <2>5. ASSUME Crash \/ UNCHANGED vars
        PROVE  requests' = requests
    BY <2>5 DEF Crash, vars
  <2> QED
    BY <2>1, <2>2, <2>3, <2>4, <2>5 DEF Next
<1> QED
  BY <1>0, <1>1

----------------------------------------------------------------------------
(* What a step does to a session. *)

Others(s) == \A t \in Sessions \ {s} : ses'[t] = ses[t]

\* The request and what it came with stay.
Carries(s) ==
  /\ ses[s].pc # "idle"
  /\ ses'[s].op = ses[s].op /\ ses'[s].seq = ses[s].seq
  /\ ses'[s].content = ses[s].content /\ ses'[s].req = ses[s].req
  /\ ses'[s].since = ses[s].since

\* Nothing that View is about changes.
Same(s) ==
  /\ ses'[s].pc = ses[s].pc /\ ses'[s].op = ses[s].op /\ ses'[s].seq = ses[s].seq
  /\ ses'[s].content = ses[s].content /\ ses'[s].req = ses[s].req
  /\ ses'[s].since = ses[s].since /\ ses'[s].tries = ses[s].tries
  /\ ses'[s].ver = ses[s].ver /\ ses'[s].read = ses[s].read
  /\ ses'[s].reply = ses[s].reply

Harmless == Pcs \ (Writing \cup {"refused", "failed", "overlay", "channel", "compile", "served"})

\* On to a step that promises nothing.
Plain(s) ==
  /\ Carries(s) /\ ses'[s].pc \in Harmless
  /\ ses'[s].pc \in Fetching => ses[s].pc \in Fetching

Began(s) ==
  LET new == ses'[s] IN
  /\ ses[s].pc = "idle" /\ Others(s)
  /\ requests' = requests + 1 /\ new.req = requests'
  /\ new.pc \in {"validate", "mint", "mget", "auth", "ensure"}
  /\ new.pc = "auth" => new.op = "bootstrap"
  /\ new.pc = "validate" /\ new.seq = "global" => new.op = "global"
  /\ new.tries = 0 /\ \A x \in Seqs : new.since[x] \in {0, Top(x)}

\* The steps of a writer.
Wrote(s) ==
  LET me == ses[s]
      new == ses'[s]
  IN
  /\ Carries(s)
  /\ \/ /\ me.pc = "validate" /\ new.pc = "next" /\ new.tries = me.tries
        /\ me.op = "global" => Tiered(me.content.rules)
     \/ /\ me.pc = "next" /\ new.pc = "insert"
        /\ new.tries = me.tries + 1 /\ new.ver = Top(me.seq) + 1
     \/ /\ me.pc = "insert" /\ me.ver \in Versions(me.seq) /\ new.tries = me.tries
        /\ \/ new.pc \in {"next", "failed"}
           \/ new.pc = "refused" /\ ~(me.tries < MaxAttempts)

\* The steps of a bootstrap.
Fetched(s) ==
  LET me == ses[s]
      new == ses'[s]
  IN
  /\ Carries(s)
  /\ \/ me.pc = "stub" /\ new.pc = "failed"
     \/ /\ me.pc = "global" /\ new.pc = "overlay" /\ new.read.global = Top("global")
     \/ /\ me.pc = "overlay" /\ new.pc = "channel"
        /\ new.read.global = me.read.global /\ new.read.overlay = Top(me.seq)
     \/ /\ me.pc = "channel" /\ new.pc = "compile"
        /\ new.read = me.read /\ new.reply.channel = Top("notify")
     \/ /\ me.pc = "compile" /\ new.pc = "served"
        /\ LET d == CompileDoctrine(me.seq, me.read.global, me.read.overlay)
               r == new.reply
           IN  /\ r.global = d.global /\ r.overlay = d.overlay
               /\ r.fixed = d.fixed /\ r.kept = d.kept /\ r.replaced = d.replaced
               /\ r.channel = me.reply.channel

Kinds(s) == Same(s) \/ ses'[s] = Idle \/ Plain(s) \/ Began(s) \/ Wrote(s) \/ Fetched(s)

\* A session that did not move.
LEMMA SameIfUnmoved ==
  ASSUME NEW s \in Sessions, ses'[s] = ses[s]
  PROVE  Same(s)
BY DEF Same

\* Goto changes the program counter only.
LEMMA GotoFields ==
  ASSUME TypeOK, NEW s \in Sessions, NEW c \in Pcs, ses[s].pc # "idle", Goto(s, c)
  PROVE  /\ Others(s) /\ Carries(s) /\ ses'[s].pc = c
         /\ ses'[s].tries = ses[s].tries /\ ses'[s].ver = ses[s].ver
         /\ ses'[s].read = ses[s].read /\ ses'[s].reply = ses[s].reply
<1>1. ses[s] \in Session /\ ses \in [Sessions -> Session]
  BY DEF TypeOK
<1>2. ses'[s] = [ses[s] EXCEPT !.pc = c] /\ Others(s)
  BY <1>1 DEF Goto, Others
<1> DEFINE me == ses[s]
           new == ses'[s]
<1>3. me \in Session /\ new = [me EXCEPT !.pc = c] /\ me.pc # "idle"
  BY <1>1, <1>2
<1> HIDE DEF me, new
<1>4. /\ new.op = me.op /\ new.seq = me.seq /\ new.content = me.content
      /\ new.req = me.req /\ new.since = me.since /\ new.pc = c
      /\ new.tries = me.tries /\ new.ver = me.ver
      /\ new.read = me.read /\ new.reply = me.reply
  BY <1>3 DEF Session
<1> QED
  BY <1>2, <1>3, <1>4 DEF Carries, me, new

\* An answered or cancelled request.
LEMMA ResetFields ==
  ASSUME TypeOK, NEW s \in Sessions, Reset(s)
  PROVE  ses'[s] = Idle /\ Others(s)
BY DEF Reset, TypeOK, Others

\* A loaded machine row changes nothing that View is about.
LEMMA LoadFields ==
  ASSUME TypeOK, NEW s \in Sessions, NEW row, NEW c \in Pcs, ses[s].pc # "idle",
         ses' = [ses EXCEPT ![s].seen = row, ![s].pc = c]
  PROVE  Others(s) /\ Carries(s) /\ ses'[s].pc = c
<1>1. ses[s] \in Session /\ ses \in [Sessions -> Session]
  BY DEF TypeOK
<1>2. ses'[s] = [ses[s] EXCEPT !.seen = row, !.pc = c] /\ Others(s)
  BY <1>1 DEF Others
<1> DEFINE me == ses[s]
           new == ses'[s]
<1>3. me \in Session /\ new = [me EXCEPT !.seen = row, !.pc = c] /\ me.pc # "idle"
  BY <1>1, <1>2
<1> HIDE DEF me, new
<1>4. /\ new.op = me.op /\ new.seq = me.seq /\ new.content = me.content
      /\ new.req = me.req /\ new.since = me.since /\ new.pc = c
  BY <1>3 DEF Session
<1> QED
  BY <1>2, <1>3, <1>4 DEF Carries, me, new

\* A request that comes.
LEMMA RequestFields ==
  ASSUME IInv, NEW s \in Sessions,
         NEW op \in {"global", "notify", "llm", "overlay", "mint", "revoke",
                     "reactivate", "update", "bootstrap", "reserved"},
         NEW q \in Seqs, NEW c, NEW m,
         op # "global" /\ q = "global" => op \notin {"notify", "llm", "overlay"},
         Request(s, op, q, c, m)
  PROVE  Began(s)
<1> DEFINE from == [x \in Seqs |->
                     IF x = q \/ (op = "bootstrap" /\ x \in {"global", "notify"})
                     THEN Top(x) ELSE 0]
           late == op \in {"bootstrap", "reserved"} /\ m \in barred
           first == FirstStep(op)
           number == requests + 1
           new == ses'[s]
<1>0. ses \in [Sessions -> Session]
  BY DEF IInv, TypeOK
<1>1. /\ ses[s].pc = "idle" /\ requests' = number
      /\ ses' = [ses EXCEPT ![s] = [Idle EXCEPT
           !.pc = first, !.op = op, !.seq = q, !.content = c, !.mach = m,
           !.req = number, !.late = late, !.since = from]]
  BY DEF Request
<1>2. /\ first \in {"validate", "mint", "mget", "auth", "ensure"}
      /\ first = "auth" => op = "bootstrap"
      /\ first = "validate" => op \in {"global", "notify", "llm", "overlay"}
  BY DEF FirstStep
<1>3. \A x \in Seqs : from[x] \in {0, Top(x)}
  OBVIOUS
<1> HIDE DEF from, late, first
<1>4. /\ Others(s)
      /\ new = [Idle EXCEPT
           !.pc = first, !.op = op, !.seq = q, !.content = c, !.mach = m,
           !.req = number, !.late = late, !.since = from]
  BY <1>0, <1>1 DEF Others
<1> HIDE DEF new, number
<1>5. /\ new.pc = first /\ new.op = op /\ new.seq = q /\ new.req = number
      /\ new.tries = 0 /\ new.since = from
  BY <1>4 DEF Idle
<1> QED
  BY <1>1, <1>2, <1>3, <1>4, <1>5 DEF Began, new, number

\* What a step of a session does to it, and to the others.
Moved(s) == Kinds(s) /\ \A t \in Sessions \ {s} : Same(t)

LEMMA MovedAlone ==
  ASSUME NEW s \in Sessions, Others(s), Kinds(s)
  PROVE  Moved(s)
BY SameIfUnmoved DEF Moved, Others

LEMMA PlainMoved ==
  ASSUME TypeOK, NEW s \in Sessions, NEW c \in Harmless, ses[s].pc # "idle", Goto(s, c),
         c \in Fetching => ses[s].pc \in Fetching
  PROVE  Moved(s)
<1>1. c \in Pcs
  BY DEF Harmless
<1>2. Others(s) /\ Carries(s) /\ ses'[s].pc = c
  BY <1>1, GotoFields
<1> QED
  BY <1>2, MovedAlone DEF Plain, Kinds

LEMMA ResetMoved ==
  ASSUME TypeOK, NEW s \in Sessions, Reset(s)
  PROVE  Moved(s)
BY ResetFields, MovedAlone DEF Kinds

LEMMA ArriveMoved ==
  ASSUME IInv, NEW s \in Sessions, Arrive(s)
  PROVE  Moved(s)
<1>0. /\ "global" \in Seqs /\ "notify" \in Seqs /\ "llm" \in Seqs
      /\ Projects \subseteq Seqs /\ Projects \cap {"global", "notify", "llm"} = {}
  BY RegistryAssumption DEF Seqs
<1>1. Began(s)
  <2>1. CASE \E b \in Rulebooks :
               Request(s, "global", "global", [Blank EXCEPT !.rules = b], Reserved)
    BY <1>0, <2>1, RequestFields
  <2>2. CASE \E b \in Overlays, p \in Projects :
               Request(s, "overlay", p, [Blank EXCEPT !.over = b.over, !.add = b.add], Reserved)
    BY <1>0, <2>2, RequestFields
  <2>3. CASE \E q \in {"notify", "llm"}, ok \in BOOLEAN :
               Request(s, q, q, [Blank EXCEPT !.ok = ok], Reserved)
    BY <1>0, <2>3, RequestFields
  <2>4. CASE \E m \in Machines, p \in Projects : Request(s, "bootstrap", p, Blank, m)
    BY <1>0, <2>4, RequestFields
  <2>5. CASE \E m \in Machines : Request(s, "mint", "global", Blank, m)
    BY <1>0, <2>5, RequestFields
  <2>6. CASE \E m \in Identities, op \in {"revoke", "reactivate"} :
               Request(s, op, "global", Blank, m)
    BY <1>0, <2>6, RequestFields
  <2>7. CASE \E m \in Identities, ok \in BOOLEAN :
               Request(s, "update", "global", [Blank EXCEPT !.ok = ok], m)
    BY <1>0, <2>7, RequestFields
  <2>8. CASE Request(s, "reserved", "global", Blank, Reserved)
    BY <1>0, <2>8, RequestFields
  <2> QED
    BY <2>1, <2>2, <2>3, <2>4, <2>5, <2>6, <2>7, <2>8 DEF Arrive
<1> QED
  BY <1>1, MovedAlone DEF Kinds, Began

LEMMA ValidateMoved ==
  ASSUME IInv, NEW s \in Sessions, Validate(s)
  PROVE  Moved(s)
<1>0. TypeOK /\ ses[s].pc = "validate"
  BY DEF IInv, Validate
<1>1. \/ Reset(s)
      \/ Goto(s, "next") /\ (ses[s].op = "global" => ValidRules(ses[s].content.rules))
  BY DEF Validate
<1>2. CASE Reset(s)
  BY <1>0, <1>2, ResetMoved
<1>3. CASE Goto(s, "next") /\ (ses[s].op = "global" => ValidRules(ses[s].content.rules))
  <2>1. /\ Others(s) /\ Carries(s) /\ ses'[s].pc = "next" /\ ses'[s].tries = ses[s].tries
    BY <1>0, <1>3, GotoFields DEF Pcs
  <2>2. ses[s].op = "global" => Tiered(ses[s].content.rules)
    BY <1>3 DEF ValidRules, Elems, Tiered
  <2> QED
    BY <1>0, <2>1, <2>2, MovedAlone DEF Wrote, Kinds
<1> QED
  BY <1>1, <1>2, <1>3

LEMMA NextVersionMoved ==
  ASSUME IInv, NEW s \in Sessions, NextVersion(s)
  PROVE  Moved(s)
<1> DEFINE v == Top(ses[s].seq) + 1
           n == ses[s].tries + 1
           me == ses[s]
           new == ses'[s]
<1>1. ses \in [Sessions -> Session] /\ ses[s] \in Session /\ ses[s].pc = "next"
  BY DEF IInv, TypeOK, NextVersion
<1>2. ses' = [ses EXCEPT ![s].ver = v, ![s].tries = n, ![s].pc = "insert"]
  BY DEF NextVersion
<1> HIDE DEF v, n
<1>3. Others(s) /\ new = [me EXCEPT !.ver = v, !.tries = n, !.pc = "insert"]
  BY <1>1, <1>2 DEF Others
<1>4. me \in Session /\ me.pc = "next"
  BY <1>1
<1> HIDE DEF me, new
<1>5. /\ new.op = me.op /\ new.seq = me.seq /\ new.content = me.content
      /\ new.req = me.req /\ new.since = me.since /\ new.pc = "insert"
      /\ new.tries = n /\ new.ver = v
  BY <1>3, <1>4 DEF Session
<1>6. Carries(s)
  BY <1>4, <1>5 DEF Carries, me, new
<1>7. Wrote(s)
  BY <1>4, <1>5, <1>6 DEF Wrote, me, new, v, n
<1> QED
  BY <1>3, <1>7, MovedAlone DEF Kinds

LEMMA InsertMoved ==
  ASSUME IInv, NEW s \in Sessions, Insert(s)
  PROVE  Moved(s)
<1>0. TypeOK /\ ses[s].pc = "insert"
  BY DEF IInv, Insert
<1>1. CASE Goto(s, "done")
  BY <1>0, <1>1, PlainMoved DEF Harmless, Pcs, Writing, Fetching
<1>2. CASE ses[s].ver \in Versions(ses[s].seq) /\ Collide(s)
  <2> DEFINE c == IF ses[s].op \notin {"notify", "llm"} THEN "failed"
                  ELSE IF ses[s].tries < MaxAttempts THEN "next" ELSE "refused"
  <2>1. Goto(s, c)
    BY <1>2 DEF Collide
  <2>2. c \in {"next", "failed"} \/ (c = "refused" /\ ~(ses[s].tries < MaxAttempts))
    OBVIOUS
  <2> HIDE DEF c
  <2>3. c \in Pcs
    BY <2>2 DEF Pcs
  <2>4. Others(s) /\ Carries(s) /\ ses'[s].pc = c /\ ses'[s].tries = ses[s].tries
    BY <1>0, <2>1, <2>3, GotoFields
  <2>5. Wrote(s)
    BY <1>0, <1>2, <2>2, <2>4 DEF Wrote
  <2> QED
    BY <2>4, <2>5, MovedAlone DEF Kinds
<1> QED
  BY <1>1, <1>2 DEF Insert

\* The machines: View is not about them.
LEMMA MachineMoved ==
  ASSUME IInv, NEW s \in Sessions,
         \/ Mint(s) \/ Load(s) \/ Authenticate(s) \/ Touch(s)
         \/ Ensure(s) \/ EnsureInsert(s) \/ KillSwitch(s) \/ Work(s)
  PROVE  Moved(s)
<1>0. TypeOK
  BY DEF IInv
<1>1. {"done", "mset", "touch", "project", "ensureins", "ensureget", "status", "work"} \subseteq Harmless
  BY DEF Harmless, Pcs, Writing
<1>2. ASSUME Mint(s) \/ Work(s) PROVE Moved(s)
  <2>1. ses[s].pc # "idle" /\ Goto(s, "done")
    BY <1>2 DEF Mint, Work
  <2> QED
    BY <1>0, <1>1, <2>1, PlainMoved DEF Fetching
<1>3. ASSUME Touch(s) PROVE Moved(s)
  <2>1. ses[s].pc = "touch" /\ Goto(s, "project")
    BY <1>3 DEF Touch
  <2> QED
    BY <1>0, <1>1, <2>1, PlainMoved DEF Fetching
<1>4. ASSUME KillSwitch(s) PROVE Moved(s)
  <2>1. ses[s].pc = "status" /\ (Reset(s) \/ Goto(s, "work"))
    BY <1>4 DEF KillSwitch
  <2> QED
    BY <1>0, <1>1, <2>1, PlainMoved, ResetMoved DEF Fetching
<1>5. ASSUME NEW row, NEW c \in {"mset", "touch", "status"}, ses[s].pc # "idle",
             ses' = [ses EXCEPT ![s].seen = row, ![s].pc = c],
             c = "touch" => ses[s].pc = "auth"
      PROVE  Moved(s)
  <2>1. c \in Pcs /\ c \in Harmless /\ (c \in Fetching => ses[s].pc \in Fetching)
    BY <1>1, <1>5 DEF Fetching, Pcs
  <2>2. Others(s) /\ Carries(s) /\ ses'[s].pc = c
    BY <1>0, <1>5, <2>1, LoadFields
  <2> QED
    BY <2>1, <2>2, MovedAlone DEF Plain, Kinds
<1>6. ASSUME Load(s) PROVE Moved(s)
  <2> DEFINE row == machines[ses[s].mach]
  <2>1. /\ ses[s].pc = "mget"
        /\ Reset(s) \/ ses' = [ses EXCEPT ![s].seen = row, ![s].pc = "mset"]
    BY <1>6 DEF Load
  <2> HIDE DEF row
  <2> QED
    BY <1>0, <1>5, <2>1, ResetMoved
<1>7. ASSUME Authenticate(s) PROVE Moved(s)
  <2> DEFINE row == machines[ses[s].mach]
  <2>1. /\ ses[s].pc = "auth"
        /\ Reset(s) \/ ses' = [ses EXCEPT ![s].seen = row, ![s].pc = "touch"]
    BY <1>7 DEF Authenticate
  <2> HIDE DEF row
  <2> QED
    BY <1>0, <1>5, <2>1, ResetMoved
<1>8. ASSUME NEW c \in {"ensureins", "ensureget"}, ses[s].pc # "idle", Goto(s, c)
      PROVE  Moved(s)
  BY <1>0, <1>1, <1>8, PlainMoved DEF Fetching
<1>9. ASSUME Ensure(s) PROVE Moved(s)
  <2> DEFINE row == machines[Reserved]
  <2>1. /\ ses[s].pc # "idle"
        /\ Goto(s, "ensureins") \/ ses' = [ses EXCEPT ![s].seen = row, ![s].pc = "status"]
    BY <1>9 DEF Ensure
  <2> HIDE DEF row
  <2> QED
    BY <1>5, <1>8, <2>1
<1>10. ASSUME EnsureInsert(s) PROVE Moved(s)
  <2>1. /\ ses[s].pc # "idle"
        /\ \/ Goto(s, "ensureget")
           \/ ses' = [ses EXCEPT ![s].seen = Enrolled, ![s].pc = "status"]
    BY <1>10 DEF EnsureInsert
  <2> QED
    BY <1>5, <1>8, <2>1
<1> QED
  BY <1>2, <1>3, <1>4, <1>6, <1>7, <1>9, <1>10

\* A change of a machine settles only who is late, in the other sessions.
LEMMA ChangeMoved ==
  ASSUME IInv, NEW s \in Sessions, Change(s)
  PROVE  Moved(s)
<1>1. /\ ses \in [Sessions -> Session] /\ ses[s] \in Session /\ ses[s].pc = "mset"
      /\ ses' = [x \in Sessions |->
           IF x = s THEN [ses[x] EXCEPT !.pc = "done"]
           ELSE [ses[x] EXCEPT !.late = @ /\ ses[x].mach \in barred']]
  BY DEF IInv, TypeOK, Change
<1>2. Plain(s)
  <2> DEFINE me == ses[s]
             new == ses'[s]
  <2>1. me \in Session /\ me.pc = "mset" /\ new = [me EXCEPT !.pc = "done"]
    BY <1>1
  <2> HIDE DEF me, new
  <2>2. /\ new.op = me.op /\ new.seq = me.seq /\ new.content = me.content
        /\ new.req = me.req /\ new.since = me.since /\ new.pc = "done"
    BY <2>1 DEF Session
  <2> QED
    BY <2>1, <2>2 DEF Plain, Carries, Harmless, Pcs, Writing, Fetching, me, new
<1>3. ASSUME NEW t \in Sessions \ {s} PROVE Same(t)
  <2> DEFINE me == ses[t]
             new == ses'[t]
             late == me.late /\ me.mach \in barred'
  <2>1. new = [me EXCEPT !.late = late]
    BY <1>1, Zenon
  <2>2. me \in Session
    BY <1>1
  <2> HIDE DEF me, new, late
  <2>3. /\ new.op = me.op /\ new.seq = me.seq /\ new.content = me.content
        /\ new.req = me.req /\ new.since = me.since /\ new.pc = me.pc
        /\ new.tries = me.tries /\ new.ver = me.ver
        /\ new.read = me.read /\ new.reply = me.reply
    BY <2>1, <2>2 DEF Session
  <2> QED
    BY <2>3 DEF Same, me, new
<1> QED
  BY <1>2, <1>3 DEF Moved, Kinds

LEMMA GetProjectMoved ==
  ASSUME IInv, NEW s \in Sessions, GetProject(s)
  PROVE  Moved(s)
<1>1. /\ TypeOK /\ ses[s].pc = "project"
      /\ \E c \in {"global", "stub"} : Goto(s, c)
  BY DEF IInv, GetProject
<1> QED
  BY <1>1, PlainMoved DEF Harmless, Pcs, Writing, Fetching

LEMMA StubMoved ==
  ASSUME IInv, NEW s \in Sessions, Stub(s)
  PROVE  Moved(s)
<1>1. TypeOK /\ ses \in [Sessions -> Session] /\ ses[s] \in Session /\ ses[s].pc = "stub"
  BY DEF IInv, TypeOK, Stub
<1>2. CASE Goto(s, "failed")
  <2>1. Others(s) /\ Carries(s) /\ ses'[s].pc = "failed"
    BY <1>1, <1>2, GotoFields DEF Pcs
  <2> QED
    BY <1>1, <2>1, MovedAlone DEF Fetched, Kinds
<1>3. CASE ses' = [ses EXCEPT ![s].stub = TRUE, ![s].pc = "global"]
  <2> DEFINE me == ses[s]
             new == ses'[s]
  <2>1. Others(s) /\ new = [me EXCEPT !.stub = TRUE, !.pc = "global"] /\ me \in Session
        /\ me.pc = "stub"
    BY <1>1, <1>3 DEF Others
  <2> HIDE DEF me, new
  <2>2. /\ new.op = me.op /\ new.seq = me.seq /\ new.content = me.content
        /\ new.req = me.req /\ new.since = me.since /\ new.pc = "global"
    BY <2>1 DEF Session
  <2>3. Plain(s)
    BY <2>1, <2>2 DEF Plain, Carries, Harmless, Pcs, Writing, Fetching, me, new
  <2> QED
    BY <2>1, <2>3, MovedAlone DEF Kinds
<1> QED
  BY <1>2, <1>3 DEF Stub

LEMMA ReadGlobalMoved ==
  ASSUME IInv, NEW s \in Sessions, ReadGlobal(s)
  PROVE  Moved(s)
<1> DEFINE v == Top("global")
           me == ses[s]
           new == ses'[s]
<1>1. ses \in [Sessions -> Session] /\ ses[s] \in Session /\ ses[s].pc = "global"
  BY DEF IInv, TypeOK, ReadGlobal
<1>2. ses' = [ses EXCEPT ![s].read.global = v, ![s].pc = "overlay"]
  BY DEF ReadGlobal
<1> HIDE DEF v
<1>3. Others(s) /\ new = [me EXCEPT !.read.global = v, !.pc = "overlay"]
  BY <1>1, <1>2 DEF Others
<1>4. me \in Session /\ me.pc = "global"
  BY <1>1
<1> HIDE DEF me, new
<1>5. /\ new.op = me.op /\ new.seq = me.seq /\ new.content = me.content
      /\ new.req = me.req /\ new.since = me.since /\ new.pc = "overlay"
      /\ new.read = [me.read EXCEPT !.global = v] /\ me.read \in [global : Nat, overlay : Nat]
  BY <1>3, <1>4 DEF Session
<1>6. new.read.global = v
  BY <1>5
<1>7. Fetched(s)
  BY <1>4, <1>5, <1>6 DEF Carries, Fetched, me, new, v
<1> QED
  BY <1>3, <1>7, MovedAlone DEF Kinds

LEMMA ReadOverlayMoved ==
  ASSUME IInv, NEW s \in Sessions, ReadOverlay(s)
  PROVE  Moved(s)
<1> DEFINE v == Top(ses[s].seq)
           me == ses[s]
           new == ses'[s]
<1>1. ses \in [Sessions -> Session] /\ ses[s] \in Session /\ ses[s].pc = "overlay"
  BY DEF IInv, TypeOK, ReadOverlay
<1>2. ses' = [ses EXCEPT ![s].read.overlay = v, ![s].pc = "channel"]
  BY DEF ReadOverlay
<1> HIDE DEF v
<1>3. Others(s) /\ new = [me EXCEPT !.read.overlay = v, !.pc = "channel"]
  BY <1>1, <1>2 DEF Others
<1>4. me \in Session /\ me.pc = "overlay"
  BY <1>1
<1> HIDE DEF me, new
<1>5. /\ new.op = me.op /\ new.seq = me.seq /\ new.content = me.content
      /\ new.req = me.req /\ new.since = me.since /\ new.pc = "channel"
      /\ new.read = [me.read EXCEPT !.overlay = v] /\ me.read \in [global : Nat, overlay : Nat]
  BY <1>3, <1>4 DEF Session
<1>6. new.read.global = me.read.global /\ new.read.overlay = v
  BY <1>5
<1>7. Fetched(s)
  BY <1>4, <1>5, <1>6 DEF Carries, Fetched, me, new, v
<1> QED
  BY <1>3, <1>7, MovedAlone DEF Kinds

LEMMA ReadChannelMoved ==
  ASSUME IInv, NEW s \in Sessions, ReadChannel(s)
  PROVE  Moved(s)
<1> DEFINE v == Top("notify")
           me == ses[s]
           new == ses'[s]
<1>1. ses \in [Sessions -> Session] /\ ses[s] \in Session /\ ses[s].pc = "channel"
  BY DEF IInv, TypeOK, ReadChannel
<1>2. ses' = [ses EXCEPT ![s].reply.channel = v, ![s].pc = "compile"]
  BY DEF ReadChannel
<1> HIDE DEF v
<1>3. Others(s) /\ new = [me EXCEPT !.reply.channel = v, !.pc = "compile"]
  BY <1>1, <1>2 DEF Others
<1>4. me \in Session /\ me.pc = "channel"
  BY <1>1
<1> HIDE DEF me, new
<1>5. /\ new.op = me.op /\ new.seq = me.seq /\ new.content = me.content
      /\ new.req = me.req /\ new.since = me.since /\ new.pc = "compile"
      /\ new.read = me.read
      /\ new.reply = [me.reply EXCEPT !.channel = v] /\ me.reply \in Reply
  BY <1>3, <1>4 DEF Session
<1>6. new.reply.channel = v
  BY <1>5 DEF Reply
<1>7. Fetched(s)
  BY <1>4, <1>5, <1>6 DEF Carries, Fetched, me, new, v
<1> QED
  BY <1>3, <1>7, MovedAlone DEF Kinds

\* Trimming takes lessons and text, never a rule or a version.
LEMMA TrimKeepsRules ==
  ASSUME NEW r \in Reply
  PROVE  LET b == ApplySizeBudget(r) IN
         /\ b.global = r.global /\ b.overlay = r.overlay /\ b.channel = r.channel
         /\ b.fixed = r.fixed /\ b.kept = r.kept /\ b.replaced = r.replaced
<1> DEFINE fit == {k \in 0..r.lessons : Size([r EXCEPT !.lessons = k]) <= Budget}
           top == Max(fit)
<1>1. \/ ApplySizeBudget(r) = [r EXCEPT !.lessons = top]
      \/ ApplySizeBudget(r) = [r EXCEPT !.lessons = 0, !.text = FALSE]
  BY DEF ApplySizeBudget
<1> HIDE DEF top
<1> QED
  BY <1>1 DEF Reply

LEMMA CompileMoved ==
  ASSUME IInv, NEW s \in Sessions, Compile(s)
  PROVE  Moved(s)
<1>1. /\ TypeOK /\ ses \in [Sessions -> Session] /\ ses[s] \in Session /\ ses[s].pc = "compile"
      /\ Fine(ses[s])
  BY DEF IInv, TypeOK, Compile
<1>2. PICK n \in {0, Digest} :
        ses' = [ses EXCEPT
          ![s].reply = ApplySizeBudget([CompileDoctrine(ses[s].seq, ses[s].read.global,
                                                        ses[s].read.overlay)
                         EXCEPT !.channel = ses[s].reply.channel, !.lessons = n]),
          ![s].stub = FALSE, ![s].pc = "served"]
  BY DEF Compile
<1> DEFINE d == CompileDoctrine(ses[s].seq, ses[s].read.global, ses[s].read.overlay)
           chan == ses[s].reply.channel
           r == [d EXCEPT !.channel = chan, !.lessons = n]
           rep == ApplySizeBudget(r)
           me == ses[s]
           new == ses'[s]
<1>3. d \in Reply
  <2>1. /\ ses[s].read.global \in Versions("global") \cup {0}
        /\ ses[s].read.overlay \in Versions(ses[s].seq) \cup {0}
        /\ ses[s].seq \in Seqs
    BY <1>1 DEF Fine, Session
  <2> QED
    BY <1>1, <2>1, CompileTyped
<1>4. chan \in Nat /\ n \in Nat
  <2>1. ses[s].reply \in Reply
    BY <1>1 DEF Session
  <2>2. ses[s].reply.channel \in Nat
    BY <2>1 DEF Reply
  <2> QED
    BY <1>2, <2>2, RegistryAssumption
<1>5. /\ rep.global = d.global /\ rep.overlay = d.overlay /\ rep.channel = chan
      /\ rep.fixed = d.fixed /\ rep.kept = d.kept /\ rep.replaced = d.replaced
  <2> HIDE DEF d, chan
  <2>1. /\ r \in Reply /\ r.global = d.global /\ r.overlay = d.overlay /\ r.channel = chan
        /\ r.fixed = d.fixed /\ r.kept = d.kept /\ r.replaced = d.replaced
    BY <1>3, <1>4 DEF Reply
  <2> HIDE DEF r
  <2> QED
    BY <2>1, TrimKeepsRules
<1>6. ses' = [ses EXCEPT ![s].reply = rep, ![s].stub = FALSE, ![s].pc = "served"]
  BY <1>2
<1> HIDE DEF rep
<1>7. Others(s) /\ new = [me EXCEPT !.reply = rep, !.stub = FALSE, !.pc = "served"]
  BY <1>1, <1>6 DEF Others
<1>8. me \in Session /\ me.pc = "compile"
  BY <1>1
<1> HIDE DEF me, new
<1>9. /\ new.op = me.op /\ new.seq = me.seq /\ new.content = me.content
      /\ new.req = me.req /\ new.since = me.since /\ new.pc = "served" /\ new.reply = rep
  BY <1>7, <1>8 DEF Session
<1>10. d = CompileDoctrine(me.seq, me.read.global, me.read.overlay) /\ chan = me.reply.channel
  BY DEF me
<1> HIDE DEF d, chan
<1>11. Carries(s)
  BY <1>8, <1>9 DEF Carries, me, new
<1>12. Fetched(s)
  BY <1>5, <1>8, <1>9, <1>10, <1>11 DEF Fetched, me, new
<1> QED
  BY <1>7, <1>12, MovedAlone DEF Kinds

\* Every step moves at most one session, in one of these ways.
LEMMA NextMoved ==
  ASSUME IInv, [Next]_vars
  PROVE  (\A t \in Sessions : Same(t)) \/ \E s \in Sessions : Moved(s)
<1>1. ASSUME NEW p \in Procs, Boot(p) \/ TokenInsert(p) \/ Banner(p)
      PROVE  ses' = ses
  BY <1>1 DEF Boot, TokenInsert, Banner
<1>2. ASSUME NEW s \in Sessions,
             \/ Arrive(s) \/ Respond(s) \/ Validate(s) \/ NextVersion(s) \/ Insert(s)
             \/ Mint(s) \/ Load(s) \/ Change(s) \/ Authenticate(s) \/ Touch(s)
      PROVE  Moved(s)
  <2>1. TypeOK /\ (Respond(s) => Reset(s))
    BY DEF IInv, Respond
  <2> QED
    BY <1>2, <2>1, ArriveMoved, ResetMoved, ValidateMoved, NextVersionMoved, InsertMoved,
       MachineMoved, ChangeMoved
<1>3. ASSUME NEW s \in Sessions,
             \/ Ensure(s) \/ EnsureInsert(s) \/ KillSwitch(s) \/ Work(s)
             \/ GetProject(s) \/ Stub(s) \/ ReadGlobal(s) \/ ReadOverlay(s)
             \/ ReadChannel(s) \/ Compile(s)
      PROVE  Moved(s)
  BY <1>3, MachineMoved, GetProjectMoved, StubMoved, ReadGlobalMoved, ReadOverlayMoved,
     ReadChannelMoved, CompileMoved
<1>4. ASSUME Crash \/ UNCHANGED vars
      PROVE  ses' = ses \/ \E s \in Sessions : Moved(s)
  <2>1. TypeOK /\ (ses' = ses \/ \E s \in Sessions : Reset(s))
    BY <1>4 DEF IInv, Crash, vars
  <2> QED
    BY <2>1, ResetMoved
<1>5. ses' = ses \/ \E s \in Sessions : Moved(s)
  BY <1>1, <1>2, <1>3, <1>4 DEF Next
<1> QED
  BY <1>5, SameIfUnmoved

----------------------------------------------------------------------------
(* What is compiled. *)

\* The versions of a sequence are the numbers up to the highest.
LEMMA VersionsUpToTop ==
  ASSUME RowInv, NEW q \in Seqs
  PROVE  Top(q) \in Nat /\ Versions(q) = 1 .. Top(q) /\ Top(q) \in Versions(q) \cup {0}
BY TopIsCount DEF RowInv, SequencesAreGapless

\* Stored rules are of the two tiers.
LEMMA StoredRules ==
  ASSUME TypeOK, TableInv, NEW g \in Versions("global") \cup {0}
  PROVE  /\ ContentOf("global", g).rules \in Seq(Rule)
         /\ Tiered(ContentOf("global", g).rules)
<1>1. CASE g = 0
  <2>1. ContentOf("global", g).rules = <<>>
    BY <1>1 DEF ContentOf, Blank
  <2>2. <<>> \in Seq(Rule) /\ Tiered(<<>>)
    BY DEF Tiered
  <2> QED
    BY <2>1, <2>2
<1>2. CASE g # 0
  <2> DEFINE c == CHOOSE x \in rows : x.seq = "global" /\ x.version = g
  <2>1. PICK r \in rows : r.seq = "global" /\ r.version = g
    BY <1>2 DEF Versions, OfSeq
  <2>2. c \in rows /\ c.seq = "global"
    BY <2>1, Zenon
  <2>3. ContentOf("global", g) = c.content
    BY <1>2, Zenon DEF ContentOf
  <2> HIDE DEF c
  <2>4. c \in Row
    BY <2>2 DEF TypeOK
  <2>5. c.content \in Content
    BY <2>4 DEF Row
  <2> QED
    BY <2>2, <2>3, <2>5 DEF TableInv, Content
<1> QED
  BY <1>1, <1>2

\* _compile_doctrine serves every rule of the version it stamps, the
\* non-negotiable ones as they stand, and replaces what the overlay says.
LEMMA CompileIsFaithful ==
  ASSUME TypeOK, TableInv, NEW q \in Seqs,
         NEW g \in Versions("global") \cup {0}, NEW o \in Versions(q) \cup {0}
  PROVE  LET d     == CompileDoctrine(q, g, o)
             rules == ContentOf("global", d.global).rules
             over  == Elems(ContentOf(q, d.overlay).over)
         IN  /\ d.global = g /\ d.overlay \in Versions(q) \cup {0}
             /\ g # 0 => d.overlay = o
             /\ d.fixed = {x \in Elems(Ids(rules)) :
                             \E i \in DOMAIN rules :
                                rules[i] = [id |-> x, tier |-> "non_negotiable"]}
             /\ d.fixed \cup d.kept \cup d.replaced = Elems(Ids(rules))
             /\ d.replaced \subseteq over /\ d.kept \cap over = {}
<1> DEFINE d     == CompileDoctrine(q, g, o)
           rules == ContentOf("global", g).rules
           over  == Elems(ContentOf(q, o).over)
           fixed == {x \in Elems(Ids(rules)) :
                       \E i \in DOMAIN rules :
                          rules[i] = [id |-> x, tier |-> "non_negotiable"]}
<1>1. rules \in Seq(Rule) /\ Tiered(rules)
  BY StoredRules
<1>2. CASE g = 0
  <2>1. d = NoReply /\ d.global = 0 /\ d.overlay = 0
        /\ d.fixed = {} /\ d.kept = {} /\ d.replaced = {}
    BY <1>2 DEF CompileDoctrine, NoReply
  <2>2. rules = <<>>
    BY <1>2 DEF ContentOf, Blank
  <2> HIDE DEF d, rules
  <2>3. Elems(Ids(rules)) = {}
    <3>1. DOMAIN rules = {}
      BY <2>2
    <3>2. DOMAIN Ids(rules) = {}
      BY <3>1 DEF Ids
    <3> QED
      BY <3>2 DEF Elems
  <2>4. fixed = {}
    BY <2>3
  <2> QED
    BY <1>2, <2>1, <2>3, <2>4 DEF d, rules
<1>3. CASE g # 0
  <2>1. /\ d.global = g /\ d.overlay = o
        /\ d.fixed = OfTier(rules, "non_negotiable")
        /\ d.kept = OfTier(rules, "default") \ over
        /\ d.replaced = OfTier(rules, "default") \cap over
    BY <1>3 DEF CompileDoctrine, NoReply
  <2> HIDE DEF d, over
  <2>2. Elems(Ids(rules)) = {rules[i].id : i \in DOMAIN rules}
    BY DEF Elems, Ids
  <2> HIDE DEF rules
  <2>3. ASSUME NEW t, NEW x
        PROVE  x \in OfTier(rules, t) <=>
                 \E j \in DOMAIN rules : rules[j].tier = t /\ rules[j].id = x
    BY Zenon DEF OfTier, Elems
  <2>4. \A i \in DOMAIN rules : rules[i] = [id |-> rules[i].id, tier |-> rules[i].tier]
    <3>1. \A i \in DOMAIN rules : rules[i] \in Rule
      BY <1>1
    <3>2. \A x \in Rule : x = [id |-> x.id, tier |-> x.tier]
      BY DEF Rule
    <3> QED
      BY <3>1, <3>2
  <2>5. OfTier(rules, "non_negotiable") = fixed
    BY <2>2, <2>3, <2>4
  <2>6. OfTier(rules, "non_negotiable") \cup OfTier(rules, "default") = Elems(Ids(rules))
    BY <1>1, <2>2, <2>3 DEF Tiered, Tiers
  <2>7. /\ d.fixed = fixed /\ d.fixed \cup d.kept \cup d.replaced = Elems(Ids(rules))
        /\ d.replaced \subseteq over /\ d.kept \cap over = {}
    BY <2>1, <2>5, <2>6
  <2> QED
    BY <1>3, <2>1, <2>7, Zenon DEF d, rules, over
<1> QED
  BY <1>2, <1>3

----------------------------------------------------------------------------
(* What a session saw stays good. *)

\* A step of another session, or of a writer that loses, writes no row of
\* this request.
LEMMA UnwrittenKept ==
  ASSUME IInv, TableInv, [Next]_vars, NEW s \in Sessions, ses[s].pc # "idle",
         Unwritten(ses[s]), ses'[s].req = ses[s].req,
         ses[s].pc = "insert" => ses'[s].pc # "done"
  PROVE  Unwritten(ses[s])'
<1>1. CASE rows' = rows
  BY <1>1 DEF Unwritten
<1>2. ASSUME NEW t \in Sessions, ses[t].pc = "insert", Stored(t), Goto(t, "done")
      PROVE  Unwritten(ses[s])'
  <2>1. ses'[t].pc = "done"
    BY <1>2, GotoFields DEF IInv, Pcs
  <2>2. s # t
    BY <1>2, <2>1
  <2>3. ses[t].req # ses[s].req
    BY <1>2, <2>2 DEF TableInv
  <2>4. \A r \in rows' : r \in rows \/ r.by = ses[t].req
    BY <1>2 DEF Stored
  <2> QED
    BY <2>3, <2>4 DEF Unwritten
<1> QED
  BY <1>1, <1>2, RowKinds

\* What View says of every request under way.
LEMMA CommonKept ==
  ASSUME IInv, TableInv, [Next]_vars, NEW s \in Sessions, View(ses[s]),
         ses'[s].req = ses[s].req, ses'[s].since = ses[s].since,
         ses'[s].pc # "idle" => ses[s].pc # "idle"
  PROVE  /\ ses'[s].pc # "idle" => ses'[s].req \in 1..requests'
         /\ \A q \in Seqs : ses'[s].since[q] \in (Versions(q) \cup {0})'
<1>1. \A q \in Seqs : Versions(q) \subseteq Versions(q)'
  BY TablesGrow
<1>2. requests \in Nat /\ requests' \in Nat /\ requests <= requests'
  BY RequestsGrow
<1>3. ses[s].pc # "idle" => ses[s].req \in 1..requests
  BY DEF View
<1>4. ses'[s].pc # "idle" => ses'[s].req \in 1..requests'
  BY <1>2, <1>3
<1>5. \A q \in Seqs : ses[s].since[q] \in Versions(q) \cup {0}
  BY DEF View
<1> QED
  BY <1>1, <1>4, <1>5

\* Faithfulness is about what is stored, which stays.
LEMMA FaithfulKept ==
  ASSUME IInv, TableInv, [Next]_vars, NEW s \in Sessions, ses[s].seq \in Seqs,
         ses'[s].seq = ses[s].seq, ses'[s].since = ses[s].since,
         ses'[s].reply = ses[s].reply,
         ses[s].reply.global \in Versions("global") \cup {0},
         ses[s].reply.overlay \in Versions(ses[s].seq) \cup {0},
         Faithful(ses[s])
  PROVE  Faithful(ses[s])'
<1> DEFINE g == ses[s].reply.global
           o == ses[s].reply.overlay
           q == ses[s].seq
<1>1. ContentOf("global", g)' = ContentOf("global", g)
  BY TablesGrow DEF Seqs
<1>2. ContentOf(q, o)' = ContentOf(q, o)
  BY TablesGrow
<1> QED
  BY <1>1, <1>2 DEF Faithful

\* A session that is answered, cancelled, or was not concerned.
LEMMA RestingView ==
  ASSUME IInv, TableInv, [Next]_vars, NEW s \in Sessions, View(ses[s]),
         Same(s) \/ ses'[s] = Idle
  PROVE  View(ses[s])'
<1>1. CASE ses'[s] = Idle
  <2>1. /\ ses'[s].pc = "idle" /\ \A q \in Seqs : ses'[s].since[q] = 0
    BY <1>1 DEF Idle
  <2> QED
    BY <2>1 DEF View, WriterView, ReaderView, Writing, Fetching
<1>2. CASE Same(s)
  <2>0. ses[s] \in Session
    BY DEF IInv, TypeOK
  <2>1. /\ ses[s].seq \in Seqs
        /\ \A q \in Seqs : Versions(q) \subseteq Versions(q)'
    BY <2>0, TablesGrow DEF Session
  <2>2. /\ ses'[s].pc # "idle" => ses'[s].req \in 1..requests'
        /\ \A q \in Seqs : ses'[s].since[q] \in (Versions(q) \cup {0})'
    BY <1>2, CommonKept DEF Same
  <2>3. ses[s].pc # "idle" /\ Unwritten(ses[s]) => Unwritten(ses[s])'
    BY <1>2, UnwrittenKept DEF Same
  <2>4. WriterView(ses[s])'
    <3>1. WriterView(ses[s])
      BY DEF View
    <3> QED
      BY <1>2, <2>1, <2>3, <3>1 DEF Same, WriterView, Writing, Lost
  <2>5. ReaderView(ses[s])'
    <3>1. ReaderView(ses[s])
      BY DEF View
    <3>2. /\ "global" \in Seqs
          /\ ses[s].pc = "served" => Faithful(ses[s])'
      BY <1>2, <2>1, <3>1, FaithfulKept DEF Same, ReaderView, Seqs
    <3> QED
      BY <1>2, <2>1, <3>1, <3>2 DEF Same, ReaderView, Fetching
  <2> QED
    BY <2>2, <2>4, <2>5 DEF View
<1> QED
  BY <1>1, <1>2

LEMMA PlainView ==
  ASSUME IInv, TableInv, [Next]_vars, NEW s \in Sessions, View(ses[s]), Plain(s)
  PROVE  View(ses[s])'
<1>1. /\ ses'[s].pc # "idle" => ses'[s].req \in 1..requests'
      /\ \A q \in Seqs : ses'[s].since[q] \in (Versions(q) \cup {0})'
  BY CommonKept DEF Plain, Carries
<1>2. ses'[s].pc \in Fetching => ses'[s].op = "bootstrap"
  BY DEF Plain, Carries, View, ReaderView
<1>3. ses'[s].pc \notin {"validate", "next", "insert", "refused", "failed",
                         "overlay", "channel", "compile", "served"}
  BY DEF Plain, Harmless, Writing
<1> QED
  BY <1>1, <1>2, <1>3 DEF View, WriterView, ReaderView, Writing

\* A request that comes has written nothing and sees what is current.
LEMMA BeganView ==
  ASSUME IInv, TableInv, [Next]_vars, NEW s \in Sessions, Began(s)
  PROVE  View(ses[s])'
<1> DEFINE new == ses'[s]
<1>1. requests \in Nat /\ requests' = requests + 1 /\ new.req = requests'
  BY RequestsGrow DEF Began
<1>2. rows' = rows
  BY <1>1, RowKinds
<1>3. Unwritten(ses[s])'
  <2>1. \A r \in rows : r.by \in Nat /\ r.by <= requests
    BY DEF TableInv, IInv, TypeOK, Row
  <2> QED
    BY <1>1, <1>2, <2>1 DEF Unwritten
<1>4. new \in Session
  BY NextIInv DEF IInv, TypeOK
<1>5. new.seq \in Seqs /\ new.since \in [Seqs -> Nat]
  BY <1>4 DEF Session
<1>6. \A q \in Seqs : new.since[q] \in (Versions(q) \cup {0})'
  <2>1. \A q \in Seqs : Top(q) \in Versions(q) \cup {0}
    BY VersionsUpToTop DEF IInv
  <2>2. \A q \in Seqs : new.since[q] \in {0, Top(q)}
    BY DEF Began
  <2>3. \A q \in Seqs : Versions(q)' = Versions(q)
    BY <1>2 DEF Versions, OfSeq
  <2> QED
    BY <2>1, <2>2, <2>3
<1>7. /\ new.pc \in {"validate", "mint", "mget", "auth", "ensure"}
      /\ new.pc = "auth" => new.op = "bootstrap"
      /\ new.pc = "validate" /\ new.seq = "global" => new.op = "global"
      /\ new.tries = 0
  BY DEF Began
<1>8. WriterView(ses[s])'
  <2>1. new.since[new.seq] + new.tries = new.since[new.seq]
    BY <1>5, <1>7
  <2> QED
    BY <1>3, <1>5, <1>6, <1>7, <2>1 DEF WriterView, Writing
<1>9. ReaderView(ses[s])'
  BY <1>7 DEF ReaderView, Fetching
<1>10. new.req \in 1..requests'
  BY <1>1
<1> QED
  BY <1>6, <1>8, <1>9, <1>10 DEF View

\* A writer that takes the next number, and one that loses it.
LEMMA WroteView ==
  ASSUME IInv, TableInv, [Next]_vars, NEW s \in Sessions, View(ses[s]), Wrote(s)
  PROVE  View(ses[s])'
<1> DEFINE me == ses[s]
           new == ses'[s]
<1>0. me \in Session /\ new \in Session
  BY NextIInv DEF IInv, TypeOK
<1>a. me.seq \in Seqs /\ me.since \in [Seqs -> Nat]
  BY <1>0 DEF Session
<1>b. PICK q \in Seqs : q = me.seq
  BY <1>a
<1>c. PICK k \in Nat : k = me.since[q]
  BY <1>a
<1>1. me.tries \in 0..MaxAttempts /\ me.ver \in Nat /\ MaxAttempts \in Nat \ {0}
  BY <1>0, RegistryAssumption DEF Session
<1>2. /\ new.op = me.op /\ new.seq = q /\ new.content = me.content /\ new.req = me.req
      /\ new.since = me.since /\ new.since[new.seq] = k /\ me.pc # "idle"
  BY <1>b, <1>c DEF Wrote, Carries
<1>3. /\ new.pc # "idle" => new.req \in 1..requests'
      /\ \A x \in Seqs : new.since[x] \in (Versions(x) \cup {0})'
  BY <1>2, CommonKept
<1>4. /\ Top(q) \in Nat /\ Versions(q) = 1..Top(q)
      /\ Versions(q) \subseteq Versions(q)'
  <2>1. RowInv
    BY DEF IInv
  <2> QED
    BY <2>1, VersionsUpToTop, TablesGrow
<1>5. Unwritten(ses[s])'
  <2>1. Unwritten(me)
    BY DEF Wrote, View, WriterView, Writing
  <2>2. me.pc = "insert" => new.pc # "done"
    BY DEF Wrote
  <2> QED
    BY <1>2, <2>1, <2>2, UnwrittenKept
<1>6. WriterView(me)
  BY DEF View
<1>7. CASE me.pc = "validate" /\ new.pc = "next" /\ new.tries = me.tries
           /\ (me.op = "global" => Tiered(me.content.rules))
  <2>1. k + me.tries \in Versions(q) \cup {0}
    BY <1>6, <1>7, <1>b, <1>c DEF WriterView
  <2>2. new.since[new.seq] + new.tries \in Versions(q)' \cup {0}
    BY <1>2, <1>4, <1>7, <2>1
  <2>3. new.seq = "global" => Tiered(new.content.rules)
    BY <1>2, <1>6, <1>b, <1>7 DEF WriterView
  <2>4. WriterView(ses[s])'
    BY <1>2, <1>5, <1>7, <2>2, <2>3 DEF WriterView
  <2>5. ReaderView(ses[s])'
    BY <1>7 DEF ReaderView, Fetching
  <2> QED
    BY <1>3, <2>4, <2>5 DEF View
<1>8. CASE me.pc = "next" /\ new.pc = "insert" /\ new.tries = me.tries + 1
           /\ new.ver = Top(q) + 1
  <2>1. k + me.tries \in Versions(q) \cup {0}
    BY <1>6, <1>8, <1>b, <1>c DEF WriterView
  <2>2. new.tries >= 1 /\ new.ver >= new.since[new.seq] + new.tries
    BY <1>1, <1>2, <1>4, <1>8, <2>1
  <2>3. new.seq = "global" => Tiered(new.content.rules)
    BY <1>2, <1>6, <1>b, <1>8 DEF WriterView
  <2>4. WriterView(ses[s])'
    BY <1>2, <1>5, <1>8, <2>2, <2>3 DEF WriterView
  <2>5. ReaderView(ses[s])'
    BY <1>8 DEF ReaderView, Fetching
  <2> QED
    BY <1>3, <2>4, <2>5 DEF View
<1>9. CASE /\ me.pc = "insert" /\ me.ver \in Versions(q) /\ new.tries = me.tries
           /\ \/ new.pc \in {"next", "failed"}
              \/ new.pc = "refused" /\ ~(me.tries < MaxAttempts)
  <2>1. /\ me.tries >= 1 /\ me.ver >= k + me.tries
        /\ q = "global" => Tiered(me.content.rules)
    BY <1>6, <1>9, <1>b, <1>c DEF WriterView
  <2>2. /\ k + me.tries \in Versions(q) /\ k + 1 \in Versions(q)
        /\ new.pc = "refused" => me.tries = MaxAttempts
    BY <1>1, <1>4, <1>9, <2>1
  <2>3. /\ new.since[new.seq] + new.tries \in Versions(q)' \cup {0}
        /\ new.since[new.seq] + Lost(new) \in Versions(q)'
    BY <1>2, <1>4, <1>9, <2>2 DEF Lost
  <2>4. new.seq = "global" => Tiered(new.content.rules)
    BY <1>2, <2>1
  <2>5. WriterView(ses[s])'
    BY <1>2, <1>5, <1>9, <2>3, <2>4 DEF WriterView, Lost
  <2>6. ReaderView(ses[s])'
    BY <1>9 DEF ReaderView, Fetching
  <2> QED
    BY <1>3, <2>5, <2>6 DEF View
<1> QED
  BY <1>7, <1>8, <1>9, <1>b DEF Wrote

\* A bootstrap that reads the next version, and one that is served.
LEMMA FetchedView ==
  ASSUME IInv, TableInv, [Next]_vars, NEW s \in Sessions, View(ses[s]), Fetched(s)
  PROVE  View(ses[s])'
<1> DEFINE me == ses[s]
           new == ses'[s]
<1>0. /\ TypeOK /\ RowInv /\ me \in Session /\ Fine(me)
      /\ "global" \in Seqs /\ "notify" \in Seqs
  BY DEF IInv, TypeOK, Seqs
<1>1. PICK q \in Seqs : q = me.seq
  BY <1>0 DEF Session
<1>2. /\ new.op = me.op /\ new.seq = q /\ new.since = me.since /\ new.req = me.req
      /\ me.pc # "idle"
  BY <1>1 DEF Fetched, Carries
<1>3. /\ new.pc # "idle" => new.req \in 1..requests'
      /\ \A x \in Seqs : new.since[x] \in (Versions(x) \cup {0})'
  BY <1>2, CommonKept
<1>4. \A x \in Seqs : Top(x) >= me.since[x]
  <2> SUFFICES ASSUME NEW x \in Seqs PROVE Top(x) >= me.since[x]
    OBVIOUS
  <2>1. me.since[x] \in Versions(x) \cup {0}
    BY DEF View
  <2>2. Top(x) \in Nat /\ Versions(x) = 1..Top(x)
    BY <1>0, VersionsUpToTop
  <2> QED
    BY <2>1, <2>2
<1>5. ReaderView(me) /\ me.op = "bootstrap"
  BY DEF View, ReaderView, Fetched, Fetching
<1>6. CASE me.pc = "stub" /\ new.pc = "failed"
  BY <1>2, <1>3, <1>5, <1>6 DEF View, WriterView, ReaderView, Writing, Fetching
<1>7. CASE me.pc = "global" /\ new.pc = "overlay" /\ new.read.global = Top("global")
  <2>1. new.read.global >= new.since["global"]
    BY <1>0, <1>2, <1>4, <1>7
  <2> QED
    BY <1>2, <1>3, <1>5, <1>7, <2>1 DEF View, WriterView, ReaderView, Writing
<1>8. CASE /\ me.pc = "overlay" /\ new.pc = "channel"
           /\ new.read.global = me.read.global /\ new.read.overlay = Top(me.seq)
  <2>1. /\ new.read.global >= new.since["global"]
        /\ new.read.overlay >= new.since[new.seq]
    BY <1>1, <1>2, <1>4, <1>5, <1>8 DEF ReaderView
  <2> QED
    BY <1>2, <1>3, <1>5, <1>8, <2>1 DEF View, WriterView, ReaderView, Writing
<1>9. CASE /\ me.pc = "channel" /\ new.pc = "compile"
           /\ new.read = me.read /\ new.reply.channel = Top("notify")
  <2>1. /\ new.read.global >= new.since["global"]
        /\ new.read.overlay >= new.since[new.seq]
        /\ new.reply.channel >= new.since["notify"]
    BY <1>0, <1>1, <1>2, <1>4, <1>5, <1>9 DEF ReaderView
  <2> QED
    BY <1>2, <1>3, <1>5, <1>9, <2>1 DEF View, WriterView, ReaderView, Writing
<1>10. CASE /\ me.pc = "compile" /\ new.pc = "served"
            /\ LET d == CompileDoctrine(me.seq, me.read.global, me.read.overlay)
                   r == new.reply
               IN  /\ r.global = d.global /\ r.overlay = d.overlay
                   /\ r.fixed = d.fixed /\ r.kept = d.kept /\ r.replaced = d.replaced
                   /\ r.channel = me.reply.channel
  <2>1. PICK g \in Versions("global") \cup {0} : g = me.read.global
    BY <1>0 DEF Fine
  <2>2. PICK o \in Versions(q) \cup {0} : o = me.read.overlay
    BY <1>0, <1>1 DEF Fine
  <2> DEFINE d == CompileDoctrine(q, g, o)
  <2>3. /\ new.reply.global = d.global /\ new.reply.overlay = d.overlay
        /\ new.reply.fixed = d.fixed /\ new.reply.kept = d.kept
        /\ new.reply.replaced = d.replaced /\ new.reply.channel = me.reply.channel
    BY <1>1, <1>10, <2>1, <2>2
  <2>4. /\ me.read.global >= me.since["global"] /\ me.read.overlay >= me.since[q]
        /\ me.reply.channel >= me.since["notify"]
    BY <1>1, <1>5, <1>10 DEF ReaderView
  <2> DEFINE rules(v) == ContentOf("global", v).rules
             over(v) == Elems(ContentOf(q, v).over)
             Serves(v, w) ==
               /\ d.fixed = {x \in Elems(Ids(rules(v))) :
                               \E i \in DOMAIN rules(v) :
                                  rules(v)[i] = [id |-> x, tier |-> "non_negotiable"]}
               /\ d.fixed \cup d.kept \cup d.replaced = Elems(Ids(rules(v)))
               /\ d.replaced \subseteq over(w) /\ d.kept \cap over(w) = {}
  <2>5. /\ d.global = g /\ d.overlay \in Versions(q) \cup {0}
        /\ g # 0 => d.overlay = o
        /\ Serves(d.global, d.overlay)
    BY <1>0, CompileIsFaithful
  <2> HIDE DEF d, Serves
  <2>6. PICK w \in Versions(q) \cup {0} : w = new.reply.overlay /\ (g # 0 => w = o)
    BY <2>3, <2>5
  <2>7. new.reply.global = g /\ Serves(g, w)
    BY <2>3, <2>5, <2>6
  <2>8. /\ ContentOf("global", g)' = ContentOf("global", g)
        /\ ContentOf(q, w)' = ContentOf(q, w)
        /\ g \in Versions("global")' \cup {0} /\ w \in Versions(q)' \cup {0}
    BY <1>0, <2>6, TablesGrow
  <2>9. Faithful(ses[s])'
    <3>1. /\ new.reply.global >= new.since["global"]
          /\ new.reply.channel >= new.since["notify"]
          /\ new.reply.global # 0 => new.reply.overlay >= new.since[new.seq]
      BY <1>2, <2>1, <2>2, <2>3, <2>4, <2>6, <2>7
    <3>2. PICK c : c = ContentOf("global", g)
      OBVIOUS
    <3>3. PICK e : e = ContentOf(q, w)
      OBVIOUS
    <3>4. LET r == new.reply IN
          /\ r.fixed = {x \in Elems(Ids(c.rules)) :
                          \E i \in DOMAIN c.rules :
                             c.rules[i] = [id |-> x, tier |-> "non_negotiable"]}
          /\ r.fixed \cup r.kept \cup r.replaced = Elems(Ids(c.rules))
          /\ r.replaced \subseteq Elems(e.over) /\ r.kept \cap Elems(e.over) = {}
      <4>1. /\ d.fixed = {x \in Elems(Ids(c.rules)) :
                          \E i \in DOMAIN c.rules :
                             c.rules[i] = [id |-> x, tier |-> "non_negotiable"]}
            /\ d.fixed \cup d.kept \cup d.replaced = Elems(Ids(c.rules))
            /\ d.replaced \subseteq Elems(e.over) /\ d.kept \cap Elems(e.over) = {}
        BY <2>7, <3>2, <3>3 DEF Serves
      <4> QED
        BY <2>3, <4>1
    <3>5. /\ ContentOf("global", ses[s].reply.global)' = c
          /\ ContentOf(ses[s].seq, ses[s].reply.overlay)' = e
      BY <1>2, <2>6, <2>7, <2>8, <3>2, <3>3
    <3> QED
      BY <3>1, <3>4, <3>5 DEF Faithful
  <2>10. /\ new.reply.global \in Versions("global")' \cup {0}
         /\ new.reply.overlay \in Versions(q)' \cup {0}
    BY <2>6, <2>7, <2>8
  <2> QED
    BY <1>2, <1>3, <1>10, <2>9, <2>10 DEF View, WriterView, ReaderView, Writing, Fetching
<1> QED
  BY <1>6, <1>7, <1>8, <1>9, <1>10 DEF Fetched

LEMMA ViewsKept ==
  ASSUME IInv, Views, [Next]_vars
  PROVE  \A s \in Sessions : View(ses[s])'
<1>0. TableInv /\ \A s \in Sessions : View(ses[s])
  BY DEF Views
<1>1. ASSUME NEW s \in Sessions, Same(s) \/ Kinds(s) PROVE View(ses[s])'
  BY <1>0, <1>1, RestingView, PlainView, BeganView, WroteView, FetchedView DEF Kinds
<1> QED
  BY <1>1, NextMoved DEF Moved

----------------------------------------------------------------------------
(* The tables. *)

\* Requests keep numbers of their own.
LEMMA RequestsDistinct ==
  ASSUME IInv, Views, [Next]_vars, NEW s \in Sessions, NEW t \in Sessions, s # t,
         ses'[s].pc # "idle", ses'[t].pc # "idle"
  PROVE  ses'[s].req # ses'[t].req
<1>1. \A x, y \in Sessions :
        x # y /\ ses[x].pc # "idle" /\ ses[y].pc # "idle" => ses[x].req # ses[y].req
  BY DEF Views, TableInv
<1>2. requests \in Nat /\ \A x \in Sessions : ses[x].pc # "idle" => ses[x].req \in 1..requests
  BY RequestsGrow DEF Views, View
<1>3. \A x \in Sessions : Same(x) => ses'[x].pc = ses[x].pc /\ ses'[x].req = ses[x].req
  BY DEF Same
<1>4. CASE \A x \in Sessions : Same(x)
  BY <1>1, <1>3, <1>4
<1>5. ASSUME NEW x \in Sessions, Moved(x)
      PROVE  ses'[s].req # ses'[t].req
  <2>1. /\ \A y \in Sessions \ {x} : ses'[y].pc = ses[y].pc /\ ses'[y].req = ses[y].req
        /\ Kinds(x)
    BY <1>3, <1>5 DEF Moved
  <2>2. \/ ses'[x].pc = "idle"
        \/ ses[x].pc # "idle" /\ ses'[x].req = ses[x].req
        \/ ses'[x].req = requests + 1
    <3>1. CASE Same(x)
      BY <1>3, <3>1
    <3>2. CASE ses'[x] = Idle
      BY <3>2 DEF Idle
    <3>3. CASE Plain(x) \/ Wrote(x) \/ Fetched(x)
      BY <3>3 DEF Plain, Wrote, Fetched, Carries
    <3>4. CASE Began(x)
      BY <3>4 DEF Began
    <3> QED
      BY <2>1, <3>1, <3>2, <3>3, <3>4 DEF Kinds
  <2>3. CASE x # s /\ x # t
    BY <1>1, <2>1, <2>3
  <2>4. CASE x = s
    BY <1>1, <1>2, <2>1, <2>2, <2>4
  <2>5. CASE x = t
    BY <1>1, <1>2, <2>1, <2>2, <2>5
  <2> QED
    BY <2>3, <2>4, <2>5
<1> QED
  BY <1>4, <1>5, NextMoved

LEMMA TableKept ==
  ASSUME IInv, Views, [Next]_vars
  PROVE  TableInv'
<1>0. TableInv /\ requests \in Nat /\ requests' \in Nat /\ requests <= requests'
  BY RequestsGrow DEF Views
<1>1. \A s, t \in Sessions :
        s # t /\ ses'[s].pc # "idle" /\ ses'[t].pc # "idle" => ses'[s].req # ses'[t].req
  BY RequestsDistinct
<1>2. \A r \in rows : r.by \in Nat /\ r.by <= requests
  BY <1>0 DEF TableInv, IInv, TypeOK, Row
<1>3. CASE rows' = rows
  BY <1>0, <1>1, <1>2, <1>3 DEF TableInv
<1>4. ASSUME NEW s \in Sessions, ses[s].pc = "insert",
             ses[s].ver \notin Versions(ses[s].seq), Stored(s), UNCHANGED requests
      PROVE  TableInv'
  <2> DEFINE row == [seq |-> ses[s].seq, version |-> ses[s].ver,
                     content |-> ses[s].content, by |-> ses[s].req]
  <2>1. rows' = rows \cup {row} /\ row.seq = ses[s].seq /\ row.version = ses[s].ver
        /\ row.content = ses[s].content /\ row.by = ses[s].req
    BY <1>4 DEF Stored
  <2> HIDE DEF row
  <2>2. /\ ses[s].req \in 1..requests
        /\ ses[s].seq = "global" => Tiered(ses[s].content.rules)
    BY <1>4 DEF Views, View, WriterView
  <2>3. row.by <= requests'
    BY <1>0, <1>4, <2>1, <2>2
  <2>4. \A r \in rows : ~(r.seq = row.seq /\ r.version = row.version)
    BY <1>4, <2>1 DEF Versions, OfSeq
  <2>5. /\ \A r, u \in rows' : r.seq = u.seq /\ r.version = u.version => r = u
        /\ \A r \in rows' : r.by <= requests'
        /\ \A r \in rows' : r.seq = "global" => Tiered(r.content.rules)
    BY <1>0, <1>2, <2>1, <2>2, <2>3, <2>4 DEF TableInv
  <2> QED
    BY <1>1, <2>5 DEF TableInv
<1> QED
  BY <1>3, <1>4, RowKinds

LEMMA InitViews == Init => Views
<1> SUFFICES ASSUME Init PROVE Views
  OBVIOUS
<1>1. \A s \in Sessions : ses[s].pc = "idle" /\ \A q \in Seqs : ses[s].since[q] = 0
  BY DEF Init, Idle
<1>2. \A s \in Sessions : View(ses[s])
  BY <1>1 DEF View, WriterView, ReaderView, Writing, Fetching
<1>3. requests = 0
  BY DEF Init
<1>4. TableInv
  <2>1. CASE rows = {}
    BY <1>1, <2>1 DEF TableInv
  <2> DEFINE row == [seq |-> "global", version |-> 1, by |-> 0,
                     content |-> [Blank EXCEPT !.rules = Founding]]
  <2>2. CASE rows = {row}
    <3>1. row.by = 0 /\ row.content.rules = Founding
      BY DEF Blank
    <3>2. Tiered(Founding)
      BY RegistryAssumption DEF Tiered
    <3> HIDE DEF row
    <3> QED
      BY <1>1, <1>3, <2>2, <3>1, <3>2 DEF TableInv
  <2> QED
    BY <2>1, <2>2 DEF Init
<1> QED
  BY <1>2, <1>4 DEF Views

\* In every behaviour what the sessions have seen stays good.
THEOREM ViewsInvariance == Spec => []Views
<1>1. IInv /\ Views /\ [Next]_vars => Views'
  BY ViewsKept, TableKept DEF Views
<1> QED
  BY <1>1, InitViews, RegistryInvariance, PTL DEF Spec

\* Whatever the number of writers and the limit of attempts, one that is told
\* of a conflict has stored nothing, and has lost to a different committed
\* version each time it tried.
THEOREM ConflictsCorrect == Spec => []ConflictsAreReal
<1>1. IInv /\ Views => ConflictsAreReal
  <2> SUFFICES ASSUME IInv, Views, NEW s \in Sessions,
                      ses[s].pc \in {"refused", "failed"}, ses[s].op # "bootstrap"
               PROVE  /\ Top(ses[s].seq) >= ses[s].since[ses[s].seq] + Lost(ses[s])
                      /\ \A r \in rows : r.by # ses[s].req
    BY DEF ConflictsAreReal, Lost
  <2> DEFINE q == ses[s].seq
             k == ses[s].since[q] + Lost(ses[s])
  <2>1. k \in Versions(q) /\ Unwritten(ses[s])
    BY DEF Views, View, WriterView
  <2>2. q \in Seqs
    BY DEF IInv, TypeOK, Session
  <2>3. Top(q) \in Nat /\ Versions(q) = 1..Top(q)
    BY <2>2, VersionsUpToTop DEF IInv
  <2> HIDE DEF k
  <2>4. Top(q) >= k
    BY <2>1, <2>3
  <2> QED
    BY <2>1, <2>4 DEF k, Unwritten
<1> QED
  BY <1>1, RegistryInvariance, ViewsInvariance, PTL

\* Whatever is written while a bootstrap reads, it serves no version older
\* than those current when it came, and every rule of the doctrine it stamps,
\* overridden only where the stamped overlay says so and never a
\* non-negotiable one.
THEOREM FetchCorrect == Spec => []FetchIsFaithful
<1>1. Views => FetchIsFaithful
  BY DEF Views, View, ReaderView, Faithful, FetchIsFaithful
<1> QED
  BY <1>1, ViewsInvariance, PTL

=============================================================================
