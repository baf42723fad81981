--------------------------- MODULE RegistryProofs ---------------------------
(***************************************************************************)
(* Proofs about Registry for every set of rules, projects, machines,       *)
(* processes and sessions, and every value of the limits.                  *)
(*                                                                         *)
(* The invariants are about one row and the sessions that hold an older    *)
(* view of it, so the inductive invariant says of every session what its   *)
(* view is still good for (Fine): the version it is about to insert is at  *)
(* most one ahead of the table, the versions it has read are stored, and   *)
(* if it came after a revocation it has not passed a check yet.            *)
(***************************************************************************)
EXTENDS Registry, TLAPS, FiniteSetTheorems

Hurdles == {"auth", "ensure", "ensureins", "ensureget", "status"}
Fetching == {"auth", "touch", "project", "stub", "global", "overlay", "channel", "compile"}

BootInv ==
  /\ PrintedTokenWorks
  /\ owner = None => printed = {} /\ \A p \in Procs : boot[p].pc # "banner"
  /\ \A p \in Procs : boot[p].pc = "banner" => boot[p].token = owner

StatusInv == \A m \in Identities : m \in barred <=> machines[m].status = "revoked"

RowInv == IsFiniteSet(rows) /\ SequencesAreGapless

Fine(me) ==
  /\ me.pc = "validate" => me.tries = 0
  /\ me.pc = "next" => me.tries < MaxAttempts
  /\ me.pc = "insert" => me.ver \in 1..(Cardinality(OfSeq(me.seq)) + 1)
  /\ me.read.global \in Versions("global") \cup {0}
  /\ me.read.overlay \in Versions(me.seq) \cup {0}
  /\ me.pc \in {"mget", "mset"} => me.op \in {"revoke", "reactivate", "update"}
  /\ me.pc \in Fetching => me.seq \in Projects
  /\ me.late => me.pc \in Hurdles /\ me.mach \in barred
  /\ me.late /\ me.pc # "auth" => me.mach = Reserved
  /\ me.late /\ me.pc = "status" => me.seen.status = "revoked"

IInv == TypeOK /\ BootInv /\ StatusInv /\ RowInv /\ \A s \in Sessions : Fine(ses[s])

----------------------------------------------------------------------------
(* The versioned rows. *)

\* A sequence without gaps has as many rows as its highest version says.
LEMMA TopIsCount ==
  ASSUME RowInv, NEW q \in Seqs
  PROVE  /\ Cardinality(OfSeq(q)) \in Nat
         /\ Top(q) = Cardinality(OfSeq(q))
         /\ Top(q) \in Versions(q) \cup {0}
<1> DEFINE n == Cardinality(OfSeq(q))
<1>1. n \in Nat
  <2>1. OfSeq(q) \in SUBSET rows
    BY DEF OfSeq
  <2> QED
    BY <2>1, FS_Subset, FS_CardinalityType DEF RowInv
<1>2. Versions(q) = 1 .. n
  BY DEF RowInv, SequencesAreGapless
<1> HIDE DEF n
<1>3. n \in Versions(q) \cup {0} /\ \A y \in Versions(q) \cup {0} : n >= y
  BY <1>1, <1>2
<1>4. \A x \in Versions(q) \cup {0} :
        (\A y \in Versions(q) \cup {0} : x >= y) => x = n
  BY <1>1, <1>2, <1>3
<1>5. Top(q) = n
  BY <1>3, <1>4 DEF Top, Max
<1> QED
  BY <1>1, <1>3, <1>5 DEF n

\* What a bootstrap reads under a version that is stored, or under none.
LEMMA ContentTyped ==
  ASSUME TypeOK, NEW q \in Seqs, NEW v \in Versions(q) \cup {0}
  PROVE  ContentOf(q, v) \in Content
<1>1. CASE v = 0
  BY <1>1 DEF ContentOf, Blank, Content
<1>2. CASE v # 0
  <2>1. PICK r \in rows : r.seq = q /\ r.version = v
    BY <1>2 DEF Versions, OfSeq
  <2>2. (CHOOSE x \in rows : x.seq = q /\ x.version = v) \in rows
    BY <2>1
  <2> QED
    BY <1>2, <2>2 DEF ContentOf, TypeOK, Row
<1> QED
  BY <1>1, <1>2

----------------------------------------------------------------------------
(* Steps of one session. *)

\* One session moves on; besides, it may have enrolled a machine or a project.
LEMMA FrameStep ==
  ASSUME IInv, NEW s \in Sessions,
         ses' = [ses EXCEPT ![s] = ses'[s]], ses'[s] \in Session, Fine(ses[s])',
         machines' \in [Identities -> MachineRow], StatusInv', projects' \subseteq Projects,
         UNCHANGED <<owner, printed, boot, minted, barred, rows>>,
         requests' \in 0..MaxRequests, crashes' \in 0..MaxCrashes
  PROVE  IInv'
<1>1. TypeOK'
  BY DEF IInv, TypeOK
<1>2. BootInv'
  BY DEF IInv, BootInv, PrintedTokenWorks
<1>3. RowInv'
  BY DEF IInv, RowInv, SequencesAreGapless, Versions, OfSeq
<1>4. \A x \in Sessions : Fine(ses[x])'
  <2> SUFFICES ASSUME NEW x \in Sessions, x # s PROVE Fine(ses[x])'
    OBVIOUS
  <2>1. ses'[x] = ses[x]
    BY DEF IInv, TypeOK
  <2>2. Fine(ses[x])
    BY DEF IInv
  <2> QED
    BY <2>1, <2>2 DEF Fine, Fetching, Versions, OfSeq
<1> QED
  BY <1>1, <1>2, <1>3, <1>4 DEF IInv

LEMMA SessionStep ==
  ASSUME IInv, NEW s \in Sessions,
         ses' = [ses EXCEPT ![s] = ses'[s]], ses'[s] \in Session, Fine(ses[s])',
         UNCHANGED data, requests' \in 0..MaxRequests, crashes' \in 0..MaxCrashes
  PROVE  IInv'
<1>1. /\ machines' \in [Identities -> MachineRow] /\ projects' \subseteq Projects
      /\ UNCHANGED <<owner, printed, boot, minted, barred, rows>>
  BY DEF IInv, TypeOK, data
<1>2. StatusInv'
  BY DEF IInv, StatusInv, data
<1> QED
  BY <1>1, <1>2, FrameStep

\* The steps the proofs below send a session to are steps.
LEMMA KnownPcs ==
  /\ {"idle", "insert", "next", "mset", "touch", "status", "done", "global"} \subseteq Pcs
  /\ {"overlay", "channel", "compile", "served"} \subseteq Pcs
  /\ "none" \in Ops
BY DEF Pcs, Ops

\* A session between two requests.
LEMMA IdleFine == Idle \in Session /\ Fine(Idle)
<1>1. NoReply \in Reply
  BY DEF NoReply, Reply
<1>2. Blank \in Content /\ NoMachine \in MachineRow /\ Reserved \in Identities
  BY DEF Blank, Content, NoMachine, MachineRow, Identities
<1>3. Idle \in Session
  <2>1. /\ "global" \in Seqs /\ [q \in Seqs |-> 0] \in [Seqs -> Nat]
        /\ 0 \in 0..MaxAttempts
    BY RegistryAssumption DEF Seqs
  <2> HIDE DEF Seqs, NoReply, Blank, NoMachine
  <2> QED
    BY <1>1, <1>2, <2>1, KnownPcs DEF Idle, Session
<1> QED
  BY <1>3 DEF Idle, Fine, Fetching

\* A refusal, a response, a cancelled request.
LEMMA ResetStep ==
  ASSUME IInv, NEW s \in Sessions, Reset(s), UNCHANGED data,
         requests' \in 0..MaxRequests, crashes' \in 0..MaxCrashes
  PROVE  IInv'
<1>1. ses'[s] = Idle /\ ses' = [ses EXCEPT ![s] = ses'[s]]
  BY DEF Reset, IInv, TypeOK
<1>2. Fine(Idle)'
  BY DEF Fine, Fetching, Idle
<1> QED
  BY <1>1, <1>2, IdleFine, SessionStep

\* Goto changes the program counter only.
LEMMA GotoEffect ==
  ASSUME TypeOK, NEW s \in Sessions, NEW c \in Pcs, Goto(s, c)
  PROVE  /\ ses' = [ses EXCEPT ![s] = ses'[s]]
         /\ ses'[s] = [ses[s] EXCEPT !.pc = c]
         /\ ses'[s] \in Session
         /\ ses'[s].pc = c
         /\ ses'[s].tries = ses[s].tries /\ ses'[s].ver = ses[s].ver
         /\ ses'[s].seq = ses[s].seq /\ ses'[s].read = ses[s].read
         /\ ses'[s].late = ses[s].late /\ ses'[s].mach = ses[s].mach
         /\ ses'[s].seen = ses[s].seen
<1>1. ses[s] \in Session
  BY DEF TypeOK
<1>2. ses' = [ses EXCEPT ![s] = ses'[s]] /\ ses'[s] = [ses[s] EXCEPT !.pc = c]
  BY DEF Goto, TypeOK
<1>3. [ses[s] EXCEPT !.pc = c] \in Session
  BY <1>1 DEF Session
<1> QED
  BY <1>1, <1>2, <1>3 DEF Session

\* A session that no revocation concerns goes on to a step without a promise.
LEMMA PlainStep ==
  ASSUME IInv, NEW s \in Sessions, NEW c \in Pcs \ {"validate", "next", "insert", "mget", "mset"},
         Goto(s, c), ~ses[s].late, c \in Fetching => ses[s].pc \in Fetching, UNCHANGED <<data, requests, crashes>>
  PROVE  IInv'
<1>1. Fine(ses[s]) /\ TypeOK /\ c \in Pcs
  BY DEF IInv
<1>2. /\ ses' = [ses EXCEPT ![s] = ses'[s]] /\ ses'[s] \in Session
      /\ ses'[s].pc = c /\ ses'[s].seq = ses[s].seq
      /\ ses'[s].read = ses[s].read /\ ~ses'[s].late
  BY <1>1, GotoEffect
<1>3. Fine(ses[s])'
  BY <1>1, <1>2 DEF Fine, Fetching, Versions, OfSeq, data
<1> QED
  BY <1>1, <1>2, <1>3, SessionStep DEF TypeOK, data

\* A session at a step that is no hurdle is not late.
LEMMA NotLate ==
  ASSUME IInv, NEW s \in Sessions, ses[s].pc \notin Hurdles
  PROVE  ~ses[s].late
BY DEF IInv, Fine, Fetching

----------------------------------------------------------------------------
(* Requests. *)

LEMMA RequestStep ==
  ASSUME IInv, NEW s \in Sessions,
         NEW op \in {"global", "notify", "llm", "overlay", "mint", "revoke",
                     "reactivate", "update", "bootstrap", "reserved"},
         NEW q \in Seqs, NEW c \in Content, NEW m \in Identities,
         op = "reserved" => m = Reserved, op = "bootstrap" => q \in Projects,
         Request(s, op, q, c, m)
  PROVE  IInv'
<1> DEFINE from == [x \in Seqs |->
                     IF x = q \/ (op = "bootstrap" /\ x \in {"global", "notify"})
                     THEN Top(x) ELSE 0]
           late == op \in {"bootstrap", "reserved"} /\ m \in barred
<1>1. from \in [Seqs -> Nat]
  BY TopIsCount DEF IInv
<1>2. /\ FirstStep(op) \in Pcs \ {"next", "insert"}
      /\ op = "bootstrap" => FirstStep(op) = "auth"
      /\ FirstStep(op) # "mset"
      /\ FirstStep(op) = "mget" => op \in {"revoke", "reactivate", "update"}
      /\ FirstStep(op) \in Fetching => op = "bootstrap"
      /\ op = "reserved" => FirstStep(op) = "ensure"
  BY DEF FirstStep, Pcs, Fetching
<1>3. requests \in 0..MaxRequests /\ requests < MaxRequests /\ MaxRequests \in Nat
  BY RegistryAssumption DEF IInv, TypeOK, Request
<1> DEFINE rec == [Idle EXCEPT
       !.pc = FirstStep(op), !.op = op, !.seq = q, !.content = c, !.mach = m,
       !.req = requests + 1, !.late = late, !.since = from]
<1>4. ses' = [ses EXCEPT ![s] = rec]
  BY DEF Request
<1>5. ses'[s] = rec /\ ses' = [ses EXCEPT ![s] = ses'[s]]
  BY <1>4 DEF IInv, TypeOK
<1>6. rec \in Session
  <2>1. requests + 1 \in Nat /\ late \in BOOLEAN /\ Idle \in Session /\ op \in Ops
    BY <1>3, IdleFine DEF Ops
  <2> DEFINE first == FirstStep(op)
             number == requests + 1
  <2>2. first \in Pcs /\ number \in Nat
    BY <1>2, <2>1
  <2>3. rec = [Idle EXCEPT !.pc = first, !.op = op, !.seq = q, !.content = c,
                           !.mach = m, !.req = number, !.late = late, !.since = from]
    OBVIOUS
  <2> HIDE DEF rec, from, late, first, number
  <2> QED
    BY <1>1, <2>1, <2>2, <2>3 DEF Session
<1>7. Fine(ses[s])'
  <2>1. /\ rec.pc = FirstStep(op) /\ rec.op = op /\ rec.seq = q /\ rec.tries = 0 /\ rec.late = late /\ rec.mach = m
        /\ rec.read.global = 0 /\ rec.read.overlay = 0
    BY DEF Idle
  <2>2. barred' = barred
    BY DEF Request, data
  <2> HIDE DEF rec
  <2> QED
    BY <1>2, <1>5, <2>1, <2>2 DEF Fine, Fetching, Hurdles
<1>8. UNCHANGED data /\ requests' \in 0..MaxRequests /\ crashes' \in 0..MaxCrashes
  BY <1>3 DEF Request, IInv, TypeOK
<1> QED
  BY <1>5, <1>6, <1>7, <1>8, SessionStep

LEMMA ArriveStep ==
  ASSUME IInv, NEW s \in Sessions, Arrive(s)
  PROVE  IInv'
<1>0. /\ Blank \in Content /\ Reserved \in Identities
      /\ "global" \in Seqs /\ "notify" \in Seqs /\ "llm" \in Seqs
  BY DEF Blank, Content, Identities, Seqs
<1>1. CASE \E b \in Rulebooks :
             Request(s, "global", "global", [Blank EXCEPT !.rules = b], Reserved)
  <2>1. \A b \in Rulebooks : [Blank EXCEPT !.rules = b] \in Content
    BY <1>0, RegistryAssumption DEF Content
  <2> QED
    BY <1>0, <1>1, <2>1, RequestStep
<1>2. CASE \E b \in Overlays, p \in Projects :
             Request(s, "overlay", p, [Blank EXCEPT !.over = b.over, !.add = b.add], Reserved)
  <2>1. \A b \in Overlays : [Blank EXCEPT !.over = b.over, !.add = b.add] \in Content
    BY <1>0, RegistryAssumption DEF Content
  <2>2. Projects \subseteq Seqs
    BY DEF Seqs
  <2> QED
    BY <1>0, <1>2, <2>1, <2>2, RequestStep
<1>3. CASE \E q \in {"notify", "llm"}, ok \in BOOLEAN :
             Request(s, q, q, [Blank EXCEPT !.ok = ok], Reserved)
  <2>1. \A ok \in BOOLEAN : [Blank EXCEPT !.ok = ok] \in Content
    BY <1>0 DEF Content
  <2> QED
    BY <1>0, <1>3, <2>1, RequestStep
<1>4. CASE \E m \in Machines, p \in Projects : Request(s, "bootstrap", p, Blank, m)
  <2>1. Projects \subseteq Seqs /\ Machines \subseteq Identities
    BY DEF Seqs, Identities
  <2> QED
    BY <1>0, <1>4, <2>1, RequestStep
<1>5. CASE \E m \in Machines : Request(s, "mint", "global", Blank, m)
  <2>1. Machines \subseteq Identities
    BY DEF Identities
  <2> QED
    BY <1>0, <1>5, <2>1, RequestStep
<1>6. CASE \E m \in Identities, op \in {"revoke", "reactivate"} :
             Request(s, op, "global", Blank, m)
  BY <1>0, <1>6, RequestStep
<1>7. CASE \E m \in Identities, ok \in BOOLEAN :
             Request(s, "update", "global", [Blank EXCEPT !.ok = ok], m)
  <2>1. \A ok \in BOOLEAN : [Blank EXCEPT !.ok = ok] \in Content
    BY <1>0 DEF Content
  <2> QED
    BY <1>0, <1>7, <2>1, RequestStep
<1>8. CASE Request(s, "reserved", "global", Blank, Reserved)
  BY <1>0, <1>8, RequestStep
<1> QED
  BY <1>1, <1>2, <1>3, <1>4, <1>5, <1>6, <1>7, <1>8 DEF Arrive

----------------------------------------------------------------------------
(* Writing a version. *)

LEMMA ValidateStep ==
  ASSUME IInv, NEW s \in Sessions, Validate(s)
  PROVE  IInv'
<1>1. /\ ses[s].pc = "validate" /\ UNCHANGED <<data, requests, crashes>>
      /\ Goto(s, "next") \/ Reset(s)
  BY DEF Validate
<1>2. CASE Reset(s)
  BY <1>1, <1>2, ResetStep DEF IInv, TypeOK
<1>3. CASE Goto(s, "next")
  <2>1. Fine(ses[s]) /\ TypeOK /\ ~ses[s].late
    BY <1>1, NotLate DEF IInv, Hurdles
  <2>2. /\ ses' = [ses EXCEPT ![s] = ses'[s]] /\ ses'[s] \in Session
        /\ ses'[s].pc = "next" /\ ses'[s].tries = ses[s].tries
        /\ ses'[s].seq = ses[s].seq /\ ses'[s].read = ses[s].read /\ ~ses'[s].late
    BY <1>3, <2>1, GotoEffect DEF Pcs
  <2>3. ses'[s].tries < MaxAttempts
    BY <1>1, <2>1, <2>2, RegistryAssumption DEF Fine, Fetching
  <2>4. Fine(ses[s])'
    BY <1>1, <2>1, <2>2, <2>3 DEF Fine, Fetching, Versions, OfSeq, data
  <2> QED
    BY <1>1, <2>1, <2>2, <2>4, SessionStep DEF TypeOK
<1> QED
  BY <1>1, <1>2, <1>3

\* The number is the next one when it is computed.
LEMMA NextVersionStep ==
  ASSUME IInv, NEW s \in Sessions, NextVersion(s)
  PROVE  IInv'
<1> DEFINE n == Cardinality(OfSeq(ses[s].seq))
<1>1. ses[s] \in Session /\ Fine(ses[s]) /\ ~ses[s].late /\ ses[s].pc = "next"
  BY NotLate DEF IInv, TypeOK, NextVersion, Hurdles
<1>2. n \in Nat /\ Top(ses[s].seq) = n
  BY <1>1, TopIsCount DEF Session, IInv
<1>3. ses[s].tries + 1 \in 0..MaxAttempts
  <2>1. ses[s].tries \in 0..MaxAttempts
    BY <1>1 DEF Session
  <2>2. ses[s].tries < MaxAttempts
    BY <1>1 DEF Fine
  <2> QED
    BY <2>1, <2>2, RegistryAssumption
<1>4. ses'[s] = [ses[s] EXCEPT !.ver = n + 1, !.tries = ses[s].tries + 1, !.pc = "insert"]
  <2>1. s \in DOMAIN ses
    BY DEF IInv, TypeOK
  <2> QED
    BY <1>2, <2>1 DEF NextVersion
<1>5. ses' = [ses EXCEPT ![s] = ses'[s]]
  BY <1>4 DEF NextVersion, IInv, TypeOK
<1>6. UNCHANGED <<data, requests, crashes>>
  BY DEF NextVersion
<1> HIDE DEF n
<1>7. ses'[s] \in Session
  <2>1. n + 1 \in Nat
    BY <1>2
  <2> DEFINE v == n + 1
             t == ses[s].tries + 1
  <2> HIDE DEF v, t
  <2>2. v \in Nat /\ t \in 0..MaxAttempts /\ ses'[s] = [ses[s] EXCEPT !.ver = v, !.tries = t, !.pc = "insert"]
    BY <1>3, <1>4, <2>1 DEF v, t
  <2>3. "insert" \in Pcs
    BY KnownPcs
  <2> QED
    BY <1>1, <2>2, <2>3, ZenonT(40) DEF Session
<1>8. /\ ses'[s].pc = "insert" /\ ses'[s].ver = n + 1 /\ ses'[s].seq = ses[s].seq
      /\ ses'[s].read = ses[s].read /\ ~ses'[s].late
  BY <1>1, <1>4 DEF Session
<1>9. Fine(ses[s])'
  <2>1. n' = n /\ n + 1 \in 1..(n + 1)
    BY <1>2, <1>6, <1>8 DEF n, OfSeq, data
  <2>2. Cardinality(OfSeq(ses[s].seq))' = n
    BY <2>1 DEF n
  <2> QED
    BY <1>1, <1>6, <1>8, <2>1, <2>2 DEF Fine, Fetching, Versions, OfSeq, data
<1> QED
  BY <1>5, <1>6, <1>7, <1>9, SessionStep DEF IInv, TypeOK

\* A taken number: the loop again with an attempt left, or an error.
LEMMA CollideStep ==
  ASSUME IInv, NEW s \in Sessions, ses[s].pc = "insert", Collide(s),
         UNCHANGED <<data, requests, crashes>>
  PROVE  IInv'
<1>1. Fine(ses[s]) /\ TypeOK /\ ~ses[s].late /\ ses[s] \in Session
  BY NotLate DEF IInv, Hurdles, TypeOK
<1>2. \/ Goto(s, "failed") \/ Goto(s, "refused")
      \/ Goto(s, "next") /\ ses[s].tries < MaxAttempts
  BY DEF Collide
<1>3. CASE Goto(s, "failed") \/ Goto(s, "refused")
  BY <1>1, <1>3, PlainStep DEF Pcs, Fetching
<1>4. CASE Goto(s, "next") /\ ses[s].tries < MaxAttempts
  <2>1. /\ ses' = [ses EXCEPT ![s] = ses'[s]] /\ ses'[s] \in Session
        /\ ses'[s].pc = "next" /\ ses'[s].tries = ses[s].tries
        /\ ses'[s].seq = ses[s].seq /\ ses'[s].read = ses[s].read /\ ~ses'[s].late
    BY <1>1, <1>4, GotoEffect DEF Pcs
  <2>2. Fine(ses[s])'
    BY <1>1, <1>4, <2>1 DEF Fine, Fetching, Versions, OfSeq, data
  <2> QED
    BY <1>1, <2>1, <2>2, SessionStep DEF TypeOK
<1> QED
  BY <1>2, <1>3, <1>4

\* A free number can only be the next one, so the sequence stays gapless; what
\* other sessions hold of the table stays as good as it was.
LEMMA StoredStep ==
  ASSUME IInv, NEW s \in Sessions, ses[s].pc = "insert",
         ses[s].ver \notin Versions(ses[s].seq), Stored(s), Goto(s, "done"),
         UNCHANGED <<owner, printed, boot, minted, machines, barred, projects,
                     requests, crashes>>
  PROVE  IInv'
<1> DEFINE q == ses[s].seq
           n == Cardinality(OfSeq(q))
           row == [seq |-> q, version |-> ses[s].ver,
                   content |-> ses[s].content, by |-> ses[s].req]
<1>1. TypeOK /\ RowInv /\ ses[s] \in Session /\ Fine(ses[s]) /\ ~ses[s].late
  BY NotLate DEF IInv, TypeOK, Hurdles
<1>2. q \in Seqs /\ n \in Nat
  BY <1>1, TopIsCount DEF Session
<1>3. Versions(q) = 1..n
  BY <1>1, <1>2 DEF RowInv, SequencesAreGapless
<1>4. ses[s].ver = n + 1
  <2>1. ses[s].ver \in 1..(n + 1) /\ ses[s].ver \notin 1..n
    BY <1>1, <1>3 DEF Fine, Fetching
  <2> HIDE DEF n
  <2> QED
    BY <1>2, <2>1
<1>5. row \in Row /\ row.seq = q /\ row.version = n + 1
  BY <1>1, <1>2, <1>4 DEF Row, Session
<1>6. rows' = rows \cup {row} /\ row \notin OfSeq(q)
  BY <1>4, <1>5 DEF Stored, Versions
<1> HIDE DEF row
<1>7. \A x \in Seqs : OfSeq(x)' = IF x = q THEN OfSeq(x) \cup {row} ELSE OfSeq(x)
  BY <1>5, <1>6 DEF OfSeq
<1>8. IsFiniteSet(rows') /\ IsFiniteSet(OfSeq(q))
  <2>1. OfSeq(q) \in SUBSET rows
    BY DEF OfSeq
  <2> QED
    BY <1>1, <1>6, <2>1, FS_AddElement, FS_Subset DEF RowInv
<1>9. Cardinality(OfSeq(q) \cup {row}) = n + 1
  BY <1>6, <1>8, FS_AddElement
<1> HIDE DEF q, n
<1>10. \A x \in Seqs : Cardinality(OfSeq(x))' = IF x = q THEN n + 1 ELSE Cardinality(OfSeq(x))
  BY <1>7, <1>9
<1>11. \A x \in Seqs : Versions(x)' = IF x = q THEN Versions(x) \cup {n + 1} ELSE Versions(x)
  <2> SUFFICES ASSUME NEW x \in Seqs
               PROVE  Versions(x)' = IF x = q THEN Versions(x) \cup {n + 1} ELSE Versions(x)
    OBVIOUS
  <2>1. CASE x # q
    BY <1>7, <2>1 DEF Versions
  <2>2. CASE x = q
    <3>1. OfSeq(x)' = OfSeq(x) \cup {row}
      BY <1>7, <2>2
    <3> QED
      BY <1>5, <2>2, <3>1 DEF Versions
  <2> QED
    BY <2>1, <2>2
<1>12. RowInv'
  <2> SUFFICES ASSUME NEW x \in Seqs PROVE Versions(x)' = 1..(Cardinality(OfSeq(x))')
    BY <1>8 DEF RowInv, SequencesAreGapless
  <2>1. Versions(x) = 1..Cardinality(OfSeq(x))
    BY <1>1 DEF RowInv, SequencesAreGapless
  <2>2. CASE x # q
    BY <1>10, <1>11, <2>1, <2>2
  <2>3. CASE x = q
    <3>1. Versions(x)' = (1..n) \cup {n + 1} /\ Cardinality(OfSeq(x))' = n + 1
      BY <1>3, <1>10, <1>11, <2>3
    <3>2. (1..n) \cup {n + 1} = 1..(n + 1)
      BY <1>2
    <3> QED
      BY <3>1, <3>2
  <2> QED
    BY <2>2, <2>3
<1>13. /\ ses' = [ses EXCEPT ![s] = ses'[s]] /\ ses'[s] \in Session
       /\ ses'[s].pc = "done" /\ ses'[s].seq = ses[s].seq
       /\ ses'[s].read = ses[s].read /\ ~ses'[s].late
  BY <1>1, GotoEffect DEF Pcs
<1>14. TypeOK'
  BY <1>1, <1>5, <1>6, <1>13 DEF TypeOK
<1>15. \A x \in Sessions : Fine(ses[x])'
  <2> SUFFICES ASSUME NEW x \in Sessions PROVE Fine(ses[x])'
    OBVIOUS
  <2>1. Fine(ses[x]) /\ ses[x] \in Session /\ ses[x].seq \in Seqs /\ "global" \in Seqs
    BY <1>1 DEF IInv, TypeOK, Session, Seqs
  <2>2. \A y \in Seqs : Versions(y) \subseteq Versions(y)'
    BY <1>11
  <2>3. CASE x = s
    BY <1>13, <2>1, <2>2, <2>3 DEF Fine, Fetching
  <2>4. CASE x # s
    <3>1. ses'[x] = ses[x]
      BY <1>1, <1>13, <2>4 DEF TypeOK
    <3>2. ses[x].pc = "insert" =>
            ses[x].ver \in 1..(Cardinality(OfSeq(ses[x].seq))' + 1)
      <4>1. Cardinality(OfSeq(ses[x].seq)) \in Nat
        BY <1>1, <2>1, TopIsCount
      <4>2. Cardinality(OfSeq(ses[x].seq))' >= Cardinality(OfSeq(ses[x].seq))
              /\ Cardinality(OfSeq(ses[x].seq))' \in Nat
        <5>1. \A y \in Seqs : Cardinality(OfSeq(y)) \in Nat
          BY <1>1, TopIsCount
        <5>2. Cardinality(OfSeq(q)) = n
          BY DEF n
        <5>3. \A y \in Seqs : Cardinality(OfSeq(y))' >= Cardinality(OfSeq(y))
                                /\ Cardinality(OfSeq(y))' \in Nat
          BY <1>2, <1>10, <5>1, <5>2
        <5> QED
          BY <2>1, <3>1, <5>3
      <4>3. ses[x].pc = "insert" => ses[x].ver \in 1..(Cardinality(OfSeq(ses[x].seq)) + 1)
        BY <2>1 DEF Fine, Fetching
      <4> QED
        BY <4>1, <4>2, <4>3
    <3> QED
      BY <2>1, <2>2, <3>1, <3>2 DEF Fine, Fetching
  <2> QED
    BY <2>3, <2>4
<1>16. BootInv' /\ StatusInv'
  BY DEF IInv, BootInv, StatusInv, PrintedTokenWorks
<1> QED
  BY <1>12, <1>14, <1>15, <1>16 DEF IInv

LEMMA InsertStep ==
  ASSUME IInv, NEW s \in Sessions, Insert(s)
  PROVE  IInv'
<1>1. CASE ses[s].ver \in Versions(ses[s].seq)
  BY <1>1, CollideStep DEF Insert, data
<1>2. CASE ses[s].ver \notin Versions(ses[s].seq)
  BY <1>2, StoredStep DEF Insert
<1> QED
  BY <1>1, <1>2

----------------------------------------------------------------------------
(* Machines. *)

LEMMA MintStep ==
  ASSUME IInv, NEW s \in Sessions, Mint(s)
  PROVE  IInv'
<1>1. TypeOK /\ Fine(ses[s]) /\ ses[s] \in Session /\ ~ses[s].late
  BY NotLate DEF IInv, TypeOK, Mint, Hurdles
<1>2. Enrolled \in MachineRow /\ ses[s].mach \in Identities
  BY <1>1 DEF Enrolled, MachineRow, Session
<1>3. machines' = [machines EXCEPT ![ses[s].mach] = Enrolled] /\ barred' = barred
  BY DEF Mint
<1>4. machines' \in [Identities -> MachineRow]
  BY <1>1, <1>2, <1>3 DEF TypeOK
<1>5. StatusInv'
  <2>1. /\ machines \in [Identities -> MachineRow] /\ StatusInv
        /\ machines[ses[s].mach].status = "none"
    BY DEF IInv, TypeOK, Mint
  <2> QED
    BY <1>2, <1>3, <2>1 DEF StatusInv, Enrolled
<1>6. /\ ses' = [ses EXCEPT ![s] = ses'[s]] /\ ses'[s] \in Session
      /\ ses'[s].pc = "done" /\ ses'[s].seq = ses[s].seq
      /\ ses'[s].read = ses[s].read /\ ~ses'[s].late
  BY <1>1, GotoEffect DEF Pcs, Mint
<1>7. Fine(ses[s])'
  BY <1>1, <1>6 DEF Fine, Fetching, Versions, OfSeq, Mint
<1> QED
  BY <1>1, <1>4, <1>5, <1>6, <1>7, FrameStep DEF TypeOK, Mint

\* A machine's row is loaded into a session that goes on to c.
Loads(s, m, c) == ses' = [ses EXCEPT ![s].seen = machines[m], ![s].pc = c]

\* It changes nothing else of the session, and no other session.
LEMMA SeenEffect ==
  ASSUME TypeOK, NEW s \in Sessions, NEW m \in Identities, NEW c \in Pcs,
         Loads(s, m, c)
  PROVE  /\ ses' = [ses EXCEPT ![s] = ses'[s]]
         /\ ses'[s] \in Session
         /\ ses'[s].pc = c /\ ses'[s].seen = machines[m]
         /\ ses'[s].seq = ses[s].seq /\ ses'[s].read = ses[s].read
         /\ ses'[s].late = ses[s].late /\ ses'[s].mach = ses[s].mach
         /\ ses'[s].op = ses[s].op
<1>1. ses[s] \in Session /\ machines[m] \in MachineRow
  BY DEF TypeOK
<1>2. ses'[s] = [ses[s] EXCEPT !.seen = machines[m], !.pc = c]
  BY DEF TypeOK, Loads
<1>3. ses' = [ses EXCEPT ![s] = ses'[s]]
  BY <1>2 DEF TypeOK, Loads
<1>4. /\ ses'[s] \in Session
      /\ ses'[s].pc = c /\ ses'[s].seen = machines[m]
      /\ ses'[s].seq = ses[s].seq /\ ses'[s].read = ses[s].read
      /\ ses'[s].late = ses[s].late /\ ses'[s].mach = ses[s].mach
      /\ ses'[s].op = ses[s].op
  <2> DEFINE me == ses[s]
             row == machines[m]
             new == ses'[s]
  <2>1. me \in Session /\ row \in MachineRow /\ new = [me EXCEPT !.seen = row, !.pc = c]
    BY <1>1, <1>2
  <2> HIDE DEF me, row, new
  <2>2. /\ new.pc = c /\ new.seen = row
        /\ new.seq = me.seq /\ new.read = me.read /\ new.late = me.late
        /\ new.mach = me.mach /\ new.op = me.op
    BY <2>1 DEF Session
  <2>3. new \in Session
    BY <2>1 DEF Session
  <2> QED
    BY <2>2, <2>3 DEF me, row, new
<1> QED
  BY <1>3, <1>4

LEMMA LoadStep ==
  ASSUME IInv, NEW s \in Sessions, Load(s)
  PROVE  IInv'
<1>1. /\ TypeOK /\ Fine(ses[s]) /\ ses[s].mach \in Identities /\ ~ses[s].late
      /\ ses[s].pc = "mget" /\ UNCHANGED <<data, requests, crashes>>
  BY NotLate DEF IInv, TypeOK, Load, Hurdles, Session
<1>2. CASE Reset(s)
  BY <1>1, <1>2, ResetStep DEF TypeOK
<1>3. CASE ses' = [ses EXCEPT ![s].seen = machines[ses[s].mach], ![s].pc = "mset"]
  <2>1. /\ ses' = [ses EXCEPT ![s] = ses'[s]] /\ ses'[s] \in Session
        /\ ses'[s].pc = "mset" /\ ses'[s].seq = ses[s].seq /\ ses'[s].op = ses[s].op
        /\ ses'[s].read = ses[s].read /\ ~ses'[s].late
    <3>1. Loads(s, ses[s].mach, "mset")
      BY <1>3 DEF Loads
    <3> QED
      BY <1>1, <3>1, SeenEffect, KnownPcs
  <2>2. Fine(ses[s])'
    BY <1>1, <2>1 DEF Fine, Fetching, Versions, OfSeq, data
  <2> QED
    BY <1>1, <2>1, <2>2, SessionStep DEF TypeOK
<1> QED
  BY <1>2, <1>3 DEF Load

\* authenticate turns a late request away: its machine is revoked.
LEMMA AuthenticateStep ==
  ASSUME IInv, NEW s \in Sessions, Authenticate(s)
  PROVE  IInv'
<1>1. /\ TypeOK /\ Fine(ses[s]) /\ ses[s].mach \in Identities
      /\ ses[s].pc = "auth" /\ UNCHANGED <<data, requests, crashes>>
  BY DEF IInv, TypeOK, Authenticate, Session
<1>2. CASE Reset(s)
  BY <1>1, <1>2, ResetStep DEF TypeOK
<1>3. CASE /\ machines[ses[s].mach].status = "active"
           /\ ses' = [ses EXCEPT ![s].seen = machines[ses[s].mach], ![s].pc = "touch"]
  <2>1. ~ses[s].late
    BY <1>1, <1>3 DEF IInv, StatusInv, Fine, Fetching
  <2>2. /\ ses' = [ses EXCEPT ![s] = ses'[s]] /\ ses'[s] \in Session
        /\ ses'[s].pc = "touch" /\ ses'[s].seq = ses[s].seq
        /\ ses'[s].read = ses[s].read /\ ~ses'[s].late
    <3>1. Loads(s, ses[s].mach, "touch")
      BY <1>3 DEF Loads
    <3> QED
      BY <1>1, <2>1, <3>1, SeenEffect, KnownPcs
  <2>3. Fine(ses[s])'
    BY <1>1, <2>2 DEF Fine, Fetching, Versions, OfSeq, data
  <2> QED
    BY <1>1, <2>2, <2>3, SessionStep DEF TypeOK
<1> QED
  BY <1>2, <1>3 DEF Authenticate

\* The reserved identity as found: a late session finds it revoked.
LEMMA EnsureStep ==
  ASSUME IInv, NEW s \in Sessions, Ensure(s)
  PROVE  IInv'
<1>1. /\ TypeOK /\ Fine(ses[s]) /\ Reserved \in Identities
      /\ ses[s].pc \in {"ensure", "ensureget"}
      /\ UNCHANGED <<data, requests, crashes>>
  BY DEF IInv, TypeOK, Ensure, Identities
<1>2. ses[s].late => machines[Reserved].status = "revoked" /\ ses[s].mach = Reserved
  BY <1>1 DEF IInv, StatusInv, Fine, Fetching
<1>3. CASE machines[Reserved].status = "none"
  <2>1. Goto(s, "ensureins") /\ ~ses[s].late
    BY <1>2, <1>3 DEF Ensure
  <2> QED
    BY <1>1, <2>1, PlainStep DEF Pcs, Fetching
<1>4. CASE machines[Reserved].status # "none"
  <2>1. ses' = [ses EXCEPT ![s].seen = machines[Reserved], ![s].pc = "status"]
    BY <1>4 DEF Ensure
  <2>2. /\ ses' = [ses EXCEPT ![s] = ses'[s]] /\ ses'[s] \in Session
        /\ ses'[s].pc = "status" /\ ses'[s].seen = machines[Reserved]
        /\ ses'[s].seq = ses[s].seq /\ ses'[s].read = ses[s].read
        /\ ses'[s].late = ses[s].late /\ ses'[s].mach = ses[s].mach
    <3>1. Loads(s, Reserved, "status")
      BY <2>1 DEF Loads
    <3> QED
      BY <1>1, <3>1, SeenEffect, KnownPcs
  <2>3. Fine(ses[s])'
    BY <1>1, <1>2, <2>2 DEF Fine, Fetching, Versions, OfSeq, data, Hurdles
  <2> QED
    BY <1>1, <2>2, <2>3, SessionStep DEF TypeOK
<1> QED
  BY <1>3, <1>4

LEMMA EnsureInsertStep ==
  ASSUME IInv, NEW s \in Sessions, EnsureInsert(s)
  PROVE  IInv'
<1>1. /\ TypeOK /\ Fine(ses[s]) /\ ses[s] \in Session
      /\ Reserved \in Identities /\ ses[s].pc = "ensureins"
      /\ UNCHANGED <<owner, printed, boot, minted, barred, projects, rows, requests, crashes>>
  BY DEF IInv, TypeOK, EnsureInsert, Identities
<1>2. ses[s].late => machines[Reserved].status = "revoked" /\ ses[s].mach = Reserved
  BY <1>1 DEF IInv, StatusInv, Fine, Fetching
<1>3. CASE machines[Reserved].status # "none"
  <2>1. Goto(s, "ensureget") /\ UNCHANGED <<data, requests, crashes>>
    BY <1>3, Zenon DEF EnsureInsert, data
  <2>2. /\ ses' = [ses EXCEPT ![s] = ses'[s]] /\ ses'[s] \in Session
        /\ ses'[s].pc = "ensureget" /\ ses'[s].seq = ses[s].seq
        /\ ses'[s].read = ses[s].read /\ ses'[s].late = ses[s].late
        /\ ses'[s].mach = ses[s].mach
    BY <1>1, <2>1, GotoEffect DEF Pcs
  <2>3. Fine(ses[s])'
    BY <1>1, <1>2, <2>1, <2>2 DEF Fine, Fetching, Versions, OfSeq, data, Hurdles
  <2> QED
    BY <1>1, <2>1, <2>2, <2>3, SessionStep DEF TypeOK
<1>4. CASE machines[Reserved].status = "none"
  <2>1. /\ machines' = [machines EXCEPT ![Reserved] = Enrolled]
        /\ ses' = [ses EXCEPT ![s].seen = Enrolled, ![s].pc = "status"]
    BY <1>4 DEF EnsureInsert
  <2>2. Enrolled \in MachineRow
    BY DEF Enrolled, MachineRow
  <2>3. machines' \in [Identities -> MachineRow] /\ StatusInv'
    BY <1>1, <1>4, <2>1, <2>2 DEF IInv, StatusInv, TypeOK, Enrolled
  <2>4. ses'[s] = [ses[s] EXCEPT !.seen = Enrolled, !.pc = "status"]
    BY <1>1, <2>1 DEF TypeOK, Session
  <2>5. ses' = [ses EXCEPT ![s] = ses'[s]] /\ ses'[s] \in Session
    <3>1. ses' = [ses EXCEPT ![s] = ses'[s]]
      BY <1>1, <2>1, <2>4 DEF TypeOK
    <3>2. ses[s] \in Session /\ "status" \in Pcs
      BY <1>1, KnownPcs DEF TypeOK
    <3> QED
      BY <2>2, <2>4, <3>1, <3>2 DEF Session
  <2>6. /\ ses'[s].pc = "status" /\ ses'[s].seq = ses[s].seq
        /\ ses'[s].read = ses[s].read /\ ~ses'[s].late
    BY <1>1, <1>2, <1>4, <2>4 DEF Session
  <2>7. Fine(ses[s])'
    BY <1>1, <2>6 DEF Fine, Fetching, Versions, OfSeq
  <2> QED
    BY <1>1, <2>3, <2>5, <2>7, FrameStep DEF TypeOK
<1> QED
  BY <1>3, <1>4

\* The kill switch: a late session has seen the revocation.
LEMMA KillSwitchStep ==
  ASSUME IInv, NEW s \in Sessions, KillSwitch(s)
  PROVE  IInv'
<1>1. TypeOK /\ Fine(ses[s]) /\ ses[s].pc = "status" /\ UNCHANGED <<data, requests, crashes>>
  BY DEF IInv, KillSwitch
<1>2. CASE ses[s].seen.status = "revoked"
  <2>1. Reset(s)
    BY <1>2 DEF KillSwitch
  <2> QED
    BY <1>1, <2>1, ResetStep DEF TypeOK
<1>3. CASE ses[s].seen.status # "revoked"
  <2>1. Goto(s, "work") /\ ~ses[s].late
    BY <1>1, <1>3 DEF KillSwitch, Fine, Fetching
  <2> QED
    BY <1>1, <2>1, PlainStep DEF Pcs, Fetching
<1> QED
  BY <1>2, <1>3

LEMMA RespondStep ==
  ASSUME IInv, NEW s \in Sessions, Respond(s)
  PROVE  IInv'
BY ResetStep DEF Respond, IInv, TypeOK

LEMMA TouchStep ==
  ASSUME IInv, NEW s \in Sessions, Touch(s)
  PROVE  IInv'
<1>1. ~ses[s].late /\ ses[s].pc \in Fetching
  BY NotLate DEF Touch, Hurdles, Fetching
<1> QED
  BY <1>1, PlainStep DEF Touch, Pcs

LEMMA WorkStep ==
  ASSUME IInv, NEW s \in Sessions, Work(s)
  PROVE  IInv'
<1>1. ~ses[s].late
  BY NotLate DEF Work, Hurdles
<1> QED
  BY <1>1, PlainStep DEF Work, Pcs, Fetching

\* The commit of a revocation or a reactivation.  Its own session saw an older
\* row, but writes the status only if the request changes it; sessions that
\* came after an earlier revocation are late no longer once it is lifted.
LEMMA ChangeStep ==
  ASSUME IInv, NEW s \in Sessions, Change(s)
  PROVE  IInv'
<1> DEFINE m == ses[s].mach
           was == ses[s].seen
           new == CASE ses[s].op = "revoke"     -> [was EXCEPT !.status = "revoked"]
                    [] ses[s].op = "reactivate" -> [was EXCEPT !.status = "active"]
                    [] ses[s].op = "update"     -> [was EXCEPT !.role = "builder"]
           row == [status |-> IF new.status # was.status THEN new.status ELSE machines[m].status,
                   role   |-> IF new.role # was.role THEN new.role ELSE machines[m].role]
<1>1. /\ TypeOK /\ Fine(ses[s]) /\ ses[s] \in Session /\ ses[s].pc = "mset" /\ ~ses[s].late
      /\ ses[s].op \in {"revoke", "reactivate", "update"}
  BY NotLate DEF IInv, TypeOK, Change, Hurdles, Fine
<1>2. m \in Identities /\ was \in MachineRow /\ machines[m] \in MachineRow
  BY <1>1 DEF Session, TypeOK
<1>3. /\ new \in MachineRow
      /\ ses[s].op = "revoke" => new.status = "revoked"
      /\ ses[s].op = "reactivate" => new.status = "active"
      /\ ses[s].op = "update" => new.status = was.status
  <2> HIDE DEF was
  <2>1. CASE ses[s].op = "revoke"
    <3>1. new = [was EXCEPT !.status = "revoked"]
      BY <2>1
    <3> QED
      BY <1>2, <2>1, <3>1 DEF MachineRow
  <2>2. CASE ses[s].op = "reactivate"
    <3>1. new = [was EXCEPT !.status = "active"]
      BY <2>2
    <3> QED
      BY <1>2, <2>2, <3>1 DEF MachineRow
  <2>3. CASE ses[s].op = "update"
    <3>1. new = [was EXCEPT !.role = "builder"]
      BY <2>3
    <3> QED
      BY <1>2, <2>3, <3>1 DEF MachineRow
  <2> QED
    BY <1>1, <2>1, <2>2, <2>3
<1>4. /\ machines' = [machines EXCEPT ![m] = row]
      /\ barred' = IF new.status = was.status THEN barred
                   ELSE IF ses[s].op = "revoke" THEN barred \cup {m} ELSE barred \ {m}
      /\ ses' = [x \in Sessions |->
                   IF x = s THEN [ses[x] EXCEPT !.pc = "done"]
                   ELSE [ses[x] EXCEPT !.late = @ /\ ses[x].mach \in barred']]
      /\ UNCHANGED <<owner, printed, boot, minted, projects, rows, requests, crashes>>
  BY DEF Change
<1> HIDE DEF new, was, m
<1>5. row \in MachineRow /\ row.status = IF new.status # was.status THEN new.status
                                        ELSE machines[m].status
  BY <1>2, <1>3 DEF MachineRow
<1> HIDE DEF row
<1>6. machines' \in [Identities -> MachineRow] /\ barred' \subseteq Identities
  BY <1>1, <1>2, <1>4, <1>5 DEF TypeOK
<1>7. \A x \in Identities : machines'[x] = IF x = m THEN row ELSE machines[x]
  BY <1>1, <1>4 DEF TypeOK
<1>8. StatusInv'
  <2> SUFFICES ASSUME NEW x \in Identities
               PROVE  x \in barred' <=> machines'[x].status = "revoked"
    BY DEF StatusInv
  <2>1. x \in barred <=> machines[x].status = "revoked"
    BY DEF IInv, StatusInv
  <2>2. CASE x # m
    BY <1>4, <1>7, <2>1, <2>2
  <2>3. CASE x = m
    <3>1. machines'[x].status = IF new.status # was.status THEN new.status
                               ELSE machines[x].status
      BY <1>5, <1>7, <2>3
    <3>2. CASE new.status = was.status
      BY <1>4, <2>1, <3>1, <3>2
    <3>3. CASE new.status # was.status /\ ses[s].op = "revoke"
      BY <1>3, <1>4, <2>3, <3>1, <3>3
    <3>4. CASE new.status # was.status /\ ses[s].op = "reactivate"
      BY <1>3, <1>4, <2>3, <3>1, <3>4
    <3> QED
      BY <1>1, <1>3, <3>2, <3>3, <3>4
  <2> QED
    BY <2>2, <2>3
<1>9. \A x \in Sessions : ses'[x] \in Session /\ Fine(ses[x])'
  <2> SUFFICES ASSUME NEW x \in Sessions PROVE ses'[x] \in Session /\ Fine(ses[x])'
    OBVIOUS
  <2>1. ses[x] \in Session /\ Fine(ses[x])
    BY <1>1 DEF IInv, TypeOK
  <2> DEFINE old == ses[x]
             nxt == ses'[x]
  <2>2. CASE x = s
    <3>1. nxt = [old EXCEPT !.pc = "done"]
      BY <1>4, <2>2
    <3>2. old \in Session /\ ~old.late
      BY <1>1, <2>1, <2>2
    <3> HIDE DEF old, nxt
    <3>3. nxt \in Session /\ nxt.pc = "done" /\ nxt.seq = old.seq
            /\ nxt.read = old.read /\ ~nxt.late
      BY <3>1, <3>2, KnownPcs DEF Session
    <3>4. Fine(old)
      BY <2>1 DEF old
    <3>5. Fine(ses[x])'
      BY <1>4, <3>3, <3>4 DEF Fine, Versions, OfSeq, Fetching, nxt
    <3> QED
      BY <3>3, <3>5 DEF nxt
  <2>3. CASE x # s
    <3> DEFINE late == old.late /\ old.mach \in barred'
    <3>1. nxt = [old EXCEPT !.late = late]
      BY <1>4, <2>3
    <3>2. old \in Session /\ Fine(old) /\ late \in BOOLEAN /\ (late => old.late /\ old.mach \in barred')
      BY <2>1
    <3> HIDE DEF old, nxt, late
    <3>3. /\ nxt \in Session
          /\ nxt.pc = old.pc /\ nxt.seq = old.seq /\ nxt.op = old.op
          /\ nxt.read = old.read /\ nxt.mach = old.mach /\ nxt.seen = old.seen
          /\ nxt.tries = old.tries /\ nxt.ver = old.ver
      <4>1. nxt \in Session
        BY <3>1, <3>2, ZenonT(40) DEF Session
      <4>2. /\ nxt.pc = old.pc /\ nxt.seq = old.seq /\ nxt.op = old.op
            /\ nxt.read = old.read /\ nxt.mach = old.mach /\ nxt.seen = old.seen
            /\ nxt.tries = old.tries /\ nxt.ver = old.ver
        BY <3>1, <3>2 DEF Session
      <4> QED
        BY <4>1, <4>2
    <3>4. nxt.late => old.late /\ old.mach \in barred'
      BY <3>1, <3>2 DEF Session
    <3>5. Fine(ses[x])'
      BY <1>4, <3>2, <3>3, <3>4, ZenonT(40) DEF Fine, Versions, OfSeq, nxt
    <3> QED
      BY <3>3, <3>5 DEF nxt
  <2> QED
    BY <2>2, <2>3
<1>10. TypeOK'
  <2>1. ses' \in [Sessions -> Session]
    BY <1>4, <1>9
  <2> QED
    BY <1>1, <1>4, <1>6, <2>1 DEF TypeOK
<1>11. BootInv' /\ RowInv'
  BY <1>4 DEF IInv, BootInv, PrintedTokenWorks, RowInv, SequencesAreGapless, Versions, OfSeq
<1> QED
  BY <1>8, <1>9, <1>10, <1>11 DEF IInv

----------------------------------------------------------------------------
(* get_bootstrap. *)

LEMMA GetProjectStep ==
  ASSUME IInv, NEW s \in Sessions, GetProject(s)
  PROVE  IInv'
<1>1. ~ses[s].late /\ ses[s].pc \in Fetching
  BY NotLate DEF GetProject, Hurdles, Fetching
<1>2. Goto(s, "global") \/ Goto(s, "stub")
  BY DEF GetProject
<1> QED
  BY <1>1, <1>2, PlainStep DEF GetProject, Pcs

LEMMA StubStep ==
  ASSUME IInv, NEW s \in Sessions, Stub(s)
  PROVE  IInv'
<1>1. /\ TypeOK /\ ses[s] \in Session /\ Fine(ses[s]) /\ ~ses[s].late /\ ses[s].pc = "stub"
      /\ UNCHANGED <<data, requests, crashes>>
  BY NotLate DEF IInv, TypeOK, Stub, Hurdles
<1>2. CASE Goto(s, "failed")
  BY <1>1, <1>2, PlainStep DEF Pcs, Fetching
<1>3. CASE ses' = [ses EXCEPT ![s].stub = TRUE, ![s].pc = "global"]
  <2> DEFINE me == ses[s]
             new == ses'[s]
  <2>1. new = [me EXCEPT !.stub = TRUE, !.pc = "global"] /\ me \in Session /\ ~me.late
    BY <1>1, <1>3 DEF TypeOK, Session
  <2>2. ses' = [ses EXCEPT ![s] = ses'[s]]
    BY <1>1, <1>3, <2>1 DEF TypeOK
  <2> HIDE DEF me, new
  <2>3. /\ new \in Session /\ new.pc = "global" /\ new.seq = me.seq
        /\ new.read = me.read /\ ~new.late
    BY <2>1, KnownPcs DEF Session
  <2>4. Fine(ses[s])'
    BY <1>1, <2>3 DEF me, new, Fine, Fetching, Versions, OfSeq, data
  <2>5. ses'[s] \in Session
    BY <2>3 DEF new
  <2> QED
    BY <1>1, <2>2, <2>4, <2>5, SessionStep DEF TypeOK
<1> QED
  BY <1>2, <1>3 DEF Stub

\* The version read is the highest, which is stored.
LEMMA ReadGlobalStep ==
  ASSUME IInv, NEW s \in Sessions, ReadGlobal(s)
  PROVE  IInv'
<1>1. /\ TypeOK /\ ses[s] \in Session /\ Fine(ses[s]) /\ ~ses[s].late /\ ses[s].pc = "global"
      /\ UNCHANGED <<data, requests, crashes>>
      /\ ses' = [ses EXCEPT ![s].read.global = Top("global"), ![s].pc = "overlay"]
  BY NotLate DEF IInv, TypeOK, ReadGlobal, Hurdles
<1> DEFINE v == Top("global")
           me == ses[s]
           new == ses'[s]
<1>2. v \in Nat /\ v \in Versions("global") \cup {0}
  BY TopIsCount DEF IInv, Seqs
<1>3. new = [me EXCEPT !.read.global = v, !.pc = "overlay"] /\ me \in Session /\ ~me.late
  BY <1>1 DEF TypeOK, Session
<1>4. ses' = [ses EXCEPT ![s] = ses'[s]]
  BY <1>1, <1>3 DEF TypeOK
<1> HIDE DEF v, me, new
<1>5. /\ new \in Session /\ new.pc = "overlay" /\ new.seq = me.seq
      /\ new.read.global = v /\ new.read.overlay = me.read.overlay /\ ~new.late
  BY <1>2, <1>3, KnownPcs DEF Session
<1>6. Fine(ses[s])'
  BY <1>1, <1>2, <1>5 DEF me, new, Fine, Fetching, Versions, OfSeq, data
<1>7. ses'[s] \in Session
  BY <1>5 DEF new
<1> QED
  BY <1>1, <1>4, <1>6, <1>7, SessionStep DEF TypeOK

LEMMA ReadOverlayStep ==
  ASSUME IInv, NEW s \in Sessions, ReadOverlay(s)
  PROVE  IInv'
<1>1. /\ TypeOK /\ ses[s] \in Session /\ Fine(ses[s]) /\ ~ses[s].late /\ ses[s].pc = "overlay"
      /\ UNCHANGED <<data, requests, crashes>>
      /\ ses' = [ses EXCEPT ![s].read.overlay = Top(ses[s].seq), ![s].pc = "channel"]
  BY NotLate DEF IInv, TypeOK, ReadOverlay, Hurdles
<1> DEFINE v == Top(ses[s].seq)
           me == ses[s]
           new == ses'[s]
<1>2. v \in Nat /\ v \in Versions(me.seq) \cup {0}
  <2>1. ses[s].seq \in Seqs
    BY <1>1 DEF Session
  <2> QED
    BY <2>1, TopIsCount DEF IInv
<1>3. new = [me EXCEPT !.read.overlay = v, !.pc = "channel"] /\ me \in Session /\ ~me.late
  BY <1>1 DEF TypeOK, Session
<1>4. ses' = [ses EXCEPT ![s] = ses'[s]]
  BY <1>1, <1>3 DEF TypeOK
<1> HIDE DEF v, me, new
<1>5. /\ new \in Session /\ new.pc = "channel" /\ new.seq = me.seq
      /\ new.read.overlay = v /\ new.read.global = me.read.global /\ ~new.late
  BY <1>2, <1>3, KnownPcs DEF Session
<1>6. Fine(ses[s])'
  BY <1>1, <1>2, <1>5 DEF me, new, Fine, Fetching, Versions, OfSeq, data
<1>7. ses'[s] \in Session
  BY <1>5 DEF new
<1> QED
  BY <1>1, <1>4, <1>6, <1>7, SessionStep DEF TypeOK

LEMMA ReadChannelStep ==
  ASSUME IInv, NEW s \in Sessions, ReadChannel(s)
  PROVE  IInv'
<1>1. /\ TypeOK /\ ses[s] \in Session /\ Fine(ses[s]) /\ ~ses[s].late /\ ses[s].pc = "channel"
      /\ UNCHANGED <<data, requests, crashes>>
      /\ ses' = [ses EXCEPT ![s].reply.channel = Top("notify"), ![s].pc = "compile"]
  BY NotLate DEF IInv, TypeOK, ReadChannel, Hurdles
<1> DEFINE v == Top("notify")
           me == ses[s]
           new == ses'[s]
<1>2. v \in Nat
  BY TopIsCount DEF IInv, Seqs
<1>3. /\ new = [me EXCEPT !.reply = [me.reply EXCEPT !.channel = v], !.pc = "compile"]
      /\ me \in Session /\ ~me.late /\ me.reply \in Reply
  BY <1>1 DEF TypeOK, Session
<1>4. ses' = [ses EXCEPT ![s] = ses'[s]]
  BY <1>1, <1>3 DEF TypeOK
<1> DEFINE rep == [me.reply EXCEPT !.channel = v]
<1> HIDE DEF v, me, new
<1>5. rep \in Reply
  BY <1>2, <1>3 DEF Reply
<1> HIDE DEF rep
<1>6. /\ new \in Session /\ new.pc = "compile" /\ new.seq = me.seq
      /\ new.read = me.read /\ ~new.late
  <2>1. new = [me EXCEPT !.reply = rep, !.pc = "compile"]
    BY <1>3 DEF rep
  <2> QED
    BY <1>3, <1>5, <2>1, KnownPcs DEF Session
<1>7. Fine(ses[s])'
  BY <1>1, <1>6 DEF me, new, Fine, Fetching, Versions, OfSeq, data
<1>8. ses'[s] \in Session
  BY <1>6 DEF new
<1> QED
  BY <1>1, <1>4, <1>7, <1>8, SessionStep DEF TypeOK

\* The rules of a tier are rules.
LEMMA TierTyped ==
  ASSUME NEW rules \in Seq(Rule), NEW t
  PROVE  OfTier(rules, t) \subseteq Rules
<1>1. Elems(rules) \subseteq Rule
  BY DEF Elems
<1> QED
  BY <1>1 DEF OfTier, Rule

\* _compile_doctrine returns sections made of rules, and the versions it was
\* asked for.
LEMMA CompileTyped ==
  ASSUME TypeOK, NEW q \in Seqs, NEW g \in Versions("global") \cup {0},
         NEW o \in Versions(q) \cup {0}
  PROVE  CompileDoctrine(q, g, o) \in Reply
<1> DEFINE rules == ContentOf("global", g).rules
           lay   == ContentOf(q, o)
<1>1. NoReply \in Reply
  BY DEF NoReply, Reply
<1>2. \A x \in Seqs : Versions(x) \subseteq Nat
  BY DEF Versions, OfSeq, TypeOK, Row
<1>3. g \in Nat /\ o \in Nat
  BY <1>2 DEF Seqs
<1>4. rules \in Seq(Rule) /\ lay \in Content
  <2>1. ContentOf("global", g) \in Content /\ ContentOf(q, o) \in Content
    BY ContentTyped DEF Seqs
  <2> QED
    BY <2>1 DEF Content
<1> DEFINE fixed == OfTier(rules, "non_negotiable")
           kept == OfTier(rules, "default") \ Elems(lay.over)
           replaced == OfTier(rules, "default") \cap Elems(lay.over)
           added == Elems(lay.add)
           text == o # 0
<1>5. /\ fixed \in SUBSET Rules /\ kept \in SUBSET Rules /\ replaced \in SUBSET Rules
      /\ text \in BOOLEAN
  BY <1>4, TierTyped
<1>6. added \in SUBSET Rules
  <2>1. lay.add \in Seq(Rules)
    BY <1>4 DEF Content
  <2> QED
    BY <2>1 DEF Elems
<1>7. CASE g = 0
  BY <1>1, <1>7 DEF CompileDoctrine
<1>8. CASE g # 0
  <2>1. CompileDoctrine(q, g, o) =
          [NoReply EXCEPT !.global = g, !.overlay = o, !.fixed = fixed, !.kept = kept,
                          !.replaced = replaced, !.added = added, !.text = text]
    BY <1>8, ZenonT(40) DEF CompileDoctrine
  <2> HIDE DEF fixed, kept, replaced, added, text
  <2> QED
    BY <1>1, <1>3, <1>5, <1>6, <2>1, ZenonT(40) DEF Reply
<1> QED
  BY <1>7, <1>8

\* The size budget leaves a reply: of the lessons as many as fit.
LEMMA BudgetTyped ==
  ASSUME NEW r \in Reply
  PROVE  ApplySizeBudget(r) \in Reply
<1> DEFINE base == Cardinality(r.fixed) + Cardinality(r.kept) + Cardinality(r.replaced)
                     + Cardinality(r.added) + (IF r.text THEN 1 ELSE 0)
           fit == {k \in 0..r.lessons : Size([r EXCEPT !.lessons = k]) <= Budget}
<1>1. /\ r.fixed \in SUBSET Rules /\ r.kept \in SUBSET Rules /\ r.replaced \in SUBSET Rules
      /\ r.added \in SUBSET Rules /\ r.lessons \in Nat /\ r.text \in BOOLEAN
  BY DEF Reply
<1>2. /\ Cardinality(r.fixed) \in Nat /\ Cardinality(r.kept) \in Nat
      /\ Cardinality(r.replaced) \in Nat /\ Cardinality(r.added) \in Nat
  BY <1>1, FS_Subset, FS_CardinalityType, RegistryAssumption
<1>3. base \in Nat
  BY <1>2
<1>4. \A k \in Nat : Size([r EXCEPT !.lessons = k]) = base + k
  <2> SUFFICES ASSUME NEW k \in Nat PROVE Size([r EXCEPT !.lessons = k]) = base + k
    OBVIOUS
  <2> DEFINE e == [r EXCEPT !.lessons = k]
  <2>1. /\ e.fixed = r.fixed /\ e.kept = r.kept /\ e.replaced = r.replaced
        /\ e.added = r.added /\ e.lessons = k /\ e.text = r.text
    BY DEF Reply
  <2> HIDE DEF e
  <2>2. Size(e) = Cardinality(r.fixed) + Cardinality(r.kept) + Cardinality(r.replaced)
                    + Cardinality(r.added) + k + (IF r.text THEN 1 ELSE 0)
    BY <2>1 DEF Size
  <2>3. Size(e) = base + k
    BY <1>2, <2>2
  <2> QED
    BY <2>3 DEF e
<1>5. CASE fit = {}
  <2>1. ApplySizeBudget(r) = [r EXCEPT !.lessons = 0, !.text = FALSE]
    BY <1>5 DEF ApplySizeBudget
  <2> HIDE DEF base, fit
  <2>2. [r EXCEPT !.lessons = 0, !.text = FALSE] \in Reply
    BY DEF Reply
  <2> QED
    BY <2>1, <2>2
<1>6. CASE fit # {}
  <2> DEFINE top == IF base + r.lessons <= Budget THEN r.lessons ELSE Budget - base
  <2>1. Budget \in Nat
    BY RegistryAssumption
  <2> HIDE DEF base
  <2>2. fit = {k \in 0..r.lessons : base + k <= Budget}
    BY <1>1, <1>4
  <2>3. PICK k0 \in 0..r.lessons : base + k0 <= Budget
    BY <1>6, <2>2
  <2> DEFINE F == {k \in 0..r.lessons : base + k <= Budget}
             len == r.lessons
  <2>4. len \in Nat /\ F = {k \in 0..len : base + k <= Budget} /\ k0 \in 0..len
          /\ top = IF base + len <= Budget THEN len ELSE Budget - base
    BY <1>1
  <2> HIDE DEF len
  <2>5. top \in F /\ \A y \in F : top >= y
    BY <1>3, <2>1, <2>3, <2>4
  <2>6. Max(F) \in F
    BY <2>5 DEF Max
  <2>7. Max(fit) \in Nat
    <3>1. fit = F /\ F \subseteq Nat
      BY <1>1, <2>2
    <3> HIDE DEF fit, F
    <3> QED
      BY <2>6, <3>1
  <2>8. ApplySizeBudget(r) = [r EXCEPT !.lessons = Max(fit)]
    BY <1>6 DEF ApplySizeBudget
  <2> HIDE DEF fit
  <2> QED
    BY <2>7, <2>8 DEF Reply
<1> QED
  BY <1>5, <1>6

LEMMA CompileStep ==
  ASSUME IInv, NEW s \in Sessions, Compile(s)
  PROVE  IInv'
<1>1. /\ TypeOK /\ ses[s] \in Session /\ Fine(ses[s]) /\ ~ses[s].late /\ ses[s].pc = "compile"
      /\ UNCHANGED <<owner, printed, boot, minted, machines, barred, rows, requests, crashes>>
      /\ projects' = projects \cup {ses[s].seq}
  BY NotLate DEF IInv, TypeOK, Compile, Hurdles
<1>2. PICK n \in {0, Digest} :
        ses' = [ses EXCEPT
          ![s].reply = ApplySizeBudget([CompileDoctrine(ses[s].seq, ses[s].read.global,
                                                        ses[s].read.overlay)
                         EXCEPT !.channel = ses[s].reply.channel, !.lessons = n]),
          ![s].stub = FALSE, ![s].pc = "served"]
  BY DEF Compile
<1> DEFINE d == CompileDoctrine(ses[s].seq, ses[s].read.global, ses[s].read.overlay)
           chan == ses[s].reply.channel
           r == [d EXCEPT !.channel = chan, !.lessons = n]
           rep == ApplySizeBudget(r)
           me == ses[s]
           new == ses'[s]
<1>3. d \in Reply
  <2>1. /\ ses[s].read.global \in Versions("global") \cup {0}
        /\ ses[s].read.overlay \in Versions(ses[s].seq) \cup {0}
        /\ ses[s].seq \in Seqs
    BY <1>1 DEF Fine, Session
  <2> QED
    BY <1>1, <2>1, CompileTyped
<1>4. chan \in Nat /\ n \in Nat
  <2>1. ses[s].reply \in Reply
    BY <1>1 DEF Session
  <2>2. ses[s].reply.channel \in Nat
    BY <2>1 DEF Reply
  <2> QED
    BY <1>2, <2>2, RegistryAssumption
<1>5. rep \in Reply
  <2> HIDE DEF d, chan
  <2>1. r \in Reply
    BY <1>3, <1>4 DEF Reply
  <2> QED
    BY <2>1, BudgetTyped
<1>6. ses' = [ses EXCEPT ![s].reply = rep, ![s].stub = FALSE, ![s].pc = "served"]
  BY <1>2
<1> HIDE DEF rep
<1>7. new = [me EXCEPT !.reply = rep, !.stub = FALSE, !.pc = "served"]
        /\ me \in Session /\ ~me.late
  BY <1>1, <1>6 DEF TypeOK, Session
<1>8. ses' = [ses EXCEPT ![s] = ses'[s]]
  BY <1>1, <1>6, <1>7 DEF TypeOK
<1> HIDE DEF me, new
<1>9. /\ new \in Session /\ new.pc = "served" /\ new.seq = me.seq
      /\ new.read = me.read /\ ~new.late
  BY <1>5, <1>7, KnownPcs DEF Session
<1>10. Fine(ses[s])'
  BY <1>1, <1>9 DEF me, new, Fine, Fetching, Versions, OfSeq
<1>11. projects' \subseteq Projects
  BY <1>1 DEF TypeOK, Fine, Fetching
<1>12. ses'[s] \in Session
  BY <1>9 DEF new
<1>13. machines' \in [Identities -> MachineRow] /\ StatusInv'
  BY <1>1 DEF IInv, TypeOK, StatusInv
<1> QED
  BY <1>1, <1>8, <1>10, <1>11, <1>12, <1>13, FrameStep DEF TypeOK

----------------------------------------------------------------------------
(* The start of a process, and crashes. *)

\* A step of a process that starts leaves the sessions and the tables alone.
LEMMA BootFrame ==
  ASSUME IInv, BootInv', owner' \in Nat \cup {None}, printed' \subseteq Nat, minted' \in Nat,
         boot' \in [Procs -> [pc : {"down", "insert", "banner", "up"}, token : Nat]],
         crashes' \in 0..MaxCrashes,
         UNCHANGED <<machines, barred, projects, rows, ses, requests>>
  PROVE  IInv'
<1>1. TypeOK'
  BY DEF IInv, TypeOK
<1>2. StatusInv' /\ RowInv'
  BY DEF IInv, StatusInv, RowInv, SequencesAreGapless, Versions, OfSeq
<1>3. \A x \in Sessions : Fine(ses[x])'
  BY DEF IInv, Fine, Versions, OfSeq
<1> QED
  BY <1>1, <1>2, <1>3 DEF IInv

LEMMA BootStep ==
  ASSUME IInv, NEW p \in Procs, Boot(p)
  PROVE  IInv'
<1>1. /\ TypeOK /\ BootInv
      /\ boot' = [boot EXCEPT ![p].pc = IF owner # None THEN "up" ELSE "insert"]
      /\ UNCHANGED <<owner, printed, minted, machines, barred, projects, rows, ses,
                     requests, crashes>>
  BY DEF IInv, Boot
<1>2. boot' \in [Procs -> [pc : {"down", "insert", "banner", "up"}, token : Nat]]
  BY <1>1 DEF TypeOK
<1>3. \A x \in Procs : IF x = p THEN boot'[x].pc = IF owner # None THEN "up" ELSE "insert"
                       ELSE boot'[x] = boot[x]
  BY <1>1 DEF TypeOK
<1>4. BootInv'
  BY <1>1, <1>3 DEF BootInv, PrintedTokenWorks
<1> QED
  BY <1>1, <1>2, <1>4, BootFrame DEF TypeOK

\* The loser of the race finds a token stored; only the winner has one to show.
LEMMA TokenInsertStep ==
  ASSUME IInv, NEW p \in Procs, TokenInsert(p)
  PROVE  IInv'
<1>1. /\ TypeOK /\ BootInv /\ minted' = minted + 1 /\ minted + 1 \in Nat
      /\ UNCHANGED <<printed, machines, barred, projects, rows, ses, requests, crashes>>
  BY DEF IInv, TokenInsert, TypeOK
<1>2. CASE owner = None
  <2> DEFINE t == minted + 1
  <2>1. owner' = t /\ boot' = [boot EXCEPT ![p] = [pc |-> "banner", token |-> t]] /\ t \in Nat
    BY <1>1, <1>2 DEF TokenInsert
  <2> HIDE DEF t
  <2>2. boot' \in [Procs -> [pc : {"down", "insert", "banner", "up"}, token : Nat]]
    BY <1>1, <2>1 DEF TypeOK
  <2>3. \A x \in Procs : IF x = p THEN boot'[x].pc = "banner" /\ boot'[x].token = t
                         ELSE boot'[x] = boot[x]
    BY <1>1, <2>1 DEF TypeOK
  <2>4. BootInv'
    BY <1>1, <1>2, <2>1, <2>3, RegistryAssumption DEF BootInv, PrintedTokenWorks
  <2> QED
    BY <1>1, <2>1, <2>2, <2>4, BootFrame DEF TypeOK
<1>3. CASE owner # None
  <2>1. owner' = owner /\ boot' = [boot EXCEPT ![p].pc = "up"]
    BY <1>3 DEF TokenInsert
  <2>2. boot' \in [Procs -> [pc : {"down", "insert", "banner", "up"}, token : Nat]]
    BY <1>1, <2>1 DEF TypeOK
  <2>3. \A x \in Procs : IF x = p THEN boot'[x].pc = "up" ELSE boot'[x] = boot[x]
    BY <1>1, <2>1 DEF TypeOK
  <2>4. BootInv'
    BY <1>1, <1>3, <2>1, <2>3 DEF BootInv, PrintedTokenWorks
  <2> QED
    BY <1>1, <2>1, <2>2, <2>4, BootFrame DEF TypeOK
<1> QED
  BY <1>2, <1>3

LEMMA BannerStep ==
  ASSUME IInv, NEW p \in Procs, Banner(p)
  PROVE  IInv'
<1>1. /\ TypeOK /\ BootInv /\ boot[p].pc = "banner" /\ printed' = printed \cup {boot[p].token}
      /\ boot' = [boot EXCEPT ![p] = [pc |-> "up", token |-> 0]]
      /\ UNCHANGED <<owner, minted, machines, barred, projects, rows, ses, requests, crashes>>
  BY DEF IInv, Banner
<1>2. boot' \in [Procs -> [pc : {"down", "insert", "banner", "up"}, token : Nat]]
  BY <1>1 DEF TypeOK
<1>3. \A x \in Procs : IF x = p THEN boot'[x].pc = "up" ELSE boot'[x] = boot[x]
  BY <1>1 DEF TypeOK
<1>4. printed' \subseteq Nat /\ boot[p].token = owner /\ owner # None
  BY <1>1 DEF TypeOK, BootInv
<1>5. BootInv'
  BY <1>1, <1>3, <1>4 DEF BootInv, PrintedTokenWorks
<1> QED
  BY <1>1, <1>2, <1>4, <1>5, BootFrame DEF TypeOK

LEMMA CrashStep ==
  ASSUME IInv, Crash
  PROVE  IInv'
<1>1. /\ TypeOK /\ BootInv /\ crashes' \in 0..MaxCrashes
      /\ UNCHANGED <<owner, printed, minted, machines, barred, projects, rows, requests>>
  BY RegistryAssumption DEF IInv, TypeOK, Crash
<1>2. CASE \E s \in Sessions : Reset(s) /\ UNCHANGED boot
  <2>1. requests' \in 0..MaxRequests /\ UNCHANGED data
    BY <1>1, <1>2 DEF TypeOK, data
  <2> QED
    BY <1>1, <1>2, <2>1, ResetStep
<1>3. CASE \E p \in Procs :
             boot' = [boot EXCEPT ![p] = [pc |-> "down", token |-> 0]] /\ UNCHANGED ses
  <2>1. PICK p \in Procs :
          boot' = [boot EXCEPT ![p] = [pc |-> "down", token |-> 0]] /\ UNCHANGED ses
    BY <1>3
  <2>2. boot' \in [Procs -> [pc : {"down", "insert", "banner", "up"}, token : Nat]]
    BY <1>1, <2>1 DEF TypeOK
  <2>3. \A x \in Procs : IF x = p THEN boot'[x].pc = "down" ELSE boot'[x] = boot[x]
    BY <1>1, <2>1 DEF TypeOK
  <2>4. BootInv'
    BY <1>1, <2>3 DEF BootInv, PrintedTokenWorks
  <2> QED
    BY <1>1, <2>1, <2>2, <2>4, BootFrame DEF TypeOK
<1> QED
  BY <1>2, <1>3 DEF Crash

----------------------------------------------------------------------------
(* The invariant. *)

\* Both beginnings satisfy it.  With the founding doctrine the global sequence
\* has one row, of version 1, and the others have none.
LEMMA InitIInv == Init => IInv
<1> SUFFICES ASSUME Init PROVE IInv
  OBVIOUS
<1> USE DEF Init
<1>1. \A s \in Sessions : ses[s] = Idle /\ ses[s] \in Session /\ Fine(ses[s])
  BY IdleFine
<1>2. /\ ses \in [Sessions -> Session] /\ minted \in Nat
      /\ boot \in [Procs -> [pc : {"down", "insert", "banner", "up"}, token : Nat]]
      /\ requests \in 0..MaxRequests /\ crashes \in 0..MaxCrashes /\ barred \subseteq Identities
  BY <1>1, RegistryAssumption
<1>3. \A p \in Procs : boot[p].pc = "down"
  OBVIOUS
<1>4. NoMachine \in MachineRow /\ Enrolled \in MachineRow
  BY DEF NoMachine, Enrolled, MachineRow
<1>5. CASE /\ owner = None /\ printed = {} /\ projects = {} /\ rows = {}
           /\ machines = [m \in Identities |-> NoMachine]
  <2>1. TypeOK
    BY <1>2, <1>4, <1>5 DEF TypeOK
  <2>2. BootInv /\ StatusInv
    BY <1>3, <1>5 DEF BootInv, PrintedTokenWorks, StatusInv, NoMachine
  <2>3. RowInv
    <3>1. IsFiniteSet(rows) /\ \A q \in Seqs : OfSeq(q) = {} /\ Versions(q) = {}
      BY <1>5, FS_EmptySet DEF OfSeq, Versions
    <3>2. Cardinality({}) = 0 /\ 1..0 = {}
      BY FS_EmptySet
    <3> QED
      BY <3>1, <3>2 DEF RowInv, SequencesAreGapless
  <2> QED
    BY <1>1, <2>1, <2>2, <2>3 DEF IInv
<1> DEFINE row == [seq |-> "global", version |-> 1, by |-> 0,
                   content |-> [Blank EXCEPT !.rules = Founding]]
<1>6. CASE /\ owner = 0 /\ printed = {0} /\ projects = Projects /\ rows = {row}
           /\ machines = [m \in Identities |-> IF m = Reserved THEN NoMachine ELSE Enrolled]
  <2>1. row \in Row /\ row.seq = "global" /\ row.version = 1
    <3>1. Blank \in Content
      BY DEF Blank, Content
    <3>2. [Blank EXCEPT !.rules = Founding] \in Content
      BY <3>1, RegistryAssumption DEF Content
    <3> QED
      BY <3>2 DEF Row, Seqs
  <2> HIDE DEF row
  <2>2. TypeOK
    BY <1>2, <1>4, <1>6, <2>1 DEF TypeOK
  <2>3. BootInv /\ StatusInv
    BY <1>3, <1>6, RegistryAssumption
       DEF BootInv, PrintedTokenWorks, StatusInv, NoMachine, Enrolled
  <2>4. RowInv
    <3>1. IsFiniteSet({row}) /\ Cardinality({row}) = 1 /\ Cardinality({}) = 0
      BY FS_Singleton, FS_EmptySet
    <3>2. \A q \in Seqs : OfSeq(q) = IF q = "global" THEN {row} ELSE {}
      BY <1>6, <2>1 DEF OfSeq
    <3>3. \A q \in Seqs : Versions(q) = IF q = "global" THEN {1} ELSE {}
      BY <2>1, <3>2 DEF Versions
    <3>4. 1..1 = {1} /\ 1..0 = {}
      OBVIOUS
    <3> QED
      BY <1>6, <3>1, <3>2, <3>3, <3>4 DEF RowInv, SequencesAreGapless
  <2> QED
    BY <1>1, <2>2, <2>3, <2>4 DEF IInv
<1> QED
  BY <1>5, <1>6

LEMMA StutterIInv ==
  ASSUME IInv, UNCHANGED vars
  PROVE  IInv'
<1>1. BootInv'
  BY DEF IInv, vars, BootInv, PrintedTokenWorks
<1> QED
  BY <1>1, BootFrame DEF IInv, vars, TypeOK

\* Every step of every session and process keeps the inductive invariant.
LEMMA NextIInv == IInv /\ [Next]_vars => IInv'
<1> SUFFICES ASSUME IInv, [Next]_vars PROVE IInv'
  OBVIOUS
<1>1. CASE UNCHANGED vars
  BY <1>1, StutterIInv
<1>2. CASE Crash
  BY <1>2, CrashStep
<1>3. ASSUME NEW p \in Procs, Boot(p) \/ TokenInsert(p) \/ Banner(p) PROVE IInv'
  BY <1>3, BootStep, TokenInsertStep, BannerStep
<1>4. ASSUME NEW s \in Sessions,
             \/ Arrive(s) \/ Respond(s) \/ Validate(s) \/ NextVersion(s) \/ Insert(s)
             \/ Mint(s) \/ Load(s) \/ Change(s) \/ Authenticate(s) \/ Touch(s)
      PROVE  IInv'
  BY <1>4, ArriveStep, RespondStep, ValidateStep, NextVersionStep, InsertStep, MintStep,
     LoadStep, ChangeStep, AuthenticateStep, TouchStep
<1>5. ASSUME NEW s \in Sessions,
             \/ Ensure(s) \/ EnsureInsert(s) \/ KillSwitch(s) \/ Work(s)
             \/ GetProject(s) \/ Stub(s) \/ ReadGlobal(s) \/ ReadOverlay(s)
             \/ ReadChannel(s) \/ Compile(s)
      PROVE  IInv'
  BY <1>5, EnsureStep, EnsureInsertStep, KillSwitchStep, WorkStep, GetProjectStep, StubStep,
     ReadGlobalStep, ReadOverlayStep, ReadChannelStep, CompileStep
<1> QED
  BY <1>1, <1>2, <1>3, <1>4, <1>5 DEF Next

\* In every behaviour the inductive invariant holds throughout.
THEOREM RegistryInvariance == Spec => []IInv
BY InitIInv, NextIInv, PTL DEF Spec

\* The state keeps its types, whatever the sizes: among others a bootstrap
\* enrols only projects, and what it serves consists of rules.
THEOREM RegistryTypes == Spec => []TypeOK
<1>1. IInv => TypeOK
  BY DEF IInv
<1> QED
  BY <1>1, RegistryInvariance, PTL

\* However many writers compute the same next version, every sequence of
\* doctrines and configurations is numbered without gaps or duplicates.
THEOREM SequencesCorrect == Spec => []SequencesAreGapless
<1>1. IInv => SequencesAreGapless
  BY DEF IInv, RowInv
<1> QED
  BY <1>1, RegistryInvariance, PTL

\* However many requests of a machine are under way when it is revoked, one
\* that comes after the revocation gets nowhere until a reactivation.
THEOREM RevocationHolds == Spec => []RevokedIsRefused
<1>1. IInv => RevokedIsRefused
  BY DEF IInv, Fine, Hurdles, RevokedIsRefused
<1> QED
  BY <1>1, RegistryInvariance, PTL

\* However many processes race for the first start, and wherever they die, a
\* token that was shown is the one whose hash is stored.
THEOREM TokenCorrect == Spec => []PrintedTokenWorks
<1>1. IInv => PrintedTokenWorks
  BY DEF IInv, BootInv
<1> QED
  BY <1>1, RegistryInvariance, PTL
=============================================================================
