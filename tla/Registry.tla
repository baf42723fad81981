------------------------------ MODULE Registry ------------------------------
(***************************************************************************)
(* Who may speak and what they are told: the owner token, the machines,    *)
(* the versioned records (global doctrine, project overlays, notification  *)
(* channel, LLM provider), and the bootstrap that compiles them.           *)
(*                                                                         *)
(* A session runs one request as a sequence of statements; each reads what *)
(* is committed at that moment.  db.commit() of a single insert or update  *)
(* is one step.  The ORM writes only the columns the request changed, as   *)
(* it compares them with the row it loaded.                                *)
(***************************************************************************)
EXTENDS Integers, Sequences, FiniteSets, FiniteSetsExt

CONSTANTS
  Rules,            \* ids of doctrine rules
  Projects,         \* project names
  Machines,         \* machine ids
  Reserved,         \* the reserved identity of the librarian or the room AI
  Rulebooks,        \* rule lists the owner posts as global doctrine
  Overlays,         \* overlays the owner posts, [over, add]
  Founding,         \* the rulebook of the installation that runs already
  Procs,            \* server processes
  Sessions,         \* request sessions
  None,
  MaxAttempts,      \* MAX_INSERT_ATTEMPTS
  Budget,           \* SIZE_BUDGET_BYTES
  Digest,           \* DIGEST_LIMIT
  MaxRequests,      \* bound: requests ever made
  MaxCrashes        \* bound: processes and sessions that die

Tiers   == {"non_negotiable", "default"}
Rule    == [id : Rules, tier : Tiers \cup {"other"}]
Seqs    == {"global", "notify", "llm"} \cup Projects
Content == [rules : Seq(Rule), over : Seq(Rules), add : Seq(Rules), ok : BOOLEAN]

Blank == [rules |-> <<>>, over |-> <<>>, add |-> <<>>, ok |-> TRUE]

ASSUME RegistryAssumption ==
  /\ Reserved \notin Machines /\ None \notin Nat /\ IsFiniteSet(Rules)
  /\ Rulebooks \subseteq Seq(Rule) /\ Founding \in Seq(Rule)
  /\ \A i \in DOMAIN Founding : Founding[i].tier \in Tiers
  /\ Overlays \subseteq [over : Seq(Rules), add : Seq(Rules)]
  /\ Projects \cap {"global", "notify", "llm"} = {}
  /\ MaxAttempts \in Nat \ {0} /\ {Budget, Digest, MaxRequests, MaxCrashes} \subseteq Nat

VARIABLES
  owner,            \* owner_token: the token whose hash is stored, or None
  printed,          \* tokens a banner has shown
  boot,             \* how far each process is in its start
  minted,           \* tokens generated so far
  machines,         \* machines: status and role, by id
  barred,           \* machines the owner's last change of status revoked
  projects,         \* projects
  rows,             \* doctrine_versions, notification_configs, llm_configs
  ses,              \* what each session is doing
  requests,         \* requests made so far
  crashes           \* deaths so far

vars == <<owner, printed, boot, minted, machines, barred, projects, rows, ses,
          requests, crashes>>

MachineRow == [status : {"none", "active", "revoked"}, role : {"solo", "builder"}]
Row        == [seq : Seqs, version : Nat, content : Content, by : Nat]
Identities == Machines \cup {Reserved}

NoMachine == [status |-> "none", role |-> "solo"]
Enrolled  == [status |-> "active", role |-> "solo"]

\* What get_bootstrap serves: the versions of its stamp, the rules by kind,
\* and how much of the digest and of the overlay's text is left.
Reply == [global : Nat, overlay : Nat, channel : Nat,
          fixed : SUBSET Rules, kept : SUBSET Rules, replaced : SUBSET Rules,
          added : SUBSET Rules, lessons : Nat, text : BOOLEAN]

NoReply == [global |-> 0, overlay |-> 0, channel |-> 0, fixed |-> {}, kept |-> {},
            replaced |-> {}, added |-> {}, lessons |-> 0, text |-> FALSE]

Pcs == {"idle", "validate", "next", "insert", "mint", "mget", "mset", "auth",
        "touch", "project", "stub", "global", "overlay", "channel", "compile",
        "ensure", "ensureins", "ensureget", "status", "work",
        "served", "done", "refused", "failed"}
Ops == {"none", "global", "notify", "llm", "overlay", "mint", "revoke",
        "reactivate", "update", "bootstrap", "reserved"}

Session ==
  [pc : Pcs, op : Ops,
   seq : Seqs,                  \* the sequence written, the project served
   content : Content,
   mach : Identities,
   req : Nat,                   \* number of the request
   tries : 0..MaxAttempts, ver : Nat,
   seen : MachineRow,           \* the machine as this session loaded it
   read : [global : Nat, overlay : Nat],
   stub : BOOLEAN,              \* it holds the key of a project it inserted
   since : [Seqs -> Nat],       \* current versions when the request came
   late : BOOLEAN,              \* it came after the revocation of its machine
   reply : Reply]

Idle == [pc |-> "idle", op |-> "none", seq |-> "global", content |-> Blank,
         mach |-> Reserved, req |-> 0, tries |-> 0, ver |-> 0, seen |-> NoMachine,
         read |-> [global |-> 0, overlay |-> 0], stub |-> FALSE,
         since |-> [q \in Seqs |-> 0], late |-> FALSE, reply |-> NoReply]

----------------------------------------------------------------------------
(* The versioned records. *)

OfSeq(q)    == {r \in rows : r.seq = q}
Versions(q) == {r.version : r \in OfSeq(q)}

\* current_global, current_overlay, current_config: the highest version.
Top(q) == Max(Versions(q) \cup {0})

ContentOf(q, v) ==
  IF v = 0 THEN Blank ELSE (CHOOSE r \in rows : r.seq = q /\ r.version = v).content

\* A new installation, and one that has been running for a while.
Init ==
  /\ minted = 0 /\ barred = {} /\ requests = 0 /\ crashes = 0
  /\ boot = [p \in Procs |-> [pc |-> "down", token |-> 0]]
  /\ ses = [s \in Sessions |-> Idle]
  /\ \/ /\ owner = None /\ printed = {} /\ projects = {} /\ rows = {}
        /\ machines = [m \in Identities |-> NoMachine]
     \/ /\ owner = 0 /\ printed = {0} /\ projects = Projects
        /\ rows = {[seq |-> "global", version |-> 1, by |-> 0,
                    content |-> [Blank EXCEPT !.rules = Founding]]}
        /\ machines = [m \in Identities |-> IF m = Reserved THEN NoMachine ELSE Enrolled]

Goto(s, pc) == ses' = [ses EXCEPT ![s].pc = pc]

data == <<owner, printed, boot, minted, machines, barred, projects, rows>>

----------------------------------------------------------------------------
(* bootstrap_owner_token, in each process that starts. *)

Boot(p) ==
  /\ boot[p].pc = "down"
  /\ boot' = [boot EXCEPT ![p].pc = IF owner # None THEN "up" ELSE "insert"]
  /\ UNCHANGED <<owner, printed, minted, machines, barred, projects, rows, ses,
                 requests, crashes>>

\* The singleton row: the loser of the race drops the token it generated.
TokenInsert_LoserPrints(p) ==
  /\ boot[p].pc = "insert"
  /\ minted' = minted + 1
  /\ owner' = IF owner = None THEN minted + 1 ELSE owner
  /\ boot' = [boot EXCEPT ![p] = [pc |-> "banner", token |-> minted + 1]]
  /\ UNCHANGED <<printed, machines, barred, projects, rows, ses, requests, crashes>>

TokenInsert(p) ==
  /\ boot[p].pc = "insert"
  /\ minted' = minted + 1
  /\ IF owner = None
     THEN /\ owner' = minted + 1
          /\ boot' = [boot EXCEPT ![p] = [pc |-> "banner", token |-> minted + 1]]
     ELSE /\ boot' = [boot EXCEPT ![p].pc = "up"]
          /\ UNCHANGED owner
  /\ UNCHANGED <<printed, machines, barred, projects, rows, ses, requests, crashes>>

Banner(p) ==
  /\ boot[p].pc = "banner"
  /\ printed' = printed \cup {boot[p].token}
  /\ boot' = [boot EXCEPT ![p] = [pc |-> "up", token |-> 0]]
  /\ UNCHANGED <<owner, minted, machines, barred, projects, rows, ses, requests, crashes>>

----------------------------------------------------------------------------
(* Requests.  require_owner lets in the token whose hash is stored; the owner
   has what the banners showed. *)

OwnerIn == owner \in printed

FirstStep(op) ==
  CASE op \in {"global", "notify", "llm", "overlay"} -> "validate"
    [] op = "mint" -> "mint"
    [] op \in {"revoke", "reactivate", "update"} -> "mget"
    [] op = "bootstrap" -> "auth"
    [] op = "reserved" -> "ensure"

Request(s, op, q, c, m) ==
  /\ ses[s].pc = "idle" /\ requests < MaxRequests
  /\ \E p \in Procs : boot[p].pc = "up"
  /\ op \in {"bootstrap", "reserved"} \/ OwnerIn
  /\ requests' = requests + 1
  /\ ses' = [ses EXCEPT ![s] = [Idle EXCEPT
       !.pc = FirstStep(op), !.op = op, !.seq = q, !.content = c, !.mach = m,
       !.req = requests + 1, !.late = op \in {"bootstrap", "reserved"} /\ m \in barred,
       !.since = [x \in Seqs |-> IF x = q \/ (op = "bootstrap" /\ x \in {"global", "notify"})
                                 THEN Top(x) ELSE 0]]]
  /\ UNCHANGED <<data, crashes>>

Arrive(s) ==
  \/ \E b \in Rulebooks : Request(s, "global", "global", [Blank EXCEPT !.rules = b], Reserved)
  \/ \E b \in Overlays, p \in Projects :
       Request(s, "overlay", p, [Blank EXCEPT !.over = b.over, !.add = b.add], Reserved)
  \/ \E q \in {"notify", "llm"}, ok \in BOOLEAN :
       Request(s, q, q, [Blank EXCEPT !.ok = ok], Reserved)
  \/ \E m \in Machines, p \in Projects : Request(s, "bootstrap", p, Blank, m)
  \/ \E m \in Machines : Request(s, "mint", "global", Blank, m)
  \/ \E m \in Identities, op \in {"revoke", "reactivate"} :
       Request(s, op, "global", Blank, m)
  \/ \E m \in Identities, ok \in BOOLEAN :
       Request(s, "update", "global", [Blank EXCEPT !.ok = ok], m)
  \/ Request(s, "reserved", "global", Blank, Reserved)

\* The response is sent, or the client is gone and the work is rolled back.
Reset(s) == ses' = [ses EXCEPT ![s] = Idle]

Respond(s) ==
  /\ ses[s].pc \in {"served", "done", "refused", "failed"}
  /\ Reset(s)
  /\ UNCHANGED <<data, requests, crashes>>

----------------------------------------------------------------------------
(* Writing a version. *)

Unique(q) == \A i, j \in DOMAIN q : q[i] = q[j] => i = j
Elems(q)  == {q[i] : i \in DOMAIN q}
Ids(rules) == [i \in DOMAIN rules |-> rules[i].id]
OfTier(rules, t) == {r.id : r \in {x \in Elems(rules) : x.tier = t}}

\* _validate_global_rules
ValidRules(rules) == Unique(Ids(rules)) /\ \A r \in Elems(rules) : r.tier \in Tiers

\* create_overlay_doctrine up to the insert, against the global doctrine that
\* is current now.
ValidOverlay(p, c) ==
  LET rules == ContentOf("global", Top("global")).rules IN
  /\ p \in projects
  /\ Unique(c.over) /\ Unique(c.add)
  /\ Elems(c.over) \subseteq OfTier(rules, "default")
  /\ Elems(c.add) \cap Elems(Ids(rules)) = {}

\* Field checks: ntfy_url and topic; base_url, model and api_key; the role,
\* name and default project of a machine.
ValidChannel(c)  == c.ok
ValidProvider(c) == c.ok
ValidUpdate(c)   == c.ok

Validate(s) ==
  LET me == ses[s] IN
  /\ me.pc = "validate"
  /\ IF CASE me.op = "global"  -> ValidRules(me.content.rules)
          [] me.op = "overlay" -> ValidOverlay(me.seq, me.content)
          [] me.op = "notify"  -> ValidChannel(me.content)
          [] me.op = "llm"     -> ValidProvider(me.content)
     THEN Goto(s, "next") ELSE Reset(s)
  /\ UNCHANGED <<data, requests, crashes>>

NextVersion(s) ==
  /\ ses[s].pc = "next"
  /\ ses' = [ses EXCEPT ![s].ver = Top(ses[s].seq) + 1, ![s].tries = @ + 1,
                        ![s].pc = "insert"]
  /\ UNCHANGED <<data, requests, crashes>>

\* The number is taken.  The configurations try again with a new one, a
\* bounded number of times; doctrine writes do not catch the error.
Collide_Unbounded(s) ==
  Goto(s, IF ses[s].op \in {"notify", "llm"} THEN "next" ELSE "failed")

Collide_SameVersion(s) ==
  ses' = [ses EXCEPT ![s].tries = IF @ < MaxAttempts THEN @ + 1 ELSE @,
                     ![s].pc = IF ses[s].op \notin {"notify", "llm"} THEN "failed"
                              ELSE IF ses[s].tries < MaxAttempts THEN "insert"
                              ELSE "refused"]

Collide(s) ==
  Goto(s, IF ses[s].op \notin {"notify", "llm"} THEN "failed"
          ELSE IF ses[s].tries < MaxAttempts THEN "next"
          ELSE "refused")

Stored(s) ==
  rows' = rows \cup {[seq |-> ses[s].seq, version |-> ses[s].ver,
                      content |-> ses[s].content, by |-> ses[s].req]}

Insert_NoUniqueIndex(s) ==
  /\ ses[s].pc = "insert"
  /\ Stored(s) /\ Goto(s, "done")
  /\ UNCHANGED <<owner, printed, boot, minted, machines, barred, projects, requests, crashes>>

Insert(s) ==
  /\ ses[s].pc = "insert"
  /\ IF ses[s].ver \in Versions(ses[s].seq)
     THEN Collide(s) /\ UNCHANGED rows
     ELSE Stored(s) /\ Goto(s, "done")
  /\ UNCHANGED <<owner, printed, boot, minted, machines, barred, projects, requests, crashes>>

----------------------------------------------------------------------------
(* Machines. *)

Mint(s) ==
  /\ ses[s].pc = "mint"
  /\ machines[ses[s].mach].status = "none"
  /\ machines' = [machines EXCEPT ![ses[s].mach] = Enrolled]
  /\ Goto(s, "done")
  /\ UNCHANGED <<owner, printed, boot, minted, barred, projects, rows, requests, crashes>>

\* db.get of the machine a revocation, a reactivation or an update names, and
\* the check of the update.
Load(s) ==
  LET row == machines[ses[s].mach] IN
  /\ ses[s].pc = "mget"
  /\ IF row.status = "none" \/ (ses[s].op = "update" /\ ~ValidUpdate(ses[s].content))
     THEN Reset(s)
     ELSE ses' = [ses EXCEPT ![s].seen = row, ![s].pc = "mset"]
  /\ UNCHANGED <<data, requests, crashes>>

\* The commit: of the columns whose value the request changed.
Change(s) ==
  LET me  == ses[s]
      new == CASE me.op = "revoke"     -> [me.seen EXCEPT !.status = "revoked"]
               [] me.op = "reactivate" -> [me.seen EXCEPT !.status = "active"]
               [] me.op = "update"     -> [me.seen EXCEPT !.role = "builder"]
  IN
  /\ me.pc = "mset"
  /\ machines' = [machines EXCEPT ![me.mach] =
       [status |-> IF new.status # me.seen.status THEN new.status ELSE @.status,
        role   |-> IF new.role # me.seen.role THEN new.role ELSE @.role]]
  /\ barred' = IF new.status = me.seen.status THEN barred
               ELSE IF me.op = "revoke" THEN barred \cup {me.mach} ELSE barred \ {me.mach}
  /\ ses' = [x \in Sessions |->
       IF x = s THEN [ses[x] EXCEPT !.pc = "done"]
       ELSE [ses[x] EXCEPT !.late = @ /\ ses[x].mach \in barred']]
  /\ UNCHANGED <<owner, printed, boot, minted, projects, rows, requests, crashes>>

\* authenticate: the token's machine, refused when it is unknown or revoked.
Authenticate(s) ==
  LET row == machines[ses[s].mach] IN
  /\ ses[s].pc = "auth"
  /\ IF row.status # "active" THEN Reset(s)
     ELSE ses' = [ses EXCEPT ![s].seen = row, ![s].pc = "touch"]
  /\ UNCHANGED <<data, requests, crashes>>

\* ... and the commit of its last_seen, on which nothing here depends.
Touch_WholeRow(s) ==
  /\ ses[s].pc = "touch"
  /\ machines' = [machines EXCEPT ![ses[s].mach] = ses[s].seen]
  /\ Goto(s, "project")
  /\ UNCHANGED <<owner, printed, boot, minted, barred, projects, rows, requests, crashes>>

Touch(s) ==
  /\ ses[s].pc = "touch"
  /\ Goto(s, "project")
  /\ UNCHANGED <<data, requests, crashes>>

(* ensure_reserved_machine: get, else insert, else the winner's row. *)
Ensure(s) ==
  LET row == machines[Reserved] IN
  /\ ses[s].pc \in {"ensure", "ensureget"}
  /\ IF row.status = "none"
     THEN ses[s].pc = "ensure" /\ Goto(s, "ensureins")
     ELSE ses' = [ses EXCEPT ![s].seen = row, ![s].pc = "status"]
  /\ UNCHANGED <<data, requests, crashes>>

EnsureInsert(s) ==
  /\ ses[s].pc = "ensureins"
  /\ IF machines[Reserved].status = "none"
     THEN /\ machines' = [machines EXCEPT ![Reserved] = Enrolled]
          /\ ses' = [ses EXCEPT ![s].seen = Enrolled, ![s].pc = "status"]
     ELSE Goto(s, "ensureget") /\ UNCHANGED machines
  /\ UNCHANGED <<owner, printed, boot, minted, barred, projects, rows, requests, crashes>>

\* The kill switch of run_librarian and of deposit_result.
KillSwitch(s) ==
  /\ ses[s].pc = "status"
  /\ IF ses[s].seen.status = "revoked" THEN Reset(s) ELSE Goto(s, "work")
  /\ UNCHANGED <<data, requests, crashes>>

Work(s) ==
  /\ ses[s].pc = "work"
  /\ Goto(s, "done")
  /\ UNCHANGED <<data, requests, crashes>>

----------------------------------------------------------------------------
(* get_bootstrap. *)

GetProject(s) ==
  /\ ses[s].pc = "project"
  /\ Goto(s, IF ses[s].seq \in projects THEN "global" ELSE "stub")
  /\ UNCHANGED <<data, requests, crashes>>

\* The insert of the stub waits for another session's uncommitted one.  When
\* that one commits, the error is not caught.
Stub(s) ==
  /\ ses[s].pc = "stub"
  /\ \A t \in Sessions \ {s} : ~(ses[t].stub /\ ses[t].seq = ses[s].seq)
  /\ IF ses[s].seq \in projects THEN Goto(s, "failed")
     ELSE ses' = [ses EXCEPT ![s].stub = TRUE, ![s].pc = "global"]
  /\ UNCHANGED <<data, requests, crashes>>

ReadGlobal(s) ==
  /\ ses[s].pc = "global"
  /\ ses' = [ses EXCEPT ![s].read.global = Top("global"), ![s].pc = "overlay"]
  /\ UNCHANGED <<data, requests, crashes>>

ReadOverlay(s) ==
  /\ ses[s].pc = "overlay"
  /\ ses' = [ses EXCEPT ![s].read.overlay = Top(ses[s].seq), ![s].pc = "channel"]
  /\ UNCHANGED <<data, requests, crashes>>

ReadChannel(s) ==
  /\ ses[s].pc = "channel"
  /\ ses' = [ses EXCEPT ![s].reply.channel = Top("notify"), ![s].pc = "compile"]
  /\ UNCHANGED <<data, requests, crashes>>

\* _compile_doctrine: nothing without a global doctrine; the overlay replaces
\* what is of the default tier in the version that is served.
CompileDoctrine_TrustsOverlay(q, g, o) ==
  LET rules == ContentOf("global", g).rules
      lay   == ContentOf(q, o) IN
  IF g = 0 THEN NoReply ELSE
  [NoReply EXCEPT
     !.global = g, !.overlay = o,
     !.fixed    = OfTier(rules, "non_negotiable") \ Elems(lay.over),
     !.kept     = OfTier(rules, "default") \ Elems(lay.over),
     !.replaced = Elems(Ids(rules)) \cap Elems(lay.over),
     !.added    = Elems(lay.add), !.text = o # 0]

CompileDoctrine(q, g, o) ==
  LET rules == ContentOf("global", g).rules
      lay   == ContentOf(q, o) IN
  IF g = 0 THEN NoReply ELSE
  [NoReply EXCEPT
     !.global = g, !.overlay = o,
     !.fixed    = OfTier(rules, "non_negotiable"),
     !.kept     = OfTier(rules, "default") \ Elems(lay.over),
     !.replaced = OfTier(rules, "default") \cap Elems(lay.over),
     !.added    = Elems(lay.add), !.text = o # 0]

\* The size of the larger rendering, in units of a rule or a lesson.
Size(r) == Cardinality(r.fixed) + Cardinality(r.kept) + Cardinality(r.replaced)
             + Cardinality(r.added) + r.lessons + (IF r.text THEN 1 ELSE 0)

\* _apply_size_budget: lessons go first, from the end, then the overlay's
\* text; rules are never dropped.
ApplySizeBudget(r) ==
  LET fit == {k \in 0..r.lessons : Size([r EXCEPT !.lessons = k]) <= Budget} IN
  IF fit # {} THEN [r EXCEPT !.lessons = Max(fit)]
  ELSE [r EXCEPT !.lessons = 0, !.text = FALSE]

\* The rest of the handler: compile, trim, log the fetch, commit.
Compile(s) ==
  LET me == ses[s] IN
  /\ me.pc = "compile"
  /\ \E n \in {0, Digest} :
       LET d == CompileDoctrine(me.seq, me.read.global, me.read.overlay)
           r == [d EXCEPT !.channel = me.reply.channel, !.lessons = n] IN
       ses' = [ses EXCEPT ![s].reply = ApplySizeBudget(r), ![s].stub = FALSE,
                          ![s].pc = "served"]
  /\ projects' = projects \cup {me.seq}
  /\ UNCHANGED <<owner, printed, boot, minted, machines, barred, rows, requests, crashes>>

----------------------------------------------------------------------------
\* A process dies while it starts, or a request is cancelled.
Crash ==
  /\ crashes < MaxCrashes
  /\ crashes' = crashes + 1
  /\ \/ \E p \in Procs :
          /\ boot[p].pc # "down"
          /\ boot' = [boot EXCEPT ![p] = [pc |-> "down", token |-> 0]]
          /\ UNCHANGED ses
     \/ \E s \in Sessions :
          /\ ses[s].pc # "idle" /\ Reset(s)
          /\ UNCHANGED boot
  /\ UNCHANGED <<owner, printed, minted, machines, barred, projects, rows, requests>>

Next ==
  \/ \E p \in Procs : Boot(p) \/ TokenInsert(p) \/ Banner(p)
  \/ \E s \in Sessions :
       \/ Arrive(s) \/ Respond(s) \/ Validate(s) \/ NextVersion(s) \/ Insert(s)
       \/ Mint(s) \/ Load(s) \/ Change(s) \/ Authenticate(s) \/ Touch(s)
       \/ Ensure(s) \/ EnsureInsert(s) \/ KillSwitch(s) \/ Work(s)
       \/ GetProject(s) \/ Stub(s) \/ ReadGlobal(s) \/ ReadOverlay(s)
       \/ ReadChannel(s) \/ Compile(s)
  \/ Crash

Spec == Init /\ [][Next]_vars

----------------------------------------------------------------------------
TypeOK ==
  /\ owner \in Nat \cup {None} /\ printed \subseteq Nat /\ minted \in Nat
  /\ boot \in [Procs -> [pc : {"down", "insert", "banner", "up"}, token : Nat]]
  /\ machines \in [Identities -> MachineRow] /\ barred \subseteq Identities
  /\ projects \subseteq Projects /\ rows \subseteq Row
  /\ ses \in [Sessions -> Session]
  /\ requests \in 0..MaxRequests /\ crashes \in 0..MaxCrashes

\* Every sequence is numbered 1, 2, 3, ... with one row for each number, though
\* the writers compute the number before they insert and may compute the same.
SequencesAreGapless ==
  \A q \in Seqs : Versions(q) = 1..Cardinality(OfSeq(q))

\* A writer that is told of a conflict has stored nothing, and has lost to a
\* different committed version each time it tried: the 503 of a configuration
\* means that MaxAttempts versions appeared while the request ran, so whoever
\* collides, somebody gets on.
ConflictsAreReal ==
  \A s \in Sessions :
    LET me == ses[s]
        lost == IF me.pc = "refused" THEN MaxAttempts ELSE 1 IN
    me.pc \in {"refused", "failed"} /\ me.op # "bootstrap" =>
      /\ Top(me.seq) >= me.since[me.seq] + lost
      /\ \A r \in rows : r.by # me.req

\* A bootstrap is faithful to the doctrine: it serves no version older than
\* those current when the request came, although it reads them one by one; and
\* every rule of the version it is stamped with is served, the non-negotiable
\* ones as they stand even when the overlay was written while they could still
\* be overridden, the others replaced only where the stamped overlay says so.
FetchIsFaithful ==
  \A s \in Sessions :
    LET me == ses[s]
        r  == me.reply
        rules == ContentOf("global", r.global).rules IN
    me.pc = "served" =>
      /\ r.global >= me.since["global"] /\ r.channel >= me.since["notify"]
      /\ r.global # 0 => r.overlay >= me.since[me.seq]
      /\ r.fixed = {x \in Elems(Ids(rules)) :
                      \E i \in DOMAIN rules : rules[i] = [id |-> x, tier |-> "non_negotiable"]}
      /\ r.fixed \cup r.kept \cup r.replaced = Elems(Ids(rules))
      /\ r.replaced \subseteq Elems(ContentOf(me.seq, r.overlay).over)
      /\ r.kept \cap Elems(ContentOf(me.seq, r.overlay).over) = {}

\* A request that comes after the owner has revoked its machine gets nowhere
\* until a reactivation, whatever requests of the machine were under way when
\* it was revoked: neither the touch of last_seen, nor an update, nor the
\* provisioning of a reserved identity brings it back.
RevokedIsRefused ==
  \A s \in Sessions :
    ses[s].late => ses[s].pc \in {"auth", "ensure", "ensureins", "ensureget", "status"}

\* However many processes start at once on a new installation, a token that
\* was shown is the one that opens the door, and no process serves before
\* there is one.
PrintedTokenWorks ==
  /\ printed \subseteq {owner}
  /\ owner = None => \A p \in Procs : boot[p].pc # "up"
============================================================================
