----------------------------- MODULE Librarian -----------------------------
(***************************************************************************)
(* The built-in librarian at work on the library: runs that judge flags    *)
(* and lesson candidates with the help of an LLM, merge entries through    *)
(* the ordinary deposit path, and leave one row each in librarian_runs.    *)
(* What the row says (status, counts) is left out.                         *)
(*                                                                         *)
(* Each item has a session of its own.  It keeps the flag and the entries  *)
(* as it read them, across the LLM call, through the deposit and up to the *)
(* resolution of the flag (expire_on_commit is off), so the statuses the   *)
(* merge goes by are those from before the call.                           *)
(***************************************************************************)
EXTENDS Library

CONSTANTS
  Lessons,          \* lesson.candidate events
  MaxCalls,         \* LibrarianLimits.max_llm_calls
  MaxFailures,      \* LibrarianLimits.max_consecutive_failures
  MaxRuns           \* bound: runs ever started

ASSUME LibrarianAssumption ==
  /\ MaxCalls \in Nat /\ MaxFailures \in Nat \ {0}
  /\ MaxRuns \in Nat

VARIABLES
  run,              \* the run each runner is in
  rows,             \* the runs with a row in librarian_runs
  started           \* runs started so far

vars == <<libvars, run, rows, started>>

Run == [id : 0..MaxRuns,
        phase : {"none", "duplicate", "fork", "lessons"},
        queue : SUBSET (FlagRow \cup Lessons),
        calls : Nat, fails : Nat, aborted : BOOLEAN,    \* _CallBudget
        log : Seq(BOOLEAN)]             \* history: which calls were answered

NoRun == [id |-> 0, phase |-> "none", queue |-> {}, calls |-> 0, fails |-> 0,
          aborted |-> FALSE, log |-> <<>>]

Init ==
  /\ LibInit
  /\ run = [r \in Runners |-> NoRun]
  /\ rows = {} /\ started = 0

\* The items of a phase: the unresolved flags of its type, or the events.
ItemsOf(phase) ==
  IF phase = "lessons" THEN Lessons ELSE {f \in Unresolved : f.type = phase}

\* _record_run
RecordRow(r) ==
  /\ rows' = rows \cup {run[r].id}
  /\ run' = [run EXCEPT ![r] = NoRun]
  /\ Finish(r, "idle")

(* run_librarian starts, from the loop or from the owner's "run now": skipped
   when there is no provider or the machine is revoked, else the first phase. *)
StartRun(r, on) ==
  /\ ses[r].pc = "idle" /\ started < MaxRuns
  /\ started' = started + 1
  /\ IF on
     THEN /\ run' = [run EXCEPT ![r] = [NoRun EXCEPT !.id = started + 1,
                       !.phase = "duplicate", !.queue = ItemsOf("duplicate")]]
          /\ Finish(r, "item")
          /\ UNCHANGED rows
     ELSE /\ rows' = rows \cup {started + 1}
          /\ UNCHANGED <<run, ses>>
  /\ UNCHANGED <<tables, acks, requests>>

\* _CallBudget.can_call, which also aborts the run at the call limit.
CanCall(b) == ~b.aborted /\ b.calls < MaxCalls

OutOfCalls(b) == b.aborted \/ b.calls >= MaxCalls

\* The phase is over: the next one, unless the run is aborted.
NextPhase(r) ==
  LET b == run[r] IN
  /\ ses[r].pc = "item" /\ (b.queue = {} \/ b.aborted)
  /\ IF b.aborted \/ b.phase = "lessons"
     THEN Goto(r, "summary") /\ UNCHANGED run
     ELSE LET next == IF b.phase = "duplicate" THEN "fork" ELSE "lessons" IN
          /\ run' = [run EXCEPT ![r].phase = next, ![r].queue = ItemsOf(next)]
          /\ UNCHANGED ses
  /\ UNCHANGED <<tables, acks, requests, rows, started>>

(* _process_flag_type, one flag: the first reads.  A flag resolved by now is
   skipped; one on a proposal or on an entry that is not active any more is
   resolved without a call; the rest go to the LLM as long as the budget
   lasts, else the phase ends here. *)
Mergeable_IgnoresStatus(f) ==
  ~entries[f.entry].proposal /\ ~entries[f.related].proposal

Mergeable(f) ==
  /\ ~entries[f.entry].proposal /\ ~entries[f.related].proposal
  /\ entries[f.entry].status = "active" /\ entries[f.related].status = "active"

FlagItem(r, f) ==
  LET b == run[r] IN
  /\ ses[r].pc = "item" /\ ~b.aborted
  /\ b.phase # "lessons" /\ f \in b.queue
  /\ \/ /\ f \notin flags
        /\ run' = [run EXCEPT ![r].queue = @ \ {f}] /\ UNCHANGED ses
     \/ /\ f \in flags /\ ~Mergeable(f)
        /\ run' = [run EXCEPT ![r].queue = @ \ {f}]
        /\ ses' = [ses EXCEPT ![r] = [Idle EXCEPT !.pc = "resolve", !.flag = f, !.ok = "item"]]
     \/ /\ f \in flags /\ Mergeable(f) /\ CanCall(b)
        /\ run' = [run EXCEPT ![r].queue = @ \ {f}]
        /\ ses' = [ses EXCEPT ![r] =
             [Idle EXCEPT !.pc = "llm", !.flag = f, !.held = {f.entry, f.related}]]
     \/ /\ f \in flags /\ Mergeable(f) /\ OutOfCalls(b)
        /\ run' = [run EXCEPT ![r].aborted = TRUE, ![r].queue = {}] /\ UNCHANGED ses
  /\ UNCHANGED <<tables, acks, requests, rows, started>>

\* _harvest_lessons, one event: covered by an entry, or a matter for the LLM.
LessonItem(r, e) ==
  LET b == run[r] IN
  /\ ses[r].pc = "item" /\ ~b.aborted
  /\ b.phase = "lessons" /\ e \in b.queue
  /\ \/ run' = [run EXCEPT ![r].queue = @ \ {e}] /\ UNCHANGED ses
     \/ /\ CanCall(b)
        /\ run' = [run EXCEPT ![r].queue = @ \ {e}]
        /\ ses' = [ses EXCEPT ![r] = [Idle EXCEPT !.pc = "llm"]]
     \/ /\ OutOfCalls(b)
        /\ run' = [run EXCEPT ![r].aborted = TRUE, ![r].queue = {}] /\ UNCHANGED ses
  /\ UNCHANGED <<tables, acks, requests, rows, started>>

(* What an answer of the LLM tells the parsers: whether it has the schema, its
   verdict, its confidence, and whether title and body have text in them. *)
Answer == [schema : BOOLEAN, yes : BOOLEAN, high : BOOLEAN, text : BOOLEAN]

\* A merge takes a confident yes with text, a lesson a yes with text; any
\* other answer, one that cannot be parsed among them, is a no.
SaysMerge(a)  == a.schema /\ a.yes /\ a.high /\ a.text
SaysRecord(a) == a.schema /\ a.yes /\ a.text

Endorsed(r, a) == IF run[r].phase = "lessons" THEN SaysRecord(a) ELSE SaysMerge(a)

\* Mutant of record_failure: too many failures do not abort the run.
Failed_NoAbort(b) ==
  [b EXCEPT !.calls = @ + 1, !.fails = @ + 1, !.log = Append(@, FALSE)]

\* record_failure
Failed(b) ==
  [b EXCEPT !.calls = @ + 1, !.fails = @ + 1, !.log = Append(@, FALSE),
            !.aborted = (b.fails + 1 >= MaxFailures)]

\* record_success
Succeeded(b) == [b EXCEPT !.calls = @ + 1, !.fails = 0, !.log = Append(@, TRUE)]

\* No answer.
CallFails(r) ==
  /\ ses[r].pc = "llm"
  /\ run' = [run EXCEPT ![r] = Failed(@)]
  /\ Finish(r, "item")
  /\ UNCHANGED <<tables, acks, requests, rows, started>>

\* A no leaves things as they are, and the flag resolved.
JudgedDistinct(r, a) ==
  /\ ses[r].pc = "llm" /\ ~Endorsed(r, a)
  /\ run' = [run EXCEPT ![r] = Succeeded(@)]
  /\ IF run[r].phase = "lessons"
     THEN Finish(r, "item")
     ELSE ses' = [ses EXCEPT ![r].pc = "resolve", ![r].ok = "item"]
  /\ UNCHANGED <<tables, acks, requests, rows, started>>

Unused == {d \in Fresh : deposits[d] = None /\ \A p \in Sessions : ses[p].dep # d}

\* _deposit_merge and _deposit_lesson: a deposit under a new id, which ends
\* in the resolution of the flag, or in the next item.
JudgedMerge(r, a) ==
  LET s == ses[r]
      lesson == run[r].phase = "lessons"
  IN
  /\ s.pc = "llm" /\ Endorsed(r, a)
  /\ run' = [run EXCEPT ![r] = Succeeded(@)]
  /\ \E d \in Unused :
       ses' = [ses EXCEPT ![r] =
         [s EXCEPT !.pc = "check", !.dep = d,
                   !.body = [NoBody EXCEPT !.kind = "create",
                      !.refs = IF lesson THEN <<>> ELSE <<s.flag.entry, s.flag.related>>],
                   !.ok = IF lesson THEN "item" ELSE "resolve", !.ko = "item"]]
  /\ UNCHANGED <<tables, acks, requests, rows, started>>

\* _write_run_summary: a deposit without knowledge; the row follows even when
\* it fails.
Summary(r) ==
  /\ ses[r].pc = "summary"
  /\ Goto(r, "record")
  /\ UNCHANGED <<tables, acks, requests, run, rows, started>>

Record(r) ==
  /\ ses[r].pc = "record"
  /\ RecordRow(r)
  /\ UNCHANGED <<tables, acks, requests, started>>

\* record_timeout_run, for the run that was cancelled.
RecordTimeout(r) == RecordRow(r)

\* The owner's request times out: the run is cancelled where it is, its open
\* transaction rolled back, and the row written for it.
Timeout(r) ==
  /\ ses[r].pc # "idle"
  /\ RecordTimeout(r)
  /\ UNCHANGED <<tables, acks, requests, started>>

\* The process dies; a run that was under way leaves no row.
Crash ==
  /\ ses' = [p \in Sessions |-> Idle]
  /\ run' = [r \in Runners |-> NoRun]
  /\ UNCHANGED <<tables, acks, requests, rows, started>>

RunStep(r) ==
  \/ NextPhase(r) \/ CallFails(r) \/ Summary(r) \/ Record(r)
  \/ \E a \in Answer : JudgedDistinct(r, a) \/ JudgedMerge(r, a)
  \/ \E x \in run[r].queue : FlagItem(r, x) \/ LessonItem(r, x)

Step(p) == DepositStep(p) /\ UNCHANGED <<run, rows, started>>

Next ==
  \/ \E p \in Clients : Request(p) /\ UNCHANGED <<run, rows, started>>
  \/ \E p \in Sessions :
       Step(p) \/ (Victim(p) /\ UNCHANGED <<run, rows, started>>)
  \/ \E r \in Runners :
       RunStep(r) \/ Timeout(r) \/ \E on \in BOOLEAN : StartRun(r, on)
  \/ Crash

Spec == Init /\ [][Next]_vars

\* Sessions are scheduled, the database finds every circle, and an LLM call
\* answers or times out (call_timeout_secs).
Fairness ==
  /\ \A p \in Sessions :
       WF_vars(Step(p)) /\ WF_vars(Victim(p) /\ UNCHANGED <<run, rows, started>>)
  /\ \A r \in Runners : WF_vars(RunStep(r))

FairSpec == Spec /\ Fairness

----------------------------------------------------------------------------
TypeOK ==
  /\ entries \in [Entries -> EntryRow] /\ flags \subseteq FlagRow
  /\ deposits \in [DepositIds -> Ack \cup {None}]
  /\ docs \subseteq DocRow /\ project \in BOOLEAN
  /\ ses \in [Sessions -> Session]
  /\ acks \subseteq [dep : DepositIds, ack : Ack] /\ requests \in Nat
  /\ run \in [Runners -> Run]
  /\ rows \subseteq 0..MaxRuns
  /\ started \in 0..MaxRuns

\* The MaxFailures calls up to the i-th all failed.
Tripped(log, i) ==
  i >= MaxFailures /\ \A j \in i - MaxFailures + 1 .. i : ~log[j]

\* By the calls a run really made, in whichever phases: none beyond its limit,
\* none after too many failures in a row, and it is aborted for no other
\* reason.  A new count in a new phase, a failure that is not counted or an
\* answer that does not start the count again would break it.
BudgetIsKept ==
  \A r \in Runners :
    LET b == run[r]
        n == Len(b.log)
    IN
    /\ n <= MaxCalls /\ (ses[r].pc = "llm" => n < MaxCalls)
    /\ \A i \in 1..n : Tripped(b.log, i) =>
         i = n /\ b.aborted /\ ses[r].pc # "llm"
    /\ b.aborted => n = MaxCalls \/ Tripped(b.log, n)

\* With one run at a time, an entry is merged at most once: a merge that was
\* deposited but, for a crash, a timeout or a failure, left its flag
\* unresolved is not repeated by a later run.
MergedOnce ==
  \A c, d \in Fresh : c # d => entries[c].parents \cap entries[d].parents = {}
============================================================================
