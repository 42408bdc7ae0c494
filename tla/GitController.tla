--------------------------- MODULE GitController ---------------------------
(***************************************************************************)
(* Controllers in sandboxes of their own, with a branch of a Git           *)
(* repository as the memory they share (experiments/in-platform-controller:*)
(* run_tick.py, automation/preset_tick.py, persistent_supervisor.py).      *)
(* A tick checks the state branch out, makes or recovers one attempt with  *)
(* the campaign runner, and after each file it writes commits and pushes.  *)
(* The lock of the file store is of no use between sandboxes: what keeps   *)
(* controllers apart is that origin refuses a push that is not a           *)
(* fast-forward.                                                           *)
(*                                                                         *)
(* Merges of origin/main bring code and no state and are left out, as is   *)
(* the file of the store's lock.  The scheduler is any choice of a task,   *)
(* and a lesson is known by the attempt it was made from.                  *)
(***************************************************************************)
EXTENDS ResearchData

CONSTANTS
    Controller,     \* sandboxes, each running at most one tick at a time
    Sandboxes,      \* what a tick may start in: "fresh" and "reused" sandboxes
    Home,           \* the manifest of the campaign the controllers run
    MaxTicks,       \* bound on ticks
    MaxFaults       \* bound on crashes and failed calls of git ls-remote

ASSUME SandboxAssumption == Sandboxes \subseteq {"fresh", "reused"}
ASSUME HomeAssumption == Home \in Manifest
ASSUME BoundAssumption == MaxTicks \in Nat /\ MaxFaults \in Nat

VARIABLES
    branch,     \* origin's state branch: how often it moved, its files
    sandbox,    \* the clone in each sandbox: the branch's move that HEAD descends
                \* from, HEAD's files, files that are not committed
    proc,       \* the memory of the tick in each sandbox
    launches,   \* remote platform: conversations created for each attempt
    ticks,
    faults

vars == <<branch, sandbox, proc, launches, ticks, faults>>

-----------------------------------------------------------------------------
(* Files *)

Lifecycle == {"attempt_selected", "attempt_recovery_started", "worker_started",
              "start_task_created", "attempt_failed", "attempt_recorded"}

\* A contract counts as completed, also when it says that the worker was blocked.
Outcome == {"completed", "failed"}

\* A file of the state root: its path is (kind, run, id, n), the rest its content.
\* ids are the recorded attempts that a report or controller.json tells of.
File ==
    [kind : Lifecycle \union {"manifest", "lesson", "record", "report", "status"},
     run : Run \union {None}, id : AttemptId \union {None}, n : Nat,
     by : Controller, seq : Nat, task : Task \union {None},
     outcome : Outcome \union {None}, ids : SUBSET AttemptId]

SamePath(e, f) == e.kind = f.kind /\ e.run = f.run /\ e.id = f.id /\ e.n = f.n

\* The files of a tree once those of a commit replace their older versions.
Overlay(tree, files) == {e \in tree : \A f \in files : ~SamePath(e, f)} \union files

\* The working tree of a sandbox.
Work(s) == Overlay(s.tree, s.loose)

\* Reports and controller.json are rewritten, every other file is written once.
Write(s, f) ==
    IF f.kind \notin {"report", "status"} /\ \E e \in Work(s) : SamePath(e, f)
    THEN s.loose ELSE Overlay(s.loose, {f})

\* git status --short: the files of the working tree that HEAD does not have so.
Changed(s, f) == Write(s, f) \ s.tree

-----------------------------------------------------------------------------
(* Reading the state root *)

\* A slip: a run is looked for by its attempts.
RunsWithAttempts(tree) == {e.run : e \in {f \in tree : f.kind = "attempt_selected"}}

Runs(tree) == {e.run : e \in {f \in tree : f.kind = "manifest"}}

Records(tree) == {e \in tree : e.kind = "record"}

RecordedIds(tree) == {e.id : e \in Records(tree)}
RecordedSeqs(tree) == {e.seq : e \in Records(tree)}
Selections(tree) == {e \in tree : e.kind = "attempt_selected"}
Events(tree, id) == {e \in tree : e.kind \in Lifecycle /\ e.id = id}

Budget == BudgetOf[Home.campaign]

\* A slip: an attempt that failed needs no recovery.
PendingUnlessFailed(tree) ==
    {s \in Selections(tree) : /\ s.id \notin RecordedIds(tree)
                              /\ \A e \in Events(tree, s.id) : e.kind # "attempt_failed"}

Pending(tree) == {s \in Selections(tree) : s.id \notin RecordedIds(tree)}

\* The attempts that reconcile may take first: those of least sequence.
FirstPending(tree) == {s \in Pending(tree) : \A t \in Pending(tree) : s.seq <= t.seq}

BudgetSpent(tree) == Cardinality(Records(tree)) >= Budget

\* A tick ends with a RuntimeError or a ValueError before it writes anything.
Refused(tree) ==
    \/ Cardinality(Runs(tree)) > 1
    \/ /\ ~BudgetSpent(tree)
       /\ \/ \E a, b \in Records(tree) : a # b /\ a.seq = b.seq
          \/ \E e \in tree : /\ e.kind \in Lifecycle /\ e.id \notin RecordedIds(tree)
                             /\ \A s \in Selections(tree) : s.id # e.id
          \/ \E s \in FirstPending(tree) : s.seq \in RecordedSeqs(tree)

-----------------------------------------------------------------------------
(* Sandboxes and ticks *)

Main == [moves |-> 0, tree |-> {}]
Clone == [base |-> 0, tree |-> {}, loose |-> {}]
Idle == [pc |-> "idle", cur |-> None, n |-> 0, outcome |-> None]
Ready == [Idle EXCEPT !.pc = "ready"]

Init ==
    /\ branch = Main
    /\ sandbox = [c \in Controller |-> Clone]
    /\ proc = [c \in Controller |-> Idle]
    /\ launches = [id \in AttemptId |-> 0]
    /\ ticks = 0 /\ faults = 0

\* The tick goes on as p with its sandbox as s.
Continues(c, s, p) ==
    /\ sandbox' = [sandbox EXCEPT ![c] = s]
    /\ proc' = [proc EXCEPT ![c] = p]

\* The tick ends, and the next one finds its sandbox or gets a new one.
Ends(c, s) ==
    \/ "reused" \in Sandboxes /\ Continues(c, s, Idle)
    \/ "fresh" \in Sandboxes /\ Continues(c, Clone, Idle)

\* git checkout refuses to overwrite an uncommitted file that would change.
Clash(s, target) ==
    \E e \in s.loose \ target.tree :
        {f \in target.tree : SamePath(e, f)} # {f \in s.tree : SamePath(e, f)}

\* git checkout -B: uncommitted files stay, commits the target lacks are dropped.
Checkout(s, target) ==
    IF Clash(s, target) THEN s
    ELSE [base |-> target.moves, tree |-> target.tree, loose |-> s.loose \ target.tree]

\* The prompt checks out main, then _prepare_state_branch the state branch, if
\* git ls-remote shows one.  A failure of ls-remote looks as if there were none.
Prepare(c) ==
    /\ proc[c].pc = "idle" /\ ticks < MaxTicks
    /\ LET main == Checkout(sandbox[c], Main) IN
       \/ /\ branch # Main /\ ~Clash(main, branch)
          /\ Continues(c, Checkout(main, branch), Ready) /\ UNCHANGED faults
       \/ branch # Main /\ Clash(main, branch) /\ Ends(c, main) /\ UNCHANGED faults
       \/ branch = Main /\ Continues(c, main, Ready) /\ UNCHANGED faults
       \/ /\ branch # Main /\ faults < MaxFaults /\ faults' = faults + 1
          /\ Continues(c, main, Ready)
    /\ ticks' = ticks + 1
    /\ UNCHANGED <<branch, launches>>

\* The supervisor starts its next tick where the last one returned.
NextTick(c) ==
    /\ proc[c].pc = "returned" /\ ticks < MaxTicks
    /\ proc' = [proc EXCEPT ![c] = Ready]
    /\ ticks' = ticks + 1
    /\ UNCHANGED <<branch, sandbox, launches, faults>>

EndTick(c) ==
    /\ \/ proc[c].pc = "returned"
       \/ proc[c].pc = "ready" /\ Refused(Work(sandbox[c]))
    /\ Ends(c, sandbox[c])
    /\ UNCHANGED <<branch, launches, ticks, faults>>

-----------------------------------------------------------------------------
(* GitCheckpoint *)

\* A slip: a push that is refused is rebased on the branch and tried again.
Rebased(c, files) == {Overlay(branch.tree, files)}

\* Origin takes a push that descends from what the branch is now; the result.
Accepted(c, files) ==
    {t \in {Overlay(sandbox[c].tree, files)} : sandbox[c].base = branch.moves}

Moves(c, tree, after) ==
    /\ branch' = [moves |-> branch.moves + 1, tree |-> tree]
    /\ Continues(c, [base |-> branch.moves + 1, tree |-> tree, loose |-> {}], after)

\* A commit that stays in the sandbox.
Committed(c, files) ==
    [sandbox[c] EXCEPT !.tree = Overlay(sandbox[c].tree, files), !.loose = {}]

\* A slip: lifecycle events wait for the next record to be pushed.
PushLater(c, f, after) ==
    LET files == Changed(sandbox[c], f) IN
    IF f.kind \in Lifecycle
    THEN Continues(c, Committed(c, files), after) /\ UNCHANGED <<branch, faults>>
    ELSE \E tree \in Accepted(c, files) : Moves(c, tree, after) /\ UNCHANGED faults

\* File f is written; git add, commit and push.  Without a change there is no
\* commit and no push.  A refused push raises CalledProcessError, which neither
\* the worker nor the runner handles; the tick may also die half way.
Checkpoint(c, f, after) ==
    LET files == Changed(sandbox[c], f) IN
    \/ /\ files = {}
       /\ Continues(c, [sandbox[c] EXCEPT !.loose = {}], after) /\ UNCHANGED <<branch, faults>>
    \/ files # {} /\ UNCHANGED faults /\ \E tree \in Accepted(c, files) : Moves(c, tree, after)
    \/ /\ files # {} /\ Accepted(c, files) = {}
       /\ Ends(c, Committed(c, files)) /\ UNCHANGED <<branch, faults>>
    \/ /\ files # {} /\ faults < MaxFaults /\ faults' = faults + 1
       /\ Ends(c, [sandbox[c] EXCEPT !.loose = files]) \/ Ends(c, Committed(c, files))
       /\ UNCHANGED branch

\* A file that controller c writes of the attempt that p has in hand.
FileOf(c, p, kind) ==
    [kind |-> kind, run |-> p.cur.run, id |-> p.cur.id, n |-> 0, by |-> c,
     seq |-> 0, task |-> None, outcome |-> None, ids |-> {}]

\* on_lifecycle, and the step of the tick that follows.
Journal(c, kind, p) ==
    Checkpoint(c, [FileOf(c, p, kind) EXCEPT !.n = p.n + 1], [p EXCEPT !.n = p.n + 1])

-----------------------------------------------------------------------------
(* The runner, resumed or started with max_new_attempts = 1 *)

\* Ids come from uuid4: no file anywhere has them.
Everywhere == branch.tree \union UNION {Work(sandbox[c]) : c \in Controller}

NewRuns == Run \ {e.run : e \in Everywhere}
NewIds == AttemptId \ {e.id : e \in Everywhere}

\* No run is found: create_run.
CreateRun(c) ==
    /\ proc[c].pc = "ready" /\ Runs(Work(sandbox[c])) = {}
    /\ \E r \in NewRuns :
          Checkpoint(c, FileOf(c, [cur |-> [run |-> r, id |-> None]], "manifest"), Ready)
    /\ UNCHANGED <<launches, ticks>>

\* The runner has a run with budget left.
Running(c) ==
    LET tree == Work(sandbox[c]) IN
    /\ proc[c].pc = "ready"
    /\ Cardinality(Runs(tree)) = 1 /\ ~BudgetSpent(tree) /\ ~Refused(tree)

\* A slip: a recovery numbers its events as if it had only the selection.
FirstNumber(events, n) == n = 1

LastNumber(events, n) == n \in {e.n : e \in events} /\ \A e \in events : e.n <= n

HasRemoteState(tree, s) == \E e \in Events(tree, s.id) : e.kind = "start_task_created"

Recover(c) ==
    LET tree == Work(sandbox[c]) IN
    /\ Running(c)
    /\ \E s \in FirstPending(tree) : \E last \in {e.n : e \in Events(tree, s.id)} :
          /\ LastNumber(Events(tree, s.id), last)
          /\ Journal(c, "attempt_recovery_started",
                [Ready EXCEPT !.pc = IF HasRemoteState(tree, s) THEN "running" ELSE "execute",
                              !.cur = s, !.n = last])
    /\ UNCHANGED <<launches, ticks>>

\* The least free sequence is given to a task: attempt_selected.
Choose(c) ==
    LET tree == Work(sandbox[c])
        free == 1..Budget \ RecordedSeqs(tree) IN
    /\ Running(c) /\ Pending(tree) = {}
    /\ \E r \in Runs(tree), q \in free, id \in NewIds, t \in TasksOf[Home.campaign] :
          LET s == [FileOf(c, [cur |-> [run |-> r, id |-> id]], "attempt_selected")
                       EXCEPT !.n = 1, !.seq = q, !.task = t]
          IN  /\ \A p \in free : q <= p
              /\ Checkpoint(c, s, [Ready EXCEPT !.pc = "execute", !.cur = s, !.n = 1])
    /\ UNCHANGED <<launches, ticks>>

Goes(c, pc) == [proc[c] EXCEPT !.pc = pc]

Execute(c) ==
    /\ proc[c].pc = "execute"
    /\ Journal(c, "worker_started", Goes(c, "launch"))
    /\ UNCHANGED <<launches, ticks>>

\* client.start_conversation
Launch(c) ==
    /\ proc[c].pc = "launch"
    /\ launches' = [launches EXCEPT ![proc[c].cur.id] = @ + 1]
    /\ proc' = [proc EXCEPT ![c] = Goes(c, "launched")]
    /\ UNCHANGED <<branch, sandbox, ticks, faults>>

JournalLaunch(c) ==
    /\ proc[c].pc = "launched"
    /\ Journal(c, "start_task_created", Goes(c, "running"))
    /\ UNCHANGED <<launches, ticks>>

\* An exception that the runner records as a failed attempt.
WorkerRaises(c) ==
    /\ proc[c].pc \in {"execute", "launch", "launched", "running"}
    /\ Journal(c, "attempt_failed", [Goes(c, "append") EXCEPT !.outcome = "failed"])
    /\ UNCHANGED <<launches, ticks>>

\* The contract parses; an attempt that improves may save a lesson.
WorkerReturns(c) ==
    LET p == [Goes(c, "append") EXCEPT !.outcome = "completed"] IN
    /\ proc[c].pc = "running"
    /\ \/ proc' = [proc EXCEPT ![c] = p] /\ UNCHANGED <<branch, sandbox, faults>>
       \/ Checkpoint(c, FileOf(c, p, "lesson"), p)
    /\ UNCHANGED <<launches, ticks>>

\* append_attempt
Record(c) ==
    LET p == proc[c] IN
    /\ p.pc = "append"
    /\ p.cur.id \notin RecordedIds(Work(sandbox[c]))
    /\ Checkpoint(c, [FileOf(c, p, "record") EXCEPT !.seq = p.cur.seq, !.task = p.cur.task,
                                         !.outcome = p.outcome],
                     Goes(c, "mark"))
    /\ UNCHANGED <<launches, ticks>>

MarkRecorded(c) ==
    /\ proc[c].pc = "mark"
    /\ Journal(c, "attempt_recorded", Goes(c, "report"))
    /\ UNCHANGED <<launches, ticks>>

\* A file of the run that tells which attempts are recorded.
Summary(c, r, kind) ==
    [FileOf(c, [cur |-> [run |-> r, id |-> None]], kind)
        EXCEPT !.ids = RecordedIds(Work(sandbox[c]))]

Report(c) ==
    /\ proc[c].pc = "report"
    /\ Checkpoint(c, Summary(c, proc[c].cur.run, "report"), [Ready EXCEPT !.pc = "status"])
    /\ UNCHANGED <<launches, ticks>>

\* controller.json, after the runner or because the budget was spent before.
Status(c) ==
    LET tree == Work(sandbox[c]) IN
    /\ \/ proc[c].pc = "status"
       \/ proc[c].pc = "ready" /\ Cardinality(Runs(tree)) = 1 /\ BudgetSpent(tree)
    /\ Checkpoint(c, Summary(c, None, "status"), [Idle EXCEPT !.pc = "returned"])
    /\ UNCHANGED <<launches, ticks>>

\* The tick dies between two checkpoints.
Crash(c) ==
    /\ proc[c].pc # "idle" /\ faults < MaxFaults
    /\ faults' = faults + 1
    /\ Ends(c, sandbox[c])
    /\ UNCHANGED <<branch, launches, ticks>>

-----------------------------------------------------------------------------
(* The specification *)

Attempting(c) ==
    \/ Execute(c) \/ Launch(c) \/ JournalLaunch(c) \/ WorkerRaises(c) \/ WorkerReturns(c)
    \/ Record(c) \/ MarkRecorded(c)

Step(c) ==
    \/ NextTick(c) \/ EndTick(c) \/ CreateRun(c) \/ Recover(c) \/ Choose(c)
    \/ Attempting(c) \/ Report(c) \/ Status(c)

Next == \E c \in Controller : Prepare(c) \/ Step(c) \/ Crash(c)

Spec == Init /\ [][Next]_vars

\* The schedule dispatches ticks, and a dispatched tick goes on.
FairSpec == Spec /\ \A c \in Controller : WF_vars(Prepare(c)) /\ WF_vars(Step(c))

-----------------------------------------------------------------------------
(* Properties *)

IsClaim(e) == e.kind \in {"attempt_selected", "attempt_recovery_started"}

\* experiments/in-platform-controller/README.md:55 "only one can push that claim":
\* the events of an attempt are numbered without gap or repetition, and each is by
\* the controller whose claim of the attempt was the last one before it.
ClaimsAreExclusive ==
    \A s \in Selections(branch.tree) :
        LET events == Events(branch.tree, s.id) IN
        /\ {e.n : e \in events} = 1..Cardinality(events)
        /\ \A e, f \in events : IsClaim(e) /\ e.n < f.n /\ f.by # e.by =>
              \E g \in events : IsClaim(g) /\ g.by = f.by /\ g.n \in (e.n + 1)..f.n

\* README.md:54 "The task-selection checkpoint is pushed before a worker
\* conversation starts", whatever the controller believes of its own clone.
ClaimBeforeLaunch ==
    \A id \in AttemptId : launches[id] > 0 =>
        \E s \in Selections(branch.tree) : s.id = id

\* README.md:37 "Git, not the sandbox filesystem, is authoritative", criterion 5
\* "The state branch contains enough information to resume from a fresh sandbox":
\* a tick that starts from the branch alone is never refused.
BranchIsResumable == ~Refused(branch.tree)

\* README.md:55-56 "The losing controller stops before launching a duplicate
\* worker."
NoDuplicateWorker == \A id \in AttemptId : launches[id] <= 1

\* README.md:110-111 "Four scheduled ticks finish one campaign", of four attempts:
\* with a tick for each attempt and for each fault, the budget gets recorded.
CampaignCompletes == <>(RecordedSeqs(branch.tree) = 1..Budget)

\* The ledger that the files of the branch stand for.
ClaimOf(e) == [run |-> e.run, id |-> e.id, seq |-> e.seq, task |-> e.task]
Manifests == [r \in Run |-> IF r \in Runs(branch.tree) THEN Home ELSE None]
Claims == {ClaimOf(s) : s \in Selections(branch.tree)}
Results == {[claim |-> ClaimOf(a), outcome |-> a.outcome, score |-> None] :
               a \in Records(branch.tree)}

Ledger == INSTANCE ResearchLedger WITH manifest <- Manifests, claims <- Claims,
                                       results <- Results

\* The branch implements the ledger of the file store: pushes of controllers that
\* know nothing of each other open runs once, claim in order, settle once.
ImplementsLedger == Ledger!Spec
=============================================================================
