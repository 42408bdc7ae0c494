-------------------------- MODULE CanvasController --------------------------
(***************************************************************************)
(* Scheduled controller ticks over a shared Agent Canvas backend           *)
(* (controller_tick.py, canvas.py, with runner.py and store.py as far as a *)
(* tick uses them).  A job reads the store, takes its lock, recovers or    *)
(* makes one attempt through the Canvas worker, and writes the status      *)
(* file.  Jobs may overlap or die; conversations run on without them.      *)
(***************************************************************************)
EXTENDS Naturals, Sequences, FiniteSets, FiniteSetsExt

CONSTANTS
    Job,            \* jobs of the CronJob and manual ones; a job that ended may start again
    MaxRuns,        \* bound on the runs created for the campaign
    Budget,         \* campaign.attempt_budget
    LaunchLockAt,   \* --canvas-launch-lock-at
    MaxOthers,      \* bound on running conversations of other users of the backend
    Setups,         \* the deployments considered
    MaxCrashes,     \* bound on jobs that die or end with an uncaught OSError
    MaxFaults,      \* bound on failing calls
    None            \* no record, no status file, no holder of the lock

ASSUME RunAssumption == MaxRuns \in Nat
ASSUME BudgetAssumption == Budget \in Nat \ {0} /\ LaunchLockAt \in Nat \ {0}
ASSUME BoundsAssumption == {MaxOthers, MaxCrashes, MaxFaults} \subseteq Nat
ASSUME SetupAssumption == Setups \subseteq [remote : BOOLEAN, overlap : BOOLEAN, auto : BOOLEAN]

VARIABLES
    lock,       \* holder of .controller.lock
    opened,     \* the number of runs with a manifest: runs 1..opened exist
    claimed,    \* attempts <<run, sequence>> with a journaled selection
    named,      \* the conversation in the attempt's conversation_ready event; 0 before
    record,     \* attempts/*.json
    status,     \* the state in controller-status.json
    workdir,    \* attempts whose local workspace directory exists
    job,        \* the memory of each job
    conv,       \* Canvas: its conversations, in the order of creation
    setup,      \* remote: --canvas-remote-workspace; overlap: jobs are also started by
                \* hand; auto: the backend runs what was created with run: False
    crashes, faults

store == <<opened, claimed, named, record, workdir>>
bounds == <<crashes, faults>>
vars == <<lock, store, status, job, conv, setup, bounds>>

\* Runs in the order of their ids, which is that of their creation.
Run == 1..MaxRuns
Attempt == Run \X (1..Budget)
Outcome == {"completed", "failed"}

Conversation == [attempt : Attempt, state : {"idle", "running", "ended"}]

Working == {"gate", "workspace", "create", "ready", "run", "wait", "answer", "append"}

\* want: the run to resume, 0 for a new one; cur: the attempt in hand.
Off == [pc |-> "off", want |-> 0, run |-> 0, cur |-> <<0, 0>>, conv |-> 0,
        outcome |-> None, code |-> 0]

-----------------------------------------------------------------------------
(* Reading the store *)

Recorded(r) == Cardinality({q \in 1..Budget : record[<<r, q>>] # None})

\* matching_runs: every run of the campaign that has a manifest.
MatchingRuns == 1..opened
IncompleteRuns == {r \in MatchingRuns : Recorded(r) < Budget}

\* Attempts of r with lifecycle events and without a record.
Pending(r) == {a \in claimed : a[1] = r /\ record[a] = None}

\* The first sequence that is not recorded; above the budget when there is none.
FreeSequence(r) == Min({q \in 1..(Budget + 1) : q > Budget \/ record[<<r, q>>] = None})

\* A slip: the attempt that an earlier tick left is not looked for.
NextUnclaimed(r) == Recorded(r) + 1 + Cardinality(Pending(r))

NextSequence(r) == IF Pending(r) # {} THEN Min({a[2] : a \in Pending(r)}) ELSE FreeSequence(r)

Running == {i \in DOMAIN conv : conv[i].state = "running"}

-----------------------------------------------------------------------------
(* The tick: main() of controller_tick.py and the runner's invocation *)

Init ==
    /\ lock = None
    /\ opened = 0
    /\ claimed = {}
    /\ named = [a \in Attempt |-> 0]
    /\ record = [a \in Attempt |-> None]
    /\ status = None
    /\ workdir = {}
    /\ job = [j \in Job |-> Off]
    /\ conv = <<>>
    /\ setup \in Setups
    /\ crashes = 0 /\ faults = 0

\* concurrencyPolicy: Forbid keeps scheduled jobs apart, not the manual ones.
Admitted(j) == setup.overlap \/ \A k \in Job : job[k].pc = "off"

\* A job reads the store without its lock and plans to start or resume a run.
Plan(j) ==
    /\ job[j].pc = "off"
    /\ Admitted(j)
    /\ IncompleteRuns # {} \/ MatchingRuns = {}
    /\ Cardinality(IncompleteRuns) <= 1
    /\ job' = [job EXCEPT ![j].pc = "lock",
                          ![j].want = IF MatchingRuns = {} THEN 0 ELSE Max(IncompleteRuns)]
    /\ UNCHANGED <<lock, store, status, conv, setup, bounds>>

\* RuntimeError: multiple incomplete runs exist.
Refuse(j) ==
    /\ job[j].pc = "off"
    /\ Admitted(j)
    /\ Cardinality(IncompleteRuns) > 1
    /\ UNCHANGED vars

\* All runs of the campaign are complete: only the status is written.
Complete(j) ==
    /\ job[j].pc = "off"
    /\ Admitted(j)
    /\ IncompleteRuns = {} /\ MatchingRuns # {}
    /\ status' = "complete"
    /\ UNCHANGED <<lock, store, job, conv, setup, bounds>>

\* The exit code of research_lab_main; the lock is free again.
Leaves(j, code) ==
    /\ job' = [job EXCEPT ![j] = [Off EXCEPT !.pc = "status", !.code = code]]
    /\ lock' = IF lock = j THEN None ELSE lock

TakeLock(j) ==
    /\ job[j].pc = "lock"
    /\ lock = None
    /\ lock' = j
    /\ job' = [job EXCEPT ![j].pc = "open"]
    /\ UNCHANGED <<store, status, conv, setup, bounds>>

\* LOCK_NB: another controller owns the file store.
LockBusy(j) ==
    /\ job[j].pc = "lock"
    /\ lock # None
    /\ Leaves(j, 2)
    /\ UNCHANGED <<store, status, conv, setup, bounds>>

\* create_run, or the manifest of the run to resume.
OpenRun(j) ==
    LET new == job[j].want = 0 IN
    /\ job[j].pc = "open"
    /\ new => opened < MaxRuns
    /\ opened' = IF new THEN opened + 1 ELSE opened
    /\ job' = [job EXCEPT ![j].pc = "select",
                          ![j].run = IF new THEN opened + 1 ELSE job[j].want]
    /\ UNCHANGED <<lock, claimed, named, record, workdir, status, conv, setup, bounds>>

\* A slip: a named conversation is not looked for in the journal.
AlwaysExecutes(a) == "gate"

\* Remote state in the journal means recover, which only waits.
EntryPoint(a) == IF named[a] # 0 THEN "wait" ELSE "gate"

\* recover: the conversation of the conversation_ready event, if any, is waited for and
\* its answer read, as by execute; nothing is created and nothing is run.
Reattached(a) == named[a]

\* The pending attempt is recovered, else the next one is selected; its event is journaled.
Select(j) ==
    LET r == job[j].run
        a == <<r, NextSequence(r)>>
    IN
    /\ job[j].pc = "select"
    /\ a \in Attempt
    /\ claimed' = claimed \union {a}
    /\ job' = [job EXCEPT ![j] = [@ EXCEPT !.pc = EntryPoint(a), !.cur = a, !.conv = Reattached(a)]]
    /\ UNCHANGED <<lock, opened, named, record, workdir, status, conv, setup, bounds>>

\* One attempt was made, or none is left: the runner writes its report and returns.
Return(j) ==
    /\ job[j].pc = "return" \/ (job[j].pc = "select" /\ NextSequence(job[j].run) > Budget)
    /\ Leaves(j, 0)
    /\ UNCHANGED <<store, status, conv, setup, bounds>>

\* A slip: only the exit code is looked at.
StatusByExit(code) == IF code = 0 THEN "complete" ELSE "failed"

\* A slip: the state planned for the next tick.
StatusAsPlanned(code) ==
    IF code # 0 THEN "failed" ELSE IF IncompleteRuns = {} THEN "start" ELSE "resume"

\* The run the status is about: the incomplete one, else the last one.
StatusAfter(code) ==
    CASE code # 0 -> "failed"
      [] code = 0 /\ MatchingRuns # {} /\ IncompleteRuns = {} -> "complete"
      [] OTHER -> "waiting-for-next-tick"

\* The store is read again, without its lock, for the status file.
WriteStatus(j) ==
    /\ job[j].pc = "status"
    /\ status' = StatusAfter(job[j].code)
    /\ job' = [job EXCEPT ![j] = Off]
    /\ UNCHANGED <<lock, store, conv, setup, bounds>>

-----------------------------------------------------------------------------
(* CanvasWorker *)

\* A slip: the exception leaves the loop before the attempt is recorded.
FailsUnrecorded(j) == job' = [job EXCEPT ![j].pc = "return"]

\* An exception that the runner catches: the attempt will be recorded as failed.
Failing(j) == job' = [job EXCEPT ![j] = [@ EXCEPT !.pc = "append", !.outcome = "failed"]]

Goes(j, pc) == job' = [job EXCEPT ![j].pc = pc]

\* A slip: the launch lock closes one conversation late.
OneBelow(active) == active <= LaunchLockAt

LaunchAllowed(active) == active < LaunchLockAt

\* capacity_snapshot counts every running conversation of the shared backend, those
\* of its other users included.
CheckCapacity(j) ==
    /\ job[j].pc = "gate"
    /\ \E others \in 0..MaxOthers :
          IF LaunchAllowed(Cardinality(Running) + others) THEN Goes(j, "workspace")
                                                          ELSE Failing(j)
    /\ UNCHANGED <<lock, store, status, conv, setup, bounds>>

\* mkdir(exist_ok=False) of a local workspace; a FileExistsError is not caught
\* by the runner and ends the invocation.  Then worker_started is journaled.
PrepareWorkspace(j) ==
    LET a == job[j].cur IN
    /\ job[j].pc = "workspace"
    /\ IF setup.remote \/ a \notin workdir
       THEN Goes(j, "create") /\ UNCHANGED lock
       ELSE Leaves(j, 2)
    /\ workdir' = IF setup.remote THEN workdir ELSE workdir \union {a}
    /\ UNCHANGED <<opened, claimed, named, record, status, conv, setup, bounds>>

\* A slip: the initial message asks for a run.
RunsAtOnce(a) == [attempt |-> a, state |-> "running"]

\* POST /api/conversations with run: False
NewConversation(a) ==
    [attempt |-> a, state |-> IF setup.auto THEN "running" ELSE "idle"]

\* start_conversation; when the answer is lost the conversation exists all the same.
Create(j, lost) ==
    /\ job[j].pc = "create"
    /\ conv' = Append(conv, NewConversation(job[j].cur))
    /\ IF lost
       THEN faults < MaxFaults /\ faults' = faults + 1 /\ Failing(j)
       ELSE /\ job' = [job EXCEPT ![j].pc = "ready", ![j].conv = Len(conv) + 1]
            /\ UNCHANGED faults
    /\ UNCHANGED <<lock, store, status, setup, crashes>>

\* The conversation_ready event.
JournalReady(j) ==
    /\ job[j].pc = "ready"
    /\ named' = [named EXCEPT ![job[j].cur] = job[j].conv]
    /\ Goes(j, "run")
    /\ UNCHANGED <<lock, opened, claimed, record, workdir, status, conv, setup, bounds>>

\* if not auto_started
NeedsRun == ~setup.auto

\* POST .../run, unless it was created running; 409 "already running" is success.
\* A lost answer fails the attempt; the conversation runs.  Then
\* conversation_running is journaled.
RunConversation(j, lost) ==
    /\ job[j].pc = "run"
    /\ conv' = [conv EXCEPT ![job[j].conv].state =
                   IF NeedsRun /\ @ = "idle" THEN "running" ELSE @]
    /\ IF lost
       THEN NeedsRun /\ faults < MaxFaults /\ faults' = faults + 1 /\ Failing(j)
       ELSE Goes(j, "wait") /\ UNCHANGED faults
    /\ UNCHANGED <<lock, store, status, setup, crashes>>

\* wait_for_terminal sees one of the terminal states; conversation_terminal is journaled.
SeeTerminal(j) ==
    /\ job[j].pc = "wait"
    /\ conv[job[j].conv].state = "ended"
    /\ Goes(j, "answer")
    /\ UNCHANGED <<lock, store, status, conv, setup, bounds>>

\* The execution timeout.
TimeOut(j) ==
    /\ job[j].pc = "wait"
    /\ Failing(j)
    /\ UNCHANGED <<lock, store, status, conv, setup, bounds>>

\* final_response holds a contract or not; the terminal state itself is not judged.
ReadAnswer(j) ==
    /\ job[j].pc = "answer"
    /\ \E outcome \in Outcome :
          job' = [job EXCEPT ![j] = [@ EXCEPT !.pc = "append", !.outcome = outcome]]
    /\ UNCHANGED <<lock, store, status, conv, setup, bounds>>

\* A call to the backend, or a check of what it answers, raises.
CallFails(j) ==
    /\ job[j].pc \in {"gate", "create", "run", "wait", "answer"}
    /\ faults < MaxFaults
    /\ faults' = faults + 1
    /\ Failing(j)
    /\ UNCHANGED <<lock, store, status, conv, setup, crashes>>

\* append_attempt, which never overwrites.
AppendAttempt(j) ==
    LET a == job[j].cur IN
    /\ job[j].pc = "append"
    /\ record[a] = None
    /\ record' = [record EXCEPT ![a] = job[j].outcome]
    /\ Goes(j, "return")
    /\ UNCHANGED <<lock, opened, claimed, named, workdir, status, conv, setup, bounds>>

\* The pod is killed (activeDeadlineSeconds, eviction).
Crash(j) ==
    /\ job[j].pc # "off" /\ crashes < MaxCrashes
    /\ crashes' = crashes + 1
    /\ job' = [job EXCEPT ![j] = Off]
    /\ lock' = IF lock = j THEN None ELSE lock
    /\ UNCHANGED <<store, status, conv, setup, faults>>

\* A ConnectionError is an OSError: only the command line catches it.
Escape(j) ==
    /\ job[j].pc \in {"gate", "create", "run", "wait", "answer"}
    /\ crashes < MaxCrashes
    /\ crashes' = crashes + 1
    /\ Leaves(j, 2)
    /\ UNCHANGED <<store, status, conv, setup, faults>>

-----------------------------------------------------------------------------
(* The backend *)

\* A running conversation reaches a terminal state: finished, error, stuck, paused, ...
Ends(i) ==
    /\ conv[i].state = "running"
    /\ conv' = [conv EXCEPT ![i].state = "ended"]
    /\ UNCHANGED <<lock, store, status, job, setup, bounds>>

Step(j) ==
    \/ Plan(j) \/ Refuse(j) \/ Complete(j) \/ TakeLock(j) \/ LockBusy(j) \/ OpenRun(j) \/ Select(j)
    \/ Return(j) \/ WriteStatus(j) \/ CheckCapacity(j) \/ PrepareWorkspace(j)
    \/ \E lost \in BOOLEAN : Create(j, lost) \/ RunConversation(j, lost)
    \/ JournalReady(j) \/ SeeTerminal(j) \/ TimeOut(j) \/ ReadAnswer(j)
    \/ CallFails(j) \/ AppendAttempt(j)

Backend == \E i \in DOMAIN conv : Ends(i)

Next == Backend \/ \E j \in Job : Step(j) \/ Crash(j) \/ Escape(j)

Spec == Init /\ [][Next]_vars

\* Jobs keep running and being scheduled; the backend need not do anything.
FairSpec == Spec /\ \A j \in Job : WF_vars(Step(j))

-----------------------------------------------------------------------------
(* Properties *)

\* Types of all variables.
TypeOK ==
    /\ lock \in Job \union {None}
    /\ opened \in 0..MaxRuns
    /\ claimed \subseteq Attempt
    /\ named \in [Attempt -> Nat]
    /\ record \in [Attempt -> Outcome \union {None}]
    /\ status \in {None, "failed", "complete", "waiting-for-next-tick"}
    /\ workdir \subseteq Attempt
    /\ job \in [Job -> [pc : {"off", "lock", "open", "select", "return", "status"} \union Working,
                        want : Run \union {0}, run : Run \union {0},
                        cur : Attempt \union {<<0, 0>>}, conv : Nat,
                        outcome : Outcome \union {None}, code : {0, 2}]]
    /\ conv \in Seq(Conversation)
    /\ setup \in Setups
    /\ crashes \in Nat /\ faults \in Nat

Of(a) == {i \in DOMAIN conv : conv[i].attempt = a}

\* controller/README.md:98-99 "the replacement tick must reattach rather than launch
\* a duplicate", whichever jobs overlap: nothing is created for an attempt whose
\* conversation is journaled, nor for one that has its record.
NoSecondLaunch ==
    [][\A a \in Attempt : named[a] # 0 \/ record[a] # None =>
          Len(conv') = Len(conv) \/ conv'[Len(conv')].attempt # a]_vars

\* A tick that dies between creating a conversation and journaling it leaves one
\* behind, but that one does not run: creating and running are two requests.
OneRunPerAttempt ==
    ~setup.auto => \A a \in Attempt :
        Cardinality({i \in Of(a) : conv[i].state # "idle"}) <= 1

\* The ticks' own conversations never exceed the launch lock, counting those
\* abandoned by timeouts, failures and dead jobs.
OwnRunningIsBounded == Cardinality(Running) <= LaunchLockAt

\* The status file says "complete" only of a campaign whose budget is recorded.
StatusIsTruthful ==
    ~setup.overlap /\ status = "complete" =>
        opened = 1 /\ \A q \in 1..Budget : record[<<1, q>>] # None

\* The ticks spend the budget even when the backend never finishes anything or is
\* full for ever.  With a local workspace they need not: see PrepareWorkspace.
TicksComplete ==
    setup.remote /\ ~setup.overlap =>
        <>(\A q \in 1..Budget : record[<<1, q>>] # None)

\* The ledger in the store: one campaign, its single task.
ClaimOf(a) == [run |-> a[1], id |-> a, seq |-> a[2], task |-> 1]
LedgerManifest == [campaign |-> "campaign", scheduler |-> "managed"]

ASSUME NoneAssumption == None \notin Job /\ None \notin Outcome \union {"complete"} /\ None # LedgerManifest

Ledger == INSTANCE ResearchLedger WITH
    AttemptId <- Attempt, Campaign <- {"campaign"}, Policy <- {"managed"}, Task <- {1},
    TasksOf <- [g \in {"campaign"} |-> {1}], BudgetOf <- [g \in {"campaign"} |-> Budget],
    Score <- {}, Statement <- {},
    manifest <- [r \in Run |-> IF r <= opened THEN LedgerManifest ELSE None],
    claims <- {ClaimOf(a) : a \in claimed},
    results <- {[claim |-> ClaimOf(a), outcome |-> record[a], score |-> None] :
                   a \in {b \in Attempt : record[b] # None}}

\* Jobs that overlap, die and resume still implement the research ledger: claims
\* in order and one at a time in each run, each settled by one lasting result.
ImplementsLedger == Ledger!Spec

\* controller/README.md:100-101 "Start two manual jobs simultaneously; one must be
\* rejected by the store ownership lock or Kubernetes scheduling": however jobs
\* overlap, the campaign has one run.
OverlapIsRejected == opened <= 1
=============================================================================
