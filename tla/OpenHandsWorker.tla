-------------------------- MODULE OpenHandsWorker --------------------------
(***************************************************************************)
(* The Enterprise worker (OpenHandsWorker of workers.py, OpenHandsClient   *)
(* of openhands.py) and the platform it drives.  An attempt passes the     *)
(* capacity gate, posts a conversation, polls its start task, waits for a  *)
(* terminal state, reads the answer, dwells, and pauses the sandbox.  The  *)
(* platform acts on its own: sandboxes appear late, starts fail, sandboxes *)
(* are lost, and conversations end while nobody looks.                     *)
(*                                                                         *)
(* At most Dispatch attempts are in flight: one for a campaign runner,     *)
(* which may crash and recover the attempt, several for the threads of     *)
(* EnterprisePool.  Of the journal only the kinds are kept that something  *)
(* depends on, and an answer is never empty.                               *)
(***************************************************************************)
EXTENDS Naturals, FiniteSets

CONSTANTS
    Attempt,        \* attempts, numbered in the order in which they begin
    StartTask,      \* start tasks; each stands for its conversation as well
    Sandbox,
    None,
    Strategies,     \* sandbox grouping strategies that the user may have set
    LaunchLockAt,
    Dispatch,       \* how many attempts may be in flight
    ControlledDwell,    \* whether the campaign has controlled_dwell_seconds
    MaxCrashes,     \* bound on crashes of the controller
    MaxFaults       \* bound on calls that fail for good and on lost sandboxes

ASSUME AttemptAssumption == Attempt \subseteq Nat
ASSUME CapacityAssumption == LaunchLockAt \in Nat \ {0} /\ Dispatch \in Nat \ {0}
ASSUME StrategyAssumption == Strategies \subseteq {"NO_GROUPING", "FEWEST_CONVERSATIONS"}
ASSUME DwellAssumption == ControlledDwell \in BOOLEAN
\* How an attempt may end: with a result; by what the worker saw (a closed gate, a
\* failed start, a deadline); by a call that fails with an error that run() records; or
\* by one that fails with a ConnectionError, an OSError, which run() does not catch.
Ending == {"returned", "raised", "broken", "escaped"}

ASSUME NoneAssumption == None \notin StartTask \union Sandbox /\ None \notin Ending
ASSUME FaultAssumption == MaxCrashes \in Nat /\ MaxFaults \in Nat

VARIABLES
    phase,      \* where the worker is in each attempt, and the attempt's end
    ending,     \* how the worker ends or ended the attempt, in Ending
    skipDwell,  \* a recovery found the dwell finished
    journal,    \* durable: kinds of the lifecycle events of each attempt
    start,      \* the start task of each attempt, durable once journaled
    seen,       \* durable: the sandbox that the events of each attempt name
    conv,       \* platform: state and sandbox of each start task
    sandbox,    \* platform: status of each sandbox
    strategy,   \* platform: the user's sandbox_grouping_strategy
    dwells,     \* history: how often each attempt dwelt to the end
    crashes,
    faults

attemptVars == <<phase, ending, skipDwell, journal, start, seen, dwells>>
platformVars == <<conv, sandbox, strategy>>
vars == <<attemptVars, platformVars, crashes, faults>>

Kind == {"start_task_created", "conversation_start_failed", "conversation_ready",
         "conversation_terminal", "controlled_dwell_completed",
         "sandbox_pause_requested", "sandbox_paused", "sandbox_pause_failed"}

\* An attempt that is "over" is still to be recorded by the runner; one that is
\* "escaped" never will be: its exception ended the thread of a batch.
Recorded == {"completed", "failed"}
Phase == {"new", "gate", "launch", "posted", "poll", "wait", "answer", "dwell", "cleanup",
          "pausing", "over", "interrupted", "escaped"} \union Recorded

Active == {b \in Sandbox : sandbox[b] = "active"}
InFlight == {a \in Attempt : phase[a] \notin {"new", "escaped"} \union Recorded}

Init ==
    /\ phase = [a \in Attempt |-> "new"]
    /\ ending = [a \in Attempt |-> None]
    /\ skipDwell = [a \in Attempt |-> FALSE]
    /\ journal = [a \in Attempt |-> {}]
    /\ start = [a \in Attempt |-> None]
    /\ seen = [a \in Attempt |-> None]
    /\ conv = [s \in StartTask |-> [state |-> "unused", box |-> None]]
    /\ sandbox = [b \in Sandbox |-> "none"]
    /\ strategy \in Strategies
    /\ dwells = [a \in Attempt |-> 0]
    /\ crashes = 0 /\ faults = 0

-----------------------------------------------------------------------------
(* Steps of an attempt *)

Goes(a, p) == phase' = [phase EXCEPT ![a] = p]

\* The worker is leaving with e, through the finally clause or past it.
Leaves(a, e, p) == Goes(a, p) /\ ending' = [ending EXCEPT ![a] = e]

Journals(a, kind) == journal' = [journal EXCEPT ![a] = @ \union {kind}]

\* New ids are interchangeable: one stands for all that are not in use.
NewOf(unused) == IF unused = {} THEN {} ELSE {CHOOSE x \in unused : TRUE}

\* A call fails in a way that no retry mends.
Fault == faults < MaxFaults /\ faults' = faults + 1

CallFails(a, p) == Fault /\ \E e \in {"broken", "escaped"} : Leaves(a, e, p)

\* Attempts begin in their order, in the runner's loop or the executor's queue.
Begin(a) ==
    /\ phase[a] = "new" /\ Cardinality(InFlight) < Dispatch
    /\ \A b \in Attempt : b < a => phase[b] # "new"
    /\ Goes(a, "gate")
    /\ UNCHANGED <<ending, skipDwell, journal, start, seen, dwells, platformVars, crashes,
                   faults>>

\* A slip: the gate closes above the threshold.
UpToLock == Cardinality(Active) <= LaunchLockAt

LaunchAllowed == Cardinality(Active) < LaunchLockAt

CheckCapacity(a) ==
    /\ phase[a] = "gate"
    /\ \/ LaunchAllowed /\ Goes(a, "launch") /\ UNCHANGED <<ending, faults>>
       \/ ~LaunchAllowed /\ Leaves(a, "raised", "over") /\ UNCHANGED faults
       \/ CallFails(a, "over")
    /\ UNCHANGED <<skipDwell, journal, start, seen, dwells, platformVars, crashes>>

\* start_conversation.  A POST is not repeated when its outcome is unknown: if it
\* raises, a start task may exist or not.
Launch(a) ==
    /\ phase[a] = "launch"
    /\ \E s \in NewOf({t \in StartTask : conv[t].state = "unused"}) :
          LET posted == conv' = [conv EXCEPT ![s].state = "starting"] IN
          \/ /\ posted /\ start' = [start EXCEPT ![a] = s]
             /\ Goes(a, "posted") /\ UNCHANGED <<ending, faults>>
          \/ /\ posted \/ UNCHANGED conv
             /\ CallFails(a, "over") /\ UNCHANGED start
    /\ UNCHANGED <<skipDwell, journal, seen, sandbox, strategy, dwells, crashes>>

JournalStart(a) ==
    /\ phase[a] = "posted"
    /\ Goes(a, "poll") /\ Journals(a, "start_task_created")
    /\ UNCHANGED <<ending, skipDwell, start, seen, dwells, platformVars, crashes, faults>>

\* poll_start_task: the conversation has an id, also when it has ended since.
SeeReady(a) ==
    /\ phase[a] = "poll" /\ conv[start[a]].state \in {"running", "terminal"}
    /\ Goes(a, "wait") /\ Journals(a, "conversation_ready")
    /\ seen' = [seen EXCEPT ![a] = conv[start[a]].box]
    /\ UNCHANGED <<ending, skipDwell, start, dwells, platformVars, crashes, faults>>

\* A slip: the event names the task.
NamedTask(a) == start[a]

\* The sandbox that get_start_task shows.
NamedSandbox(a) == conv[start[a]].box

\* The start failed, took too long or could not be read; nothing is paused.  The
\* event names the sandbox, if get_start_task answers and shows one.
StartFails(a) ==
    /\ phase[a] = "poll"
    /\ \/ /\ conv[start[a]].state \in {"starting", "failed"}
          /\ Leaves(a, "raised", "over") /\ UNCHANGED faults
          /\ seen' = [seen EXCEPT ![a] = NamedSandbox(a)]
       \/ /\ CallFails(a, "over")
          /\ \E b \in {None, NamedSandbox(a)} : seen' = [seen EXCEPT ![a] = b]
    /\ Journals(a, "conversation_start_failed")
    /\ UNCHANGED <<skipDwell, start, dwells, platformVars, crashes>>

\* A slip: the events of a paused conversation are not asked for its status.
StatusOfRecord(s) == conv[s].state = "terminal" /\ sandbox[conv[s].box] = "active"

\* The status in the record, or in the events if the sandbox no longer runs.
IsTerminal(s) == conv[s].state = "terminal"

SeeTerminal(a) ==
    /\ phase[a] = "wait" /\ IsTerminal(start[a])
    /\ Goes(a, "answer") /\ Journals(a, "conversation_terminal")
    /\ UNCHANGED <<ending, skipDwell, start, seen, dwells, platformVars, crashes, faults>>

\* A slip: there is no deadline.
WaitsForEver(a) ==
    /\ phase[a] = "wait"
    /\ \/ /\ ~IsTerminal(start[a]) /\ sandbox[seen[a]] = "lost"
          /\ Leaves(a, "raised", "cleanup") /\ UNCHANGED faults
       \/ Fault /\ Leaves(a, "broken", "cleanup")
    /\ UNCHANGED <<skipDwell, journal, start, seen, dwells, platformVars, crashes>>

\* The deadline passes, the sandbox is lost, or calls fail for good; the loop itself
\* catches ConnectionErrors.
WaitFails(a) ==
    /\ phase[a] = "wait"
    /\ \/ ~IsTerminal(start[a]) /\ Leaves(a, "raised", "cleanup") /\ UNCHANGED faults
       \/ Fault /\ Leaves(a, "broken", "cleanup")
    /\ UNCHANGED <<skipDwell, journal, start, seen, dwells, platformVars, crashes>>

\* final_response and the artifact.
ReadAnswer(a) ==
    /\ phase[a] = "answer"
    /\ \/ Goes(a, "dwell") /\ UNCHANGED <<ending, faults>>
       \/ CallFails(a, "cleanup")
    /\ UNCHANGED <<skipDwell, journal, start, seen, dwells, platformVars, crashes>>

\* No dwell is due.
Return(a) ==
    /\ phase[a] = "dwell" /\ (skipDwell[a] \/ ~ControlledDwell)
    /\ Leaves(a, "returned", "cleanup")
    /\ UNCHANGED <<skipDwell, journal, start, seen, dwells, platformVars, crashes, faults>>

\* The rest of the dwell is slept and journaled; nothing is, if none is left.
Dwell(a) ==
    /\ phase[a] = "dwell" /\ ~skipDwell[a] /\ ControlledDwell
    /\ Leaves(a, "returned", "cleanup")
    /\ Journals(a, "controlled_dwell_completed") \/ UNCHANGED journal
    /\ dwells' = [dwells EXCEPT ![a] = @ + 1]
    /\ UNCHANGED <<skipDwell, start, seen, platformVars, crashes, faults>>

\* A slip: whoever made the strategy, the worker pauses its sandbox.
AlwaysPauses == TRUE

\* pause_after_attempt
PauseAfterAttempt == strategy = "NO_GROUPING"

\* A slip: a recovery takes a requested pause for a pause.
PauseOnce(a) == PauseAfterAttempt /\ "sandbox_pause_requested" \notin journal[a]

PauseDue(a) == PauseAfterAttempt

RequestPause(a) ==
    /\ phase[a] = "cleanup"
    /\ IF PauseDue(a)
       THEN Goes(a, "pausing") /\ Journals(a, "sandbox_pause_requested")
       ELSE Goes(a, "over") /\ UNCHANGED journal
    /\ UNCHANGED <<ending, skipDwell, start, seen, dwells, platformVars, crashes, faults>>

\* pause_sandbox of sandbox b; ok unless the request or its confirmation failed.
Pauses(b, ok) ==
    \/ /\ ok /\ sandbox[b] \in {"active", "paused"}
       /\ sandbox' = [sandbox EXCEPT ![b] = "paused"] /\ UNCHANGED faults
    \/ ~ok /\ sandbox[b] = "lost" /\ UNCHANGED <<sandbox, faults>>
    \/ /\ ~ok /\ sandbox[b] \in {"active", "paused"} /\ Fault
       /\ \E status \in {sandbox[b], "paused"} : sandbox' = [sandbox EXCEPT ![b] = status]

\* A failure is journaled, but a ConnectionError is not among those caught: it takes the
\* place of the result, or of another exception.
Pause(a) ==
    /\ phase[a] = "pausing"
    /\ \/ /\ \/ Pauses(seen[a], TRUE) /\ Journals(a, "sandbox_paused")
             \/ Pauses(seen[a], FALSE) /\ Journals(a, "sandbox_pause_failed")
          /\ Goes(a, "over") /\ UNCHANGED ending
       \/ /\ Pauses(seen[a], FALSE) /\ faults' # faults /\ UNCHANGED journal
          /\ Leaves(a, "escaped", "over")
    /\ UNCHANGED <<skipDwell, start, seen, dwells, conv, strategy, crashes>>

\* append_attempt of the runner.
Record(a) ==
    /\ phase[a] = "over" /\ ending[a] # "escaped"
    /\ Goes(a, IF ending[a] = "returned" THEN "completed" ELSE "failed")
    /\ skipDwell' = [skipDwell EXCEPT ![a] = FALSE]
    /\ UNCHANGED <<ending, journal, start, seen, dwells, platformVars, crashes, faults>>

-----------------------------------------------------------------------------
(* The end of a process, and recovery *)

\* What is not journaled is forgotten, start tasks among it.
ProcessEnds ==
    /\ phase' = [a \in Attempt |-> IF a \in InFlight THEN "interrupted" ELSE phase[a]]
    /\ start' = [a \in Attempt |->
                   IF "start_task_created" \in journal[a] THEN start[a] ELSE None]
    /\ ending' = [a \in Attempt |-> IF a \in InFlight THEN None ELSE ending[a]]
    /\ skipDwell' = [a \in Attempt |-> FALSE]
    /\ UNCHANGED <<journal, seen, dwells, platformVars>>

Crash ==
    /\ InFlight # {} /\ crashes < MaxCrashes
    /\ crashes' = crashes + 1 /\ ProcessEnds /\ UNCHANGED faults

\* run() does not catch the exception: nothing is recorded, and the campaign runner ends
\* with its attempt incomplete.
Escape(a) ==
    /\ phase[a] = "over" /\ ending[a] = "escaped"
    /\ ProcessEnds /\ UNCHANGED <<crashes, faults>>

\* A slip: an attempt that waited for its conversation needs no dwell.
TerminalSuffices(a) == "conversation_terminal" \in journal[a]

PriorDwellFinished(a) ==
    journal[a] \intersect {"controlled_dwell_completed", "sandbox_pause_requested"} # {}

\* The runner resumes: recover if a start task is journaled, else execute.
Resume(a) ==
    /\ phase[a] = "interrupted"
    /\ IF "start_task_created" \in journal[a]
       THEN /\ Goes(a, "poll")
            /\ skipDwell' = [skipDwell EXCEPT ![a] = PriorDwellFinished(a)]
       ELSE Goes(a, "gate") /\ UNCHANGED skipDwell
    /\ UNCHANGED <<ending, journal, start, seen, dwells, platformVars, crashes, faults>>

-----------------------------------------------------------------------------
(* The platform *)

\* A conversation gets a sandbox: a new one or, when grouped, one that runs.
Place(s) ==
    /\ conv[s].state = "starting" /\ conv[s].box = None
    /\ \E b \in NewOf({c \in Sandbox : sandbox[c] = "none"})
               \union IF strategy = "NO_GROUPING" THEN {} ELSE Active :
          /\ conv' = [conv EXCEPT ![s].box = b]
          /\ sandbox' = [sandbox EXCEPT ![b] = "active"]
    /\ UNCHANGED <<attemptVars, strategy, crashes, faults>>

Runs(s) == conv[s].box # None /\ sandbox[conv[s].box] = "active"

StartConversation(s) ==
    /\ conv[s].state = "starting" /\ Runs(s)
    /\ conv' = [conv EXCEPT ![s].state = "running"]
    /\ UNCHANGED <<attemptVars, sandbox, strategy, crashes, faults>>

FailStart(s) ==
    /\ conv[s].state = "starting"
    /\ conv' = [conv EXCEPT ![s].state = "failed"]
    /\ UNCHANGED <<attemptVars, sandbox, strategy, crashes, faults>>

EndConversation(s) ==
    /\ conv[s].state = "running" /\ Runs(s)
    /\ conv' = [conv EXCEPT ![s].state = "terminal"]
    /\ UNCHANGED <<attemptVars, sandbox, strategy, crashes, faults>>

LoseSandbox(b) ==
    /\ sandbox[b] = "active" /\ Fault
    /\ sandbox' = [sandbox EXCEPT ![b] = "lost"]
    /\ UNCHANGED <<attemptVars, conv, strategy, crashes>>

-----------------------------------------------------------------------------
(* The specification *)

Work(a) ==
    \/ CheckCapacity(a) \/ Launch(a) \/ JournalStart(a) \/ SeeReady(a) \/ StartFails(a)
    \/ SeeTerminal(a) \/ WaitFails(a) \/ ReadAnswer(a) \/ Return(a) \/ Dwell(a)
    \/ RequestPause(a) \/ Pause(a) \/ Record(a)

Step(a) == Work(a) \/ Escape(a) \/ Resume(a)

Platform ==
    \/ \E s \in StartTask :
          Place(s) \/ StartConversation(s) \/ FailStart(s) \/ EndConversation(s)
    \/ \E b \in Sandbox : LoseSandbox(b)

Next == Crash \/ Platform \/ \E a \in Attempt : Begin(a) \/ Step(a)

Spec == Init /\ [][Next]_vars

\* Every call has a timeout, and a supervisor restarts the controller.  Nothing is
\* assumed of the platform.
FairSpec == Spec /\ \A a \in Attempt : WF_vars(Begin(a)) /\ WF_vars(Step(a))

-----------------------------------------------------------------------------
(* Properties *)

TypeOK ==
    /\ phase \in [Attempt -> Phase]
    /\ ending \in [Attempt -> Ending \union {None}]
    /\ skipDwell \in [Attempt -> BOOLEAN]
    /\ journal \in [Attempt -> SUBSET Kind]
    /\ start \in [Attempt -> StartTask \union {None}]
    /\ seen \in [Attempt -> Sandbox \union {None}]
    /\ conv \in [StartTask ->
                   [state : {"unused", "starting", "failed", "running", "terminal"},
                    box : Sandbox \union {None}]]
    /\ sandbox \in [Sandbox -> {"none", "active", "paused", "lost"}]
    /\ strategy \in Strategies
    /\ dwells \in [Attempt -> Nat]
    /\ crashes \in 0..MaxCrashes /\ faults \in 0..MaxFaults

\* Start tasks that the controller gave up or forgot before they were ready.
Abandoned ==
    {s \in StartTask :
        /\ conv[s].state # "unused"
        /\ \A a \in Attempt : start[a] = s =>
              /\ "conversation_ready" \notin journal[a]
              /\ phase[a] \notin {"posted", "poll", "interrupted"}}

\* experiments/in-platform-controller/README.md:119 "The cluster never crosses the
\* launch lock", as far as the gate can keep it: the threads of a batch may pass it
\* together, and each start that was given up may still bring a sandbox.
OvershootIsBounded ==
    Cardinality(Active) <= LaunchLockAt + (Dispatch - 1) + Cardinality(Abandoned)

\* README.md:95 "After each final response, the controller pauses the sandbox": an
\* attempt is not completed next to a running sandbox unless the journal says so,
\* whichever processes worked on it.
CompletedIsPaused ==
    \A a \in Attempt :
        phase[a] = "completed" /\ PauseAfterAttempt =>
            sandbox[seen[a]] # "active" \/ "sandbox_pause_failed" \in journal[a]

\* The cleanup of one process must not cost the next one the answer (wait_for_terminal
\* asks the events when the sandbox is paused), nor may a pause that fails: once the
\* journal says that the conversation ended, an attempt fails only by a call to start,
\* wait for or read the conversation that fails for good in the process that records it.
EndedWorkIsKept ==
    \A a \in Attempt :
        "conversation_terminal" \in journal[a] /\ phase[a] = "failed" => ending[a] = "broken"

\* results-2026-07-27.md:147 "Enforce dwell time in the controller": unless a process
\* asked for a pause before, after a wait or an answer that failed, a worker that is
\* about to return has dwelt.
DwellBeforeCleanup ==
    \A a \in Attempt :
        /\ ControlledDwell /\ phase[a] = "cleanup" /\ ending[a] = "returned"
        /\ "sandbox_pause_requested" \notin journal[a]
        => dwells[a] > 0

\* Every attempt of the campaign is recorded, whatever the platform does.
AttemptsAreRecorded == <>(\A a \in Attempt : phase[a] \in Recorded)
=============================================================================
