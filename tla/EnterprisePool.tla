--------------------------- MODULE EnterprisePool ---------------------------
(***************************************************************************)
(* The concurrent batch of experiments/enterprise-sandbox-grouping/        *)
(* scripts/run-concurrent.py: one worker per task in a pool of threads.    *)
(* The first task is the seed; the others follow when its conversation is  *)
(* ready.  At the end the batch pauses every sandbox its journals name.    *)
(* Each task has a store of its own and nobody resumes it, so a batch that *)
(* crashes is over.  Deferred cleanup is left to the platform.             *)
(***************************************************************************)
EXTENDS OpenHandsWorker

CONSTANT Seed       \* the attempt of the first task

ASSUME SeedAssumption == Seed \in Attempt /\ \A a \in Attempt : Seed <= a

VARIABLES
    stage,      \* where main() is
    handled,    \* sandboxes that the cleanup has been through
    pauseErrors

poolVars == <<stage, handled, pauseErrors>>
allVars == <<vars, poolVars>>

Stage == {"gate", "seeding", "followers", "cleanup", "exited", "raised"}

PoolInit ==
    /\ Init
    /\ stage = "gate" /\ handled = {} /\ pauseErrors = {}

-----------------------------------------------------------------------------
(* main() *)

To(s) == stage' = s /\ UNCHANGED <<handled, pauseErrors>>

\* The future of a task has its result, or the exception that ended its thread.
HasResult(a) == phase[a] \in {"escaped"} \union Recorded

\* future.result() raises that exception again; nothing is cleaned up then.
After(tasks) == IF \E a \in tasks : phase[a] = "escaped" THEN "raised" ELSE "cleanup"

SomeReady == \E a \in Attempt : "conversation_ready" \in journal[a]

\* The batch asks the gate once before its workers do.
Open ==
    /\ stage = "gate"
    /\ To(IF LaunchAllowed THEN "seeding" ELSE "raised")
    /\ UNCHANGED vars

\* What the executor has been given.
Submitted == IF stage = "followers" THEN Attempt ELSE {Seed}

BeginTask(a) ==
    /\ stage \in {"seeding", "followers"} /\ a \in Submitted
    /\ Begin(a)
    /\ UNCHANGED poolVars

\* The seed is ready, or done without having been seen ready, or neither in time.
SeedReady == stage = "seeding" /\ SomeReady /\ To("followers") /\ UNCHANGED vars

SeedDone ==
    /\ stage = "seeding" /\ HasResult(Seed)
    /\ To(After({Seed}))
    /\ UNCHANGED vars

SeedTimesOut ==
    /\ stage = "seeding" /\ ~HasResult(Seed)
    /\ To("raised")
    /\ UNCHANGED vars

\* The executor waits for all its threads also when main() raises.
Collect ==
    /\ stage = "followers" /\ \A a \in Attempt : HasResult(a)
    /\ To(After(Attempt))
    /\ UNCHANGED vars

\* A slip: the seed's sandbox is shared by all.
SeedSandbox == {seen[Seed]} \ {None}

\* A slip: events without a sandbox are counted.
AllIds == {seen[a] : a \in Attempt}

\* sandbox_ids_from_lifecycle
SandboxIds == {seen[a] : a \in Attempt} \ {None}

HandledAfter(b, ok) == handled \union {b}

\* The batch pauses a sandbox, unless it is paused already.
CleanUp(b) ==
    /\ stage = "cleanup" /\ b \in SandboxIds \ handled
    /\ \E ok \in BOOLEAN :
          /\ Pauses(b, ok)
          /\ handled' = HandledAfter(b, ok)
          /\ pauseErrors' = IF ok THEN pauseErrors ELSE pauseErrors \union {b}
    /\ UNCHANGED <<attemptVars, conv, strategy, crashes, stage>>

Exit ==
    /\ stage = "cleanup" /\ SandboxIds \subseteq handled
    /\ To("exited")
    /\ UNCHANGED vars

\* An exception that run() does not catch ends the thread; nobody resumes its attempt.
ThreadEnds(a) ==
    /\ phase[a] = "over" /\ ending[a] = "escaped"
    /\ Goes(a, "escaped")
    /\ UNCHANGED <<ending, skipDwell, journal, start, seen, dwells, platformVars, crashes, faults>>

TaskStep(a) == (Work(a) \/ ThreadEnds(a)) /\ UNCHANGED poolVars

Main == Open \/ SeedReady \/ SeedDone \/ SeedTimesOut \/ Collect \/ Exit

PoolNext ==
    \/ Main \/ \E b \in Sandbox : CleanUp(b)
    \/ \E a \in Attempt : BeginTask(a) \/ TaskStep(a)
    \/ Platform /\ UNCHANGED poolVars

PoolSpec == PoolInit /\ [][PoolNext]_allVars

\* Threads are scheduled and every call has a timeout; nothing is assumed of the
\* platform.
FairPoolSpec ==
    /\ PoolSpec /\ WF_allVars(Main) /\ \A b \in Sandbox : WF_allVars(CleanUp(b))
    /\ \A a \in Attempt : WF_allVars(BeginTask(a)) /\ WF_allVars(TaskStep(a))

-----------------------------------------------------------------------------
(* Properties *)

\* experiments/enterprise-sandbox-grouping/README.md:43 "No conversation pauses the
\* shared sandbox while another is running": nothing the batch does pauses the sandbox
\* of a conversation that one of its workers is starting or waiting for.
NobodyLosesItsSandbox ==
    [][\A a \in Attempt, b \in Sandbox :
          /\ sandbox[b] = "active" /\ sandbox'[b] = "paused"
          /\ phase[a] \in {"poll", "wait", "answer", "dwell"}
          => conv[start[a]].box # b]_allVars

\* The exit status, as far as cleanup and attempts decide it.
ExitsWithZero ==
    /\ stage = "exited" /\ pauseErrors = {}
    /\ \A a \in Attempt : phase[a] = "completed"

\* README.md:33, :102 "Verify zero active user-visible sandboxes", "pauses every observed
\* sandbox after all workers finish": a batch that reports success left none running.
SuccessMeansClean == ExitsWithZero => Active = {}

\* The batch ends: no thread waits for another that never comes.
BatchEnds == <>(stage \in {"exited", "raised"} /\ InFlight = {})
=============================================================================
