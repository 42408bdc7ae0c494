--------------------------- MODULE CampaignRunner ---------------------------
(***************************************************************************)
(* Controllers running and resuming campaigns over one file store          *)
(* (runner.py, store.py, scheduler.py).  A controller is an operating      *)
(* system process that takes the store's lock, opens or resumes a run,     *)
(* recovers the attempt an earlier controller left incomplete, and makes   *)
(* new attempts up to its cap.  Every durable write is an action of its    *)
(* own, so a crash can fall between any two of them.                       *)
(*                                                                         *)
(* The worker is what the runner sees of it: it writes lifecycle events,   *)
(* may create a remote conversation, and returns a contract or raises.     *)
(***************************************************************************)
EXTENDS ResearchData, Scheduler

CONSTANTS
    Controller,     \* controller processes
    Caps,           \* values of max_new_attempts; None is any value >= the budget
    LessonLimit,    \* find_lessons(limit = 3)
    Rank,           \* Rank[t][l]: place of lesson l in the retrieval order of task t,
                    \* by tag overlap and then id; 0 when no tag overlaps
    RemoteWorker,   \* the worker creates remote conversations and can recover them
    MaxCrashes,     \* bound on crashes
    Nobody          \* holder of a free lock

ASSUME CapsAssumption == Caps \subseteq Nat \ {0}
ASSUME RankAssumption == Rank \in [Task -> [LessonId -> Nat]]
ASSUME RemoteAssumption == RemoteWorker \in BOOLEAN
ASSUME NobodyAssumption == Nobody \notin Controller
ASSUME CrashAssumption == MaxCrashes \in Nat

VARIABLES
    lock,       \* holder of flock(root/.controller.lock)
    manifest,   \* runs/<run>/manifest.json
    attempts,   \* runs/<run>/attempts/*.json
    journal,    \* runs/<run>/lifecycle/<attempt>/<n>-<kind>.json
    lessons,    \* lessons/validated/*.json
    report,     \* the attempts summarised by runs/<run>/report.md
    proc,       \* the memory of each controller process
    launches,   \* remote platform: conversations created for each attempt
    answer,     \* remote platform: the contract in the attempt's last transcript
    crashes

durable == <<manifest, attempts, journal, lessons, report>>
remote == <<launches, answer>>
vars == <<lock, durable, proc, remote, crashes>>

-----------------------------------------------------------------------------
(* Types *)

\* A worker's contract with the validator's verdict on its candidate.
Contract ==
    [status : {"done"}, valid : {TRUE}, score : Score, lesson : Statement \union {None}]
      \union [status : {"done"}, valid : {FALSE}, score : {None},
              lesson : Statement \union {None}]
      \union [status : {"blocked"}, valid : {FALSE}, score : {None}, lesson : {None}]

Kind == {"attempt_recovery_started", "worker_started", "start_task_created",
         "attempt_failed", "attempt_recorded"}

\* n is the numeric prefix of the event id; only a selection carries a payload here.
Event ==
    [run : Run, id : AttemptId, n : Nat, kind : {"attempt_selected"}, sel : Selection]
      \union [run : Run, id : AttemptId, n : Nat, kind : Kind, sel : {None}]

Invocation == [run : Run, manifest : Manifest, cap : Caps, resume : BOOLEAN]

Working == {"execute", "launch", "launched", "running", "append", "mark"}

Process ==
    [pc : {"idle", "open", "load", "next"} \union Working,
     inv : Invocation \union {None},
     mem : SUBSET Attempt,                          \* the list attempts
     pend : SUBSET Selection,                       \* pending, in reconcile
     done : Nat,                                    \* attempts_completed_this_invocation
     cache : (SUBSET LessonId) \union {None},       \* store._validated_lessons
     cur : Selection \union {None},                 \* the attempt being executed
     n : Nat,                                       \* lifecycle_sequence
     draft : Attempt \union {None}]                 \* record, before append_attempt

Idle == [pc |-> "idle", inv |-> None, mem |-> {}, pend |-> {}, done |-> 0,
         cache |-> None, cur |-> None, n |-> 0, draft |-> None]

-----------------------------------------------------------------------------
(* Reading the store *)

AttemptsOf(r) == {a \in attempts : a.run = r}
Sequences(records) == {a.seq : a \in records}
Events(s) == {e \in journal : e.run = s.run /\ e.id = s.id}

\* Every selection in the journal.
Selections == {e.sel : e \in {f \in journal : f.kind = "attempt_selected"}}
Recorded(id) == \E a \in attempts : a.id = id

\* A slip: an attempt is taken for complete once its worker failed.
PendingUnlessFailed(r) ==
    {s \in Selections : /\ s.run = r /\ ~Recorded(s.id)
                        /\ \A e \in Events(s) : e.kind # "attempt_failed"}

Pending(r) == {s \in Selections : s.run = r /\ ~Recorded(s.id)}

\* A slip: only the event written just before the worker waits is looked at.
LastEventIsRemote(s) ==
    \E e \in Events(s) : /\ e.kind = "start_task_created"
                         /\ \A f \in Events(s) : f.n <= e.n

HasRemoteState(s) == \E e \in Events(s) : e.kind = "start_task_created"

Tasks(m) == TasksOf[m.campaign]
Budget(m) == BudgetOf[m.campaign]

\* The ValueErrors with which the runner refuses the ledger of run r.  The code
\* looks for conflicts of a pending attempt when its turn comes, here all at once.
Rejects(r, m) ==
    \/ \E a, b \in AttemptsOf(r) : a # b /\ a.seq = b.seq
    \/ \E a \in AttemptsOf(r) : a.seq \notin 1..Budget(m)
    \/ \E e \in journal : /\ e.run = r /\ ~Recorded(e.id)
                          /\ \A s \in Selections : s.id # e.id
    \/ \E s \in Pending(r) : \/ s.task \notin Tasks(m)
                             \/ s.seq \in Sequences(AttemptsOf(r))
    \/ \E s, t \in Pending(r) : s # t /\ s.seq = t.seq

\* The retrievable lessons of task t among ids: the LessonLimit first by Rank.
FindLessons(t, ids) ==
    LET matching == {l \in ids : Rank[t][l] > 0}
    IN  {l \in matching :
           Cardinality({k \in matching : Rank[t][k] < Rank[t][l]}) < LessonLimit}

\* The store's lessons are read once per process and kept up to date by saves.
Cached(c) == IF proc[c].cache = None THEN {l.id : l \in lessons} ELSE proc[c].cache

-----------------------------------------------------------------------------
(* Taking and leaving the store *)

Init ==
    /\ lock = Nobody
    /\ manifest = [r \in Run |-> None]
    /\ attempts = {} /\ journal = {} /\ lessons = {}
    /\ report = [r \in Run |-> {}]
    /\ proc = [c \in Controller |-> Idle]
    /\ launches = [id \in AttemptId |-> 0]
    /\ answer = [id \in AttemptId |-> None]
    /\ crashes = 0

LockFree(c) == lock = Nobody /\ lock' = c

\* run(): a process asks for run r under manifest m, new or resumed.  When the
\* lock is taken it raises RuntimeError and nothing happens.
Start(c, r, m, cap, resume) ==
    /\ proc[c].pc = "idle"
    /\ LockFree(c)
    /\ ~resume => manifest[r] = None
    /\ proc' = [proc EXCEPT ![c] =
                  [@ EXCEPT !.pc = "open", !.inv = [run |-> r, manifest |-> m,
                                                    cap |-> cap, resume |-> resume]]]
    /\ UNCHANGED <<durable, remote, crashes>>

\* The process ends, by returning, raising or dying: flock and memory are gone.
Leave(c) ==
    /\ lock' = IF lock = c THEN Nobody ELSE lock
    /\ proc' = [proc EXCEPT ![c] = Idle]

\* A slip: the manifest of a resumed run is read but not compared.
AnyManifest(i) == ~i.resume \/ manifest[i.run] # None

ManifestMatches(i) == ~i.resume \/ manifest[i.run] = i.manifest

\* create_run, or the manifest check of a resumed run.
OpenRun(c) ==
    LET i == proc[c].inv IN
    /\ proc[c].pc = "open"
    /\ ManifestMatches(i)
    /\ manifest' = [manifest EXCEPT ![i.run] = IF i.resume THEN @ ELSE i.manifest]
    /\ proc' = [proc EXCEPT ![c].pc = "load"]
    /\ UNCHANGED <<lock, attempts, journal, lessons, report, remote, crashes>>

\* The run does not exist, was created under another campaign or scheduler, or
\* its ledger is not well formed.
Refuse(c) ==
    LET i == proc[c].inv IN
    /\ proc[c].pc \in {"open", "load"}
    /\ IF proc[c].pc = "open" THEN ~ManifestMatches(i) ELSE Rejects(i.run, i.manifest)
    /\ Leave(c)
    /\ UNCHANGED <<durable, remote, crashes>>

\* list_attempts, its checks, and the pending attempts of reconcile.
Load(c) ==
    LET i == proc[c].inv IN
    /\ proc[c].pc = "load"
    /\ ~Rejects(i.run, i.manifest)
    /\ proc' = [proc EXCEPT ![c] =
                  [@ EXCEPT !.pc = "next", !.mem = AttemptsOf(i.run),
                            !.pend = IF i.resume THEN Pending(i.run) ELSE {}]]
    /\ UNCHANGED <<lock, durable, remote, crashes>>

-----------------------------------------------------------------------------
(* Choosing what to execute *)

\* append_lifecycle_event: a file that exists already is left as it is.
OnLifecycle(s, n, kind, sel) ==
    journal' = IF \E e \in Events(s) : e.n = n /\ e.kind = kind THEN journal
               ELSE journal \union {[run |-> s.run, id |-> s.id, n |-> n,
                                     kind |-> kind, sel |-> sel]}

\* A slip: the numbering of lifecycle events starts over when an attempt is recovered.
FirstNumber(s, n) == n = 1

LastNumber(s, n) == /\ \E e \in Events(s) : e.n = n
                    /\ \A e \in Events(s) : e.n <= n

\* A slip: the cap is compared after the attempt was counted.
BelowCapacity(c) == proc[c].done + 1 < proc[c].inv.cap

HasCapacity(c) == proc[c].done < proc[c].inv.cap

\* The sequences the loop over the budget still has to fill.
Free(c) == 1..Budget(proc[c].inv.manifest) \ Sequences(proc[c].mem)

\* _reconcile_incomplete_attempts: the pending attempt of least sequence is
\* executed again under its own id; with remote state its worker re-attaches.
Recover(c) ==
    /\ proc[c].pc = "next"
    /\ HasCapacity(c)
    /\ \E s \in proc[c].pend, last \in {e.n : e \in journal} :
          /\ \A t \in proc[c].pend : s.seq <= t.seq
          /\ LastNumber(s, last)
          /\ OnLifecycle(s, last + 1, "attempt_recovery_started", None)
          /\ proc' = [proc EXCEPT ![c] =
                [@ EXCEPT !.pc = IF HasRemoteState(s) THEN "running" ELSE "execute",
                          !.pend = proc[c].pend \ {s}, !.cur = s, !.n = last + 1,
                          !.cache = Cached(c)]]
    /\ UNCHANGED <<lock, manifest, attempts, lessons, report, remote, crashes>>

\* A slip: attempts without a contract are not counted.
CompletedAttempts(c) == {a \in proc[c].mem : a.outcome # "failed"}

SeenByScheduler(c) == proc[c].mem

\* The scheduler's decision, as journaled; only the managed policy retrieves lessons.
SelectionOf(c, q, id, t) ==
    LET i == proc[c].inv IN
    [run |-> i.run, id |-> id, seq |-> q, task |-> t,
     lessons |-> IF i.manifest.scheduler = "managed" THEN FindLessons(t, Cached(c)) ELSE {}]

\* The loop over the budget: scheduler.choose, then the selection is journaled.
Choose(c) ==
    LET i == proc[c].inv IN
    /\ proc[c].pc = "next"
    /\ proc[c].pend = {} /\ HasCapacity(c)
    /\ \E q \in Free(c), id \in AttemptId, t \in Tasks(i.manifest) :
          LET s == SelectionOf(c, q, id, t)
          IN  /\ \A p \in Free(c) : q <= p
              /\ \A e \in journal : e.id # id
              /\ IsChoice(i.manifest.scheduler, t, Tasks(i.manifest), SeenByScheduler(c))
              /\ OnLifecycle(s, 1, "attempt_selected", s)
              /\ proc' = [proc EXCEPT ![c] =
                    [@ EXCEPT !.pc = "execute", !.cur = s, !.n = 1,
                              !.cache = Cached(c)]]
    /\ UNCHANGED <<lock, manifest, attempts, lessons, report, remote, crashes>>

\* The cap is reached or the budget is spent: the report is written.
Finish(c) ==
    LET r == proc[c].inv.run IN
    /\ proc[c].pc = "next"
    /\ ~HasCapacity(c) \/ (proc[c].pend = {} /\ Free(c) = {})
    /\ report' = [report EXCEPT ![r] = {a.id : a \in proc[c].mem}]
    /\ Leave(c)
    /\ UNCHANGED <<manifest, attempts, journal, lessons, remote, crashes>>

-----------------------------------------------------------------------------
(* The worker, as the runner sees it *)

\* An event of the attempt in hand, and the step of the process it belongs to.
Journaling(c, kind, pc) ==
    /\ OnLifecycle(proc[c].cur, proc[c].n + 1, kind, None)
    /\ proc' = [proc EXCEPT ![c] = [@ EXCEPT !.pc = pc, !.n = proc[c].n + 1]]

\* worker.execute: the capacity gate passed and the worker starts.
Execute(c) ==
    /\ proc[c].pc = "execute"
    /\ Journaling(c, "worker_started", IF RemoteWorker THEN "launch" ELSE "running")
    /\ UNCHANGED <<lock, manifest, attempts, lessons, report, remote, crashes>>

\* client.start_conversation: the platform creates a conversation.
Launch(c) ==
    LET id == proc[c].cur.id IN
    /\ proc[c].pc = "launch"
    /\ launches' = [launches EXCEPT ![id] = @ + 1]
    /\ answer' = [answer EXCEPT ![id] = None]
    /\ proc' = [proc EXCEPT ![c].pc = "launched"]
    /\ UNCHANGED <<lock, durable, crashes>>

JournalLaunch(c) ==
    /\ proc[c].pc = "launched"
    /\ Journaling(c, "start_task_created", "running")
    /\ UNCHANGED <<lock, manifest, attempts, lessons, report, remote, crashes>>

\* The lessons rendered into the prompt: looked up again when the attempt is executed.
Given(c) == FindLessons(proc[c].cur.task, Cached(c)) \intersect proc[c].cur.lessons

\* The worker or the contract parser raises one of the exceptions that the
\* runner records as a failed attempt.  Any other exception is a Crash.
WorkerRaises(c) ==
    LET s == proc[c].cur IN
    /\ proc[c].pc \in {"execute", "launch", "launched", "running"}
    /\ OnLifecycle(s, proc[c].n + 1, "attempt_failed", None)
    /\ proc' = [proc EXCEPT ![c] =
          [@ EXCEPT !.pc = "append", !.n = proc[c].n + 1,
                    !.draft = [run |-> s.run, id |-> s.id, seq |-> s.seq, task |-> s.task,
                               retrieved |-> Given(c), outcome |-> "failed",
                               valid |-> FALSE, score |-> None, improved |-> FALSE,
                               promoted |-> None]]]
    /\ UNCHANGED <<lock, manifest, attempts, lessons, report, remote, crashes>>

\* A slip: a score that equals the best counts as an improvement.
NotWorse(score, t, records) == \A b \in ValidScores(t, records) : score <= b

\* prior_best is None or score < prior_best
Improves(score, t, records) == \A b \in ValidScores(t, records) : score < b

LessonExists(id) == \E l \in lessons : l.id = id

\* A slip: the process keeps the lessons it read first.
CacheAsLoaded(c, id) == Cached(c)

\* save_validated_lesson appends what it writes to the lessons in memory.
CacheAfter(c, id) == IF LessonExists(id) THEN Cached(c) ELSE Cached(c) \union {id}

Promotes(k, improved) == improved /\ k.lesson # None

\* The worker returns and the contract parses: the candidate is validated, a
\* lesson of an improving attempt is saved, the record is made.  The transcript
\* of a remote conversation says the same each time it is read.
WorkerReturns(c) ==
    LET s == proc[c].cur IN
    /\ proc[c].pc = "running"
    /\ \E k \in Contract :
         LET improved == k.valid /\ Improves(k.score, s.task, proc[c].mem)
             promotes == Promotes(k, improved)
             id == <<s.task, k.lesson>>
         IN
         /\ RemoteWorker => answer[s.id] \in {None, k}
         /\ answer' = IF RemoteWorker THEN [answer EXCEPT ![s.id] = k] ELSE answer
         /\ lessons' = IF promotes /\ ~LessonExists(id)
                       THEN lessons \union {[id |-> id, source |-> s.id]} ELSE lessons
         /\ proc' = [proc EXCEPT ![c] =
               [@ EXCEPT !.pc = "append",
                         !.cache = IF promotes THEN CacheAfter(c, id) ELSE proc[c].cache,
                         !.draft = [run |-> s.run, id |-> s.id, seq |-> s.seq,
                                    task |-> s.task, retrieved |-> s.lessons,
                                    outcome |-> IF k.status = "done" THEN "completed"
                                                                     ELSE "blocked",
                                    valid |-> k.valid, score |-> k.score,
                                    improved |-> improved,
                                    promoted |-> IF promotes THEN id ELSE None]]]
    /\ UNCHANGED <<lock, manifest, attempts, journal, report, launches, crashes>>

-----------------------------------------------------------------------------
(* Recording *)

\* append_attempt never overwrites a record.
AppendAttempt(c) ==
    /\ proc[c].pc = "append"
    /\ ~Recorded(proc[c].draft.id)
    /\ attempts' = attempts \union {proc[c].draft}
    /\ proc' = [proc EXCEPT ![c].pc = "mark"]
    /\ UNCHANGED <<lock, manifest, journal, lessons, report, remote, crashes>>

Remember(c) == proc[c].mem \union {proc[c].draft}

\* The attempt_recorded event; the loop then appends the record to its list.
MarkRecorded(c) ==
    /\ proc[c].pc = "mark"
    /\ OnLifecycle(proc[c].cur, proc[c].n + 1, "attempt_recorded", None)
    /\ proc' = [proc EXCEPT ![c] =
          [@ EXCEPT !.pc = "next", !.mem = Remember(c), !.done = proc[c].done + 1,
                    !.cur = None, !.n = 0, !.draft = None]]
    /\ UNCHANGED <<lock, manifest, attempts, lessons, report, remote, crashes>>

\* The process dies, or an exception that nobody handles ends the invocation.
Crash(c) ==
    /\ proc[c].pc # "idle"
    /\ crashes < MaxCrashes
    /\ crashes' = crashes + 1
    /\ Leave(c)
    /\ UNCHANGED <<durable, remote>>

-----------------------------------------------------------------------------
(* The specification *)

Invoke(c) ==
    \E r \in Run, m \in Manifest, cap \in Caps, resume \in BOOLEAN :
        Start(c, r, m, cap, resume)

Step(c) ==
    \/ OpenRun(c) \/ Refuse(c) \/ Load(c) \/ Recover(c) \/ Choose(c) \/ Finish(c)
    \/ Execute(c) \/ Launch(c) \/ JournalLaunch(c)
    \/ WorkerRaises(c) \/ WorkerReturns(c) \/ AppendAttempt(c) \/ MarkRecorded(c)

Next == \E c \in Controller : Invoke(c) \/ Step(c) \/ Crash(c)

Spec == Init /\ [][Next]_vars

\* A scheduled tick resumes run r under its own manifest.
Tick(r) ==
    /\ manifest[r] # None
    /\ \E c \in Controller, cap \in Caps : Start(c, r, manifest[r], cap, TRUE)

\* A process keeps running (workers time out), and the schedule keeps ticking
\* until a tick of each run finds the lock free.
FairSpec ==
    /\ Spec
    /\ \A c \in Controller : WF_vars(Step(c))
    /\ \A r \in Run : SF_vars(Tick(r))

-----------------------------------------------------------------------------
(* Properties *)

\* Types of all variables.
TypeOK ==
    /\ lock \in Controller \union {Nobody}
    /\ manifest \in [Run -> Manifest \union {None}]
    /\ attempts \subseteq Attempt
    /\ journal \subseteq Event
    /\ lessons \subseteq Lesson
    /\ report \in [Run -> SUBSET AttemptId]
    /\ proc \in [Controller -> Process]
    /\ launches \in [AttemptId -> Nat]
    /\ answer \in [AttemptId -> Contract \union {None}]
    /\ crashes \in Nat

\* README.md:140 "A second controller is rejected rather than allowed to race":
\* only the holder of the lock is past Start.
OneController == \A c \in Controller : proc[c].pc # "idle" => lock = c

\* However controllers crash and resume, the recorded sequences of a run are
\* 1..n without a gap or a repetition, within the budget of its manifest.
RecordedPrefix ==
    \A a \in attempts :
        /\ a.seq <= Budget(manifest[a.run])
        /\ \A q \in 1..a.seq : \E b \in AttemptsOf(a.run) : b.seq = q
        /\ \A b \in AttemptsOf(a.run) : b.seq = a.seq => b = a

Incomplete(r) == {s \in Selections : s.run = r /\ \A a \in attempts : a.id # s.id}

\* At most one attempt of a run is incomplete, and its sequence is after all the
\* recorded ones: the journal never holds two attempts racing for a slot.
IncompleteIsNext ==
    \A r \in Run : \A s \in Incomplete(r) :
        /\ \A a \in AttemptsOf(r) : a.seq < s.seq
        /\ \A t \in Incomplete(r) : t = s

\* No crash leaves a ledger that a later resume refuses with a ValueError.
ResumeNeverRejected ==
    \A r \in Run : manifest[r] # None => ~Rejects(r, manifest[r])

\* The list of attempts in memory, by which tasks and sequences are chosen and
\* improvements judged, is what the store holds.
MemoryIsCurrent ==
    \A c \in Controller :
        proc[c].pc \in ({"next"} \union Working) \ {"mark"} =>
            proc[c].mem = AttemptsOf(proc[c].inv.run)

\* The lessons in memory are the saved ones while an attempt executes.
CacheIsCurrent ==
    \A c \in Controller :
        proc[c].pc \in Working => proc[c].cache = {l.id : l \in lessons}

\* The events of an attempt are numbered 1..k, each number once, across all the
\* processes that worked on it: no event is lost to an existing file.
JournalIsDense ==
    \A s \in Selections :
        {e.n : e \in Events(s)} = 1..Cardinality(Events(s))

\* Recovered or not, the attempts of a campaign spread evenly over its tasks.
BalancedCoverage ==
    \A r \in Run : manifest[r] # None =>
        \A t, u \in Tasks(manifest[r]) :
            Count(t, AttemptsOf(r)) <= Count(u, AttemptsOf(r)) + 1

\* An attempt marked improved beats every valid score of earlier sequences of
\* its task, and a valid attempt not so marked does not.
ImprovedBeatsAllBefore ==
    \A a \in attempts : a.valid =>
        (a.improved <=> \A b \in attempts :
            b.run = a.run /\ b.task = a.task /\ b.seq < a.seq /\ b.valid => a.score < b.score)

\* docs/controller-deployment-patterns.md:222 restart after a journaled start
\* task re-attaches: no further conversation is created for the attempt.
NoLaunchAfterJournal ==
    [][\A e \in journal : e.kind = "start_task_created" =>
          launches'[e.id] = launches[e.id]]_vars

\* Every opened run is completed: its whole budget is recorded.
Complete(r) ==
    manifest[r] # None /\ Sequences(AttemptsOf(r)) = 1..Budget(manifest[r])
RunCompletes == \A r \in Run : (manifest[r] # None) ~> Complete(r)

\* The ledger that the files stand for.
ClaimOf(x) == [run |-> x.run, id |-> x.id, seq |-> x.seq, task |-> x.task]
Claims == {ClaimOf(s) : s \in Selections}
Results == {[claim |-> ClaimOf(a), outcome |-> a.outcome, score |-> a.score] : a \in attempts}

Ledger == INSTANCE ResearchLedger WITH claims <- Claims, results <- Results

\* The store implements the ledger: runs are opened once, claims are made in
\* order and one at a time, each is settled by one result that never changes.
ImplementsLedger == Ledger!Spec

-----------------------------------------------------------------------------
(* The inductive invariant *)

\* Only idle controllers lack an invocation; only the worker's steps have an
\* attempt in hand, and only the last two a record.
Parts(p) ==
    /\ p.pc # "idle" => p.inv \in Invocation
    /\ p.pc \in Working => p.cur \in Selection
    /\ p.pc \in {"append", "mark"} => p.draft \in Attempt

HasParts == \A c \in Controller : Parts(proc[c])

Typed == TypeOK /\ HasParts

\* Every event belongs to an attempt whose selection was journaled.
JournalInv ==
    /\ \A e \in journal : e.kind = "attempt_selected" => e.sel.id = e.id /\ e.sel.run = e.run
    /\ \A e \in journal : \E s \in Selections : s.id = e.id /\ s.run = e.run

\* Selections fill the sequences of a run in order, each after the previous
\* one was recorded.
SelectionInv ==
    /\ \A s, t \in Selections :
          /\ s.id = t.id => s = t
          /\ s.run = t.run /\ s.seq = t.seq => s = t
          /\ s.run = t.run /\ s.seq < t.seq => Recorded(s.id)
    /\ \A s \in Selections : \A q \in 1..(s.seq - 1) :
          \E t \in Selections : t.run = s.run /\ t.seq = q
    /\ \A s \in Selections :
          /\ manifest[s.run] # None
          /\ s.seq <= Budget(manifest[s.run])
          /\ s.task \in Tasks(manifest[s.run])

\* Every record settles the selection of its id.
AttemptInv ==
    /\ \A a \in attempts : \E s \in Selections : ClaimOf(a) = ClaimOf(s)
    /\ \A a, b \in attempts : a.id = b.id => a = b

StoreInv == JournalInv /\ SelectionInv /\ AttemptInv

\* Only a completed attempt has a score.
WellScored(a) == a.score # None => a.outcome = "completed"

\* What a process knows of the store at each of its steps.
Position(p) ==
    /\ p.pc = "open" /\ ~p.inv.resume => manifest[p.inv.run] = None
    /\ p.pc \notin {"idle", "open"} => manifest[p.inv.run] = p.inv.manifest
    /\ p.pc = "load" /\ ~p.inv.resume => \A s \in Selections : s.run # p.inv.run
    /\ p.pc = "next" => p.mem = AttemptsOf(p.inv.run) /\ p.pend = Pending(p.inv.run)
    /\ p.pc \in Working =>
          /\ p.cur \in Selections /\ p.cur.run = p.inv.run /\ p.pend = {}
          /\ \A s \in Selections : s.run = p.inv.run /\ s # p.cur => Recorded(s.id)
    /\ p.pc \in Working \ {"mark"} => p.mem = AttemptsOf(p.inv.run) /\ ~Recorded(p.cur.id)
    /\ p.pc \in {"append", "mark"} => ClaimOf(p.draft) = ClaimOf(p.cur) /\ WellScored(p.draft)
    /\ p.pc = "mark" => /\ p.draft \in attempts
                        /\ AttemptsOf(p.inv.run) = p.mem \union {p.draft}

\* Only the holder of the lock is past Start.
ProcessInv == \A c \in Controller : (proc[c].pc # "idle" => lock = c) /\ Position(proc[c])

IInv == Typed /\ StoreInv /\ ProcessInv
=============================================================================
