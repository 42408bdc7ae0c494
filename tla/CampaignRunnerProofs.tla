------------------------ MODULE CampaignRunnerProofs ------------------------
(***************************************************************************)
(* The safety of the ledger that CampaignRunner keeps, for every set of    *)
(* controllers, runs, tasks and campaigns and any number of crashes: type  *)
(* correctness, the inductive invariant, the properties that follow from   *)
(* it, and the refinement of ResearchLedger.                               *)
(***************************************************************************)
EXTENDS CampaignRunner, TLAPS

-----------------------------------------------------------------------------
(* Types *)

\* Appending a typed event keeps the journal typed.
LEMMA OnLifecycleType ==
    ASSUME journal \subseteq Event,
           NEW s, s.run \in Run, s.id \in AttemptId,
           NEW n \in Nat, NEW kind, NEW sel,
           \/ kind = "attempt_selected" /\ sel \in Selection
           \/ kind \in Kind /\ sel = None,
           OnLifecycle(s, n, kind, sel)
    PROVE  journal' \subseteq Event
BY DEF OnLifecycle, Event

\* The lessons a process has in memory are lesson ids.
LEMMA CachedType ==
    ASSUME TypeOK, NEW c \in Controller
    PROVE  Cached(c) \in SUBSET LessonId
BY DEF TypeOK, Cached, Process, Lesson

LEMMA FindLessonsType ==
    ASSUME NEW t, NEW ids
    PROVE  FindLessons(t, ids) \subseteq ids
BY DEF FindLessons

\* One process moves to a typed state, the others stay where they are.
LEMMA ProcessMoves ==
    ASSUME Typed, NEW c \in Controller,
           \E p \in Process : Parts(p) /\ proc' = [proc EXCEPT ![c] = p]
    PROVE  proc' \in [Controller -> Process] /\ HasParts'
BY DEF Typed, TypeOK, HasParts

\* Leaving the store is such a move.
LEMMA LeaveType ==
    ASSUME Typed, NEW c \in Controller, Leave(c)
    PROVE  proc' \in [Controller -> Process] /\ HasParts' /\ lock' \in Controller \union {Nobody}
<1>1. Idle \in Process /\ Parts(Idle)
    BY DEF Idle, Process, Parts, Working
<1>2. proc' \in [Controller -> Process] /\ HasParts'
    BY <1>1, ProcessMoves DEF Leave
<1> QED
    BY <1>2 DEF Leave, Typed, TypeOK

LEMMA InitTyped == Init => Typed
<1> SUFFICES ASSUME Init PROVE Typed
    OBVIOUS
<1>1. Idle \in Process /\ Parts(Idle)
    BY DEF Idle, Process, Parts, Working
<1> QED
    BY <1>1 DEF Init, Typed, TypeOK, HasParts

LEMMA StartTyped ==
    ASSUME Typed, NEW c \in Controller, NEW r \in Run, NEW m \in Manifest,
           NEW cap \in Caps, NEW resume \in BOOLEAN, Start(c, r, m, cap, resume)
    PROVE  Typed'
<1> DEFINE i == [run |-> r, manifest |-> m, cap |-> cap, resume |-> resume]
           p == [proc[c] EXCEPT !.pc = "open", !.inv = i]
<1>1. i \in Invocation
    BY DEF Invocation
<1>2. p \in Process /\ Parts(p)
    BY <1>1 DEF Typed, TypeOK, Process, Parts, Working
<1>3. proc' \in [Controller -> Process] /\ HasParts'
    BY <1>2, ProcessMoves DEF Start
<1> QED
    BY <1>3 DEF Typed, TypeOK, Start, LockFree, durable, remote

LEMMA OpenRunTyped ==
    ASSUME Typed, NEW c \in Controller, OpenRun(c)
    PROVE  Typed'
<1> DEFINE p == [proc[c] EXCEPT !.pc = "load"]
<1>1. proc[c] \in Process /\ Parts(proc[c]) /\ proc[c].inv \in Invocation
    BY DEF Typed, TypeOK, HasParts, Parts, OpenRun
<1>2. p \in Process /\ Parts(p)
    BY <1>1 DEF OpenRun, Process, Parts, Working
<1>3. proc' \in [Controller -> Process] /\ HasParts'
    BY <1>2, ProcessMoves DEF OpenRun
<1>4. manifest' \in [Run -> Manifest \union {None}]
    BY <1>1 DEF OpenRun, Typed, TypeOK, Invocation
<1> QED
    BY <1>3, <1>4 DEF Typed, TypeOK, OpenRun, remote

LEMMA RefuseTyped ==
    ASSUME Typed, NEW c \in Controller, Refuse(c)
    PROVE  Typed'
<1>1. Leave(c)
    BY DEF Refuse
<1> QED
    BY <1>1, LeaveType DEF Typed, TypeOK, Refuse, durable, remote

LEMMA CrashTyped ==
    ASSUME Typed, NEW c \in Controller, Crash(c)
    PROVE  Typed'
<1>1. Leave(c)
    BY DEF Crash
<1> QED
    BY <1>1, LeaveType DEF Typed, TypeOK, Crash, durable, remote

LEMMA SelectionsType ==
    ASSUME TypeOK
    PROVE  Selections \subseteq Selection
BY DEF TypeOK, Selections, Event, Kind

LEMMA FinishTyped ==
    ASSUME Typed, NEW c \in Controller, Finish(c)
    PROVE  Typed'
<1>1. Leave(c)
    BY DEF Finish
<1>2. {a.id : a \in proc[c].mem} \subseteq AttemptId
    BY DEF Typed, TypeOK, Process, Attempt
<1>3. report' \in [Run -> SUBSET AttemptId]
    BY <1>2 DEF Finish, Typed, TypeOK
<1> QED
    BY <1>1, <1>3, LeaveType DEF Typed, TypeOK, Finish, remote

\* A worker's event keeps the types, whatever step it leads to.
LEMMA JournalingType ==
    ASSUME Typed, NEW c \in Controller, proc[c].pc \in {"execute", "launched"},
           NEW kind \in Kind, NEW to \in {"launch", "running"}, Journaling(c, kind, to)
    PROVE  journal' \subseteq Event /\ proc' \in [Controller -> Process] /\ HasParts'
<1> DEFINE p == [proc[c] EXCEPT !.pc = to, !.n = proc[c].n + 1]
<1>1. proc[c] \in Process /\ Parts(proc[c]) /\ proc[c].cur \in Selection
    BY DEF Typed, TypeOK, HasParts, Parts, Working
<1>2. proc[c].n + 1 \in Nat /\ proc[c].inv \in Invocation
    BY <1>1 DEF Process, Parts
<1>3. p \in Process /\ Parts(p)
    <2>1. p \in Process
        BY <1>1, <1>2 DEF Process, Working
    <2> QED
        BY <1>1, <1>2, <2>1 DEF Process, Parts
<1>4. proc' \in [Controller -> Process] /\ HasParts'
    BY <1>3, ProcessMoves DEF Journaling
<1>5. journal' \subseteq Event
    <2>1. proc[c].cur.run \in Run /\ proc[c].cur.id \in AttemptId
        BY <1>1 DEF Selection
    <2>2. OnLifecycle(proc[c].cur, proc[c].n + 1, kind, None) /\ journal \subseteq Event
        BY DEF Journaling, Typed, TypeOK
    <2> QED
        BY <1>2, <2>1, <2>2, OnLifecycleType
<1> QED
    BY <1>4, <1>5

LEMMA ExecuteTyped ==
    ASSUME Typed, NEW c \in Controller, Execute(c)
    PROVE  Typed'
<1>1. "worker_started" \in Kind
    BY DEF Kind
<1>2. journal' \subseteq Event /\ proc' \in [Controller -> Process] /\ HasParts'
    BY <1>1, JournalingType DEF Execute
<1> QED
    BY <1>2 DEF Typed, TypeOK, Execute, remote

LEMMA JournalLaunchTyped ==
    ASSUME Typed, NEW c \in Controller, JournalLaunch(c)
    PROVE  Typed'
<1>1. "start_task_created" \in Kind
    BY DEF Kind
<1>2. journal' \subseteq Event /\ proc' \in [Controller -> Process] /\ HasParts'
    BY <1>1, JournalingType DEF JournalLaunch
<1> QED
    BY <1>2 DEF Typed, TypeOK, JournalLaunch, remote

LEMMA LaunchTyped ==
    ASSUME Typed, NEW c \in Controller, Launch(c)
    PROVE  Typed'
<1> DEFINE p == [proc[c] EXCEPT !.pc = "launched"]
<1>1. proc[c] \in Process /\ Parts(proc[c]) /\ proc[c].cur \in Selection
    BY DEF Typed, TypeOK, HasParts, Parts, Working, Launch
<1>2. p \in Process /\ Parts(p)
    BY <1>1 DEF Launch, Process, Parts, Working
<1>3. proc' \in [Controller -> Process] /\ HasParts'
    BY <1>2, ProcessMoves DEF Launch
<1>4. launches' \in [AttemptId -> Nat] /\ answer' \in [AttemptId -> Contract \union {None}]
    BY <1>1 DEF Launch, Typed, TypeOK, Selection
<1> QED
    BY <1>3, <1>4 DEF Typed, TypeOK, Launch, durable

LEMMA AppendAttemptTyped ==
    ASSUME Typed, NEW c \in Controller, AppendAttempt(c)
    PROVE  Typed'
<1> DEFINE p == [proc[c] EXCEPT !.pc = "mark"]
<1>1. proc[c] \in Process /\ Parts(proc[c]) /\ proc[c].draft \in Attempt
    BY DEF Typed, TypeOK, HasParts, Parts, AppendAttempt
<1>2. p \in Process /\ Parts(p)
    BY <1>1 DEF AppendAttempt, Process, Parts, Working
<1>3. proc' \in [Controller -> Process] /\ HasParts'
    BY <1>2, ProcessMoves DEF AppendAttempt
<1> QED
    BY <1>1, <1>3 DEF Typed, TypeOK, AppendAttempt, remote

LEMMA MarkRecordedTyped ==
    ASSUME Typed, NEW c \in Controller, MarkRecorded(c)
    PROVE  Typed'
<1> DEFINE p == [proc[c] EXCEPT !.pc = "next", !.mem = Remember(c), !.done = proc[c].done + 1,
                                !.cur = None, !.n = 0, !.draft = None]
<1>1. /\ proc[c] \in Process /\ Parts(proc[c])
      /\ proc[c].draft \in Attempt /\ proc[c].cur \in Selection
    BY DEF Typed, TypeOK, HasParts, Parts, MarkRecorded, Working
<1>2. Remember(c) \subseteq Attempt
    BY <1>1 DEF Remember, Process
<1>3. p \in Process /\ Parts(p)
    <2>1. proc[c].done + 1 \in Nat /\ proc[c].inv \in Invocation
        BY <1>1 DEF MarkRecorded, Process, Parts
    <2>2. p \in Process
        BY <1>1, <1>2, <2>1 DEF Process
    <2> QED
        BY <2>1, <2>2 DEF Process, Parts, Working
<1>4. proc' \in [Controller -> Process] /\ HasParts'
    BY <1>3, ProcessMoves DEF MarkRecorded
<1>5. journal' \subseteq Event
    <2>1. "attempt_recorded" \in Kind
        BY DEF Kind
    <2>2. proc[c].n + 1 \in Nat
        BY <1>1 DEF Process
    <2> QED
        BY <1>1, <2>1, <2>2, OnLifecycleType DEF MarkRecorded, Selection, Typed, TypeOK
<1> QED
    BY <1>4, <1>5 DEF Typed, TypeOK, MarkRecorded, remote

LEMMA WorkerRaisesTyped ==
    ASSUME Typed, NEW c \in Controller, WorkerRaises(c)
    PROVE  Typed'
<1> DEFINE s == proc[c].cur
           d == [run |-> s.run, id |-> s.id, seq |-> s.seq, task |-> s.task,
                 retrieved |-> Given(c), outcome |-> "failed", valid |-> FALSE,
                 score |-> None, improved |-> FALSE, promoted |-> None]
           p == [proc[c] EXCEPT !.pc = "append", !.n = proc[c].n + 1, !.draft = d]
<1>1. proc[c] \in Process /\ Parts(proc[c]) /\ s \in Selection
    BY DEF Typed, TypeOK, HasParts, Parts, WorkerRaises, Working
<1>2. Given(c) \subseteq LessonId
    <2>1. s.lessons \in SUBSET LessonId
        BY <1>1 DEF Selection
    <2> QED
        BY <2>1 DEF Given
<1>3. d \in Attempt
    BY <1>1, <1>2 DEF Selection, Attempt
<1>4. p \in Process /\ Parts(p)
    <2>1. proc[c].n + 1 \in Nat /\ proc[c].inv \in Invocation
        BY <1>1 DEF WorkerRaises, Process, Parts
    <2>2. p \in Process
        BY <1>1, <1>3, <2>1 DEF Process, Working
    <2> QED
        BY <1>1, <1>3, <2>1, <2>2 DEF Process, Parts
<1>5. proc' \in [Controller -> Process] /\ HasParts'
    BY <1>4, ProcessMoves DEF WorkerRaises
<1>6. journal' \subseteq Event
    <2>1. "attempt_failed" \in Kind
        BY DEF Kind
    <2>2. proc[c].n + 1 \in Nat
        BY <1>1 DEF Process
    <2> QED
        BY <1>1, <2>1, <2>2, OnLifecycleType DEF WorkerRaises, Selection, Typed, TypeOK
<1> QED
    BY <1>5, <1>6 DEF Typed, TypeOK, WorkerRaises, remote

LEMMA LoadTyped ==
    ASSUME Typed, NEW c \in Controller, Load(c)
    PROVE  Typed'
<1> DEFINE i == proc[c].inv
           pending == IF i.resume THEN Pending(i.run) ELSE {}
           p == [proc[c] EXCEPT !.pc = "next", !.mem = AttemptsOf(i.run), !.pend = pending]
<1>1. proc[c] \in Process /\ Parts(proc[c])
    BY DEF Typed, TypeOK, HasParts
<1>2. AttemptsOf(i.run) \subseteq Attempt
    BY DEF AttemptsOf, Typed, TypeOK
<1>3. pending \subseteq Selection
    BY SelectionsType DEF Pending, Typed
<1>4. p \in Process /\ Parts(p)
    <2>1. p \in Process
        BY <1>1, <1>2, <1>3 DEF Process
    <2> QED
        BY <1>1, <2>1 DEF Load, Process, Parts, Working
<1>5. proc' \in [Controller -> Process] /\ HasParts'
    BY <1>4, ProcessMoves DEF Load
<1> QED
    BY <1>5 DEF Typed, TypeOK, Load, durable, remote

LEMMA RecoverTyped ==
    ASSUME Typed, NEW c \in Controller, Recover(c)
    PROVE  Typed'
<1>1. proc[c] \in Process /\ Parts(proc[c]) /\ proc[c].inv \in Invocation
    BY DEF Typed, TypeOK, HasParts, Parts, Recover
<1>2. PICK s \in proc[c].pend, last \in {e.n : e \in journal} :
          /\ OnLifecycle(s, last + 1, "attempt_recovery_started", None)
          /\ proc' = [proc EXCEPT ![c] =
                [proc[c] EXCEPT !.pc = IF HasRemoteState(s) THEN "running" ELSE "execute",
                          !.pend = proc[c].pend \ {s}, !.cur = s, !.n = last + 1,
                          !.cache = Cached(c)]]
    BY DEF Recover
<1> DEFINE p == [proc[c] EXCEPT !.pc = IF HasRemoteState(s) THEN "running" ELSE "execute",
                          !.pend = proc[c].pend \ {s}, !.cur = s, !.n = last + 1,
                          !.cache = Cached(c)]
<1>3. s \in Selection /\ last + 1 \in Nat
    BY <1>1 DEF Process, Typed, TypeOK, Event
<1>4. Cached(c) \in SUBSET LessonId
    BY CachedType DEF Typed
<1>5. p \in Process /\ Parts(p)
    <2>1. p \in Process
        BY <1>1, <1>3, <1>4 DEF Process, Working
    <2> QED
        BY <1>1, <1>3, <2>1 DEF Process, Parts
<1>6. proc' \in [Controller -> Process] /\ HasParts'
    BY <1>2, <1>5, ProcessMoves
<1>7. journal' \subseteq Event
    <2>1. "attempt_recovery_started" \in Kind
        BY DEF Kind
    <2>2. s.run \in Run /\ s.id \in AttemptId /\ journal \subseteq Event
        BY <1>3 DEF Selection, Typed, TypeOK
    <2> QED
        BY <1>2, <1>3, <2>1, <2>2, OnLifecycleType
<1> QED
    BY <1>6, <1>7 DEF Typed, TypeOK, Recover, remote

\* The selection that a controller makes of its run, sequence, id and task.
LEMMA SelectionOfType ==
    ASSUME Typed, NEW c \in Controller, proc[c].inv \in Invocation, NEW q \in Free(c),
           NEW id \in AttemptId, NEW t \in Tasks(proc[c].inv.manifest)
    PROVE  SelectionOf(c, q, id, t) \in Selection
<1> DEFINE i == proc[c].inv
<1>1. i.run \in Run /\ i.manifest.campaign \in Campaign
    BY DEF Invocation, Manifest
<1>2. q \in Nat \ {0} /\ t \in Task
    BY <1>1, BudgetAssumption, TasksAssumption DEF Free, Budget, Tasks
<1>3. FindLessons(t, Cached(c)) \in SUBSET LessonId
    BY CachedType, FindLessonsType DEF Typed
<1> QED
    BY <1>1, <1>2, <1>3 DEF SelectionOf, Selection

LEMMA ChooseTyped ==
    ASSUME Typed, NEW c \in Controller, Choose(c)
    PROVE  Typed'
<1> DEFINE i == proc[c].inv
<1>1. proc[c] \in Process /\ Parts(proc[c]) /\ i \in Invocation
    BY DEF Typed, TypeOK, HasParts, Parts, Choose
<1>2. PICK q \in Free(c), id \in AttemptId, t \in Tasks(i.manifest) :
          /\ OnLifecycle(SelectionOf(c, q, id, t), 1, "attempt_selected", SelectionOf(c, q, id, t))
          /\ proc' = [proc EXCEPT ![c] =
                [proc[c] EXCEPT !.pc = "execute", !.cur = SelectionOf(c, q, id, t), !.n = 1,
                                !.cache = Cached(c)]]
    BY DEF Choose
<1> DEFINE s == SelectionOf(c, q, id, t)
           p == [proc[c] EXCEPT !.pc = "execute", !.cur = s, !.n = 1, !.cache = Cached(c)]
<1>3. Cached(c) \in SUBSET LessonId
    BY CachedType DEF Typed
<1>4. s \in Selection
    BY <1>1, SelectionOfType
<1>5. p \in Process /\ Parts(p)
    <2>1. p \in Process
        BY <1>1, <1>3, <1>4 DEF Process, Working
    <2> QED
        BY <1>1, <1>4, <2>1 DEF Process, Parts
<1>6. proc' \in [Controller -> Process] /\ HasParts'
    BY <1>2, <1>5, ProcessMoves
<1>7. journal' \subseteq Event
    <2>1. s.run \in Run /\ s.id \in AttemptId /\ journal \subseteq Event
        BY <1>4 DEF Selection, Typed, TypeOK
    <2> QED
        BY <1>2, <1>4, <2>1, OnLifecycleType
<1> QED
    BY <1>6, <1>7 DEF Typed, TypeOK, Choose, remote

\* The record that WorkerReturns makes of contract k, and the lessons in memory.
Improved(c, k) == k.valid /\ Improves(k.score, proc[c].cur.task, proc[c].mem)
IdOf(c, k) == <<proc[c].cur.task, k.lesson>>
Saves(c, k) == Promotes(k, Improved(c, k))

DraftOf(c, k) ==
    LET s == proc[c].cur IN
    [run |-> s.run, id |-> s.id, seq |-> s.seq, task |-> s.task, retrieved |-> s.lessons,
     outcome |-> IF k.status = "done" THEN "completed" ELSE "blocked",
     valid |-> k.valid, score |-> k.score, improved |-> Improved(c, k),
     promoted |-> IF Saves(c, k) THEN IdOf(c, k) ELSE None]

CacheOf(c, k) == IF Saves(c, k) THEN CacheAfter(c, IdOf(c, k)) ELSE proc[c].cache

Returned(c, k) ==
    [proc[c] EXCEPT !.pc = "append", !.cache = CacheOf(c, k), !.draft = DraftOf(c, k)]

LEMMA ReturnedWith ==
    ASSUME NEW c \in Controller, WorkerReturns(c)
    PROVE  \E k \in Contract :
              /\ RemoteWorker => answer[proc[c].cur.id] \in {None, k}
              /\ answer' = IF RemoteWorker THEN [answer EXCEPT ![proc[c].cur.id] = k] ELSE answer
              /\ lessons' = IF Saves(c, k) /\ ~LessonExists(IdOf(c, k))
                            THEN lessons \union {[id |-> IdOf(c, k), source |-> proc[c].cur.id]}
                            ELSE lessons
              /\ proc' = [proc EXCEPT ![c] = Returned(c, k)]
BY DEF WorkerReturns, Improved, IdOf, Saves, DraftOf, CacheOf, Returned

LEMMA WorkerReturnsTyped ==
    ASSUME Typed, NEW c \in Controller, WorkerReturns(c)
    PROVE  Typed'
<1> DEFINE s == proc[c].cur
<1>1. /\ proc[c] \in Process /\ Parts(proc[c])
      /\ proc[c].inv \in Invocation /\ s \in Selection
    BY DEF Typed, TypeOK, HasParts, Parts, WorkerReturns, Working
<1>2. PICK k \in Contract :
          /\ answer' = IF RemoteWorker THEN [answer EXCEPT ![s.id] = k] ELSE answer
          /\ lessons' = IF Saves(c, k) /\ ~LessonExists(IdOf(c, k))
                        THEN lessons \union {[id |-> IdOf(c, k), source |-> s.id]} ELSE lessons
          /\ proc' = [proc EXCEPT ![c] = Returned(c, k)]
    BY ReturnedWith
<1>3. /\ k.valid \in BOOLEAN /\ k.score \in Score \union {None}
      /\ k.lesson \in Statement \union {None}
    BY DEF Contract
<1>4. Saves(c, k) => IdOf(c, k) \in LessonId
    BY <1>1, <1>3 DEF Saves, Promotes, IdOf, LessonId, Selection
<1>5. DraftOf(c, k) \in Attempt
    <2>1. Improved(c, k) \in BOOLEAN
        BY <1>3, Zenon DEF Improved
    <2> QED
        BY <1>1, <1>3, <1>4, <2>1 DEF DraftOf, Selection, Attempt
<1>6. CacheOf(c, k) \in (SUBSET LessonId) \union {None}
    BY <1>1, <1>4, CachedType DEF CacheOf, CacheAfter, Process, Typed
<1>7. Returned(c, k) \in Process /\ Parts(Returned(c, k))
    <2>1. Returned(c, k) \in Process
        BY <1>1, <1>5, <1>6 DEF Returned, Process, Working
    <2> QED
        BY <1>1, <1>5, <2>1 DEF Returned, Process, Parts
<1>8. proc' \in [Controller -> Process] /\ HasParts'
    BY <1>2, <1>7, ProcessMoves
<1>9. lessons' \subseteq Lesson
    BY <1>1, <1>2, <1>4 DEF Lesson, Selection, Typed, TypeOK
<1>10. answer' \in [AttemptId -> Contract \union {None}]
    BY <1>1, <1>2 DEF Selection, Typed, TypeOK
<1> QED
    BY <1>8, <1>9, <1>10 DEF Typed, TypeOK, WorkerReturns

LEMMA StutterTyped == Typed /\ UNCHANGED vars => Typed'
BY DEF Typed, TypeOK, HasParts, Parts, vars, durable, remote

LEMMA NextTyped == Typed /\ [Next]_vars => Typed'
<1> SUFFICES ASSUME Typed, Next PROVE Typed'
    BY StutterTyped
<1>1. PICK c \in Controller : Invoke(c) \/ Step(c) \/ Crash(c)
    BY DEF Next
<1>2. CASE Invoke(c)
    BY <1>2, StartTyped DEF Invoke
<1>3. CASE Step(c)
    BY <1>3, OpenRunTyped, RefuseTyped, LoadTyped, RecoverTyped, ChooseTyped, FinishTyped,
       ExecuteTyped, LaunchTyped, JournalLaunchTyped, WorkerRaisesTyped,
       WorkerReturnsTyped, AppendAttemptTyped, MarkRecordedTyped DEF Step
<1>4. CASE Crash(c)
    BY <1>4, CrashTyped
<1> QED
    BY <1>1, <1>2, <1>3, <1>4

\* In every behavior all variables keep their types.
THEOREM TypeCorrect == Spec => []TypeOK
<1>1. Spec => []Typed
    BY InitTyped, NextTyped, PTL DEF Spec
<1>2. Typed => TypeOK
    BY DEF Typed
<1> QED
    BY <1>1, <1>2, PTL

-----------------------------------------------------------------------------
(* What the steps have in common *)

\* Only one process moves, and it holds the lock or finds it free.
LEMMA OneMover ==
    ASSUME Typed, ProcessInv, NEW c \in Controller, lock \in {c, Nobody},
           \A d \in Controller \ {c} : proc'[d] = proc[d],
           proc'[c].pc # "idle" => lock' = c,
           Position(proc[c])'
    PROVE  ProcessInv'
<1>1. ASSUME NEW d \in Controller \ {c}
      PROVE  proc[d].pc = "idle"
    BY NobodyAssumption DEF ProcessInv
<1>2. ASSUME NEW d \in Controller \ {c}
      PROVE  Position(proc[d])'
    <2>1. proc'[d].pc = "idle"
        BY <1>1
    <2> QED
        BY <2>1 DEF Position, Working
<1> QED
    BY <1>1, <1>2 DEF ProcessInv

\* A process that is past Start holds the lock.
LEMMA Holder ==
    ASSUME ProcessInv, NEW c \in Controller, proc[c].pc # "idle"
    PROVE  lock = c /\ Position(proc[c])
BY DEF ProcessInv

\* A process that leaves the store has no obligations left.
LEMMA LeaveKeeps ==
    ASSUME Typed, ProcessInv, NEW c \in Controller, proc[c].pc # "idle", Leave(c)
    PROVE  ProcessInv'
<1>1. proc'[c] = Idle /\ \A d \in Controller \ {c} : proc'[d] = proc[d]
    BY DEF Leave, Typed, TypeOK
<1>2. proc'[c].pc = "idle"
    BY <1>1 DEF Idle
<1>3. Position(proc[c])'
    BY <1>2 DEF Position, Working
<1> QED
    BY <1>1, <1>2, <1>3, Holder, OneMover

\* Steps that write neither a selection, a record nor a manifest.
LEMMA SameLedger ==
    ASSUME StoreInv, Selections' = Selections, JournalInv', UNCHANGED <<attempts, manifest>>
    PROVE  StoreInv'
<1>1. SelectionInv'
    BY DEF StoreInv, SelectionInv, Recorded
<1>2. AttemptInv'
    BY DEF StoreInv, AttemptInv
<1> QED
    BY <1>1, <1>2 DEF StoreInv

LEMMA SameJournal ==
    ASSUME StoreInv, UNCHANGED <<journal, attempts, manifest>>
    PROVE  StoreInv' /\ Selections' = Selections
<1>1. Selections' = Selections
    BY DEF Selections
<1>2. JournalInv'
    BY <1>1 DEF StoreInv, JournalInv
<1> QED
    BY <1>1, <1>2, SameLedger

\* An event other than a selection, about a selected attempt.
LEMMA EventKeeps ==
    ASSUME Typed, StoreInv, UNCHANGED <<attempts, manifest>>,
           NEW s \in Selections, NEW n \in Nat, NEW kind \in Kind, OnLifecycle(s, n, kind, None)
    PROVE  StoreInv' /\ Selections' = Selections
<1> DEFINE e == [run |-> s.run, id |-> s.id, n |-> n, kind |-> kind, sel |-> None]
<1>1. journal' = journal \/ journal' = journal \union {e}
    BY DEF OnLifecycle
<1>2. e.kind # "attempt_selected"
    BY DEF Kind
<1>3. Selections' = Selections
    BY <1>1, <1>2 DEF Selections
<1>4. JournalInv'
    BY <1>1, <1>2, <1>3 DEF StoreInv, JournalInv
<1> QED
    BY <1>3, <1>4, SameLedger

-----------------------------------------------------------------------------
(* The steps of a process *)

LEMMA StartSafe ==
    ASSUME IInv, NEW c \in Controller, NEW r \in Run, NEW m \in Manifest,
           NEW cap \in Caps, NEW resume \in BOOLEAN, Start(c, r, m, cap, resume)
    PROVE  StoreInv' /\ ProcessInv'
<1> USE DEF IInv
<1>1. StoreInv' /\ Selections' = Selections
    BY SameJournal DEF Start, durable
<1>2. /\ proc'[c].pc = "open"
      /\ proc'[c].inv.run = r /\ proc'[c].inv.resume = resume
      /\ \A d \in Controller \ {c} : proc'[d] = proc[d]
    BY DEF Start, Typed, TypeOK, Process
<1>3. lock = Nobody /\ lock' = c
    BY DEF Start, LockFree
<1>4. Position(proc[c])'
    BY <1>2 DEF Start, Position, Working, durable
<1> QED
    BY <1>1, <1>2, <1>3, <1>4, OneMover

LEMMA RefuseSafe ==
    ASSUME IInv, NEW c \in Controller, Refuse(c)
    PROVE  StoreInv' /\ ProcessInv'
<1>1. proc[c].pc # "idle" /\ Leave(c)
    BY DEF Refuse
<1> QED
    BY <1>1, LeaveKeeps, SameJournal DEF IInv, Refuse, durable

LEMMA CrashSafe ==
    ASSUME IInv, NEW c \in Controller, Crash(c)
    PROVE  StoreInv' /\ ProcessInv'
<1>1. proc[c].pc # "idle" /\ Leave(c)
    BY DEF Crash
<1> QED
    BY <1>1, LeaveKeeps, SameJournal DEF IInv, Crash, durable

LEMMA FinishSafe ==
    ASSUME IInv, NEW c \in Controller, Finish(c)
    PROVE  StoreInv' /\ ProcessInv'
<1>1. proc[c].pc # "idle" /\ Leave(c)
    BY DEF Finish
<1> QED
    BY <1>1, LeaveKeeps, SameJournal DEF IInv, Finish

\* Opening a run gives it a manifest only when it had none, so no selection's
\* manifest changes.
LEMMA OpenRunSafe ==
    ASSUME IInv, NEW c \in Controller, OpenRun(c)
    PROVE  StoreInv' /\ ProcessInv'
<1> DEFINE i == proc[c].inv
<1>1. i \in Invocation /\ lock = c /\ Position(proc[c])
    BY Holder DEF IInv, OpenRun, Typed, HasParts, Parts
<1>2. Selections' = Selections
    BY DEF OpenRun, Selections
<1>3. ~i.resume => \A s \in Selections : s.run # i.run
    BY <1>1 DEF OpenRun, Position, IInv, StoreInv, SelectionInv
<1>4. manifest' \in [Run -> Manifest \union {None}] /\ manifest'[i.run] = i.manifest
    BY <1>1 DEF OpenRun, ManifestMatches, IInv, Typed, TypeOK, Invocation
<1>5. \A s \in Selections : s.run \in Run /\ manifest'[s.run] = manifest[s.run]
    BY <1>1, <1>3, SelectionsType DEF OpenRun, Selection, IInv, Typed, TypeOK
<1>6. StoreInv'
    <2>1. JournalInv'
        BY <1>2 DEF OpenRun, IInv, StoreInv, JournalInv
    <2>2. SelectionInv'
        BY <1>2, <1>5 DEF OpenRun, IInv, StoreInv, SelectionInv, Recorded
    <2>3. AttemptInv'
        BY <1>2 DEF OpenRun, IInv, StoreInv, AttemptInv
    <2> QED
        BY <2>1, <2>2, <2>3 DEF StoreInv
<1>7. /\ proc'[c].pc = "load" /\ proc'[c].inv = i
      /\ \A d \in Controller \ {c} : proc'[d] = proc[d]
    BY DEF OpenRun, IInv, Typed, TypeOK, Process
<1>8. Position(proc[c])'
    BY <1>2, <1>3, <1>4, <1>7 DEF Position, Working
<1> QED
    BY <1>1, <1>6, <1>7, <1>8, OneMover DEF IInv, OpenRun

LEMMA LoadSafe ==
    ASSUME IInv, NEW c \in Controller, Load(c)
    PROVE  StoreInv' /\ ProcessInv'
<1> DEFINE i == proc[c].inv
<1>1. lock = c /\ Position(proc[c])
    BY Holder DEF IInv, Load
<1>2. StoreInv' /\ Selections' = Selections
    BY SameJournal DEF IInv, Load, durable
<1>3. /\ proc'[c].pc = "next" /\ proc'[c].inv = i
      /\ proc'[c].mem = AttemptsOf(i.run)
      /\ proc'[c].pend = IF i.resume THEN Pending(i.run) ELSE {}
      /\ \A d \in Controller \ {c} : proc'[d] = proc[d]
    BY DEF Load, IInv, Typed, TypeOK, Process
<1>4. proc'[c].pend = Pending(i.run)
    BY <1>1, <1>3 DEF Position, Load, Pending
<1>5. Pending(i.run)' = Pending(i.run) /\ AttemptsOf(i.run)' = AttemptsOf(i.run)
    BY <1>2, <1>3 DEF Pending, AttemptsOf, Recorded, Load, durable
<1>6. manifest'[i.run] = i.manifest
    BY <1>1 DEF Position, Load, durable
<1>7. Position(proc[c])'
    BY <1>3, <1>4, <1>5, <1>6 DEF Position, Working
<1> QED
    BY <1>1, <1>2, <1>3, <1>7, OneMover DEF IInv, Load

\* A worker's step that leaves the ledger alone and keeps the process where
\* the attempt in hand is not recorded.
LEMMA WorkerKeeps ==
    ASSUME IInv, NEW c \in Controller,
           proc[c].pc \in Working \ {"mark"}, proc'[c].pc \in Working \ {"mark"},
           proc'[c].inv = proc[c].inv, proc'[c].mem = proc[c].mem,
           proc'[c].pend = proc[c].pend, proc'[c].cur = proc[c].cur,
           proc'[c].pc = "append" => /\ ClaimOf(proc'[c].draft) = ClaimOf(proc[c].cur)
                                     /\ WellScored(proc'[c].draft),
           \A d \in Controller \ {c} : proc'[d] = proc[d],
           UNCHANGED <<lock, manifest, attempts>>, Selections' = Selections
    PROVE  ProcessInv'
<1>1. lock = c /\ Position(proc[c])
    BY Holder DEF IInv, Working
<1>2. AttemptsOf(proc[c].inv.run)' = AttemptsOf(proc'[c].inv.run)
    BY DEF AttemptsOf
<1>3. \A id : Recorded(id)' = Recorded(id)
    BY DEF Recorded
<1>4. Position(proc[c])'
    BY <1>1, <1>2, <1>3 DEF Position, Working, AttemptsOf
<1> QED
    BY <1>1, <1>4, OneMover DEF IInv

\* The attempt in hand is a journaled selection.
LEMMA InHand ==
    ASSUME IInv, NEW c \in Controller, proc[c].pc \in Working
    PROVE  /\ lock = c /\ Position(proc[c]) /\ proc[c].cur \in Selections
           /\ proc[c].n + 1 \in Nat
BY Holder DEF IInv, Typed, TypeOK, Process, Working, Position

\* An event of the attempt in hand leaves the ledger as it is.
LEMMA JournalingKeeps ==
    ASSUME IInv, NEW c \in Controller, proc[c].pc \in {"execute", "launched"},
           NEW kind \in Kind, NEW to \in {"launch", "running"}, Journaling(c, kind, to),
           UNCHANGED <<lock, manifest, attempts>>
    PROVE  StoreInv' /\ ProcessInv'
<1>1. StoreInv' /\ Selections' = Selections
    BY InHand, EventKeeps DEF IInv, Journaling, Working
<1>2. /\ proc'[c].pc = to /\ proc'[c].inv = proc[c].inv /\ proc'[c].mem = proc[c].mem
      /\ proc'[c].pend = proc[c].pend /\ proc'[c].cur = proc[c].cur
      /\ \A d \in Controller \ {c} : proc'[d] = proc[d]
    BY DEF Journaling, IInv, Typed, TypeOK, Process
<1>3. ProcessInv'
    BY <1>1, <1>2, WorkerKeeps DEF Working
<1> QED
    BY <1>1, <1>3

LEMMA ExecuteSafe ==
    ASSUME IInv, NEW c \in Controller, Execute(c)
    PROVE  StoreInv' /\ ProcessInv'
<1>1. "worker_started" \in Kind
    BY DEF Kind
<1> QED
    BY <1>1, JournalingKeeps DEF Execute

LEMMA JournalLaunchSafe ==
    ASSUME IInv, NEW c \in Controller, JournalLaunch(c)
    PROVE  StoreInv' /\ ProcessInv'
<1>1. "start_task_created" \in Kind
    BY DEF Kind
<1> QED
    BY <1>1, JournalingKeeps DEF JournalLaunch

LEMMA LaunchSafe ==
    ASSUME IInv, NEW c \in Controller, Launch(c)
    PROVE  StoreInv' /\ ProcessInv'
<1>1. StoreInv' /\ Selections' = Selections
    BY SameJournal DEF IInv, Launch, durable
<1>2. /\ proc'[c].pc = "launched" /\ proc'[c].inv = proc[c].inv /\ proc'[c].mem = proc[c].mem
      /\ proc'[c].pend = proc[c].pend /\ proc'[c].cur = proc[c].cur
      /\ \A d \in Controller \ {c} : proc'[d] = proc[d]
    BY DEF Launch, IInv, Typed, TypeOK, Process
<1>3. ProcessInv'
    BY <1>1, <1>2, WorkerKeeps DEF Working, Launch, durable
<1> QED
    BY <1>1, <1>3

LEMMA WorkerRaisesSafe ==
    ASSUME IInv, NEW c \in Controller, WorkerRaises(c)
    PROVE  StoreInv' /\ ProcessInv'
<1>1. "attempt_failed" \in Kind
    BY DEF Kind
<1>2. proc[c].pc \in Working \ {"mark"}
    BY DEF WorkerRaises, Working
<1>3. StoreInv' /\ Selections' = Selections
    BY <1>1, <1>2, InHand, EventKeeps DEF IInv, WorkerRaises
<1>4. /\ proc'[c].pc = "append" /\ proc'[c].inv = proc[c].inv /\ proc'[c].mem = proc[c].mem
      /\ proc'[c].pend = proc[c].pend /\ proc'[c].cur = proc[c].cur
      /\ \A d \in Controller \ {c} : proc'[d] = proc[d]
    BY DEF WorkerRaises, IInv, Typed, TypeOK, Process
<1>5. ClaimOf(proc'[c].draft) = ClaimOf(proc[c].cur) /\ WellScored(proc'[c].draft)
    BY DEF WorkerRaises, IInv, Typed, TypeOK, Process, ClaimOf, WellScored
<1>6. ProcessInv'
    BY <1>2, <1>3, <1>4, <1>5, WorkerKeeps DEF Working, WorkerRaises
<1> QED
    BY <1>3, <1>6

LEMMA WorkerReturnsSafe ==
    ASSUME IInv, NEW c \in Controller, WorkerReturns(c)
    PROVE  StoreInv' /\ ProcessInv'
<1>1. proc[c].pc \in Working \ {"mark"}
    BY DEF WorkerReturns, Working
<1>2. StoreInv' /\ Selections' = Selections
    BY SameJournal DEF IInv, WorkerReturns
<1>3. /\ proc'[c].pc = "append" /\ proc'[c].inv = proc[c].inv /\ proc'[c].mem = proc[c].mem
      /\ proc'[c].pend = proc[c].pend /\ proc'[c].cur = proc[c].cur
      /\ \A d \in Controller \ {c} : proc'[d] = proc[d]
    BY DEF WorkerReturns, IInv, Typed, TypeOK, Process
<1>4. ClaimOf(proc'[c].draft) = ClaimOf(proc[c].cur) /\ WellScored(proc'[c].draft)
    <2>1. PICK k \in Contract :
              /\ ClaimOf(proc'[c].draft) = ClaimOf(proc[c].cur)
              /\ proc'[c].draft.score = k.score
              /\ proc'[c].draft.outcome = IF k.status = "done" THEN "completed" ELSE "blocked"
        BY DEF WorkerReturns, IInv, Typed, TypeOK, Process, ClaimOf
    <2>2. k.score # None => k.status = "done"
        BY DEF Contract
    <2> QED
        BY <2>1, <2>2 DEF WellScored
<1>5. ProcessInv'
    BY <1>1, <1>2, <1>3, <1>4, WorkerKeeps DEF Working, WorkerReturns
<1> QED
    BY <1>2, <1>5

\* Recording settles the attempt in hand and nothing else.
LEMMA AppendAttemptSafe ==
    ASSUME IInv, NEW c \in Controller, AppendAttempt(c)
    PROVE  StoreInv' /\ ProcessInv'
<1> DEFINE d == proc[c].draft
           s == proc[c].cur
<1>1. /\ lock = c /\ Position(proc[c]) /\ s \in Selections /\ ClaimOf(d) = ClaimOf(s)
      /\ s.run = proc[c].inv.run
    BY InHand DEF AppendAttempt, Working, Position
<1>2. d.id = s.id /\ d.run = s.run
    BY <1>1 DEF ClaimOf
<1>3. Selections' = Selections
    BY DEF AppendAttempt, Selections
<1>4. \A id : Recorded(id) => Recorded(id)'
    BY DEF Recorded, AppendAttempt
<1>5. StoreInv'
    <2>1. JournalInv'
        BY <1>3 DEF AppendAttempt, IInv, StoreInv, JournalInv
    <2>2. SelectionInv'
        BY <1>3, <1>4 DEF AppendAttempt, IInv, StoreInv, SelectionInv
    <2>3. AttemptInv'
        BY <1>1, <1>3 DEF AppendAttempt, Recorded, IInv, StoreInv, AttemptInv
    <2> QED
        BY <2>1, <2>2, <2>3 DEF StoreInv
<1>6. /\ proc'[c].pc = "mark" /\ proc'[c].inv = proc[c].inv /\ proc'[c].mem = proc[c].mem
      /\ proc'[c].pend = proc[c].pend /\ proc'[c].cur = s /\ proc'[c].draft = d
      /\ \A e \in Controller \ {c} : proc'[e] = proc[e]
    BY DEF AppendAttempt, IInv, Typed, TypeOK, Process
<1>7. d \in attempts' /\ AttemptsOf(proc[c].inv.run)' = proc[c].mem \union {d}
    BY <1>1, <1>2, <1>6 DEF AppendAttempt, AttemptsOf, Position, Working
<1>8. Position(proc[c])'
    BY <1>1, <1>3, <1>4, <1>6, <1>7 DEF Position, Working, AppendAttempt
<1> QED
    BY <1>1, <1>5, <1>6, <1>8, OneMover DEF IInv, AppendAttempt

LEMMA MarkRecordedSafe ==
    ASSUME IInv, NEW c \in Controller, MarkRecorded(c)
    PROVE  StoreInv' /\ ProcessInv'
<1> DEFINE r == proc[c].inv.run
<1>1. /\ lock = c /\ Position(proc[c]) /\ proc[c].cur \in Selections
      /\ proc[c].n + 1 \in Nat
    BY InHand DEF MarkRecorded, Working
<1>2. "attempt_recorded" \in Kind
    BY DEF Kind
<1>3. StoreInv' /\ Selections' = Selections
    BY <1>1, <1>2, EventKeeps DEF IInv, MarkRecorded
<1>4. /\ proc'[c].pc = "next" /\ proc'[c].inv = proc[c].inv
      /\ proc'[c].mem = proc[c].mem \union {proc[c].draft}
      /\ proc'[c].pend = proc[c].pend
      /\ \A d \in Controller \ {c} : proc'[d] = proc[d]
    BY DEF MarkRecorded, Remember, IInv, Typed, TypeOK, Process
<1>5. AttemptsOf(r)' = proc'[c].mem
    BY <1>1, <1>4 DEF Position, MarkRecorded, AttemptsOf
<1>6. Pending(r)' = {}
    <2>1. \A s \in Selections : s.run = r => Recorded(s.id)
        BY <1>1 DEF Position, MarkRecorded, Working, ClaimOf, Recorded
    <2> QED
        BY <1>3, <1>4, <2>1 DEF Pending, Recorded, MarkRecorded
<1>7. Position(proc[c])'
    BY <1>1, <1>4, <1>5, <1>6 DEF Position, Working, MarkRecorded
<1> QED
    BY <1>1, <1>3, <1>4, <1>7, OneMover DEF IInv, MarkRecorded

\* At most one attempt of a run is pending, so recovering it leaves none.
LEMMA RecoverSafe ==
    ASSUME IInv, NEW c \in Controller, Recover(c)
    PROVE  StoreInv' /\ ProcessInv'
<1> DEFINE r == proc[c].inv.run
<1>1. lock = c /\ Position(proc[c])
    BY Holder DEF IInv, Recover
<1>2. proc[c].pend = Pending(r) /\ proc[c].mem = AttemptsOf(r) /\ manifest[r] = proc[c].inv.manifest
    BY <1>1 DEF Position, Recover
<1>3. PICK s \in proc[c].pend, last \in {e.n : e \in journal} :
          /\ OnLifecycle(s, last + 1, "attempt_recovery_started", None)
          /\ proc' = [proc EXCEPT ![c] =
                [proc[c] EXCEPT !.pc = IF HasRemoteState(s) THEN "running" ELSE "execute",
                          !.pend = proc[c].pend \ {s}, !.cur = s, !.n = last + 1,
                          !.cache = Cached(c)]]
    BY DEF Recover
<1>4. s \in Selections /\ s.run = r /\ ~Recorded(s.id) /\ last + 1 \in Nat
    BY <1>2, <1>3 DEF Pending, IInv, Typed, TypeOK, Event
<1>5. StoreInv' /\ Selections' = Selections
    <2>1. "attempt_recovery_started" \in Kind
        BY DEF Kind
    <2> QED
        BY <1>3, <1>4, <2>1, EventKeeps DEF IInv, Recover
<1>6. \A t \in Selections : t.run = r /\ t # s => Recorded(t.id)
    <2>1. SUFFICES ASSUME NEW t \in Selections, t.run = r, t # s
                   PROVE  Recorded(t.id)
        OBVIOUS
    <2>2. s.seq \in Nat /\ t.seq \in Nat
        BY <1>4, SelectionsType DEF IInv, Typed, Selection
    <2>3. t.seq < s.seq
        BY <1>4, <2>1, <2>2 DEF IInv, StoreInv, SelectionInv
    <2> QED
        BY <1>4, <2>1, <2>3 DEF IInv, StoreInv, SelectionInv
<1>7. proc[c].pend \ {s} = {}
    BY <1>2, <1>6 DEF Pending
<1>8. /\ proc'[c].pc \in {"running", "execute"} /\ proc'[c].inv = proc[c].inv
      /\ proc'[c].mem = proc[c].mem /\ proc'[c].pend = {} /\ proc'[c].cur = s
      /\ \A d \in Controller \ {c} : proc'[d] = proc[d]
    BY <1>3, <1>7 DEF IInv, Typed, TypeOK, Process
<1>9. Position(proc[c])'
    <2>1. \A id : Recorded(id)' = Recorded(id)
        BY DEF Recorded, Recover
    <2>2. AttemptsOf(r)' = AttemptsOf(r)
        BY <1>8 DEF AttemptsOf, Recover
    <2> QED
        BY <1>2, <1>4, <1>5, <1>6, <1>8, <2>1, <2>2 DEF Position, Working, Recover
<1> QED
    BY <1>1, <1>5, <1>8, <1>9, OneMover DEF IInv, Recover

\* What is known of a new selection s of run r.
NewSelection(c, r, s) ==
    /\ s \in Selection /\ s.run = r
    /\ s.task \in Tasks(manifest[r]) /\ s.seq <= Budget(manifest[r])
    /\ journal' = journal \union {[run |-> s.run, id |-> s.id, n |-> 1,
                                   kind |-> "attempt_selected", sel |-> s]}
    /\ Selections' = Selections \union {s}
    /\ ~Recorded(s.id)
    /\ \A u \in Selections : u.id # s.id
    /\ \A u \in Selections : u.run = r => Recorded(u.id) /\ u.seq < s.seq
    /\ \A p \in 1..(s.seq - 1) : \E u \in Selections : u.run = r /\ u.seq = p
    /\ proc' = [proc EXCEPT ![c] =
          [proc[c] EXCEPT !.pc = "execute", !.cur = s, !.n = 1, !.cache = Cached(c)]]

\* A new selection takes the first free sequence: every selection of the run is
\* recorded, so the free sequences start right after them.
LEMMA Chosen ==
    ASSUME IInv, NEW c \in Controller, Choose(c)
    PROVE  \E s : NewSelection(c, proc[c].inv.run, s)
<1> DEFINE i == proc[c].inv
           r == i.run
           m == i.manifest
<1>1. lock = c /\ Position(proc[c]) /\ i \in Invocation
    BY Holder DEF IInv, Choose, Typed, HasParts, Parts
<1>2. /\ proc[c].pend = {} /\ Pending(r) = {} /\ proc[c].mem = AttemptsOf(r)
      /\ manifest[r] = m /\ m \in Manifest
    BY <1>1 DEF Position, Choose, Invocation
<1>3. PICK q \in Free(c), id \in AttemptId, t \in Tasks(m) :
          /\ \A p \in Free(c) : q <= p
          /\ \A e \in journal : e.id # id
          /\ OnLifecycle(SelectionOf(c, q, id, t), 1, "attempt_selected", SelectionOf(c, q, id, t))
          /\ proc' = [proc EXCEPT ![c] =
                [proc[c] EXCEPT !.pc = "execute", !.cur = SelectionOf(c, q, id, t), !.n = 1,
                                !.cache = Cached(c)]]
    BY DEF Choose
<1> DEFINE s == SelectionOf(c, q, id, t)
           e0 == [run |-> s.run, id |-> s.id, n |-> 1, kind |-> "attempt_selected", sel |-> s]
<1>4. s \in Selection /\ s.run = r /\ s.id = id /\ s.seq = q /\ s.task = t
    BY <1>1, SelectionOfType DEF SelectionOf, IInv
<1> HIDE DEF s
<1>5. journal' = journal \union {e0}
    BY <1>3, <1>4 DEF OnLifecycle, Events, s
<1>6. Selections' = Selections \union {s}
    <2>1. e0.kind = "attempt_selected" /\ e0.sel = s
        OBVIOUS
    <2> HIDE DEF e0
    <2>2. \A x : x \in Selections' <=> x \in Selections \/ x = s
        BY <1>5, <2>1 DEF Selections
    <2> QED
        BY <2>2
<1>7. /\ \A u \in Selections : u.id # id
      /\ ~Recorded(id)
    <2>1. \A u \in Selections : u.id # id
        BY <1>3 DEF IInv, StoreInv, JournalInv, Selections
    <2> QED
        BY <2>1 DEF IInv, StoreInv, AttemptInv, Recorded, ClaimOf
<1>8. \A u \in Selections : u.run = r => Recorded(u.id)
    BY <1>2 DEF Pending
<1>9. \A u \in Selections : u.run = r => u.seq \in Sequences(proc[c].mem)
    <2>1. SUFFICES ASSUME NEW u \in Selections, u.run = r
                   PROVE  u.seq \in Sequences(proc[c].mem)
        OBVIOUS
    <2>2. PICK a \in attempts : a.id = u.id
        BY <1>8, <2>1 DEF Recorded
    <2>3. PICK v \in Selections : ClaimOf(a) = ClaimOf(v)
        BY DEF IInv, StoreInv, AttemptInv
    <2>4. v = u
        BY <2>2, <2>3 DEF ClaimOf, IInv, StoreInv, SelectionInv
    <2> QED
        BY <1>2, <2>1, <2>3, <2>4 DEF ClaimOf, AttemptsOf, Sequences
<1>10. \A p \in Sequences(proc[c].mem) : \E u \in Selections : u.run = r /\ u.seq = p
    <2>1. SUFFICES ASSUME NEW a \in attempts, a.run = r
                   PROVE  \E u \in Selections : u.run = r /\ u.seq = a.seq
        BY <1>2 DEF Sequences, AttemptsOf
    <2>2. PICK u \in Selections : ClaimOf(a) = ClaimOf(u)
        BY DEF IInv, StoreInv, AttemptInv
    <2> QED
        BY <2>1, <2>2 DEF ClaimOf
<1>11. /\ q \in Nat /\ 1 <= q /\ q <= Budget(m) /\ q \notin Sequences(proc[c].mem)
       /\ Budget(m) \in Nat
    BY <1>2, BudgetAssumption DEF Free, Budget, Manifest
<1>12. \A p \in 1..(q - 1) : p \in Sequences(proc[c].mem)
    BY <1>3, <1>11 DEF Free
<1>13. \A u \in Selections : u.run = r => u.seq < q
    <2>1. SUFFICES ASSUME NEW u \in Selections, u.run = r, ~(u.seq < q)
                   PROVE  FALSE
        OBVIOUS
    <2>2. u.seq \in Nat
        BY SelectionsType DEF IInv, Typed, Selection
    <2>3. u.seq # q
        BY <1>9, <1>11, <2>1
    <2>4. q \in 1..(u.seq - 1)
        BY <1>11, <2>1, <2>2, <2>3
    <2>5. PICK v \in Selections : v.run = r /\ v.seq = q
        BY <2>1, <2>4 DEF IInv, StoreInv, SelectionInv
    <2> QED
        BY <1>9, <1>11, <2>5
<1>14. \A p \in 1..(q - 1) : \E u \in Selections : u.run = r /\ u.seq = p
    BY <1>10, <1>12
<1>15. proc' = [proc EXCEPT ![c] =
           [proc[c] EXCEPT !.pc = "execute", !.cur = s, !.n = 1, !.cache = Cached(c)]]
    BY <1>3 DEF s
<1>16. NewSelection(c, r, s)
    BY <1>2, <1>4, <1>5, <1>6, <1>7, <1>8, <1>11, <1>13, <1>14, <1>15 DEF NewSelection
<1> QED
    BY <1>16

LEMMA ChooseSafe ==
    ASSUME IInv, NEW c \in Controller, Choose(c)
    PROVE  StoreInv' /\ ProcessInv'
<1> DEFINE i == proc[c].inv
           r == i.run
<1>1. lock = c /\ Position(proc[c])
    BY Holder DEF IInv, Choose
<1>2. /\ proc[c].pend = {} /\ proc[c].mem = AttemptsOf(r)
      /\ manifest[r] = i.manifest /\ i.manifest \in Manifest
    BY <1>1 DEF Position, Choose, Invocation, IInv, Typed, HasParts, Parts
<1>3. PICK s : NewSelection(c, r, s)
    BY Chosen
<1>4. UNCHANGED <<attempts, manifest, lock>> /\ \A x : Recorded(x)' = Recorded(x)
    BY DEF Choose, Recorded
<1>5. StoreInv'
    <2>1. JournalInv'
        BY <1>3 DEF NewSelection, IInv, StoreInv, JournalInv
    <2>2. \A u, v \in Selections' :
              /\ u.id = v.id => u = v
              /\ u.run = v.run /\ u.seq = v.seq => u = v
              /\ u.run = v.run /\ u.seq < v.seq => Recorded(u.id)
        <3>1. s.seq \in Nat /\ \A u \in Selections : u.run = r => u.seq \in Nat
            BY <1>3, SelectionsType DEF NewSelection, IInv, Typed, Selection
        <3> QED
            BY <1>3, <3>1 DEF NewSelection, IInv, StoreInv, SelectionInv
    <2>3. \A u \in Selections' : \A p \in 1..(u.seq - 1) :
              \E v \in Selections' : v.run = u.run /\ v.seq = p
        BY <1>3 DEF NewSelection, IInv, StoreInv, SelectionInv
    <2>4. \A u \in Selections' :
              /\ manifest[u.run] # None
              /\ u.seq <= Budget(manifest[u.run])
              /\ u.task \in Tasks(manifest[u.run])
        BY <1>2, <1>3, NoneAssumption DEF NewSelection, IInv, StoreInv, SelectionInv
    <2>5. SelectionInv'
        BY <1>4, <2>2, <2>3, <2>4 DEF SelectionInv
    <2>6. AttemptInv'
        BY <1>3, <1>4 DEF NewSelection, IInv, StoreInv, AttemptInv
    <2> QED
        BY <2>1, <2>5, <2>6 DEF StoreInv
<1>6. /\ proc'[c].pc = "execute" /\ proc'[c].inv = i /\ proc'[c].mem = proc[c].mem
      /\ proc'[c].pend = {} /\ proc'[c].cur = s
      /\ \A d \in Controller \ {c} : proc'[d] = proc[d]
    BY <1>2, <1>3 DEF NewSelection, IInv, Typed, TypeOK, Process
<1>7. Position(proc[c])'
    <2>1. AttemptsOf(r)' = AttemptsOf(r)
        BY <1>4, <1>6 DEF AttemptsOf
    <2> QED
        BY <1>2, <1>3, <1>4, <1>6, <2>1 DEF NewSelection, Position, Working
<1> QED
    BY <1>1, <1>4, <1>5, <1>6, <1>7, OneMover DEF IInv

-----------------------------------------------------------------------------
(* The invariant, and what follows from it *)

LEMMA InitInv == Init => IInv
<1> SUFFICES ASSUME Init PROVE IInv
    OBVIOUS
<1>1. Selections = {}
    BY DEF Init, Selections
<1>2. StoreInv
    BY <1>1 DEF Init, StoreInv, JournalInv, SelectionInv, AttemptInv
<1>3. ProcessInv
    BY DEF Init, Idle, ProcessInv, Position, Working
<1> QED
    BY <1>2, <1>3, InitTyped DEF IInv

LEMMA NextInv == IInv /\ [Next]_vars => IInv'
<1> SUFFICES ASSUME IInv, [Next]_vars PROVE IInv'
    OBVIOUS
<1>1. Typed'
    BY NextTyped DEF IInv
<1>2. CASE UNCHANGED vars
    <2>1. StoreInv' /\ Selections' = Selections
        BY <1>2, SameJournal DEF IInv, vars, durable
    <2>2. ProcessInv'
        BY <1>2, <2>1 DEF IInv, vars, durable, ProcessInv, Position, Recorded, Pending, AttemptsOf
    <2> QED
        BY <1>1, <2>1, <2>2 DEF IInv
<1>3. ASSUME NEW c \in Controller, Invoke(c) \/ Step(c) \/ Crash(c)
      PROVE  IInv'
    <2>1. CASE Invoke(c)
        BY <1>1, <2>1, StartSafe DEF Invoke, IInv
    <2>2. CASE Step(c)
        BY <1>1, <2>2, OpenRunSafe, RefuseSafe, LoadSafe, RecoverSafe, ChooseSafe, FinishSafe,
           ExecuteSafe, LaunchSafe, JournalLaunchSafe, WorkerRaisesSafe,
           WorkerReturnsSafe, AppendAttemptSafe, MarkRecordedSafe DEF Step, IInv
    <2>3. CASE Crash(c)
        BY <1>1, <2>3, CrashSafe DEF IInv
    <2> QED
        BY <1>3, <2>1, <2>2, <2>3
<1> QED
    BY <1>2, <1>3 DEF Next

\* The inductive invariant holds in every reachable state.
THEOREM Inductive == Spec => []IInv
BY InitInv, NextInv, PTL DEF Spec

\* Two controllers are never past the lock together, crashes included.
THEOREM MutualExclusion == Spec => []OneController
<1>1. IInv => OneController
    BY DEF IInv, ProcessInv, OneController
<1> QED
    BY <1>1, Inductive, PTL

\* The attempts in memory are never stale while they are decided upon.
THEOREM NeverStale == Spec => []MemoryIsCurrent
<1>1. IInv => MemoryIsCurrent
    BY DEF IInv, ProcessInv, Position, MemoryIsCurrent, Working
<1> QED
    BY <1>1, Inductive, PTL

\* A record and a selection of one run and sequence are one attempt.
LEMMA RecordOfSelection ==
    ASSUME IInv, NEW a \in attempts, NEW s \in Selections, a.run = s.run, a.seq = s.seq
    PROVE  a.id = s.id
<1>1. PICK t \in Selections : ClaimOf(a) = ClaimOf(t)
    BY DEF IInv, StoreInv, AttemptInv
<1>2. t = s
    BY <1>1 DEF ClaimOf, IInv, StoreInv, SelectionInv
<1> QED
    BY <1>1, <1>2 DEF ClaimOf

\* The recorded sequences of a run have no gap and no repetition and keep
\* within the budget, whatever crashed and whoever resumed.
THEOREM LedgerIsPrefix == Spec => []RecordedPrefix
<1>1. IInv => RecordedPrefix
    <2> SUFFICES ASSUME IInv, NEW a \in attempts
                 PROVE  /\ a.seq <= Budget(manifest[a.run])
                        /\ \A q \in 1..a.seq : \E b \in AttemptsOf(a.run) : b.seq = q
                        /\ \A b \in AttemptsOf(a.run) : b.seq = a.seq => b = a
        BY DEF RecordedPrefix
    <2>1. PICK s \in Selections : ClaimOf(a) = ClaimOf(s)
        BY DEF IInv, StoreInv, AttemptInv
    <2>2. a.id = s.id /\ a.run = s.run /\ a.seq = s.seq /\ s.seq \in Nat
        BY <2>1, SelectionsType DEF ClaimOf, IInv, Typed, Selection
    <2>3. a.seq <= Budget(manifest[a.run])
        BY <2>2 DEF IInv, StoreInv, SelectionInv
    <2>4. ASSUME NEW q \in 1..a.seq
          PROVE  \E b \in AttemptsOf(a.run) : b.seq = q
        <3>1. CASE q = a.seq
            BY <3>1 DEF AttemptsOf
        <3>2. CASE q # a.seq
            <4>1. q \in 1..(s.seq - 1) /\ q < s.seq
                BY <2>2, <3>2
            <4>2. PICK t \in Selections : t.run = s.run /\ t.seq = q
                BY <4>1 DEF IInv, StoreInv, SelectionInv
            <4>3. PICK b \in attempts : b.id = t.id
                BY <4>1, <4>2 DEF IInv, StoreInv, SelectionInv, Recorded
            <4>4. PICK u \in Selections : ClaimOf(b) = ClaimOf(u)
                BY DEF IInv, StoreInv, AttemptInv
            <4>5. u = t
                BY <4>3, <4>4 DEF ClaimOf, IInv, StoreInv, SelectionInv
            <4> QED
                BY <2>2, <4>2, <4>4, <4>5 DEF ClaimOf, AttemptsOf
        <3> QED
            BY <3>1, <3>2
    <2>5. ASSUME NEW b \in AttemptsOf(a.run), b.seq = a.seq
          PROVE  b = a
        <3>1. b.id = s.id
            BY <2>2, <2>5, RecordOfSelection DEF AttemptsOf
        <3> QED
            BY <2>2, <3>1 DEF AttemptsOf, IInv, StoreInv, AttemptInv
    <2> QED
        BY <2>3, <2>4, <2>5
<1> QED
    BY <1>1, Inductive, PTL

\* No crash leaves two incomplete attempts, or one behind a recorded sequence.
THEOREM OneIncomplete == Spec => []IncompleteIsNext
<1>1. IInv => IncompleteIsNext
    <2> SUFFICES ASSUME IInv, NEW r \in Run, NEW s \in Incomplete(r)
                 PROVE  /\ \A a \in AttemptsOf(r) : a.seq < s.seq
                        /\ \A t \in Incomplete(r) : t = s
        BY DEF IncompleteIsNext
    <2>1. s \in Selections /\ s.run = r /\ ~Recorded(s.id) /\ s.seq \in Nat
        BY SelectionsType DEF Incomplete, Recorded, IInv, Typed, Selection
    <2>2. ASSUME NEW a \in AttemptsOf(r)
          PROVE  a.seq < s.seq
        <3>1. PICK t \in Selections : ClaimOf(a) = ClaimOf(t)
            BY DEF AttemptsOf, IInv, StoreInv, AttemptInv
        <3>2. t.run = r /\ t.seq = a.seq /\ t.id = a.id /\ t.seq \in Nat /\ Recorded(t.id)
            BY <3>1, SelectionsType DEF ClaimOf, AttemptsOf, Recorded, IInv, Typed, Selection
        <3>3. t.seq # s.seq /\ ~(s.seq < t.seq)
            BY <2>1, <3>2 DEF IInv, StoreInv, SelectionInv
        <3> QED
            BY <2>1, <3>2, <3>3
    <2>3. ASSUME NEW t \in Incomplete(r)
          PROVE  t = s
        <3>1. t \in Selections /\ t.run = r /\ ~Recorded(t.id) /\ t.seq \in Nat
            BY SelectionsType DEF Incomplete, Recorded, IInv, Typed, Selection
        <3>2. ~(t.seq < s.seq) /\ ~(s.seq < t.seq)
            BY <2>1, <3>1 DEF IInv, StoreInv, SelectionInv
        <3> QED
            BY <2>1, <3>1, <3>2 DEF IInv, StoreInv, SelectionInv
    <2> QED
        BY <2>2, <2>3
<1> QED
    BY <1>1, Inductive, PTL

\* The checks with which a resume refuses a ledger never fire on a ledger the
\* controllers wrote, so no crash makes a run unresumable.
THEOREM AlwaysResumable == Spec => []ResumeNeverRejected
<1>1. IInv => ResumeNeverRejected
    <2> SUFFICES ASSUME IInv, NEW r \in Run, manifest[r] # None, Rejects(r, manifest[r])
                 PROVE  FALSE
        BY DEF ResumeNeverRejected
    <2>1. ASSUME NEW a \in attempts
          PROVE  \E s \in Selections : /\ a.id = s.id /\ a.run = s.run /\ a.seq = s.seq
                                       /\ s.seq \in Nat \ {0}
        BY SelectionsType DEF ClaimOf, IInv, Typed, StoreInv, AttemptInv, Selection
    <2>2. ASSUME NEW a \in AttemptsOf(r), NEW b \in AttemptsOf(r), a.seq = b.seq
          PROVE  a = b
        <3>1. PICK s \in Selections : a.id = s.id /\ a.run = s.run /\ a.seq = s.seq
            BY <2>1 DEF AttemptsOf
        <3>2. b.id = s.id
            BY <2>2, <3>1, RecordOfSelection DEF AttemptsOf
        <3> QED
            BY <3>1, <3>2 DEF AttemptsOf, IInv, StoreInv, AttemptInv
    <2>3. ASSUME NEW a \in AttemptsOf(r)
          PROVE  a.seq \in 1..Budget(manifest[r])
        <3>1. PICK s \in Selections : /\ a.run = s.run /\ a.seq = s.seq
                                      /\ s.seq \in Nat \ {0}
            BY <2>1 DEF AttemptsOf
        <3>2. s.seq <= Budget(manifest[s.run]) /\ s.run = r
            BY <3>1 DEF AttemptsOf, IInv, StoreInv, SelectionInv
        <3>3. Budget(manifest[r]) \in Nat
            BY BudgetAssumption DEF Budget, Manifest, IInv, Typed, TypeOK
        <3> QED
            BY <3>1, <3>2, <3>3
    <2>4. \A e \in journal : e.run = r => \E s \in Selections : s.id = e.id
        BY DEF IInv, StoreInv, JournalInv
    <2>5. ASSUME NEW s \in Pending(r)
          PROVE  s.task \in Tasks(manifest[r]) /\ s.seq \notin Sequences(AttemptsOf(r))
        <3>1. s \in Selections /\ s.run = r /\ ~Recorded(s.id)
            BY DEF Pending
        <3>2. \A a \in AttemptsOf(r) : a.seq # s.seq
            BY <3>1, RecordOfSelection DEF AttemptsOf, Recorded
        <3> QED
            BY <3>1, <3>2 DEF Sequences, IInv, StoreInv, SelectionInv
    <2>6. \A s, t \in Pending(r) : s.seq = t.seq => s = t
        BY DEF Pending, IInv, StoreInv, SelectionInv
    <2> QED
        BY <2>2, <2>3, <2>4, <2>5, <2>6 DEF Rejects
<1> QED
    BY <1>1, Inductive, PTL
-----------------------------------------------------------------------------
(* The refinement of ResearchLedger *)

\* The claims are a function of the selections, the results of the records.
LEMMA LedgerStutters ==
    ASSUME Selections' = Selections, UNCHANGED <<attempts, manifest>>
    PROVE  UNCHANGED Ledger!ledger
BY DEF Ledger!ledger, Claims, Results

\* A claim is settled in the ledger when its attempt is recorded.
LEMMA SettledIsRecorded ==
    ASSUME IInv, NEW s \in Selections
    PROVE  Ledger!Settled(ClaimOf(s)) <=> Recorded(s.id)
<1>1. ASSUME Recorded(s.id)
      PROVE  Ledger!Settled(ClaimOf(s))
    <2>1. PICK a \in attempts : a.id = s.id
        BY <1>1 DEF Recorded
    <2>2. PICK t \in Selections : ClaimOf(a) = ClaimOf(t)
        BY DEF IInv, StoreInv, AttemptInv
    <2>3. t = s
        BY <2>1, <2>2 DEF ClaimOf, IInv, StoreInv, SelectionInv
    <2>4. [claim |-> ClaimOf(a), outcome |-> a.outcome, score |-> a.score] \in Results
        BY DEF Results
    <2> QED
        BY <2>2, <2>3, <2>4 DEF Ledger!Settled
<1>2. ASSUME Ledger!Settled(ClaimOf(s))
      PROVE  Recorded(s.id)
    BY <1>2 DEF Ledger!Settled, Results, Recorded, ClaimOf
<1> QED
    BY <1>1, <1>2

LEMMA OpenRunOpens ==
    ASSUME IInv, NEW c \in Controller, OpenRun(c)
    PROVE  [Ledger!Next]_Ledger!ledger
<1> DEFINE i == proc[c].inv
<1>1. i \in Invocation /\ Position(proc[c])
    BY Holder DEF IInv, OpenRun, Typed, HasParts, Parts
<1>2. Claims' = Claims /\ Results' = Results
    BY DEF OpenRun, Claims, Results, Selections
<1>3. CASE i.resume
    <2>1. manifest' = manifest
        BY <1>1, <1>3 DEF OpenRun, IInv, Typed, TypeOK
    <2> QED
        BY <1>2, <2>1 DEF Ledger!ledger
<1>4. CASE ~i.resume
    <2>1. i.run \in Run /\ i.manifest \in Manifest
        BY <1>1 DEF Invocation
    <2>2. manifest[i.run] = None
        BY <1>1, <1>4 DEF OpenRun, Position
    <2>3. manifest' = [manifest EXCEPT ![i.run] = i.manifest]
        BY <1>4 DEF OpenRun
    <2>4. Ledger!Open(i.run, i.manifest)
        BY <1>2, <2>2, <2>3 DEF Ledger!Open
    <2> QED
        BY <2>1, <2>4 DEF Ledger!Next, Ledger!Manifest, Manifest
<1> QED
    BY <1>3, <1>4

LEMMA AppendSettles ==
    ASSUME IInv, NEW c \in Controller, AppendAttempt(c)
    PROVE  [Ledger!Next]_Ledger!ledger
<1> DEFINE d == proc[c].draft
           s == proc[c].cur
<1>1. Position(proc[c]) /\ s \in Selections /\ d \in Attempt
    BY InHand DEF AppendAttempt, Working, IInv, Typed, HasParts, Parts
<1>2. ClaimOf(d) = ClaimOf(s) /\ WellScored(d) /\ ~Recorded(s.id)
    BY <1>1 DEF AppendAttempt, Position, Working
<1>3. ClaimOf(d) \in Claims /\ ~Ledger!Settled(ClaimOf(d))
    BY <1>1, <1>2, SettledIsRecorded DEF Claims
<1>4. d.outcome \in Ledger!Outcome /\ d.score \in Score \union {None}
    BY <1>1 DEF Attempt, Ledger!Outcome
<1>5. Claims' = Claims /\ manifest' = manifest
    BY DEF AppendAttempt, Claims, Selections
<1>6. Results' = Results \union {[claim |-> ClaimOf(d), outcome |-> d.outcome, score |-> d.score]}
    BY DEF AppendAttempt, Results
<1>7. Ledger!Settle(ClaimOf(d), d.outcome, d.score)
    BY <1>2, <1>3, <1>5, <1>6 DEF Ledger!Settle, Ledger!Unsettled, WellScored
<1> QED
    BY <1>3, <1>4, <1>7 DEF Ledger!Next
\* The next selection is a claim of the next sequence, with all others settled.
LEMMA ChooseClaims ==
    ASSUME IInv, NEW c \in Controller, Choose(c)
    PROVE  [Ledger!Next]_Ledger!ledger
<1> DEFINE r == proc[c].inv.run
<1>1. PICK s : NewSelection(c, r, s)
    BY Chosen
<1>2. /\ r \in Run /\ s.id \in AttemptId /\ s.task \in Task /\ s.seq \in Nat \ {0}
      /\ manifest[r] \in Manifest
    <2>1. Position(proc[c]) /\ proc[c].inv \in Invocation
        BY Holder DEF IInv, Choose, Typed, HasParts, Parts
    <2>2. s \in Selection
        BY <1>1 DEF NewSelection
    <2> QED
        BY <2>1, <2>2 DEF Position, Choose, Invocation, Selection
<1>3. /\ manifest[r] # None
      /\ s.task \in TasksOf[manifest[r].campaign]
      /\ s.seq \in 1..BudgetOf[manifest[r].campaign]
    <2>1. BudgetOf[manifest[r].campaign] \in Nat
        BY <1>2, BudgetAssumption DEF Manifest
    <2> QED
        BY <1>1, <1>2, <2>1, NoneAssumption DEF NewSelection, Tasks, Budget
<1>4. \A x \in Claims : x.id # s.id
    BY <1>1 DEF NewSelection, Claims, ClaimOf
<1>5. {x.seq : x \in Ledger!ClaimsOf(r)} = 1..(s.seq - 1)
    <2>1. ASSUME NEW x \in Ledger!ClaimsOf(r)
          PROVE  x.seq \in 1..(s.seq - 1)
        <3>1. PICK u \in Selections : u.run = r /\ u.seq = x.seq
            BY DEF Ledger!ClaimsOf, Claims, ClaimOf
        <3>2. u.seq \in Nat \ {0} /\ u.seq < s.seq
            BY <1>1, <3>1, SelectionsType DEF NewSelection, IInv, Typed, Selection
        <3> QED
            BY <1>2, <3>1, <3>2
    <2>2. ASSUME NEW p \in 1..(s.seq - 1)
          PROVE  \E x \in Ledger!ClaimsOf(r) : x.seq = p
        <3>1. PICK u \in Selections : u.run = r /\ u.seq = p
            BY <1>1 DEF NewSelection
        <3>2. ClaimOf(u) \in Claims /\ ClaimOf(u).run = r /\ ClaimOf(u).seq = p
            BY <3>1 DEF Claims, ClaimOf
        <3> QED
            BY <3>2 DEF Ledger!ClaimsOf
    <2> QED
        BY <2>1, <2>2
<1>6. \A x \in Ledger!ClaimsOf(r) : Ledger!Settled(x)
    <2>1. SUFFICES ASSUME NEW u \in Selections, u.run = r
                   PROVE  Ledger!Settled(ClaimOf(u))
        BY DEF Ledger!ClaimsOf, Claims, ClaimOf
    <2> QED
        BY <1>1, <2>1, SettledIsRecorded DEF NewSelection
<1>7. Claims' = Claims \union {[run |-> r, id |-> s.id, seq |-> s.seq, task |-> s.task]}
    <2>1. Selections' = Selections \union {s} /\ s.run = r
        BY <1>1 DEF NewSelection
    <2> QED
        BY <2>1 DEF Claims, ClaimOf
<1>8. UNCHANGED <<manifest, Results>>
    BY DEF Choose, Results
<1>9. Ledger!MakeClaim(r, s.id, s.task)
    BY <1>3, <1>4, <1>5, <1>6, <1>7, <1>8 DEF Ledger!MakeClaim, Ledger!NoneOpen
<1> QED
    BY <1>2, <1>9 DEF Ledger!Next

\* Steps that journal an event of a selected attempt.
LEMMA EventStutters ==
    ASSUME IInv, NEW s \in Selections, NEW n \in Nat, NEW kind \in Kind,
           OnLifecycle(s, n, kind, None), UNCHANGED <<attempts, manifest>>
    PROVE  UNCHANGED Ledger!ledger
BY EventKeeps, LedgerStutters DEF IInv

LEMMA StepRefines ==
    ASSUME IInv, NEW c \in Controller, Step(c)
    PROVE  [Ledger!Next]_Ledger!ledger
<1>1. CASE Refuse(c) \/ Load(c) \/ Finish(c) \/ Launch(c) \/ WorkerReturns(c)
    <2>1. UNCHANGED <<journal, attempts, manifest>>
        BY <1>1 DEF Refuse, Load, Finish, Launch, WorkerReturns, durable
    <2> QED
        BY <2>1, SameJournal, LedgerStutters DEF IInv
<1>2. CASE Execute(c) \/ JournalLaunch(c) \/ WorkerRaises(c) \/ MarkRecorded(c)
    <2>1. proc[c].pc \in Working /\ UNCHANGED <<attempts, manifest>>
        BY <1>2 DEF Execute, JournalLaunch, WorkerRaises, MarkRecorded, Working
    <2>2. \E kind \in Kind : OnLifecycle(proc[c].cur, proc[c].n + 1, kind, None)
        BY <1>2 DEF Execute, JournalLaunch, WorkerRaises, MarkRecorded, Journaling, Kind
    <2> QED
        BY <2>1, <2>2, InHand, EventStutters
<1>3. CASE Recover(c)
    <2>1. Position(proc[c]) /\ UNCHANGED <<attempts, manifest>>
        BY <1>3, Holder DEF IInv, Recover
    <2>2. PICK s \in proc[c].pend, last \in {e.n : e \in journal} :
              OnLifecycle(s, last + 1, "attempt_recovery_started", None)
        BY <1>3 DEF Recover
    <2>3. s \in Selections /\ last + 1 \in Nat /\ "attempt_recovery_started" \in Kind
        BY <1>3, <2>1, <2>2 DEF Recover, Position, Pending, Kind, IInv, Typed, TypeOK, Event
    <2> QED
        BY <2>1, <2>2, <2>3, EventStutters
<1> QED
    BY <1>1, <1>2, <1>3, OpenRunOpens, ChooseClaims, AppendSettles DEF Step

LEMMA NextRefines == IInv /\ [Next]_vars => [Ledger!Next]_Ledger!ledger
<1> SUFFICES ASSUME IInv, [Next]_vars PROVE [Ledger!Next]_Ledger!ledger
    OBVIOUS
<1>1. CASE UNCHANGED vars
    BY <1>1, SameJournal, LedgerStutters DEF IInv, vars, durable
<1>2. ASSUME NEW c \in Controller, Invoke(c) \/ Crash(c)
      PROVE  UNCHANGED Ledger!ledger
    <2>1. UNCHANGED <<journal, attempts, manifest>>
        BY <1>2 DEF Invoke, Start, Crash, durable
    <2> QED
        BY <2>1, SameJournal, LedgerStutters DEF IInv
<1> QED
    BY <1>1, <1>2, StepRefines DEF Next

\* The files that crashing, resuming and competing controllers write implement
\* the ledger: claims in order and one at a time, each settled once.
THEOREM Refinement == Spec => ImplementsLedger
<1>1. Init => Ledger!Init
    BY DEF Init, Ledger!Init, Claims, Results, Selections
<1> QED
    BY <1>1, NextRefines, Inductive, PTL DEF Spec, ImplementsLedger, Ledger!Spec
=============================================================================
