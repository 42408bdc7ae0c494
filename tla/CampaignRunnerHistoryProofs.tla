-------------------- MODULE CampaignRunnerHistoryProofs ---------------------
(***************************************************************************)
(* What CampaignRunner owes to its history, for every set of controllers,  *)
(* runs and tasks and any number of crashes.  The journal: no event is     *)
(* lost to a file that exists already, and a conversation that is          *)
(* journaled is not created again.  What is decided from memory: the       *)
(* lessons in memory are the saved ones, improvements are judged against   *)
(* everything before them, and attempts spread evenly over the tasks of    *)
(* their campaign.                                                         *)
(***************************************************************************)
EXTENDS CampaignRunnerProofs, FiniteSetTheorems

-----------------------------------------------------------------------------
(* The journal *)

\* The events of s are numbered 1..k, each number once.
Dense(s) ==
    /\ IsFiniteSet(Events(s))
    /\ {e.n : e \in Events(s)} = 1..Cardinality(Events(s))

\* Where the worker may still create a conversation.
Early == {"execute", "launch", "launched"}

\* The number in the memory of a process is that of the last event.
Numbered(p) == p.pc \in Working => p.n = Cardinality(Events(p.cur))

Unlaunched(p) == p.pc \in Early => ~HasRemoteState(p.cur)

JournalState ==
    /\ \A s \in Selections : Dense(s)
    /\ \A c \in Controller : Numbered(proc[c]) /\ Unlaunched(proc[c])

JInv == IInv /\ JournalState

-----------------------------------------------------------------------------
(* Steps that write no event *)

LEMMA QuietKeeps ==
    ASSUME JInv, NEW c \in Controller, UNCHANGED journal,
           \A d \in Controller \ {c} : proc'[d] = proc[d],
           proc'[c].pc \in Working => /\ proc[c].pc \in Working
                                      /\ proc'[c].n = proc[c].n /\ proc'[c].cur = proc[c].cur,
           proc'[c].pc \in Early => proc[c].pc \in Early
    PROVE  JournalState'
<1>1. Selections' = Selections /\ \A s : Events(s)' = Events(s)
    BY DEF Selections, Events
<1>2. \A s \in Selections' : Dense(s)'
    BY <1>1 DEF JInv, JournalState, Dense
<1>3. ASSUME NEW d \in Controller
      PROVE  Numbered(proc[d])' /\ Unlaunched(proc[d])'
    <2>1. Numbered(proc[d]) /\ Unlaunched(proc[d])
        BY DEF JInv, JournalState
    <2>2. proc'[d].pc \in Early => proc'[d].pc \in Working
        BY DEF Early, Working
    <2> QED
        BY <1>1, <2>1, <2>2 DEF Numbered, Unlaunched, HasRemoteState
<1> QED
    BY <1>2, <1>3 DEF JournalState

\* A process that leaves is idle.
LEMMA LeaveIsQuiet ==
    ASSUME JInv, NEW c \in Controller, Leave(c), UNCHANGED journal
    PROVE  JournalState'
<1>1. proc'[c].pc = "idle" /\ \A d \in Controller \ {c} : proc'[d] = proc[d]
    BY DEF Leave, JInv, IInv, Typed, TypeOK, Idle
<1>2. proc'[c].pc \notin Working /\ proc'[c].pc \notin Early
    BY <1>1 DEF Working, Early
<1> QED
    BY <1>1, <1>2, QuietKeeps

-----------------------------------------------------------------------------
(* Steps that write one *)

\* The next number is free, so the event is written.
LEMMA EventAdds ==
    ASSUME JInv, NEW s \in Selections, NEW kind \in Kind,
           OnLifecycle(s, Cardinality(Events(s)) + 1, kind, None)
    PROVE  /\ \A t \in Selections : Dense(t)'
           /\ Cardinality(Events(s)') = Cardinality(Events(s)) + 1
           /\ kind # "start_task_created" => HasRemoteState(s)' = HasRemoteState(s)
<1> DEFINE k == Cardinality(Events(s))
           e == [run |-> s.run, id |-> s.id, n |-> k + 1, kind |-> kind, sel |-> None]
<1>1. /\ IsFiniteSet(Events(s)) /\ {f.n : f \in Events(s)} = 1..k /\ k \in Nat
    BY FS_CardinalityType DEF JInv, JournalState, Dense
<1>2. \A f \in Events(s) : f.n # k + 1
    BY <1>1
<1>3. journal' = journal \union {e} /\ e \notin Events(s)
    BY <1>2 DEF OnLifecycle
<1>4. Events(s)' = Events(s) \union {e}
    BY <1>3 DEF Events
<1> HIDE DEF e
<1>5. IsFiniteSet(Events(s)') /\ Cardinality(Events(s)') = k + 1
    <2>1. IsFiniteSet(Events(s) \union {e}) /\ Cardinality(Events(s) \union {e}) = k + 1
        BY <1>1, <1>3, FS_AddElement
    <2> QED
        BY <1>4, <2>1
<1>6. {f.n : f \in Events(s)'} = 1..(k + 1)
    <2>1. \A x : x \in {f.n : f \in Events(s)'} <=> x \in {f.n : f \in Events(s)} \/ x = e.n
        BY <1>4
    <2>2. e.n = k + 1
        BY DEF e
    <2> QED
        BY <1>1, <2>1, <2>2
<1>7. Dense(s)'
    BY <1>5, <1>6 DEF Dense
<1>8. ASSUME NEW t \in Selections, t # s
      PROVE  Dense(t)'
    <2>1. t.id # s.id
        BY <1>8 DEF JInv, IInv, StoreInv, SelectionInv
    <2>2. Events(t)' = Events(t)
        BY <1>3, <2>1 DEF Events, e
    <2> QED
        BY <2>2 DEF Dense, JInv, JournalState
<1>9. kind # "start_task_created" => HasRemoteState(s)' = HasRemoteState(s)
    BY <1>4 DEF HasRemoteState, e
<1> QED
    BY <1>5, <1>7, <1>8, <1>9

\* The process that holds the lock writes the next event of the attempt in hand.
LEMMA InHandAdds ==
    ASSUME JInv, NEW c \in Controller, proc[c].pc \in Working, NEW kind \in Kind,
           OnLifecycle(proc[c].cur, proc[c].n + 1, kind, None), UNCHANGED <<attempts, manifest>>,
           \A d \in Controller \ {c} : proc'[d] = proc[d],
           proc'[c].pc \in Working => /\ proc'[c].cur = proc[c].cur
                                      /\ proc'[c].n = proc[c].n + 1,
           proc'[c].pc \in Early => proc[c].pc \in Early /\ kind # "start_task_created"
    PROVE  JournalState'
<1>1. proc[c].n + 1 \in Nat /\ lock = c
    BY InHand DEF JInv
<1> PICK s \in Selections : s = proc[c].cur
    BY InHand DEF JInv
<1>2. proc[c].n = Cardinality(Events(s))
    BY DEF JInv, JournalState, Numbered
<1>3. Selections' = Selections
    BY <1>1, EventKeeps DEF JInv, IInv
<1>4. /\ \A t \in Selections : Dense(t)'
      /\ Cardinality(Events(s)') = Cardinality(Events(s)) + 1
      /\ kind # "start_task_created" => HasRemoteState(s)' = HasRemoteState(s)
    <2>1. OnLifecycle(s, Cardinality(Events(s)) + 1, kind, None)
        BY <1>2
    <2> QED
        BY <2>1, EventAdds
<1>5. Numbered(proc[c])'
    BY <1>2, <1>4 DEF Numbered, Events
<1>6. Unlaunched(proc[c])'
    <2>1. SUFFICES ASSUME proc'[c].pc \in Early
                   PROVE  ~HasRemoteState(proc[c].cur)'
        BY DEF Unlaunched
    <2>2. proc'[c].cur = s
        BY <2>1 DEF Early, Working
    <2>3. ~HasRemoteState(s)
        BY <2>1 DEF JInv, JournalState, Unlaunched
    <2> QED
        BY <1>4, <2>1, <2>2, <2>3 DEF HasRemoteState, Events
<1>7. ASSUME NEW d \in Controller \ {c}
      PROVE  Numbered(proc[d])' /\ Unlaunched(proc[d])'
    <2>1. proc[d].pc = "idle"
        BY <1>1 DEF JInv, IInv, ProcessInv
    <2> QED
        BY <2>1 DEF Numbered, Unlaunched, Working, Early
<1> QED
    BY <1>3, <1>4, <1>5, <1>6, <1>7 DEF JournalState

LEMMA ExecuteJournal ==
    ASSUME JInv, NEW c \in Controller, Execute(c)
    PROVE  JournalState'
<1>1. /\ proc'[c].pc \in {"launch", "running"} /\ proc'[c].cur = proc[c].cur
      /\ proc'[c].n = proc[c].n + 1
      /\ \A d \in Controller \ {c} : proc'[d] = proc[d]
    BY DEF Execute, Journaling, JInv, IInv, Typed, TypeOK, Process
<1> QED
    BY <1>1, InHandAdds DEF Execute, Journaling, Working, Early, Kind

LEMMA JournalLaunchJournal ==
    ASSUME JInv, NEW c \in Controller, JournalLaunch(c)
    PROVE  JournalState'
<1>1. /\ proc'[c].pc = "running" /\ proc'[c].cur = proc[c].cur
      /\ proc'[c].n = proc[c].n + 1
      /\ \A d \in Controller \ {c} : proc'[d] = proc[d]
    BY DEF JournalLaunch, Journaling, JInv, IInv, Typed, TypeOK, Process
<1> QED
    BY <1>1, InHandAdds DEF JournalLaunch, Journaling, Working, Early, Kind

LEMMA WorkerRaisesJournal ==
    ASSUME JInv, NEW c \in Controller, WorkerRaises(c)
    PROVE  JournalState'
<1>1. /\ proc'[c].pc = "append" /\ proc'[c].cur = proc[c].cur
      /\ proc'[c].n = proc[c].n + 1
      /\ \A d \in Controller \ {c} : proc'[d] = proc[d]
    BY DEF WorkerRaises, JInv, IInv, Typed, TypeOK, Process
<1> QED
    BY <1>1, InHandAdds DEF WorkerRaises, Working, Early, Kind

LEMMA MarkRecordedJournal ==
    ASSUME JInv, NEW c \in Controller, MarkRecorded(c)
    PROVE  JournalState'
<1>1. /\ proc'[c].pc = "next"
      /\ \A d \in Controller \ {c} : proc'[d] = proc[d]
    BY DEF MarkRecorded, JInv, IInv, Typed, TypeOK, Process
<1> QED
    BY <1>1, InHandAdds DEF MarkRecorded, Working, Early, Kind

\* A recovery finds the last number k of 1..k and writes k + 1; the worker is
\* executed only when no start task is journaled.
LEMMA RecoverJournal ==
    ASSUME JInv, NEW c \in Controller, Recover(c)
    PROVE  JournalState'
<1>1. lock = c /\ Position(proc[c])
    BY Holder DEF JInv, IInv, Recover
<1>2. PICK s \in proc[c].pend, last \in {e.n : e \in journal} :
          /\ LastNumber(s, last)
          /\ OnLifecycle(s, last + 1, "attempt_recovery_started", None)
          /\ proc' = [proc EXCEPT ![c] =
                [proc[c] EXCEPT !.pc = IF HasRemoteState(s) THEN "running" ELSE "execute",
                          !.pend = proc[c].pend \ {s}, !.cur = s, !.n = last + 1,
                          !.cache = Cached(c)]]
    BY DEF Recover
<1>3. s \in Selections
    BY <1>1, <1>2 DEF Position, Recover, Pending
<1>4. last = Cardinality(Events(s))
    <2>1. Dense(s) /\ Cardinality(Events(s)) \in Nat
        BY <1>3, FS_CardinalityType DEF JInv, JournalState, Dense
    <2>2. last \in 1..Cardinality(Events(s))
        BY <1>2, <2>1 DEF Dense, LastNumber
    <2>3. \A n \in 1..Cardinality(Events(s)) : n <= last
        BY <1>2, <2>1 DEF Dense, LastNumber
    <2> QED
        BY <2>1, <2>2, <2>3
<1>5. "attempt_recovery_started" \in Kind
    BY DEF Kind
<1>6. last \in Nat
    BY <1>2 DEF JInv, IInv, Typed, TypeOK, Event
<1>7. Selections' = Selections
    <2>1. last + 1 \in Nat /\ OnLifecycle(s, last + 1, "attempt_recovery_started", None)
        BY <1>2, <1>6
    <2>2. UNCHANGED <<attempts, manifest>>
        BY DEF Recover
    <2> QED
        BY <1>3, <1>5, <2>1, <2>2, EventKeeps DEF JInv, IInv
<1>8. /\ \A t \in Selections : Dense(t)'
      /\ Cardinality(Events(s)') = last + 1
      /\ HasRemoteState(s)' = HasRemoteState(s)
    BY <1>2, <1>3, <1>4, <1>5, EventAdds
<1>9. /\ proc'[c].pc = IF HasRemoteState(s) THEN "running" ELSE "execute"
      /\ proc'[c].cur = s /\ proc'[c].n = last + 1
      /\ \A d \in Controller \ {c} : proc'[d] = proc[d]
    BY <1>2 DEF JInv, IInv, Typed, TypeOK, Process
<1>10. Numbered(proc[c])' /\ Unlaunched(proc[c])'
    BY <1>8, <1>9 DEF Numbered, Unlaunched, Early, Events, HasRemoteState
<1>11. ASSUME NEW d \in Controller \ {c}
       PROVE  Numbered(proc[d])' /\ Unlaunched(proc[d])'
    <2>1. proc[d].pc = "idle"
        BY <1>1 DEF JInv, IInv, ProcessInv
    <2> QED
        BY <1>9, <2>1 DEF Numbered, Unlaunched, Working, Early
<1> QED
    BY <1>7, <1>8, <1>10, <1>11 DEF JournalState

\* A new attempt starts with its selection alone.
LEMMA ChooseJournal ==
    ASSUME JInv, NEW c \in Controller, Choose(c)
    PROVE  JournalState'
<1>1. lock = c
    BY Holder DEF JInv, IInv, Choose
<1>2. PICK s : NewSelection(c, proc[c].inv.run, s)
    BY Chosen DEF JInv
<1> DEFINE e == [run |-> s.run, id |-> s.id, n |-> 1, kind |-> "attempt_selected", sel |-> s]
<1>3. journal' = journal \union {e} /\ Selections' = Selections \union {s}
    BY <1>2 DEF NewSelection
<1>4. \A f \in journal : f.id # s.id
    BY <1>2 DEF NewSelection, JInv, IInv, StoreInv, JournalInv
<1>5. Events(s)' = {e}
    BY <1>3, <1>4 DEF Events
<1>6. e.n = 1 /\ e.kind = "attempt_selected" /\ e.id = s.id
    OBVIOUS
<1> HIDE DEF e
<1>7. Cardinality(Events(s)') = 1 /\ IsFiniteSet(Events(s)')
    BY <1>5, FS_Singleton
<1>8. Dense(s)'
    <2>1. \A x : x \in {f.n : f \in Events(s)'} <=> x = 1
        BY <1>5, <1>6
    <2>2. \A x : x \in 1..1 <=> x = 1
        OBVIOUS
    <2>3. {f.n : f \in Events(s)'} = 1..1
        BY <2>1, <2>2
    <2> QED
        BY <1>7, <2>3 DEF Dense
<1>9. ASSUME NEW t \in Selections
      PROVE  Dense(t)'
    <2>1. t.id # s.id
        BY <1>2 DEF NewSelection
    <2>2. Events(t)' = Events(t)
        BY <1>3, <1>6, <2>1 DEF Events
    <2> QED
        BY <2>2 DEF Dense, JInv, JournalState
<1>10. /\ proc'[c].pc = "execute" /\ proc'[c].cur = s /\ proc'[c].n = 1
       /\ \A d \in Controller \ {c} : proc'[d] = proc[d]
    BY <1>2 DEF NewSelection, JInv, IInv, Typed, TypeOK, Process
<1>11. Numbered(proc[c])' /\ Unlaunched(proc[c])'
    BY <1>5, <1>6, <1>7, <1>10 DEF Numbered, Unlaunched, Early, Events, HasRemoteState
<1>12. ASSUME NEW d \in Controller \ {c}
       PROVE  Numbered(proc[d])' /\ Unlaunched(proc[d])'
    <2>1. proc[d].pc = "idle"
        BY <1>1 DEF JInv, IInv, ProcessInv
    <2> QED
        BY <1>10, <2>1 DEF Numbered, Unlaunched, Working, Early
<1> QED
    BY <1>3, <1>8, <1>9, <1>11, <1>12 DEF JournalState

-----------------------------------------------------------------------------
(* The invariant, and what follows from it *)

LEMMA InitJournal == Init => JInv
<1> SUFFICES ASSUME Init PROVE JInv
    OBVIOUS
<1>1. Selections = {}
    BY DEF Init, Selections
<1>2. JournalState
    BY <1>1 DEF Init, JournalState, Idle, Numbered, Unlaunched, Working, Early
<1> QED
    BY <1>2, InitInv DEF JInv

LEMMA QuietSteps ==
    ASSUME JInv, NEW c \in Controller,
           \/ OpenRun(c) \/ Load(c) \/ Launch(c) \/ WorkerReturns(c) \/ AppendAttempt(c)
    PROVE  JournalState'
<1>1. UNCHANGED journal
    BY DEF OpenRun, Load, Launch, WorkerReturns, AppendAttempt, durable
<1>3. proc \in [Controller -> Process]
    BY DEF JInv, IInv, Typed, TypeOK
<1>4. CASE OpenRun(c)
    <2>1. proc'[c].pc = "load" /\ \A d \in Controller \ {c} : proc'[d] = proc[d]
        BY <1>3, <1>4 DEF OpenRun, Process
    <2> QED
        BY <1>1, <2>1, QuietKeeps DEF Working, Early
<1>5. CASE Load(c)
    <2>1. proc'[c].pc = "next" /\ \A d \in Controller \ {c} : proc'[d] = proc[d]
        BY <1>3, <1>5 DEF Load, Process
    <2> QED
        BY <1>1, <2>1, QuietKeeps DEF Working, Early
<1>6. CASE Launch(c)
    <2>1. /\ proc[c].pc = "launch" /\ proc'[c].pc = "launched"
          /\ proc'[c].cur = proc[c].cur /\ proc'[c].n = proc[c].n
          /\ \A d \in Controller \ {c} : proc'[d] = proc[d]
        BY <1>3, <1>6 DEF Launch, Process
    <2> QED
        BY <1>1, <2>1, QuietKeeps DEF Working, Early
<1>7. CASE WorkerReturns(c)
    <2>1. /\ proc[c].pc = "running" /\ proc'[c].pc = "append"
          /\ proc'[c].cur = proc[c].cur /\ proc'[c].n = proc[c].n
          /\ \A d \in Controller \ {c} : proc'[d] = proc[d]
        <3>1. PICK k \in Contract : proc' = [proc EXCEPT ![c] = Returned(c, k)]
            BY <1>7, ReturnedWith
        <3>2. proc[c].pc = "running"
            BY <1>7 DEF WorkerReturns
        <3> QED
            BY <1>3, <3>1, <3>2 DEF Returned, Process
    <2> QED
        BY <1>1, <2>1, QuietKeeps DEF Working, Early
<1>8. CASE AppendAttempt(c)
    <2>1. /\ proc[c].pc = "append" /\ proc'[c].pc = "mark"
          /\ proc'[c].cur = proc[c].cur /\ proc'[c].n = proc[c].n
          /\ \A d \in Controller \ {c} : proc'[d] = proc[d]
        BY <1>3, <1>8 DEF AppendAttempt, Process
    <2> QED
        BY <1>1, <2>1, QuietKeeps DEF Working, Early
<1> QED
    BY <1>4, <1>5, <1>6, <1>7, <1>8

LEMMA StartJournal ==
    ASSUME JInv, NEW c \in Controller, Invoke(c)
    PROVE  JournalState'
<1>1. /\ proc'[c].pc = "open" /\ UNCHANGED journal
      /\ \A d \in Controller \ {c} : proc'[d] = proc[d]
    BY DEF Invoke, Start, durable, JInv, IInv, Typed, TypeOK, Process
<1> QED
    BY <1>1, QuietKeeps DEF Working, Early

LEMMA NextJournal == JInv /\ [Next]_vars => JInv'
<1> SUFFICES ASSUME JInv, [Next]_vars PROVE JInv'
    OBVIOUS
<1>1. IInv'
    BY NextInv DEF JInv
<1>2. CASE UNCHANGED vars
    <2>1. Selections' = Selections /\ \A s : Events(s)' = Events(s)
        BY <1>2 DEF vars, durable, Selections, Events
    <2> QED
        BY <1>1, <1>2, <2>1 DEF JInv, JournalState, Dense, Numbered, Unlaunched, HasRemoteState, vars
<1>3. ASSUME NEW c \in Controller, Invoke(c) \/ Step(c) \/ Crash(c)
      PROVE  JournalState'
    <2>1. CASE Invoke(c)
        BY <2>1, StartJournal
    <2>2. CASE Refuse(c) \/ Finish(c) \/ Crash(c)
        BY <2>2, LeaveIsQuiet DEF Refuse, Finish, Crash, durable
    <2>3. CASE OpenRun(c) \/ Load(c) \/ Launch(c) \/ WorkerReturns(c) \/ AppendAttempt(c)
        BY <2>3, QuietSteps
    <2>4. CASE Recover(c) \/ Choose(c)
        BY <2>4, RecoverJournal, ChooseJournal
    <2>5. CASE Execute(c) \/ JournalLaunch(c) \/ WorkerRaises(c) \/ MarkRecorded(c)
        BY <2>5, ExecuteJournal, JournalLaunchJournal, WorkerRaisesJournal, MarkRecordedJournal
    <2> QED
        BY <1>3, <2>1, <2>2, <2>3, <2>4, <2>5 DEF Step
<1> QED
    BY <1>1, <1>2, <1>3 DEF Next, JInv

\* The journal invariant holds in every reachable state.
THEOREM JournalInductive == Spec => []JInv
BY InitJournal, NextJournal, PTL DEF Spec

\* The events of an attempt are numbered 1..k, whichever processes wrote them.
THEOREM NoEventIsLost == Spec => []JournalIsDense
<1>1. JInv => JournalIsDense
    BY DEF JInv, JournalState, Dense, JournalIsDense
<1> QED
    BY <1>1, JournalInductive, PTL

\* Only Launch creates conversations, and never one whose start task is journaled.
LEMMA LaunchesUnjournaled ==
    ASSUME JInv, NEW c \in Controller, Launch(c),
           NEW e \in journal, e.kind = "start_task_created"
    PROVE  launches'[e.id] = launches[e.id]
<1> PICK s \in Selections : s = proc[c].cur
    BY InHand DEF JInv, Launch, Working
<1>1. ~HasRemoteState(s)
    BY DEF JInv, JournalState, Unlaunched, Early, Launch
<1>2. PICK t \in Selections : t.id = e.id /\ t.run = e.run
    BY DEF JInv, IInv, StoreInv, JournalInv
<1>3. t # s
    BY <1>1, <1>2 DEF HasRemoteState, Events
<1>4. e.id # s.id
    BY <1>2, <1>3 DEF JInv, IInv, StoreInv, SelectionInv
<1> QED
    BY <1>4 DEF Launch, JInv, IInv, Typed, TypeOK

\* A conversation that the journal knows is attached to, never created again.
THEOREM AttachesOnce == Spec => NoLaunchAfterJournal
<1> DEFINE Kept == \A e \in journal : e.kind = "start_task_created" =>
                       launches'[e.id] = launches[e.id]
<1>1. ASSUME JInv, Next
      PROVE  Kept
    <2>1. PICK c \in Controller : Invoke(c) \/ Step(c) \/ Crash(c)
        BY <1>1 DEF Next
    <2>2. CASE Launch(c)
        BY <1>1, <2>2, LaunchesUnjournaled
    <2>3. CASE ~Launch(c)
        <3>1. UNCHANGED launches
            BY <2>1, <2>3 DEF Invoke, Start, Step, OpenRun, Refuse, Load, Recover, Choose, Finish,
               Execute, JournalLaunch, WorkerRaises, WorkerReturns, AppendAttempt, MarkRecorded,
               Crash, remote
        <3> QED
            BY <3>1
    <2> QED
        BY <2>2, <2>3
<1>2. JInv /\ [Next]_vars => [Kept]_vars
    BY <1>1
<1>3. Spec => [][Kept]_vars
    BY <1>2, JournalInductive, PTL DEF Spec
<1> QED
    BY <1>3 DEF NoLaunchAfterJournal

-----------------------------------------------------------------------------
(* Decisions from memory *)

Saved == {l.id : l \in lessons}

\* The lessons are in memory from the first lookup on, which comes before the
\* worker's steps.
CacheState(p) ==
    /\ p.pc = "idle" => p.cache = None
    /\ p.pc \in Working => p.cache = Saved
    /\ p.cache \in {None, Saved}

\* A record that is about to be written is judged against all of its run.
Judged(p) ==
    p.pc = "append" /\ p.draft.valid =>
        (p.draft.improved <=>
            \A b \in AttemptsOf(p.draft.run) :
                b.task = p.draft.task /\ b.valid => p.draft.score < b.score)

\* The task of a pending attempt has as few attempts as any.
ChosenEvenly ==
    \A r \in Run : \A s \in Pending(r) : \A u \in Tasks(manifest[r]) :
        Count(s.task, AttemptsOf(r)) <= Count(u, AttemptsOf(r))

Even == IsFiniteSet(attempts) /\ ChosenEvenly /\ BalancedCoverage

CInv ==
    /\ IInv
    /\ \A c \in Controller : CacheState(proc[c]) /\ Judged(proc[c])
    /\ ImprovedBeatsAllBefore
    /\ Even

-----------------------------------------------------------------------------
(* The process that moves *)

\* The steps that neither look lessons up nor return an answer.
Plain(c) ==
    \/ OpenRun(c) \/ Load(c) \/ Execute(c) \/ Launch(c) \/ JournalLaunch(c)
    \/ WorkerRaises(c) \/ AppendAttempt(c) \/ MarkRecorded(c)

Stays(c) == \A d \in Controller \ {c} : proc'[d] = proc[d]

LEMMA PlainMoves ==
    ASSUME Typed, NEW c \in Controller, Plain(c)
    PROVE  /\ Stays(c) /\ UNCHANGED lessons
           /\ proc[c].pc # "idle" /\ proc'[c].pc # "idle"
           /\ proc'[c].cache = proc[c].cache
           /\ proc'[c].pc \in Working => proc[c].pc \in Working
           /\ proc'[c].pc = "append" => ~proc'[c].draft.valid
<1>1. UNCHANGED lessons
    BY DEF Plain, OpenRun, Load, Execute, Launch, JournalLaunch, WorkerRaises, AppendAttempt,
       MarkRecorded, durable
<1>2. proc \in [Controller -> Process]
    BY DEF Typed, TypeOK
<1>3. CASE OpenRun(c)
    BY <1>1, <1>2, <1>3 DEF Stays, OpenRun, Process, Working
<1>4. CASE Load(c)
    BY <1>1, <1>2, <1>4 DEF Stays, Load, Process, Working
<1>5. CASE Execute(c)
    BY <1>1, <1>2, <1>5 DEF Stays, Execute, Journaling, Process, Working
<1>6. CASE Launch(c)
    BY <1>1, <1>2, <1>6 DEF Stays, Launch, Process, Working
<1>7. CASE JournalLaunch(c)
    BY <1>1, <1>2, <1>7 DEF Stays, JournalLaunch, Journaling, Process, Working
<1>8. CASE WorkerRaises(c)
    <2>1. proc[c].pc \in Working
        BY <1>8 DEF WorkerRaises, Working
    <2>2. /\ Stays(c) /\ proc'[c].pc = "append" /\ proc'[c].cache = proc[c].cache
          /\ proc'[c].draft.valid = FALSE
        BY <1>2, <1>8 DEF Stays, WorkerRaises, Process
    <2> QED
        BY <1>1, <2>1, <2>2 DEF Working
<1>9. CASE AppendAttempt(c)
    BY <1>1, <1>2, <1>9 DEF Stays, AppendAttempt, Process, Working
<1>10. CASE MarkRecorded(c)
    BY <1>1, <1>2, <1>10 DEF Stays, MarkRecorded, Process, Working
<1> QED
    BY <1>3, <1>4, <1>5, <1>6, <1>7, <1>8, <1>9, <1>10 DEF Plain

LEMMA LeaveMoves ==
    ASSUME Typed, NEW c \in Controller, Leave(c)
    PROVE  Stays(c) /\ proc'[c].pc = "idle" /\ proc'[c].cache = None
BY DEF Stays, Leave, Typed, TypeOK, Idle

LEMMA InvokeMoves ==
    ASSUME Typed, NEW c \in Controller, Invoke(c)
    PROVE  /\ Stays(c) /\ UNCHANGED durable /\ lock = Nobody
           /\ proc'[c].pc = "open" /\ proc'[c].cache = proc[c].cache
BY DEF Stays, Invoke, Start, LockFree, Typed, TypeOK, Process

\* Recover and Choose look the lessons up.
LEMMA LookupMoves ==
    ASSUME Typed, NEW c \in Controller, Recover(c) \/ Choose(c)
    PROVE  /\ Stays(c) /\ UNCHANGED lessons /\ proc[c].pc = "next"
           /\ proc'[c].pc \in {"running", "execute"} /\ proc'[c].cache = Cached(c)
<1>1. proc \in [Controller -> Process]
    BY DEF Typed, TypeOK
<1>2. CASE Recover(c)
    <2>1. PICK s \in proc[c].pend, last \in {e.n : e \in journal} :
              proc' = [proc EXCEPT ![c] =
                  [proc[c] EXCEPT !.pc = IF HasRemoteState(s) THEN "running" ELSE "execute",
                      !.pend = proc[c].pend \ {s}, !.cur = s, !.n = last + 1, !.cache = Cached(c)]]
        BY <1>2 DEF Recover
    <2> QED
        <3>1. proc[c].pc = "next" /\ UNCHANGED lessons
            BY <1>2 DEF Recover
        <3> QED
            BY <1>1, <2>1, <3>1 DEF Stays, Process
<1>3. CASE Choose(c)
    <2>1. PICK s :
              proc' = [proc EXCEPT ![c] =
                  [proc[c] EXCEPT !.pc = "execute", !.cur = s, !.n = 1, !.cache = Cached(c)]]
        BY <1>3 DEF Choose
    <2>2. proc[c].pc = "next" /\ UNCHANGED lessons
        BY <1>3 DEF Choose
    <2> QED
        BY <1>1, <2>1, <2>2 DEF Stays, Process
<1> QED
    BY <1>2, <1>3

LEMMA ReturnMoves ==
    ASSUME Typed, NEW c \in Controller, WorkerReturns(c)
    PROVE  /\ Stays(c) /\ proc[c].pc = "running" /\ proc'[c].pc = "append"
           /\ \E k \in Contract :
                 /\ lessons' = IF Saves(c, k) /\ ~LessonExists(IdOf(c, k))
                               THEN lessons \union {[id |-> IdOf(c, k),
                                                     source |-> proc[c].cur.id]}
                               ELSE lessons
                 /\ proc'[c].cache = CacheOf(c, k) /\ proc'[c].draft = DraftOf(c, k)
<1>1. PICK k \in Contract :
          /\ lessons' = IF Saves(c, k) /\ ~LessonExists(IdOf(c, k))
                        THEN lessons \union {[id |-> IdOf(c, k), source |-> proc[c].cur.id]}
                        ELSE lessons
          /\ proc' = [proc EXCEPT ![c] = Returned(c, k)]
    BY ReturnedWith
<1>2. proc[c].pc = "running" /\ proc \in [Controller -> Process]
    BY DEF WorkerReturns, Typed, TypeOK
<1>3. /\ proc'[c].pc = "append" /\ proc'[c].cache = CacheOf(c, k)
      /\ proc'[c].draft = DraftOf(c, k)
    BY <1>1, <1>2 DEF Returned, Process
<1> QED
    BY <1>1, <1>2, <1>3 DEF Stays

-----------------------------------------------------------------------------
(* The lessons in memory *)

\* Lessons change under the lock only, where the others have none in memory.
LEMMA CacheMoves ==
    ASSUME CInv, NEW c \in Controller, Stays(c), lock \in {c, Nobody},
           CacheState(proc[c])', UNCHANGED lessons \/ lock = c
    PROVE  \A d \in Controller : CacheState(proc[d])'
<1> SUFFICES ASSUME NEW d \in Controller \ {c}
             PROVE  CacheState(proc[d])'
    OBVIOUS
<1>1. proc'[d] = proc[d] /\ proc[d].pc = "idle"
    BY NobodyAssumption DEF Stays, CInv, IInv, ProcessInv
<1>2. proc[d].cache = None
    BY <1>1 DEF CInv, CacheState
<1> QED
    BY <1>1, <1>2 DEF CacheState, Working

LEMMA CacheInv ==
    ASSUME CInv, NEW c \in Controller, Invoke(c) \/ Step(c) \/ Crash(c)
    PROVE  \A d \in Controller : CacheState(proc[d])'
<1>1. Typed /\ CacheState(proc[c]) /\ lock \in {c, Nobody}
    <2>1. proc[c].pc = "idle" => lock = Nobody
        BY DEF Invoke, Start, LockFree, Step, OpenRun, Refuse, Load, Recover, Choose, Finish,
           Execute, Launch, JournalLaunch, WorkerRaises, WorkerReturns, AppendAttempt,
           MarkRecorded, Crash
    <2> QED
        BY <2>1 DEF CInv, IInv, ProcessInv
<1>2. CASE Invoke(c)
    BY <1>1, <1>2, InvokeMoves, CacheMoves DEF CacheState, Working, Saved, durable, Invoke, Start
<1>3. CASE Refuse(c) \/ Finish(c) \/ Crash(c)
    <2>1. Leave(c) /\ UNCHANGED lessons
        BY <1>3 DEF Refuse, Finish, Crash, durable
    <2> QED
        BY <1>1, <2>1, LeaveMoves, CacheMoves DEF CacheState, Working
<1>4. CASE Plain(c)
    BY <1>1, <1>4, PlainMoves, CacheMoves DEF CacheState, Saved
<1>5. CASE Recover(c) \/ Choose(c)
    BY <1>1, <1>5, LookupMoves, CacheMoves DEF CacheState, Cached, Saved, Working
<1>6. CASE WorkerReturns(c)
    <2>1. /\ Stays(c) /\ proc[c].pc = "running" /\ proc'[c].pc = "append"
        BY <1>1, <1>6, ReturnMoves
    <2>2. PICK k \in Contract :
              /\ lessons' = IF Saves(c, k) /\ ~LessonExists(IdOf(c, k))
                            THEN lessons \union {[id |-> IdOf(c, k), source |-> proc[c].cur.id]}
                            ELSE lessons
              /\ proc'[c].cache = CacheOf(c, k)
        BY <1>1, <1>6, ReturnMoves
    <2>3. proc[c].cache = Saved /\ Cached(c) = Saved /\ lock = c
        BY <1>1, <2>1 DEF CacheState, Working, Cached, Saved, CInv, IInv, ProcessInv
    <2>4. proc'[c].cache = Saved'
        <3>1. CASE Saves(c, k) /\ ~LessonExists(IdOf(c, k))
            <4>1. \A x : x \in Saved' <=> x \in Saved \/ x = IdOf(c, k)
                <5>1. PICK l : /\ l = [id |-> IdOf(c, k), source |-> proc[c].cur.id]
                               /\ lessons' = lessons \union {l}
                    BY <2>2, <3>1
                <5>2. l.id = IdOf(c, k)
                    BY <5>1
                <5> QED
                    BY <5>1, <5>2 DEF Saved
            <4>2. proc'[c].cache = Saved \union {IdOf(c, k)}
                BY <2>2, <2>3, <3>1 DEF CacheOf, CacheAfter
            <4> QED
                BY <4>1, <4>2
        <3>2. CASE ~(Saves(c, k) /\ ~LessonExists(IdOf(c, k)))
            <4>1. Saved' = Saved
                BY <2>2, <3>2 DEF Saved
            <4>2. proc'[c].cache = Saved
                BY <2>2, <2>3, <3>2 DEF CacheOf, CacheAfter
            <4> QED
                BY <4>1, <4>2
        <3> QED
            BY <3>1, <3>2
    <2> QED
        BY <1>1, <2>1, <2>3, <2>4, CacheMoves DEF CacheState
<1> QED
    BY <1>2, <1>3, <1>4, <1>5, <1>6 DEF Step, Plain

-----------------------------------------------------------------------------
(* Improvements *)

\* The attempt in hand comes after every recorded one of its run.
LEMMA Latest ==
    ASSUME IInv, NEW c \in Controller, proc[c].pc \in Working \ {"mark"},
           NEW b \in attempts, b.run = proc[c].cur.run
    PROVE  b.seq \in Nat /\ proc[c].cur.seq \in Nat /\ b.seq < proc[c].cur.seq
<1> PICK s \in Selections : s = proc[c].cur
    BY InHand
<1>1. ~Recorded(s.id)
    BY InHand DEF Position
<1>2. PICK u \in Selections : ClaimOf(b) = ClaimOf(u)
    BY DEF IInv, StoreInv, AttemptInv
<1>3. u.run = s.run /\ b.seq = u.seq /\ Recorded(u.id)
    BY <1>2 DEF ClaimOf, Recorded
<1>4. u.seq \in Nat /\ s.seq \in Nat
    BY SelectionsType DEF IInv, Typed, Selection
<1>5. u # s /\ u.seq # s.seq
    BY <1>1, <1>3 DEF IInv, StoreInv, SelectionInv
<1>6. ~(s.seq < u.seq)
    BY <1>1, <1>3 DEF IInv, StoreInv, SelectionInv
<1> QED
    BY <1>3, <1>4, <1>5, <1>6

LEMMA JudgedInv ==
    ASSUME CInv, NEW c \in Controller, Invoke(c) \/ Step(c) \/ Crash(c)
    PROVE  \A d \in Controller : Judged(proc[d])'
<1>1. Typed /\ lock \in {c, Nobody}
    <2>1. proc[c].pc = "idle" => lock = Nobody
        BY DEF Invoke, Start, LockFree, Step, OpenRun, Refuse, Load, Recover, Choose, Finish,
           Execute, Launch, JournalLaunch, WorkerRaises, WorkerReturns, AppendAttempt,
           MarkRecorded, Crash
    <2> QED
        BY <2>1 DEF CInv, IInv, ProcessInv
<1>2. \A d \in Controller \ {c} : proc[d].pc = "idle"
    BY <1>1, NobodyAssumption DEF CInv, IInv, ProcessInv
<1>3. ASSUME Stays(c), Judged(proc[c])'
      PROVE  \A d \in Controller : Judged(proc[d])'
    BY <1>2, <1>3 DEF Stays, Judged
<1>4. CASE Invoke(c)
    BY <1>1, <1>3, <1>4, InvokeMoves DEF Judged
<1>5. CASE Refuse(c) \/ Finish(c) \/ Crash(c)
    <2>1. Leave(c)
        BY <1>5 DEF Refuse, Finish, Crash
    <2> QED
        BY <1>1, <1>3, <2>1, LeaveMoves DEF Judged
<1>6. CASE Plain(c)
    BY <1>1, <1>3, <1>6, PlainMoves DEF Judged
<1>7. CASE Recover(c) \/ Choose(c)
    BY <1>1, <1>3, <1>7, LookupMoves DEF Judged
<1>8. CASE WorkerReturns(c)
    <2>1. Stays(c) /\ proc[c].pc = "running" /\ UNCHANGED attempts
        BY <1>1, <1>8, ReturnMoves DEF WorkerReturns
    <2>2. PICK k \in Contract : proc'[c].draft = DraftOf(c, k)
        BY <1>1, <1>8, ReturnMoves
    <2>3. PICK t : t = proc[c].cur.task
        OBVIOUS
    <2>4. PICK r : r = proc[c].cur.run
        OBVIOUS
    <2>5. proc[c].mem = AttemptsOf(r) /\ AttemptsOf(r)' = AttemptsOf(r)
        BY <2>1, <2>4, InHand DEF CInv, Position, Working, AttemptsOf
    <2>6. PICK d : d = DraftOf(c, k)
        OBVIOUS
    <2>7. /\ d.run = r /\ d.task = t /\ d.valid = k.valid /\ d.score = k.score
          /\ d.improved = Improved(c, k)
        BY <2>3, <2>4, <2>6 DEF DraftOf
    <2>8. k.valid => (Improved(c, k) <=>
              \A b \in AttemptsOf(r) : b.task = t /\ b.valid => k.score < b.score)
        BY <2>3, <2>5 DEF Improved, Improves, ValidScores
    <2>9. Judged(proc[c])'
        BY <2>2, <2>5, <2>6, <2>7, <2>8 DEF Judged
    <2> QED
        BY <1>3, <2>1, <2>9
<1> QED
    BY <1>4, <1>5, <1>6, <1>7, <1>8 DEF Step, Plain

LEMMA ImprovedInv ==
    ASSUME CInv, NEW c \in Controller, AppendAttempt(c)
    PROVE  ImprovedBeatsAllBefore'
<1> PICK d : d = proc[c].draft
    OBVIOUS
<1>1. attempts' = attempts \union {d}
    BY DEF AppendAttempt
<1>2. ClaimOf(d) = ClaimOf(proc[c].cur)
    BY InHand DEF CInv, AppendAttempt, Working, Position
<1>3. d.run = proc[c].cur.run /\ d.seq = proc[c].cur.seq
    BY <1>2 DEF ClaimOf
<1>4. \A b \in attempts : b.run = d.run => /\ b.seq \in Nat /\ d.seq \in Nat
                                           /\ b.seq < d.seq
    BY <1>3, Latest DEF CInv, AppendAttempt, Working
<1>5. d.valid => (d.improved <=>
          \A b \in attempts : b.run = d.run /\ b.task = d.task /\ b.valid => d.score < b.score)
    BY DEF CInv, Judged, AppendAttempt, AttemptsOf
<1>6. d.seq \in Nat
    BY DEF CInv, IInv, Typed, HasParts, Parts, AppendAttempt, Attempt
<1>7. \A a, b \in attempts \union {d} :
          b = d \/ a = d => ~(a.run = b.run /\ b.seq < a.seq) \/ (a = d /\ b \in attempts)
    BY <1>4, <1>6
<1> QED
    BY <1>1, <1>4, <1>5, <1>6, <1>7 DEF CInv, ImprovedBeatsAllBefore

-----------------------------------------------------------------------------
(* Coverage *)

\* Steps that neither open a run, claim nor record.
LEMMA Kept ==
    ASSUME IInv, NEW c \in Controller, Invoke(c) \/ Step(c) \/ Crash(c),
           ~OpenRun(c), ~Choose(c), ~AppendAttempt(c)
    PROVE  Selections' = Selections /\ UNCHANGED <<attempts, manifest>>
<1>1. CASE Invoke(c) \/ Refuse(c) \/ Load(c) \/ Finish(c) \/ Launch(c) \/ WorkerReturns(c) \/ Crash(c)
    <2>1. UNCHANGED <<journal, attempts, manifest>>
        BY <1>1 DEF Invoke, Start, Refuse, Load, Finish, Launch, WorkerReturns, Crash, durable
    <2> QED
        BY <2>1, SameJournal DEF IInv
<1>2. CASE Recover(c)
    <2>1. Position(proc[c])
        BY <1>2, Holder DEF IInv, Recover
    <2>2. PICK s \in proc[c].pend, last \in {e.n : e \in journal} :
              OnLifecycle(s, last + 1, "attempt_recovery_started", None)
        BY <1>2 DEF Recover
    <2>3. s \in Selections
        BY <1>2, <2>1 DEF Position, Recover, Pending
    <2>4. last + 1 \in Nat /\ "attempt_recovery_started" \in Kind
        BY <2>2 DEF IInv, Typed, TypeOK, Event, Kind
    <2>5. UNCHANGED <<attempts, manifest>>
        BY <1>2 DEF Recover
    <2> QED
        BY <2>2, <2>3, <2>4, <2>5, EventKeeps DEF IInv
<1>3. CASE Execute(c) \/ JournalLaunch(c) \/ WorkerRaises(c) \/ MarkRecorded(c)
    <2>1. PICK kind \in Kind : OnLifecycle(proc[c].cur, proc[c].n + 1, kind, None)
        BY <1>3 DEF Execute, JournalLaunch, WorkerRaises, MarkRecorded, Journaling, Kind
    <2>2. proc[c].pc \in Working /\ UNCHANGED <<attempts, manifest>>
        BY <1>3 DEF Execute, JournalLaunch, WorkerRaises, MarkRecorded, Working
    <2> QED
        BY <2>1, <2>2, InHand, EventKeeps DEF IInv
<1> QED
    BY <1>1, <1>2, <1>3 DEF Step

LEMMA CountType ==
    ASSUME NEW A, IsFiniteSet(A), NEW u
    PROVE  Count(u, A) \in Nat
<1>1. IsFiniteSet({a \in A : a.task = u})
    BY FS_Subset
<1> QED
    BY <1>1, FS_CardinalityType DEF Count

LEMMA CountAdds ==
    ASSUME NEW A, IsFiniteSet(A), NEW d, d \notin A, NEW u
    PROVE  Count(u, A \union {d}) = IF u = d.task THEN Count(u, A) + 1 ELSE Count(u, A)
<1> DEFINE B == {a \in A : a.task = u}
<1>1. IsFiniteSet(B) /\ d \notin B
    BY FS_Subset
<1>2. CASE u = d.task
    <2>1. {a \in A \union {d} : a.task = u} = B \union {d}
        BY <1>2
    <2> QED
        BY <1>1, <1>2, <2>1, FS_AddElement DEF Count
<1>3. CASE u # d.task
    <2>1. {a \in A \union {d} : a.task = u} = B
        BY <1>3
    <2> QED
        BY <1>3, <2>1 DEF Count
<1> QED
    BY <1>2, <1>3

\* A run without a manifest has no selections and no records.
LEMMA Unopened ==
    ASSUME IInv, NEW r \in Run, manifest[r] = None
    PROVE  AttemptsOf(r) = {} /\ Pending(r) = {}
<1>1. \A s \in Selections : s.run # r
    BY DEF IInv, StoreInv, SelectionInv
<1>2. Pending(r) = {}
    BY <1>1 DEF Pending
<1>3. \A a \in attempts : \E s \in Selections : ClaimOf(a) = ClaimOf(s)
    BY DEF IInv, StoreInv, AttemptInv
<1>4. \A a \in attempts : a.run # r
    BY <1>1, <1>3 DEF ClaimOf
<1>5. AttemptsOf(r) = {}
    BY <1>4 DEF AttemptsOf
<1> QED
    BY <1>2, <1>5

LEMMA OpenRunEven ==
    ASSUME CInv, NEW c \in Controller, OpenRun(c)
    PROVE  Even'
<1>1. /\ Selections' = Selections /\ UNCHANGED attempts
      /\ \A id : Recorded(id)' = Recorded(id)
    BY DEF OpenRun, Selections, Recorded
<1>2. \A r : Pending(r)' = Pending(r) /\ AttemptsOf(r)' = AttemptsOf(r)
    BY <1>1 DEF Pending, AttemptsOf
<1> PICK r \in Run : r = proc[c].inv.run
    BY DEF CInv, IInv, Typed, HasParts, Parts, OpenRun, Invocation
<1>3. \A q \in Run \ {r} : manifest'[q] = manifest[q]
    BY DEF OpenRun, CInv, IInv, Typed, TypeOK
<1>4. manifest[r] = None \/ manifest'[r] = manifest[r]
    BY Holder DEF OpenRun, CInv, IInv, Typed, TypeOK, Position
<1>5. CASE manifest'[r] = manifest[r]
    BY <1>1, <1>2, <1>3, <1>5 DEF Even, ChosenEvenly, BalancedCoverage, CInv
<1>6. CASE manifest[r] = None
    <2>1. AttemptsOf(r) = {} /\ Pending(r) = {}
        BY <1>6, Unopened DEF CInv
    <2>2. \A u : Count(u, AttemptsOf(r)) = 0
        <3>1. \A u : {a \in AttemptsOf(r) : a.task = u} = {}
            BY <2>1
        <3> QED
            BY <3>1, FS_EmptySet DEF Count
    <2>3. ChosenEvenly'
        BY <1>2, <1>3, <2>1 DEF Even, ChosenEvenly, CInv
    <2>4. ASSUME NEW q \in Run, manifest'[q] # None,
                 NEW t \in Tasks(manifest'[q]), NEW u \in Tasks(manifest'[q])
          PROVE  Count(t, AttemptsOf(q)) <= Count(u, AttemptsOf(q)) + 1
        <3>1. CASE q = r
            BY <2>2, <3>1
        <3>2. CASE q # r
            BY <1>3, <2>4, <3>2 DEF Even, BalancedCoverage, CInv
        <3> QED
            BY <3>1, <3>2
    <2>5. BalancedCoverage'
        BY <1>2, <2>4 DEF BalancedCoverage
    <2> QED
        BY <1>1, <2>3, <2>5 DEF Even, CInv
<1> QED
    BY <1>4, <1>5, <1>6

\* Both policies compare the numbers of attempts first.
LEMMA ChoiceIsLeast ==
    ASSUME NEW policy, NEW tasks, NEW A, IsFiniteSet(A), NEW t, IsChoice(policy, t, tasks, A)
    PROVE  \A u \in tasks : Count(t, A) <= Count(u, A)
<1> SUFFICES ASSUME NEW u \in tasks
             PROVE  Count(t, A) <= Count(u, A)
    OBVIOUS
<1>1. Count(t, A) \in Nat /\ Count(u, A) \in Nat
    BY CountType
<1>2. CASE u = t
    BY <1>1, <1>2
<1>3. CASE u # t
    <2>1. Before(policy, t, u, A)
        BY <1>3 DEF IsChoice
    <2> QED
        BY <1>1, <2>1 DEF Before, ManagedBefore, RoundRobinBefore
<1> QED
    BY <1>2, <1>3

LEMMA ChooseEven ==
    ASSUME CInv, NEW c \in Controller, Choose(c)
    PROVE  Even'
<1> PICK r \in Run : r = proc[c].inv.run
    BY DEF CInv, IInv, Typed, HasParts, Parts, Choose, Invocation
<1>1. proc[c].mem = AttemptsOf(r) /\ Pending(r) = {} /\ manifest[r] = proc[c].inv.manifest
    BY Holder DEF CInv, IInv, Choose, Position
<1>2. PICK s : NewSelection(c, r, s)
    BY Chosen DEF CInv
<1>3. UNCHANGED <<attempts, manifest>>
    BY DEF Choose
<1>4. /\ \A id : Recorded(id)' = Recorded(id)
      /\ \A q : AttemptsOf(q)' = AttemptsOf(q)
    BY <1>3 DEF Recorded, AttemptsOf
<1>5. IsChoice(manifest[r].scheduler, s.task, Tasks(manifest[r]), AttemptsOf(r))
    <2>1. PICK q \in Free(c), id \in AttemptId, t \in Tasks(proc[c].inv.manifest) :
              /\ IsChoice(proc[c].inv.manifest.scheduler, t, Tasks(proc[c].inv.manifest),
                          SeenByScheduler(c))
              /\ proc' = [proc EXCEPT ![c] =
                    [proc[c] EXCEPT !.pc = "execute", !.cur = SelectionOf(c, q, id, t), !.n = 1,
                                    !.cache = Cached(c)]]
        BY DEF Choose
    <2>2. SelectionOf(c, q, id, t).task = t
        BY DEF SelectionOf
    <2>3. proc'[c].cur = SelectionOf(c, q, id, t)
        BY <2>1 DEF CInv, IInv, Typed, TypeOK, Process
    <2>4. proc'[c].cur = s
        BY <1>2 DEF NewSelection, CInv, IInv, Typed, TypeOK, Process
    <2> QED
        BY <1>1, <2>1, <2>2, <2>3, <2>4 DEF SeenByScheduler
<1>6. IsFiniteSet(AttemptsOf(r))
    BY FS_Subset DEF CInv, Even, AttemptsOf
<1>7. \A u \in Tasks(manifest[r]) : Count(s.task, AttemptsOf(r)) <= Count(u, AttemptsOf(r))
    BY <1>5, <1>6, ChoiceIsLeast
<1>8. /\ Pending(r)' = {s}
      /\ \A q \in Run \ {r} : Pending(q)' = Pending(q)
    BY <1>1, <1>2, <1>4 DEF Pending, NewSelection
<1>9. ChosenEvenly'
    <2> SUFFICES ASSUME NEW q \in Run, NEW p \in Pending(q)', NEW u \in Tasks(manifest'[q])
                 PROVE  Count(p.task, AttemptsOf(q)') <= Count(u, AttemptsOf(q)')
        BY DEF ChosenEvenly
    <2>1. CASE q = r
        BY <1>3, <1>4, <1>7, <1>8, <2>1
    <2>2. CASE q # r
        BY <1>3, <1>4, <1>8, <2>2 DEF CInv, Even, ChosenEvenly
    <2> QED
        BY <2>1, <2>2
<1> QED
    BY <1>3, <1>4, <1>9 DEF Even, BalancedCoverage, CInv

\* The record counts for the task that had fewest, and nothing of its run is
\* pending any more.
LEMMA AppendEven ==
    ASSUME CInv, NEW c \in Controller, AppendAttempt(c)
    PROVE  Even'
<1> PICK d : d = proc[c].draft
    OBVIOUS
<1> PICK s \in Selections : s = proc[c].cur
    BY InHand DEF CInv, AppendAttempt, Working
<1> PICK r : r = s.run
    OBVIOUS
<1>1. attempts' = attempts \union {d} /\ UNCHANGED <<manifest, journal>>
    BY DEF AppendAttempt
<1>2. /\ ClaimOf(d) = ClaimOf(s) /\ ~Recorded(s.id) /\ s.run = proc[c].inv.run
      /\ \A u \in Selections : u.run = r /\ u # s => Recorded(u.id)
    BY InHand DEF CInv, AppendAttempt, Working, Position
<1>3. d.run = r /\ d.id = s.id /\ d.task = s.task
    BY <1>2 DEF ClaimOf
<1>4. r \in Run /\ s \in Pending(r)
    BY <1>2, SelectionsType DEF CInv, IInv, Typed, Selection, Pending
<1>5. d \notin attempts
    BY <1>2, <1>3 DEF Recorded
<1>6. \A u \in Tasks(manifest[r]) : Count(s.task, AttemptsOf(r)) <= Count(u, AttemptsOf(r))
    BY <1>4 DEF CInv, Even, ChosenEvenly
<1>7. /\ AttemptsOf(r)' = AttemptsOf(r) \union {d}
      /\ \A q \in Run \ {r} : AttemptsOf(q)' = AttemptsOf(q)
    BY <1>1, <1>3 DEF AttemptsOf
<1>8. /\ Pending(r)' = {}
      /\ \A q \in Run : Pending(q)' \subseteq Pending(q)
    <2>1. Selections' = Selections
        BY <1>1 DEF Selections
    <2>2. \A id : Recorded(id) \/ id = s.id => Recorded(id)'
        BY <1>1, <1>3 DEF Recorded
    <2> QED
        BY <1>2, <2>1, <2>2 DEF Pending
<1>9. IsFiniteSet(AttemptsOf(r)) /\ d \notin AttemptsOf(r)
    BY <1>5, FS_Subset DEF CInv, Even, AttemptsOf
<1>10. \A u : /\ Count(u, AttemptsOf(r)) \in Nat
              /\ Count(u, AttemptsOf(r)') = IF u = s.task THEN Count(u, AttemptsOf(r)) + 1
                                            ELSE Count(u, AttemptsOf(r))
    BY <1>3, <1>7, <1>9, CountType, CountAdds
<1>11. BalancedCoverage'
    <2> SUFFICES ASSUME NEW q \in Run, manifest[q] # None,
                        NEW t \in Tasks(manifest[q]), NEW u \in Tasks(manifest[q])
                 PROVE  Count(t, AttemptsOf(q)') <= Count(u, AttemptsOf(q)') + 1
        BY <1>1 DEF BalancedCoverage
    <2>1. Count(t, AttemptsOf(q)) <= Count(u, AttemptsOf(q)) + 1
        BY DEF CInv, Even, BalancedCoverage
    <2>2. CASE q = r
        BY <1>6, <1>10, <2>1, <2>2
    <2>3. CASE q # r
        BY <1>7, <2>1, <2>3
    <2> QED
        BY <2>2, <2>3
<1>12. ChosenEvenly'
    <2> SUFFICES ASSUME NEW q \in Run, NEW p \in Pending(q)', NEW u \in Tasks(manifest[q])
                 PROVE  Count(p.task, AttemptsOf(q)') <= Count(u, AttemptsOf(q)')
        BY <1>1 DEF ChosenEvenly
    <2>1. q # r
        BY <1>8
    <2> QED
        BY <1>7, <1>8, <2>1 DEF CInv, Even, ChosenEvenly
<1>13. IsFiniteSet(attempts')
    BY <1>1, FS_AddElement DEF CInv, Even
<1> QED
    BY <1>11, <1>12, <1>13 DEF Even

-----------------------------------------------------------------------------
(* The invariant, and what follows from it *)

LEMMA InitChoice == Init => CInv
<1> SUFFICES ASSUME Init PROVE CInv
    OBVIOUS
<1>1. \A c \in Controller : CacheState(proc[c]) /\ Judged(proc[c])
    BY DEF Init, Idle, CacheState, Judged, Working
<1>2. ImprovedBeatsAllBefore
    BY DEF Init, ImprovedBeatsAllBefore
<1>3. Selections = {}
    BY DEF Init, Selections
<1>4. Even
    BY <1>3, FS_EmptySet DEF Init, Even, ChosenEvenly, BalancedCoverage, Pending
<1> QED
    BY <1>1, <1>2, <1>4, InitInv DEF CInv

LEMMA NextChoice == CInv /\ [Next]_vars => CInv'
<1> SUFFICES ASSUME CInv, [Next]_vars PROVE CInv'
    OBVIOUS
<1>1. IInv'
    BY NextInv DEF CInv
<1>2. ASSUME Selections' = Selections, UNCHANGED <<attempts, manifest>>
      PROVE  Even' /\ ImprovedBeatsAllBefore'
    BY <1>2 DEF CInv, Even, ChosenEvenly, BalancedCoverage, ImprovedBeatsAllBefore, Pending,
       AttemptsOf, Recorded
<1>3. CASE UNCHANGED vars
    <2>1. Selections' = Selections
        BY <1>3 DEF vars, durable, Selections
    <2>2. \A c \in Controller : CacheState(proc[c])' /\ Judged(proc[c])'
        BY <1>3 DEF vars, durable, CInv, CacheState, Judged, Saved, AttemptsOf
    <2> QED
        BY <1>1, <1>2, <1>3, <2>1, <2>2 DEF CInv, vars, durable
<1>4. ASSUME NEW c \in Controller, Invoke(c) \/ Step(c) \/ Crash(c)
      PROVE  CInv'
    <2>1. \A d \in Controller : CacheState(proc[d])' /\ Judged(proc[d])'
        BY <1>4, CacheInv, JudgedInv
    <2>2. CASE OpenRun(c) \/ Choose(c)
        <3>1. ImprovedBeatsAllBefore'
            BY <2>2 DEF OpenRun, Choose, CInv, ImprovedBeatsAllBefore
        <3> QED
            BY <1>1, <2>1, <2>2, <3>1, OpenRunEven, ChooseEven DEF CInv
    <2>3. CASE AppendAttempt(c)
        BY <1>1, <2>1, <2>3, ImprovedInv, AppendEven DEF CInv
    <2>4. CASE ~OpenRun(c) /\ ~Choose(c) /\ ~AppendAttempt(c)
        <3>1. Selections' = Selections /\ UNCHANGED <<attempts, manifest>>
            BY <1>4, <2>4, Kept DEF CInv
        <3> QED
            BY <1>1, <1>2, <2>1, <3>1 DEF CInv
    <2> QED
        BY <2>2, <2>3, <2>4
<1> QED
    BY <1>3, <1>4 DEF Next

\* The invariant of what is decided from memory holds in every reachable state.
THEOREM ChoiceInductive == Spec => []CInv
BY InitChoice, NextChoice, PTL DEF Spec

\* While an attempt executes, the lessons in memory are the saved ones.
THEOREM CacheNeverStale == Spec => []CacheIsCurrent
<1>1. CInv => CacheIsCurrent
    BY DEF CInv, CacheState, Saved, CacheIsCurrent
<1> QED
    BY <1>1, ChoiceInductive, PTL

\* An attempt is marked improved exactly if it beats all that came before it.
THEOREM ImprovementIsSound == Spec => []ImprovedBeatsAllBefore
<1>1. CInv => ImprovedBeatsAllBefore
    BY DEF CInv
<1> QED
    BY <1>1, ChoiceInductive, PTL

\* Recovered or not, the attempts of a run spread evenly over its tasks.
THEOREM CoverageIsEven == Spec => []BalancedCoverage
<1>1. CInv => BalancedCoverage
    BY DEF CInv, Even
<1> QED
    BY <1>1, ChoiceInductive, PTL
=============================================================================
