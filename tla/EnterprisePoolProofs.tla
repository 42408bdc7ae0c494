------------------------ MODULE EnterprisePoolProofs ------------------------
(***************************************************************************)
(* Theorems about OpenHandsWorker and about EnterprisePool, which extends  *)
(* it: for any attempts, start tasks, threads, sandboxes and grouping      *)
(* strategies, every launch lock and any number of crashes and faults.     *)
(***************************************************************************)
EXTENDS EnterprisePool, FiniteSetTheorems, TLAPS

Before == {"new", "gate", "launch"}
Attached == {"wait", "answer", "dwell", "cleanup", "pausing"}
Leaving == {"cleanup", "pausing", "over"}

\* The answer was read and the worker returned it.
Done(a) == phase[a] = "completed" \/ (phase[a] = "over" /\ ending[a] = "returned")

-----------------------------------------------------------------------------
(* The worker: its inductive invariant *)

\* Conversations and sandboxes: what is placed has been started, what runs is placed.
ConvInv ==
    \A s \in StartTask :
        /\ conv[s].box # None => conv[s].state # "unused" /\ sandbox[conv[s].box] # "none"
        /\ conv[s].state \in {"running", "terminal"} => conv[s].box # None

\* What the journal and the phase of an attempt say of its start task and its sandbox.
Placement(a) ==
    /\ phase[a] \in Before => start[a] = None
    /\ phase[a] \in {"posted", "poll"} \union Attached => start[a] # None
    /\ start[a] # None => conv[start[a]].state # "unused"
    /\ phase[a] \in Before \union {"posted"} => journal[a] = {}
    /\ phase[a] \notin Before \union {"posted"} /\ start[a] # None =>
           "start_task_created" \in journal[a]
    /\ journal[a] # {} => "start_task_created" \in journal[a] /\ start[a] # None
    /\ "conversation_ready" \in journal[a] => conv[start[a]].box # None
    /\ phase[a] \in Attached \/ Done(a) =>
          /\ "conversation_ready" \in journal[a]
          /\ seen[a] = conv[start[a]].box
    /\ ending[a] # None <=> phase[a] \in Leaving \union {"escaped"} \union Recorded
    /\ phase[a] = "failed" => ending[a] \in {"raised", "broken"}

Paused(a) ==
    strategy = "NO_GROUPING" /\ Done(a) =>
        sandbox[seen[a]] \in {"paused", "lost"} \/ "sandbox_pause_failed" \in journal[a]

Kept(a) ==
    "conversation_terminal" \in journal[a] =>
        conv[start[a]].state = "terminal" /\ ending[a] # "raised"

Dwelt(a) ==
    /\ skipDwell[a] => dwells[a] > 0 \/ "sandbox_pause_requested" \in journal[a]
    /\ "controlled_dwell_completed" \in journal[a] => dwells[a] > 0
    /\ ControlledDwell /\ phase[a] = "cleanup" /\ ending[a] = "returned" =>
          dwells[a] > 0 \/ "sandbox_pause_requested" \in journal[a]

AttemptInv(a) == Placement(a) /\ Paused(a) /\ Kept(a) /\ Dwelt(a)

Used == {s \in StartTask : conv[s].state # "unused"}

\* Attempts that have passed the gate and may still get a sandbox.
Credits ==
    {a \in InFlight : phase[a] = "launch" \/ (start[a] # None /\ conv[start[a]].box = None)}

\* Start tasks with a sandbox that nobody waits for and nobody has seen ready.
Loose ==
    {s \in StartTask :
        /\ conv[s].box # None
        /\ \A a \in Attempt : start[a] = s =>
              a \notin InFlight /\ "conversation_ready" \notin journal[a]}

Capacity ==
    /\ IsFiniteSet(Active) /\ IsFiniteSet(InFlight) /\ IsFiniteSet(Used)
    /\ Cardinality(InFlight) <= Dispatch
    /\ Cardinality(Active) + Cardinality(Credits)
          <= (LaunchLockAt - 1) + Dispatch + Cardinality(Loose)

IInv ==
    /\ TypeOK
    /\ ConvInv
    /\ \A a \in Attempt : AttemptInv(a)
    /\ Capacity

-----------------------------------------------------------------------------
(* Helpers *)

\* The platform does not take back what it did.
Forward ==
    /\ strategy' = strategy /\ faults' >= faults
    /\ \A s \in StartTask :
          /\ conv[s].state # "unused" => conv'[s].state # "unused"
          /\ conv[s].box # None => conv'[s].box = conv[s].box
          /\ conv[s].state = "terminal" => conv'[s].state = "terminal"
    /\ \A b \in Sandbox : sandbox[b] \in {"paused", "lost"} => sandbox'[b] \in {"paused", "lost"}

Same(a) ==
    /\ phase'[a] = phase[a] /\ ending'[a] = ending[a] /\ skipDwell'[a] = skipDwell[a]
    /\ journal'[a] = journal[a] /\ start'[a] = start[a] /\ seen'[a] = seen[a]
    /\ dwells'[a] = dwells[a]

LEMMA SameKeeps ==
    ASSUME IInv, TypeOK', Forward, NEW a \in Attempt, Same(a)
    PROVE  AttemptInv(a)'
<1>1. AttemptInv(a) /\ start[a] \in StartTask \union {None} /\ seen[a] \in Sandbox \union {None}
    BY DEF IInv, TypeOK
<1>2. start[a] # None => start[a] \in StartTask
    BY <1>1
<1>3. Done(a)' <=> Done(a)
    BY DEF Done, Same
<1>4. Placement(a)'
    BY <1>1, <1>2, <1>3 DEF AttemptInv, Placement, Forward, Same
<1>5. Paused(a)'
    <2>1. Done(a) => seen[a] \in Sandbox
        <3>1. Done(a) => seen[a] = conv[start[a]].box /\ conv[start[a]].box # None
            BY <1>1 DEF AttemptInv, Placement
        <3> QED
            BY <1>1, <3>1
    <2> QED
        BY <1>1, <1>3, <2>1 DEF AttemptInv, Paused, Forward, Same
<1>6. Kept(a)'
    <2>1. "conversation_terminal" \in journal[a] => start[a] \in StartTask
        BY <1>1 DEF AttemptInv, Placement
    <2> QED
        BY <1>1, <2>1 DEF AttemptInv, Kept, Forward, Same
<1>7. Dwelt(a)'
    BY <1>1 DEF AttemptInv, Dwelt, Same
<1> QED
    BY <1>4, <1>5, <1>6, <1>7 DEF AttemptInv

\* Sizes of the sets that the launch lock is about.
LEMMA Sizes ==
    ASSUME IInv
    PROVE  /\ IsFiniteSet(Credits) /\ IsFiniteSet(Loose)
           /\ Cardinality(Credits) \in Nat /\ Cardinality(Loose) \in Nat
           /\ Cardinality(Active) \in Nat /\ Cardinality(InFlight) \in Nat
<1>1. Credits \subseteq InFlight
    BY DEF Credits
<1>2. Loose \subseteq Used
    BY DEF Loose, Used, IInv, ConvInv
<1>3. IsFiniteSet(Credits) /\ IsFiniteSet(Loose)
    BY <1>1, <1>2, FS_Subset DEF IInv, Capacity
<1> QED
    BY <1>3, FS_CardinalityType DEF IInv, Capacity

\* No new sandbox and no new claim to one.
LEMMA CapacityKept ==
    ASSUME IInv, Active' \subseteq Active, InFlight' \subseteq InFlight, IsFiniteSet(Used'),
           Credits' \subseteq Credits, Loose \subseteq Loose', Loose' \subseteq Used'
    PROVE  Capacity'
<1>1. /\ IsFiniteSet(Active') /\ Cardinality(Active') <= Cardinality(Active)
      /\ IsFiniteSet(InFlight') /\ Cardinality(InFlight') <= Cardinality(InFlight)
    BY FS_Subset DEF IInv, Capacity
<1>2. IsFiniteSet(Credits') /\ Cardinality(Credits') <= Cardinality(Credits)
    BY Sizes, FS_Subset
<1>3. IsFiniteSet(Loose') /\ Cardinality(Loose) <= Cardinality(Loose')
    <2>1. IsFiniteSet(Loose')
        BY <1>1, FS_Subset
    <2> QED
        BY <2>1, FS_Subset
<1>4. /\ Cardinality(Active') \in Nat /\ Cardinality(InFlight') \in Nat
      /\ Cardinality(Credits') \in Nat /\ Cardinality(Loose') \in Nat
    BY <1>1, <1>2, <1>3, FS_CardinalityType
<1> QED
    BY <1>1, <1>2, <1>3, <1>4, Sizes, CapacityAssumption DEF IInv, Capacity

\* An attempt in flight goes to another place; it was not waiting to launch there.
LEMMA InFlightCapacity ==
    ASSUME IInv, NEW a \in Attempt, a \in InFlight, phase'[a] # "launch",
           phase'[a] \notin {"new", "escaped"} \union Recorded,
           \A b \in Attempt \ {a} : phase'[b] = phase[b] /\ journal'[b] = journal[b],
           UNCHANGED <<start, conv>>, Active' \subseteq Active
    PROVE  Capacity'
<1>1. InFlight' = InFlight
    BY DEF InFlight
<1>2. Credits' \subseteq Credits
    <2> SUFFICES ASSUME NEW x \in Credits'
                 PROVE  x \in Credits
        OBVIOUS
    <2>1. x \in InFlight /\ x \in Attempt
        BY <1>1 DEF Credits, InFlight
    <2>2. phase'[x] = "launch" => phase[x] = "launch"
        BY <2>1
    <2> QED
        BY <2>1, <2>2 DEF Credits
<1>3. Loose \subseteq Loose' /\ Used' = Used
    BY <1>1 DEF Loose, Used
<1>4. Loose' \subseteq Used'
    BY DEF Loose, Used, IInv, ConvInv
<1> QED
    BY <1>1, <1>2, <1>3, <1>4, CapacityKept DEF IInv, Capacity

\* Such a step keeps the invariant if it keeps that of its own attempt.
LEMMA InFlightKeeps ==
    ASSUME IInv, NEW a \in Attempt, a \in InFlight, phase'[a] # "launch",
           phase'[a] \notin {"new", "escaped"} \union Recorded,
           \A b \in Attempt \ {a} : Same(b),
           UNCHANGED <<start, conv, strategy>>, faults' >= faults,
           \A b \in Sandbox : sandbox'[b] = sandbox[b] \/
               (sandbox[b] # "none" /\ sandbox'[b] \in {"paused", "lost"}),
           TypeOK', AttemptInv(a)'
    PROVE  IInv'
<1>1. Active' \subseteq Active
    BY DEF Active
<1>2. Capacity'
    BY <1>1, InFlightCapacity DEF Same
<1>3. Forward
    BY DEF Forward
<1>4. \A b \in Attempt : AttemptInv(b)'
    BY <1>3, SameKeeps
<1>5. ConvInv'
    <2>1. \A s \in StartTask : conv[s].box \in Sandbox \union {None}
        BY DEF IInv, TypeOK
    <2> QED
        BY <2>1 DEF IInv, ConvInv
<1> QED
    BY <1>2, <1>4, <1>5 DEF IInv

\* What is known of an attempt and of the state around it.
LEMMA Facts ==
    ASSUME IInv, NEW a \in Attempt
    PROVE  /\ AttemptInv(a) /\ TypeOK /\ ConvInv
           /\ start[a] \in StartTask \union {None} /\ faults \in Nat /\ dwells[a] \in Nat
           /\ start[a] # None => /\ start[a] \in StartTask
                                 /\ conv[start[a]].box \in Sandbox \union {None}
BY FaultAssumption DEF IInv, TypeOK

LEMMA FaultFacts ==
    ASSUME IInv, Fault
    PROVE  faults' \in 0..MaxFaults /\ faults' > 0 /\ faults' >= faults
BY FaultAssumption DEF IInv, TypeOK, Fault

-----------------------------------------------------------------------------
(* Steps of an attempt in flight *)

LEMMA CheckCapacityKeeps ==
    ASSUME IInv, NEW a \in Attempt, CheckCapacity(a)
    PROVE  IInv'
<1>1. phase[a] = "gate" /\ a \in InFlight
      /\ UNCHANGED <<skipDwell, journal, start, seen, dwells, platformVars, crashes>>
    BY DEF CheckCapacity, InFlight, Recorded
<1>2. \A b \in Attempt \ {a} : Same(b)
    BY DEF CheckCapacity, CallFails, Goes, Leaves, Same, IInv, TypeOK
<1>3. CASE LaunchAllowed /\ Goes(a, "launch") /\ UNCHANGED <<ending, faults>>
    <2>1. phase'[a] = "launch" /\ \A b \in Attempt \ {a} : phase'[b] = phase[b]
        BY <1>3 DEF Goes, IInv, TypeOK
    <2>2. TypeOK'
        BY <1>1, <1>3 DEF Goes, IInv, TypeOK, Phase, Ending, platformVars
    <2>3. Forward /\ ConvInv'
        BY <1>1, <1>3, Facts DEF Forward, ConvInv, platformVars
    <2>4. AttemptInv(a)'
        BY <1>1, <1>3, <2>1, Facts
           DEF AttemptInv, Placement, Paused, Kept, Dwelt, Done, Before, Attached, Leaving, Recorded, Ending,
           platformVars
    <2>5. \A b \in Attempt : AttemptInv(b)'
        BY <1>2, <2>2, <2>3, <2>4, SameKeeps
    <2>6. InFlight' = InFlight /\ Active' = Active /\ Used' = Used /\ Loose' = Loose
        BY <1>1, <2>1 DEF InFlight, Active, Used, Loose, platformVars, Recorded
    <2>7. Cardinality(Active) < LaunchLockAt
        BY <1>3 DEF LaunchAllowed
    <2>8. Credits' \subseteq InFlight
        BY <2>6 DEF Credits
    <2>9. Cardinality(Credits') \in Nat /\ Cardinality(Credits') <= Dispatch
        BY <2>8, Sizes, FS_Subset, FS_CardinalityType, CapacityAssumption DEF IInv, Capacity
    <2>10. Capacity'
        BY <2>6, <2>7, <2>9, Sizes, CapacityAssumption DEF IInv, Capacity
    <2> QED
        BY <2>2, <2>3, <2>5, <2>10 DEF IInv
<1>4. ASSUME NEW e \in {"raised", "broken", "escaped"}, Leaves(a, e, "over"),
             faults' >= faults, faults' \in 0..MaxFaults
      PROVE  IInv'
    <2>1. phase'[a] = "over" /\ ending'[a] = e
        BY <1>4 DEF Goes, Leaves, IInv, TypeOK
    <2>2. TypeOK'
        BY <1>1, <1>4 DEF Goes, Leaves, IInv, TypeOK, Phase, Ending, platformVars
    <2>3. AttemptInv(a)'
        BY <1>1, <1>4, <2>1, Facts, NoneAssumption
           DEF AttemptInv, Placement, Paused, Kept, Dwelt, Done, Before, Attached, Leaving, Recorded, Ending,
           platformVars
    <2> QED
        BY <1>1, <1>2, <1>4, <2>1, <2>2, <2>3, InFlightKeeps DEF platformVars, Recorded
<1>5. CASE UNCHANGED faults
    BY <1>3, <1>4, <1>5, FaultAssumption DEF CheckCapacity, CallFails, IInv, TypeOK, Fault
<1>6. CASE CallFails(a, "over")
    BY <1>4, <1>6, FaultFacts DEF CallFails
<1> QED
    BY <1>3, <1>5, <1>6 DEF CheckCapacity

LEMMA JournalStartKeeps ==
    ASSUME IInv, NEW a \in Attempt, JournalStart(a)
    PROVE  IInv'
<1>1. /\ phase[a] = "posted"
      /\ UNCHANGED <<ending, skipDwell, start, seen, dwells, platformVars>> /\ faults' >= faults
    BY FaultFacts, Facts DEF JournalStart
<1>2. /\ phase'[a] = "poll"
      /\ journal'[a] = journal[a] \union {"start_task_created"}
    BY DEF JournalStart, Goes, Leaves, Journals, IInv, TypeOK
<1>3. \A b \in Attempt \ {a} : Same(b)
    BY DEF JournalStart, Goes, Leaves, Journals, Same, IInv, TypeOK
<1>4. TypeOK'
    BY <1>1, FaultFacts
       DEF JournalStart, Goes, Leaves, Journals, IInv, TypeOK, Phase, Ending, Kind, platformVars
<1>5. a \in InFlight
    BY <1>1 DEF InFlight, Recorded
<1>6. AttemptInv(a)'
    BY <1>1, <1>2, Facts, NoneAssumption
       DEF AttemptInv, Placement, Paused, Kept, Dwelt, Done, Before, Attached, Leaving, Recorded, Ending,
           platformVars
<1> QED
    BY <1>1, <1>2, <1>3, <1>4, <1>5, <1>6, InFlightKeeps DEF platformVars, Recorded

LEMMA SeeReadyKeeps ==
    ASSUME IInv, NEW a \in Attempt, SeeReady(a)
    PROVE  IInv'
<1>1. /\ phase[a] = "poll" /\ conv[start[a]].state \in {"running", "terminal"}
      /\ UNCHANGED <<ending, skipDwell, start, dwells, platformVars>> /\ faults' >= faults
    BY FaultFacts, Facts DEF SeeReady
<1>2. /\ phase'[a] = "wait"
      /\ journal'[a] = journal[a] \union {"conversation_ready"}
      /\ seen'[a] = conv[start[a]].box
    BY DEF SeeReady, Goes, Leaves, Journals, IInv, TypeOK
<1>3. \A b \in Attempt \ {a} : Same(b)
    BY DEF SeeReady, Goes, Leaves, Journals, Same, IInv, TypeOK
<1>4. start[a] \in StartTask /\ conv[start[a]].box # None /\ conv[start[a]].box \in Sandbox
    BY <1>1, Facts DEF ConvInv, AttemptInv, Placement
<1>5. TypeOK'
    BY <1>1, <1>4, FaultFacts
       DEF SeeReady, Goes, Leaves, Journals, IInv, TypeOK, Phase, Ending, Kind, platformVars
<1>6. a \in InFlight
    BY <1>1 DEF InFlight, Recorded
<1>7. AttemptInv(a)'
    BY <1>1, <1>2, <1>4, Facts, NoneAssumption
       DEF AttemptInv, Placement, Paused, Kept, Dwelt, Done, Before, Attached, Leaving, Recorded, Ending,
           platformVars
<1> QED
    BY <1>1, <1>2, <1>3, <1>5, <1>6, <1>7, InFlightKeeps DEF platformVars, Recorded

LEMMA StartFailsKeeps ==
    ASSUME IInv, NEW a \in Attempt, StartFails(a)
    PROVE  IInv'
<1>1. /\ phase[a] = "poll"
      /\ UNCHANGED <<skipDwell, start, dwells, platformVars>> /\ faults' >= faults
    BY FaultFacts, Facts DEF StartFails, CallFails, NamedSandbox
<1>2. /\ phase'[a] = "over"
      /\ \/ conv[start[a]].state \in {"starting", "failed"} /\ ending'[a] = "raised"
         \/ ending'[a] \in {"broken", "escaped"}
      /\ journal'[a] = journal[a] \union {"conversation_start_failed"}
    BY DEF StartFails, CallFails, Goes, Leaves, Journals, IInv, TypeOK
<1>3. \A b \in Attempt \ {a} : Same(b)
    BY DEF StartFails, CallFails, Goes, Leaves, Journals, Same, IInv, TypeOK
<1>4. start[a] \in StartTask /\ conv[start[a]].box \in Sandbox \union {None}
    BY <1>1, Facts DEF ConvInv, AttemptInv, Placement
<1>5. TypeOK'
    BY <1>1, <1>4, FaultFacts
       DEF StartFails, CallFails, Goes, Leaves, Journals, IInv, TypeOK, Phase, Ending, Kind, platformVars, NamedSandbox
<1>6. a \in InFlight
    BY <1>1 DEF InFlight, Recorded
<1>7. AttemptInv(a)'
    BY <1>1, <1>2, <1>4, Facts, NoneAssumption
       DEF AttemptInv, Placement, Paused, Kept, Dwelt, Done, Before, Attached, Leaving, Recorded, Ending,
           platformVars
<1> QED
    BY <1>1, <1>2, <1>3, <1>5, <1>6, <1>7, InFlightKeeps DEF platformVars, Recorded

LEMMA SeeTerminalKeeps ==
    ASSUME IInv, NEW a \in Attempt, SeeTerminal(a)
    PROVE  IInv'
<1>1. /\ phase[a] = "wait" /\ conv[start[a]].state = "terminal"
      /\ UNCHANGED <<ending, skipDwell, start, seen, dwells, platformVars>> /\ faults' >= faults
    BY FaultFacts, Facts DEF SeeTerminal, IsTerminal
<1>2. /\ phase'[a] = "answer"
      /\ journal'[a] = journal[a] \union {"conversation_terminal"}
    BY DEF SeeTerminal, Goes, Leaves, Journals, IInv, TypeOK
<1>3. \A b \in Attempt \ {a} : Same(b)
    BY DEF SeeTerminal, Goes, Leaves, Journals, Same, IInv, TypeOK
<1>4. TypeOK'
    BY <1>1, FaultFacts
       DEF SeeTerminal, Goes, Leaves, Journals, IInv, TypeOK, Phase, Ending, Kind, platformVars, IsTerminal
<1>5. a \in InFlight
    BY <1>1 DEF InFlight, Recorded
<1>6. AttemptInv(a)'
    BY <1>1, <1>2, Facts, NoneAssumption
       DEF AttemptInv, Placement, Paused, Kept, Dwelt, Done, Before, Attached, Leaving, Recorded, Ending,
           platformVars
<1> QED
    BY <1>1, <1>2, <1>3, <1>4, <1>5, <1>6, InFlightKeeps DEF platformVars, Recorded

LEMMA WaitFailsKeeps ==
    ASSUME IInv, NEW a \in Attempt, WaitFails(a)
    PROVE  IInv'
<1>1. /\ phase[a] = "wait"
      /\ UNCHANGED <<skipDwell, journal, start, seen, dwells, platformVars>> /\ faults' >= faults
    BY FaultFacts, Facts DEF WaitFails, IsTerminal
<1>2. /\ phase'[a] = "cleanup"
      /\ \/ conv[start[a]].state # "terminal" /\ ending'[a] = "raised"
         \/ ending'[a] = "broken"
    BY DEF WaitFails, IsTerminal, Goes, Leaves, Journals, IInv, TypeOK
<1>3. \A b \in Attempt \ {a} : Same(b)
    BY DEF WaitFails, Goes, Leaves, Journals, Same, IInv, TypeOK
<1>4. TypeOK'
    BY <1>1, FaultFacts
       DEF WaitFails, Goes, Leaves, Journals, IInv, TypeOK, Phase, Ending, Kind, platformVars, IsTerminal
<1>5. a \in InFlight
    BY <1>1 DEF InFlight, Recorded
<1>6. AttemptInv(a)'
    BY <1>1, <1>2, Facts, NoneAssumption
       DEF AttemptInv, Placement, Paused, Kept, Dwelt, Done, Before, Attached, Leaving, Recorded, Ending,
           platformVars
<1> QED
    BY <1>1, <1>2, <1>3, <1>4, <1>5, <1>6, InFlightKeeps DEF platformVars, Recorded

LEMMA ReadAnswerKeeps ==
    ASSUME IInv, NEW a \in Attempt, ReadAnswer(a)
    PROVE  IInv'
<1>1. /\ phase[a] = "answer"
      /\ UNCHANGED <<skipDwell, journal, start, seen, dwells, platformVars>> /\ faults' >= faults
    BY FaultFacts, Facts DEF ReadAnswer, CallFails
<1>2. \/ phase'[a] = "dwell" /\ ending'[a] = ending[a]
      \/ phase'[a] = "cleanup" /\ ending'[a] \in {"broken", "escaped"}
    BY FaultFacts DEF ReadAnswer, CallFails, Goes, Leaves, IInv, TypeOK
<1>3. \A b \in Attempt \ {a} : Same(b)
    BY DEF ReadAnswer, CallFails, Goes, Leaves, Same, IInv, TypeOK
<1>4. TypeOK'
    BY <1>1, FaultFacts DEF ReadAnswer, CallFails, Goes, Leaves, IInv, TypeOK, Phase, Ending, platformVars
<1>5. a \in InFlight
    BY <1>1 DEF InFlight, Recorded
<1>6. AttemptInv(a)'
    BY <1>1, <1>2, Facts, NoneAssumption
       DEF AttemptInv, Placement, Paused, Kept, Dwelt, Done, Before, Attached, Leaving, Recorded, Ending,
           platformVars
<1> QED
    BY <1>1, <1>2, <1>3, <1>4, <1>5, <1>6, InFlightKeeps DEF platformVars, Recorded

LEMMA ReturnKeeps ==
    ASSUME IInv, NEW a \in Attempt, Return(a)
    PROVE  IInv'
<1>1. /\ phase[a] = "dwell" /\ (skipDwell[a] \/ ~ControlledDwell)
      /\ UNCHANGED <<skipDwell, journal, start, seen, dwells, platformVars>> /\ faults' >= faults
    BY FaultFacts, Facts DEF Return
<1>2. /\ phase'[a] = "cleanup"
      /\ ending'[a] = "returned"
    BY DEF Return, Goes, Leaves, Journals, IInv, TypeOK
<1>3. \A b \in Attempt \ {a} : Same(b)
    BY DEF Return, Goes, Leaves, Journals, Same, IInv, TypeOK
<1>4. TypeOK'
    BY <1>1, FaultFacts
       DEF Return, Goes, Leaves, Journals, IInv, TypeOK, Phase, Ending, Kind, platformVars
<1>5. a \in InFlight
    BY <1>1 DEF InFlight, Recorded
<1>6. AttemptInv(a)'
    BY <1>1, <1>2, Facts, NoneAssumption
       DEF AttemptInv, Placement, Paused, Kept, Dwelt, Done, Before, Attached, Leaving, Recorded, Ending,
           platformVars
<1> QED
    BY <1>1, <1>2, <1>3, <1>4, <1>5, <1>6, InFlightKeeps DEF platformVars, Recorded

LEMMA DwellKeeps ==
    ASSUME IInv, NEW a \in Attempt, Dwell(a)
    PROVE  IInv'
<1>1. /\ phase[a] = "dwell"
      /\ UNCHANGED <<skipDwell, start, seen, platformVars>> /\ faults' >= faults
    BY FaultFacts, Facts DEF Dwell
<1>2. /\ phase'[a] = "cleanup"
      /\ ending'[a] = "returned"
      /\ dwells'[a] = dwells[a] + 1
      /\ \/ journal'[a] = journal[a]
         \/ journal'[a] = journal[a] \union {"controlled_dwell_completed"}
    BY DEF Dwell, Goes, Leaves, Journals, IInv, TypeOK
<1>3. \A b \in Attempt \ {a} : Same(b)
    BY DEF Dwell, Goes, Leaves, Journals, Same, IInv, TypeOK
<1>4. TypeOK'
    BY <1>1, FaultFacts
       DEF Dwell, Goes, Leaves, Journals, IInv, TypeOK, Phase, Ending, Kind, platformVars
<1>5. a \in InFlight
    BY <1>1 DEF InFlight, Recorded
<1>6. AttemptInv(a)'
    BY <1>1, <1>2, Facts, NoneAssumption
       DEF AttemptInv, Placement, Paused, Kept, Dwelt, Done, Before, Attached, Leaving, Recorded, Ending,
           platformVars
<1> QED
    BY <1>1, <1>2, <1>3, <1>4, <1>5, <1>6, InFlightKeeps DEF platformVars, Recorded

LEMMA RequestPauseKeeps ==
    ASSUME IInv, NEW a \in Attempt, RequestPause(a)
    PROVE  IInv'
<1>1. /\ phase[a] = "cleanup"
      /\ UNCHANGED <<ending, skipDwell, start, seen, dwells, platformVars>> /\ faults' >= faults
    BY FaultFacts, Facts DEF RequestPause
<1>2. /\ \/ /\ strategy = "NO_GROUPING" /\ phase'[a] = "pausing"
            /\ journal'[a] = journal[a] \union {"sandbox_pause_requested"}
         \/ strategy # "NO_GROUPING" /\ phase'[a] = "over" /\ journal'[a] = journal[a]
    BY DEF RequestPause, PauseDue, PauseAfterAttempt, Goes, Journals, IInv, TypeOK
<1>3. \A b \in Attempt \ {a} : Same(b)
    BY DEF RequestPause, Goes, Leaves, Journals, Same, IInv, TypeOK
<1>4. TypeOK'
    BY <1>1, FaultFacts
       DEF RequestPause, Goes, Leaves, Journals, IInv, TypeOK, Phase, Ending, Kind, platformVars
<1>5. a \in InFlight
    BY <1>1 DEF InFlight, Recorded
<1>6. AttemptInv(a)'
    BY <1>1, <1>2, Facts, NoneAssumption
       DEF AttemptInv, Placement, Paused, Kept, Dwelt, Done, Before, Attached, Leaving, Recorded, Ending,
           platformVars
<1> QED
    BY <1>1, <1>2, <1>3, <1>4, <1>5, <1>6, InFlightKeeps DEF platformVars, Recorded

LEMMA PauseKeeps ==
    ASSUME IInv, NEW a \in Attempt, Pause(a)
    PROVE  IInv'
<1>1. phase[a] = "pausing" /\ UNCHANGED <<skipDwell, start, seen, dwells, conv, strategy, crashes>>
    BY DEF Pause
<1>2. seen[a] \in Sandbox /\ sandbox[seen[a]] # "none" /\ ending[a] # None
    <2>1. /\ seen[a] = conv[start[a]].box /\ conv[start[a]].box # None /\ ending[a] # None
          /\ start[a] \in StartTask /\ conv[start[a]].box \in Sandbox
        BY <1>1, Facts DEF AttemptInv, Placement, Attached, Leaving
    <2> QED
        BY <2>1 DEF IInv, ConvInv
<1>3. ASSUME Pauses(seen[a], TRUE)
      PROVE  sandbox' = [sandbox EXCEPT ![seen[a]] = "paused"] /\ faults' = faults
    BY <1>3 DEF Pauses
<1>4. ASSUME Pauses(seen[a], FALSE)
      PROVE  /\ \/ sandbox' = sandbox
                \/ sandbox[seen[a]] # "none" /\ sandbox' = [sandbox EXCEPT ![seen[a]] = "paused"]
             /\ faults' = faults \/ Fault
    BY <1>4, <1>2 DEF Pauses, IInv, TypeOK
<1>5. /\ phase' = [phase EXCEPT ![a] = "over"]
      /\ \/ /\ journal' = [journal EXCEPT ![a] = journal[a] \union {"sandbox_paused"}]
            /\ ending' = ending /\ faults' = faults
            /\ sandbox' = [sandbox EXCEPT ![seen[a]] = "paused"]
         \/ /\ journal' = [journal EXCEPT ![a] = journal[a] \union {"sandbox_pause_failed"}]
            /\ ending' = ending
         \/ /\ journal' = journal /\ ending' = [ending EXCEPT ![a] = "escaped"]
            /\ faults' # faults
    <2>1. ASSUME Pauses(seen[a], TRUE), Journals(a, "sandbox_paused"), Goes(a, "over"), UNCHANGED ending
          PROVE  /\ phase' = [phase EXCEPT ![a] = "over"] /\ ending' = ending /\ faults' = faults
                 /\ journal' = [journal EXCEPT ![a] = journal[a] \union {"sandbox_paused"}]
                 /\ sandbox' = [sandbox EXCEPT ![seen[a]] = "paused"]
        BY <1>3, <2>1 DEF Journals, Goes
    <2>2. ASSUME Journals(a, "sandbox_pause_failed"), Goes(a, "over"), UNCHANGED ending
          PROVE  /\ phase' = [phase EXCEPT ![a] = "over"] /\ ending' = ending
                 /\ journal' = [journal EXCEPT ![a] = journal[a] \union {"sandbox_pause_failed"}]
        BY <2>2 DEF Journals, Goes
    <2>3. ASSUME faults' # faults, UNCHANGED journal, Leaves(a, "escaped", "over")
          PROVE  /\ phase' = [phase EXCEPT ![a] = "over"] /\ journal' = journal /\ faults' # faults
                 /\ ending' = [ending EXCEPT ![a] = "escaped"]
        BY <2>3 DEF Leaves, Goes
    <2> QED
        BY <2>1, <2>2, <2>3, Zenon DEF Pause
<1>6. /\ faults' \in 0..MaxFaults /\ faults' >= faults /\ (faults' # faults => faults' > 0)
       /\ \/ sandbox' = sandbox
          \/ sandbox[seen[a]] # "none" /\ sandbox' = [sandbox EXCEPT ![seen[a]] = "paused"]
    <2>1. Pauses(seen[a], TRUE) \/ Pauses(seen[a], FALSE)
        BY Zenon DEF Pause
    <2>2. faults' = faults \/ Fault
        BY <1>3, <1>4, <2>1
    <2>3. \/ sandbox' = sandbox
          \/ sandbox[seen[a]] # "none" /\ sandbox' = [sandbox EXCEPT ![seen[a]] = "paused"]
        BY <1>2, <1>3, <1>4, <2>1
    <2>4. faults \in 0..MaxFaults /\ MaxFaults \in Nat
        BY FaultAssumption DEF IInv, TypeOK
    <2> QED
        BY <2>2, <2>3, <2>4, FaultFacts
<1>7. \A b \in Attempt \ {a} : Same(b)
    BY <1>1, <1>5 DEF Same, IInv, TypeOK
<1>8. TypeOK'
    BY <1>1, <1>2, <1>5, <1>6 DEF IInv, TypeOK, Phase, Ending, Kind
<1>9. a \in InFlight
    BY <1>1 DEF InFlight, Recorded
<1>10. AttemptInv(a)'
    <2>0. /\ phase'[a] = "over" /\ sandbox \in [Sandbox -> {"none", "active", "paused", "lost"}]
          /\ \/ /\ journal'[a] = journal[a] \union {"sandbox_paused"}
                /\ ending'[a] = ending[a] /\ faults' = faults
                /\ sandbox'[seen[a]] = "paused"
             \/ /\ journal'[a] = journal[a] \union {"sandbox_pause_failed"}
                /\ ending'[a] = ending[a]
             \/ journal'[a] = journal[a] /\ ending'[a] = "escaped" /\ faults' # faults
        BY <1>2, <1>5 DEF IInv, TypeOK
    <2>1. Placement(a)'
        BY <1>1, <1>2, <2>0, Facts, NoneAssumption
           DEF AttemptInv, Placement, Done, Before, Attached, Leaving, Recorded, Ending
    <2>2. Paused(a)'
        BY <1>1, <2>0 DEF Paused, Done
    <2>3. Kept(a)'
        BY <1>1, <2>0, Facts DEF AttemptInv, Kept
    <2>4. Dwelt(a)'
        BY <1>1, <2>0, Facts DEF AttemptInv, Dwelt
    <2> QED
        BY <2>1, <2>2, <2>3, <2>4 DEF AttemptInv
<1>11. \A b \in Sandbox : sandbox'[b] = sandbox[b] \/
           (sandbox[b] # "none" /\ sandbox'[b] \in {"paused", "lost"})
    BY <1>2, <1>6 DEF IInv, TypeOK
<1>12. phase'[a] = "over"
    BY <1>5 DEF IInv, TypeOK
<1> QED
    BY <1>1, <1>7, <1>8, <1>9, <1>10, <1>6, <1>11, <1>12, InFlightKeeps DEF Recorded

LEMMA ResumeKeeps ==
    ASSUME IInv, NEW a \in Attempt, Resume(a)
    PROVE  IInv'
<1>1. phase[a] = "interrupted"
      /\ UNCHANGED <<ending, journal, start, seen, dwells, platformVars, crashes, faults>>
    BY DEF Resume
<1>2. \/ /\ "start_task_created" \in journal[a] /\ phase'[a] = "poll"
         /\ skipDwell'[a] = PriorDwellFinished(a)
      \/ "start_task_created" \notin journal[a] /\ phase'[a] = "gate" /\ skipDwell'[a] = skipDwell[a]
    BY DEF Resume, Goes, IInv, TypeOK
<1>3. \A b \in Attempt \ {a} : Same(b)
    BY DEF Resume, Goes, Same, IInv, TypeOK
<1>4. TypeOK'
    <2>1. PriorDwellFinished(a) \in BOOLEAN
        BY DEF PriorDwellFinished
    <2> QED
        BY <1>1, <2>1 DEF Resume, Goes, IInv, TypeOK, Phase, Ending, platformVars
<1>5. a \in InFlight
    BY <1>1 DEF InFlight, Recorded
<1>6. AttemptInv(a)'
    <2>1. Placement(a)'
        BY <1>1, <1>2, Facts
           DEF AttemptInv, Placement, Done, Before, Attached, Leaving, Recorded, Ending,
           platformVars
    <2>2. Paused(a)' /\ Kept(a)'
        BY <1>1, <1>2, Facts DEF AttemptInv, Paused, Kept, Done, platformVars
    <2>3. Dwelt(a)'
        BY <1>1, <1>2, Facts DEF AttemptInv, Dwelt, PriorDwellFinished
    <2> QED
        BY <2>1, <2>2, <2>3 DEF AttemptInv
<1> QED
    BY <1>1, <1>2, <1>3, <1>4, <1>5, <1>6, Facts, InFlightKeeps DEF platformVars, Recorded

-----------------------------------------------------------------------------
(* Steps that begin or end an attempt, and the crash *)

LEMMA BeginKeeps ==
    ASSUME IInv, NEW a \in Attempt, Begin(a)
    PROVE  IInv'
<1>1. /\ phase[a] = "new" /\ Cardinality(InFlight) < Dispatch
      /\ phase' = [phase EXCEPT ![a] = "gate"]
      /\ UNCHANGED <<ending, skipDwell, journal, start, seen, dwells, platformVars, crashes, faults>>
    BY DEF Begin, Goes
<1>2. phase'[a] = "gate" /\ \A b \in Attempt \ {a} : phase'[b] = phase[b]
    BY <1>1 DEF IInv, TypeOK
<1>3. TypeOK' /\ ConvInv' /\ Forward
    BY <1>1, Facts DEF IInv, TypeOK, ConvInv, Forward, Phase, platformVars
<1>4. AttemptInv(a)'
    BY <1>1, <1>2, Facts
       DEF AttemptInv, Placement, Paused, Kept, Dwelt, Done, Before, Attached, Leaving, Recorded, Ending,
           platformVars
<1>5. \A b \in Attempt \ {a} : Same(b)
    BY <1>1, <1>2 DEF Same
<1>6. \A b \in Attempt : AttemptInv(b)'
    BY <1>3, <1>4, <1>5, SameKeeps
<1>7. start[a] = None
    BY <1>1, Facts DEF AttemptInv, Placement, Before
<1>8. /\ InFlight' = InFlight \union {a} /\ a \notin InFlight
      /\ Active' = Active /\ Used' = Used
    BY <1>1, <1>2 DEF InFlight, Active, Used, platformVars, Recorded
<1>9. Credits' = Credits
    <2>1. \A b \in Attempt : (phase'[b] = "launch" <=> phase[b] = "launch")
        BY <1>1, <1>2
    <2> QED
        BY <1>1, <1>7, <1>8, <2>1 DEF Credits, InFlight, platformVars
<1>10. Loose' = Loose
    <2>1. \A s \in StartTask : s # None
        BY NoneAssumption
    <2> QED
        BY <1>1, <1>7, <1>8, <2>1 DEF Loose, platformVars
<1>11. IsFiniteSet(InFlight') /\ Cardinality(InFlight') = Cardinality(InFlight) + 1
    BY <1>8, FS_AddElement DEF IInv, Capacity
<1>12. Capacity'
    BY <1>1, <1>8, <1>9, <1>10, <1>11, Sizes, CapacityAssumption DEF IInv, Capacity
<1> QED
    BY <1>3, <1>6, <1>12 DEF IInv

\* An attempt is over: its result is recorded, or its exception ends the thread.
LEMMA OverKeeps ==
    ASSUME IInv, NEW a \in Attempt, phase[a] = "over", NEW p \in {"escaped"} \union Recorded,
           p = "completed" <=> ending[a] = "returned",
           p = "failed" => ending[a] \in {"raised", "broken"},
           phase' = [phase EXCEPT ![a] = p],
           skipDwell' = [skipDwell EXCEPT ![a] = FALSE] \/ skipDwell' = skipDwell,
           UNCHANGED <<ending, journal, start, seen, dwells, platformVars, crashes, faults>>
    PROVE  IInv'
<1>1. p \in {"completed", "failed", "escaped"}
    BY DEF Recorded
<1>2. phase'[a] = p /\ (skipDwell'[a] => skipDwell[a])
    BY DEF IInv, TypeOK
<1>3. TypeOK' /\ ConvInv' /\ Forward
    <2>1. phase' \in [Attempt -> Phase] /\ skipDwell' \in [Attempt -> BOOLEAN]
        BY <1>1 DEF IInv, TypeOK, Phase, Recorded
    <2> QED
        BY <2>1, Facts DEF IInv, TypeOK, ConvInv, Forward, platformVars
<1>4. AttemptInv(a)'
    <2>1. ending[a] # None
        BY Facts DEF AttemptInv, Placement, Leaving, Recorded, Ending
    <2> QED
        BY <1>1, <1>2, <2>1, Facts
           DEF AttemptInv, Placement, Paused, Kept, Dwelt, Done, Before, Attached, Leaving, Recorded, Ending,
           platformVars
<1>5. \A b \in Attempt \ {a} : Same(b)
    BY DEF Same, IInv, TypeOK
<1>6. \A b \in Attempt : AttemptInv(b)'
    BY <1>3, <1>4, <1>5, SameKeeps
<1>7. /\ InFlight' \subseteq InFlight /\ Active' = Active /\ Used' = Used
      /\ \A b \in Attempt : phase'[b] = "launch" => phase[b] = "launch"
    BY <1>1, <1>2, <1>5 DEF InFlight, Active, Used, Recorded, platformVars, Same
<1>8. Credits' \subseteq Credits
    BY <1>7 DEF Credits, InFlight, platformVars
<1>9. Loose \subseteq Loose' /\ Loose' \subseteq Used'
    <2>1. Loose \subseteq Loose'
        BY <1>7 DEF Loose, platformVars
    <2> QED
        BY <2>1, <1>3 DEF Loose, Used, ConvInv
<1>10. Capacity'
    BY <1>7, <1>8, <1>9, CapacityKept DEF IInv, Capacity
<1> QED
    BY <1>3, <1>6, <1>10 DEF IInv

LEMMA RecordKeeps ==
    ASSUME IInv, NEW a \in Attempt, Record(a)
    PROVE  IInv'
<1> DEFINE p == IF ending[a] = "returned" THEN "completed" ELSE "failed"
<1>1. /\ phase[a] = "over" /\ ending[a] # "escaped"
      /\ phase' = [phase EXCEPT ![a] = p] /\ skipDwell' = [skipDwell EXCEPT ![a] = FALSE]
      /\ UNCHANGED <<ending, journal, start, seen, dwells, platformVars, crashes, faults>>
    BY DEF Record, Goes
<1>2. ending[a] \in {"returned", "raised", "broken"}
    BY <1>1, Facts DEF AttemptInv, Placement, Leaving, TypeOK, Ending
<1>3. /\ p \in {"escaped"} \union Recorded /\ (p = "completed" <=> ending[a] = "returned")
      /\ p = "failed" => ending[a] \in {"raised", "broken"}
    BY <1>2 DEF Recorded
<1> HIDE DEF p
<1> QED
    BY <1>1, <1>3, OverKeeps

LEMMA ThreadEndsKeeps ==
    ASSUME IInv, NEW a \in Attempt, ThreadEnds(a)
    PROVE  IInv'
BY OverKeeps DEF ThreadEnds, Goes, Recorded

LEMMA ProcessEndsKeeps ==
    ASSUME IInv, ProcessEnds, crashes' \in 0..MaxCrashes, faults' = faults
    PROVE  IInv'
<1>1. /\ \A a \in Attempt :
            /\ phase'[a] = IF a \in InFlight THEN "interrupted" ELSE phase[a]
            /\ start'[a] = IF "start_task_created" \in journal[a] THEN start[a] ELSE None
            /\ ending'[a] = IF a \in InFlight THEN None ELSE ending[a]
            /\ ~skipDwell'[a]
      /\ UNCHANGED <<journal, seen, dwells, platformVars>>
    BY DEF ProcessEnds
<1>2. TypeOK'
    <2>1. /\ phase' \in [Attempt -> Phase] /\ start' \in [Attempt -> StartTask \union {None}]
          /\ ending' \in [Attempt -> Ending \union {None}]
          /\ skipDwell' \in [Attempt -> BOOLEAN]
        BY DEF ProcessEnds, IInv, TypeOK, Phase
    <2> QED
        BY <1>1, <2>1 DEF IInv, TypeOK, platformVars
<1>3. ConvInv'
    BY <1>1 DEF IInv, ConvInv, platformVars
<1>4. ASSUME NEW a \in Attempt
      PROVE  AttemptInv(a)'
    <2>1. AttemptInv(a)
        BY DEF IInv
    <2>2. phase'[a] \in {"interrupted", "new", "completed", "failed", "escaped"}
          /\ IF phase'[a] = "interrupted" THEN ending'[a] = None
             ELSE phase'[a] = phase[a] /\ ending'[a] = ending[a]
        BY <1>1 DEF InFlight, Recorded, IInv, TypeOK, Phase
    <2>3. Placement(a)'
        BY <1>1, <2>1, <2>2, NoneAssumption
           DEF AttemptInv, Placement, Done, Before, Attached, Leaving, Recorded, Ending,
           platformVars
    <2>4. Paused(a)'
        BY <1>1, <2>1, <2>2 DEF AttemptInv, Paused, Done, platformVars
    <2>5. Kept(a)'
        BY <1>1, <2>1, <2>2, NoneAssumption DEF AttemptInv, Placement, Kept, Ending, platformVars
    <2>6. Dwelt(a)'
        BY <1>1, <2>1, <2>2 DEF AttemptInv, Dwelt
    <2> QED
        BY <2>3, <2>4, <2>5, <2>6 DEF AttemptInv
<1>5. InFlight' = InFlight /\ Active' = Active /\ Used' = Used
    BY <1>1 DEF InFlight, Active, Used, Recorded, platformVars
<1>6. Credits' \subseteq Credits
    <2> SUFFICES ASSUME NEW a \in Credits'
                 PROVE  a \in Credits
        OBVIOUS
    <2>1. a \in InFlight /\ a \in Attempt
        BY <1>5 DEF Credits, InFlight
    <2>2. phase'[a] = "interrupted"
        BY <1>1, <2>1
    <2>3. start'[a] # None /\ conv'[start'[a]].box = None
        BY <2>2 DEF Credits
    <2>4. start[a] = start'[a]
        BY <1>1, <2>1, <2>3
    <2> QED
        BY <1>1, <2>1, <2>3, <2>4 DEF Credits, platformVars
<1>7. Loose \subseteq Loose'
    <2> SUFFICES ASSUME NEW s \in Loose
                 PROVE  s \in Loose'
        OBVIOUS
    <2>1. \A a \in Attempt : start'[a] = s => start[a] = s
        BY <1>1, NoneAssumption DEF Loose
    <2> QED
        BY <1>1, <1>5, <2>1 DEF Loose, platformVars
<1>8. Loose' \subseteq Used'
    BY <1>3 DEF Loose, Used, ConvInv
<1>9. Capacity'
    BY <1>5, <1>6, <1>7, <1>8, CapacityKept DEF IInv, Capacity
<1> QED
    BY <1>2, <1>3, <1>4, <1>9 DEF IInv

LEMMA CrashKeeps ==
    ASSUME IInv, Crash
    PROVE  IInv'
<1>1. ProcessEnds /\ crashes' \in 0..MaxCrashes /\ faults' = faults
    BY FaultAssumption DEF Crash, IInv, TypeOK
<1> QED
    BY <1>1, ProcessEndsKeeps

LEMMA EscapeKeeps ==
    ASSUME IInv, NEW a \in Attempt, Escape(a)
    PROVE  IInv'
<1>1. ProcessEnds /\ crashes' \in 0..MaxCrashes /\ faults' = faults
    BY DEF Escape, IInv, TypeOK
<1> QED
    BY <1>1, ProcessEndsKeeps

\* Posting a conversation.
LEMMA Posted ==
    ASSUME IInv, NEW s \in StartTask, conv[s].state = "unused",
           conv' = [conv EXCEPT ![s].state = "starting"]
    PROVE  /\ conv' \in [StartTask ->
                   [state : {"unused", "starting", "failed", "running", "terminal"},
                    box : Sandbox \union {None}]]
           /\ conv'[s].state = "starting" /\ conv[s].box = None
           /\ \A t \in StartTask : conv'[t].box = conv[t].box /\ (t # s => conv'[t] = conv[t])
           /\ IsFiniteSet(Used')
<1>1. conv' \in [StartTask -> [state : {"unused", "starting", "failed", "running", "terminal"},
                              box : Sandbox \union {None}]]
    BY DEF IInv, TypeOK
<1>2. /\ conv'[s].state = "starting" /\ conv[s].box = None
      /\ \A t \in StartTask : conv'[t].box = conv[t].box /\ (t # s => conv'[t] = conv[t])
    BY DEF IInv, TypeOK, ConvInv
<1>3. Used' = Used \union {s}
    BY <1>2 DEF Used
<1>4. IsFiniteSet(Used')
    BY <1>3, FS_AddElement DEF IInv, Capacity
<1> QED
    BY <1>1, <1>2, <1>4

LEMMA LaunchKeeps ==
    ASSUME IInv, NEW a \in Attempt, Launch(a)
    PROVE  IInv'
<1>1. PICK s \in StartTask :
        /\ conv[s].state = "unused"
        /\ \/ /\ conv' = [conv EXCEPT ![s].state = "starting"] /\ start' = [start EXCEPT ![a] = s]
              /\ phase' = [phase EXCEPT ![a] = "posted"] /\ UNCHANGED <<ending, faults>>
           \/ /\ conv' = [conv EXCEPT ![s].state = "starting"] \/ UNCHANGED conv
              /\ Fault /\ UNCHANGED start /\ phase' = [phase EXCEPT ![a] = "over"]
              /\ \E e \in {"broken", "escaped"} : ending' = [ending EXCEPT ![a] = e]
    <2>1. \A S : NewOf(S) \subseteq S
        BY DEF NewOf
    <2> QED
        BY <2>1 DEF Launch, CallFails, Goes, Leaves
<1>2. /\ phase[a] = "launch"
      /\ UNCHANGED <<skipDwell, journal, seen, sandbox, strategy, dwells, crashes>>
    BY DEF Launch
<1>3. start[a] = None /\ journal[a] = {} /\ ending[a] = None
    BY <1>2, Facts, NoneAssumption DEF AttemptInv, Placement, Before, Leaving, Recorded, Ending
<1>4. /\ conv' \in [StartTask ->
                   [state : {"unused", "starting", "failed", "running", "terminal"},
                    box : Sandbox \union {None}]]
      /\ \A t \in StartTask :
            /\ conv'[t].box = conv[t].box
            /\ conv[t].state # "unused" => conv'[t].state = conv[t].state
            /\ conv'[t].state \in {"running", "terminal"} => conv[t].state \in {"running", "terminal"}
      /\ IsFiniteSet(Used')
    <2>1. CASE conv' = [conv EXCEPT ![s].state = "starting"]
        BY <1>1, <2>1, Posted
    <2>2. CASE UNCHANGED conv
        BY <2>2 DEF IInv, TypeOK, Capacity, Used
    <2> QED
        BY <1>1, <2>1, <2>2
<1>5. faults' \in 0..MaxFaults /\ faults' >= faults
    BY <1>1, FaultFacts, FaultAssumption DEF IInv, TypeOK
<1>6. TypeOK'
    <2>1. TypeOK
        BY DEF IInv
    <2>2. /\ phase' \in [Attempt -> Phase]
          /\ start' \in [Attempt -> StartTask \union {None}]
          /\ ending' \in [Attempt -> Ending \union {None}]
        BY <1>1, <2>1 DEF TypeOK, Phase, Ending
    <2> QED
        BY <1>2, <1>4, <1>5, <2>1, <2>2 DEF TypeOK
<1>7. ConvInv'
    BY <1>2, <1>4 DEF IInv, ConvInv
<1>8. Forward
    BY <1>2, <1>4, <1>5 DEF Forward
<1>9. \/ phase'[a] = "posted" /\ start'[a] = s /\ conv'[s].state = "starting" /\ ending'[a] = None
      \/ phase'[a] = "over" /\ start'[a] = None /\ ending'[a] \in {"broken", "escaped"}
    BY <1>1, <1>3, Posted DEF IInv, TypeOK
<1>10. AttemptInv(a)'
    <2>1. Placement(a)'
        BY <1>2, <1>3, <1>9, NoneAssumption
           DEF AttemptInv, Placement, Done, Before, Attached, Leaving, Recorded, Ending
    <2>2. Paused(a)' /\ Kept(a)'
        BY <1>2, <1>3, <1>9 DEF Paused, Kept, Done
    <2>3. Dwelt(a)'
        BY <1>2, <1>3, <1>9, Facts DEF AttemptInv, Dwelt
    <2> QED
        BY <2>1, <2>2, <2>3 DEF AttemptInv
<1>11. \A b \in Attempt \ {a} : Same(b)
    BY <1>1, <1>2 DEF Same, IInv, TypeOK
<1>12. \A b \in Attempt : AttemptInv(b)'
    BY <1>6, <1>8, <1>10, <1>11, SameKeeps
<1>13. InFlight' = InFlight /\ Active' = Active /\ a \in InFlight
    BY <1>2, <1>9, <1>11 DEF InFlight, Active, Recorded, Same
<1>14. Credits' \subseteq Credits
    <2> SUFFICES ASSUME NEW b \in Credits', b # a
                 PROVE  b \in Credits
        BY <1>2, <1>13 DEF Credits
    <2>1. b \in InFlight /\ b \in Attempt \ {a}
        BY <1>13 DEF Credits, InFlight
    <2>2. phase'[b] = phase[b] /\ start'[b] = start[b] /\ start[b] \in StartTask \union {None}
        BY <1>11, <2>1, Facts DEF Same
    <2> QED
        BY <1>4, <2>1, <2>2 DEF Credits
<1>15. Loose \subseteq Loose'
    <2> SUFFICES ASSUME NEW t \in Loose
                 PROVE  t \in Loose'
        OBVIOUS
    <2>1. t \in StartTask /\ t # None /\ conv'[t].box # None
        BY <1>4, NoneAssumption DEF Loose
    <2>2. t # s
        BY <1>1, <2>1, <1>4 DEF IInv, ConvInv
    <2>3. \A b \in Attempt : start'[b] = t => start[b] = t
        BY <1>9, <1>11, <2>1, <2>2 DEF Same
    <2> QED
        BY <1>2, <1>13, <2>1, <2>3 DEF Loose
<1>16. Loose' \subseteq Used'
    BY <1>7 DEF Loose, Used, ConvInv
<1>17. Capacity'
    BY <1>4, <1>13, <1>14, <1>15, <1>16, CapacityKept
<1> QED
    BY <1>6, <1>7, <1>12, <1>17 DEF IInv

-----------------------------------------------------------------------------
(* The platform *)

\* A step of the platform keeps what attempts know if it goes forward.
LEMMA PlatformKeeps ==
    ASSUME IInv, UNCHANGED attemptVars, TypeOK', ConvInv', Forward, Capacity'
    PROVE  IInv'
<1>1. \A a \in Attempt : Same(a)
    BY DEF Same, attemptVars
<1> QED
    BY <1>1, SameKeeps DEF IInv

\* The state of a conversation changes that was not unused.
LEMMA ConversationMoves ==
    ASSUME IInv, NEW s \in StartTask, conv[s].state \in {"starting", "running"},
           NEW to \in {"failed", "running", "terminal"},
           to \in {"running", "terminal"} => conv[s].box # None,
           conv' = [conv EXCEPT ![s].state = to],
           UNCHANGED <<attemptVars, sandbox, strategy, crashes, faults>>
    PROVE  IInv'
<1>1. /\ conv' \in [StartTask ->
                   [state : {"unused", "starting", "failed", "running", "terminal"},
                    box : Sandbox \union {None}]]
      /\ conv'[s].state = to
      /\ \A t \in StartTask : conv'[t].box = conv[t].box /\ (t # s => conv'[t] = conv[t])
    BY DEF IInv, TypeOK
<1>2. TypeOK' /\ ConvInv'
    BY <1>1 DEF IInv, TypeOK, ConvInv, attemptVars
<1>3. Forward
    BY <1>1, FaultAssumption DEF Forward, IInv, TypeOK
<1>4. InFlight' = InFlight /\ Active' = Active /\ Used' = Used
    BY <1>1 DEF InFlight, Active, Used, attemptVars
<1>5. Credits' = Credits
    <2>1. \A a \in InFlight : start[a] # None => start[a] \in StartTask
        BY DEF InFlight, IInv, TypeOK
    <2> QED
        BY <1>1, <1>4, <2>1 DEF Credits, attemptVars
<1>6. Loose' = Loose
    BY <1>1, <1>4 DEF Loose, attemptVars
<1>7. Capacity'
    BY <1>4, <1>5, <1>6 DEF IInv, Capacity
<1> QED
    BY <1>2, <1>3, <1>7, PlatformKeeps

LEMMA LoseSandboxKeeps ==
    ASSUME IInv, NEW b \in Sandbox, LoseSandbox(b)
    PROVE  IInv'
<1>1. /\ sandbox[b] = "active" /\ sandbox' = [sandbox EXCEPT ![b] = "lost"]
      /\ UNCHANGED <<attemptVars, conv, strategy, crashes>>
      /\ faults' \in 0..MaxFaults /\ faults' >= faults
    BY FaultFacts DEF LoseSandbox
<1>2. /\ sandbox' \in [Sandbox -> {"none", "active", "paused", "lost"}]
      /\ \A c \in Sandbox : sandbox'[c] = sandbox[c] \/ (c = b /\ sandbox'[c] = "lost")
    BY <1>1 DEF IInv, TypeOK
<1>3. TypeOK'
    BY <1>1, <1>2 DEF IInv, TypeOK, attemptVars
<1>4. ConvInv'
    BY <1>1, <1>2 DEF IInv, ConvInv, TypeOK
<1>5. Forward
    BY <1>1, <1>2 DEF Forward
<1>6. InFlight' = InFlight /\ Active' \subseteq Active /\ Used' = Used /\ Loose' = Loose /\ Credits' = Credits
    BY <1>1, <1>2 DEF InFlight, Active, Used, Loose, Credits, attemptVars
<1>7. Loose' \subseteq Used'
    BY <1>4 DEF Loose, Used, ConvInv
<1>8. Capacity'
    BY <1>6, <1>7, CapacityKept DEF IInv, Capacity
<1> QED
    BY <1>1, <1>3, <1>4, <1>5, <1>8, PlatformKeeps

\* A sandbox that appears was allowed for: an attempt in flight has a claim to it, or
\* nobody waits for its conversation any more.
LEMMA PlaceKeeps ==
    ASSUME IInv, NEW s \in StartTask, Place(s)
    PROVE  IInv'
<1>1. PICK b \in Sandbox :
        /\ sandbox[b] \in {"none", "active"}
        /\ conv' = [conv EXCEPT ![s].box = b] /\ sandbox' = [sandbox EXCEPT ![b] = "active"]
    <2>1. \A S : NewOf(S) \subseteq S
        BY DEF NewOf
    <2> QED
        BY <2>1 DEF Place, Active
<1>2. /\ conv[s].state = "starting" /\ conv[s].box = None
      /\ UNCHANGED <<attemptVars, strategy, crashes, faults>>
    BY DEF Place
<1>3. /\ conv' \in [StartTask ->
                   [state : {"unused", "starting", "failed", "running", "terminal"},
                    box : Sandbox \union {None}]]
      /\ conv'[s].box = b /\ b # None
      /\ \A t \in StartTask : conv'[t].state = conv[t].state /\ (t # s => conv'[t] = conv[t])
    BY <1>1, NoneAssumption DEF IInv, TypeOK
<1>4. /\ sandbox' \in [Sandbox -> {"none", "active", "paused", "lost"}]
      /\ sandbox'[b] = "active" /\ \A c \in Sandbox \ {b} : sandbox'[c] = sandbox[c]
    BY <1>1 DEF IInv, TypeOK
<1>5. TypeOK'
    BY <1>2, <1>3, <1>4 DEF IInv, TypeOK, attemptVars
<1>6. ConvInv'
    <2>1. \A t \in StartTask : conv[t].box \in Sandbox \union {None}
        BY DEF IInv, TypeOK
    <2> QED
        BY <1>2, <1>3, <1>4, <2>1 DEF IInv, ConvInv
<1>7. Forward
    BY <1>1, <1>2, <1>3, <1>4, FaultAssumption DEF Forward, IInv, TypeOK
<1>8. InFlight' = InFlight /\ Active' = Active \union {b} /\ Used' = Used
    BY <1>2, <1>3, <1>4 DEF InFlight, Active, Used, attemptVars
<1>9. /\ IsFiniteSet(Active') /\ Cardinality(Active') \in Nat
      /\ Cardinality(Active') <= Cardinality(Active) + 1
    <2>1. /\ IsFiniteSet(Active')
          /\ Cardinality(Active') \in {Cardinality(Active), Cardinality(Active) + 1}
        BY <1>8, FS_AddElement DEF IInv, Capacity
    <2> QED
        BY <2>1, Sizes
<1>10. Credits' \subseteq Credits /\ \A a \in Credits' : start[a] # s
    <2> SUFFICES ASSUME NEW a \in Credits'
                 PROVE  a \in Credits /\ start[a] # s
        OBVIOUS
    <2>1. /\ a \in InFlight /\ a \in Attempt
          /\ phase[a] = "launch" \/ (start[a] # None /\ conv'[start[a]].box = None)
        BY <1>2, <1>8 DEF Credits, InFlight, attemptVars
    <2>2. phase[a] = "launch" => start[a] = None
        BY <2>1, Facts DEF AttemptInv, Placement, Before
    <2> QED
        BY <1>3, <2>1, <2>2, Facts, NoneAssumption DEF Credits
<1>11. \A t \in Loose : t \in Loose'
    BY <1>2, <1>3, <1>8 DEF Loose, attemptVars
<1>12. Loose' \subseteq Used'
    BY <1>6 DEF Loose, Used, ConvInv
<1>13. /\ IsFiniteSet(Loose') /\ Cardinality(Loose') \in Nat
       /\ Cardinality(Loose) <= Cardinality(Loose')
    <2>1. IsFiniteSet(Loose')
        BY <1>8, <1>12, FS_Subset DEF IInv, Capacity
    <2> QED
        BY <1>11, <2>1, FS_Subset, FS_CardinalityType
<1>14. /\ Cardinality(Credits') \in Nat
       /\ Cardinality(Credits') <= Cardinality(Credits)
    BY <1>10, Sizes, FS_Subset, FS_CardinalityType
<1>15. ASSUME \E a \in InFlight : start[a] = s
       PROVE  Capacity'
    <2>1. PICK a \in InFlight : start[a] = s
        BY <1>15
    <2>2. a \in Credits
        BY <1>2, <2>1, NoneAssumption DEF Credits
    <2>3. Credits' \subseteq Credits \ {a}
        BY <1>10, <2>1
    <2>4. IsFiniteSet(Credits \ {a}) /\ Cardinality(Credits \ {a}) = Cardinality(Credits) - 1
        BY <2>2, Sizes, FS_RemoveElement
    <2>5. Cardinality(Credits') <= Cardinality(Credits) - 1
        BY <2>3, <2>4, FS_Subset
    <2> QED
        BY <1>8, <1>9, <1>13, <1>14, <2>5, Sizes, CapacityAssumption DEF IInv, Capacity
<1>16. ASSUME \A a \in InFlight : start[a] # s
       PROVE  Capacity'
    <2>1. \A a \in Attempt : start[a] = s => a \notin InFlight /\ "conversation_ready" \notin journal[a]
        BY <1>2, <1>16, Facts DEF AttemptInv, Placement
    <2>2. s \in Loose'
        BY <1>2, <1>3, <1>8, <2>1 DEF Loose, attemptVars
    <2>3. s \notin Loose
        BY <1>2 DEF Loose
    <2>4. IsFiniteSet(Loose \union {s}) /\ Cardinality(Loose \union {s}) = Cardinality(Loose) + 1
        BY <2>3, Sizes, FS_AddElement
    <2>5. Cardinality(Loose) + 1 <= Cardinality(Loose')
        <3>1. Loose \union {s} \subseteq Loose'
            BY <1>11, <2>2
        <3> QED
            BY <1>13, <2>4, <3>1, FS_Subset
    <2> QED
        BY <1>8, <1>9, <1>13, <1>14, <2>5, Sizes, CapacityAssumption DEF IInv, Capacity
<1>17. Capacity'
    BY <1>15, <1>16
<1> QED
    BY <1>2, <1>5, <1>6, <1>7, <1>17, PlatformKeeps

-----------------------------------------------------------------------------
(* The worker: theorems *)

LEMMA InitHolds == Init => IInv
<1> SUFFICES ASSUME Init
             PROVE  IInv
    OBVIOUS
<1>1. TypeOK
    BY FaultAssumption DEF Init, TypeOK, Phase
<1>2. ConvInv
    BY DEF Init, ConvInv
<1>3. ASSUME NEW a \in Attempt
      PROVE  AttemptInv(a)
    BY NoneAssumption DEF Init, AttemptInv, Placement, Paused, Kept, Dwelt, Done, Before,
       Attached, Leaving, Recorded, Ending
<1>4. Active = {} /\ InFlight = {} /\ Used = {} /\ Credits = {} /\ Loose = {}
    BY DEF Init, Active, InFlight, Used, Credits, Loose
<1>5. IsFiniteSet({}) /\ Cardinality({}) = 0
    BY FS_EmptySet
<1>6. Capacity
    BY <1>4, <1>5, CapacityAssumption DEF Capacity
<1> QED
    BY <1>1, <1>2, <1>3, <1>6 DEF IInv

LEMMA UnchangedKeeps ==
    ASSUME IInv, UNCHANGED vars
    PROVE  IInv'
<1>1. TypeOK' /\ ConvInv'
    BY DEF IInv, TypeOK, ConvInv, vars, attemptVars, platformVars
<1>2. Forward
    BY FaultAssumption DEF Forward, IInv, TypeOK, vars, platformVars
<1>3. Capacity'
    BY DEF IInv, Capacity, Active, InFlight, Used, Credits, Loose, vars, attemptVars, platformVars
<1> QED
    BY <1>1, <1>2, <1>3, PlatformKeeps DEF vars

LEMMA PlatformStepKeeps ==
    ASSUME IInv, Platform
    PROVE  IInv'
<1>1. ASSUME NEW s \in StartTask, StartConversation(s)
      PROVE  IInv'
    BY <1>1, ConversationMoves DEF StartConversation, Runs
<1>2. ASSUME NEW s \in StartTask, FailStart(s)
      PROVE  IInv'
    BY <1>2, ConversationMoves DEF FailStart
<1>3. ASSUME NEW s \in StartTask, EndConversation(s)
      PROVE  IInv'
    BY <1>3, ConversationMoves DEF EndConversation, Runs
<1> QED
    BY <1>1, <1>2, <1>3, PlaceKeeps, LoseSandboxKeeps DEF Platform

LEMMA NextKeeps == IInv /\ [Next]_vars => IInv'
<1>1. ASSUME IInv, NEW a \in Attempt, Begin(a) \/ Step(a)
      PROVE  IInv'
    BY <1>1, BeginKeeps, CheckCapacityKeeps, LaunchKeeps, JournalStartKeeps, SeeReadyKeeps,
       StartFailsKeeps, SeeTerminalKeeps, WaitFailsKeeps, ReadAnswerKeeps, ReturnKeeps,
       DwellKeeps, RequestPauseKeeps, PauseKeeps, RecordKeeps, EscapeKeeps, ResumeKeeps
       DEF Step, Work
<1> QED
    BY <1>1, CrashKeeps, PlatformStepKeeps, UnchangedKeeps DEF Next

\* What attempts, conversations and sandboxes know of each other holds in every
\* behaviour of the worker (execute and recover of workers.py) and the platform.
THEOREM Inductive == Spec => []IInv
    BY InitHolds, NextKeeps, PTL DEF Spec

\* Every variable of the model keeps its type: the worker never pauses or reads a
\* sandbox or a start task that is not there (workers.py:548-675).
THEOREM TypeCorrect == Spec => []TypeOK
<1>1. IInv => TypeOK
    BY DEF IInv
<1> QED
    BY <1>1, Inductive, PTL

\* Once the journal says that the conversation ended, an attempt is recorded as failed
\* only if a call to start, wait for or read it failed for good in that very process,
\* whichever processes pause its sandbox, fail to, and end (workers.py:455-546, 643-675;
\* what runner.py:399 does not catch is not recorded).
THEOREM AnswersAreKept == Spec => []EndedWorkIsKept
<1>1. IInv => EndedWorkIsKept
    <2> SUFFICES ASSUME IInv, NEW a \in Attempt,
                        "conversation_terminal" \in journal[a], phase[a] = "failed"
                 PROVE  ending[a] = "broken"
        BY DEF EndedWorkIsKept
    <2> QED
        BY Facts DEF AttemptInv, Kept, Placement
<1> QED
    BY <1>1, Inductive, PTL

\* An attempt is recorded as completed only when its sandbox runs no more or the
\* journal says that the pause failed (the finally clause, workers.py:646-673).
THEOREM PausedWhenCompleted == Spec => []CompletedIsPaused
<1>1. IInv => CompletedIsPaused
    BY Facts DEF CompletedIsPaused, PauseAfterAttempt, AttemptInv, Paused, Done
<1> QED
    BY <1>1, Inductive, PTL

\* A worker that is about to return has dwelt, in this process or an earlier one,
\* unless an earlier one asked for a pause (workers.py:480-490, 607-636).
THEOREM DwellHolds == Spec => []DwellBeforeCleanup
<1>1. IInv => DwellBeforeCleanup
    BY Facts DEF DwellBeforeCleanup, AttemptInv, Dwelt
<1> QED
    BY <1>1, Inductive, PTL

LEMMA LooseIsAbandoned ==
    ASSUME IInv
    PROVE  Loose \subseteq Abandoned /\ Abandoned \subseteq Used
<1>1. Abandoned \subseteq Used
    BY DEF Abandoned, Used
<1>2. ASSUME NEW s \in Loose
      PROVE  s \in Abandoned
    <2>1. s \in StartTask /\ conv[s].state # "unused"
        BY DEF Loose, IInv, ConvInv
    <2>2. ASSUME NEW a \in Attempt, start[a] = s
          PROVE  "conversation_ready" \notin journal[a]
                 /\ phase[a] \notin {"posted", "poll", "interrupted"}
        BY <2>2 DEF Loose, InFlight, Recorded
    <2> QED
        BY <2>1, <2>2 DEF Abandoned
<1> QED
    BY <1>1, <1>2

LEMMA WithinLock == IInv => OvershootIsBounded
<1> SUFFICES ASSUME IInv
             PROVE  OvershootIsBounded
    OBVIOUS
<1>1. IsFiniteSet(Abandoned) /\ Cardinality(Loose) <= Cardinality(Abandoned)
    BY LooseIsAbandoned, FS_Subset DEF IInv, Capacity
<1>2. Cardinality(Abandoned) \in Nat
    BY <1>1, FS_CardinalityType
<1> QED
    BY <1>1, <1>2, Sizes, CapacityAssumption DEF IInv, Capacity, OvershootIsBounded

\* However many threads pass the gate together and however many starts are given up
\* (workers.py:404, run-concurrent.py:324), the sandboxes that run stay within the
\* launch lock, one per other thread, and one per abandoned start.
THEOREM LaunchLockBounded == Spec => []OvershootIsBounded
    BY WithinLock, Inductive, PTL

-----------------------------------------------------------------------------
(* The batch: its inductive invariant *)

FailsOrFailed(a) ==
    phase[a] \in {"failed", "escaped"} \/ (phase[a] = "over" /\ ending[a] # "returned")

\* A step of a thread.
ThreadStep(a) == Begin(a) \/ Work(a) \/ ThreadEnds(a)

\* A sandbox that runs holds a conversation.
Held == \A b \in Sandbox : sandbox[b] = "active" => \E s \in StartTask : conv[s].box = b

\* A start task belongs to an attempt, or it was lost with an attempt that fails.
Known ==
    \A s \in Used :
        (\E a \in Attempt : start[a] = s) \/ (\E a \in Attempt : FailsOrFailed(a))

\* Ungrouped conversations have a sandbox each, and attempts never share a start task.
Alone ==
    strategy = "NO_GROUPING" =>
        \A s, t \in StartTask : conv[s].box # None /\ conv[s].box = conv[t].box => s = t

Distinct == \A a, c \in Attempt : start[a] # None /\ start[a] = start[c] => a = c

PausesOwn == \A a \in Attempt : phase[a] = "pausing" => strategy = "NO_GROUPING"

World == Held /\ Known /\ Alone /\ Distinct /\ PausesOwn

\* Only the seed works until its conversation is ready, and nobody does at the end.
Stages ==
    /\ stage \in {"gate", "seeding"} => \A a \in Attempt \ {Seed} : phase[a] = "new"
    /\ stage \in {"cleanup", "exited"} => InFlight = {}

CleanedUp ==
    /\ handled \subseteq Sandbox
    /\ \A b \in handled \ pauseErrors : sandbox[b] \in {"paused", "lost"}
    /\ stage = "exited" => SandboxIds \subseteq handled

PInv == IInv /\ World /\ Stages /\ CleanedUp

-----------------------------------------------------------------------------
(* What the steps of the workers do to the world *)

\* Whoever pauses a sandbox leaves it as it is, or paused.
LEMMA PausesShape ==
    ASSUME TypeOK, NEW b \in Sandbox, NEW ok \in BOOLEAN, Pauses(b, ok)
    PROVE  /\ \/ sandbox' = sandbox
              \/ sandbox[b] \in {"active", "paused"}
                 /\ sandbox' = [sandbox EXCEPT ![b] = "paused"]
           /\ ok => sandbox' = [sandbox EXCEPT ![b] = "paused"]
           /\ faults' = faults \/ Fault
<1>1. sandbox = [sandbox EXCEPT ![b] = sandbox[b]]
    BY DEF TypeOK
<1>2. CASE ok
    BY <1>2 DEF Pauses
<1>3. CASE ~ok
    BY <1>1, <1>3 DEF Pauses
<1> QED
    BY <1>2, <1>3

LEMMA SeenInSandbox ==
    ASSUME IInv, NEW a \in Attempt, phase[a] = "pausing"
    PROVE  /\ seen[a] \in Sandbox /\ start[a] \in StartTask
           /\ seen[a] = conv[start[a]].box /\ seen[a] # None
<1>1. /\ seen[a] = conv[start[a]].box /\ conv[start[a]].box # None
      /\ start[a] \in StartTask /\ conv[start[a]].box \in Sandbox
    BY Facts DEF AttemptInv, Placement, Attached
<1> QED
    BY <1>1

\* A step pauses no sandbox but that of the attempt that takes it.
LEMMA StepOnSandboxes ==
    ASSUME IInv, NEW a \in Attempt, ThreadStep(a), NEW b \in Sandbox
    PROVE  \/ sandbox'[b] = sandbox[b]
           \/ /\ phase[a] = "pausing" /\ b = seen[a]
              /\ sandbox[b] \in {"active", "paused"} /\ sandbox'[b] = "paused"
<1>1. CASE Pause(a)
    <2>1. phase[a] = "pausing"
        BY <1>1 DEF Pause
    <2>2. Pauses(seen[a], TRUE) \/ Pauses(seen[a], FALSE)
        BY <1>1, Zenon DEF Pause
    <2>3. \/ sandbox' = sandbox
          \/ sandbox[seen[a]] \in {"active", "paused"}
             /\ sandbox' = [sandbox EXCEPT ![seen[a]] = "paused"]
        <3>1. seen[a] \in Sandbox /\ TypeOK
            BY <2>1, SeenInSandbox DEF IInv
        <3>2. CASE Pauses(seen[a], TRUE)
            BY <3>1, <3>2, PausesShape, Zenon
        <3>3. CASE Pauses(seen[a], FALSE)
            BY <3>1, <3>3, PausesShape, Zenon
        <3> QED
            BY <2>2, <3>2, <3>3
    <2> QED
        BY <2>1, <2>3 DEF IInv, TypeOK
<1>2. CASE ThreadStep(a) /\ ~Pause(a)
    BY <1>2 DEF ThreadStep, ThreadEnds, Begin, Work, CheckCapacity, Launch, JournalStart, SeeReady, StartFails,
       SeeTerminal, WaitFails, ReadAnswer, Return, Dwell, RequestPause, Record,
       platformVars
<1> QED
    BY <1>1, <1>2

\* What else the step of an attempt leaves alone.
LEMMA StepOnAttempts ==
    ASSUME IInv, NEW a \in Attempt, ThreadStep(a)
    PROVE  /\ strategy' = strategy
           /\ \A c \in Attempt \ {a} :
                 phase'[c] = phase[c] /\ ending'[c] = ending[c] /\ seen'[c] = seen[c]
           /\ Launch(a) \/ (start' = start /\ conv' = conv)
           /\ phase[a] \notin {"escaped"} \union Recorded
           /\ phase[a] = "over" /\ ending[a] # "returned" => phase'[a] \in {"failed", "escaped"}
           /\ phase'[a] = "pausing" => strategy = "NO_GROUPING"
<1> USE DEF IInv, TypeOK, Goes, Leaves, Recorded
<1>1. CASE Begin(a) \/ CheckCapacity(a) \/ JournalStart(a) \/ SeeReady(a) \/ StartFails(a)
    BY <1>1 DEF Begin, CheckCapacity, JournalStart, SeeReady, StartFails, CallFails, platformVars
<1>2. CASE SeeTerminal(a) \/ WaitFails(a) \/ ReadAnswer(a) \/ Return(a) \/ Dwell(a)
    BY <1>2 DEF SeeTerminal, WaitFails, ReadAnswer, CallFails, Return, Dwell, platformVars
<1>3. CASE RequestPause(a)
    BY <1>3 DEF RequestPause, PauseDue, PauseAfterAttempt, platformVars
<1>4. CASE Record(a) \/ ThreadEnds(a) \/ Launch(a)
    BY <1>4 DEF Record, ThreadEnds, Launch, CallFails, platformVars
<1>5. CASE Pause(a)
    <2>1. phase[a] = "pausing" /\ UNCHANGED <<start, seen, conv, strategy>>
        BY <1>5 DEF Pause
    <2>2. Goes(a, "over") /\ (UNCHANGED ending \/ ending' = [ending EXCEPT ![a] = "escaped"])
        BY <1>5, Zenon DEF Pause, Leaves
    <2> QED
        BY <2>1, <2>2
<1> QED
    BY <1>1, <1>2, <1>3, <1>4, <1>5 DEF ThreadStep, Work

LEMMA LaunchShape ==
    ASSUME IInv, NEW a \in Attempt, Launch(a)
    PROVE  \E s \in StartTask :
              /\ conv[s].state = "unused" /\ start[a] = None
              /\ \A t \in StartTask : conv'[t].box = conv[t].box /\ (t # s => conv'[t] = conv[t])
              /\ \/ start' = [start EXCEPT ![a] = s]
                 \/ start' = start /\ phase'[a] = "over" /\ ending'[a] \in {"broken", "escaped"}
<1>1. PICK s \in StartTask :
        /\ conv[s].state = "unused"
        /\ \/ conv' = [conv EXCEPT ![s].state = "starting"] /\ start' = [start EXCEPT ![a] = s]
           \/ /\ conv' = [conv EXCEPT ![s].state = "starting"] \/ UNCHANGED conv
              /\ UNCHANGED start /\ phase' = [phase EXCEPT ![a] = "over"]
              /\ \E e \in {"broken", "escaped"} : ending' = [ending EXCEPT ![a] = e]
    <2>1. \A S : NewOf(S) \subseteq S
        BY DEF NewOf
    <2> QED
        BY <2>1 DEF Launch, CallFails, Goes, Leaves
<1>2. start[a] = None
    BY Facts DEF Launch, AttemptInv, Placement, Before
<1>3. \A t \in StartTask : conv'[t].box = conv[t].box /\ (t # s => conv'[t] = conv[t])
    BY <1>1, Posted
<1> QED
    BY <1>1, <1>2, <1>3 DEF IInv, TypeOK

LEMMA WorldByAttempt ==
    ASSUME IInv, World, NEW a \in Attempt, ThreadStep(a)
    PROVE  World'
<1>1. \A t \in StartTask : conv'[t].box = conv[t].box
    BY StepOnAttempts, LaunchShape
<1>2. Held'
    BY <1>1, StepOnSandboxes DEF World, Held
<1>3. \A c \in Attempt : FailsOrFailed(c) => FailsOrFailed(c)'
    BY StepOnAttempts DEF FailsOrFailed, Recorded
<1>4. Known' /\ Distinct'
    <2>1. CASE start' = start /\ conv' = conv
        <3>1. Used' = Used
            BY <2>1 DEF Used
        <3> QED
            BY <2>1, <3>1, <1>3 DEF World, Known, Distinct
    <2>2. CASE Launch(a)
        <3>1. PICK s \in StartTask :
              /\ conv[s].state = "unused" /\ start[a] = None
              /\ \A t \in StartTask : conv'[t].box = conv[t].box /\ (t # s => conv'[t] = conv[t])
              /\ \/ start' = [start EXCEPT ![a] = s]
                 \/ start' = start /\ phase'[a] = "over" /\ ending'[a] \in {"broken", "escaped"}
            BY <2>2, LaunchShape
        <3>2. Used' \subseteq Used \union {s}
            BY <3>1 DEF Used
        <3>3. \A c \in Attempt : start[c] # s
            <4> SUFFICES ASSUME NEW c \in Attempt, start[c] = s
                         PROVE  FALSE
                OBVIOUS
            <4>1. start[c] # None
                BY NoneAssumption
            <4> QED
                BY <3>1, <4>1, Facts DEF AttemptInv, Placement
        <3>4. CASE start' = [start EXCEPT ![a] = s]
            <4>1. start'[a] = s /\ \A c \in Attempt \ {a} : start'[c] = start[c]
                BY <3>4 DEF IInv, TypeOK
            <4>2. Known'
                <5> SUFFICES ASSUME NEW t \in Used', t # s
                             PROVE  \/ \E c \in Attempt : start'[c] = t
                                    \/ \E c \in Attempt : FailsOrFailed(c)'
                    BY <4>1 DEF Known
                <5>1. t \in Used /\ t # None
                    BY <3>2, NoneAssumption DEF Used
                <5>2. CASE \E c \in Attempt : start[c] = t
                    BY <3>1, <4>1, <5>1, <5>2
                <5>3. CASE \E c \in Attempt : FailsOrFailed(c)
                    BY <1>3, <5>3
                <5> QED
                    BY <5>1, <5>2, <5>3 DEF World, Known
            <4>3. Distinct'
                BY <3>3, <4>1 DEF World, Distinct
            <4> QED
                BY <4>2, <4>3
        <3>5. CASE start' = start /\ phase'[a] = "over" /\ ending'[a] \in {"broken", "escaped"}
            BY <3>5 DEF World, Known, Distinct, FailsOrFailed
        <3> QED
            BY <3>1, <3>4, <3>5
    <2> QED
        BY <2>1, <2>2, StepOnAttempts
<1>5. Alone' /\ PausesOwn'
    BY <1>1, StepOnAttempts DEF World, Alone, PausesOwn
<1> QED
    BY <1>2, <1>4, <1>5 DEF World

-----------------------------------------------------------------------------
(* What the platform and the cleanup do to the world *)

\* Conversations keep their sandboxes and no sandbox comes to run.
LEMMA WorldKept ==
    ASSUME IInv, World, UNCHANGED <<attemptVars, strategy>>, Used' = Used,
           \A t \in StartTask : conv'[t].box = conv[t].box,
           \A b \in Sandbox : sandbox'[b] = "active" => sandbox[b] = "active"
    PROVE  World'
<1>1. Held' /\ Alone' /\ Distinct' /\ PausesOwn'
    BY DEF World, Held, Alone, Distinct, PausesOwn, attemptVars
<1>2. Known'
    BY DEF World, Known, FailsOrFailed, attemptVars
<1> QED
    BY <1>1, <1>2 DEF World

LEMMA WorldByPlatform ==
    ASSUME IInv, World, Platform
    PROVE  World' /\ \A b \in Sandbox : sandbox[b] \in {"paused", "lost"} => sandbox'[b] = sandbox[b]
<1>1. ASSUME NEW s \in StartTask, Place(s)
      PROVE  World' /\ \A b \in Sandbox : sandbox[b] \in {"paused", "lost"} => sandbox'[b] = sandbox[b]
    <2>1. PICK b \in Sandbox :
            /\ sandbox[b] = "none" \/ (sandbox[b] = "active" /\ strategy # "NO_GROUPING")
            /\ conv' = [conv EXCEPT ![s].box = b] /\ sandbox' = [sandbox EXCEPT ![b] = "active"]
        <3>1. \A S : NewOf(S) \subseteq S
            BY DEF NewOf
        <3> QED
            BY <1>1, <3>1 DEF Place, Active
    <2>2. UNCHANGED <<attemptVars, strategy>>
        BY <1>1 DEF Place
    <2>3. /\ conv'[s].box = b /\ \A t \in StartTask : conv'[t].state = conv[t].state
          /\ \A t \in StartTask \ {s} : conv'[t] = conv[t]
        BY <2>1 DEF IInv, TypeOK
    <2>4. sandbox'[b] = "active" /\ \A c \in Sandbox \ {b} : sandbox'[c] = sandbox[c]
        BY <2>1 DEF IInv, TypeOK
    <2>5. conv[s].box = None
        BY <1>1 DEF Place
    <2>6. Held'
        <3> SUFFICES ASSUME NEW c \in Sandbox, sandbox'[c] = "active"
                     PROVE  \E t \in StartTask : conv'[t].box = c
            BY DEF Held
        <3>1. CASE c = b
            BY <2>3, <3>1
        <3>2. CASE c # b
            <4>1. PICK t \in StartTask : conv[t].box = c
                BY <2>4, <3>2 DEF World, Held
            <4>2. t # s
                BY <2>5, <4>1, NoneAssumption
            <4> QED
                BY <2>3, <4>1, <4>2
        <3> QED
            BY <3>1, <3>2
    <2>7. Alone'
        <3> SUFFICES ASSUME strategy = "NO_GROUPING", NEW t \in StartTask, NEW u \in StartTask,
                            conv'[t].box # None, conv'[t].box = conv'[u].box
                     PROVE  t = u
            BY <2>2 DEF Alone
        <3>1. sandbox[b] = "none" /\ b # None
            BY <2>1, NoneAssumption
        <3>2. \A x \in StartTask \ {s} : conv'[x].box # b
            BY <2>3, <3>1 DEF IInv, ConvInv
        <3>3. CASE t # s /\ u # s
            BY <2>3, <3>3 DEF World, Alone
        <3>4. CASE t = s \/ u = s
            BY <2>3, <3>2, <3>4
        <3> QED
            BY <3>3, <3>4
    <2>8. Known' /\ Distinct' /\ PausesOwn'
        <3>1. Used' = Used
            BY <2>3 DEF Used
        <3> QED
            BY <2>2, <3>1 DEF World, Known, Distinct, PausesOwn, FailsOrFailed, attemptVars
    <2> QED
        BY <2>1, <2>4, <2>6, <2>7, <2>8 DEF World
<1>2. ASSUME NEW s \in StartTask, NEW to \in {"failed", "running", "terminal"},
             conv[s].state # "unused", conv' = [conv EXCEPT ![s].state = to],
             UNCHANGED <<attemptVars, sandbox, strategy>>
      PROVE  World' /\ \A b \in Sandbox : sandbox[b] \in {"paused", "lost"} => sandbox'[b] = sandbox[b]
    <2>1. /\ \A t \in StartTask : conv'[t].box = conv[t].box
          /\ \A t \in StartTask : conv'[t].state # "unused" <=> conv[t].state # "unused"
        BY <1>2 DEF IInv, TypeOK
    <2>2. Used' = Used
        BY <2>1 DEF Used
    <2> QED
        BY <1>2, <2>1, <2>2, WorldKept
<1>3. ASSUME NEW b \in Sandbox, LoseSandbox(b)
      PROVE  World' /\ \A c \in Sandbox : sandbox[c] \in {"paused", "lost"} => sandbox'[c] = sandbox[c]
    <2>1. /\ sandbox[b] = "active" /\ UNCHANGED <<attemptVars, conv, strategy>>
          /\ \A c \in Sandbox : sandbox'[c] = IF c = b THEN "lost" ELSE sandbox[c]
        BY <1>3 DEF LoseSandbox, IInv, TypeOK
    <2>2. Used' = Used
        BY <2>1 DEF Used
    <2> QED
        BY <2>1, <2>2, WorldKept
<1> QED
    BY <1>1, <1>2, <1>3 DEF Platform, StartConversation, FailStart, EndConversation

\* The cleanup pauses one sandbox of the journals, or fails to.
LEMMA CleanUpShape ==
    ASSUME IInv, NEW b \in Sandbox, CleanUp(b)
    PROVE  /\ UNCHANGED <<attemptVars, conv, strategy, crashes, stage>>
           /\ stage = "cleanup" /\ handled' = handled \union {b}
           /\ \/ sandbox' = sandbox
              \/ sandbox[b] \in {"active", "paused"}
                 /\ sandbox' = [sandbox EXCEPT ![b] = "paused"]
           /\ \/ sandbox' = [sandbox EXCEPT ![b] = "paused"] /\ pauseErrors' = pauseErrors
              \/ pauseErrors' = pauseErrors \union {b}
           /\ faults' = faults \/ Fault
<1>1. PICK ok \in BOOLEAN :
        /\ Pauses(b, ok) /\ handled' = handled \union {b}
        /\ pauseErrors' = IF ok THEN pauseErrors ELSE pauseErrors \union {b}
    BY DEF CleanUp, HandledAfter
<1>2. TypeOK
    BY DEF IInv
<1>3. /\ \/ sandbox' = sandbox
         \/ sandbox[b] \in {"active", "paused"} /\ sandbox' = [sandbox EXCEPT ![b] = "paused"]
      /\ ok => sandbox' = [sandbox EXCEPT ![b] = "paused"]
      /\ faults' = faults \/ Fault
    BY <1>1, <1>2, PausesShape
<1>4. UNCHANGED <<attemptVars, conv, strategy, crashes, stage>> /\ stage = "cleanup"
    BY DEF CleanUp
<1> QED
    BY <1>1, <1>3, <1>4

LEMMA CleanUpKeeps ==
    ASSUME PInv, NEW b \in Sandbox, CleanUp(b)
    PROVE  PInv'
<1>1. /\ UNCHANGED <<attemptVars, conv, strategy, crashes, stage>>
      /\ stage = "cleanup" /\ handled' = handled \union {b}
      /\ \/ sandbox' = sandbox
         \/ sandbox[b] \in {"active", "paused"} /\ sandbox' = [sandbox EXCEPT ![b] = "paused"]
      /\ \/ sandbox' = [sandbox EXCEPT ![b] = "paused"] /\ pauseErrors' = pauseErrors
         \/ pauseErrors' = pauseErrors \union {b}
      /\ faults' = faults \/ Fault
    BY CleanUpShape DEF PInv
<1>2. sandbox \in [Sandbox -> {"none", "active", "paused", "lost"}] /\ IInv
    BY DEF PInv, IInv, TypeOK
<1>3. \A c \in Sandbox :
         \/ sandbox'[c] = sandbox[c]
         \/ sandbox[c] \in {"active", "paused"} /\ sandbox'[c] = "paused"
    BY <1>1, <1>2
<1>4. faults' \in 0..MaxFaults /\ faults' >= faults
    BY <1>1, <1>2, FaultFacts, FaultAssumption DEF IInv, TypeOK
<1>5. TypeOK'
    BY <1>1, <1>2, <1>4 DEF IInv, TypeOK, attemptVars
<1>6. ConvInv'
    <2>1. \A s \in StartTask : conv[s].box \in Sandbox \union {None}
        BY <1>2 DEF IInv, TypeOK
    <2> QED
        BY <1>1, <1>2, <1>3, <2>1 DEF IInv, ConvInv
<1>7. Forward
    BY <1>1, <1>3, <1>4 DEF Forward
<1>8. /\ InFlight' = InFlight /\ Active' \subseteq Active /\ Used' = Used /\ Loose' = Loose
      /\ Credits' = Credits
    BY <1>1, <1>3 DEF InFlight, Active, Used, Loose, Credits, attemptVars
<1>9. Loose' \subseteq Used'
    BY <1>6 DEF Loose, Used, ConvInv
<1>10. Capacity'
    BY <1>2, <1>8, <1>9, CapacityKept DEF IInv, Capacity
<1>11. IInv'
    BY <1>1, <1>2, <1>5, <1>6, <1>7, <1>10, PlatformKeeps
<1>12. World'
    BY <1>1, <1>2, <1>3, <1>8, WorldKept DEF PInv
<1>13. Stages'
    BY <1>1, <1>8 DEF PInv, Stages, attemptVars
<1>14. CleanedUp'
    <2>1. \A c \in handled' \ pauseErrors' : sandbox'[c] \in {"paused", "lost"}
        <3> SUFFICES ASSUME NEW c \in handled' \ pauseErrors'
                     PROVE  sandbox'[c] \in {"paused", "lost"}
            OBVIOUS
        <3>1. CASE c = b
            BY <1>1, <1>2, <3>1
        <3>2. CASE c # b
            <4>1. c \in handled \ pauseErrors /\ c \in Sandbox
                BY <1>1, <3>2 DEF PInv, CleanedUp
            <4> QED
                BY <1>3, <4>1 DEF PInv, CleanedUp
        <3> QED
            BY <3>1, <3>2
    <2> QED
        BY <1>1, <2>1 DEF PInv, CleanedUp
<1> QED
    BY <1>11, <1>12, <1>13, <1>14 DEF PInv

-----------------------------------------------------------------------------
(* The other steps of the batch *)

LEMMA AttemptKeeps ==
    ASSUME PInv, NEW a \in Attempt, BeginTask(a) \/ TaskStep(a)
    PROVE  PInv'
<1>1. IInv /\ (ThreadStep(a)) /\ UNCHANGED poolVars
    BY DEF PInv, BeginTask, TaskStep, ThreadStep
<1>2. IInv'
    <2>1. CASE Begin(a) \/ Work(a)
        <3>1. [Next]_vars
            BY <2>1 DEF Next, Step
        <3> QED
            BY <1>1, <3>1, NextKeeps
    <2> QED
        BY <1>1, <2>1, ThreadEndsKeeps DEF ThreadStep
<1>3. IInv' /\ World'
    BY <1>1, <1>2, WorldByAttempt DEF PInv
<1>4. stage \notin {"cleanup", "exited"} /\ (stage \in {"gate", "seeding"} => a = Seed)
    <2>1. CASE BeginTask(a)
        BY <2>1 DEF BeginTask, Submitted
    <2>2. CASE Work(a) \/ ThreadEnds(a)
        <3>1. phase[a] \notin {"new", "escaped"} \union Recorded
            BY <2>2 DEF Work, ThreadEnds, CheckCapacity, Launch, JournalStart, SeeReady, StartFails,
               SeeTerminal, WaitFails, ReadAnswer, Return, Dwell, RequestPause, Pause, Record,
               Recorded
        <3> QED
            BY <3>1 DEF PInv, Stages, InFlight
    <2> QED
        BY <2>1, <2>2 DEF TaskStep
<1>5. Stages'
    BY <1>1, <1>4, StepOnAttempts DEF PInv, Stages, poolVars
<1>6. CleanedUp'
    BY <1>1, <1>4, StepOnSandboxes DEF PInv, CleanedUp, poolVars
<1> QED
    BY <1>3, <1>5, <1>6 DEF PInv

LEMMA PlatformStep ==
    ASSUME PInv, Platform, UNCHANGED poolVars
    PROVE  PInv'
<1>1. IInv' /\ World'
    BY PlatformStepKeeps, WorldByPlatform DEF PInv
<1>2. UNCHANGED attemptVars
    BY DEF Platform, Place, StartConversation, FailStart, EndConversation, LoseSandbox
<1>3. Stages'
    BY <1>2 DEF PInv, Stages, InFlight, attemptVars, poolVars
<1>4. CleanedUp'
    BY <1>2, WorldByPlatform DEF PInv, CleanedUp, SandboxIds, attemptVars, poolVars
<1> QED
    BY <1>1, <1>3, <1>4 DEF PInv

\* main() moves on; the workers and the platform do nothing.
LEMMA MainKeeps ==
    ASSUME PInv, Main
    PROVE  PInv'
<1>1. UNCHANGED <<vars, handled, pauseErrors>>
    BY DEF Main, Open, SeedReady, SeedDone, SeedTimesOut, Collect, Exit, To
<1>2. IInv'
    BY <1>1, UnchangedKeeps DEF PInv
<1>3. World'
    <2>1. Used' = Used
        BY <1>1 DEF Used, vars, platformVars
    <2> QED
        BY <1>1, <2>1, WorldKept DEF PInv, vars, platformVars
<1>4. Stages' /\ CleanedUp'
    <2>1. /\ InFlight' = InFlight /\ SandboxIds' = SandboxIds
          /\ UNCHANGED <<phase, sandbox, handled, pauseErrors>>
        BY <1>1 DEF InFlight, SandboxIds, vars, attemptVars, platformVars
    <2>2. \/ stage = "gate" /\ stage' \in {"seeding", "raised"}
          \/ stage' \in {"followers", "raised"}
          \/ stage = "cleanup" /\ stage' = "exited" /\ SandboxIds \subseteq handled
          \/ stage = "seeding" /\ HasResult(Seed) /\ stage' \in {"cleanup", "raised"}
          \/ (\A a \in Attempt : HasResult(a)) /\ stage' \in {"cleanup", "raised"}
        BY DEF After, Main, Open, SeedReady, SeedDone, SeedTimesOut, Collect, Exit, To
    <2>3. stage' \in {"cleanup", "exited"} => InFlight = {}
        BY <2>2 DEF PInv, Stages, InFlight, HasResult
    <2>4. stage' = "exited" => SandboxIds \subseteq handled
        BY <2>2
    <2>5. stage' \in {"gate", "seeding"} => stage = "gate"
        BY <2>2
    <2> QED
        BY <2>1, <2>3, <2>4, <2>5 DEF PInv, Stages, CleanedUp
<1> QED
    BY <1>2, <1>3, <1>4 DEF PInv

LEMMA PoolInitHolds == PoolInit => PInv
<1> SUFFICES ASSUME PoolInit
             PROVE  PInv
    OBVIOUS
<1>1. IInv
    BY InitHolds DEF PoolInit
<1>2. World
    BY DEF PoolInit, Init, World, Held, Known, Alone, Distinct, PausesOwn, Used
<1>3. Stages /\ CleanedUp
    BY DEF PoolInit, Init, Stages, CleanedUp
<1> QED
    BY <1>1, <1>2, <1>3 DEF PInv

LEMMA PoolNextKeeps == PInv /\ [PoolNext]_allVars => PInv'
<1>1. ASSUME PInv, UNCHANGED allVars
      PROVE  PInv'
    <2>1. IInv'
        BY <1>1, UnchangedKeeps DEF PInv, allVars
    <2>2. /\ Used' = Used /\ InFlight' = InFlight /\ SandboxIds' = SandboxIds
          /\ UNCHANGED <<attemptVars, phase, conv, sandbox, strategy, stage, handled, pauseErrors>>
        BY <1>1 DEF allVars, vars, attemptVars, platformVars, poolVars, Used, InFlight, SandboxIds
    <2>3. World'
        BY <1>1, <2>2, WorldKept DEF PInv
    <2> QED
        BY <1>1, <2>1, <2>2, <2>3 DEF PInv, Stages, CleanedUp
<1> QED
    BY <1>1, MainKeeps, CleanUpKeeps, AttemptKeeps, PlatformStep DEF PoolNext

-----------------------------------------------------------------------------
(* The batch: theorems *)

\* What the workers' invariant, the sharing of sandboxes and the stages of main()
\* guarantee each other in every batch (run-concurrent.py:280-380).
THEOREM PoolInductive == PoolSpec => []PInv
    BY PoolInitHolds, PoolNextKeeps, PTL DEF PoolSpec

\* A batch that exits with 0 has no sandbox running, also those that grouping shared
\* (sandbox_ids_from_lifecycle and the cleanup of run-concurrent.py).
THEOREM CleanOnSuccess == PoolSpec => []SuccessMeansClean
<1>1. PInv => SuccessMeansClean
    <2> SUFFICES ASSUME PInv, ExitsWithZero, NEW b \in Sandbox, sandbox[b] = "active"
                 PROVE  FALSE
        BY DEF SuccessMeansClean, Active
    <2>1. PICK s \in StartTask : conv[s].box = b
        BY DEF PInv, World, Held
    <2>2. b # None /\ s \in Used
        BY <2>1, NoneAssumption DEF PInv, IInv, ConvInv, Used
    <2>3. PICK a \in Attempt : start[a] = s
        BY <2>2 DEF PInv, World, Known, FailsOrFailed, ExitsWithZero
    <2>4. seen[a] = b
        BY <2>1, <2>3, Facts DEF PInv, AttemptInv, Placement, Done, ExitsWithZero
    <2>5. b \in SandboxIds
        BY <2>2, <2>4 DEF SandboxIds
    <2>6. b \in handled \ pauseErrors
        BY <2>5 DEF ExitsWithZero, PInv, CleanedUp
    <2> QED
        BY <2>6 DEF PInv, CleanedUp
<1> QED
    BY <1>1, PoolInductive, PTL

\* No worker and no cleanup pauses the sandbox of a conversation that another worker
\* is starting, waiting for or reading, however sandboxes are grouped
\* (pause_after_attempt of workers.py, the executor of run-concurrent.py).
THEOREM SandboxesAreSafe == PoolSpec => NobodyLosesItsSandbox
<1> DEFINE Safe ==
        \A a \in Attempt, b \in Sandbox :
            /\ sandbox[b] = "active" /\ sandbox'[b] = "paused"
            /\ phase[a] \in {"poll", "wait", "answer", "dwell"}
            => conv[start[a]].box # b
<1>1. PInv /\ [PoolNext]_allVars => [Safe]_allVars
    <2> SUFFICES ASSUME PInv, PoolNext, NEW a \in Attempt, NEW b \in Sandbox,
                        sandbox[b] = "active", sandbox'[b] = "paused",
                        phase[a] \in {"poll", "wait", "answer", "dwell"},
                        conv[start[a]].box = b
                 PROVE  FALSE
        OBVIOUS
    <2>1. start[a] # None /\ start[a] \in StartTask /\ IInv
        BY Facts DEF PInv, AttemptInv, Placement, Attached
    <2>2. ASSUME NEW c \in Attempt, ThreadStep(c)
          PROVE  FALSE
        <3>1. phase[c] = "pausing" /\ b = seen[c]
            BY <2>1, <2>2, StepOnSandboxes
        <3>2. start[c] \in StartTask /\ conv[start[c]].box = b /\ b # None
            BY <2>1, <3>1, SeenInSandbox
        <3>3. start[c] = start[a]
            BY <2>1, <3>1, <3>2 DEF PInv, World, Alone, PausesOwn
        <3>4. c = a
            BY <2>1, <3>3 DEF PInv, World, Distinct
        <3> QED
            BY <3>1, <3>4
    <2>3. ASSUME NEW c \in Sandbox, CleanUp(c)
          PROVE  FALSE
        BY <2>3 DEF CleanUp, PInv, Stages, InFlight, Recorded
    <2>4. CASE Main
        BY <2>4 DEF Main, Open, SeedReady, SeedDone, SeedTimesOut, Collect, Exit, vars, platformVars
    <2>5. CASE Platform
        <3>1. sandbox'[b] # "paused"
            BY <2>5 DEF Platform, Place, StartConversation, FailStart, EndConversation,
               LoseSandbox, PInv, IInv, TypeOK
        <3> QED
            BY <3>1
    <2> QED
        BY <2>2, <2>3, <2>4, <2>5 DEF PoolNext, BeginTask, TaskStep, ThreadStep
<1> QED
    BY <1>1, PoolInductive, PTL DEF PoolSpec, NobodyLosesItsSandbox

\* In a batch, too, the sandboxes that run stay within the launch lock, one per other
\* thread, and one per abandoned start (workers.py:404, run-concurrent.py:324).
THEOREM PoolWithinLock == PoolSpec => []OvershootIsBounded
<1>1. PInv => OvershootIsBounded
    BY WithinLock DEF PInv
<1> QED
    BY <1>1, PoolInductive, PTL
=============================================================================
