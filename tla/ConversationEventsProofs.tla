---------------------- MODULE ConversationEventsProofs ----------------------
(***************************************************************************)
(* What the two observers of a conversation conclude is true: over the     *)
(* websocket, and by polling records and events that lag.  For every       *)
(* number of steps, deltas, retries and faults and any window of the       *)
(* index; for the answer the window must be longer than a stream.          *)
(***************************************************************************)
EXTENDS ConversationEvents, FiniteSetTheorems, SequenceTheorems, WellFoundedInduction, TLAPS

Kind == {"delta", "tool", "error", "message", "finish", "execution_status", "full_state"}
Event == [kind : Kind, step : Nat, value : Ends \union {"running", None}]

Watching == [pc : {"off", "skipped", "open", "returned", "raised"}, received : Nat,
             status : Ends \union {None}]
Reading == [pc : {"poll", "fetch", "scan", "last", "answer", "returned", "raised"},
            status : Ends \union {None}, recovered : BOOLEAN, seen : Nat,
            events : Seq(Event), upto : Nat, tries : Nat, text : Seq(Event)]

TypeOK ==
    /\ log \in Seq(Event)
    /\ exec \in Ends \union {"running", "stopping"}
    /\ step \in Nat
    /\ record \in Ends \union {"running"}
    /\ indexed \in 0..Len(log)
    /\ sandbox \in {"RUNNING", "PAUSED", "MISSING"}
    /\ ws \in Watching
    /\ rest \in Reading
    /\ faults \in Nat

\* The agent has stopped within a step; for good, if it need not be confirmed.
Cut == {"error", "stopped", "waiting_for_confirmation"}

\* What an event says of the agent, then and now.
Tells(e) ==
    /\ e.kind \in {"execution_status", "full_state"} <=> e.value # None
    /\ e.kind = "full_state" => e.value = "finished" /\ exec = "finished"
    /\ e.value \in {"error", "stopped"} => exec = e.value
    /\ e.value = "waiting_for_confirmation" => exec = e.value \/ Resumed
    /\ e.value = "finished" => exec \in {"stopping", "finished"} \/ Resumed
    /\ e.kind \in {"message", "finish"} => e.step = step \/ Resumed

EndsOK ==
    /\ \A i \in 1..Len(log) : Tells(log[i])
    /\ exec \in Cut =>
           log # << >> /\ log[Len(log)].kind = "execution_status" /\ log[Len(log)].value = exec

\* Steps follow each other, and something other than a delta ends each.
StepsOK ==
    /\ \A i \in 1..Len(log) : log[i].step <= step
    /\ \A i, k \in 1..Len(log) : i <= k => log[i].step <= log[k].step
    /\ \A i \in 1..Len(log) : log[i].kind = "delta" =>
           IF i = Len(log) THEN log[i].step = step ELSE log[i].step = log[i + 1].step
    /\ Cardinality(Of({"delta"})) <= MaxDeltas

\* How much of the log precedes the signals that the agent finished.
Spoken == Len(log) - (IF exec = "stopping" THEN 1 ELSE IF exec = "finished" THEN 2 ELSE 0)

\* A step is streamed, then said; an agent that stopped has done either.
SpeechOK ==
    exec \notin Cut =>
        /\ Spoken \in 0..Len(log)
        /\ \A i \in 1..Spoken : log[i].step = step =>
               log[i].kind = "delta" \/ (i = Spoken /\ log[i].kind \in {"message", "finish"})
        /\ \A i \in (Spoken + 1)..Len(log) : log[i].kind \in {"execution_status", "full_state"}
        /\ exec # "running" =>
               Spoken > 0 /\ log[Spoken].step = step
               /\ log[Spoken].kind \in {"delta", "message", "finish"}

LogInv == EndsOK /\ StepsOK /\ SpeechOK

First(upto) == Max({1, upto - Window + 1})
WindowTo(upto) == SubSeq(log, First(upto), upto)

\* The user has confirmed since.
HasConfirmed(status) == status = "waiting_for_confirmation" /\ Resumed

Concluded ==
    \/ rest.status = exec
    \/ HasConfirmed(rest.status)
    \/ /\ rest.recovered /\ sandbox # "RUNNING"
       /\ \/ Resumed
          \/ rest.status = "finished" /\ (exec = "stopping" \/ (exec = "running" /\ Said))
          \/ rest.status = "error" /\ exec = "running" /\ ToolFailed
          \/ rest.seen < Len(log)

RestInv ==
    /\ rest.pc \in {"poll", "fetch", "scan", "last"} => rest.tries = 0 /\ ~rest.recovered
    /\ rest.pc \in {"scan", "last"} => sandbox # "RUNNING"
    /\ rest.pc = "fetch" => rest.status = exec \/ HasConfirmed(rest.status)
    /\ rest.pc \in {"fetch", "answer", "returned"} => rest.status \in Ends
    /\ rest.pc = "answer" => rest.events = WindowTo(rest.upto) /\ rest.upto <= Len(log)
    /\ rest.pc \in {"answer", "returned"} => Concluded

IInv ==
    /\ TypeOK
    /\ LogInv
    /\ record \in Ends => record = exec \/ HasConfirmed(record)
    /\ ws.pc = "returned" => ws.status \in {"finished", "error"} /\ ws.status = exec
    /\ RestInv

-----------------------------------------------------------------------------
(* Helpers *)

LEMMA GreatestOf ==
    ASSUME NEW n \in Nat, NEW S, S \subseteq 0..n, S # {}
    PROVE  Max(S) \in S /\ \A x \in S : x <= Max(S)
<1> DEFINE Above == {(x + 1)..n : x \in S}
<1>1. IsWellFoundedOn(StrictSubsetOrdering(Nat), FiniteSubsetsOf(Nat))
    BY FS_StrictSubsetOrderingWellFounded
<1>2. Above # {} /\ Above \subseteq FiniteSubsetsOf(Nat)
    <2>1. \A x \in S : x + 1 \in Int /\ n \in Int /\ (x + 1)..n \in SUBSET Nat
        OBVIOUS
    <2>2. \A x \in S : IsFiniteSet((x + 1)..n)
        BY <2>1, FS_Interval
    <2> QED
        BY <2>1, <2>2 DEF FiniteSubsetsOf
<1> HIDE DEF Above
<1>3. PICK L \in Above : \A T \in Above : ~ (<<T, L>> \in StrictSubsetOrdering(Nat))
    BY <1>1, <1>2, WFMin
<1>4. PICK m \in S : L = (m + 1)..n
    BY DEF Above
<1>5. ASSUME NEW x \in S, m < x
      PROVE  FALSE
    <2>1. (x + 1)..n \in Above
        BY DEF Above
    <2>2. x \in (m + 1)..n /\ x \notin (x + 1)..n
        BY <1>5
    <2>3. (x + 1)..n \subseteq (m + 1)..n /\ (x + 1)..n # (m + 1)..n
          /\ (x + 1)..n \in SUBSET Nat /\ (m + 1)..n \in SUBSET Nat
        BY <2>2, <1>5
    <2> QED
        BY <2>1, <2>3, <1>3, <1>4 DEF StrictSubsetOrdering
<1>6. \A x \in S : x <= m
    BY <1>5
<1>7. \E x \in S : \A y \in S : x >= y
    BY <1>6
<1> QED
    BY <1>7 DEF Max

LEMMA LogFacts ==
    ASSUME TypeOK
    PROVE  /\ Len(log) \in Nat /\ DOMAIN log = 1..Len(log)
           /\ \A i \in 1..Len(log) : log[i] \in Event
           /\ \A i \in 1..Len(log) :
                  log[i].step \in Nat /\ log[i].kind \in Kind
                  /\ log[i].value \in Ends \union {"running", None}
           /\ step \in Nat
<1>1. Len(log) \in Nat /\ DOMAIN log = 1..Len(log)
    BY LenProperties DEF TypeOK
<1>2. \A i \in 1..Len(log) : log[i] \in Event
    BY ElementOfSeq DEF TypeOK
<1> QED
    BY <1>1, <1>2 DEF TypeOK, Event

LEMMA Grows ==
    ASSUME TypeOK, NEW e \in Event, log' = Append(log, e)
    PROVE  /\ log' \in Seq(Event) /\ Len(log') = Len(log) + 1
           /\ DOMAIN log' = 1..(Len(log) + 1)
           /\ \A i \in 1..Len(log) : log'[i] = log[i]
           /\ log'[Len(log) + 1] = e
           /\ Resumed' <=> (Resumed \/ e.value = "running")
<1>1. /\ log' \in Seq(Event) /\ Len(log') = Len(log) + 1
      /\ \A i \in 1..Len(log) : log'[i] = log[i]
      /\ log'[Len(log) + 1] = e
    BY AppendProperties DEF TypeOK
<1>2. DOMAIN log' = 1..Len(log')
    BY <1>1, LenProperties
<1>3. Len(log) \in Nat /\ DOMAIN log = 1..Len(log)
    BY LogFacts
<1>4. Resumed' <=> (Resumed \/ e.value = "running")
    <2>1. ASSUME Resumed
          PROVE  Resumed'
        BY <1>1, <1>2, <1>3, <2>1 DEF Resumed
    <2>2. ASSUME e.value = "running"
          PROVE  Resumed'
        BY <1>1, <1>2, <1>3, <2>2 DEF Resumed
    <2>3. ASSUME Resumed', e.value # "running"
          PROVE  Resumed
        BY <1>1, <1>2, <1>3, <2>3 DEF Resumed
    <2> QED
        BY <2>1, <2>2, <2>3
<1> QED
    BY <1>1, <1>2, <1>3, <1>4

LEMMA SaidMeans ==
    ASSUME TypeOK
    PROVE  Said <=> \E i \in 1..Len(log) :
                        log[i].step = step /\ log[i].kind \in {"message", "finish"}
BY LogFacts DEF Said, Of

-----------------------------------------------------------------------------
(* The agent *)

\* An event of the current step is added, and the step may end with it.
LEMMA EmitKeepsSteps ==
    ASSUME TypeOK, StepsOK, NEW e \in Event, log' = Append(log, e), e.step = step,
           \/ step' = step /\ (e.kind = "delta" => Cardinality(Of({"delta"})) < MaxDeltas)
           \/ step' = step + 1 /\ e.kind # "delta"
    PROVE  StepsOK'
<1>1. step \in Nat /\ Len(log) \in Nat /\ DOMAIN log = 1..Len(log) /\ MaxDeltas \in Nat
    BY LogFacts, BoundAssumption
<1>2. /\ Len(log') = Len(log) + 1 /\ DOMAIN log' = 1..(Len(log) + 1)
      /\ \A i \in 1..Len(log) : log'[i] = log[i]
      /\ log'[Len(log) + 1] = e
    BY Grows
<1> DEFINE n == Len(log) + 1
<1>3. step' \in Nat /\ step <= step' /\ (e.kind = "delta" => step' = step)
    BY <1>1
<1>4. /\ \A i \in 1..Len(log) : log[i].step \in Nat /\ log[i].step <= step
      /\ \A i, k \in 1..Len(log) : i <= k => log[i].step <= log[k].step
      /\ \A i \in 1..Len(log) : log[i].kind = "delta" =>
             IF i = Len(log) THEN log[i].step = step ELSE log[i].step = log[i + 1].step
      /\ Cardinality(Of({"delta"})) <= MaxDeltas
    BY LogFacts DEF StepsOK
<1>5. \A i \in 1..Len(log') : i = n \/ (i \in 1..Len(log) /\ i < n)
    BY <1>1, <1>2
<1>6. ASSUME NEW i \in 1..Len(log')
      PROVE  log'[i].step <= step /\ log'[i].step \in Nat /\ log'[i].step <= step'
    <2>1. CASE i = n
        BY <1>1, <1>2, <1>3, <2>1
    <2>2. CASE i # n
        <3>1. i \in 1..Len(log)
            BY <1>5, <2>2
        <3>2. log'[i].step = log[i].step /\ log[i].step <= step /\ log[i].step \in Nat
            BY <1>2, <1>4, <3>1
        <3> QED
            BY <1>1, <1>3, <3>2
    <2> QED
        BY <2>1, <2>2
<1>7. ASSUME NEW i \in 1..Len(log'), NEW k \in 1..Len(log'), i <= k
      PROVE  log'[i].step <= log'[k].step
    <2>1. CASE k = n /\ i = n
        BY <1>1, <1>2, <2>1
    <2>2. CASE k = n /\ i # n
        BY <1>1, <1>2, <1>4, <1>5, <2>2
    <2>3. CASE k # n
        <3>1. i \in 1..Len(log) /\ k \in 1..Len(log)
            BY <1>1, <1>5, <1>7, <2>3
        <3> QED
            BY <1>2, <1>4, <1>7, <3>1
    <2> QED
        BY <2>1, <2>2, <2>3
<1>8. ASSUME NEW i \in 1..Len(log'), log'[i].kind = "delta"
      PROVE  IF i = Len(log') THEN log'[i].step = step' ELSE log'[i].step = log'[i + 1].step
    <2>1. CASE i = n
        BY <1>1, <1>2, <1>3, <1>8, <2>1
    <2>2. CASE i = Len(log)
        BY <1>1, <1>2, <1>4, <1>5, <1>8, <2>2
    <2>3. CASE i \notin {n, Len(log)}
        <3>1. i \in 1..Len(log) /\ i + 1 \in 1..Len(log) /\ i # Len(log) /\ i # Len(log')
            BY <1>1, <1>2, <1>5, <2>3
        <3> QED
            BY <1>2, <1>4, <1>8, <3>1
    <2> QED
        BY <2>1, <2>2, <2>3
<1>9. Cardinality(Of({"delta"})') <= MaxDeltas
    <2>0. PICK S : S = Of({"delta"})
        OBVIOUS
    <2>1. /\ S = {i \in 1..Len(log) : log[i].step = step /\ log[i].kind = "delta"}
          /\ Of({"delta"})' = {i \in 1..Len(log') : log'[i].step = step' /\ log'[i].kind = "delta"}
        BY <2>0, <1>1, <1>2 DEF Of
    <2>2. S \subseteq 1..Len(log) /\ n \notin S
        BY <2>1, <1>1
    <2>3. IsFiniteSet(S) /\ Cardinality(S) \in Nat
        <3>1. IsFiniteSet(1..Len(log))
            BY <1>1, FS_Interval
        <3> QED
            BY <2>2, <3>1, FS_Subset, FS_CardinalityType
    <2>4. CASE step' = step /\ e.kind # "delta"
        <3>1. Of({"delta"})' = S
            BY <1>1, <1>2, <1>5, <2>1, <2>4
        <3> QED
            BY <3>1, <1>4, <2>0
    <2>5. CASE step' = step /\ e.kind = "delta"
        <3>1. Of({"delta"})' = S \union {n}
            BY <1>1, <1>2, <1>5, <2>1, <2>5
        <3>2. Cardinality(S \union {n}) = Cardinality(S) + 1 /\ Cardinality(S) < MaxDeltas
            BY <2>0, <2>2, <2>3, <2>5, <1>1, FS_AddElement
        <3>3. Cardinality(S \union {n}) <= MaxDeltas
            BY <3>2, <2>3, <1>1
        <3> QED
            BY <3>1, <3>3, Zenon
    <2>6. CASE step' = step + 1
        <3>1. \A i \in 1..Len(log') : log'[i].step # step'
            BY <1>1, <1>6, <2>6
        <3>2. Of({"delta"})' = {}
            BY <2>1, <3>1
        <3> QED
            <4>1. Cardinality({}) <= MaxDeltas
                BY FS_EmptySet, <1>1
            <4> QED
                BY <3>2, <4>1, Zenon
    <2> QED
        BY <2>4, <2>5, <2>6
<1> QED
    BY <1>6, <1>7, <1>8, <1>9 DEF StepsOK

\* What the events told stays true of an agent that goes on.
LEMMA EmitKeepsEnds ==
    ASSUME TypeOK, EndsOK, exec \in {"running", "stopping", "waiting_for_confirmation"},
           NEW e \in Event, log' = Append(log, e),
           exec = "stopping" => exec' = "finished" \/ Resumed',
           exec = "waiting_for_confirmation" => Resumed',
           step' = step \/ Resumed' \/ ~Said,
           Tells(e)',
           exec' \in Cut => e.kind = "execution_status" /\ e.value = exec'
    PROVE  EndsOK'
<1>1. /\ Len(log') = Len(log) + 1 /\ Len(log) \in Nat
      /\ \A i \in 1..Len(log) : log'[i] = log[i]
      /\ log'[Len(log) + 1] = e
      /\ Resumed => Resumed'
      /\ log' \in Seq(Event)
    BY Grows, LogFacts
<1>2. ASSUME NEW i \in 1..Len(log)
      PROVE  Tells(log[i])'
    <2>1. Tells(log[i])
        BY DEF EndsOK
    <2>2. log[i].kind \in {"message", "finish"} => log[i].step = step' \/ Resumed'
        BY <2>1, <1>1, SaidMeans DEF Tells
    <2>3. log'[i] = log[i]
        BY <1>1
    <2> QED
        BY <2>1, <2>2, <2>3, <1>1 DEF Tells
<1>3. log' # << >>
    BY <1>1, EmptySeq
<1>4. exec' \in Cut => log'[Len(log')].kind = "execution_status" /\ log'[Len(log')].value = exec'
    BY <1>1
<1>5. \A i \in 1..Len(log') : i = Len(log) + 1 \/ i \in 1..Len(log)
    BY <1>1
<1> QED
    BY <1>1, <1>2, <1>3, <1>4, <1>5 DEF EndsOK

\* What a step of the agent does to the log.
LEMMA Emitted ==
    ASSUME TypeOK, NEW kind \in Kind, NEW value \in Ends \union {"running", None},
           Emits(kind, value)
    PROVE  \E e \in Event :
               /\ log' = Append(log, e) /\ e = [kind |-> kind, step |-> step, value |-> value]
               /\ e.kind = kind /\ e.value = value /\ e.step = step
BY LogFacts DEF Emits, Event

\* A new step has no events yet.
LEMMA NewStep ==
    ASSUME TypeOK, StepsOK', exec' = "running", log' \in Seq(Event),
           \A i \in 1..Len(log') : log'[i].step # step'
    PROVE  SpeechOK'
<1>1. Len(log') \in Nat
    BY LenProperties
<1>2. Spoken' = Len(log')
    BY <1>1 DEF Spoken
<1> QED
    BY <1>1, <1>2 DEF SpeechOK

LEMMA StreamKeeps ==
    ASSUME TypeOK, LogInv, Stream \/ Say
    PROVE  LogInv'
<1>1. exec = "running" /\ exec' = "running" /\ step' = step /\ ~Said
    BY DEF Stream, Say
<1>2. PICK kind \in {"delta", "message", "finish"} :
          Emits(kind, None) /\ (kind = "delta" => Cardinality(Of({"delta"})) < MaxDeltas)
    BY DEF Stream, Say
<1>3. PICK e \in Event :
          log' = Append(log, e) /\ e.kind = kind /\ e.value = None /\ e.step = step
    BY <1>2, Emitted DEF Kind
<1>4. StepsOK'
    BY <1>1, <1>2, <1>3, EmitKeepsSteps DEF LogInv
<1>5. Tells(e)'
    BY <1>1, <1>3, NoneAssumption DEF Tells, Ends
<1>6. EndsOK'
    BY <1>1, <1>3, <1>5, EmitKeepsEnds DEF LogInv, Cut
<1>7. SpeechOK'
    <2>1. /\ Len(log') = Len(log) + 1 /\ Len(log) \in Nat
          /\ \A i \in 1..Len(log) : log'[i] = log[i]
          /\ log'[Len(log) + 1] = e
        BY <1>3, Grows, LogFacts
    <2>2. Spoken = Len(log) /\ Spoken' = Len(log) + 1
        BY <1>1, <2>1 DEF Spoken
    <2>3. \A i \in 1..Len(log) : log[i].step = step => log[i].kind = "delta"
        BY <1>1, <2>2, SaidMeans DEF LogInv, SpeechOK, Cut
    <2>4. \A i \in 1..Len(log') : i = Len(log) + 1 \/ i \in 1..Len(log)
        BY <2>1
    <2> QED
        BY <1>1, <1>2, <1>3, <2>1, <2>2, <2>3, <2>4 DEF SpeechOK, Cut
<1> QED
    BY <1>4, <1>6, <1>7 DEF LogInv

\* The agent uses a tool, or the stop hook or the user resumes it: the next step begins.
LEMMA NextStepKeeps ==
    ASSUME TypeOK, LogInv, UseTool \/ Resume
    PROVE  LogInv'
<1>1. /\ exec' = "running" /\ step' = step + 1
      /\ exec \in {"running", "stopping", "waiting_for_confirmation"}
      /\ exec # "running" \/ ~Said
    BY DEF UseTool, Resume
<1>2. PICK kind \in Kind, value \in {"running", None} :
          /\ Emits(kind, value)
          /\ \/ kind \in {"tool", "error"} /\ value = None /\ exec = "running"
             \/ kind = "execution_status" /\ value = "running"
    BY DEF UseTool, Resume, Kind
<1>3. PICK e \in Event :
          log' = Append(log, e) /\ e.kind = kind /\ e.value = value /\ e.step = step
    BY <1>2, Emitted
<1>4. /\ Len(log') = Len(log) + 1 /\ Len(log) \in Nat /\ log' \in Seq(Event) /\ step \in Nat
      /\ \A i \in 1..Len(log) : log'[i] = log[i]
      /\ log'[Len(log) + 1] = e
      /\ value = "running" => Resumed'
    BY <1>3, Grows, LogFacts
<1>5. StepsOK'
    BY <1>1, <1>2, <1>3, EmitKeepsSteps DEF LogInv
<1>6. Tells(e)'
    BY <1>1, <1>2, <1>3, NoneAssumption DEF Tells, Ends
<1>7. EndsOK'
    BY <1>1, <1>2, <1>3, <1>4, <1>6, EmitKeepsEnds DEF LogInv, Cut
<1>8. \A i \in 1..Len(log') : log'[i].step # step'
    <2>1. \A i \in 1..Len(log) : log[i].step <= step /\ log[i].step \in Nat
        BY LogFacts DEF LogInv, StepsOK
    <2> QED
        BY <1>1, <1>3, <1>4, <2>1
<1>9. SpeechOK'
    BY <1>1, <1>4, <1>5, <1>8, NewStep
<1> QED
    BY <1>5, <1>7, <1>9 DEF LogInv

LEMMA StopKeeps ==
    ASSUME TypeOK, LogInv, Stop
    PROVE  LogInv'
<1>1. exec = "running" /\ exec' = "stopping" /\ step' = step
      /\ Emits("execution_status", "finished")
    BY DEF Stop
<1>2. PICK e \in Event :
          /\ log' = Append(log, e)
          /\ e.kind = "execution_status" /\ e.value = "finished" /\ e.step = step
    BY <1>1, Emitted DEF Kind, Ends
<1>3. StepsOK'
    BY <1>1, <1>2, EmitKeepsSteps DEF LogInv
<1>4. Tells(e)'
    BY <1>1, <1>2, NoneAssumption DEF Tells, Ends
<1>5. EndsOK'
    BY <1>1, <1>2, <1>4, EmitKeepsEnds DEF LogInv, Cut
<1>6. SpeechOK'
    <2>1. /\ Len(log') = Len(log) + 1 /\ Len(log) \in Nat
          /\ \A i \in 1..Len(log) : log'[i] = log[i]
          /\ log'[Len(log) + 1] = e
        BY <1>2, Grows, LogFacts
    <2>2. Spoken = Len(log) /\ Spoken' = Len(log)
        BY <1>1, <2>1 DEF Spoken
    <2>3. \A i \in 1..Len(log) : log[i].step = step =>
              log[i].kind = "delta" \/ (i = Len(log) /\ log[i].kind \in {"message", "finish"})
        BY <1>1, <2>2 DEF LogInv, SpeechOK, Cut
    <2>4. PICK i \in 1..Len(log) : log[i].step = step
        BY LogFacts DEF Stop, Of
    <2>5. Len(log) \in 1..Len(log) /\ log[Len(log)].step = step
        <3>1. Len(log) \in 1..Len(log) /\ i <= Len(log)
            BY <2>1, <2>4
        <3>2. log[i].step <= log[Len(log)].step /\ log[Len(log)].step <= step
              /\ log[Len(log)].step \in Nat /\ step \in Nat
            BY <3>1, LogFacts DEF LogInv, StepsOK
        <3> QED
            BY <3>1, <3>2, <2>4
    <2>6. \A k \in (Len(log) + 1)..Len(log') : k = Len(log) + 1
        BY <2>1
    <2> QED
        BY <1>1, <1>2, <2>1, <2>2, <2>3, <2>5, <2>6 DEF SpeechOK, Cut
<1> QED
    BY <1>3, <1>5, <1>6 DEF LogInv

LEMMA HookAllowsKeeps ==
    ASSUME TypeOK, LogInv, HookAllows
    PROVE  LogInv'
<1>1. exec = "stopping" /\ exec' = "finished" /\ step' = step
      /\ Emits("full_state", "finished")
    BY DEF HookAllows
<1>2. PICK e \in Event :
          /\ log' = Append(log, e)
          /\ e.kind = "full_state" /\ e.value = "finished" /\ e.step = step
    BY <1>1, Emitted DEF Kind, Ends
<1>3. StepsOK'
    BY <1>1, <1>2, EmitKeepsSteps DEF LogInv
<1>4. Tells(e)'
    BY <1>1, <1>2, NoneAssumption DEF Tells, Ends
<1>5. EndsOK'
    BY <1>1, <1>2, <1>4, EmitKeepsEnds DEF LogInv, Cut
<1>6. SpeechOK'
    <2>1. /\ Len(log') = Len(log) + 1 /\ Len(log) \in Nat
          /\ \A i \in 1..Len(log) : log'[i] = log[i]
          /\ log'[Len(log) + 1] = e
        BY <1>2, Grows, LogFacts
    <2>2. Spoken = Len(log) - 1 /\ Spoken' = Len(log) - 1
        BY <1>1, <2>1 DEF Spoken
    <2>3. /\ Len(log) - 1 \in 1..Len(log)
          /\ \A i \in 1..(Len(log) - 1) : log[i].step = step =>
                 log[i].kind = "delta"
                 \/ (i = Len(log) - 1 /\ log[i].kind \in {"message", "finish"})
          /\ log[Len(log)].kind \in {"execution_status", "full_state"}
          /\ log[Len(log) - 1].step = step
          /\ log[Len(log) - 1].kind \in {"delta", "message", "finish"}
        BY <1>1, <2>1, <2>2 DEF LogInv, SpeechOK, Cut
    <2>4. \A k \in Len(log)..Len(log') : k = Len(log) + 1 \/ k = Len(log)
        BY <2>1
    <2> QED
        BY <1>1, <1>2, <2>1, <2>2, <2>3, <2>4 DEF SpeechOK, Cut
<1> QED
    BY <1>3, <1>5, <1>6 DEF LogInv

LEMMA CutKeeps ==
    ASSUME TypeOK, LogInv, Ask \/ Break
    PROVE  LogInv'
<1>1. PICK s \in Cut :
          exec = "running" /\ exec' = s /\ step' = step /\ Emits("execution_status", s)
    BY DEF Ask, Break, Cut
<1>2. PICK e \in Event :
          /\ log' = Append(log, e)
          /\ e.kind = "execution_status" /\ e.value = s /\ e.step = step
    BY <1>1, Emitted DEF Kind, Ends, Cut
<1>3. StepsOK'
    BY <1>1, <1>2, EmitKeepsSteps DEF LogInv
<1>4. Tells(e)'
    BY <1>1, <1>2, NoneAssumption DEF Tells, Ends, Cut
<1>5. EndsOK'
    BY <1>1, <1>2, <1>4, EmitKeepsEnds DEF LogInv
<1>6. SpeechOK'
    BY <1>1 DEF SpeechOK
<1> QED
    BY <1>3, <1>5, <1>6 DEF LogInv

-----------------------------------------------------------------------------
(* Reading events *)

LEMMA WindowFacts ==
    ASSUME TypeOK, NEW u \in 0..Len(log)
    PROVE  /\ First(u) \in 1..(u + 1)
           /\ First(u) = 1 \/ First(u) = u - Window + 1
           /\ WindowTo(u) \in Seq(Event)
           /\ Len(WindowTo(u)) = u - First(u) + 1
           /\ \A k \in 1..(u - First(u) + 1) : WindowTo(u)[k] = log[First(u) + k - 1]
<1>1. u \in Nat /\ Len(log) \in Nat /\ Window \in Nat
    BY LogFacts, BoundAssumption
<1>2. First(u) = IF u - Window + 1 >= 1 THEN u - Window + 1 ELSE 1
    <2>1. CASE u - Window + 1 >= 1
        BY <1>1, <2>1 DEF First, Max
    <2>2. CASE ~(u - Window + 1 >= 1)
        BY <1>1, <2>2 DEF First, Max
    <2> QED
        BY <2>1, <2>2
<1>3. First(u) \in 1..(u + 1) /\ (First(u) = 1 \/ First(u) = u - Window + 1)
    BY <1>1, <1>2
<1> HIDE DEF First
<1>4. \A i \in First(u)..u : log[i] \in Event
    BY <1>1, <1>3, LogFacts
<1>5. /\ WindowTo(u) \in Seq(Event)
      /\ Len(WindowTo(u)) = IF First(u) <= u THEN u - First(u) + 1 ELSE 0
      /\ \A k \in 1..(u - First(u) + 1) : WindowTo(u)[k] = log[First(u) + k - 1]
    <2>1. First(u) \in Int /\ u \in Int
        BY <1>1, <1>3
    <2> QED
        BY <1>4, <2>1, SubSeqProperties DEF WindowTo
<1> QED
    BY <1>1, <1>3, <1>5

\* What has been read stays what it was when the log grows.
LEMMA WindowStays ==
    ASSUME TypeOK, NEW e \in Event, log' = Append(log, e), NEW u \in 0..Len(log)
    PROVE  WindowTo(u)' = WindowTo(u)
<1>1. PICK f : f = First(u)
    OBVIOUS
<1>2. PICK w : w = WindowTo(u)
    OBVIOUS
<1>3. PICK l : l = log'
    OBVIOUS
<1>0. PICK v : v = SubSeq(l, f, u)
    OBVIOUS
<1>4. /\ u \in Nat /\ Len(log) \in Nat /\ Len(log') = Len(log) + 1
      /\ \A i \in 1..Len(log) : l[i] = log[i] /\ log[i] \in Event
    BY <1>3, Grows, LogFacts
<1>5. /\ f \in 1..(u + 1) /\ w \in Seq(Event) /\ Len(w) = u - f + 1
      /\ \A k \in 1..(u - f + 1) : w[k] = log[f + k - 1]
    BY <1>1, <1>2, WindowFacts
<1>6. ASSUME NEW i \in f..u
      PROVE  l[i] \in Event
    <2>1. f \in Int /\ 1 <= f /\ u <= Len(log) /\ u \in Int
        BY <1>4, <1>5
    <2>2. i \in 1..Len(log)
        BY <1>4, <2>1
    <2> QED
        BY <1>4, <2>2
<1>7. /\ v \in Seq(Event) /\ Len(v) = IF f <= u THEN u - f + 1 ELSE 0
      /\ \A k \in 1..(u - f + 1) : v[k] = l[f + k - 1]
    <2>1. f \in Int /\ u \in Int
        BY <1>4, <1>5
    <2> QED
        BY <1>0, <1>6, <2>1, SubSeqProperties
<1>8. Len(v) = Len(w)
    BY <1>4, <1>5, <1>7
<1>9. ASSUME NEW k \in 1..Len(w)
      PROVE  v[k] = w[k]
    <2>1. k \in 1..(u - f + 1) /\ f + k - 1 \in 1..Len(log)
        BY <1>4, <1>5
    <2> QED
        BY <1>4, <1>5, <1>7, <2>1
<1>10. v = w
    BY <1>5, <1>7, <1>8, <1>9, SeqEqual
<1>11. WindowTo(u)' = v
    BY <1>0, <1>1, <1>3 DEF WindowTo, First
<1> QED
    BY <1>2, <1>10, <1>11

LEMMA FetchedFacts ==
    ASSUME TypeOK
    PROVE  Fetched = WindowTo(indexed) /\ Fetched \in Seq(Event) /\ indexed \in Nat
<1>1. indexed \in 0..Len(log) /\ Len(log) \in Nat
    BY LogFacts DEF TypeOK
<1>2. Fetched = WindowTo(indexed)
    BY DEF Fetched, WindowTo, First
<1> QED
    BY <1>1, <1>2, WindowFacts

LEMMA EventFacts ==
    ASSUME NEW events \in Seq(Event)
    PROVE  /\ Len(events) \in Nat /\ DOMAIN events = 1..Len(events)
           /\ \A i \in 1..Len(events) : events[i] \in Event
BY LenProperties, ElementOfSeq

LEMMA LastOfMeans ==
    ASSUME NEW events \in Seq(Event), NEW kinds
    PROVE  /\ LastOf(events, kinds) \in 0..Len(events)
           /\ LastOf(events, kinds) > 0 => events[LastOf(events, kinds)].kind \in kinds
           /\ \A k \in 1..Len(events) : events[k].kind \in kinds => k <= LastOf(events, kinds)
<1>1. PICK S : S = {0} \union {i \in DOMAIN events : events[i].kind \in kinds}
    OBVIOUS
<1>2. S \subseteq 0..Len(events) /\ S # {} /\ Len(events) \in Nat
    BY <1>1, EventFacts
<1>3. Max(S) \in S /\ \A x \in S : x <= Max(S)
    BY <1>2, GreatestOf
<1>4. LastOf(events, kinds) = Max(S)
    BY <1>1 DEF LastOf
<1> QED
    BY <1>1, <1>2, <1>3, <1>4, EventFacts

\* The last event that tells an end decides.
LEMMA EndMeans ==
    ASSUME NEW events \in Seq(Event), EndFromEvents(events) # None
    PROVE  \E i \in 1..Len(events) :
               /\ TellsEnd(events[i])
               /\ \A k \in 1..Len(events) : TellsEnd(events[k]) => k <= i
               /\ EndFromEvents(events) = EndOf(events[i])
<1>1. PICK S : S = {i \in DOMAIN events : TellsEnd(events[i])}
    OBVIOUS
<1>2. EndFromEvents(events) =
          IF S = {} THEN None ELSE EndOf(events[Max(S)])
    BY <1>1 DEF EndFromEvents
<1>3. S # {} /\ S \subseteq 0..Len(events) /\ Len(events) \in Nat
    BY <1>1, <1>2, EventFacts
<1>4. Max(S) \in S /\ \A x \in S : x <= Max(S)
    BY <1>3, GreatestOf
<1> QED
    BY <1>1, <1>2, <1>3, <1>4, EventFacts

\* An answer is the last finish, or the last message where there is none.
LEMMA AgentTextMeans ==
    ASSUME NEW events \in Seq(Event)
    PROVE  \/ /\ AgentText(events) = << >>
              /\ \A k \in 1..Len(events) : events[k].kind \notin {"message", "finish"}
           \/ \E i \in 1..Len(events) :
                  /\ AgentText(events) = <<events[i]>>
                  /\ events[i].kind \in {"message", "finish"}
                  /\ \A k \in 1..Len(events) : events[k].kind = events[i].kind => k <= i
                  /\ events[i].kind = "message" =>
                         \A k \in 1..Len(events) : events[k].kind # "finish"
<1>1. PICK f : f = LastOf(events, {"finish"})
    OBVIOUS
<1>2. PICK m : m = LastOf(events, {"message"})
    OBVIOUS
<1>3. /\ f \in 0..Len(events) /\ (f > 0 => events[f].kind = "finish")
      /\ \A k \in 1..Len(events) : events[k].kind = "finish" => k <= f
    BY <1>1, LastOfMeans
<1>4. /\ m \in 0..Len(events) /\ (m > 0 => events[m].kind = "message")
      /\ \A k \in 1..Len(events) : events[k].kind = "message" => k <= m
    BY <1>2, LastOfMeans
<1>5. AgentText(events) =
          IF f > 0 THEN <<events[f]>> ELSE IF m > 0 THEN <<events[m]>> ELSE << >>
    BY <1>1, <1>2, <1>3 DEF AgentText
<1>6. Len(events) \in Nat
    BY EventFacts
<1>7. CASE f > 0
    BY <1>3, <1>5, <1>6, <1>7
<1>8. CASE ~(f > 0) /\ m > 0
    BY <1>3, <1>4, <1>5, <1>6, <1>8
<1>9. CASE ~(f > 0) /\ ~(m > 0)
    BY <1>3, <1>4, <1>5, <1>6, <1>9
<1> QED
    BY <1>7, <1>8, <1>9

LEMMA TextType ==
    ASSUME NEW events \in Seq(Event)
    PROVE  Text(events) \in Seq(Event)
<1>1. Len(events) \in Nat /\ \A i \in 1..Len(events) : events[i] \in Event
    BY EventFacts
<1>2. AgentText(events) \in Seq(Event)
    <2>1. << >> \in Seq(Event) /\ \A e \in Event : <<e>> \in Seq(Event)
        OBVIOUS
    <2>2. CASE AgentText(events) = << >>
        BY <2>1, <2>2
    <2>3. CASE AgentText(events) # << >>
        <3>1. PICK i \in 1..Len(events) : AgentText(events) = <<events[i]>>
            BY <2>3, AgentTextMeans
        <3> QED
            BY <1>1, <2>1, <3>1
    <2> QED
        BY <2>2, <2>3
<1>3. PICK last : last = LastOf(events, {"delta"}) /\ last \in 0..Len(events)
    BY LastOfMeans
<1>4. SubSeq(events, 1, last) \in Seq(Event)
    BY <1>1, <1>3, SubSeqProperties
<1>5. PICK before : /\ before = LastOf(SubSeq(events, 1, last),
                                       {e.kind : e \in ToSet(events)} \ {"delta"})
                    /\ before \in 0..Len(SubSeq(events, 1, last))
    BY <1>4, LastOfMeans
<1>6. before \in Nat
    BY <1>4, <1>5, EventFacts
<1>7. SubSeq(events, before + 1, last) \in Seq(Event)
    BY <1>1, <1>3, <1>6, SubSeqProperties
<1>8. StreamedText(events) \in Seq(Event)
    BY <1>3, <1>5, <1>7 DEF StreamedText
<1> QED
    BY <1>2, <1>8 DEF Text

-----------------------------------------------------------------------------
(* The invariant *)

LEMMA InitHolds ==
    ASSUME Init
    PROVE  IInv
<1>1. log = << >> /\ log \in Seq(Event) /\ Len(log) = 0 /\ DOMAIN log = {}
    BY EmptySeq DEF Init
<1>2. TypeOK
    <2>1. rest \in Reading
        BY <1>1 DEF Init, Reading
    <2>2. ws \in Watching
        BY DEF Init, Watching
    <2> QED
        BY <1>1, <2>1, <2>2 DEF Init, TypeOK
<1>3. EndsOK
    BY <1>1 DEF Init, EndsOK, Cut
<1>4. StepsOK
    <2>1. Of({"delta"}) = {}
        BY <1>1 DEF Of
    <2>2. Cardinality({}) <= MaxDeltas
        BY FS_EmptySet, BoundAssumption
    <2>3. Cardinality(Of({"delta"})) <= MaxDeltas
        BY <2>1, <2>2, Zenon
    <2> QED
        BY <1>1, <2>3 DEF StepsOK
<1>5. SpeechOK
    BY <1>1 DEF Init, SpeechOK, Spoken
<1>6. RestInv
    BY DEF Init, RestInv
<1> QED
    BY <1>2, <1>3, <1>4, <1>5, <1>6 DEF Init, IInv, LogInv, Ends

\* The agent moves only in a sandbox that runs and while somebody may still read: if an end
\* has been concluded, it is one that the user has confirmed.
LEMMA ConversationKeeps ==
    ASSUME IInv, Conversation
    PROVE  IInv'
<1>1. TypeOK /\ LogInv
    BY DEF IInv
<1>2. LogInv'
    BY <1>1, StreamKeeps, NextStepKeeps, StopKeeps, HookAllowsKeeps, CutKeeps DEF Conversation
<1>3. /\ exec \notin {"finished", "error", "stopped"} /\ Agent
      /\ exec = "waiting_for_confirmation" => Emits("execution_status", "running")
    BY DEF Conversation, Stream, Say, UseTool, Ask, Stop, Resume, HookAllows, Break
<1>4. UNCHANGED <<record, indexed, sandbox, ws, rest, faults>> /\ sandbox = "RUNNING"
      /\ rest.pc # "returned"
    BY <1>3 DEF Agent, Attended
<1>5. PICK kind \in Kind, value \in Ends \union {"running", None} : Emits(kind, value)
    BY DEF Conversation, Stream, Say, UseTool, Ask, Stop, Resume, HookAllows, Break, Ends, Kind
<1>6. PICK e \in Event : log' = Append(log, e)
    BY <1>1, <1>5, Emitted
<1>7. /\ log' \in Seq(Event) /\ Len(log') = Len(log) + 1 /\ Len(log) \in Nat
      /\ Resumed => Resumed'
      /\ exec = "waiting_for_confirmation" => Resumed'
    <2>1. /\ log' \in Seq(Event) /\ Len(log') = Len(log) + 1 /\ Len(log) \in Nat
          /\ Resumed => Resumed'
        BY <1>1, <1>6, Grows, LogFacts
    <2>2. ASSUME exec = "waiting_for_confirmation"
          PROVE  Resumed'
        <3>1. Emits("execution_status", "running") /\ "execution_status" \in Kind
            BY <1>3, <2>2 DEF Kind
        <3>2. PICK d \in Event : log' = Append(log, d) /\ d.value = "running"
            BY <1>1, <3>1, Emitted
        <3> QED
            BY <1>1, <3>2, Grows
    <2> QED
        BY <2>1, <2>2
<1>8. step' \in Nat /\ exec' \in Ends \union {"running", "stopping"}
    BY <1>1, LogFacts
       DEF TypeOK, Conversation, Stream, Say, UseTool, Ask, Stop, Resume, HookAllows, Break, Ends
<1>9. TypeOK'
    BY <1>1, <1>4, <1>7, <1>8 DEF TypeOK
<1>10. ASSUME NEW s \in Ends, s = exec \/ HasConfirmed(s)
       PROVE  HasConfirmed(s)'
    BY <1>3, <1>7, <1>10 DEF HasConfirmed, Ends
<1>11. record' \in Ends => HasConfirmed(record)'
    BY <1>4, <1>10 DEF IInv, HasConfirmed
<1>12. ws.pc # "returned"
    BY <1>3 DEF IInv
<1>13. rest.pc \notin {"scan", "last", "returned"}
    BY <1>4 DEF IInv, RestInv
<1>14. rest.pc \in {"fetch", "answer"} => HasConfirmed(rest.status)'
    BY <1>4, <1>10 DEF IInv, RestInv, Concluded
<1>15. rest.pc = "answer" => (rest.events = WindowTo(rest.upto) /\ rest.upto <= Len(log))'
    <2>1. SUFFICES ASSUME rest.pc = "answer"
                   PROVE  (rest.events = WindowTo(rest.upto) /\ rest.upto <= Len(log))'
        OBVIOUS
    <2>2. rest.upto \in 0..Len(log) /\ rest.events = WindowTo(rest.upto)
        BY <1>1, <1>7, <2>1 DEF IInv, RestInv, TypeOK, Reading
    <2>3. PICK u \in 0..Len(log) : u = rest.upto
        BY <2>2
    <2>4. WindowTo(u)' = WindowTo(u)
        BY <1>1, <1>6, WindowStays
    <2>5. WindowTo(rest.upto)' = WindowTo(u)'
        BY <1>4, <2>3 DEF WindowTo, First
    <2> QED
        BY <1>4, <1>7, <2>2, <2>3, <2>4, <2>5
<1>16. RestInv'
    BY <1>4, <1>13, <1>14, <1>15 DEF IInv, RestInv, Concluded, HasConfirmed
<1> QED
    BY <1>2, <1>4, <1>9, <1>11, <1>12, <1>16 DEF IInv

\* When only the platform, the watcher or the controller moves, the log is still the same.
LEMMA SameLog ==
    ASSUME UNCHANGED agentVars
    PROVE  /\ LogInv => LogInv'
           /\ Resumed' = Resumed /\ Said' = Said /\ ToolFailed' = ToolFailed
           /\ \A s : HasConfirmed(s)' = HasConfirmed(s)
           /\ \A u : WindowTo(u)' = WindowTo(u)
<1>1. /\ Resumed' = Resumed /\ Said' = Said /\ ToolFailed' = ToolFailed
      /\ Of({"delta"})' = Of({"delta"})
    BY DEF agentVars, Resumed, Said, ToolFailed, Of
<1>2. Cardinality(Of({"delta"})') = Cardinality(Of({"delta"}))
    BY <1>1, Zenon
<1>3. EndsOK => EndsOK'
    BY <1>1 DEF agentVars, EndsOK, Tells
<1>4. StepsOK => StepsOK'
    BY <1>2 DEF agentVars, StepsOK
<1>5. SpeechOK => SpeechOK'
    BY DEF agentVars, SpeechOK, Spoken
<1>6. \A u : WindowTo(u)' = WindowTo(u)
    BY DEF agentVars, WindowTo, First
<1> QED
    BY <1>1, <1>3, <1>4, <1>5, <1>6 DEF LogInv, HasConfirmed

LEMMA StutterKeeps ==
    ASSUME IInv, UNCHANGED vars
    PROVE  IInv'
<1>1. UNCHANGED agentVars
    BY DEF vars, agentVars
<1>2. TypeOK'
    BY DEF IInv, TypeOK, vars, agentVars
<1>3. RestInv'
    BY <1>1, SameLog DEF IInv, RestInv, Concluded, vars, agentVars
<1> QED
    BY <1>1, <1>2, <1>3, SameLog DEF IInv, vars, agentVars

LEMMA PlatformKeeps ==
    ASSUME IInv, Platform
    PROVE  IInv'
<1>1. UNCHANGED <<agentVars, ws, rest, faults>> /\ UNCHANGED <<log, exec, step>>
    BY DEF Platform, RecordConverges, Index, LeaveSandbox, agentVars
<1>2. /\ sandbox' \in {"RUNNING", "PAUSED", "MISSING"}
      /\ sandbox # "RUNNING" => sandbox' # "RUNNING"
      /\ record' = record \/ (record' = exec /\ exec # "stopping")
      /\ indexed' \in 0..Len(log)
    BY LogFacts DEF IInv, TypeOK, Platform, RecordConverges, Index, LeaveSandbox
<1>3. TypeOK'
    BY <1>1, <1>2 DEF IInv, TypeOK
<1>4. RestInv'
    BY <1>1, <1>2, SameLog DEF IInv, RestInv, Concluded
<1> QED
    BY <1>1, <1>2, <1>3, <1>4, SameLog DEF IInv

\* The watcher returns the status of an event that confirms it.
LEMMA WatcherKeeps ==
    ASSUME IInv, Watcher \/ SocketFails
    PROVE  IInv'
<1>1. /\ UNCHANGED <<agentVars, record, indexed, sandbox, rest, faults>>
      /\ UNCHANGED <<log, exec, step>>
    BY DEF Watcher, Connect, Receive, SocketFails, Socket, agentVars
<1>2. ws' \in Watching /\ (ws'.pc = "returned" => ws'.status \in {"finished", "error"}
                                               /\ ws'.status = exec)
    <2>1. ws \in Watching
        BY DEF IInv, TypeOK
    <2>2. CASE Connect \/ SocketFails
        <3>1. CASE ws' = [ws EXCEPT !.pc = "open", !.received = 0]
            BY <2>1, <3>1 DEF Watching
        <3>2. CASE ws' = [ws EXCEPT !.pc = "raised"]
            BY <2>1, <3>2 DEF Watching
        <3> QED
            BY <2>2, <3>1, <3>2 DEF Connect, SocketFails, Replayed
    <2>3. CASE Receive
        <3>1. PICK i : i = ws.received + 1 /\ i \in 1..Len(log)
            BY <2>1, <2>3, LogFacts DEF Receive, Watching, IInv
        <3>2. Tells(log[i]) /\ log[i] \in Event
            BY <3>1, LogFacts DEF IInv, LogInv, EndsOK
        <3>3. CASE Confirmed(log[i])
            <4>1. log[i].value \in {"finished", "error"} /\ log[i].value = exec
                BY <3>2, <3>3 DEF Confirmed, Tells
            <4>2. ws' = [pc |-> "returned", received |-> i, status |-> log[i].value]
                BY <2>3, <3>1, <3>3 DEF Receive
            <4> QED
                BY <3>1, <4>1, <4>2 DEF Watching, Ends
        <3>4. CASE ~Confirmed(log[i])
            <4>1. ws' = [ws EXCEPT !.received = ws.received + 1] /\ ws.pc = "open"
                BY <2>3, <3>1, <3>4 DEF Receive
            <4> QED
                BY <2>1, <4>1 DEF Watching
        <3> QED
            BY <3>3, <3>4
    <2> QED
        BY <1>1, <2>2, <2>3 DEF Watcher
<1>3. TypeOK'
    BY <1>1, <1>2 DEF IInv, TypeOK
<1>4. RestInv'
    BY <1>1, SameLog DEF IInv, RestInv, Concluded
<1> QED
    BY <1>1, <1>2, <1>3, <1>4, SameLog DEF IInv

LEMMA RestKeeps ==
    ASSUME IInv, Rest, faults' \in Nat, rest' \in Reading, RestInv'
    PROVE  IInv'
<1>1. UNCHANGED agentVars /\ UNCHANGED <<log, exec, step, record, indexed, sandbox, ws>>
    BY DEF Rest, agentVars
<1>2. TypeOK'
    BY <1>1 DEF IInv, TypeOK
<1> QED
    BY <1>1, <1>2, SameLog DEF IInv

\* The controller goes back to polling, or on to where nothing is concluded yet.
LEMMA PollKeeps ==
    ASSUME IInv, Poll
    PROVE  IInv'
<1>1. rest \in Reading /\ rest.pc = "poll" /\ rest.tries = 0 /\ ~rest.recovered
    BY DEF Poll, IInv, TypeOK, RestInv
<1>2. UNCHANGED <<log, exec, step, sandbox, record>>
    BY DEF Poll, Rest, agentVars
<1>3. CASE record \in Ends
    <2>1. rest' = [rest EXCEPT !.pc = "fetch", !.status = record]
          /\ (record = exec \/ HasConfirmed(record))
        BY <1>3 DEF Poll, IInv
    <2> QED
        <3>1. (rest.status = exec \/ HasConfirmed(rest.status))' /\ rest'.pc = "fetch"
              /\ rest'.status = record /\ rest'.tries = 0 /\ ~rest'.recovered /\ rest' \in Reading
            BY <1>1, <1>2, <1>3, <2>1 DEF Reading, HasConfirmed, Resumed
        <3>2. RestInv'
            BY <1>3, <3>1 DEF RestInv
        <3> QED
            BY <3>1, <3>2, RestKeeps DEF Poll, IInv, TypeOK
<1>4. CASE record \notin Ends
    <2>1. PICK pc \in {"scan", "last"} : rest' = [rest EXCEPT !.pc = pc]
        BY <1>4 DEF Poll
    <2>2. sandbox # "RUNNING"
        BY <1>4 DEF Poll, ScanDue
    <2> QED
        BY <1>1, <1>2, <2>1, <2>2, RestKeeps DEF Poll, Reading, RestInv, IInv, TypeOK
<1> QED
    BY <1>3, <1>4

LEMMA FetchKeeps ==
    ASSUME IInv, Fetch
    PROVE  IInv'
<1>1. rest \in Reading /\ (rest.status = exec \/ HasConfirmed(rest.status))
      /\ rest.status \in Ends /\ indexed \in 0..Len(log)
    BY DEF Fetch, IInv, TypeOK, RestInv
<1>2. Fetched = WindowTo(indexed) /\ Fetched \in Seq(Event) /\ indexed \in Nat
    BY FetchedFacts DEF IInv
<1>3. rest' = [rest EXCEPT !.pc = "answer", !.events = Fetched, !.upto = indexed]
    BY DEF Fetch
<1>4. /\ rest' \in Reading /\ rest'.pc = "answer" /\ rest'.events = Fetched /\ rest'.upto = indexed
      /\ rest'.status = rest.status
    BY <1>1, <1>2, <1>3 DEF Reading
<1>5. UNCHANGED agentVars /\ UNCHANGED <<log, exec, step>>
    BY DEF Fetch, Rest, agentVars
<1>6. (rest.events = WindowTo(rest.upto) /\ rest.upto <= Len(log))'
    BY <1>1, <1>2, <1>4, <1>5, LogFacts DEF WindowTo, First, IInv
<1>7. RestInv'
    <2>1. \A s : HasConfirmed(s)' = HasConfirmed(s)
        BY <1>5, SameLog
    <2>2. (rest.status = exec \/ HasConfirmed(rest.status))'
        BY <1>1, <1>4, <1>5, <2>1 DEF HasConfirmed
    <2> QED
        BY <1>1, <1>4, <2>2, <1>6 DEF RestInv, Concluded
<1> QED
    BY <1>4, <1>7, RestKeeps DEF Fetch, IInv, TypeOK

\* An agent that does not run has said so last.
LEMMA LastTellsEnd ==
    ASSUME TypeOK, LogInv, log # << >>, exec # "running", ~Resumed
    PROVE  /\ TellsEnd(log[Len(log)])
           /\ log[Len(log)].kind \in {"execution_status", "full_state"}
<1>1. PICK n : n = Len(log)
    OBVIOUS
<1>2. n \in 1..Len(log) /\ n \in Nat /\ n > 0
    <2>1. n \in Nat /\ n # 0
        BY <1>1, LogFacts, EmptySeq DEF TypeOK
    <2> QED
        BY <1>1, <2>1
<1>3. log[n] \in Event /\ Tells(log[n])
    BY <1>2, LogFacts DEF LogInv, EndsOK
<1>4. log[n].kind \in {"execution_status", "full_state"}
    <2>1. CASE exec \in Cut
        BY <1>1, <2>1 DEF LogInv, EndsOK
    <2>2. CASE exec \notin Cut
        <3>1. exec \in {"stopping", "finished"}
            BY <2>2 DEF TypeOK, Ends, Cut
        <3>2. Spoken \in 0..n /\ (Spoken = n - 1 \/ Spoken = n - 2)
            BY <1>1, <2>2, <3>1 DEF LogInv, SpeechOK, Spoken
        <3>3. n \in (Spoken + 1)..n
            BY <1>2, <3>2
        <3> QED
            BY <1>1, <2>2, <3>3 DEF LogInv, SpeechOK
    <2> QED
        BY <2>1, <2>2
<1>5. log[n].value \in Ends
    <2>1. log[n].value # None /\ log[n].value \in Ends \union {"running", None}
        BY <1>3, <1>4 DEF Tells, Event
    <2>2. log[n].value # "running"
        BY <1>2, LogFacts DEF Resumed
    <2> QED
        BY <2>1, <2>2
<1>6. EndOf(log[n]) = log[n].value
    BY <1>4 DEF EndOf
<1> QED
    BY <1>1, <1>4, <1>5, <1>6 DEF TellsEnd

\* What the events of a dead sandbox tell is true, but for an agent that had answered, went
\* on after a failure or was resumed, or an index that lags.
LEMMA RecoveredIsTrue ==
    ASSUME IInv, EndFromEvents(Fetched) # None
    PROVE  LET end == EndFromEvents(Fetched) IN
           /\ end \in Ends
           /\ \/ end = exec \/ Resumed
              \/ end = "finished" /\ (exec = "stopping" \/ (exec = "running" /\ Said))
              \/ end = "error" /\ exec = "running" /\ ToolFailed
              \/ indexed < Len(log)
<1>1. TypeOK /\ LogInv /\ indexed \in 0..Len(log) /\ Len(log) \in Nat
      /\ DOMAIN log = 1..Len(log)
    BY LogFacts DEF IInv, TypeOK
<1>2. PICK f : f = First(indexed)
    OBVIOUS
<1>3. PICK events : events = Fetched
    OBVIOUS
<1>4. /\ f \in 1..(indexed + 1) /\ events \in Seq(Event) /\ Len(events) = indexed - f + 1
      /\ \A k \in 1..Len(events) : events[k] = log[f + k - 1]
    BY <1>1, <1>2, <1>3, FetchedFacts, WindowFacts
<1>5. PICK i \in 1..Len(events) :
          /\ TellsEnd(events[i])
          /\ \A k \in 1..Len(events) : TellsEnd(events[k]) => k <= i
          /\ EndFromEvents(events) = EndOf(events[i])
    BY <1>3, <1>4, EndMeans
<1>6. PICK g \in 1..Len(log) : g = f + i - 1 /\ log[g] = events[i] /\ g <= indexed
    BY <1>1, <1>4, <1>5
<1>7. Tells(log[g]) /\ log[g] \in Event
    BY <1>1, <1>6, LogFacts DEF IInv, LogInv, EndsOK
<1>8. EndOf(log[g]) \in Ends
    BY <1>5, <1>6 DEF TellsEnd
<1>9. CASE log[g].kind \notin {"finish", "error"}
    <2>1. EndFromEvents(events) = log[g].value /\ log[g].value \in Ends
        BY <1>5, <1>6, <1>8, <1>9 DEF EndOf
    <2> QED
        BY <1>3, <1>7, <2>1 DEF Tells, Ends
<1>10. CASE log[g].kind \in {"finish", "error"} /\ (indexed < Len(log) \/ Resumed)
    BY <1>3, <1>5, <1>6, <1>8, <1>10
<1>11. CASE log[g].kind \in {"finish", "error"} /\ indexed = Len(log) /\ ~Resumed
    <2>1. exec = "running"
        <3>1. SUFFICES ASSUME exec # "running"
                       PROVE  FALSE
            OBVIOUS
        <3>2. PICK n \in 1..Len(log) : n = Len(log)
            <4>1. 1 <= g /\ g <= Len(log) /\ g \in Int /\ Len(log) \in Int
                BY <1>1
            <4>2. Len(log) \in 1..Len(log)
                BY <4>1
            <4> QED
                BY <4>2
        <3>3. log # << >>
            BY <1>1, <3>2, EmptySeq
        <3>4. TellsEnd(log[n]) /\ log[n].kind \in {"execution_status", "full_state"}
            BY <1>1, <1>11, <3>1, <3>2, <3>3, LastTellsEnd
        <3>5. PICK k \in 1..Len(events) : log[n] = events[k] /\ k = n - f + 1
            <4>1. n - f + 1 \in 1..Len(events) /\ f + (n - f + 1) - 1 = n
                BY <1>1, <1>4, <1>6, <1>11, <3>2
            <4> QED
                BY <1>4, <4>1
        <3>6. k <= i
            BY <1>5, <3>4, <3>5
        <3>7. n = g
            BY <1>1, <1>4, <1>6, <3>2, <3>5, <3>6
        <3> QED
            BY <1>11, <3>4, <3>7
    <2>2. CASE log[g].kind = "finish"
        <3>1. EndFromEvents(events) = "finished"
            BY <1>5, <1>6, <2>2 DEF EndOf
        <3>2. log[g].step = step
            BY <1>7, <1>11, <2>2 DEF Tells
        <3>3. Said
            BY <1>1, <1>6, <2>2, <3>2, SaidMeans
        <3> QED
            BY <1>3, <2>1, <3>1, <3>3 DEF Ends
    <2>3. CASE log[g].kind = "error"
        <3>1. EndFromEvents(events) = "error"
            BY <1>5, <1>6, <2>3 DEF EndOf
        <3>2. ToolFailed
            BY <1>1, <2>3 DEF ToolFailed
        <3> QED
            BY <1>3, <2>1, <3>1, <3>2 DEF Ends
    <2> QED
        BY <1>11, <2>2, <2>3
<1>12. indexed < Len(log) \/ indexed = Len(log)
    <2>1. indexed \in 0..Len(log) /\ Len(log) \in Nat
        BY <1>1
    <2> QED
        BY <2>1
<1> QED
    BY <1>9, <1>10, <1>11, <1>12, Zenon

LEMMA ScanKeeps ==
    ASSUME IInv, Scan
    PROVE  IInv'
<1>1. rest \in Reading /\ rest.pc \in {"scan", "last"} /\ sandbox # "RUNNING" /\ rest.tries = 0
      /\ ~rest.recovered /\ indexed \in 0..Len(log) /\ indexed \in Nat
    BY FetchedFacts DEF Scan, IInv, TypeOK, RestInv
<1>2. Fetched = WindowTo(indexed) /\ Fetched \in Seq(Event)
    BY FetchedFacts DEF IInv
<1>3. UNCHANGED agentVars /\ UNCHANGED <<log, exec, step, sandbox, faults>>
    BY DEF Scan, Rest, agentVars
<1>4. Rest /\ faults' \in Nat
    BY <1>3 DEF Scan, IInv, TypeOK
<1>5. PICK end : end = EndFromEvents(Fetched)
    OBVIOUS
<1>6. CASE end = None
    <2>1. PICK pc \in {"raised", "poll"} : rest' = [rest EXCEPT !.pc = pc]
        BY <1>5, <1>6 DEF Scan
    <2>2. /\ rest' \in Reading /\ rest'.pc \in {"raised", "poll"}
          /\ rest'.tries = 0 /\ ~rest'.recovered
        BY <1>1, <2>1 DEF Reading
    <2>3. RestInv'
        BY <2>2 DEF RestInv
    <2> QED
        BY <1>4, <2>2, <2>3, RestKeeps
<1>7. CASE end # None
    <2>1. /\ end \in Ends
          /\ \/ end = exec \/ Resumed
             \/ end = "finished" /\ (exec = "stopping" \/ (exec = "running" /\ Said))
             \/ end = "error" /\ exec = "running" /\ ToolFailed
             \/ indexed < Len(log)
        BY <1>5, <1>7, RecoveredIsTrue
    <2>2. rest' = [rest EXCEPT !.pc = "answer", !.status = end, !.recovered = TRUE,
                               !.seen = indexed, !.events = Fetched, !.upto = indexed]
        BY <1>5, <1>7 DEF Scan
    <2>3. /\ rest' \in Reading /\ rest'.pc = "answer" /\ rest'.status = end /\ rest'.recovered
          /\ rest'.seen = indexed
          /\ rest'.events = Fetched /\ rest'.upto = indexed /\ rest'.tries = rest.tries
        BY <1>1, <1>2, <2>1, <2>2 DEF Reading
    <2>4. (rest.events = WindowTo(rest.upto) /\ rest.upto <= Len(log))'
        BY <1>1, <1>2, <1>3, <2>3, LogFacts DEF WindowTo, First, IInv
    <2>5. Resumed' = Resumed /\ Said' = Said /\ ToolFailed' = ToolFailed
        BY <1>3, SameLog
    <2>6. Concluded'
        BY <1>1, <1>3, <2>1, <2>3, <2>5 DEF Concluded
    <2>7. RestInv'
        BY <2>1, <2>3, <2>4, <2>6 DEF RestInv
    <2> QED
        BY <1>4, <2>3, <2>7, RestKeeps
<1> QED
    BY <1>6, <1>7

LEMMA ReadAnswerKeeps ==
    ASSUME IInv, ReadAnswer
    PROVE  IInv'
<1>1. /\ rest \in Reading /\ rest.pc = "answer" /\ rest.status \in Ends /\ Concluded
      /\ rest.events = WindowTo(rest.upto) /\ rest.upto <= Len(log) /\ rest.upto \in Nat
      /\ indexed \in 0..Len(log) /\ indexed \in Nat /\ Len(log) \in Nat
    BY FetchedFacts, LogFacts DEF ReadAnswer, IInv, TypeOK, RestInv, Reading
<1>2. Fetched = WindowTo(indexed) /\ Fetched \in Seq(Event)
    BY FetchedFacts DEF IInv
<1>3. UNCHANGED agentVars /\ UNCHANGED <<log, exec, step, sandbox, faults>>
    BY DEF ReadAnswer, Rest, agentVars
<1>4. Rest /\ faults' \in Nat
    BY <1>3 DEF ReadAnswer, IInv, TypeOK
<1>5. PICK events : events = IF Refetches THEN Fetched ELSE rest.events
    OBVIOUS
<1>6. PICK done \in BOOLEAN : done <=> (Text(events) # << >> \/ rest.tries = Retries)
    BY Zenon
<1>7. PICK upto : upto = IF Refetches THEN indexed ELSE rest.upto
    OBVIOUS
<1>8. PICK tries \in Nat : tries = IF done THEN rest.tries ELSE rest.tries + 1
    BY <1>1 DEF Reading
<1>9. events \in Seq(Event) /\ Text(events) \in Seq(Event) /\ upto \in Nat /\ upto <= Len(log)
      /\ events = WindowTo(upto)
    BY <1>1, <1>2, <1>5, <1>7, TextType DEF Reading
<1>10. rest' = [rest EXCEPT !.pc = IF done THEN "returned" ELSE "answer",
                            !.events = IF done THEN << >> ELSE events,
                            !.upto = upto, !.tries = tries, !.text = Text(events)]
    BY <1>5, <1>6, <1>7, <1>8 DEF ReadAnswer
<1>11. PICK text \in Seq(Event) : text = Text(events)
    BY <1>9
<1>12. /\ rest' \in Reading /\ rest'.pc = (IF done THEN "returned" ELSE "answer")
       /\ rest'.upto = upto /\ rest'.status = rest.status /\ rest'.recovered = rest.recovered
       /\ rest'.seen = rest.seen
       /\ ~done => rest'.events = events
    <2>1. << >> \in Seq(Event)
        BY EmptySeq
    <2> QED
        BY <1>1, <1>9, <1>10, <1>11, <2>1 DEF Reading
<1>13. rest'.pc = "answer" => (rest.events = WindowTo(rest.upto) /\ rest.upto <= Len(log))'
    BY <1>3, <1>9, <1>12 DEF WindowTo, First
<1>14. Concluded'
    BY <1>1, <1>3, <1>12, SameLog DEF Concluded
<1>15. RestInv'
    BY <1>1, <1>12, <1>13, <1>14 DEF RestInv
<1> QED
    BY <1>4, <1>12, <1>15, RestKeeps

LEMMA AnswerFailsKeeps ==
    ASSUME IInv, AnswerFails
    PROVE  IInv'
<1>1. /\ rest \in Reading /\ rest.pc = "answer" /\ rest.status \in Ends /\ Concluded
      /\ rest.events = WindowTo(rest.upto) /\ rest.upto <= Len(log)
    BY DEF AnswerFails, IInv, TypeOK, RestInv
<1>2. UNCHANGED agentVars /\ UNCHANGED <<log, exec, step, sandbox>>
    BY DEF AnswerFails, Rest, agentVars
<1>3. Rest /\ faults' \in Nat
    BY DEF AnswerFails, Fault, IInv, TypeOK
<1>5. \A u : WindowTo(u)' = WindowTo(u)
    BY <1>2, SameLog
<1>6. CASE rest' = [rest EXCEPT !.tries = rest.tries + 1]
    <2>1. /\ rest' \in Reading /\ rest'.pc = "answer" /\ rest'.upto = rest.upto
          /\ rest'.status = rest.status /\ rest'.recovered = rest.recovered
          /\ rest'.events = rest.events /\ rest'.seen = rest.seen
        BY <1>1, <1>6 DEF Reading
    <2>2. (rest.events = WindowTo(rest.upto) /\ rest.upto <= Len(log))'
        BY <1>1, <1>2, <2>1 DEF WindowTo, First
    <2>3. Concluded'
        BY <1>1, <1>2, <2>1, SameLog DEF Concluded
    <2>4. RestInv'
        BY <1>1, <2>1, <2>2, <2>3 DEF RestInv
    <2> QED
        BY <1>3, <2>1, <2>4, RestKeeps
<1>7. CASE rest' = [rest EXCEPT !.pc = "raised"]
    <2>1. rest' \in Reading /\ rest'.pc = "raised"
        BY <1>1, <1>7 DEF Reading
    <2>2. RestInv'
        BY <2>1 DEF RestInv
    <2> QED
        BY <1>3, <2>1, <2>2, RestKeeps
<1> QED
    BY <1>6, <1>7 DEF AnswerFails

LEMMA RequestFailsKeeps ==
    ASSUME IInv, RequestFails \/ RestTimesOut
    PROVE  IInv'
<1>1. rest \in Reading /\ rest.tries = 0 /\ ~rest.recovered
    BY DEF RequestFails, RestTimesOut, IInv, TypeOK, RestInv
<1>2. Rest /\ faults' \in Nat
    BY DEF RequestFails, RestTimesOut, Fault, IInv, TypeOK
<1>3. rest' \in Reading /\ rest'.pc \in {"poll", "raised"} /\ rest'.tries = 0 /\ ~rest'.recovered
    <2>1. CASE RequestFails
        <3>1. PICK pc \in {"poll", "raised"} : rest' = [rest EXCEPT !.pc = pc, !.status = None]
            BY <2>1 DEF RequestFails
        <3> QED
            BY <1>1, <3>1 DEF Reading
    <2>2. CASE RestTimesOut
        BY <1>1, <2>2 DEF RestTimesOut, Reading
    <2> QED
        BY <2>1, <2>2
<1>4. RestInv'
    BY <1>3 DEF RestInv
<1> QED
    BY <1>2, <1>3, <1>4, RestKeeps

LEMMA NextKeeps ==
    ASSUME IInv, [Next]_vars
    PROVE  IInv'
BY ConversationKeeps, PlatformKeeps, WatcherKeeps, PollKeeps, FetchKeeps, ScanKeeps,
   ReadAnswerKeeps, AnswerFailsKeeps, RequestFailsKeeps, StutterKeeps
   DEF Next, Controller, Failures

\* The inductive invariant (enterprise_events.py, openhands.py): what the events of a log
\* tell of the agent, and on what each observer's conclusion rests.
THEOREM Inductive == Spec => []IInv
<1>1. Init => IInv
    BY InitHolds
<1>2. IInv /\ [Next]_vars => IInv'
    BY NextKeeps
<1> QED
    BY <1>1, <1>2, PTL DEF Spec

\* What the websocket watcher returns is the end of the conversation, which no stop hook
\* takes back (enterprise_events.py, terminal_signal).
THEOREM ConfirmedStays == Spec => []ConfirmedIsFinal
<1>1. IInv => ConfirmedIsFinal
    BY DEF IInv, ConfirmedIsFinal
<1> QED
    BY <1>1, Inductive, PTL

\* The status that polling concludes with is the end, or was recovered from the events of
\* a dead sandbox whose agent had answered, was resumed or is ahead of the index
\* (openhands.py, wait_for_terminal).
THEOREM StatusIsTrue == Spec => []RestStatusIsTrue
<1>1. IInv => RestStatusIsTrue
    BY DEF IInv, RestInv, Concluded, HasConfirmed, RestStatusIsTrue
<1> QED
    BY <1>1, Inductive, PTL

-----------------------------------------------------------------------------
(* The answer *)

\* A page of the index is longer than a stream and the signals that follow it.
WindowCoversStream == Window > MaxDeltas + 2

\* The stream of the last step, where a finished agent only streamed: the positions after b.
LEMMA LastStream ==
    ASSUME IInv, exec = "finished", NEW n \in 1..Len(log), n = Len(log) - 2,
           log[n].kind = "delta"
    PROVE  \E b \in 0..(n - 1) :
               /\ \A i \in (b + 1)..n :
                      log[i] = [kind |-> "delta", step |-> step, value |-> None]
               /\ b > 0 => log[b].kind # "delta"
               /\ {i \in DOMAIN log : log[i].kind = "delta" /\ log[i].step = step} = (b + 1)..n
               /\ n - b <= MaxDeltas
<1>1. /\ Len(log) \in Nat /\ DOMAIN log = 1..Len(log) /\ step \in Nat
      /\ \A i \in 1..Len(log) : log[i] \in Event
      /\ \A i \in 1..Len(log) : log[i].step \in Nat
    BY LogFacts DEF IInv
<1>2. /\ Spoken = n
      /\ \A i \in 1..n : log[i].step = step =>
             log[i].kind = "delta" \/ (i = n /\ log[i].kind \in {"message", "finish"})
      /\ \A i \in (n + 1)..Len(log) : log[i].kind \in {"execution_status", "full_state"}
      /\ log[n].step = step
    BY <1>1 DEF IInv, LogInv, SpeechOK, Spoken, Cut
<1>3. /\ \A i \in 1..Len(log) : log[i].step <= step
      /\ \A i, k \in 1..Len(log) : i <= k => log[i].step <= log[k].step
      /\ \A i \in 1..Len(log) : log[i].kind = "delta" =>
             IF i = Len(log) THEN log[i].step = step ELSE log[i].step = log[i + 1].step
      /\ Cardinality(Of({"delta"})) <= MaxDeltas
    BY DEF IInv, LogInv, StepsOK
<1>4. PICK S : S = {0} \union {i \in 1..n : log[i].step # step}
    OBVIOUS
<1>5. n \in Nat /\ S \subseteq 0..n /\ S # {}
    BY <1>4
<1>6. PICK b \in S : \A x \in S : x <= b
    BY <1>5, GreatestOf
<1>7. b \in 0..(n - 1)
    BY <1>2, <1>4, <1>5, <1>6
<1>8. \A i \in (b + 1)..n : log[i].step = step
    <2>1. ASSUME NEW i \in (b + 1)..n, log[i].step # step
          PROVE  FALSE
        <3>1. i \in 1..n /\ ~(i <= b)
            BY <1>7
        <3> QED
            BY <1>4, <1>6, <2>1, <3>1
    <2> QED
        BY <2>1
<1>9. ASSUME NEW i \in (b + 1)..n
      PROVE  log[i] = [kind |-> "delta", step |-> step, value |-> None]
    <2>1. i \in 1..n /\ i \in 1..Len(log)
        BY <1>1, <1>7
    <2>2. log[i].kind = "delta" /\ log[i].step = step
        BY <1>2, <1>8, <2>1
    <2>3. log[i].value = None /\ log[i] \in Event
        BY <1>1, <2>1, <2>2 DEF IInv, LogInv, EndsOK, Tells
    <2> QED
        BY <2>2, <2>3 DEF Event
<1>10. ASSUME b > 0
       PROVE  log[b].kind # "delta"
    <2>1. b \in 1..Len(log) /\ b # Len(log) /\ b + 1 \in (b + 1)..n
        BY <1>1, <1>7, <1>10
    <2>2. log[b].step # step /\ log[b + 1].step = step
        BY <1>4, <1>8, <1>10, <2>1
    <2> QED
        BY <1>3, <2>1, <2>2
<1>11. PICK D : D = {i \in DOMAIN log : log[i].kind = "delta" /\ log[i].step = step}
    OBVIOUS
<1>12. D = (b + 1)..n
    <2>1. ASSUME NEW i \in D
          PROVE  i \in (b + 1)..n
        <3>1. i \in 1..Len(log) /\ log[i].kind = "delta" /\ log[i].step = step
            BY <1>1, <1>11
        <3>2. i <= n
            BY <1>1, <1>2, <3>1
        <3>3. ASSUME i <= b
              PROVE  FALSE
            <4>1. b \in 1..Len(log) /\ log[b].step # step
                BY <1>1, <1>4, <1>6, <1>7, <3>1, <3>3
            <4> QED
                BY <1>1, <1>3, <3>1, <3>3, <4>1
        <3> QED
            BY <1>7, <3>1, <3>2, <3>3
    <2>2. ASSUME NEW i \in (b + 1)..n
          PROVE  i \in D
        <3>1. i \in DOMAIN log /\ log[i].kind = "delta" /\ log[i].step = step
            BY <1>1, <1>7, <1>9
        <3> QED
            BY <1>11, <3>1
    <2> QED
        BY <2>1, <2>2
<1>13. n - b <= MaxDeltas
    <2>1. Of({"delta"}) = D
        BY <1>11 DEF Of
    <2>2. Cardinality(D) <= MaxDeltas
        BY <1>3, <2>1, Zenon
    <2>3. b + 1 \in Int /\ n \in Int /\ b + 1 <= n
        BY <1>7
    <2>4. Cardinality((b + 1)..n) = n - (b + 1) + 1
        BY <2>3, FS_Interval
    <2> QED
        BY <1>7, <1>12, <2>2, <2>4
<1> QED
    BY <1>7, <1>9, <1>10, <1>11, <1>12, <1>13

LEMMA ReadWhole ==
    ASSUME IInv, WindowCoversStream, exec = "finished",
           NEW events \in Seq(Event), events = WindowTo(Len(log)), Text(events) # << >>
    PROVE  /\ Whole(Text(events))
           /\ \/ Text(events)[1].step = step
              \/ /\ Resumed
                 /\ \/ Text(events)[1].kind = "finish"
                    \/ Text(events)[1].kind = "message" /\ ~Said
<1>1. PICK n : n = Len(log) - 2
    OBVIOUS
<1>2. /\ Len(log) \in Nat /\ DOMAIN log = 1..Len(log) /\ TypeOK
      /\ \A i \in 1..Len(log) : log[i] \in Event
    BY LogFacts DEF IInv
<1>3. /\ n \in 1..Len(log)
      /\ \A i \in 1..n : log[i].step = step =>
             log[i].kind = "delta" \/ (i = n /\ log[i].kind \in {"message", "finish"})
      /\ \A i \in (n + 1)..Len(log) : log[i].kind \in {"execution_status", "full_state"}
      /\ log[n].step = step
      /\ log[n].kind \in {"delta", "message", "finish"}
    BY <1>1, <1>2 DEF IInv, LogInv, SpeechOK, Spoken, Cut
<1>4. PICK f \in 1..n :
          /\ f = 1 \/ f = Len(log) - Window + 1
          /\ Len(events) = Len(log) - f + 1
          /\ \A k \in 1..Len(events) : events[k] = log[f + k - 1]
    <2>1. /\ First(Len(log)) \in 1..(Len(log) + 1)
          /\ First(Len(log)) = 1 \/ First(Len(log)) = Len(log) - Window + 1
          /\ Len(events) = Len(log) - First(Len(log)) + 1
          /\ \A k \in 1..(Len(log) - First(Len(log)) + 1) :
                 events[k] = log[First(Len(log)) + k - 1]
        <3>1. Len(log) \in 0..Len(log)
            BY <1>2
        <3> QED
            BY <1>2, <3>1, WindowFacts
    <2>2. First(Len(log)) \in 1..n
        <3>1. n \in Nat /\ n >= 1 /\ Len(log) = n + 2
            BY <1>1, <1>2, <1>3
        <3>2. Window \in Nat /\ Window > 2
            BY BoundAssumption DEF WindowCoversStream
        <3>3. First(Len(log)) = 1 \/ First(Len(log)) = Len(log) - Window + 1
            BY <2>1
        <3>4. First(Len(log)) \in 1..(Len(log) + 1)
            BY <2>1
        <3> QED
            BY <3>1, <3>2, <3>3, <3>4
    <2> QED
        BY <2>1, <2>2
<1>5. PICK m \in 1..Len(events) : m = n - f + 1 /\ events[m] = log[n]
    <2>1. n - f + 1 \in 1..Len(events) /\ f + (n - f + 1) - 1 = n
        BY <1>1, <1>2, <1>3, <1>4
    <2> QED
        BY <1>4, <2>1
<1>6. \A k \in 1..Len(events) : f + k - 1 \in 1..Len(log)
    BY <1>2, <1>3, <1>4
<1>7. ASSUME NEW i \in 1..Len(events), AgentText(events) = <<events[i]>>,
             events[i].kind \in {"message", "finish"},
             \A k \in 1..Len(events) : events[k].kind = events[i].kind => k <= i,
             events[i].kind = "message" => \A k \in 1..Len(events) : events[k].kind # "finish"
      PROVE  /\ Whole(Text(events))
             /\ \/ Text(events)[1].step = step
                \/ /\ Resumed
                   /\ \/ Text(events)[1].kind = "finish"
                      \/ Text(events)[1].kind = "message" /\ ~Said
    <2>1. PICK g \in 1..Len(log) : g = f + i - 1 /\ log[g] = events[i]
        BY <1>4, <1>6, <1>7
    <2>2. Text(events)[1] = log[g]
        BY <1>7, <2>1 DEF Text
    <2>3. Whole(Text(events))
        BY <1>7, <2>1, <2>2 DEF Whole
    <2>4. log[g].step = step \/ Resumed
        BY <1>7, <2>1 DEF IInv, LogInv, EndsOK, Tells
    <2>5. ASSUME log[g].kind = "message", Said
          PROVE  log[g].step = step
        <3>1. PICK q \in 1..Len(log) : log[q].step = step /\ log[q].kind \in {"message", "finish"}
            BY <1>2, <2>5, SaidMeans
        <3>2. q <= n
            BY <1>2, <1>3, <3>1
        <3>3. q = n
            BY <1>3, <3>1, <3>2
        <3>4. events[m].kind = "message"
            BY <1>5, <1>7, <2>1, <2>5, <3>1, <3>3
        <3>5. m <= i
            BY <1>7, <2>1, <2>5, <3>4
        <3>6. g <= n
            BY <1>2, <1>3, <2>1, <2>5
        <3>7. g = n
            BY <1>3, <1>4, <1>5, <2>1, <3>5, <3>6
        <3> QED
            BY <1>3, <3>7
    <2> QED
        BY <1>7, <2>1, <2>2, <2>3, <2>4, <2>5
<1>8. ASSUME AgentText(events) = << >>,
             \A k \in 1..Len(events) : events[k].kind \notin {"message", "finish"}
      PROVE  Whole(Text(events)) /\ Text(events)[1].step = step
    <2>1. log[n].kind = "delta"
        BY <1>3, <1>5, <1>8
    <2>2. PICK b \in 0..(n - 1) :
              /\ \A i \in (b + 1)..n :
                     log[i] = [kind |-> "delta", step |-> step, value |-> None]
              /\ b > 0 => log[b].kind # "delta"
              /\ {i \in DOMAIN log : log[i].kind = "delta" /\ log[i].step = step} = (b + 1)..n
              /\ n - b <= MaxDeltas
        BY <1>1, <1>3, <2>1, LastStream
    <2>3. f <= b + 1
        <3>1. f = 1 \/ f = Len(log) - Window + 1
            BY <1>4
        <3>2. b \in Nat /\ n \in Int /\ Len(log) = n + 2 /\ n - b <= MaxDeltas
            <4>1. n \in Int /\ Len(log) \in Int
                BY <1>2, <1>3
            <4>2. Len(log) = n + 2
                BY <4>1, <1>1
            <4>3. b \in Nat
                BY <4>1
            <4>4. n - b <= MaxDeltas
                BY <2>2, Zenon
            <4> QED
                BY <4>1, <4>2, <4>3, <4>4
        <3>3. Window \in Nat /\ MaxDeltas \in Nat /\ Window > MaxDeltas + 2
            BY BoundAssumption DEF WindowCoversStream
        <3> QED
            BY <3>1, <3>2, <3>3
    <2>4. LastOf(events, {"delta"}) = m
        <3>1. PICK last : last = LastOf(events, {"delta"})
            OBVIOUS
        <3>2. /\ last \in 0..Len(events) /\ (last > 0 => events[last].kind = "delta")
              /\ \A k \in 1..Len(events) : events[k].kind = "delta" => k <= last
            BY <3>1, LastOfMeans
        <3>3. m <= last /\ last \in 1..Len(events)
            BY <1>5, <2>1, <3>2
        <3>4. log[f + last - 1].kind = "delta" /\ f + last - 1 \in 1..Len(log)
            BY <1>4, <1>6, <3>2, <3>3
        <3>5. f + last - 1 <= n
            <4>1. f + last - 1 \notin (n + 1)..Len(log)
                BY <1>3, <3>4
            <4>2. n \in Int /\ Len(log) \in Int /\ f + last - 1 \in 1..Len(log)
                BY <1>2, <1>3, <3>4
            <4> QED
                BY <4>1, <4>2
        <3>6. n \in Int /\ f \in Int /\ m = n - f + 1 /\ last \in Int
            BY <1>3, <1>4, <1>5, <3>3
        <3>7. last = m
            BY <3>3, <3>5, <3>6
        <3> QED
            BY <3>1, <3>7
    <2>5. PICK pre : pre = SubSeq(events, 1, m)
        OBVIOUS
    <2>6. pre \in Seq(Event) /\ Len(pre) = m /\ \A k \in 1..m : pre[k] = events[k]
        <3>1. \A k \in 1..m : events[k] \in Event
            BY <1>2, <1>4, <1>5, <1>6
        <3>2. 1 \in Int /\ m \in Int /\ 1 <= m
            BY <1>5
        <3> QED
            BY <2>5, <3>1, <3>2, SubSeqProperties
    <2>7. PICK K : K = {e.kind : e \in ToSet(events)} \ {"delta"}
        OBVIOUS
    <2>8. PICK before : before = LastOf(pre, K)
        OBVIOUS
    <2>9. /\ before \in 0..m /\ (before > 0 => pre[before].kind \in K)
          /\ \A k \in 1..m : pre[k].kind \in K => k <= before
        BY <2>6, <2>8, LastOfMeans
    <2>10. before = b - f + 1
        <3>1. ASSUME before > b - f + 1
              PROVE  FALSE
            <4>1. before \in 1..m /\ f + before - 1 \in (b + 1)..n
                BY <1>3, <1>4, <1>5, <2>2, <2>3, <2>9, <3>1
            <4>2. pre[before] = log[f + before - 1]
                <5>1. before \in 1..Len(events) /\ pre[before] = events[before]
                    <6>1. before \in 1..m /\ m \in 1..Len(events)
                        BY <1>5, <4>1
                    <6>2. Len(events) \in Nat
                        BY <1>2, <1>4
                    <6> QED
                        BY <6>1, <6>2, <2>6
                <5> QED
                    BY <1>4, <5>1
            <4>3. pre[before].kind = "delta"
                BY <2>2, <4>1, <4>2
            <4> QED
                BY <2>7, <2>9, <4>1, <4>3
        <3>2. ASSUME f <= b
              PROVE  b - f + 1 <= before
            <4>1. PICK k \in 1..m : k = b - f + 1 /\ k \in 1..Len(events) /\ f + k - 1 = b
                BY <1>3, <1>4, <1>5, <2>2, <3>2
            <4>2. pre[k] = events[k] /\ events[k] = log[b] /\ log[b].kind # "delta"
                BY <1>4, <2>2, <2>6, <3>2, <4>1
            <4>3. events[k] \in ToSet(events)
                BY <4>1, EventFacts DEF ToSet
            <4>4. pre[k].kind \in K
                BY <2>7, <4>2, <4>3
            <4> QED
                BY <2>9, <4>1, <4>4
        <3>3. b \in Int /\ f \in Int /\ before \in Int /\ 0 <= before /\ f <= b + 1
            BY <1>3, <1>4, <2>2, <2>3, <2>9
        <3>4. before <= b - f + 1
            BY <3>1, <3>3
        <3>5. b - f + 1 <= before
            BY <3>2, <3>3
        <3> QED
            BY <3>3, <3>4, <3>5
    <2>11. PICK text : text = Text(events)
        OBVIOUS
    <2>12. text = SubSeq(events, before + 1, m)
        BY <1>8, <2>4, <2>5, <2>7, <2>8, <2>11 DEF Text, StreamedText
    <2>13. text \in Seq(Event) /\ Len(text) = n - b
           /\ \A j \in 1..(n - b) : text[j] = [kind |-> "delta", step |-> step, value |-> None]
        <3>1. \A k \in (before + 1)..m : k \in 1..Len(events) /\ events[k] \in Event
            BY <1>2, <1>4, <1>5, <1>6, <2>9
        <3>2. before + 1 \in Int /\ m \in Int /\ before + 1 <= m /\ m - (before + 1) + 1 = n - b
            BY <1>3, <1>4, <1>5, <2>2, <2>9, <2>10
        <3>3. /\ text \in Seq(Event) /\ Len(text) = n - b
              /\ \A j \in 1..(m - (before + 1) + 1) : text[j] = events[before + 1 + j - 1]
            BY <2>12, <3>1, <3>2, SubSeqProperties
        <3>4. ASSUME NEW j \in 1..(n - b)
              PROVE  text[j] = [kind |-> "delta", step |-> step, value |-> None]
            <4>1. PICK k \in 1..Len(events) : k = before + j /\ f + k - 1 = b + j
                BY <1>3, <1>4, <1>5, <2>2, <2>9, <2>10, <3>2
            <4>2. text[j] = events[k]
                BY <2>9, <3>2, <3>3, <4>1
            <4>3. b + j \in (b + 1)..n
                BY <2>2, <1>3
            <4> QED
                BY <1>4, <2>2, <4>1, <4>2, <4>3
        <3> QED
            BY <3>3, <3>4
    <2>14. 1 \in 1..(n - b) /\ n - b \in Nat
        BY <1>3, <2>2
    <2>15. text[1] = [kind |-> "delta", step |-> step, value |-> None] /\ text[1].step = step
        BY <2>13, <2>14
    <2>16. ToSet(text) = {[kind |-> "delta", step |-> step, value |-> None]}
        <3>1. DOMAIN text = 1..(n - b)
            BY <2>13, EventFacts
        <3> QED
            BY <2>13, <2>14, <3>1 DEF ToSet
    <2>17. Len(text) = Cardinality({i \in DOMAIN log :
                                       log[i].kind = "delta" /\ log[i].step = text[1].step})
        <3>1. b + 1 \in Int /\ n \in Int /\ b + 1 <= n
            BY <1>3, <2>2
        <3>2. Cardinality((b + 1)..n) = n - (b + 1) + 1
            BY <3>1, FS_Interval
        <3>3. PICK D : D = {i \in DOMAIN log :
                                log[i].kind = "delta" /\ log[i].step = text[1].step}
            OBVIOUS
        <3>4. D = (b + 1)..n
            BY <2>2, <2>15, <3>3
        <3>5. Cardinality(D) = n - b
            BY <1>3, <2>2, <3>2, <3>4
        <3> QED
            BY <2>13, <3>3, <3>5
    <2>18. Whole(text)
        BY <2>15, <2>16, <2>17 DEF Whole
    <2> QED
        BY <2>11, <2>15, <2>18
<1> QED
    BY <1>7, <1>8, AgentTextMeans

\* Once the index has caught up, what is taken for the answer of a finished conversation is
\* its last one and whole, or an earlier one that a stop hook made out of date
\* (openhands.py, final_response).
THEOREM AnswerIsWhole == WindowCoversStream => (Spec => []AnswerIsLastAndWhole)
<1> SUFFICES ASSUME WindowCoversStream
             PROVE  Spec => []AnswerIsLastAndWhole
    OBVIOUS
<1>1. Init => AnswerIsLastAndWhole
    BY DEF Init, AnswerIsLastAndWhole
<1>2. IInv /\ AnswerIsLastAndWhole /\ [Next]_vars => AnswerIsLastAndWhole'
    <2> SUFFICES ASSUME IInv, AnswerIsLastAndWhole, [Next]_vars, rest'.pc = "returned"
                 PROVE  AnswerIsLastAndWhole'
        BY DEF AnswerIsLastAndWhole
    <2>1. CASE rest' = rest
        <3>1. UNCHANGED agentVars
            BY <2>1 DEF Next, Conversation, Stream, UseTool, Ask, Say, Stop, Resume, HookAllows,
                   Break, Agent, Attended, Platform, RecordConverges, Index, LeaveSandbox,
                   Watcher, Connect, Receive, Socket, Controller, Poll, Fetch, Scan, ReadAnswer,
                   Rest, Failures, SocketFails, RequestFails, RestTimesOut, AnswerFails,
                   vars, agentVars
        <3>2. Resumed' = Resumed /\ Said' = Said /\ UNCHANGED <<log, exec, step>>
            BY <3>1, SameLog DEF agentVars
        <3> QED
            BY <2>1, <3>2 DEF AnswerIsLastAndWhole, Whole
    <2>2. CASE ReadAnswer
        <3>1. /\ rest \in Reading /\ rest.pc = "answer"
              /\ rest.events = WindowTo(rest.upto) /\ TypeOK
            BY <2>2 DEF ReadAnswer, IInv, TypeOK, RestInv
        <3>2. PICK events : events = IF Refetches THEN Fetched ELSE rest.events
            OBVIOUS
        <3>3. /\ events \in Seq(Event)
              /\ rest'.text = Text(events)
              /\ events = WindowTo(rest'.upto)
            <4>1. PICK upto : upto = IF Refetches THEN indexed ELSE rest.upto
                OBVIOUS
            <4>2. /\ rest'.upto = upto /\ rest'.text = Text(events)
                BY <2>2, <3>1, <3>2, <4>1 DEF ReadAnswer, Reading
            <4> QED
                BY <3>1, <3>2, <4>1, <4>2, FetchedFacts DEF Reading
        <3>4. UNCHANGED agentVars /\ UNCHANGED <<log, exec, step>>
            BY <2>2 DEF ReadAnswer, Rest, agentVars
        <3>5. Resumed' = Resumed /\ Said' = Said
            BY <3>4, SameLog
        <3>6. ASSUME rest'.text # << >>, rest'.upto = Len(log), exec = "finished"
              PROVE  /\ Whole(rest'.text)
                     /\ \/ rest'.text[1].step = step
                        \/ /\ Resumed
                           /\ \/ rest'.text[1].kind = "finish"
                              \/ rest'.text[1].kind = "message" /\ ~Said
            BY <3>3, <3>6, ReadWhole
        <3>7. Whole(rest'.text) => Whole(rest.text)'
            BY <3>4 DEF Whole
        <3> QED
            BY <3>4, <3>5, <3>6, <3>7 DEF AnswerIsLastAndWhole
    <2>3. CASE rest' # rest /\ ~ReadAnswer
        <3>1. rest \in Reading
            BY DEF IInv, TypeOK
        <3>2. rest'.pc # "returned"
            BY <2>3, <3>1
               DEF Next, Conversation, Stream, UseTool, Ask, Say, Stop, Resume, HookAllows,
                   Break, Agent, Platform, RecordConverges, Index, LeaveSandbox, Watcher,
                   Connect, Receive, Socket, Controller, Poll, Fetch, Scan, Failures,
                   SocketFails, RequestFails, RestTimesOut, AnswerFails, Reading, vars
        <3> QED
            BY <3>2
    <2> QED
        BY <2>1, <2>2, <2>3
<1> QED
    BY <1>1, <1>2, Inductive, PTL DEF Spec

=============================================================================
