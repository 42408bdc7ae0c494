---------------------------- MODULE MCAlgorithms ----------------------------
(***************************************************************************)
(* Checks the pure parts of the program on bounded inputs.  A state is one *)
(* input: a history of attempts (Scheduler, Comparison), a final text      *)
(* (WorkerContract), a script of replies (ResilientRequester) or a task    *)
(* (Benchmark).  Histories, texts and scripts grow step by step, so every  *)
(* input up to the bounds is reached.                                      *)
(***************************************************************************)
EXTENDS Scheduler, Comparison, WorkerContract, ResilientRequester, Benchmark

CONSTANTS
    Task, MaxScore, MaxAttempts,                    \* histories
    MaxTokens,                                      \* texts
    NodeCount, NodeOrders, Color,                   \* colorings
    SetCount, ElementCount,                         \* covers
    ItemCount, MaxWeight, Capacity, Bin,            \* packings
    MaxPicks                                        \* sets or bins of a candidate
VARIABLES kind, input

vars == <<kind, input>>

Nodes == 1..NodeCount
Sets == 1..SetCount
Items == 1..ItemCount

\* An id that no task has.
Unknown == 0

ASSUME InputsAssumption ==
    /\ Task \subseteq Nat /\ MaxScore \in Nat
    /\ Task \subseteq DOMAIN Target

\* Without any set, the loop of workers.py:58-71 would fail to pop one.
ASSUME TasksAssumption ==
    /\ {NodeCount, SetCount, ElementCount, ItemCount, MaxWeight, Capacity, MaxPicks}
           \subseteq Nat
    /\ SetCount # 0
    /\ \A order \in NodeOrders :
          /\ order \in Seq(Nodes) /\ Len(order) = NodeCount /\ ToSet(order) = Nodes
    /\ NoColor \notin Color
    /\ Bin \subseteq Seq(Items \union {Unknown})

MCTarget == <<1, NoTarget, 2>>
MCNodeOrders == {<<1, 2, 3, 4>>, <<3, 1, 4, 2>>}
MCBin == {<<1, 2>>, <<3, 4>>, <<1, 3>>, <<2, 4>>, <<4>>, <<3>>, <<1, 2, 3>>, <<Unknown>>, <<1>>,
          << >>}

-----------------------------------------------------------------------------
(* Inputs *)

Attempt == [task : Task, valid : {TRUE}, score : 0..MaxScore]
             \union [task : Task, valid : {FALSE}, score : {0}]

Contract(status, gate, candidate) ==
    [kind |-> "contract", status |-> status, next_gate |-> gate, candidate |-> candidate,
     summary |-> 1, lesson |-> "null"]

Token == [kind : {"prose", "fence", "tag", "object", "value"}]
           \union {Contract("done", "validate", "object"), Contract("done", "validate", "null"),
                   Contract("failed", "stop", "null")}

Reply == [kind : {"ok"}, done : {TRUE}, quotes : {{}}]
           \union [kind : {"429", "bearer", "401"}, done : {FALSE}, quotes : {{}}]
           \union [kind : {"4xx"}, done : {FALSE}, quotes : {{}, {"429"}, {"5xx"}}]
           \union [kind : {"5xx"}, done : BOOLEAN, quotes : {{}, {"429"}}]
           \union [kind : {"network", "timeout"}, done : BOOLEAN, quotes : {{}}]

Pairs == {e \in Nodes \X Nodes : e[1] < e[2]}
ColoringTasks == [family : {"graph-coloring"}, nodes : NodeOrders, edges : SUBSET Pairs]
\* The universe may be empty.
CoverTasks == [family : {"set-cover"}, universe : {{}, 1..(ElementCount - 1), 1..ElementCount},
               order : {[s \in Sets |-> s]},
               members : [Sets -> (SUBSET (1..ElementCount)) \ {{}}]]
\* An item may be heavier than a bin holds.
PackingTasks == [family : {"bin-packing"}, order : {[i \in Items |-> i]},
                 weight : [Items -> 1..MaxWeight], capacity : {Capacity}]

Init ==
    \/ kind \in {"history", "text", "script"} /\ input = << >>
    \/ kind = "task" /\ (input \in ColoringTasks \/ input \in CoverTasks
                                                 \/ input \in PackingTasks)

Grow(k, max, items) ==
    /\ kind = k /\ Len(input) < max
    /\ \E x \in items : input' = Append(input, x)
    /\ UNCHANGED kind

Record == Grow("history", MaxAttempts, Attempt)
Write == Grow("text", MaxTokens, Token)
Answer == Grow("script", MaxRetries + 1, Reply)

Next == Record \/ Write \/ Answer
Spec == Init /\ [][Next]_vars

-----------------------------------------------------------------------------
(* Scheduling *)

Policies == {"managed", "round_robin"}

\* Recorded attempts carry their sequence number, so equal results stay apart.
History == {[seq |-> i, task |-> input[i].task, valid |-> input[i].valid,
             score |-> input[i].score] : i \in DOMAIN input}

\* The tuple keys of scheduler.py:34 and 59-62, with infinity as MaxScore + 1.
Key(p, t) ==
    LET scores == ValidScores(t, History)
        best == IF scores = {} THEN MaxScore + 1 ELSE Min(scores)
        count == Count(t, History)
    IN  IF p = "round_robin" THEN <<count, t>>
        ELSE <<IF count = 0 THEN 0 ELSE 1, count, MaxScore + 1 - best, t>>

KeyLess(k, l) ==
    \E i \in DOMAIN k : k[i] < l[i] /\ \A j \in 1..(i - 1) : k[j] = l[j]

\* What every module takes for the choice is the task with the least key of the source:
\* it is unique, so every process that has read the same attempts chooses alike.
ChoiceIsLeastKey ==
    kind = "history" =>
        \A p \in Policies, tasks \in (SUBSET Task) \ {{}} :
            \E t \in tasks :
                /\ \A u \in tasks \ {t} : KeyLess(Key(p, t), Key(p, u))
                /\ \A u \in tasks : IsChoice(p, u, tasks, History) <=> u = t

-----------------------------------------------------------------------------
(* Comparison *)

\* The sums that comparison.py:72-83 carries along agree with the report's quality of
\* runner.py:603-620, computed from scratch: the final quality, and the area under the
\* curve as the sum over all prefixes of the history.
AreaIsSumOfPrefixes ==
    kind = "history" =>
        LET arm == SummarizeArm(input)
        IN  /\ arm.total = NormalizedQuality(input)
            /\ arm.sum = SumOf([n \in DOMAIN input |->
                                    NormalizedQuality(SubSeq(input, 1, n))])

-----------------------------------------------------------------------------
(* Final texts *)

Fence == [kind |-> "fence"]
Tag == [kind |-> "tag"]
WellFormed == {c \in Token : c.kind = "contract" /\ FieldsAllowed(c)}

\* contracts.py:37-76: whatever a worker says before, a contract that ends its text is
\* read, bare or in a fence of its own; and what is read is the last JSON of the text,
\* followed by a closing fence at most.
LastContractIsRead ==
    kind = "text" =>
        /\ \A c \in WellFormed :
              /\ Parse(Append(input, c)) = c
              /\ Parse(input \o <<Fence, c, Fence>>) = c
              /\ Parse(input \o <<Fence, Tag, c, Fence>>) = c
        /\ Parse(input) # NoContract =>
              \E i \in DOMAIN input :
                  /\ input[i] = Parse(input)
                  /\ \A j \in (i + 1)..Len(input) : j = i + 1 /\ input[j] = Fence

-----------------------------------------------------------------------------
(* Requests *)

\* openhands.py:67-74 "duplicate-safe writes": a request that changes something is done
\* once if it returns and at most once if it raises, whatever replies are lost, as long
\* as no error quotes another status.
WriteIsDoneOnce ==
    kind = "script" /\ Len(input) = MaxRetries + 1 =>
        LET result == Send("POST", input)
            done == Cardinality({i \in 1..result.sent : input[i].done})
        IN  (\A i \in DOMAIN input : input[i].quotes = {}) =>
                IF result.raises THEN done <= 1 ELSE done = 1

-----------------------------------------------------------------------------
(* Tasks *)

SeqsUpTo(S, n) == UNION {[1..k -> S] : k \in 0..n}

\* All candidates of up to some size, with an id that no task has.
Candidates ==
    CASE input.family = "graph-coloring" ->
            [key : {"assignments"},
             value : UNION {[d -> Color \union {NoColor}] : d \in SUBSET (Nodes \union {Unknown})}]
      [] input.family = "set-cover" ->
            [key : {"selected_sets"}, value : SeqsUpTo(Sets \union {Unknown}, MaxPicks)]
      [] input.family = "bin-packing" ->
            [key : {"bins"}, value : SeqsUpTo(Bin, MaxPicks)]

\* What some of the items weigh together.
Weight(items) == SumOf([i \in Items |-> IF i \in items THEN input.weight[i] ELSE 0])

\* The problems as the literature states them.
IsColoring(value) ==
    /\ DOMAIN value = Nodes /\ NoColor \notin ToSet(value)
    /\ \A e \in input.edges : value[e[1]] # value[e[2]]

\* A task with nothing to cover has no solution.
IsCover(value) ==
    \E S \in SUBSET Sets :
        /\ input.universe # {} /\ input.universe \subseteq UNION {input.members[s] : s \in S}
        /\ ToSet(value) = S /\ Len(value) = Cardinality(S)

IsPacking(value) ==
    /\ \A i \in Items : Cardinality({k \in DOMAIN value : i \in ToSet(value[k])}) = 1
    /\ \A k \in DOMAIN value :
          /\ ToSet(value[k]) \subseteq Items
          /\ Len(value[k]) = Cardinality(ToSet(value[k]))
          /\ Weight(ToSet(value[k])) <= input.capacity

IsSolution(value) ==
    CASE input.family = "graph-coloring" -> IsColoring(value)
      [] input.family = "set-cover" -> IsCover(value)
      [] input.family = "bin-packing" -> IsPacking(value)

\* runner.py:597 "Worker claims are not treated as validation evidence" rests on this: the
\* validators accept the solutions of their problem and nothing else.
AcceptsExactlySolutions ==
    kind = "task" => \A c \in Candidates : Validate(input, c).valid <=> IsSolution(c.value)

\* Packings of the items in k bins.
Packings(k) == {f \in [Items -> 1..k] :
                   \A b \in 1..k : Weight({i \in Items : f[i] = b}) <= input.capacity}

Solvable ==
    CASE input.family = "graph-coloring" -> TRUE
      [] input.family = "set-cover" ->
            /\ input.universe # {}
            /\ input.universe \subseteq UNION {input.members[s] : s \in Sets}
      [] input.family = "bin-packing" -> \A i \in Items : input.weight[i] <= input.capacity

\* 12 times the harmonic numbers, for sets of up to four elements.
Harmonic12 == <<12, 18, 22, 25>>

\* workers.py:29-103: with or without a lesson, the offline worker solves every task that
\* can be solved; what it says of the other tasks is rejected.
LocalCandidateSolves ==
    kind = "task" =>
        \A informed \in BOOLEAN :
            Validate(input, LocalCandidate(input, informed)).valid <=> Solvable

\* Its solutions are within the known bounds of the algorithms that workers.py names,
\* against the best solution there is.
WithinBounds(informed, score) ==
    CASE input.family = "graph-coloring" ->
            score <= 1 + Max({0} \union {Degree(input, n) : n \in Nodes})
      [] input.family = "set-cover" ->
            LET covers == {S \in SUBSET Sets :
                               input.universe \subseteq UNION {input.members[s] : s \in S}}
                largest == Max({Cardinality(input.members[s] \intersect input.universe) :
                                    s \in Sets})
            IN  informed => 12 * score <= Harmonic12[largest]
                                * Min({Cardinality(S) : S \in covers})
      [] input.family = "bin-packing" ->
            LET best == Min({k \in Items : Packings(k) # {}})
            IN  IF informed THEN 2 * score <= 3 * best ELSE score <= 2 * best - 1

LocalCandidateIsGood ==
    /\ LocalCandidateSolves
    /\ kind = "task" /\ Solvable =>
           \A informed \in BOOLEAN :
               WithinBounds(informed, Validate(input, LocalCandidate(input, informed)).score)
=============================================================================
