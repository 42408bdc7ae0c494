----------------------------- MODULE Benchmark -----------------------------
(***************************************************************************)
(* The benchmark families: the validators of benchmark.py and the offline  *)
(* worker's heuristics of workers.py.  Nodes, sets and items are numbers,  *)
(* ordered as their ids; a task is a record with its family:               *)
(*   graph-coloring   nodes, a sequence, and edges, pairs of nodes         *)
(*   set-cover        universe, members of each set, order of the sets     *)
(*   bin-packing      weight of each item, order of the items, capacity    *)
(* A candidate has the key its worker gave it: candidate.get(key) of any   *)
(* other key is None.                                                      *)
(***************************************************************************)
EXTENDS Sums, SequencesExt

NoColor == 0        \* null, or a list or an object in place of a color

-----------------------------------------------------------------------------
(* Validators *)

\* The score is read of valid results only.
Verdict(errors, score) == [valid |-> ~errors, score |-> score]

Unreadable == Verdict(TRUE, 0)

ValidateColoring(task, assignments) ==
    LET nodes == ToSet(task.nodes)
        colored == {n \in nodes \intersect DOMAIN assignments : assignments[n] # NoColor}
        clash == \E e \in task.edges : /\ {e[1], e[2]} \subseteq colored
                                       /\ assignments[e[1]] = assignments[e[2]]
    IN  Verdict(colored # nodes \/ DOMAIN assignments \ nodes # {} \/ clash,
                Cardinality({assignments[n] : n \in colored}))

Covered(task, selected) ==
    UNION {task.members[s] : s \in ToSet(selected) \intersect DOMAIN task.members}

\* A slip: a selection is scored and checked as a set.
ValidateAsSet(task, selected) ==
    Verdict(\/ task.universe = {}
            \/ ToSet(selected) \ DOMAIN task.members # {}
            \/ task.universe \ Covered(task, selected) # {},
            Cardinality(ToSet(selected)))

ValidateCover(task, selected) ==
    Verdict(\/ task.universe = {}
            \/ Cardinality(ToSet(selected)) # Len(selected)
            \/ ToSet(selected) \ DOMAIN task.members # {}
            \/ task.universe \ Covered(task, selected) # {},
            Len(selected))

\* What a bin weighs; unknown items weigh nothing.
BinWeight(task, bin) ==
    SumOf([k \in DOMAIN bin |-> IF bin[k] \in DOMAIN task.weight THEN task.weight[bin[k]]
                                ELSE 0])

\* The places in the bins; packed, the list of all items, has one entry per place.
Places(bins) == UNION {{k} \X DOMAIN bins[k] : k \in DOMAIN bins}

ValidatePacking(task, bins) ==
    LET Item(p) == bins[p[1]][p[2]]
        packed == {Item(p) : p \in Places(bins)}
        repeated(i) == Cardinality({p \in Places(bins) : Item(p) = i}) > 1
    IN  Verdict(\/ packed # DOMAIN task.weight
                \/ \E i \in packed : repeated(i)
                \/ \E k \in DOMAIN bins : BinWeight(task, bins[k]) > task.capacity,
                Len(bins))

\* DeterministicValidator.validate
Validate(task, candidate) ==
    CASE task.family = "graph-coloring" /\ candidate.key = "assignments" ->
            ValidateColoring(task, candidate.value)
      [] task.family = "set-cover" /\ candidate.key = "selected_sets" ->
            ValidateCover(task, candidate.value)
      [] task.family = "bin-packing" /\ candidate.key = "bins" ->
            ValidatePacking(task, candidate.value)
      [] OTHER -> Unreadable

-----------------------------------------------------------------------------
(* Heuristics; informed: a retrieved lesson names the better rule *)

Adjacent(task, n) ==
    {e[2] : e \in {d \in task.edges : d[1] = n}}
        \union {e[1] : e \in {d \in task.edges : d[2] = n}}

Degree(task, n) == Cardinality(Adjacent(task, n))

\* In a list without repetitions, x comes before y.
Earlier(list, x, y) == \E i, j \in DOMAIN list : i < j /\ list[i] = x /\ list[j] = y

\* The node that comes first, in the order of the task or by decreasing degree.
NextNode(task, informed, nodes) ==
    CHOOSE n \in nodes : \A m \in nodes \ {n} :
        IF informed
        THEN \/ Degree(task, n) > Degree(task, m)
             \/ Degree(task, n) = Degree(task, m) /\ n < m
        ELSE Earlier(task.nodes, n, m)

\* The least color that is free; colors are counted from 1 here.
FreeColor(used) == CHOOSE c \in 1..(Cardinality(used) + 1) :
                        c \notin used /\ \A d \in 1..(c - 1) : d \in used

\* One round of the loop over the nodes.
ColorNext(task, informed, colors) ==
    LET n == NextNode(task, informed, ToSet(task.nodes) \ DOMAIN colors)
        used == {colors[a] : a \in Adjacent(task, n) \intersect DOMAIN colors}
    IN  [m \in DOMAIN colors \union {n} |-> IF m = n THEN FreeColor(used) ELSE colors[m]]

ColorRounds(task, informed) ==
    LET colors[k \in 0..Len(task.nodes)] ==
            IF k = 0 THEN << >> ELSE ColorNext(task, informed, colors[k - 1])
    IN  colors

GreedyColoring(task, informed) == ColorRounds(task, informed)[Len(task.nodes)]

\* Which set is popped next.
NextSet(task, informed, remaining, uncovered) ==
    LET Gain(s) == Cardinality(task.members[s] \intersect uncovered)
    IN  CHOOSE s \in remaining : \A t \in remaining \ {s} :
            IF informed
            THEN Gain(s) > Gain(t) \/ (Gain(s) = Gain(t) /\ s < t)
            ELSE Earlier(task.order, s, t)

\* One round of the loop, which pops a set each time and so has a round per set at most.
\* A task has a set at least: without any there would be nothing to pop.
CoverNext(task, informed, cover) ==
    IF cover.uncovered = {} THEN cover
    ELSE LET s == NextSet(task, informed, cover.remaining, cover.uncovered)
             contribution == task.members[s] \intersect cover.uncovered
         IN  [selected |-> IF contribution = {} THEN cover.selected
                           ELSE Append(cover.selected, s),
              remaining |-> cover.remaining \ {s},
              uncovered |-> cover.uncovered \ contribution]

NothingCovered(task) ==
    [selected |-> << >>, remaining |-> ToSet(task.order), uncovered |-> task.universe]

CoverRounds(task, informed) ==
    LET cover[k \in 0..Len(task.order)] ==
            IF k = 0 THEN NothingCovered(task) ELSE CoverNext(task, informed, cover[k - 1])
    IN  cover

SetCover(task, informed) == CoverRounds(task, informed)[Len(task.order)].selected

\* A slip: the bin may be as heavy as the capacity allows and one more.
RoomForOneMore(task, bin, item) ==
    BinWeight(task, bin) + task.weight[item] <= task.capacity + 1

Fits(task, bin, item) == BinWeight(task, bin) + task.weight[item] <= task.capacity

\* The item that comes first, in the order of the task or by decreasing weight.
NextItem(task, informed, items) ==
    CHOOSE i \in items : \A j \in items \ {i} :
        IF informed
        THEN task.weight[i] > task.weight[j] \/ (task.weight[i] = task.weight[j] /\ i < j)
        ELSE Earlier(task.order, i, j)

\* The bins an item may join: any that has room, or only the last one.
Joinable(task, informed, bins, item) ==
    {k \in DOMAIN bins : Fits(task, bins[k], item) /\ (informed \/ k = Len(bins))}

Packed(bins) == UNION {ToSet(bins[k]) : k \in DOMAIN bins}

\* One round of the loop over the items.
PackNext(task, informed, bins) ==
    LET item == NextItem(task, informed, ToSet(task.order) \ Packed(bins))
        open == Joinable(task, informed, bins, item)
    IN  IF open = {} THEN Append(bins, <<item>>)
        ELSE [bins EXCEPT ![Min(open)] = Append(bins[Min(open)], item)]

PackRounds(task, informed) ==
    LET bins[k \in 0..Len(task.order)] ==
            IF k = 0 THEN << >> ELSE PackNext(task, informed, bins[k - 1])
    IN  bins

BinPack(task, informed) == PackRounds(task, informed)[Len(task.order)]

\* The candidate of LocalHeuristicWorker.execute.
LocalCandidate(task, informed) ==
    CASE task.family = "graph-coloring" ->
            [key |-> "assignments", value |-> GreedyColoring(task, informed)]
      [] task.family = "set-cover" ->
            [key |-> "selected_sets",
             value |-> SetCover(task, informed)]
      [] task.family = "bin-packing" ->
            [key |-> "bins", value |-> BinPack(task, informed)]
=============================================================================
