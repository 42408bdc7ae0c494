-------------------------- MODULE AlgorithmsProofs --------------------------
(***************************************************************************)
(* Theorems about the pure operators: for histories of any length over any *)
(* tasks and scores, texts of any length, any number of retries, and tasks *)
(* and candidates of any size.                                             *)
(***************************************************************************)
EXTENDS MCAlgorithms, FiniteSetTheorems, SequenceTheorems, WellFoundedInduction, TLAPS

-----------------------------------------------------------------------------
(* Least and greatest numbers *)

\* A set of naturals that is not empty has a least element.
LEMMA LeastOf ==
    ASSUME NEW S, S \subseteq Nat, S # {}
    PROVE  Min(S) \in S /\ \A n \in S : Min(S) <= n
<1> DEFINE Below == {1..n : n \in S}
<1>1. IsWellFoundedOn(StrictSubsetOrdering(Nat), FiniteSubsetsOf(Nat))
    BY FS_StrictSubsetOrderingWellFounded
<1>2. Below # {} /\ Below \subseteq FiniteSubsetsOf(Nat)
    <2>1. \A n \in S : IsFiniteSet(1..n) /\ 1..n \in SUBSET Nat
        BY FS_Interval
    <2> QED
        BY <2>1 DEF FiniteSubsetsOf
<1> HIDE DEF Below
<1>3. PICK L \in Below : \A T \in Below : ~ (<<T, L>> \in StrictSubsetOrdering(Nat))
    BY <1>1, <1>2, WFMin
<1>4. PICK m \in S : L = 1..m
    BY DEF Below
<1>5. ASSUME NEW n \in S, n < m
      PROVE  FALSE
    <2>1. 1..n \in Below
        BY DEF Below
    <2>2. m \in 1..m /\ m \notin 1..n
        BY <1>5
    <2>3. 1..n \subseteq 1..m /\ 1..n # 1..m /\ 1..n \in SUBSET Nat /\ 1..m \in SUBSET Nat
        BY <2>2, <1>5
    <2> QED
        BY <2>1, <2>3, <1>3, <1>4 DEF StrictSubsetOrdering
<1>6. \A n \in S : m <= n
    BY <1>5
<1> QED
    BY <1>6 DEF Min

\* A set of naturals up to some number that is not empty has a greatest element.
LEMMA GreatestOf ==
    ASSUME NEW n \in Nat, NEW S, S \subseteq 0..n, S # {}
    PROVE  Max(S) \in S /\ \A x \in S : x <= Max(S)
<1> DEFINE Above == {(x + 1)..n : x \in S}
<1>1. IsWellFoundedOn(StrictSubsetOrdering(Nat), FiniteSubsetsOf(Nat))
    BY FS_StrictSubsetOrderingWellFounded
<1>2. Above # {} /\ Above \subseteq FiniteSubsetsOf(Nat)
    <2>1. \A x \in S : x + 1 \in Int /\ n \in Int /\ (x + 1)..n \in SUBSET Nat
        OBVIOUS
    <2>2. \A x \in S : IsFiniteSet((x + 1)..n)
        BY <2>1, FS_Interval
    <2> QED
        BY <2>1, <2>2 DEF FiniteSubsetsOf
<1> HIDE DEF Above
<1>3. PICK L \in Above : \A T \in Above : ~ (<<T, L>> \in StrictSubsetOrdering(Nat))
    BY <1>1, <1>2, WFMin
<1>4. PICK m \in S : L = (m + 1)..n
    BY DEF Above
<1>5. ASSUME NEW x \in S, m < x
      PROVE  FALSE
    <2>1. (x + 1)..n \in Above
        BY DEF Above
    <2>2. x \in (m + 1)..n /\ x \notin (x + 1)..n
        BY <1>5
    <2>3. (x + 1)..n \subseteq (m + 1)..n /\ (x + 1)..n # (m + 1)..n
          /\ (x + 1)..n \in SUBSET Nat /\ (m + 1)..n \in SUBSET Nat
        BY <2>2, <1>5
    <2> QED
        BY <2>1, <2>3, <1>3, <1>4 DEF StrictSubsetOrdering
<1>6. \A x \in S : x <= m
    BY <1>5
<1>7. \E x \in S : \A y \in S : x >= y
    BY <1>6
<1> QED
    BY <1>7 DEF Max

-----------------------------------------------------------------------------
(* The scheduler *)

\* What the store lists: attempts in the order of their numbers.
HistoryInput == input \in Seq(Attempt)

\* The counts and scores that the keys are made of are numbers in their ranges.
LEMMA KeyParts ==
    ASSUME HistoryInput, NEW t \in Task
    PROVE  Count(t, History) \in Nat /\ ValidScores(t, History) \subseteq 0..MaxScore
<1> DEFINE Row(i) == [seq |-> i, task |-> input[i].task, valid |-> input[i].valid,
                      score |-> input[i].score]
<1>1. Len(input) \in Nat /\ DOMAIN input = 1..Len(input)
    BY DEF HistoryInput
<1>2. IsFiniteSet(DOMAIN input)
    BY <1>1, FS_Interval
<1>3. History = {Row(i) : i \in DOMAIN input}
    BY DEF History
<1>4. IsFiniteSet({Row(i) : i \in DOMAIN input})
    <2> DEFINE row == [i \in DOMAIN input |-> Row(i)]
    <2>1. row \in Surjection(DOMAIN input, {Row(i) : i \in DOMAIN input})
        BY DEF Surjection
    <2> QED
        BY <2>1, <1>2, FS_Surjection
<1>5. IsFiniteSet({a \in History : a.task = t})
    BY <1>3, <1>4, FS_Subset, {a \in History : a.task = t} \subseteq History
<1>6. \A i \in DOMAIN input : input[i].score \in 0..MaxScore
    <2> TAKE i \in DOMAIN input
    <2>1. input[i] \in Attempt
        BY <1>1 DEF HistoryInput
    <2>2. ASSUME NEW a \in Attempt
          PROVE  a.score \in 0..MaxScore
        <3>1. 0 \in 0..MaxScore
            BY InputsAssumption
        <3> QED
            BY <3>1 DEF Attempt
    <2> QED
        BY <2>1, <2>2
<1> QED
    BY <1>3, <1>5, <1>6, FS_CardinalityType DEF Count, ValidScores

\* The best score of a task, one more than any score if it has none.
Best(t) ==
    IF ValidScores(t, History) = {} THEN MaxScore + 1 ELSE Min(ValidScores(t, History))

LEMMA BestIsLeast ==
    ASSUME HistoryInput, NEW t \in Task
    PROVE  /\ Best(t) \in 0..(MaxScore + 1)
           /\ \A s \in ValidScores(t, History) : Best(t) <= s
           /\ ValidScores(t, History) # {} =>
                  Best(t) \in ValidScores(t, History) /\ Best(t) <= MaxScore
           /\ ValidScores(t, History) = {} => Best(t) = MaxScore + 1
<1>1. ValidScores(t, History) \subseteq 0..MaxScore
    BY KeyParts
<1>2. CASE ValidScores(t, History) = {}
    BY <1>2, InputsAssumption DEF Best
<1>3. CASE ValidScores(t, History) # {}
    <2> PICK S : S = ValidScores(t, History)
        OBVIOUS
    <2>1. S \subseteq Nat /\ S # {} /\ S \subseteq 0..MaxScore
        BY <1>1, <1>3, InputsAssumption
    <2>2. Min(S) \in S /\ \A n \in S : Min(S) <= n
        BY <2>1, LeastOf
    <2>3. Best(t) = Min(S)
        BY <2>1 DEF Best
    <2> QED
        BY <2>1, <2>2, <2>3, InputsAssumption
<1> QED
    BY <1>2, <1>3

\* A task is weaker than another if its best score is worse, none being the worst.
LEMMA WeakerIsWorseBest ==
    ASSUME HistoryInput, NEW t \in Task, NEW u \in Task
    PROVE  Weaker(t, u, History) <=> Best(u) < Best(t)
<1> PICK T : T = ValidScores(t, History)
    OBVIOUS
<1> PICK U : U = ValidScores(u, History)
    OBVIOUS
<1>1. /\ T \subseteq 0..MaxScore /\ U \subseteq 0..MaxScore
      /\ Best(t) \in 0..(MaxScore + 1) /\ Best(u) \in 0..(MaxScore + 1)
      /\ \A s \in T : Best(t) <= s
      /\ \A s \in U : Best(u) <= s
      /\ T # {} => Best(t) \in T /\ Best(t) <= MaxScore
      /\ U # {} => Best(u) \in U /\ Best(u) <= MaxScore
      /\ T = {} => Best(t) = MaxScore + 1
      /\ U = {} => Best(u) = MaxScore + 1
    BY KeyParts, BestIsLeast
<1>2. Weaker(t, u, History) <=> \E best \in U : \A s \in T : best < s
    BY DEF Weaker
<1>3. ASSUME Best(u) < Best(t)
      PROVE  Best(u) \in U /\ \A s \in T : Best(u) < s
    BY <1>1, <1>3, InputsAssumption
<1>4. ASSUME NEW best \in U, \A s \in T : best < s
      PROVE  Best(u) < Best(t)
    BY <1>1, <1>4, InputsAssumption
<1> QED
    BY <1>2, <1>3, <1>4

\* Tuples are compared by their first difference.
LEMMA PairsCompared ==
    ASSUME NEW k, NEW l, DOMAIN k = {1, 2}
    PROVE  KeyLess(k, l) <=> k[1] < l[1] \/ (k[1] = l[1] /\ k[2] < l[2])
<1>1. 1..(1 - 1) = {} /\ 1..(2 - 1) = {1}
    OBVIOUS
<1> QED
    BY <1>1 DEF KeyLess

LEMMA QuadruplesCompared ==
    ASSUME NEW k, NEW l, DOMAIN k = {1, 2, 3, 4}
    PROVE  KeyLess(k, l) <=>
               \/ k[1] < l[1]
               \/ k[1] = l[1] /\ k[2] < l[2]
               \/ k[1] = l[1] /\ k[2] = l[2] /\ k[3] < l[3]
               \/ k[1] = l[1] /\ k[2] = l[2] /\ k[3] = l[3] /\ k[4] < l[4]
<1>1. /\ 1..(1 - 1) = {} /\ 1..(2 - 1) = {1}
      /\ 1..(3 - 1) = {1, 2} /\ 1..(4 - 1) = {1, 2, 3}
    OBVIOUS
<1> QED
    BY <1>1 DEF KeyLess

\* The keys of the source, compared part by part.
KeyOrder(p, t, u) ==
    \/ Count(t, History) < Count(u, History)
    \/ /\ Count(t, History) = Count(u, History)
       /\ \/ p = "managed" /\ Best(u) < Best(t)
          \/ (p = "managed" => Best(t) = Best(u)) /\ t < u

LEMMA KeysCompared ==
    ASSUME HistoryInput, NEW p \in Policies, NEW t \in Task, NEW u \in Task
    PROVE  KeyLess(Key(p, t), Key(p, u)) <=> KeyOrder(p, t, u)
<1> PICK c : c = Count(t, History)
    OBVIOUS
<1> PICK d : d = Count(u, History)
    OBVIOUS
<1>1. /\ c \in Nat /\ d \in Nat /\ t \in Nat /\ u \in Nat /\ MaxScore \in Nat
      /\ Best(t) \in Nat /\ Best(u) \in Nat
    BY KeyParts, BestIsLeast, InputsAssumption
<1>2. CASE p = "round_robin"
    <2>1. Key(p, t) = <<c, t>> /\ Key(p, u) = <<d, u>>
        BY <1>2 DEF Key
    <2>2. KeyLess(<<c, t>>, <<d, u>>) <=> c < d \/ (c = d /\ t < u)
        <3> PICK k : k = <<c, t>>
            OBVIOUS
        <3> PICK l : l = <<d, u>>
            OBVIOUS
        <3>1. DOMAIN k = {1, 2} /\ k[1] = c /\ k[2] = t /\ l[1] = d /\ l[2] = u
            OBVIOUS
        <3> QED
            BY <3>1, PairsCompared
    <2> QED
        BY <2>1, <2>2, <1>2 DEF KeyOrder
<1>3. CASE p = "managed"
    <2> PICK e : e = IF c = 0 THEN 0 ELSE 1
        OBVIOUS
    <2> PICK f : f = IF d = 0 THEN 0 ELSE 1
        OBVIOUS
    <2> PICK x : x = MaxScore + 1 - Best(t)
        OBVIOUS
    <2> PICK y : y = MaxScore + 1 - Best(u)
        OBVIOUS
    <2>1. Key(p, t) = <<e, c, x, t>> /\ Key(p, u) = <<f, d, y, u>>
        BY <1>3 DEF Key, Best
    <2>2. e \in Int /\ f \in Int /\ x \in Int /\ y \in Int
        BY <1>1
    <2>3. KeyLess(<<e, c, x, t>>, <<f, d, y, u>>) <=>
              \/ e < f
              \/ e = f /\ c < d
              \/ e = f /\ c = d /\ x < y
              \/ e = f /\ c = d /\ x = y /\ t < u
        <3> PICK k : k = <<e, c, x, t>>
            OBVIOUS
        <3> PICK l : l = <<f, d, y, u>>
            OBVIOUS
        <3>1. /\ DOMAIN k = {1, 2, 3, 4}
              /\ k[1] = e /\ k[2] = c /\ k[3] = x /\ k[4] = t
              /\ l[1] = f /\ l[2] = d /\ l[3] = y /\ l[4] = u
            OBVIOUS
        <3> QED
            BY <3>1, QuadruplesCompared
    <2>4. (e < f => c < d) /\ (c < d => e <= f) /\ (c = d => e = f)
          /\ (x < y <=> Best(u) < Best(t)) /\ (x = y <=> Best(t) = Best(u))
        BY <1>1
    <2>5. (\/ e < f
           \/ e = f /\ c < d
           \/ e = f /\ c = d /\ x < y
           \/ e = f /\ c = d /\ x = y /\ t < u)
          <=> (c < d \/ (c = d /\ (Best(u) < Best(t) \/ (Best(t) = Best(u) /\ t < u))))
        BY <2>2, <2>4, <1>1
    <2> QED
        BY <2>1, <2>3, <2>5, <1>3 DEF KeyOrder
<1> QED
    BY <1>2, <1>3 DEF Policies

\* The relations of the model compare as the keys do.
LEMMA BeforeIsKeyOrder ==
    ASSUME HistoryInput, NEW p \in Policies, NEW t \in Task, NEW u \in Task
    PROVE  Before(p, t, u, History) <=> KeyOrder(p, t, u)
<1>1. /\ Count(t, History) \in Nat /\ Count(u, History) \in Nat
      /\ Best(t) \in Nat /\ Best(u) \in Nat
    BY KeyParts, BestIsLeast, InputsAssumption
<1>2. (Weaker(t, u, History) <=> Best(u) < Best(t))
      /\ (Weaker(u, t, History) <=> Best(t) < Best(u))
    BY WeakerIsWorseBest
<1>3. CASE p = "round_robin"
    BY <1>3 DEF Before, RoundRobinBefore, KeyOrder
<1>4. CASE p = "managed"
    BY <1>1, <1>2, <1>4 DEF Before, ManagedBefore, KeyOrder
<1> QED
    BY <1>3, <1>4 DEF Policies

\* Every set of tasks has one that comes before all others.
LEMMA FirstTask ==
    ASSUME HistoryInput, NEW p \in Policies, NEW tasks \in SUBSET Task, tasks # {}
    PROVE  \E t \in tasks : \A u \in tasks \ {t} : KeyOrder(p, t, u)
<1>1. \A t \in tasks : /\ Count(t, History) \in Nat /\ t \in Nat
                       /\ Best(t) \in 0..(MaxScore + 1)
    BY KeyParts, BestIsLeast, InputsAssumption
<1> PICK C : C = {Count(t, History) : t \in tasks}
    OBVIOUS
<1>2. C \subseteq Nat /\ C # {}
    BY <1>1
<1>3. Min(C) \in C /\ \A c \in C : Min(C) <= c
    BY <1>2, LeastOf
<1> PICK T : T = {t \in tasks : Count(t, History) = Min(C)}
    OBVIOUS
<1>4. T # {} /\ T \subseteq tasks
    BY <1>3
<1> PICK B : B = {MaxScore + 1 - Best(t) : t \in T}
    OBVIOUS
<1>5. B \subseteq Nat /\ B # {}
    <2>1. \A t \in T : MaxScore + 1 - Best(t) \in Nat
        BY <1>1, <1>4, InputsAssumption
    <2> QED
        BY <2>1, <1>4
<1>6. Min(B) \in B /\ \A b \in B : Min(B) <= b
    BY <1>5, LeastOf
<1> PICK W : W = {t \in T : p = "managed" => MaxScore + 1 - Best(t) = Min(B)}
    OBVIOUS
<1>7. W # {} /\ W \subseteq Nat /\ W \subseteq T
    BY <1>1, <1>4, <1>6
<1>8. Min(W) \in W /\ \A t \in W : Min(W) <= t
    BY <1>7, LeastOf
<1> PICK t : t = Min(W)
    OBVIOUS
<1>9. t \in tasks /\ t \in T /\ t \in W /\ \A u \in W : t <= u
    BY <1>4, <1>7, <1>8
<1>10. ASSUME NEW u \in tasks \ {t}
       PROVE  KeyOrder(p, t, u)
    <2>1. Count(t, History) = Min(C) /\ Min(C) <= Count(u, History)
        BY <1>3, <1>9
    <2>2. CASE u \notin T
        <3>1. Count(u, History) # Min(C)
            BY <2>2
        <3> QED
            BY <2>1, <3>1, <1>1, <1>9 DEF KeyOrder
    <2>3. CASE u \in T /\ u \notin W
        <3>1. /\ p = "managed" /\ MaxScore + 1 - Best(t) = Min(B)
              /\ MaxScore + 1 - Best(u) # Min(B)
              /\ Min(B) <= MaxScore + 1 - Best(u)
            BY <2>3, <1>6, <1>9
        <3>2. Count(u, History) = Count(t, History)
            BY <2>1, <2>3
        <3> QED
            BY <3>1, <3>2, <1>1, <1>9, InputsAssumption DEF KeyOrder
    <2>4. CASE u \in W
        <3>1. Count(u, History) = Count(t, History)
            BY <2>1, <2>4, <1>7
        <3>2. t < u
            <4>1. t \in Nat /\ u \in Nat /\ u # t /\ t <= u
                BY <2>4, <1>1, <1>9
            <4> QED
                BY <4>1
        <3>3. ASSUME p = "managed"
              PROVE  Best(t) = Best(u)
            <4>1. MaxScore + 1 - Best(t) = Min(B) /\ MaxScore + 1 - Best(u) = Min(B)
                BY <3>3, <2>4, <1>9
            <4>2. Best(t) \in Int /\ Best(u) \in Int /\ MaxScore \in Int
                BY <1>1, <1>9, InputsAssumption
            <4> QED
                BY <4>1, <4>2
        <3> QED
            BY <3>1, <3>2, <3>3 DEF KeyOrder
    <2> QED
        BY <2>2, <2>3, <2>4
<1> QED
    BY <1>9, <1>10

\* Two tasks never come each before the other.
LEMMA KeyOrderIsStrict ==
    ASSUME HistoryInput, NEW p \in Policies, NEW t \in Task, NEW u \in Task,
           KeyOrder(p, t, u)
    PROVE  ~ KeyOrder(p, u, t)
<1>1. /\ Count(t, History) \in Nat /\ Count(u, History) \in Nat
      /\ Best(t) \in Nat /\ Best(u) \in Nat /\ t \in Nat /\ u \in Nat
    BY KeyParts, BestIsLeast, InputsAssumption
<1> QED
    BY <1>1 DEF KeyOrder

\* Every policy picks one task out of any, the one with the least key.
LEMMA ChoiceFromHistory ==
    ASSUME HistoryInput
    PROVE  ChoiceIsLeastKey
<1>1. ASSUME NEW p \in Policies, NEW tasks \in (SUBSET Task) \ {{}}
      PROVE  \E t \in tasks :
                 /\ \A u \in tasks \ {t} : KeyLess(Key(p, t), Key(p, u))
                 /\ \A u \in tasks : IsChoice(p, u, tasks, History) <=> u = t
    <2>1. PICK t \in tasks : \A u \in tasks \ {t} : KeyOrder(p, t, u)
        <3>1. tasks \in SUBSET Task /\ tasks # {}
            BY <1>1
        <3> QED
            BY <3>1, FirstTask
    <2>2. \A u \in tasks \ {t} : KeyLess(Key(p, t), Key(p, u))
        BY <2>1, KeysCompared
    <2>3. IsChoice(p, t, tasks, History)
        BY <2>1, BeforeIsKeyOrder DEF IsChoice
    <2>4. ASSUME NEW u \in tasks \ {t}, IsChoice(p, u, tasks, History)
          PROVE  FALSE
        <3>1. KeyOrder(p, u, t)
            BY <2>4, BeforeIsKeyOrder DEF IsChoice
        <3> QED
            BY <3>1, <2>1, KeyOrderIsStrict
    <2> QED
        BY <2>2, <2>3, <2>4
<1> QED
    BY <1>1 DEF ChoiceIsLeastKey

-----------------------------------------------------------------------------
(* Requests *)

\* A reply that does not quote another one is either the end, or it tells that a write
\* was turned down, or it ends a write with an error.
LEMMA PlainReplies ==
    ASSUME NEW r \in Reply, r.quotes = {}
    PROVE  /\ r.kind = "ok" => r.done = TRUE
           /\ r.kind # "ok" /\ Retryable("POST", Category(r)) => r.done = FALSE
<1>1. \A s : Mentions(r, s) <=> r.kind \notin {"ok", "timeout"} /\ r.kind = s
    BY DEF Mentions
<1>2. /\ r.kind = "ok" => r.done = TRUE
      /\ r.kind \in {"429", "bearer", "401"} => r.done = FALSE
      /\ r.kind = "4xx" => r.done = FALSE
    BY DEF Reply
<1>3. Category(r) \in {"rate_limit", "transient_auth"} => r.kind \in {"429", "bearer"}
    BY <1>1 DEF Category
<1>4. Retryable("POST", Category(r)) => Category(r) \in {"rate_limit", "transient_auth"}
    BY DEF Retryable
<1> QED
    BY <1>2, <1>3, <1>4

\* However many retries there are, all replies before the last one turn the write down.
LEMMA WriteFromScript ==
    ASSUME input \in Seq(Reply)
    PROVE  WriteIsDoneOnce
<1> SUFFICES ASSUME Len(input) = MaxRetries + 1,
                    \A i \in DOMAIN input : input[i].quotes = {}
             PROVE  LET result == Send("POST", input)
                        done == Cardinality({i \in 1..result.sent : input[i].done})
                    IN  IF result.raises THEN done <= 1 ELSE done = 1
    BY DEF WriteIsDoneOnce
<1> PICK S : S = Stops("POST", input)
    OBVIOUS
<1>1. S \subseteq 1..(MaxRetries + 1) /\ MaxRetries + 1 \in S
    BY RetriesAssumption DEF Stops
<1>2. S \subseteq Nat /\ S # {}
    BY <1>1
<1> PICK n : n = Min(S)
    OBVIOUS
<1>3. n \in S /\ \A k \in S : n <= k
    BY <1>2, LeastOf
<1>4. n \in 1..(MaxRetries + 1) /\ \A i \in 1..n : i \in DOMAIN input /\ input[i] \in Reply
    <2>1. n \in 1..(MaxRetries + 1)
        BY <1>1, <1>3
    <2> QED
        BY <2>1, RetriesAssumption
<1>5. ASSUME NEW i \in 1..n, i # n
      PROVE  input[i].done = FALSE
    <2>1. i \in 1..(MaxRetries + 1) /\ i \notin S
        BY <1>3, <1>4, <1>5, RetriesAssumption
    <2>2. input[i].kind # "ok" /\ Retryable("POST", Category(input[i]))
        BY <2>1 DEF Stops
    <2>3. input[i] \in Reply /\ input[i].quotes = {}
        BY <1>4
    <2> QED
        BY <2>2, <2>3, PlainReplies
<1> PICK D : D = {i \in 1..n : input[i].done}
    OBVIOUS
<1>6. D \subseteq {n}
    BY <1>5
<1>7. input[n].kind = "ok" => D = {n}
    <2>1. n \in 1..n /\ input[n] \in Reply /\ input[n].quotes = {}
        BY <1>4
    <2>2. input[n].kind = "ok" => input[n].done = TRUE
        BY <2>1, PlainReplies
    <2> QED
        BY <2>1, <2>2, <1>6
<1>8. Cardinality(D) <= 1 /\ (D = {n} => Cardinality(D) = 1)
    <2>1. D = {} \/ D = {n}
        BY <1>6
    <2>2. CASE D = {}
        <3>1. Cardinality(D) = 0
            BY <2>2, FS_EmptySet
        <3> QED
            BY <2>2, <3>1
    <2>3. CASE D = {n}
        <3>1. Cardinality(D) = 1
            BY <2>3, FS_Singleton
        <3> QED
            BY <3>1
    <2> QED
        BY <2>1, <2>2, <2>3
<1>9. Send("POST", input) = [sent |-> n, raises |-> input[n].kind # "ok"]
    BY DEF Send
<1> PICK e \in BOOLEAN : e = (input[n].kind # "ok")
    OBVIOUS
<1>10. Send("POST", input).sent = n /\ Send("POST", input).raises = e
    BY <1>9
<1>11. IF e THEN Cardinality(D) <= 1 ELSE Cardinality(D) = 1
    BY <1>7, <1>8
<1>12. Cardinality({i \in 1..Send("POST", input).sent : input[i].done}) = Cardinality(D)
    BY <1>10
<1> QED
    BY <1>10, <1>11, <1>12

-----------------------------------------------------------------------------
(* Final texts *)

\* The tokens that matter, and what tells them apart.
LEMMA Tokens ==
    ASSUME NEW t \in Token
    PROVE  /\ t.kind = "fence" => t = Fence
           /\ t.kind \in {"prose", "fence", "tag", "object", "value", "contract"}
BY DEF Token, Contract, Fence

LEMMA WellFormedTokens ==
    ASSUME NEW c \in WellFormed
    PROVE  c \in Token /\ c.kind = "contract" /\ FieldsAllowed(c)
BY DEF WellFormed

\* The fences that may open one that ends a text.
Openings(text) == {i \in 1..(Len(text) - 1) : text[i].kind = "fence"}

\* The opening fence is the last one before the end.
LEMMA OpeningIsLast ==
    ASSUME NEW text, Len(text) \in Nat, NEW n \in Openings(text),
           \A i \in Openings(text) : i <= n
    PROVE  OpeningFence(text) = n
<1> PICK S : S = Openings(text)
    OBVIOUS
<1>1. OpeningFence(text) = CHOOSE i \in S : \A j \in S : j <= i
    BY DEF OpeningFence, Openings
<1>2. n \in S /\ (\A j \in S : j <= n) /\ S \subseteq Nat
    BY DEF Openings
<1>3. \A i \in S : (\A j \in S : j <= i) => i = n
    BY <1>2
<1> QED
    BY <1>1, <1>2, <1>3

\* A contract that ends its text is read.
LEMMA TrailingIsRead ==
    ASSUME NEW text \in Seq(Token), text # << >>, text[Len(text)] \in WellFormed
    PROVE  Parse(text) = text[Len(text)]
<1> PICK c : c = text[Len(text)]
    OBVIOUS
<1>1. c.kind = "contract" /\ FieldsAllowed(c)
    BY WellFormedTokens
<1>2. IsTrailing(text) /\ ~ IsFenced(text)
    BY <1>1 DEF IsTrailing, IsFenced
<1>3. JsonObject(text) = c
    BY <1>2 DEF JsonObject
<1> QED
    BY <1>1, <1>3 DEF Parse

\* What stands between a position and the end of a text.
LEMMA InnerPart ==
    ASSUME NEW text \in Seq(Token), NEW n \in 1..(Len(text) - 1)
    PROVE  LET body == SubSeq(text, n + 1, Len(text) - 1)
           IN  /\ body \in Seq(Token)
               /\ Len(body) = Len(text) - 1 - n
               /\ \A i \in 1..(Len(text) - 1 - n) : body[i] = text[n + i]
<1> PICK body : body = SubSeq(text, n + 1, Len(text) - 1)
    OBVIOUS
<1>1. Len(text) - 1 \in Int /\ n + 1 \in Int
    OBVIOUS
<1>2. \A i \in (n + 1)..(Len(text) - 1) : text[i] \in Token
    OBVIOUS
<1>3. /\ body \in Seq(Token)
      /\ Len(body) = IF n + 1 <= Len(text) - 1 THEN Len(text) - 1 - (n + 1) + 1 ELSE 0
      /\ \A i \in 1..(Len(text) - 1 - (n + 1) + 1) : body[i] = text[n + 1 + i - 1]
    BY <1>1, <1>2, SubSeqProperties
<1>4. \A i \in 1..(Len(text) - 1 - n) :
          n + 1 + i - 1 = n + i /\ i \in 1..(Len(text) - 1 - (n + 1) + 1)
    OBVIOUS
<1>5. Len(body) = Len(text) - 1 - n
    BY <1>3
<1> QED
    BY <1>3, <1>4, <1>5

\* A contract between two fences that end the text is read.
LEMMA FencedIsRead ==
    ASSUME NEW text \in Seq(Token), NEW n \in 1..Len(text), NEW c \in WellFormed,
           text[Len(text)] = Fence, text[n] = Fence,
           \/ Len(text) = n + 2 /\ text[n + 1] = c
           \/ Len(text) = n + 3 /\ text[n + 1] = Tag /\ text[n + 2] = c
    PROVE  Parse(text) = c
<1>1. c.kind = "contract" /\ FieldsAllowed(c) /\ Fence.kind = "fence" /\ Tag.kind = "tag"
    BY WellFormedTokens DEF Fence, Tag
<1>2. OpeningFence(text) = n
    <2>1. n \in Openings(text)
        BY <1>1 DEF Openings
    <2>2. \A i \in Openings(text) : i <= n
        BY <1>1 DEF Openings
    <2> QED
        BY <2>1, <2>2, OpeningIsLast
<1> PICK body : body = SubSeq(text, n + 1, Len(text) - 1)
    OBVIOUS
<1>3. Len(Fenced(text)) = 1 /\ Fenced(text)[1] = c
    <2>1. /\ body \in Seq(Token)
          /\ Len(body) = Len(text) - 1 - n
          /\ \A i \in 1..(Len(text) - 1 - n) : body[i] = text[n + i]
        <3>1. n \in 1..(Len(text) - 1)
            OBVIOUS
        <3> QED
            BY <3>1, InnerPart
    <2> PICK l : l = Len(text) - 1 - n
        OBVIOUS
    <2>2. Len(body) = l /\ \A i \in 1..l : body[i] = text[n + i]
        BY <2>1
    <2>3. Fenced(text) = IF body # << >> /\ body[1].kind = "tag" THEN Tail(body) ELSE body
        BY <1>2 DEF Fenced
    <2>4. CASE Len(text) = n + 2
        <3>1. l = 1 /\ 1 \in 1..l /\ text[n + 1] = c
            BY <2>4
        <3>2. body[1] = text[n + 1]
            BY <2>2, <3>1, Zenon
        <3> QED
            BY <2>2, <2>3, <3>1, <3>2, <1>1
    <2>5. CASE Len(text) = n + 3
        <3>0. l = 2 /\ 1 \in 1..l /\ 2 \in 1..l /\ text[n + 1] = Tag /\ text[n + 2] = c
            BY <2>5
        <3>1. Len(body) = 2 /\ body[1] = Tag /\ body[2] = c
            <4>1. body[1] = text[n + 1] /\ body[2] = text[n + 2]
                BY <2>2, <3>0, Zenon
            <4> QED
                BY <2>2, <3>0, <4>1
        <3>2. body # << >>
            <4>1. Len(body) # 0
                BY <3>1
            <4>2. Len(<< >>) = 0
                OBVIOUS
            <4> QED
                BY <4>1, <4>2, Zenon
        <3>3. Fenced(text) = Tail(body)
            BY <3>1, <3>2, <2>3, <1>1
        <3>4. Len(Tail(body)) = 1 /\ Tail(body)[1] = body[2]
            BY <3>1, <3>2, <2>1, HeadTailProperties
        <3> QED
            BY <3>1, <3>3, <3>4
    <2> QED
        BY <2>4, <2>5
<1>4. IsFenced(text) /\ ~ IsTrailing(text) /\ Len(text) # 1
    BY <1>1, <1>2, <1>3 DEF IsFenced, IsTrailing
<1>5. JsonObject(text) = c
    BY <1>3, <1>4 DEF JsonObject
<1> QED
    BY <1>1, <1>5 DEF Parse

LEMMA TailOfTwo ==
    ASSUME NEW s \in Seq(Token), s # << >>, Len(Tail(s)) = 1
    PROVE  Len(s) = 2 /\ Tail(s)[1] = s[2]
<1>1. /\ Len(Tail(s)) = Len(s) - 1
      /\ \A i \in 1..Len(Tail(s)) : Tail(s)[i] = s[i + 1]
    BY HeadTailProperties
<1>2. Len(s) \in Nat
    BY LenProperties
<1>3. Len(s) = 2
    BY <1>1, <1>2
<1>4. 1 \in 1..Len(Tail(s)) /\ 1 + 1 = 2
    OBVIOUS
<1>5. Tail(s)[1] = s[1 + 1]
    BY <1>1, <1>4, Zenon
<1> QED
    BY <1>3, <1>4, <1>5

LEMMA TwoAhead ==
    ASSUME NEW l \in Nat, NEW n \in 1..(l - 1), 2 = l - 1 - n
    PROVE  n + 2 = l - 1 /\ 2 \in 1..(l - 1 - n)
OBVIOUS

\* What is read stands at the end of the text, or before the fence at its end.
LEMMA OnlyTheEndIsRead ==
    ASSUME NEW text \in Seq(Token), Parse(text) # NoContract
    PROVE  \E i \in DOMAIN text :
               /\ text[i] = Parse(text)
               /\ \A j \in (i + 1)..Len(text) : j = i + 1 /\ text[j] = Fence
<1>1. Parse(text) = JsonObject(text) /\ JsonObject(text).kind = "contract"
    BY DEF Parse
<1>2. Len(text) \in Nat /\ DOMAIN text = 1..Len(text)
    OBVIOUS
<1>3. JsonObject(text) # NoContract
    BY <1>1 DEF NoContract
<1>4. CASE Len(text) = 1 /\ IsJson(text[1])
    <2>1. ~ IsFenced(text)
        BY <1>4 DEF IsFenced, IsJson
    <2>2. JsonObject(text) = text[1]
        BY <1>4, <2>1 DEF JsonObject, IsTrailing
    <2>3. 1 \in DOMAIN text /\ (1 + 1)..Len(text) = {}
        BY <1>2, <1>4
    <2> QED
        BY <2>2, <2>3, <1>1
<1>5. CASE ~ (Len(text) = 1 /\ IsJson(text[1])) /\ IsFenced(text)
    <2> PICK n : n = OpeningFence(text)
        OBVIOUS
    <2> PICK S : S = Openings(text)
        OBVIOUS
    <2>1. text # << >> /\ text[Len(text)].kind = "fence" /\ n > 0
        BY <1>5 DEF IsFenced
    <2>2. n = IF S = {} THEN 0 ELSE CHOOSE i \in S : \A j \in S : j <= i
        BY DEF OpeningFence, Openings
    <2>3. S # {}
        BY <2>1, <2>2
    <2>4. S \subseteq 0..Len(text)
        BY <1>2 DEF Openings
    <2>5. n \in S
        <3>1. Max(S) \in S /\ \A x \in S : x <= Max(S)
            BY <1>2, <2>3, <2>4, GreatestOf
        <3>2. \E i \in S : \A j \in S : j <= i
            BY <3>1
        <3> QED
            BY <2>2, <2>3, <3>2
    <2>6. n \in 1..(Len(text) - 1)
        BY <2>5 DEF Openings
    <2> PICK body : body = SubSeq(text, n + 1, Len(text) - 1)
        OBVIOUS
    <2>7. /\ body \in Seq(Token)
          /\ Len(body) = Len(text) - 1 - n
          /\ \A i \in 1..(Len(text) - 1 - n) : body[i] = text[n + i]
        BY <2>6, <1>2, InnerPart
    <2>8. /\ Len(Fenced(text)) = 1 /\ JsonObject(text) = Fenced(text)[1]
          /\ Fenced(text)[1].kind = "contract"
        BY <1>5, <2>1 DEF IsFenced, JsonObject, IsTrailing
    <2>9. Fenced(text) = IF body # << >> /\ body[1].kind = "tag" THEN Tail(body) ELSE body
        BY DEF Fenced
    <2> PICK m : m = Len(text) - 1
        OBVIOUS
    <2>10. m \in 1..Len(text) /\ m \in Int /\ m + 1 = Len(text) /\ Len(text) \in 1..Len(text)
        BY <2>6, <1>2
    <2>11. Fenced(text)[1] = text[m]
        <3>1. CASE Fenced(text) = body
            <4>1. Len(body) = 1 /\ n + 1 = m
                BY <3>1, <2>7, <2>8, <2>6, <1>2
            <4>2. 1 \in 1..(Len(text) - 1 - n)
                BY <4>1, <2>7
            <4>3. body[1] = text[n + 1]
                BY <4>2, <2>7, Zenon
            <4> QED
                BY <4>1, <4>3, <3>1
        <3>2. CASE body # << >> /\ Fenced(text) = Tail(body)
            <4>1. Len(body) = 2 /\ Tail(body)[1] = body[2]
                BY <3>2, <2>7, <2>8, TailOfTwo
            <4>2. n + 2 = m /\ 2 \in 1..(Len(text) - 1 - n)
                <5>1. PICK l \in Nat : l = Len(text)
                    BY <1>2
                <5>2. n \in 1..(l - 1) /\ 2 = l - 1 - n
                    BY <5>1, <4>1, <2>7, <2>6
                <5>3. n + 2 = l - 1 /\ 2 \in 1..(l - 1 - n)
                    BY <5>1, <5>2, TwoAhead
                <5> QED
                    BY <5>1, <5>3
            <4>3. body[2] = text[n + 2]
                BY <4>2, <2>7, Zenon
            <4> QED
                BY <4>1, <4>2, <4>3, <3>2
        <3> QED
            BY <3>1, <3>2, <2>9
    <2>12. text[Len(text)] = Fence
        BY <2>10, <2>1, Tokens
    <2>13. \A j \in (m + 1)..Len(text) : j = m + 1 /\ text[j] = Fence
        <3>1. \A j \in (m + 1)..Len(text) : j = Len(text)
            BY <2>10
        <3> QED
            BY <3>1, <2>10, <2>12
    <2> QED
        BY <2>8, <2>10, <2>11, <2>13, <1>1, <1>2
<1>6. CASE /\ ~ (Len(text) = 1 /\ IsJson(text[1])) /\ ~ IsFenced(text)
           /\ IsTrailing(text)
    <2>1. JsonObject(text) = text[Len(text)]
        BY <1>6 DEF JsonObject
    <2>2. Len(text) \in DOMAIN text /\ (Len(text) + 1)..Len(text) = {}
        BY <1>6, <1>2 DEF IsTrailing
    <2> QED
        BY <2>1, <2>2, <1>1
<1>7. CASE ~ (Len(text) = 1 /\ IsJson(text[1])) /\ ~ IsFenced(text) /\ ~ IsTrailing(text)
    BY <1>7, <1>3 DEF JsonObject
<1> QED
    BY <1>4, <1>5, <1>6, <1>7

\* Whatever a worker says before, the contract at the end is the one that is read.
LEMMA ContractFromText ==
    ASSUME input \in Seq(Token)
    PROVE  LastContractIsRead
<1>1. Len(input) \in Nat /\ Fence \in Token /\ Tag \in Token
    BY DEF Token, Fence, Tag
<1>2. ASSUME NEW c \in WellFormed
      PROVE  /\ Parse(Append(input, c)) = c
             /\ Parse(input \o <<Fence, c, Fence>>) = c
             /\ Parse(input \o <<Fence, Tag, c, Fence>>) = c
    <2>1. c \in Token
        BY WellFormedTokens
    <2>2. Parse(Append(input, c)) = c
        <3> PICK text : text = Append(input, c)
            OBVIOUS
        <3>1. text \in Seq(Token) /\ Len(text) = Len(input) + 1 /\ text[Len(input) + 1] = c
            BY <2>1, AppendProperties
        <3>2. text # << >>
            BY <3>1, <1>1
        <3> QED
            BY <3>1, <3>2, TrailingIsRead
    <2>3. Parse(input \o <<Fence, c, Fence>>) = c
        <3> PICK tail : tail = <<Fence, c, Fence>>
            OBVIOUS
        <3>1. tail \in Seq(Token) /\ Len(tail) = 3
              /\ tail[1] = Fence /\ tail[2] = c /\ tail[3] = Fence
            BY <1>1, <2>1
        <3> PICK text : text = input \o tail
            OBVIOUS
        <3> PICK n : n = Len(input) + 1
            OBVIOUS
        <3>2. /\ text \in Seq(Token) /\ Len(text) = n + 2 /\ n \in 1..Len(text)
              /\ text[n] = Fence /\ text[n + 1] = c /\ text[n + 2] = Fence
            BY <1>1, <3>1, ConcatProperties
        <3> QED
            BY <3>2, FencedIsRead
    <2>4. Parse(input \o <<Fence, Tag, c, Fence>>) = c
        <3> PICK tail : tail = <<Fence, Tag, c, Fence>>
            OBVIOUS
        <3>1. tail \in Seq(Token) /\ Len(tail) = 4
              /\ tail[1] = Fence /\ tail[2] = Tag /\ tail[3] = c /\ tail[4] = Fence
            BY <1>1, <2>1
        <3> PICK text : text = input \o tail
            OBVIOUS
        <3> PICK n : n = Len(input) + 1
            OBVIOUS
        <3>2. /\ text \in Seq(Token) /\ Len(text) = n + 3 /\ n \in 1..Len(text)
              /\ text[n] = Fence /\ text[n + 1] = Tag /\ text[n + 2] = c
              /\ text[n + 3] = Fence
            BY <1>1, <3>1, ConcatProperties
        <3> QED
            BY <3>2, FencedIsRead
    <2> QED
        BY <2>2, <2>3, <2>4
<1> QED
    BY <1>2, OnlyTheEndIsRead DEF LastContractIsRead

-----------------------------------------------------------------------------
(* Induction up to a number, from the least counterexample *)

\* A set that has 0, and with each number below N the next one, has all up to N.
LEMMA CountedUp ==
    ASSUME NEW N \in Nat, NEW S, 0 \in S,
           \A n \in 0..N : n \in S /\ n < N => n + 1 \in S
    PROVE  0..N \subseteq S
<1> PICK T : T = {n \in 0..N : n \notin S}
    OBVIOUS
<1>1. ASSUME T # {}
      PROVE  FALSE
    <2>1. T \subseteq Nat
        OBVIOUS
    <2>2. Min(T) \in T /\ \A n \in T : Min(T) <= n
        BY <1>1, <2>1, LeastOf
    <2> PICK m : m = Min(T)
        OBVIOUS
    <2>3. m \in 0..N /\ m \notin S /\ m # 0
        BY <2>2
    <2>4. m - 1 \in 0..N /\ m - 1 < N /\ (m - 1) + 1 = m /\ ~ (m <= m - 1)
        BY <2>3
    <2>5. m - 1 \notin T
        BY <2>2, <2>4
    <2> QED
        BY <2>3, <2>4, <2>5
<1> QED
    BY <1>1

-----------------------------------------------------------------------------
(* Sums *)

\* The partial sums are what their recursion says.
LEMMA SumsExist ==
    ASSUME NEW f, NEW N \in Nat, Len(f) = N
    PROVE  PartialSums(f) = [n \in 0..N |-> IF n = 0 THEN 0
                                            ELSE PartialSums(f)[n - 1] + f[n]]
<1> DEFINE Up(m, g) == g = [n \in 0..m |-> IF n = 0 THEN 0 ELSE g[n - 1] + f[n]]
           S == {m \in 0..N : \E g : Up(m, g)}
<1>1. 0 \in S
    <2>1. [n \in 0..0 |-> 0]
              = [n \in 0..0 |-> IF n = 0 THEN 0 ELSE [k \in 0..0 |-> 0][n - 1] + f[n]]
        OBVIOUS
    <2>2. \E g : Up(0, g)
        BY <2>1
    <2>3. 0 \in 0..N
        OBVIOUS
    <2> QED
        BY <2>2, <2>3
<1>2. ASSUME NEW m \in 0..N, m \in S, m < N
      PROVE  m + 1 \in S
    <2>1. PICK g : Up(m, g)
        BY <1>2
    <2> DEFINE h == [n \in 0..(m + 1) |-> IF n = m + 1 THEN g[m] + f[m + 1] ELSE g[n]]
    <2>2. Up(m + 1, h)
        <3>1. \A n \in 0..(m + 1) : h[n] = IF n = 0 THEN 0 ELSE h[n - 1] + f[n]
            <4> TAKE n \in 0..(m + 1)
            <4>1. CASE n = 0
                BY <4>1, <2>1
            <4>2. CASE n = m + 1
                BY <4>2
            <4>3. CASE n \in 1..m
                <5>1. n - 1 \in 0..m /\ n \in 0..m
                    BY <4>3
                <5>2. h[n] = g[n] /\ h[n - 1] = g[n - 1]
                    BY <5>1, <4>3
                <5>3. g[n] = IF n = 0 THEN 0 ELSE g[n - 1] + f[n]
                    BY <5>1, <2>1
                <5> QED
                    BY <5>2, <5>3, <4>3
            <4> QED
                BY <4>1, <4>2, <4>3
        <3> HIDE DEF h
        <3>2. h = [n \in 0..(m + 1) |-> h[n]]
            BY DEF h
        <3> QED
            BY <3>1, <3>2
    <2>3. m + 1 \in 0..N
        BY <1>2
    <2> QED
        BY <2>2, <2>3
<1>3. N \in S
    <2> HIDE DEF S
    <2>1. \A n \in 0..N : n \in S /\ n < N => n + 1 \in S
        BY <1>2
    <2>2. 0..N \subseteq S /\ N \in 0..N
        BY <1>1, <2>1, CountedUp
    <2> QED
        BY <2>2
<1>4. \E g : Up(N, g)
    BY <1>3
<1>5. PartialSums(f) = CHOOSE g : Up(N, g)
    BY DEF PartialSums
<1> QED
    BY <1>4, <1>5

\* Numbers have a sum that is a number.
Numbers(f, N) == N \in Nat /\ Len(f) = N /\ \A k \in 1..N : f[k] \in Int

LEMMA SumsAreNumbers ==
    ASSUME NEW f, NEW N, Numbers(f, N)
    PROVE  /\ PartialSums(f)[0] = 0
           /\ \A n \in 0..N : PartialSums(f)[n] \in Int
           /\ \A n \in 1..N : PartialSums(f)[n] = PartialSums(f)[n - 1] + f[n]
           /\ SumOf(f) = PartialSums(f)[N] /\ SumOf(f) \in Int
<1> PICK sum : sum = PartialSums(f)
    OBVIOUS
<1>1. N \in Nat /\ \A k \in 1..N : f[k] \in Int
    BY DEF Numbers
<1>2. sum = [n \in 0..N |-> IF n = 0 THEN 0 ELSE sum[n - 1] + f[n]]
    BY SumsExist DEF Numbers
<1>3. sum[0] = 0 /\ \A n \in 1..N : sum[n] = sum[n - 1] + f[n]
    BY <1>1, <1>2
<1> DEFINE S == {n \in 0..N : sum[n] \in Int}
<1>4. 0..N \subseteq S
    <2>1. 0 \in S
        BY <1>1, <1>3
    <2>2. ASSUME NEW n \in 0..N, n \in S, n < N
          PROVE  n + 1 \in S
        <3>1. n + 1 \in 1..N /\ (n + 1) - 1 = n
            BY <1>1, <2>2
        <3>2. sum[n + 1] = sum[n] + f[n + 1] /\ f[n + 1] \in Int
            BY <3>1, <1>3, <1>1
        <3> QED
            BY <3>1, <3>2, <2>2
    <2> HIDE DEF S
    <2> QED
        BY <2>1, <2>2, <1>1, CountedUp
<1>5. SumOf(f) = sum[N] /\ N \in 0..N
    BY <1>1 DEF SumOf, Numbers
<1> QED
    BY <1>3, <1>4, <1>5

\* Two sequences that agree up to some position have the same sums up to there.
LEMMA SumsAgree ==
    ASSUME NEW f, NEW N, Numbers(f, N), NEW g, NEW M, Numbers(g, M),
           NEW m \in 0..N, m <= M, \A k \in 1..m : f[k] = g[k]
    PROVE  PartialSums(f)[m] = PartialSums(g)[m]
<1> DEFINE S == {n \in 0..m : PartialSums(f)[n] = PartialSums(g)[n]}
<1>1. N \in Nat /\ M \in Nat
    BY DEF Numbers
<1>2. 0 \in S
    BY <1>1, SumsAreNumbers
<1>3. ASSUME NEW n \in 0..m, n \in S, n < m
      PROVE  n + 1 \in S
    <2>1. n + 1 \in 1..m /\ n + 1 \in 1..N /\ n + 1 \in 1..M /\ (n + 1) - 1 = n
        BY <1>1, <1>3
    <2>2. PartialSums(f)[n + 1] = PartialSums(f)[n] + f[n + 1]
        BY <2>1, SumsAreNumbers
    <2>3. PartialSums(g)[n + 1] = PartialSums(g)[n] + g[n + 1]
        BY <2>1, SumsAreNumbers
    <2> QED
        BY <2>1, <2>2, <2>3, <1>3
<1> HIDE DEF S
<1>4. 0..m \subseteq S /\ m \in 0..m
    BY <1>1, <1>2, <1>3, CountedUp
<1> QED
    BY <1>4 DEF S

\* One number more adds itself.
LEMMA SumOfOneMore ==
    ASSUME NEW f, NEW N, Numbers(f, N), NEW g, Numbers(g, N + 1),
           \A k \in 1..N : g[k] = f[k]
    PROVE  SumOf(g) = SumOf(f) + g[N + 1]
<1>1. N \in Nat /\ N \in 0..N /\ N <= N + 1 /\ N + 1 \in 1..(N + 1) /\ (N + 1) - 1 = N
    BY DEF Numbers
<1>2. PartialSums(f)[N] = PartialSums(g)[N]
    BY <1>1, SumsAgree
<1>3. SumOf(g) = PartialSums(g)[N + 1] /\ SumOf(f) = PartialSums(f)[N]
    BY SumsAreNumbers
<1>4. PartialSums(g)[N + 1] = PartialSums(g)[N] + g[N + 1]
    BY <1>1, SumsAreNumbers
<1> QED
    BY <1>2, <1>3, <1>4

\* Replacing one number changes the sum by the difference.
LEMMA SumOfChange ==
    ASSUME NEW f, NEW N, Numbers(f, N), NEW g, Numbers(g, N), NEW c \in 1..N,
           \A k \in (1..N) \ {c} : g[k] = f[k]
    PROVE  SumOf(g) = SumOf(f) + g[c] - f[c]
<1>1. N \in Nat /\ f[c] \in Int /\ g[c] \in Int
    BY DEF Numbers
<1> DEFINE OldSum(n) == PartialSums(f)[n]
           NewSum(n) == PartialSums(g)[n]
           S == {n \in 0..N : NewSum(n) = OldSum(n) + IF n < c THEN 0 ELSE g[c] - f[c]}
<1>2. 0 \in S
    BY <1>1, SumsAreNumbers
<1>3. ASSUME NEW n \in 0..N, n \in S, n < N
      PROVE  n + 1 \in S
    <2>1. n + 1 \in 1..N /\ (n + 1) - 1 = n /\ n + 1 \in 0..N
        BY <1>1, <1>3
    <2>2. /\ OldSum(n + 1) = OldSum(n) + f[n + 1]
          /\ NewSum(n + 1) = NewSum(n) + g[n + 1]
        BY <2>1, SumsAreNumbers
    <2>3. OldSum(n) \in Int /\ NewSum(n) \in Int /\ f[n + 1] \in Int /\ g[n + 1] \in Int
        BY <2>1, SumsAreNumbers DEF Numbers
    <2>4. NewSum(n) = OldSum(n) + IF n < c THEN 0 ELSE g[c] - f[c]
        BY <1>3
    <2>5. n + 1 # c => g[n + 1] = f[n + 1]
        BY <2>1
    <2> HIDE DEF OldSum, NewSum
    <2>6. NewSum(n + 1) = OldSum(n + 1) + IF n + 1 < c THEN 0 ELSE g[c] - f[c]
        BY <2>2, <2>3, <2>4, <2>5, <1>1
    <2> QED
        BY <2>1, <2>6
<1>4. 0..N \subseteq S /\ N \in 0..N
    <2> HIDE DEF S
    <2> QED
        BY <1>1, <1>2, <1>3, CountedUp
<1>5. NewSum(N) = OldSum(N) + (g[c] - f[c])
    BY <1>4, <1>1
<1>6. SumOf(f) = OldSum(N) /\ SumOf(g) = NewSum(N) /\ OldSum(N) \in Int
    BY SumsAreNumbers
<1> HIDE DEF OldSum, NewSum
<1> QED
    BY <1>1, <1>5, <1>6

\* Nothing adds up to nothing.
LEMMA SumOfZeros ==
    ASSUME NEW f, NEW N, Numbers(f, N), \A k \in 1..N : f[k] = 0
    PROVE  SumOf(f) = 0
<1> DEFINE S == {n \in 0..N : PartialSums(f)[n] = 0}
<1>1. N \in Nat
    BY DEF Numbers
<1>2. 0 \in S
    BY <1>1, SumsAreNumbers
<1>3. ASSUME NEW n \in 0..N, n \in S, n < N
      PROVE  n + 1 \in S
    <2>1. n + 1 \in 1..N /\ (n + 1) - 1 = n /\ n + 1 \in 0..N
        BY <1>1, <1>3
    <2>2. PartialSums(f)[n + 1] = PartialSums(f)[n] + f[n + 1]
        BY <2>1, SumsAreNumbers
    <2> QED
        BY <2>1, <2>2, <1>3
<1>4. 0..N \subseteq S /\ N \in 0..N
    <2> HIDE DEF S
    <2> QED
        BY <1>1, <1>2, <1>3, CountedUp
<1> QED
    BY <1>4, SumsAreNumbers

-----------------------------------------------------------------------------
(* The comparison of two arms *)

\* The rounds of the loop are what their recursion says.
LEMMA RoundsExist ==
    ASSUME NEW s, NEW N \in Nat, Len(s) = N
    PROVE  Rounds(s) = [n \in 0..N |-> IF n = 0 THEN NoAttempts
                                       ELSE Account(Rounds(s)[n - 1], s[n])]
<1> DEFINE Up(m, g) ==
               g = [n \in 0..m |-> IF n = 0 THEN NoAttempts ELSE Account(g[n - 1], s[n])]
           S == {m \in 0..N : \E g : Up(m, g)}
<1>1. 0 \in S
    <2>1. [n \in 0..0 |-> NoAttempts]
              = [n \in 0..0 |-> IF n = 0 THEN NoAttempts
                                ELSE Account([k \in 0..0 |-> NoAttempts][n - 1], s[n])]
        OBVIOUS
    <2>2. \E g : Up(0, g)
        BY <2>1
    <2>3. 0 \in 0..N
        OBVIOUS
    <2> QED
        BY <2>2, <2>3
<1>2. ASSUME NEW m \in 0..N, m \in S, m < N
      PROVE  m + 1 \in S
    <2>1. PICK g : Up(m, g)
        BY <1>2
    <2> DEFINE h == [n \in 0..(m + 1) |-> IF n = m + 1 THEN Account(g[m], s[m + 1]) ELSE g[n]]
    <2>2. Up(m + 1, h)
        <3>1. \A n \in 0..(m + 1) : h[n] = IF n = 0 THEN NoAttempts
                                           ELSE Account(h[n - 1], s[n])
            <4> TAKE n \in 0..(m + 1)
            <4>1. CASE n = 0
                BY <4>1, <2>1
            <4>2. CASE n = m + 1
                <5>1. h[n] = Account(g[m], s[m + 1]) /\ h[n - 1] = g[m] /\ n # 0
                    BY <4>2
                <5> QED
                    BY <5>1, <4>2
            <4>3. CASE n \in 1..m
                <5>1. n - 1 \in 0..m /\ n \in 0..m /\ n # 0
                    BY <4>3
                <5>2. h[n] = g[n] /\ h[n - 1] = g[n - 1]
                    BY <5>1, <4>3
                <5>3. g[n] = IF n = 0 THEN NoAttempts ELSE Account(g[n - 1], s[n])
                    BY <5>1, <2>1
                <5> QED
                    BY <5>1, <5>2, <5>3
            <4> QED
                BY <4>1, <4>2, <4>3
        <3> HIDE DEF h
        <3>2. h = [n \in 0..(m + 1) |-> h[n]]
            BY DEF h
        <3> QED
            BY <3>1, <3>2
    <2>3. m + 1 \in 0..N
        BY <1>2
    <2> QED
        BY <2>2, <2>3
<1>3. N \in S
    <2> HIDE DEF S
    <2>1. \A n \in 0..N : n \in S /\ n < N => n + 1 \in S
        BY <1>2
    <2>2. 0..N \subseteq S /\ N \in 0..N
        BY <1>1, <2>1, CountedUp
    <2> QED
        BY <2>2
<1>4. \E g : Up(N, g)
    BY <1>3
<1>5. Rounds(s) = CHOOSE g : Up(N, g)
    BY DEF Rounds
<1> QED
    BY <1>4, <1>5

\* An arm without attempts, and an arm with one attempt more.
LEMMA ArmOfNone == SummarizeArm(<< >>) = NoAttempts
<1>1. Len(<< >>) = 0 /\ 0 \in Nat /\ 0 \in 0..0
    OBVIOUS
<1>2. Rounds(<< >>) = [n \in 0..0 |-> IF n = 0 THEN NoAttempts
                                      ELSE Account(Rounds(<< >>)[n - 1], << >>[n])]
    BY <1>1, RoundsExist
<1>3. Rounds(<< >>)[0] = NoAttempts
    BY <1>1, <1>2
<1> QED
    BY <1>1, <1>3 DEF SummarizeArm

\* One attempt more is one round more.
LEMMA ArmOfOneMore ==
    ASSUME NEW s, NEW N \in Nat, Len(s) = N,
           NEW r, Len(r) = N + 1, \A n \in 1..N : r[n] = s[n]
    PROVE  SummarizeArm(r) = Account(SummarizeArm(s), r[N + 1])
<1>1. /\ N + 1 \in Nat /\ N \in 0..N /\ N + 1 \in 0..(N + 1) /\ (N + 1) - 1 = N /\ N + 1 # 0
      /\ N \in 0..(N + 1)
    OBVIOUS
<1> PICK arm : arm = Rounds(s)
    OBVIOUS
<1> PICK new : new = Rounds(r)
    OBVIOUS
<1>2. arm = [n \in 0..N |-> IF n = 0 THEN NoAttempts ELSE Account(arm[n - 1], s[n])]
    BY RoundsExist
<1>3. new = [n \in 0..(N + 1) |-> IF n = 0 THEN NoAttempts ELSE Account(new[n - 1], r[n])]
    BY <1>1, RoundsExist
<1> DEFINE S == {n \in 0..N : new[n] = arm[n]}
<1>4. 0 \in S
    <2>1. arm[0] = NoAttempts /\ new[0] = NoAttempts
        BY <1>2, <1>3
    <2> QED
        BY <2>1
<1>5. ASSUME NEW n \in 0..N, n \in S, n < N
      PROVE  n + 1 \in S
    <2>1. /\ n + 1 \in 1..N /\ n + 1 \in 0..N /\ (n + 1) - 1 = n /\ n + 1 # 0
          /\ n + 1 \in 0..(N + 1)
        BY <1>5
    <2>2. arm[n + 1] = Account(arm[n], s[n + 1])
        BY <2>1, <1>2
    <2>3. new[n + 1] = Account(new[n], r[n + 1])
        BY <2>1, <1>3
    <2>4. r[n + 1] = s[n + 1] /\ new[n] = arm[n]
        BY <2>1, <1>5
    <2> QED
        BY <2>1, <2>2, <2>3, <2>4
<1>6. new[N] = arm[N]
    <2> HIDE DEF S
    <2>1. 0..N \subseteq S
        BY <1>4, <1>5, CountedUp
    <2> QED
        BY <2>1, <1>1 DEF S
<1>7. new[N + 1] = Account(new[N], r[N + 1])
    BY <1>1, <1>3
<1> QED
    BY <1>6, <1>7 DEF SummarizeArm

\* The parts of an attempt.
LEMMA AttemptParts ==
    ASSUME NEW a \in Attempt
    PROVE  a.score \in Nat /\ a.task \in Task /\ a.valid \in BOOLEAN
<1>1. 0 \in 0..MaxScore /\ 0..MaxScore \subseteq Nat
    BY InputsAssumption
<1> QED
    BY <1>1 DEF Attempt

\* The scores of the valid attempts at a task.
Scores(t, attempts) == {a.score : a \in {b \in ToSet(attempts) : b.task = t /\ b.valid}}

\* The best score of a task is the least of its scores.
LEMMA ScoresAreNumbers ==
    ASSUME NEW s \in Seq(Attempt), NEW t
    PROVE  /\ Scores(t, s) \subseteq Nat
           /\ BestScore(t, s) = IF Scores(t, s) = {} THEN NoScore ELSE Min(Scores(t, s))
           /\ BestScore(t, s) \in Nat \union {NoScore}
           /\ BestScore(t, s) = NoScore <=> Scores(t, s) = {}
<1>1. ToSet(s) \subseteq Attempt
    BY LenProperties, ElementOfSeq DEF ToSet
<1>2. \A a \in Attempt : a.score \in Nat
    BY AttemptParts
<1>3. Scores(t, s) \subseteq Nat
    BY <1>1, <1>2 DEF Scores
<1>4. BestScore(t, s) = IF Scores(t, s) = {} THEN NoScore ELSE Min(Scores(t, s))
    BY DEF BestScore, Scores
<1>5. Scores(t, s) # {} => Min(Scores(t, s)) \in Nat
    BY <1>3, LeastOf
<1> QED
    BY <1>3, <1>4, <1>5, FiguresAssumption

\* A valid attempt at the task adds its score.
LEMMA ScoresOfOneMore ==
    ASSUME NEW s \in Seq(Attempt), NEW a \in Attempt, NEW t
    PROVE  Scores(t, Append(s, a))
               = IF a.task = t /\ a.valid THEN Scores(t, s) \union {a.score}
                 ELSE Scores(t, s)
<1> PICK r : r = Append(s, a)
    OBVIOUS
<1>1. /\ Len(s) \in Nat /\ DOMAIN s = 1..Len(s)
      /\ DOMAIN r = 1..(Len(s) + 1) /\ r[Len(s) + 1] = a
      /\ \A i \in 1..Len(s) : r[i] = s[i]
    <2>1. r \in Seq(Attempt) /\ Len(r) = Len(s) + 1
        BY AppendProperties
    <2> QED
        BY <2>1, LenProperties, AppendProperties
<1>2. ToSet(r) = ToSet(s) \union {a}
    <2>1. \A i \in DOMAIN r : r[i] \in ToSet(s) \union {a}
        BY <1>1 DEF ToSet
    <2>2. ASSUME NEW x \in ToSet(s)
          PROVE  x \in ToSet(r)
        <3>1. PICK i \in 1..Len(s) : x = s[i]
            BY <1>1 DEF ToSet
        <3>2. i \in DOMAIN r /\ r[i] = x
            BY <3>1, <1>1
        <3> QED
            BY <3>2 DEF ToSet
    <2>3. a \in ToSet(r)
        <3>1. Len(s) + 1 \in DOMAIN r
            BY <1>1
        <3> QED
            BY <3>1, <1>1 DEF ToSet
    <2> QED
        BY <2>1, <2>2, <2>3 DEF ToSet
<1> QED
    BY <1>2, Zenon DEF Scores

\* A new attempt replaces the best score of its task if it is valid and better.
Better(t, s, a) ==
    /\ a.task = t /\ a.valid
    /\ BestScore(t, s) = NoScore \/ a.score < BestScore(t, s)

\* One number more is the least, or the least stays.
LEMMA LeastOfOneMore ==
    ASSUME NEW S, S \subseteq Nat, S # {}, NEW x \in Nat
    PROVE  Min(S \union {x}) = IF x < Min(S) THEN x ELSE Min(S)
<1> PICK T : T = S \union {x}
    OBVIOUS
<1>1. Min(S) \in S /\ \A n \in S : Min(S) <= n
    BY LeastOf
<1>2. T \subseteq Nat /\ T # {}
    OBVIOUS
<1>3. Min(T) \in T /\ \A n \in T : Min(T) <= n
    BY <1>2, LeastOf
<1>4. \A n \in S : n \in T
    OBVIOUS
<1>5. x \in T /\ (Min(T) = x \/ Min(T) \in S)
    BY <1>3
<1>6. /\ Min(T) \in Nat /\ Min(S) \in Nat /\ Min(T) <= Min(S) /\ Min(T) <= x
      /\ (Min(T) = x \/ Min(S) <= Min(T))
    BY <1>1, <1>2, <1>3, <1>4, <1>5
<1> QED
    BY <1>6

\* The best score changes when an attempt is better.
LEMMA BestOfOneMore ==
    ASSUME NEW s \in Seq(Attempt), NEW a \in Attempt, NEW t
    PROVE  BestScore(t, Append(s, a)) = IF Better(t, s, a) THEN a.score ELSE BestScore(t, s)
<1> PICK S : S = Scores(t, s)
    OBVIOUS
<1> PICK T : T = Scores(t, Append(s, a))
    OBVIOUS
<1>1. a.score \in Nat /\ Append(s, a) \in Seq(Attempt)
    BY AttemptParts, AppendProperties
<1>2. /\ S \subseteq Nat /\ BestScore(t, s) = (IF S = {} THEN NoScore ELSE Min(S))
      /\ BestScore(t, Append(s, a)) = (IF T = {} THEN NoScore ELSE Min(T))
      /\ T = IF a.task = t /\ a.valid THEN S \union {a.score} ELSE S
    BY <1>1, ScoresAreNumbers, ScoresOfOneMore
<1>3. CASE ~ (a.task = t /\ a.valid)
    BY <1>2, <1>3 DEF Better
<1>4. CASE a.task = t /\ a.valid /\ S = {}
    <2>1. T = {a.score}
        BY <1>2, <1>4
    <2>2. Min(T) = a.score
        <3>1. T \subseteq Nat /\ T # {}
            BY <2>1, <1>1
        <3> QED
            BY <3>1, <2>1, LeastOf
    <2> QED
        BY <2>1, <2>2, <1>2, <1>4 DEF Better
<1>5. CASE a.task = t /\ a.valid /\ S # {}
    <2>1. Min(T) = IF a.score < Min(S) THEN a.score ELSE Min(S)
        BY <1>1, <1>2, <1>5, LeastOfOneMore
    <2>2. Min(S) # NoScore
        BY <1>2, <1>5, LeastOf, FiguresAssumption
    <2> QED
        BY <2>1, <2>2, <1>2, <1>5 DEF Better
<1> QED
    BY <1>3, <1>4, <1>5

\* Qualities are numbers.
LEMMA QualityIsANumber ==
    ASSUME NEW t \in DOMAIN Target, NEW score \in Nat \union {NoScore}
    PROVE  Quality(t, score) \in Int
<1>1. Target[t] \in Int \union {NoTarget} /\ Scale \in Int
    BY FiguresAssumption
<1>2. CASE score = NoScore
    BY <1>2 DEF Quality
<1>3. CASE score # NoScore /\ Target[t] = NoTarget
    BY <1>1, <1>3 DEF Quality
<1>4. CASE score # NoScore /\ Target[t] # NoTarget /\ score <= 0
    BY <1>4 DEF Quality
<1>5. CASE score # NoScore /\ Target[t] # NoTarget /\ ~ (score <= 0)
    <2> PICK product : product = Scale * Target[t]
        OBVIOUS
    <2>1. product \in Int
        BY <1>1, <1>5
    <2> PICK x : x = product \div score
        OBVIOUS
    <2>2. x \in Int
        BY <2>1, <1>5
    <2>3. Quality(t, score) = Min({Scale, x})
        BY <1>5 DEF Quality
    <2>4. \E y \in {Scale, x} : \A z \in {Scale, x} : y <= z
        BY <2>2, <1>1
    <2>5. Min({Scale, x}) \in {Scale, x}
        BY <2>4 DEF Min
    <2> QED
        BY <2>2, <2>3, <2>5, <1>1
<1> QED
    BY <1>2, <1>3, <1>4, <1>5

\* The qualities of the best scores after some attempts.
Qualities(s) == [t \in DOMAIN Target |-> Quality(t, BestScore(t, s))]

\* The quality of the report is a sum of numbers.
LEMMA QualitiesAreNumbers ==
    ASSUME NEW s \in Seq(Attempt)
    PROVE  /\ Numbers(Qualities(s), Len(Target))
           /\ NormalizedQuality(s) = SumOf(Qualities(s)) /\ NormalizedQuality(s) \in Int
           /\ DOMAIN Target = 1..Len(Target)
<1>1. Len(Target) \in Nat /\ DOMAIN Target = 1..Len(Target)
    BY FiguresAssumption
<1>2. \A t \in DOMAIN Target : Quality(t, BestScore(t, s)) \in Int
    BY ScoresAreNumbers, QualityIsANumber
<1>3. Numbers(Qualities(s), Len(Target))
    BY <1>1, <1>2 DEF Numbers, Qualities
<1>4. NormalizedQuality(s) = SumOf(Qualities(s))
    BY DEF NormalizedQuality, Qualities
<1> QED
    BY <1>1, <1>3, <1>4, SumsAreNumbers

\* What an attempt does to the quality of the report.
LEMMA QualityOfOneMore ==
    ASSUME NEW s \in Seq(Attempt), NEW a \in Attempt
    PROVE  NormalizedQuality(Append(s, a))
               = IF Better(a.task, s, a)
                 THEN NormalizedQuality(s) + Quality(a.task, a.score)
                          - Quality(a.task, BestScore(a.task, s))
                 ELSE NormalizedQuality(s)
<1> PICK r : r = Append(s, a)
    OBVIOUS
<1> PICK u : u = a.task
    OBVIOUS
<1>1. r \in Seq(Attempt) /\ u \in Task /\ u \in DOMAIN Target
    BY AttemptParts, AppendProperties, InputsAssumption
<1>2. \A t \in DOMAIN Target :
          Qualities(r)[t] = Quality(t, IF Better(t, s, a) THEN a.score ELSE BestScore(t, s))
    BY BestOfOneMore DEF Qualities
<1>3. \A t \in DOMAIN Target : Qualities(s)[t] = Quality(t, BestScore(t, s))
    BY DEF Qualities
<1>4. \A t \in (DOMAIN Target) \ {u} : ~ Better(t, s, a)
    BY DEF Better
<1>5. \A t \in (DOMAIN Target) \ {u} : Qualities(r)[t] = Qualities(s)[t]
    BY <1>2, <1>3, <1>4
<1>6. SumOf(Qualities(r)) = SumOf(Qualities(s)) + Qualities(r)[u] - Qualities(s)[u]
    <2>1. DOMAIN Target = 1..Len(Target)
        BY QualitiesAreNumbers
    <2>2. Numbers(Qualities(r), Len(Target)) /\ Numbers(Qualities(s), Len(Target))
        BY <1>1, QualitiesAreNumbers
    <2>3. u \in 1..Len(Target) /\ \A t \in (1..Len(Target)) \ {u} :
                                       Qualities(r)[t] = Qualities(s)[t]
        BY <2>1, <1>1, <1>5
    <2> QED
        BY <2>2, <2>3, SumOfChange
<1>7. /\ NormalizedQuality(r) = SumOf(Qualities(r)) /\ NormalizedQuality(s) \in Int
      /\ NormalizedQuality(s) = SumOf(Qualities(s))
    BY <1>1, QualitiesAreNumbers
<1>8. Quality(u, BestScore(u, s)) \in Int
    BY <1>1, ScoresAreNumbers, QualityIsANumber
<1>9. CASE Better(u, s, a)
    <2>1. Qualities(r)[u] = Quality(u, a.score) /\ Qualities(s)[u] = Quality(u, BestScore(u, s))
        BY <1>1, <1>2, <1>3, <1>9
    <2>2. NormalizedQuality(r)
              = NormalizedQuality(s) + Quality(u, a.score) - Quality(u, BestScore(u, s))
        BY <2>1, <1>6, <1>7
    <2> QED
        BY <2>2, <1>9
<1>10. CASE ~ Better(u, s, a)
    <2>1. Qualities(r)[u] = Quality(u, BestScore(u, s))
          /\ Qualities(s)[u] = Quality(u, BestScore(u, s))
        BY <1>1, <1>2, <1>3, <1>10
    <2>2. NormalizedQuality(r) = NormalizedQuality(s)
        BY <2>1, <1>6, <1>7, <1>8
    <2> QED
        BY <2>2, <1>10
<1> QED
    BY <1>9, <1>10

\* The quality of the report after each attempt.
Curve(s) == [n \in DOMAIN s |-> NormalizedQuality(SubSeq(s, 1, n))]

\* One attempt more leaves the earlier prefixes as they are.
LEMMA PrefixesOfOneMore ==
    ASSUME NEW s \in Seq(Attempt), NEW a \in Attempt
    PROVE  /\ \A n \in 1..Len(s) : SubSeq(Append(s, a), 1, n) = SubSeq(s, 1, n)
           /\ SubSeq(Append(s, a), 1, Len(s) + 1) = Append(s, a)
           /\ \A n \in 1..Len(s) : SubSeq(s, 1, n) \in Seq(Attempt)
<1>1. /\ Append(s, a) \in Seq(Attempt) /\ Append(s, a) = s \o <<a>> /\ <<a>> \in Seq(Attempt)
      /\ Len(Append(s, a)) = Len(s) + 1 /\ Len(s) \in Nat
    BY AppendProperties, AppendIsConcat, LenProperties
<1>2. \A n \in 1..Len(s) : SubSeq(s \o <<a>>, 1, n) = SubSeq(s, 1, n)
    <2> TAKE n \in 1..Len(s)
    <2>1. 1 \in 1..Len(s)
        BY <1>1
    <2> QED
        BY <2>1, <1>1, SubSeqOfConcat1
<1>3. SubSeq(Append(s, a), 1, Len(Append(s, a))) = Append(s, a)
    BY <1>1, SubSeqFull
<1>4. \A n \in 1..Len(s) : SubSeq(s, 1, n) \in Seq(Attempt)
    <2> TAKE n \in 1..Len(s)
    <2>1. n \in Int /\ 1 \in Int /\ \A i \in 1..n : s[i] \in Attempt
        BY <1>1, ElementOfSeq
    <2> QED
        BY <2>1, SubSeqProperties
<1> QED
    BY <1>1, <1>2, <1>3, <1>4, Zenon

\* One attempt more adds its quality to the area.
LEMMA CurveOfOneMore ==
    ASSUME NEW s \in Seq(Attempt), NEW a \in Attempt
    PROVE  /\ Numbers(Curve(s), Len(s))
           /\ SumOf(Curve(Append(s, a)))
                  = SumOf(Curve(s)) + NormalizedQuality(Append(s, a))
<1> PICK r : r = Append(s, a)
    OBVIOUS
<1> PICK N : N = Len(s)
    OBVIOUS
<1>1. /\ N \in Nat /\ DOMAIN s = 1..N /\ r \in Seq(Attempt) /\ DOMAIN r = 1..(N + 1)
    BY AppendProperties, LenProperties
<1>2. /\ \A n \in 1..N : SubSeq(r, 1, n) = SubSeq(s, 1, n) /\ SubSeq(s, 1, n) \in Seq(Attempt)
      /\ SubSeq(r, 1, N + 1) = r
    BY PrefixesOfOneMore
<1>3. /\ \A n \in 1..N : NormalizedQuality(SubSeq(s, 1, n)) \in Int
      /\ NormalizedQuality(r) \in Int
    BY <1>1, <1>2, QualitiesAreNumbers
<1> PICK f : f = Curve(s)
    OBVIOUS
<1> PICK g : g = Curve(r)
    OBVIOUS
<1>4. f = [n \in 1..N |-> NormalizedQuality(SubSeq(s, 1, n))]
    BY <1>1, Zenon DEF Curve
<1>5. g = [n \in 1..(N + 1) |-> NormalizedQuality(SubSeq(r, 1, n))]
    BY <1>1, Zenon DEF Curve
<1>6. /\ \A n \in 1..N : n \in 1..(N + 1)
      /\ N + 1 \in 1..(N + 1) /\ \A n \in 1..(N + 1) : n \in 1..N \/ n = N + 1
    BY <1>1
<1>7. \A n \in 1..N : f[n] \in Int /\ g[n] = f[n]
    BY <1>2, <1>3, <1>4, <1>5, <1>6, Zenon
<1>8. g[N + 1] = NormalizedQuality(r)
    BY <1>2, <1>5, <1>6, Zenon
<1>9. Len(f) = N
    BY <1>1, <1>4
<1>10. Len(g) = N + 1
    BY <1>1, <1>5
<1>11. Numbers(f, N)
    BY <1>1, <1>7, <1>9 DEF Numbers
<1>12. Numbers(g, N + 1)
    <2>1. \A n \in 1..(N + 1) : g[n] \in Int
        BY <1>3, <1>6, <1>7, <1>8
    <2> QED
        BY <2>1, <1>1, <1>10 DEF Numbers
<1>13. SumOf(g) = SumOf(f) + g[N + 1]
    BY <1>7, <1>11, <1>12, SumOfOneMore
<1> QED
    BY <1>8, <1>11, <1>13

\* What the loop carries along is what the report computes from scratch.
FiguresAgree(s) ==
    /\ SummarizeArm(s).best = [t \in DOMAIN Target |-> BestScore(t, s)]
    /\ SummarizeArm(s).total = NormalizedQuality(s)
    /\ SummarizeArm(s).sum = SumOf(Curve(s))

\* The figures agree before the first attempt.
LEMMA FiguresOfNone == FiguresAgree(<< >>)
<1>1. \A t : BestScore(t, << >>) = NoScore
    BY DEF BestScore, ToSet
<1>2. << >> \in Seq(Attempt)
    OBVIOUS
<1>3. NormalizedQuality(<< >>) = 0
    <2>1. \A t \in DOMAIN Target : Qualities(<< >>)[t] = 0
        BY <1>1 DEF Qualities, Quality
    <2> QED
        BY <2>1, <1>2, QualitiesAreNumbers, SumOfZeros
<1>4. SumOf(Curve(<< >>)) = 0
    <2> PICK f : f = Curve(<< >>)
        OBVIOUS
    <2>1. Len(f) = 0 /\ 0 \in Nat
        BY DEF Curve
    <2>2. Numbers(f, 0) /\ \A k \in 1..0 : f[k] = 0
        BY <2>1 DEF Numbers
    <2> QED
        BY <2>2, SumOfZeros
<1> QED
    BY <1>1, <1>3, <1>4, ArmOfNone DEF FiguresAgree, NoAttempts

\* One attempt more leaves the figures in agreement.
LEMMA FiguresOfOneMore ==
    ASSUME NEW s \in Seq(Attempt), FiguresAgree(s), NEW a \in Attempt
    PROVE  FiguresAgree(Append(s, a))
<1> PICK r : r = Append(s, a)
    OBVIOUS
<1> PICK arm : arm = SummarizeArm(s)
    OBVIOUS
<1> PICK u : u = a.task
    OBVIOUS
<1>1. SummarizeArm(r) = Account(arm, a)
    <2>N. PICK N : N = Len(s)
        OBVIOUS
    <2>1. N \in Nat /\ Len(r) = N + 1 /\ r[N + 1] = a /\ \A n \in 1..N : r[n] = s[n]
        BY <2>N, AppendProperties, LenProperties
    <2>2. SummarizeArm(r) = Account(SummarizeArm(s), r[N + 1])
        BY <2>1, <2>N, ArmOfOneMore, Zenon
    <2> QED
        BY <2>1, <2>2
<1>2. /\ arm.best = [t \in DOMAIN Target |-> BestScore(t, s)]
      /\ arm.total = NormalizedQuality(s) /\ arm.sum = SumOf(Curve(s))
    BY DEF FiguresAgree
<1>3. u \in DOMAIN Target
    BY AttemptParts, InputsAssumption
<1>4. Improves(arm, a) <=> Better(u, s, a)
    BY <1>2, <1>3 DEF Improves, Better
<1>5. NormalizedQuality(r) = IF Improves(arm, a) THEN TotalAfter(arm, a) ELSE arm.total
    <2>1. arm.best[u] = BestScore(u, s)
        BY <1>2, <1>3
    <2>2. TotalAfter(arm, a) = NormalizedQuality(s) + Quality(u, a.score)
                                   - Quality(u, BestScore(u, s))
        BY <2>1, <1>2 DEF TotalAfter
    <2> QED
        BY <2>2, <1>2, <1>4, QualityOfOneMore
<1>6. SumOf(Curve(r)) = arm.sum + NormalizedQuality(r)
    BY <1>2, CurveOfOneMore
<1>7. [t \in DOMAIN Target |-> BestScore(t, r)]
          = IF Improves(arm, a) THEN [arm.best EXCEPT ![u] = a.score] ELSE arm.best
    <2>1. \A t \in DOMAIN Target :
              BestScore(t, r) = IF Better(t, s, a) THEN a.score ELSE BestScore(t, s)
        BY BestOfOneMore
    <2>2. \A t \in DOMAIN Target : Better(t, s, a) <=> t = u /\ Improves(arm, a)
        BY <1>4 DEF Better
    <2> QED
        BY <2>1, <2>2, <1>2
<1>8. /\ Account(arm, a).best = IF Improves(arm, a) THEN [arm.best EXCEPT ![u] = a.score]
                                ELSE arm.best
      /\ Account(arm, a).total = IF Improves(arm, a) THEN TotalAfter(arm, a) ELSE arm.total
      /\ Account(arm, a).sum
             = arm.sum + IF Improves(arm, a) THEN TotalAfter(arm, a) ELSE arm.total
    BY DEF Account
<1> QED
    BY <1>1, <1>5, <1>6, <1>7, <1>8 DEF FiguresAgree

-----------------------------------------------------------------------------
(* The validators *)

\* An assignment of colors to any nodes is accepted if it is a coloring.
LEMMA ColoringsAccepted ==
    ASSUME input \in ColoringTasks,
           NEW d, NEW C, NEW value \in [d -> C]
    PROVE  ValidateColoring(input, value).valid <=> IsColoring(value)
<1> DEFINE colored == {n \in ToSet(input.nodes) \intersect DOMAIN value : value[n] # NoColor}
           clash == \E e \in input.edges : /\ {e[1], e[2]} \subseteq colored
                                           /\ value[e[1]] = value[e[2]]
<1>1. ToSet(input.nodes) = Nodes /\ \A e \in input.edges : e[1] \in Nodes /\ e[2] \in Nodes
    <2>1. input.nodes \in NodeOrders /\ input.edges \in SUBSET Pairs
        BY DEF ColoringTasks
    <2> QED
        BY <2>1, TasksAssumption DEF Pairs
<1>2. ValidateColoring(input, value).valid
          <=> ~ (colored # Nodes \/ DOMAIN value \ Nodes # {} \/ clash)
    BY <1>1 DEF ValidateColoring, Verdict
<1>3. DOMAIN value = d /\ ToSet(value) = {value[n] : n \in d}
    BY DEF ToSet
<1>4. ASSUME colored = Nodes, DOMAIN value \ Nodes = {}, ~ clash
      PROVE  IsColoring(value)
    <2>1. DOMAIN value = Nodes /\ NoColor \notin ToSet(value)
        BY <1>1, <1>3, <1>4
    <2> QED
        BY <2>1, <1>1, <1>4 DEF IsColoring
<1>5. ASSUME IsColoring(value)
      PROVE  colored = Nodes /\ DOMAIN value \ Nodes = {} /\ ~ clash
    <2>1. DOMAIN value = Nodes /\ \A n \in Nodes : value[n] # NoColor
        BY <1>3, <1>5 DEF IsColoring
    <2> QED
        BY <2>1, <1>1, <1>5 DEF IsColoring
<1> QED
    BY <1>2, <1>4, <1>5

\* A selection is accepted if it is a cover.
LEMMA CoversAccepted ==
    ASSUME input \in CoverTasks, NEW value
    PROVE  ValidateCover(input, value).valid <=> IsCover(value)
<1> PICK S : S = ToSet(value)
    OBVIOUS
<1>1. DOMAIN input.members = Sets
    BY DEF CoverTasks
<1>2. ValidateCover(input, value).valid
          <=> /\ Cardinality(S) = Len(value) /\ S \subseteq Sets
              /\ input.universe # {}
              /\ input.universe \subseteq UNION {input.members[s] : s \in S \intersect Sets}
    BY <1>1 DEF ValidateCover, Verdict, Covered
<1>3. IsCover(value)
          <=> /\ S \subseteq Sets /\ Len(value) = Cardinality(S) /\ input.universe # {}
              /\ input.universe \subseteq UNION {input.members[s] : s \in S}
    BY Zenon DEF IsCover
<1>4. S \subseteq Sets => S \intersect Sets = S
    OBVIOUS
<1> QED
    BY <1>2, <1>3, <1>4, Zenon

\* A finite set has more than one element if it has two.
LEMMA MoreThanOne ==
    ASSUME NEW S, IsFiniteSet(S)
    PROVE  Cardinality(S) > 1 <=> \E x, y \in S : x # y
<1>1. Cardinality(S) \in Nat
    BY FS_CardinalityType
<1>2. Cardinality(S) = 0 <=> S = {}
    BY FS_EmptySet
<1>3. Cardinality(S) = 1 <=> \E x : S = {x}
    BY FS_Singleton
<1>4. Cardinality(S) > 1 <=> ~ (S = {} \/ \E x : S = {x})
    BY <1>1, <1>2, <1>3
<1>5. (\E x, y \in S : x # y) <=> ~ (S = {} \/ \E x : S = {x})
    <2>1. ASSUME ~ (S = {} \/ \E x : S = {x})
          PROVE  \E x, y \in S : x # y
        <3>1. PICK x \in S : TRUE
            BY <2>1
        <3>2. S # {x}
            BY <2>1
        <3> QED
            BY <3>1, <3>2
    <2> QED
        BY <2>1
<1> QED
    BY <1>4, <1>5

\* The length of a list is the number of its items if no item is in it twice.
LEMMA NoItemTwice ==
    ASSUME NEW T, NEW s \in Seq(T)
    PROVE  Len(s) = Cardinality(ToSet(s)) <=> IsInjective(s)
<1>1. Len(s) \in Nat /\ DOMAIN s = 1..Len(s) /\ s \in [1..Len(s) -> T]
    BY LenProperties
<1>2. IsFiniteSet(1..Len(s)) /\ Cardinality(1..Len(s)) = Len(s)
    <2>1. 1 \in Int /\ Len(s) \in Int
        BY <1>1
    <2>2. /\ IsFiniteSet(1..Len(s))
          /\ Cardinality(1..Len(s)) = IF 1 > Len(s) THEN 0 ELSE Len(s) - 1 + 1
        BY <2>1, FS_Interval
    <2> QED
        BY <2>2, <1>1
<1>3. s \in Surjection(1..Len(s), ToSet(s))
    BY <1>1 DEF Surjection, ToSet
<1>4. Cardinality(ToSet(s)) = Cardinality(1..Len(s)) <=> s \in Injection(1..Len(s), ToSet(s))
    BY <1>2, <1>3, FS_Surjection
<1>5. s \in Injection(1..Len(s), ToSet(s)) <=> IsInjective(s)
    <2>1. s \in [1..Len(s) -> ToSet(s)]
        BY <1>3 DEF Surjection
    <2> QED
        BY <2>1, <1>1 DEF Injection, IsInjective
<1> QED
    BY <1>2, <1>4, <1>5

\* What some items weigh, one by one.
Weights(S) == [i \in Items |-> IF i \in S THEN input.weight[i] ELSE 0]

LEMMA WeightsAreNumbers ==
    ASSUME input \in PackingTasks, NEW S
    PROVE  Numbers(Weights(S), ItemCount) /\ Weight(S) = SumOf(Weights(S))
<1>1. ItemCount \in Nat /\ \A i \in Items : input.weight[i] \in Int
    <2>1. input.weight \in [Items -> 1..MaxWeight]
        BY DEF PackingTasks
    <2> QED
        BY <2>1, TasksAssumption
<1>2. Len(Weights(S)) = ItemCount
    BY <1>1 DEF Weights, Items
<1>3. \A i \in 1..ItemCount : Weights(S)[i] \in Int
    BY <1>1 DEF Weights, Items
<1> QED
    BY <1>1, <1>2, <1>3 DEF Numbers, Weight, Weights

\* A bin that holds items of the task, none of them twice, weighs what its items weigh.
LEMMA BinWeighsItsItems ==
    ASSUME input \in PackingTasks,
           NEW bin \in Seq(Items \union {Unknown}), ToSet(bin) \subseteq Items, IsInjective(bin)
    PROVE  BinWeight(input, bin) = Weight(ToSet(bin))
<1> PICK N : N = Len(bin)
    OBVIOUS
<1> PICK f : f = [k \in DOMAIN bin |-> IF bin[k] \in DOMAIN input.weight
                                       THEN input.weight[bin[k]] ELSE 0]
    OBVIOUS
<1>1. N \in Nat /\ DOMAIN bin = 1..N
    BY LenProperties
<1>2. /\ \A k \in 1..N : bin[k] \in Items
      /\ DOMAIN input.weight = Items /\ \A i \in Items : input.weight[i] \in Int
    <2>1. input.weight \in [Items -> 1..MaxWeight]
        BY DEF PackingTasks
    <2> QED
        BY <2>1, <1>1, TasksAssumption DEF ToSet
<1>3. f = [k \in 1..N |-> input.weight[bin[k]]]
    BY <1>1, <1>2
<1>4. Numbers(f, N)
    <2>1. Len(f) = N
        BY <1>1, <1>3
    <2>2. \A k \in 1..N : f[k] \in Int
        BY <1>2, <1>3
    <2> QED
        BY <2>1, <2>2, <1>1 DEF Numbers
<1>5. BinWeight(input, bin) = SumOf(f)
    BY DEF BinWeight
<1> DEFINE P(m) == {bin[k] : k \in 1..m}
           S == {m \in 0..N : PartialSums(f)[m] = SumOf(Weights(P(m)))}
<1>6. 0 \in S
    <2>1. Numbers(Weights(P(0)), ItemCount)
        BY WeightsAreNumbers
    <2>2. \A i \in 1..ItemCount : Weights(P(0))[i] = 0
        BY DEF Weights, Items
    <2>3. SumOf(Weights(P(0))) = 0
        BY <2>1, <2>2, SumOfZeros
    <2>4. PartialSums(f)[0] = 0 /\ 0 \in 0..N
        BY <1>1, <1>4, SumsAreNumbers
    <2> QED
        BY <2>3, <2>4
<1>7. ASSUME NEW m \in 0..N, m \in S, m < N
      PROVE  m + 1 \in S
    <2>1. m + 1 \in 1..N /\ (m + 1) - 1 = m /\ m + 1 \in 0..N
        BY <1>1, <1>7
    <2> PICK c : c = bin[m + 1]
        OBVIOUS
    <2> PICK old : old = Weights(P(m))
        OBVIOUS
    <2> PICK new : new = Weights(P(m + 1))
        OBVIOUS
    <2>2. Numbers(old, ItemCount) /\ Numbers(new, ItemCount) /\ c \in 1..ItemCount
        BY WeightsAreNumbers, <2>1, <1>2 DEF Items
    <2>3. c \notin P(m)
        <3>1. ASSUME NEW k \in 1..m, c = bin[k]
              PROVE  FALSE
            <4>1. k \in DOMAIN bin /\ m + 1 \in DOMAIN bin /\ k # m + 1
                BY <1>1, <2>1
            <4> QED
                BY <4>1, <3>1 DEF IsInjective
        <3> QED
            BY <3>1
    <2>4. P(m + 1) = P(m) \union {c}
        <3>1. 1..(m + 1) = (1..m) \union {m + 1}
            BY <2>1
        <3> QED
            BY <3>1
    <2>5. old[c] = 0 /\ new[c] = input.weight[c]
        BY <2>2, <2>3, <2>4 DEF Weights, Items
    <2>6. \A i \in (1..ItemCount) \ {c} : new[i] = old[i]
        BY <2>4 DEF Weights, Items
    <2>7. SumOf(new) = SumOf(old) + new[c] - old[c]
        <3> HIDE DEF S, P
        <3> QED
            BY <2>2, <2>6, SumOfChange
    <2>8. PartialSums(f)[m + 1] = PartialSums(f)[m] + f[m + 1] /\ f[m + 1] = input.weight[c]
        BY <2>1, <1>3, <1>4, SumsAreNumbers
    <2>9. SumOf(old) \in Int /\ input.weight[c] \in Int /\ PartialSums(f)[m] = SumOf(old)
        <3>1. SumOf(old) \in Int
            BY <2>2, SumsAreNumbers
        <3> QED
            BY <3>1, <1>2, <1>7, <2>2 DEF Items
    <2>10. PartialSums(f)[m + 1] = SumOf(new)
        BY <2>5, <2>7, <2>8, <2>9
    <2> QED
        BY <2>1, <2>10
<1>8. PartialSums(f)[N] = SumOf(Weights(P(N)))
    <2> HIDE DEF S
    <2>1. \A m \in 0..N : m \in S /\ m < N => m + 1 \in S
        BY <1>7
    <2>2. 0..N \subseteq S
        BY <1>1, <1>6, <2>1, CountedUp
    <2>3. N \in S
        BY <1>1, <2>2
    <2> QED
        BY <2>3 DEF S
<1>9. P(N) = ToSet(bin)
    BY <1>1 DEF ToSet
<1>10. SumOf(f) = PartialSums(f)[N]
    BY <1>4, SumsAreNumbers
<1> QED
    BY <1>5, <1>8, <1>9, <1>10, WeightsAreNumbers

\* There are finitely many places in some bins.
LEMMA PlacesAreFinite ==
    ASSUME NEW n \in Nat, NEW bins \in [1..n -> Seq(Items \union {Unknown})]
    PROVE  IsFiniteSet(Places(bins))
<1> PICK Rows : Rows = {{k} \X DOMAIN bins[k] : k \in DOMAIN bins}
    OBVIOUS
<1>1. IsFiniteSet(1..n) /\ DOMAIN bins = 1..n
    BY FS_Interval
<1>2. IsFiniteSet(Rows)
    <2> PICK row : row = [k \in 1..n |-> {k} \X DOMAIN bins[k]]
        OBVIOUS
    <2>1. row \in Surjection(1..n, Rows)
        BY <1>1 DEF Surjection
    <2> QED
        BY <2>1, <1>1, FS_Surjection
<1>3. ASSUME NEW R \in Rows
      PROVE  IsFiniteSet(R)
    <2>1. PICK k \in 1..n : R = {k} \X DOMAIN bins[k]
        BY <1>1
    <2>2. bins[k] \in Seq(Items \union {Unknown})
        OBVIOUS
    <2>3. DOMAIN bins[k] = 1..Len(bins[k]) /\ 1 \in Int /\ Len(bins[k]) \in Int
        BY <2>2, LenProperties
    <2>4. IsFiniteSet(DOMAIN bins[k])
        BY <2>3, FS_Interval
    <2>5. IsFiniteSet({k})
        BY FS_Singleton
    <2> QED
        BY <2>1, <2>4, <2>5, FS_Product
<1>4. Places(bins) = UNION Rows
    BY Zenon DEF Places
<1> QED
    BY <1>2, <1>3, <1>4, FS_UNION

\* What the validator asks of the places, and what the problem asks of the bins.
PackedOnce(bins) ==
    /\ \A p \in Places(bins) : bins[p[1]][p[2]] \in Items
    /\ \A i \in Items : \E p \in Places(bins) : bins[p[1]][p[2]] = i
    /\ \A p, q \in Places(bins) : bins[p[1]][p[2]] = bins[q[1]][q[2]] => p = q

InOneBin(bins) ==
    /\ \A i \in Items : Cardinality({k \in DOMAIN bins : i \in ToSet(bins[k])}) = 1
    /\ \A k \in DOMAIN bins : /\ ToSet(bins[k]) \subseteq Items
                              /\ Len(bins[k]) = Cardinality(ToSet(bins[k]))

\* A place is a bin and a position in it.
LEMMA PlacesOfBins ==
    ASSUME NEW bins
    PROVE  /\ \A k \in DOMAIN bins : \A j \in DOMAIN bins[k] : <<k, j>> \in Places(bins)
           /\ \A p \in Places(bins) : /\ p[1] \in DOMAIN bins /\ p[2] \in DOMAIN bins[p[1]]
                                      /\ p = <<p[1], p[2]>>
<1>1. ASSUME NEW k \in DOMAIN bins, NEW j \in DOMAIN bins[k]
      PROVE  <<k, j>> \in Places(bins)
    <2>1. <<k, j>> \in {k} \X DOMAIN bins[k]
        OBVIOUS
    <2> QED
        BY <2>1 DEF Places
<1>2. ASSUME NEW p \in Places(bins)
      PROVE  p[1] \in DOMAIN bins /\ p[2] \in DOMAIN bins[p[1]] /\ p = <<p[1], p[2]>>
    <2>1. PICK k \in DOMAIN bins : p \in {k} \X DOMAIN bins[k]
        BY DEF Places
    <2> QED
        BY <2>1
<1> QED
    BY <1>1, <1>2

\* The validator and the problem ask the same.
LEMMA PackedOnceInOneBin ==
    ASSUME NEW n \in Nat, NEW bins \in [1..n -> Seq(Items \union {Unknown})]
    PROVE  PackedOnce(bins) <=> InOneBin(bins)
<1>1. /\ \A k \in 1..n : \A j \in DOMAIN bins[k] : <<k, j>> \in Places(bins)
      /\ \A p \in Places(bins) : /\ p[1] \in 1..n /\ p[2] \in DOMAIN bins[p[1]]
                                 /\ p = <<p[1], p[2]>>
    BY PlacesOfBins
<1>2. \A k \in 1..n :
          Len(bins[k]) = Cardinality(ToSet(bins[k])) <=> IsInjective(bins[k])
    BY NoItemTwice
<1>3. \A k \in 1..n : \A i : i \in ToSet(bins[k]) <=> \E j \in DOMAIN bins[k] : bins[k][j] = i
    BY DEF ToSet
<1>4. ASSUME PackedOnce(bins)
      PROVE  InOneBin(bins)
    <2>1. ASSUME NEW i \in Items
          PROVE  Cardinality({k \in DOMAIN bins : i \in ToSet(bins[k])}) = 1
        <3>1. PICK p \in Places(bins) : bins[p[1]][p[2]] = i
            BY <1>4 DEF PackedOnce
        <3>2. p[1] \in 1..n /\ i \in ToSet(bins[p[1]])
            BY <3>1, <1>1, <1>3
        <3>3. ASSUME NEW k \in 1..n, i \in ToSet(bins[k])
              PROVE  k = p[1]
            <4>1. PICK j \in DOMAIN bins[k] : bins[k][j] = i
                BY <3>3, <1>3
            <4> PICK q : q = <<k, j>>
                OBVIOUS
            <4>2. q \in Places(bins) /\ q[1] = k /\ q[2] = j
                BY <1>1
            <4>3. q = p
                BY <4>1, <4>2, <3>1, <1>4 DEF PackedOnce
            <4> QED
                BY <4>2, <4>3
        <3>4. {k \in DOMAIN bins : i \in ToSet(bins[k])} = {p[1]}
            BY <3>2, <3>3
        <3> QED
            BY <3>4, FS_Singleton
    <2>2. ASSUME NEW k \in 1..n
          PROVE  ToSet(bins[k]) \subseteq Items /\ Len(bins[k]) = Cardinality(ToSet(bins[k]))
        <3>1. \A j \in DOMAIN bins[k] : bins[k][j] \in Items
            <4> TAKE j \in DOMAIN bins[k]
            <4> PICK q : q = <<k, j>>
                OBVIOUS
            <4>1. q \in Places(bins) /\ q[1] = k /\ q[2] = j
                BY <1>1
            <4> QED
                BY <4>1, <1>4 DEF PackedOnce
        <3>2. IsInjective(bins[k])
            <4> SUFFICES ASSUME NEW i \in DOMAIN bins[k], NEW j \in DOMAIN bins[k],
                                bins[k][i] = bins[k][j]
                         PROVE  i = j
                BY DEF IsInjective
            <4> PICK p : p = <<k, i>>
                OBVIOUS
            <4> PICK q : q = <<k, j>>
                OBVIOUS
            <4>1. /\ p \in Places(bins) /\ p[1] = k /\ p[2] = i
                  /\ q \in Places(bins) /\ q[1] = k /\ q[2] = j
                BY <1>1
            <4>2. p = q
                BY <4>1, <1>4 DEF PackedOnce
            <4> QED
                BY <4>1, <4>2
        <3>3. ToSet(bins[k]) \subseteq Items
            BY <3>1 DEF ToSet
        <3>4. Len(bins[k]) = Cardinality(ToSet(bins[k]))
            BY <3>2, <1>2, Zenon
        <3> QED
            BY <3>3, <3>4
    <2> QED
        BY <2>1, <2>2 DEF InOneBin
<1>5. ASSUME InOneBin(bins)
      PROVE  PackedOnce(bins)
    <2>1. \A k \in 1..n : ToSet(bins[k]) \subseteq Items /\ IsInjective(bins[k])
        BY <1>2, <1>5 DEF InOneBin
    <2>2. ASSUME NEW i \in Items
          PROVE  \E k \in 1..n : /\ i \in ToSet(bins[k])
                                 /\ \A l \in 1..n : i \in ToSet(bins[l]) => l = k
        <3> PICK In : In = {k \in DOMAIN bins : i \in ToSet(bins[k])}
            OBVIOUS
        <3>1. IsFiniteSet(In)
            <4>1. IsFiniteSet(1..n) /\ In \in SUBSET (1..n)
                BY FS_Interval
            <4> QED
                BY <4>1, FS_Subset
        <3>2. Cardinality(In) = 1
            BY <1>5, Zenon DEF InOneBin
        <3>3. PICK k : In = {k}
            BY <3>1, <3>2, FS_Singleton
        <3>4. \A l : l \in In <=> l \in 1..n /\ i \in ToSet(bins[l])
            OBVIOUS
        <3>5. \A l : l \in In <=> l = k
            BY <3>3
        <3>6. k \in 1..n /\ i \in ToSet(bins[k])
            BY <3>4, <3>5, Zenon
        <3>7. \A l \in 1..n : i \in ToSet(bins[l]) => l = k
            BY <3>4, <3>5, Zenon
        <3> QED
            BY <3>6, <3>7, Zenon
    <2>3. ASSUME NEW p \in Places(bins)
          PROVE  bins[p[1]][p[2]] \in Items /\ bins[p[1]][p[2]] \in ToSet(bins[p[1]])
        BY <1>1, <1>3, <2>1
    <2>4. ASSUME NEW i \in Items
          PROVE  \E p \in Places(bins) : bins[p[1]][p[2]] = i
        <3>1. PICK k \in 1..n : i \in ToSet(bins[k])
            BY <2>2
        <3>2. PICK j \in DOMAIN bins[k] : bins[k][j] = i
            BY <3>1, <1>3
        <3> PICK q : q = <<k, j>>
            OBVIOUS
        <3>3. q \in Places(bins) /\ q[1] = k /\ q[2] = j
            BY <1>1
        <3> QED
            BY <3>2, <3>3
    <2>5. ASSUME NEW p \in Places(bins), NEW q \in Places(bins),
                 bins[p[1]][p[2]] = bins[q[1]][q[2]]
          PROVE  p = q
        <3>1. p[1] \in 1..n /\ q[1] \in 1..n
            BY <1>1
        <3>2. p[1] = q[1]
            BY <2>2, <2>3, <2>5, <3>1
        <3>3. p[2] = q[2]
            <4>1. IsInjective(bins[p[1]])
                BY <2>1, <3>1
            <4>2. p[2] \in DOMAIN bins[p[1]] /\ q[2] \in DOMAIN bins[p[1]]
                BY <1>1, <3>2
            <4> QED
                BY <4>1, <4>2, <2>5, <3>2 DEF IsInjective
        <3> QED
            BY <1>1, <3>2, <3>3, Zenon
    <2> QED
        BY <2>3, <2>4, <2>5 DEF PackedOnce
<1> QED
    BY <1>4, <1>5

\* Some bins are accepted if they are a packing.
LEMMA PackingsAccepted ==
    ASSUME input \in PackingTasks,
           NEW n \in Nat, NEW bins \in [1..n -> Seq(Items \union {Unknown})]
    PROVE  ValidatePacking(input, bins).valid <=> IsPacking(bins)
<1> DEFINE Item(p) == bins[p[1]][p[2]]
           packed == {Item(p) : p \in Places(bins)}
           At(i) == {p \in Places(bins) : Item(p) = i}
           Light == \A k \in DOMAIN bins : ~ (BinWeight(input, bins[k]) > input.capacity)
<1>1. DOMAIN input.weight = Items /\ input.capacity \in Int
    BY TasksAssumption DEF PackingTasks
<1>2. \A i : IsFiniteSet(At(i))
    BY PlacesAreFinite, FS_Subset, \A i : At(i) \in SUBSET Places(bins)
<1>3. \A i : Cardinality(At(i)) > 1 <=> \E p, q \in At(i) : p # q
    <2> TAKE i
    <2> PICK S : S = At(i)
        OBVIOUS
    <2>1. IsFiniteSet(S)
        BY <1>2
    <2>2. Cardinality(S) > 1 <=> \E p, q \in S : p # q
        <3> HIDE DEF At
        <3> QED
            BY <2>1, MoreThanOne
    <2> QED
        BY <2>2
<1>4. ValidatePacking(input, bins).valid
          <=> packed = Items /\ (\A i \in packed : ~ (Cardinality(At(i)) > 1)) /\ Light
    BY <1>1, Zenon DEF ValidatePacking, Verdict
<1>5. packed = Items /\ (\A i \in packed : ~ (Cardinality(At(i)) > 1)) <=> PackedOnce(bins)
    <2>1. (\A i \in packed : ~ (Cardinality(At(i)) > 1))
              <=> \A p, q \in Places(bins) : Item(p) = Item(q) => p = q
        <3>1. (\A i \in packed : ~ (Cardinality(At(i)) > 1))
                  <=> (\A i \in packed : ~ \E p, q \in At(i) : p # q)
            <4> HIDE DEF At, packed
            <4> QED
                BY <1>3, Zenon
        <3>2. (\A i \in packed : ~ \E p, q \in At(i) : p # q)
                  <=> \A p, q \in Places(bins) : Item(p) = Item(q) => p = q
            OBVIOUS
        <3> QED
            BY <3>1, <3>2, Zenon
    <2>2. packed = Items <=> /\ \A p \in Places(bins) : Item(p) \in Items
                             /\ \A i \in Items : \E p \in Places(bins) : Item(p) = i
        OBVIOUS
    <2> QED
        BY <2>1, <2>2 DEF PackedOnce
<1>6. IsPacking(bins) <=> InOneBin(bins) /\ \A k \in DOMAIN bins :
                                               Weight(ToSet(bins[k])) <= input.capacity
    BY DEF IsPacking, InOneBin
<1>7. ASSUME InOneBin(bins), NEW k \in DOMAIN bins
      PROVE  /\ BinWeight(input, bins[k]) = Weight(ToSet(bins[k]))
             /\ Weight(ToSet(bins[k])) \in Int
    <2>1. /\ bins[k] \in Seq(Items \union {Unknown}) /\ ToSet(bins[k]) \subseteq Items
          /\ Len(bins[k]) = Cardinality(ToSet(bins[k]))
        BY <1>7 DEF InOneBin
    <2>2. IsInjective(bins[k])
        BY <2>1, NoItemTwice
    <2>3. Weight(ToSet(bins[k])) \in Int
        BY WeightsAreNumbers, SumsAreNumbers
    <2> QED
        BY <2>1, <2>2, <2>3, BinWeighsItsItems
<1>8. ASSUME InOneBin(bins)
      PROVE  Light <=> \A k \in DOMAIN bins : Weight(ToSet(bins[k])) <= input.capacity
    <2>1. \A k \in DOMAIN bins : ~ (BinWeight(input, bins[k]) > input.capacity)
                                 <=> Weight(ToSet(bins[k])) <= input.capacity
        <3> TAKE k \in DOMAIN bins
        <3> PICK w : w = Weight(ToSet(bins[k]))
            OBVIOUS
        <3>1. BinWeight(input, bins[k]) = w /\ w \in Int
            BY <1>7, <1>8
        <3> QED
            BY <3>1, <1>1
    <2> QED
        BY <2>1
<1> HIDE DEF packed, Light, At
<1> QED
    BY <1>4, <1>5, <1>6, <1>8, PackedOnceInOneBin

\* For every candidate the validators decide as the problems do.
LEMMA CandidatesDecided ==
    ASSUME input \in ColoringTasks \union CoverTasks \union PackingTasks, NEW c \in Candidates
    PROVE  Validate(input, c).valid <=> IsSolution(c.value)
<1>1. CASE input \in ColoringTasks
    <2>1. input.family = "graph-coloring"
        BY <1>1 DEF ColoringTasks
    <2>2. Candidates = [key : {"assignments"},
                        value : UNION {[d -> Color \union {NoColor}] :
                                           d \in SUBSET (Nodes \union {Unknown})}]
        BY <2>1 DEF Candidates
    <2>3. c.key = "assignments" /\ \E d : c.value \in [d -> Color \union {NoColor}]
        BY <2>2
    <2>4. Validate(input, c) = ValidateColoring(input, c.value)
        BY <2>1, <2>3 DEF Validate
    <2>5. IsSolution(c.value) <=> IsColoring(c.value)
        BY <2>1 DEF IsSolution
    <2>6. ValidateColoring(input, c.value).valid <=> IsColoring(c.value)
        BY <1>1, <2>3, ColoringsAccepted
    <2> QED
        BY <2>4, <2>5, <2>6
<1>2. CASE input \in CoverTasks
    <2>1. input.family = "set-cover"
        BY <1>2 DEF CoverTasks
    <2>2. Candidates = [key : {"selected_sets"},
                        value : SeqsUpTo(Sets \union {Unknown}, MaxPicks)]
        BY <2>1 DEF Candidates
    <2>3. c.key = "selected_sets"
        BY <2>2
    <2>4. Validate(input, c) = ValidateCover(input, c.value)
        BY <2>1, <2>3 DEF Validate
    <2>5. IsSolution(c.value) <=> IsCover(c.value)
        BY <2>1 DEF IsSolution
    <2> QED
        BY <1>2, <2>4, <2>5, CoversAccepted
<1>3. CASE input \in PackingTasks
    <2>1. input.family = "bin-packing"
        BY <1>3 DEF PackingTasks
    <2>2. Candidates = [key : {"bins"}, value : SeqsUpTo(Bin, MaxPicks)]
        BY <2>1 DEF Candidates
    <2>3. c.key = "bins" /\ c.value \in SeqsUpTo(Bin, MaxPicks)
        BY <2>2
    <2>4. PICK n \in Nat : c.value \in [1..n -> Seq(Items \union {Unknown})]
        <3>1. PICK n \in 0..MaxPicks : c.value \in [1..n -> Bin]
            BY <2>3 DEF SeqsUpTo
        <3>2. n \in Nat /\ Bin \subseteq Seq(Items \union {Unknown})
            BY TasksAssumption
        <3> QED
            BY <3>1, <3>2
    <2>5. Validate(input, c) = ValidatePacking(input, c.value)
        BY <2>1, <2>3 DEF Validate
    <2>6. IsSolution(c.value) <=> IsPacking(c.value)
        BY <2>1 DEF IsSolution
    <2> QED
        BY <1>3, <2>4, <2>5, <2>6, PackingsAccepted
<1> QED
    BY <1>1, <1>2, <1>3

-----------------------------------------------------------------------------
(* The offline worker: what comes first *)

\* The rounds of the heuristics are what their recursions say.
LEMMA ColorRoundsExist ==
    ASSUME NEW task, NEW informed, NEW N \in Nat, Len(task.nodes) = N
    PROVE  /\ ColorRounds(task, informed)[0] = << >>
           /\ \A k \in 1..N :
                  ColorRounds(task, informed)[k]
                      = ColorNext(task, informed, ColorRounds(task, informed)[k - 1])
<1> DEFINE Round(k, g) == IF k = 0 THEN << >> ELSE ColorNext(task, informed, g[k - 1])
           Up(m, g) == g = [k \in 0..m |-> Round(k, g)]
           S == {m \in 0..N : \E g : Up(m, g)}
<1>1. 0 \in S
    <2>1. Up(0, [k \in 0..0 |-> << >>])
        OBVIOUS
    <2>2. \E g : Up(0, g)
        BY <2>1, Zenon
    <2>3. 0 \in 0..N
        OBVIOUS
    <2> QED
        BY <2>2, <2>3
<1>2. ASSUME NEW m \in 0..N, m \in S, m < N
      PROVE  m + 1 \in S
    <2>1. PICK g : Up(m, g)
        BY <1>2
    <2> PICK last : last = ColorNext(task, informed, g[m])
        OBVIOUS
    <2> DEFINE h == [k \in 0..(m + 1) |-> IF k = m + 1 THEN last ELSE g[k]]
    <2>2. \A k \in 0..(m + 1) : h[k] = Round(k, h)
        <3> TAKE k \in 0..(m + 1)
        <3>1. CASE k = 0
            BY <3>1, <2>1
        <3>2. CASE k = m + 1
            <4>1. h[k] = last /\ h[k - 1] = g[m] /\ k # 0
                BY <3>2
            <4> QED
                BY <4>1
        <3>3. CASE k \in 1..m
            <4>1. k - 1 \in 0..m /\ k \in 0..m /\ k # 0
                BY <3>3
            <4>2. h[k] = g[k] /\ h[k - 1] = g[k - 1]
                BY <4>1, <3>3
            <4>3. g[k] = Round(k, g)
                BY <4>1, <2>1
            <4> QED
                BY <4>1, <4>2, <4>3
        <3> QED
            BY <3>1, <3>2, <3>3
    <2>3. Up(m + 1, h)
        <3>1. h = [k \in 0..(m + 1) |-> h[k]]
            OBVIOUS
        <3> HIDE DEF h, Round
        <3> QED
            BY <2>2, <3>1
    <2>4. m + 1 \in 0..N
        BY <1>2
    <2> HIDE DEF Up, h
    <2> QED
        BY <2>3, <2>4
<1>3. N \in S
    <2> HIDE DEF S
    <2>1. \A m \in 0..N : m \in S /\ m < N => m + 1 \in S
        BY <1>2
    <2>2. 0..N \subseteq S /\ N \in 0..N
        BY <1>1, <2>1, CountedUp
    <2> QED
        BY <2>2
<1>4. \E g : Up(N, g)
    BY <1>3
<1>5. ColorRounds(task, informed) = CHOOSE g : Up(N, g)
    BY DEF ColorRounds
<1> PICK g : g = ColorRounds(task, informed)
    OBVIOUS
<1>6. g = [k \in 0..N |-> Round(k, g)]
    BY <1>4, <1>5
<1>7. 0 \in 0..N /\ \A k \in 1..N : k \in 0..N /\ k # 0
    OBVIOUS
<1>8. g[0] = Round(0, g) /\ \A k \in 1..N : g[k] = Round(k, g)
    <2> HIDE DEF Round
    <2> QED
        BY <1>6, <1>7
<1> QED
    BY <1>7, <1>8

\* Of some items of a list there is one that comes before the others.
LEMMA FirstInList ==
    ASSUME NEW T, NEW list \in Seq(T), NEW S, S \subseteq ToSet(list), S # {}
    PROVE  \E x \in S : \A y \in S \ {x} : Earlier(list, x, y)
<1> PICK N : N = Len(list)
    OBVIOUS
<1> PICK At : At = {k \in 1..N : list[k] \in S}
    OBVIOUS
<1>1. N \in Nat /\ DOMAIN list = 1..N
    BY LenProperties
<1>2. \A x \in S : \E k \in At : list[k] = x
    BY <1>1 DEF ToSet
<1>3. At \subseteq Nat /\ At # {}
    BY <1>2
<1>4. Min(At) \in At /\ \A k \in At : Min(At) <= k
    BY <1>3, LeastOf
<1> PICK m : m = Min(At)
    OBVIOUS
<1>5. m \in 1..N /\ list[m] \in S
    BY <1>4
<1>6. ASSUME NEW y \in S \ {list[m]}
      PROVE  Earlier(list, list[m], y)
    <2>1. PICK k \in At : list[k] = y
        BY <1>2
    <2>2. m <= k /\ m # k /\ k \in 1..N
        BY <2>1, <1>4
    <2>3. m < k
        BY <2>2, <1>5
    <2> QED
        BY <2>1, <2>2, <2>3, <1>1, <1>5 DEF Earlier
<1> QED
    BY <1>5, <1>6

\* Of some numbered things there is one that is greater than the others, or equal to some
\* but with a lower number.
LEMMA FirstByKey ==
    ASSUME NEW S, S \subseteq Nat, S # {}, NEW bound \in Nat, NEW key \in [S -> 0..bound]
    PROVE  \E x \in S : \A y \in S \ {x} : key[x] > key[y] \/ (key[x] = key[y] /\ x < y)
<1> PICK K : K = {key[x] : x \in S}
    OBVIOUS
<1>1. K \subseteq 0..bound /\ K # {}
    OBVIOUS
<1>2. Max(K) \in K /\ \A k \in K : k <= Max(K)
    BY <1>1, GreatestOf
<1> PICK T : T = {x \in S : key[x] = Max(K)}
    OBVIOUS
<1>3. T \subseteq Nat /\ T # {} /\ T \subseteq S
    BY <1>2
<1>4. Min(T) \in T /\ \A x \in T : Min(T) <= x
    BY <1>3, LeastOf
<1> PICK m : m = Min(T)
    OBVIOUS
<1>5. m \in S /\ m \in Nat /\ key[m] = Max(K)
    BY <1>3, <1>4
<1>6. ASSUME NEW y \in S \ {m}
      PROVE  key[m] > key[y] \/ (key[m] = key[y] /\ m < y)
    <2>1. key[y] <= key[m] /\ key[y] \in Int /\ key[m] \in Int /\ y \in Nat
        BY <1>2, <1>5
    <2>2. CASE key[y] = key[m]
        <3>1. y \in T
            BY <2>2, <1>5
        <3>2. m <= y /\ m # y
            BY <3>1, <1>4
        <3> QED
            BY <3>2, <2>1, <2>2, <1>5
    <2>3. CASE key[y] # key[m]
        BY <2>1, <2>3
    <2> QED
        BY <2>2, <2>3
<1> QED
    BY <1>5, <1>6

-----------------------------------------------------------------------------
(* The offline worker: colorings *)

\* The nodes next to a node, and how many they are.
LEMMA Neighbors ==
    ASSUME input \in ColoringTasks, NEW n
    PROVE  /\ Adjacent(input, n) \subseteq Nodes
           /\ \A m : m \in Adjacent(input, n)
                         <=> <<n, m>> \in input.edges \/ <<m, n>> \in input.edges
           /\ IsFiniteSet(Adjacent(input, n)) /\ Degree(input, n) \in 0..NodeCount
<1>1. \A e \in input.edges : e[1] \in Nodes /\ e[2] \in Nodes /\ e = <<e[1], e[2]>>
    BY DEF ColoringTasks, Pairs
<1>2. Adjacent(input, n) \subseteq Nodes
    BY <1>1 DEF Adjacent
<1>3. \A m : m \in Adjacent(input, n) <=> <<n, m>> \in input.edges \/ <<m, n>> \in input.edges
    <2>1. ASSUME NEW m, m \in Adjacent(input, n)
          PROVE  <<n, m>> \in input.edges \/ <<m, n>> \in input.edges
        <3>1. \/ \E e \in input.edges : e[1] = n /\ e[2] = m
              \/ \E e \in input.edges : e[2] = n /\ e[1] = m
            BY <2>1 DEF Adjacent
        <3> QED
            BY <3>1, <1>1
    <2>2. ASSUME NEW m, <<n, m>> \in input.edges \/ <<m, n>> \in input.edges
          PROVE  m \in Adjacent(input, n)
        <3>1. \/ \E e \in input.edges : e[1] = n /\ e[2] = m
              \/ \E e \in input.edges : e[2] = n /\ e[1] = m
            <4>1. /\ <<n, m>>[1] = n /\ <<n, m>>[2] = m
                  /\ <<m, n>>[1] = m /\ <<m, n>>[2] = n
                OBVIOUS
            <4> QED
                BY <4>1, <2>2, Zenon
        <3> QED
            BY <3>1 DEF Adjacent
    <2> QED
        BY <2>1, <2>2
<1>4. NodeCount \in Nat
    BY TasksAssumption
<1>5. IsFiniteSet(Nodes) /\ Cardinality(Nodes) = NodeCount
    BY <1>4, FS_Interval DEF Nodes
<1>6. IsFiniteSet(Adjacent(input, n)) /\ Cardinality(Adjacent(input, n)) <= NodeCount
    BY <1>2, <1>5, FS_Subset
<1> QED
    BY <1>2, <1>3, <1>4, <1>6, FS_CardinalityType DEF Degree

\* The node that comes first is one of those that are left.
LEMMA NextNodeIsLeft ==
    ASSUME input \in ColoringTasks, NEW informed \in BOOLEAN, NEW S, S \subseteq Nodes, S # {}
    PROVE  NextNode(input, informed, S) \in S
<1>1. S \subseteq Nat /\ NodeCount \in Nat
    BY TasksAssumption DEF Nodes
<1>2. CASE informed
    <2> PICK key : key = [n \in S |-> Degree(input, n)]
        OBVIOUS
    <2>1. \A n \in S : Degree(input, n) \in 0..NodeCount
        BY Neighbors
    <2>2. key \in [S -> 0..NodeCount]
        BY <2>1
    <2>3. \E x \in S : \A y \in S \ {x} : key[x] > key[y] \/ (key[x] = key[y] /\ x < y)
        <3> PICK N : N = NodeCount
            OBVIOUS
        <3>1. N \in Nat /\ S \subseteq Nat /\ S # {}
            BY <1>1
        <3>2. PICK f \in [S -> 0..N] : f = key
            BY <2>2
        <3>3. \E x \in S : \A y \in S \ {x} : f[x] > f[y] \/ (f[x] = f[y] /\ x < y)
            BY <3>1, FirstByKey
        <3> QED
            BY <3>2, <3>3
    <2>4. \E x \in S : \A y \in S \ {x} :
              \/ Degree(input, x) > Degree(input, y)
              \/ Degree(input, x) = Degree(input, y) /\ x < y
        BY <2>3
    <2> QED
        BY <1>2, <2>4 DEF NextNode
<1>3. CASE ~ informed
    <2>1. input.nodes \in Seq(Nodes) /\ ToSet(input.nodes) = Nodes
        BY TasksAssumption DEF ColoringTasks
    <2>2. \E x \in S : \A y \in S \ {x} : Earlier(input.nodes, x, y)
        BY <2>1, FirstInList
    <2> QED
        BY <1>3, <2>2 DEF NextNode
<1> QED
    BY <1>2, <1>3

\* There is a free color among one more than are used.
LEMMA ColorIsFree ==
    ASSUME NEW used, IsFiniteSet(used)
    PROVE  FreeColor(used) \in 1..(Cardinality(used) + 1) /\ FreeColor(used) \notin used
<1> PICK n : n = Cardinality(used)
    OBVIOUS
<1>1. n \in Nat
    BY FS_CardinalityType
<1> PICK Free : Free = {c \in 1..(n + 1) : c \notin used}
    OBVIOUS
<1>2. Free # {}
    <2>1. ASSUME 1..(n + 1) \subseteq used
          PROVE  FALSE
        <3>1. Cardinality(1..(n + 1)) = n + 1
            <4>1. 1 \in Int /\ n + 1 \in Int /\ ~ (1 > n + 1) /\ (n + 1) - 1 + 1 = n + 1
                BY <1>1
            <4> QED
                BY <4>1, FS_Interval
        <3>2. Cardinality(1..(n + 1)) <= n
            BY <2>1, FS_Subset
        <3> QED
            BY <3>1, <3>2, <1>1
    <2> QED
        BY <2>1
<1>3. Free \subseteq Nat
    BY <1>1
<1>4. Min(Free) \in Free /\ \A c \in Free : Min(Free) <= c
    BY <1>2, <1>3, LeastOf
<1>5. \E c \in 1..(n + 1) : c \notin used /\ \A d \in 1..(c - 1) : d \in used
    <2> PICK c : c = Min(Free)
        OBVIOUS
    <2>1. c \in 1..(n + 1) /\ c \notin used
        BY <1>4
    <2>2. \A d \in 1..(c - 1) : d \in 1..(n + 1) /\ ~ (c <= d)
        BY <2>1, <1>1
    <2>3. \A d \in 1..(c - 1) : d \in used
        BY <2>2, <1>4
    <2> QED
        BY <2>1, <2>3
<1> QED
    BY <1>5 DEF FreeColor

\* After k rounds k nodes have colors: no edge joins two nodes of one color, and the color
\* of a node is at most one more than its neighbors are.
Colored(colors, k) ==
    /\ DOMAIN colors \subseteq Nodes /\ Cardinality(DOMAIN colors) = k
    /\ colors = [n \in DOMAIN colors |-> colors[n]]
    /\ \A n \in DOMAIN colors : colors[n] \in 1..(Degree(input, n) + 1)
    /\ \A m, n \in DOMAIN colors : m \in Adjacent(input, n) => colors[m] # colors[n]

\* A round colors one more node.
LEMMA ColoredNext ==
    ASSUME input \in ColoringTasks, NEW informed \in BOOLEAN,
           NEW k \in Nat, k < NodeCount, NEW colors, Colored(colors, k)
    PROVE  Colored(ColorNext(input, informed, colors), k + 1)
<1> PICK D : D = DOMAIN colors
    OBVIOUS
<1> PICK left : left = ToSet(input.nodes) \ D
    OBVIOUS
<1> PICK n : n = NextNode(input, informed, left)
    OBVIOUS
<1> PICK used : used = {colors[a] : a \in Adjacent(input, n) \intersect D}
    OBVIOUS
<1> PICK c : c = FreeColor(used)
    OBVIOUS
<1> PICK new : new = ColorNext(input, informed, colors)
    OBVIOUS
<1>1. /\ D \subseteq Nodes /\ Cardinality(D) = k
      /\ \A m \in D : colors[m] \in 1..(Degree(input, m) + 1)
      /\ \A m, l \in D : m \in Adjacent(input, l) => colors[m] # colors[l]
    BY DEF Colored
<1>2. NodeCount \in Nat /\ ToSet(input.nodes) = Nodes
    BY TasksAssumption DEF ColoringTasks
<1>3. IsFiniteSet(Nodes) /\ Cardinality(Nodes) = NodeCount
    BY <1>2, FS_Interval DEF Nodes
<1>4. IsFiniteSet(D)
    BY <1>1, <1>3, FS_Subset
<1>5. left # {} /\ left \subseteq Nodes
    <2>1. Nodes # D
        BY <1>1, <1>3
    <2> QED
        BY <2>1, <1>1, <1>2
<1>6. n \in Nodes /\ n \notin D
    <2>1. n \in left
        BY <1>5, NextNodeIsLeft
    <2> QED
        BY <2>1, <1>5
<1>7. new = [m \in D \union {n} |-> IF m = n THEN c ELSE colors[m]]
    BY DEF ColorNext
<1>8. c \in 1..(Degree(input, n) + 1) /\ c \notin used
    <2> PICK A : A = Adjacent(input, n) \intersect D
        OBVIOUS
    <2> PICK color : color = [a \in A |-> colors[a]]
        OBVIOUS
    <2>1. IsFiniteSet(Adjacent(input, n)) /\ A \in SUBSET Adjacent(input, n)
        BY Neighbors
    <2>2. IsFiniteSet(A) /\ Cardinality(A) <= Degree(input, n)
        BY <2>1, FS_Subset DEF Degree
    <2>3. color \in Surjection(A, used)
        BY DEF Surjection
    <2>4. IsFiniteSet(used) /\ Cardinality(used) <= Cardinality(A)
        BY <2>2, <2>3, FS_Surjection
    <2>5. c \in 1..(Cardinality(used) + 1) /\ c \notin used
        BY <2>4, ColorIsFree
    <2>6. Cardinality(used) \in Nat /\ Cardinality(A) \in Nat /\ Degree(input, n) \in Nat
        BY <2>2, <2>4, FS_CardinalityType, Neighbors
    <2> PICK x : x = Cardinality(used)
        OBVIOUS
    <2> PICK y : y = Cardinality(A)
        OBVIOUS
    <2> PICK z : z = Degree(input, n)
        OBVIOUS
    <2>7. x \in Nat /\ y \in Nat /\ z \in Nat /\ x <= y /\ y <= z /\ c \in 1..(x + 1)
        BY <2>2, <2>4, <2>5, <2>6, Zenon
    <2>8. c \in 1..(z + 1)
        BY <2>7
    <2> QED
        BY <2>5, <2>8
<1>9. Cardinality(D \union {n}) = k + 1
    BY <1>1, <1>4, <1>6, FS_AddElement
<1>10. \A m \in D \union {n} : new[m] \in 1..(Degree(input, m) + 1)
    BY <1>1, <1>7, <1>8
<1>11. \A m, l \in D \union {n} : m \in Adjacent(input, l) => new[m] # new[l]
    <2>1. \A a : a \in Adjacent(input, n) <=> n \in Adjacent(input, a)
        <3> TAKE a
        <3>1. a \in Adjacent(input, n) <=> <<n, a>> \in input.edges \/ <<a, n>> \in input.edges
            BY Neighbors
        <3>2. n \in Adjacent(input, a) <=> <<a, n>> \in input.edges \/ <<n, a>> \in input.edges
            BY Neighbors
        <3> QED
            BY <3>1, <3>2
    <2>2. n \notin Adjacent(input, n)
        <3>1. ASSUME <<n, n>> \in input.edges
              PROVE  FALSE
            <4>1. <<n, n>> \in Pairs /\ <<n, n>>[1] = <<n, n>>[2] /\ n \in Nat
                BY <3>1, <1>6 DEF ColoringTasks, Nodes
            <4>2. <<n, n>>[1] < <<n, n>>[2]
                BY <4>1 DEF Pairs
            <4> QED
                BY <4>1, <4>2
        <3> QED
            BY <3>1, Neighbors
    <2> TAKE m, l \in D \union {n}
    <2> HAVE m \in Adjacent(input, l)
    <2>3. CASE m \in D /\ l \in D
        BY <2>3, <1>1, <1>6, <1>7
    <2>4. CASE m = n /\ l = n
        BY <2>2, <2>4
    <2>5. CASE m = n /\ l \in D
        <3>1. l \in Adjacent(input, n)
            BY <2>1, <2>5
        <3>2. colors[l] \in used /\ new[m] = c /\ new[l] = colors[l]
            BY <3>1, <2>5, <1>6, <1>7
        <3> QED
            BY <3>2, <1>8
    <2>6. CASE m \in D /\ l = n
        <3>1. colors[m] \in used /\ new[l] = c /\ new[m] = colors[m]
            BY <2>6, <1>6, <1>7
        <3> QED
            BY <3>1, <1>8
    <2> QED
        BY <2>3, <2>4, <2>5, <2>6
<1>12. DOMAIN new = D \union {n} /\ D \union {n} \subseteq Nodes
    BY <1>1, <1>6, <1>7
<1>13. new = [m \in DOMAIN new |-> new[m]]
    BY <1>7
<1>14. Colored(new, k + 1)
    <2> PICK E : E = D \union {n}
        OBVIOUS
    <2>1. /\ DOMAIN new = E /\ E \subseteq Nodes /\ Cardinality(E) = k + 1
          /\ \A m \in E : new[m] \in 1..(Degree(input, m) + 1)
          /\ \A m, l \in E : m \in Adjacent(input, l) => new[m] # new[l]
        BY <1>9, <1>10, <1>11, <1>12, Zenon
    <2> QED
        BY <2>1, <1>13, Zenon DEF Colored
<1> QED
    BY <1>14

\* At the end every node has a color.
LEMMA GreedyColors ==
    ASSUME input \in ColoringTasks, NEW informed \in BOOLEAN
    PROVE  Colored(GreedyColoring(input, informed), NodeCount)
<1> PICK N : N = NodeCount
    OBVIOUS
<1> PICK colors : colors = ColorRounds(input, informed)
    OBVIOUS
<1>1. Len(input.nodes) = N /\ N \in Nat
    BY TasksAssumption DEF ColoringTasks
<1>2. /\ colors[0] = << >>
      /\ \A k \in 1..N : colors[k] = ColorNext(input, informed, colors[k - 1])
    BY <1>1, ColorRoundsExist
<1> DEFINE S == {k \in 0..N : Colored(colors[k], k)}
<1>3. 0 \in S
    <2> PICK none : none = colors[0]
        OBVIOUS
    <2>1. DOMAIN none = {} /\ none = [n \in DOMAIN none |-> none[n]]
        BY <1>2
    <2>2. Cardinality(DOMAIN none) = 0
        BY <2>1, FS_EmptySet
    <2>3. Colored(none, 0)
        BY <2>1, <2>2 DEF Colored
    <2> QED
        BY <2>3, <1>1
<1>4. ASSUME NEW k \in 0..N, k \in S, k < N
      PROVE  k + 1 \in S
    <2>1. k + 1 \in 1..N /\ k + 1 \in 0..N /\ (k + 1) - 1 = k /\ k \in Nat
        BY <1>1, <1>4
    <2>2. colors[k + 1] = ColorNext(input, informed, colors[k])
        BY <1>2, <2>1
    <2>3. Colored(ColorNext(input, informed, colors[k]), k + 1)
        BY <1>4, <2>1, ColoredNext
    <2> QED
        BY <2>1, <2>2, <2>3
<1>5. N \in S
    <2> HIDE DEF S
    <2>1. \A k \in 0..N : k \in S /\ k < N => k + 1 \in S
        BY <1>4
    <2>2. 0..N \subseteq S /\ N \in 0..N
        BY <1>1, <1>3, <2>1, CountedUp
    <2> QED
        BY <2>2
<1> QED
    BY <1>1, <1>5 DEF GreedyColoring

\* The coloring is accepted, and its colors are within the bound.
LEMMA ColoringSolves ==
    ASSUME input \in ColoringTasks, NEW informed \in BOOLEAN
    PROVE  LET verdict == ValidateColoring(input, GreedyColoring(input, informed))
           IN  /\ verdict.valid
               /\ verdict.score <= 1 + Max({0} \union {Degree(input, n) : n \in Nodes})
<1> PICK value : value = GreedyColoring(input, informed)
    OBVIOUS
<1> PICK top : top = Max({0} \union {Degree(input, n) : n \in Nodes})
    OBVIOUS
<1>1. Colored(value, NodeCount)
    BY GreedyColors
<1>2. NodeCount \in Nat /\ ToSet(input.nodes) = Nodes
    BY TasksAssumption DEF ColoringTasks
<1>3. DOMAIN value = Nodes
    <2>1. IsFiniteSet(Nodes) /\ Cardinality(Nodes) = NodeCount
        BY <1>2, FS_Interval DEF Nodes
    <2> QED
        BY <2>1, <1>1, FS_Subset DEF Colored
<1>4. /\ \A n \in Nodes : value[n] \in 1..(Degree(input, n) + 1)
      /\ \A m, n \in Nodes : m \in Adjacent(input, n) => value[m] # value[n]
      /\ value = [n \in Nodes |-> value[n]]
    BY <1>1, <1>3 DEF Colored
<1>5. \A n \in Nodes : Degree(input, n) \in Nat /\ Degree(input, n) <= top /\ top \in Nat
    <2> PICK K : K = {0} \union {Degree(input, n) : n \in Nodes}
        OBVIOUS
    <2>1. \A n \in Nodes : Degree(input, n) \in 0..NodeCount
        BY Neighbors
    <2>2. K \subseteq 0..NodeCount /\ K # {}
        BY <2>1, <1>2
    <2>3. Max(K) \in K /\ \A x \in K : x <= Max(K)
        BY <2>2, <1>2, GreatestOf
    <2> QED
        BY <2>1, <2>2, <2>3
<1>6. NoColor \notin ToSet(value) /\ \A n \in Nodes : value[n] # NoColor
    BY <1>3, <1>4, <1>5 DEF NoColor, ToSet
<1>7. \A e \in input.edges : value[e[1]] # value[e[2]]
    <2> TAKE e \in input.edges
    <2>1. e[1] \in Nodes /\ e[2] \in Nodes /\ e = <<e[1], e[2]>>
        BY DEF ColoringTasks, Pairs
    <2>2. e[1] \in Adjacent(input, e[2])
        BY <2>1, Neighbors
    <2> QED
        BY <2>1, <2>2, <1>4
<1>8. IsColoring(value)
    BY <1>3, <1>6, <1>7 DEF IsColoring
<1>9. ValidateColoring(input, value).valid
    <2>1. PICK C : value \in [Nodes -> C]
        <3>1. value \in [Nodes -> ToSet(value)]
            BY <1>3, <1>4 DEF ToSet
        <3> QED
            BY <3>1
    <2> QED
        BY <2>1, <1>8, ColoringsAccepted
<1>10. ValidateColoring(input, value).score <= 1 + top
    <2> PICK used : used = {value[n] : n \in Nodes}
        OBVIOUS
    <2>1. ValidateColoring(input, value).score = Cardinality(used)
        <3>1. {n \in Nodes \intersect Nodes : value[n] # NoColor} = Nodes
            BY <1>6
        <3> QED
            BY <3>1, <1>2, <1>3 DEF ValidateColoring, Verdict
    <2>2. CASE Nodes = {}
        <3>1. used = {} /\ top \in Nat
            <4>1. {0} \union {Degree(input, n) : n \in Nodes} = {0}
                BY <2>2
            <4>2. Max({0}) = 0
                BY GreatestOf, 0 \in Nat, {0} \subseteq 0..0
            <4> QED
                BY <4>1, <4>2, <2>2
        <3>2. Cardinality(used) = 0
            BY <3>1, FS_EmptySet
        <3> QED
            BY <3>1, <3>2, <2>1
    <2>3. CASE Nodes # {}
        <3>1. top \in Nat
            BY <2>3, <1>5
        <3>2. used \subseteq 1..(1 + top)
            BY <1>4, <1>5, <3>1
        <3>3. IsFiniteSet(1..(1 + top)) /\ Cardinality(1..(1 + top)) = 1 + top
            <4>1. 1 \in Int /\ 1 + top \in Int /\ ~ (1 > 1 + top) /\ (1 + top) - 1 + 1 = 1 + top
                BY <3>1
            <4> QED
                BY <4>1, FS_Interval
        <3> QED
            BY <2>1, <3>2, <3>3, FS_Subset
    <2> QED
        BY <2>2, <2>3
<1> QED
    BY <1>9, <1>10

-----------------------------------------------------------------------------
(* The offline worker: covers *)

\* The rounds of the loop over the sets are what their recursion says.
LEMMA CoverRoundsExist ==
    ASSUME NEW task, NEW informed, NEW N \in Nat, Len(task.order) = N
    PROVE  /\ CoverRounds(task, informed)[0] = NothingCovered(task)
           /\ \A k \in 1..N :
                  CoverRounds(task, informed)[k]
                      = CoverNext(task, informed, CoverRounds(task, informed)[k - 1])
<1> DEFINE Round(k, g) == IF k = 0 THEN NothingCovered(task)
                          ELSE CoverNext(task, informed, g[k - 1])
           Up(m, g) == g = [k \in 0..m |-> Round(k, g)]
           S == {m \in 0..N : \E g : Up(m, g)}
<1>1. 0 \in S
    <2>1. Up(0, [k \in 0..0 |-> NothingCovered(task)])
        OBVIOUS
    <2>2. \E g : Up(0, g)
        BY <2>1, Zenon
    <2>3. 0 \in 0..N
        OBVIOUS
    <2> QED
        BY <2>2, <2>3
<1>2. ASSUME NEW m \in 0..N, m \in S, m < N
      PROVE  m + 1 \in S
    <2>1. PICK g : Up(m, g)
        BY <1>2
    <2> PICK last : last = CoverNext(task, informed, g[m])
        OBVIOUS
    <2> DEFINE h == [k \in 0..(m + 1) |-> IF k = m + 1 THEN last ELSE g[k]]
    <2>2. \A k \in 0..(m + 1) : h[k] = Round(k, h)
        <3> TAKE k \in 0..(m + 1)
        <3>1. CASE k = 0
            BY <3>1, <2>1
        <3>2. CASE k = m + 1
            <4>1. h[k] = last /\ h[k - 1] = g[m] /\ k # 0
                BY <3>2
            <4> QED
                BY <4>1
        <3>3. CASE k \in 1..m
            <4>1. k - 1 \in 0..m /\ k \in 0..m /\ k # 0
                BY <3>3
            <4>2. h[k] = g[k] /\ h[k - 1] = g[k - 1]
                BY <4>1, <3>3
            <4>3. g[k] = Round(k, g)
                BY <4>1, <2>1
            <4> QED
                BY <4>1, <4>2, <4>3
        <3> QED
            BY <3>1, <3>2, <3>3
    <2>3. Up(m + 1, h)
        <3>1. h = [k \in 0..(m + 1) |-> h[k]]
            OBVIOUS
        <3> HIDE DEF h, Round
        <3> QED
            BY <2>2, <3>1
    <2>4. m + 1 \in 0..N
        BY <1>2
    <2> HIDE DEF Up, h
    <2> QED
        BY <2>3, <2>4
<1>3. N \in S
    <2> HIDE DEF S
    <2>1. \A m \in 0..N : m \in S /\ m < N => m + 1 \in S
        BY <1>2
    <2>2. 0..N \subseteq S /\ N \in 0..N
        BY <1>1, <2>1, CountedUp
    <2> QED
        BY <2>2
<1>4. \E g : Up(N, g)
    BY <1>3
<1>5. CoverRounds(task, informed) = CHOOSE g : Up(N, g)
    BY DEF CoverRounds
<1> PICK g : g = CoverRounds(task, informed)
    OBVIOUS
<1>6. g = [k \in 0..N |-> Round(k, g)]
    BY <1>4, <1>5
<1>7. 0 \in 0..N /\ \A k \in 1..N : k \in 0..N /\ k # 0
    OBVIOUS
<1>8. g[0] = Round(0, g) /\ \A k \in 1..N : g[k] = Round(k, g)
    <2> HIDE DEF Round
    <2> QED
        BY <1>6, <1>7
<1> QED
    BY <1>7, <1>8

\* The tasks: their sets are numbered and listed in that order.
LEMMA CoverTaskParts ==
    ASSUME input \in CoverTasks
    PROVE  /\ SetCount \in Nat /\ Sets \subseteq Nat
           /\ IsFiniteSet(Sets) /\ Cardinality(Sets) = SetCount
           /\ input.order \in Seq(Sets) /\ Len(input.order) = SetCount
           /\ ToSet(input.order) = Sets
           /\ DOMAIN input.members = Sets
           /\ \A s \in Sets : input.members[s] \subseteq 1..ElementCount
<1>1. SetCount \in Nat
    BY TasksAssumption
<1>2. IsFiniteSet(Sets) /\ Cardinality(Sets) = SetCount
    BY <1>1, FS_Interval DEF Sets
<1>3. input.order = [s \in 1..SetCount |-> s]
    BY DEF CoverTasks, Sets
<1>4. input.order \in Seq(Sets) /\ Len(input.order) = SetCount /\ ToSet(input.order) = Sets
    BY <1>1, <1>3 DEF Sets, ToSet
<1>5. input.members \in [Sets -> SUBSET (1..ElementCount)]
    BY DEF CoverTasks
<1> QED
    BY <1>1, <1>2, <1>4, <1>5 DEF Sets

\* The set that is popped next is one of those that remain.
LEMMA NextSetRemains ==
    ASSUME input \in CoverTasks, NEW informed \in BOOLEAN,
           NEW S, S \subseteq Sets, S # {}, NEW U
    PROVE  NextSet(input, informed, S, U) \in S
<1>1. CASE informed
    <2> PICK gain : gain = [s \in S |-> Cardinality(input.members[s] \intersect U)]
        OBVIOUS
    <2> PICK N : N = ElementCount
        OBVIOUS
    <2>1. N \in Nat /\ S \subseteq Nat
        BY TasksAssumption, CoverTaskParts
    <2>2. IsFiniteSet(1..N) /\ Cardinality(1..N) = N
        BY <2>1, FS_Interval
    <2>3. \A s \in S : Cardinality(input.members[s] \intersect U) \in 0..N
        <3> TAKE s \in S
        <3> PICK T : T = input.members[s] \intersect U
            OBVIOUS
        <3>1. T \in SUBSET (1..N)
            BY CoverTaskParts
        <3>2. IsFiniteSet(T) /\ Cardinality(T) <= N
            BY <2>2, <3>1, FS_Subset
        <3>3. Cardinality(T) \in Nat
            BY <3>2, FS_CardinalityType
        <3> QED
            BY <2>1, <3>2, <3>3
    <2>4. PICK f \in [S -> 0..N] : f = gain
        BY <2>3
    <2>5. \E x \in S : \A y \in S \ {x} : f[x] > f[y] \/ (f[x] = f[y] /\ x < y)
        BY <2>1, FirstByKey
    <2>6. \E x \in S : \A y \in S \ {x} :
              \/ Cardinality(input.members[x] \intersect U)
                     > Cardinality(input.members[y] \intersect U)
              \/ /\ Cardinality(input.members[x] \intersect U)
                        = Cardinality(input.members[y] \intersect U)
                 /\ x < y
        BY <2>4, <2>5
    <2> QED
        BY <1>1, <2>6 DEF NextSet
<1>2. CASE ~ informed
    <2>1. input.order \in Seq(Sets) /\ ToSet(input.order) = Sets
        BY CoverTaskParts
    <2>2. \E x \in S : \A y \in S \ {x} : Earlier(input.order, x, y)
        BY <2>1, FirstInList
    <2> QED
        BY <1>2, <2>2 DEF NextSet
<1> QED
    BY <1>1, <1>2

\* After k rounds, as long as something is uncovered, k sets are popped: no set is selected
\* twice, and no popped set has an element that is uncovered.
Covering(cover, k) ==
    /\ cover.selected \in Seq(Sets)
    /\ IsInjective(cover.selected)
    /\ cover.remaining \subseteq Sets
    /\ ToSet(cover.selected) \intersect cover.remaining = {}
    /\ cover.uncovered
           = input.universe \ UNION {input.members[s] : s \in ToSet(cover.selected)}
    /\ \A s \in Sets \ cover.remaining : input.members[s] \intersect cover.uncovered = {}
    /\ cover.uncovered # {} => Cardinality(cover.remaining) = SetCount - k

\* What is appended to a list is in it, with what was in it before.
LEMMA MembersOfAppended ==
    ASSUME NEW T, NEW list \in Seq(T), NEW x \in T
    PROVE  ToSet(Append(list, x)) = ToSet(list) \union {x}
<1> PICK N : N = Len(list)
    OBVIOUS
<1> PICK new : new = Append(list, x)
    OBVIOUS
<1>1. /\ N \in Nat /\ DOMAIN list = 1..N /\ DOMAIN new = 1..(N + 1)
      /\ \A i \in 1..N : new[i] = list[i]
      /\ new[N + 1] = x
    BY AppendProperties, LenProperties
<1>2. \A i : i \in 1..(N + 1) <=> i \in 1..N \/ i = N + 1
    BY <1>1
<1>3. ToSet(new) = {new[i] : i \in 1..(N + 1)} /\ ToSet(list) = {list[i] : i \in 1..N}
    BY <1>1, Zenon DEF ToSet
<1>4. ToSet(new) = ToSet(list) \union {x}
    BY <1>1, <1>2, <1>3
<1> QED
    BY <1>4

\* A list without repetitions stays one when something new is appended.
LEMMA AppendedOnce ==
    ASSUME NEW T, NEW list \in Seq(T), NEW x \in T, x \notin ToSet(list),
           IsInjective(list)
    PROVE  IsInjective(Append(list, x))
<1> PICK N : N = Len(list)
    OBVIOUS
<1> PICK new : new = Append(list, x)
    OBVIOUS
<1>1. /\ N \in Nat /\ DOMAIN list = 1..N /\ DOMAIN new = 1..(N + 1)
      /\ \A i \in 1..N : new[i] = list[i]
      /\ new[N + 1] = x
    BY AppendProperties, LenProperties
<1>2. \A i : i \in 1..(N + 1) <=> i \in 1..N \/ i = N + 1
    BY <1>1
<1>3. \A i \in 1..N : new[i] \in ToSet(list)
    BY <1>1 DEF ToSet
<1>4. IsInjective(new)
    <2>1. \A i \in 1..N : new[i] # x
        BY <1>3
    <2>2. \A i, j \in 1..N : new[i] = new[j] => i = j
        BY <1>1 DEF IsInjective
    <2> QED
        BY <2>1, <2>2, <1>1, <1>2 DEF IsInjective
<1> QED
    BY <1>4, Zenon

\* A round pops one more set, unless nothing is left to cover.
LEMMA CoveringNext ==
    ASSUME input \in CoverTasks, NEW informed \in BOOLEAN,
           NEW k \in Nat, k < SetCount, NEW cover, Covering(cover, k)
    PROVE  Covering(CoverNext(input, informed, cover), k + 1)
<1> PICK sel : sel = cover.selected
    OBVIOUS
<1> PICK rem : rem = cover.remaining
    OBVIOUS
<1> PICK unc : unc = cover.uncovered
    OBVIOUS
<1> PICK s : s = NextSet(input, informed, rem, unc)
    OBVIOUS
<1> PICK gain : gain = input.members[s] \intersect unc
    OBVIOUS
<1> PICK new : new = CoverNext(input, informed, cover)
    OBVIOUS
<1>1. /\ sel \in Seq(Sets) /\ IsInjective(sel)
      /\ rem \subseteq Sets /\ ToSet(sel) \intersect rem = {}
      /\ unc = input.universe \ UNION {input.members[t] : t \in ToSet(sel)}
      /\ \A t \in Sets \ rem : input.members[t] \intersect unc = {}
      /\ unc # {} => Cardinality(rem) = SetCount - k
    BY DEF Covering
<1>2. CASE unc = {}
    <2>1. new = cover
        BY <1>2 DEF CoverNext
    <2> QED
        BY <2>1, <1>2, Zenon DEF Covering
<1>3. CASE unc # {}
    <2>1. SetCount \in Nat /\ IsFiniteSet(Sets)
        BY CoverTaskParts
    <2>2. IsFiniteSet(rem) /\ Cardinality(rem) = SetCount - k
        BY <2>1, <1>1, <1>3, FS_Subset
    <2>3. rem # {}
        <3>1. Cardinality(rem) # 0
            BY <2>1, <2>2
        <3> QED
            BY <3>1, FS_EmptySet
    <2>4. s \in rem /\ s \in Sets /\ s \notin ToSet(sel)
        <3>1. s \in rem
            BY <2>3, <1>1, NextSetRemains
        <3> QED
            BY <3>1, <1>1
    <2>5. /\ new.selected = (IF gain = {} THEN sel ELSE Append(sel, s))
          /\ new.remaining = rem \ {s} /\ new.uncovered = unc \ gain
        BY <1>3 DEF CoverNext
    <2>6. Cardinality(rem \ {s}) = SetCount - (k + 1)
        <3>1. Cardinality(rem \ {s}) = Cardinality(rem) - 1
            BY <2>2, <2>4, FS_RemoveElement
        <3> QED
            BY <3>1, <2>1, <2>2
    <2>7. \A t \in Sets \ (rem \ {s}) : input.members[t] \intersect (unc \ gain) = {}
        BY <1>1
    <2>8. CASE gain = {}
        <3>1. new.selected = sel /\ new.uncovered = unc
            BY <2>5, <2>8
        <3>2. ToSet(sel) \intersect (rem \ {s}) = {} /\ rem \ {s} \subseteq Sets
            BY <1>1
        <3>3. \A t \in Sets \ (rem \ {s}) : input.members[t] \intersect unc = {}
            BY <2>7, <2>8
        <3> QED
            BY <3>1, <3>2, <3>3, <2>5, <2>6, <1>1, Zenon DEF Covering
    <2>9. CASE gain # {}
        <3>longer. PICK longer : longer = Append(sel, s)
            OBVIOUS
        <3>1. /\ longer \in Seq(Sets) /\ ToSet(longer) = ToSet(sel) \union {s}
              /\ IsInjective(longer)
            <4>1. sel \in Seq(Sets) /\ s \in Sets /\ s \notin ToSet(sel)
                BY <1>1, <2>4
            <4>2. IsInjective(sel)
                BY <1>1
            <4>3. ToSet(Append(sel, s)) = ToSet(sel) \union {s}
                BY <4>1, MembersOfAppended
            <4>4. IsInjective(Append(sel, s))
                BY <4>1, <4>2, AppendedOnce, Zenon
            <4>5. Append(sel, s) \in Seq(Sets)
                BY <4>1, AppendProperties
            <4>6. longer \in Seq(Sets) /\ ToSet(longer) = ToSet(sel) \union {s}
                BY <4>3, <4>5, <3>longer, Zenon
            <4>7. IsInjective(longer)
                BY <4>4, <3>longer, Zenon
            <4> QED
                BY <4>6, <4>7, Zenon
        <3>2. ToSet(longer) \intersect (rem \ {s}) = {} /\ rem \ {s} \subseteq Sets
            BY <1>1, <3>1
        <3>3. unc \ gain = input.universe \ UNION {input.members[t] : t \in ToSet(longer)}
            <4>1. UNION {input.members[t] : t \in ToSet(longer)}
                      = (UNION {input.members[t] : t \in ToSet(sel)}) \union input.members[s]
                BY <3>1
            <4> QED
                BY <4>1, <1>1
        <3>4. new.selected = longer
            BY <2>5, <2>9, <3>longer, Zenon
        <3>left. PICK left : left = rem \ {s}
            OBVIOUS
        <3>rest. PICK rest : rest = unc \ gain
            OBVIOUS
        <3>5. /\ new.selected = longer /\ new.remaining = left /\ new.uncovered = rest
              /\ left \subseteq Sets /\ ToSet(longer) \intersect left = {}
              /\ Cardinality(left) = SetCount - (k + 1)
            BY <3>2, <3>4, <3>left, <3>rest, <2>5, <2>6, Zenon
        <3>6. rest = input.universe \ UNION {input.members[t] : t \in ToSet(longer)}
            BY <3>3, <3>rest, Zenon
        <3>7. \A t \in Sets \ left : input.members[t] \intersect rest = {}
            BY <2>7, <3>left, <3>rest, Zenon
        <3> QED
            BY <3>1, <3>5, <3>6, <3>7, Zenon DEF Covering
    <2> QED
        BY <2>8, <2>9
<1> QED
    BY <1>2, <1>3

\* At the end every set is popped or nothing is left to cover.
LEMMA GreedyCovers ==
    ASSUME input \in CoverTasks, NEW informed \in BOOLEAN
    PROVE  \E cover : /\ Covering(cover, SetCount)
                      /\ SetCover(input, informed) = cover.selected
<1> PICK N : N = SetCount
    OBVIOUS
<1> PICK cover : cover = CoverRounds(input, informed)
    OBVIOUS
<1>1. Len(input.order) = N /\ N \in Nat
    BY CoverTaskParts
<1>2. /\ cover[0] = NothingCovered(input)
      /\ \A k \in 1..N : cover[k] = CoverNext(input, informed, cover[k - 1])
    BY <1>1, CoverRoundsExist
<1> DEFINE S == {k \in 0..N : Covering(cover[k], k)}
<1>3. 0 \in S
    <2> PICK none : none = cover[0]
        OBVIOUS
    <2>1. /\ none.selected = << >> /\ none.remaining = Sets /\ none.uncovered = input.universe
        BY <1>2, CoverTaskParts DEF NothingCovered
    <2>2. ToSet(<< >>) = {} /\ IsInjective(<< >>) /\ << >> \in Seq(Sets)
        BY DEF ToSet, IsInjective
    <2>3. UNION {input.members[s] : s \in ToSet(<< >>)} = {}
        BY <2>2
    <2>4. Cardinality(Sets) = SetCount - 0
        BY <1>1, CoverTaskParts
    <2>5. Covering(none, 0)
        BY <2>1, <2>2, <2>3, <2>4 DEF Covering
    <2> QED
        BY <2>5, <1>1
<1>4. ASSUME NEW k \in 0..N, k \in S, k < N
      PROVE  k + 1 \in S
    <2>1. k + 1 \in 1..N /\ k + 1 \in 0..N /\ (k + 1) - 1 = k /\ k \in Nat
        BY <1>1, <1>4
    <2>2. cover[k + 1] = CoverNext(input, informed, cover[k])
        BY <1>2, <2>1
    <2>3. Covering(CoverNext(input, informed, cover[k]), k + 1)
        BY <1>4, <2>1, CoveringNext
    <2> QED
        BY <2>1, <2>2, <2>3
<1>5. N \in S
    <2> HIDE DEF S
    <2>1. \A k \in 0..N : k \in S /\ k < N => k + 1 \in S
        BY <1>4
    <2>2. 0..N \subseteq S /\ N \in 0..N
        BY <1>1, <1>3, <2>1, CountedUp
    <2> QED
        BY <2>2
<1> QED
    BY <1>1, <1>5 DEF SetCover

\* The selection is accepted if all sets together cover a universe that is not empty.
LEMMA CoverSolves ==
    ASSUME input \in CoverTasks, NEW informed \in BOOLEAN
    PROVE  ValidateCover(input, SetCover(input, informed)).valid
               <=> /\ input.universe # {}
                   /\ input.universe \subseteq UNION {input.members[s] : s \in Sets}
<1>1. PICK cover : Covering(cover, SetCount) /\ SetCover(input, informed) = cover.selected
    BY GreedyCovers
<1> PICK sel : sel = cover.selected
    OBVIOUS
<1> PICK unc : unc = cover.uncovered
    OBVIOUS
<1>2. /\ sel \in Seq(Sets) /\ IsInjective(sel)
      /\ cover.remaining \subseteq Sets
      /\ unc = input.universe \ UNION {input.members[s] : s \in ToSet(sel)}
      /\ \A s \in Sets \ cover.remaining : input.members[s] \intersect unc = {}
      /\ unc # {} => Cardinality(cover.remaining) = SetCount - SetCount
    BY <1>1 DEF Covering
<1>3. ToSet(sel) \subseteq Sets
    BY <1>2, LenProperties, ElementOfSeq DEF ToSet
<1>4. Cardinality(ToSet(sel)) = Len(sel)
    BY <1>2, NoItemTwice
<1>5. ValidateCover(input, sel).valid <=> input.universe # {} /\ unc = {}
    <2>1. DOMAIN input.members = Sets /\ ToSet(sel) \intersect Sets = ToSet(sel)
        BY <1>3, CoverTaskParts
    <2>2. Covered(input, sel) = UNION {input.members[s] : s \in ToSet(sel)}
        BY <2>1 DEF Covered
    <2> QED
        BY <2>1, <2>2, <1>2, <1>3, <1>4 DEF ValidateCover, Verdict
<1>6. ASSUME unc = {}
      PROVE  input.universe \subseteq UNION {input.members[s] : s \in Sets}
    BY <1>2, <1>3, <1>6
<1>7. ASSUME unc # {}
      PROVE  ~ (input.universe \subseteq UNION {input.members[s] : s \in Sets})
    <2>1. IsFiniteSet(cover.remaining) /\ Cardinality(cover.remaining) = 0
        <3>1. SetCount - SetCount = 0 /\ IsFiniteSet(Sets)
            BY CoverTaskParts
        <3> QED
            BY <3>1, <1>2, <1>7, FS_Subset
    <2>2. cover.remaining = {}
        BY <2>1, FS_EmptySet
    <2>3. PICK e \in unc : e \in input.universe
        BY <1>2, <1>7
    <2>4. \A s \in Sets : e \notin input.members[s]
        BY <2>2, <2>3, <1>2
    <2> QED
        BY <2>3, <2>4
<1> QED
    BY <1>1, <1>5, <1>6, <1>7

-----------------------------------------------------------------------------
(* The offline worker: packings *)

\* The rounds of the loop over the items are what their recursion says.
LEMMA PackRoundsExist ==
    ASSUME NEW task, NEW informed, NEW N \in Nat, Len(task.order) = N
    PROVE  /\ PackRounds(task, informed)[0] = << >>
           /\ \A k \in 1..N :
                  PackRounds(task, informed)[k]
                      = PackNext(task, informed, PackRounds(task, informed)[k - 1])
<1> DEFINE Round(k, g) == IF k = 0 THEN << >> ELSE PackNext(task, informed, g[k - 1])
           Up(m, g) == g = [k \in 0..m |-> Round(k, g)]
           S == {m \in 0..N : \E g : Up(m, g)}
<1>1. 0 \in S
    <2>1. Up(0, [k \in 0..0 |-> << >>])
        OBVIOUS
    <2>2. \E g : Up(0, g)
        BY <2>1, Zenon
    <2>3. 0 \in 0..N
        OBVIOUS
    <2> QED
        BY <2>2, <2>3
<1>2. ASSUME NEW m \in 0..N, m \in S, m < N
      PROVE  m + 1 \in S
    <2>1. PICK g : Up(m, g)
        BY <1>2
    <2> PICK last : last = PackNext(task, informed, g[m])
        OBVIOUS
    <2> DEFINE h == [k \in 0..(m + 1) |-> IF k = m + 1 THEN last ELSE g[k]]
    <2>2. \A k \in 0..(m + 1) : h[k] = Round(k, h)
        <3> TAKE k \in 0..(m + 1)
        <3>1. CASE k = 0
            BY <3>1, <2>1
        <3>2. CASE k = m + 1
            <4>1. h[k] = last /\ h[k - 1] = g[m] /\ k # 0
                BY <3>2
            <4> QED
                BY <4>1
        <3>3. CASE k \in 1..m
            <4>1. k - 1 \in 0..m /\ k \in 0..m /\ k # 0
                BY <3>3
            <4>2. h[k] = g[k] /\ h[k - 1] = g[k - 1]
                BY <4>1, <3>3
            <4>3. g[k] = Round(k, g)
                BY <4>1, <2>1
            <4> QED
                BY <4>1, <4>2, <4>3
        <3> QED
            BY <3>1, <3>2, <3>3
    <2>3. Up(m + 1, h)
        <3>1. h = [k \in 0..(m + 1) |-> h[k]]
            OBVIOUS
        <3> HIDE DEF h, Round
        <3> QED
            BY <2>2, <3>1
    <2>4. m + 1 \in 0..N
        BY <1>2
    <2> HIDE DEF Up, h
    <2> QED
        BY <2>3, <2>4
<1>3. N \in S
    <2> HIDE DEF S
    <2>1. \A m \in 0..N : m \in S /\ m < N => m + 1 \in S
        BY <1>2
    <2>2. 0..N \subseteq S /\ N \in 0..N
        BY <1>1, <2>1, CountedUp
    <2> QED
        BY <2>2
<1>4. \E g : Up(N, g)
    BY <1>3
<1>5. PackRounds(task, informed) = CHOOSE g : Up(N, g)
    BY DEF PackRounds
<1> PICK g : g = PackRounds(task, informed)
    OBVIOUS
<1>6. g = [k \in 0..N |-> Round(k, g)]
    BY <1>4, <1>5
<1>7. 0 \in 0..N /\ \A k \in 1..N : k \in 0..N /\ k # 0
    OBVIOUS
<1>8. g[0] = Round(0, g) /\ \A k \in 1..N : g[k] = Round(k, g)
    <2> HIDE DEF Round
    <2> QED
        BY <1>6, <1>7
<1> QED
    BY <1>7, <1>8


\* The tasks: their items are numbered and listed in that order.
LEMMA PackingTaskParts ==
    ASSUME input \in PackingTasks
    PROVE  /\ ItemCount \in Nat /\ Items \subseteq Nat
           /\ IsFiniteSet(Items) /\ Cardinality(Items) = ItemCount
           /\ input.order \in Seq(Items) /\ Len(input.order) = ItemCount
           /\ ToSet(input.order) = Items
           /\ DOMAIN input.weight = Items
           /\ MaxWeight \in Nat /\ \A i \in Items : input.weight[i] \in 0..MaxWeight
           /\ \A i \in Items : input.weight[i] \in Nat
           /\ input.capacity \in Int
<1>1. ItemCount \in Nat /\ MaxWeight \in Nat
    BY TasksAssumption
<1>2. IsFiniteSet(Items) /\ Cardinality(Items) = ItemCount
    BY <1>1, FS_Interval DEF Items
<1>3. input.order = [i \in 1..ItemCount |-> i]
    BY DEF PackingTasks, Items
<1>4. /\ input.order \in Seq(Items) /\ Len(input.order) = ItemCount
      /\ ToSet(input.order) = Items
    BY <1>1, <1>3 DEF Items, ToSet
<1>5. input.weight \in [Items -> 1..MaxWeight] /\ input.capacity \in Int
    BY TasksAssumption DEF PackingTasks
<1> QED
    BY <1>1, <1>2, <1>4, <1>5 DEF Items

\* The item that comes first is one of those that are left.
LEMMA NextItemIsLeft ==
    ASSUME input \in PackingTasks, NEW informed \in BOOLEAN,
           NEW S, S \subseteq Items, S # {}
    PROVE  NextItem(input, informed, S) \in S
<1>1. CASE informed
    <2> PICK N : N = MaxWeight
        OBVIOUS
    <2>1. N \in Nat /\ S \subseteq Nat /\ \A i \in S : input.weight[i] \in 0..N
        BY PackingTaskParts
    <2>2. PICK f \in [S -> 0..N] : f = [i \in S |-> input.weight[i]]
        BY <2>1
    <2>3. \E x \in S : \A y \in S \ {x} : f[x] > f[y] \/ (f[x] = f[y] /\ x < y)
        BY <2>1, FirstByKey
    <2>4. \E x \in S : \A y \in S \ {x} :
              \/ input.weight[x] > input.weight[y]
              \/ input.weight[x] = input.weight[y] /\ x < y
        BY <2>2, <2>3
    <2> QED
        BY <1>1, <2>4 DEF NextItem
<1>2. CASE ~ informed
    <2>1. input.order \in Seq(Items) /\ ToSet(input.order) = Items
        BY PackingTaskParts
    <2>2. \E x \in S : \A y \in S \ {x} : Earlier(input.order, x, y)
        BY <2>1, FirstInList
    <2> QED
        BY <1>2, <2>2 DEF NextItem
<1> QED
    BY <1>1, <1>2

\* An item adds its weight to its bin.
LEMMA WeightOfOneMore ==
    ASSUME input \in PackingTasks, NEW bin \in Seq(Items), NEW i \in Items
    PROVE  BinWeight(input, Append(bin, i)) = BinWeight(input, bin) + input.weight[i]
<1>n. PICK N : N = Len(bin)
    OBVIOUS
<1>new. PICK new : new = Append(bin, i)
    OBVIOUS
<1>1. /\ N \in Nat /\ DOMAIN bin = 1..N /\ DOMAIN new = 1..(N + 1)
      /\ \A k \in 1..N : bin[k] \in Items
      /\ \A k \in 1..N : new[k] = bin[k]
      /\ new[N + 1] = i
    BY <1>n, <1>new, AppendProperties, LenProperties, ElementOfSeq
<1>2. DOMAIN input.weight = Items /\ \A j \in Items : input.weight[j] \in Int
    BY PackingTaskParts
<1>f. PICK f : f = [k \in DOMAIN bin |-> IF bin[k] \in DOMAIN input.weight
                                       THEN input.weight[bin[k]] ELSE 0]
    OBVIOUS
<1>g. PICK g : g = [k \in DOMAIN new |-> IF new[k] \in DOMAIN input.weight
                                       THEN input.weight[new[k]] ELSE 0]
    OBVIOUS
<1>3. /\ f = [k \in 1..N |-> input.weight[bin[k]]]
      /\ g = [k \in 1..(N + 1) |-> IF new[k] \in Items THEN input.weight[new[k]] ELSE 0]
    BY <1>1, <1>2, <1>f, <1>g
<1>4. Numbers(f, N)
    <2>1. Len(f) = N /\ \A k \in 1..N : f[k] \in Int
        BY <1>1, <1>2, <1>3
    <2> QED
        BY <2>1, <1>1 DEF Numbers
<1>5. Numbers(g, N + 1)
    <2>1. N + 1 \in Nat
        BY <1>1
    <2>2. Len(g) = N + 1
        BY <1>3, <2>1
    <2>3. \A k \in 1..(N + 1) : g[k] \in Int
        BY <1>2, <1>3
    <2> QED
        BY <2>1, <2>2, <2>3 DEF Numbers
<1>6. \A k \in 1..N : k \in 1..(N + 1)
    BY <1>1
<1>7. \A k \in 1..N : g[k] = f[k]
    BY <1>1, <1>3, <1>6
<1>8. g[N + 1] = input.weight[i]
    <2>1. N + 1 \in 1..(N + 1)
        BY <1>1
    <2> QED
        BY <2>1, <1>1, <1>3
<1>9. SumOf(g) = SumOf(f) + g[N + 1]
    BY <1>4, <1>5, <1>7, SumOfOneMore
<1>10. BinWeight(input, bin) = SumOf(f) /\ BinWeight(input, new) = SumOf(g)
    BY <1>f, <1>g DEF BinWeight
<1> QED
    BY <1>8, <1>9, <1>10, <1>new

\* The bins that the worker fills: a bin is too heavy only if an item in it is.
GoodBin(bin) ==
    /\ bin \in Seq(Items)
    /\ IsInjective(bin)
    /\ BinWeight(input, bin) \in Nat
    /\ \A i \in ToSet(bin) : input.weight[i] <= BinWeight(input, bin)
    /\ \/ BinWeight(input, bin) <= input.capacity
       \/ \E i \in ToSet(bin) : input.weight[i] > input.capacity

\* A bin is empty before its first item.
LEMMA EmptyBin ==
    ASSUME input \in PackingTasks
    PROVE  /\ << >> \in Seq(Items) /\ ToSet(<< >>) = {} /\ BinWeight(input, << >>) = 0
           /\ IsInjective(<< >>)
<1> PICK f : f = [k \in DOMAIN << >> |-> IF << >>[k] \in DOMAIN input.weight
                                         THEN input.weight[<< >>[k]] ELSE 0]
    OBVIOUS
<1>1. DOMAIN << >> = {} /\ f = << >>
    OBVIOUS
<1>2. Numbers(f, 0)
    BY <1>1 DEF Numbers
<1>3. \A k \in 1..0 : f[k] = 0
    OBVIOUS
<1>4. SumOf(f) = 0
    BY <1>2, <1>3, SumOfZeros
<1>5. BinWeight(input, << >>) = SumOf(f)
    BY DEF BinWeight
<1>6. << >> \in Seq(Items) /\ ToSet(<< >>) = {}
    BY DEF ToSet
<1>7. IsInjective(<< >>)
    BY <1>1 DEF IsInjective
<1> QED
    BY <1>4, <1>5, <1>6, <1>7

\* An item joins a bin that is empty or has room for it.
LEMMA BinGrows ==
    ASSUME input \in PackingTasks, NEW bin, NEW i \in Items, i \notin ToSet(bin),
           bin = << >> \/ (GoodBin(bin) /\ Fits(input, bin, i))
    PROVE  GoodBin(Append(bin, i)) /\ ToSet(Append(bin, i)) = ToSet(bin) \union {i}
<1> PICK w : w = BinWeight(input, bin)
    OBVIOUS
<1> PICK wi : wi = input.weight[i]
    OBVIOUS
<1> PICK cap : cap = input.capacity
    OBVIOUS
<1> PICK new : new = Append(bin, i)
    OBVIOUS
<1>1. /\ bin \in Seq(Items) /\ w \in Nat
      /\ IsInjective(bin)
      /\ \A j \in ToSet(bin) : input.weight[j] <= w
      /\ w + wi <= cap \/ (bin = << >> /\ w = 0)
    <2>1. CASE bin = << >>
        <3>1. bin \in Seq(Items) /\ ToSet(bin) = {} /\ w = 0
            BY <2>1, EmptyBin
        <3>2. IsInjective(bin)
            BY <2>1, EmptyBin
        <3> QED
            BY <3>1, <3>2, <2>1
    <2>2. CASE GoodBin(bin) /\ Fits(input, bin, i)
        <3>1. w + wi <= cap
            BY <2>2 DEF Fits
        <3>2. /\ bin \in Seq(Items) /\ w \in Nat
              /\ IsInjective(bin)
              /\ \A j \in ToSet(bin) : input.weight[j] <= w
            BY <2>2 DEF GoodBin
        <3> QED
            BY <3>1, <3>2, Zenon
    <2> QED
        BY <2>1, <2>2
<1>2. new \in Seq(Items)
    BY <1>1, AppendProperties
<1>3. ToSet(new) = ToSet(bin) \union {i}
    <2>1. ToSet(Append(bin, i)) = ToSet(bin) \union {i}
        BY <1>1, MembersOfAppended
    <2> QED
        BY <2>1, Zenon
<1>4. IsInjective(new)
    <2>1. IsInjective(Append(bin, i))
        BY <1>1, AppendedOnce
    <2> QED
        BY <2>1, Zenon
<1>5. BinWeight(input, new) = w + wi
    BY <1>1, WeightOfOneMore
<1>6. wi \in Nat /\ cap \in Int /\ \A j \in ToSet(bin) : input.weight[j] \in Nat
    <2>1. \A j \in ToSet(bin) : j \in Items
        BY <1>1, LenProperties, ElementOfSeq DEF ToSet
    <2> QED
        BY <2>1, PackingTaskParts
<1>7. w + wi \in Nat /\ \A j \in ToSet(new) : input.weight[j] <= w + wi
    BY <1>1, <1>3, <1>6
<1>8. w + wi <= cap \/ \E j \in ToSet(new) : input.weight[j] > cap
    <2>1. CASE w = 0
        <3>1. w + wi <= cap \/ wi > cap
            BY <2>1, <1>6
        <3> QED
            BY <3>1, <1>3
    <2> QED
        BY <2>1, <1>1
<1>9. GoodBin(new)
    BY <1>2, <1>4, <1>5, <1>7, <1>8 DEF GoodBin
<1> QED
    BY <1>3, <1>9

\* A round puts one more item into one bin: a new one, or one with room for it.
OneMore(bins, new, item) ==
    \E p \in DOMAIN new : \E bin :
        /\ DOMAIN bins \subseteq DOMAIN new /\ DOMAIN new = DOMAIN bins \union {p}
        /\ new[p] = Append(bin, item)
        /\ \A k \in DOMAIN new \ {p} : new[k] = bins[k]
        /\ \/ p \in DOMAIN bins /\ bin = bins[p] /\ Fits(input, bin, item)
           \/ p \notin DOMAIN bins /\ bin = << >>

\* After k rounds k items are packed, each in one place.
Packing(bins, k) ==
    /\ bins \in Seq(Seq(Items))
    /\ \A b \in DOMAIN bins : GoodBin(bins[b])
    /\ \A b, c \in DOMAIN bins : ToSet(bins[b]) \intersect ToSet(bins[c]) # {} => b = c
    /\ Packed(bins) \subseteq Items /\ Cardinality(Packed(bins)) = k

\* Each round is such a step.
LEMMA PackNextIsOneMore ==
    ASSUME NEW informed \in BOOLEAN, NEW bins \in Seq(Seq(Items)), NEW item \in Items,
           item = NextItem(input, informed, ToSet(input.order) \ Packed(bins))
    PROVE  /\ PackNext(input, informed, bins) \in Seq(Seq(Items))
           /\ OneMore(bins, PackNext(input, informed, bins), item)
<1>new. PICK new : new = PackNext(input, informed, bins)
    OBVIOUS
<1>open. PICK open : open = Joinable(input, informed, bins, item)
    OBVIOUS
<1>n. PICK n : n = Len(bins)
    OBVIOUS
<1>1. n \in Nat /\ DOMAIN bins = 1..n /\ \A k \in 1..n : bins[k] \in Seq(Items)
    BY <1>n, LenProperties, ElementOfSeq
<1>2. CASE open = {}
    <2>1. new = Append(bins, <<item>>)
        BY <1>2, <1>new, <1>open DEF PackNext
    <2>2. <<item>> \in Seq(Items) /\ <<item>> = Append(<< >>, item)
        OBVIOUS
    <2>3. /\ new \in Seq(Seq(Items)) /\ DOMAIN new = 1..(n + 1) /\ new[n + 1] = <<item>>
          /\ \A k \in 1..n : new[k] = bins[k]
        <3>1. PICK one \in Seq(Items) : one = <<item>>
            BY <2>2
        <3>2. new = Append(bins, one)
            BY <2>1, <3>1
        <3>3. /\ new \in Seq(Seq(Items)) /\ Len(new) = n + 1 /\ new[n + 1] = one
              /\ \A k \in 1..n : new[k] = bins[k]
            BY <3>2, <1>n, AppendProperties
        <3>4. DOMAIN new = 1..(n + 1)
            BY <3>3, LenProperties
        <3> QED
            BY <3>1, <3>3, <3>4
    <2>4. /\ n + 1 \in 1..(n + 1) /\ n + 1 \notin 1..n
          /\ 1..(n + 1) = (1..n) \union {n + 1} /\ 1..n \subseteq 1..(n + 1)
        BY <1>1
    <2>5. OneMore(bins, new, item)
        <3>1. PICK p : p = n + 1
            OBVIOUS
        <3>2. PICK bin : bin = << >>
            OBVIOUS
        <3>3. /\ p \in DOMAIN new /\ DOMAIN bins \subseteq DOMAIN new
              /\ DOMAIN new = DOMAIN bins \union {p}
              /\ new[p] = Append(bin, item)
              /\ p \notin DOMAIN bins /\ bin = << >>
            BY <2>2, <2>3, <2>4, <1>1, <3>1, <3>2
        <3>4. \A k \in DOMAIN new \ {p} : new[k] = bins[k]
            BY <2>3, <2>4, <1>1, <3>1
        <3> QED
            BY <3>3, <3>4 DEF OneMore
    <2> QED
        BY <2>3, <2>5, <1>new
<1>3. CASE open # {}
    <2>p. PICK p : p = Min(open)
        OBVIOUS
    <2>1. open \subseteq 1..n /\ \A k \in open : Fits(input, bins[k], item)
        BY <1>open, <1>1 DEF Joinable
    <2>2. p \in open
        <3>1. open \subseteq Nat
            BY <2>1
        <3> QED
            BY <3>1, <1>3, <2>p, LeastOf
    <2>3. p \in 1..n /\ Fits(input, bins[p], item)
        BY <2>1, <2>2
    <2>4. new = [bins EXCEPT ![p] = Append(bins[p], item)]
        BY <1>3, <1>new, <1>open, <2>p DEF PackNext
    <2>5. Append(bins[p], item) \in Seq(Items)
        BY <1>1, <2>3, AppendProperties
    <2>6. /\ DOMAIN new = 1..n /\ new[p] = Append(bins[p], item)
          /\ \A k \in (1..n) \ {p} : new[k] = bins[k]
        BY <1>1, <2>3, <2>4
    <2>7. new \in Seq(Seq(Items))
        <3>1. PICK more \in Seq(Items) : more = Append(bins[p], item)
            BY <2>5
        <3>2. new = [bins EXCEPT ![p] = more]
            BY <2>4, <3>1
        <3> QED
            BY <3>2, <2>3, <1>n, ExceptSeq
    <2>8. OneMore(bins, new, item)
        <3>1. PICK bin : bin = bins[p]
            OBVIOUS
        <3>2. /\ p \in DOMAIN new /\ DOMAIN bins \subseteq DOMAIN new
              /\ DOMAIN new = DOMAIN bins \union {p}
              /\ new[p] = Append(bin, item)
              /\ \A k \in DOMAIN new \ {p} : new[k] = bins[k]
              /\ p \in DOMAIN bins /\ bin = bins[p] /\ Fits(input, bin, item)
            BY <2>3, <2>6, <1>1, <3>1
        <3> QED
            BY <3>2, Zenon DEF OneMore
    <2> QED
        BY <2>7, <2>8, <1>new
<1> QED
    BY <1>2, <1>3

\* A round packs one more item.
LEMMA PackingNext ==
    ASSUME input \in PackingTasks, NEW informed \in BOOLEAN,
           NEW k \in Nat, k < ItemCount, NEW bins, Packing(bins, k)
    PROVE  Packing(PackNext(input, informed, bins), k + 1)
<1>item. PICK item : item = NextItem(input, informed, ToSet(input.order) \ Packed(bins))
    OBVIOUS
<1>new. PICK new : new = PackNext(input, informed, bins)
    OBVIOUS
<1>1. /\ bins \in Seq(Seq(Items))
      /\ \A b \in DOMAIN bins : GoodBin(bins[b])
      /\ \A b, c \in DOMAIN bins : ToSet(bins[b]) \intersect ToSet(bins[c]) # {} => b = c
      /\ Packed(bins) \subseteq Items /\ Cardinality(Packed(bins)) = k
    BY DEF Packing
<1>2. /\ ItemCount \in Nat /\ IsFiniteSet(Items) /\ Cardinality(Items) = ItemCount
      /\ ToSet(input.order) = Items
    BY PackingTaskParts
<1>3. item \in Items /\ item \notin Packed(bins)
    <2>left. PICK left : left = ToSet(input.order) \ Packed(bins)
        OBVIOUS
    <2>1. left \subseteq Items /\ left # {}
        <3>1. Items # Packed(bins)
            BY <1>1, <1>2
        <3> QED
            BY <3>1, <1>1, <1>2, <2>left
    <2>2. item \in left
        BY <2>1, <2>left, <1>item, NextItemIsLeft
    <2> QED
        BY <2>1, <2>2, <2>left
<1>4. new \in Seq(Seq(Items)) /\ OneMore(bins, new, item)
    BY <1>1, <1>3, <1>item, <1>new, PackNextIsOneMore
<1>p. PICK p \in DOMAIN new : \E bin :
          /\ DOMAIN bins \subseteq DOMAIN new /\ DOMAIN new = DOMAIN bins \union {p}
          /\ new[p] = Append(bin, item)
          /\ \A b \in DOMAIN new \ {p} : new[b] = bins[b]
          /\ \/ p \in DOMAIN bins /\ bin = bins[p] /\ Fits(input, bin, item)
             \/ p \notin DOMAIN bins /\ bin = << >>
    BY <1>4 DEF OneMore
<1>5. PICK bin :
          /\ DOMAIN bins \subseteq DOMAIN new /\ DOMAIN new = DOMAIN bins \union {p}
          /\ new[p] = Append(bin, item)
          /\ \A b \in DOMAIN new \ {p} : new[b] = bins[b]
          /\ \/ p \in DOMAIN bins /\ bin = bins[p] /\ Fits(input, bin, item)
             \/ p \notin DOMAIN bins /\ bin = << >>
    BY <1>p
<1>6. \A b \in DOMAIN bins : ToSet(bins[b]) \subseteq Packed(bins)
    BY DEF Packed
<1>7. item \notin ToSet(bin) /\ (bin = << >> \/ (GoodBin(bin) /\ Fits(input, bin, item)))
    <2>1. CASE p \in DOMAIN bins
        BY <2>1, <1>1, <1>3, <1>5, <1>6
    <2>2. CASE p \notin DOMAIN bins
        BY <2>2, <1>5 DEF ToSet
    <2> QED
        BY <2>1, <2>2
<1>8. GoodBin(new[p]) /\ ToSet(new[p]) = ToSet(bin) \union {item}
    BY <1>3, <1>5, <1>7, BinGrows
<1>9. \A b \in DOMAIN new : GoodBin(new[b])
    BY <1>1, <1>5, <1>8
<1>10. Packed(new) = Packed(bins) \union {item}
    <2>1. \A i : i \in Packed(new) <=> \E b \in DOMAIN new : i \in ToSet(new[b])
        BY DEF Packed
    <2>2. \A i : i \in Packed(bins) <=> \E b \in DOMAIN bins : i \in ToSet(bins[b])
        BY DEF Packed
    <2>3. \A i : i \in ToSet(bin) => \E b \in DOMAIN bins : i \in ToSet(bins[b])
        <3>1. CASE p \in DOMAIN bins
            BY <3>1, <1>5
        <3>2. CASE p \notin DOMAIN bins
            BY <3>2, <1>5 DEF ToSet
        <3> QED
            BY <3>1, <3>2
    <2>4. \A i \in Packed(new) : i \in Packed(bins) \union {item}
        BY <2>1, <2>2, <2>3, <1>5, <1>8
    <2>5. \A i \in Packed(bins) : i \in Packed(new)
        <3> TAKE i \in Packed(bins)
        <3>1. PICK b \in DOMAIN bins : i \in ToSet(bins[b])
            BY <2>2
        <3>2. b \in DOMAIN new
            BY <1>5
        <3>3. i \in ToSet(new[b])
            BY <3>1, <3>2, <1>5, <1>8
        <3> QED
            BY <2>1, <3>2, <3>3
    <2>6. item \in Packed(new)
        BY <2>1, <1>8
    <2> QED
        BY <2>4, <2>5, <2>6
<1>11. Packed(new) \subseteq Items /\ Cardinality(Packed(new)) = k + 1
    <2>P. PICK P : P = Packed(bins)
        OBVIOUS
    <2>1. IsFiniteSet(P) /\ item \notin P /\ P \subseteq Items /\ Cardinality(P) = k
        BY <2>P, <1>1, <1>2, <1>3, FS_Subset
    <2>2. Cardinality(P \union {item}) = k + 1
        BY <2>1, FS_AddElement
    <2> QED
        BY <2>P, <2>1, <2>2, <1>3, <1>10
<1>12. \A b, c \in DOMAIN new : ToSet(new[b]) \intersect ToSet(new[c]) # {} => b = c
    <2>1. \A b \in DOMAIN new \ {p} : ToSet(new[b]) \intersect ToSet(new[p]) = {}
        <3> TAKE b \in DOMAIN new \ {p}
        <3>1. b \in DOMAIN bins /\ new[b] = bins[b] /\ item \notin ToSet(bins[b])
            BY <1>3, <1>5, <1>6
        <3>2. ToSet(bins[b]) \intersect ToSet(bin) = {}
            <4>1. CASE p \in DOMAIN bins
                BY <4>1, <3>1, <1>1, <1>5
            <4>2. CASE p \notin DOMAIN bins
                BY <4>2, <1>5 DEF ToSet
            <4> QED
                BY <4>1, <4>2
        <3> QED
            BY <3>1, <3>2, <1>8
    <2>2. \A b, c \in DOMAIN new \ {p} :
              ToSet(new[b]) \intersect ToSet(new[c]) # {} => b = c
        BY <1>1, <1>5
    <2> QED
        BY <2>1, <2>2
<1>13. Packing(new, k + 1)
    BY <1>4, <1>9, <1>11, <1>12 DEF Packing
<1> QED
    BY <1>13, <1>new

\* At the end every item is packed.
LEMMA WorkerPacks ==
    ASSUME input \in PackingTasks, NEW informed \in BOOLEAN
    PROVE  Packing(BinPack(input, informed), ItemCount)
<1>N. PICK N : N = ItemCount
    OBVIOUS
<1> PICK bins : bins = PackRounds(input, informed)
    OBVIOUS
<1>1. Len(input.order) = N /\ N \in Nat
    BY <1>N, PackingTaskParts
<1>2. /\ bins[0] = << >>
      /\ \A k \in 1..N : bins[k] = PackNext(input, informed, bins[k - 1])
    BY <1>1, PackRoundsExist
<1> DEFINE S == {k \in 0..N : Packing(bins[k], k)}
<1>3. 0 \in S
    <2>1. << >> \in Seq(Seq(Items)) /\ DOMAIN << >> = {}
        OBVIOUS
    <2>2. Packed(<< >>) = {}
        BY <2>1 DEF Packed
    <2>3. Cardinality({}) = 0
        BY FS_EmptySet
    <2>none. PICK none : none = << >>
        OBVIOUS
    <2>4. /\ none \in Seq(Seq(Items)) /\ DOMAIN none = {}
          /\ Packed(none) = {}
        BY <2>none, <2>1, <2>2, Zenon
    <2>5. Packing(none, 0)
        BY <2>3, <2>4 DEF Packing
    <2> QED
        BY <2>5, <2>none, <1>1, <1>2
<1>4. ASSUME NEW k \in 0..N, k \in S, k < N
      PROVE  k + 1 \in S
    <2>1. k + 1 \in 1..N /\ k + 1 \in 0..N /\ (k + 1) - 1 = k /\ k \in Nat
        BY <1>1, <1>4
    <2>2. bins[k + 1] = PackNext(input, informed, bins[k])
        BY <1>2, <2>1
    <2>3. Packing(PackNext(input, informed, bins[k]), k + 1)
        BY <1>4, <1>N, <2>1, PackingNext
    <2> QED
        BY <2>1, <2>2, <2>3
<1>5. N \in S
    <2> HIDE DEF S
    <2>1. \A k \in 0..N : k \in S /\ k < N => k + 1 \in S
        BY <1>4
    <2>2. 0..N \subseteq S /\ N \in 0..N
        BY <1>1, <1>3, <2>1, CountedUp
    <2> QED
        BY <2>2
<1> QED
    BY <1>1, <1>5, <1>N DEF BinPack

\* All items are packed once, so the packing is accepted if no bin is too heavy, which is
\* if no item is.
LEMMA PackingSolves ==
    ASSUME input \in PackingTasks, NEW informed \in BOOLEAN
    PROVE  ValidatePacking(input, BinPack(input, informed)).valid
               <=> \A i \in Items : input.weight[i] <= input.capacity
<1>bins. PICK bins : bins = BinPack(input, informed)
    OBVIOUS
<1>n. PICK n : n = Len(bins)
    OBVIOUS
<1>1. /\ bins \in Seq(Seq(Items))
      /\ \A b \in DOMAIN bins : GoodBin(bins[b])
      /\ \A b, c \in DOMAIN bins : ToSet(bins[b]) \intersect ToSet(bins[c]) # {} => b = c
      /\ Packed(bins) \subseteq Items /\ Cardinality(Packed(bins)) = ItemCount
    BY <1>bins, WorkerPacks DEF Packing
<1>2. IsFiniteSet(Items) /\ Cardinality(Items) = ItemCount
    BY PackingTaskParts
<1>3. Packed(bins) = Items
    BY <1>1, <1>2, FS_Subset
<1>4. n \in Nat /\ DOMAIN bins = 1..n /\ bins \in [1..n -> Seq(Items \union {Unknown})]
    <2>1. n \in Nat /\ DOMAIN bins = 1..n /\ bins \in [1..n -> Seq(Items)]
        BY <1>n, <1>1, LenProperties
    <2>2. \A s \in Seq(Items) : s \in Seq(Items \union {Unknown})
        OBVIOUS
    <2> QED
        BY <2>1, <2>2
<1>5. \A b \in 1..n :
          /\ bins[b] \in Seq(Items \union {Unknown}) /\ ToSet(bins[b]) \subseteq Items
          /\ IsInjective(bins[b])
    <2> TAKE b \in 1..n
    <2>1. /\ bins[b] \in Seq(Items)
          /\ IsInjective(bins[b])
        BY <1>1, <1>4 DEF GoodBin
    <2>2. ToSet(bins[b]) \subseteq Items
        BY <2>1, LenProperties, ElementOfSeq DEF ToSet
    <2> QED
        BY <2>1, <2>2, <1>4
<1>6. \A i \in Items : \E b \in 1..n : i \in ToSet(bins[b])
    BY <1>3, <1>4 DEF Packed
<1>7. InOneBin(bins)
    <2>1. ASSUME NEW i \in Items
          PROVE  Cardinality({b \in DOMAIN bins : i \in ToSet(bins[b])}) = 1
        <3>1. PICK b \in 1..n : i \in ToSet(bins[b])
            BY <1>6
        <3>2. {c \in DOMAIN bins : i \in ToSet(bins[c])} = {b}
            BY <3>1, <1>1, <1>4
        <3> QED
            BY <3>2, FS_Singleton
    <2>2. \A b \in DOMAIN bins : /\ ToSet(bins[b]) \subseteq Items
                                 /\ Len(bins[b]) = Cardinality(ToSet(bins[b]))
        BY <1>4, <1>5, NoItemTwice
    <2> QED
        BY <2>1, <2>2 DEF InOneBin
<1>8. \A b \in 1..n : BinWeight(input, bins[b]) = Weight(ToSet(bins[b]))
    BY <1>5, BinWeighsItsItems
<1>9. IsPacking(bins) <=> \A b \in 1..n : BinWeight(input, bins[b]) <= input.capacity
    <2>1. IsPacking(bins) <=> \A b \in DOMAIN bins : Weight(ToSet(bins[b])) <= input.capacity
        BY <1>7 DEF IsPacking, InOneBin
    <2> QED
        BY <2>1, <1>4, <1>8
<1>10. ASSUME \A i \in Items : input.weight[i] <= input.capacity, NEW b \in 1..n
       PROVE  BinWeight(input, bins[b]) <= input.capacity
    <2>1. \/ BinWeight(input, bins[b]) <= input.capacity
          \/ \E i \in ToSet(bins[b]) : input.weight[i] > input.capacity
        BY <1>1, <1>4 DEF GoodBin
    <2>2. \A i \in Items : ~ (input.weight[i] > input.capacity)
        BY <1>10, PackingTaskParts
    <2> QED
        BY <2>1, <2>2, <1>5
<1>11. ASSUME \A b \in 1..n : BinWeight(input, bins[b]) <= input.capacity, NEW i \in Items
       PROVE  input.weight[i] <= input.capacity
    <2>1. PICK b \in 1..n : i \in ToSet(bins[b])
        BY <1>6
    <2>2. input.weight[i] <= BinWeight(input, bins[b]) /\ BinWeight(input, bins[b]) \in Nat
        BY <2>1, <1>1, <1>4 DEF GoodBin
    <2>w. PICK w : w = BinWeight(input, bins[b])
        OBVIOUS
    <2>3. w \in Nat /\ input.weight[i] <= w /\ w <= input.capacity
        BY <2>2, <2>w, <1>11
    <2>4. input.weight[i] \in Nat /\ input.capacity \in Int
        BY PackingTaskParts
    <2> QED
        BY <2>3, <2>4
<1>12. ValidatePacking(input, bins).valid <=> IsPacking(bins)
    BY <1>4, PackingsAccepted
<1> QED
    BY <1>9, <1>10, <1>11, <1>12, <1>bins

\* Whatever the task, the offline worker solves it if it can be solved.
LEMMA CandidatesSolve ==
    ASSUME input \in ColoringTasks \union CoverTasks \union PackingTasks,
           NEW informed \in BOOLEAN
    PROVE  /\ Validate(input, LocalCandidate(input, informed)).valid <=> Solvable
           /\ input.family = "graph-coloring" =>
                  WithinBounds(informed, Validate(input, LocalCandidate(input, informed)).score)
<1>c. PICK c : c = LocalCandidate(input, informed)
    OBVIOUS
<1>1. CASE input \in ColoringTasks
    <2>1. input.family = "graph-coloring"
        BY <1>1 DEF ColoringTasks
    <2>2. c = [key |-> "assignments", value |-> GreedyColoring(input, informed)]
        BY <1>c, <2>1 DEF LocalCandidate
    <2>3. Validate(input, c) = ValidateColoring(input, GreedyColoring(input, informed))
        BY <2>1, <2>2 DEF Validate
    <2>4. Solvable
        BY <2>1 DEF Solvable
    <2>v. PICK verdict : verdict = ValidateColoring(input, GreedyColoring(input, informed))
        OBVIOUS
    <2>5. /\ verdict.valid
          /\ verdict.score <= 1 + Max({0} \union {Degree(input, n) : n \in Nodes})
        BY <1>1, <2>v, ColoringSolves
    <2>6. WithinBounds(informed, verdict.score)
        BY <2>1, <2>5 DEF WithinBounds
    <2> QED
        BY <2>3, <2>4, <2>v, <2>5, <2>6, <1>c
<1>2. CASE input \in CoverTasks
    <2>1. input.family = "set-cover"
        BY <1>2 DEF CoverTasks
    <2>2. c = [key |-> "selected_sets", value |-> SetCover(input, informed)]
        BY <1>c, <2>1 DEF LocalCandidate
    <2>3. Validate(input, c) = ValidateCover(input, SetCover(input, informed))
        BY <2>1, <2>2 DEF Validate
    <2>4. Solvable <=> /\ input.universe # {}
                       /\ input.universe \subseteq UNION {input.members[s] : s \in Sets}
        BY <2>1 DEF Solvable
    <2> QED
        BY <1>2, <1>c, <2>1, <2>3, <2>4, CoverSolves
<1>3. CASE input \in PackingTasks
    <2>1. input.family = "bin-packing"
        BY <1>3 DEF PackingTasks
    <2>2. c = [key |-> "bins", value |-> BinPack(input, informed)]
        BY <1>c, <2>1 DEF LocalCandidate
    <2>3. Validate(input, c) = ValidatePacking(input, BinPack(input, informed))
        BY <2>1, <2>2 DEF Validate
    <2>4. Solvable <=> \A i \in Items : input.weight[i] <= input.capacity
        BY <2>1 DEF Solvable
    <2> QED
        BY <1>3, <1>c, <2>1, <2>3, <2>4, PackingSolves
<1> QED
    BY <1>1, <1>2, <1>3

-----------------------------------------------------------------------------
(* The theorems *)

\* Every input is of the kind it says.
Inputs ==
    /\ kind = "history" => input \in Seq(Attempt)
    /\ kind = "text" => input \in Seq(Token)
    /\ kind = "script" => input \in Seq(Reply)
    /\ kind = "task" => input \in ColoringTasks \union CoverTasks \union PackingTasks

\* Inputs grow by items of their kind.
LEMMA InputsTyped == Spec => []Inputs
<1>1. Init => Inputs
    <2>1. << >> \in Seq(Attempt) /\ << >> \in Seq(Token) /\ << >> \in Seq(Reply)
        OBVIOUS
    <2>2. Init => kind = "task" \/ input = << >>
        BY DEF Init
    <2>3. Init => (kind = "task" =>
                       input \in ColoringTasks \union CoverTasks \union PackingTasks)
        <3>1. Init => \/ kind \in {"history", "text", "script"}
                      \/ input \in ColoringTasks \union CoverTasks \union PackingTasks
            BY Zenon DEF Init
        <3> QED
            BY <3>1
    <2> QED
        BY <2>1, <2>2, <2>3 DEF Inputs
<1>2. Inputs /\ [Next]_vars => Inputs'
    <2> SUFFICES ASSUME Inputs, [Next]_vars
                 PROVE  Inputs'
        OBVIOUS
    <2>1. CASE Record
        BY <2>1 DEF Record, Grow, Inputs
    <2>2. CASE Write
        BY <2>2 DEF Write, Grow, Inputs
    <2>3. CASE Answer
        BY <2>3 DEF Answer, Grow, Inputs
    <2>4. CASE UNCHANGED vars
        BY <2>4 DEF vars, Inputs
    <2> QED
        BY <2>1, <2>2, <2>3, <2>4 DEF Next
<1> QED
    BY <1>1, <1>2, PTL DEF Spec

\* scheduler.py: for any attempts that a store lists, each policy picks one task, the one
\* with the least key of the source (the choice of the campaign runner and of the Git
\* controller).
THEOREM ChoiceIsDetermined == Spec => []ChoiceIsLeastKey
<1>1. Inputs => ChoiceIsLeastKey
    <2>1. CASE kind = "history"
        BY <2>1, ChoiceFromHistory DEF Inputs, HistoryInput
    <2>2. CASE kind # "history"
        BY <2>2 DEF ChoiceIsLeastKey
    <2> QED
        BY <2>1, <2>2
<1> QED
    BY <1>1, InputsTyped, PTL

\* contracts.py: in a text of any length, the contract that ends it is read, and nothing
\* but the last JSON is.
THEOREM ContractAtTheEnd == Spec => []LastContractIsRead
<1>1. Inputs => LastContractIsRead
    <2>1. CASE kind = "text"
        BY <2>1, ContractFromText DEF Inputs
    <2>2. CASE kind # "text"
        BY <2>2 DEF LastContractIsRead
    <2> QED
        BY <2>1, <2>2
<1> QED
    BY <1>1, InputsTyped, PTL

\* openhands.py: with any number of retries and whatever replies are lost, a write is done
\* once if it returns and at most once if it raises.
THEOREM NoWriteTwice == Spec => []WriteIsDoneOnce
<1>1. Inputs => WriteIsDoneOnce
    <2>1. CASE kind = "script"
        BY <2>1, WriteFromScript DEF Inputs
    <2>2. CASE kind # "script"
        BY <2>2 DEF WriteIsDoneOnce
    <2> QED
        BY <2>1, <2>2
<1> QED
    BY <1>1, InputsTyped, PTL

\* The figures agree after every attempt.
LEMMA FiguresAlwaysAgree == Spec => [](kind = "history" => FiguresAgree(input))
<1>1. Init => (kind = "history" => FiguresAgree(input))
    <2>1. Init => (kind = "history" => input = << >>)
        BY DEF Init
    <2> QED
        BY <2>1, FiguresOfNone
<1>2. /\ Inputs /\ (kind = "history" => FiguresAgree(input)) /\ [Next]_vars
      => (kind = "history" => FiguresAgree(input))'
    <2> SUFFICES ASSUME Inputs, kind = "history" => FiguresAgree(input), [Next]_vars,
                        kind' = "history"
                 PROVE  FiguresAgree(input')
        BY Zenon DEF FiguresAgree
    <2>1. CASE Record
        <3>1. PICK a \in Attempt : input' = Append(input, a)
            BY <2>1 DEF Record, Grow
        <3>2. input \in Seq(Attempt) /\ FiguresAgree(input)
            BY <2>1 DEF Record, Grow, Inputs
        <3> QED
            BY <3>1, <3>2, FiguresOfOneMore
    <2>2. CASE Write \/ Answer
        BY <2>2 DEF Write, Answer, Grow
    <2>3. CASE UNCHANGED vars
        BY <2>3 DEF vars
    <2> QED
        BY <2>1, <2>2, <2>3 DEF Next
<1> QED
    BY <1>1, <1>2, InputsTyped, PTL DEF Spec

\* comparison.py and runner.py: for histories of any length, over any tasks, targets and
\* scores, the sums that the comparison carries along are the quality of the report and
\* the area under it, computed from scratch.
THEOREM FiguresOfTheReport == Spec => []AreaIsSumOfPrefixes
<1>1. (kind = "history" => FiguresAgree(input)) => AreaIsSumOfPrefixes
    BY DEF FiguresAgree, Curve, AreaIsSumOfPrefixes
<1> QED
    BY <1>1, FiguresAlwaysAgree, PTL

\* benchmark.py: for tasks of any size, any selection or any packing, the validators
\* accept the solutions of their problem and nothing else.
THEOREM ValidatorsDecide == Spec => []AcceptsExactlySolutions
<1>1. Inputs => AcceptsExactlySolutions
    BY CandidatesDecided DEF Inputs, AcceptsExactlySolutions
<1> QED
    BY <1>1, InputsTyped, PTL

\* workers.py: whatever the size of the task and whether or not a lesson is used, the
\* offline worker solves every task that can be solved, and nothing it says of another
\* task is accepted.
THEOREM OfflineWorkerSolves == Spec => []LocalCandidateSolves
<1>1. Inputs => LocalCandidateSolves
    BY CandidatesSolve DEF Inputs, LocalCandidateSolves
<1> QED
    BY <1>1, InputsTyped, PTL

\* workers.py: greedy coloring, in either order of the nodes, uses no more colors than one
\* more than the greatest degree.
THEOREM ColoringsWithinBounds ==
    Spec => [](kind = "task" /\ input.family = "graph-coloring" =>
                   \A informed \in BOOLEAN :
                       LET verdict == Validate(input, LocalCandidate(input, informed))
                       IN  verdict.valid /\ WithinBounds(informed, verdict.score))
<1> DEFINE Bounded ==
        kind = "task" /\ input.family = "graph-coloring" =>
            \A informed \in BOOLEAN :
                LET verdict == Validate(input, LocalCandidate(input, informed))
                IN  verdict.valid /\ WithinBounds(informed, verdict.score)
<1>1. Inputs => Bounded
    <2> SUFFICES ASSUME Inputs, kind = "task", input.family = "graph-coloring",
                        NEW informed \in BOOLEAN
                 PROVE  LET verdict == Validate(input, LocalCandidate(input, informed))
                        IN  verdict.valid /\ WithinBounds(informed, verdict.score)
        OBVIOUS
    <2>1. Solvable
        BY DEF Solvable
    <2> QED
        BY <2>1, CandidatesSolve DEF Inputs
<1> HIDE DEF Bounded
<1>2. Spec => []Bounded
    BY <1>1, InputsTyped, PTL
<1> QED
    BY <1>2 DEF Bounded
=============================================================================
