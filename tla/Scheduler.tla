----------------------------- MODULE Scheduler -----------------------------
(***************************************************************************)
(* The two scheduling policies of scheduler.py, as orders on tasks.  A     *)
(* policy picks the minimum of a Python tuple key; here the key comparison *)
(* is a relation Before(t, u) and the pick is the task before all others.  *)
(* A task is a natural number, its place in the order of the task ids.     *)
(* An attempt is any record with the fields task, valid and score.         *)
(***************************************************************************)
EXTENDS Naturals, FiniteSets

\* Counter(attempt["task_id"] for attempt in attempts)[t]
Count(t, attempts) == Cardinality({a \in attempts : a.task = t})

\* The scores of the valid attempts of t.
ValidScores(t, attempts) ==
    {a.score : a \in {b \in attempts : b.task = t /\ b.valid}}

\* best(t) > best(u), where the best score of a task without a valid attempt
\* is infinite: u has a score below every score of t.
Weaker(t, u, attempts) ==
    \E best \in ValidScores(u, attempts) :
        \A s \in ValidScores(t, attempts) : best < s

RoundRobinBefore(t, u, attempts) ==
    \/ Count(t, attempts) < Count(u, attempts)
    \/ Count(t, attempts) = Count(u, attempts) /\ t < u

\* A slip: the count is left out of the key, as the design document words it.
WeakestAfterCoverage(t, u, attempts) ==
    \/ Count(t, attempts) = 0 /\ Count(u, attempts) # 0
    \/ /\ (Count(t, attempts) = 0) = (Count(u, attempts) = 0)
       /\ \/ Weaker(t, u, attempts)
          \/ ~Weaker(u, t, attempts) /\ t < u

\* The key (unattempted, count, -best, id).  A count of 0 is the least count,
\* so the first component never decides anything the second does not.
ManagedBefore(t, u, attempts) ==
    \/ Count(t, attempts) < Count(u, attempts)
    \/ /\ Count(t, attempts) = Count(u, attempts)
       /\ \/ Weaker(t, u, attempts)
          \/ ~Weaker(u, t, attempts) /\ t < u

Before(policy, t, u, attempts) ==
    IF policy = "managed" THEN ManagedBefore(t, u, attempts)
                          ELSE RoundRobinBefore(t, u, attempts)

\* min(tasks, key = ...) is t.
IsChoice(policy, t, tasks, attempts) ==
    /\ t \in tasks
    /\ \A u \in tasks \ {t} : Before(policy, t, u, attempts)
=============================================================================
