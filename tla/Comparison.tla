----------------------------- MODULE Comparison -----------------------------
(***************************************************************************)
(* The quality figures of comparison.py (summarize_arm) and of runner.py   *)
(* (_normalized_quality).  Qualities are counted in units of 1 / Scale and *)
(* left undivided by the number of tasks and of attempts, so that every    *)
(* figure is an integer.  Attempts come as the sequence that the store     *)
(* lists, with the fields of Scheduler.                                    *)
(***************************************************************************)
EXTENDS Sums, SequencesExt

CONSTANTS
    Scale,          \* a multiple of every positive score
    Target,         \* target_score of each task, or NoTarget
    NoTarget,
    NoScore         \* None in place of a score

ASSUME FiguresAssumption ==
    /\ Scale \in Nat
    /\ Target \in Seq(Int \union {NoTarget}) /\ NoTarget \notin Int
    /\ NoScore \notin Int

\* quality() of summarize_arm, and the body of the loop of _normalized_quality.
Quality(t, score) ==
    CASE score = NoScore -> 0
      [] score # NoScore /\ Target[t] = NoTarget -> Scale
      [] score # NoScore /\ Target[t] # NoTarget /\ score <= 0 -> 0
      [] OTHER -> Min({Scale, (Scale * Target[t]) \div score})

NoAttempts == [best |-> [t \in DOMAIN Target |-> NoScore], total |-> 0, sum |-> 0]

Improves(arm, a) ==
    a.valid /\ (arm.best[a.task] = NoScore \/ a.score < arm.best[a.task])

\* A slip: the quality that the attempt replaces is not taken back.
TotalOfImprovements(arm, a) == arm.total + Quality(a.task, a.score)

TotalAfter(arm, a) ==
    arm.total + Quality(a.task, a.score) - Quality(a.task, arm.best[a.task])

\* One round of the loop over the attempts.
Account(arm, a) ==
    LET total == IF Improves(arm, a) THEN TotalAfter(arm, a) ELSE arm.total
    IN  [best |-> IF Improves(arm, a) THEN [arm.best EXCEPT ![a.task] = a.score]
                  ELSE arm.best,
         total |-> total,
         sum |-> arm.sum + total]

\* The loop over the attempts: where it stands after each of them.
Rounds(attempts) ==
    LET arm[n \in 0..Len(attempts)] ==
            IF n = 0 THEN NoAttempts ELSE Account(arm[n - 1], attempts[n])
    IN  arm

\* best_scores, normalized_solution_quality and quality_auc of an arm.
SummarizeArm(attempts) == Rounds(attempts)[Len(attempts)]

\* _best_score
BestScore(t, attempts) ==
    LET scores == {a.score : a \in {b \in ToSet(attempts) : b.task = t /\ b.valid}}
    IN  IF scores = {} THEN NoScore ELSE Min(scores)

\* _normalized_quality
NormalizedQuality(attempts) ==
    SumOf([t \in DOMAIN Target |-> Quality(t, BestScore(t, attempts))])
=============================================================================
