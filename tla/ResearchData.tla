---------------------------- MODULE ResearchData ----------------------------
(***************************************************************************)
(* The documents of the research ledger (domain.py, runner.py, store.py)   *)
(* and the constants they are built from.  Ids stand for themselves; a     *)
(* task is a number, its place in the order of the task ids.               *)
(***************************************************************************)
EXTENDS Naturals, FiniteSets

CONSTANTS
    Run,          \* run ids: <campaign>-<timestamp>-<uuid>, never reused
    AttemptId,    \* attempt ids: attempt-<sequence>-<uuid>, never reused
    Campaign,     \* campaign files, by content hash
    Policy,       \* scheduler names in use
    Task,         \* task ids
    TasksOf,      \* the tasks of each campaign
    BudgetOf,     \* the attempt budget of each campaign
    Score,        \* the validator's scores; smaller is better
    Statement,    \* lesson statements (with their tags)
    None          \* Python's None, no score, no lesson, no manifest

ASSUME TasksAssumption == Task \subseteq Nat /\ TasksOf \in [Campaign -> SUBSET Task]
ASSUME PolicyAssumption == Policy \subseteq {"managed", "round_robin"}
ASSUME BudgetAssumption == BudgetOf \in [Campaign -> Nat \ {0}]
ASSUME ScoreAssumption == Score \subseteq Nat
\* The immutable part of runs/<run>/manifest.json.
Manifest == [campaign : Campaign, scheduler : Policy]

ASSUME NoneAssumption == None \notin Score /\ None \notin Statement /\ None \notin Manifest

\* A lesson id hashes the statement, its tags and the task.
LessonId == Task \X Statement
Lesson == [id : LessonId, source : AttemptId]

\* The payload of an attempt_selected event.
Selection == [run : Run, id : AttemptId, seq : Nat \ {0}, task : Task,
              lessons : SUBSET LessonId]

\* attempts/<attempt>.json
Attempt == [run : Run, id : AttemptId, seq : Nat \ {0}, task : Task,
            retrieved : SUBSET LessonId, outcome : {"completed", "blocked", "failed"},
            valid : BOOLEAN, score : Score \union {None},
            improved : BOOLEAN, promoted : LessonId \union {None}]
=============================================================================
