--------------------------- MODULE ResearchLedger ---------------------------
(***************************************************************************)
(* What the file store promises of a research ledger, whatever crashes,    *)
(* restarts and competing controllers do: a run is opened once under one   *)
(* manifest, its sequences are claimed in order, one at a time and within  *)
(* the budget, and a claim is settled by exactly one immutable result.     *)
(* CampaignRunner is shown to implement it.                                *)
(***************************************************************************)
EXTENDS ResearchData

VARIABLES
    manifest,     \* [Run -> Manifest or None]
    claims,       \* every attempt ever claimed
    results       \* the result of every settled claim

ledger == <<manifest, claims, results>>

Claim == [run : Run, id : AttemptId, seq : Nat, task : Task]
Outcome == {"completed", "blocked", "failed"}
Result == [claim : Claim, outcome : Outcome, score : Score \union {None}]

ClaimsOf(r) == {c \in claims : c.run = r}
Settled(c) == \E x \in results : x.claim = c

Init ==
    /\ manifest = [r \in Run |-> None]
    /\ claims = {}
    /\ results = {}

\* create_run: a manifest is written once.
Open(r, m) ==
    /\ manifest[r] = None
    /\ manifest' = [manifest EXCEPT ![r] = m]
    /\ UNCHANGED <<claims, results>>

NoneOpen(r) == \A c \in ClaimsOf(r) : Settled(c)

\* A claim takes the next sequence of its run, under a fresh id, once every
\* earlier claim of the run is settled.
MakeClaim(r, id, task) ==
    /\ manifest[r] # None
    /\ task \in TasksOf[manifest[r].campaign]
    /\ \A c \in claims : c.id # id
    /\ \E q \in 1..BudgetOf[manifest[r].campaign] :
          /\ {c.seq : c \in ClaimsOf(r)} = 1..(q - 1)
          /\ claims' = claims \union {[run |-> r, id |-> id, seq |-> q, task |-> task]}
    /\ NoneOpen(r)
    /\ UNCHANGED <<manifest, results>>

Unsettled(c) == ~Settled(c)

\* Only a completed attempt has a score.
Settle(c, outcome, score) ==
    /\ Unsettled(c)
    /\ score # None => outcome = "completed"
    /\ results' = results \union {[claim |-> c, outcome |-> outcome, score |-> score]}
    /\ UNCHANGED <<manifest, claims>>

Next ==
    \/ \E r \in Run, m \in Manifest : Open(r, m)
    \/ \E r \in Run, id \in AttemptId, task \in Task : MakeClaim(r, id, task)
    \/ \E c \in claims, outcome \in Outcome, score \in Score \union {None} :
          Settle(c, outcome, score)

Spec == Init /\ [][Next]_ledger

-----------------------------------------------------------------------------
\* Each slot of a run's budget yields one result: a sequence is claimed once and
\* a claim settled once, so no retry or recovery is counted twice (store.py:127-132).
OncePerSequence ==
    /\ \A c, d \in claims : c.run = d.run /\ c.seq = d.seq => c = d
    /\ \A x, y \in results : x.claim = y.claim => x = y

\* A claim is in the budget, and only the last claim of a run may be open: what a
\* resumed run has to recover is one attempt (runner.py:196-272).
OnlyLastOpen ==
    \A c \in claims :
        /\ c.seq \in 1..BudgetOf[manifest[c.run].campaign]
        /\ \A d \in ClaimsOf(c.run) : d.seq < c.seq => Settled(d)

\* Types of the ledger.
LedgerTypeOK ==
    /\ manifest \in [Run -> Manifest \union {None}]
    /\ claims \subseteq Claim
    /\ results \subseteq Result

\* The inductive invariant: claims fill the sequences of a run from 1, under a
\* manifest that is there, and results are of claims.
LInv ==
    /\ LedgerTypeOK /\ OncePerSequence /\ OnlyLastOpen
    /\ \A c \in claims : manifest[c.run] # None
    /\ \A x \in results : x.claim \in claims
=============================================================================
