------------------------ MODULE ResearchLedgerProofs ------------------------
(***************************************************************************)
(* The ledger keeps its promise for every set of runs, campaigns and       *)
(* attempts.                                                               *)
(***************************************************************************)
EXTENDS ResearchLedger, TLAPS

LEMMA InitLInv == Init => LInv
BY DEF Init, LInv, LedgerTypeOK, OncePerSequence, OnlyLastOpen

\* A run that has claims has a manifest already, so opening does not change theirs.
LEMMA OpenKeeps ==
    ASSUME LInv, NEW r \in Run, NEW m \in Manifest, Open(r, m)
    PROVE  LInv'
<1>1. LedgerTypeOK'
    BY DEF LInv, LedgerTypeOK, Open
<1>2. \A c \in claims : manifest'[c.run] = manifest[c.run]
    BY DEF LInv, LedgerTypeOK, Open, Claim
<1> QED
    BY <1>1, <1>2 DEF LInv, Open, OncePerSequence, OnlyLastOpen, ClaimsOf, Settled

LEMMA MakeClaimKeeps ==
    ASSUME LInv, NEW r \in Run, NEW id \in AttemptId, NEW task \in Task,
           MakeClaim(r, id, task)
    PROVE  LInv'
<1>1. manifest[r] \in Manifest /\ BudgetOf[manifest[r].campaign] \in Nat
    BY BudgetAssumption DEF MakeClaim, LInv, LedgerTypeOK, Manifest
<1>2. PICK q \in 1..BudgetOf[manifest[r].campaign] :
          /\ {c.seq : c \in ClaimsOf(r)} = 1..(q - 1)
          /\ claims' = claims \union {[run |-> r, id |-> id, seq |-> q, task |-> task]}
    BY DEF MakeClaim
<1> DEFINE new == [run |-> r, id |-> id, seq |-> q, task |-> task]
<1>3. new \in Claim /\ q \in Nat
    BY <1>1 DEF Claim
<1>4. \A c \in ClaimsOf(r) : c.seq < q /\ c.seq \in Nat
    BY <1>2, <1>3
<1>5. UNCHANGED <<manifest, results>> /\ \A c \in ClaimsOf(r) : Settled(c)
    BY DEF MakeClaim, NoneOpen
<1>6. LedgerTypeOK'
    BY <1>2, <1>3, <1>5 DEF LInv, LedgerTypeOK
<1>7. OncePerSequence'
    BY <1>2, <1>4, <1>5 DEF LInv, OncePerSequence, ClaimsOf
<1>8. OnlyLastOpen'
    <2>1. ASSUME NEW c \in claims'
          PROVE  c.seq \in 1..BudgetOf[manifest[c.run].campaign]
        BY <1>2 DEF LInv, OnlyLastOpen
    <2>2. ASSUME NEW c \in claims', NEW d \in claims', d.run = c.run, d.seq < c.seq
          PROVE  Settled(d)
        <3>1. CASE c = new
            BY <1>2, <1>3, <1>5, <2>2, <3>1 DEF ClaimsOf
        <3>2. CASE c # new
            BY <1>2, <1>3, <1>4, <2>2, <3>2 DEF LInv, OnlyLastOpen, ClaimsOf
        <3> QED
            BY <3>1, <3>2
    <2> QED
        BY <1>5, <2>1, <2>2 DEF OnlyLastOpen, ClaimsOf, Settled
<1>9. \A c \in claims' : manifest[c.run] # None
    BY <1>2 DEF MakeClaim, LInv
<1> QED
    BY <1>2, <1>5, <1>6, <1>7, <1>8, <1>9 DEF LInv

LEMMA SettleKeeps ==
    ASSUME LInv, NEW c \in claims, NEW outcome \in Outcome, NEW score \in Score \union {None},
           Settle(c, outcome, score)
    PROVE  LInv'
<1> DEFINE new == [claim |-> c, outcome |-> outcome, score |-> score]
<1>1. /\ results' = results \union {new} /\ UNCHANGED <<manifest, claims>>
      /\ \A x \in results : x.claim # c
    BY DEF Settle, Unsettled, Settled
<1>2. LedgerTypeOK'
    BY <1>1 DEF LInv, LedgerTypeOK, Result
<1>3. OncePerSequence'
    BY <1>1 DEF LInv, OncePerSequence
<1>4. OnlyLastOpen'
    BY <1>1 DEF LInv, OnlyLastOpen, ClaimsOf, Settled
<1> QED
    BY <1>1, <1>2, <1>3, <1>4 DEF LInv

LEMMA NextLInv == LInv /\ [Next]_ledger => LInv'
<1>1. LInv /\ UNCHANGED ledger => LInv'
    BY DEF LInv, ledger, LedgerTypeOK, OncePerSequence, OnlyLastOpen, ClaimsOf, Settled
<1> QED
    BY <1>1, OpenKeeps, MakeClaimKeeps, SettleKeeps DEF Next

\* No slot of a budget yields two results, whatever is retried or recovered.
THEOREM OneResultPerSlot == Spec => []OncePerSequence
<1>1. LInv => OncePerSequence
    BY DEF LInv
<1> QED
    BY <1>1, InitLInv, NextLInv, PTL DEF Spec

\* Whatever is open in a run is its last claim.
THEOREM LastOpen == Spec => []OnlyLastOpen
<1>1. LInv => OnlyLastOpen
    BY DEF LInv
<1> QED
    BY <1>1, InitLInv, NextLInv, PTL DEF Spec
=============================================================================
