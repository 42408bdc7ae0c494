----------------------- MODULE CanvasControllerProofs -----------------------
(***************************************************************************)
(* Theorems about CanvasController, for any number of jobs and runs, any   *)
(* budget and launch lock, every set of deployments and any number of      *)
(* crashes and faults.                                                     *)
(***************************************************************************)
EXTENDS CanvasController, FiniteSetTheorems, SequenceTheorems, WellFoundedInduction, TLAPS

Memory == [pc : {"off", "lock", "open", "select", "return", "status"} \union Working,
           want : Run \union {0}, run : Run \union {0},
           cur : Attempt \union {<<0, 0>>}, conv : Nat,
           outcome : Outcome \union {None}, code : {0, 2}]

Inside == {"open", "select", "return"} \union Working
Unnamed == {"gate", "workspace", "create", "ready"}
Created == {"ready", "run"}
Admitting == {"workspace", "create"}

\* Runs are claimed in order, each sequence after the one before was recorded.
LedgerInv ==
    /\ \A a \in claimed : a[1] <= opened /\ \A q \in 1..(a[2] - 1) : record[<<a[1], q>>] # None
    /\ \A a \in Attempt : record[a] # None => a \in claimed

\* What a job that is past its plan knows of the store.
InHand(m) ==
    /\ m.want <= opened
    /\ m.pc \in {"select", "return"} \union Working => m.run \in 1..opened
    /\ m.pc \in Working => m.cur \in claimed /\ record[m.cur] = None
    /\ m.pc \in Unnamed => named[m.cur] = 0
    /\ m.pc = "append" => m.outcome \in Outcome

\* What it knows of the backend.
OnBackend(m) ==
    /\ m.pc \in Created => m.conv \in DOMAIN conv /\ conv[m.conv].attempt = m.cur
    /\ m.pc = "run" => named[m.cur] = m.conv
    /\ m.pc \in Admitting \/ (m.pc \in Created /\ ~setup.auto) =>
           Cardinality(Running) < LaunchLockAt

JobInv(j) ==
    /\ job[j].pc \in Inside => lock = j
    /\ InHand(job[j])
    /\ OnBackend(job[j])

\* On a backend that obeys run: False, what runs or ran is the named conversation.
OnlyNamedRuns ==
    ~setup.auto => \A i \in DOMAIN conv : conv[i].state # "idle" => named[conv[i].attempt] = i

IInv ==
    /\ TypeOK
    /\ LedgerInv
    /\ \A j \in Job : JobInv(j)
    /\ OnlyNamedRuns
    /\ OwnRunningIsBounded

-----------------------------------------------------------------------------
(* Helpers *)

LEMMA LeastOf ==
    ASSUME NEW S, S \subseteq Nat, S # {}
    PROVE  Min(S) \in S /\ \A n \in S : Min(S) <= n
<1> DEFINE Below == {1..n : n \in S}
<1>1. IsWellFoundedOn(StrictSubsetOrdering(Nat), FiniteSubsetsOf(Nat))
    BY FS_StrictSubsetOrderingWellFounded
<1>2. Below # {} /\ Below \subseteq FiniteSubsetsOf(Nat)
    <2>1. \A n \in S : IsFiniteSet(1..n) /\ 1..n \in SUBSET Nat
        BY FS_Interval
    <2> QED
        BY <2>1 DEF FiniteSubsetsOf
<1> HIDE DEF Below
<1>3. PICK L \in Below : \A T \in Below : ~ (<<T, L>> \in StrictSubsetOrdering(Nat))
    BY <1>1, <1>2, WFMin
<1>4. PICK m \in S : L = 1..m
    BY DEF Below
<1>5. ASSUME NEW n \in S, n < m
      PROVE  FALSE
    <2>1. 1..n \in Below
        BY DEF Below
    <2>2. 1..n \subseteq 1..m /\ 1..n # 1..m /\ 1..n \in SUBSET Nat /\ 1..m \in SUBSET Nat
        <3>1. m \in 1..m /\ m \notin 1..n
            BY <1>5
        <3> QED
            BY <3>1, <1>5
    <2> QED
        BY <2>1, <2>2, <1>3, <1>4 DEF StrictSubsetOrdering
<1>6. \A n \in S : m <= n
    BY <1>5
<1> QED
    BY <1>6 DEF Min

\* One job moves; what others know of the store stays true because only the job that
\* moves is inside.
LEMMA OutsidersKeep ==
    ASSUME IInv, NEW j \in Job, lock = j,
           opened' \in Nat, opened <= opened', lock' = lock,
           \A k \in Job \ {j} : job'[k] = job[k]
    PROVE  \A k \in Job \ {j} : JobInv(k)'
<1> SUFFICES ASSUME NEW k \in Job \ {j}
             PROVE  JobInv(k)'
    OBVIOUS
<1>1. job[k].pc \notin Inside /\ InHand(job[k])
    BY DEF IInv, JobInv
<1>2. opened \in Nat /\ job[k].want \in Nat
    BY RunAssumption DEF IInv, TypeOK, Run
<1> QED
    BY <1>1, <1>2 DEF JobInv, InHand, OnBackend, Inside, Working, Unnamed, Created, Admitting

\* A step that leaves the ledger and the backend alone.
LEMMA QuietKeeps ==
    ASSUME IInv, NEW j \in Job, NEW m \in Memory,
           job' = [job EXCEPT ![j] = m],
           UNCHANGED <<opened, claimed, named, record, conv, setup>>,
           lock' \in {lock, j} \/ (lock = j /\ lock' = None),
           lock' = j \/ m.pc \notin Inside,
           lock' = j /\ lock # j => lock = None,
           InHand(m), OnBackend(m),
           status' \in {None, "failed", "complete", "waiting-for-next-tick"},
           workdir' \subseteq Attempt, crashes' \in Nat, faults' \in Nat
    PROVE  IInv'
<1>1. TypeOK'
    BY DEF IInv, TypeOK, Memory
<1>2. \A k \in Job \ {j} : job'[k] = job[k]
    BY DEF IInv, TypeOK
<1>3. job'[j] = m
    BY DEF IInv, TypeOK
<1>4. JobInv(j)'
    BY <1>3 DEF JobInv, InHand, OnBackend, Running
<1>5. ASSUME NEW k \in Job \ {j}
      PROVE  JobInv(k)'
    <2>1. JobInv(k)
        BY DEF IInv
    <2>2. job'[k].pc \in Inside => lock' = k
        BY <2>1, <1>2, NoneAssumption DEF JobInv
    <2> QED
        BY <2>1, <2>2, <1>2 DEF JobInv, InHand, OnBackend, Running
<1>6. LedgerInv' /\ OnlyNamedRuns' /\ OwnRunningIsBounded'
    BY DEF IInv, LedgerInv, OnlyNamedRuns, OwnRunningIsBounded, Running
<1> QED
    BY <1>1, <1>4, <1>5, <1>6 DEF IInv

-----------------------------------------------------------------------------
(* Quiet steps *)

\* A job in memory is typed; one that is inside holds the lock.
LEMMA Facts ==
    ASSUME IInv, NEW j \in Job
    PROVE  /\ job[j] \in Memory
           /\ job \in [Job -> Memory]
           /\ InHand(job[j]) /\ OnBackend(job[j])
           /\ job[j].pc \in Inside => lock = j
           /\ status \in {None, "failed", "complete", "waiting-for-next-tick"}
           /\ workdir \subseteq Attempt /\ crashes \in Nat /\ faults \in Nat
           /\ opened \in 0..MaxRuns /\ opened \in Nat
BY RunAssumption DEF IInv, TypeOK, JobInv, Memory

\* A job that is out of the store knows nothing of it.
LEMMA OutKnowsNothing ==
    ASSUME IInv, NEW m \in Memory, m.want = 0, m.pc \in {"off", "status", "lock"}
    PROVE  InHand(m) /\ OnBackend(m)
BY RunAssumption DEF IInv, TypeOK, InHand, OnBackend, Working, Unnamed, Created, Admitting

\* A plan resumes a run that is there.
LEMMA PlannedRun ==
    ASSUME IInv, IncompleteRuns # {}, Cardinality(IncompleteRuns) <= 1
    PROVE  Max(IncompleteRuns) \in 1..opened
<1>1. IncompleteRuns \subseteq 1..opened /\ opened \in Nat
    BY RunAssumption DEF IInv, TypeOK, IncompleteRuns, MatchingRuns
<1>2. IsFiniteSet(IncompleteRuns)
    <2>1. IsFiniteSet(1..opened)
        BY <1>1, FS_Interval
    <2> QED
        BY <1>1, <2>1, FS_Subset
<1>3. Cardinality(IncompleteRuns) = 1
    BY <1>2, FS_CardinalityType, FS_EmptySet
<1>4. PICK r : IncompleteRuns = {r}
    BY <1>2, <1>3, FS_Singleton
<1>5. r \in 1..opened /\ r >= r
    BY <1>1, <1>4
<1> QED
    BY <1>4, <1>5 DEF Max

LEMMA PlanKeeps ==
    ASSUME IInv, NEW j \in Job, Plan(j)
    PROVE  IInv'
<1> DEFINE w == IF MatchingRuns = {} THEN 0 ELSE Max(IncompleteRuns)
<1> DEFINE m == [job[j] EXCEPT !.pc = "lock", !.want = w]
<1>1. w \in 0..opened
    BY PlannedRun, Facts DEF Plan
<1>2. job' = [job EXCEPT ![j] = m]
    BY DEF Plan
<1>3. m \in Memory /\ m.pc = "lock" /\ m.want = w
    <2>1. w \in Run \union {0} /\ job[j] \in Memory
        BY <1>1, Facts, RunAssumption DEF Run
    <2> HIDE DEF w
    <2> QED
        BY <2>1 DEF Memory
<1>4. InHand(m) /\ OnBackend(m)
    BY <1>1, <1>3, Facts DEF InHand, OnBackend, Working, Unnamed, Created, Admitting
<1>5. m.pc \notin Inside
    BY <1>3 DEF Inside, Working
<1> HIDE DEF m, w
<1> QED
    BY <1>2, <1>3, <1>4, <1>5, Facts, QuietKeeps DEF Plan, store, bounds

LEMMA LeavesKeeps ==
    ASSUME IInv, NEW j \in Job, NEW code \in {0, 2}, Leaves(j, code),
           UNCHANGED <<opened, claimed, named, record, conv, setup, status>>,
           workdir' \subseteq Attempt, crashes' \in Nat, faults' \in Nat
    PROVE  IInv'
<1> DEFINE m == [Off EXCEPT !.pc = "status", !.code = code]
<1>1. m \in Memory /\ m.pc = "status" /\ m.want = 0
    BY DEF Off, Memory
<1>2. InHand(m) /\ OnBackend(m)
    BY <1>1, OutKnowsNothing
<1>3. m.pc \notin Inside
    BY <1>1 DEF Inside, Working
<1>4. job' = [job EXCEPT ![j] = m] /\ lock' = IF lock = j THEN None ELSE lock
    BY DEF Leaves
<1> HIDE DEF m
<1> QED
    BY <1>1, <1>2, <1>3, <1>4, Facts, QuietKeeps, NoneAssumption

\* The process is gone.
LEMMA VanishesKeeps ==
    ASSUME IInv, NEW j \in Job, job' = [job EXCEPT ![j] = Off],
           lock' = IF lock = j THEN None ELSE lock,
           UNCHANGED <<opened, claimed, named, record, conv, setup, workdir>>,
           status' \in {None, "failed", "complete", "waiting-for-next-tick"},
           crashes' \in Nat, faults' \in Nat
    PROVE  IInv'
<1>1. Off \in Memory /\ Off.pc = "off" /\ Off.want = 0
    BY DEF Off, Memory
<1>2. InHand(Off) /\ OnBackend(Off)
    BY <1>1, OutKnowsNothing
<1>3. Off.pc \notin Inside
    BY <1>1 DEF Inside, Working
<1> QED
    BY <1>1, <1>2, <1>3, Facts, QuietKeeps, NoneAssumption

\* The job inside moves to another place without touching ledger or backend.
LEMMA InsideKeeps ==
    ASSUME IInv, NEW j \in Job, job[j].pc \in Inside,
           NEW m \in Memory, job' = [job EXCEPT ![j] = m], InHand(m), OnBackend(m),
           UNCHANGED <<opened, claimed, named, record, conv, setup, lock, status>>,
           workdir' \subseteq Attempt, crashes' \in Nat, faults' \in Nat
    PROVE  IInv'
BY Facts, QuietKeeps

LEMMA FailingKeeps ==
    ASSUME IInv, NEW j \in Job, job[j].pc \in Working, Failing(j),
           UNCHANGED <<opened, claimed, named, record, conv, setup, lock, status, workdir>>,
           crashes' \in Nat, faults' \in Nat
    PROVE  IInv'
<1> DEFINE m == [job[j] EXCEPT !.pc = "append", !.outcome = "failed"]
<1>1. m \in Memory /\ m.pc = "append" /\ m.outcome = "failed" /\ m.want = job[j].want
      /\ m.run = job[j].run /\ m.cur = job[j].cur
    BY Facts DEF Memory, Working, Outcome
<1>2. InHand(m) /\ OnBackend(m)
    BY <1>1, Facts DEF InHand, OnBackend, Working, Unnamed, Created, Admitting, Outcome
<1>3. job' = [job EXCEPT ![j] = m] /\ job[j].pc \in Inside
    BY DEF Failing, Inside
<1> HIDE DEF m
<1> QED
    BY <1>1, <1>2, <1>3, Facts, InsideKeeps

\* The job inside goes to another place; what it must know there it knew before.
LEMMA GoesKeeps ==
    ASSUME IInv, NEW j \in Job, NEW pc, Goes(j, pc),
           job[j].pc \in Inside, pc \in Inside,
           pc \in Working => job[j].pc \in Working,
           pc \in Unnamed => job[j].pc \in Unnamed,
           pc \notin Created, pc # "append", pc # "open",
           job[j].pc = "open" => pc = "open",
           pc \in Admitting => Cardinality(Running) < LaunchLockAt,
           UNCHANGED <<opened, claimed, named, record, conv, setup, lock, status>>,
           workdir' \subseteq Attempt, crashes' \in Nat, faults' \in Nat
    PROVE  IInv'
<1> DEFINE m == [job[j] EXCEPT !.pc = pc]
<1>1. job[j] \in Memory /\ InHand(job[j]) /\ OnBackend(job[j])
    BY Facts
<1>2. m \in Memory /\ m.pc = pc /\ m.want = job[j].want /\ m.run = job[j].run
      /\ m.cur = job[j].cur
    BY <1>1 DEF Memory, Inside
<1>3. InHand(m)
    BY <1>1, <1>2 DEF InHand, Inside, Working, Unnamed
<1>4. OnBackend(m)
    BY <1>1, <1>2 DEF OnBackend, Created
<1>5. job' = [job EXCEPT ![j] = m]
    BY DEF Goes
<1> HIDE DEF m
<1> QED
    BY <1>2, <1>3, <1>4, <1>5, InsideKeeps

\* There are finitely many conversations.
LEMMA RunningIsFinite ==
    ASSUME IInv
    PROVE  /\ DOMAIN conv = 1..Len(conv) /\ Len(conv) \in Nat
           /\ IsFiniteSet(Running) /\ Cardinality(Running) \in Nat
<1>1. DOMAIN conv = 1..Len(conv) /\ Len(conv) \in Nat
    BY LenProperties DEF IInv, TypeOK
<1>2. IsFiniteSet(1..Len(conv)) /\ Running \subseteq 1..Len(conv)
    BY <1>1, FS_Interval DEF Running
<1>3. IsFiniteSet(Running)
    BY <1>2, FS_Subset
<1> QED
    BY <1>1, <1>3, FS_CardinalityType

-----------------------------------------------------------------------------
(* The tick *)

LEMMA CompleteKeeps ==
    ASSUME IInv, NEW j \in Job, Complete(j)
    PROVE  IInv'
<1>1. job' = [job EXCEPT ![j] = job[j]]
    BY Facts DEF Complete
<1> QED
    BY <1>1, Facts, QuietKeeps DEF Complete, store, bounds

LEMMA TakeLockKeeps ==
    ASSUME IInv, NEW j \in Job, TakeLock(j)
    PROVE  IInv'
<1> DEFINE m == [job[j] EXCEPT !.pc = "open"]
<1>1. job[j] \in Memory /\ InHand(job[j])
    BY Facts
<1>2. m \in Memory /\ m.pc = "open" /\ m.want = job[j].want
    BY <1>1 DEF Memory
<1>3. InHand(m) /\ OnBackend(m)
    BY <1>1, <1>2 DEF InHand, OnBackend, Working, Unnamed, Created, Admitting
<1>4. job' = [job EXCEPT ![j] = m]
    BY DEF TakeLock
<1> HIDE DEF m
<1> QED
    BY <1>2, <1>3, <1>4, Facts, QuietKeeps DEF TakeLock, store, bounds

LEMMA OpenRunKeeps ==
    ASSUME IInv, NEW j \in Job, OpenRun(j)
    PROVE  IInv'
<1> DEFINE r == IF job[j].want = 0 THEN opened + 1 ELSE job[j].want
           m == [job[j] EXCEPT !.pc = "select", !.run = r]
<1>1. job[j] \in Memory /\ InHand(job[j]) /\ job[j].pc = "open" /\ lock = j /\ opened \in 0..MaxRuns
    BY Facts DEF OpenRun, Inside
<1>2. /\ opened' \in 0..MaxRuns /\ opened <= opened' /\ opened' \in Nat /\ opened \in Nat
      /\ r \in 1..opened' /\ r \in Run /\ job[j].want <= opened'
    BY <1>1, RunAssumption DEF OpenRun, InHand, Memory, Run
<1>3. m \in Memory /\ m.pc = "select" /\ m.run = r /\ m.want = job[j].want
    <2> HIDE DEF r
    <2> QED
        BY <1>1, <1>2 DEF Memory
<1>4. job' = [job EXCEPT ![j] = m]
    BY DEF OpenRun
<1>5. job'[j] = m /\ \A k \in Job \ {j} : job'[k] = job[k]
    BY <1>4, Facts
<1> HIDE DEF m, r
<1>6. UNCHANGED <<lock, claimed, named, record, workdir, status, conv, setup, bounds>>
    BY DEF OpenRun
<1>7. JobInv(j)'
    BY <1>1, <1>2, <1>3, <1>5, <1>6
       DEF JobInv, InHand, OnBackend, Working, Unnamed, Created, Admitting
<1>8. \A k \in Job \ {j} : JobInv(k)'
    BY <1>1, <1>2, <1>5, <1>6, OutsidersKeep
<1>9. TypeOK'
    BY <1>2, <1>3, <1>4, <1>6 DEF IInv, TypeOK, Memory, bounds
<1>10. LedgerInv' /\ OnlyNamedRuns' /\ OwnRunningIsBounded'
    <2>1. \A a \in claimed : a[1] \in Nat
        BY RunAssumption DEF IInv, TypeOK, Attempt, Run
    <2> QED
        BY <1>2, <1>6, <2>1 DEF IInv, LedgerInv, OnlyNamedRuns, OwnRunningIsBounded, Running
<1> QED
    BY <1>7, <1>8, <1>9, <1>10 DEF IInv

\* The attempt that is taken up is not recorded, and if it is new then everything
\* before it is and nothing is pending.
LEMMA NextAttempt ==
    ASSUME IInv, NEW r \in 1..opened, NEW a \in Attempt, a = <<r, NextSequence(r)>>
    PROVE  /\ record[a] = None
           /\ a \notin claimed => Pending(r) = {} /\ \A q \in 1..(a[2] - 1) : record[<<r, q>>] # None
<1>0. Budget \in Nat /\ a[2] \in 1..Budget /\ a[2] = NextSequence(r) /\ a[1] = r
    BY BudgetAssumption DEF Attempt
<1>1. CASE Pending(r) # {}
    <2> DEFINE S == {b[2] : b \in Pending(r)}
    <2>1. S \subseteq Nat /\ S # {}
        BY <1>0, <1>1 DEF IInv, TypeOK, Pending, Attempt
    <2>2. Min(S) \in S
        BY <2>1, LeastOf
    <2>3. PICK b \in Pending(r) : b[2] = Min(S)
        BY <2>2
    <2>4. NextSequence(r) = Min(S)
        BY <1>1 DEF NextSequence
    <2>5. b = a
        BY <2>3, <2>4, <1>0 DEF Pending, Attempt, IInv, TypeOK
    <2> QED
        BY <2>5, <2>3 DEF Pending
<1>2. CASE Pending(r) = {}
    <2> DEFINE S == {q \in 1..(Budget + 1) : q > Budget \/ record[<<r, q>>] = None}
    <2>1. S \subseteq Nat /\ Budget + 1 \in S
        BY <1>0
    <2>2. Min(S) \in S /\ \A n \in S : Min(S) <= n
        BY <2>1, LeastOf
    <2>3. NextSequence(r) = Min(S)
        BY <1>2 DEF NextSequence, FreeSequence
    <2>4. record[<<r, a[2]>>] = None
        BY <2>2, <2>3, <1>0
    <2>5. ASSUME NEW q \in 1..(a[2] - 1)
          PROVE  record[<<r, q>>] # None
        <3>1. q \in 1..(Budget + 1) /\ ~(Min(S) <= q)
            BY <2>3, <1>0
        <3>2. q \notin S
            BY <2>2, <3>1
        <3> QED
            BY <3>1, <3>2
    <2> QED
        BY <2>4, <2>5, <1>2, <1>0
<1> QED
    BY <1>1, <1>2

LEMMA SelectKeeps ==
    ASSUME IInv, NEW j \in Job, Select(j)
    PROVE  IInv'
<1> DEFINE a == <<job[j].run, NextSequence(job[j].run)>>
           m == [job[j] EXCEPT !.pc = EntryPoint(a), !.cur = a, !.conv = Reattached(a)]
<1>1. job[j] \in Memory /\ InHand(job[j]) /\ job[j].pc = "select" /\ lock = j
      /\ job[j].run \in 1..opened /\ opened \in Nat
    BY Facts DEF Select, Inside, InHand
<1>2. a \in Attempt /\ claimed' = claimed \union {a} /\ job' = [job EXCEPT ![j] = m]
    BY DEF Select
<1>3. record[a] = None
      /\ (a \notin claimed => \A q \in 1..(a[2] - 1) : record[<<a[1], q>>] # None)
    BY <1>1, <1>2, NextAttempt
<1>4. /\ m \in Memory /\ m.pc = EntryPoint(a) /\ m.pc \in {"gate", "wait"}
      /\ m.cur = a /\ m.want = job[j].want /\ m.run = job[j].run
    <2>1. a \in Attempt /\ Reattached(a) \in Nat
        BY <1>2 DEF IInv, TypeOK, Reattached
    <2>2. EntryPoint(a) \in {"gate", "wait"}
        BY DEF EntryPoint
    <2> HIDE DEF a
    <2> QED
        BY <1>1, <2>1, <2>2 DEF Memory, Working
<1>5. a[1] = job[j].run
    OBVIOUS
<1> HIDE DEF m, a
<1>6. UNCHANGED <<lock, opened, named, record, workdir, status, conv, setup, bounds>>
    BY DEF Select
<1>7. job'[j] = m /\ \A k \in Job \ {j} : job'[k] = job[k]
    BY <1>2, Facts
<1>8. JobInv(j)'
    <2>1. InHand(job[j])'
        BY <1>1, <1>2, <1>3, <1>4, <1>6, <1>7 DEF InHand, Unnamed, EntryPoint
    <2>2. OnBackend(job[j])'
        BY <1>4, <1>7 DEF OnBackend, Created, Admitting
    <2> QED
        BY <1>1, <1>6, <2>1, <2>2 DEF JobInv
<1>9. \A k \in Job \ {j} : JobInv(k)'
    BY <1>1, <1>6, <1>7, OutsidersKeep
<1>10. TypeOK'
    BY <1>2, <1>4, <1>6 DEF IInv, TypeOK, Memory, bounds
<1>11. LedgerInv'
    BY <1>1, <1>2, <1>3, <1>5, <1>6 DEF IInv, LedgerInv
<1>12. OnlyNamedRuns' /\ OwnRunningIsBounded'
    BY <1>6 DEF IInv, OnlyNamedRuns, OwnRunningIsBounded, Running
<1> QED
    BY <1>8, <1>9, <1>10, <1>11, <1>12 DEF IInv

LEMMA ReturnKeeps ==
    ASSUME IInv, NEW j \in Job, Return(j)
    PROVE  IInv'
BY Facts, LeavesKeeps DEF Return, store, bounds

LEMMA LockBusyKeeps ==
    ASSUME IInv, NEW j \in Job, LockBusy(j)
    PROVE  IInv'
BY Facts, LeavesKeeps DEF LockBusy, store, bounds

LEMMA WriteStatusKeeps ==
    ASSUME IInv, NEW j \in Job, WriteStatus(j)
    PROVE  IInv'
<1>1. Off \in Memory /\ Off.pc = "off" /\ Off.want = 0
    BY DEF Off, Memory
<1>2. InHand(Off) /\ OnBackend(Off)
    BY <1>1, OutKnowsNothing
<1>3. Off.pc \notin Inside
    BY <1>1 DEF Inside, Working
<1>4. StatusAfter(job[j].code) \in {"failed", "complete", "waiting-for-next-tick"}
    <2>1. job[j].code \in {0, 2}
        BY Facts DEF Memory
    <2> QED
        BY <2>1 DEF StatusAfter
<1>5. /\ job' = [job EXCEPT ![j] = Off] /\ status' = StatusAfter(job[j].code)
      /\ UNCHANGED <<lock, store, conv, setup, bounds>>
    BY DEF WriteStatus
<1> QED
    BY <1>1, <1>2, <1>3, <1>4, <1>5, Facts, QuietKeeps DEF store, bounds

LEMMA CrashKeeps ==
    ASSUME IInv, NEW j \in Job, Crash(j)
    PROVE  IInv'
<1>1. /\ status' \in {None, "failed", "complete", "waiting-for-next-tick"}
      /\ crashes' \in Nat /\ faults' \in Nat
    BY Facts DEF Crash
<1>2. /\ job' = [job EXCEPT ![j] = Off] /\ lock' = IF lock = j THEN None ELSE lock
      /\ UNCHANGED <<opened, claimed, named, record, conv, setup, workdir>>
    BY DEF Crash, store
<1> QED
    BY <1>1, <1>2, VanishesKeeps

LEMMA EscapeKeeps ==
    ASSUME IInv, NEW j \in Job, Escape(j)
    PROVE  IInv'
BY Facts, LeavesKeeps DEF Escape, store

-----------------------------------------------------------------------------
(* The worker *)

LEMMA CheckCapacityKeeps ==
    ASSUME IInv, NEW j \in Job, CheckCapacity(j)
    PROVE  IInv'
<1>1. job[j].pc = "gate" /\ UNCHANGED <<lock, store, status, conv, setup, bounds>>
    BY DEF CheckCapacity
<1>2. CASE Failing(j)
    BY <1>1, <1>2, Facts, FailingKeeps DEF store, bounds, Working
<1>3. CASE Goes(j, "workspace") /\ Cardinality(Running) < LaunchLockAt
    BY <1>1, <1>3, Facts, GoesKeeps DEF store, bounds, Working, Inside, Unnamed, Created
<1>4. ASSUME NEW others \in 0..MaxOthers, LaunchAllowed(Cardinality(Running) + others)
      PROVE  Cardinality(Running) < LaunchLockAt
    <2>1. Cardinality(Running) \in Nat
        BY RunningIsFinite
    <2> QED
        BY <1>4, <2>1, BudgetAssumption, BoundsAssumption DEF LaunchAllowed
<1> QED
    BY <1>2, <1>3, <1>4 DEF CheckCapacity

LEMMA PrepareWorkspaceKeeps ==
    ASSUME IInv, NEW j \in Job, PrepareWorkspace(j)
    PROVE  IInv'
<1>1. job[j].pc = "workspace" /\ job[j].cur \in Attempt
      /\ UNCHANGED <<opened, claimed, named, record, status, conv, setup, bounds>>
    BY Facts DEF PrepareWorkspace, InHand, Working, IInv, TypeOK
<1>2. workdir' \subseteq Attempt
    BY <1>1, Facts DEF PrepareWorkspace
<1>3. CASE Goes(j, "create") /\ UNCHANGED lock
    <2>1. Cardinality(Running) < LaunchLockAt
        BY <1>1, Facts DEF OnBackend, Admitting
    <2> QED
        BY <1>1, <1>2, <1>3, <2>1, Facts, GoesKeeps DEF bounds, Working, Inside, Unnamed, Created
<1>4. CASE Leaves(j, 2)
    BY <1>1, <1>2, <1>4, Facts, LeavesKeeps DEF bounds
<1> QED
    BY <1>3, <1>4 DEF PrepareWorkspace

LEMMA SeeTerminalKeeps ==
    ASSUME IInv, NEW j \in Job, SeeTerminal(j)
    PROVE  IInv'
BY Facts, GoesKeeps DEF SeeTerminal, store, bounds, Working, Inside, Unnamed, Created, Admitting

LEMMA TimeOutKeeps ==
    ASSUME IInv, NEW j \in Job, TimeOut(j)
    PROVE  IInv'
BY Facts, FailingKeeps DEF TimeOut, store, bounds, Working

LEMMA CallFailsKeeps ==
    ASSUME IInv, NEW j \in Job, CallFails(j)
    PROVE  IInv'
BY Facts, FailingKeeps DEF CallFails, store, Working

LEMMA ReadAnswerKeeps ==
    ASSUME IInv, NEW j \in Job, ReadAnswer(j)
    PROVE  IInv'
<1>1. PICK outcome \in Outcome :
          job' = [job EXCEPT ![j] = [job[j] EXCEPT !.pc = "append", !.outcome = outcome]]
    BY DEF ReadAnswer
<1> DEFINE m == [job[j] EXCEPT !.pc = "append", !.outcome = outcome]
<1>2. job[j].pc = "answer" /\ UNCHANGED <<lock, store, status, conv, setup, bounds>>
    BY DEF ReadAnswer
<1>3. m \in Memory /\ m.pc = "append" /\ m.outcome \in Outcome /\ m.want = job[j].want
      /\ m.run = job[j].run /\ m.cur = job[j].cur
    BY Facts DEF Memory, Working
<1>4. InHand(m) /\ OnBackend(m)
    BY <1>2, <1>3, Facts DEF InHand, OnBackend, Working, Unnamed, Created, Admitting
<1>5. job' = [job EXCEPT ![j] = m]
    BY <1>1
<1> HIDE DEF m
<1> QED
    BY <1>2, <1>3, <1>4, <1>5, Facts, InsideKeeps DEF store, bounds, Inside, Working

LEMMA AppendAttemptKeeps ==
    ASSUME IInv, NEW j \in Job, AppendAttempt(j)
    PROVE  IInv'
<1> DEFINE m == [job[j] EXCEPT !.pc = "return"]
<1>1. /\ job[j] \in Memory /\ InHand(job[j]) /\ job[j].pc = "append" /\ lock = j
      /\ job[j].cur \in claimed /\ job[j].cur \in Attempt /\ job[j].outcome \in Outcome
      /\ opened \in Nat
    BY Facts DEF AppendAttempt, Inside, InHand, Working, IInv, TypeOK
<1>2. /\ job' = [job EXCEPT ![j] = m]
      /\ record' = [record EXCEPT ![job[j].cur] = job[j].outcome]
      /\ UNCHANGED <<lock, opened, claimed, named, workdir, status, conv, setup, bounds>>
    BY DEF AppendAttempt, Goes
<1>3. m \in Memory /\ m.pc = "return" /\ m.want = job[j].want /\ m.run = job[j].run
    BY <1>1 DEF Memory
<1> HIDE DEF m
<1>4. job'[j] = m /\ \A k \in Job \ {j} : job'[k] = job[k]
    BY <1>2, Facts
<1>5. JobInv(j)'
    <2>1. InHand(job[j])'
        BY <1>1, <1>2, <1>3, <1>4 DEF InHand, Unnamed, Working
    <2>2. OnBackend(job[j])'
        BY <1>3, <1>4 DEF OnBackend, Created, Admitting
    <2> QED
        BY <1>1, <1>2, <2>1, <2>2 DEF JobInv
<1>6. \A k \in Job \ {j} : JobInv(k)'
    BY <1>1, <1>2, <1>4, OutsidersKeep
<1>7. record' \in [Attempt -> Outcome \union {None}]
    BY <1>1, <1>2 DEF IInv, TypeOK
<1>8. TypeOK'
    BY <1>2, <1>3, <1>7 DEF IInv, TypeOK, Memory, bounds
<1>9. LedgerInv'
    <2>1. \A a \in Attempt : record'[a] # None => record[a] # None \/ a = job[j].cur
        BY <1>2 DEF IInv, TypeOK
    <2>2. \A a : record[a] # None => record'[a] # None
        BY <1>1, <1>2, NoneAssumption DEF IInv, TypeOK
    <2> QED
        BY <1>1, <1>2, <2>1, <2>2 DEF IInv, LedgerInv
<1>10. OnlyNamedRuns' /\ OwnRunningIsBounded'
    BY <1>2 DEF IInv, OnlyNamedRuns, OwnRunningIsBounded, Running
<1> QED
    BY <1>5, <1>6, <1>8, <1>9, <1>10 DEF IInv

LEMMA JournalReadyKeeps ==
    ASSUME IInv, NEW j \in Job, JournalReady(j)
    PROVE  IInv'
<1> DEFINE m == [job[j] EXCEPT !.pc = "run"]
<1>1. /\ job[j] \in Memory /\ InHand(job[j]) /\ OnBackend(job[j]) /\ job[j].pc = "ready" /\ lock = j
      /\ job[j].cur \in Attempt /\ job[j].conv \in DOMAIN conv /\ conv[job[j].conv].attempt = job[j].cur
      /\ named[job[j].cur] = 0 /\ opened \in Nat /\ 0 \notin DOMAIN conv
    BY Facts, RunningIsFinite DEF JournalReady, Inside, InHand, OnBackend, Working, Unnamed, Created, IInv, TypeOK
<1>2. /\ job' = [job EXCEPT ![j] = m]
      /\ named' = [named EXCEPT ![job[j].cur] = job[j].conv]
      /\ UNCHANGED <<lock, opened, claimed, record, workdir, status, conv, setup, bounds>>
    BY DEF JournalReady, Goes
<1>3. m \in Memory /\ m.pc = "run" /\ m.want = job[j].want /\ m.run = job[j].run
      /\ m.cur = job[j].cur /\ m.conv = job[j].conv
    BY <1>1 DEF Memory, Working
<1> HIDE DEF m
<1>4. job'[j] = m /\ \A k \in Job \ {j} : job'[k] = job[k]
    BY <1>2, Facts
<1>5. named'[m.cur] = m.conv /\ named' \in [Attempt -> Nat]
    BY <1>1, <1>2, <1>3 DEF IInv, TypeOK, Memory
<1>6. JobInv(j)'
    <2>1. InHand(job[j])'
        BY <1>1, <1>2, <1>3, <1>4 DEF InHand, Unnamed, Working
    <2>2. OnBackend(job[j])'
        BY <1>1, <1>2, <1>3, <1>4, <1>5 DEF OnBackend, Created, Admitting, Running
    <2> QED
        BY <1>1, <1>2, <2>1, <2>2 DEF JobInv
<1>7. \A k \in Job \ {j} : JobInv(k)'
    BY <1>1, <1>2, <1>4, OutsidersKeep
<1>8. TypeOK'
    BY <1>2, <1>3, <1>5 DEF IInv, TypeOK, Memory, bounds
<1>9. OnlyNamedRuns'
    <2>1. ASSUME ~setup.auto, NEW i \in DOMAIN conv, conv[i].state # "idle"
          PROVE  named'[conv[i].attempt] = i
        <3>1. named[conv[i].attempt] = i
            BY <2>1 DEF IInv, OnlyNamedRuns
        <3>2. conv[i].attempt # job[j].cur
            BY <1>1, <2>1, <3>1
        <3> QED
            BY <1>2, <3>1, <3>2 DEF IInv, TypeOK
    <2> QED
        BY <1>2, <2>1 DEF OnlyNamedRuns
<1>10. LedgerInv' /\ OwnRunningIsBounded'
    BY <1>2 DEF IInv, LedgerInv, OwnRunningIsBounded, Running
<1> QED
    BY <1>6, <1>7, <1>8, <1>9, <1>10 DEF IInv

-----------------------------------------------------------------------------
(* The backend *)

\* A new conversation is the last one and runs only if the backend starts it.
LEMMA NewIsLast ==
    ASSUME IInv, NEW a \in Attempt, conv' = Append(conv, NewConversation(a))
    PROVE  /\ conv' \in Seq(Conversation)
           /\ Len(conv') = Len(conv) + 1 /\ DOMAIN conv' = 1..(Len(conv) + 1)
           /\ conv'[Len(conv) + 1] = NewConversation(a)
           /\ \A i \in DOMAIN conv : conv'[i] = conv[i]
           /\ Running' = IF setup.auto THEN Running \union {Len(conv) + 1} ELSE Running
<1>1. conv \in Seq(Conversation) /\ NewConversation(a) \in Conversation
    BY DEF IInv, TypeOK, NewConversation, Conversation
<1>2. /\ conv' \in Seq(Conversation) /\ Len(conv') = Len(conv) + 1
      /\ conv'[Len(conv) + 1] = NewConversation(a)
      /\ \A i \in 1..Len(conv) : conv'[i] = conv[i]
    BY <1>1, AppendProperties
<1>3. DOMAIN conv' = 1..(Len(conv) + 1) /\ DOMAIN conv = 1..Len(conv) /\ Len(conv) \in Nat
    BY <1>1, <1>2, LenProperties
<1>4. \A i \in DOMAIN conv' : i \in DOMAIN conv \/ i = Len(conv) + 1
    BY <1>3
<1>5. Running' = {i \in DOMAIN conv' : conv'[i].state = "running"}
    BY DEF Running
<1>6. NewConversation(a).state = "running" <=> setup.auto
    BY DEF NewConversation
<1>7. CASE setup.auto
    BY <1>2, <1>3, <1>4, <1>5, <1>6, <1>7 DEF Running
<1>8. CASE ~setup.auto
    BY <1>2, <1>3, <1>4, <1>5, <1>6, <1>8 DEF Running
<1> QED
    BY <1>2, <1>3, <1>7, <1>8

LEMMA CreateKeeps ==
    ASSUME IInv, NEW j \in Job, NEW lost \in BOOLEAN, Create(j, lost)
    PROVE  IInv'
<1> DEFINE m == IF lost THEN [job[j] EXCEPT !.pc = "append", !.outcome = "failed"]
                        ELSE [job[j] EXCEPT !.pc = "ready", !.conv = Len(conv) + 1]
<1>1. /\ job[j] \in Memory /\ InHand(job[j]) /\ OnBackend(job[j]) /\ job[j].pc = "create" /\ lock = j
      /\ job[j].cur \in Attempt /\ named[job[j].cur] = 0 /\ opened \in Nat
      /\ job[j].cur \in claimed /\ record[job[j].cur] = None
      /\ Cardinality(Running) < LaunchLockAt /\ Len(conv) \in Nat /\ DOMAIN conv = 1..Len(conv)
    BY Facts, RunningIsFinite
       DEF Create, Inside, InHand, OnBackend, Working, Unnamed, Created, Admitting, IInv, TypeOK
<1>2. /\ job' = [job EXCEPT ![j] = m]
      /\ conv' = Append(conv, NewConversation(job[j].cur))
      /\ UNCHANGED <<lock, opened, claimed, named, record, workdir, status, setup, crashes>>
      /\ faults' \in Nat
    <2>1. CASE lost
        BY <2>1, Facts DEF Create, Failing, store
    <2>2. CASE ~lost
        BY <2>2, Facts DEF Create, store
    <2> QED
        BY <2>1, <2>2
<1>3. /\ m \in Memory /\ m.want = job[j].want /\ m.run = job[j].run /\ m.cur = job[j].cur
      /\ \/ m.pc = "append" /\ m.outcome = "failed"
         \/ m.pc = "ready" /\ m.conv = Len(conv) + 1
    <2>1. CASE lost
        BY <1>1, <2>1 DEF Memory, Working, Outcome
    <2>2. CASE ~lost
        <3>1. PICK n \in Nat : n = Len(conv) + 1
            BY <1>1
        <3>2. m = [job[j] EXCEPT !.pc = "ready", !.conv = n]
            BY <2>2, <3>1
        <3> QED
            BY <1>1, <3>1, <3>2 DEF Memory, Working
    <2> QED
        BY <2>1, <2>2
<1> HIDE DEF m
<1>4. job'[j] = m /\ \A k \in Job \ {j} : job'[k] = job[k]
    BY <1>2, Facts
<1>5. /\ conv' \in Seq(Conversation)
      /\ DOMAIN conv' = 1..(Len(conv) + 1)
      /\ conv'[Len(conv) + 1] = NewConversation(job[j].cur)
      /\ \A i \in DOMAIN conv : conv'[i] = conv[i]
      /\ Running' = IF setup.auto THEN Running \union {Len(conv) + 1} ELSE Running
    BY <1>1, <1>2, NewIsLast
<1>6. InHand(job[j])'
    BY <1>1, <1>2, <1>3, <1>4 DEF InHand, Unnamed, Working, Outcome
<1>7. OnBackend(job[j])'
    <2>1. Len(conv) + 1 \in DOMAIN conv' /\ conv'[Len(conv) + 1].attempt = job[j].cur
        BY <1>1, <1>5 DEF NewConversation
    <2>2. ~setup.auto => Cardinality(Running') < LaunchLockAt
        BY <1>1, <1>5
    <2> QED
        BY <1>2, <1>3, <1>4, <2>1, <2>2 DEF OnBackend, Created, Admitting
<1>8. JobInv(j)'
    BY <1>1, <1>2, <1>6, <1>7 DEF JobInv
<1>9. \A k \in Job \ {j} : JobInv(k)'
    BY <1>1, <1>2, <1>4, OutsidersKeep
<1>10. TypeOK'
    BY <1>2, <1>3, <1>5 DEF IInv, TypeOK, Memory
<1>11. OnlyNamedRuns'
    <2>1. ASSUME ~setup.auto, NEW i \in DOMAIN conv', conv'[i].state # "idle"
          PROVE  named[conv'[i].attempt] = i
        <3>1. i # Len(conv) + 1
            BY <1>5, <2>1 DEF NewConversation
        <3>2. i \in DOMAIN conv
            BY <1>1, <1>5, <3>1
        <3> QED
            BY <1>5, <2>1, <3>2 DEF IInv, OnlyNamedRuns
    <2> QED
        BY <1>2, <2>1 DEF OnlyNamedRuns
<1>12. OwnRunningIsBounded'
    <2>1. \A x : Cardinality(Running \union {x}) =
                     IF x \in Running THEN Cardinality(Running) ELSE Cardinality(Running) + 1
        BY RunningIsFinite, FS_AddElement
    <2>2. Cardinality(Running \union {Len(conv) + 1}) <= LaunchLockAt
        <3>1. Cardinality(Running \union {Len(conv) + 1}) \in
                  {Cardinality(Running), Cardinality(Running) + 1}
            BY <2>1
        <3> QED
            BY <1>1, <3>1, RunningIsFinite, BudgetAssumption
    <2>3. Cardinality(Running') <= LaunchLockAt
        BY <1>1, <1>5, <2>2, RunningIsFinite, BudgetAssumption
    <2> QED
        BY <2>3 DEF OwnRunningIsBounded
<1>13. LedgerInv'
    BY <1>2 DEF IInv, LedgerInv
<1> QED
    BY <1>8, <1>9, <1>10, <1>11, <1>12, <1>13 DEF IInv

\* The state of one conversation changes.
LEMMA StateChanges ==
    ASSUME IInv, NEW i \in DOMAIN conv, NEW s \in {"idle", "running", "ended"},
           conv' = [conv EXCEPT ![i].state = s]
    PROVE  /\ conv' \in Seq(Conversation) /\ Len(conv') = Len(conv) /\ DOMAIN conv' = DOMAIN conv
           /\ conv'[i].state = s
           /\ \A k \in DOMAIN conv : conv'[k].attempt = conv[k].attempt
           /\ \A k \in DOMAIN conv \ {i} : conv'[k] = conv[k]
           /\ Running' \subseteq Running \union {i}
           /\ s # "running" \/ conv[i].state = "running" => Running' \subseteq Running
<1>1. conv \in Seq(Conversation) /\ DOMAIN conv = 1..Len(conv)
    BY RunningIsFinite DEF IInv, TypeOK
<1>2. conv[i] \in Conversation
    BY <1>1, ElementOfSeq
<1> DEFINE c == [conv[i] EXCEPT !.state = s]
<1>3. c \in Conversation /\ c.state = s /\ c.attempt = conv[i].attempt
    BY <1>2 DEF Conversation
<1>4. conv' = [conv EXCEPT ![i] = c]
    OBVIOUS
<1> HIDE DEF c
<1>5. /\ conv' \in Seq(Conversation) /\ Len(conv') = Len(conv)
      /\ \A k \in 1..Len(conv) : conv'[k] = IF k = i THEN c ELSE conv[k]
    BY <1>1, <1>3, <1>4, ExceptSeq
<1>6. DOMAIN conv' = DOMAIN conv
    BY <1>1, <1>5, LenProperties
<1>7. Running' = {k \in DOMAIN conv' : conv'[k].state = "running"}
    BY DEF Running
<1> QED
    BY <1>1, <1>3, <1>5, <1>6, <1>7 DEF Running

\* Fewer or as many conversations run.
LEMMA FewerRun ==
    ASSUME IInv, NEW S, S \subseteq Running
    PROVE  Cardinality(S) \in Nat /\ Cardinality(S) <= Cardinality(Running)
BY RunningIsFinite, FS_Subset, FS_CardinalityType

LEMMA EndsKeeps ==
    ASSUME IInv, NEW i \in DOMAIN conv, Ends(i)
    PROVE  IInv'
<1>1. /\ conv' = [conv EXCEPT ![i].state = "ended"] /\ conv[i].state = "running"
      /\ UNCHANGED <<lock, opened, claimed, named, record, workdir, status, job, setup, crashes, faults>>
    BY DEF Ends, store, bounds
<1>2. /\ conv' \in Seq(Conversation) /\ DOMAIN conv' = DOMAIN conv
      /\ \A k \in DOMAIN conv : conv'[k].attempt = conv[k].attempt
      /\ \A k \in DOMAIN conv \ {i} : conv'[k] = conv[k]
      /\ Running' \subseteq Running
    BY <1>1, StateChanges
<1>3. Cardinality(Running') \in Nat /\ Cardinality(Running') <= Cardinality(Running)
      /\ Cardinality(Running) \in Nat
    BY <1>2, FewerRun, RunningIsFinite
<1>4. TypeOK' /\ LedgerInv'
    BY <1>1, <1>2 DEF IInv, TypeOK, LedgerInv
<1>5. ASSUME NEW k \in Job
      PROVE  JobInv(k)'
    <2>1. JobInv(k)
        BY DEF IInv
    <2> QED
        BY <1>1, <1>2, <1>3, <2>1, BudgetAssumption DEF JobInv, InHand, OnBackend
<1>6. OwnRunningIsBounded'
    BY <1>3, BudgetAssumption DEF IInv, OwnRunningIsBounded
<1>7. OnlyNamedRuns'
    BY <1>1, <1>2 DEF IInv, OnlyNamedRuns
<1> QED
    BY <1>4, <1>5, <1>6, <1>7 DEF IInv

LEMMA RunConversationKeeps ==
    ASSUME IInv, NEW j \in Job, NEW lost \in BOOLEAN, RunConversation(j, lost)
    PROVE  IInv'
<1> DEFINE m == IF lost THEN [job[j] EXCEPT !.pc = "append", !.outcome = "failed"]
                        ELSE [job[j] EXCEPT !.pc = "wait"]
           i == job[j].conv
           s == IF NeedsRun /\ conv[i].state = "idle" THEN "running" ELSE conv[i].state
<1>1. /\ job[j] \in Memory /\ InHand(job[j]) /\ OnBackend(job[j]) /\ job[j].pc = "run" /\ lock = j
      /\ i \in DOMAIN conv /\ conv[i].attempt = job[j].cur /\ named[job[j].cur] = i
      /\ job[j].cur \in claimed /\ record[job[j].cur] = None
      /\ ~setup.auto => Cardinality(Running) < LaunchLockAt
      /\ opened \in Nat
    BY Facts DEF RunConversation, Inside, InHand, OnBackend, Working, Created
<1>2. /\ job' = [job EXCEPT ![j] = m]
      /\ conv' = [conv EXCEPT ![i].state = s]
      /\ UNCHANGED <<lock, opened, claimed, named, record, workdir, status, setup, crashes>>
      /\ faults' \in Nat
    <2>1. CASE lost
        BY <2>1, Facts DEF RunConversation, Failing, store
    <2>2. CASE ~lost
        BY <2>2, Facts DEF RunConversation, Goes, store
    <2> QED
        BY <2>1, <2>2
<1>3. /\ m \in Memory /\ m.want = job[j].want /\ m.run = job[j].run /\ m.cur = job[j].cur
      /\ \/ m.pc = "append" /\ m.outcome = "failed"
         \/ m.pc = "wait"
    <2>1. CASE lost
        BY <1>1, <2>1 DEF Memory, Working, Outcome
    <2>2. CASE ~lost
        BY <1>1, <2>2 DEF Memory, Working, Outcome
    <2> QED
        BY <2>1, <2>2
<1>4. s \in {"idle", "running", "ended"} /\ conv[i].state \in {"idle", "running", "ended"}
    <2>1. conv \in Seq(Conversation) /\ i \in 1..Len(conv)
        BY <1>1, RunningIsFinite DEF IInv, TypeOK
    <2>2. conv[i] \in Conversation
        BY <2>1, ElementOfSeq
    <2> QED
        BY <2>2 DEF Conversation
<1>5. s # "running" \/ conv[i].state = "running" \/ ~setup.auto
    BY DEF NeedsRun
<1> HIDE DEF m, s
<1>6. job'[j] = m /\ \A k \in Job \ {j} : job'[k] = job[k]
    BY <1>2, Facts
<1>7. /\ conv' \in Seq(Conversation) /\ DOMAIN conv' = DOMAIN conv
      /\ \A k \in DOMAIN conv : conv'[k].attempt = conv[k].attempt
      /\ \A k \in DOMAIN conv \ {i} : conv'[k] = conv[k]
      /\ Running' \subseteq Running \union {i}
      /\ s # "running" \/ conv[i].state = "running" => Running' \subseteq Running
    BY <1>1, <1>2, <1>4, StateChanges
<1>8. InHand(job[j])'
    BY <1>1, <1>2, <1>3, <1>6 DEF InHand, Unnamed, Working, Outcome
<1>9. OnBackend(job[j])'
    BY <1>3, <1>6 DEF OnBackend, Created, Admitting
<1>10. JobInv(j)'
    BY <1>1, <1>2, <1>8, <1>9 DEF JobInv
<1>11. \A k \in Job \ {j} : JobInv(k)'
    BY <1>1, <1>2, <1>6, OutsidersKeep
<1>12. TypeOK'
    BY <1>2, <1>3, <1>7 DEF IInv, TypeOK, Memory
<1>13. LedgerInv'
    BY <1>2 DEF IInv, LedgerInv
<1>14. OnlyNamedRuns'
    <2>1. ASSUME ~setup.auto, NEW k \in DOMAIN conv, conv'[k].state # "idle"
          PROVE  named[conv[k].attempt] = k
        BY <1>1, <1>7, <2>1 DEF IInv, OnlyNamedRuns
    <2> QED
        BY <1>2, <1>7, <2>1 DEF OnlyNamedRuns
<1>15. OwnRunningIsBounded'
    <2>1. CASE Running' \subseteq Running
        BY <2>1, FewerRun, RunningIsFinite, BudgetAssumption DEF IInv, OwnRunningIsBounded
    <2>2. CASE ~setup.auto
        <3>1. /\ IsFiniteSet(Running \union {i})
              /\ Cardinality(Running \union {i}) =
                     IF i \in Running THEN Cardinality(Running) ELSE Cardinality(Running) + 1
            BY RunningIsFinite, FS_AddElement
        <3>2. Cardinality(Running \union {i}) <= LaunchLockAt
            BY <1>1, <2>2, <3>1, RunningIsFinite, BudgetAssumption
        <3>3. Cardinality(Running') \in Nat /\ Cardinality(Running') <= Cardinality(Running \union {i})
            BY <1>7, <3>1, FS_Subset, FS_CardinalityType
        <3> QED
            BY <3>1, <3>2, <3>3, RunningIsFinite, BudgetAssumption DEF OwnRunningIsBounded
    <2> QED
        BY <1>5, <1>7, <2>1, <2>2
<1> QED
    BY <1>10, <1>11, <1>12, <1>13, <1>14, <1>15 DEF IInv

-----------------------------------------------------------------------------
(* The invariant *)

LEMMA InitHolds ==
    ASSUME Init
    PROVE  IInv
<1>1. Off \in Memory /\ Off.pc = "off" /\ Off.want = 0
    BY DEF Off, Memory
<1>2. conv \in Seq(Conversation) /\ Len(conv) = 0 /\ DOMAIN conv = {}
    BY EmptySeq DEF Init
<1>3. \A k \in Job : job[k] = Off
    BY DEF Init
<1>4. TypeOK
    BY <1>1, <1>2, RunAssumption DEF Init, TypeOK, Memory
<1>5. \A k \in Job : JobInv(k)
    BY <1>1, <1>3 DEF Init, JobInv, InHand, OnBackend, Inside, Working, Unnamed, Created, Admitting
<1>6. LedgerInv /\ OnlyNamedRuns
    BY <1>2 DEF Init, LedgerInv, OnlyNamedRuns
<1>7. OwnRunningIsBounded
    <2>1. Running = {}
        BY <1>2 DEF Running
    <2> QED
        BY <2>1, FS_EmptySet, BudgetAssumption DEF OwnRunningIsBounded
<1> QED
    BY <1>4, <1>5, <1>6, <1>7 DEF IInv

LEMMA StepKeeps ==
    ASSUME IInv, NEW j \in Job, Step(j)
    PROVE  IInv'
<1>1. CASE Refuse(j)
    BY <1>1 DEF Refuse, vars, store, bounds, IInv, TypeOK, LedgerInv, JobInv, InHand, OnBackend,
                OnlyNamedRuns, OwnRunningIsBounded, Running
<1>2. CASE \E lost \in BOOLEAN : Create(j, lost) \/ RunConversation(j, lost)
    BY <1>2, CreateKeeps, RunConversationKeeps
<1> QED
    BY <1>1, <1>2, PlanKeeps, CompleteKeeps, TakeLockKeeps, OpenRunKeeps, SelectKeeps, ReturnKeeps,
       WriteStatusKeeps, CheckCapacityKeeps, PrepareWorkspaceKeeps, JournalReadyKeeps,
       SeeTerminalKeeps, TimeOutKeeps, ReadAnswerKeeps, CallFailsKeeps, AppendAttemptKeeps,
       LockBusyKeeps DEF Step

LEMMA NextKeeps ==
    ASSUME IInv, [Next]_vars
    PROVE  IInv'
<1>1. CASE UNCHANGED vars
    BY <1>1 DEF vars, store, bounds, IInv, TypeOK, LedgerInv, JobInv, InHand, OnBackend,
                OnlyNamedRuns, OwnRunningIsBounded, Running
<1>2. CASE Backend
    BY <1>2, EndsKeeps DEF Backend
<1> QED
    BY <1>1, <1>2, StepKeeps, CrashKeeps, EscapeKeeps DEF Next

\* The inductive invariant (controller_tick.py, canvas.py): the ledger, what each job in
\* the store knows of it and of the backend, and which conversations may run.
THEOREM Inductive == Spec => []IInv
<1>1. Init => IInv
    BY InitHolds
<1>2. IInv /\ [Next]_vars => IInv'
    BY NextKeeps
<1> QED
    BY <1>1, <1>2, PTL DEF Spec

\* The variables keep their types (controller_tick.py, canvas.py).
THEOREM TypeCorrect == Spec => []TypeOK
<1>1. IInv => TypeOK
    BY DEF IInv
<1> QED
    BY <1>1, Inductive, PTL

\* However many ticks are killed, overlap or lose conversations, their running
\* conversations never exceed the launch lock (canvas.py, CheckCapacity).
THEOREM LaunchLockHolds == Spec => []OwnRunningIsBounded
<1>1. IInv => OwnRunningIsBounded
    BY DEF IInv
<1> QED
    BY <1>1, Inductive, PTL

\* A conversation that a dead tick left behind unnamed never runs: at most one
\* conversation of an attempt does (canvas.py, start_conversation with run: False).
THEOREM RunsOnce == Spec => []OneRunPerAttempt
<1>1. ASSUME IInv, ~setup.auto, NEW a \in Attempt
      PROVE  Cardinality({i \in Of(a) : conv[i].state # "idle"}) <= 1
    <2> DEFINE S == {i \in Of(a) : conv[i].state # "idle"}
    <2>1. S \subseteq {named[a]}
        BY <1>1 DEF IInv, OnlyNamedRuns, Of
    <2>2. IsFiniteSet({named[a]}) /\ Cardinality({named[a]}) = 1
        BY FS_Singleton
    <2>3. Cardinality(S) <= Cardinality({named[a]})
        BY <2>1, <2>2, FS_Subset
    <2> QED
        BY <2>2, <2>3
<1>2. IInv => OneRunPerAttempt
    BY <1>1 DEF OneRunPerAttempt
<1> QED
    BY <1>2, Inductive, PTL

\* Nothing is created for an attempt whose conversation is journaled or that has its
\* record (controller/README.md:98-99), in any step of any job.
THEOREM Reattaches == Spec => NoSecondLaunch
<1> DEFINE A == \A a \in Attempt : named[a] # 0 \/ record[a] # None =>
                    Len(conv') = Len(conv) \/ conv'[Len(conv')].attempt # a
<1>1. IInv /\ [Next]_vars => A
    <2> SUFFICES ASSUME IInv, [Next]_vars
                 PROVE  A
        OBVIOUS
    <2>1. CASE Len(conv') = Len(conv)
        BY <2>1
    <2>2. ASSUME NEW j \in Job, NEW lost \in BOOLEAN, Create(j, lost)
          PROVE  A
        <3>1. named[job[j].cur] = 0 /\ record[job[j].cur] = None /\ job[j].cur \in Attempt
            BY <2>2, Facts DEF Create, InHand, Working, Unnamed, IInv, TypeOK
        <3>2. conv' = Append(conv, NewConversation(job[j].cur))
            BY <2>2 DEF Create
        <3>3. Len(conv') = Len(conv) + 1
              /\ conv'[Len(conv) + 1] = NewConversation(job[j].cur)
            BY <3>1, <3>2, NewIsLast
        <3>4. conv'[Len(conv')].attempt = job[j].cur
            BY <3>3 DEF NewConversation
        <3> QED
            BY <3>1, <3>4
    <2>3. ASSUME NEW j \in Job, NEW lost \in BOOLEAN, RunConversation(j, lost)
          PROVE  Len(conv') = Len(conv)
        <3>1. job[j].conv \in DOMAIN conv
            BY <2>3, Facts DEF RunConversation, OnBackend, Created
        <3>2. conv[job[j].conv].state \in {"idle", "running", "ended"}
            <4>1. conv \in Seq(Conversation) /\ job[j].conv \in 1..Len(conv)
                BY <3>1, RunningIsFinite DEF IInv, TypeOK
            <4>2. conv[job[j].conv] \in Conversation
                BY <4>1, ElementOfSeq
            <4> QED
                BY <4>2 DEF Conversation
        <3>3. PICK s \in {"idle", "running", "ended"} :
                  conv' = [conv EXCEPT ![job[j].conv].state = s]
            BY <2>3, <3>2 DEF RunConversation
        <3> QED
            BY <3>1, <3>3, StateChanges
    <2>4. ASSUME NEW i \in DOMAIN conv, Ends(i)
          PROVE  Len(conv') = Len(conv)
        BY <2>4, StateChanges DEF Ends
    <2>5. CASE UNCHANGED vars
        BY <2>5 DEF vars
    <2>6. ASSUME NEW j \in Job, Step(j),
                 ~ \E lost \in BOOLEAN : Create(j, lost) \/ RunConversation(j, lost)
          PROVE  conv' = conv
        BY <2>6 DEF Step, Plan, Refuse, Complete, TakeLock, LockBusy, OpenRun, Select, Return,
               WriteStatus, CheckCapacity, PrepareWorkspace, JournalReady, SeeTerminal, TimeOut,
               ReadAnswer, CallFails, AppendAttempt, vars
    <2>7. ASSUME NEW j \in Job, Crash(j) \/ Escape(j)
          PROVE  conv' = conv
        BY <2>7 DEF Crash, Escape
    <2> HIDE DEF A
    <2> QED
        BY <2>1, <2>2, <2>3, <2>4, <2>5, <2>6, <2>7 DEF Next, Backend
<1>2. IInv /\ [Next]_vars => [A]_vars
    BY <1>1
<1> QED
    BY <1>2, Inductive, PTL DEF Spec, NoSecondLaunch

-----------------------------------------------------------------------------
(* The status file *)

BudgetRecorded == opened = 1 /\ \A q \in 1..Budget : record[<<1, q>>] # None

\* Where jobs do not overlap, a plan is still right when the job acts on it, and what
\* the status file says of the budget is true.
OneAtATime ==
    ~setup.overlap =>
        /\ \A j, k \in Job : job[j].pc # "off" /\ job[k].pc # "off" => j = k
        /\ opened <= 1
        /\ \A j \in Job : job[j].pc \in {"lock", "open"} /\ job[j].want = 0 => opened = 0
        /\ status = "complete" => BudgetRecorded

\* A campaign whose only run is complete has its budget recorded.
LEMMA CompleteRun ==
    ASSUME IInv, IncompleteRuns = {}, MatchingRuns # {}, opened <= 1
    PROVE  BudgetRecorded
<1>1. opened = 1 /\ 1 \in MatchingRuns
    BY Facts, RunAssumption DEF MatchingRuns, IInv, TypeOK
<1>2. ~(Recorded(1) < Budget)
    BY <1>1 DEF IncompleteRuns
<1> DEFINE S == {q \in 1..Budget : record[<<1, q>>] # None}
<1>3. IsFiniteSet(1..Budget) /\ Cardinality(1..Budget) = Budget
    BY BudgetAssumption, FS_Interval
<1>4. IsFiniteSet(S) /\ Cardinality(S) <= Cardinality(1..Budget)
      /\ (Cardinality(S) = Cardinality(1..Budget) => S = 1..Budget)
    BY <1>3, FS_Subset
<1>5. Cardinality(S) = Recorded(1) /\ Cardinality(S) \in Nat
    BY <1>4, FS_CardinalityType DEF Recorded
<1>6. S = 1..Budget
    BY <1>2, <1>3, <1>4, <1>5, BudgetAssumption
<1> QED
    BY <1>1, <1>6 DEF BudgetRecorded

\* The one job there is moves and opens no run.
LEMMA OnlyJobMoves ==
    ASSUME IInv, OneAtATime, NEW j \in Job, job[j].pc # "off",
           setup' = setup, opened' = opened,
           \A k \in Job \ {j} : job'[k] = job[k],
           job'[j].pc \in {"lock", "open"} =>
               job[j].pc \in {"lock", "open"} /\ job'[j].want = job[j].want,
           \A a \in Attempt : record[a] # None => record'[a] # None,
           status' = "complete" => status = "complete" \/ (~setup.overlap => BudgetRecorded)
    PROVE  OneAtATime'
<1> SUFFICES ASSUME ~setup.overlap
             PROVE  OneAtATime'
    BY DEF OneAtATime
<1>1. ASSUME NEW k \in Job, k # j
      PROVE  job'[k].pc = "off"
    BY <1>1 DEF OneAtATime
<1>2. BudgetRecorded => BudgetRecorded'
    <2>1. ASSUME opened = 1, NEW q \in 1..Budget
          PROVE  <<1, q>> \in Attempt
        BY <2>1, Facts, RunAssumption DEF Attempt, Run, IInv, TypeOK
    <2> QED
        BY <2>1 DEF BudgetRecorded
<1> QED
    BY <1>1, <1>2 DEF OneAtATime

\* A job plans, or finds the campaign complete, when no other job is there.
LEMMA PlanIsAlone ==
    ASSUME IInv, OneAtATime, NEW j \in Job, Plan(j)
    PROVE  OneAtATime'
<1> SUFFICES ASSUME ~setup.overlap
             PROVE  OneAtATime'
    BY DEF OneAtATime, Plan
<1>1. \A k \in Job : job[k].pc = "off"
    BY DEF Plan, Admitted
<1>2. \A k \in Job \ {j} : job'[k] = job[k]
    BY Facts DEF Plan
<1>3. job'[j].want = 0 => opened = 0
    <2>1. job'[j].want = IF MatchingRuns = {} THEN 0 ELSE Max(IncompleteRuns)
        BY Facts DEF Plan, Memory
    <2>2. CASE MatchingRuns = {}
        BY <2>2, Facts DEF MatchingRuns
    <2>3. CASE MatchingRuns # {}
        BY <2>1, <2>3, PlannedRun, Facts DEF Plan
    <2> QED
        BY <2>2, <2>3
<1>4. \A k \in Job \ {j} : job'[k].pc = "off"
    BY <1>1, <1>2
<1>5. UNCHANGED <<opened, record, status>>
    BY DEF Plan, store
<1> QED
    BY <1>3, <1>4, <1>5 DEF OneAtATime, BudgetRecorded

LEMMA OpenRunIsAlone ==
    ASSUME IInv, OneAtATime, NEW j \in Job, OpenRun(j)
    PROVE  OneAtATime'
<1> SUFFICES ASSUME ~setup.overlap
             PROVE  OneAtATime'
    BY DEF OneAtATime, OpenRun
<1>1. job[j].pc = "open" /\ opened \in Nat
    BY Facts DEF OpenRun
<1>2. \A k \in Job \ {j} : job'[k] = job[k]
    BY Facts DEF OpenRun
<1>3. job'[j].pc = "select"
    BY Facts DEF OpenRun, Memory
<1>4. \A k \in Job \ {j} : job'[k].pc = "off"
    BY <1>1, <1>2 DEF OneAtATime
<1>5. opened' <= 1 /\ (opened' = opened \/ opened = 0)
    BY <1>1 DEF OpenRun, OneAtATime
<1>6. status' = "complete" => BudgetRecorded /\ opened' = opened /\ record' = record
    BY <1>5 DEF OpenRun, OneAtATime, BudgetRecorded
<1> QED
    BY <1>3, <1>4, <1>5, <1>6 DEF OneAtATime, BudgetRecorded, OpenRun

LEMMA StatusIsWritten ==
    ASSUME IInv, OneAtATime, NEW j \in Job, Complete(j) \/ WriteStatus(j),
           ~setup.overlap, status' = "complete"
    PROVE  BudgetRecorded
<1>1. opened <= 1
    BY DEF OneAtATime
<1>2. IncompleteRuns = {} /\ MatchingRuns # {}
    BY DEF Complete, WriteStatus, StatusAfter
<1> QED
    BY <1>1, <1>2, CompleteRun

\* The job that was there leaves.
LEMMA LeavesAlone ==
    ASSUME IInv, OneAtATime, NEW j \in Job, job[j].pc # "off",
           job' = [job EXCEPT ![j] = Off] \/ \E code \in {0, 2} : Leaves(j, code),
           UNCHANGED <<setup, opened, record>>,
           status' = "complete" => status = "complete" \/ (~setup.overlap => BudgetRecorded)
    PROVE  OneAtATime'
<1>1. \A k \in Job \ {j} : job'[k] = job[k]
    BY Facts DEF Leaves
<1>2. job'[j].pc \in {"off", "status"}
    <2>1. Off.pc = "off"
        BY DEF Off
    <2>2. \A code : [Off EXCEPT !.pc = "status", !.code = code].pc = "status"
        BY DEF Off
    <2> QED
        BY <2>1, <2>2, Facts DEF Leaves
<1> QED
    BY <1>1, <1>2, OnlyJobMoves

LEMMA StepIsAlone ==
    ASSUME IInv, OneAtATime, NEW j \in Job, Step(j)
    PROVE  OneAtATime'
<1>1. CASE Refuse(j)
    BY <1>1 DEF Refuse, vars, store, OneAtATime, BudgetRecorded
<1>2. CASE Complete(j)
    BY <1>2, StatusIsWritten DEF Complete, store, OneAtATime, BudgetRecorded
<1>3. CASE WriteStatus(j)
    BY <1>3, StatusIsWritten, LeavesAlone DEF WriteStatus, store
<1>4. CASE LockBusy(j) \/ Return(j)
    BY <1>4, LeavesAlone DEF LockBusy, Return, store
<1>5. CASE PrepareWorkspace(j)
    <2>1. CASE Leaves(j, 2)
        BY <1>5, <2>1, LeavesAlone DEF PrepareWorkspace
    <2>2. CASE Goes(j, "create")
        <3>1. job'[j].pc = "create" /\ \A k \in Job \ {j} : job'[k] = job[k]
            BY <2>2, Facts DEF Goes, Memory
        <3> QED
            BY <1>5, <3>1, OnlyJobMoves DEF PrepareWorkspace
    <2> QED
        BY <1>5, <2>1, <2>2 DEF PrepareWorkspace
<1>6. CASE AppendAttempt(j)
    <2>1. job'[j].pc = "return" /\ \A k \in Job \ {j} : job'[k] = job[k]
        BY <1>6, Facts DEF AppendAttempt, Goes, Memory
    <2>2. \A a \in Attempt : record[a] # None => record'[a] # None
        BY <1>6 DEF AppendAttempt, IInv, TypeOK
    <2> QED
        BY <1>6, <2>1, <2>2, OnlyJobMoves DEF AppendAttempt
<1>7. CASE TakeLock(j)
    <2>1. job'[j].want = job[j].want /\ \A k \in Job \ {j} : job'[k] = job[k]
        BY <1>7, Facts DEF TakeLock, Memory
    <2> QED
        BY <1>7, <2>1, OnlyJobMoves DEF TakeLock, store
<1>8. CASE Select(j)
    <2>1. job'[j].pc \in {"gate", "wait"} /\ \A k \in Job \ {j} : job'[k] = job[k]
        BY <1>8, Facts DEF Select, EntryPoint, Memory
    <2> QED
        BY <1>8, <2>1, OnlyJobMoves DEF Select
<1>9. ASSUME NEW m, job' = [job EXCEPT ![j] = m], m.pc \notin {"lock", "open"},
             job[j].pc # "off", UNCHANGED <<setup, opened, record, status>>
      PROVE  OneAtATime'
    <2>1. job'[j] = m /\ \A k \in Job \ {j} : job'[k] = job[k]
        BY <1>9, Facts
    <2> QED
        BY <1>9, <2>1, OnlyJobMoves
<1>10. ASSUME NEW pc \in Working, Goes(j, pc),
              job[j].pc # "off", UNCHANGED <<setup, opened, record, status>>
       PROVE  OneAtATime'
    <2>1. [job[j] EXCEPT !.pc = pc].pc = pc
        BY Facts DEF Memory
    <2> QED
        BY <1>9, <1>10, <2>1 DEF Goes, Working
<1>11. ASSUME NEW outcome,
              job' = [job EXCEPT ![j] = [@ EXCEPT !.pc = "append", !.outcome = outcome]],
              job[j].pc # "off", UNCHANGED <<setup, opened, record, status>>
       PROVE  OneAtATime'
    <2>1. [job[j] EXCEPT !.pc = "append", !.outcome = outcome].pc = "append"
        BY Facts DEF Memory
    <2> QED
        BY <1>9, <1>11, <2>1
<1>12. CASE \E lost \in BOOLEAN : Create(j, lost)
    <2>1. PICK lost \in BOOLEAN : Create(j, lost)
        BY <1>12
    <2>2. CASE lost
        BY <2>1, <2>2, <1>11 DEF Create, Failing, store
    <2>3. CASE ~lost
        <3> DEFINE m == [job[j] EXCEPT !.pc = "ready", !.conv = Len(conv) + 1]
        <3>1. job' = [job EXCEPT ![j] = m]
            BY <2>1, <2>3 DEF Create
        <3>2. m.pc = "ready"
            BY Facts DEF Memory
        <3> HIDE DEF m
        <3> QED
            BY <2>1, <3>1, <3>2, <1>9 DEF Create, store
    <2> QED
        BY <2>2, <2>3
<1>13. CASE \E lost \in BOOLEAN : RunConversation(j, lost)
    BY <1>13, <1>10, <1>11 DEF RunConversation, Failing, Working, store
<1>14. CASE CheckCapacity(j)
    BY <1>14, <1>10, <1>11 DEF CheckCapacity, Failing, Working, store
<1>15. CASE JournalReady(j) \/ SeeTerminal(j)
    BY <1>15, <1>10 DEF JournalReady, SeeTerminal, Working, store
<1>16. CASE TimeOut(j) \/ ReadAnswer(j) \/ CallFails(j)
    BY <1>16, <1>11 DEF TimeOut, ReadAnswer, CallFails, Failing, store
<1> QED
    BY <1>1, <1>2, <1>3, <1>4, <1>5, <1>6, <1>7, <1>8, <1>12, <1>13, <1>14, <1>15, <1>16,
       PlanIsAlone, OpenRunIsAlone DEF Step

\* The status file says "complete" only of a campaign whose budget is recorded, whichever
\* ticks died, failed or lost their lock before (controller_tick.py, main).
THEOREM TruthfulStatus == Spec => []StatusIsTruthful
<1>1. Init => OneAtATime
    BY NoneAssumption DEF Init, OneAtATime, Off
<1>2. IInv /\ OneAtATime /\ [Next]_vars => OneAtATime'
    <2> SUFFICES ASSUME IInv, OneAtATime, [Next]_vars
                 PROVE  OneAtATime'
        OBVIOUS
    <2>1. CASE UNCHANGED vars
        BY <2>1 DEF vars, store, OneAtATime, BudgetRecorded
    <2>2. CASE Backend
        BY <2>2 DEF Backend, Ends, store, OneAtATime, BudgetRecorded
    <2>3. ASSUME NEW j \in Job, Crash(j) \/ Escape(j)
          PROVE  OneAtATime'
        BY <2>3, LeavesAlone DEF Crash, Escape, store
    <2> QED
        BY <2>1, <2>2, <2>3, StepIsAlone DEF Next
<1>3. OneAtATime => StatusIsTruthful
    BY DEF OneAtATime, StatusIsTruthful, BudgetRecorded
<1> QED
    BY <1>1, <1>2, <1>3, Inductive, PTL DEF Spec

-----------------------------------------------------------------------------
(* The research ledger *)

Manifests == [r \in Run |-> IF r <= opened THEN LedgerManifest ELSE None]
Claims == {ClaimOf(a) : a \in claimed}
ResultOf(a) == [claim |-> ClaimOf(a), outcome |-> record[a], score |-> None]
Recordeds == {b \in Attempt : record[b] # None}
Results == {ResultOf(a) : a \in Recordeds}

LEMMA InitRefines ==
    ASSUME Init
    PROVE  Ledger!Init
<1>1. Manifests = [r \in Run |-> None]
    BY RunAssumption DEF Init, Manifests, Run
<1>2. Claims = {} /\ Results = {}
    BY DEF Init, Claims, Results, Recordeds
<1> QED
    BY <1>1, <1>2 DEF Ledger!Init, Manifests, Claims, Results, ResultOf, Recordeds

\* A run that is created is opened in the ledger.
LEMMA OpenRunRefines ==
    ASSUME IInv, NEW j \in Job, OpenRun(j), opened' # opened
    PROVE  Ledger!Next
<1> DEFINE r == opened + 1
<1>1. opened' = r /\ opened < MaxRuns /\ opened \in Nat /\ claimed' = claimed /\ record' = record
    BY Facts DEF OpenRun
<1>2. r \in Run
    BY <1>1, RunAssumption DEF Run
<1>3. Manifests[r] = None
    BY <1>1, <1>2 DEF Manifests
<1>4. Manifests' = [Manifests EXCEPT ![r] = LedgerManifest]
    <2>1. \A q \in Run : q <= opened' <=> q <= opened \/ q = r
        BY <1>1, RunAssumption DEF Run
    <2>2. opened' = r /\ r <= opened'
        BY <1>1
    <2> HIDE DEF r
    <2> QED
        BY <1>2, <2>1, <2>2 DEF Manifests
<1>5. Claims' = Claims /\ Results' = Results
    BY <1>1 DEF Claims, Results, ResultOf, Recordeds
<1>6. Ledger!Open(r, LedgerManifest)
    BY <1>3, <1>4, <1>5 DEF Ledger!Open, Manifests, Claims, Results, ResultOf, Recordeds
<1>7. LedgerManifest \in Ledger!Manifest
    BY DEF LedgerManifest, Ledger!Manifest
<1> QED
    BY <1>2, <1>6, <1>7 DEF Ledger!Next

\* An attempt that is selected for the first time is claimed in the ledger.
LEMMA SelectRefines ==
    ASSUME IInv, NEW j \in Job, Select(j), claimed' # claimed
    PROVE  Ledger!Next
<1>1. PICK r : r = job[j].run
    OBVIOUS
<1>2. PICK a : a = <<r, NextSequence(r)>>
    OBVIOUS
<1>3. /\ a \in Attempt /\ claimed' = claimed \union {a} /\ a \notin claimed
      /\ opened' = opened /\ record' = record
    BY <1>1, <1>2 DEF Select
<1>4. r \in 1..opened /\ r \in Run /\ opened \in Nat
    <2>1. job[j].run \in 1..opened /\ opened \in Nat /\ opened \in 0..MaxRuns
        BY Facts DEF Select, InHand
    <2> QED
        BY <1>1, <2>1, RunAssumption DEF Run
<1>5. a[1] = r /\ a[2] \in 1..Budget /\ Budget \in Nat
    BY <1>2, <1>3, BudgetAssumption DEF Attempt
<1>6. record[a] = None /\ Pending(r) = {} /\ \A q \in 1..(a[2] - 1) : record[<<r, q>>] # None
    BY <1>2, <1>3, <1>4, NextAttempt
<1>7. ASSUME NEW b \in claimed, b[1] = r
      PROVE  record[b] # None /\ b[2] \in 1..(a[2] - 1)
    <2>1. record[b] # None
        BY <1>6, <1>7 DEF Pending
    <2>2. b \in Attempt /\ b[2] \in 1..Budget /\ b = <<r, b[2]>> /\ a = <<r, a[2]>>
        BY <1>7, <1>2, <1>5, BudgetAssumption DEF IInv, TypeOK, Attempt
    <2>3. b[2] # a[2]
        BY <1>3, <2>2
    <2>4. ~ (a[2] < b[2])
        <3>1. \A q \in 1..(b[2] - 1) : record[<<b[1], q>>] # None
            BY <1>7 DEF IInv, LedgerInv
        <3> QED
            BY <1>5, <1>6, <1>7, <2>2, <3>1
    <2> QED
        BY <1>5, <2>1, <2>2, <2>3, <2>4
<1>8. ASSUME NEW q \in 1..(a[2] - 1)
      PROVE  <<r, q>> \in claimed
    <2>1. <<r, q>> \in Attempt
        BY <1>4, <1>5 DEF Attempt
    <2> QED
        BY <1>6, <2>1 DEF IInv, LedgerInv
<1> DEFINE Mine == {c \in Claims : c.run = r}
<1>9. {c.seq : c \in Mine} = 1..(a[2] - 1)
    <2>1. \A c \in Mine : \E b \in claimed : b[1] = r /\ c.seq = b[2]
        BY DEF Claims, ClaimOf
    <2>2. \A q \in 1..(a[2] - 1) : \E c \in Mine : c.seq = q
        <3> SUFFICES ASSUME NEW q \in 1..(a[2] - 1)
                     PROVE  \E c \in Mine : c.seq = q
            OBVIOUS
        <3>1. ClaimOf(<<r, q>>) \in Mine /\ ClaimOf(<<r, q>>).seq = q
            BY <1>8 DEF Claims, ClaimOf
        <3> QED
            BY <3>1
    <2> HIDE DEF Mine
    <2> QED
        BY <1>7, <2>1, <2>2
<1>10. \A c \in Claims : c.id # a
    BY <1>3 DEF Claims, ClaimOf
<1>11. \A c \in Mine : \E x \in Results : x.claim = c
    <2> SUFFICES ASSUME NEW c \in Mine
                 PROVE  \E x \in Results : x.claim = c
        OBVIOUS
    <2>1. PICK b \in claimed : c = ClaimOf(b) /\ b[1] = r
        BY DEF Claims, ClaimOf
    <2>2. b \in Recordeds
        BY <1>7, <2>1 DEF Recordeds, IInv, TypeOK
    <2>3. ResultOf(b) \in Results /\ ResultOf(b).claim = c
        BY <2>1, <2>2 DEF Results, ResultOf
    <2> QED
        BY <2>3
<1>12. Claims' = Claims \union {[run |-> r, id |-> a, seq |-> a[2], task |-> 1]}
    BY <1>3, <1>5 DEF Claims, ClaimOf
<1>13. Manifests[r] = LedgerManifest /\ Manifests' = Manifests /\ Results' = Results
    BY <1>3, <1>4 DEF Manifests, Results, ResultOf, Recordeds
<1>14. Ledger!NoneOpen(r)
    BY <1>11 DEF Ledger!NoneOpen, Ledger!ClaimsOf, Ledger!Settled, Claims, Results, ResultOf, Recordeds
<1>15. Manifests[r] # None /\ Manifests[r].campaign = "campaign"
    BY <1>13, NoneAssumption DEF LedgerManifest
<1>16. Ledger!MakeClaim(r, a, 1)
    <2>1. 1 \in [g \in {"campaign"} |-> {1}][Manifests[r].campaign]
          /\ a[2] \in 1..[g \in {"campaign"} |-> Budget][Manifests[r].campaign]
        BY <1>5, <1>15
    <2>2. {c.seq : c \in Ledger!ClaimsOf(r)} = 1..(a[2] - 1)
        BY <1>9 DEF Ledger!ClaimsOf, Claims
    <2> HIDE DEF Mine
    <2> QED
        BY <1>10, <1>12, <1>13, <1>14, <1>15, <2>1, <2>2
           DEF Ledger!MakeClaim, Manifests, Claims, Results, ResultOf, Recordeds
<1> QED
    BY <1>3, <1>4, <1>16 DEF Ledger!Next

\* A record settles the claim of its attempt.
LEMMA AppendRefines ==
    ASSUME IInv, NEW j \in Job, AppendAttempt(j)
    PROVE  Ledger!Next
<1>1. PICK a \in Attempt : a = job[j].cur /\ a \in claimed
    BY Facts DEF AppendAttempt, InHand, Working, IInv, TypeOK
<1>2. PICK o \in Outcome : o = job[j].outcome
    BY Facts DEF AppendAttempt, InHand
<1>3. /\ record[a] = None /\ record' = [record EXCEPT ![a] = o]
      /\ opened' = opened /\ claimed' = claimed
    BY <1>1, <1>2 DEF AppendAttempt
<1>4. o # None
    BY NoneAssumption
<1>5. record \in [Attempt -> Outcome \union {None}]
    BY DEF IInv, TypeOK
<1>6. Recordeds' = Recordeds \union {a} /\ a \notin Recordeds
    BY <1>3, <1>4, <1>5 DEF Recordeds
<1>7. \A b \in Recordeds : record'[b] = record[b]
    BY <1>3, <1>5, <1>6
<1>8. record'[a] = o
    BY <1>3, <1>5
<1>9. Results' = Results \union {[claim |-> ClaimOf(a), outcome |-> o, score |-> None]}
    <2>1. Results' = {[claim |-> ClaimOf(b), outcome |-> record'[b], score |-> None] : b \in Recordeds'}
        BY DEF Results, ResultOf
    <2> QED
        BY <1>6, <1>7, <1>8, <2>1 DEF Results, ResultOf
<1>10. \A x \in Results : x.claim # ClaimOf(a)
    <2> SUFFICES ASSUME NEW b \in Recordeds
                 PROVE  ClaimOf(b) # ClaimOf(a)
        BY DEF Results, ResultOf
    <2>1. b # a
        BY <1>6
    <2>2. ClaimOf(b).id = b /\ ClaimOf(a).id = a
        BY DEF ClaimOf
    <2> QED
        BY <2>1, <2>2
<1>11. ClaimOf(a) \in Claims
    BY <1>1 DEF Claims
<1>12. Manifests' = Manifests /\ Claims' = Claims
    BY <1>3 DEF Manifests, Claims
<1>13. Ledger!Settle(ClaimOf(a), o, None)
    <2>1. Ledger!Unsettled(ClaimOf(a))
        BY <1>10 DEF Ledger!Unsettled, Ledger!Settled, Results, ResultOf, Recordeds
    <2> QED
        BY <1>9, <1>12, <2>1 DEF Ledger!Settle, Manifests, Claims, Results, ResultOf, Recordeds
<1>14. o \in Ledger!Outcome
    BY DEF Outcome, Ledger!Outcome
<1> QED
    BY <1>11, <1>13, <1>14 DEF Ledger!Next, Claims

\* Every other step leaves the ledger as it is.
LEMMA StutterRefines ==
    ASSUME UNCHANGED <<opened, claimed, record>>
    PROVE  UNCHANGED Ledger!ledger
BY DEF Ledger!ledger

LEMMA NextRefines ==
    ASSUME IInv, [Next]_vars
    PROVE  [Ledger!Next]_(Ledger!ledger)
<1>1. CASE UNCHANGED <<opened, claimed, record>>
    BY <1>1, StutterRefines
<1>2. ASSUME NEW j \in Job, OpenRun(j)
      PROVE  [Ledger!Next]_(Ledger!ledger)
    <2>1. CASE opened' = opened
        BY <1>2, <2>1, StutterRefines DEF OpenRun
    <2> QED
        BY <1>2, <2>1, OpenRunRefines
<1>3. ASSUME NEW j \in Job, Select(j)
      PROVE  [Ledger!Next]_(Ledger!ledger)
    <2>1. CASE claimed' = claimed
        BY <1>3, <2>1, StutterRefines DEF Select
    <2> QED
        BY <1>3, <2>1, SelectRefines
<1>4. ASSUME NEW j \in Job, AppendAttempt(j)
      PROVE  [Ledger!Next]_(Ledger!ledger)
    BY <1>4, AppendRefines
<1>5. ASSUME NEW j \in Job, NEW lost \in BOOLEAN, Create(j, lost) \/ RunConversation(j, lost)
      PROVE  UNCHANGED <<opened, claimed, record>>
    BY <1>5 DEF Create, RunConversation, store
<1>6. ASSUME NEW j \in Job, Step(j), ~OpenRun(j), ~Select(j), ~AppendAttempt(j),
             ~ \E lost \in BOOLEAN : Create(j, lost) \/ RunConversation(j, lost)
      PROVE  UNCHANGED <<opened, claimed, record>>
    BY <1>6 DEF Step, Plan, Refuse, Complete, TakeLock, LockBusy, Return, WriteStatus,
           CheckCapacity, PrepareWorkspace, JournalReady, SeeTerminal, TimeOut, ReadAnswer,
           CallFails, store, vars
<1>7. ASSUME NEW j \in Job, Crash(j) \/ Escape(j)
      PROVE  UNCHANGED <<opened, claimed, record>>
    BY <1>7 DEF Crash, Escape, store
<1>8. CASE Backend
    BY <1>1, <1>8 DEF Backend, Ends, store
<1>9. CASE UNCHANGED vars
    BY <1>1, <1>9 DEF vars, store
<1> QED
    BY <1>1, <1>2, <1>3, <1>4, <1>5, <1>6, <1>7, <1>8, <1>9 DEF Next

\* Overlapping, dying and resuming ticks implement the research ledger: what is claimed
\* and recorded on the volume follows its steps (controller_tick.py, runner.py).
THEOREM Refinement == Spec => ImplementsLedger
<1>1. Init => Ledger!Init
    BY InitRefines
<1>2. IInv /\ [Next]_vars => [Ledger!Next]_(Ledger!ledger)
    BY NextRefines
<1> QED
    BY <1>1, <1>2, Inductive, PTL DEF Spec, ImplementsLedger, Ledger!Spec
=============================================================================
