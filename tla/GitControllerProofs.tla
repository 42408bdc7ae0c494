------------------------ MODULE GitControllerProofs -------------------------
(***************************************************************************)
(* What a state branch in Git keeps of a campaign, for every set of        *)
(* controllers, runs, attempts and tasks, any budget and any number of     *)
(* ticks, crashes and failed calls.                                        *)
(*                                                                         *)
(* That a tick starts in a fresh sandbox is a hypothesis of most theorems: *)
(* in a sandbox that outlives its tick, uncommitted files of one attempt   *)
(* go to the branch with those of the next, and ClaimsAreExclusive and     *)
(* BranchIsResumable do not hold.  That a selection is pushed before its   *)
(* worker starts needs no such hypothesis.                                 *)
(***************************************************************************)
EXTENDS GitController, FiniteSetTheorems, TLAPS

\* Automations start a tick in a sandbox of its own (automation/main.py).
Fresh == "reused" \notin Sandboxes

-----------------------------------------------------------------------------
(* The invariant *)

\* The events of an attempt have the numbers 1..n.
Numbered(tree, id) ==
    /\ IsFiniteSet(Events(tree, id))
    /\ {e.n : e \in Events(tree, id)} = 1..Cardinality(Events(tree, id))

\* A controller writes only after a claim of its own that follows those of others.
Owned(tree, id) ==
    \A e, f \in Events(tree, id) : IsClaim(e) /\ e.n < f.n /\ f.by # e.by =>
        \E g \in Events(tree, id) : IsClaim(g) /\ g.by = f.by /\ g.n \in (e.n + 1)..f.n

\* The last claim of the attempt is by c.
Owns(c, tree, id) ==
    \A e \in Events(tree, id) : IsClaim(e) /\ e.by # c =>
        \E g \in Events(tree, id) : IsClaim(g) /\ g.by = c /\ e.n < g.n

SelectionOK(tree, s) ==
    /\ s.run \in Runs(tree) /\ s.id \in AttemptId
    /\ s.seq \in 1..Budget /\ s.task \in TasksOf[Home.campaign]
    /\ \A q \in 1..(s.seq - 1) : q \in RecordedSeqs(tree)
    /\ \A t \in Selections(tree) : s.id = t.id \/ s.seq = t.seq => s = t
    /\ Numbered(tree, s.id) /\ Owned(tree, s.id)

RecordOK(tree, a) ==
    /\ \E s \in Selections(tree) : ClaimOf(s) = ClaimOf(a)
    /\ \A b \in Records(tree) : a.id = b.id => a = b

\* What every version of the branch, and with it every clone, has.
TreeOK(tree) ==
    /\ tree \subseteq File
    /\ Runs(tree) \subseteq Run /\ \A q, r \in Runs(tree) : q = r
    /\ \A s \in Selections(tree) : SelectionOK(tree, s)
    /\ \A a \in Records(tree) : RecordOK(tree, a)
    /\ \A e \in tree : e.kind \in Lifecycle => \E s \in Selections(tree) : s.id = e.id

PC == {"idle", "ready", "execute", "launch", "launched", "running", "append", "mark",
       "report", "status", "returned"}

Memory == [pc : PC, cur : File \union {None}, n : Nat, outcome : Outcome \union {None}]

\* Where a tick goes on writing events of the attempt in hand.
InHand == {"execute", "launch", "launched", "running", "append", "mark"}

\* What the tick of c knows is so in its clone.
Position(c, p, tree) ==
    /\ p.pc \in InHand \union {"report"} => p.cur \in Selections(tree)
    /\ p.pc \in InHand => /\ p.n = Cardinality(Events(tree, p.cur.id))
                          /\ Owns(c, tree, p.cur.id)
    /\ p.pc = "append" => p.outcome \in Outcome

\* A clone is a version of the branch; that of its last move is the branch.
CloneOK(c) ==
    /\ sandbox[c].loose = {} /\ sandbox[c].base <= branch.moves
    /\ sandbox[c].base = branch.moves => sandbox[c].tree = branch.tree
    /\ Selections(sandbox[c].tree) \subseteq Selections(branch.tree)
    /\ TreeOK(sandbox[c].tree)
    /\ Position(c, proc[c], sandbox[c].tree)

Typed ==
    /\ branch \in [moves : Nat, tree : SUBSET File]
    /\ sandbox \in [Controller -> [base : Nat, tree : SUBSET File, loose : SUBSET File]]
    /\ proc \in [Controller -> Memory]
    /\ launches \in [AttemptId -> Nat]

IInv ==
    /\ Typed /\ TreeOK(branch.tree)
    /\ branch.moves = 0 => branch.tree = {}
    /\ \A c \in Controller : CloneOK(c)
    /\ ClaimBeforeLaunch

-----------------------------------------------------------------------------
(* Trees *)

\* Without uncommitted files the working tree is that of HEAD.
LEMMA WorkIsTree ==
    ASSUME NEW s, s.loose = {}
    PROVE  Work(s) = s.tree
BY DEF Work, Overlay

\* A file whose path is new leaves every other one where it is.
LEMMA OverlayAdds ==
    ASSUME NEW tree, NEW f, \A e \in tree : ~SamePath(e, f)
    PROVE  Overlay(tree, {f}) = tree \union {f}
BY DEF Overlay

LEMMA NoTree == TreeOK({})
BY DEF TreeOK, Runs, Selections, Records

\* Selections stay good when nothing of theirs changes.
LEMMA SelectionsKept ==
    ASSUME NEW tree, NEW new, Runs(new) = Runs(tree), Selections(new) = Selections(tree),
           RecordedSeqs(tree) \subseteq RecordedSeqs(new),
           \A id : Events(new, id) = Events(tree, id)
    PROVE  \A s : SelectionOK(tree, s) => SelectionOK(new, s)
<1> SUFFICES ASSUME NEW s, SelectionOK(tree, s)
             PROVE  SelectionOK(new, s)
    OBVIOUS
<1>1. Numbered(new, s.id) /\ Owned(new, s.id)
    BY DEF SelectionOK, Numbered, Owned
<1>2. \A q \in 1..(s.seq - 1) : q \in RecordedSeqs(new)
    BY DEF SelectionOK
<1> QED
    BY <1>1, <1>2 DEF SelectionOK

\* Files that no decision about attempts depends on.
Quiet == {"lesson", "report", "status"}

\* A file of this kind changes no attempt and no run, also when it is rewritten.
LEMMA QuietAdds ==
    ASSUME NEW tree, TreeOK(tree), NEW f \in File, f.kind \in Quiet
    PROVE  /\ TreeOK(Overlay(tree, {f}))
           /\ Runs(Overlay(tree, {f})) = Runs(tree)
           /\ Selections(Overlay(tree, {f})) = Selections(tree)
           /\ Records(Overlay(tree, {f})) = Records(tree)
           /\ \A id : Events(Overlay(tree, {f}), id) = Events(tree, id)
<1> DEFINE new == Overlay(tree, {f})
<1>1. \A e : e.kind \notin Quiet => (e \in new <=> e \in tree)
    BY DEF Overlay, SamePath
<1>2. Runs(new) = Runs(tree) /\ Selections(new) = Selections(tree) /\ Records(new) = Records(tree)
    BY <1>1 DEF Runs, Selections, Records, Quiet
<1>3. \A id : Events(new, id) = Events(tree, id)
    BY <1>1 DEF Events, Lifecycle, Quiet
<1>4. RecordedSeqs(new) = RecordedSeqs(tree)
    BY <1>2 DEF RecordedSeqs
<1>5. \A s : SelectionOK(tree, s) => SelectionOK(new, s)
    BY <1>2, <1>3, <1>4, SelectionsKept
<1>6. \A a : RecordOK(tree, a) => RecordOK(new, a)
    BY <1>2 DEF RecordOK
<1>7. new \subseteq File
    BY DEF TreeOK, Overlay
<1>8. \A e \in new : e.kind \in Lifecycle => e \in tree
    BY <1>1 DEF Lifecycle, Quiet
<1> HIDE DEF new
<1>9. TreeOK(new)
    BY <1>2, <1>5, <1>6, <1>7, <1>8 DEF TreeOK
<1> QED
    BY <1>2, <1>3, <1>9 DEF new

\* A manifest is written where there is none.
LEMMA ManifestAdds ==
    ASSUME NEW tree, TreeOK(tree), Runs(tree) = {},
           NEW f \in File, f.kind = "manifest", f.run \in Run
    PROVE  /\ TreeOK(tree \union {f})
           /\ Runs(tree \union {f}) = {f.run}
           /\ Selections(tree \union {f}) = {} /\ Selections(tree) = {}
           /\ Records(tree \union {f}) = {} /\ Records(tree) = {}
<1> DEFINE new == tree \union {f}
<1>1. Runs(new) = {f.run}
    BY DEF Runs
<1>2. Selections(tree) = {} /\ Records(tree) = {}
    BY DEF TreeOK, SelectionOK, RecordOK
<1>3. Selections(new) = {} /\ Records(new) = {}
    BY <1>2 DEF Selections, Records
<1>4. \A e \in new : e.kind \notin Lifecycle
    BY <1>2 DEF TreeOK, Lifecycle
<1> HIDE DEF new
<1>5. new \subseteq File
    BY DEF TreeOK, new
<1>6. TreeOK(new)
    BY <1>1, <1>3, <1>4, <1>5 DEF TreeOK
<1> QED
    BY <1>1, <1>2, <1>3, <1>6 DEF new

\* What a record adds, for the attempt in hand.
LEMMA RecordAdds ==
    ASSUME NEW tree, TreeOK(tree), NEW s \in Selections(tree), s.id \notin RecordedIds(tree),
           NEW f \in File, f.kind = "record", ClaimOf(f) = ClaimOf(s)
    PROVE  /\ TreeOK(tree \union {f})
           /\ Runs(tree \union {f}) = Runs(tree)
           /\ Selections(tree \union {f}) = Selections(tree)
           /\ Records(tree \union {f}) = Records(tree) \union {f}
           /\ \A id : Events(tree \union {f}, id) = Events(tree, id)
<1> DEFINE new == tree \union {f}
<1>1. /\ Runs(new) = Runs(tree) /\ Selections(new) = Selections(tree)
      /\ Records(new) = Records(tree) \union {f}
    BY DEF Runs, Selections, Records
<1>2. \A id : Events(new, id) = Events(tree, id)
    BY DEF Events, Lifecycle
<1>3. RecordedSeqs(tree) \subseteq RecordedSeqs(new)
    BY <1>1 DEF RecordedSeqs
<1>4. \A t : SelectionOK(tree, t) => SelectionOK(new, t)
    BY <1>1, <1>2, <1>3, SelectionsKept
<1>5. \A a \in Records(tree) : a.id # f.id
    BY DEF RecordedIds, ClaimOf
<1>6. \A a \in Records(new) : RecordOK(new, a)
    BY <1>1, <1>5 DEF TreeOK, RecordOK
<1>7. \A e \in new : e.kind \in Lifecycle => e \in tree
    BY DEF Lifecycle
<1>8. new \subseteq File
    BY DEF TreeOK
<1> HIDE DEF new
<1>9. TreeOK(new)
    BY <1>1, <1>4, <1>6, <1>7, <1>8 DEF TreeOK
<1> QED
    BY <1>1, <1>2, <1>9 DEF new

\* The numbers of an attempt's events when the next one is added.
LEMMA NumberedAdds ==
    ASSUME NEW tree, NEW id, Numbered(tree, id), NEW f,
           f.n = Cardinality(Events(tree, id)) + 1,
           NEW new, Events(new, id) = Events(tree, id) \union {f}
    PROVE  Numbered(new, id) /\ Cardinality(Events(new, id)) = f.n
<1> DEFINE k == Cardinality(Events(tree, id))
<1>1. IsFiniteSet(Events(tree, id)) /\ {e.n : e \in Events(tree, id)} = 1..k /\ k \in Nat
    BY FS_CardinalityType DEF Numbered
<1>2. f \notin Events(tree, id)
    BY <1>1
<1>3. IsFiniteSet(Events(new, id)) /\ Cardinality(Events(new, id)) = k + 1
    BY <1>1, <1>2, FS_AddElement
<1>4. \A x : x \in {e.n : e \in Events(new, id)} <=> x \in {e.n : e \in Events(tree, id)} \/ x = f.n
    OBVIOUS
<1>5. {e.n : e \in Events(new, id)} = 1..(k + 1)
    BY <1>1, <1>4
<1> QED
    BY <1>3, <1>5 DEF Numbered

\* Each event is numbered after all that are there.
LEMMA NumbersBelow ==
    ASSUME NEW tree, NEW id, Numbered(tree, id)
    PROVE  /\ Cardinality(Events(tree, id)) \in Nat
           /\ \A e \in Events(tree, id) : e.n \in 1..Cardinality(Events(tree, id))
BY FS_CardinalityType DEF Numbered

\* Whoever claims the attempt, or had the last claim of it, has it afterwards.
LEMMA OwnedAdds ==
    ASSUME NEW tree, NEW id, Numbered(tree, id), Owned(tree, id), NEW f, NEW c,
           f.by = c, f.n = Cardinality(Events(tree, id)) + 1,
           IsClaim(f) \/ Owns(c, tree, id),
           NEW new, Events(new, id) = Events(tree, id) \union {f}
    PROVE  Owned(new, id) /\ Owns(c, new, id)
<1>1. \A e \in Events(tree, id) : e.n \in Nat /\ e.n < f.n
    BY NumbersBelow
<1>2. f.n \in Nat
    BY NumbersBelow
<1>3. \A e \in Events(tree, id) : IsClaim(e) /\ e.by # c =>
          \E g \in Events(new, id) : IsClaim(g) /\ g.by = c /\ e.n < g.n /\ g.n <= f.n
    <2>1. CASE IsClaim(f)
        BY <1>1, <1>2, <2>1
    <2>2. CASE Owns(c, tree, id)
        BY <1>1, <1>2, <2>2 DEF Owns
    <2> QED
        BY <2>1, <2>2
<1>4. Owns(c, new, id)
    BY <1>3 DEF Owns
<1>5. ASSUME NEW e \in Events(new, id), NEW h \in Events(new, id),
             IsClaim(e), e.n < h.n, h.by # e.by
      PROVE  \E g \in Events(new, id) : IsClaim(g) /\ g.by = h.by /\ g.n \in (e.n + 1)..h.n
    <2>1. CASE h = f
        <3>1. e \in Events(tree, id) /\ e.by # c
            BY <1>2, <1>5, <2>1
        <3>2. PICK g \in Events(new, id) : IsClaim(g) /\ g.by = c /\ e.n < g.n /\ g.n <= f.n
            BY <1>3, <1>5, <3>1
        <3>3. g.n \in Nat
            BY <1>1, <1>2
        <3> QED
            BY <1>1, <1>2, <2>1, <3>1, <3>2, <3>3
    <2>2. CASE h # f
        <3>1. e \in Events(tree, id) /\ h \in Events(tree, id)
            BY <1>1, <1>2, <1>5, <2>2
        <3> QED
            BY <1>5, <3>1 DEF Owned
    <2> QED
        BY <2>1, <2>2
<1> QED
    BY <1>4, <1>5 DEF Owned

\* The next event of an attempt, by a controller that claims it or owns it.
LEMMA EventAdds ==
    ASSUME NEW tree, TreeOK(tree), NEW s \in Selections(tree),
           NEW c, NEW f \in File, f.kind \in Lifecycle \ {"attempt_selected"},
           f.id = s.id, f.by = c, f.n = Cardinality(Events(tree, s.id)) + 1,
           IsClaim(f) \/ Owns(c, tree, s.id)
    PROVE  /\ TreeOK(tree \union {f})
           /\ Runs(tree \union {f}) = Runs(tree)
           /\ Selections(tree \union {f}) = Selections(tree)
           /\ Records(tree \union {f}) = Records(tree)
           /\ Cardinality(Events(tree \union {f}, s.id)) = f.n
           /\ Owns(c, tree \union {f}, s.id)
<1> DEFINE new == tree \union {f}
<1>1. /\ Runs(new) = Runs(tree) /\ Selections(new) = Selections(tree)
      /\ Records(new) = Records(tree)
    BY DEF Runs, Selections, Records, Lifecycle
<1>2. RecordedSeqs(new) = RecordedSeqs(tree)
    BY <1>1 DEF RecordedSeqs
<1>3. \A t : t.id # s.id => Events(new, t.id) = Events(tree, t.id)
    BY DEF Events
<1>4. Events(new, s.id) = Events(tree, s.id) \union {f}
    BY DEF Events
<1>5. new \subseteq File
    BY DEF TreeOK
<1>6. \A e \in new : e.kind \in Lifecycle => e.id = s.id \/ e \in tree
    OBVIOUS
<1> HIDE DEF new
<1>7. Numbered(tree, s.id) /\ Owned(tree, s.id)
    BY DEF TreeOK, SelectionOK
<1>8. Numbered(new, s.id) /\ Cardinality(Events(new, s.id)) = f.n
    BY <1>4, <1>7, NumberedAdds
<1>9. Owned(new, s.id) /\ Owns(c, new, s.id)
    BY <1>4, <1>7, OwnedAdds
<1>10. ASSUME NEW t \in Selections(new)
       PROVE  SelectionOK(new, t)
    <2>1. SelectionOK(tree, t)
        BY <1>1 DEF TreeOK
    <2>2. Numbered(new, t.id) /\ Owned(new, t.id)
        <3>1. CASE t.id = s.id
            BY <1>8, <1>9, <3>1
        <3>2. CASE t.id # s.id
            BY <1>3, <2>1, <3>2 DEF SelectionOK, Numbered, Owned
        <3> QED
            BY <3>1, <3>2
    <2> QED
        BY <1>1, <1>2, <2>1, <2>2 DEF SelectionOK
<1>11. \A a \in Records(new) : RecordOK(new, a)
    BY <1>1 DEF TreeOK, RecordOK
<1>12. TreeOK(new)
    BY <1>1, <1>5, <1>6, <1>10, <1>11 DEF TreeOK
<1> QED
    BY <1>1, <1>8, <1>9, <1>12 DEF new

\* The selection that c may make when no attempt is pending: under an id of no file,
\* with the least sequence that is not recorded.
IsNextClaim(c, tree, f) ==
    /\ f \in File /\ f.kind = "attempt_selected" /\ f.by = c /\ f.n = 1
    /\ f.run \in Runs(tree) /\ f.id \in AttemptId /\ f.task \in TasksOf[Home.campaign]
    /\ \A e \in tree : e.id # f.id
    /\ f.seq \in 1..Budget \ RecordedSeqs(tree)
    /\ \A q \in 1..Budget \ RecordedSeqs(tree) : f.seq <= q

\* A selection under a fresh id takes the sequence after the recorded ones.
LEMMA SelectionAdds ==
    ASSUME NEW tree, TreeOK(tree), Pending(tree) = {}, NEW c, NEW f, IsNextClaim(c, tree, f)
    PROVE  /\ TreeOK(tree \union {f})
           /\ Runs(tree \union {f}) = Runs(tree)
           /\ Selections(tree \union {f}) = Selections(tree) \union {f}
           /\ Records(tree \union {f}) = Records(tree)
           /\ Cardinality(Events(tree \union {f}, f.id)) = 1
           /\ Owns(c, tree \union {f}, f.id)
           /\ {s.seq : s \in Selections(tree)} = 1..(f.seq - 1)
<1> DEFINE new == tree \union {f}
<1>1. /\ f \in File /\ f.kind = "attempt_selected" /\ f.by = c /\ f.n = 1
      /\ f.run \in Runs(tree) /\ f.id \in AttemptId /\ f.task \in TasksOf[Home.campaign]
      /\ \A e \in tree : e.id # f.id
      /\ f.seq \in 1..Budget \ RecordedSeqs(tree)
      /\ \A q \in 1..Budget \ RecordedSeqs(tree) : f.seq <= q
    BY DEF IsNextClaim
<1> USE <1>1
<1>2. /\ Runs(new) = Runs(tree) /\ Selections(new) = Selections(tree) \union {f}
      /\ Records(new) = Records(tree)
    BY DEF Runs, Selections, Records
<1>3. RecordedSeqs(new) = RecordedSeqs(tree)
    BY <1>2 DEF RecordedSeqs
<1>4. \A id : id # f.id => Events(new, id) = Events(tree, id)
    BY DEF Events
<1>5. Events(new, f.id) = {f}
    BY DEF Events, Lifecycle
<1>6. new \subseteq File
    BY DEF TreeOK
<1>7. \A e \in new : e.kind \in Lifecycle => e = f \/ e \in tree
    OBVIOUS
<1>8. \A s \in Selections(tree) : s.id # f.id
    BY DEF Selections
<1> HIDE DEF new
<1>9. Budget \in Nat
    BY BudgetAssumption, HomeAssumption DEF Budget, Manifest
<1>10. RecordedSeqs(tree) = {s.seq : s \in Selections(tree)}
    <2>1. \A s \in Selections(tree) : s.id \in RecordedIds(tree)
        BY DEF Pending
    <2>2. ASSUME NEW s \in Selections(tree)
          PROVE  s.seq \in RecordedSeqs(tree)
        <3>1. PICK a \in Records(tree) : a.id = s.id
            BY <2>1 DEF RecordedIds
        <3>2. PICK t \in Selections(tree) : ClaimOf(t) = ClaimOf(a)
            BY DEF TreeOK, RecordOK
        <3>3. t = s
            BY <3>1, <3>2 DEF TreeOK, SelectionOK, ClaimOf
        <3> QED
            BY <3>2, <3>3 DEF ClaimOf, RecordedSeqs
    <2>3. ASSUME NEW a \in Records(tree)
          PROVE  a.seq \in {s.seq : s \in Selections(tree)}
        BY DEF TreeOK, RecordOK, ClaimOf
    <2> QED
        BY <2>2, <2>3 DEF RecordedSeqs
<1>11. RecordedSeqs(tree) = 1..(f.seq - 1)
    <2>1. \A q \in 1..(f.seq - 1) : q \in RecordedSeqs(tree)
        BY <1>9
    <2>2. ASSUME NEW s \in Selections(tree)
          PROVE  s.seq \in 1..(f.seq - 1)
        <3>1. s.seq \in 1..Budget /\ s.seq # f.seq
            BY <1>10 DEF TreeOK, SelectionOK
        <3>2. \A q \in 1..(s.seq - 1) : q \in RecordedSeqs(tree)
            BY DEF TreeOK, SelectionOK
        <3> QED
            BY <1>9, <3>1, <3>2
    <2> QED
        BY <1>10, <2>1, <2>2
<1>12. Numbered(new, f.id) /\ Cardinality(Events(new, f.id)) = 1
    <2>1. IsFiniteSet({f}) /\ Cardinality({f}) = 1
        BY FS_Singleton
    <2>2. {e.n : e \in {f}} = 1..1
        OBVIOUS
    <2> QED
        BY <1>5, <2>1, <2>2 DEF Numbered
<1>13. Owned(new, f.id) /\ Owns(c, new, f.id)
    <2>1. f.n < f.n => FALSE
        OBVIOUS
    <2> QED
        BY <1>5, <2>1 DEF Owned, Owns
<1>14. ASSUME NEW s \in Selections(new)
       PROVE  SelectionOK(new, s)
    <2>1. CASE s = f
        <3>1. \A t \in Selections(new) : f.id = t.id \/ f.seq = t.seq => f = t
            BY <1>2, <1>8, <1>10
        <3> QED
            BY <1>2, <1>3, <1>11, <1>12, <1>13, <2>1, <3>1 DEF SelectionOK
    <2>2. CASE s # f
        <3>1. s \in Selections(tree) /\ SelectionOK(tree, s)
            BY <1>2, <2>2 DEF TreeOK
        <3>2. s.id # f.id /\ s.seq # f.seq
            BY <1>8, <1>10, <3>1
        <3>3. Numbered(new, s.id) /\ Owned(new, s.id)
            BY <1>4, <3>1, <3>2 DEF SelectionOK, Numbered, Owned
        <3> QED
            BY <1>2, <1>3, <3>1, <3>2, <3>3 DEF SelectionOK
    <2> QED
        BY <2>1, <2>2
<1>15. \A a \in Records(new) : RecordOK(new, a)
    BY <1>2 DEF TreeOK, RecordOK
<1>16. TreeOK(new)
    BY <1>2, <1>6, <1>7, <1>14, <1>15 DEF TreeOK
<1> QED
    BY <1>2, <1>10, <1>11, <1>12, <1>13, <1>16 DEF new

-----------------------------------------------------------------------------
(* Steps *)

\* What the abstract ledger is made of is as it was.
LEMMA LedgerStutters ==
    ASSUME Runs(branch'.tree) = Runs(branch.tree),
           Selections(branch'.tree) = Selections(branch.tree),
           Records(branch'.tree) = Records(branch.tree)
    PROVE  UNCHANGED Ledger!ledger
BY DEF Ledger!ledger, Manifests, Claims, Results

\* Clones know no more than the branch, which never forgets a selection.
LEMMA CloneKept ==
    ASSUME IInv, NEW d \in Controller, sandbox'[d] = sandbox[d], proc'[d] = proc[d],
           \/ branch' = branch
           \/ /\ branch'.moves = branch.moves + 1
              /\ Selections(branch.tree) \subseteq Selections(branch'.tree)
    PROVE  CloneOK(d)'
<1>1. branch.moves \in Nat /\ sandbox[d].base \in Nat
    BY DEF IInv, Typed
<1>2. CloneOK(d)
    BY DEF IInv
<1>3. Position(d, proc[d], sandbox[d].tree)'
    BY <1>2 DEF CloneOK
<1>4. TreeOK(sandbox[d].tree)'
    BY <1>2 DEF CloneOK
<1> QED
    BY <1>1, <1>2, <1>3, <1>4 DEF CloneOK

\* The tick goes on, and no file changes.
LEMMA GoesOn ==
    ASSUME IInv, NEW c \in Controller, NEW p \in Memory, Position(c, p, sandbox[c].tree),
           proc' = [proc EXCEPT ![c] = p], sandbox' = sandbox, branch' = branch,
           launches' = launches
    PROVE  IInv' /\ UNCHANGED Ledger!ledger
<1>1. Typed'
    BY DEF IInv, Typed
<1>2. proc'[c] = p /\ \A d \in Controller \ {c} : proc'[d] = proc[d]
    BY DEF IInv, Typed
<1>3. ASSUME NEW d \in Controller
      PROVE  CloneOK(d)'
    <2>1. CASE d = c
        <3>1. CloneOK(c) /\ Position(c, proc[c], sandbox[c].tree)'
            BY <1>2 DEF IInv
        <3> QED
            BY <2>1, <3>1 DEF CloneOK
    <2>2. CASE d # c
        BY <1>2, <2>2, CloneKept
    <2> QED
        BY <2>1, <2>2
<1>4. UNCHANGED Ledger!ledger
    BY LedgerStutters
<1> QED
    BY <1>1, <1>3, <1>4 DEF IInv, ClaimBeforeLaunch

\* A clone of the branch as it is.
Head == [base |-> branch.moves, tree |-> branch.tree, loose |-> {}]

\* A tick that has nothing in hand, in a clone of main or of the branch.
LEMMA ResetKeeps ==
    ASSUME IInv, NEW c \in Controller, NEW s \in {Clone, Head}, NEW p \in {Idle, Ready},
           Continues(c, s, p), branch' = branch, launches' = launches
    PROVE  IInv' /\ UNCHANGED Ledger!ledger
<1>1. sandbox' = [sandbox EXCEPT ![c] = s] /\ proc' = [proc EXCEPT ![c] = p]
    BY DEF Continues
<1>2. s \in [base : Nat, tree : SUBSET File, loose : SUBSET File] /\ p \in Memory
    BY DEF Clone, Head, Idle, Ready, Memory, PC, IInv, Typed
<1>3. Typed'
    BY <1>1, <1>2 DEF IInv, Typed
<1>4. ASSUME NEW d \in Controller
      PROVE  CloneOK(d)'
    <2>1. CASE d = c
        <3>1. sandbox'[c] = s /\ proc'[c] = p
            BY <1>1 DEF IInv, Typed
        <3>2. TreeOK(s.tree) /\ Selections(s.tree) \subseteq Selections(branch.tree) /\ s.loose = {}
            BY NoTree DEF Clone, Head, Selections, IInv
        <3>3. Position(c, p, s.tree)
            BY DEF Position, Idle, Ready, InHand
        <3>4. s.base <= branch.moves
            BY DEF Clone, Head, IInv, Typed
        <3>5. s.base = branch.moves => s.tree = branch.tree
            BY DEF Clone, Head, IInv
        <3> QED
            BY <1>1, <2>1, <3>1, <3>2, <3>3, <3>4, <3>5 DEF CloneOK
    <2>2. CASE d # c
        BY <1>1, <2>2, CloneKept DEF IInv, Typed
    <2> QED
        BY <2>1, <2>2
<1>5. UNCHANGED Ledger!ledger
    BY LedgerStutters
<1> QED
    BY <1>3, <1>4, <1>5 DEF IInv, ClaimBeforeLaunch

\* The tick ends and its sandbox with it.
Dropped(c) == Continues(c, Clone, Idle) /\ branch' = branch

LEMMA DroppedKeeps ==
    ASSUME IInv, NEW c \in Controller, Dropped(c), launches' = launches
    PROVE  IInv' /\ UNCHANGED Ledger!ledger
BY ResetKeeps DEF Dropped

\* In a fresh sandbox a tick that ends leaves nothing behind.
LEMMA EndsDrops ==
    ASSUME Fresh, NEW c, NEW s, Ends(c, s), branch' = branch
    PROVE  Dropped(c)
BY DEF Fresh, Ends, Dropped

\* The commit of f goes to the branch, whose files are those of the clone.
Pushed(c, f, p) ==
    /\ sandbox[c].tree = branch.tree
    /\ Moves(c, Overlay(branch.tree, {f}), p)

LEMMA PushedKeeps ==
    ASSUME IInv, NEW c \in Controller, NEW f, NEW p \in Memory, Pushed(c, f, p),
           TreeOK(Overlay(branch.tree, {f})), Position(c, p, Overlay(branch.tree, {f})),
           Selections(branch.tree) \subseteq Selections(Overlay(branch.tree, {f})),
           launches' = launches
    PROVE  IInv' /\ branch'.tree = Overlay(branch.tree, {f})
<1> DEFINE new == Overlay(branch.tree, {f})
           s == [base |-> branch.moves + 1, tree |-> new, loose |-> {}]
<1>1. new \subseteq File
    BY DEF TreeOK
<1>2. /\ branch' = [moves |-> branch.moves + 1, tree |-> new]
      /\ sandbox' = [sandbox EXCEPT ![c] = s] /\ proc' = [proc EXCEPT ![c] = p]
    BY DEF Pushed, Moves, Continues
<1>3. TreeOK(new) /\ Position(c, p, new) /\ Selections(branch.tree) \subseteq Selections(new)
    OBVIOUS
<1> HIDE DEF new
<1>4. branch.moves \in Nat
    BY DEF IInv, Typed
<1>5. s \in [base : Nat, tree : SUBSET File, loose : SUBSET File]
    BY <1>1, <1>4
<1>6. branch' \in [moves : Nat, tree : SUBSET File]
    BY <1>1, <1>2, <1>4
<1>7. Typed'
    BY <1>2, <1>5, <1>6 DEF IInv, Typed
<1>8. ASSUME NEW d \in Controller
      PROVE  CloneOK(d)'
    <2>1. CASE d = c
        <3>1. sandbox'[c] = s /\ proc'[c] = p
            BY <1>2 DEF IInv, Typed
        <3>2. TreeOK(sandbox[c].tree)' /\ Position(c, proc[c], sandbox[c].tree)'
            BY <1>3, <3>1
        <3> QED
            BY <1>2, <1>4, <2>1, <3>1, <3>2 DEF CloneOK
    <2>2. CASE d # c
        BY <1>2, <1>3, <2>2, CloneKept DEF IInv, Typed
    <2> QED
        BY <2>1, <2>2
<1>9. TreeOK(branch.tree)' /\ branch'.moves # 0 /\ branch'.tree = new
    BY <1>2, <1>3, <1>4
<1>10. ClaimBeforeLaunch'
    BY <1>3, <1>9 DEF IInv, ClaimBeforeLaunch
<1> QED
    BY <1>7, <1>8, <1>9, <1>10 DEF IInv, new

\* What a checkpoint does in a fresh sandbox: nothing to commit, pushed, or lost.
LEMMA CheckpointOutcomes ==
    ASSUME IInv, Fresh, NEW c \in Controller, NEW f, NEW p, Checkpoint(c, f, p)
    PROVE  \/ /\ \E e \in sandbox[c].tree : SamePath(e, f)
              /\ proc' = [proc EXCEPT ![c] = p] /\ sandbox' = sandbox /\ branch' = branch
           \/ Pushed(c, f, p)
           \/ Dropped(c)
<1>1. /\ sandbox[c].loose = {} /\ Work(sandbox[c]) = sandbox[c].tree
      /\ sandbox[c].base = branch.moves => sandbox[c].tree = branch.tree
    BY WorkIsTree DEF IInv, CloneOK
<1>2. SamePath(f, f)
    BY DEF SamePath
<1>3. Changed(sandbox[c], f) = {} => \E e \in sandbox[c].tree : SamePath(e, f)
    BY <1>1, <1>2 DEF Changed, Write, Overlay
<1>4. Changed(sandbox[c], f) # {} => Changed(sandbox[c], f) = {f}
    BY <1>1 DEF Changed, Write, Overlay
<1>5. [sandbox EXCEPT ![c] = [sandbox[c] EXCEPT !.loose = {}]] = sandbox
    <2>1. [sandbox[c] EXCEPT !.loose = {}] = sandbox[c]
        BY <1>1 DEF IInv, Typed
    <2> QED
        BY <2>1 DEF IInv, Typed
<1>6. CASE Changed(sandbox[c], f) = {}
    BY <1>3, <1>5, <1>6 DEF Checkpoint, Continues
<1>7. CASE Changed(sandbox[c], f) # {}
    <2>1. CASE \E tree \in Accepted(c, {f}) : Moves(c, tree, p)
        BY <1>1, <2>1 DEF Accepted, Pushed
    <2>2. CASE ~ \E tree \in Accepted(c, {f}) : Moves(c, tree, p)
        <3>1. branch' = branch /\ \E s : Ends(c, s)
            BY <1>4, <1>7, <2>2 DEF Checkpoint
        <3> QED
            BY <3>1, EndsDrops
    <2> QED
        BY <2>1, <2>2
<1> QED
    BY <1>6, <1>7

\* A checkpoint of a file that no attempt depends on.
LEMMA QuietCheckpoint ==
    ASSUME IInv, Fresh, NEW c \in Controller, NEW f \in File, NEW p \in Memory,
           Checkpoint(c, f, p), f.kind \in Quiet, Position(c, p, sandbox[c].tree),
           launches' = launches
    PROVE  IInv' /\ UNCHANGED Ledger!ledger
<1>1. CASE proc' = [proc EXCEPT ![c] = p] /\ sandbox' = sandbox /\ branch' = branch
    BY <1>1, GoesOn
<1>2. CASE Pushed(c, f, p)
    <2> DEFINE new == Overlay(branch.tree, {f})
    <2>1. TreeOK(branch.tree) /\ sandbox[c].tree = branch.tree
        BY <1>2 DEF IInv, Pushed
    <2>2. /\ TreeOK(new) /\ Runs(new) = Runs(branch.tree)
          /\ Selections(new) = Selections(branch.tree) /\ Records(new) = Records(branch.tree)
          /\ \A id : Events(new, id) = Events(branch.tree, id)
        BY <2>1, QuietAdds
    <2>3. Position(c, p, new)
        BY <2>1, <2>2 DEF Position, Owns
    <2>4. IInv' /\ branch'.tree = new
        BY <1>2, <2>2, <2>3, PushedKeeps
    <2> QED
        BY <2>2, <2>4, LedgerStutters
<1>3. CASE Dropped(c)
    BY <1>3, DroppedKeeps
<1> QED
    BY <1>1, <1>2, <1>3, CheckpointOutcomes

\* A checkpoint of a new file keeps the invariant when the tree with it is good.
LEMMA NewCheckpoint ==
    ASSUME IInv, Fresh, NEW c \in Controller, NEW f \in File, NEW p \in Memory,
           Checkpoint(c, f, p), \A e \in sandbox[c].tree : ~SamePath(e, f),
           TreeOK(sandbox[c].tree \union {f}), Position(c, p, sandbox[c].tree \union {f}),
           launches' = launches
    PROVE  /\ IInv'
           /\ \/ UNCHANGED Ledger!ledger
              \/ branch.tree = sandbox[c].tree /\ branch'.tree = sandbox[c].tree \union {f}
<1>1. CASE Pushed(c, f, p)
    <2>1. sandbox[c].tree = branch.tree
        BY <1>1 DEF Pushed
    <2>2. Overlay(branch.tree, {f}) = branch.tree \union {f}
        BY <2>1, OverlayAdds
    <2>3. Selections(branch.tree) \subseteq Selections(branch.tree \union {f})
        BY DEF Selections
    <2> QED
        BY <1>1, <2>1, <2>2, <2>3, PushedKeeps
<1>2. CASE Dropped(c)
    BY <1>2, DroppedKeeps
<1> QED
    BY <1>1, <1>2, CheckpointOutcomes

-----------------------------------------------------------------------------
(* Actions *)

LEMMA PrepareSafe ==
    ASSUME IInv, NEW c \in Controller, Prepare(c)
    PROVE  IInv' /\ UNCHANGED Ledger!ledger
<1>1. sandbox[c].loose = {}
    BY DEF IInv, CloneOK
<1>2. Checkout(sandbox[c], Main) = Clone
    BY <1>1 DEF Checkout, Clash, Main, Clone
<1>3. ~Clash(Clone, branch) /\ Checkout(Clone, branch) = Head
    BY DEF Checkout, Clash, Clone, Head
<1>4. (Continues(c, Clone, Ready) \/ Continues(c, Head, Ready)) /\ branch' = branch /\ launches' = launches
    BY <1>2, <1>3 DEF Prepare
<1> QED
    BY <1>4, ResetKeeps

LEMMA NextTickSafe ==
    ASSUME IInv, NEW c \in Controller, NextTick(c)
    PROVE  IInv' /\ UNCHANGED Ledger!ledger
<1>1. Ready \in Memory /\ Position(c, Ready, sandbox[c].tree)
    BY DEF Ready, Idle, Memory, PC, Position, InHand
<1> QED
    BY <1>1, GoesOn DEF NextTick

LEMMA EndTickSafe ==
    ASSUME IInv, Fresh, NEW c \in Controller, EndTick(c) \/ Crash(c)
    PROVE  IInv' /\ UNCHANGED Ledger!ledger
<1>1. Ends(c, sandbox[c]) /\ branch' = branch /\ launches' = launches
    BY DEF EndTick, Crash
<1> QED
    BY <1>1, EndsDrops, DroppedKeeps

\* The working tree that every decision of a tick is made on.
LEMMA OwnTree ==
    ASSUME IInv, NEW c \in Controller
    PROVE  /\ Work(sandbox[c]) = sandbox[c].tree /\ TreeOK(sandbox[c].tree)
           /\ proc[c] \in Memory /\ Position(c, proc[c], sandbox[c].tree)
           /\ Selections(sandbox[c].tree) \subseteq Selections(branch.tree)
           /\ sandbox[c].tree \subseteq Everywhere
<1>1. /\ Work(sandbox[c]) = sandbox[c].tree /\ TreeOK(sandbox[c].tree)
      /\ Position(c, proc[c], sandbox[c].tree)
      /\ Selections(sandbox[c].tree) \subseteq Selections(branch.tree)
    BY WorkIsTree DEF IInv, CloneOK
<1>2. proc[c] \in Memory
    BY DEF IInv, Typed
<1> QED
    BY <1>1, <1>2 DEF Everywhere

LEMMA CreateRunSafe ==
    ASSUME IInv, Fresh, NEW c \in Controller, CreateRun(c)
    PROVE  IInv' /\ (Ledger!Next \/ UNCHANGED Ledger!ledger)
<1> DEFINE tree == sandbox[c].tree
<1>1. Runs(tree) = {} /\ TreeOK(tree) /\ launches' = launches
    BY OwnTree DEF CreateRun
<1>2. PICK r \in NewRuns : Checkpoint(c, FileOf(c, [cur |-> [run |-> r, id |-> None]], "manifest"), Ready)
    BY DEF CreateRun
<1> DEFINE f == FileOf(c, [cur |-> [run |-> r, id |-> None]], "manifest")
<1>3. f \in File /\ f.kind = "manifest" /\ f.run = r /\ r \in Run
    BY DEF FileOf, File, NewRuns
<1>4. Checkpoint(c, f, Ready)
    BY <1>2
<1> HIDE DEF f
<1>5. \A e \in tree : ~SamePath(e, f)
    BY <1>1, <1>3 DEF SamePath, Runs
<1>6. /\ TreeOK(tree \union {f}) /\ Runs(tree \union {f}) = {r}
      /\ Selections(tree \union {f}) = {} /\ Selections(tree) = {}
      /\ Records(tree \union {f}) = {} /\ Records(tree) = {}
    BY <1>1, <1>3, ManifestAdds
<1>7. Ready \in Memory /\ Position(c, Ready, tree \union {f})
    BY DEF Ready, Idle, Memory, PC, Position, InHand
<1>8. /\ IInv'
      /\ (UNCHANGED Ledger!ledger \/ (branch.tree = tree /\ branch'.tree = tree \union {f}))
    BY <1>1, <1>3, <1>4, <1>5, <1>6, <1>7, NewCheckpoint
<1>9. ASSUME branch.tree = tree, branch'.tree = tree \union {f}
      PROVE  Ledger!Next
    <2>1. Manifests[r] = None /\ Manifests' = [Manifests EXCEPT ![r] = Home]
        BY <1>1, <1>3, <1>6, <1>9 DEF Manifests
    <2>2. Claims' = Claims /\ Results' = Results
        BY <1>6, <1>9 DEF Claims, Results
    <2>3. Ledger!Open(r, Home)
        BY <2>1, <2>2 DEF Ledger!Open
    <2> QED
        BY <1>3, <2>3, HomeAssumption DEF Ledger!Next, Ledger!Manifest, Manifest
<1> QED
    BY <1>8, <1>9

\* An event of the attempt that p has in hand, by a controller that claims or owns it.
LEMMA JournalSafe ==
    ASSUME IInv, Fresh, NEW c \in Controller, NEW p \in Memory, NEW kind, Journal(c, kind, p),
           kind \in Lifecycle \ {"attempt_selected"},
           p.cur \in Selections(sandbox[c].tree),
           p.n = Cardinality(Events(sandbox[c].tree, p.cur.id)),
           kind = "attempt_recovery_started" \/ Owns(c, sandbox[c].tree, p.cur.id),
           p.pc = "append" => p.outcome \in Outcome,
           launches' = launches
    PROVE  IInv' /\ UNCHANGED Ledger!ledger
<1> DEFINE tree == sandbox[c].tree
           f == [FileOf(c, p, kind) EXCEPT !.n = p.n + 1]
           q == [p EXCEPT !.n = p.n + 1]
<1>1. TreeOK(tree) /\ SelectionOK(tree, p.cur) /\ p.n \in Nat
    BY OwnTree DEF TreeOK, Memory
<1>2. p.cur.run \in Run /\ p.cur.id \in AttemptId
    BY <1>1 DEF SelectionOK, TreeOK
<1>3. /\ f \in File /\ f.kind = kind /\ f.id = p.cur.id /\ f.by = c /\ f.n = p.n + 1
    BY <1>1, <1>2 DEF FileOf, File
<1>4. q \in Memory /\ q.pc = p.pc /\ q.cur = p.cur /\ q.outcome = p.outcome /\ q.n = p.n + 1
    BY <1>1 DEF Memory
<1>5. Checkpoint(c, f, q)
    BY DEF Journal
<1> HIDE DEF f, q
<1>6. \A e \in tree : ~SamePath(e, f)
    <2>1. \A e \in Events(tree, p.cur.id) : e.n # p.n + 1
        BY <1>1, NumbersBelow DEF SelectionOK
    <2> QED
        BY <1>3, <2>1 DEF SamePath, Events
<1>7. IsClaim(f) \/ Owns(c, tree, p.cur.id)
    BY <1>3 DEF IsClaim
<1>8. /\ TreeOK(tree \union {f}) /\ Runs(tree \union {f}) = Runs(tree)
      /\ Selections(tree \union {f}) = Selections(tree) /\ Records(tree \union {f}) = Records(tree)
      /\ Cardinality(Events(tree \union {f}, p.cur.id)) = f.n /\ Owns(c, tree \union {f}, p.cur.id)
    BY <1>1, <1>3, <1>7, EventAdds
<1>9. Position(c, q, tree \union {f})
    BY <1>3, <1>4, <1>8 DEF Position
<1>10. /\ IInv'
       /\ (UNCHANGED Ledger!ledger \/ (branch.tree = tree /\ branch'.tree = tree \union {f}))
    BY <1>3, <1>4, <1>5, <1>6, <1>8, <1>9, NewCheckpoint
<1> QED
    BY <1>8, <1>10, LedgerStutters

LEMMA RecoverSafe ==
    ASSUME IInv, Fresh, NEW c \in Controller, Recover(c)
    PROVE  IInv' /\ UNCHANGED Ledger!ledger
<1> DEFINE tree == sandbox[c].tree
<1>1. Work(sandbox[c]) = tree /\ TreeOK(tree) /\ launches' = launches
    BY OwnTree DEF Recover
<1>2. PICK s \in FirstPending(tree) : \E last \in {e.n : e \in Events(tree, s.id)} :
          /\ LastNumber(Events(tree, s.id), last)
          /\ Journal(c, "attempt_recovery_started",
                [Ready EXCEPT !.pc = IF HasRemoteState(tree, s) THEN "running" ELSE "execute",
                              !.cur = s, !.n = last])
    BY <1>1 DEF Recover
<1>3. PICK last \in {e.n : e \in Events(tree, s.id)} :
          /\ LastNumber(Events(tree, s.id), last)
          /\ Journal(c, "attempt_recovery_started",
                [Ready EXCEPT !.pc = IF HasRemoteState(tree, s) THEN "running" ELSE "execute",
                              !.cur = s, !.n = last])
    BY <1>2
<1> DEFINE p == [Ready EXCEPT !.pc = IF HasRemoteState(tree, s) THEN "running" ELSE "execute",
                              !.cur = s, !.n = last]
<1>4. s \in Selections(tree) /\ SelectionOK(tree, s) /\ s \in File
    BY <1>1 DEF FirstPending, Pending, TreeOK, Selections
<1>5. last = Cardinality(Events(tree, s.id)) /\ last \in Nat
    <2>1. /\ {e.n : e \in Events(tree, s.id)} = 1..Cardinality(Events(tree, s.id))
          /\ Cardinality(Events(tree, s.id)) \in Nat
        BY <1>4, NumbersBelow DEF SelectionOK, Numbered
    <2>2. last \in 1..Cardinality(Events(tree, s.id))
        BY <2>1
    <2>3. Cardinality(Events(tree, s.id)) \in {e.n : e \in Events(tree, s.id)}
        BY <2>1, <2>2
    <2>4. Cardinality(Events(tree, s.id)) <= last
        BY <1>3, <2>3 DEF LastNumber
    <2> QED
        BY <2>1, <2>2, <2>4
<1>6. p \in Memory /\ p.cur = s /\ p.n = last /\ p.pc \in {"running", "execute"}
    BY <1>4, <1>5 DEF Ready, Idle, Memory, PC
<1>7. Journal(c, "attempt_recovery_started", p)
    BY <1>3
<1> HIDE DEF p
<1>8. "attempt_recovery_started" \in Lifecycle \ {"attempt_selected"}
    BY DEF Lifecycle
<1> QED
    BY <1>1, <1>4, <1>5, <1>6, <1>7, <1>8, JournalSafe

\* A push of a selection makes the next claim in the ledger.
LEMMA ClaimRefines ==
    ASSUME TreeOK(branch.tree), Pending(branch.tree) = {}, NEW r \in Runs(branch.tree),
           NEW s, s.run = r, s.id \in AttemptId, s.seq \in 1..Budget,
           s.task \in TasksOf[Home.campaign], \A e \in branch.tree : e.id # s.id,
           {t.seq : t \in Selections(branch.tree)} = 1..(s.seq - 1),
           Runs(branch'.tree) = Runs(branch.tree),
           Selections(branch'.tree) = Selections(branch.tree) \union {s},
           Records(branch'.tree) = Records(branch.tree)
    PROVE  Ledger!Next
<1>1. r \in Run /\ Runs(branch.tree) = {r}
    BY DEF TreeOK
<1>2. Manifests[r] = Home /\ Home # None
    BY <1>1, HomeAssumption, NoneAssumption DEF Manifests
<1>3. s.task \in Task
    BY TasksAssumption, HomeAssumption DEF Manifest
<1>4. \A k \in Claims : k.id # s.id /\ k.run = r
    BY <1>1 DEF Claims, ClaimOf, Selections, TreeOK, SelectionOK
<1>5. Ledger!ClaimsOf(r) = Claims
    BY <1>4 DEF Ledger!ClaimsOf
<1>6. {k.seq : k \in Claims} = 1..(s.seq - 1)
    <2>1. {k.seq : k \in Claims} = {ClaimOf(t).seq : t \in Selections(branch.tree)}
        BY DEF Claims
    <2>2. \A t : ClaimOf(t).seq = t.seq
        BY DEF ClaimOf
    <2> QED
        BY <2>1, <2>2
<1>7. \A k \in Claims : \E x \in Results : x.claim = k
    <2> SUFFICES ASSUME NEW t \in Selections(branch.tree)
                 PROVE  \E x \in Results : x.claim = ClaimOf(t)
        BY DEF Claims
    <2>1. PICK a \in Records(branch.tree) : a.id = t.id
        BY DEF Pending, RecordedIds
    <2>2. PICK u \in Selections(branch.tree) : ClaimOf(u) = ClaimOf(a)
        BY DEF TreeOK, RecordOK
    <2>3. u = t
        BY <2>1, <2>2 DEF TreeOK, SelectionOK, ClaimOf
    <2>4. [claim |-> ClaimOf(a), outcome |-> a.outcome, score |-> None] \in Results
        BY DEF Results
    <2> QED
        BY <2>2, <2>3, <2>4
<1>8. Claims' = Claims \union {ClaimOf(s)} /\ Manifests' = Manifests /\ Results' = Results
    BY DEF Claims, Manifests, Results
<1>9. ClaimOf(s) = [run |-> r, id |-> s.id, seq |-> s.seq, task |-> s.task]
    BY DEF ClaimOf
<1>10. Ledger!MakeClaim(r, s.id, s.task)
    <2>1. /\ Ledger!NoneOpen(r) /\ UNCHANGED <<Manifests, Results>>
          /\ s.task \in TasksOf[Manifests[r].campaign] /\ Manifests[r] # None
        BY <1>2, <1>5, <1>7, <1>8 DEF Ledger!NoneOpen, Ledger!Settled
    <2>2. s.seq \in 1..BudgetOf[Manifests[r].campaign]
        BY <1>2 DEF Budget
    <2>3. /\ {k.seq : k \in Ledger!ClaimsOf(r)} = 1..(s.seq - 1)
          /\ Claims' = Claims \union {[run |-> r, id |-> s.id, seq |-> s.seq, task |-> s.task]}
        BY <1>5, <1>6, <1>8, <1>9
    <2> QED
        BY <1>4, <2>1, <2>2, <2>3 DEF Ledger!MakeClaim
<1> QED
    BY <1>1, <1>3, <1>10 DEF Ledger!Next

LEMMA ChooseSafe ==
    ASSUME IInv, Fresh, NEW c \in Controller, Choose(c)
    PROVE  IInv' /\ (Ledger!Next \/ UNCHANGED Ledger!ledger)
<1> DEFINE tree == sandbox[c].tree
<1>1. /\ Work(sandbox[c]) = tree /\ TreeOK(tree) /\ Pending(tree) = {} /\ launches' = launches
      /\ tree \subseteq Everywhere
    BY OwnTree DEF Choose
<1>2. PICK r \in Runs(tree), q \in 1..Budget \ RecordedSeqs(tree), id \in NewIds,
           task \in TasksOf[Home.campaign] :
          LET s == [FileOf(c, [cur |-> [run |-> r, id |-> id]], "attempt_selected")
                       EXCEPT !.n = 1, !.seq = q, !.task = task]
          IN  /\ \A u \in 1..Budget \ RecordedSeqs(tree) : q <= u
              /\ Checkpoint(c, s, [Ready EXCEPT !.pc = "execute", !.cur = s, !.n = 1])
    BY <1>1 DEF Choose
<1> DEFINE s == [FileOf(c, [cur |-> [run |-> r, id |-> id]], "attempt_selected")
                    EXCEPT !.n = 1, !.seq = q, !.task = task]
           p == [Ready EXCEPT !.pc = "execute", !.cur = s, !.n = 1]
<1>3. r \in Run /\ id \in AttemptId /\ q \in Nat /\ task \in Task /\ \A e \in tree : e.id # id
    BY <1>1, TasksAssumption, HomeAssumption DEF TreeOK, NewIds, Manifest
<1>4. /\ s \in File /\ s.kind = "attempt_selected" /\ s.by = c /\ s.n = 1 /\ s.run = r
      /\ s.id = id /\ s.seq = q /\ s.task = task
    BY <1>3 DEF FileOf, File, Lifecycle
<1>5. Checkpoint(c, s, p) /\ \A u \in 1..Budget \ RecordedSeqs(tree) : q <= u
    BY <1>2
<1> HIDE DEF s
<1>6. p \in Memory /\ p.cur = s /\ p.n = 1 /\ p.pc = "execute"
    BY <1>4 DEF Ready, Idle, Memory, PC
<1> HIDE DEF p
<1>7. \A e \in tree : ~SamePath(e, s)
    BY <1>3, <1>4 DEF SamePath
<1> HIDE DEF tree
<1>8. IsNextClaim(c, tree, s)
    BY <1>3, <1>4, <1>5 DEF IsNextClaim
<1>9. /\ TreeOK(tree \union {s}) /\ Runs(tree \union {s}) = Runs(tree)
      /\ Selections(tree \union {s}) = Selections(tree) \union {s}
      /\ Records(tree \union {s}) = Records(tree)
      /\ Cardinality(Events(tree \union {s}, s.id)) = 1 /\ Owns(c, tree \union {s}, s.id)
      /\ {t.seq : t \in Selections(tree)} = 1..(s.seq - 1)
    BY <1>1, <1>8, SelectionAdds
<1>10. Position(c, p, tree \union {s})
    BY <1>6, <1>9 DEF Position
<1>11. /\ IInv'
       /\ (UNCHANGED Ledger!ledger \/ (branch.tree = tree /\ branch'.tree = tree \union {s}))
    BY <1>1, <1>4, <1>5, <1>6, <1>7, <1>9, <1>10, NewCheckpoint DEF tree
<1>12. ASSUME branch.tree = tree, branch'.tree = tree \union {s}
       PROVE  Ledger!Next
    BY <1>1, <1>8, <1>9, <1>12, ClaimRefines DEF IsNextClaim
<1> QED
    BY <1>11, <1>12

\* What the tick of c knows while it writes events of its attempt.
LEMMA Writing ==
    ASSUME IInv, NEW c \in Controller, proc[c].pc \in InHand
    PROVE  /\ proc[c].cur \in Selections(sandbox[c].tree)
           /\ proc[c].n = Cardinality(Events(sandbox[c].tree, proc[c].cur.id))
           /\ Owns(c, sandbox[c].tree, proc[c].cur.id)
           /\ \A pc \in PC :
                 /\ Goes(c, pc) \in Memory /\ Goes(c, pc).pc = pc
                 /\ Goes(c, pc).cur = proc[c].cur /\ Goes(c, pc).n = proc[c].n
                 /\ Goes(c, pc).outcome = proc[c].outcome
BY OwnTree DEF Position, Goes, Memory

LEMMA WorkerSafe ==
    ASSUME IInv, Fresh, NEW c \in Controller,
           Execute(c) \/ JournalLaunch(c) \/ WorkerRaises(c) \/ MarkRecorded(c)
    PROVE  IInv' /\ UNCHANGED Ledger!ledger
<1>1. proc[c].pc \in InHand /\ launches' = launches
    BY DEF Execute, JournalLaunch, WorkerRaises, MarkRecorded, InHand
<1>2. CASE Execute(c)
    <2>1. Journal(c, "worker_started", Goes(c, "launch")) /\ "launch" \in PC
        BY <1>2 DEF Execute, PC
    <2>2. Goes(c, "launch").pc # "append"
        BY <1>1, <2>1, Writing
    <2>3. "worker_started" \in Lifecycle \ {"attempt_selected"}
        BY DEF Lifecycle
    <2> QED
        BY <1>1, <2>1, <2>2, <2>3, Writing, JournalSafe
<1>3. CASE JournalLaunch(c)
    <2>1. Journal(c, "start_task_created", Goes(c, "running")) /\ "running" \in PC
        BY <1>3 DEF JournalLaunch, PC
    <2>2. Goes(c, "running").pc # "append"
        BY <1>1, <2>1, Writing
    <2>3. "start_task_created" \in Lifecycle \ {"attempt_selected"}
        BY DEF Lifecycle
    <2> QED
        BY <1>1, <2>1, <2>2, <2>3, Writing, JournalSafe
<1>4. CASE WorkerRaises(c)
    <2> DEFINE p == [Goes(c, "append") EXCEPT !.outcome = "failed"]
    <2>1. Journal(c, "attempt_failed", p) /\ "append" \in PC
        BY <1>4 DEF WorkerRaises, PC
    <2>2. /\ p \in Memory /\ p.cur = proc[c].cur /\ p.n = proc[c].n
          /\ p.outcome \in Outcome
        BY <1>1, <2>1, Writing DEF Memory, Outcome
    <2>3. "attempt_failed" \in Lifecycle \ {"attempt_selected"}
        BY DEF Lifecycle
    <2> HIDE DEF p
    <2> QED
        BY <1>1, <2>1, <2>2, <2>3, Writing, JournalSafe
<1>5. CASE MarkRecorded(c)
    <2>1. Journal(c, "attempt_recorded", Goes(c, "report")) /\ "report" \in PC
        BY <1>5 DEF MarkRecorded, PC
    <2>2. Goes(c, "report").pc # "append"
        BY <1>1, <2>1, Writing
    <2>3. "attempt_recorded" \in Lifecycle \ {"attempt_selected"}
        BY DEF Lifecycle
    <2> QED
        BY <1>1, <2>1, <2>2, <2>3, Writing, JournalSafe
<1> QED
    BY <1>2, <1>3, <1>4, <1>5

\* A conversation is created for an attempt whose selection was pushed.
LEMMA LaunchSafe ==
    ASSUME IInv, NEW c \in Controller, Launch(c)
    PROVE  IInv' /\ UNCHANGED Ledger!ledger
<1> DEFINE p == Goes(c, "launched")
           id == proc[c].cur.id
<1>1. /\ proc[c].pc \in InHand /\ "launched" \in PC
      /\ launches' = [launches EXCEPT ![id] = launches[id] + 1]
      /\ proc' = [proc EXCEPT ![c] = p] /\ branch' = branch /\ sandbox' = sandbox
    BY DEF Launch, InHand, PC
<1>2. /\ p \in Memory /\ p.cur = proc[c].cur /\ p.n = proc[c].n /\ p.pc = "launched"
      /\ proc[c].cur \in Selections(sandbox[c].tree) /\ Owns(c, sandbox[c].tree, id)
      /\ p.n = Cardinality(Events(sandbox[c].tree, id))
    BY <1>1, Writing
<1> HIDE DEF p
<1>3. id \in AttemptId /\ \E s \in Selections(branch.tree) : s.id = id
    BY <1>2, OwnTree DEF TreeOK, SelectionOK
<1>4. Typed' /\ proc'[c] = p /\ \A d \in Controller \ {c} : proc'[d] = proc[d]
    <2>1. launches' \in [AttemptId -> Nat]
        BY <1>1, <1>3 DEF IInv, Typed
    <2> QED
        BY <1>1, <1>2, <2>1 DEF IInv, Typed
<1>5. ASSUME NEW d \in Controller
      PROVE  CloneOK(d)'
    <2>1. CASE d = c
        <3>1. CloneOK(c) /\ Position(c, p, sandbox[c].tree)
            BY <1>2 DEF Position, IInv
        <3> QED
            BY <1>1, <1>4, <2>1, <3>1 DEF CloneOK
    <2>2. CASE d # c
        BY <1>1, <1>4, <2>2, CloneKept
    <2> QED
        BY <2>1, <2>2
<1>6. ClaimBeforeLaunch'
    <2>1. \A i \in AttemptId : launches'[i] > 0 => i = id \/ launches[i] > 0
        BY <1>1 DEF IInv, Typed
    <2> QED
        BY <1>1, <1>3, <2>1 DEF IInv, ClaimBeforeLaunch
<1>7. UNCHANGED Ledger!ledger
    BY <1>1, LedgerStutters
<1> QED
    BY <1>1, <1>4, <1>5, <1>6, <1>7 DEF IInv

LEMMA WorkerReturnsSafe ==
    ASSUME IInv, Fresh, NEW c \in Controller, WorkerReturns(c)
    PROVE  IInv' /\ UNCHANGED Ledger!ledger
<1> DEFINE p == [Goes(c, "append") EXCEPT !.outcome = "completed"]
           f == FileOf(c, p, "lesson")
<1>1. /\ proc[c].pc \in InHand /\ "append" \in PC /\ launches' = launches
      /\ \/ proc' = [proc EXCEPT ![c] = p] /\ sandbox' = sandbox /\ branch' = branch
         \/ Checkpoint(c, f, p)
    BY DEF WorkerReturns, InHand, PC
<1>2. /\ p \in Memory /\ p.cur = proc[c].cur /\ p.n = proc[c].n /\ p.outcome \in Outcome
      /\ proc[c].cur \in Selections(sandbox[c].tree)
      /\ p.pc = "append" /\ Owns(c, sandbox[c].tree, proc[c].cur.id)
      /\ p.n = Cardinality(Events(sandbox[c].tree, proc[c].cur.id))
    BY <1>1, Writing DEF Memory, Outcome
<1>3. Position(c, p, sandbox[c].tree)
    BY <1>2 DEF Position
<1>4. p.cur.run \in Run \union {None} /\ p.cur.id \in AttemptId \union {None}
    BY <1>2, OwnTree DEF TreeOK, SelectionOK
<1>5. f \in File /\ f.kind \in Quiet
    BY <1>4 DEF FileOf, File, Quiet
<1> QED
    BY <1>1, <1>2, <1>3, <1>5, GoesOn, QuietCheckpoint

LEMMA RecordSafe ==
    ASSUME IInv, Fresh, NEW c \in Controller, Record(c)
    PROVE  IInv' /\ (Ledger!Next \/ UNCHANGED Ledger!ledger)
<1> DEFINE tree == sandbox[c].tree
           s == proc[c].cur
           p == Goes(c, "mark")
           f == [FileOf(c, proc[c], "record") EXCEPT !.seq = s.seq, !.task = s.task,
                                                     !.outcome = proc[c].outcome]
<1>1. /\ proc[c].pc = "append" /\ proc[c].pc \in InHand /\ "mark" \in PC
      /\ launches' = launches /\ Checkpoint(c, f, p)
    BY DEF Record, InHand, PC
<1>2. /\ p \in Memory /\ p.cur = s /\ p.n = Cardinality(Events(tree, s.id)) /\ p.pc = "mark"
      /\ s \in Selections(tree) /\ Owns(c, tree, s.id)
    BY <1>1, Writing
<1>3. TreeOK(tree) /\ s.id \notin RecordedIds(tree) /\ s \in File /\ SelectionOK(tree, s)
    BY <1>2, OwnTree DEF Record, TreeOK, Selections
<1>4. proc[c].outcome \in Outcome
    BY <1>1, OwnTree DEF Position
<1>5. f \in File /\ f.kind = "record" /\ ClaimOf(f) = ClaimOf(s) /\ f.id = s.id /\ f.outcome \in Outcome
    BY <1>3, <1>4 DEF FileOf, File, ClaimOf
<1> HIDE DEF f, p
<1>6. \A e \in tree : ~SamePath(e, f)
    BY <1>3, <1>5 DEF SamePath, RecordedIds, Records
<1>7. /\ TreeOK(tree \union {f}) /\ Runs(tree \union {f}) = Runs(tree)
      /\ Selections(tree \union {f}) = Selections(tree)
      /\ Records(tree \union {f}) = Records(tree) \union {f}
      /\ \A id : Events(tree \union {f}, id) = Events(tree, id)
    BY <1>2, <1>3, <1>5, RecordAdds
<1>8. Position(c, p, tree \union {f})
    BY <1>2, <1>7 DEF Position, Owns
<1>9. /\ IInv'
      /\ (UNCHANGED Ledger!ledger \/ (branch.tree = tree /\ branch'.tree = tree \union {f}))
    BY <1>1, <1>2, <1>5, <1>6, <1>7, <1>8, NewCheckpoint
<1>10. ASSUME branch.tree = tree, branch'.tree = tree \union {f}
       PROVE  Ledger!Next
    <2> DEFINE k == ClaimOf(s)
               x == [claim |-> k, outcome |-> f.outcome, score |-> None]
    <2>1. k \in Claims
        BY <1>2, <1>10 DEF Claims
    <2>2. Claims' = Claims /\ Manifests' = Manifests
        BY <1>7, <1>10 DEF Claims, Manifests
    <2>3. Results' = Results \union {x}
        BY <1>5, <1>7, <1>10 DEF Results
    <2>4. \A y \in Results : y.claim # k
        BY <1>3, <1>10 DEF Results, RecordedIds, ClaimOf
    <2>5. Ledger!Settle(k, f.outcome, None)
        BY <2>2, <2>3, <2>4 DEF Ledger!Settle, Ledger!Unsettled, Ledger!Settled
    <2> QED
        BY <1>5, <2>1, <2>5 DEF Ledger!Next, Ledger!Outcome, Outcome
<1> QED
    BY <1>9, <1>10

LEMMA SummarySafe ==
    ASSUME IInv, Fresh, NEW c \in Controller, Report(c) \/ Status(c)
    PROVE  IInv' /\ UNCHANGED Ledger!ledger
<1>1. ASSUME NEW a \in Records(sandbox[c].tree)
      PROVE  a.id \in AttemptId
    <2>1. PICK s \in Selections(sandbox[c].tree) : ClaimOf(s) = ClaimOf(a)
        BY OwnTree DEF TreeOK, RecordOK
    <2>2. s.id = a.id /\ s.id \in AttemptId
        BY <2>1, OwnTree DEF TreeOK, SelectionOK, ClaimOf
    <2> QED
        BY <2>2
<1>2. RecordedIds(Work(sandbox[c])) \subseteq AttemptId
    BY <1>1, OwnTree DEF RecordedIds
<1>3. \A r \in Run \union {None}, kind \in {"report", "status"} :
          Summary(c, r, kind) \in File /\ Summary(c, r, kind).kind \in Quiet
    BY <1>2 DEF Summary, FileOf, File, Quiet
<1>4. CASE Report(c)
    <2> DEFINE p == [Ready EXCEPT !.pc = "status"]
    <2>1. proc[c].cur.run \in Run
        BY <1>4, OwnTree DEF Report, Position, TreeOK, SelectionOK
    <2>2. p \in Memory /\ Position(c, p, sandbox[c].tree)
        BY DEF Ready, Idle, Memory, PC, Position, InHand
    <2>3. Checkpoint(c, Summary(c, proc[c].cur.run, "report"), p) /\ launches' = launches
        BY <1>4 DEF Report
    <2> QED
        BY <1>3, <2>1, <2>2, <2>3, QuietCheckpoint
<1>5. CASE Status(c)
    <2> DEFINE p == [Idle EXCEPT !.pc = "returned"]
    <2>1. p \in Memory /\ Position(c, p, sandbox[c].tree)
        BY DEF Idle, Memory, PC, Position, InHand
    <2>2. Checkpoint(c, Summary(c, None, "status"), p) /\ launches' = launches
        BY <1>5 DEF Status
    <2> QED
        BY <1>3, <2>1, <2>2, QuietCheckpoint
<1> QED
    BY <1>4, <1>5

-----------------------------------------------------------------------------
(* Results *)

LEMMA InitInv == Init => IInv
<1> SUFFICES ASSUME Init
             PROVE  IInv
    OBVIOUS
<1>1. Idle \in Memory /\ Clone \in [base : Nat, tree : SUBSET File, loose : SUBSET File]
    BY DEF Idle, Clone, Memory, PC
<1>2. Main \in [moves : Nat, tree : SUBSET File] /\ Main.tree = {} /\ Main.moves = 0
    BY DEF Main
<1>3. Typed
    BY <1>1, <1>2 DEF Init, Typed
<1>4. ASSUME NEW c \in Controller
      PROVE  CloneOK(c)
    <2>1. sandbox[c] = Clone /\ proc[c] = Idle /\ branch = Main
        BY DEF Init
    <2>2. Position(c, Idle, Clone.tree)
        BY DEF Position, Idle, InHand
    <2>3. Clone.base = 0 /\ Clone.tree = {} /\ Clone.loose = {}
        BY DEF Clone
    <2> QED
        BY <1>2, <2>1, <2>2, <2>3, NoTree DEF CloneOK
<1>5. ClaimBeforeLaunch
    BY DEF Init, ClaimBeforeLaunch
<1> QED
    BY <1>2, <1>3, <1>4, <1>5, NoTree DEF IInv, Init

LEMMA NextSafe ==
    ASSUME IInv, Fresh, Next
    PROVE  IInv' /\ (Ledger!Next \/ UNCHANGED Ledger!ledger)
<1>1. PICK c \in Controller : Prepare(c) \/ Step(c) \/ Crash(c)
    BY DEF Next
<1>2. CASE Attempting(c)
    BY <1>2, WorkerSafe, LaunchSafe, WorkerReturnsSafe, RecordSafe DEF Attempting
<1>3. CASE ~Attempting(c)
    BY <1>1, <1>3, PrepareSafe, NextTickSafe, EndTickSafe, CreateRunSafe, RecoverSafe,
       ChooseSafe, SummarySafe DEF Step
<1> QED
    BY <1>2, <1>3

LEMMA StutterSafe ==
    ASSUME IInv, UNCHANGED vars
    PROVE  IInv' /\ UNCHANGED Ledger!ledger
<1>1. /\ branch' = branch /\ sandbox' = sandbox /\ proc' = proc /\ launches' = launches
    BY DEF vars
<1>2. Typed' /\ TreeOK(branch.tree)' /\ ClaimBeforeLaunch' /\ (branch.moves = 0 => branch.tree = {})'
    BY <1>1 DEF IInv, Typed, ClaimBeforeLaunch
<1>3. \A c \in Controller : CloneOK(c)'
    BY <1>1, CloneKept
<1> QED
    BY <1>1, <1>2, <1>3, LedgerStutters DEF IInv

LEMMA NextInv == Fresh /\ IInv /\ [Next]_vars => IInv'
BY NextSafe, StutterSafe

LEMMA NextRefines == Fresh /\ IInv /\ [Next]_vars => [Ledger!Next]_(Ledger!ledger)
BY NextSafe, StutterSafe

\* Between any two steps of ticks in fresh sandboxes, every clone is a version of the
\* branch, and each tick knows of its attempt what its own clone says.
THEOREM Inductive ==
    ASSUME Fresh
    PROVE  Spec => []IInv
BY InitInv, NextInv, PTL DEF Spec

\* Only one controller at a time writes the journal of an attempt: origin refuses the
\* claim of the other.  No event overwrites or repeats the number of another.
THEOREM OneClaimant ==
    ASSUME Fresh
    PROVE  Spec => []ClaimsAreExclusive
<1>1. IInv => ClaimsAreExclusive
    BY DEF IInv, TreeOK, SelectionOK, Numbered, Owned, ClaimsAreExclusive
<1> QED
    BY <1>1, Inductive, PTL

\* A tick that starts from the branch alone is accepted by _discover_run_id and by the
\* runner's reconciliation.
THEOREM AlwaysResumable ==
    ASSUME Fresh
    PROVE  Spec => []BranchIsResumable
<1> DEFINE tree == branch.tree
<1>1. ASSUME TreeOK(tree)
      PROVE  ~Refused(tree)
    <2>1. Cardinality(Runs(tree)) \in {0, 1}
        <3>1. CASE Runs(tree) = {}
            BY <3>1, FS_EmptySet
        <3>2. CASE Runs(tree) # {}
            <4>1. PICK r \in Runs(tree) : Runs(tree) = {r}
                BY <1>1, <3>2 DEF TreeOK
            <4> QED
                BY <4>1, FS_Singleton
        <3> QED
            BY <3>1, <3>2
    <2>2. \A a \in Records(tree) : \E s \in Selections(tree) : s.id = a.id /\ s.seq = a.seq
        <3> SUFFICES ASSUME NEW a \in Records(tree)
                     PROVE  \E s \in Selections(tree) : s.id = a.id /\ s.seq = a.seq
            OBVIOUS
        <3>1. PICK s \in Selections(tree) : ClaimOf(s) = ClaimOf(a)
            BY <1>1 DEF TreeOK, RecordOK
        <3> QED
            BY <3>1 DEF ClaimOf
    <2>3. \A s, t \in Selections(tree) : s.seq = t.seq => s = t
        BY <1>1 DEF TreeOK, SelectionOK
    <2>4. ASSUME NEW a \in Records(tree), NEW b \in Records(tree), a # b, a.seq = b.seq
          PROVE  FALSE
        <3>1. a.id = b.id
            BY <2>2, <2>3, <2>4
        <3> QED
            BY <1>1, <2>4, <3>1 DEF TreeOK, RecordOK
    <2>5. \A e \in tree : e.kind \in Lifecycle => \E s \in Selections(tree) : s.id = e.id
        BY <1>1 DEF TreeOK
    <2>6. ASSUME NEW s \in FirstPending(tree), s.seq \in RecordedSeqs(tree)
          PROVE  FALSE
        <3>1. PICK a \in Records(tree) : a.seq = s.seq
            BY <2>6 DEF RecordedSeqs
        <3>2. PICK t \in Selections(tree) : t.id = a.id /\ t.seq = a.seq
            BY <2>2
        <3>3. t = s
            BY <2>3, <3>1, <3>2 DEF FirstPending, Pending
        <3> QED
            BY <3>2, <3>3 DEF FirstPending, Pending, RecordedIds
    <2>7. ~(Cardinality(Runs(tree)) > 1)
        BY <2>1
    <2> QED
        BY <2>4, <2>5, <2>6, <2>7 DEF Refused
<1>2. IInv => BranchIsResumable
    BY <1>1 DEF IInv, BranchIsResumable
<1> QED
    BY <1>2, Inductive, PTL

\* Pushes of controllers that know nothing of each other are steps of the ledger that
\* the file store promises: runs open once, claims go in order, each settles once.
THEOREM Refinement ==
    ASSUME Fresh
    PROVE  Spec => ImplementsLedger
<1>1. Init => Ledger!Init
    BY DEF Init, Main, Ledger!Init, Manifests, Claims, Results, Runs, Selections, Records
<1> QED
    BY <1>1, Inductive, NextRefines, PTL DEF Spec, ImplementsLedger, Ledger!Spec
-----------------------------------------------------------------------------
(* Any sandbox: what is pushed before a conversation starts *)

Claimed(tree) == {s.id : s \in Selections(tree)}

Before == {"execute", "launch"}

\* HEAD is a version of the branch: it claims what the branch claimed then.
IsVersion(s) ==
    /\ s.base \in Nat /\ s.base <= branch.moves
    /\ s.base = branch.moves => Claimed(branch.tree) \subseteq Claimed(s.tree)
    /\ Claimed(s.tree) \subseteq Claimed(branch.tree)

IsClone(s) ==
    /\ s = [base |-> s.base, tree |-> s.tree, loose |-> s.loose]
    /\ \A e \in s.tree \union s.loose : e.n \in Nat

IsMemory(p) ==
    p = [pc |-> p.pc, cur |-> p.cur, n |-> p.n, outcome |-> p.outcome] /\ p.n \in Nat

\* A sandbox that outlives its tick may have commits that never reached the branch,
\* but then it has no uncommitted file and the next tick drops the commits.
Agree(s, p) ==
    /\ IsClone(s) /\ IsMemory(p)
    /\ p.pc # "idle" \/ s.loose # {} => IsVersion(s)
    /\ p.pc \in Before => p.cur.id \in Claimed(s.tree)

BranchOK ==
    /\ branch = [moves |-> branch.moves, tree |-> branch.tree] /\ branch.moves \in Nat
    /\ branch.moves = 0 => branch.tree = {}
    /\ \A e \in branch.tree : e.n \in Nat

Functions ==
    /\ sandbox = [c \in Controller |-> sandbox[c]] /\ proc = [c \in Controller |-> proc[c]]
    /\ launches = [id \in AttemptId |-> launches[id]]

AnyInv ==
    /\ BranchOK /\ Functions /\ ClaimBeforeLaunch
    /\ \A c \in Controller : Agree(sandbox[c], proc[c])

\* A commit may replace a file, but every path stays, and with it every claim.
LEMMA ClaimsStay ==
    ASSUME NEW tree, NEW files
    PROVE  Claimed(tree) \subseteq Claimed(Overlay(tree, files))
<1> SUFFICES ASSUME NEW s \in Selections(tree)
             PROVE  \E u \in Selections(Overlay(tree, files)) : u.id = s.id
    BY DEF Claimed
<1>1. CASE \E f \in files : SamePath(s, f)
    BY <1>1 DEF Selections, Overlay, SamePath
<1>2. CASE \A f \in files : ~SamePath(s, f)
    BY <1>2 DEF Selections, Overlay
<1> QED
    BY <1>1, <1>2

\* What one tick knows stays true while the branch gains claims.
LEMMA AgreeStays ==
    ASSUME BranchOK, NEW s, NEW p, Agree(s, p),
           \/ branch' = branch
           \/ /\ branch'.moves = branch.moves + 1
              /\ Claimed(branch.tree) \subseteq Claimed(branch'.tree)
    PROVE  /\ IsClone(s) /\ IsMemory(p)
           /\ p.pc # "idle" \/ s.loose # {} =>
                 /\ s.base \in Nat /\ s.base <= branch'.moves
                 /\ s.base = branch'.moves => Claimed(branch'.tree) \subseteq Claimed(s.tree)
                 /\ Claimed(s.tree) \subseteq Claimed(branch'.tree)
           /\ p.pc \in Before => p.cur.id \in Claimed(s.tree)
BY DEF BranchOK, Agree, IsVersion

LEMMA OthersStay ==
    ASSUME AnyInv, NEW d \in Controller, sandbox'[d] = sandbox[d], proc'[d] = proc[d],
           \/ branch' = branch
           \/ /\ branch'.moves = branch.moves + 1
              /\ Claimed(branch.tree) \subseteq Claimed(branch'.tree)
    PROVE  Agree(sandbox[d], proc[d])'
BY AgreeStays DEF AnyInv, Agree, IsVersion, IsClone, IsMemory

\* A step of one tick, with the branch as it is or moved by one push.
LEMMA OneTick ==
    ASSUME AnyInv, NEW c \in Controller, NEW s, NEW p, Continues(c, s, p),
           \/ branch' = branch
           \/ /\ branch'.moves = branch.moves + 1
              /\ Claimed(branch.tree) \subseteq Claimed(branch'.tree),
           BranchOK', sandbox'[c] = s /\ proc'[c] = p => Agree(sandbox[c], proc[c])',
           ClaimBeforeLaunch', launches' = [id \in AttemptId |-> launches'[id]]
    PROVE  AnyInv'
<1>1. /\ sandbox' = [sandbox EXCEPT ![c] = s] /\ proc' = [proc EXCEPT ![c] = p]
      /\ sandbox = [d \in Controller |-> sandbox[d]] /\ proc = [d \in Controller |-> proc[d]]
    BY DEF Continues, AnyInv, Functions
<1>2. sandbox'[c] = s /\ proc'[c] = p
    BY <1>1
<1>3. \A d \in Controller \ {c} : sandbox'[d] = sandbox[d] /\ proc'[d] = proc[d]
    BY <1>1
<1>4. Functions'
    BY <1>1 DEF Functions
<1>5. \A d \in Controller \ {c} : Agree(sandbox[d], proc[d])'
    BY <1>3, OthersStay
<1> QED
    BY <1>2, <1>4, <1>5 DEF AnyInv

LEMMA LocalTick ==
    ASSUME AnyInv, NEW c \in Controller, NEW s, NEW p, Continues(c, s, p), Agree(s, p),
           branch' = branch, launches' = launches
    PROVE  AnyInv'
<1>1. BranchOK' /\ ClaimBeforeLaunch' /\ launches' = [id \in AttemptId |-> launches'[id]]
    BY DEF AnyInv, BranchOK, ClaimBeforeLaunch, Functions
<1>2. sandbox'[c] = s /\ proc'[c] = p => Agree(sandbox[c], proc[c])'
    BY DEF Agree, IsVersion, IsClone, IsMemory
<1> QED
    BY <1>1, <1>2, OneTick

LEMMA PushTick ==
    ASSUME AnyInv, NEW c \in Controller, NEW tree, NEW p, Moves(c, tree, p), IsMemory(p),
           Claimed(branch.tree) \subseteq Claimed(tree), \A e \in tree : e.n \in Nat,
           p.pc \in Before => p.cur.id \in Claimed(tree), launches' = launches
    PROVE  AnyInv'
<1> DEFINE s == [base |-> branch.moves + 1, tree |-> tree, loose |-> {}]
<1>1. branch' = [moves |-> branch.moves + 1, tree |-> tree] /\ Continues(c, s, p)
    BY DEF Moves
<1>2. branch.moves \in Nat
    BY DEF AnyInv, BranchOK
<1>3. BranchOK'
    BY <1>1, <1>2 DEF BranchOK
<1>4. ClaimBeforeLaunch'
    BY <1>1 DEF AnyInv, ClaimBeforeLaunch, Claimed
<1>5. sandbox'[c] = s /\ proc'[c] = p => Agree(sandbox[c], proc[c])'
    BY <1>1, <1>2 DEF Agree, IsVersion, IsClone, IsMemory
<1>6. launches' = [id \in AttemptId |-> launches'[id]]
    BY DEF AnyInv, Functions
<1> QED
    BY <1>1, <1>3, <1>4, <1>5, <1>6, OneTick

\* A tick ends, and leaves its sandbox as s or drops it.
LEMMA EndsAny ==
    ASSUME AnyInv, NEW c \in Controller, NEW s, Ends(c, s), IsClone(s),
           s.loose # {} => IsVersion(s), branch' = branch, launches' = launches
    PROVE  AnyInv'
<1>1. Agree(s, Idle)
    BY DEF Agree, IsMemory, Idle, Before
<1>2. Agree(Clone, Idle)
    BY DEF Agree, IsClone, IsMemory, Clone, Idle, Before
<1> QED
    BY <1>1, <1>2, LocalTick DEF Ends

\* A checkpoint of a tick that goes on as p.
LEMMA CheckpointAny ==
    ASSUME AnyInv, NEW c \in Controller, NEW f, NEW p, Checkpoint(c, f, p), IsMemory(p),
           proc[c].pc # "idle", f.n \in Nat, launches' = launches,
           p.pc \in Before =>
               \/ p.cur.id \in Claimed(sandbox[c].tree)
               \/ /\ Changed(sandbox[c], f) # {}
                  /\ p.cur.id \in Claimed(Overlay(sandbox[c].tree, Changed(sandbox[c], f)))
    PROVE  AnyInv'
<1> DEFINE s == sandbox[c]
           files == Changed(s, f)
           new == Overlay(s.tree, files)
<1>1. IsClone(s) /\ IsVersion(s) /\ files \subseteq s.loose \union {f}
    BY DEF AnyInv, Agree, Changed, Write, Overlay
<1>2. \A e \in new \union files : e.n \in Nat
    BY <1>1 DEF IsClone, Overlay
<1>3. Claimed(s.tree) \subseteq Claimed(new)
    BY ClaimsStay
<1> HIDE DEF new, files
<1>4. CASE files = {} /\ Continues(c, [s EXCEPT !.loose = {}], p) /\ branch' = branch
    <2> DEFINE u == [s EXCEPT !.loose = {}]
    <2>1. u.base = s.base /\ u.tree = s.tree /\ IsClone(u)
        BY <1>1 DEF IsClone
    <2>2. Agree(u, p)
        BY <1>1, <1>4, <2>1 DEF Agree, IsVersion, files
    <2> QED
        BY <1>4, <2>2, LocalTick
<1>5. CASE files # {} /\ \E tree \in Accepted(c, files) : Moves(c, tree, p)
    <2>1. Moves(c, new, p) /\ s.base = branch.moves
        BY <1>5 DEF Accepted, new
    <2>2. Claimed(branch.tree) \subseteq Claimed(new)
        BY <1>1, <1>3, <2>1 DEF IsVersion
    <2>3. p.pc \in Before => p.cur.id \in Claimed(new)
        BY <1>3 DEF new, files
    <2> QED
        BY <1>2, <2>1, <2>2, <2>3, PushTick
<1>6. CASE Ends(c, Committed(c, files)) /\ branch' = branch
    <2>1. Committed(c, files) = [base |-> s.base, tree |-> new, loose |-> {}]
        <3>1. s = [base |-> s.base, tree |-> s.tree, loose |-> s.loose]
            BY <1>1 DEF IsClone
        <3>2. Committed(c, files) = [s EXCEPT !.tree = new, !.loose = {}]
            BY DEF Committed, new
        <3> HIDE DEF s
        <3> QED
            BY <3>1, <3>2
    <2>2. IsClone(Committed(c, files)) /\ Committed(c, files).loose = {}
        BY <1>2, <2>1 DEF IsClone
    <2> QED
        BY <1>6, <2>2, EndsAny
<1>7. CASE Ends(c, [s EXCEPT !.loose = files]) /\ branch' = branch
    <2> DEFINE u == [s EXCEPT !.loose = files]
    <2>1. u = [base |-> s.base, tree |-> s.tree, loose |-> files]
        BY <1>1 DEF IsClone
    <2>2. IsClone(u) /\ IsVersion(u)
        BY <1>1, <1>2, <2>1 DEF IsClone, IsVersion
    <2> QED
        BY <1>7, <2>2, EndsAny
<1> QED
    BY <1>4, <1>5, <1>6, <1>7 DEF Checkpoint, files

\* An event that is written gets a path of its own and is committed.
LEMMA NewPath ==
    ASSUME NEW s, NEW f, f.kind \notin {"report", "status"}, \A e \in Work(s) : ~SamePath(e, f)
    PROVE  /\ f \in Changed(s, f)
           /\ Claimed(Work(s)) \subseteq Claimed(Overlay(s.tree, Changed(s, f)))
<1>1. SamePath(f, f)
    BY DEF SamePath
<1>2. Write(s, f) = Overlay(s.loose, {f})
    BY DEF Write
<1>3. \A e \in s.loose : e \in Write(s, f)
    BY <1>2 DEF Overlay, Work
<1>4. f \notin s.tree
    <2>1. CASE \E e \in s.loose : SamePath(f, e)
        BY <2>1 DEF Work, Overlay, SamePath
    <2>2. CASE \A e \in s.loose : ~SamePath(f, e)
        BY <1>1, <2>2 DEF Work, Overlay
    <2> QED
        BY <2>1, <2>2
<1>5. f \in Changed(s, f)
    BY <1>2, <1>4 DEF Changed, Overlay
<1>6. ASSUME NEW e \in Selections(Work(s))
      PROVE  e.id \in Claimed(Overlay(s.tree, Changed(s, f)))
    <2>1. CASE e \in s.tree
        <3>1. e.id \in Claimed(s.tree)
            BY <1>6, <2>1 DEF Claimed, Selections
        <3> QED
            BY <3>1, ClaimsStay
    <2>2. CASE e \notin s.tree
        <3>1. e \in s.loose /\ e \in Changed(s, f)
            BY <1>3, <1>6, <2>2 DEF Work, Overlay, Selections, Changed
        <3> QED
            BY <1>6, <3>1 DEF Claimed, Selections, Overlay
    <2> QED
        BY <2>1, <2>2
<1> QED
    BY <1>5, <1>6 DEF Claimed

LEMMA PrepareAny ==
    ASSUME AnyInv, NEW c \in Controller, Prepare(c)
    PROVE  AnyInv'
<1> DEFINE s == sandbox[c]
           main == Checkout(s, Main)
<1>1. IsClone(s) /\ (s.loose # {} => IsVersion(s)) /\ BranchOK
    BY DEF AnyInv, Agree
<1>2. IsClone(main) /\ IsVersion(main)
    <2>1. CASE Clash(s, Main)
        BY <1>1, <2>1 DEF Checkout, Clash
    <2>2. CASE ~Clash(s, Main)
        <3>1. main = [base |-> 0, tree |-> {}, loose |-> s.loose \ {}]
            BY <2>2 DEF Checkout, Main
        <3> QED
            BY <1>1, <3>1 DEF IsClone, IsVersion, BranchOK, Claimed, Selections
    <2> QED
        BY <2>1, <2>2
<1> HIDE DEF main
<1>3. ~Clash(main, branch) => IsClone(Checkout(main, branch)) /\ IsVersion(Checkout(main, branch))
    <2> SUFFICES ASSUME ~Clash(main, branch)
                 PROVE  IsClone(Checkout(main, branch)) /\ IsVersion(Checkout(main, branch))
        OBVIOUS
    <2>1. Checkout(main, branch) =
            [base |-> branch.moves, tree |-> branch.tree, loose |-> main.loose \ branch.tree]
        BY DEF Checkout
    <2> QED
        BY <1>1, <1>2, <2>1 DEF IsClone, IsVersion, BranchOK
<1>4. IsMemory(Ready) /\ Ready.pc \notin Before
    BY DEF IsMemory, Ready, Idle, Before
<1>5. branch' = branch /\ launches' = launches
    BY DEF Prepare
<1>6. CASE Continues(c, main, Ready)
    BY <1>2, <1>4, <1>5, <1>6, LocalTick DEF Agree
<1>7. CASE ~Clash(main, branch) /\ Continues(c, Checkout(main, branch), Ready)
    BY <1>3, <1>4, <1>5, <1>7, LocalTick DEF Agree
<1>8. CASE Ends(c, main)
    BY <1>2, <1>5, <1>8, EndsAny
<1> QED
    BY <1>6, <1>7, <1>8 DEF Prepare, main

LEMMA EndAny ==
    ASSUME AnyInv, NEW c \in Controller, EndTick(c) \/ Crash(c)
    PROVE  AnyInv'
BY EndsAny DEF EndTick, Crash, AnyInv, Agree

LEMMA NextTickAny ==
    ASSUME AnyInv, NEW c \in Controller, NextTick(c)
    PROVE  AnyInv'
<1>1. IsMemory(Ready) /\ Ready.pc \notin Before
    BY DEF IsMemory, Ready, Idle, Before
<1>2. Agree(sandbox[c], Ready)
    BY <1>1 DEF NextTick, AnyInv, Agree
<1>3. sandbox = [sandbox EXCEPT ![c] = sandbox[c]]
    BY DEF AnyInv, Functions
<1> QED
    BY <1>2, <1>3, LocalTick DEF NextTick, Continues

\* A tick with nothing in hand, and one that takes an attempt.
LEMMA TakesAttempt ==
    ASSUME NEW pc, NEW cur, NEW n \in Nat, NEW p,
           p = [Ready EXCEPT !.pc = pc, !.cur = cur, !.n = n]
    PROVE  p = [pc |-> pc, cur |-> cur, n |-> n, outcome |-> None] /\ IsMemory(p)
<1>1. Ready = [pc |-> "ready", cur |-> None, n |-> 0, outcome |-> None]
    BY DEF Ready, Idle
<1>2. p = [pc |-> pc, cur |-> cur, n |-> n, outcome |-> None]
    BY <1>1
<1> QED
    BY <1>2 DEF IsMemory

LEMMA RecoverAny ==
    ASSUME AnyInv, NEW c \in Controller, Recover(c)
    PROVE  AnyInv'
<1> DEFINE tree == Work(sandbox[c])
<1>1. PICK s \in FirstPending(tree) : \E last \in {e.n : e \in Events(tree, s.id)} :
          /\ LastNumber(Events(tree, s.id), last)
          /\ Journal(c, "attempt_recovery_started",
                [Ready EXCEPT !.pc = IF HasRemoteState(tree, s) THEN "running" ELSE "execute",
                              !.cur = s, !.n = last])
    BY DEF Recover
<1>2. PICK last \in {e.n : e \in Events(tree, s.id)} :
          /\ LastNumber(Events(tree, s.id), last)
          /\ Journal(c, "attempt_recovery_started",
                [Ready EXCEPT !.pc = IF HasRemoteState(tree, s) THEN "running" ELSE "execute",
                              !.cur = s, !.n = last])
    BY <1>1
<1>3. \A e \in tree : e.n \in Nat
    BY DEF AnyInv, Agree, IsClone, Work, Overlay
<1>4. last \in Nat /\ \A e \in Events(tree, s.id) : e.n # last + 1
    BY <1>2, <1>3 DEF LastNumber, Events
<1> DEFINE p == [Ready EXCEPT !.pc = IF HasRemoteState(tree, s) THEN "running" ELSE "execute",
                              !.cur = s, !.n = last]
           q == [p EXCEPT !.n = p.n + 1]
           f == [FileOf(c, p, "attempt_recovery_started") EXCEPT !.n = p.n + 1]
<1>5. q.cur = s /\ IsMemory(q)
    <2>1. PICK pc : pc = IF HasRemoteState(tree, s) THEN "running" ELSE "execute"
        OBVIOUS
    <2>2. p = [Ready EXCEPT !.pc = pc, !.cur = s, !.n = last]
        BY <2>1
    <2> HIDE DEF p
    <2>3. p = [pc |-> pc, cur |-> s, n |-> last, outcome |-> None]
        BY <1>4, <2>2, TakesAttempt
    <2>4. q = [pc |-> pc, cur |-> s, n |-> last + 1, outcome |-> None]
        BY <2>3
    <2> QED
        BY <1>4, <2>4 DEF IsMemory
<1>6. f.kind = "attempt_recovery_started" /\ f.id = s.id /\ f.n = last + 1
    BY DEF FileOf, Ready, Idle
<1>7. Checkpoint(c, f, q) /\ proc[c].pc # "idle" /\ launches' = launches
    BY <1>2 DEF Journal, Recover, Running
<1> HIDE DEF p, q, f
<1>8. \A e \in tree : ~SamePath(e, f)
    BY <1>4, <1>6 DEF SamePath, Events, Lifecycle
<1>9. s.id \in Claimed(tree)
    BY DEF FirstPending, Pending, Claimed
<1>10. /\ Changed(sandbox[c], f) # {}
       /\ s.id \in Claimed(Overlay(sandbox[c].tree, Changed(sandbox[c], f)))
    BY <1>6, <1>8, <1>9, NewPath
<1> QED
    BY <1>4, <1>5, <1>6, <1>7, <1>10, CheckpointAny

LEMMA ChooseAny ==
    ASSUME AnyInv, NEW c \in Controller, Choose(c)
    PROVE  AnyInv'
<1> DEFINE tree == Work(sandbox[c])
<1>1. PICK r \in Runs(tree), q \in 1..Budget \ RecordedSeqs(tree), id \in NewIds,
           task \in TasksOf[Home.campaign] :
          LET s == [FileOf(c, [cur |-> [run |-> r, id |-> id]], "attempt_selected")
                       EXCEPT !.n = 1, !.seq = q, !.task = task]
          IN  Checkpoint(c, s, [Ready EXCEPT !.pc = "execute", !.cur = s, !.n = 1])
    BY DEF Choose
<1> DEFINE s == [FileOf(c, [cur |-> [run |-> r, id |-> id]], "attempt_selected")
                    EXCEPT !.n = 1, !.seq = q, !.task = task]
           p == [Ready EXCEPT !.pc = "execute", !.cur = s, !.n = 1]
<1>2. s.kind = "attempt_selected" /\ s.id = id /\ s.n = 1
    BY DEF FileOf
<1>3. Checkpoint(c, s, p) /\ proc[c].pc # "idle" /\ launches' = launches
    BY <1>1 DEF Choose, Running
<1> HIDE DEF s
<1>4. p.cur = s /\ IsMemory(p)
    <2>1. p = [Ready EXCEPT !.pc = "execute", !.cur = s, !.n = 1]
        OBVIOUS
    <2> HIDE DEF p
    <2>2. p = [pc |-> "execute", cur |-> s, n |-> 1, outcome |-> None] /\ IsMemory(p)
        BY <2>1, TakesAttempt
    <2> QED
        BY <2>2
<1> HIDE DEF p
<1>5. \A e \in tree : ~SamePath(e, s)
    BY <1>2 DEF SamePath, NewIds, Everywhere
<1>6. s \in Changed(sandbox[c], s)
    BY <1>2, <1>5, NewPath
<1>7. s.id \in Claimed(Overlay(sandbox[c].tree, Changed(sandbox[c], s)))
    BY <1>2, <1>6 DEF Claimed, Selections, Overlay
<1> QED
    BY <1>2, <1>3, <1>4, <1>6, <1>7, CheckpointAny

\* The steps that end in no state before a launch, and Execute, which stays in one.
LEMMA WriteAny ==
    ASSUME AnyInv, NEW c \in Controller, NEW f, NEW p, Checkpoint(c, f, p), IsMemory(p),
           proc[c].pc # "idle", f.n \in Nat, launches' = launches,
           p.pc \in Before => proc[c].pc \in Before /\ p.cur = proc[c].cur
    PROVE  AnyInv'
<1>1. p.pc \in Before => p.cur.id \in Claimed(sandbox[c].tree)
    BY DEF AnyInv, Agree
<1> QED
    BY <1>1, CheckpointAny

LEMMA JournalAny ==
    ASSUME AnyInv, NEW c \in Controller, NEW p, NEW kind, Journal(c, kind, p), IsMemory(p),
           proc[c].pc # "idle", launches' = launches,
           p.pc \in Before => proc[c].pc \in Before /\ p.cur = proc[c].cur
    PROVE  AnyInv'
<1> DEFINE q == [p EXCEPT !.n = p.n + 1]
           f == [FileOf(c, p, kind) EXCEPT !.n = p.n + 1]
<1>1. p = [pc |-> p.pc, cur |-> p.cur, n |-> p.n, outcome |-> p.outcome] /\ p.n \in Nat
    BY DEF IsMemory
<1>2. q = [pc |-> p.pc, cur |-> p.cur, n |-> p.n + 1, outcome |-> p.outcome]
    BY <1>1
<1>3. IsMemory(q) /\ q.pc = p.pc /\ q.cur = p.cur
    BY <1>1, <1>2 DEF IsMemory
<1>4. f.n \in Nat
    BY <1>1 DEF FileOf
<1>5. Checkpoint(c, f, q)
    BY DEF Journal
<1> HIDE DEF f, q
<1> QED
    BY <1>3, <1>4, <1>5, WriteAny

\* What the tick holds when it goes to another place in the code.
LEMMA GoesMemory ==
    ASSUME AnyInv, NEW c \in Controller, NEW pc
    PROVE  /\ IsMemory(Goes(c, pc)) /\ Goes(c, pc).pc = pc /\ Goes(c, pc).cur = proc[c].cur
           /\ \A o : LET p == [Goes(c, pc) EXCEPT !.outcome = o]
                     IN  IsMemory(p) /\ p.pc = pc
<1>1. proc[c] = [pc |-> proc[c].pc, cur |-> proc[c].cur, n |-> proc[c].n,
                 outcome |-> proc[c].outcome] /\ proc[c].n \in Nat
    BY DEF AnyInv, Agree, IsMemory
<1>2. Goes(c, pc) = [pc |-> pc, cur |-> proc[c].cur, n |-> proc[c].n, outcome |-> proc[c].outcome]
    BY <1>1 DEF Goes
<1> QED
    BY <1>1, <1>2 DEF IsMemory

LEMMA LaunchAny ==
    ASSUME AnyInv, NEW c \in Controller, Launch(c)
    PROVE  AnyInv'
<1> DEFINE id == proc[c].cur.id
           p == Goes(c, "launched")
<1>1. Agree(sandbox[c], proc[c]) /\ proc[c].pc = "launch" /\ proc[c].pc \in Before
    BY DEF AnyInv, Launch, Before
<1>2. id \in Claimed(branch.tree) /\ IsVersion(sandbox[c]) /\ IsClone(sandbox[c])
    BY <1>1 DEF Agree, IsVersion
<1>3. /\ branch' = branch /\ sandbox' = sandbox
      /\ launches' = [launches EXCEPT ![id] = launches[id] + 1]
      /\ sandbox = [sandbox EXCEPT ![c] = sandbox[c]] /\ Continues(c, sandbox[c], p)
    BY DEF Launch, Continues, AnyInv, Functions
<1>4. IsMemory(p) /\ p.pc \notin Before
    BY GoesMemory DEF Before
<1>5. Agree(sandbox[c], p)
    BY <1>2, <1>4 DEF Agree
<1>6. ClaimBeforeLaunch' /\ launches' = [i \in AttemptId |-> launches'[i]]
    <2>1. \A i \in AttemptId : launches'[i] > 0 => i = id \/ launches[i] > 0
        BY <1>3 DEF AnyInv, Functions
    <2>2. \E s \in Selections(branch.tree) : s.id = id
        BY <1>2 DEF Claimed
    <2> QED
        BY <1>3, <2>1, <2>2 DEF AnyInv, ClaimBeforeLaunch, Functions
<1>7. BranchOK'
    BY <1>3 DEF AnyInv, BranchOK
<1>8. sandbox'[c] = sandbox[c] /\ proc'[c] = p => Agree(sandbox[c], proc[c])'
    BY <1>3, <1>5 DEF Agree, IsVersion, IsClone, IsMemory
<1> QED
    BY <1>3, <1>6, <1>7, <1>8, OneTick

LEMMA WorkerAny ==
    ASSUME AnyInv, NEW c \in Controller,
           \/ Execute(c) \/ JournalLaunch(c) \/ WorkerRaises(c) \/ MarkRecorded(c)
           \/ WorkerReturns(c) \/ Record(c)
    PROVE  AnyInv'
<1>1. proc[c].pc # "idle" /\ launches' = launches
    BY DEF Execute, JournalLaunch, WorkerRaises, MarkRecorded, WorkerReturns, Record
<1>2. CASE Execute(c)
    <2>1. Journal(c, "worker_started", Goes(c, "launch")) /\ proc[c].pc \in Before
        BY <1>2 DEF Execute, Before
    <2> QED
        BY <1>1, <2>1, GoesMemory, JournalAny
<1>3. CASE JournalLaunch(c)
    <2>1. Journal(c, "start_task_created", Goes(c, "running")) /\ Goes(c, "running").pc \notin Before
        BY <1>3, GoesMemory DEF JournalLaunch, Before
    <2> QED
        BY <1>1, <2>1, GoesMemory, JournalAny
<1>4. CASE MarkRecorded(c)
    <2>1. Journal(c, "attempt_recorded", Goes(c, "report")) /\ Goes(c, "report").pc \notin Before
        BY <1>4, GoesMemory DEF MarkRecorded, Before
    <2> QED
        BY <1>1, <2>1, GoesMemory, JournalAny
<1>5. CASE WorkerRaises(c)
    <2> DEFINE p == [Goes(c, "append") EXCEPT !.outcome = "failed"]
    <2>1. Journal(c, "attempt_failed", p) /\ IsMemory(p) /\ p.pc \notin Before
        BY <1>5, GoesMemory DEF WorkerRaises, Before
    <2> HIDE DEF p
    <2> QED
        BY <1>1, <2>1, JournalAny
<1>6. CASE WorkerReturns(c)
    <2> DEFINE p == [Goes(c, "append") EXCEPT !.outcome = "completed"]
    <2>1. IsMemory(p) /\ p.pc \notin Before /\ FileOf(c, p, "lesson").n \in Nat
        BY GoesMemory DEF Before, FileOf
    <2>2. CASE proc' = [proc EXCEPT ![c] = p] /\ UNCHANGED <<branch, sandbox, faults>>
        <3>1. sandbox = [sandbox EXCEPT ![c] = sandbox[c]]
            BY DEF AnyInv, Functions
        <3>2. Continues(c, sandbox[c], p) /\ branch' = branch
            BY <2>2, <3>1 DEF Continues
        <3>3. Agree(sandbox[c], p)
            BY <1>1, <2>1 DEF AnyInv, Agree
        <3> QED
            BY <1>1, <3>2, <3>3, LocalTick
    <2>3. CASE Checkpoint(c, FileOf(c, p, "lesson"), p)
        <3> HIDE DEF p
        <3> QED
            BY <1>1, <2>1, <2>3, WriteAny
    <2> QED
        BY <1>6, <2>2, <2>3 DEF WorkerReturns
<1>7. CASE Record(c)
    <2> DEFINE f == [FileOf(c, proc[c], "record") EXCEPT !.seq = proc[c].cur.seq,
                        !.task = proc[c].cur.task, !.outcome = proc[c].outcome]
    <2>1. Checkpoint(c, f, Goes(c, "mark")) /\ f.n \in Nat
        BY <1>7 DEF Record, FileOf
    <2>2. Goes(c, "mark").pc \notin Before
        BY GoesMemory DEF Before
    <2> HIDE DEF f
    <2> QED
        BY <1>1, <2>1, <2>2, GoesMemory, WriteAny
<1> QED
    BY <1>2, <1>3, <1>4, <1>5, <1>6, <1>7

LEMMA RunFilesAny ==
    ASSUME AnyInv, NEW c \in Controller, CreateRun(c) \/ Report(c) \/ Status(c)
    PROVE  AnyInv'
<1>1. proc[c].pc # "idle" /\ launches' = launches
    BY DEF CreateRun, Report, Status
<1>2. Ready = [pc |-> "ready", cur |-> None, n |-> 0, outcome |-> None]
    BY DEF Ready, Idle
<1>3. CASE CreateRun(c)
    <2>1. PICK r \in NewRuns :
              Checkpoint(c, FileOf(c, [cur |-> [run |-> r, id |-> None]], "manifest"), Ready)
        BY <1>3 DEF CreateRun
    <2>2. FileOf(c, [cur |-> [run |-> r, id |-> None]], "manifest").n \in Nat
        BY DEF FileOf
    <2>3. IsMemory(Ready) /\ Ready.pc \notin Before
        BY <1>2 DEF IsMemory, Before
    <2> QED
        BY <1>1, <2>1, <2>2, <2>3, WriteAny
<1>4. \A r, kind : Summary(c, r, kind).n = 0
    BY DEF Summary, FileOf
<1>5. CASE Report(c)
    <2> DEFINE p == [Ready EXCEPT !.pc = "status"]
    <2>1. Checkpoint(c, Summary(c, proc[c].cur.run, "report"), p)
        BY <1>5 DEF Report
    <2>2. p = [pc |-> "status", cur |-> None, n |-> 0, outcome |-> None]
        BY <1>2
    <2> HIDE DEF p
    <2>3. IsMemory(p) /\ p.pc \notin Before
        BY <2>2 DEF IsMemory, Before
    <2> QED
        BY <1>1, <1>4, <2>1, <2>3, WriteAny
<1>6. CASE Status(c)
    <2> DEFINE p == [Idle EXCEPT !.pc = "returned"]
    <2>1. Checkpoint(c, Summary(c, None, "status"), p)
        BY <1>6 DEF Status
    <2>2. p = [pc |-> "returned", cur |-> None, n |-> 0, outcome |-> None]
        BY DEF Idle
    <2> HIDE DEF p
    <2>3. IsMemory(p) /\ p.pc \notin Before
        BY <2>2 DEF IsMemory, Before
    <2> QED
        BY <1>1, <1>4, <2>1, <2>3, WriteAny
<1> QED
    BY <1>3, <1>5, <1>6

LEMMA InitAny == Init => AnyInv
<1> SUFFICES ASSUME Init
             PROVE  AnyInv
    OBVIOUS
<1>1. BranchOK
    BY DEF Init, Main, BranchOK
<1>2. Functions /\ ClaimBeforeLaunch
    BY DEF Init, Functions, ClaimBeforeLaunch
<1>3. Agree(Clone, Idle)
    BY DEF Agree, IsClone, IsMemory, Clone, Idle, Before
<1> QED
    BY <1>1, <1>2, <1>3 DEF Init, AnyInv

LEMMA NextAny == AnyInv /\ [Next]_vars => AnyInv'
<1> SUFFICES ASSUME AnyInv, [Next]_vars
             PROVE  AnyInv'
    OBVIOUS
<1>1. CASE UNCHANGED vars
    <2>1. /\ branch' = branch /\ sandbox' = sandbox /\ proc' = proc /\ launches' = launches
        BY <1>1 DEF vars
    <2>2. BranchOK' /\ Functions' /\ ClaimBeforeLaunch'
        BY <2>1 DEF AnyInv, BranchOK, Functions, ClaimBeforeLaunch
    <2> QED
        BY <2>1, <2>2, OthersStay DEF AnyInv
<1>2. CASE Next
    <2>1. PICK c \in Controller : Prepare(c) \/ Step(c) \/ Crash(c)
        BY <1>2 DEF Next
    <2>2. CASE Attempting(c)
        BY <2>2, WorkerAny, LaunchAny DEF Attempting
    <2>3. CASE ~Attempting(c)
        BY <2>1, <2>3, PrepareAny, EndAny, NextTickAny, RecoverAny, ChooseAny, RunFilesAny DEF Step
    <2> QED
        BY <2>2, <2>3
<1> QED
    BY <1>1, <1>2

\* No conversation is created for an attempt that the branch has not selected, in fresh
\* sandboxes or in those that outlive their ticks: what a refused or interrupted push
\* left behind in a sandbox is pushed or dropped before a worker of it can start.
THEOREM SelectionIsPushed == Spec => []ClaimBeforeLaunch
<1>1. AnyInv => ClaimBeforeLaunch
    BY DEF AnyInv
<1> QED
    BY <1>1, InitAny, NextAny, PTL DEF Spec
=============================================================================
