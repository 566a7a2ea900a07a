-------------------------- MODULE TimeTravelProofs --------------------------
(***************************************************************************)
(* Proofs about module TimeTravel, for any relation, any number of         *)
(* fragments and any history.                                              *)
(***************************************************************************)
EXTENDS TimeTravel, Integers, WellFoundedInduction, TLAPS

-----------------------------------------------------------------------------
\* How a read resolves.

\* A bounded, non-empty set of LSNs has a greatest one.
LEMMA Greatest ==
    ASSUME NEW S, S \subseteq 0 .. MaxLsn, S # {}
    PROVE  \E m \in S : \A n \in S : n <= m
<1> DEFINE D == {MaxLsn - n : n \in S}
<1>1. MaxLsn \in Nat
  BY TimeTravelAssumption
<1>2. D \subseteq Nat /\ D # {}
  <2>1. ASSUME NEW n \in S PROVE MaxLsn - n \in Nat
    <3>1. n \in 0 .. MaxLsn
      OBVIOUS
    <3> QED
      BY <1>1, <3>1
  <2> QED
    BY <2>1
<1>3. PICK d \in D : \A n \in D : <<n, d>> \notin OpToRel(<, Nat)
  BY <1>2, WFMin, NatLessThanWellFounded, Zenon
<1>4. \A n \in D : ~(n < d)
  BY <1>2, <1>3, Zenon DEF OpToRel
<1>5. PICK m \in S : d = MaxLsn - m
  BY <1>3
<1>6. ASSUME NEW n \in S PROVE n <= m
  <2>1. ~(MaxLsn - n < MaxLsn - m)
    BY <1>4, <1>5
  <2> QED
    BY <1>1, <2>1
<1> QED
  BY <1>6

\* The base of a read is a candidate, and none of them is newer.
LEMMA BaseIsNewest ==
    ASSUME NEW lake \in Lake, NEW b, NEW read, Candidates(lake, b, read) # {}
    PROVE  /\ Base(lake, b, read) \in Candidates(lake, b, read)
           /\ Base(lake, b, read).lsn \in Lsns
           /\ \A g \in Candidates(lake, b, read) : g.lsn <= Base(lake, b, read).lsn
<1> DEFINE C == Candidates(lake, b, read)
           S == {f.lsn : f \in C}
<1>1. \A f \in C : f \in Fragment /\ f.lsn \in Lsns
  BY DEF Candidates, Lake, Fragment
<1>2. S \subseteq 0 .. MaxLsn /\ S # {}
  BY <1>1 DEF Lsns
<1>3. PICK m \in S : \A n \in S : n <= m
  BY <1>2, Greatest
<1>4. \E f \in C : \A g \in C : g.lsn <= f.lsn
  BY <1>3
<1>5. Base(lake, b, read) \in C /\ \A g \in C : g.lsn <= Base(lake, b, read).lsn
  BY <1>4 DEF Base
<1> QED
  BY <1>1, <1>5

\* What a served plan says.
LEMMA ServedPlan ==
    ASSUME NEW lake \in Lake, NEW b, NEW read, Resolve(lake, b, read).kind = "Serve"
    PROVE  /\ Candidates(lake, b, read) # {}
           /\ Resolve(lake, b, read).read = read
           /\ Resolve(lake, b, read).base \in Lsns /\ Resolve(lake, b, read).base <= read
           /\ \/ Resolve(lake, b, read).base = read
              \/ Resolve(lake, b, read).base >= lake.tail_floor
<1>1. Candidates(lake, b, read) # {}
  BY DEF Resolve, BelowHorizon, Uncovered
<1>2. Base(lake, b, read).lsn \in Lsns /\ Base(lake, b, read).lsn <= read
  BY <1>1, BaseIsNewest DEF Candidates
<1>3. /\ Reachable(lake, Base(lake, b, read).lsn, read)
      /\ Resolve(lake, b, read) = Serve(Base(lake, b, read).lsn, read)
  BY <1>1 DEF Resolve, BelowHorizon
<1> QED
  BY <1>1, <1>2, <1>3 DEF Serve, Reachable

\* The effective horizon is the lower of the configured one and the branch.
LEMMA HorizonOf ==
    ASSUME NEW h \in Int, NEW p \in Int
    PROVE  /\ EffectiveHorizon(h, {}) = h
           /\ EffectiveHorizon(h, {p}) = IF h <= p THEN h ELSE p
<1>1. EffectiveHorizon(h, {}) = h
  BY DEF EffectiveHorizon
<1>2. {h} \cup {p} = {h, p}
  OBVIOUS
<1>3. EffectiveHorizon(h, {p}) = IF h <= p THEN h ELSE p
  BY <1>2 DEF EffectiveHorizon
<1> QED
  BY <1>1, <1>3

LEMMA HorizonIs ==
    ASSUME TypeOK
    PROVE  GcHorizon = IF branch.lsn = 0 \/ horizon <= branch.lsn THEN horizon ELSE branch.lsn
<1>1. horizon \in Int /\ branch.lsn \in Int
  BY DEF TypeOK, Lake
<1> QED
  BY <1>1, HorizonOf DEF GcHorizon, Points

-----------------------------------------------------------------------------
\* One lemma per conjunct of the invariant, one step per action.

LEMMA LakeFields ==
    ASSUME NEW lake \in Lake
    PROVE  /\ lake.fragments \subseteq Fragment
           /\ lake.tail_floor \in 0 .. MaxLsn /\ lake.tip \in 0 .. MaxLsn
  BY DEF Lake

LEMMA TypeInit ==
    ASSUME Init
    PROVE  TypeOK
<1>1. EmptyLake(0) \in Lake
  BY TimeTravelAssumption DEF EmptyLake, Lake
<1> QED
  BY <1>1, TimeTravelAssumption DEF Init, TypeOK, EmptyLake

\* A range materialised at an LSN is a fragment.
LEMMA AtIsFragment ==
    ASSUME NEW r \in Ranges, NEW lsn \in Lsns
    PROVE  At(r, lsn) \in Fragment
  BY DEF At, Ranges, Fragment

LEMMA TypeNext ==
    ASSUME TypeOK, [Next]_vars
    PROVE  TypeOK'
<1>1. /\ parent \in Lake /\ branch.own \in Lake /\ branch \in [lsn : 0 .. MaxLsn, own : Lake]
      /\ MaxLsn \in Nat
  BY TimeTravelAssumption DEF TypeOK
<1>2. /\ parent.fragments \subseteq Fragment /\ parent.tail_floor \in 0 .. MaxLsn /\ parent.tip \in 0 .. MaxLsn
      /\ branch.own.fragments \subseteq Fragment
      /\ branch.own.tail_floor \in 0 .. MaxLsn /\ branch.own.tip \in 0 .. MaxLsn
  BY <1>1, LakeFields
<1>3. ASSUME NEW b \in Blocks, Write(b)
      PROVE  TypeOK'
  <2>1. parent.tip + 1 \in Lsns /\ parent' = [parent EXCEPT !.tip = @ + 1]
    BY <1>1, <1>2, <1>3 DEF Write, Lsns
  <2>2. parent' \in Lake /\ parent'.tail_floor = parent.tail_floor /\ parent'.tip = parent.tip + 1
    BY <1>1, <2>1 DEF Lake, Lsns
  <2>3. writes' \in [Blocks -> SUBSET Lsns]
    BY <1>3, <2>1 DEF Write, TypeOK
  <2>4. horizon' \in 0 .. parent'.tip /\ parent'.tail_floor <= horizon'
    BY <1>2, <1>3, <2>2 DEF Write, TypeOK
  <2> QED
    BY <1>3, <2>2, <2>3, <2>4 DEF Write, TypeOK
<1>4. ASSUME NEW b \in Blocks, BranchWrite(b)
      PROVE  TypeOK'
  <2>1. branch.own.tip + 1 \in Lsns /\ branch' = [branch EXCEPT !.own.tip = @ + 1]
    BY <1>1, <1>2, <1>4 DEF BranchWrite, Lsns
  <2>2. branch' \in [lsn : 0 .. MaxLsn, own : Lake]
    BY <1>1, <2>1 DEF Lake, Lsns
  <2>3. bwrites' \in [Blocks -> SUBSET Lsns]
    BY <1>4, <2>1 DEF BranchWrite, TypeOK
  <2> QED
    BY <1>4, <2>2, <2>3 DEF BranchWrite, TypeOK
<1>5. ASSUME NEW r \in Ranges, Emit(r)
      PROVE  TypeOK'
  <2>1. At(r, parent.tip) \in Fragment /\ parent' = [parent EXCEPT !.fragments = @ \cup {At(r, parent.tip)}]
    BY <1>2, <1>5, AtIsFragment DEF Emit, Lsns
  <2>2. parent' \in Lake /\ parent'.tail_floor = parent.tail_floor /\ parent'.tip = parent.tip
    BY <1>1, <2>1 DEF Lake
  <2> QED
    BY <1>5, <2>2 DEF Emit, TypeOK
<1>6. ASSUME NEW r \in Ranges, BranchEmit(r)
      PROVE  TypeOK'
  <2>1. branch.own.tip \in Lsns
    BY <1>1, <1>2, <1>6 DEF BranchEmit, Lsns
  <2>2. /\ At(r, branch.own.tip) \in Fragment
        /\ branch' = [branch EXCEPT !.own.fragments = {At(r, branch.own.tip)}]
    BY <1>6, <2>1, AtIsFragment DEF BranchEmit
  <2>3. branch' \in [lsn : 0 .. MaxLsn, own : Lake]
    BY <1>1, <2>2 DEF Lake
  <2> QED
    BY <1>6, <2>3 DEF BranchEmit, TypeOK
<1>7. ASSUME NEW r \in Ranges, DropImage(r)
      PROVE  TypeOK'
  <2>1. r.start .. r.end - 1 \subseteq Blocks
    BY TimeTravelAssumption DEF Ranges, Blocks
  <2> QED
    BY <1>7, <2>1 DEF DropImage, TypeOK
<1>8. ASSUME AdvanceHorizon
      PROVE  TypeOK'
  BY <1>2, <1>8 DEF AdvanceHorizon, TypeOK
<1>9. ASSUME TruncateTail
      PROVE  TypeOK'
  <2>1. PICK floor \in parent.tail_floor + 1 .. GcHorizon : parent' = [parent EXCEPT !.tail_floor = floor]
    BY <1>9 DEF TruncateTail
  <2>2. horizon \in 0 .. parent.tip /\ branch.lsn \in Nat /\ GcHorizon \in Int /\ GcHorizon <= horizon
    BY <1>1, HorizonIs DEF TypeOK
  <2>3. floor \in 0 .. MaxLsn /\ floor <= horizon
    BY <1>1, <1>2, <2>2
  <2>4. parent' \in Lake /\ parent'.tail_floor = floor /\ parent'.tip = parent.tip
    BY <1>1, <2>1, <2>3 DEF Lake
  <2> QED
    BY <1>9, <2>3, <2>4 DEF TruncateTail, TypeOK
<1>10. ASSUME CreateBranch
       PROVE  TypeOK'
  <2>1. PICK lsn \in horizon .. parent.tip : lsn > 0 /\ branch' = [lsn |-> lsn, own |-> EmptyLake(lsn)]
    BY <1>10 DEF CreateBranch
  <2>2. lsn \in 0 .. MaxLsn
    BY <1>1, <1>2 DEF TypeOK
  <2>3. EmptyLake(lsn) \in Lake
    BY <2>2 DEF EmptyLake, Lake
  <2> QED
    BY <1>10, <2>1, <2>2, <2>3 DEF CreateBranch, TypeOK
<1>11. ASSUME UNCHANGED vars
       PROVE  TypeOK'
  BY <1>11 DEF vars, TypeOK
<1> QED
  BY <1>3, <1>4, <1>5, <1>6, <1>7, <1>8, <1>9, <1>10, <1>11, Zenon DEF Next

\* Neither the configured horizon nor a new branch lowers the effective one:
\* a branch is created at or above the horizon.
LEMMA HorizonRises ==
    ASSUME TypeOK, TypeOK', [Next]_vars
    PROVE  GcHorizon \in Int /\ GcHorizon' \in Int /\ GcHorizon <= GcHorizon'
<1>1. horizon \in Int /\ branch.lsn \in Int /\ horizon' \in Int /\ branch'.lsn \in Int
  BY DEF TypeOK, Lake
<1>2. /\ GcHorizon = IF branch.lsn = 0 \/ horizon <= branch.lsn THEN horizon ELSE branch.lsn
      /\ GcHorizon' = IF branch'.lsn = 0 \/ horizon' <= branch'.lsn THEN horizon' ELSE branch'.lsn
  BY <1>1, HorizonOf DEF GcHorizon, Points
<1>3. CASE AdvanceHorizon
  BY <1>1, <1>2, <1>3 DEF AdvanceHorizon
<1>4. CASE CreateBranch
  <2>1. horizon' = horizon /\ branch.lsn = 0 /\ horizon <= branch'.lsn
    BY <1>1, <1>4 DEF CreateBranch
  <2> QED
    BY <1>1, <1>2, <2>1
<1>5. ASSUME \/ \E b \in Blocks : Write(b) \/ BranchWrite(b)
             \/ \E r \in Ranges : Emit(r) \/ BranchEmit(r) \/ DropImage(r)
             \/ TruncateTail \/ UNCHANGED vars
      PROVE  horizon' = horizon /\ branch'.lsn = branch.lsn
  BY <1>5 DEF Write, BranchWrite, Emit, BranchEmit, DropImage, TruncateTail, vars, TypeOK
<1> QED
  BY <1>1, <1>2, <1>3, <1>4, <1>5 DEF Next

\* What the gate of image_redundant leaves behind stays: fragments are only
\* added and the effective horizon only rises.
LEMMA GateNext ==
    ASSUME TypeOK, TypeOK', GateHolds, [Next]_vars
    PROVE  GateHolds'
<1>1. /\ parent \in Lake /\ parent.fragments \subseteq Fragment
      /\ GcHorizon \in Int /\ GcHorizon' \in Int /\ GcHorizon <= GcHorizon'
  BY LakeFields, HorizonRises DEF TypeOK
<1>2. ASSUME NEW r \in Ranges, DropImage(r)
      PROVE  GateHolds'
  <2>1. /\ ImageRedundant(parent, r, GcHorizon) /\ dropped' = dropped \cup (r.start .. r.end - 1)
        /\ parent' = parent /\ GcHorizon' = GcHorizon
    BY <1>2 DEF DropImage, GcHorizon, Points
  <2> QED
    BY <2>1 DEF GateHolds, ImageRedundant
<1>3. ASSUME \/ \E b \in Blocks : Write(b) \/ BranchWrite(b)
             \/ \E r \in Ranges : Emit(r) \/ BranchEmit(r)
             \/ AdvanceHorizon \/ TruncateTail \/ CreateBranch \/ UNCHANGED vars
      PROVE  GateHolds'
  <2>1. dropped' = dropped /\ parent.fragments \subseteq parent'.fragments
    BY <1>1, <1>3
       DEF Write, BranchWrite, Emit, BranchEmit, AdvanceHorizon, TruncateTail, CreateBranch, vars, Lake
  <2>2. SUFFICES ASSUME NEW b \in dropped
                 PROVE  \E f \in parent'.fragments : Covers(f, b) /\ f.lsn <= GcHorizon'
    BY <2>1 DEF GateHolds
  <2>3. PICK f \in parent.fragments : Covers(f, b) /\ f.lsn <= GcHorizon
    BY DEF GateHolds
  <2>4. f.lsn \in Int
    BY <1>1 DEF Fragment, Lsns
  <2> QED
    BY <1>1, <2>1, <2>3, <2>4
<1> QED
  BY <1>2, <1>3, Zenon DEF Next

\* The invariant the properties are read off.
LEMMA TimeTravelInv == Spec => []Inv
<1>1. Init => Inv
  <2>1. Init => GateHolds
    BY DEF Init, GateHolds
  <2> QED
    BY <2>1, TypeInit DEF Inv
<1>2. Inv /\ [Next]_vars => Inv'
  BY TypeNext, GateNext DEF Inv
<1> QED
  BY <1>1, <1>2, PTL DEF Spec

-----------------------------------------------------------------------------
\* The theorems.

\* Lakes, horizons and write sets keep their types: in particular the tail is
\* never truncated above the horizon, nor the horizon moved past the tip.
THEOREM TypeCorrect == Spec => []TypeOK
<1>1. Inv => TypeOK
  BY DEF Inv
<1> QED
  BY <1>1, TimeTravelInv, PTL

\* A block whose image is gone has a base at the effective horizon and above.
LEMMA DroppedBased ==
    ASSUME Inv, NEW b \in dropped, NEW read \in Int, GcHorizon <= read
    PROVE  Candidates(parent, b, read) # {}
<1>1. PICK f \in parent.fragments : Covers(f, b) /\ f.lsn <= GcHorizon
  BY DEF Inv, GateHolds
<1>2. f.lsn \in Int /\ GcHorizon \in Int
  BY HorizonIs DEF Inv, TypeOK, Lake, Fragment, Lsns
<1> QED
  BY <1>1, <1>2 DEF Candidates

\* A heap image is dropped only where a fragment stays behind as the base of
\* every read the horizon promises, then and ever after; the tail above it is
\* another matter (RetainedReads).
THEOREM BaseKeptHolds == Spec => []BaseKept
<1>1. Inv => BaseKept
  <2>1. SUFFICES ASSUME Inv, NEW b \in dropped, NEW read \in GcHorizon .. parent.tip
                 PROVE  Candidates(parent, b, read) # {}
    BY DEF BaseKept
  <2>2. GcHorizon \in Int /\ parent.tip \in Int
    BY <2>1, HorizonIs, LakeFields DEF Inv, TypeOK
  <2> QED
    BY <2>1, <2>2, DroppedBased
<1> QED
  BY <1>1, TimeTravelInv, PTL

\* What a served plan rebuilds: every change up to the read, for none of those
\* above its base was truncated.
LEMMA ServedExact ==
    ASSUME NEW lake \in Lake, NEW b, NEW read \in Int, NEW changes, changes \subseteq Int,
           Resolve(lake, b, read).kind = "Serve"
    PROVE  RolledForward(lake, changes, Resolve(lake, b, read)) = UpTo(changes, read)
<1>1. PICK plan : plan = Resolve(lake, b, read)
  OBVIOUS
<1>2. PICK base \in Int, floor \in Int :
        /\ plan.read = read /\ plan.base = base /\ base <= read /\ lake.tail_floor = floor
        /\ base = read \/ base >= floor
  BY <1>1, ServedPlan, LakeFields DEF Lsns
<1>3. {l \in changes : l <= base} \cup {l \in {m \in changes : m <= read} : l >= floor}
        = {l \in changes : l <= read}
  <2>1. ASSUME NEW l \in changes
        PROVE  l <= base \/ (l <= read /\ l >= floor) <=> l <= read
    <3>1. l \in Int
      OBVIOUS
    <3> QED
      BY <1>2, <3>1
  <2> QED
    BY <2>1
<1> QED
  BY <1>1, <1>2, <1>3 DEF RolledForward, UpTo

\* A read on a branch at or above its point is answered by the branch's own
\* fragments, or by the parent as it was at the branch point.
LEMMA BranchPlan ==
    ASSUME Inv, branch.lsn > 0, NEW b, NEW read \in branch.lsn .. branch.own.tip
    PROVE  LET plan == BranchResolve(parent, branch, b, read) IN
           \/ read > branch.lsn /\ plan = Resolve(branch.own, b, read) /\ plan.kind # "Uncovered"
           \/ /\ plan = Resolve(parent, b, branch.lsn)
              /\ read > branch.lsn => \A f \in branch.own.fragments : ~Covers(f, b)
<1>1. branch.lsn \in Int /\ branch.own.tip \in Int /\ read \in Int /\ branch.own \in Lake
  BY LakeFields DEF Inv, TypeOK
<1>2. CASE read <= branch.lsn
  <2>1. read = branch.lsn
    BY <1>1, <1>2
  <2> QED
    BY <1>1, <1>2, <2>1 DEF BranchResolve
<1>3. CASE ~(read <= branch.lsn)
  <2>1. CASE Resolve(branch.own, b, read).kind = "Uncovered"
    <3>1. \A f \in branch.own.fragments : ~Covers(f, b)
      BY <2>1 DEF Resolve, Serve, BelowHorizon, Candidates
    <3> QED
      BY <1>3, <2>1, <3>1 DEF BranchResolve
  <2>2. CASE Resolve(branch.own, b, read).kind # "Uncovered"
    BY <1>1, <1>3, <2>2 DEF BranchResolve
  <2> QED
    BY <2>1, <2>2
<1> QED
  BY <1>2, <1>3

\* A branch keeps the history it was created on, whatever the parent's horizon
\* and garbage collection do later, and sees nothing the parent wrote since.
THEOREM BranchReadsHolds == Spec => []BranchReads
<1>1. Inv => BranchReads
  <2> SUFFICES ASSUME Inv, branch.lsn > 0, NEW b \in Blocks, NEW read \in branch.lsn .. branch.own.tip
               PROVE  LET plan == BranchResolve(parent, branch, b, read)
                          fromOwn == read > branch.lsn /\ Candidates(branch.own, b, read) # {}
                          touched == \E f \in branch.own.fragments : Covers(f, b)
                      IN /\ b \in dropped /\ ~touched => Candidates(parent, b, branch.lsn) # {}
                         /\ plan.kind = "Serve" /\ (fromOwn \/ UpTo(bwrites[b], read) = {})
                              => Rebuilt(b, plan, fromOwn) = BranchTruth(b, read)
    BY DEF BranchReads
  <2> DEFINE plan == BranchResolve(parent, branch, b, read)
             fromOwn == read > branch.lsn /\ Candidates(branch.own, b, read) # {}
  <2>1. /\ parent \in Lake /\ branch.own \in Lake /\ branch.lsn \in Int /\ branch.own.tip \in Int
        /\ read \in Int /\ branch.lsn <= read
        /\ writes[b] \subseteq Int /\ bwrites[b] \subseteq Int
    BY LakeFields DEF Inv, TypeOK, Lsns
  <2>2. \/ read > branch.lsn /\ plan = Resolve(branch.own, b, read) /\ plan.kind # "Uncovered"
        \/ /\ plan = Resolve(parent, b, branch.lsn)
           /\ read > branch.lsn => \A f \in branch.own.fragments : ~Covers(f, b)
    BY BranchPlan
  <2>3. ASSUME b \in dropped
        PROVE  Candidates(parent, b, branch.lsn) # {}
    <3>1. GcHorizon <= branch.lsn
      BY <2>1, HorizonIs DEF Inv, TypeOK
    <3> QED
      BY <2>1, <2>3, <3>1, DroppedBased
  <2> HIDE DEF plan, fromOwn
  <2>4. ASSUME plan.kind = "Serve", fromOwn
        PROVE  Rebuilt(b, plan, fromOwn) = BranchTruth(b, read)
    <3>1. plan = Resolve(branch.own, b, read)
      BY <2>2, <2>4 DEF fromOwn, Candidates
    <3>2. RolledForward(branch.own, bwrites[b], plan) = UpTo(bwrites[b], read)
      BY <2>1, <2>4, <3>1, ServedExact
    <3>3. UpTo(writes[b], branch.lsn) = {l \in UpTo(writes[b], read) : l <= branch.lsn}
      BY <2>1 DEF UpTo
    <3> QED
      BY <2>4, <3>2, <3>3 DEF Rebuilt, BranchTruth
  <2>5. ASSUME plan.kind = "Serve", ~fromOwn, UpTo(bwrites[b], read) = {}
        PROVE  Rebuilt(b, plan, fromOwn) = BranchTruth(b, read)
    <3>1. plan = Resolve(parent, b, branch.lsn)
      <4>1. CASE read > branch.lsn /\ plan = Resolve(branch.own, b, read)
        BY <2>1, <2>5, <4>1, ServedPlan DEF fromOwn
      <4> QED
        BY <2>2, <4>1
    <3>2. RolledForward(parent, writes[b], plan) = UpTo(writes[b], branch.lsn)
      BY <2>1, <2>5, <3>1, ServedExact
    <3>3. UpTo(writes[b], branch.lsn) = {l \in UpTo(writes[b], read) : l <= branch.lsn}
      BY <2>1 DEF UpTo
    <3> QED
      BY <2>5, <3>2, <3>3 DEF Rebuilt, BranchTruth
  <2> QED
    BY <2>3, <2>4, <2>5 DEF plan, fromOwn
<1> QED
  BY <1>1, TimeTravelInv, PTL
=============================================================================
