----------------------------- MODULE TimeTravel -----------------------------
(***************************************************************************)
(* Reads at a past LSN, garbage collection and branching over columnar     *)
(* fragments (timetravel.rs).  A fragment materialises a block range of a  *)
(* relation at one LSN; the change records above it are the tail, kept     *)
(* from tail_floor on.                                                     *)
(*                                                                         *)
(* The code is a policy: pure functions that say how a read resolves, when *)
(* a heap image may be dropped, and how far branches hold GC back.  They   *)
(* are translated here as operators, and put under the pageserver that     *)
(* the policy is meant to drive: one that writes, materialises fragments,  *)
(* drops images the gate calls redundant and truncates the tail.  One      *)
(* relation and one branch; a fragment of another relation covers none of  *)
(* its blocks.                                                             *)
(***************************************************************************)
EXTENDS Naturals, FiniteSets

CONSTANTS
    NBlocks,      \* blocks of the relation
    MaxLsn,       \* bound: LSNs of a timeline
    MaxFragments  \* bound: fragments of a timeline

ASSUME TimeTravelAssumption == NBlocks \in Nat /\ MaxLsn \in Nat /\ MaxFragments \in Nat

VARIABLES
    parent,   \* Lake of the parent timeline
    writes,   \* block |-> LSNs of the changes of the parent; the truth
    dropped,  \* blocks whose heap image was dropped: fragments are all there is
    horizon,  \* configured GC horizon of the parent (the PITR window)
    branch,   \* the branch: its point (0: no branch) and its own Lake
    bwrites   \* block |-> LSNs of the changes made on the branch

vars == <<parent, writes, dropped, horizon, branch, bwrites>>

Blocks == 0 .. NBlocks - 1
Lsns == 1 .. MaxLsn
Ranges == {r \in [start : Blocks, end : 1 .. NBlocks] : r.start < r.end}
Fragment == [start : Blocks, end : 1 .. NBlocks, lsn : Lsns]
Lake == [fragments : SUBSET Fragment, tail_floor : 0 .. MaxLsn, tip : 0 .. MaxLsn]

-----------------------------------------------------------------------------
\* How a read resolves.

Covers(f, b) == f.start <= b /\ b < f.end

\* The fragments a read may roll forward from.
Candidates(lake, b, read) ==
    {f \in lake.fragments : Covers(f, b) /\ f.lsn <= read}

Base(lake, b, read) ==
    CHOOSE f \in Candidates(lake, b, read) :
        \A g \in Candidates(lake, b, read) : g.lsn <= f.lsn

Serve(base, read) == [kind |-> "Serve", base |-> base, read |-> read]
BelowHorizon == [kind |-> "BelowHorizon"]
Uncovered == [kind |-> "Uncovered"]

\* A base that needs no tail, or whose whole tail is retained.
Reachable(lake, base, read) == base = read \/ base >= lake.tail_floor

Resolve(lake, b, read) ==
    IF Candidates(lake, b, read) # {}
    THEN LET base == Base(lake, b, read).lsn
         IN IF Reachable(lake, base, read) THEN Serve(base, read) ELSE BelowHorizon
    ELSE IF \E f \in lake.fragments : Covers(f, b) THEN BelowHorizon ELSE Uncovered

MutRedundant(lake, r, gc) ==
    \A b \in r.start .. r.end - 1 :
        \E f \in lake.fragments : Covers(f, b) /\ f.lsn >= lake.tail_floor

\* The GC gate: the heap image of a range may go.
ImageRedundant(lake, r, gc) ==
    \A b \in r.start .. r.end - 1 :
        \E f \in lake.fragments :
            Covers(f, b) /\ f.lsn <= gc /\ f.lsn >= lake.tail_floor

MutHorizonMax(configured, points) ==
    CHOOSE h \in {configured} \cup points :
        \A p \in {configured} \cup points : h >= p

\* Branches hold the parent's history back.
EffectiveHorizon(configured, points) ==
    CHOOSE h \in {configured} \cup points :
        \A p \in {configured} \cup points : h <= p

MutBranchResolve(par, br, b, read) ==
    IF read <= br.lsn
    THEN Resolve(par, b, read)
    ELSE LET own == Resolve(br.own, b, read)
         IN IF own.kind = "Uncovered" THEN Resolve(par, b, read) ELSE own

\* A read on a branch: its own fragments first, else the parent as it was at
\* the branch point.
BranchResolve(par, br, b, read) ==
    IF read <= br.lsn
    THEN Resolve(par, b, read)
    ELSE LET own == Resolve(br.own, b, read)
         IN IF own.kind = "Uncovered" THEN Resolve(par, b, br.lsn) ELSE own

-----------------------------------------------------------------------------
\* The pageserver under this policy.

EmptyLake(lsn) == [fragments |-> {}, tail_floor |-> lsn, tip |-> lsn]
Points == IF branch.lsn = 0 THEN {} ELSE {branch.lsn}
GcHorizon == EffectiveHorizon(horizon, Points)

Init ==
    /\ parent = EmptyLake(0)
    /\ writes = [b \in Blocks |-> {}]
    /\ dropped = {}
    /\ horizon = 0
    /\ branch = [lsn |-> 0, own |-> EmptyLake(0)]
    /\ bwrites = [b \in Blocks |-> {}]

\* A change of block b reaches the parent, or the branch.
Write(b) ==
    /\ parent.tip < MaxLsn
    /\ parent' = [parent EXCEPT !.tip = @ + 1]
    /\ writes' = [writes EXCEPT ![b] = @ \cup {parent.tip + 1}]
    /\ UNCHANGED <<dropped, horizon, branch, bwrites>>

BranchWrite(b) ==
    /\ branch.lsn > 0 /\ branch.own.tip < MaxLsn
    /\ branch' = [branch EXCEPT !.own.tip = @ + 1]
    /\ bwrites' = [bwrites EXCEPT ![b] = @ \cup {branch.own.tip + 1}]
    /\ UNCHANGED <<parent, writes, dropped, horizon>>

\* The tee materialises a range at the current tip.
At(r, lsn) == [start |-> r.start, end |-> r.end, lsn |-> lsn]

Emit(r) ==
    /\ parent.tip > 0 /\ Cardinality(parent.fragments) < MaxFragments
    /\ parent' = [parent EXCEPT !.fragments = @ \cup {At(r, parent.tip)}]
    /\ UNCHANGED <<writes, dropped, horizon, branch, bwrites>>

BranchEmit(r) ==
    /\ branch.own.tip > branch.lsn /\ branch.own.fragments = {}
    /\ branch' = [branch EXCEPT !.own.fragments = {At(r, branch.own.tip)}]
    /\ UNCHANGED <<parent, writes, dropped, horizon, bwrites>>

AdvanceHorizon ==
    /\ horizon < parent.tip
    /\ horizon' = horizon + 1
    /\ UNCHANGED <<parent, writes, dropped, branch, bwrites>>

DropImage(r) ==
    /\ ImageRedundant(parent, r, GcHorizon)
    /\ dropped' = dropped \cup (r.start .. r.end - 1)
    /\ UNCHANGED <<parent, writes, horizon, branch, bwrites>>

\* The tail is truncated, up to the horizon (docs/v2c-p7.md: the records "are
\* kept down to gc_horizon").  Nothing asks whether a block without an image
\* still has a base above the new floor.
TruncateTail ==
    /\ \E floor \in parent.tail_floor + 1 .. GcHorizon :
          parent' = [parent EXCEPT !.tail_floor = floor]
    /\ UNCHANGED <<writes, dropped, horizon, branch, bwrites>>

\* A branch inherits the parent's history at a point that is still readable.
CreateBranch ==
    /\ branch.lsn = 0
    /\ \E lsn \in horizon .. parent.tip :
          /\ lsn > 0
          /\ branch' = [lsn |-> lsn, own |-> EmptyLake(lsn)]
    /\ UNCHANGED <<parent, writes, dropped, horizon, bwrites>>

Next ==
    \/ \E b \in Blocks : Write(b) \/ BranchWrite(b)
    \/ \E r \in Ranges : Emit(r) \/ BranchEmit(r) \/ DropImage(r)
    \/ AdvanceHorizon
    \/ TruncateTail
    \/ CreateBranch

Spec == Init /\ [][Next]_vars

-----------------------------------------------------------------------------
\* Every lake, write set and horizon is within its bounds; the tail floor and
\* the horizon never pass the tip.
TypeOK ==
    /\ parent \in Lake
    /\ writes \in [Blocks -> SUBSET Lsns]
    /\ dropped \subseteq Blocks
    /\ horizon \in 0 .. parent.tip
    /\ branch \in [lsn : 0 .. MaxLsn, own : Lake]
    /\ bwrites \in [Blocks -> SUBSET Lsns]
    /\ parent.tail_floor <= horizon

UpTo(lsns, bound) == {l \in lsns : l <= bound}

\* What a plan rebuilds from a lake: what its base holds and the records of the
\* tail that still exist.
RolledForward(lake, changes, plan) ==
    UpTo(changes, plan.base) \cup {l \in UpTo(changes, plan.read) : l >= lake.tail_floor}

\* What image_redundant says of the images it gives up: for every read from the
\* effective horizon to the tip, the newest fragment of a block whose image is
\* gone and the retained tail reconstruct the block.  (Where they do not,
\* resolve answers BelowHorizon.)  Not so once the tail is truncated past that
\* fragment.
RetainedReads ==
    \A b \in dropped : \A read \in GcHorizon .. parent.tip :
        /\ Candidates(parent, b, read) # {}
        /\ RolledForward(parent, writes[b], Serve(Base(parent, b, read).lsn, read))
              = UpTo(writes[b], read)

\* What is left of it when the tail is truncated to the horizon (the gate of
\* image_redundant under effective_gc_horizon): a block whose image is gone has
\* a base for every read the horizon promises, however the horizon moved and
\* whatever branches were made since.
BaseKept ==
    \A b \in dropped : \A read \in GcHorizon .. parent.tip :
        Candidates(parent, b, read) # {}

\* The state of block b on the branch at an LSN: the parent's changes up to the
\* branch point and the branch's own.
BranchTruth(b, read) ==
    <<{l \in UpTo(writes[b], read) : l <= branch.lsn}, UpTo(bwrites[b], read)>>

Rebuilt(b, plan, fromOwn) ==
    IF fromOwn
    THEN <<UpTo(writes[b], branch.lsn), RolledForward(branch.own, bwrites[b], plan)>>
    ELSE <<RolledForward(parent, writes[b], plan), {}>>

\* A branch keeps the history it was created on (Branch::resolve,
\* effective_gc_horizon).  A block without an image and without a fragment of
\* the branch keeps a base in the parent at or below the branch point, and a
\* read that is served rebuilds exactly the parent's changes up to the branch
\* point, none made later, plus the branch's own - provided the branch has a
\* fragment of every block it changed at or below the read.
BranchReads ==
    branch.lsn > 0 =>
    \A b \in Blocks : \A read \in branch.lsn .. branch.own.tip :
        LET plan == BranchResolve(parent, branch, b, read)
            fromOwn == read > branch.lsn /\ Candidates(branch.own, b, read) # {}
            touched == \E f \in branch.own.fragments : Covers(f, b)
        IN /\ b \in dropped /\ ~touched => Candidates(parent, b, branch.lsn) # {}
           /\ plan.kind = "Serve" /\ (fromOwn \/ UpTo(bwrites[b], read) = {})
                => Rebuilt(b, plan, fromOwn) = BranchTruth(b, read)

-----------------------------------------------------------------------------
\* What makes the properties above inductive.

\* Half of the gate a block passed when its image was dropped still holds: one
\* of its fragments is below the horizon.
GateHolds ==
    \A b \in dropped : \E f \in parent.fragments : Covers(f, b) /\ f.lsn <= GcHorizon

Inv == TypeOK /\ GateHolds
=============================================================================
