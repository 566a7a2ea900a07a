------------------------------ MODULE HeapPage ------------------------------
(***************************************************************************)
(* One heap page as the page readers of this repository see it: the        *)
(* visibility rules of clog.rs and multixact.rs, the fragment emission of  *)
(* fragment.rs (a HOT chain collapsed to its visible version, addressed by *)
(* its root line pointer), the page rebuild of reconstruct.rs and the      *)
(* catalog scan of catalog.rs.                                             *)
(*                                                                         *)
(* Postgres itself (inserts, HOT and plain updates, deletes, row locks,    *)
(* multixacts, subtransactions, pruning and vacuum) is the environment.    *)
(* The page an emission reads is fixed, but the commit log it consults is  *)
(* the live one: it moves between two lookups of the same emission.        *)
(***************************************************************************)
EXTENDS Integers, Sequences, FiniteSets, SequencesExt, FiniteSetsExt

CONSTANTS
    Xids,        \* transaction ids, above FROZEN_XID
    SubOf,       \* [Xids -> Xids]: the top-level transaction of each
    Lockers,     \* bound: the transactions that take row locks
    NSlots,      \* bound: line pointers of the page
    MaxVers,     \* bound: row versions ever written
    MaxMultis,   \* bound: multixacts ever created
    PageBytes,   \* bytes of one commit-log page
    PageSize     \* bytes of the heap page

ASSUME HeapPageAssumption ==
    /\ Xids \subseteq Nat \ 0..2 /\ Xids # {}
    /\ SubOf \in [Xids -> Xids] /\ Lockers \subseteq Xids
    /\ \A x \in Xids : SubOf[SubOf[x]] = SubOf[x]
    /\ {NSlots, MaxVers, PageBytes} \subseteq Nat \ {0} /\ MaxMultis \in Nat
    /\ PageSize \in Nat /\ PageSize >= 60   \* header, one line pointer, one row

VARIABLES
    page,     \* sequence of line pointers, with their tuples
    clog,     \* commit log: byte number -> four two-bit statuses
    offsets,  \* pg_multixact/offsets: where each multixact's members start
    members,  \* pg_multixact/members
    vers,     \* history: every row version, its root, creator and enders
    em        \* an emission of the page in progress

vars == <<page, clog, offsets, members, vers, em>>

Offnums == 1..NSlots

INVALID_XID == 0
FROZEN_XID == 2

LP_UNUSED == 0
LP_NORMAL == 1
LP_REDIRECT == 2
LP_DEAD == 3

\* Multixact member statuses up to this one are row locks.
STATUS_FOR_UPDATE == 3
ForKeyShare == 0
NoKeyUpdate == 4
Update == 5

-----------------------------------------------------------------------------
(* The commit log: two bits per transaction, four per byte.               *)

XactsPerByte == 4
InProgress == 0
Committed == 1
Aborted == 2
SubCommitted == 3

\* byte_bit and xid_to_page: the byte of the log and the weight of the bits.
ByteOf(x) == (x \div (PageBytes * XactsPerByte)) * PageBytes
             + (x % (PageBytes * XactsPerByte)) \div XactsPerByte
WeightOf(x) == 4 ^ (x % XactsPerByte)

status_in_page(log, x) == (log[ByteOf(x)] \div WeightOf(x)) % 4

\* BootstrapTransactionId and FrozenTransactionId predate the log.
resolve(log, x) == IF x \in {1, 2} THEN Committed ELSE status_in_page(log, x)

\* The "most recent multixact" error: no later entry bounds the members.
NoUpdater == 0
Unbounded == -1

\* Entries of a page the server has not written yet read as zero.
read_offset(offs, m) == IF m \in DOMAIN offs THEN offs[m] ELSE 0

MutUpdater(offs, mem, m) ==
    LET start == read_offset(offs, m)
        end == read_offset(offs, m + 1)
    IN  IF end <= start THEN Unbounded ELSE mem[start].xid

resolve_updater(offs, mem, m) ==
    LET start == read_offset(offs, m)
        end == read_offset(offs, m + 1)
        updaters == {o \in start..(end - 1) : mem[o].status > STATUS_FOR_UPDATE}
    IN  IF end <= start THEN Unbounded
        ELSE IF updaters = {} THEN NoUpdater
        ELSE mem[Min(updaters)].xid

MutVisibleLock(log, t) ==
    IF resolve(log, t.xmin) # Committed THEN "no"
    ELSE IF t.xmax = INVALID_XID \/ (t.multi /\ t.lockOnly) THEN "yes"
    ELSE IF t.multi THEN "error"
    ELSE IF resolve(log, t.xmax) = Committed THEN "no" ELSE "yes"

\* Hint bits are never read; LOCK_ONLY and IS_MULTI are.
tuple_visible(log, t) ==
    IF resolve(log, t.xmin) # Committed THEN "no"
    ELSE IF t.xmax = INVALID_XID \/ t.lockOnly THEN "yes"
    ELSE IF t.multi THEN "error"
    ELSE IF resolve(log, t.xmax) = Committed THEN "no" ELSE "yes"

tuple_visible_with_multixact(log, offs, mem, t) ==
    IF t.multi /\ ~t.lockOnly
    THEN IF resolve(log, t.xmin) # Committed THEN "no"
         ELSE LET u == resolve_updater(offs, mem, t.xmax) IN
              CASE u = Unbounded -> "error"
                [] u = NoUpdater -> "yes"
                [] OTHER -> IF resolve(log, u) = Committed THEN "no" ELSE "yes"
    ELSE tuple_visible(log, t)

-----------------------------------------------------------------------------
(* Fragment emission: one row per HOT chain, at the root's line pointer.  *)

Tuples(pg) == {o \in DOMAIN pg : pg[o].lp = LP_NORMAL}

MutIsRoot(pg, o) == \/ pg[o].lp \in {LP_REDIRECT, LP_DEAD}
                    \/ pg[o].lp = LP_NORMAL /\ ~pg[o].tup.heapOnly

IsRoot(pg, o) == \/ pg[o].lp = LP_REDIRECT
                 \/ pg[o].lp = LP_NORMAL /\ ~pg[o].tup.heapOnly
StartOf(pg, o) == IF pg[o].lp = LP_REDIRECT THEN pg[o].to ELSE o

\* <<root line pointer, first tuple of its chain>>, in line-pointer order.
chain_roots(pg) ==
    LET roots[o \in 0..Len(pg)] ==
            IF o = 0 THEN <<>>
            ELSE IF IsRoot(pg, o) THEN Append(roots[o - 1], <<o, StartOf(pg, o)>>)
            ELSE roots[o - 1]
    IN  roots[Len(pg)]

\* What visible_version does at line pointer c: a version, the next line
\* pointer of the chain, nothing, or the error of tuple_visible.
Verdict(k, o) == [kind |-> k, at |-> o]

MutVisitStep(pg, log, c) ==
    IF pg[c].lp # LP_NORMAL THEN Verdict("none", 0)
    ELSE LET t == pg[c].tup
             v == tuple_visible(log, t)
         IN  CASE v = "yes"   -> Verdict("row", c)
               [] v = "error" -> Verdict("error", 0)
               [] OTHER -> IF t.ctid \notin {0, c}
                           THEN Verdict("next", t.ctid) ELSE Verdict("none", 0)

VisitStep(pg, log, c) ==
    IF pg[c].lp # LP_NORMAL THEN Verdict("none", 0)
    ELSE LET t == pg[c].tup
             v == tuple_visible(log, t)
         IN  CASE v = "yes"   -> Verdict("row", c)
               [] v = "error" -> Verdict("error", 0)
               [] OTHER -> IF t.hotUpdated /\ t.ctid \notin {0, c}
                           THEN Verdict("next", t.ctid) ELSE Verdict("none", 0)

visible_version(pg, log, start) ==
    LET walk[k \in 0..Len(pg)] ==
            IF k = 0 THEN VisitStep(pg, log, start)
            ELSE IF walk[k - 1].kind = "next"
                 THEN VisitStep(pg, log, walk[k - 1].at) ELSE walk[k - 1]
    IN  walk[Len(pg)]

\* emit_page against a commit log that does not move.
EmitPage(pg, log) ==
    LET found == {[root |-> r[1], v |-> visible_version(pg, log, r[2])] : r \in Range(chain_roots(pg))}
    IN  [fails |-> \E f \in found : f.v.kind = "error",
         rows |-> {<<f.root, pg[f.v.at].tup.ver>> : f \in {g \in found : g.v.kind = "row"}}]

\* Catalog::load's scan keeps every LP_NORMAL tuple, not chains, and drops
\* a tuple whose visibility check fails.
CatalogScan(pg, log) ==
    {pg[o].tup.ver : o \in {p \in Tuples(pg) : tuple_visible(log, pg[p].tup) = "yes"}}

-----------------------------------------------------------------------------
(* The rebuild: RawTuple::from_page on every tuple, then build_page.      *)

HeaderSize == 24
ItemIdSize == 4
TupleHeaderSize == 23
MaxAlign(n) == ((n + 7) \div 8) * 8

\* t_hoff: the header, the null bitmap (ceil(natts / 8) bytes), aligned.
HOff(t) == MaxAlign(TupleHeaderSize + t.bitmap)
TupleLen(t) == HOff(t) + t.attrs

MutEncode(t) == [t EXCEPT !.lockOnly = FALSE, !.multi = FALSE, !.hotUpdated = FALSE]

\* from_page keeps the datum bytes, the bitmap, xmin, xmax, ctid and the HOT
\* flags; infomask() synthesises the rest, so LOCK_ONLY and IS_MULTI are lost.
encode_raw_tuple(t) == [t EXCEPT !.lockOnly = FALSE, !.multi = FALSE]

RawSlot(item) ==
    IF item.lp = LP_NORMAL THEN [item EXCEPT !.tup = encode_raw_tuple(item.tup)]
    ELSE item

\* place_tuple: downwards from the end, each tuple in an aligned slot; upper
\* is -1 once a tuple has not fitted.
build_page(slots) ==
    LET lower == HeaderSize + Len(slots) * ItemIdSize
        upper[k \in 0..Len(slots)] ==
            IF k = 0 THEN PageSize
            ELSE IF slots[k].lp # LP_NORMAL \/ upper[k - 1] = -1 THEN upper[k - 1]
            ELSE IF upper[k - 1] < lower + MaxAlign(TupleLen(slots[k].tup)) THEN -1
            ELSE upper[k - 1] - MaxAlign(TupleLen(slots[k].tup))
    IN  [ok |-> lower <= PageSize /\ upper[Len(slots)] # -1,
         page |-> slots,
         at |-> [o \in {p \in DOMAIN slots : slots[p].lp = LP_NORMAL} |-> upper[o]]]

Rebuild(pg) == build_page([o \in DOMAIN pg |-> RawSlot(pg[o])])

-----------------------------------------------------------------------------
(* The server: what transactions, pruning and vacuum do to the page.      *)

NoTuple == [xmin |-> 0, xmax |-> 0, lockOnly |-> FALSE, multi |-> FALSE, ctid |-> 0,
            heapOnly |-> FALSE, hotUpdated |-> FALSE, bitmap |-> 0, attrs |-> 0, ver |-> 0]
Item(lp, to, tup) == [lp |-> lp, to |-> to, tup |-> tup]
Unused == Item(LP_UNUSED, 0, NoTuple)

\* A transaction's fate: a subtransaction shares its parent's.
Alive(x) == x \in Xids /\ status_in_page(clog, x) \in {InProgress, SubCommitted}
            /\ status_in_page(clog, SubOf[x]) = InProgress
TrulyCommitted(x) == \/ x = FROZEN_XID
                     \/ /\ x \in Xids /\ status_in_page(clog, SubOf[x]) = Committed
                        /\ status_in_page(clog, x) # Aborted
\* It can still act: its commit has not begun.  The history ends with the
\* emission.
Running(x) == em.pc \in {"idle", "walk"} /\ \A y \in {x, SubOf[x]} : status_in_page(clog, y) = InProgress
Committing(t) == \E y \in Xids : SubOf[y] = t /\ status_in_page(clog, y) = SubCommitted

TopLevel == {x \in Xids : SubOf[x] = x}
Children(t) == {y \in Xids \ {t} : SubOf[y] = t /\ status_in_page(clog, y) # Aborted}

SetStatus(log, S, st) ==
    LET bits(b, k) == IF \E x \in S : ByteOf(x) = b /\ x % XactsPerByte = k
                      THEN st ELSE (log[b] \div 4^k) % 4
    IN  [b \in DOMAIN log |-> bits(b, 0) + 4 * bits(b, 1) + 16 * bits(b, 2) + 64 * bits(b, 3)]

\* The committed rows of a history, and the roots that have none.
LiveVers(vs) == {v \in DOMAIN vs : /\ TrulyCommitted(vs[v].by)
                                   /\ ~\E x \in vs[v].ends : TrulyCommitted(x)}
LiveRows(vs) == {<<vs[v].root, v>> : v \in LiveVers(vs)}
Vacant(rows) == Offnums \ {r[1] : r \in rows}

\* The members the xmax of the tuple at c stands for.  A delete leaves the
\* tuple's own address in its ctid, an update the new version's.
XmaxMembers(c) ==
    LET t == page[c].tup
        last == IF t.xmax + 1 \in DOMAIN offsets THEN offsets[t.xmax + 1] - 1 ELSE Len(members)
    IN  CASE t.xmax = INVALID_XID -> {}
          [] t.multi              -> {members[o] : o \in offsets[t.xmax]..last}
          [] OTHER -> {[xid |-> t.xmax,
                        status |-> IF t.lockOnly THEN ForKeyShare
                                   ELSE IF t.ctid = c THEN Update ELSE NoKeyUpdate]}
IsUpdater(m) == m.status > STATUS_FOR_UPDATE
OthersAlive(c, x) == {m \in XmaxMembers(c) : m.xid # x /\ Alive(m.xid)}

\* Transaction x sees the version at c, and no update or delete of it stands.
Sees(c, x) == LET w == page[c].tup.xmin IN
              TrulyCommitted(w) \/ (Alive(w) /\ SubOf[w] = SubOf[x])
Standing(c) == {m \in XmaxMembers(c) : IsUpdater(m) /\ (Alive(m.xid) \/ TrulyCommitted(m.xid))}
Writable(c, x) == Sees(c, x) /\ Standing(c) = {}

\* The tuple at c stamped with member me beside the ones still active.
Stamp(t, others, me) ==
    [t EXCEPT !.xmax = IF others = {} THEN me.xid ELSE Len(offsets) + 1,
              !.multi = others # {},
              !.lockOnly = \A m \in others \cup {me} : ~IsUpdater(m)]
Record(others, me) ==
    \/ others = {} /\ UNCHANGED <<offsets, members>>
    \/ /\ others # {} /\ Len(offsets) < MaxMultis
       /\ offsets' = Append(offsets, Len(members) + 1)
       /\ members' = members \o SetToSeq(others) \o <<me>>

\* The tuples of a page fit when its free space is not negative.
Used(pg) ==
    LET used[k \in 0..Len(pg)] ==
            IF k = 0 THEN 0
            ELSE used[k - 1] + IF pg[k].lp = LP_NORMAL THEN MaxAlign(TupleLen(pg[k].tup)) ELSE 0
    IN  used
FitsOn(pg) == HeaderSize + Len(pg) * ItemIdSize + Used(pg)[Len(pg)] <= PageSize

\* PageAddItem takes the first unused line pointer, or a new one.
FreeSlots == {o \in Offnums : o \in DOMAIN page => page[o].lp = LP_UNUSED}
FreeSlot == Min(FreeSlots)
Put(pg, o, item) == IF o \in DOMAIN pg THEN [pg EXCEPT ![o] = item] ELSE Append(pg, item)

\* A new version at o: eight bytes of datums, and for every other version a
\* null bitmap of two bytes, which moves t_hoff.
NewItem(x, o, hot) ==
    LET v == Len(vers) + 1 IN
    Item(LP_NORMAL, 0, [NoTuple EXCEPT !.xmin = x, !.ctid = o, !.heapOnly = hot, !.ver = v,
                                       !.bitmap = 2 * ((v + 1) % 2), !.attrs = 8])
NewVer(x, root) == [root |-> root, by |-> x, ends |-> {}]
Ended(v, x) == [vers EXCEPT ![v].ends = @ \cup {x}]

\* While a subtransaction is open it is the only one of its family that writes.  The page an
\* emission is given is an image at one LSN, so once it has begun only the
\* fates of the transactions move.
Acted(y) == \/ \E v \in DOMAIN vers : y \in {vers[v].by} \cup vers[v].ends
            \/ \E c \in Tuples(page) : \E m \in XmaxMembers(c) : m.xid = y
CanWrite(x) == em.pc = "idle" /\ Running(x) /\ \A y \in Children(SubOf[x]) \ {x} : ~Acted(y)

Insert(x) ==
    /\ CanWrite(x) /\ Len(vers) < MaxVers
    /\ FreeSlots # {}
    /\ page' = Put(page, FreeSlot, NewItem(x, FreeSlot, FALSE))
    /\ FitsOn(page')
    /\ vers' = Append(vers, NewVer(x, FreeSlot))
    /\ UNCHANGED <<clog, offsets, members, em>>

\* A HOT update adds a heap-only version to the chain; a plain one a new root.
UpdateRow(x, c, hot) ==
    LET old == page[c].tup
        o == FreeSlot
        others == OthersAlive(c, x)
        me == [xid |-> x, status |-> NoKeyUpdate]
        root == IF hot THEN vers[old.ver].root ELSE o
    IN  /\ CanWrite(x) /\ Len(vers) < MaxVers
        /\ Writable(c, x) /\ FreeSlots # {}
        /\ Record(others, me)
        /\ page' = Put([page EXCEPT ![c].tup = [Stamp(old, others, me) EXCEPT
                                 !.ctid = o, !.hotUpdated = hot]],
                       o, NewItem(x, o, hot))
        /\ FitsOn(page')
        /\ vers' = Append(Ended(old.ver, x), NewVer(x, root))
        /\ UNCHANGED <<clog, em>>

\* A delete waits for the key-share locks of other transactions.
DeleteRow(x, c) ==
    LET old == page[c].tup
        others == OthersAlive(c, x)
        me == [xid |-> x, status |-> Update]
    IN  /\ CanWrite(x) /\ Writable(c, x)
        /\ \A m \in others : SubOf[m.xid] = SubOf[x]
        /\ Record(others, me)
        /\ page' = [page EXCEPT ![c].tup = [Stamp(old, others, me) EXCEPT
                         !.ctid = c, !.hotUpdated = FALSE]]
        /\ vers' = Ended(old.ver, x)
        /\ UNCHANGED <<clog, em>>

\* SELECT ... FOR KEY SHARE of a committed row, compatible with an update that
\* keeps the key.
LockRow(x, c) ==
    LET old == page[c].tup
        others == OthersAlive(c, x)
        me == [xid |-> x, status |-> ForKeyShare]
        locked == Stamp(old, others, me)
    IN  /\ CanWrite(x) /\ TrulyCommitted(old.xmin)
        /\ \A m \in Standing(c) : m.status = NoKeyUpdate /\ Alive(m.xid)
        /\ \A m \in XmaxMembers(c) : m.xid # x
        /\ Record(others, me)
        /\ page' = [page EXCEPT ![c].tup =
                IF locked.lockOnly THEN [locked EXCEPT !.ctid = c, !.hotUpdated = FALSE]
                ELSE locked]
        /\ UNCHANGED <<clog, vers, em>>

\* Two transactions lock a row of some other page.
OtherMulti ==
    /\ em.pc = "idle" /\ Len(offsets) \in 1..(MaxMultis - 1)
    /\ offsets' = Append(offsets, Len(members) + 1)
    /\ members' = Append(members, [xid |-> Min(Xids), status |-> ForKeyShare])
    /\ UNCHANGED <<page, clog, vers, em>>

-----------------------------------------------------------------------------
(* Commit and abort write the log; a subtransaction whose entry lies on    *)
(* another log page is sub-committed first and committed last.             *)

Apart(t) == {y \in Children(t) : ByteOf(y) \div PageBytes # ByteOf(t) \div PageBytes}

\* What was committed of the page being emitted, at some moment of it.
Observe(e, rows) == [e EXCEPT !.seen = @ \cup rows, !.absent = @ \cup Vacant(rows)]

CommittedBy(vs, t) ==
    LET fine(x) == \/ TrulyCommitted(x)
                   \/ x \in Xids /\ SubOf[x] = t /\ status_in_page(clog, x) # Aborted
    IN  {<<vs[v].root, v>> : v \in {u \in DOMAIN vs :
            fine(vs[u].by) /\ ~\E x \in vs[u].ends : fine(x)}}

SubCommit(t) ==
    /\ Running(t) /\ Apart(t) # {} /\ ~Committing(t)
    /\ clog' = SetStatus(clog, Apart(t), SubCommitted)
    /\ em' = [em EXCEPT !.subs = em.pc = "walk"]
    /\ UNCHANGED <<page, offsets, members, vers>>

Commit(t) ==
    /\ Running(t)
    /\ Apart(t) # {} => Committing(t)
    /\ clog' = SetStatus(clog, {t} \cup (Children(t) \ Apart(t)), Committed)
    /\ UNCHANGED <<page, offsets, members, vers>>
    /\ em' = IF em.pc # "walk" THEN em ELSE Observe(em, CommittedBy(vers, t))

CommitSubs(t) ==
    /\ em.pc \in {"idle", "walk"}
    /\ status_in_page(clog, t) = Committed /\ Committing(t)
    /\ clog' = SetStatus(clog, Apart(t), Committed)
    /\ UNCHANGED <<page, offsets, members, vers, em>>

\* A top-level transaction aborts with its subtransactions, a
\* subtransaction alone.
Abort(x) ==
    /\ Running(x) /\ ~Committing(SubOf[x])
    /\ clog' = SetStatus(clog, {x} \cup Children(x), Aborted)
    /\ UNCHANGED <<page, offsets, members, vers, em>>

DeadVer(v) == \/ ~TrulyCommitted(vers[v].by) /\ ~Alive(vers[v].by)
              \/ \E x \in vers[v].ends : TrulyCommitted(x)
UpdaterOf(c) == {m.xid : m \in {n \in XmaxMembers(c) : IsUpdater(n)}}

\* No tuple's link leads to a slot that was pruned and used again.
Intact == \A c \in Tuples(page) : LET t == page[c].tup IN
    t.hotUpdated => page[t.ctid].lp # LP_NORMAL \/ page[t.ctid].tup.xmin \in UpdaterOf(c)

\* heap_page_prune: the dead versions go.  The root line pointer of a chain
\* stays with its tuple, redirects to the first version left, or is dead.
DeadAt(o) == DeadVer(page[o].tup.ver)
Left(r) == {o \in Tuples(page) : ~DeadAt(o) /\ vers[page[o].tup.ver].root = r}
PrunedRoot(r) ==
    LET first == CHOOSE o \in Left(r) : \A p \in Left(r) : page[o].tup.ver <= page[p].tup.ver
    IN  CASE Left(r) = {} -> Item(LP_DEAD, 0, NoTuple)
          [] Left(r) # {} /\ first = r -> page[r]
          [] OTHER -> Item(LP_REDIRECT, first, NoTuple)

Prune ==
    /\ em.pc = "idle" /\ \E o \in Tuples(page) : DeadAt(o)
    /\ page' = [o \in DOMAIN page |->
           IF IsRoot(page, o) THEN PrunedRoot(o)
           ELSE IF o \in Tuples(page) /\ DeadAt(o) THEN Unused ELSE page[o]]
    /\ UNCHANGED <<clog, offsets, members, vers, em>>

Vacuum(o) ==
    /\ em.pc = "idle" /\ page[o].lp = LP_DEAD
    /\ page' = [page EXCEPT ![o] = Unused]
    /\ UNCHANGED <<clog, offsets, members, vers, em>>

-----------------------------------------------------------------------------
(* An emission reads the page once and the commit log tuple by tuple.      *)

EmitStart ==
    /\ em.pc = "idle"
    /\ em' = [pc |-> "walk", todo |-> chain_roots(page), out |-> {},
              subs |-> \E x \in Xids : status_in_page(clog, x) = SubCommitted,
              intact |-> Intact,
              seen |-> LiveRows(vers), absent |-> Vacant(LiveRows(vers))]
    /\ UNCHANGED <<page, clog, offsets, members, vers>>

\* visible_version's loop body on the head of the list: todo holds the root
\* and the line pointer reached.
EmitStep ==
    LET root == em.todo[1][1]
        v == VisitStep(page, clog, em.todo[1][2])
    IN  /\ em.pc = "walk" /\ em.todo # <<>>
        /\ em' = CASE v.kind = "next"  -> [em EXCEPT !.todo[1][2] = v.at]
                   [] v.kind = "row"   -> [em EXCEPT !.todo = Tail(@),
                        !.out = @ \cup {<<root, page[v.at].tup.ver>>}]
                   [] v.kind = "none"  -> [em EXCEPT !.todo = Tail(@)]
                   [] v.kind = "error" -> [em EXCEPT !.pc = "failed"]
        /\ UNCHANGED <<page, clog, offsets, members, vers>>

EmitDone ==
    /\ em.pc = "walk" /\ em.todo = <<>>
    /\ em' = [em EXCEPT !.pc = "done"]
    /\ UNCHANGED <<page, clog, offsets, members, vers>>

Idle == [pc |-> "idle", todo |-> <<>>, out |-> {}, subs |-> FALSE, intact |-> TRUE,
         seen |-> {}, absent |-> {}]

\* The page starts empty, or with a row written long ago.
FrozenRow(o) == Item(LP_NORMAL, 0, [NoTuple EXCEPT !.xmin = FROZEN_XID, !.ctid = o,
                                                   !.attrs = 8, !.ver = o])
Init ==
    /\ \E n \in {0, 1} : /\ page = [o \in 1..n |-> FrozenRow(o)]
                         /\ vers = [o \in 1..n |-> NewVer(FROZEN_XID, o)]
    /\ clog = [b \in {ByteOf(x) : x \in Xids} |-> 0]
    /\ offsets = <<>> /\ members = <<>>
    /\ em = Idle

Next ==
    \/ \E x \in Xids : Insert(x)
    \/ \E x \in Xids, c \in Tuples(page), hot \in BOOLEAN : UpdateRow(x, c, hot)
    \/ \E x \in Xids, c \in Tuples(page) : DeleteRow(x, c)
    \/ \E x \in Lockers, c \in Tuples(page) : LockRow(x, c)
    \/ OtherMulti
    \/ \E t \in TopLevel : SubCommit(t) \/ Commit(t) \/ CommitSubs(t)
    \/ \E x \in Xids : Abort(x)
    \/ Prune
    \/ \E o \in DOMAIN page : Vacuum(o)
    \/ EmitStart \/ EmitStep \/ EmitDone

Spec == Init /\ [][Next]_vars

-----------------------------------------------------------------------------
\* Types; and every chain an emission has still to begin (fragment.rs
\* chain_roots) starts at a tuple, the target of a redirect included.
TypeOK ==
    /\ Len(page) <= NSlots
    /\ \A o \in DOMAIN page :
          /\ page[o].lp \in LP_UNUSED..LP_DEAD
          /\ page[o].tup \in [xmin : Xids \cup {0, FROZEN_XID}, xmax : Nat, lockOnly : BOOLEAN,
                multi : BOOLEAN, ctid : 0..NSlots, heapOnly : BOOLEAN, hotUpdated : BOOLEAN,
                bitmap : {0, 2}, attrs : {0, 8}, ver : 0..MaxVers]
    /\ \A b \in DOMAIN clog : clog[b] \in 0..255
    /\ em.pc \in {"idle", "walk", "done", "failed"}
    /\ em.out \subseteq Offnums \X (1..MaxVers)
    /\ \A i \in 2..Len(em.todo) : page[em.todo[i][2]].lp = LP_NORMAL

\* fragment.rs emit_page: however transactions commit between its lookups of
\* the commit log, a finished emission gives every root line pointer at most
\* one row; of the writes the page it was given holds, that row was the
\* committed one at some moment of the emission, and a root is left out only
\* if it had none at some moment.
EmitLinear ==
    em.pc = "done" /\ ~em.subs /\ em.intact =>
        /\ em.out \subseteq em.seen
        /\ \A r, s \in em.out : r[1] = s[1] => r = s
        /\ \A o \in Offnums : (\A r \in em.out : r[1] # o) => o \in em.absent

\* The other properties are of the page and the log alone: an emission in
\* progress reaches no new pair of these.
Settled == em.pc = "idle" /\ \A x \in Xids : status_in_page(clog, x) # SubCommitted
NoUpdaterMulti == \A o \in Tuples(page) : page[o].tup.multi => page[o].tup.lockOnly

\* catalog.rs scan and fragment.rs emit_page, two readers written apart (one
\* by tuples, one by chains), find the same committed rows on every page,
\* unless a multixact with an updater makes one of them fail.
ReadersAgree ==
    Settled /\ NoUpdaterMulti /\ Intact =>
        /\ EmitPage(page, clog) = [fails |-> FALSE, rows |-> LiveRows(vers)]
        /\ CatalogScan(page, clog) = LiveVers(vers)

\* clog.rs tuple_visible_with_multixact: a version is reported visible exactly
\* when its writer committed and its updater, found among the members of a
\* multixact if need be, did not; it errs only on the newest multixact.
MultixactExact ==
    Settled => \A o \in Tuples(page) :
        LET t == page[o].tup
            v == tuple_visible_with_multixact(clog, offsets, members, t)
        IN  IF v = "error" THEN t.multi /\ t.xmax = Len(offsets)
            ELSE (v = "yes") = (t.ver \in LiveVers(vers))

\* reconstruct.rs: a page rebuilt from the raw tuples of a page has room for
\* them, places them apart, and emits the same rows; barring a row lock or a
\* multixact, whose mark a rebuilt tuple loses.
RebuildExact ==
    em.pc = "idle" /\ (\A o \in Tuples(page) : ~page[o].tup.lockOnly /\ ~page[o].tup.multi) =>
        LET b == Rebuild(page) IN
        /\ b.ok
        /\ EmitPage(b.page, clog) = EmitPage(page, clog)
        /\ \A o, p \in DOMAIN b.at : o # p =>
              \/ b.at[o] + TupleLen(page[o].tup) <= b.at[p]
              \/ b.at[p] + TupleLen(page[p].tup) <= b.at[o]

\* fragment.rs visible_version says that "only a HOT update to a newer version
\* on the same page continues the chain; anything else (aborted insert, plain
\* delete) is a dead end": on a settled page every emitted row is then the
\* committed row of the root it is emitted at.  The link is followed without
\* comparing the next version's xmin with this one's xmax, so it can lead to
\* an unrelated tuple in a slot that was pruned and used again.
DeadEnds ==
    Settled /\ NoUpdaterMulti => EmitPage(page, clog).rows \subseteq LiveRows(vers)
=============================================================================
